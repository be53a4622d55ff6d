------------------------ MODULE CollectionMigration ------------------------
(***************************************************************************)
(* scripts/migrate_qdrant_hybrid.py beside the application it migrates: the*)
(* script ingests every policy file into a new collection and points a     *)
(* name at it, the workers of the application create the collection they   *)
(* are configured with if it is not there, administrators publish uploads  *)
(* in it, and an operator follows what the script logs and raises.  A      *)
(* collection is the set of the documents in it.                           *)
(***************************************************************************)
EXTENDS FiniteSets, Naturals

CONSTANTS Files,    \* the policy directory
          Uploads,  \* what administrators publish beside it
          MaxRuns   \* bound: runs of the script

ASSUME MigrationAssumption ==
    IsFiniteSet(Files) /\ Files \intersect Uploads = {} /\ MaxRuns \in Nat

Bare == "policies"         \* the collection of the time before the script
LiveAlias == "policies_live"
Configured == {Bare, LiveAlias}
NewName == [target \in Configured |->
              IF target = Bare THEN "policies_v2" ELSE "policies_live_v2"]
Physical == Configured \union {NewName[target] : target \in Configured}
Absent == "absent"

VARIABLES collections,  \* the documents in each physical collection that exists
          aliases,      \* what each alias resolves to
          setting,      \* QDRANT_COLLECTION
          script,       \* the run of the script
          runs,
          told,         \* the collections a run has told the operator to delete
          answered,     \* the collections the cached answers are from
          obeyed        \* history: the operator deleted a collection that was being served

migration_vars == <<collections, aliases, setting, script, runs, told, answered, obeyed>>

NotRunning == [pc |-> "idle", target |-> Bare, left |-> {}, failed |-> FALSE, known |-> {}]

MigrationInit ==
    /\ collections \in {[n \in {} |-> {}], [n \in {Bare} |-> Files]}
    /\ aliases = [n \in {} |-> Absent]
    /\ setting = Bare
    /\ script = NotRunning
    /\ runs = 0
    /\ told = {}
    /\ answered = {}
    /\ obeyed = FALSE

-----------------------------------------------------------------------------
\* What Qdrant does with a name.
ResolvesTo(name) ==
    IF name \in DOMAIN aliases THEN aliases[name]
    ELSE IF name \in DOMAIN collections THEN name ELSE Absent
CollectionThere(name) == ResolvesTo(name) # Absent

With(f, name, value) == [n \in DOMAIN f \union {name} |-> IF n = name THEN value ELSE f[n]]
Without(f, names) == [n \in DOMAIN f \ names |-> f[n]]

HasAll(name) == name # Absent /\ Files \subseteq collections[name]
Served == ResolvesTo(setting)

Goto(pc) == script' = [script EXCEPT !.pc = pc]

\* blue_green_migrate: a new collection, never one that is there.
NewCollection == NewName[script.target]

StartMigration ==
    /\ script.pc = "idle" /\ runs < MaxRuns
    /\ runs' = runs + 1
    /\ IF CollectionThere(NewName[setting])
       THEN told' = told \union {NewName[setting]} /\ UNCHANGED script
       ELSE /\ script' = [NotRunning EXCEPT !.pc = "create", !.target = setting, !.left = Files]
            /\ UNCHANGED told
    /\ UNCHANGED <<collections, aliases, setting, answered, obeyed>>

CreateNew ==
    /\ script.pc = "create"
    /\ collections' = With(collections, NewCollection, {})
    /\ Goto("ingest")
    /\ UNCHANGED <<aliases, setting, runs, told, answered, obeyed>>

\* seed_docs: each file on its own; one that fails is noted and skipped.
IngestFile(file, ok) ==
    /\ script.pc = "ingest" /\ file \in script.left
    /\ collections' = IF ok THEN With(collections, NewCollection, collections[NewCollection] \union {file})
                      ELSE collections
    /\ script' = [script EXCEPT !.left = @ \ {file}, !.failed = @ \/ ~ok]
    /\ UNCHANGED <<aliases, setting, runs, told, answered, obeyed>>

\* Mutant: a file that failed is logged, and that is all.
NothingIngested(report) == Files = {}

\* _require_complete_corpus and the two comparisons after it.
Incomplete(report) == report.failed \/ Files = {}

CheckCorpus ==
    /\ script.pc = "ingest" /\ script.left = {}
    /\ Goto(IF Incomplete(script) THEN "idle" ELSE "read_aliases")
    /\ UNCHANGED <<collections, aliases, setting, runs, told, answered, obeyed>>

\* _cutover_alias: what exists is read first, and acted upon later.
ReadAliases ==
    /\ script.pc = "read_aliases"
    /\ script' = [script EXCEPT
                    !.known = DOMAIN aliases,
                    !.pc = IF script.target \in DOMAIN aliases THEN "swap" ELSE "look"]
    /\ UNCHANGED <<collections, aliases, setting, runs, told, answered, obeyed>>

\* Mutant: the old alias is deleted in a call of its own.
SwapInTwo ==
    /\ script.pc = "swap"
    /\ IF script.target \in DOMAIN aliases
       THEN aliases' = Without(aliases, {script.target}) /\ UNCHANGED script
       ELSE aliases' = With(aliases, script.target, NewCollection) /\ Goto("invalidate")
    /\ UNCHANGED <<collections, setting, runs, told, answered, obeyed>>

\* Delete and create in one request.
SwapAlias ==
    /\ script.pc = "swap"
    /\ aliases' = With(aliases, script.target, NewCollection)
    /\ Goto("invalidate")
    /\ UNCHANGED <<collections, setting, runs, told, answered, obeyed>>

LookForBare ==
    /\ script.pc = "look"
    /\ Goto(IF CollectionThere(script.target) THEN "look_live" ELSE "claim")
    /\ UNCHANGED <<collections, aliases, setting, runs, told, answered, obeyed>>

\* A fresh install; Qdrant refuses the alias if a worker has created the collection since.
ClaimName ==
    /\ script.pc = "claim"
    /\ IF script.target \in DOMAIN collections
       THEN Goto("idle") /\ UNCHANGED aliases
       ELSE aliases' = With(aliases, script.target, NewCollection) /\ Goto("invalidate")
    /\ UNCHANGED <<collections, setting, runs, told, answered, obeyed>>

\* The first migration: a name of its own for the alias.
LookForLive ==
    /\ script.pc = "look_live"
    /\ Goto(IF LiveAlias \in script.known \/ CollectionThere(LiveAlias) THEN "idle"
            ELSE "add_live")
    /\ UNCHANGED <<collections, aliases, setting, runs, told, answered, obeyed>>

AddLive ==
    /\ script.pc = "add_live"
    /\ aliases' = With(aliases, LiveAlias, NewCollection)
    /\ Goto("invalidate")
    /\ UNCHANGED <<collections, setting, runs, told, answered, obeyed>>

InvalidateCaches ==
    /\ script.pc = "invalidate"
    /\ answered' = {}
    /\ Goto("idle")
    /\ UNCHANGED <<collections, aliases, setting, runs, told, obeyed>>

\* A call fails, or the script is stopped.
ScriptFails ==
    /\ script.pc # "idle"
    /\ Goto("idle")
    /\ UNCHANGED <<collections, aliases, setting, runs, told, answered, obeyed>>

-----------------------------------------------------------------------------
\* A worker starts: QdrantVectorRepository makes sure there is a collection.
StartWorker ==
    /\ ~CollectionThere(setting)
    /\ collections' = With(collections, setting, {})
    /\ UNCHANGED <<aliases, setting, script, runs, told, answered, obeyed>>

AnswerQuestion ==
    /\ CollectionThere(setting)
    /\ answered' = answered \union {Served}
    /\ UNCHANGED <<collections, aliases, setting, script, runs, told, obeyed>>

\* seed_db.py ingests into what is configured.
SeedServed ==
    /\ CollectionThere(setting) /\ ~HasAll(Served)
    /\ collections' = With(collections, Served, collections[Served] \union Files)
    /\ answered' = {}
    /\ UNCHANGED <<aliases, setting, script, runs, told, obeyed>>

\* An upload is approved (PolicyIngestion has its steps): it is in the vector store alone,
\* never in the policy directory.
PublishUpload(doc) ==
    /\ CollectionThere(setting) /\ doc \notin collections[Served]
    /\ collections' = With(collections, Served, collections[Served] \union {doc})
    /\ answered' = {}
    /\ UNCHANGED <<aliases, setting, script, runs, told, obeyed>>

\* The operator: redeploys with the alias, deletes the old collection once it is not
\* served, and deletes what a run said is in its way.
Redeploy ==
    /\ setting = Bare /\ LiveAlias \in DOMAIN aliases
    /\ setting' = LiveAlias
    /\ UNCHANGED <<collections, aliases, script, runs, told, answered, obeyed>>

Drop(name) ==
    /\ collections' = Without(collections, {name})
    /\ aliases' = Without(aliases, {a \in DOMAIN aliases : aliases[a] = name})

DeleteBare ==
    /\ setting # Bare /\ Bare \in DOMAIN collections
    /\ Drop(Bare)
    /\ UNCHANGED <<setting, script, runs, told, answered, obeyed>>

DeleteAsTold(name) ==
    /\ name \in told \intersect DOMAIN collections /\ script.pc = "idle"
    /\ Drop(name)
    /\ told' = told \ {name}
    /\ obeyed' = (obeyed \/ name = Served)
    /\ UNCHANGED <<setting, script, runs, answered>>

MigrationNext ==
    \/ StartMigration \/ CreateNew \/ CheckCorpus \/ ReadAliases \/ SwapAlias \/ LookForBare
    \/ ClaimName \/ LookForLive \/ AddLive \/ InvalidateCaches \/ ScriptFails
    \/ \E file \in Files, ok \in BOOLEAN : IngestFile(file, ok)
    \/ StartWorker \/ AnswerQuestion \/ SeedServed \/ Redeploy \/ DeleteBare
    \/ \E name \in told : DeleteAsTold(name)
    \/ \E doc \in Uploads : PublishUpload(doc)

MigrationSpec == MigrationInit /\ [][MigrationNext]_migration_vars

-----------------------------------------------------------------------------
MigrationTypeOK ==
    /\ DOMAIN collections \subseteq Physical
    /\ \A n \in DOMAIN collections : collections[n] \subseteq Files \union Uploads
    /\ \A a \in DOMAIN aliases : aliases[a] \in DOMAIN collections
    /\ setting \in Configured
    /\ DOMAIN aliases \intersect DOMAIN collections = {}

\* An alias never resolves to a part of the policy directory: whatever fails or is
\* stopped, a collection is given a name only when every file is in it.
AliasedIsComplete == \A a \in DOMAIN aliases : HasAll(aliases[a])

\* The policy directory stays there: aliases are complete, and once every file is in what
\* the application is served by, no step of a migration, no crash of it and no restart makes
\* its name resolve to nothing or to fewer files, unless the operator deletes what is being
\* served.  Uploads are another matter: UploadsStay.
ServedStaysComplete ==
    [][/\ HasAll(Served) => obeyed' \/ HasAll(Served)'
       /\ AliasedIsComplete']_migration_vars

\* The script refuses to reuse the name of a new collection and tells to delete it: that
\* is meant for what an unfinished run left behind, not for what is served.
ToldOnlyLeftovers == ~obeyed

\* The document can be found.
Holds(doc) == Served # Absent /\ doc \in collections[Served]

\* The script "ingests every policy document" into the new collection: what was published
\* is still there after it.  Not so: only the policy directory is, whether the upload was
\* there when the run began or came between the ingestion and the alias.
UploadsStay ==
    [][\A doc \in Uploads :
           Holds(doc) => obeyed' \/ Holds(doc)']_migration_vars

\* The comment before the invalidation: after a migration no answer "cached from before
\* the migration ever ran" is served.
CachesFollow ==
    script.pc = "idle" /\ setting = LiveAlias /\ LiveAlias \in DOMAIN aliases =>
        answered \subseteq {Served}

=============================================================================
