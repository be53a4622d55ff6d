---------------------------- MODULE RagOpsConfig ----------------------------
(***************************************************************************)
(* The centralized RAG operations configuration: the singleton row of      *)
(* rag_ops_config, the admin requests that change it (RagOpsController     *)
(* over RagOpsRepository, and the corpus bump of invalidate_corpus_caches),*)
(* its audit log, the RagRuntimeConfigStore of every worker, and the       *)
(* RagOpsConfigPoller that carries a change to the other workers.          *)
(*                                                                         *)
(* The row is kept as the sequence of its committed versions, so a reader's*)
(* snapshot, a store's content and a response are version numbers.         *)
(* updated_at is the time its transaction began (PostgreSQL's now()), and  *)
(* a transaction may begin, wait for the row lock, and commit in any order.*)
(***************************************************************************)
EXTENDS Naturals, Sequences

CONSTANTS
    Workers,    \* uvicorn processes, one store and one poller each
    Admins,     \* admin requests in flight, one thread each
    Flags,      \* the columns update_config writes and _diff compares
    Requires,   \* pairs <<f, g>>: flag f may only be on while g is
    Payloads,   \* partial updates an admin may send: functions on subsets of Flags
    Seed,       \* the flags of the row when observation starts
    MaxClock,   \* bound: transactions begun and workers crashed
    Overlap     \* what admins may do at once: "turns" (nothing), "requests" (but one
                \* transaction at a time) or "transactions" (anything)

Switches == {"emergency_disabled", "safety_lockdown_enabled"}
Fields == Flags \union Switches

\* A partial update leaves the columns it does not mention alone (COALESCE).
Merge(fields, set) == [f \in Fields |-> IF f \in DOMAIN set THEN set[f] ELSE fields[f]]

\* validate_crag_state and validate_self_reflective_state, which the
\* constructor of RagRuntimeConfig repeats.
Consistent(fields) == \A pair \in Requires : fields[pair[1]] => fields[pair[2]]

Toggles == UNION {[{s} -> BOOLEAN] : s \in Switches}
Nothing == [f \in {} |-> TRUE]

\* An update, an emergency or lockdown switch, or a corpus bump.
Change == [set : Payloads \union Toggles, bump : {FALSE}]
            \union {[set |-> Nothing, bump |-> TRUE]}

ASSUME ConfigAssumption ==
    /\ Flags \intersect Switches = {}
    /\ Requires \subseteq Flags \X Flags
    /\ Payloads \subseteq UNION {[S -> BOOLEAN] : S \in SUBSET Flags}
    /\ Payloads \intersect Toggles = {}
    /\ Nothing \notin Payloads
    /\ Seed \in [Flags -> BOOLEAN]
    /\ \A pair \in Requires : Seed[pair[1]] => Seed[pair[2]]
    /\ MaxClock \in Nat \ {0}
    /\ Overlap \in {"turns", "requests", "transactions"}

VARIABLES
    versions,  \* the committed versions of the row, oldest first
    audit,     \* rag_ops_audit_log, in the order of its ids
    admin,     \* admin[a]: what request a is doing
    store,     \* store[w]: the version w's RagRuntimeConfigStore holds, 0 = not built
    poll,      \* poll[w]: the version w's poller has read, 0 = asleep
    seen,      \* seen[w]: its _last_seen_updated_at, 0 = None
    newest,    \* history: the newest version w's store has held since w started
    clock      \* the database's clock

vars == <<versions, audit, admin, store, poll, seen, newest, clock>>

Row == [fields : [Fields -> BOOLEAN], corpus : Nat \ {0}, stamp : 1..MaxClock]
Entry == [changes : UNION {[S -> BOOLEAN] : S \in SUBSET Fields}, corpus : Nat]

Last(seq) == seq[Len(seq)]
Later(v, u) == IF v >= u THEN v ELSE u
Current == Last(versions)

Idle == [phase |-> "idle"]
Admitted == [phase : {"admitted"}, worker : Workers, change : Change]
Begun == [phase : {"begun"}, worker : Workers, change : Change, stamp : 1..MaxClock]
Committed == [phase : {"committed"}, worker : Workers, change : Change, version : Nat \ {0}]
Request == {Idle} \union Admitted \union Begun \union Committed

IsUpdate(change) == change.set \in Payloads

----------------------------------------------------------------------------
Init ==
    /\ versions = <<[fields |-> [f \in Fields |-> IF f \in Flags THEN Seed[f] ELSE FALSE],
                     corpus |-> 1, stamp |-> 1]>>
    /\ audit = <<>>
    /\ admin = [a \in Admins |-> Idle]
    /\ store = [w \in Workers |-> 0]
    /\ poll = [w \in Workers |-> 0]
    /\ seen = [w \in Workers |-> 0]
    /\ newest = [w \in Workers |-> 0]
    /\ clock = 1

\* The first request a worker serves builds its store from the row.
BuildStore(w) ==
    /\ store[w] = 0
    /\ store' = [store EXCEPT ![w] = Len(versions)]
    /\ newest' = [newest EXCEPT ![w] = Len(versions)]
    /\ UNCHANGED <<versions, audit, admin, poll, seen, clock>>

----------------------------------------------------------------------------
(* Admin requests.                                                         *)

\* An update is checked against an unlocked read of the row first; the
\* switches and the corpus bump go straight to their transaction.
Admit(a, w, change) ==
    /\ admin[a].phase = "idle"
    /\ store[w] # 0
    /\ Overlap = "turns" => \A b \in Admins : admin[b].phase = "idle"
    /\ IsUpdate(change) => Consistent(Merge(Current.fields, change.set))
    /\ admin' = [admin EXCEPT ![a] = [phase |-> "admitted", worker |-> w, change |-> change]]
    /\ UNCHANGED <<versions, audit, store, poll, seen, newest, clock>>

\* The transaction begins: now() is fixed here, before the row lock is asked for.
Begin(a) ==
    /\ admin[a].phase = "admitted"
    /\ Overlap # "transactions" => \A b \in Admins : admin[b].phase # "begun"
    /\ clock < MaxClock
    /\ clock' = clock + 1
    /\ admin' = [admin EXCEPT ![a] = [phase |-> "begun", worker |-> admin[a].worker,
                                      change |-> admin[a].change, stamp |-> clock + 1]]
    /\ UNCHANGED <<versions, audit, store, poll, seen, newest>>

\* Mutant: a flag that is switched off is not recorded.
DiffOfOns(old, new) ==
    [f \in {g \in Flags : old.fields[g] # new.fields[g] /\ new.fields[g]} |-> new.fields[f]]

Diff(old, new) ==
    [f \in {g \in Flags : old.fields[g] # new.fields[g]} |-> new.fields[f]]

\* An update is audited iff a flag changed value; everything else always is.
Recorded(change, old, new) ==
    IF IsUpdate(change)
    THEN IF Diff(old, new) = Nothing
         THEN <<>>
         ELSE <<[changes |-> Diff(old, new), corpus |-> 0]>>
    ELSE <<[changes |-> change.set, corpus |-> IF change.bump THEN new.corpus ELSE 0]>>

\* Mutant: only the controller validates, on the row it read before the lock.
AllowedUnchecked(change, fields) == TRUE

\* What update_config validates again once it holds the row lock.
Allowed(change, fields) == IsUpdate(change) => Consistent(fields)

Rewritten(change, stamp) ==
    [fields |-> Merge(Current.fields, change.set),
     corpus |-> IF change.bump THEN Current.corpus + 1 ELSE Current.corpus,
     stamp |-> stamp]

\* Row lock, update, audit row and commit; the answer to the commit may be lost,
\* and then the request fails although its change is there.
Commit(a) ==
    /\ admin[a].phase = "begun"
    /\ LET change == admin[a].change
           new == Rewritten(change, admin[a].stamp)
       IN  /\ Allowed(change, new.fields)
           /\ versions' = Append(versions, new)
           /\ audit' = audit \o Recorded(change, Current, new)
           /\ \/ admin' = [admin EXCEPT ![a] = [phase |-> "committed",
                                                worker |-> admin[a].worker, change |-> change,
                                                version |-> Len(versions) + 1]]
              \/ admin' = [admin EXCEPT ![a] = Idle]
    /\ UNCHANGED <<store, poll, seen, newest, clock>>

\* The locked validation refuses the update, or the database fails the request.
Abort(a) ==
    /\ admin[a].phase \in {"admitted", "begun"}
    /\ admin' = [admin EXCEPT ![a] = Idle]
    /\ UNCHANGED <<versions, audit, store, poll, seen, newest, clock>>

\* RagOpsController._apply pushes what the transaction returned into the store
\* of the worker that served the request.
Apply(a) ==
    /\ admin[a].phase = "committed"
    /\ ~admin[a].change.bump
    /\ store' = [store EXCEPT ![admin[a].worker] = admin[a].version]
    /\ newest' = [newest EXCEPT ![admin[a].worker] = Later(@, admin[a].version)]
    /\ admin' = [admin EXCEPT ![a] = Idle]
    /\ UNCHANGED <<versions, audit, poll, seen, clock>>

\* invalidate_corpus_caches drops what bump_corpus_version returned.
BumpReturns(a) ==
    /\ admin[a].phase = "committed"
    /\ admin[a].change.bump
    /\ admin' = [admin EXCEPT ![a] = Idle]
    /\ UNCHANGED <<versions, audit, store, poll, seen, newest, clock>>

----------------------------------------------------------------------------
(* Propagation to the other workers.                                       *)

\* The poller's thread reads the row; the event loop acts on it later.
PollRead(w) ==
    /\ poll[w] = 0
    /\ poll' = [poll EXCEPT ![w] = Len(versions)]
    /\ UNCHANGED <<versions, audit, admin, store, seen, newest, clock>>

\* Mutant: only the first poll of a worker ever applies anything.
NewerOnce(w) == seen[w] = 0

Newer(w) == seen[w] = 0 \/ versions[poll[w]].stamp > seen[w]

PollApply(w) ==
    /\ poll[w] # 0
    /\ Newer(w)
    /\ seen' = [seen EXCEPT ![w] = versions[poll[w]].stamp]
    /\ store' = [store EXCEPT ![w] = poll[w]]
    /\ newest' = [newest EXCEPT ![w] = Later(@, poll[w])]
    /\ poll' = [poll EXCEPT ![w] = 0]
    /\ UNCHANGED <<versions, audit, admin, clock>>

\* Mutant: applying what was read may fail on any worker, after it was marked as seen.
PollMarksAnyway(w) ==
    /\ poll[w] # 0
    /\ Newer(w)
    /\ seen' = [seen EXCEPT ![w] = versions[poll[w]].stamp]
    /\ poll' = [poll EXCEPT ![w] = 0]
    /\ UNCHANGED <<versions, audit, admin, store, newest, clock>>

\* On a worker that has served no request the poller builds the store first; if
\* that second read of the row fails, the change is already marked as seen.
PollMarks(w) ==
    /\ poll[w] # 0
    /\ Newer(w)
    /\ store[w] = 0
    /\ seen' = [seen EXCEPT ![w] = versions[poll[w]].stamp]
    /\ poll' = [poll EXCEPT ![w] = 0]
    /\ UNCHANGED <<versions, audit, admin, store, newest, clock>>

PollSkip(w) ==
    /\ poll[w] # 0
    /\ ~Newer(w)
    /\ poll' = [poll EXCEPT ![w] = 0]
    /\ UNCHANGED <<versions, audit, admin, store, seen, newest, clock>>

\* A worker dies with the requests it serves; its transactions roll back.
Crash(w) ==
    /\ clock < MaxClock
    /\ clock' = clock + 1
    /\ admin' = [a \in Admins |->
                   IF admin[a].phase # "idle" /\ admin[a].worker = w THEN Idle ELSE admin[a]]
    /\ store' = [store EXCEPT ![w] = 0]
    /\ poll' = [poll EXCEPT ![w] = 0]
    /\ seen' = [seen EXCEPT ![w] = 0]
    /\ newest' = [newest EXCEPT ![w] = 0]
    /\ UNCHANGED <<versions, audit>>

----------------------------------------------------------------------------
AdminStep(a) ==
    \/ \E w \in Workers, change \in Change : Admit(a, w, change)
    \/ Begin(a)
    \/ Commit(a)
    \/ Abort(a)
    \/ Apply(a)
    \/ BumpReturns(a)

PollStep(w) == PollRead(w) \/ PollApply(w) \/ PollMarks(w) \/ PollSkip(w)

Next ==
    \/ \E a \in Admins : AdminStep(a)
    \/ \E w \in Workers : BuildStore(w) \/ PollStep(w) \/ Crash(w)

Spec == Init /\ [][Next]_vars

\* Every worker's poller keeps polling: its loop outlives a poll that fails.
FairSpec == Spec /\ \A w \in Workers : WF_vars(PollStep(w))
----------------------------------------------------------------------------
(* What the configuration service promises.                                *)

\* Versions, audit entries, requests and the workers' marks keep their shapes.
TypeOK ==
    /\ versions \in Seq(Row) \ {<<>>}
    /\ audit \in Seq(Entry)
    /\ admin \in [Admins -> Request]
    /\ \A a \in Admins : admin[a].phase = "committed" => admin[a].version <= Len(versions)
    /\ store \in [Workers -> 0..Len(versions)]
    /\ poll \in [Workers -> 0..Len(versions)]
    /\ seen \in [Workers -> 0..MaxClock]
    /\ newest \in [Workers -> 0..Len(versions)]
    /\ clock \in 1..MaxClock

\* No version of the row, whatever partial updates raced to produce it, turns a
\* dependent flag on without the flag it requires: so the constructor of
\* RagRuntimeConfig never raises, neither in _apply after the change was
\* committed nor in the poller after it has marked the version as seen.
AlwaysApplicable == \A i \in DOMAIN versions : Consistent(versions[i].fields)

\* The audit log, read in the order of its ids, explains the row: the last
\* entry that mentions a flag or a switch says its value, the last bump says the
\* corpus version, and what no entry mentions never changed.
AuditExplainsRow ==
    /\ \A f \in Fields :
         LET entries == {i \in DOMAIN audit : f \in DOMAIN audit[i].changes}
         IN  IF entries = {}
             THEN Current.fields[f] = versions[1].fields[f]
             ELSE \E i \in entries : /\ \A j \in entries : j <= i
                                     /\ audit[i].changes[f] = Current.fields[f]
    /\ \A i \in DOMAIN audit : audit[i].corpus <= Current.corpus
    /\ Current.corpus # 1 => \E i \in DOMAIN audit : audit[i].corpus = Current.corpus

\* What a poll may miss: when the poll that read some version is over, the worker's
\* store has held a row with a change whose transaction began no earlier.  Since the
\* row is cumulative, a version that never reached the store was overtaken: it began
\* before a transaction that committed ahead of it, and that one did reach the store.
PollMissesOnlyOvertaken ==
    [][\A w \in Workers :
         poll[w] # 0 /\ poll'[w] = 0 /\ store'[w] # 0 =>
             \E i \in 1..newest'[w] : versions[i].stamp >= versions[poll[w]].stamp]_vars

\* The poller's docstring says more: it pushes the row "if it has changed since the
\* last poll", so a poll that leaves its mark where it was read the row it saw before.
EveryChangeIsPushed ==
    [][\A w \in Workers :
         poll[w] # 0 /\ seen[w] # 0 /\ poll'[w] = 0 /\ seen'[w] = seen[w] =>
             versions[poll[w]].stamp = seen[w]]_vars

\* "every worker converges on the same config within one poll interval": once a
\* poll that read some version is over, the worker is not behind that version.
PollConverges ==
    [][\A w \in Workers :
         poll[w] # 0 /\ poll'[w] = 0 /\ store'[w] # 0 => store'[w] >= poll[w]]_vars

\* Once the admins stop, every worker that serves requests ends up with the row
\* and stays there; one that has built no store will build it from that row.
Converges == <>[](\A w \in Workers : store[w] \in {0, Len(versions)})

\* corpus_cache_invalidation_service: a bump is observed "immediately on the
\* worker that bumped it".
BumpIsObserved ==
    [][\A a \in Admins :
         admin[a].phase = "committed" /\ admin[a].change.bump /\ admin'[a] = Idle =>
             store'[admin[a].worker] \in {0} \union admin[a].version..Len(versions)]_vars
=============================================================================
