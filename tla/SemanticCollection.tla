------------------------- MODULE SemanticCollection -------------------------
(***************************************************************************)
(* QdrantSemanticQueryCache over the collection it keeps to itself: every  *)
(* worker creates it before its first operation, once, behind a flag and a *)
(* lock of its own; a clear deletes it and creates it again, without them. *)
(* Each call of the Qdrant client is a step, and any of them may fail: not *)
(* sent, or given up on while Qdrant has it, and then it may yet be done.  *)
(***************************************************************************)
EXTENDS Naturals, FiniteSets

CONSTANTS CacheWorkers,  \* processes: a flag and a lock each
          CacheThreads,
          WorkerOf,      \* the process of a thread
          MaxAbandoned   \* bound

Nobody == "nobody"
Unknown == "unknown"  \* who had given up

ASSUME CollectionAssumption ==
    /\ WorkerOf \in [CacheThreads -> CacheWorkers] /\ MaxAbandoned \in Nat
    /\ {Nobody, Unknown} \intersect CacheThreads = {}

VARIABLES exists,      \* the collection is there
          indexes,     \* its payload indexes
          ready,       \* the workers whose _collection_ready is set
          gate,        \* the thread that holds a worker's lock
          cacheop,     \* what each thread is doing
          abandoned,   \* the calls Qdrant has and nobody waits for, one of each kind at most
          creator,     \* history: the thread that created it, "nobody" if it was there
          cleared,     \* history: a clear has deleted the collection
          broken       \* history: a call failed between the deletion and the last index, or
                       \* was done after its caller had given up

collection_vars == <<exists, indexes, ready, gate, cacheop, abandoned, creator, cleared, broken>>

Indexed == {"cache_namespace", "top_k"}
Kinds == {"use", "clear"}  \* find_candidates and record use it alike

NoOp == [pc |-> "idle", kind |-> "use", recreating |-> FALSE, met |-> "none"]

CollectionInit ==
    /\ exists \in BOOLEAN
    /\ indexes = IF exists THEN Indexed ELSE {}
    /\ ready = {}
    /\ gate = [w \in CacheWorkers |-> Nobody]
    /\ cacheop = [t \in CacheThreads |-> NoOp]
    /\ abandoned = {}
    /\ creator = Nobody
    /\ cleared = FALSE
    /\ broken = FALSE

-----------------------------------------------------------------------------
Moves(t, pc) == cacheop' = [cacheop EXCEPT ![t].pc = pc]
Returns(t) == cacheop' = [cacheop EXCEPT ![t] = NoOp]
Mine(t) == WorkerOf[t]

BeginOp(t, kind) ==
    /\ cacheop[t].pc = "idle"
    /\ cacheop' = [cacheop EXCEPT ![t] = [NoOp EXCEPT !.pc = "flag", !.kind = kind]]
    /\ UNCHANGED <<exists, indexes, ready, gate, abandoned, creator, cleared, broken>>

\* _ensure_collection_ready: the flag, the lock, and the flag again.
AfterReady(t) == IF cacheop[t].kind = "clear" THEN "count" ELSE "operate"

CheckFlag(t) ==
    /\ cacheop[t].pc = "flag"
    /\ Moves(t, IF Mine(t) \in ready THEN AfterReady(t) ELSE "lock")
    /\ UNCHANGED <<exists, indexes, ready, gate, abandoned, creator, cleared, broken>>

\* Mutant: nobody waits for the lock.
Ungated(w) == TRUE

GateOpen(w) == gate[w] = Nobody

\* Mutant: the flag is set by who takes the lock, before there is a collection.
TakeGateReady(t) ==
    /\ cacheop[t].pc = "lock" /\ GateOpen(Mine(t))
    /\ IF Mine(t) \in ready
       THEN Moves(t, AfterReady(t)) /\ UNCHANGED <<gate, ready>>
       ELSE /\ Moves(t, "exists")
            /\ gate' = [gate EXCEPT ![Mine(t)] = t]
            /\ ready' = ready \union {Mine(t)}
    /\ UNCHANGED <<exists, indexes, abandoned, creator, cleared, broken>>

TakeGate(t) ==
    /\ cacheop[t].pc = "lock" /\ GateOpen(Mine(t))
    /\ IF Mine(t) \in ready
       THEN Moves(t, AfterReady(t)) /\ UNCHANGED gate
       ELSE Moves(t, "exists") /\ gate' = [gate EXCEPT ![Mine(t)] = t]
    /\ UNCHANGED <<exists, indexes, ready, abandoned, creator, cleared, broken>>

\* _ensure_collection has returned: into the gate, or out of the clear.
Ensured(t) ==
    IF cacheop[t].recreating
    THEN Returns(t) /\ UNCHANGED <<ready, gate>>
    ELSE /\ Moves(t, AfterReady(t))
         /\ ready' = ready \union {Mine(t)}
         /\ gate' = [gate EXCEPT ![Mine(t)] = Nobody]

CollectionExists(t) ==
    /\ cacheop[t].pc = "exists"
    /\ IF exists THEN Ensured(t) ELSE Moves(t, "create") /\ UNCHANGED <<ready, gate>>
    /\ UNCHANGED <<exists, indexes, abandoned, creator, cleared, broken>>

\* An exception leaves the operation, and the lock if it holds it.
Aborted(t, met) ==
    /\ cacheop' = [cacheop EXCEPT ![t] = [NoOp EXCEPT !.met = met]]
    /\ gate' = [w \in CacheWorkers |-> IF gate[w] = t THEN Nobody ELSE gate[w]]

CreateCollection(t) ==
    /\ cacheop[t].pc = "create"
    /\ IF exists
       THEN Aborted(t, "collision") /\ UNCHANGED <<exists, indexes, creator>>
       ELSE /\ exists' = TRUE /\ indexes' = {} /\ creator' = IF cleared THEN creator ELSE t
            /\ Moves(t, "index1") /\ UNCHANGED gate
    /\ UNCHANGED <<ready, abandoned, cleared, broken>>

IndexNamespace(t) ==
    /\ cacheop[t].pc = "index1"
    /\ IF exists
       THEN indexes' = indexes \union {"cache_namespace"} /\ Moves(t, "index2")
            /\ UNCHANGED <<gate, broken>>
       ELSE Aborted(t, "absent") /\ broken' = TRUE /\ UNCHANGED indexes
    /\ UNCHANGED <<exists, ready, abandoned, creator, cleared>>

IndexTopK(t) ==
    /\ cacheop[t].pc = "index2"
    /\ IF exists
       THEN indexes' = indexes \union {"top_k"} /\ Ensured(t) /\ UNCHANGED broken
       ELSE Aborted(t, "absent") /\ broken' = TRUE /\ UNCHANGED <<indexes, ready>>
    /\ UNCHANGED <<exists, abandoned, creator, cleared>>

\* query_points, upsert or count: they need the collection.
Operate(t) ==
    /\ cacheop[t].pc \in {"operate", "count"}
    /\ IF exists
       THEN /\ IF cacheop[t].pc = "count" THEN Moves(t, "delete") ELSE Returns(t)
            /\ UNCHANGED gate
       ELSE Aborted(t, "absent")
    /\ UNCHANGED <<exists, indexes, ready, abandoned, creator, cleared, broken>>

DeleteCollection(t) ==
    /\ cacheop[t].pc = "delete"
    /\ exists' = FALSE /\ indexes' = {} /\ cleared' = TRUE
    /\ cacheop' = [cacheop EXCEPT ![t].pc = "exists", ![t].recreating = TRUE]
    /\ UNCHANGED <<ready, gate, abandoned, creator, broken>>

Changing == {"create", "index1", "index2", "delete"}

\* A call of the client fails; one that changes the collection may be with Qdrant.
CallFails(t, sent) ==
    /\ cacheop[t].pc \in Changing \union {"exists", "operate", "count"}
    /\ Aborted(t, "error")
    /\ broken' = (broken \/ cacheop[t].recreating \/ cacheop[t].pc \in {"index1", "index2"})
    /\ sent => cacheop[t].pc \in Changing /\ Cardinality(abandoned) < MaxAbandoned
    /\ abandoned' = IF sent THEN abandoned \union {cacheop[t].pc} ELSE abandoned
    /\ UNCHANGED <<exists, indexes, ready, creator, cleared>>

\* Qdrant does it after all, with the lock released and the operation over.
Late(call) == call \in abandoned /\ abandoned' = abandoned \ {call}

LateCreation ==
    /\ Late("create")
    /\ exists' = TRUE
    /\ creator' = IF exists \/ cleared THEN creator ELSE Unknown
    /\ broken' = (broken \/ ~exists)
    /\ UNCHANGED <<indexes, ready, gate, cacheop, cleared>>

LateIndex(call, field) ==
    /\ Late(call)
    /\ indexes' = IF exists THEN indexes \union {field} ELSE indexes
    /\ UNCHANGED <<exists, ready, gate, cacheop, creator, cleared, broken>>

LateDeletion ==
    /\ Late("delete")
    /\ exists' = FALSE /\ indexes' = {}
    /\ cleared' = (cleared \/ exists)
    /\ broken' = (broken \/ exists)
    /\ UNCHANGED <<ready, gate, cacheop, creator>>

CollectionStep(t) ==
    \/ \E kind \in Kinds : BeginOp(t, kind)
    \/ CheckFlag(t) \/ TakeGate(t) \/ CollectionExists(t) \/ CreateCollection(t)
    \/ IndexNamespace(t) \/ IndexTopK(t) \/ Operate(t) \/ DeleteCollection(t)
    \/ \E sent \in BOOLEAN : CallFails(t, sent)

CollectionNext ==
    \/ \E t \in CacheThreads : CollectionStep(t)
    \/ LateCreation \/ LateDeletion
    \/ LateIndex("index1", "cache_namespace") \/ LateIndex("index2", "top_k")

CollectionSpec == CollectionInit /\ [][CollectionNext]_collection_vars

-----------------------------------------------------------------------------
Clearing == \E t \in CacheThreads : cacheop[t].recreating /\ cacheop[t].pc # "idle"
Creating == \E t \in CacheThreads : cacheop[t].pc \in {"index1", "index2"}

\* The flag and the lock do what they are for: until something is cleared, a creation
\* only ever runs into that of another worker, or one that was given up on, whoever is
\* first and whatever fails.
OneCreatorPerWorker ==
    \A t \in CacheThreads :
        cacheop[t].met = "collision" /\ ~cleared =>
            \/ creator = Unknown
            \/ creator # Nobody /\ WorkerOf[creator] # WorkerOf[t]

\* A worker whose flag is set has a collection to work with, with both its indexes, but
\* for a clear that is under way, a creation by another worker that is, one of them that
\* failed half-way, or one that was given up on and done all the same.
ReadyMeansUsable ==
    ready # {} /\ ~broken => \/ Clearing \/ Creating
                             \/ exists /\ indexes = Indexed

\* What the flag and the lock are for.
GateHolds == OneCreatorPerWorker /\ ReadyMeansUsable

\* Without the exceptions: a clear that could not create the collection again leaves
\* something that will.
NeverStranded == ready # {} /\ ~Clearing => exists

=============================================================================
