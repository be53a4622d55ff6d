-------------------------- MODULE ChatTurnsProofs --------------------------
(***************************************************************************)
(* What a turn keeps to, for any requests, users, configurations and size  *)
(* of the pool.                                                            *)
(*                                                                         *)
(* The properties speak of what is stored and returned; none is inductive, *)
(* for what a step stores was decided several steps before.  `Knows' is    *)
(* the strengthening: what a request can rely on at each of its steps.     *)
(***************************************************************************)
EXTENDS ChatTurns, FiniteSetTheorems, TLAPS

\* The steps between the guard and the answer, and those of the SQL route.
InRag == {"rag", "audit_context", "draft", "audit_output"}
Going == InRag \union {"route", "ask_router", "deny", "read_catalog", "generate", "store"}
ForSql == {"read_catalog", "generate", "store"}
Past == BestEffort \union Over

Enforced(q) == q.scan = "hostile" /\ q.plan.mode = "enforce"

\* Its conversation was looked up or created, and is its user's.
Placed(q, convs) ==
    /\ q.pc = "resolve" => q.conv \in {NewConversation} \union DOMAIN convs
    /\ q.pc \in Steps \ {"resolve"} =>
          q.conv \in DOMAIN convs /\ convs[q.conv] = q.user

\* How far the routing has come.
Routed(q) ==
    /\ q.pc \in {"idle", "resolve", "guard", "audit", "route", "ask_router"} =>
          q.route = "none" /\ ~q.rag
    /\ q.pc \in {"ask_router", "deny"} => SqlOpen(q.plan)
    /\ q.pc \in InRag => q.route \in {"rag", "hybrid"}
    /\ q.pc = "audit_output" => q.rag
    /\ q.pc \in ForSql => q.route \in {"sql", "hybrid"}
    /\ q.pc \in ForSql /\ q.route = "hybrid" => q.rag
    /\ q.pc \in ForSql \/ (q.pc \in InRag /\ q.route = "hybrid") =>
          SqlOpen(q.plan) /\ Authorised(q.user, q.plan)
    /\ q.pc \in {"idle", "resolve", "guard"} => q.plan = NoConfig
    /\ Enforced(q) => q.pc \notin Going /\ q.route = "none" /\ ~q.rag

\* What has been written down.
Audited(r, q, evs) ==
    /\ q.scan = "hostile" /\ (q.pc \in Going \/ q.status # "none") => <<r, "input">> \in evs
    /\ q.route \in {"sql", "hybrid"} /\ ~Authorised(q.user, q.plan) /\ q.status # "none"
          => <<r, "tool">> \in evs

\* What it is about to return is true.
Told(r, q, props) ==
    /\ q.pc \in {"idle"} \union (Steps \ BestEffort) => q.status = "none"
    /\ q.pc \in BestEffort \union {"replied"} =>
          /\ q.status # "none"
          /\ q.status = "approval_required" <=>
                [by |-> r, user |-> q.user, conv |-> q.conv] \in props
          /\ q.status = "answered" => q.rag
          /\ q.status = "approval_required" /\ q.route = "hybrid" => q.rag

Knows(r, q, convs, evs, props) ==
    Placed(q, convs) /\ Routed(q) /\ Audited(r, q, evs) /\ Told(r, q, props)

\* A stored proposal, and the request that stored it.
Justified(p, by, convs) ==
    /\ p.conv \in DOMAIN convs /\ convs[p.conv] = p.user
    /\ by.pc \in Past
    /\ p.user \in Admins
    /\ by.plan.sql /\ ~by.plan.emergency /\ ~by.plan.lockdown
    /\ ~Enforced(by)

Turns == \A i \in DOMAIN history :
            /\ history[i].conv \in DOMAIN conversations
            /\ conversations[history[i].conv] = history[i].user

\* A turn is saved when all that may fail is behind its request.
Saved == \A i \in DOMAIN history : req[history[i].by].pc \in Past

Pool == IsFiniteSet(conn) /\ ConnectionsComeBack

\* What a request that was there before a step may add to what is stored.
Extends == /\ DOMAIN conversations \subseteq DOMAIN conversations'
           /\ \A c \in DOMAIN conversations : conversations'[c] = conversations[c]
           /\ events \subseteq events'
           /\ proposals \subseteq proposals'

\* The history is left alone, or the turn of a request that has come to the end is added.
Writes(r, q) == \A i \in DOMAIN history' :
                   \/ history'[i].by = r /\ q.pc \in Past
                   \/ i \in DOMAIN history /\ history'[i] = history[i]

StoreTypeOK ==
    /\ conversations \in Seq(Users)
    /\ recent \in Seq(Nat)
    /\ history \in Seq([by : Requests, user : Users, conv : Nat])
    /\ proposals \subseteq [by : Requests, user : Users, conv : Nat]
    /\ events \subseteq Requests \X Guards

IInv ==
    /\ ChatTypeOK
    /\ \A r \in Requests : Knows(r, req[r], conversations, events, proposals)
    /\ \A p \in proposals : Justified(p, req[p.by], conversations)
    /\ Turns
    /\ Saved
    /\ Pool

-----------------------------------------------------------------------------
\* A saved turn is of a request that has come to the end.
LEMMA SavedTurn ==
    ASSUME IInv, NEW i \in DOMAIN history
    PROVE  history[i].by \in Requests /\ req[history[i].by].pc \in Past
  <1>1. history \in Seq([by : Requests, user : Users, conv : Nat])
    BY DEF IInv, ChatTypeOK
  <1>2. \A T : \A rows \in Seq(T) : \A j \in DOMAIN rows : rows[j] \in T
    OBVIOUS
  <1>3. history[i] \in [by : Requests, user : Users, conv : Nat]
    BY <1>1, <1>2
  <1>4. QED
    BY <1>3 DEF IInv, Saved

\* The step of one request keeps what it and the others know: conversations and events
\* are only added to, and so are proposals, its own.
LEMMA OneMoves ==
    ASSUME IInv, NEW r \in Requests, ChatTypeOK', Pool', Turns', Saved', Extends,
           \A s \in Requests \ {r} : req'[s] = req[s],
           \A p \in proposals' \ proposals : p.by = r,
           Knows(r, req'[r], conversations', events', proposals'),
           \A p \in proposals' : p.by = r => Justified(p, req'[r], conversations')
    PROVE  IInv'
  <1>1. ASSUME NEW s \in Requests
        PROVE  Knows(s, req'[s], conversations', events', proposals')
    <2>1. CASE s = r
      BY <2>1
    <2>2. CASE s # r
      <3>1. req'[s] = req[s] /\ Knows(s, req[s], conversations, events, proposals)
        BY <2>2 DEF IInv
      <3>2. Placed(req[s], conversations')
        BY <3>1 DEF Knows, Placed, Extends
      <3>3. Audited(s, req[s], events')
        BY <3>1 DEF Knows, Audited, Extends
      <3>4. Told(s, req[s], proposals')
        BY <3>1, <2>2 DEF Knows, Told, Extends
      <3>5. QED
        BY <3>1, <3>2, <3>3, <3>4 DEF Knows
    <2>3. QED
      BY <2>1, <2>2
  <1>2. ASSUME NEW p \in proposals'
        PROVE  Justified(p, req'[p.by], conversations')
    <2>1. CASE p.by = r
      BY <2>1
    <2>2. CASE p.by # r
      <3>1. p \in proposals
        BY <2>2
      <3>2. p.by \in Requests /\ Justified(p, req[p.by], conversations)
        BY <3>1 DEF IInv, ChatTypeOK
      <3>3. QED
        BY <3>2, <2>2 DEF Justified, Extends
    <2>3. QED
      BY <2>1, <2>2
  <1>3. QED
    BY <1>1, <1>2 DEF IInv

\* Giving a connection back keeps the pool in order.
LEMMA GivesBack ==
    ASSUME Pool, NEW r \in Requests, conn' = conn \ {r},
           \A s \in Requests \ {r} : req'[s] = req[s], conn \subseteq Requests
    PROVE  Pool'
  <1>1. IsFiniteSet(conn') /\ Cardinality(conn') <= Cardinality(conn)
    BY FS_Subset DEF Pool
  <1>2. Cardinality(conn') \in Nat /\ Cardinality(conn) \in Nat
    BY <1>1, FS_CardinalityType DEF Pool
  <1>3. QED
    BY <1>1, <1>2, ChatAssumption DEF Pool, ConnectionsComeBack, InUse

\* A request moves on with what it has to know: the form of most steps.  One that stored a
\* proposal keeps what justified it.
LEMMA MovesOn ==
    ASSUME IInv, NEW r \in Requests, NEW q \in Turn, Goes(r, q), config' = config,
           StoreTypeOK', Turns', Extends, history' = history \/ Writes(r, q),
           req[r].pc \in Past =>
               q.pc \in Past /\ q.plan = req[r].plan /\ q.scan = req[r].scan,
           Knows(r, q, conversations', events', proposals'),
           \A p \in proposals' \ proposals : p.by = r /\ Justified(p, q, conversations')
    PROVE  IInv'
  <1>1. /\ req \in [Requests -> Turn] /\ config \in Config /\ conn \subseteq Requests
        /\ Pool
    BY DEF IInv, ChatTypeOK
  <1>2. /\ req' \in [Requests -> Turn] /\ conn' \subseteq Requests /\ conn' = conn \ {r}
        /\ req'[r] = q
        /\ \A s \in Requests \ {r} : req'[s] = req[s]
    BY <1>1 DEF Goes
  <1>3. ChatTypeOK'
    BY <1>1, <1>2 DEF ChatTypeOK, StoreTypeOK
  <1>4. Pool'
    BY <1>1, <1>2, GivesBack
  <1>5. ASSUME NEW p \in proposals', p.by = r
        PROVE  Justified(p, req'[r], conversations')
    <2>1. CASE p \in proposals
      BY <2>1, <1>2, <1>5 DEF IInv, Justified, Enforced, Extends
    <2>2. CASE p \notin proposals
      BY <2>2, <1>2
    <2>3. QED
      BY <2>1, <2>2
  <1>6. Saved'
    <2>1. ASSUME NEW i \in DOMAIN history', i \in DOMAIN history, history'[i] = history[i]
          PROVE  req'[history'[i].by].pc \in Past
      <3>1. req[history[i].by].pc \in Past /\ history[i].by \in Requests
        BY <2>1, SavedTurn
      <3>2. QED
        BY <1>2, <2>1, <3>1
    <2>2. ASSUME NEW i \in DOMAIN history', history'[i].by = r /\ q.pc \in Past
          PROVE  req'[history'[i].by].pc \in Past
      BY <1>2, <2>2
    <2>3. QED
      BY <2>1, <2>2 DEF Saved, Writes
  <1>7. QED
    BY <1>2, <1>3, <1>4, <1>5, <1>6, OneMoves

\* A request that stops half-way knows all it has to, and one that stops while its turn is
\* saved still returns what it has.
LEMMA RaisedKnows ==
    ASSUME IInv, NEW r \in Requests, req[r].pc \in Steps, Extends,
           req[r].pc \in BestEffort => proposals' = proposals
    PROVE  /\ Raised(r) \in Turn
           /\ Raised(r).pc \in Past
           /\ Raised(r).plan = req[r].plan /\ Raised(r).scan = req[r].scan
           /\ Knows(r, Raised(r), conversations', events', proposals')
  <1> DEFINE q == req[r]
             end == IF q.pc \in BestEffort THEN "replied" ELSE "failed"
  <1>1. q \in Turn /\ Knows(r, q, conversations, events, proposals)
    BY DEF IInv, ChatTypeOK
  <1>2. Raised(r) = [q EXCEPT !.pc = end]
    BY DEF Raised, At
  <1>3. end \in Over
    BY DEF Over
  <1> HIDE DEF q
  <1>4. Raised(r) \in Turn
    BY <1>1, <1>2, <1>3 DEF Turn
  <1>5. Placed(Raised(r), conversations')
    BY <1>1, <1>2, <1>3 DEF Placed, Turn, Over, Steps, DatabaseSteps
  <1>6. Routed(Raised(r))
    BY <1>1, <1>2, <1>3 DEF Knows, Routed, Enforced, Turn, Over, ForSql, Going, InRag
  <1>7. Audited(r, Raised(r), events')
    BY <1>1, <1>2, <1>3 DEF Knows, Audited, Turn, Over, Going, InRag, Extends
  <1>8. Told(r, Raised(r), proposals')
    BY <1>1, <1>2, <1>3 DEF Knows, Told, Turn, Over, Steps, DatabaseSteps, BestEffort, q
  <1>9. QED
    BY <1>1, <1>2, <1>3, <1>4, <1>5, <1>6, <1>7, <1>8 DEF Knows, Turn, Past, q

\* A step that stores nothing.
LEMMA OnlyMoves ==
    ASSUME IInv, NEW r \in Requests, NEW q \in Turn, Goes(r, q), UNCHANGED <<config, store>>,
           req[r].pc \in Past =>
               q.pc \in Past /\ q.plan = req[r].plan /\ q.scan = req[r].scan,
           Knows(r, q, conversations, events, proposals)
    PROVE  IInv'
  <1>1. StoreTypeOK' /\ Turns' /\ Extends
    BY DEF IInv, ChatTypeOK, StoreTypeOK, Turns, Extends, store
  <1>2. /\ conversations' = conversations /\ events' = events /\ proposals' = proposals
        /\ history' = history
    BY DEF store
  <1>3. QED
    BY <1>1, <1>2, MovesOn

LEMMA KnowsIt ==
    ASSUME IInv, NEW r \in Requests
    PROVE  req[r] \in Turn /\ Knows(r, req[r], conversations, events, proposals)
  BY DEF IInv, ChatTypeOK

-----------------------------------------------------------------------------
\* The connections.
LEMMA TakeKeeps == ASSUME IInv, NEW r \in Requests, Take(r) PROVE IInv'
  <1>1. conn' = conn \union {r} /\ InUse < PoolSize /\ UNCHANGED <<config, store, req>>
    BY DEF Take
  <1>2. ChatTypeOK' /\ Turns' /\ Saved'
    BY <1>1 DEF IInv, ChatTypeOK, Turns, Saved, store
  <1>3. IsFiniteSet(conn') /\ Cardinality(conn') <= PoolSize
    <2>1. IsFiniteSet(conn) /\ Cardinality(conn) \in Nat /\ r \notin conn
      BY FS_CardinalityType DEF IInv, Pool, Take
    <2>2. IsFiniteSet(conn') /\ Cardinality(conn') = Cardinality(conn) + 1
      BY <1>1, <2>1, FS_AddElement
    <2>3. QED
      BY <1>1, <2>1, <2>2, ChatAssumption DEF InUse
  <1>4. Pool'
    BY <1>1, <1>3 DEF IInv, Pool, ConnectionsComeBack, InUse, Take
  <1>5. QED
    BY <1>1, <1>2, <1>4 DEF IInv, store

LEMMA ExhaustedKeeps == ASSUME IInv, NEW r \in Requests, Exhausted(r) PROVE IInv'
  <1>1. /\ Goes(r, Raised(r)) /\ UNCHANGED <<config, store>>
        /\ req[r].pc \in Steps
    BY DEF Exhausted, Steps
  <1>2. Extends /\ proposals' = proposals /\ conversations' = conversations /\ events' = events
    BY <1>1 DEF Extends, store
  <1>3. QED
    BY <1>1, <1>2, RaisedKnows, OnlyMoves

LEMMA RaisesKeeps == ASSUME IInv, NEW r \in Requests, Raises(r) PROVE IInv'
  <1>1. /\ Goes(r, Raised(r)) /\ UNCHANGED <<config, store>>
        /\ req[r].pc \in Steps
    BY DEF Raises
  <1>2. Extends /\ proposals' = proposals /\ conversations' = conversations /\ events' = events
    BY <1>1 DEF Extends, store
  <1>3. QED
    BY <1>1, <1>2, RaisedKnows, OnlyMoves

-----------------------------------------------------------------------------
\* The steps that store nothing.
LEMMA LookupKeeps == ASSUME IInv, NEW r \in Requests, Lookup(r) PROVE IInv'
  <1>1. /\ req[r].pc = "resolve" /\ req[r].conv # NewConversation
        /\ UNCHANGED <<config, store>>
    BY DEF Lookup, Holds
  <1>2. CASE Owned(req[r].conv, req[r].user)
    <2>1. Goes(r, At(r, "guard"))
      BY <1>2 DEF Lookup
    <2>2. At(r, "guard") \in Turn
      BY KnowsIt DEF At, Turn, Steps
    <2>3. Knows(r, At(r, "guard"), conversations, events, proposals)
      BY <1>1, <1>2, KnowsIt
         DEF At, Turn, Knows, Placed, Routed, Audited, Told, Owned, Enforced, Steps, DatabaseSteps,
             BestEffort, Going, InRag, ForSql
    <2>4. QED
      BY <1>1, <2>1, <2>2, <2>3, OnlyMoves DEF Past, BestEffort, Over
  <1>3. CASE ~Owned(req[r].conv, req[r].user)
    <2>1. Goes(r, Raised(r)) /\ req[r].pc \in Steps
      BY <1>1, <1>3 DEF Lookup, Steps, DatabaseSteps
    <2>2. Extends /\ proposals' = proposals /\ conversations' = conversations /\ events' = events
      BY <1>1 DEF Extends, store
    <2>3. QED
      BY <1>1, <2>1, <2>2, RaisedKnows, OnlyMoves
  <1>4. QED
    BY <1>2, <1>3

LEMMA GuardKeeps == ASSUME IInv, NEW r \in Requests, Guard(r) PROVE IInv'
  <1> DEFINE q == [req[r] EXCEPT !.plan = config,
                                 !.pc = IF Recorded(req[r].scan, config.mode) THEN "audit"
                                        ELSE "route"]
  <1>1. req[r].pc = "guard" /\ Goes(r, q) /\ UNCHANGED <<config, store>>
    BY DEF Guard
  <1>2. config \in Config
    BY DEF IInv, ChatTypeOK
  <1>3. q \in Turn
    BY <1>2, KnowsIt DEF Turn, Steps, DatabaseSteps
  <1>4. Knows(r, q, conversations, events, proposals)
    <2>1. /\ q.pc \in {"audit", "route"} /\ q.user = req[r].user /\ q.conv = req[r].conv
          /\ q.scan = req[r].scan /\ q.route = req[r].route /\ q.rag = req[r].rag
          /\ q.status = req[r].status /\ q.plan = config
          /\ q.pc = "route" => ~Recorded(q.scan, q.plan.mode)
      BY <1>1, KnowsIt DEF Turn
    <2>2. Knows(r, req[r], conversations, events, proposals)
      BY KnowsIt
    <2> HIDE DEF q
    <2>3. Placed(q, conversations)
      BY <1>1, <2>1, <2>2 DEF Knows, Placed, Steps, DatabaseSteps
    <2>4. Routed(q)
      <3>1. q.route = "none" /\ ~q.rag
        BY <1>1, <2>1, <2>2 DEF Knows, Routed
      <3>2. Enforced(q) => q.pc = "audit"
        BY <2>1 DEF Enforced, Recorded
      <3>3. QED
        BY <2>1, <3>1, <3>2 DEF Routed, Going, InRag, ForSql
    <2>5. Audited(r, q, events)
      BY <1>1, <2>1, <2>2 DEF Knows, Routed, Audited, Enforced, Steps, DatabaseSteps,
         BestEffort, Going, InRag, ForSql, Recorded, Action
    <2>6. Told(r, q, proposals)
      BY <1>1, <2>1, <2>2 DEF Knows, Told, Steps, DatabaseSteps, BestEffort
    <2>7. QED
      BY <2>3, <2>4, <2>5, <2>6 DEF Knows
  <1>5. QED
    BY <1>1, <1>3, <1>4, OnlyMoves DEF Past, BestEffort, Over

LEMMA RouteKeeps == ASSUME IInv, NEW r \in Requests, NEW sampled \in BOOLEAN, Route(r, sampled)
                    PROVE  IInv'
  <1> DEFINE q == IF SqlOpen(req[r].plan) /\ sampled THEN At(r, "ask_router")
                  ELSE [At(r, "rag") EXCEPT !.route = "rag"]
  <1>1. req[r].pc = "route" /\ Goes(r, q) /\ UNCHANGED <<config, store>>
    BY DEF Route
  <1>2. q \in Turn
    BY KnowsIt DEF At, Turn, Steps, Routes
  <1>3. Knows(r, q, conversations, events, proposals)
    BY ZenonT(60), <1>1, KnowsIt
       DEF At, Turn, Knows, Placed, Routed, Audited, Told, Enforced, Steps, DatabaseSteps,
           BestEffort, Going, InRag, ForSql
  <1>4. QED
    BY <1>1, <1>2, <1>3, OnlyMoves DEF Past, BestEffort, Over

LEMMA AskRouterKeeps ==
    ASSUME IInv, NEW r \in Requests, NEW route \in Routes \ {"none"}, AskRouter(r, route)
    PROVE  IInv'
  <1> DEFINE may == Authorised(req[r].user, req[r].plan)
             next == CASE route = "reject" -> "save"
                       [] route \in {"sql", "hybrid"} /\ ~may -> "deny"
                       [] route = "sql" /\ may -> "read_catalog"
                       [] route = "rag" \/ (route = "hybrid" /\ may) -> "rag"
             q == [[req[r] EXCEPT !.route = route]
                      EXCEPT !.pc = next, !.status = IF next = "save" THEN "rejected" ELSE @]
  <1>1. req[r].pc = "ask_router" /\ Goes(r, q) /\ UNCHANGED <<config, store>>
    BY DEF AskRouter
  <1> HIDE DEF may
  <1>2. /\ next \in {"rag", "save", "deny", "read_catalog"}
        /\ next = "save" <=> route = "reject"
        /\ next = "rag" => route = "rag" \/ (route = "hybrid" /\ may)
        /\ next = "read_catalog" => route = "sql" /\ may
    <2>1. CASE route = "rag"
      <3>1. next = "rag"
        BY <2>1
      <3> HIDE DEF next
      <3>2. QED
        BY <2>1, <3>1
    <2>2. CASE route = "reject"
      <3>1. next = "save"
        BY <2>2
      <3> HIDE DEF next
      <3>2. QED
        BY <2>2, <3>1
    <2>3. CASE route \in {"sql", "hybrid"} /\ ~may
      <3>1. next = "deny"
        BY <2>3
      <3> HIDE DEF next
      <3>2. QED
        BY <2>3, <3>1
    <2>4. CASE route = "hybrid" /\ may
      <3>1. next = "rag"
        BY <2>4
      <3> HIDE DEF next
      <3>2. QED
        BY <2>4, <3>1
    <2>5. CASE route = "sql" /\ may
      <3>1. next = "read_catalog"
        BY <2>5
      <3> HIDE DEF next
      <3>2. QED
        BY <2>5, <3>1
    <2>6. QED
      BY <2>1, <2>2, <2>3, <2>4, <2>5 DEF Routes
  <1> HIDE DEF next
  <1>3. q \in Turn
    BY <1>2, KnowsIt DEF Turn, Steps, DatabaseSteps, Routes, Statuses
  <1>4. Placed(q, conversations) /\ Routed(q) /\ Audited(r, q, events)
    BY <1>1, <1>2, KnowsIt
       DEF may, Turn, Knows, Placed, Routed, Audited, Told, Enforced, Steps, DatabaseSteps,
           BestEffort, Going, InRag, ForSql
  <1>5. Told(r, q, proposals)
    <2>1. \A p \in proposals : p.by # r
      BY <1>1 DEF IInv, Justified, Past, BestEffort, Over
    <2>2. QED
      BY <1>1, <1>2, <2>1, KnowsIt DEF Turn, Knows, Told, Steps, DatabaseSteps, BestEffort
  <1>6. QED
    BY <1>1, <1>3, <1>4, <1>5, OnlyMoves DEF Past, BestEffort, Over, Knows

LEMMA RagKeeps == ASSUME IInv, NEW r \in Requests, NEW dropped \in BOOLEAN, Rag(r, dropped)
                  PROVE  IInv'
  <1> DEFINE q == At(r, IF dropped THEN "audit_context" ELSE "draft")
  <1>1. req[r].pc = "rag" /\ Goes(r, q) /\ UNCHANGED <<config, store>>
    BY DEF Rag
  <1>2. q \in Turn
    BY KnowsIt DEF At, Turn, Steps, DatabaseSteps
  <1>3. Knows(r, q, conversations, events, proposals)
    BY ZenonT(60), <1>1, KnowsIt
       DEF At, Turn, Knows, Placed, Routed, Audited, Told, Enforced, Steps, DatabaseSteps,
           BestEffort, Going, InRag, ForSql
  <1>4. QED
    BY <1>1, <1>2, <1>3, OnlyMoves DEF Past, BestEffort, Over

LEMMA AuditContextKeeps ==
    ASSUME IInv, NEW r \in Requests, NEW arrives \in BOOLEAN, AuditContext(r, arrives)
    PROVE  IInv'
  <1> DEFINE q == At(r, "draft")
  <1>1. /\ req[r].pc = "audit_context" /\ UNCHANGED <<config, store>>
        /\ Goes(r, IF arrives THEN q ELSE Raised(r))
    BY DEF AuditContext, Committed, Holds
  <1>2. Extends /\ proposals' = proposals /\ conversations' = conversations /\ events' = events
    BY <1>1 DEF Extends, store
  <1>3. CASE arrives
    <2>1. q \in Turn
      BY KnowsIt DEF At, Turn, Steps
    <2>2. Knows(r, q, conversations, events, proposals)
      BY ZenonT(60), <1>1, KnowsIt
         DEF At, Turn, Knows, Placed, Routed, Audited, Told, Enforced, Steps, DatabaseSteps,
             BestEffort, Going, InRag, ForSql
    <2>3. QED
      BY <1>1, <1>3, <2>1, <2>2, OnlyMoves DEF Past, BestEffort, Over
  <1>4. CASE ~arrives
    BY <1>1, <1>2, <1>4, RaisedKnows, OnlyMoves DEF Steps, DatabaseSteps
  <1>5. QED
    BY <1>3, <1>4

\* A request with the answer of the documents goes on to its second half, or has ended.
LEMMA AnswerKnows ==
    ASSUME IInv, NEW r \in Requests, req[r].pc \in {"draft", "audit_output"},
           NEW q, q = [WithAnswer(r) EXCEPT !.rag = TRUE]
    PROVE  q \in Turn /\ Knows(r, q, conversations, events, proposals)
  <1>1. \A p \in proposals : p.by # r
    BY DEF IInv, Justified, Past, BestEffort, Over
  <1>2. q \in Turn
    BY KnowsIt DEF WithAnswer, At, Answers, Turn, Steps, DatabaseSteps, Statuses
  <1>3. Placed(q, conversations) /\ Routed(q) /\ Audited(r, q, events)
    BY ZenonT(60), KnowsIt
       DEF WithAnswer, At, Answers, Turn, Knows, Placed, Routed, Audited, Told, Enforced, Steps,
           DatabaseSteps, BestEffort, Going, InRag, ForSql
  <1>4. Told(r, q, proposals)
    BY <1>1, KnowsIt
       DEF WithAnswer, At, Answers, Turn, Knows, Told, Steps, DatabaseSteps, BestEffort
  <1>5. QED
    BY <1>2, <1>3, <1>4 DEF Knows

LEMMA DraftKeeps == ASSUME IInv, NEW r \in Requests, NEW flagged \in BOOLEAN, Draft(r, flagged)
                    PROVE  IInv'
  <1> DEFINE answer == [WithAnswer(r) EXCEPT !.rag = TRUE]
             audit == [At(r, "audit_output") EXCEPT !.rag = TRUE]
             q == IF flagged THEN audit ELSE answer
  <1>1. req[r].pc = "draft" /\ Goes(r, q) /\ UNCHANGED <<config, store>>
    BY DEF Draft
  <1>2. CASE ~flagged
    <2>1. answer \in Turn /\ Knows(r, answer, conversations, events, proposals)
      BY <1>1, AnswerKnows
    <2>2. QED
      BY <1>1, <1>2, <2>1, OnlyMoves DEF Past, BestEffort, Over
  <1>3. CASE flagged
    <2>1. audit \in Turn
      BY KnowsIt DEF At, Turn, Steps, DatabaseSteps
    <2>2. Knows(r, audit, conversations, events, proposals)
      BY <1>1, KnowsIt
         DEF At, Turn, Knows, Placed, Routed, Audited, Told, Enforced, Steps, DatabaseSteps,
             BestEffort, Going, InRag, ForSql
    <2>3. QED
      BY <1>1, <1>3, <2>1, <2>2, OnlyMoves DEF Past, BestEffort, Over
  <1>4. QED
    BY <1>2, <1>3

LEMMA AuditOutputKeeps ==
    ASSUME IInv, NEW r \in Requests, NEW arrives \in BOOLEAN, AuditOutput(r, arrives)
    PROVE  IInv'
  <1>1. /\ req[r].pc = "audit_output" /\ UNCHANGED <<config, store>>
        /\ Goes(r, IF arrives THEN WithAnswer(r) ELSE Raised(r))
    BY DEF AuditOutput, Committed, Holds
  <1>2. Extends /\ proposals' = proposals /\ conversations' = conversations /\ events' = events
    BY <1>1 DEF Extends, store
  <1>3. CASE arrives
    <2>1. WithAnswer(r) = [WithAnswer(r) EXCEPT !.rag = TRUE]
      BY <1>1, KnowsIt DEF WithAnswer, At, Answers, Turn, Knows, Routed
    <2>2. WithAnswer(r) \in Turn /\ Knows(r, WithAnswer(r), conversations, events, proposals)
      BY <1>1, <2>1, AnswerKnows
    <2>3. QED
      BY <1>1, <1>3, <2>2, OnlyMoves DEF Past, BestEffort, Over
  <1>4. CASE ~arrives
    BY <1>1, <1>2, <1>4, RaisedKnows, OnlyMoves DEF Steps, DatabaseSteps
  <1>5. QED
    BY <1>3, <1>4

LEMMA ReadCatalogKeeps == ASSUME IInv, NEW r \in Requests, ReadCatalog(r) PROVE IInv'
  <1>1. req[r].pc = "read_catalog" /\ Goes(r, At(r, "generate")) /\ UNCHANGED <<config, store>>
    BY DEF ReadCatalog, Holds
  <1>2. At(r, "generate") \in Turn
    BY KnowsIt DEF At, Turn, Steps
  <1>3. Knows(r, At(r, "generate"), conversations, events, proposals)
    BY <1>1, KnowsIt
       DEF At, Turn, Knows, Placed, Routed, Audited, Told, Enforced, Steps, DatabaseSteps,
           BestEffort, Going, InRag, ForSql
  <1>4. QED
    BY <1>1, <1>2, <1>3, OnlyMoves DEF Past, BestEffort, Over

LEMMA GenerateKeeps == ASSUME IInv, NEW r \in Requests, NEW valid \in BOOLEAN, Generate(r, valid)
                       PROVE  IInv'
  <1> DEFINE q == IF valid THEN At(r, "store") ELSE WithoutSql(r)
  <1>1. req[r].pc = "generate" /\ Goes(r, q) /\ UNCHANGED <<config, store>>
    BY DEF Generate
  <1>2. \A p \in proposals : p.by # r
    BY <1>1 DEF IInv, Justified, Past, BestEffort, Over
  <1>3. q \in Turn
    BY KnowsIt DEF At, WithoutSql, Answers, Turn, Steps, DatabaseSteps, Statuses
  <1>4. Placed(q, conversations) /\ Routed(q) /\ Audited(r, q, events)
    BY ZenonT(60), <1>1, KnowsIt
       DEF At, WithoutSql, Answers, Turn, Knows, Placed, Routed, Audited, Told, Enforced, Steps,
           DatabaseSteps, BestEffort, Going, InRag, ForSql
  <1>5. Told(r, q, proposals)
    BY <1>1, <1>2, KnowsIt
       DEF At, WithoutSql, Answers, Turn, Knows, Routed, Told, ForSql, Steps, DatabaseSteps,
           BestEffort
  <1>6. QED
    BY <1>1, <1>3, <1>4, <1>5, OnlyMoves DEF Past, BestEffort, Over, Knows

-----------------------------------------------------------------------------
\* The steps that store something, whose confirmation may be lost.
LEMMA CreateKeeps == ASSUME IInv, NEW r \in Requests, NEW arrives \in BOOLEAN, Create(r, arrives)
                     PROVE  IInv'
  <1> DEFINE id == Len(conversations) + 1
             q == [req[r] EXCEPT !.pc = "guard", !.conv = id]
  <1>1. /\ req[r].pc = "resolve" /\ config' = config
        /\ conversations' = Append(conversations, req[r].user)
        /\ recent' = Append(recent, id)
        /\ UNCHANGED <<history, proposals, events>>
        /\ Goes(r, IF arrives THEN q ELSE Raised(r))
    BY DEF Create, Committed, Holds
  <1>2. /\ conversations \in Seq(Users) /\ recent \in Seq(Nat) /\ req[r].user \in Users
        /\ id \in Nat
    BY KnowsIt DEF IInv, ChatTypeOK, Turn
  <1>3. /\ DOMAIN conversations' = 1 .. id /\ DOMAIN conversations = 1 .. Len(conversations)
        /\ id \in DOMAIN conversations' /\ conversations'[id] = req[r].user
        /\ \A c \in DOMAIN conversations : conversations'[c] = conversations[c]
    BY <1>1, <1>2
  <1>4. StoreTypeOK'
    BY <1>1, <1>2 DEF IInv, ChatTypeOK, StoreTypeOK
  <1>5. Extends
    BY <1>1, <1>2, <1>3 DEF Extends
  <1>6. Turns'
    BY <1>1, <1>5 DEF IInv, Turns, Extends
  <1>7. CASE arrives
    <2>1. q \in Turn
      BY <1>2, KnowsIt DEF Turn, Steps
    <2>2. Knows(r, q, conversations', events', proposals')
      BY ZenonT(60), <1>1, <1>2, <1>3, KnowsIt
         DEF Turn, Knows, Placed, Routed, Audited, Told, Enforced, Steps, DatabaseSteps,
             BestEffort, Going, InRag, ForSql
    <2>3. QED
      BY <1>1, <1>4, <1>5, <1>6, <1>7, <2>1, <2>2, MovesOn DEF Past, BestEffort, Over
  <1>8. CASE ~arrives
    BY <1>1, <1>4, <1>5, <1>6, <1>8, RaisedKnows, MovesOn DEF Steps, DatabaseSteps
  <1>9. QED
    BY <1>7, <1>8

LEMMA AuditKeeps == ASSUME IInv, NEW r \in Requests, NEW arrives \in BOOLEAN, Audit(r, arrives)
                    PROVE  IInv'
  <1> DEFINE q == IF Blocked(r) THEN Answers(r, "blocked") ELSE At(r, "route")
  <1>1. /\ req[r].pc = "audit" /\ config' = config
        /\ UNCHANGED <<conversations, recent, history, proposals>>
        /\ events' = events \union {<<r, "input">>}
        /\ Goes(r, IF arrives THEN q ELSE Raised(r))
    BY DEF Audit, Committed, Holds
  <1>2. StoreTypeOK' /\ Extends /\ Turns'
    BY <1>1 DEF IInv, ChatTypeOK, StoreTypeOK, Extends, Turns, Guards
  <1>3. CASE arrives
    <2>1. \A p \in proposals : p.by # r
      BY <1>1 DEF IInv, Justified, Past, BestEffort, Over
    <2>2. q \in Turn
      BY KnowsIt DEF At, Answers, Turn, Steps, DatabaseSteps, Statuses
    <2>3. Placed(q, conversations') /\ Routed(q) /\ Audited(r, q, events')
      <3>1. /\ q.pc = IF Blocked(r) THEN "save" ELSE "route"
            /\ q.status = IF Blocked(r) THEN "blocked" ELSE req[r].status
            /\ q.user = req[r].user /\ q.conv = req[r].conv /\ q.scan = req[r].scan
            /\ q.route = req[r].route /\ q.rag = req[r].rag /\ q.plan = req[r].plan
        BY KnowsIt DEF At, Answers, Turn
      <3>2. Knows(r, req[r], conversations, events, proposals) /\ req[r] \in Turn
        BY KnowsIt
      <3>3. Blocked(r) <=> q.scan = "hostile" /\ q.plan.mode = "enforce"
        BY <3>1, <3>2 DEF Blocked, Action, Turn, Config, Modes, Verdicts
      <3> HIDE DEF q
      <3>4. Placed(q, conversations')
        BY <1>1, <3>1, <3>2 DEF Knows, Placed, Steps, DatabaseSteps
      <3>5. Routed(q)
        <4>1. q.route = "none" /\ ~q.rag
          BY <1>1, <3>1, <3>2 DEF Knows, Routed
        <4>2. q.pc \in {"save", "route"} /\ (Enforced(q) => q.pc = "save")
          BY <3>1, <3>3 DEF Enforced
        <4>3. QED
          BY <4>1, <4>2 DEF Routed, Going, InRag, ForSql
      <3>6. Audited(r, q, events')
        BY <1>1, <3>1, <3>2, <3>3 DEF Knows, Routed, Audited, Enforced, Steps, DatabaseSteps,
           BestEffort, Going, InRag, ForSql
      <3>7. QED
        BY <3>4, <3>5, <3>6
    <2>4. Told(r, q, proposals')
      BY <1>1, <2>1, KnowsIt
         DEF At, Answers, Turn, Knows, Told, Steps, DatabaseSteps, BestEffort
    <2>5. QED
      BY <1>1, <1>2, <1>3, <2>2, <2>3, <2>4, MovesOn DEF Past, BestEffort, Over, Knows
  <1>4. CASE ~arrives
    BY <1>1, <1>2, <1>4, RaisedKnows, MovesOn DEF Steps, DatabaseSteps
  <1>5. QED
    BY <1>3, <1>4

LEMMA DenyKeeps == ASSUME IInv, NEW r \in Requests, NEW arrives \in BOOLEAN, Deny(r, arrives)
                   PROVE  IInv'
  <1> DEFINE q == Answers(r, "rejected")
  <1>1. /\ req[r].pc = "deny" /\ config' = config
        /\ UNCHANGED <<conversations, recent, history, proposals>>
        /\ events' = events \union {<<r, "tool">>}
        /\ Goes(r, IF arrives THEN q ELSE Raised(r))
    BY DEF Deny, Committed, Holds
  <1>2. StoreTypeOK' /\ Extends /\ Turns'
    BY <1>1 DEF IInv, ChatTypeOK, StoreTypeOK, Extends, Turns, Guards
  <1>3. CASE arrives
    <2>1. \A p \in proposals : p.by # r
      BY <1>1 DEF IInv, Justified, Past, BestEffort, Over
    <2>2. q \in Turn
      BY KnowsIt DEF Answers, Turn, Steps, DatabaseSteps, Statuses
    <2>3. Placed(q, conversations') /\ Routed(q) /\ Audited(r, q, events')
      BY <1>1, KnowsIt
         DEF Answers, Turn, Knows, Placed, Routed, Audited, Told, Enforced, Steps, DatabaseSteps,
             BestEffort, Going, InRag, ForSql
    <2>4. Told(r, q, proposals')
      BY <1>1, <2>1, KnowsIt
         DEF Answers, Turn, Knows, Told, Steps, DatabaseSteps, BestEffort
    <2>5. QED
      BY <1>1, <1>2, <1>3, <2>2, <2>3, <2>4, MovesOn DEF Past, BestEffort, Over, Knows
  <1>4. CASE ~arrives
    BY <1>1, <1>2, <1>4, RaisedKnows, MovesOn DEF Steps, DatabaseSteps
  <1>5. QED
    BY <1>3, <1>4

LEMMA StoreProposalKeeps ==
    ASSUME IInv, NEW r \in Requests, NEW arrives \in BOOLEAN, StoreProposal(r, arrives)
    PROVE  IInv'
  <1> DEFINE new == [by |-> r, user |-> req[r].user, conv |-> req[r].conv]
             q == Answers(r, "approval_required")
             next == IF arrives THEN q ELSE Raised(r)
  <1>1. /\ req[r].pc = "store" /\ config' = config
        /\ UNCHANGED <<conversations, recent, history, events>>
        /\ proposals' = proposals \union {new}
        /\ Goes(r, next)
    BY DEF StoreProposal, Committed, Holds
  <1>2. /\ new \in [by : Requests, user : Users, conv : Nat]
        /\ new.by = r /\ new.user = req[r].user /\ new.conv = req[r].conv
    BY KnowsIt DEF Turn
  <1>3. StoreTypeOK' /\ Extends /\ Turns'
    BY <1>1, <1>2 DEF IInv, ChatTypeOK, StoreTypeOK, Extends, Turns
  <1>4. /\ next \in Turn /\ next.pc \in Past
        /\ next.plan = req[r].plan /\ next.scan = req[r].scan
        /\ Knows(r, next, conversations', events', proposals')
    <2>1. CASE arrives
      <3>1. q \in Turn
        BY KnowsIt DEF Answers, Turn, Steps, DatabaseSteps, Statuses
      <3>2. Placed(q, conversations') /\ Routed(q) /\ Audited(r, q, events')
        BY <1>1, KnowsIt
           DEF Answers, Turn, Knows, Placed, Routed, Audited, Told, Enforced, Steps,
               DatabaseSteps, BestEffort, Going, InRag, ForSql
      <3>3. Told(r, q, proposals')
        BY <1>1, KnowsIt
           DEF Answers, Turn, Knows, Routed, Told, ForSql, Steps, DatabaseSteps, BestEffort
      <3>4. QED
        BY <2>1, <3>1, <3>2, <3>3, KnowsIt DEF Knows, Answers, Turn, Past, BestEffort
    <2>2. CASE ~arrives
      BY <1>1, <1>3, <2>2, RaisedKnows DEF Steps, DatabaseSteps, BestEffort
    <2>3. QED
      BY <2>1, <2>2
  <1>5. Justified(new, next, conversations')
    <2>1. /\ req[r].conv \in DOMAIN conversations /\ conversations[req[r].conv] = req[r].user
          /\ SqlOpen(req[r].plan) /\ Authorised(req[r].user, req[r].plan)
          /\ ~Enforced(req[r])
      BY <1>1, KnowsIt DEF Knows, Placed, Routed, Steps, DatabaseSteps, ForSql, Going, InRag
    <2>2. QED
      BY <1>1, <1>2, <1>4, <2>1 DEF Justified, SqlOpen, Authorised, Enforced
  <1> HIDE DEF new, next
  <1>6. \A p \in proposals' \ proposals : p.by = r /\ Justified(p, next, conversations')
    BY <1>1, <1>2, <1>5
  <1>7. QED
    BY <1>1, <1>3, <1>4, <1>6, MovesOn

LEMMA SaveKeeps == ASSUME IInv, NEW r \in Requests, NEW arrives \in BOOLEAN, Save(r, arrives)
                   PROVE  IInv'
  <1> DEFINE turn == [by |-> r, user |-> req[r].user, conv |-> req[r].conv]
             next == IF arrives THEN At(r, "touch") ELSE Raised(r)
  <1>1. /\ req[r].pc = "save" /\ config' = config
        /\ UNCHANGED <<conversations, recent, proposals, events>>
        /\ history' = Append(history, turn)
        /\ Goes(r, next)
    BY DEF Save, Committed, Holds
  <1>2. /\ turn \in [by : Requests, user : Users, conv : Nat]
        /\ turn.by = r /\ turn.user = req[r].user /\ turn.conv = req[r].conv
        /\ history \in Seq([by : Requests, user : Users, conv : Nat])
    BY KnowsIt DEF Turn, IInv, ChatTypeOK
  <1>3. turn.conv \in DOMAIN conversations /\ conversations[turn.conv] = turn.user
    BY <1>1, <1>2, KnowsIt DEF Knows, Placed, Steps, DatabaseSteps
  <1> HIDE DEF turn
  <1>4. StoreTypeOK' /\ Extends
    BY <1>1, <1>2 DEF IInv, ChatTypeOK, StoreTypeOK, Extends
  <1>5. ASSUME NEW i \in DOMAIN history'
        PROVE  history'[i] = turn \/ (i \in DOMAIN history /\ history'[i] = history[i])
    BY <1>1, <1>2
  <1>6. /\ next \in Turn /\ next.pc \in Past
        /\ next.plan = req[r].plan /\ next.scan = req[r].scan
        /\ Knows(r, next, conversations', events', proposals')
    <2>1. CASE arrives
      <3>1. At(r, "touch") \in Turn
        BY KnowsIt DEF At, Turn, Steps, DatabaseSteps
      <3>2. Knows(r, At(r, "touch"), conversations', events', proposals')
        BY ZenonT(60), <1>1, KnowsIt
           DEF At, Turn, Knows, Placed, Routed, Audited, Told, Enforced, Steps,
               DatabaseSteps, BestEffort, Going, InRag, ForSql
      <3>3. QED
        BY <2>1, <3>1, <3>2, KnowsIt DEF At, Turn, Past, BestEffort
    <2>2. CASE ~arrives
      BY <1>1, <1>4, <2>2, RaisedKnows DEF Steps, DatabaseSteps
    <2>3. QED
      BY <2>1, <2>2
  <1>7. Turns'
    BY <1>1, <1>3, <1>5 DEF IInv, Turns
  <1>8. Writes(r, next)
    BY <1>2, <1>5, <1>6 DEF Writes
  <1>9. QED
    BY <1>1, <1>4, <1>6, <1>7, <1>8, MovesOn

LEMMA TouchKeeps == ASSUME IInv, NEW r \in Requests, Touch(r) PROVE IInv'
  <1> DEFINE q == At(r, "replied")
  <1>1. /\ req[r].pc = "touch" /\ config' = config
        /\ UNCHANGED <<conversations, history, proposals, events>>
        /\ recent' = MovedLast(recent, req[r].conv)
        /\ Goes(r, q)
    BY DEF Touch, Holds
  <1>2. recent' \in Seq(Nat)
    <2>1. recent \in Seq(Nat) /\ req[r].conv \in Nat
      BY KnowsIt DEF IInv, ChatTypeOK, Turn
    <2>2. /\ DOMAIN recent = 1 .. Len(recent) /\ Len(recent) \in Nat
          /\ \A i \in 1 .. Len(recent) : recent[i] \in Nat
      BY <2>1
    <2>3. recent' \in [1 .. Len(recent) -> Nat]
      BY <1>1, <2>1, <2>2 DEF MovedLast
    <2>4. QED
      BY <2>2, <2>3
  <1>3. StoreTypeOK' /\ Extends /\ Turns'
    BY <1>1, <1>2 DEF IInv, ChatTypeOK, StoreTypeOK, Extends, Turns
  <1>4. q \in Turn /\ q.pc \in Past /\ q.plan = req[r].plan /\ q.scan = req[r].scan
    BY KnowsIt DEF At, Turn, Over, Past
  <1>5. Knows(r, q, conversations', events', proposals')
    BY <1>1, KnowsIt
       DEF At, Turn, Knows, Placed, Routed, Audited, Told, Enforced, Steps,
           DatabaseSteps, BestEffort, Going, InRag, ForSql
  <1>6. QED
    BY <1>1, <1>3, <1>4, <1>5, MovesOn

-----------------------------------------------------------------------------
\* The rest: a request arrives, the configuration changes, the process dies.
LEMMA NoTurnType == NoTurn \in Turn
  <1>1. (CHOOSE u \in Users : TRUE) \in Users
    BY ChatAssumption
  <1>2. QED
    BY <1>1 DEF NoTurn, Turn, NoConfig, Config, Modes, Verdicts, Routes, Statuses, NewConversation

LEMMA AskKeeps ==
    ASSUME IInv, NEW r \in Requests, NEW u \in Users, NEW scan \in Verdicts,
           NEW c \in {NewConversation} \union DOMAIN conversations, Ask(r, u, c, scan)
    PROVE  IInv'
  <1> DEFINE q == [NoTurn EXCEPT !.pc = "resolve", !.user = u, !.conv = c, !.scan = scan]
  <1>1. /\ req[r].pc = "idle" /\ UNCHANGED <<config, store, conn>>
        /\ req' = [req EXCEPT ![r] = q]
    BY DEF Ask
  <1>2. /\ req \in [Requests -> Turn] /\ conversations \in Seq(Users)
        /\ c \in Nat
    BY DEF IInv, ChatTypeOK, NewConversation
  <1>3. q \in Turn
    BY <1>2, NoTurnType DEF Turn, Steps, DatabaseSteps
  <1> HIDE DEF q
  <1>4. /\ req' \in [Requests -> Turn] /\ req'[r] = q
        /\ \A s \in Requests \ {r} : req'[s] = req[s]
    BY <1>1, <1>2, <1>3
  <1>5. ChatTypeOK' /\ Turns' /\ Extends
    BY <1>1, <1>4 DEF IInv, ChatTypeOK, Turns, Extends, store
  <1>6. Pool'
    BY <1>1, <1>4 DEF IInv, ChatTypeOK, Pool, ConnectionsComeBack, InUse, DatabaseSteps
  <1>7. \A p \in proposals : p.by # r
    BY <1>1 DEF IInv, Justified, Past, BestEffort, Over
  <1>8. Knows(r, q, conversations', events', proposals')
    BY <1>1 DEF q, NoTurn, Knows, Placed, Routed, Audited, Told, Enforced, Steps, DatabaseSteps,
                BestEffort, Going, InRag, ForSql, NoConfig, store
  <1>9. Saved'
    <2>1. ASSUME NEW i \in DOMAIN history
          PROVE  req'[history[i].by] = req[history[i].by]
      BY <1>1, <1>4, <2>1, SavedTurn DEF Past, BestEffort, Over
    <2>2. QED
      BY <1>1, <2>1 DEF IInv, Saved, store
  <1>10. QED
    BY <1>1, <1>4, <1>5, <1>6, <1>7, <1>8, <1>9, OneMoves DEF store

LEMMA SetConfigKeeps == ASSUME IInv, NEW c \in Configs, SetConfig(c) PROVE IInv'
  <1>1. config' \in Config /\ UNCHANGED <<store, req, conn>>
    BY ChatAssumption DEF SetConfig
  <1>2. ChatTypeOK' /\ Turns' /\ Saved' /\ Pool'
    BY <1>1 DEF IInv, ChatTypeOK, Turns, Saved, Pool, ConnectionsComeBack, InUse, store
  <1>3. QED
    BY <1>1, <1>2 DEF IInv, store

LEMMA CrashKeeps == ASSUME IInv, Crash PROVE IInv'
  <1>1. /\ UNCHANGED <<config, store>> /\ conn' = {}
        /\ req' = [r \in Requests |-> IF req[r].pc \in Steps THEN At(r, "failed") ELSE req[r]]
    BY DEF Crash
  <1>2. ASSUME NEW r \in Requests
        PROVE  /\ At(r, "failed") \in Turn
               /\ At(r, "failed").pc \in Past
               /\ At(r, "failed").plan = req[r].plan /\ At(r, "failed").scan = req[r].scan
               /\ Knows(r, At(r, "failed"), conversations, events, proposals)
    <2>1. At(r, "failed") \in Turn
      BY KnowsIt DEF At, Turn, Over
    <2>2. Knows(r, At(r, "failed"), conversations, events, proposals)
      BY KnowsIt
         DEF At, Turn, Knows, Placed, Routed, Audited, Told, Enforced, Steps, DatabaseSteps,
             BestEffort, Going, InRag, ForSql
    <2>3. QED
      BY <2>1, <2>2, KnowsIt DEF At, Turn, Past, Over
  <1>3. \A r \in Requests : Knows(r, req'[r], conversations', events', proposals')
    BY <1>1, <1>2 DEF IInv, store
  <1>4. \A p \in proposals' : Justified(p, req'[p.by], conversations')
    <2>1. ASSUME NEW p \in proposals
          PROVE  p.by \in Requests /\ Justified(p, req[p.by], conversations)
      BY DEF IInv, ChatTypeOK
    <2>2. QED
      BY <1>1, <1>2, <2>1 DEF Justified, Enforced, store
  <1>5. /\ ChatTypeOK' /\ Turns'
        /\ Saved'
    <2>1. ASSUME NEW i \in DOMAIN history
          PROVE  history[i].by \in Requests /\ req[history[i].by].pc \in Past
      BY SavedTurn
    <2>2. Saved'
      BY <1>1, <1>2, <2>1 DEF Saved, store
    <2>3. QED
      BY <1>1, <1>2, <2>2 DEF IInv, ChatTypeOK, Turns, store
  <1>6. Pool'
    BY <1>1, FS_EmptySet, ChatAssumption DEF Pool, ConnectionsComeBack, InUse
  <1>7. QED
    BY <1>3, <1>4, <1>5, <1>6 DEF IInv

-----------------------------------------------------------------------------
\* The initial state satisfies the inductive invariant.
LEMMA InitInv == ChatInit => IInv
  <1> SUFFICES ASSUME ChatInit PROVE IInv
    OBVIOUS
  <1>1. NoTurn \in Turn
    BY NoTurnType
  <1>2. ChatTypeOK
    BY <1>1, ChatAssumption DEF ChatInit, ChatTypeOK
  <1>3. \A r \in Requests : Knows(r, req[r], conversations, events, proposals)
    BY DEF ChatInit, NoTurn, Knows, Placed, Routed, Audited, Told, Enforced, Steps, DatabaseSteps,
           BestEffort, Going, InRag, ForSql, NoConfig
  <1>4. \A p \in proposals : Justified(p, req[p.by], conversations)
    BY DEF ChatInit
  <1>5. Turns /\ Saved
    BY DEF ChatInit, Turns, Saved
  <1>6. Pool
    BY FS_EmptySet, ChatAssumption DEF ChatInit, Pool, ConnectionsComeBack, InUse
  <1>7. QED
    BY <1>2, <1>3, <1>4, <1>5, <1>6 DEF IInv

\* Every step keeps the inductive invariant.
LEMMA StepKeeps == IInv /\ [ChatNext]_chat_vars => IInv'
  <1> SUFFICES ASSUME IInv, [ChatNext]_chat_vars
               PROVE  IInv'
    OBVIOUS
  <1>1. ASSUME NEW r \in Requests, Serve(r)
        PROVE  IInv'
    <2>1. CASE Take(r) \/ Exhausted(r) \/ Raises(r)
      BY <2>1, TakeKeeps, ExhaustedKeeps, RaisesKeeps
    <2>2. CASE Lookup(r) \/ Guard(r) \/ ReadCatalog(r) \/ Touch(r)
      BY <2>2, LookupKeeps, GuardKeeps, ReadCatalogKeeps, TouchKeeps
    <2>3. ASSUME NEW arrives \in BOOLEAN,
                 \/ Create(r, arrives) \/ Audit(r, arrives) \/ Deny(r, arrives)
                 \/ AuditContext(r, arrives) \/ AuditOutput(r, arrives)
                 \/ StoreProposal(r, arrives) \/ Save(r, arrives)
          PROVE  IInv'
      BY <2>3, CreateKeeps, AuditKeeps, DenyKeeps, AuditContextKeeps, AuditOutputKeeps,
         StoreProposalKeeps, SaveKeeps
    <2>4. ASSUME NEW sampled \in BOOLEAN, Route(r, sampled)
          PROVE  IInv'
      BY <2>4, RouteKeeps
    <2>5. ASSUME NEW route \in Routes \ {"none"}, AskRouter(r, route)
          PROVE  IInv'
      BY <2>5, AskRouterKeeps
    <2>6. ASSUME NEW valid \in BOOLEAN, Generate(r, valid)
          PROVE  IInv'
      BY <2>6, GenerateKeeps
    <2>7. ASSUME NEW found \in BOOLEAN, Rag(r, found) \/ Draft(r, found)
          PROVE  IInv'
      BY <2>7, RagKeeps, DraftKeeps
    <2>8. QED
      BY <1>1, <2>1, <2>2, <2>3, <2>4, <2>5, <2>6, <2>7 DEF Serve
  <1>2. ASSUME NEW r \in Requests, NEW u \in Users, NEW scan \in Verdicts,
               NEW c \in {NewConversation} \union DOMAIN conversations, Ask(r, u, c, scan)
        PROVE  IInv'
    BY <1>2, AskKeeps
  <1>3. ASSUME NEW c \in Configs, SetConfig(c)
        PROVE  IInv'
    BY <1>3, SetConfigKeeps
  <1>4. CASE Crash
    BY <1>4, CrashKeeps
  <1>5. CASE UNCHANGED chat_vars
    BY <1>5 DEF IInv, ChatTypeOK, Turns, Saved, Pool, ConnectionsComeBack, InUse, chat_vars, store
  <1>6. QED
    BY <1>1, <1>2, <1>3, <1>4, <1>5 DEF ChatNext

\* The inductive invariant holds in every reachable state, for any requests, users,
\* configurations and pool.
THEOREM Invariance == ChatSpec => []IInv
  <1>1. QED
    BY InitInv, StepKeeps, PTL DEF ChatSpec

-----------------------------------------------------------------------------
\* The snapshot, the rows, the turns and the connections keep their shapes, whatever
\* interleaves, fails or dies.
THEOREM TypeCorrect == ChatSpec => []ChatTypeOK
  <1>1. IInv => ChatTypeOK
    BY DEF IInv
  <1>2. QED
    BY <1>1, Invariance, PTL

\* For any number of requests and users: a turn or a proposal is stored for a
\* conversation of its own user (_resolve_conversation, create, _save_history).
THEOREM TurnsAreTheirOwners == ChatSpec => []OwnTurns
  <1>1. IInv => OwnTurns
    BY DEF IInv, Turns, Justified, OwnTurns
  <1>2. QED
    BY <1>1, Invariance, PTL

\* No proposal is stored but for an administrator, under a configuration that opened SQL,
\* without lockdown, for a question that was not blocked (authorize_sql on both routes).
THEOREM ProposalsAreAuthorised == ChatSpec => []ProposalsAuthorised
  <1>1. IInv => ProposalsAuthorised
    BY DEF IInv, Justified, Enforced, ProposalsAuthorised
  <1>2. QED
    BY <1>1, Invariance, PTL

\* What a response announces has happened: it has a proposal to approve exactly when one
\* is stored for it, and answers from the documents only if they were asked.
THEOREM ResponsesAreTrue == ChatSpec => []ResponseIsTrue
  <1>1. IInv => ResponseIsTrue
    BY DEF IInv, Knows, Told, ResponseIsTrue
  <1>2. QED
    BY <1>1, Invariance, PTL

\* The guard's findings and the denied routes are in the audit trail before anything is
\* answered, and a blocked question goes nowhere, whatever the mode becomes meanwhile.
THEOREM TheGuardComesFirst == ChatSpec => []GuardComesFirst
  <1>1. IInv => AuditedFirst
    BY DEF IInv, Knows, Audited, Authorised, AuditedFirst
  <1>2. IInv => BlockedStopsThere
    BY DEF IInv, Knows, Routed, Enforced, Justified, BlockedStopsThere
  <1>3. QED
    BY <1>1, <1>2, Invariance, PTL DEF GuardComesFirst

\* The pool is never overdrawn, and whatever is raised on the way, a connection is held
\* inside a database call only (PostgresConnectionPool.connection).
THEOREM PoolIsNeverOverdrawn == ChatSpec => []ConnectionsComeBack
  <1>1. IInv => ConnectionsComeBack
    BY DEF IInv, Pool
  <1>2. QED
    BY <1>1, Invariance, PTL

\* A request is moved by its own steps only.
LEMMA OwnStep ==
    ASSUME NEW r \in Requests, NEW s \in Requests, s # r, Serve(s), req \in [Requests -> Turn]
    PROVE  req'[r] = req[r]
  <1>1. UNCHANGED req \/ \E q : Goes(s, q)
    BY DEF Serve, Take, Exhausted, Raises, Lookup, Guard, Rag, Draft, ReadCatalog, Touch, Create,
           Audit, Deny, AuditContext, AuditOutput, StoreProposal, Save, Route, AskRouter, Generate, Committed
  <1>2. QED
    BY <1>1 DEF Goes

\* While its turn is saved, a request can only go on or return.
LEMMA SavedOrReturned ==
    ASSUME IInv, NEW r \in Requests, req[r].pc \in BestEffort, Serve(r)
    PROVE  req'[r].pc \in BestEffort \union {"replied"}
  <1>1. req \in [Requests -> Turn] /\ req[r] \in Turn
    BY DEF IInv, ChatTypeOK
  <1>2. \/ UNCHANGED req
        \/ Goes(r, Raised(r))
        \/ Goes(r, At(r, "touch"))
        \/ Goes(r, At(r, "replied"))
    BY DEF Serve, Take, Exhausted, Raises, Lookup, Guard, Rag, Draft, ReadCatalog, Touch, Create,
           Audit, Deny, AuditContext, AuditOutput, StoreProposal, Save, Route, AskRouter, Generate, Committed, Holds, BestEffort
  <1>3. QED
    BY <1>1, <1>2 DEF Goes, Raised, At, Turn, BestEffort

\* After a proposal or a turn is stored, what is left of its request cannot fail, but for
\* the death of the process: the proposal comes after the answer of the documents, and the
\* writes of the history are caught (_generate_hybrid_answer, _save_history).
THEOREM WhatIsStoredIsTold == ChatSpec => StoredIsTold
  <1> DEFINE stored(r) == \/ \E p \in proposals : p.by = r
                          \/ \E i \in DOMAIN history : history[i].by = r
  <1>1. ASSUME IInv, [ChatNext]_chat_vars, NEW r \in Requests,
               stored(r), req[r].pc # "failed", req'[r].pc = "failed"
        PROVE  Crash
    <2>1. req[r].pc \in BestEffort \union {"replied"} /\ req \in [Requests -> Turn]
      BY <1>1 DEF IInv, ChatTypeOK, Justified, Saved, Past, Over
    <2>2. ASSUME NEW s \in Requests, Serve(s)
          PROVE  FALSE
      <3>1. CASE s = r /\ req[r].pc \in BestEffort
        BY <1>1, <2>2, <3>1, SavedOrReturned DEF BestEffort
      <3>2. CASE s = r /\ req[r].pc = "replied"
        BY <2>2, <3>2 DEF Serve, Take, Exhausted, Raises, Lookup, Guard, Rag, Draft, ReadCatalog,
           Touch, Create, Audit, Deny, AuditContext, AuditOutput, StoreProposal, Save, Route,
           AskRouter, Generate, Holds, Steps, DatabaseSteps
      <3>3. CASE s # r
        BY <1>1, <2>1, <2>2, <3>3, OwnStep
      <3>4. QED
        BY <2>1, <3>1, <3>2, <3>3
    <2>3. ASSUME NEW s \in Requests, NEW u \in Users, NEW scan \in Verdicts,
                 NEW c \in {NewConversation} \union DOMAIN conversations, Ask(s, u, c, scan)
          PROVE  FALSE
      BY <1>1, <2>1, <2>3 DEF Ask, NoTurn, BestEffort
    <2>4. ASSUME NEW c \in Configs, SetConfig(c)
          PROVE  FALSE
      BY <1>1, <2>4 DEF SetConfig
    <2>5. CASE UNCHANGED chat_vars
      BY <1>1, <2>5 DEF chat_vars
    <2>6. QED
      BY <1>1, <2>2, <2>3, <2>4, <2>5 DEF ChatNext
  <1>2. IInv /\ [ChatNext]_chat_vars =>
            [\A r \in Requests :
                /\ \/ \E p \in proposals : p.by = r
                   \/ \E i \in DOMAIN history : history[i].by = r
                /\ req[r].pc # "failed" /\ req'[r].pc = "failed"
                => Crash]_chat_vars
    BY <1>1
  <1>3. QED
    BY <1>2, Invariance, PTL DEF ChatSpec, StoredIsTold

-----------------------------------------------------------------------------
(* Every turn ends: what is left of it.                                      *)

TurnSteps ==
    [idle |-> 16, resolve |-> 15, guard |-> 14, audit |-> 13, route |-> 12,
     ask_router |-> 11, deny |-> 10, rag |-> 9, audit_context |-> 8, draft |-> 7,
     audit_output |-> 6, read_catalog |-> 5, generate |-> 4, store |-> 3, save |-> 2, touch |-> 1, replied |-> 0, failed |-> 0]

\* Two steps for each step to come: the connection, and the call.
TurnLeft(r) == 2 * TurnSteps[req[r].pc] + (IF r \in conn THEN 0 ELSE 1)

Later(from, to) == TurnSteps[to] < TurnSteps[from]

\* The step of one request brings it further and leaves the others where they are.
Advances(r) == /\ TurnLeft(r)' < TurnLeft(r)
               /\ \A s \in Requests \ {r} : TurnLeft(s)' = TurnLeft(s)

\* What is left of a turn is a number.
LEMMA TurnLeftIsNat == ChatTypeOK => \A r \in Requests : TurnLeft(r) \in Nat
  <1> SUFFICES ASSUME ChatTypeOK, NEW r \in Requests PROVE TurnLeft(r) \in Nat
    OBVIOUS
  <1>1. TurnSteps[req[r].pc] \in Nat
    BY DEF ChatTypeOK, Turn, TurnSteps, Steps, DatabaseSteps, Over
  <1>2. QED
    BY <1>1 DEF TurnLeft

\* Whatever happens to its connection, a request at a later step has less left.
LEMMA GoesOn ==
    ASSUME ChatTypeOK, NEW r \in Requests, NEW q, Goes(r, q),
           q.pc \in DOMAIN TurnSteps, Later(req[r].pc, q.pc)
    PROVE  Advances(r)
  <1>1. /\ req' = [req EXCEPT ![r] = q] /\ conn' = conn \ {r}
        /\ req \in [Requests -> Turn]
    BY DEF Goes, ChatTypeOK
  <1>2. /\ TurnSteps[req[r].pc] \in Nat /\ TurnSteps[q.pc] \in Nat
        /\ TurnSteps[q.pc] < TurnSteps[req[r].pc]
    BY <1>1 DEF Later, Turn, TurnSteps, Steps, DatabaseSteps, Over
  <1>3. TurnLeft(r)' = 2 * TurnSteps[q.pc] + 1
    BY <1>1 DEF TurnLeft
  <1>4. TurnLeft(r) >= 2 * TurnSteps[req[r].pc]
    BY <1>2 DEF TurnLeft
  <1>5. TurnLeft(r)' < TurnLeft(r)
    <2>1. TurnLeft(r) \in Nat
      BY TurnLeftIsNat
    <2>2. QED
      BY <1>2, <1>3, <1>4, <2>1
  <1>6. ASSUME NEW s \in Requests \ {r}
        PROVE  TurnLeft(s)' = TurnLeft(s)
    BY <1>1 DEF TurnLeft
  <1>7. QED
    BY <1>5, <1>6 DEF Advances

\* The router sends a question on, whatever it decides.
LEMMA RouterGoes ==
    ASSUME NEW r \in Requests, req[r] \in Turn, NEW route \in Routes \ {"none"},
           AskRouter(r, route)
    PROVE  /\ req[r].pc = "ask_router"
           /\ \E q : Goes(r, q) /\ q.pc \in {"save", "deny", "read_catalog", "rag"}
  <1> DEFINE may == Authorised(req[r].user, req[r].plan)
             next == CASE route = "reject" -> "save"
                       [] route \in {"sql", "hybrid"} /\ ~may -> "deny"
                       [] route = "sql" /\ may -> "read_catalog"
                       [] route = "rag" \/ (route = "hybrid" /\ may) -> "rag"
             q == [[req[r] EXCEPT !.route = route]
                      EXCEPT !.pc = next, !.status = IF next = "save" THEN "rejected" ELSE @]
  <1>1. req[r].pc = "ask_router" /\ Goes(r, q)
    BY DEF AskRouter
  <1> HIDE DEF may
  <1>2. next \in {"rag", "save", "deny", "read_catalog"}
    BY DEF Routes
  <1> HIDE DEF next
  <1>3. q.pc = next
    BY DEF Turn
  <1>4. QED
    BY <1>1, <1>2, <1>3

\* Every step a request takes, and everything raised at it, brings it further.
LEMMA ServeAdvances == ASSUME IInv, NEW r \in Requests, Serve(r) PROVE Advances(r)
  <1>1. ChatTypeOK /\ req[r] \in Turn
    BY DEF IInv, ChatTypeOK
  <1>2. ASSUME NEW step \in DOMAIN TurnSteps, Later(req[r].pc, step), Goes(r, At(r, step))
        PROVE  Advances(r)
    <2>1. At(r, step).pc = step
      BY <1>1 DEF At, Turn
    <2>2. QED
      BY <1>1, <1>2, <2>1, GoesOn
  <1>3. ASSUME NEW status, Later(req[r].pc, "save"), Goes(r, Answers(r, status))
        PROVE  Advances(r)
    <2>1. Answers(r, status).pc = "save"
      BY <1>1 DEF Answers, Turn
    <2>2. QED
      BY <1>1, <1>3, <2>1, GoesOn DEF TurnSteps
  <1>4. ASSUME req[r].pc \in Steps, Goes(r, Raised(r))
        PROVE  Advances(r)
    BY <1>2, <1>4 DEF Raised, Later, TurnSteps, Steps, DatabaseSteps
  <1>5. CASE Take(r)
    <2>1. r \notin conn /\ conn' = conn \union {r} /\ UNCHANGED req
      BY <1>5 DEF Take
    <2>2. TurnSteps[req[r].pc] \in Nat
      BY <1>1 DEF Turn, TurnSteps, Steps, DatabaseSteps, Over
    <2>3. TurnLeft(r) = 2 * TurnSteps[req[r].pc] + 1 /\ TurnLeft(r)' = 2 * TurnSteps[req[r].pc] + 0
      BY <2>1 DEF TurnLeft
    <2>4. \A s \in Requests \ {r} : TurnLeft(s)' = TurnLeft(s)
      BY <2>1 DEF TurnLeft
    <2>5. QED
      BY <2>2, <2>3, <2>4 DEF Advances
  <1>6. CASE Exhausted(r) \/ Raises(r)
    BY <1>4, <1>6 DEF Exhausted, Raises, Steps
  <1>7. ASSUME NEW arrives \in BOOLEAN, NEW q, Committed(r, arrives, q), req[r].pc \in Steps,
               q.pc \in DOMAIN TurnSteps, Later(req[r].pc, q.pc)
        PROVE  Advances(r)
    BY <1>1, <1>4, <1>7, GoesOn DEF Committed
  <1>8. CASE Lookup(r)
    <2>1. req[r].pc = "resolve" /\ (Goes(r, At(r, "guard")) \/ Goes(r, Raised(r)))
      BY <1>8 DEF Lookup, Holds
    <2>2. QED
      BY <1>2, <1>4, <2>1 DEF Later, TurnSteps, Steps, DatabaseSteps
  <1>9. CASE Guard(r)
    <2> DEFINE q == [req[r] EXCEPT !.plan = config,
                                   !.pc = IF Recorded(req[r].scan, config.mode) THEN "audit"
                                          ELSE "route"]
    <2>1. req[r].pc = "guard" /\ Goes(r, q)
      BY <1>9 DEF Guard
    <2>2. q.pc \in {"audit", "route"}
      BY <1>1 DEF Turn
    <2> HIDE DEF q
    <2>3. QED
      BY <1>1, <2>1, <2>2, GoesOn DEF Later, TurnSteps
  <1>10. ASSUME NEW found \in BOOLEAN, Rag(r, found) \/ Draft(r, found)
         PROVE  Advances(r)
    <2>1. ASSUME Rag(r, found)
          PROVE  Advances(r)
      BY <1>2, <2>1 DEF Rag, Later, TurnSteps
    <2>2. ASSUME Draft(r, found)
          PROVE  Advances(r)
      <3> DEFINE next == IF found THEN At(r, "audit_output") ELSE WithAnswer(r)
                 q == [next EXCEPT !.rag = TRUE]
      <3>1. req[r].pc = "draft" /\ Goes(r, q)
        BY <2>2 DEF Draft
      <3>2. q.pc \in {"audit_output", "read_catalog", "save"}
        BY <1>1 DEF Turn, WithAnswer, At, Answers
      <3> HIDE DEF q
      <3>3. QED
        BY <1>1, <3>1, <3>2, GoesOn DEF Later, TurnSteps
    <2>3. QED
      BY <1>10, <2>1, <2>2
  <1>11. CASE ReadCatalog(r)
    BY <1>2, <1>11 DEF ReadCatalog, Holds, Later, TurnSteps
  <1>12. CASE Touch(r)
    BY <1>2, <1>12 DEF Touch, Holds, Later, TurnSteps
  <1>13. ASSUME NEW arrives \in BOOLEAN, Create(r, arrives)
         PROVE  Advances(r)
    <2> DEFINE q == [req[r] EXCEPT !.pc = "guard", !.conv = Len(conversations) + 1]
    <2>1. req[r].pc = "resolve" /\ Committed(r, arrives, q)
      BY <1>13 DEF Create, Holds
    <2>2. q.pc = "guard"
      BY <1>1 DEF Turn
    <2> HIDE DEF q
    <2>3. QED
      BY <1>7, <2>1, <2>2 DEF Later, TurnSteps, Steps, DatabaseSteps
  <1>14. ASSUME NEW arrives \in BOOLEAN, Audit(r, arrives)
         PROVE  Advances(r)
    <2> DEFINE q == IF Blocked(r) THEN Answers(r, "blocked") ELSE At(r, "route")
    <2>1. req[r].pc = "audit" /\ Committed(r, arrives, q)
      BY <1>14 DEF Audit, Holds
    <2>2. q.pc \in {"save", "route"}
      BY <1>1 DEF Turn, At, Answers
    <2> HIDE DEF q
    <2>3. QED
      BY <1>7, <2>1, <2>2 DEF Later, TurnSteps, Steps, DatabaseSteps
  <1>15. ASSUME NEW arrives \in BOOLEAN, Deny(r, arrives) \/ StoreProposal(r, arrives)
         PROVE  Advances(r)
    <2>1. /\ req[r].pc \in {"deny", "store"}
          /\ \E status : Committed(r, arrives, Answers(r, status))
      BY <1>15 DEF Deny, StoreProposal, Holds
    <2>2. \A status : Answers(r, status).pc = "save"
      BY <1>1 DEF Turn, Answers
    <2>3. QED
      BY <1>7, <2>1, <2>2 DEF Later, TurnSteps, Steps, DatabaseSteps
  <1>16. ASSUME NEW arrives \in BOOLEAN, Save(r, arrives)
         PROVE  Advances(r)
    <2>1. req[r].pc = "save" /\ Committed(r, arrives, At(r, "touch"))
      BY <1>16 DEF Save, Holds
    <2>2. At(r, "touch").pc = "touch"
      BY <1>1 DEF Turn, At
    <2>3. QED
      BY <1>7, <2>1, <2>2 DEF Later, TurnSteps, Steps, DatabaseSteps
  <1>17. ASSUME NEW sampled \in BOOLEAN, Route(r, sampled)
         PROVE  Advances(r)
    <2> DEFINE q == IF SqlOpen(req[r].plan) /\ sampled THEN At(r, "ask_router")
                    ELSE [At(r, "rag") EXCEPT !.route = "rag"]
    <2>1. req[r].pc = "route" /\ Goes(r, q)
      BY <1>17 DEF Route
    <2>2. q.pc \in {"ask_router", "rag"}
      BY <1>1 DEF Turn, At
    <2> HIDE DEF q
    <2>3. QED
      BY <1>1, <2>1, <2>2, GoesOn DEF Later, TurnSteps
  <1>18. ASSUME NEW route \in Routes \ {"none"}, AskRouter(r, route)
         PROVE  Advances(r)
    <2>1. /\ req[r].pc = "ask_router"
          /\ \E q : Goes(r, q) /\ q.pc \in {"save", "deny", "read_catalog", "rag"}
      BY <1>1, <1>18, RouterGoes
    <2>2. QED
      BY <1>1, <2>1, GoesOn DEF Later, TurnSteps
  <1>19. ASSUME NEW valid \in BOOLEAN, Generate(r, valid)
         PROVE  Advances(r)
    <2>1. /\ req[r].pc = "generate"
          /\ Goes(r, At(r, "store")) \/ \E status : Goes(r, Answers(r, status))
      BY <1>19 DEF Generate, WithoutSql
    <2>2. QED
      BY <1>2, <1>3, <2>1 DEF Later, TurnSteps
  <1>20. ASSUME NEW arrives \in BOOLEAN, AuditContext(r, arrives) \/ AuditOutput(r, arrives)
         PROVE  Advances(r)
    <2>1. ASSUME AuditContext(r, arrives)
          PROVE  Advances(r)
      <3>1. req[r].pc = "audit_context" /\ Committed(r, arrives, At(r, "draft"))
        BY <2>1 DEF AuditContext, Holds
      <3>2. At(r, "draft").pc = "draft"
        BY <1>1 DEF Turn, At
      <3>3. QED
        BY <1>7, <3>1, <3>2 DEF Later, TurnSteps, Steps, DatabaseSteps
    <2>2. ASSUME AuditOutput(r, arrives)
          PROVE  Advances(r)
      <3>1. req[r].pc = "audit_output" /\ Committed(r, arrives, WithAnswer(r))
        BY <2>2 DEF AuditOutput, Holds
      <3>2. WithAnswer(r).pc \in {"read_catalog", "save"}
        BY <1>1 DEF Turn, WithAnswer, At, Answers
      <3>3. QED
        BY <1>7, <3>1, <3>2 DEF Later, TurnSteps, Steps, DatabaseSteps
    <2>3. QED
      BY <1>20, <2>1, <2>2
  <1>21. QED
    BY <1>5, <1>6, <1>8, <1>9, <1>10, <1>11, <1>12, <1>13, <1>14, <1>15, <1>16, <1>17, <1>18,
       <1>19, <1>20 DEF Serve

\* A crash ends what is under way.
LEMMA CrashEnds ==
    ASSUME IInv, Crash, NEW r \in Requests
    PROVE  TurnLeft(r)' <= TurnLeft(r)
  <1>1. /\ conn' = {} /\ req' = [s \in Requests |-> IF req[s].pc \in Steps THEN At(s, "failed")
                                                    ELSE req[s]]
        /\ req[r] \in Turn /\ conn \subseteq Requests
        /\ r \in conn => req[r].pc \in DatabaseSteps
    BY DEF Crash, IInv, ChatTypeOK, Pool, ConnectionsComeBack
  <1>2. CASE req[r].pc \in Steps
    <2>1. req'[r].pc = "failed" /\ r \notin conn'
      BY <1>1, <1>2 DEF At, Turn
    <2>2. TurnLeft(r)' = 1
      BY <2>1 DEF TurnLeft, TurnSteps
    <2>3. TurnSteps[req[r].pc] \in Nat \ {0}
      BY <1>2 DEF Steps, DatabaseSteps, TurnSteps
    <2>4. QED
      BY <2>2, <2>3 DEF TurnLeft
  <1>3. CASE req[r].pc \notin Steps
    <2>1. r \notin conn /\ r \notin conn' /\ req'[r] = req[r]
      BY <1>1, <1>3 DEF Steps
    <2>2. TurnLeft(r)' = TurnLeft(r)
      BY <2>1 DEF TurnLeft
    <2>3. TurnLeft(r) \in Nat
      BY TurnLeftIsNat DEF IInv
    <2>4. QED
      BY <2>2, <2>3
  <1>4. QED
    BY <1>2, <1>3

\* No turn goes on for ever: what is left of each is a number that each of its own steps
\* makes smaller, among them the pool's refusal and everything raised, and that no other
\* request, no new configuration and no crash makes larger.
THEOREM TurnsRunOut ==
    ChatSpec => [](\A r \in Requests : TurnLeft(r) \in Nat)
                /\ [][\A r \in Requests : /\ Serve(r) => TurnLeft(r)' < TurnLeft(r)
                                          /\ TurnLeft(r)' <= TurnLeft(r)]_chat_vars
  <1> DEFINE Numbers == \A r \in Requests : TurnLeft(r) \in Nat
             Ends == \A r \in Requests : /\ Serve(r) => TurnLeft(r)' < TurnLeft(r)
                                         /\ TurnLeft(r)' <= TurnLeft(r)
  <1>1. IInv => Numbers
    BY TurnLeftIsNat DEF IInv
  <1> HIDE DEF Numbers
  <1>2. IInv' => Numbers'
    BY <1>1, PTL
  <1> USE DEF Numbers
  <1>3. ASSUME IInv, IInv', ChatNext, NEW r \in Requests
        PROVE  /\ Serve(r) => TurnLeft(r)' < TurnLeft(r)
               /\ TurnLeft(r)' <= TurnLeft(r)
    <2>1. TurnLeft(r) \in Nat
      BY <1>1, <1>3
    <2>2. Serve(r) => TurnLeft(r)' < TurnLeft(r)
      BY <1>3, ServeAdvances DEF Advances
    <2>3. ASSUME NEW s \in Requests, Serve(s)
          PROVE  TurnLeft(r)' < TurnLeft(r) \/ TurnLeft(r)' = TurnLeft(r)
      BY <1>3, <2>3, ServeAdvances DEF Advances
    <2>4. ASSUME NEW s \in Requests, NEW u \in Users, NEW scan \in Verdicts,
                 NEW c \in {NewConversation} \union DOMAIN conversations, Ask(s, u, c, scan)
          PROVE  TurnLeft(r)' < TurnLeft(r) \/ TurnLeft(r)' = TurnLeft(r)
      <3>1. /\ req \in [Requests -> Turn] /\ req[s].pc = "idle" /\ conn' = conn
            /\ req' = [req EXCEPT ![s] = [NoTurn EXCEPT !.pc = "resolve", !.user = u,
                                                        !.conv = c, !.scan = scan]]
        BY <1>3, <2>4 DEF Ask, IInv, ChatTypeOK
      <3>2. CASE r = s
        <4>1. req'[r].pc = "resolve"
          BY <3>1, <3>2 DEF NoTurn
        <4>2. TurnLeft(r)' = TurnLeft(r) - 2
          BY <3>1, <3>2, <4>1 DEF TurnLeft, TurnSteps
        <4>3. QED
          BY <2>1, <4>2
      <3>3. CASE r # s
        BY <3>1, <3>3 DEF TurnLeft
      <3>4. QED
        BY <3>2, <3>3
    <2>5. ASSUME NEW c \in Configs, SetConfig(c)
          PROVE  TurnLeft(r)' < TurnLeft(r) \/ TurnLeft(r)' = TurnLeft(r)
      BY <2>5 DEF SetConfig, TurnLeft
    <2>6. ASSUME Crash
          PROVE  TurnLeft(r)' <= TurnLeft(r)
      BY <1>3, <2>6, CrashEnds
    <2>7. TurnLeft(r)' \in Nat
      BY <1>2, <1>3
    <2>8. \A a, b \in Nat : b < a \/ b = a => b <= a
      OBVIOUS
    <2>9. TurnLeft(r)' < TurnLeft(r) \/ TurnLeft(r)' = TurnLeft(r) => TurnLeft(r)' <= TurnLeft(r)
      BY <2>1, <2>7, <2>8
    <2>10. QED
      BY <1>3, <2>2, <2>3, <2>4, <2>5, <2>6, <2>9 DEF ChatNext
  <1>4. IInv /\ IInv' /\ [ChatNext]_chat_vars => [Ends]_chat_vars
    BY <1>3
  <1>5. QED
    BY <1>1, <1>4, StepKeeps, Invariance, PTL DEF ChatSpec

=============================================================================
