------------------------- MODULE RagOpsConfigProofs -------------------------
(***************************************************************************)
(* Proofs about RagOpsConfig, for any number of workers, admins and flags. *)
(* Convergence itself is a liveness property and stays with TLC.           *)
(***************************************************************************)
EXTENDS RagOpsConfig, TLAPS

----------------------------------------------------------------------------
(* Shapes.                                                                 *)

\* A partial update of well-typed fields is well-typed, whatever columns the
\* request leaves out.
LEMMA MergeType ==
    ASSUME NEW fields \in [Fields -> BOOLEAN], NEW change \in Change
    PROVE  Merge(fields, change.set) \in [Fields -> BOOLEAN]
  <1>1. change.set \in UNION {[S -> BOOLEAN] : S \in SUBSET Fields}
    <2>1. CASE change.set \in Payloads
      BY <2>1, ConfigAssumption DEF Fields
    <2>2. CASE change.set \in Toggles
      BY <2>2 DEF Toggles, Fields
    <2>3. CASE change = [set |-> Nothing, bump |-> TRUE]
      BY <2>3 DEF Nothing
    <2> QED
      BY <2>1, <2>2, <2>3 DEF Change
  <1>2. PICK S \in SUBSET Fields : change.set \in [S -> BOOLEAN]
    BY <1>1
  <1> QED
    BY <1>2 DEF Merge

\* The current version of the row exists and is a row.
LEMMA CurrentType ==
    ASSUME TypeOK
    PROVE  Len(versions) \in Nat \ {0} /\ Current \in Row
  BY DEF TypeOK, Current, Last

\* What a transaction in progress writes is a row, and what it records entries.
LEMMA RewrittenType ==
    ASSUME TypeOK, NEW a \in Admins, admin[a].phase = "begun"
    PROVE  /\ admin[a] \in Begun
           /\ Rewritten(admin[a].change, admin[a].stamp) \in Row
  <1>1. admin[a] \in Begun
    BY DEF TypeOK, Request, Idle, Admitted, Begun, Committed
  <1>2. Current \in Row
    BY CurrentType
  <1>3. Merge(Current.fields, admin[a].change.set) \in [Fields -> BOOLEAN]
    BY <1>1, <1>2, MergeType DEF Begun, Row
  <1>4. (IF admin[a].change.bump THEN Current.corpus + 1 ELSE Current.corpus) \in Nat \ {0}
    BY <1>2 DEF Row
  <1> QED
    BY <1>1, <1>3, <1>4 DEF Begun, Row, Rewritten

\* What the audit log receives is a sequence of entries: none or one.
LEMMA RecordedType ==
    ASSUME NEW change \in Change, NEW old \in Row, NEW new \in Row
    PROVE  Recorded(change, old, new) \in Seq(Entry)
  <1>1. Diff(old, new) \in UNION {[S -> BOOLEAN] : S \in SUBSET Fields}
    <2> DEFINE S == {g \in Flags : old.fields[g] # new.fields[g]}
    <2>1. S \in SUBSET Fields
      BY DEF Fields
    <2>2. \A f \in S : new.fields[f] \in BOOLEAN
      BY <2>1 DEF Row
    <2>3. Diff(old, new) \in [S -> BOOLEAN]
      BY <2>2 DEF Diff
    <2> QED
      BY <2>1, <2>3
  <1>2. CASE IsUpdate(change)
    <2>1. [changes |-> Diff(old, new), corpus |-> 0] \in Entry
      BY <1>1 DEF Entry
    <2> QED
      BY <1>2, <2>1 DEF Recorded
  <1>3. CASE ~IsUpdate(change)
    <2>1. change.set \in UNION {[S -> BOOLEAN] : S \in SUBSET Fields}
      <3>1. CASE change.set \in Toggles
        BY <3>1 DEF Toggles, Fields
      <3>2. CASE change = [set |-> Nothing, bump |-> TRUE]
        BY SMTT(30), <3>2 DEF Nothing
      <3> QED
        BY <1>3, <3>1, <3>2 DEF Change, IsUpdate
    <2>2. (IF change.bump THEN new.corpus ELSE 0) \in Nat
      BY DEF Row
    <2>3. [changes |-> change.set,
           corpus |-> IF change.bump THEN new.corpus ELSE 0] \in Entry
      BY <2>1, <2>2 DEF Entry
    <2> QED
      BY <1>3, <2>3 DEF Recorded
  <1> QED
    BY <1>2, <1>3

\* A request may become idle or go through a phase of its own, and the versions
\* only grow: both clauses about requests survive.
LEMMA AdminType ==
    ASSUME TypeOK, NEW a \in Admins, NEW r \in Request,
           r.phase = "committed" => r.version <= Len(versions'),
           admin' = [admin EXCEPT ![a] = r],
           Len(versions') \in Nat, Len(versions') >= Len(versions)
    PROVE  /\ admin' \in [Admins -> Request]
           /\ \A b \in Admins : admin'[b].phase = "committed" => admin'[b].version <= Len(versions')
  <1>1. admin' \in [Admins -> Request]
    BY DEF TypeOK
  <1>2. ASSUME NEW b \in Admins, admin'[b].phase = "committed"
        PROVE  admin'[b].version <= Len(versions')
    <2>1. CASE b = a
      BY <1>2, <2>1 DEF TypeOK
    <2>2. CASE b # a
      <3>1. admin'[b] = admin[b]
        BY <2>2 DEF TypeOK
      <3>2. admin[b] \in Committed /\ admin[b].version <= Len(versions)
        BY <1>2, <3>1 DEF TypeOK, Request, Idle, Admitted, Begun, Committed
      <3>3. admin[b].version \in Nat /\ Len(versions) \in Nat
        BY <3>2, CurrentType DEF Committed
      <3> QED
        BY <3>1, <3>2, <3>3
    <2> QED
      BY <2>1, <2>2
  <1> QED
    BY <1>1, <1>2

\* An idle request is a request, and not a committed one.
LEMMA IdleType == Idle \in Request /\ Idle.phase # "committed"
  BY DEF Request, Idle

\* The row as the migrations leave it, and nothing in progress.
LEMMA InitType == Init => TypeOK
  <1> SUFFICES ASSUME Init PROVE TypeOK
    OBVIOUS
  <1> DEFINE first == [fields |-> [f \in Fields |-> IF f \in Flags THEN Seed[f] ELSE FALSE],
                       corpus |-> 1, stamp |-> 1]
  <1>1. first \in Row
    <2>1. [f \in Fields |-> IF f \in Flags THEN Seed[f] ELSE FALSE] \in [Fields -> BOOLEAN]
      BY ConfigAssumption
    <2>2. 1 \in 1..MaxClock
      BY ConfigAssumption
    <2>3. 1 \in Nat \ {0}
      OBVIOUS
    <2> HIDE DEF first
    <2>4. first = [fields |-> [f \in Fields |-> IF f \in Flags THEN Seed[f] ELSE FALSE],
                   corpus |-> 1, stamp |-> 1]
      BY DEF first
    <2> QED
      BY <2>1, <2>2, <2>3, <2>4, ZenonT(20) DEF Row
  <1>2. versions = <<first>> /\ versions \in Seq(Row) /\ Len(versions) = 1
    BY <1>1 DEF Init
  <1>3. /\ admin \in [Admins -> Request]
        /\ \A a \in Admins : admin[a].phase # "committed"
    BY IdleType DEF Init
  <1>4. /\ audit \in Seq(Entry)
        /\ store \in [Workers -> 0..Len(versions)]
        /\ poll \in [Workers -> 0..Len(versions)]
        /\ newest \in [Workers -> 0..Len(versions)]
    BY <1>2 DEF Init
  <1>5. seen \in [Workers -> 0..MaxClock] /\ clock \in 1..MaxClock
    BY ConfigAssumption DEF Init
  <1>6. versions # <<>>
    BY <1>2
  <1> QED
    BY <1>2, <1>3, <1>4, <1>5, <1>6 DEF TypeOK

\* No admin step, poll or crash breaks a shape.
LEMMA TypeStep == TypeOK /\ [Next]_vars => TypeOK'
  <1> SUFFICES ASSUME TypeOK, [Next]_vars
               PROVE  TypeOK'
    OBVIOUS
  <1>0. Len(versions) \in Nat /\ Len(versions) >= Len(versions)
    BY CurrentType
  <1>1. ASSUME NEW a \in Admins, AdminStep(a)
        PROVE  TypeOK'
    <2>1. ASSUME NEW w \in Workers, NEW change \in Change, Admit(a, w, change)
          PROVE  TypeOK'
      <3> DEFINE r == [phase |-> "admitted", worker |-> w, change |-> change]
      <3>1. r \in Request /\ r.phase # "committed"
        BY DEF Admitted, Request
      <3>2. admin' = [admin EXCEPT ![a] = r] /\ versions' = versions
        BY <2>1 DEF Admit
      <3> HIDE DEF r
      <3> QED
        BY <1>0, <2>1, <3>1, <3>2, AdminType DEF Admit, TypeOK
    <2>2. CASE Begin(a)
      <3> DEFINE r == [phase |-> "begun", worker |-> admin[a].worker,
                       change |-> admin[a].change, stamp |-> clock + 1]
      <3>1. admin[a] \in Admitted
        BY <2>2 DEF Begin, TypeOK, Request, Idle, Admitted, Begun, Committed
      <3>2. clock + 1 \in 1..MaxClock
        BY <2>2, ConfigAssumption DEF Begin, TypeOK
      <3>3. r \in Request /\ r.phase # "committed"
        BY <3>1, <3>2 DEF Admitted, Begun, Request
      <3>4. admin' = [admin EXCEPT ![a] = r] /\ versions' = versions
        BY <2>2 DEF Begin
      <3> HIDE DEF r
      <3> QED
        BY <1>0, <2>2, <3>2, <3>3, <3>4, AdminType DEF Begin, TypeOK
    <2>3. CASE Commit(a)
      <3> DEFINE change == admin[a].change
                 new == Rewritten(change, admin[a].stamp)
                 r == [phase |-> "committed", worker |-> admin[a].worker, change |-> change,
                       version |-> Len(versions) + 1]
      <3>1. admin[a] \in Begun /\ new \in Row
        BY <2>3, RewrittenType DEF Commit
      <3>2. versions' = Append(versions, new) /\ audit' = audit \o Recorded(change, Current, new)
        BY <2>3 DEF Commit
      <3>3. versions' \in Seq(Row) \ {<<>>} /\ Len(versions') = Len(versions) + 1
        <4>1. versions \in Seq(Row)
          BY DEF TypeOK
        <4> HIDE DEF r, new, change
        <4> QED
          BY <3>1, <3>2, <4>1
      <3>4. audit' \in Seq(Entry)
        <4>1. Recorded(change, Current, new) \in Seq(Entry)
          BY <3>1, CurrentType, RecordedType DEF Begun
        <4> QED
          BY <3>2, <4>1 DEF TypeOK
      <3>5. r \in Request /\ r.version = Len(versions) + 1
        BY <3>1, CurrentType DEF Begun, Committed, Request
      <3>6. admin' = [admin EXCEPT ![a] = r] \/ admin' = [admin EXCEPT ![a] = Idle]
        BY <2>3 DEF Commit
      <3>7. /\ admin' \in [Admins -> Request]
            /\ \A b \in Admins : admin'[b].phase = "committed" => admin'[b].version <= Len(versions')
        <4> HIDE DEF r, new, change
        <4>1. /\ r.phase = "committed" => r.version <= Len(versions')
              /\ Len(versions') \in Nat /\ Len(versions') >= Len(versions)
          BY <1>0, <3>3, <3>5
        <4> QED
          BY <3>5, <3>6, <4>1, AdminType, IdleType
      <3>8. UNCHANGED <<store, poll, seen, newest, clock>>
        BY <2>3 DEF Commit
      <3> QED
        <4> HIDE DEF r, new, change
        <4>1. /\ store' \in [Workers -> 0..Len(versions')] /\ poll' \in [Workers -> 0..Len(versions')]
              /\ newest' \in [Workers -> 0..Len(versions')]
          BY <1>0, <3>3, <3>8 DEF TypeOK
        <4> QED
          BY <3>3, <3>4, <3>7, <3>8, <4>1 DEF TypeOK
    <2>4. CASE Abort(a) \/ BumpReturns(a)
      <3>1. admin' = [admin EXCEPT ![a] = Idle] /\ UNCHANGED <<versions, audit, store, poll, seen, newest, clock>>
        BY <2>4 DEF Abort, BumpReturns
      <3> QED
        BY <1>0, <3>1, IdleType, AdminType DEF TypeOK
    <2>5. CASE Apply(a)
      <3>1. admin[a] \in Committed
        BY <2>5 DEF Apply, TypeOK, Request, Idle, Admitted, Begun, Committed
      <3>2. admin[a].version \in 0..Len(versions) /\ admin[a].worker \in Workers
        <4>1. admin[a].version \in Nat /\ admin[a].worker \in Workers
          BY <3>1 DEF Committed
        <4>2. admin[a].version <= Len(versions)
          BY <2>5 DEF Apply, TypeOK
        <4> QED
          BY <1>0, <4>1, <4>2
      <3>3. /\ store' \in [Workers -> 0..Len(versions)]
            /\ newest' \in [Workers -> 0..Len(versions)]
            /\ admin' = [admin EXCEPT ![a] = Idle]
            /\ UNCHANGED <<versions, audit, poll, seen, clock>>
        BY <2>5, <3>2 DEF Apply, TypeOK, Later
      <3> QED
        BY <1>0, <3>3, IdleType, AdminType DEF TypeOK
    <2> QED
      BY <1>1, <2>1, <2>2, <2>3, <2>4, <2>5 DEF AdminStep
  <1>2. ASSUME NEW w \in Workers, BuildStore(w) \/ PollRead(w) \/ PollSkip(w)
        PROVE  TypeOK'
    <2>1. CASE BuildStore(w)
      BY <1>0, <2>1 DEF BuildStore, TypeOK
    <2>2. CASE PollRead(w)
      BY <1>0, <2>2 DEF PollRead, TypeOK
    <2>3. CASE PollSkip(w)
      BY <1>0, <2>3 DEF PollSkip, TypeOK
    <2> QED
      BY <1>2, <2>1, <2>2, <2>3
  <1>3. ASSUME NEW w \in Workers, PollApply(w)
        PROVE  TypeOK'
    <2>1. poll[w] \in 1..Len(versions) /\ versions[poll[w]] \in Row
      BY <1>3, CurrentType DEF PollApply, TypeOK
    <2>2. versions[poll[w]].stamp \in 0..MaxClock
      BY <2>1, ConfigAssumption DEF Row
    <2> QED
      BY <1>3, <2>1, <2>2 DEF PollApply, TypeOK, Later
  <1>6. ASSUME NEW w \in Workers, PollMarks(w)
        PROVE  TypeOK'
    <2>1. poll[w] \in 1..Len(versions) /\ versions[poll[w]] \in Row
      BY <1>6, CurrentType DEF PollMarks, TypeOK
    <2>2. versions[poll[w]].stamp \in 0..MaxClock
      BY <2>1, ConfigAssumption DEF Row
    <2> QED
      BY <1>0, <1>6, <2>1, <2>2 DEF PollMarks, TypeOK
  <1>4. ASSUME NEW w \in Workers, Crash(w)
        PROVE  TypeOK'
    <2>1. admin' \in [Admins -> Request]
      BY <1>4, IdleType DEF Crash, TypeOK
    <2>2. \A a \in Admins : admin'[a].phase = "committed" => admin'[a].version <= Len(versions')
      BY <1>4, IdleType DEF Crash, TypeOK
    <2>3. clock' \in 1..MaxClock
      BY <1>4, ConfigAssumption DEF Crash, TypeOK
    <2> QED
      BY <1>4, <2>1, <2>2, <2>3, CurrentType, ConfigAssumption DEF Crash, TypeOK
  <1>5. CASE UNCHANGED vars
    BY <1>5 DEF vars, TypeOK
  <1> QED
    BY <1>1, <1>2, <1>3, <1>4, <1>5, <1>6 DEF Next, PollStep

\* The row's versions, the audit log, the requests and the workers' marks keep
\* their shapes through every admin step, poll and crash.
THEOREM TypeCorrect == Spec => []TypeOK
  BY InitType, TypeStep, PTL DEF Spec

----------------------------------------------------------------------------
(* Every version can be applied.                                           *)

\* A change that is not an update mentions no flag.
LEMMA SwitchesOnly ==
    ASSUME NEW change \in Change, ~IsUpdate(change)
    PROVE  DOMAIN change.set \intersect Flags = {}
  <1>1. CASE change.set \in Toggles
    <2>1. PICK s \in Switches : change.set \in [{s} -> BOOLEAN]
      BY <1>1 DEF Toggles
    <2>2. DOMAIN change.set = {s} /\ s \notin Flags
      BY <2>1, ConfigAssumption
    <2> QED
      BY <2>2
  <1>2. CASE change = [set |-> Nothing, bump |-> TRUE]
    <2>1. DOMAIN change.set = {}
      BY <1>2 DEF Nothing
    <2> QED
      BY <2>1
  <1>3. change.set \in Toggles \/ change = [set |-> Nothing, bump |-> TRUE]
    <2>1. CASE change \in [set : Payloads \union Toggles, bump : {FALSE}]
      BY <2>1 DEF IsUpdate
    <2> QED
      BY <2>1 DEF Change
  <1> QED
    BY <1>1, <1>2, <1>3

\* Only update_config writes flags, and it validates what it writes while it
\* holds the row lock: switches and bumps leave the flags as they were.
LEMMA ApplicableStep == TypeOK /\ AlwaysApplicable /\ [Next]_vars => AlwaysApplicable'
  <1> SUFFICES ASSUME TypeOK, AlwaysApplicable, [Next]_vars
               PROVE  AlwaysApplicable'
    OBVIOUS
  <1>1. ASSUME NEW a \in Admins, Commit(a)
        PROVE  AlwaysApplicable'
    <2> DEFINE change == admin[a].change
               new == Rewritten(change, admin[a].stamp)
    <2>1. admin[a] \in Begun /\ Current \in Row
      BY <1>1, RewrittenType, CurrentType DEF Commit
    <2>2. Consistent(new.fields)
      <3>1. CASE IsUpdate(change)
        BY <1>1, <3>1 DEF Commit, Allowed
      <3>2. CASE ~IsUpdate(change)
        <4>1. DOMAIN change.set \intersect Flags = {}
          BY <2>1, <3>2, SwitchesOnly DEF Begun
        <4>2. \A f \in Flags : new.fields[f] = Current.fields[f]
          BY <4>1 DEF Rewritten, Merge, Fields
        <4>3. Consistent(Current.fields)
          BY CurrentType DEF AlwaysApplicable, Current, Last, TypeOK
        <4> QED
          BY <4>2, <4>3, ConfigAssumption DEF Consistent
      <3> QED
        BY <3>1, <3>2
    <2>3. versions' = Append(versions, new)
      BY <1>1 DEF Commit
    <2> QED
      BY <2>2, <2>3 DEF AlwaysApplicable, TypeOK
  <1>2. CASE UNCHANGED versions
    BY <1>2 DEF AlwaysApplicable
  <1> QED
    BY <1>1, <1>2 DEF Next, AdminStep, PollStep, vars, Admit, Begin, Abort, Apply, BumpReturns,
                      BuildStore, PollRead, PollApply, PollMarks, PollSkip, Crash

\* However updates race, no version of the row would make RagRuntimeConfig
\* refuse it: neither _apply nor the poller can fail on a committed change.
THEOREM NeverRefused == Spec => []AlwaysApplicable
  <1>1. Init => AlwaysApplicable
    <2> SUFFICES ASSUME Init PROVE AlwaysApplicable
      OBVIOUS
    <2>1. \A i \in DOMAIN versions : versions[i].fields =
                [f \in Fields |-> IF f \in Flags THEN Seed[f] ELSE FALSE]
      <3>1. \A i \in DOMAIN versions : i = 1
        BY DEF Init
      <3>2. versions[1].fields = [f \in Fields |-> IF f \in Flags THEN Seed[f] ELSE FALSE]
        BY DEF Init
      <3> QED
        BY <3>1, <3>2
    <2>2. \A pair \in Requires : pair[1] \in Flags /\ pair[2] \in Flags
      BY ConfigAssumption
    <2> QED
      BY <2>1, <2>2, ConfigAssumption DEF AlwaysApplicable, Consistent, Fields
  <1> QED
    BY <1>1, ApplicableStep, TypeCorrect, PTL DEF Spec

----------------------------------------------------------------------------
(* The audit log explains the row.                                         *)

\* What an entry says of the version it was recorded with: the values of the fields it
\* mentions, that the others did not change, and the corpus version if it was bumped.
Says(entry, old, new) ==
    /\ \A f \in Fields : IF f \in DOMAIN entry.changes
                         THEN entry.changes[f] = new.fields[f]
                         ELSE new.fields[f] = old.fields[f]
    /\ \/ entry.corpus = 0 /\ new.corpus = old.corpus
       \/ entry.corpus = new.corpus /\ new.corpus = old.corpus + 1

\* An update is not recorded only if it changed nothing; whatever else is recorded is
\* what was written.
LEMMA RecordedSays ==
    ASSUME Current \in Row, NEW change \in Change, NEW stamp, NEW new \in Row,
           new = Rewritten(change, stamp)
    PROVE  \/ /\ Recorded(change, Current, new) = <<>>
              /\ new.fields = Current.fields /\ new.corpus = Current.corpus
           \/ \E e \in Entry : Recorded(change, Current, new) = <<e>> /\ Says(e, Current, new)
  <1> DEFINE old == Current
  <1>1. /\ new.fields = Merge(old.fields, change.set)
        /\ new.corpus = IF change.bump THEN old.corpus + 1 ELSE old.corpus
    BY DEF Rewritten
  <1>2. /\ \A f \in Fields : new.fields[f] = IF f \in DOMAIN change.set THEN change.set[f]
                                             ELSE old.fields[f]
        /\ new.fields \in [Fields -> BOOLEAN] /\ old.fields \in [Fields -> BOOLEAN]
    BY <1>1 DEF Merge, Row
  <1>3. Recorded(change, old, new) \in Seq(Entry)
    BY RecordedType
  <1>4. CASE IsUpdate(change)
    <2>1. /\ ~change.bump
          /\ \A f \in Fields \ Flags : f \notin DOMAIN change.set
      <3>1. change # [set |-> Nothing, bump |-> TRUE]
        BY <1>4, ConfigAssumption DEF IsUpdate
      <3>2. change \in [set : Payloads \union Toggles, bump : {FALSE}]
        BY <3>1 DEF Change
      <3>3. PICK S \in SUBSET Flags : change.set \in [S -> BOOLEAN]
        BY <1>4, ConfigAssumption DEF IsUpdate
      <3>4. QED
        BY <3>2, <3>3
    <2>2. /\ new.corpus = old.corpus
          /\ \A f \in Fields \ Flags : new.fields[f] = old.fields[f]
      BY <1>1, <1>2, <2>1
    <2>3. DOMAIN Diff(old, new) = {g \in Flags : old.fields[g] # new.fields[g]}
      BY DEF Diff
    <2>4. CASE Diff(old, new) = Nothing
      <3>1. \A f \in Flags : new.fields[f] = old.fields[f]
        BY <2>3, <2>4 DEF Nothing
      <3>2. \A f \in Fields : new.fields[f] = old.fields[f]
        BY <2>2, <3>1
      <3>3. new.fields = old.fields
        BY <1>2, <3>2
      <3>4. Recorded(change, old, new) = <<>>
        BY <1>4, <2>4 DEF Recorded
      <3>5. QED
        BY <2>2, <3>3, <3>4
    <2>5. CASE Diff(old, new) # Nothing
      <3> DEFINE e == [changes |-> Diff(old, new), corpus |-> 0]
      <3>1. Recorded(change, old, new) = <<e>>
        BY <1>4, <2>5 DEF Recorded
      <3>2. e.changes = Diff(old, new) /\ e.corpus = 0
        OBVIOUS
      <3> HIDE DEF e
      <3>3. e \in Entry
        <4>1. <<e>> \in Seq(Entry)
          BY <1>3, <3>1
        <4>2. <<e>>[1] \in Entry /\ <<e>>[1] = e
          BY <4>1
        <4>3. QED
          BY <4>2
      <3>4. ASSUME NEW f \in Fields
            PROVE  IF f \in DOMAIN e.changes THEN e.changes[f] = new.fields[f]
                   ELSE new.fields[f] = old.fields[f]
        BY <2>2, <2>3, <3>2 DEF Diff
      <3>5. QED
        BY <2>2, <3>1, <3>2, <3>3, <3>4 DEF Says
    <2>6. QED
      BY <2>4, <2>5
  <1>5. CASE ~IsUpdate(change)
    <2> DEFINE e == [changes |-> change.set, corpus |-> IF change.bump THEN new.corpus ELSE 0]
    <2>1. Recorded(change, old, new) = <<e>>
      BY <1>5 DEF Recorded
    <2>2. e.changes = change.set /\ e.corpus = IF change.bump THEN new.corpus ELSE 0
      OBVIOUS
    <2> HIDE DEF e
    <2>3. e \in Entry
      <3>1. <<e>> \in Seq(Entry)
        BY <1>3, <2>1
      <3>2. <<e>>[1] \in Entry /\ <<e>>[1] = e
        BY <3>1
      <3>3. QED
        BY <3>2
    <2>4. Says(e, old, new)
      BY <1>1, <1>2, <2>2 DEF Says
    <2>5. QED
      BY <2>1, <2>3, <2>4
  <1>6. QED
    BY <1>4, <1>5

\* A transaction that appends what `Says' the row it writes leaves the log in order.
LEMMA CommitExplained ==
    ASSUME TypeOK, AuditExplainsRow, NEW a \in Admins, Commit(a)
    PROVE  AuditExplainsRow'
  <1> DEFINE change == admin[a].change
             new == Rewritten(change, admin[a].stamp)
  <1>1. admin[a] \in Begun /\ new \in Row /\ Current \in Row /\ change \in Change
    BY RewrittenType, CurrentType DEF Commit, Begun
  <1>2. /\ versions' = Append(versions, new)
        /\ audit' = audit \o Recorded(change, Current, new)
    BY DEF Commit
  <1>3. \/ /\ Recorded(change, Current, new) = <<>>
           /\ new.fields = Current.fields /\ new.corpus = Current.corpus
        \/ \E e \in Entry : Recorded(change, Current, new) = <<e>> /\ Says(e, Current, new)
    BY <1>1, RecordedSays
  <1> HIDE DEF new, change
  <1>4. /\ Current' = new /\ versions'[1] = versions[1]
        /\ audit \in Seq(Entry) /\ Current.corpus \in Nat /\ new.corpus \in Nat
        /\ \A i \in DOMAIN audit : audit[i].corpus \in Nat
    <2>1. /\ versions \in Seq(Row) /\ Len(versions) \in Nat \ {0}
          /\ audit \in Seq(Entry)
      BY CurrentType DEF TypeOK
    <2>2. /\ Len(versions') = Len(versions) + 1
          /\ versions'[Len(versions) + 1] = new /\ versions'[1] = versions[1]
      BY <1>1, <1>2, <2>1
    <2>3. Current' = new
      BY <2>2 DEF Current, Last
    <2>4. Current.corpus \in Nat /\ new.corpus \in Nat
      BY <1>1 DEF Row
    <2>5. \A i \in DOMAIN audit : audit[i].corpus \in Nat
      <3>1. \A i \in DOMAIN audit : audit[i] \in Entry
        BY <2>1
      <3>2. \A e \in Entry : e.corpus \in Nat
        BY DEF Entry
      <3>3. QED
        BY <3>1, <3>2
    <2>6. QED
      BY <2>1, <2>2, <2>3, <2>4, <2>5
  <1>5. CASE /\ Recorded(change, Current, new) = <<>>
             /\ new.fields = Current.fields /\ new.corpus = Current.corpus
    <2>1. audit' = audit
      BY <1>2, <1>4, <1>5
    <2>2. QED
      BY <1>4, <1>5, <2>1 DEF AuditExplainsRow
  <1>6. ASSUME NEW e \in Entry, Recorded(change, Current, new) = <<e>>, Says(e, Current, new)
        PROVE  AuditExplainsRow'
    <2> DEFINE n == Len(audit) + 1
    <2>1. /\ n \in Nat \ {0}
          /\ DOMAIN audit' = 1..n /\ DOMAIN audit = 1..(n - 1)
          /\ audit'[n] = e
          /\ \A i \in 1..(n - 1) : audit'[i] = audit[i]
      BY <1>2, <1>4, <1>6
    <2> HIDE DEF n
    <2>2. ASSUME NEW f \in Fields
          PROVE  LET entries == {i \in DOMAIN audit' : f \in DOMAIN audit'[i].changes}
                 IN  IF entries = {}
                     THEN new.fields[f] = versions[1].fields[f]
                     ELSE \E i \in entries : /\ \A j \in entries : j <= i
                                             /\ audit'[i].changes[f] = new.fields[f]
      <3> DEFINE before == {i \in DOMAIN audit : f \in DOMAIN audit[i].changes}
                 after == {i \in DOMAIN audit' : f \in DOMAIN audit'[i].changes}
      <3>1. CASE f \in DOMAIN e.changes
        <4>1. n \in after /\ \A j \in after : j <= n
          BY <2>1, <3>1
        <4>2. audit'[n].changes[f] = new.fields[f]
          BY <1>6, <2>1, <3>1 DEF Says
        <4>3. QED
          BY <4>1, <4>2
      <3>2. CASE f \notin DOMAIN e.changes
        <4>1. after = before /\ new.fields[f] = Current.fields[f]
          BY <1>6, <2>1, <3>2 DEF Says
        <4>2. IF before = {}
              THEN Current.fields[f] = versions[1].fields[f]
              ELSE \E i \in before : /\ \A j \in before : j <= i
                                     /\ audit[i].changes[f] = Current.fields[f]
          BY DEF AuditExplainsRow
        <4>3. \A i \in before : audit'[i] = audit[i]
          BY <2>1
        <4> HIDE DEF before, after
        <4>4. IF after = {}
              THEN new.fields[f] = versions[1].fields[f]
              ELSE \E i \in after : /\ \A j \in after : j <= i
                                    /\ audit'[i].changes[f] = new.fields[f]
          BY <4>1, <4>2, <4>3
        <4>5. QED
          BY <4>4 DEF after
      <3>3. QED
        BY <3>1, <3>2
    <2>3. \A i \in DOMAIN audit' : audit'[i].corpus <= new.corpus
      BY <1>4, <1>6, <2>1 DEF AuditExplainsRow, Says
    <2>4. new.corpus # 1 => \E i \in DOMAIN audit' : audit'[i].corpus = new.corpus
      BY <1>4, <1>6, <2>1 DEF AuditExplainsRow, Says
    <2>5. QED
      BY <1>4, <2>2, <2>3, <2>4 DEF AuditExplainsRow
  <1>7. QED
    BY <1>3, <1>5, <1>6

\* The audit log explains the row after any number of racing updates, switches and
\* bumps: last entry wins, and nothing changes that no entry mentions.
THEOREM LogExplainsRow == Spec => []AuditExplainsRow
  <1>1. Init => AuditExplainsRow
    <2> SUFFICES ASSUME Init PROVE AuditExplainsRow
      OBVIOUS
    <2>1. DOMAIN audit = {} /\ Current = versions[1] /\ Current.corpus = 1
      BY DEF Init, Current, Last
    <2>2. QED
      BY <2>1 DEF AuditExplainsRow
  <1>2. TypeOK /\ AuditExplainsRow /\ [Next]_vars => AuditExplainsRow'
    <2> SUFFICES ASSUME TypeOK, AuditExplainsRow, [Next]_vars PROVE AuditExplainsRow'
      OBVIOUS
    <2>1. (\E a \in Admins : Commit(a)) \/ UNCHANGED <<versions, audit>>
      BY DEF Next, AdminStep, PollStep, vars, Admit, Begin, Abort, Apply, BumpReturns,
             BuildStore, PollRead, PollApply, PollMarks, PollSkip, Crash
    <2>2. CASE UNCHANGED <<versions, audit>>
      BY <2>2 DEF AuditExplainsRow, Current, Last
    <2>3. QED
      BY <2>1, <2>2, CommitExplained
  <1>3. QED
    BY <1>1, <1>2, TypeCorrect, PTL DEF Spec

----------------------------------------------------------------------------
(* Propagation, however transactions overlap.                              *)

\* What a poller has marked as seen is the stamp of a version, one that the worker's
\* store, once built, has held or gone past.
MarksWereHeld ==
    \A w \in Workers : seen[w] # 0 =>
        \E i \in 1..Len(versions) : /\ versions[i].stamp = seen[w]
                                    /\ store[w] # 0 => i <= newest[w]

\* Stamps are numbers, and so are the positions of the versions.
LEMMA StampTypes ==
    ASSUME TypeOK
    PROVE  /\ Len(versions) \in Nat \ {0} /\ DOMAIN versions = 1..Len(versions)
           /\ Current = versions[Len(versions)] /\ Current.stamp \in Nat
           /\ \A i \in DOMAIN versions : versions[i].stamp \in Nat
           /\ \A w \in Workers : seen[w] \in Nat /\ poll[w] \in 0..Len(versions)
                                 /\ store[w] \in 0..Len(versions)
           /\ clock \in Nat
  <1>1. Len(versions) \in Nat \ {0} /\ DOMAIN versions = 1..Len(versions)
        /\ Current = versions[Len(versions)] /\ Current \in Row
    BY CurrentType DEF TypeOK, Current, Last
  <1>2. \A i \in DOMAIN versions : versions[i] \in Row
    BY <1>1 DEF TypeOK
  <1>3. \A r \in Row : r.stamp \in Nat
    BY DEF Row
  <1> QED
    BY <1>1, <1>2, <1>3, ConfigAssumption DEF TypeOK

\* What a commit does to the versions.
LEMMA CommitAppends ==
    ASSUME TypeOK, NEW a \in Admins, Commit(a)
    PROVE  /\ Len(versions') = Len(versions) + 1 /\ DOMAIN versions' = 1..(Len(versions) + 1)
           /\ \A i \in 1..Len(versions) : versions'[i] = versions[i]
           /\ Current' = versions'[Len(versions) + 1] /\ Current'.stamp = admin[a].stamp
           /\ admin[a].stamp \in Nat /\ admin[a].phase = "begun"
           /\ admin'[a].phase \in {"committed", "idle"}
           /\ admin'[a].phase = "committed" => admin'[a].version = Len(versions')
           /\ \A b \in Admins \ {a} : admin'[b] = admin[b]
           /\ UNCHANGED <<store, poll, seen, newest, clock>>
  <1> DEFINE new == Rewritten(admin[a].change, admin[a].stamp)
  <1>1. admin[a] \in Begun /\ new \in Row
    BY RewrittenType DEF Commit
  <1>2. versions' = Append(versions, new) /\ new.stamp = admin[a].stamp
    BY DEF Commit, Rewritten
  <1> HIDE DEF new
  <1>3. /\ Len(versions') = Len(versions) + 1 /\ DOMAIN versions' = 1..(Len(versions) + 1)
        /\ \A i \in 1..Len(versions) : versions'[i] = versions[i]
        /\ versions'[Len(versions) + 1] = new
    BY <1>1, <1>2 DEF TypeOK
  <1>4. Current' = versions'[Len(versions) + 1]
    BY <1>3 DEF Current, Last
  <1>5. admin[a].stamp \in Nat
    BY <1>1 DEF Begun
  <1>6. /\ admin[a].phase = "begun" /\ UNCHANGED <<store, poll, seen, newest, clock>>
        /\ \A b \in Admins \ {a} : admin'[b] = admin[b]
        /\ admin'[a].phase \in {"committed", "idle"}
        /\ admin'[a].phase = "committed" => admin'[a].version = Len(versions) + 1
    BY DEF Commit, TypeOK, Idle
  <1> QED
    BY <1>2, <1>3, <1>4, <1>5, <1>6

\* A request is served by a worker that has built its store.
ServersHaveStores ==
    \A a \in Admins : admin[a].phase # "idle" => store[admin[a].worker] # 0

\* Requests begin on such a worker, no step empties its store, and a crash ends them.
LEMMA ServerStep == TypeOK /\ ServersHaveStores /\ [Next]_vars => ServersHaveStores'
  <1> SUFFICES ASSUME TypeOK, ServersHaveStores, [Next]_vars,
                      NEW b \in Admins, admin'[b].phase # "idle"
               PROVE  store'[admin'[b].worker] # 0
    BY DEF ServersHaveStores
  <1>1. ASSUME admin'[b].phase # "idle" => admin[b].phase # "idle"
                                           /\ admin'[b].worker = admin[b].worker,
               \A w \in Workers : store[w] # 0 => store'[w] # 0
        PROVE  store'[admin'[b].worker] # 0
    <2>1. admin[b].phase # "idle" /\ store[admin[b].worker] # 0
      BY <1>1 DEF ServersHaveStores
    <2>2. admin[b].worker \in Workers
      BY <2>1 DEF TypeOK, Request, Idle, Admitted, Begun, Committed
    <2> QED
      BY <1>1, <2>1, <2>2
  <1>2. ASSUME NEW a \in Admins, AdminStep(a)
        PROVE  store'[admin'[b].worker] # 0
    <2>1. ASSUME NEW w \in Workers, NEW change \in Change, Admit(a, w, change)
          PROVE  store'[admin'[b].worker] # 0
      <3>1. CASE b = a
        BY <2>1, <3>1 DEF Admit, TypeOK
      <3>2. CASE b # a
        BY <1>1, <2>1, <3>2 DEF Admit, TypeOK
      <3> QED
        BY <3>1, <3>2
    <2>2. CASE Begin(a) \/ Commit(a) \/ Abort(a) \/ BumpReturns(a)
      <3>1. PICK r : /\ admin' = [admin EXCEPT ![a] = r]
                     /\ r.phase # "idle" => r.worker = admin[a].worker
        BY <2>2, Zenon DEF Begin, Commit, Abort, BumpReturns, Idle
      <3>2. admin[a].phase # "idle" /\ store' = store /\ admin \in [Admins -> Request]
        BY <2>2 DEF Begin, Commit, Abort, BumpReturns, TypeOK
      <3>3. admin'[b].phase # "idle" => admin[b].phase # "idle"
                                        /\ admin'[b].worker = admin[b].worker
        BY <3>1, <3>2
      <3> QED
        BY <1>1, <3>2, <3>3
    <2>3. CASE Apply(a)
      <3>1. admin[a].version \in Nat \ {0}
        BY <2>3 DEF Apply, TypeOK, Request, Idle, Admitted, Begun, Committed
      <3>2. /\ \A w \in Workers : store[w] # 0 => store'[w] # 0
            /\ admin'[b].phase # "idle" => admin[b].phase # "idle"
                                           /\ admin'[b].worker = admin[b].worker
        BY <2>3, <3>1 DEF Apply, TypeOK, Idle
      <3> QED
        BY <1>1, <3>2
    <2> QED
      BY <1>2, <2>1, <2>2, <2>3 DEF AdminStep
  <1>3. ASSUME NEW w \in Workers, BuildStore(w)
        PROVE  store'[admin'[b].worker] # 0
    BY <1>1, <1>3, StampTypes DEF BuildStore, TypeOK
  <1>4. ASSUME NEW w \in Workers, PollStep(w)
        PROVE  store'[admin'[b].worker] # 0
    BY <1>1, <1>4 DEF PollStep, PollRead, PollApply, PollMarks, PollSkip, TypeOK
  <1>5. ASSUME NEW w \in Workers, Crash(w)
        PROVE  store'[admin'[b].worker] # 0
    <2>1. admin[b].phase # "idle" /\ admin[b].worker # w /\ admin'[b] = admin[b]
      BY <1>5 DEF Crash, Idle
    <2>2. admin[b].worker \in Workers /\ store[admin[b].worker] # 0
      BY <2>1 DEF TypeOK, Request, Idle, Admitted, Begun, Committed, ServersHaveStores
    <2> QED
      BY <1>5, <2>1, <2>2 DEF Crash, TypeOK
  <1>6. CASE UNCHANGED vars
    BY <1>1, <1>6 DEF vars
  <1> QED
    BY <1>2, <1>3, <1>4, <1>5, <1>6 DEF Next

\* No step leaves a mark without a version behind it: a mark is set with its version,
\* and a store is built from the newest one.
LEMMA HeldStep ==
    TypeOK /\ ServersHaveStores /\ MarksWereHeld /\ [Next]_vars => MarksWereHeld'
  <1> SUFFICES ASSUME TypeOK, ServersHaveStores, MarksWereHeld, [Next]_vars,
                      NEW w \in Workers, seen'[w] # 0
               PROVE  \E i \in 1..Len(versions') : /\ versions'[i].stamp = seen'[w]
                                                   /\ store'[w] # 0 => i <= newest'[w]
    BY DEF MarksWereHeld
  <1>0. /\ Len(versions) \in Nat \ {0} /\ DOMAIN versions = 1..Len(versions)
        /\ poll[w] \in 0..Len(versions) /\ store[w] \in 0..Len(versions)
        /\ newest[w] \in 0..Len(versions)
    BY StampTypes DEF TypeOK
  <1> DEFINE Behind(i) == versions[i].stamp = seen[w] /\ (store[w] # 0 => i <= newest[w])
  <1>9. ASSUME seen[w] # 0
        PROVE  \E i \in 1..Len(versions) : Behind(i)
    <2>1. \E i \in 1..Len(versions) : /\ versions[i].stamp = seen[w]
                                      /\ store[w] # 0 => i <= newest[w]
      BY <1>9, Zenon DEF MarksWereHeld
    <2> QED
      BY <2>1, Zenon
  <1>1. ASSUME NEW i \in 1..Len(versions), versions[i].stamp = seen[w],
               store[w] # 0 => i <= newest[w],
               store'[w] # 0 => i <= newest'[w], seen'[w] = seen[w],
               Len(versions) <= Len(versions'), Len(versions') \in Nat, versions'[i] = versions[i]
        PROVE  \E j \in 1..Len(versions') : /\ versions'[j].stamp = seen'[w]
                                            /\ store'[w] # 0 => j <= newest'[w]
    BY <1>0, <1>1
  <1>2. CASE \E a \in Admins : Commit(a)
    <2>1. PICK a \in Admins : Commit(a)
      BY <1>2
    <2>2. PICK i \in 1..Len(versions) : Behind(i)
      BY <1>9, <2>1, CommitAppends
    <2> QED
      BY <1>0, <1>1, <2>1, <2>2, CommitAppends
  <1>3. CASE \E a \in Admins : Apply(a)
    <2>1. PICK a \in Admins : Apply(a)
      BY <1>3
    <2>2. PICK i \in 1..Len(versions) : Behind(i)
      BY <1>9, <2>1 DEF Apply
    <2>3. /\ admin[a].worker \in Workers /\ admin[a].version \in Nat \ {0}
          /\ store[admin[a].worker] # 0
      BY <2>1 DEF Apply, TypeOK, Request, Idle, Admitted, Begun, Committed, ServersHaveStores
    <2> QED
      BY <1>0, <1>1, <2>1, <2>2, <2>3 DEF Apply, TypeOK, Later
  <1>4. CASE \E v \in Workers : BuildStore(v)
    <2>1. PICK v \in Workers : BuildStore(v)
      BY <1>4
    <2>2. PICK i \in 1..Len(versions) : Behind(i)
      BY <1>9, <2>1 DEF BuildStore
    <2> QED
      BY <1>0, <1>1, <2>1, <2>2 DEF BuildStore, TypeOK
  <1>5. CASE \E v \in Workers : PollApply(v)
    <2>1. PICK v \in Workers : PollApply(v)
      BY <1>5
    <2>2. CASE v = w
      BY <1>0, <2>1, <2>2 DEF PollApply, TypeOK, Later
    <2>3. CASE v # w
      <3>1. PICK i \in 1..Len(versions) : Behind(i)
        BY <1>9, <2>1, <2>3 DEF PollApply, TypeOK
      <3> QED
        BY <1>1, <2>1, <2>3, <3>1 DEF PollApply, TypeOK
    <2> QED
      BY <2>2, <2>3
  <1>6. CASE \E v \in Workers : PollMarks(v)
    <2>1. PICK v \in Workers : PollMarks(v)
      BY <1>6
    <2>2. CASE v = w
      BY <1>0, <2>1, <2>2 DEF PollMarks, TypeOK
    <2>3. CASE v # w
      <3>1. PICK i \in 1..Len(versions) : Behind(i)
        BY <1>9, <2>1, <2>3 DEF PollMarks, TypeOK
      <3> QED
        BY <1>1, <2>1, <2>3, <3>1 DEF PollMarks, TypeOK
    <2> QED
      BY <2>2, <2>3
  <1>7. CASE \E v \in Workers : Crash(v)
    <2>1. PICK v \in Workers : Crash(v)
      BY <1>7
    <2>2. v # w
      BY <2>1 DEF Crash, TypeOK
    <2>3. PICK i \in 1..Len(versions) : Behind(i)
      BY <1>9, <2>1, <2>2 DEF Crash, TypeOK
    <2> QED
      BY <1>1, <2>1, <2>2, <2>3 DEF Crash, TypeOK
  <1>8. CASE UNCHANGED <<versions, store, seen, newest>>
    <2>1. PICK i \in 1..Len(versions) : Behind(i)
      BY <1>9, <1>8
    <2> QED
      BY <1>8, <2>1
  <1> QED
    BY <1>2, <1>3, <1>4, <1>5, <1>6, <1>7, <1>8
    DEF Next, AdminStep, PollStep, vars, Admit, Begin, Abort, BumpReturns, PollRead, PollSkip

\* Nothing is marked when observation starts.
LEMMA HeldInit == Init => ServersHaveStores /\ MarksWereHeld
  BY DEF Init, MarksWereHeld, ServersHaveStores, Idle

\* However admins race, polls interleave and workers crash, for any number of them: what
\* a poll misses was overtaken by a transaction that began no earlier, committed ahead
\* of it, and reached the worker's store.
THEOREM PollsMissOnlyOvertaken == Spec => PollMissesOnlyOvertaken
  <1> DEFINE Missed ==
        \A w \in Workers :
          poll[w] # 0 /\ poll'[w] = 0 /\ store'[w] # 0 =>
             \E i \in 1..newest'[w] : versions[i].stamp >= versions[poll[w]].stamp
  <1>1. TypeOK /\ MarksWereHeld /\ [Next]_vars => [Missed]_vars
    <2> SUFFICES ASSUME TypeOK, MarksWereHeld, Next, NEW w \in Workers,
                        poll[w] # 0, poll'[w] = 0, store'[w] # 0
                 PROVE  \E i \in 1..newest'[w] : versions[i].stamp >= versions[poll[w]].stamp
      OBVIOUS
    <2>1. /\ poll[w] \in DOMAIN versions /\ versions[poll[w]].stamp \in Nat
          /\ newest[w] \in Nat /\ seen[w] \in Nat
      BY StampTypes DEF TypeOK
    <2>2. PollApply(w) \/ PollMarks(w) \/ PollSkip(w) \/ Crash(w)
      BY DEF Next, AdminStep, PollStep, Admit, Begin, Commit, Abort, Apply, BumpReturns,
             BuildStore, PollRead, PollApply, PollMarks, PollSkip, Crash, TypeOK
    <2>3. CASE PollApply(w)
      <3>1. newest'[w] \in Nat /\ newest'[w] >= poll[w] /\ poll[w] \in Nat \ {0}
        BY <2>1, <2>3, StampTypes DEF PollApply, TypeOK, Later
      <3> QED
        BY <2>1, <3>1
    <2>4. CASE PollMarks(w) \/ Crash(w)
      BY <2>4 DEF PollMarks, Crash, TypeOK
    <2>5. CASE PollSkip(w)
      <3>1. seen[w] # 0 /\ versions[poll[w]].stamp <= seen[w] /\ newest' = newest /\ store' = store
        BY <2>1, <2>5 DEF PollSkip, Newer
      <3>2. \E i \in 1..Len(versions) : /\ versions[i].stamp = seen[w]
                                        /\ store[w] # 0 => i <= newest[w]
        BY <3>1, Zenon DEF MarksWereHeld
      <3>3. store[w] # 0
        BY <3>1
      <3>4. PICK i \in 1..Len(versions) : /\ versions[i].stamp = seen[w]
                                          /\ store[w] # 0 => i <= newest[w]
        BY <3>2
      <3>5. i \in 1..newest'[w] /\ versions[i].stamp >= versions[poll[w]].stamp
        BY <2>1, <3>1, <3>3, <3>4
      <3> QED
        BY <3>5
    <2> QED
      BY <2>2, <2>3, <2>4, <2>5
  <1> QED
    BY <1>1, HeldInit, ServerStep, HeldStep, TypeCorrect, PTL DEF Spec, PollMissesOnlyOvertaken
=============================================================================
