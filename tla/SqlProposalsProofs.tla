------------------------- MODULE SqlProposalsProofs -------------------------
(***************************************************************************)
(* Proofs about SqlProposals, for any number of proposals, requests,       *)
(* workers and owners: type correctness, the lease discipline (inductive   *)
(* together with it), and the promises that follow from it.                *)
(***************************************************************************)
EXTENDS SqlProposals, TLAPS

USE SqlAssumption

\* The phase of a request determines which local variables it has.
LEMMA RequestShape ==
    ASSUME TypeOK, NEW r \in Requests
    PROVE  /\ req[r].phase = "drafting" => req[r] \in Drafting
           /\ req[r].phase \in {"gated"} \union Held => req[r] \in Approving
           /\ req[r].phase \in {"idle", "drafting", "gated"} \union Held
  BY DEF TypeOK, Idle, Drafting, Approving, Held

\* A proposal whose status is not "absent" has a row.
LEMMA RowShape ==
    ASSUME TypeOK, NEW p \in Proposals
    PROVE  /\ row[p].status # "absent" => row[p] \in Row
           /\ row[p].status \in Status
  BY DEF TypeOK, NoRow, Row, Status, Terminal

\* Rewriting the status of an existing row leaves a row.
LEMMA SetStatusType ==
    ASSUME TypeOK, NEW p \in Proposals, row[p].status # "absent",
           NEW s \in Status \ {"absent"}, SetStatus(p, s)
    PROVE  row' \in [Proposals -> Row \union {NoRow}]
  <1>1. row[p] \in Row
    BY RowShape
  <1>2. [row[p] EXCEPT !.status = s] \in Row
    BY <1>1 DEF Row
  <1> QED
    BY <1>2 DEF SetStatus, TypeOK

\* Moving a request from one approval phase to another keeps its type.
LEMMA EnterType ==
    ASSUME TypeOK, NEW r \in Requests, NEW phase \in {"gated"} \union Held,
           req[r].phase \in {"gated"} \union Held, Enter(r, phase)
    PROVE  req' \in [Requests -> {Idle} \union Drafting \union Approving]
  <1>1. req[r] \in Approving
    BY RequestShape
  <1>2. [req[r] EXCEPT !.phase = phase] \in Approving
    BY <1>1 DEF Approving
  <1> QED
    BY <1>2 DEF Enter, TypeOK

\* A handler that returns or raises leaves its request idle, a legal request.
LEMMA FinishType ==
    ASSUME TypeOK, NEW r \in Requests, Finish(r)
    PROVE  req' \in [Requests -> {Idle} \union Drafting \union Approving]
  BY DEF Finish, TypeOK

\* The proposal of an approving request, and its row once it was seen.
LEMMA TargetExists ==
    ASSUME TypeOK, NEW r \in Requests, req[r].phase \in {"gated"} \union Held
    PROVE  req[r].proposal \in Proposals
  BY RequestShape DEF Approving

\* A freshly migrated database and freshly started workers are well-typed.
LEMMA InitType == Init => TypeOK
  BY DEF Init, TypeOK

\* No handler, reclaim, crash or configuration change breaks a shape.  The run
\* counter needs no bound here: TypeOK only asks for a natural number.
LEMMA TypeStep == TypeOK /\ LeaseDiscipline /\ [Next]_vars => TypeOK'
  <1> SUFFICES ASSUME TypeOK, LeaseDiscipline, [Next]_vars
               PROVE  TypeOK'
    OBVIOUS
  <1>1. ASSUME NEW r \in Requests, NEW w \in Workers, NEW u \in Users, StartPropose(r, w, u)
        PROVE  TypeOK'
    <2>1. [phase |-> "drafting", worker |-> w, user |-> u, version |-> catalog,
           attempt |-> 0] \in Drafting
      BY DEF Drafting, TypeOK
    <2> QED
      BY <1>1, <2>1 DEF StartPropose, TypeOK
  <1>2. ASSUME NEW r \in Requests, RetryDraft(r)
        PROVE  TypeOK'
    <2>1. req[r] \in Drafting
      BY <1>2, RequestShape DEF RetryDraft
    <2>2. [req[r] EXCEPT !.attempt = @ + 1] \in Drafting
      BY <1>2, <2>1 DEF RetryDraft, Drafting
    <2> QED
      BY <1>2, <2>2 DEF RetryDraft, TypeOK
  <1>3. ASSUME NEW r \in Requests, GiveUpDraft(r) \/ LockRefused(r) \/ LoseOutcome(r)
        PROVE  TypeOK'
    BY <1>3, FinishType DEF GiveUpDraft, LockRefused, LoseOutcome, TypeOK
  <1>4. ASSUME NEW r \in Requests, NEW p \in Proposals, SubmitDraft(r, p)
        PROVE  TypeOK'
    <2>1. req[r] \in Drafting
      BY <1>4, RequestShape DEF SubmitDraft
    <2>2. [status |-> "proposed", owner |-> req[r].user, version |-> req[r].version,
           policy |-> policy[req[r].worker], ttl |-> Ttl, lease |-> 0] \in Row
      BY <2>1 DEF Drafting, Row, Status, Terminal, TypeOK
    <2> QED
      BY <1>4, <2>2, FinishType DEF SubmitDraft, TypeOK
  <1>5. ASSUME NEW r \in Requests, NEW w \in Workers, NEW u \in Users,
               NEW p \in Proposals, StartApprove(r, w, u, p)
        PROVE  TypeOK'
    <2>1. [phase |-> "gated", worker |-> w, user |-> u, proposal |-> p,
           late |-> row[p].ttl = 0] \in Approving
      BY DEF Approving
    <2> QED
      BY <1>5, <2>1 DEF StartApprove, TypeOK
  <1>6. ASSUME NEW r \in Requests, LockExpired(r)
        PROVE  TypeOK'
    <2>1. row' \in [Proposals -> Row \union {NoRow}]
      BY <1>6, TargetExists, SetStatusType DEF LockExpired, Claimable, Status, Terminal
    <2> QED
      BY <1>6, <2>1, FinishType DEF LockExpired, TypeOK
  <1>7. ASSUME NEW r \in Requests, LockGranted(r)
        PROVE  TypeOK'
    <2> DEFINE p == req[r].proposal
    <2>1. p \in Proposals /\ row[p] \in Row
      BY <1>7, TargetExists, RowShape DEF LockGranted, Claimable
    <2>2. [row[p] EXCEPT !.status = "executing", !.lease = 0] \in Row
      <3>1. 0 \in 0..(StaleAfter + 1) /\ "executing" \in Status \ {"absent"}
        BY DEF Status
      <3>2. \A x \in Row : [x EXCEPT !.status = "executing", !.lease = 0] \in Row
        BY <3>1 DEF Row
      <3> QED
        BY <2>1, <3>2
    <2>3. row' = [row EXCEPT ![p] = [row[p] EXCEPT !.status = "executing", !.lease = 0]]
      BY <1>7, <2>1 DEF LockGranted, TypeOK
    <2>4. row' \in [Proposals -> Row \union {NoRow}]
      BY <2>1, <2>2, <2>3 DEF TypeOK
    <2> QED
      BY <1>7, <2>4, EnterType DEF LockGranted, TypeOK, Held
  <1>8. ASSUME NEW r \in Requests, Revalidate(r) \/ ExplainRejects(r) \/ PostExecute(r)
        PROVE  TypeOK'
    BY <1>8, EnterType DEF Revalidate, ExplainRejects, PostExecute, TypeOK, Held
  <1>9. ASSUME NEW r \in Requests, Execute(r)
        PROVE  TypeOK'
    <2>1. req[r].proposal \in Proposals
      BY <1>9, TargetExists DEF Execute, Held
    <2>2. runs' \in [Proposals -> Nat]
      BY <1>9, <2>1 DEF Execute, TypeOK
    <2> QED
      BY <1>9, <2>2, EnterType DEF Execute, TypeOK, Held
  <1>10. ASSUME NEW r \in Requests, MarkExecuted(r) \/ MarkFailed(r)
         PROVE  TypeOK'
    <2>1. req[r].phase \in Held
      BY <1>10 DEF MarkExecuted, MarkFailed, Held
    <2>2. row[req[r].proposal].status # "absent" /\ req[r].proposal \in Proposals
      BY <2>1, TargetExists DEF LeaseDiscipline, HolderMatchesRow, Holds
    <2>3. row' \in [Proposals -> Row \union {NoRow}]
      BY <1>10, <2>2, SetStatusType DEF MarkExecuted, MarkFailed, Status, Terminal
    <2> QED
      BY <1>10, <2>3, FinishType DEF MarkExecuted, MarkFailed, TypeOK
  <1>11. ASSUME NEW u \in Users, NEW p \in Proposals, Reject(u, p)
         PROVE  TypeOK'
    <2>1. row' \in [Proposals -> Row \union {NoRow}]
      BY <1>11, SetStatusType DEF Reject, Status, Terminal
    <2> QED
      BY <1>11, <2>1 DEF Reject, TypeOK
  <1>12. CASE Reclaim
    <2>1. ASSUME NEW p \in Proposals, Stale(p)
          PROVE  [row[p] EXCEPT !.status = "failed"] \in Row
      BY <2>1, RowShape DEF Stale, Row, Status, Terminal
    <2>2. row' \in [Proposals -> Row \union {NoRow}]
      BY <1>12, <2>1 DEF Reclaim, TypeOK
    <2> QED
      BY <1>12, <2>2 DEF Reclaim, TypeOK
  <1>13. ASSUME NEW w \in Workers, Crash(w)
         PROVE  TypeOK'
    BY <1>13 DEF Crash, TypeOK
  <1>14. ASSUME NEW w \in Workers, ReplaceConfig(w)
         PROVE  TypeOK'
    BY <1>14 DEF ReplaceConfig, TypeOK
  <1>15. CASE RefreshCatalog
    BY <1>15 DEF RefreshCatalog, TypeOK
  <1>16. CASE Tick
    <2>1. ASSUME NEW p \in Proposals
          PROVE  Aged(p) \in Row \union {NoRow}
      <3>1. CASE row[p].status = "proposed" /\ row[p].ttl > 0
        <4>1. row[p] \in Row
          BY <3>1, RowShape
        <4> QED
          BY <3>1, <4>1 DEF Aged, Row
      <3>2. CASE row[p].status = "executing" /\ row[p].lease <= StaleAfter
        <4>1. row[p] \in Row
          BY <3>2, RowShape
        <4>2. row[p].lease + 1 \in 0..(StaleAfter + 1)
          BY <3>2, <4>1 DEF Row
        <4>3. Aged(p) = [row[p] EXCEPT !.lease = row[p].lease + 1]
          BY <3>2 DEF Aged
        <4> QED
          BY <4>1, <4>2, <4>3 DEF Row
      <3>3. CASE /\ ~(row[p].status = "proposed" /\ row[p].ttl > 0)
                 /\ ~(row[p].status = "executing" /\ row[p].lease <= StaleAfter)
        BY <3>3 DEF Aged, TypeOK
      <3> QED
        BY <3>1, <3>2, <3>3
    <2> QED
      BY <1>16, <2>1 DEF Tick, TypeOK
  <1>17. CASE UNCHANGED vars
    BY <1>17 DEF vars, TypeOK
  <1> QED
    BY <1>1, <1>2, <1>3, <1>4, <1>5, <1>6, <1>7, <1>8, <1>9, <1>10, <1>11, <1>12,
       <1>13, <1>14, <1>15, <1>16, <1>17 DEF Next, RequestStep

----------------------------------------------------------------------------
(* The lease discipline.                                                   *)

\* A step that leaves rows and counters alone, changes no holder and makes
\* none keeps the discipline.
LEMMA LeaseFrame ==
    ASSUME LeaseDiscipline, UNCHANGED <<row, runs>>,
           \A r \in Requests, p \in Proposals :
               Holds(r, p)' => Holds(r, p) /\ req'[r] = req[r]
    PROVE  LeaseDiscipline'
  BY DEF LeaseDiscipline, SoleHolder, HolderMatchesRow, CounterMatchesRow

\* Ending a request, or starting one, makes no holder.
LEMMA FinishFrame ==
    ASSUME TypeOK, NEW r \in Requests, Finish(r)
    PROVE  \A s \in Requests, p \in Proposals :
               Holds(s, p)' => Holds(s, p) /\ req'[s] = req[s]
  <1> SUFFICES ASSUME NEW s \in Requests, NEW p \in Proposals, Holds(s, p)'
               PROVE  Holds(s, p) /\ req'[s] = req[s]
    OBVIOUS
  <1>1. s # r
    BY DEF Finish, Holds, Held, Idle, TypeOK
  <1> QED
    BY <1>1 DEF Finish, Holds, TypeOK

\* A holder that moves on keeps its lease; nobody else is touched.
LEMMA EnterFrame ==
    ASSUME TypeOK, NEW r \in Requests, NEW phase \in Held,
           req[r].phase \in {"gated"} \union Held, Enter(r, phase)
    PROVE  /\ req'[r].phase = phase
           /\ req'[r].proposal = req[r].proposal
           /\ req'[r].user = req[r].user
           /\ \A s \in Requests \ {r} : req'[s] = req[s]
  <1>1. req[r] \in Approving
    BY RequestShape
  <1>2. req'[r] = [req[r] EXCEPT !.phase = phase]
    BY DEF Enter, TypeOK
  <1>3. \A s \in Requests \ {r} : req'[s] = req[s]
    BY DEF Enter, TypeOK
  <1> QED
    BY <1>1, <1>2, <1>3 DEF Approving

\* Before any proposal is stored nobody holds a lease and nothing has run.
LEMMA InitLease == Init => LeaseDiscipline
  BY DEF Init, LeaseDiscipline, SoleHolder, HolderMatchesRow, CounterMatchesRow,
         Holds, Held, Idle, NoRow

\* Every handler keeps the lease discipline: only lock_for_execution creates a
\* holder, only from "proposed", and only the holder runs or ends a proposal.
LEMMA LeaseStep == TypeOK /\ LeaseDiscipline /\ [Next]_vars => LeaseDiscipline'
  <1> SUFFICES ASSUME TypeOK, LeaseDiscipline, [Next]_vars
               PROVE  LeaseDiscipline'
    OBVIOUS
  <1>1. ASSUME NEW r \in Requests, NEW w \in Workers, NEW u \in Users, StartPropose(r, w, u)
        PROVE  LeaseDiscipline'
    <2>1. \A s \in Requests, p \in Proposals : Holds(s, p)' => Holds(s, p) /\ req'[s] = req[s]
      BY <1>1 DEF StartPropose, Holds, Held, TypeOK
    <2> QED
      BY <1>1, <2>1, LeaseFrame DEF StartPropose
  <1>2. ASSUME NEW r \in Requests, RetryDraft(r)
        PROVE  LeaseDiscipline'
    <2>1. req[r] \in Drafting
      BY <1>2, RequestShape DEF RetryDraft
    <2>2. req'[r].phase = "drafting" /\ \A s \in Requests \ {r} : req'[s] = req[s]
      BY <1>2, <2>1 DEF RetryDraft, TypeOK, Drafting
    <2>3. \A s \in Requests, p \in Proposals : Holds(s, p)' => Holds(s, p) /\ req'[s] = req[s]
      BY <2>2 DEF Holds, Held
    <2> QED
      BY <1>2, <2>3, LeaseFrame DEF RetryDraft
  <1>3. ASSUME NEW r \in Requests, GiveUpDraft(r) \/ LockRefused(r) \/ LoseOutcome(r)
        PROVE  LeaseDiscipline'
    BY <1>3, FinishFrame, LeaseFrame DEF GiveUpDraft, LockRefused, LoseOutcome
  <1>4. ASSUME NEW r \in Requests, NEW p \in Proposals, SubmitDraft(r, p)
        PROVE  LeaseDiscipline'
    <2>1. \A s \in Requests, q \in Proposals : Holds(s, q)' => Holds(s, q) /\ req'[s] = req[s]
      BY <1>4, FinishFrame DEF SubmitDraft
    <2>2. /\ row'[p].status = "proposed" /\ runs' = runs /\ runs[p] = 0
          /\ \A q \in Proposals \ {p} : row'[q] = row[q]
          /\ \A s \in Requests : ~Holds(s, p)
      BY <1>4 DEF SubmitDraft, TypeOK, LeaseDiscipline, HolderMatchesRow, CounterMatchesRow
    <2> QED
      BY <2>1, <2>2 DEF LeaseDiscipline, SoleHolder, HolderMatchesRow, CounterMatchesRow
  <1>5. ASSUME NEW r \in Requests, NEW w \in Workers, NEW u \in Users,
               NEW p \in Proposals, StartApprove(r, w, u, p)
        PROVE  LeaseDiscipline'
    <2>1. \A s \in Requests, q \in Proposals : Holds(s, q)' => Holds(s, q) /\ req'[s] = req[s]
      BY <1>5 DEF StartApprove, Holds, Held, TypeOK
    <2> QED
      BY <1>5, <2>1, LeaseFrame DEF StartApprove
  <1>6. ASSUME NEW p \in Proposals, NEW s \in {"expired", "rejected"},
               row[p].status = "proposed", SetStatus(p, s), runs' = runs,
               \A t \in Requests, q \in Proposals :
                   Holds(t, q)' => Holds(t, q) /\ req'[t] = req[t]
        PROVE  LeaseDiscipline'
    <2>1. row[p] \in Row
      BY <1>6, RowShape
    <2>2. row'[p].status = s /\ \A q \in Proposals \ {p} : row'[q] = row[q]
      BY <1>6, <2>1 DEF SetStatus, TypeOK, Row
    <2>3. runs[p] = 0 /\ \A t \in Requests : ~Holds(t, p)
      BY <1>6 DEF LeaseDiscipline, HolderMatchesRow, CounterMatchesRow
    <2> QED
      BY <1>6, <2>2, <2>3 DEF LeaseDiscipline, SoleHolder, HolderMatchesRow, CounterMatchesRow
  <1>7. ASSUME NEW r \in Requests, LockExpired(r)
        PROVE  LeaseDiscipline'
    BY <1>7, <1>6, TargetExists, FinishFrame DEF LockExpired, Claimable
  <1>8. ASSUME NEW r \in Requests, LockGranted(r)
        PROVE  LeaseDiscipline'
    <2> DEFINE p == req[r].proposal
    <2>1. p \in Proposals /\ row[p] \in Row /\ row[p].status = "proposed"
          /\ row[p].owner = req[r].user
      BY <1>8, TargetExists, RowShape DEF LockGranted, Claimable
    <2>2. row'[p].status = "executing" /\ row'[p].owner = row[p].owner
          /\ \A q \in Proposals \ {p} : row'[q] = row[q]
      BY <1>8, <2>1 DEF LockGranted, TypeOK, Row
    <2>3. runs' = runs /\ runs[p] = 0 /\ \A s \in Requests : ~Holds(s, p)
      BY <1>8, <2>1 DEF LockGranted, LeaseDiscipline, HolderMatchesRow, CounterMatchesRow
    <2>4. /\ req'[r].phase = "locked" /\ req'[r].proposal = p /\ req'[r].user = req[r].user
          /\ \A s \in Requests \ {r} : req'[s] = req[s]
      BY <1>8, EnterFrame DEF LockGranted, Held
    <2>5. \A s \in Requests, q \in Proposals :
             Holds(s, q)' => (s = r /\ q = p) \/ (s # r /\ q # p /\ Holds(s, q))
      BY <2>3, <2>4 DEF Holds
    <2> QED
      BY <2>1, <2>2, <2>3, <2>4, <2>5
         DEF LeaseDiscipline, SoleHolder, HolderMatchesRow, CounterMatchesRow
  <1>9. ASSUME NEW r \in Requests, NEW phase \in Held, req[r].phase \in Held,
               Enter(r, phase), row' = row, NEW n \in {0, 1},
               phase \in {"locked", "validated"} => n = 0,
               phase \in {"ran", "answered"} => n = 1,
               runs' = [runs EXCEPT ![req[r].proposal] = n]
        PROVE  LeaseDiscipline'
    <2> DEFINE p == req[r].proposal
    <2>1. p \in Proposals /\ Holds(r, p)
      BY <1>9, TargetExists DEF Holds
    <2>2. /\ req'[r].phase = phase /\ req'[r].proposal = p /\ req'[r].user = req[r].user
          /\ \A s \in Requests \ {r} : req'[s] = req[s]
      BY <1>9, EnterFrame
    <2>3. runs'[p] = n /\ \A q \in Proposals \ {p} : runs'[q] = runs[q]
      BY <1>9, <2>1 DEF TypeOK
    <2>4. \A s \in Requests, q \in Proposals :
             Holds(s, q)' => (s = r /\ q = p) \/ (s # r /\ q # p /\ Holds(s, q))
      BY <1>9, <2>1, <2>2 DEF Holds, LeaseDiscipline, SoleHolder
    <2>5. SoleHolder'
      BY <2>4 DEF LeaseDiscipline, SoleHolder
    <2>6. row[p].status \in {"executing", "failed"} /\ row[p].owner = req[r].user
      BY <2>1 DEF LeaseDiscipline, HolderMatchesRow
    <2>7. HolderMatchesRow'
      BY <1>9, <2>2, <2>3, <2>4, <2>6 DEF LeaseDiscipline, HolderMatchesRow
    <2>8. CounterMatchesRow'
      BY <1>9, <2>3, <2>6 DEF LeaseDiscipline, CounterMatchesRow
    <2> QED
      BY <2>5, <2>7, <2>8 DEF LeaseDiscipline
  <1>10. ASSUME NEW r \in Requests,
                Revalidate(r) \/ ExplainRejects(r) \/ PostExecute(r)
         PROVE  LeaseDiscipline'
    <2> DEFINE p == req[r].proposal
               n == runs[p]
    <2>1. p \in Proposals /\ Holds(r, p)
      BY <1>10, TargetExists DEF Holds, Held, Revalidate, ExplainRejects, PostExecute
    <2>2. n \in {0, 1} /\ runs = [runs EXCEPT ![p] = n]
      BY <2>1 DEF TypeOK, LeaseDiscipline, CounterMatchesRow
    <2>3. /\ req[r].phase \in {"locked", "validated"} => n = 0
          /\ req[r].phase = "ran" => n = 1
      BY <2>1 DEF LeaseDiscipline, HolderMatchesRow
    <2>4. PICK phase \in {"validated", "failing", "answered"} :
             /\ Enter(r, phase) /\ row' = row /\ runs' = runs
             /\ phase = "validated" => req[r].phase = "locked"
             /\ phase = "answered" => req[r].phase = "ran"
      BY <1>10 DEF Revalidate, ExplainRejects, PostExecute
    <2> QED
      BY <1>9, <2>1, <2>2, <2>3, <2>4 DEF Holds, Held
  <1>11. ASSUME NEW r \in Requests, Execute(r)
         PROVE  LeaseDiscipline'
    <2> DEFINE p == req[r].proposal
    <2>1. p \in Proposals /\ Holds(r, p)
      BY <1>11, TargetExists DEF Holds, Held, Execute
    <2>2. runs[p] = 0
      BY <1>11, <2>1 DEF LeaseDiscipline, HolderMatchesRow, Execute
    <2>3. runs' = [runs EXCEPT ![p] = 1]
      BY <1>11, <2>2 DEF Execute
    <2> QED
      BY <1>9, <1>11, <2>1, <2>3 DEF Execute, Holds, Held
  <1>12. ASSUME NEW r \in Requests, MarkExecuted(r) \/ MarkFailed(r)
         PROVE  LeaseDiscipline'
    <2> DEFINE p == req[r].proposal
    <2>1. p \in Proposals /\ Holds(r, p)
      BY <1>12, TargetExists DEF Holds, Held, MarkExecuted, MarkFailed
    <2>2. PICK s \in {"executed", "failed"} :
             SetStatus(p, s) /\ (s = "executed" => req[r].phase = "answered")
      BY <1>12 DEF MarkExecuted, MarkFailed
    <2>3. row[p] \in Row
      BY <2>1, RowShape DEF LeaseDiscipline, HolderMatchesRow
    <2>4. row'[p].status = s /\ \A q \in Proposals \ {p} : row'[q] = row[q]
      BY <2>1, <2>2, <2>3 DEF SetStatus, TypeOK, Row
    <2>5. s = "executed" => runs[p] = 1
      BY <2>1, <2>2 DEF LeaseDiscipline, HolderMatchesRow
    <2>6. \A t \in Requests, q \in Proposals :
             Holds(t, q)' => q # p /\ Holds(t, q) /\ req'[t] = req[t]
      <3>1. Finish(r) /\ \A t \in Requests, q \in Proposals :
               Holds(t, q)' => Holds(t, q) /\ req'[t] = req[t]
        BY <1>12, FinishFrame DEF MarkExecuted, MarkFailed
      <3>2. \A q \in Proposals : ~Holds(r, q)'
        BY <3>1 DEF Finish, Holds, Held, Idle, TypeOK
      <3> QED
        BY <2>1, <3>1, <3>2 DEF LeaseDiscipline, SoleHolder
    <2>7. runs' = runs
      BY <1>12 DEF MarkExecuted, MarkFailed
    <2> QED
      BY <2>1, <2>4, <2>5, <2>6, <2>7
         DEF LeaseDiscipline, SoleHolder, HolderMatchesRow, CounterMatchesRow
  <1>13. ASSUME NEW u \in Users, NEW p \in Proposals, Reject(u, p)
         PROVE  LeaseDiscipline'
    BY <1>13, <1>6 DEF Reject, Holds
  <1>14. ASSUME req' = req, runs' = runs,
                \A p \in Proposals : row'[p].owner = row[p].owner,
                \A p \in Proposals :
                    \/ row'[p].status = row[p].status
                    \/ row[p].status = "executing" /\ row'[p].status = "failed"
         PROVE  LeaseDiscipline'
    BY <1>14 DEF LeaseDiscipline, SoleHolder, HolderMatchesRow, CounterMatchesRow, Holds
  <1>15. CASE Reclaim
    <2>1. ASSUME NEW p \in Proposals
          PROVE  /\ row'[p].owner = row[p].owner
                 /\ \/ row'[p].status = row[p].status
                    \/ row[p].status = "executing" /\ row'[p].status = "failed"
      <3>1. CASE Stale(p)
        <4>1. row[p] \in Row
          BY <3>1, RowShape DEF Stale
        <4>2. row'[p] = [row[p] EXCEPT !.status = "failed"]
          BY <1>15, <3>1 DEF Reclaim
        <4> QED
          BY <3>1, <4>1, <4>2 DEF Stale, Row
      <3>2. CASE ~Stale(p)
        BY <1>15, <3>2 DEF Reclaim
      <3> QED
        BY <3>1, <3>2
    <2> QED
      BY <1>14, <1>15, <2>1 DEF Reclaim
  <1>16. ASSUME NEW w \in Workers, Crash(w)
         PROVE  LeaseDiscipline'
    <2>1. \A s \in Requests, p \in Proposals : Holds(s, p)' => Holds(s, p) /\ req'[s] = req[s]
      BY <1>16 DEF Crash, Holds, Held, Idle
    <2> QED
      BY <1>16, <2>1, LeaseFrame DEF Crash
  <1>17. CASE RefreshCatalog \/ \E w \in Workers : ReplaceConfig(w)
    BY <1>17, LeaseFrame DEF RefreshCatalog, ReplaceConfig, Holds
  <1>18. CASE Tick
    <2>1. ASSUME NEW p \in Proposals
          PROVE  row'[p].owner = row[p].owner /\ row'[p].status = row[p].status
      <3>1. row'[p] = Aged(p)
        BY <1>18 DEF Tick
      <3>2. CASE row[p].status = "proposed" /\ row[p].ttl > 0
        <4>1. row[p] \in Row
          BY <3>2, RowShape
        <4> QED
          BY <3>1, <3>2, <4>1 DEF Aged, Row
      <3>3. CASE row[p].status = "executing" /\ row[p].lease <= StaleAfter
        <4>1. row[p] \in Row
          BY <3>3, RowShape
        <4>2. Aged(p) = [row[p] EXCEPT !.lease = row[p].lease + 1]
          BY <3>3 DEF Aged
        <4> QED
          BY <3>1, <4>1, <4>2 DEF Row
      <3>4. CASE /\ ~(row[p].status = "proposed" /\ row[p].ttl > 0)
                 /\ ~(row[p].status = "executing" /\ row[p].lease <= StaleAfter)
        BY <3>1, <3>4 DEF Aged
      <3> QED
        BY <3>2, <3>3, <3>4
    <2> QED
      BY <1>14, <1>18, <2>1 DEF Tick
  <1>19. CASE UNCHANGED vars
    BY <1>19, LeaseFrame DEF vars, Holds
  <1> QED
    BY <1>1, <1>2, <1>3, <1>4, <1>5, <1>7, <1>8, <1>10, <1>11, <1>12, <1>13,
       <1>15, <1>16, <1>17, <1>18, <1>19 DEF Next, RequestStep

----------------------------------------------------------------------------
(* Theorems.                                                               *)

\* The inductive invariant of the workflow: shapes and the lease discipline of
\* lock_for_execution, mark_executed, mark_failed and the reclaimer together.
THEOREM LeaseInvariance == Spec => [](TypeOK /\ LeaseDiscipline)
  <1>1. Init => TypeOK /\ LeaseDiscipline
    BY InitType, InitLease
  <1>2. TypeOK /\ LeaseDiscipline /\ [Next]_vars => (TypeOK /\ LeaseDiscipline)'
    BY TypeStep, LeaseStep
  <1> QED
    BY <1>1, <1>2, PTL DEF Spec

\* Rows, requests, configurations and counters keep their shapes.
THEOREM TypeCorrect == Spec => []TypeOK
  BY LeaseInvariance, PTL

\* The approved statement reaches the analytics database at most once,
\* whatever approvals, crashes, reclaims and redeployments interleave.
THEOREM RunsAtMostOnce == Spec => []AtMostOneRun
  <1>1. LeaseDiscipline => AtMostOneRun
    BY DEF LeaseDiscipline, CounterMatchesRow, AtMostOneRun
  <1> QED
    BY <1>1, LeaseInvariance, PTL

\* The execution lease has one holder, the owner of the proposal.
THEOREM OneOwnerHolds == Spec => []SoleOwnerHolds
  <1>1. LeaseDiscipline => SoleOwnerHolds
    BY DEF LeaseDiscipline, SoleHolder, HolderMatchesRow, SoleOwnerHolds
  <1> QED
    BY <1>1, LeaseInvariance, PTL

\* A rejected or expired proposal never ran and nobody can still run it.
THEOREM ClosedProposalsAreInert == Spec => []ClosedIsInert
  <1>1. LeaseDiscipline => ClosedIsInert
    BY DEF LeaseDiscipline, HolderMatchesRow, CounterMatchesRow, ClosedIsInert
  <1> QED
    BY <1>1, LeaseInvariance, PTL

\* "executed" is only reported of a statement that ran and was let go of.
THEOREM ExecutedIsHonest == Spec => []ExecutedIsTrue
  <1>1. LeaseDiscipline => ExecutedIsTrue
    BY DEF LeaseDiscipline, HolderMatchesRow, CounterMatchesRow, ExecutedIsTrue
  <1> QED
    BY <1>1, LeaseInvariance, PTL

----------------------------------------------------------------------------
(* The statement that runs is the one that was approved.                   *)

\* A request past revalidation runs on the policy version its proposal was
\* stored under: a worker changes version only by dying with its requests,
\* and a row is never rewritten once it left "absent".
ValidatedBinding ==
    \A r \in Requests :
        req[r].phase = "validated" =>
            policy[req[r].worker] = row[req[r].proposal].policy

\* A validated request keeps the policy it was validated under: a redeploy
\* with another version kills the worker's requests, and no handler rewrites
\* the policy a stored row was fingerprinted with.
LEMMA BindingStep ==
    TypeOK /\ LeaseDiscipline /\ ValidatedBinding /\ [Next]_vars => ValidatedBinding'
  <1> SUFFICES ASSUME TypeOK, LeaseDiscipline, ValidatedBinding, [Next]_vars,
                      NEW s \in Requests, req'[s].phase = "validated"
               PROVE  policy'[req'[s].worker] = row'[req'[s].proposal].policy
    BY DEF ValidatedBinding
  <1> DEFINE Kept == /\ req'[s] = req[s]
                     /\ policy'[req[s].worker] = policy[req[s].worker]
                     /\ row'[req[s].proposal].policy = row[req[s].proposal].policy
  <1>1. Kept => policy'[req'[s].worker] = row'[req'[s].proposal].policy
    BY DEF ValidatedBinding
  <1>2. \A r \in Requests : Finish(r) => req'[s] = req[s]
    BY DEF Finish, Idle, TypeOK
  <1>3. \A r \in Requests, phase \in {"locked", "ran", "answered", "failing"} :
           Enter(r, phase) /\ req[r].phase \in {"gated"} \union Held => req'[s] = req[s]
    <2> SUFFICES ASSUME NEW r \in Requests, NEW phase \in {"locked", "ran", "answered", "failing"},
                        Enter(r, phase), req[r].phase \in {"gated"} \union Held
                 PROVE  req'[s] = req[s]
      OBVIOUS
    <2>1. req'[r].phase = phase /\ \A t \in Requests \ {r} : req'[t] = req[t]
      BY EnterFrame DEF Held
    <2> QED
      BY <2>1
  <1>4. req'[s] = req[s] => req[s].proposal \in Proposals /\ Holds(s, req[s].proposal)
                            /\ row[req[s].proposal] \in Row
    <2> SUFFICES ASSUME req'[s] = req[s]
                 PROVE  req[s].proposal \in Proposals /\ Holds(s, req[s].proposal)
                        /\ row[req[s].proposal] \in Row
      OBVIOUS
    <2>1. req[s].proposal \in Proposals /\ Holds(s, req[s].proposal)
      BY TargetExists DEF Holds, Held
    <2> QED
      BY <2>1, RowShape DEF LeaseDiscipline, HolderMatchesRow
  <1>5. ASSUME NEW r \in Requests,
               \/ \E w \in Workers, u \in Users : StartPropose(r, w, u)
               \/ RetryDraft(r) \/ GiveUpDraft(r) \/ LockRefused(r) \/ LoseOutcome(r)
               \/ \E w \in Workers, u \in Users, p \in Proposals : StartApprove(r, w, u, p)
        PROVE  Kept
    <2>1. row' = row /\ policy' = policy
      BY <1>5 DEF StartPropose, RetryDraft, GiveUpDraft, LockRefused, LoseOutcome, StartApprove
    <2>2. CASE GiveUpDraft(r) \/ LockRefused(r) \/ LoseOutcome(r)
      BY <1>2, <2>1, <2>2 DEF GiveUpDraft, LockRefused, LoseOutcome
    <2>3. CASE \/ \E w \in Workers, u \in Users : StartPropose(r, w, u)
               \/ \E w \in Workers, u \in Users, p \in Proposals : StartApprove(r, w, u, p)
      BY <2>1, <2>3 DEF StartPropose, StartApprove, TypeOK
    <2>4. CASE RetryDraft(r)
      <3>1. req[r] \in Drafting
        BY <2>4, RequestShape DEF RetryDraft
      <3>2. req'[r].phase = "drafting" /\ \A t \in Requests \ {r} : req'[t] = req[t]
        BY <2>4, <3>1 DEF RetryDraft, TypeOK, Drafting
      <3> QED
        BY <2>1, <3>2
    <2> QED
      BY <1>5, <2>2, <2>3, <2>4
  <1>6. ASSUME NEW r \in Requests, NEW p \in Proposals, SubmitDraft(r, p)
        PROVE  Kept
    <2>1. req'[s] = req[s] /\ policy' = policy
      BY <1>2, <1>6 DEF SubmitDraft
    <2>2. req[s].proposal # p
      BY <1>4, <1>6, <2>1 DEF SubmitDraft, LeaseDiscipline, HolderMatchesRow
    <2> QED
      BY <1>4, <1>6, <2>1, <2>2 DEF SubmitDraft, TypeOK
  <1>7. ASSUME NEW p \in Proposals, NEW t, SetStatus(p, t), req'[s] = req[s], policy' = policy
        PROVE  Kept
    <2>1. row'[req[s].proposal].policy = row[req[s].proposal].policy
      BY <1>4, <1>7 DEF SetStatus, TypeOK, Row
    <2> QED
      BY <1>7, <2>1
  <1>8. ASSUME NEW r \in Requests, LockExpired(r) \/ MarkExecuted(r) \/ MarkFailed(r)
        PROVE  Kept
    <2>1. req[r].proposal \in Proposals
      BY <1>8, TargetExists DEF LockExpired, MarkExecuted, MarkFailed, Held
    <2> QED
      BY <1>2, <1>7, <1>8, <2>1 DEF LockExpired, MarkExecuted, MarkFailed
  <1>9. ASSUME NEW r \in Requests, LockGranted(r)
        PROVE  Kept
    <2>1. req'[s] = req[s] /\ policy' = policy
      BY <1>3, <1>9 DEF LockGranted
    <2>2. row[req[r].proposal].status = "proposed" /\ req[r].proposal \in Proposals
      BY <1>9, TargetExists DEF LockGranted, Claimable
    <2>3. req[s].proposal # req[r].proposal
      BY <1>4, <2>1, <2>2 DEF LeaseDiscipline, HolderMatchesRow
    <2>4. row'[req[s].proposal] = row[req[s].proposal]
      BY <1>4, <1>9, <2>1, <2>2, <2>3 DEF LockGranted, TypeOK
    <2> QED
      BY <2>1, <2>4
  <1>10. ASSUME NEW r \in Requests, Revalidate(r)
         PROVE  policy'[req'[s].worker] = row'[req'[s].proposal].policy
    <2>1. row' = row /\ policy' = policy /\ req[r].phase = "locked"
      BY <1>10 DEF Revalidate
    <2>2. CASE Enter(r, "failing")
      BY <1>1, <1>3, <2>1, <2>2 DEF Held
    <2>3. CASE Unchanged(r, req[r].proposal) /\ Enter(r, "validated")
      <3>1. req'[r].proposal = req[r].proposal /\ \A t \in Requests \ {r} : req'[t] = req[t]
        BY <2>1, <2>3, EnterFrame DEF Held
      <3>2. req'[r].worker = req[r].worker
        <4>1. req[r] \in Approving
          BY <2>1, RequestShape DEF Held
        <4>2. req'[r] = [req[r] EXCEPT !.phase = "validated"]
          BY <2>3 DEF Enter, TypeOK
        <4> QED
          BY <4>1, <4>2 DEF Approving
      <3> QED
        BY <1>1, <2>1, <2>3, <3>1, <3>2 DEF Unchanged
    <2> QED
      BY <1>10, <2>2, <2>3 DEF Revalidate
  <1>11. ASSUME NEW r \in Requests, ExplainRejects(r) \/ Execute(r) \/ PostExecute(r)
         PROVE  Kept
    BY <1>3, <1>11 DEF ExplainRejects, Execute, PostExecute, Held
  <1>12. ASSUME NEW u \in Users, NEW p \in Proposals, Reject(u, p)
         PROVE  Kept
    BY <1>7, <1>12 DEF Reject
  <1>13. CASE Reclaim
    <2>1. req'[s] = req[s] /\ policy' = policy
      BY <1>13 DEF Reclaim
    <2>2. row'[req[s].proposal].policy = row[req[s].proposal].policy
      BY <1>4, <1>13, <2>1 DEF Reclaim, Row
    <2> QED
      BY <1>1, <2>1, <2>2
  <1>14. ASSUME NEW w \in Workers, Crash(w)
         PROVE  Kept
    <2>1. req'[s] = req[s] /\ row' = row /\ req[s].worker # w
      BY <1>14 DEF Crash, Idle
    <2>2. req[s] \in Approving
      BY <2>1, RequestShape DEF Held
    <2>3. policy'[req[s].worker] = policy[req[s].worker]
      BY <1>14, <2>1, <2>2 DEF Crash, TypeOK, Approving
    <2> QED
      BY <2>1, <2>3
  <1>15. CASE RefreshCatalog \/ (\E w \in Workers : ReplaceConfig(w)) \/ UNCHANGED vars
    BY <1>1, <1>15 DEF RefreshCatalog, ReplaceConfig, vars
  <1>16. CASE Tick
    <2>1. req'[s] = req[s] /\ policy' = policy
      BY <1>16 DEF Tick
    <2>2. row'[req[s].proposal] = Aged(req[s].proposal) /\ row[req[s].proposal] \in Row
      BY <1>4, <1>16, <2>1 DEF Tick
    <2>3. row'[req[s].proposal].policy = row[req[s].proposal].policy
      <3> DEFINE p == req[s].proposal
      <3>1. Aged(p) \in {[row[p] EXCEPT !.ttl = row[p].ttl - 1],
                         [row[p] EXCEPT !.lease = row[p].lease + 1], row[p]}
        BY DEF Aged
      <3> QED
        BY <2>2, <3>1 DEF Row
    <2> QED
      BY <1>1, <2>1, <2>3
  <1> QED
    BY <1>1, <1>5, <1>6, <1>8, <1>9, <1>10, <1>11, <1>12, <1>13, <1>14, <1>15, <1>16
       DEF Next, RequestStep

\* The binding between a validated request and its row, in every reachable
\* state of the approval workflow.
LEMMA BindingInvariance == Spec => [](TypeOK /\ LeaseDiscipline /\ ValidatedBinding)
  <1>1. Init => ValidatedBinding
    BY DEF Init, ValidatedBinding, Idle
  <1> QED
    BY <1>1, BindingStep, LeaseInvariance, PTL DEF Spec

\* A statement only runs for a lease holder, on the policy version its owner
\* approved, whatever is redeployed between proposal and approval.
THEOREM RunsTheApprovedStatement == Spec => RunsWhatWasApproved
  <1>1. TypeOK /\ LeaseDiscipline /\ ValidatedBinding /\ [Next]_vars
          => [\A p \in Proposals : runs'[p] # runs[p] =>
                 \E r \in Requests : /\ Holds(r, p)
                                     /\ policy[req[r].worker] = row[p].policy]_vars
    <2> SUFFICES ASSUME TypeOK, LeaseDiscipline, ValidatedBinding, Next,
                        NEW p \in Proposals, runs'[p] # runs[p]
                 PROVE  \E r \in Requests : /\ Holds(r, p)
                                            /\ policy[req[r].worker] = row[p].policy
      OBVIOUS
    <2>1. PICK r \in Requests : Execute(r)
      BY DEF Next, RequestStep, StartPropose, RetryDraft, GiveUpDraft, SubmitDraft,
             StartApprove, LockRefused, LockExpired, LockGranted, Revalidate,
             ExplainRejects, PostExecute, MarkExecuted, MarkFailed, LoseOutcome,
             Reject, Reclaim, Crash, ReplaceConfig, RefreshCatalog, Tick
    <2>2. req[r].proposal = p
      BY <2>1 DEF Execute, TypeOK
    <2> QED
      BY <2>1, <2>2 DEF Execute, Holds, Held, ValidatedBinding
  <1> QED
    BY <1>1, BindingInvariance, PTL DEF Spec, RunsWhatWasApproved

----------------------------------------------------------------------------
(* How a row's status may change.                                          *)

\* The transition relation of a row, seen by a handler that acts on it: it is
\* stored as "proposed", claimed by a request that passed the gate in time, and
\* from then on only ever finished.
Granted(p) ==
    \E r \in Requests : /\ req[r].phase = "gated"
                        /\ req[r].proposal = p
                        /\ req[r].user = row[p].owner
                        /\ ~req[r].late

StatusMove(p) ==
    \/ row'[p].status = row[p].status
    \/ row[p].status = "absent" /\ row'[p].status = "proposed"
    \/ row[p].status = "proposed" /\ row'[p].status \in {"rejected", "expired"}
    \/ row[p].status = "proposed" /\ row'[p].status = "executing" /\ Granted(p)
    \/ row[p].status \in {"executing", "failed"} /\ row'[p].status \in {"executed", "failed"}

\* An UPDATE of one row's status leaves the others as they are.
LEMMA OneRowMoves ==
    ASSUME TypeOK, NEW q \in Proposals, row[q].status # "absent",
           NEW s, SetStatus(q, s)
    PROVE  row'[q].status = s /\ \A p \in Proposals \ {q} : row'[p] = row[p]
  <1>1. row[q] \in Row
    BY RowShape
  <1> QED
    BY <1>1 DEF SetStatus, TypeOK, Row

\* Every handler, the reclaimer and the clock move a row along that relation.
LEMMA StatusStep ==
    TypeOK /\ LeaseDiscipline /\ [Next]_vars => \A p \in Proposals : StatusMove(p)
  <1> SUFFICES ASSUME TypeOK, LeaseDiscipline, [Next]_vars
               PROVE  \A p \in Proposals : StatusMove(p)
    OBVIOUS
  <1>1. ASSUME NEW r \in Requests, NEW q \in Proposals, SubmitDraft(r, q)
        PROVE  \A p \in Proposals : StatusMove(p)
    BY <1>1 DEF SubmitDraft, StatusMove, TypeOK
  <1>2. ASSUME NEW q \in Proposals, row[q].status = "proposed",
               NEW s \in {"rejected", "expired"}, SetStatus(q, s)
        PROVE  \A p \in Proposals : StatusMove(p)
    <2>1. row'[q].status = s /\ \A p \in Proposals \ {q} : row'[p] = row[p]
      BY <1>2, OneRowMoves
    <2> QED
      BY <1>2, <2>1 DEF StatusMove
  <1>3. ASSUME NEW r \in Requests, LockExpired(r)
        PROVE  \A p \in Proposals : StatusMove(p)
    BY <1>2, <1>3, TargetExists DEF LockExpired, Claimable
  <1>4. ASSUME NEW r \in Requests, LockGranted(r)
        PROVE  \A p \in Proposals : StatusMove(p)
    <2>1. PICK q \in Proposals : q = req[r].proposal
      BY <1>4, TargetExists DEF LockGranted
    <2>2. row[q].status = "proposed" /\ row[q] \in Row /\ Granted(q)
      BY <1>4, <2>1, RowShape DEF LockGranted, Claimable, Granted
    <2>3. /\ row'[q].status = "executing"
          /\ \A p \in Proposals \ {q} : row'[p] = row[p]
      BY <1>4, <2>1, <2>2 DEF LockGranted, TypeOK, Row
    <2> QED
      BY <2>2, <2>3 DEF StatusMove
  <1>5. ASSUME NEW r \in Requests, MarkExecuted(r) \/ MarkFailed(r)
        PROVE  \A p \in Proposals : StatusMove(p)
    <2>1. PICK q \in Proposals : q = req[r].proposal
      BY <1>5, TargetExists DEF MarkExecuted, MarkFailed, Held
    <2>2. Holds(r, q)
      BY <1>5, <2>1 DEF MarkExecuted, MarkFailed, Holds, Held
    <2>3. row[q].status \in {"executing", "failed"}
      BY <2>2 DEF LeaseDiscipline, HolderMatchesRow
    <2>4. /\ row'[q].status \in {"executed", "failed"}
          /\ \A p \in Proposals \ {q} : row'[p] = row[p]
      BY <1>5, <2>1, <2>3, OneRowMoves DEF MarkExecuted, MarkFailed
    <2> QED
      BY <2>3, <2>4 DEF StatusMove
  <1>6. CASE Reclaim
    <2> SUFFICES ASSUME NEW p \in Proposals
                 PROVE  StatusMove(p)
      OBVIOUS
    <2>1. row'[p] = IF Stale(p) THEN [row[p] EXCEPT !.status = "failed"] ELSE row[p]
      BY <1>6 DEF Reclaim
    <2>2. Stale(p) => row[p] \in Row /\ row[p].status = "executing"
      BY RowShape DEF Stale
    <2> QED
      BY <2>1, <2>2 DEF StatusMove, Row
  <1>7. CASE Tick
    <2> SUFFICES ASSUME NEW p \in Proposals
                 PROVE  row'[p].status = row[p].status
      BY DEF StatusMove
    <2>1. row'[p] = Aged(p)
      BY <1>7 DEF Tick
    <2>2. CASE row[p].status = "absent"
      BY <2>1, <2>2 DEF Aged
    <2>3. CASE row[p] \in Row
      <3>1. Aged(p) \in {[row[p] EXCEPT !.ttl = row[p].ttl - 1],
                         [row[p] EXCEPT !.lease = row[p].lease + 1], row[p]}
        BY <2>3 DEF Aged
      <3> QED
        BY <2>1, <2>3, <3>1 DEF Row
    <2> QED
      BY <2>2, <2>3, RowShape
  <1>8. ASSUME NEW u \in Users, NEW q \in Proposals, Reject(u, q)
        PROVE  \A p \in Proposals : StatusMove(p)
    BY <1>2, <1>8 DEF Reject
  <1>9. row' = row => \A p \in Proposals : StatusMove(p)
    BY DEF StatusMove
  <1> QED
    BY <1>1, <1>3, <1>4, <1>5, <1>6, <1>7, <1>8, <1>9
       DEF Next, RequestStep, vars, StartPropose, RetryDraft, GiveUpDraft, StartApprove,
           LockRefused, Revalidate, ExplainRejects, Execute, PostExecute, LoseOutcome,
           Crash, ReplaceConfig, RefreshCatalog

\* Only a request that asked before the proposal lapsed, and is its owner's, turns
\* a pending proposal into an executing one; what left "proposed" never returns.
THEOREM ClaimsAreInTime == Spec => ClaimedInTime
  <1> DEFINE InTime ==
        \A p \in Proposals :
         /\ row[p].status = "proposed" /\ row'[p].status = "executing" => Granted(p)
         /\ row[p].status \notin {"absent", "proposed"} =>
              row'[p].status \notin {"absent", "proposed"}
  <1>1. TypeOK /\ LeaseDiscipline /\ [Next]_vars => [InTime]_vars
    <2> SUFFICES ASSUME \A p \in Proposals : StatusMove(p)
                 PROVE  InTime
      BY StatusStep
    <2> QED
      BY DEF StatusMove
  <1> QED
    BY <1>1, LeaseInvariance, PTL DEF Spec, ClaimedInTime, Granted

----------------------------------------------------------------------------
(* The workflow implements the consent contract.                           *)

\* A step that keeps every status and every counter is invisible to the owner.
LEMMA ConsentFrame ==
    ASSUME \A p \in Proposals : row'[p].status = row[p].status /\ runs'[p] = runs[p]
    PROVE  UNCHANGED <<[p \in Proposals |-> ConsentOf(p)], [p \in Proposals |-> VerdictOf(p)]>>
  <1>1. \A p \in Proposals : ConsentOf(p)' = ConsentOf(p) /\ VerdictOf(p)' = VerdictOf(p)
    BY DEF ConsentOf, VerdictOf
  <1> QED
    BY <1>1

\* A step that touches one proposal only.
LEMMA ConsentMove ==
    ASSUME NEW p \in Proposals,
           \A q \in Proposals \ {p} : row'[q].status = row[q].status /\ runs'[q] = runs[q]
    PROVE  /\ [q \in Proposals |-> ConsentOf(q)]'
                = [[q \in Proposals |-> ConsentOf(q)] EXCEPT ![p] = ConsentOf(p)']
           /\ [q \in Proposals |-> VerdictOf(q)]'
                = [[q \in Proposals |-> VerdictOf(q)] EXCEPT ![p] = VerdictOf(p)']
  <1>1. \A q \in Proposals \ {p} : ConsentOf(q)' = ConsentOf(q) /\ VerdictOf(q)' = VerdictOf(q)
    BY DEF ConsentOf, VerdictOf
  <1> QED
    BY <1>1

\* No stored proposal: every consent is absent and every verdict open.
LEMMA ConsentInitial == Init => Contract!ConsentInit
  BY DEF Init, NoRow, Contract!ConsentInit, ConsentOf, VerdictOf, Terminal

\* Each action of the workflow is the one consent move its handler's UPDATE
\* stands for, or is invisible to the owner.
LEMMA ConsentStep ==
    TypeOK /\ LeaseDiscipline /\ [Next]_vars
      => [Contract!ConsentNext]_<<[p \in Proposals |-> ConsentOf(p)],
                                  [p \in Proposals |-> VerdictOf(p)]>>
  <1> DEFINE cons == [p \in Proposals |-> ConsentOf(p)]
             verd == [p \in Proposals |-> VerdictOf(p)]
             Hidden == \A p \in Proposals : row'[p].status = row[p].status /\ runs'[p] = runs[p]
             Only(p) == \A q \in Proposals \ {p} :
                            row'[q].status = row[q].status /\ runs'[q] = runs[q]
  <1> SUFFICES ASSUME TypeOK, LeaseDiscipline, [Next]_vars
               PROVE  Contract!ConsentNext \/ UNCHANGED <<cons, verd>>
    OBVIOUS
  <1>1. Hidden => UNCHANGED <<cons, verd>>
    BY ConsentFrame
  <1>2. ASSUME NEW p \in Proposals, NEW s, row[p] \in Row, SetStatus(p, s)
        PROVE  row'[p].status = s /\ \A q \in Proposals \ {p} : row'[q] = row[q]
    BY <1>2 DEF SetStatus, TypeOK, Row
  <1>3. ASSUME NEW r \in Requests, NEW p \in Proposals, SubmitDraft(r, p)
        PROVE  Contract!ConsentNext
    <2>1. Only(p) /\ row[p].status = "absent" /\ row'[p].status = "proposed"
      BY <1>3 DEF SubmitDraft, TypeOK
    <2>2. /\ ConsentOf(p) = "absent" /\ ConsentOf(p)' = "pending"
          /\ VerdictOf(p)' = VerdictOf(p)
      BY <2>1 DEF ConsentOf, VerdictOf, Terminal
    <2>3. Contract!Offer(p)
      BY <2>1, <2>2, ConsentMove DEF Contract!Offer, Contract!Move
    <2> QED
      BY <2>3 DEF Contract!ConsentNext
  <1>4. ASSUME NEW p \in Proposals, NEW s \in {"expired", "rejected"},
               row[p].status = "proposed", SetStatus(p, s), runs' = runs
        PROVE  Contract!ConsentNext
    <2>1. Only(p) /\ row'[p].status = s
      BY <1>2, <1>4, RowShape
    <2>2. /\ ConsentOf(p) = "pending" /\ ConsentOf(p)' = "withdrawn"
          /\ VerdictOf(p)' = s
      BY <1>4, <2>1 DEF ConsentOf, VerdictOf, Terminal
    <2>3. Contract!Withdraw(p)
      BY <2>1, <2>2, ConsentMove DEF Contract!Withdraw, Contract!Move
    <2> QED
      BY <2>3 DEF Contract!ConsentNext
  <1>5. ASSUME NEW r \in Requests, LockExpired(r)
        PROVE  Contract!ConsentNext
    BY <1>4, <1>5, TargetExists DEF LockExpired, Claimable
  <1>6. ASSUME NEW u \in Users, NEW p \in Proposals, Reject(u, p)
        PROVE  Contract!ConsentNext
    BY <1>4, <1>6 DEF Reject
  <1>7. ASSUME NEW r \in Requests, LockGranted(r)
        PROVE  Contract!ConsentNext
    <2>a. req[r].proposal \in Proposals
      BY <1>7, TargetExists DEF LockGranted
    <2>b. PICK p \in Proposals : p = req[r].proposal
      BY <2>a
    <2>1. p \in Proposals /\ row[p].status = "proposed" /\ runs[p] = 0 /\ row[p] \in Row
      BY <1>7, <2>b, RowShape
         DEF LockGranted, Claimable, LeaseDiscipline, CounterMatchesRow
    <2>2. Only(p) /\ row'[p].status = "executing" /\ runs' = runs
      BY <1>7, <2>b, <2>1 DEF LockGranted, TypeOK, Row
    <2>3. /\ ConsentOf(p) = "pending" /\ ConsentOf(p)' = "claimed"
          /\ VerdictOf(p)' = VerdictOf(p)
      BY <2>1, <2>2 DEF ConsentOf, VerdictOf, Terminal
    <2>4. Contract!Claim(p)
      BY <2>1, <2>2, <2>3, ConsentMove DEF Contract!Claim, Contract!Move
    <2> QED
      BY <2>1, <2>4 DEF Contract!ConsentNext
  <1>8. ASSUME NEW r \in Requests, Execute(r)
        PROVE  Contract!ConsentNext
    <2>a. req[r].proposal \in Proposals
      BY <1>8, TargetExists DEF Execute, Holds, Held
    <2>b. PICK p \in Proposals : p = req[r].proposal
      BY <2>a
    <2>1. p \in Proposals /\ Holds(r, p)
      BY <1>8, <2>b DEF Execute, Holds, Held
    <2>2. row[p].status \in {"executing", "failed"} /\ runs[p] = 0
      BY <1>8, <2>b, <2>1 DEF Execute, LeaseDiscipline, HolderMatchesRow
    <2>3. Only(p) /\ row' = row /\ runs'[p] = 1
      BY <1>8, <2>b, <2>1, <2>2 DEF Execute, TypeOK
    <2>4. /\ ConsentOf(p) = "claimed" /\ ConsentOf(p)' = "ran"
          /\ VerdictOf(p)' = VerdictOf(p)
      BY <2>2, <2>3 DEF ConsentOf, VerdictOf, Terminal
    <2>5. Contract!Run(p)
      BY <2>1, <2>3, <2>4, ConsentMove DEF Contract!Run, Contract!Move
    <2> QED
      BY <2>1, <2>5 DEF Contract!ConsentNext
  <1>9. ASSUME NEW r \in Requests, MarkExecuted(r)
        PROVE  Contract!ConsentNext
    <2>a. req[r].proposal \in Proposals
      BY <1>9, TargetExists DEF MarkExecuted, Holds, Held
    <2>b. PICK p \in Proposals : p = req[r].proposal
      BY <2>a
    <2>1. p \in Proposals /\ Holds(r, p)
      BY <1>9, <2>b DEF MarkExecuted, Holds, Held
    <2>2. row[p].status \in {"executing", "failed"} /\ runs[p] = 1 /\ row[p] \in Row
      BY <1>9, <2>b, <2>1, RowShape DEF MarkExecuted, LeaseDiscipline, HolderMatchesRow
    <2>3. Only(p) /\ runs' = runs /\ row'[p].status = "executed"
      BY <1>2, <1>9, <2>b, <2>1, <2>2 DEF MarkExecuted
    <2>4. /\ ConsentOf(p) = "ran" /\ ConsentOf(p)' = ConsentOf(p)
          /\ VerdictOf(p) \in {"open", "failed"} /\ VerdictOf(p)' = "executed"
      BY <2>2, <2>3 DEF ConsentOf, VerdictOf, Terminal
    <2>5. Contract!Succeed(p)
      BY <2>1, <2>3, <2>4, ConsentMove DEF Contract!Succeed
    <2> QED
      BY <2>1, <2>5 DEF Contract!ConsentNext
  <1>10. ASSUME NEW S \in SUBSET Proposals, runs' = runs,
                \A p \in S : row[p].status \in {"executing", "failed"}
                             /\ row'[p].status = "failed",
                \A p \in Proposals \ S : row'[p].status = row[p].status
         PROVE  Contract!ConsentNext
    <2>1. \A p \in S : /\ ConsentOf(p) \in {"claimed", "ran"} /\ ConsentOf(p)' = ConsentOf(p)
                       /\ VerdictOf(p) \in {"open", "failed"} /\ VerdictOf(p)' = "failed"
      BY <1>10 DEF ConsentOf, VerdictOf, Terminal
    <2>2. \A p \in Proposals \ S : ConsentOf(p)' = ConsentOf(p) /\ VerdictOf(p)' = VerdictOf(p)
      BY <1>10 DEF ConsentOf, VerdictOf
    <2>3. cons' = cons
      BY <2>1, <2>2
    <2>4. verd' = [p \in Proposals |-> IF p \in S THEN "failed" ELSE verd[p]]
      BY <2>1, <2>2
    <2>5. Contract!Fail(S)
      BY <2>1, <2>3, <2>4 DEF Contract!Fail
    <2> QED
      BY <2>5 DEF Contract!ConsentNext
  <1>11. ASSUME NEW r \in Requests, MarkFailed(r)
         PROVE  Contract!ConsentNext
    <2>a. req[r].proposal \in Proposals
      BY <1>11, TargetExists DEF MarkFailed, Holds, Held
    <2>b. PICK p \in Proposals : p = req[r].proposal
      BY <2>a
    <2>1. p \in Proposals /\ Holds(r, p)
      BY <1>11, <2>b DEF MarkFailed, Holds, Held
    <2>2. row[p].status \in {"executing", "failed"} /\ row[p] \in Row
      BY <2>1, RowShape DEF LeaseDiscipline, HolderMatchesRow
    <2>3. Only(p) /\ runs' = runs /\ row'[p].status = "failed"
      BY <1>2, <1>11, <2>b, <2>1, <2>2 DEF MarkFailed
    <2>4. {p} \in SUBSET Proposals
      BY <2>1
    <2> QED
      BY <1>10, <2>2, <2>3, <2>4
  <1>12. CASE Reclaim
    <2> DEFINE S == {p \in Proposals : Stale(p)}
    <2>1. \A p \in S : row[p].status = "executing" /\ row'[p].status = "failed"
      <3> SUFFICES ASSUME NEW p \in Proposals, Stale(p)
                   PROVE  row[p].status = "executing" /\ row'[p].status = "failed"
        OBVIOUS
      <3>1. row[p] \in Row
        BY RowShape DEF Stale
      <3>2. row'[p] = [row[p] EXCEPT !.status = "failed"]
        BY <1>12 DEF Reclaim
      <3> QED
        BY <3>1, <3>2 DEF Stale, Row
    <2>2. \A p \in Proposals \ S : row'[p] = row[p]
      BY <1>12 DEF Reclaim
    <2>3. runs' = runs
      BY <1>12 DEF Reclaim
    <2> QED
      BY <1>10, <2>1, <2>2, <2>3
  <1>13. ASSUME row' = row, runs' = runs
         PROVE  Hidden
    BY <1>13
  <1>14. CASE Tick
    <2>1. ASSUME NEW p \in Proposals
          PROVE  row'[p].status = row[p].status
      <3>1. row'[p] = Aged(p)
        BY <1>14 DEF Tick
      <3>2. CASE row[p].status = "absent"
        BY <3>1, <3>2 DEF Aged
      <3>3. CASE row[p] \in Row
        <4>1. Aged(p) \in {[row[p] EXCEPT !.ttl = row[p].ttl - 1],
                           [row[p] EXCEPT !.lease = row[p].lease + 1], row[p]}
          BY <3>3 DEF Aged
        <4> QED
          BY <3>1, <3>3, <4>1 DEF Row
      <3> QED
        BY <3>2, <3>3, RowShape
    <2> QED
      BY <1>1, <1>14, <2>1 DEF Tick
  <1> QED
    BY <1>1, <1>3, <1>5, <1>6, <1>7, <1>8, <1>9, <1>11, <1>12, <1>13, <1>14
       DEF Next, RequestStep, vars, StartPropose, RetryDraft, GiveUpDraft, StartApprove,
           LockRefused, Revalidate, ExplainRejects, PostExecute, LoseOutcome, Crash,
           ReplaceConfig, RefreshCatalog

\* The approval workflow implements the consent contract: one run, after a
\* claim, never after a withdrawal, and "executed" is the last word.
THEOREM ImplementsConsent == Spec => HonoursConsent
  BY ConsentInitial, ConsentStep, LeaseInvariance, PTL
     DEF Spec, HonoursConsent, Contract!ConsentSpec
=============================================================================
