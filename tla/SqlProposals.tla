---------------------------- MODULE SqlProposals ----------------------------
(***************************************************************************)
(* The approval workflow of a text-to-SQL proposal: SQLService.propose,    *)
(* approve_and_execute and reject, the rows of sql_query_proposals they    *)
(* share, the reclaimer every worker runs in the background, and the       *)
(* environment they race with: the admin's configuration changes, an       *)
(* out-of-band catalog refresh, worker crashes and the passage of time.    *)
(*                                                                         *)
(* A database transaction is one step; everything the service does between *)
(* two transactions leaves room for other requests.  Time is kept as the   *)
(* remaining life of a pending row (ttl) and the age of an execution lease *)
(* (lease), because the code only compares timestamps with those spans.    *)
(***************************************************************************)
EXTENDS Naturals

CONSTANTS
    Proposals,         \* row identities (uuid4 in the code)
    Requests,          \* in-flight HTTP requests, one thread each
    Workers,           \* uvicorn processes
    Users,             \* administrators; nobody else passes require_admin
    Configs,           \* the runtime configurations an admin may install
    Policies,          \* SQL policy versions a deployment may run
    MaxCatalog,        \* bound: catalog refreshes explored
    Ttl,               \* sql_proposal_ttl_seconds, in ticks
    StaleAfter,        \* the reclaimer's stale_after, in ticks
    MaxAttempts,       \* sql_max_generation_attempts
    StatementsBounded  \* TRUE: database statements never outlive a lease

Config == [sql_enabled : BOOLEAN,
           emergency_disabled : BOOLEAN,
           safety_lockdown_enabled : BOOLEAN]

ASSUME SqlAssumption ==
    /\ Configs \subseteq Config
    /\ MaxCatalog \in Nat \ {0}
    /\ Ttl \in Nat \ {0}
    /\ StaleAfter \in Nat
    /\ MaxAttempts \in Nat \ {0}
    /\ StatementsBounded \in BOOLEAN

VARIABLES
    row,      \* row[p]: the row of proposal p in sql_query_proposals
    req,      \* req[r]: what request r is doing, local variables included
    store,    \* store[w]: the configuration worker w reads
    policy,   \* policy[w]: the policy version worker w was deployed with
    catalog,  \* sql_catalog_state.version
    runs      \* history: how often p's statement reached the analytics database

vars == <<row, req, store, policy, catalog, runs>>

Terminal == {"executed", "rejected", "expired", "failed"}
Status == {"absent", "proposed", "executing"} \union Terminal

NoRow == [status |-> "absent"]
Row == [status : Status \ {"absent"}, owner : Users, version : 1..MaxCatalog,
        policy : Policies, ttl : 0..Ttl, lease : 0..(StaleAfter + 1)]

\* A request that took the execution lock is in one of these phases until it
\* has written the outcome.
Held == {"locked", "validated", "ran", "answered", "failing"}

Idle == [phase |-> "idle"]
Drafting == [phase : {"drafting"}, worker : Workers, user : Users,
             version : 1..MaxCatalog, attempt : 0..(MaxAttempts - 1)]
Approving == [phase : {"gated"} \union Held, worker : Workers, user : Users,
              proposal : Proposals, late : BOOLEAN]

\* Both kill switches approve_and_execute looks at before it takes the lock.
ApproveOpen(c) == c.sql_enabled /\ ~c.emergency_disabled

\* What the orchestrator and ToolGuardrail.authorize_sql ask for a proposal.
ProposeOpen(c) == ApproveOpen(c) /\ ~c.safety_lockdown_enabled

Holds(r, p) == req[r].phase \in Held /\ req[r].proposal = p

----------------------------------------------------------------------------
Init ==
    /\ row = [p \in Proposals |-> NoRow]
    /\ req = [r \in Requests |-> Idle]
    /\ store \in [Workers -> Configs]
    /\ policy \in [Workers -> Policies]
    /\ catalog = 1
    /\ runs = [p \in Proposals |-> 0]

SetStatus(p, s) == row' = [row EXCEPT ![p].status = s]
Enter(r, phase) == req' = [req EXCEPT ![r].phase = phase]
Finish(r) == req' = [req EXCEPT ![r] = Idle]

----------------------------------------------------------------------------
(* Proposing.                                                              *)

\* The orchestrator authorises the SQL route on its configuration snapshot
\* and propose() reads the catalog it will generate against.
StartPropose(r, w, u) ==
    /\ req[r].phase = "idle"
    /\ ProposeOpen(store[w])
    /\ req' = [req EXCEPT ![r] = [phase |-> "drafting", worker |-> w, user |-> u,
                                  version |-> catalog, attempt |-> 0]]
    /\ UNCHANGED <<row, store, policy, catalog, runs>>

\* A generation the policy or EXPLAIN refuses is retried with the error code
\* until the attempts are spent.
RetryDraft(r) ==
    /\ req[r].phase = "drafting"
    /\ req[r].attempt + 1 < MaxAttempts
    /\ req' = [req EXCEPT ![r].attempt = @ + 1]
    /\ UNCHANGED <<row, store, policy, catalog, runs>>

\* The last attempt is refused, or generation raises: nothing was stored.
GiveUpDraft(r) ==
    /\ req[r].phase = "drafting"
    /\ Finish(r)
    /\ UNCHANGED <<row, store, policy, catalog, runs>>

\* The validated draft is stored, bound to the catalog it was generated
\* against and to the policy version of this worker (the fingerprint).
SubmitDraft(r, p) ==
    /\ req[r].phase = "drafting"
    /\ row[p].status = "absent"
    /\ row' = [row EXCEPT ![p] = [status |-> "proposed", owner |-> req[r].user,
                                  version |-> req[r].version,
                                  policy |-> policy[req[r].worker],
                                  ttl |-> Ttl, lease |-> 0]]
    /\ Finish(r)
    /\ UNCHANGED <<store, policy, catalog, runs>>

----------------------------------------------------------------------------
(* Approving.                                                              *)

\* approve_and_execute looks at the worker's configuration and samples the
\* time it will compare with expires_at; neither is read again.
StartApprove(r, w, u, p) ==
    /\ req[r].phase = "idle"
    /\ row[p].status # "absent"
    /\ ApproveOpen(store[w])
    /\ req' = [req EXCEPT ![r] = [phase |-> "gated", worker |-> w, user |-> u,
                                  proposal |-> p, late |-> row[p].ttl = 0]]
    /\ UNCHANGED <<row, store, policy, catalog, runs>>

\* Mutant: lock_for_execution looks proposals up by id only.
ClaimableByAnyone(r, p) == row[p].status = "proposed"

Claimable(r, p) == row[p].owner = req[r].user /\ row[p].status = "proposed"

\* SELECT ... FOR UPDATE finds no row of this user, or one already consumed.
LockRefused(r) ==
    /\ req[r].phase = "gated"
    /\ ~Claimable(r, req[r].proposal)
    /\ Finish(r)
    /\ UNCHANGED <<row, store, policy, catalog, runs>>

\* Mutant: the expiry check comes before the status check.
LockExpiredFirst(r) ==
    /\ req[r].phase = "gated"
    /\ row[req[r].proposal].owner = req[r].user
    /\ req[r].late
    /\ SetStatus(req[r].proposal, "expired")
    /\ Finish(r)
    /\ UNCHANGED <<store, policy, catalog, runs>>

LockExpired(r) ==
    /\ req[r].phase = "gated"
    /\ Claimable(r, req[r].proposal)
    /\ req[r].late
    /\ SetStatus(req[r].proposal, "expired")
    /\ Finish(r)
    /\ UNCHANGED <<store, policy, catalog, runs>>

\* Mutant: the expiry is only acted on by the branch that records it.
LockGrantedLate(r) ==
    /\ req[r].phase = "gated"
    /\ Claimable(r, req[r].proposal)
    /\ row' = [row EXCEPT ![req[r].proposal].status = "executing",
                          ![req[r].proposal].lease = 0]
    /\ Enter(r, "locked")
    /\ UNCHANGED <<store, policy, catalog, runs>>

LockGranted(r) ==
    /\ req[r].phase = "gated"
    /\ Claimable(r, req[r].proposal)
    /\ ~req[r].late
    /\ row' = [row EXCEPT ![req[r].proposal].status = "executing",
                          ![req[r].proposal].lease = 0]
    /\ Enter(r, "locked")
    /\ UNCHANGED <<store, policy, catalog, runs>>

\* Mutant: the catalog version is compared, the fingerprint is not.
UnchangedCatalogOnly(r, p) == catalog = row[p].version

\* What the stored fingerprint commits to, compared by approve_and_execute.
Unchanged(r, p) ==
    /\ catalog = row[p].version
    /\ policy[req[r].worker] = row[p].policy

\* catalog.current, the policy and the fingerprint are checked again.
\* Anything that differs, or a rule the statement breaks under the catalog
\* definition this worker now reads, condemns the proposal.
Revalidate(r) ==
    /\ req[r].phase = "locked"
    /\ \/ Unchanged(r, req[r].proposal) /\ Enter(r, "validated")
       \/ Enter(r, "failing")
    /\ UNCHANGED <<row, store, policy, catalog, runs>>

\* Mutant: a refused plan is answered as an empty result.
ExplainRejectsAsEmpty(r) ==
    /\ req[r].phase = "validated"
    /\ Enter(r, "answered")
    /\ UNCHANGED <<row, store, policy, catalog, runs>>

\* EXPLAIN refuses the plan, or fails, before the statement is sent.
ExplainRejects(r) ==
    /\ req[r].phase = "validated"
    /\ Enter(r, "failing")
    /\ UNCHANGED <<row, store, policy, catalog, runs>>

\* The statement is sent; it returns rows or fails.
Execute(r) ==
    /\ req[r].phase = "validated"
    /\ runs' = [runs EXCEPT ![req[r].proposal] = @ + 1]
    /\ \E phase \in {"ran", "failing"} : Enter(r, phase)
    /\ UNCHANGED <<row, store, policy, catalog>>

\* Masking and the answer LLM; an exception there fails the proposal.
PostExecute(r) ==
    /\ req[r].phase = "ran"
    /\ \E phase \in {"answered", "failing"} : Enter(r, phase)
    /\ UNCHANGED <<row, store, policy, catalog, runs>>

\* UPDATE ... WHERE id = ...: whatever the status has become meanwhile.
MarkExecuted(r) ==
    /\ req[r].phase = "answered"
    /\ SetStatus(req[r].proposal, "executed")
    /\ Finish(r)
    /\ UNCHANGED <<store, policy, catalog, runs>>

MarkFailed(r) ==
    /\ req[r].phase = "failing"
    /\ SetStatus(req[r].proposal, "failed")
    /\ Finish(r)
    /\ UNCHANGED <<store, policy, catalog, runs>>

\* The catalog read, or the transaction that would write the outcome, raises
\* outside every handler: the request ends and the row stays executing.
LoseOutcome(r) ==
    /\ req[r].phase \in {"locked", "answered", "failing"}
    /\ Finish(r)
    /\ UNCHANGED <<row, store, policy, catalog, runs>>

\* Mutant: the UPDATE loses its status condition.
RejectAnyStatus(u, p) ==
    /\ row[p].status # "absent"
    /\ row[p].owner = u
    /\ SetStatus(p, "rejected")
    /\ UNCHANGED <<req, store, policy, catalog, runs>>

Reject(u, p) ==
    /\ row[p].status = "proposed"
    /\ row[p].owner = u
    /\ SetStatus(p, "rejected")
    /\ UNCHANGED <<req, store, policy, catalog, runs>>

----------------------------------------------------------------------------
(* The background reclaimer and the environment.                           *)

\* Mutant: the reclaimer looks for "approved", a status nothing writes.
StaleApproved(p) == row[p].status = "approved" /\ row[p].lease > StaleAfter

Stale(p) == row[p].status = "executing" /\ row[p].lease > StaleAfter

\* Mutant: an abandoned proposal is put back in the queue.
ReclaimRequeues ==
    /\ \E p \in Proposals : Stale(p)
    /\ row' = [p \in Proposals |->
                 IF Stale(p) THEN [row[p] EXCEPT !.status = "proposed"] ELSE row[p]]
    /\ UNCHANGED <<req, store, policy, catalog, runs>>

\* One UPDATE fails every executing row whose lease is too old.
Reclaim ==
    /\ \E p \in Proposals : Stale(p)
    /\ row' = [p \in Proposals |->
                 IF Stale(p) THEN [row[p] EXCEPT !.status = "failed"] ELSE row[p]]
    /\ UNCHANGED <<req, store, policy, catalog, runs>>

\* A worker dies with every request it serves and is deployed again, maybe
\* with another policy version; its new process reads the configuration anew.
Crash(w) ==
    /\ req' = [r \in Requests |->
                 IF req[r].phase # "idle" /\ req[r].worker = w THEN Idle ELSE req[r]]
    /\ \E v \in Policies : policy' = [policy EXCEPT ![w] = v]
    /\ \E c \in Configs : store' = [store EXCEPT ![w] = c]
    /\ UNCHANGED <<row, catalog, runs>>

\* An admin's change reaches this worker's RagRuntimeConfigStore.
ReplaceConfig(w) ==
    /\ \E c \in Configs : store' = [store EXCEPT ![w] = c]
    /\ UNCHANGED <<row, req, policy, catalog, runs>>

RefreshCatalog ==
    /\ catalog < MaxCatalog
    /\ catalog' = catalog + 1
    /\ UNCHANGED <<row, req, store, policy, runs>>

\* With StatementsBounded, everything a lease holder asks of the databases ends
\* (statement_timeout) before the lease does; the answer LLM has no such bound.
InStatement(p) == \E r \in Requests : Holds(r, p) /\ req[r].phase # "ran"

Aged(p) ==
    CASE row[p].status = "proposed" /\ row[p].ttl > 0 ->
            [row[p] EXCEPT !.ttl = @ - 1]
      [] row[p].status = "executing" /\ row[p].lease <= StaleAfter ->
            [row[p] EXCEPT !.lease = @ + 1]
      [] OTHER -> row[p]

Tick ==
    /\ StatementsBounded =>
         \A p \in Proposals : InStatement(p) => row[p].lease < StaleAfter
    /\ row' = [p \in Proposals |-> Aged(p)]
    /\ UNCHANGED <<req, store, policy, catalog, runs>>

----------------------------------------------------------------------------
RequestStep(r) ==
    \/ \E w \in Workers, u \in Users : StartPropose(r, w, u)
    \/ RetryDraft(r)
    \/ GiveUpDraft(r)
    \/ \E p \in Proposals : SubmitDraft(r, p)
    \/ \E w \in Workers, u \in Users, p \in Proposals : StartApprove(r, w, u, p)
    \/ LockRefused(r)
    \/ LockExpired(r)
    \/ LockGranted(r)
    \/ Revalidate(r)
    \/ ExplainRejects(r)
    \/ Execute(r)
    \/ PostExecute(r)
    \/ MarkExecuted(r)
    \/ MarkFailed(r)
    \/ LoseOutcome(r)

Next ==
    \/ \E r \in Requests : RequestStep(r)
    \/ \E u \in Users, p \in Proposals : Reject(u, p)
    \/ Reclaim
    \/ \E w \in Workers : Crash(w) \/ ReplaceConfig(w)
    \/ RefreshCatalog
    \/ Tick

Spec == Init /\ [][Next]_vars

\* Some worker's reclaimer keeps running (its loop survives a failing poll and
\* starts again with the worker) and time passes.  Requests are owed nothing:
\* each may hang or die at any point.
FairSpec == Spec /\ WF_vars(Reclaim) /\ WF_vars(Tick)
----------------------------------------------------------------------------
(* What the workflow promises.                                             *)

\* Rows, requests, configurations and counters keep their shapes.
TypeOK ==
    /\ row \in [Proposals -> Row \union {NoRow}]
    /\ req \in [Requests -> {Idle} \union Drafting \union Approving]
    /\ store \in [Workers -> Configs]
    /\ policy \in [Workers -> Policies]
    /\ catalog \in 1..MaxCatalog
    /\ runs \in [Proposals -> Nat]

\* Why the promises below hold: a lease is held by one request, of the owner,
\* over a row that is executing or was failed under it; and the run counter
\* agrees with the row's status and with how far the holder has come.
SoleHolder ==
    \A r, s \in Requests, p \in Proposals : Holds(r, p) /\ Holds(s, p) => r = s

HolderMatchesRow ==
    \A r \in Requests, p \in Proposals : Holds(r, p) =>
        /\ row[p].status \in {"executing", "failed"}
        /\ row[p].owner = req[r].user
        /\ req[r].phase \in {"locked", "validated"} => runs[p] = 0
        /\ req[r].phase \in {"ran", "answered"} => runs[p] = 1

CounterMatchesRow ==
    \A p \in Proposals :
        /\ runs[p] <= 1
        /\ row[p].status \in {"absent", "proposed", "rejected", "expired"} => runs[p] = 0
        /\ row[p].status = "executed" => runs[p] = 1

LeaseDiscipline == SoleHolder /\ HolderMatchesRow /\ CounterMatchesRow

\* However many approvals race, crash, retry or are reclaimed, the stored
\* statement reaches the analytics database at most once: lock_for_execution
\* hands a proposal out once and nothing ever makes it pending again.
AtMostOneRun == \A p \in Proposals : runs[p] <= 1

\* The execution lease has one holder, although the row lock is released at
\* the commit that grants it, and the holder is the proposal's owner.
SoleOwnerHolds ==
    \A p \in Proposals : \A r, s \in Requests :
        Holds(r, p) /\ Holds(s, p) => r = s /\ req[r].user = row[p].owner

\* A proposal its owner rejected, or that expired first, was not run and no
\* request is left that could still run it.
ClosedIsInert ==
    \A p \in Proposals :
        row[p].status \in {"rejected", "expired"} =>
            runs[p] = 0 /\ \A r \in Requests : ~Holds(r, p)

\* "executed" is only ever reported of a statement that did run, by a request
\* that has let go of it.
ExecutedIsTrue ==
    \A p \in Proposals :
        row[p].status = "executed" =>
            runs[p] = 1 /\ \A r \in Requests : ~Holds(r, p)

\* A statement only runs on behalf of a request that took the lease, on a
\* worker whose policy version is the one the owner approved, even when
\* workers are redeployed between proposal and approval.
RunsWhatWasApproved ==
    [][\A p \in Proposals : runs'[p] # runs[p] =>
         \E r \in Requests : /\ Holds(r, p)
                             /\ policy[req[r].worker] = row[p].policy]_vars

\* The lease is granted to a request that asked before the proposal lapsed,
\* and a claimed, closed or finished proposal is never pending again.
ClaimedInTime ==
    [][\A p \in Proposals :
         /\ row[p].status = "proposed" /\ row'[p].status = "executing" =>
              \E r \in Requests : /\ req[r].phase = "gated"
                                  /\ req[r].proposal = p
                                  /\ req[r].user = row[p].owner
                                  /\ ~req[r].late
         /\ row[p].status \notin {"absent", "proposed"} =>
              row'[p].status \notin {"absent", "proposed"}]_vars

\* A row its worker abandoned in "executing" (crash, lost outcome) does not
\* stay there: the reclaimer ends it whether or not the request survives.
ExecutingEnds ==
    \A p \in Proposals :
        row[p].status = "executing" ~> row[p].status \in Terminal

\* The reclaimer's comment: it "only ever catches a genuinely abandoned
\* EXECUTING row (a crashed worker)", so no live request holds what it fails.
ReclaimsOnlyAbandoned ==
    [][\A p \in Proposals :
         Stale(p) /\ row'[p].status = "failed" =>
             \A r \in Requests : Holds(r, p) => req'[r] = Idle]_vars

\* The kill-switch comment in approve_and_execute: disabling SQL makes "every
\* not-yet-approved proposal unexecutable immediately".
DisabledIsImmediate ==
    [][\A p \in Proposals, r \in Requests :
         ~Holds(r, p) /\ Holds(r, p)' => ApproveOpen(store[req[r].worker])]_vars

\* The safety-lockdown route: it closes SQL, "propose and execute both
\* denied".  Compared with the configuration the request itself started from.
LockdownDeniesExecute ==
    [][\A r \in Requests :
         req[r].phase = "idle" /\ req'[r].phase = "gated" =>
             ~store[req'[r].worker].safety_lockdown_enabled]_vars
----------------------------------------------------------------------------
(* Refinement: what an owner sees of the workflow is ProposalConsent.      *)

ConsentOf(p) ==
    CASE row[p].status = "absent" -> "absent"
      [] row[p].status = "proposed" -> "pending"
      [] row[p].status \in {"rejected", "expired"} -> "withdrawn"
      [] OTHER -> IF runs[p] > 0 THEN "ran" ELSE "claimed"

VerdictOf(p) == IF row[p].status \in Terminal THEN row[p].status ELSE "open"

Contract == INSTANCE ProposalConsent
    WITH consent <- [p \in Proposals |-> ConsentOf(p)],
         verdict <- [p \in Proposals |-> VerdictOf(p)]

\* Every behaviour of the workflow is one the consent contract allows: a
\* statement runs once, after a claim, and "executed" is never taken back.
HonoursConsent == Contract!ConsentSpec
=============================================================================
