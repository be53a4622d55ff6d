--------------------------- MODULE ProposalConsent ---------------------------
(***************************************************************************)
(* What a text-to-SQL proposal promises the person who approves it,        *)
(* without workers, leases, clocks or requests: a stored statement is run  *)
(* at most once, only after its owner claimed it, never after it was       *)
(* withdrawn; and "executed" is the last word on a proposal, only said of  *)
(* a statement that ran.  A failure may still turn into "executed" (a      *)
(* reclaimed lease whose holder finishes after all), never the reverse.    *)
(***************************************************************************)
CONSTANT Proposals

VARIABLES consent, verdict

Consent == {"absent", "pending", "claimed", "ran", "withdrawn"}
Verdict == {"open", "executed", "failed", "rejected", "expired"}

ConsentInit ==
    /\ consent = [p \in Proposals |-> "absent"]
    /\ verdict = [p \in Proposals |-> "open"]

Move(p, from, to) ==
    /\ consent[p] = from
    /\ consent' = [consent EXCEPT ![p] = to]

Offer(p) == Move(p, "absent", "pending") /\ UNCHANGED verdict

Claim(p) == Move(p, "pending", "claimed") /\ UNCHANGED verdict

Withdraw(p) ==
    /\ Move(p, "pending", "withdrawn")
    /\ \E v \in {"rejected", "expired"} : verdict' = [verdict EXCEPT ![p] = v]

Run(p) == Move(p, "claimed", "ran") /\ UNCHANGED verdict

Succeed(p) ==
    /\ consent[p] = "ran"
    /\ verdict[p] \in {"open", "failed"}
    /\ verdict' = [verdict EXCEPT ![p] = "executed"]
    /\ UNCHANGED consent

\* One reclaim may fail several proposals at once.
Fail(S) ==
    /\ \A p \in S : consent[p] \in {"claimed", "ran"} /\ verdict[p] \in {"open", "failed"}
    /\ verdict' = [p \in Proposals |-> IF p \in S THEN "failed" ELSE verdict[p]]
    /\ UNCHANGED consent

ConsentNext ==
    \/ \E p \in Proposals : Offer(p) \/ Claim(p) \/ Withdraw(p) \/ Run(p) \/ Succeed(p)
    \/ \E S \in SUBSET Proposals : Fail(S)

ConsentSpec == ConsentInit /\ [][ConsentNext]_<<consent, verdict>>
=============================================================================
