--------------------------- MODULE SelfReflection ---------------------------
(***************************************************************************)
(* One run of the self-reflection engine: critique the drafted answer,     *)
(* perhaps retrieve more evidence, revise, and critique again, within      *)
(* budgets of revisions, retrievals, tokens and time, inside the           *)
(* availability boundary that returns the draft when anything raises.      *)
(*                                                                         *)
(* An answer is known by its kind, the revision it is and what it cites;   *)
(* evidence is a set of chunks.  A critique keeps what the decision policy *)
(* compares with its thresholds.  The clock is `late': Expire may come     *)
(* between any two steps, so every call may overrun its timeout.           *)
(***************************************************************************)
EXTENDS Naturals, FiniteSets

CONSTANTS
    Chunks,                 \* what can be evidence
    Local,                  \* what the augmenter can retrieve: policy chunks
    MaxIterations,          \* revisions, reflection_max_iterations
    MaxRetrievals,          \* reflection_max_additional_retrievals
    MaxTokens,              \* the token budget
    MaxCost,                \* bound: tokens one call can use
    MaxEvidence,            \* reflection_max_evidence_chunks
    PolicyMayIgnoreBudget   \* also decision policies that ignore the budget

ASSUME ReflectionAssumption ==
    /\ MaxIterations \in Nat /\ MaxRetrievals \in Nat
    /\ MaxTokens \in Nat /\ MaxCost \in Nat
    /\ MaxEvidence \in Nat \ {0} /\ IsFiniteSet(Chunks)
    /\ Local \subseteq Chunks
    /\ PolicyMayIgnoreBudget \in BOOLEAN

VARIABLES
    phase,      \* where reflect() is
    late,       \* the deadline has passed
    given,      \* the arguments: the draft, its evidence, allow_retrieval
    state,      \* ReflectionState
    action,     \* the decision of the policy
    judged,     \* history: what the last critique was about, did it pass
    result      \* SelfReflectionOutcome

reflectionVars == <<phase, late, given, state, action, judged, result>>

-----------------------------------------------------------------------------
Answers == [kind : {"draft", "revision", "abstention"},
            version : 0 .. MaxIterations, cites : SUBSET Chunks]

\* find_fabricated_citations: a citation of what was not supplied; without
\* evidence it finds nothing.
Fabricated(cites, evidence) == evidence # {} /\ ~(cites \subseteq evidence)

Abstention == [kind |-> "abstention", version |-> 0, cites |-> {}]

\* What the critic reports, as far as the policy looks at it: `clean' is no
\* unsupported claim (by the critic or the claim checker), no missing aspect,
\* and answer relevance, citation completeness and utility above their minima.
Critiques == [support : {"full", "partial", "none"},
              relevant : BOOLEAN, needed : BOOLEAN, clean : BOOLEAN]

Outcome(answer, evidence, accepted, fallback, abstain) ==
    [answer |-> answer, evidence |-> evidence, accepted |-> accepted,
     fallback |-> fallback, abstain |-> abstain]

Fresh(answer, evidence) ==
    [answer |-> answer, evidence |-> evidence,
     iteration |-> 0, retrievals |-> 0, tokens |-> 0]

Init ==
    /\ phase = "idle" /\ late = FALSE /\ action = "none"
    /\ given = [answer |-> Abstention, evidence |-> {}, allow |-> FALSE]
    /\ state = Fresh(Abstention, {})
    /\ judged = [answer |-> Abstention, evidence |-> {}, passed |-> FALSE]
    /\ result = Outcome(Abstention, {}, FALSE, FALSE, FALSE)

-----------------------------------------------------------------------------
(* The decision policy.                                                     *)

EffectiveRetrievals == IF given.allow THEN MaxRetrievals ELSE 0

QualityPass(c) == c.support = "full" /\ c.relevant /\ c.clean

EvidenceInsufficient(c) == c.needed \/ ~c.relevant \/ c.support = "none"

EvidenceUsable(c) == c.relevant /\ c.support # "none"

Decide(c, mayRetrieve, mayRevise) ==
    CASE QualityPass(c) -> "accept"
      [] ~QualityPass(c) /\ EvidenceInsufficient(c) /\ mayRetrieve /\ mayRevise
            -> "retrieve_more"
      [] ~QualityPass(c) /\ ~(EvidenceInsufficient(c) /\ mayRetrieve /\ mayRevise)
            /\ EvidenceUsable(c) /\ mayRevise -> "revise"
      [] OTHER -> "abstain"

\* What a policy may answer: the threshold policy looks at the budget it is
\* given; the engine guards itself against one that does not.
Decisions(c) ==
    {Decide(c, state.retrievals < EffectiveRetrievals,
               state.iteration < MaxIterations)}
    \cup (IF PolicyMayIgnoreBudget THEN {Decide(c, TRUE, TRUE)} ELSE {})

\* _dedupe_evidence: the current evidence first, cut at MaxEvidence.
Merged(current, additional) ==
    {e \in SUBSET (current \cup additional) :
        /\ Cardinality(e) <= MaxEvidence
        /\ e # current \cup additional => Cardinality(e) = MaxEvidence
        /\ current \subseteq e \/ e \subseteq current}

-----------------------------------------------------------------------------
Return(outcome) ==
    /\ phase' = "returned"
    /\ result' = outcome

Abstain(evidence) == Return(Outcome(Abstention, evidence, FALSE, FALSE, TRUE))

Start(answer, evidence, allow) ==
    /\ phase = "idle"
    /\ phase' = "top"
    /\ given' = [answer |-> answer, evidence |-> evidence, allow |-> allow]
    /\ state' = Fresh(answer, evidence)
    /\ UNCHANGED <<late, action, judged, result>>

Expire ==
    /\ phase \notin {"idle", "returned"}
    /\ ~late
    /\ late' = TRUE
    /\ UNCHANGED <<phase, given, state, action, judged, result>>

\* The top of the loop: out of budget, or one more critique.
BudgetSpent ==
    /\ phase = "top"
    /\ late \/ state.tokens > MaxTokens
    /\ Abstain(state.evidence)
    /\ UNCHANGED <<late, given, state, action, judged>>

AskCritic ==
    /\ phase = "top"
    /\ ~late
    /\ state.tokens <= MaxTokens
    /\ phase' = "critic"
    /\ UNCHANGED <<late, given, state, action, judged, result>>

\* Mutant: the token budget is only looked at at the top of the loop.
CritiqueUnchecked(c, cost, decision) ==
    /\ phase = "critic"
    /\ state' = [state EXCEPT !.tokens = state.tokens + cost]
    /\ judged' = [answer |-> state.answer, evidence |-> state.evidence,
                  passed |-> QualityPass(c)]
    /\ phase' = "judged"
    /\ action' = decision
    /\ UNCHANGED <<late, given, result>>

\* The critique returns: its tokens are charged, then the deadline and the
\* token budget are looked at again, then the policy decides.
Critique(c, cost, decision) ==
    LET spent == state.tokens + cost IN
    /\ phase = "critic"
    /\ state' = [state EXCEPT !.tokens = spent]
    /\ judged' = [answer |-> state.answer, evidence |-> state.evidence,
                  passed |-> QualityPass(c)]
    /\ IF late \/ spent > MaxTokens
       THEN /\ Abstain(state.evidence)
            /\ UNCHANGED action
       ELSE /\ phase' = "judged"
            /\ action' = decision
            /\ UNCHANGED result
    /\ UNCHANGED <<late, given>>

\* Mutant: the deadline is not looked at again.
AcceptLate ==
    /\ phase = "judged"
    /\ action = "accept"
    /\ Return(Outcome(state.answer, state.evidence, TRUE, FALSE, FALSE))
    /\ UNCHANGED <<late, given, state, action, judged>>

Accept ==
    /\ phase = "judged"
    /\ action = "accept"
    /\ ~late
    /\ Return(Outcome(state.answer, state.evidence, TRUE, FALSE, FALSE))
    /\ UNCHANGED <<late, given, state, action, judged>>

\* Mutant: no backstop.
DegradedNever == action

\* The backstop for a policy that ignored its budget of retrievals.
Degraded ==
    IF action = "retrieve_more" /\ state.retrievals >= EffectiveRetrievals
    THEN "revise"
    ELSE action

\* Every way out of a judged round that abstains.
Decline ==
    /\ phase = "judged"
    /\ \/ action = "abstain"
       \/ late
       \/ action # "accept" /\ state.iteration >= MaxIterations
       \/ Degraded = "revise" /\ state.tokens >= MaxTokens
    /\ Abstain(state.evidence)
    /\ UNCHANGED <<late, given, state, action, judged>>

AskAugmenter ==
    /\ phase = "judged"
    /\ Degraded = "retrieve_more"
    /\ ~late
    /\ state.iteration < MaxIterations
    /\ phase' = "retrieving"
    /\ UNCHANGED <<late, given, state, action, judged, result>>

\* The retrieval returns and its evidence is merged, whatever happens next.
Retrieved(evidence) ==
    /\ phase = "retrieving"
    /\ state' = [state EXCEPT !.evidence = evidence,
                              !.retrievals = state.retrievals + 1]
    /\ IF late \/ state.tokens >= MaxTokens
       THEN Abstain(evidence)
       ELSE phase' = "revising" /\ UNCHANGED result
    /\ UNCHANGED <<late, given, action, judged>>

AskReviser ==
    /\ phase = "judged"
    /\ Degraded = "revise"
    /\ ~late
    /\ state.iteration < MaxIterations
    /\ state.tokens < MaxTokens
    /\ phase' = "revising"
    /\ UNCHANGED <<late, given, state, action, judged, result>>

\* Mutant: a revision does not count as an iteration.
RevisedUncounted(cites, cost) ==
    /\ phase = "revising"
    /\ ~Fabricated(cites, state.evidence)
    /\ phase' = "top"
    /\ state' = [state EXCEPT
           !.answer = [kind |-> "revision", version |-> 1, cites |-> cites],
           !.tokens = state.tokens + cost]
    /\ UNCHANGED <<late, given, action, judged, result>>

\* The revision returns; one that cites what it was not given raises, and is
\* in Fails.  A revision that comes too late is dropped.
Revised(cites, cost) ==
    /\ phase = "revising"
    /\ ~Fabricated(cites, state.evidence)
    /\ IF late
       THEN Abstain(state.evidence) /\ UNCHANGED state
       ELSE /\ phase' = "top"
            /\ state' = [state EXCEPT
                   !.answer = [kind |-> "revision",
                               version |-> state.iteration + 1, cites |-> cites],
                   !.iteration = state.iteration + 1,
                   !.tokens = state.tokens + cost]
            /\ UNCHANGED result
    /\ UNCHANGED <<late, given, action, judged>>

\* Mutant: the fail-safe returns what the engine had reached.
FailsHalfway ==
    /\ phase \in {"critic", "retrieving", "revising"}
    /\ Return(Outcome(state.answer, state.evidence, FALSE, TRUE, FALSE))
    /\ UNCHANGED <<late, given, state, action, judged>>

\* Anything raised (a call that fails, a schema that does not validate, a
\* query that is refused, a fabricated citation) ends in the fail-safe, which
\* returns what the engine was given.
Fails ==
    /\ phase \in {"critic", "retrieving", "revising"}
    /\ Return(Outcome(given.answer, given.evidence, FALSE, TRUE, FALSE))
    /\ UNCHANGED <<late, given, state, action, judged>>

-----------------------------------------------------------------------------
Round ==
    \/ BudgetSpent \/ AskCritic \/ Accept \/ Decline
    \/ AskAugmenter \/ AskReviser \/ Fails
    \/ \E c \in Critiques, cost \in 0 .. MaxCost :
          \E decision \in Decisions(c) : Critique(c, cost, decision)
    \/ \E more \in SUBSET Local :
          \E evidence \in Merged(state.evidence, more) : Retrieved(evidence)
    \/ \E cites \in SUBSET Chunks, cost \in 0 .. MaxCost : Revised(cites, cost)

\* RAGService.answer replaces a draft with a fabricated citation before it
\* gets here.
Begin ==
    \E evidence, cites \in SUBSET Chunks, allow \in BOOLEAN :
        /\ ~Fabricated(cites, evidence)
        /\ Start([kind |-> "draft", version |-> 0, cites |-> cites],
                 evidence, allow)

Next == Begin \/ Round \/ Expire

Spec == Init /\ [][Next]_reflectionVars

\* Every call the engine makes has a timeout of its own, so it returns or
\* raises; nothing is assumed about the deadline.
FairSpec == Spec /\ WF_reflectionVars(Round)

-----------------------------------------------------------------------------
TypeOK ==
    /\ phase \in {"idle", "top", "critic", "judged", "retrieving", "revising",
                  "returned"}
    /\ late \in BOOLEAN
    /\ given \in [answer : Answers, evidence : SUBSET Chunks, allow : BOOLEAN]
    /\ state \in [answer : Answers, evidence : SUBSET Chunks, iteration : Nat,
                  retrievals : Nat, tokens : Nat]
    /\ action \in {"none", "accept", "retrieve_more", "revise", "abstain"}
    /\ judged \in [answer : Answers, evidence : SUBSET Chunks, passed : BOOLEAN]
    /\ result \in [answer : Answers, evidence : SUBSET Chunks,
                   accepted : BOOLEAN, fallback : BOOLEAN, abstain : BOOLEAN]

\* What reflect() returns as accepted is exactly the pair of answer and
\* evidence the last critique passed, the answer cites only that evidence (if
\* there is any), and the tokens are within the budget: no revision, retrieval
\* or late answer comes between the judgement and the return.
AcceptedAsJudged ==
    phase = "returned" /\ result.accepted =>
        /\ judged.passed
        /\ result.answer = judged.answer
        /\ result.evidence = judged.evidence
        /\ ~Fabricated(result.answer.cites, result.evidence)
        /\ state.tokens <= MaxTokens

\* "never a partially-revised one": an answer that was not accepted is either
\* the fixed abstention or, after a failure, the draft and the evidence the
\* engine was given, however many rounds had already changed them.
NeverHalfRevised ==
    phase = "returned" /\ ~result.accepted =>
        IF result.fallback
        THEN /\ ~result.abstain
             /\ result.answer = given.answer
             /\ result.evidence = given.evidence
        ELSE result.abstain /\ result.answer = Abstention

\* The budgets hold even against a decision policy that ignores them, the
\* retrieval gate counts as a budget of zero, and the tokens exceed their
\* budget by at most one call.
WithinBudget ==
    /\ state.iteration <= MaxIterations
    /\ state.retrievals <= EffectiveRetrievals
    /\ state.tokens <= MaxTokens + MaxCost
    /\ state.retrievals > 0 => Cardinality(state.evidence) <= MaxEvidence

\* No call to a model or to retrieval begins after the deadline, and nothing
\* is accepted after it.
NothingAfterDeadline ==
    [][late => /\ phase' \in {"critic", "retrieving", "revising"} => phase' = phase
               /\ result'.accepted => result.accepted]_reflectionVars

\* Whatever the critic and the policy say, reflect() returns.
Terminates == (phase = "top") ~> (phase = "returned")

=============================================================================
