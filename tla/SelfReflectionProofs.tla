------------------------ MODULE SelfReflectionProofs ------------------------
(***************************************************************************)
(* What a reflection returns, for any chunks, budgets and decision policy. *)
(*                                                                         *)
(* AcceptedAsJudged and WithinBudget are not inductive: the first needs to *)
(* know that an answer waiting to be accepted is still the one that was    *)
(* judged, the second what each phase has already compared with a budget.  *)
(* `Rounds' is the strengthening, one conjunct per phase of the loop.      *)
(***************************************************************************)
EXTENDS SelfReflection, TLAPS

\* What holds when a round starts: the answer cites what it was given.
Supplied == ~Fabricated(state.answer.cites, state.evidence)

\* The strengthening: what reflect() knows in each phase of its loop.
Rounds ==
    /\ phase \in {"top", "critic", "judged"} => Supplied
    /\ phase = "critic" => state.tokens <= MaxTokens
    /\ phase = "judged" =>
          /\ judged.answer = state.answer
          /\ judged.evidence = state.evidence
          /\ state.tokens <= MaxTokens
          /\ action = "accept" => judged.passed
    /\ phase = "retrieving" => state.retrievals < EffectiveRetrievals
    /\ phase \in {"retrieving", "revising"} => state.iteration < MaxIterations
    /\ phase = "revising" => state.tokens < MaxTokens
    /\ phase = "idle" => state.retrievals = 0

IInv == TypeOK /\ Rounds /\ AcceptedAsJudged /\ NeverHalfRevised /\ WithinBudget

-----------------------------------------------------------------------------
\* Whatever the budget the policy is told, it decides one of four actions and
\* accepts only what passed every threshold.
LEMMA DecisionsSound ==
    ASSUME NEW c \in Critiques, NEW decision \in Decisions(c)
    PROVE  /\ decision \in {"accept", "retrieve_more", "revise", "abstain"}
           /\ decision = "accept" => QualityPass(c)
  <1>1. ASSUME NEW more, NEW again
        PROVE  /\ Decide(c, more, again)
                    \in {"accept", "retrieve_more", "revise", "abstain"}
               /\ Decide(c, more, again) = "accept" => QualityPass(c)
    BY DEF Decide
  <1>2. QED
    BY <1>1 DEF Decisions

\* Merging evidence invents nothing and respects the limit.
LEMMA MergedSound ==
    ASSUME NEW current \in SUBSET Chunks, NEW more \in SUBSET Local,
           NEW evidence \in Merged(current, more)
    PROVE  evidence \in SUBSET Chunks /\ Cardinality(evidence) <= MaxEvidence
  BY ReflectionAssumption DEF Merged

\* The fixed abstention is an answer.
LEMMA AbstentionIsAnswer == Abstention \in Answers
  BY ReflectionAssumption DEF Abstention, Answers

\* The initial state satisfies the inductive invariant.
LEMMA InitInv == Init => IInv
  <1> SUFFICES ASSUME Init PROVE IInv
    OBVIOUS
  <1>1. TypeOK
    BY AbstentionIsAnswer DEF Init, TypeOK, Fresh, Outcome
  <1>2. Rounds
    BY DEF Init, Rounds, Fresh
  <1>3. AcceptedAsJudged /\ NeverHalfRevised
    BY DEF Init, AcceptedAsJudged, NeverHalfRevised
  <1>4. WithinBudget
    BY ReflectionAssumption DEF Init, WithinBudget, Fresh, EffectiveRetrievals
  <1>5. QED
    BY <1>1, <1>2, <1>3, <1>4 DEF IInv

\* Giving up, at any point, keeps the invariant: what is returned is the fixed
\* abstention.
LEMMA AbstainInv ==
    ASSUME IInv, NEW evidence \in SUBSET Chunks, Abstain(evidence),
           UNCHANGED <<late, given, state, action, judged>>
    PROVE  IInv'
  <1> USE DEF IInv, Abstain, Return, Outcome
  <1>1. TypeOK'
    BY AbstentionIsAnswer DEF TypeOK
  <1>2. Rounds'
    BY DEF Rounds
  <1>3. (AcceptedAsJudged /\ NeverHalfRevised)'
    BY DEF AcceptedAsJudged, NeverHalfRevised
  <1>4. WithinBudget'
    BY DEF WithinBudget, EffectiveRetrievals
  <1>5. QED
    BY <1>1, <1>2, <1>3, <1>4

-----------------------------------------------------------------------------
(* One lemma per action of the loop that does not only give up.             *)

\* reflect() is called with a draft that cites what was supplied.
LEMMA StartInv ==
    ASSUME IInv, NEW evidence \in SUBSET Chunks, NEW answer \in Answers,
           NEW allow \in BOOLEAN, ~Fabricated(answer.cites, evidence),
           Start(answer, evidence, allow)
    PROVE  IInv'
  <1> USE DEF IInv, Start, Fresh
  <1>1. TypeOK'
    BY DEF TypeOK
  <1>2. Rounds'
    BY ReflectionAssumption DEF Rounds, Supplied, Fabricated, EffectiveRetrievals
  <1>3. (AcceptedAsJudged /\ NeverHalfRevised)'
    BY DEF AcceptedAsJudged, NeverHalfRevised
  <1>4. WithinBudget'
    BY ReflectionAssumption DEF WithinBudget, EffectiveRetrievals
  <1>5. QED
    BY <1>1, <1>2, <1>3, <1>4

\* Asking the critic changes nothing but the phase.
LEMMA AskCriticInv ==
    ASSUME IInv, AskCritic
    PROVE  IInv'
  <1> USE DEF IInv, AskCritic
  <1>1. TypeOK'
    BY DEF TypeOK
  <1>2. Rounds'
    BY DEF Rounds, Supplied
  <1>3. (AcceptedAsJudged /\ NeverHalfRevised)'
    BY DEF AcceptedAsJudged, NeverHalfRevised
  <1>4. WithinBudget'
    BY DEF WithinBudget, EffectiveRetrievals
  <1>5. QED
    BY <1>1, <1>2, <1>3, <1>4

\* A critique charges its tokens before it is looked at.
LEMMA CritiqueInv ==
    ASSUME IInv, NEW c \in Critiques, NEW cost \in 0 .. MaxCost,
           NEW decision \in Decisions(c), Critique(c, cost, decision)
    PROVE  IInv'
  <1> DEFINE spent == state.tokens + cost
  <1>1. /\ phase = "critic"
        /\ state' = [state EXCEPT !.tokens = spent]
        /\ judged' = [answer |-> state.answer, evidence |-> state.evidence,
                      passed |-> QualityPass(c)]
        /\ UNCHANGED <<late, given>>
    BY DEF Critique
  <1>2. cost \in Nat /\ cost <= MaxCost /\ state.tokens \in Nat
        /\ spent \in Nat /\ spent <= MaxTokens + MaxCost
    BY <1>1, ReflectionAssumption DEF IInv, TypeOK, Rounds
  <1>3. QualityPass(c) \in BOOLEAN
    BY DEF QualityPass
  <1>4. state' \in [answer : Answers, evidence : SUBSET Chunks, iteration : Nat,
                    retrievals : Nat, tokens : Nat]
        /\ judged' \in [answer : Answers, evidence : SUBSET Chunks,
                        passed : BOOLEAN]
    BY <1>1, <1>2, <1>3 DEF IInv, TypeOK
  <1>5. WithinBudget'
    BY <1>1, <1>2 DEF IInv, TypeOK, WithinBudget, EffectiveRetrievals
  <1>6. CASE late \/ spent > MaxTokens
    <2>1. Abstain(state.evidence) /\ action' = action
      BY <1>6 DEF Critique
    <2>2. TypeOK'
      BY <2>1, <1>1, <1>4, AbstentionIsAnswer
      DEF IInv, TypeOK, Abstain, Return, Outcome
    <2>3. Rounds' /\ AcceptedAsJudged' /\ NeverHalfRevised'
      BY <2>1 DEF Abstain, Return, Outcome, Rounds, AcceptedAsJudged, NeverHalfRevised
    <2>4. QED
      BY <2>2, <2>3, <1>5 DEF IInv
  <1>7. CASE ~(late \/ spent > MaxTokens)
    <2>1. phase' = "judged" /\ action' = decision /\ result' = result
      BY <1>7 DEF Critique
    <2>2. TypeOK'
      BY <2>1, <1>1, <1>4, DecisionsSound DEF IInv, TypeOK
    <2>3. Rounds'
      <3>1. Supplied'
        BY <1>1 DEF IInv, TypeOK, Rounds, Supplied, Fabricated
      <3>2. spent <= MaxTokens
        BY <1>7, <1>2, ReflectionAssumption
      <3>3. judged'.answer = state'.answer /\ judged'.evidence = state'.evidence
            /\ state'.tokens = spent /\ judged'.passed = QualityPass(c)
        BY <1>1 DEF IInv, TypeOK
      <3>4. QED
        BY <2>1, <3>1, <3>2, <3>3, DecisionsSound DEF Rounds
    <2>4. AcceptedAsJudged' /\ NeverHalfRevised'
      BY <2>1 DEF AcceptedAsJudged, NeverHalfRevised
    <2>5. QED
      BY <2>2, <2>3, <2>4, <1>5 DEF IInv
  <1>8. QED
    BY <1>6, <1>7

\* What is accepted is what was judged.
LEMMA AcceptInv ==
    ASSUME IInv, Accept
    PROVE  IInv'
  <1> USE DEF IInv, Accept, Return, Outcome
  <1>1. TypeOK'
    BY DEF TypeOK
  <1>2. Rounds' /\ NeverHalfRevised'
    BY DEF Rounds, NeverHalfRevised
  <1>3. AcceptedAsJudged'
    BY DEF AcceptedAsJudged, Rounds, Supplied, Fabricated
  <1>4. WithinBudget'
    BY DEF WithinBudget, EffectiveRetrievals
  <1>5. QED
    BY <1>1, <1>2, <1>3, <1>4

\* A retrieval is asked for only while both of its budgets last.
LEMMA AskAugmenterInv ==
    ASSUME IInv, AskAugmenter
    PROVE  IInv'
  <1> USE DEF IInv, AskAugmenter
  <1>1. TypeOK'
    BY DEF TypeOK
  <1>2. state.retrievals < EffectiveRetrievals
    BY ReflectionAssumption DEF TypeOK, Degraded, EffectiveRetrievals
  <1>3. Rounds'
    BY <1>2 DEF Rounds, EffectiveRetrievals
  <1>4. (AcceptedAsJudged /\ NeverHalfRevised)'
    BY DEF AcceptedAsJudged, NeverHalfRevised
  <1>5. WithinBudget'
    BY DEF WithinBudget, EffectiveRetrievals
  <1>6. QED
    BY <1>1, <1>3, <1>4, <1>5

\* What was retrieved is merged and counted, whatever happens next.
LEMMA RetrievedInv ==
    ASSUME IInv, NEW more \in SUBSET Local,
           NEW evidence \in Merged(state.evidence, more), Retrieved(evidence)
    PROVE  IInv'
  <1>1. /\ phase = "retrieving"
        /\ state' = [state EXCEPT !.evidence = evidence,
                                  !.retrievals = state.retrievals + 1]
        /\ UNCHANGED <<late, given, action, judged>>
    BY DEF Retrieved
  <1>2. evidence \in SUBSET Chunks /\ Cardinality(evidence) <= MaxEvidence
    BY MergedSound DEF IInv, TypeOK
  <1>3. /\ state' \in [answer : Answers, evidence : SUBSET Chunks,
                       iteration : Nat, retrievals : Nat, tokens : Nat]
        /\ state'.evidence = evidence
        /\ state'.retrievals = state.retrievals + 1
        /\ state'.iteration = state.iteration /\ state'.tokens = state.tokens
    <2>1. state \in [answer : Answers, evidence : SUBSET Chunks,
                     iteration : Nat, retrievals : Nat, tokens : Nat]
      BY DEF IInv, TypeOK
    <2>2. evidence \in SUBSET Chunks /\ state.retrievals + 1 \in Nat
      BY <1>2, <2>1
    <2>3. state' = [state EXCEPT !.evidence = evidence,
                                !.retrievals = state.retrievals + 1]
      BY <1>1
    <2>4. QED
      BY <2>1, <2>2, <2>3
  <1>4. WithinBudget'
    <2>1. state.retrievals < EffectiveRetrievals /\ state.retrievals \in Nat
          /\ EffectiveRetrievals \in Nat /\ EffectiveRetrievals' = EffectiveRetrievals
      BY <1>1, ReflectionAssumption DEF IInv, TypeOK, Rounds, EffectiveRetrievals
    <2>2. QED
      BY <2>1, <1>2, <1>3 DEF IInv, WithinBudget
  <1>5. CASE late \/ state.tokens >= MaxTokens
    <2>1. Abstain(evidence)
      BY <1>5 DEF Retrieved
    <2>2. TypeOK'
      BY <2>1, <1>1, <1>2, <1>3, AbstentionIsAnswer
      DEF IInv, TypeOK, Abstain, Return, Outcome
    <2>3. Rounds' /\ AcceptedAsJudged' /\ NeverHalfRevised'
      BY <2>1 DEF Abstain, Return, Outcome, Rounds, AcceptedAsJudged, NeverHalfRevised
    <2>4. QED
      BY <2>2, <2>3, <1>4 DEF IInv
  <1>6. CASE ~(late \/ state.tokens >= MaxTokens)
    <2>1. phase' = "revising" /\ result' = result
      BY <1>6 DEF Retrieved
    <2>2. TypeOK'
      BY <2>1, <1>1, <1>3 DEF IInv, TypeOK
    <2>3. Rounds'
      <3>1. state.iteration < MaxIterations
        BY <1>1 DEF IInv, Rounds
      <3>2. state.tokens < MaxTokens
        BY <1>6, ReflectionAssumption DEF IInv, TypeOK
      <3>3. QED
        BY <2>1, <1>3, <3>1, <3>2 DEF Rounds
    <2>4. AcceptedAsJudged' /\ NeverHalfRevised'
      BY <2>1 DEF AcceptedAsJudged, NeverHalfRevised
    <2>5. QED
      BY <2>2, <2>3, <2>4, <1>4 DEF IInv
  <1>7. QED
    BY <1>5, <1>6

\* A revision is asked for only while the revisions and the tokens last.
LEMMA AskReviserInv ==
    ASSUME IInv, AskReviser
    PROVE  IInv'
  <1> USE DEF IInv, AskReviser
  <1>1. TypeOK'
    BY DEF TypeOK
  <1>2. Rounds'
    BY DEF Rounds
  <1>3. (AcceptedAsJudged /\ NeverHalfRevised)'
    BY DEF AcceptedAsJudged, NeverHalfRevised
  <1>4. WithinBudget'
    BY DEF WithinBudget, EffectiveRetrievals
  <1>5. QED
    BY <1>1, <1>2, <1>3, <1>4

\* A revision in time replaces the answer and counts; a late one is dropped.
LEMMA RevisedInv ==
    ASSUME IInv, NEW cites \in SUBSET Chunks, NEW cost \in 0 .. MaxCost,
           Revised(cites, cost)
    PROVE  IInv'
  <1>1. phase = "revising" /\ ~Fabricated(cites, state.evidence)
        /\ UNCHANGED <<late, given, action, judged>>
    BY DEF Revised
  <1>2. CASE late
    <2>1. Abstain(state.evidence) /\ UNCHANGED state
      BY <1>2 DEF Revised
    <2>2. state.evidence \in SUBSET Chunks
      BY DEF IInv, TypeOK
    <2>3. QED
      BY <2>1, <2>2, <1>1, AbstainInv
  <1>3. CASE ~late
    <2> DEFINE answer == [kind |-> "revision", version |-> state.iteration + 1,
                          cites |-> cites]
    <2>1. /\ phase' = "top"
          /\ state' = [state EXCEPT !.answer = answer,
                                    !.iteration = state.iteration + 1,
                                    !.tokens = state.tokens + cost]
          /\ result' = result
      BY <1>3 DEF Revised
    <2>2. /\ state.iteration \in Nat /\ state.iteration + 1 <= MaxIterations
          /\ state.tokens \in Nat /\ state.tokens < MaxTokens
          /\ cost \in Nat /\ cost <= MaxCost
      BY <1>1, ReflectionAssumption DEF IInv, TypeOK, Rounds
    <2>3. answer \in Answers
      BY <2>2, ReflectionAssumption DEF Answers
    <2>4. /\ state' \in [answer : Answers, evidence : SUBSET Chunks,
                         iteration : Nat, retrievals : Nat, tokens : Nat]
          /\ state'.answer = answer /\ state'.evidence = state.evidence
          /\ state'.iteration = state.iteration + 1
          /\ state'.retrievals = state.retrievals
          /\ state'.tokens = state.tokens + cost
      <3> HIDE DEF answer
      <3>1. state \in [answer : Answers, evidence : SUBSET Chunks,
                       iteration : Nat, retrievals : Nat, tokens : Nat]
        BY DEF IInv, TypeOK
      <3>2. state.iteration + 1 \in Nat /\ state.tokens + cost \in Nat
        BY <2>2
      <3>3. QED
        BY <2>1, <2>3, <3>1, <3>2
    <2>5. TypeOK'
      BY <2>1, <2>4, <1>1 DEF IInv, TypeOK
    <2>6. Rounds'
      <3>1. answer.cites = cites
        OBVIOUS
      <3>2. Supplied'
        BY <3>1, <2>4, <1>1 DEF Supplied, Fabricated
      <3>3. QED
        BY <3>2, <2>1 DEF Rounds
    <2>7. AcceptedAsJudged' /\ NeverHalfRevised'
      BY <2>1 DEF AcceptedAsJudged, NeverHalfRevised
    <2>8. WithinBudget'
      <3>1. EffectiveRetrievals' = EffectiveRetrievals
        BY <1>1 DEF EffectiveRetrievals
      <3>2. QED
        BY <3>1, <2>2, <2>4, ReflectionAssumption DEF IInv, WithinBudget
    <2>9. QED
      BY <2>5, <2>6, <2>7, <2>8 DEF IInv
  <1>4. QED
    BY <1>2, <1>3

\* The fail-safe returns what reflect() was given.
LEMMA FailsInv ==
    ASSUME IInv, Fails
    PROVE  IInv'
  <1> USE DEF IInv, Fails, Return, Outcome
  <1>1. TypeOK'
    BY DEF TypeOK
  <1>2. Rounds' /\ AcceptedAsJudged'
    BY DEF Rounds, AcceptedAsJudged
  <1>3. NeverHalfRevised'
    BY DEF NeverHalfRevised
  <1>4. WithinBudget'
    BY DEF WithinBudget, EffectiveRetrievals
  <1>5. QED
    BY <1>1, <1>2, <1>3, <1>4

\* The deadline passing changes nothing the invariant reads.
LEMMA ExpireInv ==
    ASSUME IInv, Expire
    PROVE  IInv'
  <1> USE DEF IInv, Expire
  <1>1. TypeOK'
    BY DEF TypeOK
  <1>2. Rounds'
    BY DEF Rounds, Supplied, EffectiveRetrievals
  <1>3. (AcceptedAsJudged /\ NeverHalfRevised)'
    BY DEF AcceptedAsJudged, NeverHalfRevised
  <1>4. WithinBudget'
    BY DEF WithinBudget, EffectiveRetrievals
  <1>5. QED
    BY <1>1, <1>2, <1>3, <1>4

\* Every step of the engine preserves the inductive invariant.
LEMMA StepInv == IInv /\ [Next]_reflectionVars => IInv'
  <1> SUFFICES ASSUME IInv, [Next]_reflectionVars PROVE IInv'
    OBVIOUS
  <1>1. state.evidence \in SUBSET Chunks
    BY DEF IInv, TypeOK
  <1>2. CASE Begin
    <2>1. PICK evidence \in SUBSET Chunks, cites \in SUBSET Chunks,
               allow \in BOOLEAN :
            /\ ~Fabricated(cites, evidence)
            /\ Start([kind |-> "draft", version |-> 0, cites |-> cites],
                     evidence, allow)
      BY <1>2 DEF Begin
    <2> DEFINE draft == [kind |-> "draft", version |-> 0, cites |-> cites]
    <2>2. draft \in Answers /\ ~Fabricated(draft.cites, evidence)
      BY <2>1, ReflectionAssumption DEF Answers, Fabricated
    <2>3. QED
      BY <2>1, <2>2, StartInv
  <1>3. CASE BudgetSpent
    BY <1>1, <1>3, AbstainInv DEF BudgetSpent
  <1>4. CASE AskCritic
    BY <1>4, AskCriticInv
  <1>5. CASE Accept
    BY <1>5, AcceptInv
  <1>6. CASE Decline
    BY <1>1, <1>6, AbstainInv DEF Decline
  <1>7. CASE AskAugmenter
    BY <1>7, AskAugmenterInv
  <1>8. CASE AskReviser
    BY <1>8, AskReviserInv
  <1>9. CASE Fails
    BY <1>9, FailsInv
  <1>10. CASE \E c \in Critiques, cost \in 0 .. MaxCost :
                \E decision \in Decisions(c) : Critique(c, cost, decision)
    BY <1>10, CritiqueInv
  <1>11. CASE \E more \in SUBSET Local :
                \E evidence \in Merged(state.evidence, more) : Retrieved(evidence)
    BY <1>11, RetrievedInv
  <1>12. CASE \E cites \in SUBSET Chunks, cost \in 0 .. MaxCost :
                Revised(cites, cost)
    BY <1>12, RevisedInv
  <1>13. CASE Expire
    BY <1>13, ExpireInv
  <1>14. CASE UNCHANGED reflectionVars
    BY <1>14 DEF reflectionVars, IInv, TypeOK, Rounds, Supplied,
         AcceptedAsJudged, NeverHalfRevised, WithinBudget, EffectiveRetrievals
  <1>15. QED
    BY <1>2, <1>3, <1>4, <1>5, <1>6, <1>7, <1>8, <1>9, <1>10, <1>11, <1>12,
       <1>13, <1>14 DEF Next, Round

\* The inductive invariant holds of every reachable state.
LEMMA ReflectionInvariance == Spec => []IInv
  BY InitInv, StepInv, PTL DEF Spec

-----------------------------------------------------------------------------
\* The arguments, the state and the outcome keep their shapes, and revisions
\* are numbered within their limit.
THEOREM TypeCorrect == Spec => []TypeOK
  <1>1. IInv => TypeOK
    BY DEF IInv
  <1>2. QED
    BY <1>1, ReflectionInvariance, PTL

\* For any budgets and any policy, an accepted outcome is exactly the answer and
\* the evidence that the last critique passed, within the token budget.
THEOREM AcceptsWhatWasJudged == Spec => []AcceptedAsJudged
  <1>1. IInv => AcceptedAsJudged
    BY DEF IInv
  <1>2. QED
    BY <1>1, ReflectionInvariance, PTL

\* What is not accepted is the fixed abstention or, after a failure at any
\* point, the draft and the evidence reflect() was given.
THEOREM ReturnsNothingHalfRevised == Spec => []NeverHalfRevised
  <1>1. IInv => NeverHalfRevised
    BY DEF IInv
  <1>2. QED
    BY <1>1, ReflectionInvariance, PTL

\* The engine keeps its budgets of revisions, retrievals, tokens and evidence
\* whatever the decision policy answers.
THEOREM BudgetsHold == Spec => []WithinBudget
  <1>1. IInv => WithinBudget
    BY DEF IInv
  <1>2. QED
    BY <1>1, ReflectionInvariance, PTL

\* Once the deadline has passed the engine begins no call and accepts nothing,
\* whichever call was under way.
THEOREM DeadlineHolds == Spec => NothingAfterDeadline
  <1> DEFINE Quiet ==
        late => /\ phase' \in {"critic", "retrieving", "revising"} => phase' = phase
                /\ result'.accepted => result.accepted
  <1>1. ASSUME Next PROVE Quiet
    <2>1. CASE Begin
      BY <2>1 DEF Begin, Start
    <2>2. CASE BudgetSpent \/ Decline \/ Fails
      <3>1. phase' = "returned"
        BY <2>2 DEF BudgetSpent, Decline, Fails, Abstain, Return
      <3>2. ~result'.accepted
        BY <2>2 DEF BudgetSpent, Decline, Fails, Abstain, Return, Outcome
      <3>3. QED
        BY <3>1, <3>2
    <2>3. CASE AskCritic \/ Accept \/ AskAugmenter \/ AskReviser \/ Expire
      BY <2>3 DEF AskCritic, Accept, AskAugmenter, AskReviser, Expire
    <2>4. ASSUME NEW c, NEW cost, NEW decision, Critique(c, cost, decision)
          PROVE  Quiet
      BY <2>4 DEF Critique, Abstain, Return, Outcome
    <2>5. ASSUME NEW evidence, Retrieved(evidence)
          PROVE  Quiet
      BY <2>5 DEF Retrieved, Abstain, Return, Outcome
    <2>6. ASSUME NEW cites, NEW cost, Revised(cites, cost)
          PROVE  Quiet
      BY <2>6 DEF Revised, Abstain, Return, Outcome
    <2>7. QED
      BY <1>1, <2>1, <2>2, <2>3, <2>4, <2>5, <2>6 DEF Next, Round
  <1>2. [Next]_reflectionVars => [Quiet]_reflectionVars
    BY <1>1
  <1>3. QED
    BY <1>2, PTL DEF Spec, NothingAfterDeadline

-----------------------------------------------------------------------------
\* What is left of the loop: five steps to each revision that may still come, and
\* those of the round under way.
RoundSteps == [idle |-> 0, top |-> 5, critic |-> 4, judged |-> 3, retrieving |-> 2,
               revising |-> 1, returned |-> 0]
StepsLeft == 5 * (MaxIterations - state.iteration) + RoundSteps[phase]

\* It is a number: revisions stay within their limit.
LEMMA StepsLeftIsNat == IInv => StepsLeft \in Nat
  <1> SUFFICES ASSUME IInv PROVE StepsLeft \in Nat
    OBVIOUS
  <1>1. RoundSteps[phase] \in Nat
    BY DEF IInv, TypeOK, RoundSteps
  <1>2. state.iteration \in Nat /\ state.iteration <= MaxIterations /\ MaxIterations \in Nat
    BY ReflectionAssumption DEF IInv, TypeOK, WithinBudget
  <1>3. QED
    BY <1>1, <1>2 DEF StepsLeft

\* A way out of the loop leaves nothing of its round.
LEMMA ReturnCounts ==
    ASSUME IInv, phase \notin {"idle", "returned"}, phase' = "returned",
           state'.iteration = state.iteration
    PROVE  StepsLeft' < StepsLeft
  <1>1. RoundSteps[phase] \in Nat \ {0} /\ RoundSteps[phase'] = 0
    BY DEF IInv, TypeOK, RoundSteps
  <1>2. state.iteration \in Nat /\ MaxIterations \in Nat
    BY ReflectionAssumption DEF IInv, TypeOK
  <1>3. QED
    BY <1>1, <1>2 DEF StepsLeft

\* A step to a later phase of the same round.
LEMMA PhaseCounts ==
    ASSUME IInv, NEW from \in DOMAIN RoundSteps, NEW to \in DOMAIN RoundSteps,
           RoundSteps[to] < RoundSteps[from], phase = from, phase' = to,
           state'.iteration = state.iteration
    PROVE  StepsLeft' < StepsLeft
  <1>1. RoundSteps[from] \in Nat /\ RoundSteps[to] \in Nat
    BY DEF RoundSteps
  <1>2. state.iteration \in Nat /\ MaxIterations \in Nat
    BY ReflectionAssumption DEF IInv, TypeOK
  <1>3. QED
    BY <1>1, <1>2 DEF StepsLeft

\* Every step of the loop uses one of them up, whichever way a call returns.
LEMMA RoundCounts == IInv /\ Round => StepsLeft' < StepsLeft
  <1> SUFFICES ASSUME IInv, Round PROVE StepsLeft' < StepsLeft
    OBVIOUS
  <1> USE DEF Abstain, Return
  <1>1. state \in [answer : Answers, evidence : SUBSET Chunks, iteration : Nat,
                   retrievals : Nat, tokens : Nat]
    BY DEF IInv, TypeOK
  <1>2. CASE BudgetSpent \/ Decline \/ Accept \/ Fails
    <2>1. phase \notin {"idle", "returned"} /\ phase' = "returned" /\ state' = state
      BY <1>2 DEF BudgetSpent, Decline, Accept, Fails
    <2>2. QED
      BY <2>1, ReturnCounts
  <1>3. CASE AskCritic
    BY <1>3, PhaseCounts DEF AskCritic, RoundSteps
  <1>4. CASE AskAugmenter
    BY <1>4, PhaseCounts DEF AskAugmenter, RoundSteps
  <1>5. CASE AskReviser
    BY <1>5, PhaseCounts DEF AskReviser, RoundSteps
  <1>6. ASSUME NEW c, NEW cost, NEW decision, Critique(c, cost, decision)
        PROVE  StepsLeft' < StepsLeft
    <2>1. phase = "critic" /\ phase' \in {"judged", "returned"}
      BY <1>6 DEF Critique
    <2>2. state'.iteration = state.iteration
      BY <1>1, <1>6 DEF Critique
    <2>3. QED
      BY <2>1, <2>2, PhaseCounts DEF RoundSteps
  <1>7. ASSUME NEW evidence, Retrieved(evidence)
        PROVE  StepsLeft' < StepsLeft
    <2>1. phase = "retrieving" /\ phase' \in {"revising", "returned"}
      BY <1>7 DEF Retrieved
    <2>2. state'.iteration = state.iteration
      BY <1>1, <1>7 DEF Retrieved
    <2>3. QED
      BY <2>1, <2>2, PhaseCounts DEF RoundSteps
  <1>8. ASSUME NEW cites, NEW cost, Revised(cites, cost)
        PROVE  StepsLeft' < StepsLeft
    <2>1. CASE late
      <3>1. phase = "revising" /\ phase' = "returned" /\ state' = state
        BY <1>8, <2>1 DEF Revised
      <3>2. QED
        BY <3>1, ReturnCounts
    <2>2. CASE ~late
      <3>1. phase = "revising" /\ phase' = "top"
        BY <1>8, <2>2 DEF Revised
      <3>2. state'.iteration = state.iteration + 1
        BY <1>1, <1>8, <2>2 DEF Revised
      <3>3. RoundSteps["revising"] = 1 /\ RoundSteps["top"] = 5
        BY DEF RoundSteps
      <3>4. state.iteration \in Nat /\ MaxIterations \in Nat
        BY <1>1, ReflectionAssumption
      <3>5. QED
        BY <3>1, <3>2, <3>3, <3>4 DEF StepsLeft
    <2>3. QED
      BY <2>1, <2>2
  <1>9. QED
    BY <1>2, <1>3, <1>4, <1>5, <1>6, <1>7, <1>8 DEF Round

\* reflect() cannot go on for ever, whatever the critic and the policy say and although
\* the deadline may never come: what is left is a number, every step of the loop makes it
\* smaller, and the passing of time leaves it alone.
THEOREM RoundsRunOut ==
    Spec => [](StepsLeft \in Nat)
            /\ [][/\ Round => StepsLeft' < StepsLeft
                  /\ Expire => StepsLeft' = StepsLeft]_reflectionVars
  <1> DEFINE Counts == /\ Round => StepsLeft' < StepsLeft
                       /\ Expire => StepsLeft' = StepsLeft
  <1>1. Expire => StepsLeft' = StepsLeft
    BY DEF Expire, StepsLeft
  <1>2. IInv /\ [Next]_reflectionVars => [Counts]_reflectionVars
    BY <1>1, RoundCounts
  <1>3. QED
    BY <1>2, StepsLeftIsNat, ReflectionInvariance, PTL DEF Spec

=============================================================================
