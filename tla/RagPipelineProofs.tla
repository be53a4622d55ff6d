-------------------------- MODULE RagPipelineProofs -------------------------
(***************************************************************************)
(* What RAGService.answer serves and caches, for any chunks, thresholds    *)
(* and budgets, whatever each stage returns and wherever it falls back.    *)
(*                                                                         *)
(* No property of the answer is inductive: each speaks of the response and *)
(* of the state of a stage that ended long before.  The invariant follows  *)
(* the data through the stages: what the corrective retriever knows in     *)
(* each of its phases (Correcting), which of its outcomes is used (Used),  *)
(* what the reflection engine keeps (Engine, which rests on the invariant  *)
(* of SelfReflectionProofs), what it was given (Tied), and what the final  *)
(* outcome and the response inherit (Finals, Responded).                   *)
(***************************************************************************)
EXTENDS RagPipeline, FiniteSetTheorems, TLAPS

P == INSTANCE SelfReflectionProofs

-----------------------------------------------------------------------------
(* The inductive invariant.                                                 *)

Early == {"transform", "retrieve", "rerank"}
Ending == {"respond", "answered"}

\* What correct() knows in each of its phases.
Correcting ==
    /\ stage \in Early \/ plan.crag = "off" => cragPhase = "idle"
    /\ cragCall.chunks \subseteq Local
    /\ cragCall.mayUseWeb => plan.mayUseWeb
    /\ grade.clearing \subseteq Local
    /\ grade.decision \in C!Decisions
    /\ grade.decision = "incorrect" => grade.clearing = {}
    /\ found \subseteq Chunks
    /\ pieces \in [local : Nat, web : Nat]
    /\ found \cap Web # {} => cragCall.mayUseWeb
    /\ cragPhase \in {"idle", "grading", "refining"} => found = {}
    /\ cragPhase \in {"refining", "searching", "verifying"} =>
          grade.decision # "none"
    /\ cragPhase = "searching" => found \subseteq Local
    /\ cragPhase \in {"searching", "verifying"} =>
          /\ cragCall.mayUseWeb
          /\ found \cap Local \subseteq grade.clearing
          /\ pieces.local < MinEvidence

\* What a correction says of its evidence once it is there.
CorrectionSound ==
    /\ correction \in [evidence : SUBSET Chunks, decision : C!Decisions,
                       fallback : BOOLEAN, abstain : BOOLEAN, webUsed : BOOLEAN]
    /\ ~correction.webUsed => correction.evidence \subseteq Local
    /\ correction.webUsed =>
          /\ cragCall.mayUseWeb
          /\ pieces.local < MinEvidence
    /\ ~correction.fallback /\ ~correction.abstain =>
          correction.decision # "none"
    /\ ~correction.fallback /\ ~correction.abstain /\ ~correction.webUsed =>
          /\ correction.evidence = found /\ found \cap Web = {}
          /\ pieces.local >= MinEvidence
    /\ correction.decision = "incorrect" =>
          /\ correction.evidence \cap Local = {}
          /\ correction.webUsed \/ correction.abstain

\* Which outcome is used: none yet, the chunks as they are, or a treatment's
\* correction, in either case behind the context guard.
Used ==
    /\ stage \in Early \cup {"correct"} => crag = C!NoOp({})
    /\ stage \in {"draft", "reflect"} \cup Ending /\ plan.crag # "treatment" =>
          crag = C!NoOp(Guarded(chunks))
    /\ \/ crag = C!NoOp({})
       \/ crag = C!NoOp(Guarded(chunks))
       \/ /\ plan.crag = "treatment" /\ cragPhase = "returned"
          /\ crag = [correction EXCEPT !.evidence = Guarded(correction.evidence)]
    /\ stage \in {"draft", "reflect"} \cup Ending /\ plan.crag = "treatment" =>
          /\ cragPhase = "returned"
          /\ crag = [correction EXCEPT !.evidence = Guarded(correction.evidence)]
    /\ crag.abstain => stage \in Ending \cup {"failed"}

\* What reflect() keeps besides the invariant of its own.
Engine ==
    /\ state.retrievals = 0 => state.evidence = given.evidence
    /\ state.evidence \subseteq given.evidence \cup Local
    /\ phase # "idle" => state.answer.kind # "abstention"
    /\ phase = "idle" => given.evidence = {} /\ ~given.allow
    /\ phase = "returned" =>
          /\ result.evidence \in {state.evidence, given.evidence}
          /\ result.accepted => result.answer.kind # "abstention"

\* reflect() was called with the draft, the evidence it was drafted from, and
\* what the plan allows.
Tied ==
    /\ stage \in Early \cup {"correct", "draft"} => phase = "idle"
    /\ phase # "idle" =>
          /\ given.answer = draft /\ given.evidence = crag.evidence
          /\ given.allow => plan.mayRetrieve
    /\ stage = "reflect" =>
          /\ phase # "idle" /\ plan.reflection # "off"
          /\ draft.kind # "abstention"
          /\ ~R!Fabricated(draft.cites, crag.evidence)

\* What the outcome about to be served inherits from the stages before.
Finals ==
    stage \in Ending =>
        /\ ~R!Fabricated(final.answer.cites, final.evidence)
        /\ final.evidence \subseteq crag.evidence \cup Local
        /\ state.retrievals = 0 => final.evidence = crag.evidence
        /\ crag.abstain => final.answer = R!Abstention
        /\ plan.reflection = "shadow" =>
              /\ final.evidence = crag.evidence
              /\ final.answer \in {draft, R!Abstention}
        /\ plan.reflection = "treatment" /\ final.answer # R!Abstention =>
              /\ judged.passed
              /\ final.answer = judged.answer
              /\ final.evidence = judged.evidence
        /\ ~Degraded =>
              /\ final.answer.kind # "abstention"
              /\ plan.reflection = "treatment" =>
                    result.accepted /\ ~result.fallback

Responded ==
    /\ stage # "answered" =>
          /\ response.answer = R!Abstention /\ response.evidence = {}
          /\ ~response.cached
    /\ stage = "answered" =>
          /\ response.evidence = final.evidence
          /\ response.answer \in {final.answer, R!Abstention}
          /\ response.cached => ~Degraded /\ response.answer = final.answer

CorrectionInv == Correcting /\ (cragPhase = "returned" => CorrectionSound)

IInv ==
    /\ TypeOK /\ CorrectionInv /\ Used
    /\ P!IInv /\ Engine /\ Tied
    /\ Finals /\ Responded

-----------------------------------------------------------------------------
(* The engine's invariant, taken over from SelfReflectionProofs.            *)

\* The pipeline's constants are what the engine assumes of its own.
LEMMA EngineAssumption == P!ReflectionAssumption
  <1>1. IsFiniteSet(Chunks)
    BY PipelineAssumption, FS_Union DEF Chunks
  <1>2. P!IsFiniteSet(Chunks)
    BY <1>1 DEF P!IsFiniteSet, IsFiniteSet
  <1>3. Local \subseteq Chunks
    BY DEF Chunks
  <1>4. QED
    BY <1>2, <1>3, PipelineAssumption DEF P!ReflectionAssumption

\* The instances of FiniteSets count alike.
LEMMA SameCardinality ==
    ASSUME NEW S
    PROVE  /\ R!Cardinality(S) = Cardinality(S)
           /\ P!Cardinality(S) = Cardinality(S)
           /\ C!Cardinality(S) = Cardinality(S)
  BY DEF Cardinality, R!Cardinality, P!Cardinality, C!Cardinality

\* The engine that is proved about is the engine the pipeline runs.
LEMMA SameRound == R!Round => P!Round
  <1> USE DEF R!Abstain, P!Abstain, R!Return, P!Return, R!Outcome, P!Outcome,
              R!Abstention, P!Abstention
  <1>1. /\ R!BudgetSpent = P!BudgetSpent /\ R!AskCritic = P!AskCritic
        /\ R!Accept = P!Accept
    BY DEF R!BudgetSpent, P!BudgetSpent, R!AskCritic, P!AskCritic,
           R!Accept, P!Accept
  <1>2. /\ R!Decline = P!Decline /\ R!AskAugmenter = P!AskAugmenter
        /\ R!AskReviser = P!AskReviser /\ R!Fails = P!Fails
    BY DEF R!Decline, P!Decline, R!AskAugmenter, P!AskAugmenter,
           R!AskReviser, P!AskReviser, R!Fails, P!Fails, R!Degraded, P!Degraded,
           R!EffectiveRetrievals, P!EffectiveRetrievals
  <1>3. ASSUME NEW c, NEW cost, NEW decision
        PROVE  R!Critique(c, cost, decision) = P!Critique(c, cost, decision)
    BY DEF R!Critique, P!Critique, R!QualityPass, P!QualityPass
  <1>4. ASSUME NEW evidence
        PROVE  R!Retrieved(evidence) = P!Retrieved(evidence)
    BY DEF R!Retrieved, P!Retrieved
  <1>5. ASSUME NEW cites, NEW cost
        PROVE  R!Revised(cites, cost) = P!Revised(cites, cost)
    BY DEF R!Revised, P!Revised, R!Fabricated, P!Fabricated
  <1>6. ASSUME NEW c
        PROVE  R!Decisions(c) = P!Decisions(c)
    BY DEF R!Decisions, P!Decisions, R!Decide, P!Decide, R!QualityPass,
           P!QualityPass, R!EvidenceInsufficient, P!EvidenceInsufficient,
           R!EvidenceUsable, P!EvidenceUsable, R!EffectiveRetrievals,
           P!EffectiveRetrievals
  <1>7. R!Critiques = P!Critiques
    BY DEF R!Critiques, P!Critiques
  <1>8. ASSUME NEW current, NEW more
        PROVE  R!Merged(current, more) = P!Merged(current, more)
    BY SameCardinality DEF R!Merged, P!Merged
  <1> HIDE DEF R!Abstain, P!Abstain, R!Return, P!Return, R!Outcome, P!Outcome,
               R!Abstention, P!Abstention
  <1>9. QED
    BY <1>1, <1>2, <1>3, <1>4, <1>5, <1>6, <1>7, <1>8 DEF R!Round, P!Round

\* A step of the engine, or one that does not touch it, keeps its invariant.
LEMMA EngineStep ==
    ASSUME P!IInv, R!Round \/ R!Expire \/ UNCHANGED reflectionVars
    PROVE  P!IInv'
  <1>1. R!Expire => P!Expire
    BY DEF R!Expire, P!Expire
  <1>2. [P!Next]_(P!reflectionVars)
    BY <1>1, SameRound DEF P!Next, P!reflectionVars, reflectionVars
  <1>3. QED
    BY <1>2, P!StepInv, EngineAssumption

\* What the rest of the proof takes from the engine.
LEMMA EngineKnows ==
    ASSUME P!IInv
    PROVE  /\ R!TypeOK /\ R!AcceptedAsJudged /\ R!NeverHalfRevised
           /\ ~given.allow => state.retrievals = 0
  <1>1. R!TypeOK
    BY DEF P!IInv, P!TypeOK, R!TypeOK, P!Answers, R!Answers
  <1>2. R!AcceptedAsJudged
    BY DEF P!IInv, P!AcceptedAsJudged, R!AcceptedAsJudged, P!Fabricated,
           R!Fabricated
  <1>3. R!NeverHalfRevised
    BY DEF P!IInv, P!NeverHalfRevised, R!NeverHalfRevised, P!Abstention,
           R!Abstention
  <1>4. ~given.allow => state.retrievals = 0
    BY <1>1 DEF P!IInv, P!WithinBudget, P!EffectiveRetrievals, R!TypeOK
  <1>5. QED
    BY <1>1, <1>2, <1>3, <1>4

\* The fixed abstention is an answer, and cites nothing.
LEMMA AbstentionIsAnswer ==
    /\ R!Abstention \in R!Answers /\ R!Abstention.kind = "abstention"
    /\ \A evidence : ~R!Fabricated(R!Abstention.cites, evidence)
  BY PipelineAssumption DEF R!Abstention, R!Answers, R!Fabricated

-----------------------------------------------------------------------------
(* The parts of the invariant, one at a time.                               *)

\* A stage of correct() knows what it has graded and found.
LEMMA StageInv ==
    ASSUME TypeOK, CorrectionInv, stage = "correct", C!Stage,
           UNCHANGED pipelineVars
    PROVE  CorrectionInv'
  <1> USE PipelineAssumption DEF CorrectionInv, pipelineVars
  <1>0. plan.crag # "off" /\ cragPhase # "returned"
    BY DEF Correcting, C!Stage, C!Grade, C!RefineLocal, C!SearchWeb, C!Verify,
           C!Fails
  <1>1. ASSUME NEW coverage \in C!Coverages, NEW clearing \in SUBSET Local,
               C!Grade(coverage, clearing)
        PROVE  CorrectionInv'
    <2>1. /\ C!GradeOf(coverage, clearing) \in C!Decisions \ {"none"}
          /\ C!GradeOf(coverage, clearing) = "incorrect" => clearing = {}
      BY DEF C!GradeOf, C!Decisions
    <2>2. QED
      BY <1>0, <1>1, <2>1 DEF C!Grade, Correcting
  <1>2. ASSUME NEW extracted \in SUBSET Local, NEW count \in 0..MaxPieces,
               C!RefineLocal(extracted, count)
        PROVE  CorrectionInv'
    <2>1. /\ cragPhase = "refining" /\ extracted \subseteq grade.clearing
          /\ found' = extracted /\ UNCHANGED <<cragCall, grade>>
          /\ pieces' = [pieces EXCEPT !.local = count]
      BY <1>2 DEF C!RefineLocal
    <2>2. extracted \cap Web = {} /\ extracted \cap Local = extracted
          /\ extracted \subseteq Chunks
      BY DEF Chunks
    <2>3. pieces' \in [local : Nat, web : Nat] /\ pieces'.local = count /\ count \in Nat
      BY <2>1 DEF Correcting
    <2>4. CASE count >= MinEvidence
      <3>1. cragPhase' = "returned"
            /\ correction' = C!CRAGOutcome(extracted, grade.decision, FALSE, FALSE, FALSE)
        BY <1>2, <2>4 DEF C!RefineLocal, C!Done
      <3>2. extracted # {}
        BY <1>2, <2>4 DEF C!RefineLocal, C!Counts
      <3>3. Correcting'
        BY <1>0, <2>1, <2>2, <2>3, <3>1 DEF Correcting
      <3>4. CorrectionSound'
        BY <2>1, <2>2, <2>3, <2>4, <3>1, <3>2
        DEF Correcting, CorrectionSound, C!CRAGOutcome
      <3>5. QED
        BY <3>3, <3>4
    <2>5. CASE ~(count >= MinEvidence) /\ cragCall.mayUseWeb
      <3>1. cragPhase' = "searching" /\ UNCHANGED correction
        BY <1>2, <2>5 DEF C!RefineLocal
      <3>2. QED
        BY <1>0, <2>1, <2>2, <2>3, <2>5, <3>1 DEF Correcting
    <2>6. CASE ~(count >= MinEvidence) /\ ~cragCall.mayUseWeb
      <3>1. cragPhase' = "returned"
            /\ correction' = C!CRAGOutcome(extracted, grade.decision, FALSE, TRUE, FALSE)
        BY <1>2, <2>6 DEF C!RefineLocal, C!Done
      <3>2. Correcting'
        BY <1>0, <2>1, <2>2, <2>3, <3>1 DEF Correcting
      <3>3. CorrectionSound'
        BY <2>1, <2>2, <3>1 DEF Correcting, CorrectionSound, C!CRAGOutcome
      <3>4. QED
        BY <3>2, <3>3
    <2>7. QED
      BY <2>4, <2>5, <2>6
  <1>3. ASSUME NEW pages \in SUBSET Web, NEW count \in 0..MaxPieces,
               C!SearchWeb(pages, count)
        PROVE  CorrectionInv'
    <2>1. /\ cragPhase = "searching" /\ UNCHANGED <<cragCall, grade>>
          /\ cragCall.mayUseWeb /\ found \subseteq Local
          /\ found \cap Local \subseteq grade.clearing
          /\ found' = found \cup pages
          /\ pieces' = [pieces EXCEPT !.web = count]
          /\ pieces.local < MinEvidence
      BY <1>3 DEF C!SearchWeb, Correcting
    <2>2. pieces' \in [local : Nat, web : Nat] /\ pieces'.local = pieces.local
      BY <2>1 DEF Correcting
    <2>3. CASE pages = {}
      <3>1. cragPhase' = "returned" /\ found' = found
            /\ correction' = C!CRAGOutcome(found, grade.decision, FALSE, TRUE, FALSE)
        BY <1>3, <2>1, <2>3 DEF C!SearchWeb, C!Done
      <3>2. Correcting'
        BY <1>0, <2>1, <2>2, <3>1 DEF Correcting
      <3>3. CorrectionSound'
        BY <2>1, <3>1 DEF Correcting, CorrectionSound, C!CRAGOutcome
      <3>4. QED
        BY <3>2, <3>3
    <2>4. CASE pages # {}
      <3>1. cragPhase' = "verifying"
        BY <1>3, <2>4 DEF C!SearchWeb
      <3>2. (found \cup pages) \cap Local = found \cap Local
            /\ found \cup pages \subseteq Chunks
        BY <2>1 DEF Chunks
      <3>3. QED
        BY <1>0, <2>1, <2>2, <3>1, <3>2 DEF Correcting
    <2>5. QED
      BY <2>3, <2>4
  <1>4. ASSUME NEW coverage \in C!Coverages,
               NEW clearing \in SUBSET (Local \cup Web),
               C!Verify(coverage, clearing)
        PROVE  CorrectionInv'
    <2> DEFINE enough == /\ C!GradeOf(coverage, clearing) = "correct"
                         /\ pieces.local + pieces.web >= MinEvidence
    <2>1. /\ cragPhase = "verifying" /\ UNCHANGED <<cragCall, grade, found, pieces>>
          /\ cragPhase' = "returned"
          /\ correction' = C!CRAGOutcome(found, grade.decision, FALSE, ~enough, TRUE)
      BY <1>4 DEF C!Verify, C!Done
    <2>2. enough \in BOOLEAN
      OBVIOUS
    <2> HIDE DEF enough
    <2>3. Correcting'
      BY <1>0, <2>1 DEF Correcting
    <2>4. CorrectionSound'
      BY <2>1, <2>2 DEF Correcting, CorrectionSound, C!CRAGOutcome
    <2>5. QED
      BY <2>3, <2>4
  <1>5. ASSUME C!Fails
        PROVE  CorrectionInv'
    <2> DEFINE empty == cragCall.chunks = {}
    <2>1. /\ UNCHANGED <<cragCall, grade, found, pieces>>
          /\ cragPhase # "idle" /\ cragPhase' = "returned"
          /\ correction' = C!CRAGOutcome(cragCall.chunks, "none", TRUE, empty, FALSE)
      BY <1>5 DEF C!Fails, C!Done
    <2>2. empty \in BOOLEAN
      OBVIOUS
    <2> HIDE DEF empty
    <2>3. Correcting'
      BY <1>0, <2>1 DEF Correcting
    <2>4. CorrectionSound'
      BY <2>1, <2>2 DEF Correcting, CorrectionSound, C!CRAGOutcome, C!Decisions, Chunks
    <2>5. QED
      BY <2>3, <2>4
  <1>6. QED
    BY <1>1, <1>2, <1>3, <1>4, <1>5 DEF C!Stage

\* Nothing else touches the corrective retriever once it may have run.
LEMMA KeepCorrection ==
    ASSUME CorrectionInv, UNCHANGED <<plan, cragVars>>,
           stage' \in Early => stage \in Early
    PROVE  CorrectionInv'
  BY DEF CorrectionInv, Correcting, CorrectionSound, cragVars

\* What was used stays used: the later stages leave the correction alone.
LEMMA KeepUsed ==
    ASSUME Used, UNCHANGED <<plan, chunks, crag, cragPhase, correction>>,
           stage' \in Early \cup {"correct"} => stage \in Early \cup {"correct"},
           stage' \in {"draft", "reflect"} \cup Ending =>
              stage \in {"draft", "reflect"} \cup Ending,
           stage \in Ending => stage' \in Ending \cup {"failed"},
           stage = "failed" => stage' = "failed"
    PROVE  Used'
  BY DEF Used, Guarded

\* The response is written once, at the end.
LEMMA KeepResponded ==
    ASSUME Responded, UNCHANGED response, stage # "answered", stage' # "answered"
    PROVE  Responded'
  BY DEF Responded

\* An outcome that is used unjudged is typed as its answer and evidence are.
LEMMA OutcomeTyped ==
    ASSUME NEW answer \in R!Answers, NEW evidence \in SUBSET Chunks, NEW outcome,
           outcome = R!Outcome(answer, evidence, TRUE, FALSE, FALSE)
    PROVE  outcome \in [answer : R!Answers, evidence : SUBSET Chunks,
                        accepted : BOOLEAN, fallback : BOOLEAN, abstain : BOOLEAN]
  BY DEF R!Outcome

\* Guarding the chunks as they are is a correction that does nothing.
LEMMA GuardedNoOp ==
    ASSUME NEW S, NEW T
    PROVE  [C!NoOp(S) EXCEPT !.evidence = T] = C!NoOp(T)
  <1>1. ASSUME NEW r, NEW q,
               r = [evidence |-> S, decision |-> "none", fallback |-> FALSE,
                    abstain |-> FALSE, webUsed |-> FALSE],
               q = [r EXCEPT !.evidence = T]
        PROVE  q = [evidence |-> T, decision |-> "none", fallback |-> FALSE,
                    abstain |-> FALSE, webUsed |-> FALSE]
    BY <1>1
  <1>2. QED
    BY ZenonT(60), <1>1 DEF C!NoOp, C!CRAGOutcome

\* A round of the engine keeps what the pipeline knows of it.
LEMMA RoundKeeps ==
    ASSUME P!IInv, Engine, R!Round
    PROVE  Engine' /\ given' = given /\ phase # "idle" /\ phase' # "idle"
  <1>0. R!TypeOK
    BY EngineKnows
  <1>1. ASSUME NEW evidence, R!Abstain(evidence), phase # "idle",
               UNCHANGED <<given, judged>>,
               state'.retrievals = 0 => state'.evidence = given.evidence,
               state'.evidence \subseteq given.evidence \cup Local,
               state'.answer = state.answer,
               evidence = state'.evidence
        PROVE  Engine' /\ phase' # "idle"
    BY <1>1 DEF Engine, R!Abstain, R!Return, R!Outcome
  <1>2. CASE R!BudgetSpent \/ R!Decline
    BY <1>1, <1>2 DEF R!BudgetSpent, R!Decline, Engine
  <1>3. CASE R!AskCritic \/ R!AskAugmenter \/ R!AskReviser
    BY <1>3 DEF R!AskCritic, R!AskAugmenter, R!AskReviser, Engine
  <1>4. CASE R!Accept \/ R!Fails
    BY <1>4 DEF R!Accept, R!Fails, R!Return, R!Outcome, Engine
  <1>5. ASSUME NEW c, NEW cost, NEW decision, R!Critique(c, cost, decision)
        PROVE  Engine' /\ given' = given /\ phase # "idle" /\ phase' # "idle"
    BY <1>0, <1>5 DEF R!Critique, R!Abstain, R!Return, R!Outcome, Engine, R!TypeOK
  <1>6. ASSUME NEW more \in SUBSET Local,
               NEW evidence \in R!Merged(state.evidence, more),
               R!Retrieved(evidence)
        PROVE  Engine' /\ given' = given /\ phase # "idle" /\ phase' # "idle"
    <2>1. evidence \subseteq state.evidence \cup Local
      BY DEF R!Merged
    <2>2. /\ phase = "retrieving" /\ given' = given
          /\ state'.evidence = evidence /\ state'.answer = state.answer
          /\ state'.retrievals # 0
      BY <1>0, <1>6 DEF R!Retrieved, R!TypeOK
    <2>3. QED
      BY <1>6, <2>1, <2>2 DEF R!Retrieved, R!Abstain, R!Return, R!Outcome, Engine
  <1>7. ASSUME NEW cites, NEW cost, R!Revised(cites, cost)
        PROVE  Engine' /\ given' = given /\ phase # "idle" /\ phase' # "idle"
    <2>1. CASE late
      BY <1>7, <2>1 DEF R!Revised, R!Abstain, R!Return, R!Outcome, Engine
    <2>2. CASE ~late
      <3>1. /\ phase = "revising" /\ phase' = "top" /\ given' = given
            /\ state'.evidence = state.evidence
            /\ state'.retrievals = state.retrievals
            /\ state'.answer.kind = "revision"
        <4> DEFINE answer == [kind |-> "revision",
                              version |-> state.iteration + 1, cites |-> cites]
        <4>1. /\ phase = "revising" /\ phase' = "top" /\ given' = given
              /\ state' = [state EXCEPT !.answer = answer,
                                        !.iteration = state.iteration + 1,
                                        !.tokens = state.tokens + cost]
          BY <1>7, <2>2 DEF R!Revised
        <4>2. answer.kind = "revision"
          OBVIOUS
        <4> HIDE DEF answer
        <4>3. QED
          BY <1>0, <4>1, <4>2 DEF R!TypeOK
      <3>2. QED
        BY <3>1 DEF Engine
    <2>3. QED
      BY <2>1, <2>2
  <1>8. ASSUME R!BudgetSpent \/ R!Decline \/ R!AskCritic \/ R!AskAugmenter
               \/ R!AskReviser \/ R!Accept \/ R!Fails
        PROVE  given' = given /\ phase # "idle" /\ phase' # "idle"
    BY <1>8 DEF R!BudgetSpent, R!Decline, R!AskCritic, R!AskAugmenter,
       R!AskReviser, R!Accept, R!Fails, R!Abstain, R!Return
  <1>9. QED
    BY <1>2, <1>3, <1>4, <1>5, <1>6, <1>7, <1>8 DEF R!Round

\* The call of reflect() establishes what the pipeline knows of the engine.
LEMMA StartKeeps ==
    ASSUME P!IInv, NEW answer \in R!Answers, NEW evidence \in SUBSET Chunks,
           NEW allow \in BOOLEAN, ~R!Fabricated(answer.cites, evidence),
           answer.kind # "abstention", R!Start(answer, evidence, allow)
    PROVE  /\ P!IInv' /\ Engine' /\ phase' # "idle"
           /\ given' = [answer |-> answer, evidence |-> evidence, allow |-> allow]
  <1>1. P!Start(answer, evidence, allow) /\ answer \in P!Answers
        /\ ~P!Fabricated(answer.cites, evidence)
    BY DEF R!Start, P!Start, R!Fresh, P!Fresh, R!Answers, P!Answers,
           R!Fabricated, P!Fabricated
  <1>2. P!IInv'
    BY <1>1, P!StartInv, EngineAssumption
  <1>3. Engine' /\ phase' # "idle"
        /\ given' = [answer |-> answer, evidence |-> evidence, allow |-> allow]
    BY DEF R!Start, R!Fresh, Engine
  <1>4. QED
    BY <1>2, <1>3

-----------------------------------------------------------------------------
(* The initial states, and one lemma per action.                            *)

\* A cohort is one of three, whatever the settings.
LEMMA CohortsAreThree ==
    ASSUME NEW setting \in Settings, NEW emergency \in BOOLEAN
    PROVE  CohortOf(setting, emergency) \in {"off", "shadow", "treatment"}
  BY DEF CohortOf, Settings

\* A request begins with nothing retrieved, nothing drafted and nothing served.
LEMMA InitInv == Init => IInv
  <1> SUFFICES ASSUME Init PROVE IInv
    OBVIOUS
  <1>1. PICK correct \in Settings, reflect \in Settings,
             emergency \in BOOLEAN, web \in BOOLEAN, more \in BOOLEAN,
             mode \in {"enforce", "monitor"} :
          plan = PlanOf(correct, reflect, emergency, web, more, mode)
    BY DEF Init
  <1>2. /\ plan \in [crag : {"off", "shadow", "treatment"}, mayUseWeb : BOOLEAN,
                     reflection : {"off", "shadow", "treatment"},
                     mayRetrieve : BOOLEAN, mode : {"enforce", "monitor"}]
        /\ plan.mayUseWeb => plan.crag = "treatment"
        /\ plan.mayRetrieve => plan.reflection = "treatment"
    <2> DEFINE c == CohortOf(correct, emergency)
               r == CohortOf(reflect, emergency)
    <2>1. c \in {"off", "shadow", "treatment"} /\ r \in {"off", "shadow", "treatment"}
      BY CohortsAreThree
    <2>2. plan = [crag |-> c, mayUseWeb |-> web /\ c = "treatment",
                  reflection |-> r, mayRetrieve |-> more /\ r = "treatment",
                  mode |-> mode]
      BY <1>1 DEF PlanOf
    <2> HIDE DEF c, r
    <2>3. (web /\ c = "treatment") \in BOOLEAN /\ (more /\ r = "treatment") \in BOOLEAN
      OBVIOUS
    <2>4. QED
      BY <2>1, <2>2, <2>3
  <1>3. TypeOK
    BY <1>2, AbstentionIsAnswer
    DEF Init, TypeOK, C!NoOp, C!CRAGOutcome, C!Decisions, Nothing, R!Outcome
  <1>4. CorrectionInv
    BY DEF Init, C!Init, CorrectionInv, Correcting, C!Decisions
  <1>5. Used
    BY DEF Init, Used, C!NoOp, C!CRAGOutcome, Early, Ending
  <1>6. P!IInv
    <2>1. P!Init
      BY DEF Init, R!Init, P!Init, R!Abstention, P!Abstention, R!Fresh, P!Fresh,
             R!Outcome, P!Outcome
    <2>2. QED
      BY <2>1, P!InitInv, EngineAssumption
  <1>7. Engine /\ Tied
    BY DEF Init, R!Init, R!Fresh, Engine, Tied
  <1>8. Finals /\ Responded
    BY DEF Init, Finals, Responded, Ending
  <1>9. QED
    BY <1>3, <1>4, <1>5, <1>6, <1>7, <1>8 DEF IInv

\* The stages before the correction only retrieve.
LEMMA EarlyInv ==
    ASSUME IInv,
           \/ \E failed \in BOOLEAN : Transform(failed)
           \/ \E hits \in SUBSET Local : Retrieve(hits)
           \/ \E kept \in SUBSET Local, failed \in BOOLEAN : Rerank(kept, failed)
    PROVE  IInv'
  <1>1. /\ stage \in Early /\ stage' \in Early \cup {"correct"}
        /\ fellBack' \subseteq {"hyde", "reranker", "draft"} /\ chunks' \subseteq Local
        /\ UNCHANGED <<plan, crag, draft, final, response, cragVars, reflectionVars>>
    BY DEF IInv, TypeOK, Transform, Retrieve, Rerank, IfFailed, Early
  <1>2. TypeOK'
    BY <1>1 DEF IInv, TypeOK, Early
  <1>3. CorrectionInv'
    BY <1>1, KeepCorrection DEF IInv
  <1>4. Used'
    BY <1>1 DEF IInv, Used, Early, Ending
  <1>5. P!IInv' /\ Engine' /\ Tied'
    BY <1>1, EngineStep DEF IInv, Engine, Tied, Early, reflectionVars
  <1>6. Finals' /\ Responded'
    BY <1>1 DEF IInv, Finals, Responded, Early, Ending
  <1>7. QED
    BY <1>2, <1>3, <1>4, <1>5, <1>6 DEF IInv

\* The corrective retriever is called with the chunks, and goes on.
LEMMA CorrectInv ==
    ASSUME IInv, (\E inScope \in BOOLEAN : BeginCorrection(inScope)) \/ Correct
    PROVE  IInv'
  <1>1. stage = "correct" /\ UNCHANGED <<pipelineVars, reflectionVars>>
    BY DEF BeginCorrection, Correct
  <1>2. TypeOK'
    BY <1>1 DEF IInv, TypeOK, pipelineVars
  <1>3. CorrectionInv'
    <2>1. ASSUME NEW inScope \in BOOLEAN, BeginCorrection(inScope)
          PROVE  CorrectionInv'
      BY <1>1, <2>1 DEF IInv, TypeOK, BeginCorrection, C!Start, CorrectionInv,
         Correcting, pipelineVars, Early
    <2>2. CASE Correct
      BY <1>1, <2>2, StageInv DEF IInv, Correct
    <2>3. QED
      BY <2>1, <2>2
  <1>4. Used'
    BY <1>1 DEF IInv, Used, pipelineVars, Ending
  <1>5. P!IInv' /\ Engine' /\ Tied'
    BY <1>1, EngineStep DEF IInv, Engine, Tied, pipelineVars, reflectionVars
  <1>6. Finals' /\ Responded'
    BY <1>1 DEF IInv, Finals, Responded, Ending, pipelineVars
  <1>7. QED
    BY <1>2, <1>3, <1>4, <1>5, <1>6 DEF IInv

\* The outcome is chosen and guarded; an abstention goes to the end.
LEMMA CorrectedInv ==
    ASSUME IInv, Corrected
    PROVE  IInv'
  <1> DEFINE outcome == IF plan.crag = "treatment" THEN correction
                        ELSE C!NoOp(chunks)
  <1>1. /\ stage = "correct"
        /\ plan.crag \in {"treatment", "shadow"} => cragPhase = "returned"
        /\ crag' = [outcome EXCEPT !.evidence = Guarded(outcome.evidence)]
        /\ IF outcome.abstain
           THEN /\ stage' = "respond"
                /\ final' = R!Outcome(R!Abstention, Guarded(outcome.evidence),
                                      TRUE, FALSE, FALSE)
           ELSE stage' = "draft" /\ UNCHANGED final
        /\ UNCHANGED <<plan, chunks, fellBack, draft, response, cragVars, reflectionVars>>
    BY DEF Corrected, Choosing, Chosen
  <1>2. /\ outcome \in [evidence : SUBSET Chunks, decision : C!Decisions,
                        fallback : BOOLEAN, abstain : BOOLEAN, webUsed : BOOLEAN]
        /\ plan.crag # "treatment" => outcome = C!NoOp(chunks)
        /\ plan.crag = "treatment" => outcome = correction
    BY <1>1 DEF IInv, TypeOK, CorrectionInv, CorrectionSound, C!NoOp,
       C!CRAGOutcome, C!Decisions, Chunks
  <1>3. plan.crag # "treatment" =>
            /\ ~outcome.abstain
            /\ [outcome EXCEPT !.evidence = Guarded(outcome.evidence)]
                  = C!NoOp(Guarded(chunks))
    <2>1. C!NoOp(chunks).evidence = chunks /\ ~C!NoOp(chunks).abstain
      BY DEF C!NoOp, C!CRAGOutcome
    <2>2. [C!NoOp(chunks) EXCEPT !.evidence = Guarded(chunks)]
              = C!NoOp(Guarded(chunks))
      BY GuardedNoOp
    <2>3. QED
      BY <1>2, <2>1, <2>2
  <1> HIDE DEF outcome
  <1>4. Guarded(outcome.evidence) \subseteq Chunks
    BY <1>2 DEF Guarded
  <1>5. /\ crag' \in [evidence : SUBSET Chunks, decision : C!Decisions,
                      fallback : BOOLEAN, abstain : BOOLEAN, webUsed : BOOLEAN]
        /\ crag'.evidence = Guarded(outcome.evidence)
        /\ crag'.abstain = outcome.abstain
    BY <1>1, <1>2, <1>4
  <1>6. phase = "idle" /\ state.retrievals = 0
    BY <1>1, EngineKnows DEF IInv, Tied, Engine
  <1>7. TypeOK'
    <2>1. final' = final \/ final' = R!Outcome(R!Abstention,
                               Guarded(outcome.evidence), TRUE, FALSE, FALSE)
      BY <1>1
    <2>2. final' \in [answer : R!Answers, evidence : SUBSET Chunks,
                      accepted : BOOLEAN, fallback : BOOLEAN, abstain : BOOLEAN]
      BY <2>1, <1>4, OutcomeTyped, AbstentionIsAnswer DEF IInv, TypeOK
    <2>3. stage' \in {"draft", "respond"}
      BY <1>1
    <2>4. QED
      BY <1>1, <1>5, <2>2, <2>3 DEF IInv, TypeOK
  <1>8. CorrectionInv'
    BY <1>1, KeepCorrection DEF IInv, Early
  <1>9. Used'
    <2>1. UNCHANGED <<plan, chunks, cragPhase, correction>> /\ stage' \in {"draft", "respond"}
      BY <1>1 DEF cragVars
    <2>2. /\ plan.crag # "treatment" => crag' = C!NoOp(Guarded(chunks))
          /\ plan.crag = "treatment" =>
                /\ cragPhase = "returned"
                /\ crag' = [correction EXCEPT !.evidence = Guarded(correction.evidence)]
      BY <1>1, <1>2, <1>3
    <2>3. crag'.abstain => stage' = "respond"
      BY <1>1, <1>5
    <2>4. QED
      BY <2>1, <2>2, <2>3 DEF Used, Guarded, Early, Ending
  <1>10. P!IInv' /\ Engine' /\ Tied'
    BY <1>1, <1>6, EngineStep DEF IInv, Engine, Tied, reflectionVars, Early
  <1>11. Finals'
    <2>1. CASE outcome.abstain
      <3>1. /\ stage' = "respond" /\ final'.answer = R!Abstention
            /\ final'.evidence = crag'.evidence /\ crag'.abstain
            /\ state'.retrievals = 0
        BY <1>1, <1>5, <1>6, <2>1 DEF R!Outcome, reflectionVars
      <3>2. Degraded'
        BY <3>1 DEF Degraded
      <3>3. QED
        BY <3>1, <3>2, AbstentionIsAnswer DEF Finals
    <2>2. CASE ~outcome.abstain
      BY <1>1, <2>2 DEF Finals, Ending
    <2>3. QED
      BY <2>1, <2>2
  <1>12. Responded'
    BY <1>1, KeepResponded DEF IInv
  <1>13. QED
    BY <1>7, <1>8, <1>9, <1>10, <1>11, <1>12 DEF IInv

\* A draft goes to the engine with the evidence it cites; a fabricated one is
\* replaced and never seen by it.
LEMMA DraftInv ==
    ASSUME IInv, NEW cites \in SUBSET Chunks, Draft(cites)
    PROVE  IInv'
  <1> DEFINE fabricated == R!Fabricated(cites, crag.evidence)
             answer == IF fabricated THEN R!Abstention
                       ELSE [kind |-> "draft", version |-> 0, cites |-> cites]
             reflects == plan.reflection \in {"treatment", "shadow"} /\ ~fabricated
  <1>1. /\ stage = "draft" /\ draft' = answer
        /\ fellBack' = fellBack \cup IfFailed(fabricated, "draft")
        /\ IF reflects
           THEN /\ stage' = "reflect"
                /\ R!Start(answer, crag.evidence, plan.mayRetrieve)
                /\ UNCHANGED final
           ELSE /\ stage' = "respond"
                /\ final' = R!Outcome(answer, crag.evidence, TRUE, FALSE, FALSE)
                /\ UNCHANGED reflectionVars
        /\ UNCHANGED <<plan, chunks, crag, response, cragVars>>
    BY DEF Draft
  <1>2. /\ answer \in R!Answers
        /\ ~R!Fabricated(answer.cites, crag.evidence)
        /\ fabricated => answer = R!Abstention
        /\ ~fabricated => answer.kind = "draft"
        /\ fabricated \in BOOLEAN
    BY AbstentionIsAnswer, PipelineAssumption DEF R!Answers, R!Fabricated
  <1>3. reflects <=> plan.reflection \in {"treatment", "shadow"} /\ ~fabricated
    OBVIOUS
  <1> HIDE DEF fabricated, answer, reflects
  <1>4. TypeOK'
    <2>1. final' = final
          \/ final' = R!Outcome(answer, crag.evidence, TRUE, FALSE, FALSE)
      BY <1>1
    <2>2. final' \in [answer : R!Answers, evidence : SUBSET Chunks,
                      accepted : BOOLEAN, fallback : BOOLEAN, abstain : BOOLEAN]
      BY <2>1, <1>2, OutcomeTyped DEF IInv, TypeOK
    <2>3. stage' \in {"reflect", "respond"}
          /\ fellBack' \subseteq {"hyde", "reranker", "draft"}
      BY <1>1, <1>2 DEF IInv, TypeOK, IfFailed
    <2>4. QED
      BY <1>1, <1>2, <2>2, <2>3 DEF IInv, TypeOK
  <1>5. CorrectionInv'
    BY <1>1, KeepCorrection DEF IInv, Early
  <1>6. Used'
    BY <1>1, KeepUsed DEF IInv, Used, Early, Ending, cragVars
  <1>7. Responded'
    BY <1>1, KeepResponded DEF IInv
  <1>8. phase = "idle" /\ state.retrievals = 0 /\ ~crag.abstain
    BY <1>1, EngineKnows DEF IInv, Tied, Engine, Used, Ending
  <1>9. CASE reflects
    <2>1. /\ stage' = "reflect" /\ R!Start(answer, crag.evidence, plan.mayRetrieve)
          /\ UNCHANGED <<plan, crag>>
      BY <1>1, <1>9
    <2>2. /\ P!IInv' /\ Engine' /\ phase' # "idle"
          /\ given' = [answer |-> answer, evidence |-> crag.evidence,
                       allow |-> plan.mayRetrieve]
      <3>1. crag.evidence \in SUBSET Chunks /\ plan.mayRetrieve \in BOOLEAN
        BY DEF IInv, TypeOK
      <3>2. QED
        BY <2>1, <3>1, <1>2, <1>3, <1>9, StartKeeps DEF IInv
    <2>3. Tied'
      BY <1>1, <1>2, <1>3, <1>9, <2>1, <2>2 DEF Tied, Early
    <2>4. Finals'
      BY <2>1 DEF Finals, Ending
    <2>5. QED
      BY <1>4, <1>5, <1>6, <1>7, <2>2, <2>3, <2>4 DEF IInv
  <1>10. CASE ~reflects
    <2>1. /\ stage' = "respond" /\ UNCHANGED <<plan, crag, reflectionVars>>
          /\ final' = R!Outcome(answer, crag.evidence, TRUE, FALSE, FALSE)
      BY <1>1, <1>10
    <2>2. P!IInv' /\ Engine' /\ Tied'
      BY <1>8, <2>1, EngineStep DEF IInv, Engine, Tied, reflectionVars
    <2>3. /\ final'.answer = answer /\ final'.evidence = crag.evidence
          /\ draft' = answer /\ state'.retrievals = 0
      BY <1>1, <1>8, <2>1 DEF R!Outcome, reflectionVars
    <2>4. plan.reflection \in {"treatment", "shadow"} => answer = R!Abstention
      BY <1>2, <1>3, <1>10
    <2>5. ~Degraded' => ~fabricated
      BY <1>1, <1>2 DEF Degraded, IfFailed
    <2>6. ~Degraded' => answer.kind = "draft" /\ plan.reflection # "treatment"
      BY <1>2, <1>3, <1>10, <2>5
    <2>7. Finals'
      BY <1>2, <1>8, <2>1, <2>3, <2>4, <2>6 DEF Finals
    <2>8. QED
      BY <1>4, <1>5, <1>6, <1>7, <2>2, <2>7 DEF IInv
  <1>11. QED
    BY <1>9, <1>10

\* The engine goes on, or its deadline passes.
LEMMA ReflectInv ==
    ASSUME IInv, Reflect \/ Expire
    PROVE  IInv'
  <1>1. /\ stage = "reflect" /\ (R!Round \/ R!Expire)
        /\ UNCHANGED <<pipelineVars, cragVars>>
    BY DEF Reflect, Expire
  <1>2. Engine' /\ given' = given /\ phase # "idle" /\ phase' # "idle"
    <2>1. CASE R!Round
      BY <2>1, RoundKeeps DEF IInv
    <2>2. CASE R!Expire
      BY <2>2 DEF IInv, R!Expire, Engine
    <2>3. QED
      BY <1>1, <2>1, <2>2
  <1>3. P!IInv'
    BY <1>1, EngineStep DEF IInv
  <1>4. TypeOK'
    BY <1>1 DEF IInv, TypeOK, pipelineVars
  <1>5. CorrectionInv'
    BY <1>1, KeepCorrection DEF IInv, pipelineVars
  <1>6. Used'
    BY <1>1, KeepUsed DEF IInv, pipelineVars, cragVars
  <1>7. Tied'
    BY <1>1, <1>2 DEF IInv, Tied, pipelineVars
  <1>8. Finals' /\ Responded'
    BY <1>1, KeepResponded DEF IInv, Finals, Ending, pipelineVars
  <1>9. QED
    BY <1>2, <1>3, <1>4, <1>5, <1>6, <1>7, <1>8 DEF IInv

\* Of a reflection only a treatment's outcome is used, and of that neither the
\* draft nor anything it did not accept.
LEMMA ReflectedInv ==
    ASSUME IInv, Reflected
    PROVE  IInv'
  <1>1. /\ stage = "reflect" /\ phase = "returned" /\ stage' = "respond"
        /\ final' = IF plan.reflection = "shadow"
                    THEN R!Outcome(draft, crag.evidence, TRUE, FALSE, FALSE)
                    ELSE IF result.fallback
                    THEN [result EXCEPT !.answer = R!Abstention, !.abstain = TRUE]
                    ELSE result
        /\ UNCHANGED <<plan, chunks, fellBack, crag, draft, response, cragVars, reflectionVars>>
    BY DEF Reflected
  <1>2. R!TypeOK /\ R!AcceptedAsJudged /\ R!NeverHalfRevised
        /\ (~given.allow => state.retrievals = 0)
    BY EngineKnows DEF IInv
  <1>3. /\ given.answer = draft /\ given.evidence = crag.evidence
        /\ given.allow => plan.mayRetrieve
        /\ plan.reflection # "off"
        /\ ~R!Fabricated(draft.cites, crag.evidence)
    BY <1>1 DEF IInv, Tied
  <1>4. draft \in R!Answers /\ crag.evidence \subseteq Chunks /\ ~crag.abstain
    BY <1>1 DEF IInv, TypeOK, Used, Ending
  <1>5. CorrectionInv'
    BY <1>1, KeepCorrection DEF IInv, Early
  <1>6. Used'
    BY <1>1, KeepUsed DEF IInv, Used, Early, Ending, cragVars
  <1>7. P!IInv' /\ Engine' /\ Tied'
    BY <1>1, EngineStep DEF IInv, Engine, Tied, reflectionVars, Early
  <1>8. Responded'
    BY <1>1, KeepResponded DEF IInv
  <1>9. CASE plan.reflection = "shadow"
    <2>1. final' = R!Outcome(draft, crag.evidence, TRUE, FALSE, FALSE)
      BY <1>1, <1>9
    <2>2. TypeOK'
      BY <1>1, <1>4, <2>1, OutcomeTyped DEF IInv, TypeOK
    <2>3. final'.answer = draft /\ final'.evidence = crag.evidence
      BY <2>1 DEF R!Outcome
    <2>4. draft.kind # "abstention"
      BY <1>1, <1>3 DEF IInv, Tied
    <2>5. Finals'
      BY <1>1, <1>3, <1>4, <1>9, <2>3, <2>4 DEF Finals
    <2>6. QED
      BY <1>5, <1>6, <1>7, <1>8, <2>2, <2>5 DEF IInv
  <1>10. CASE plan.reflection # "shadow"
    <2>1. plan.reflection = "treatment"
      BY <1>3, <1>10 DEF IInv, TypeOK
    <2>2. result.evidence \in {state.evidence, given.evidence}
          /\ (state.retrievals = 0 => state.evidence = given.evidence)
          /\ state.evidence \subseteq given.evidence \cup Local
          /\ (result.accepted => result.answer.kind # "abstention")
      BY <1>1 DEF IInv, Engine
    <2>3. CASE result.fallback
      <3>1. final' = [result EXCEPT !.answer = R!Abstention, !.abstain = TRUE]
        BY <1>1, <1>10, <2>3
      <3>2. /\ final'.answer = R!Abstention /\ final'.evidence = result.evidence
            /\ final'.fallback
            /\ final' \in [answer : R!Answers, evidence : SUBSET Chunks,
                           accepted : BOOLEAN, fallback : BOOLEAN, abstain : BOOLEAN]
        BY <1>2, <2>3, <3>1, AbstentionIsAnswer DEF R!TypeOK
      <3>3. TypeOK'
        BY <1>1, <3>2 DEF IInv, TypeOK
      <3>4. Degraded'
        BY <3>2 DEF Degraded
      <3>5. Finals'
        BY <1>1, <1>3, <2>1, <2>2, <3>2, <3>4, AbstentionIsAnswer
        DEF Finals, reflectionVars
      <3>6. QED
        BY <1>5, <1>6, <1>7, <1>8, <3>3, <3>5 DEF IInv
    <2>4. CASE ~result.fallback
      <3>1. final' = result /\ UNCHANGED <<state, judged, result>>
        BY <1>1, <1>10, <2>4 DEF reflectionVars
      <3>2. TypeOK'
        BY <1>1, <1>2, <3>1 DEF IInv, TypeOK, R!TypeOK
      <3>3. /\ result.accepted =>
                  /\ judged.passed /\ result.answer = judged.answer
                  /\ result.evidence = judged.evidence
                  /\ ~R!Fabricated(result.answer.cites, result.evidence)
            /\ ~result.accepted => result.abstain /\ result.answer = R!Abstention
        BY <1>1, <1>2, <2>4 DEF R!AcceptedAsJudged, R!NeverHalfRevised
      <3>4. ~Degraded' => result.accepted
        BY <3>1 DEF Degraded
      <3>5. Finals'
        BY <1>1, <1>3, <1>4, <2>1, <2>2, <2>4, <3>1, <3>3, <3>4, AbstentionIsAnswer
        DEF Finals
      <3>6. QED
        BY <1>5, <1>6, <1>7, <1>8, <3>2, <3>5 DEF IInv
    <2>5. QED
      BY <2>3, <2>4
  <1>11. QED
    BY <1>9, <1>10

\* The response carries the outcome, or the abstention of a blocked answer.
LEMMA RespondInv ==
    ASSUME IInv, NEW blocked \in BOOLEAN, Respond(blocked)
    PROVE  IInv'
  <1> DEFINE served == IF blocked THEN R!Abstention ELSE final.answer
             cached == ~Degraded /\ ~blocked
  <1>1. /\ stage = "respond" /\ stage' = "answered"
        /\ response' = [answer |-> served, evidence |-> final.evidence,
                        cached |-> cached]
        /\ UNCHANGED <<plan, chunks, fellBack, crag, draft, final, cragVars, reflectionVars>>
    BY DEF Respond
  <1>2. /\ served \in R!Answers /\ served \in {final.answer, R!Abstention}
        /\ final.evidence \in SUBSET Chunks
        /\ cached \in BOOLEAN
        /\ cached => ~Degraded /\ served = final.answer
    BY AbstentionIsAnswer DEF IInv, TypeOK
  <1> HIDE DEF served, cached
  <1>3. TypeOK'
    BY <1>1, <1>2 DEF IInv, TypeOK
  <1>4. CorrectionInv'
    BY <1>1, KeepCorrection DEF IInv, Early
  <1>5. Used'
    BY <1>1, KeepUsed DEF IInv, Early, Ending, cragVars
  <1>6. P!IInv' /\ Engine' /\ Tied'
    BY <1>1, EngineStep DEF IInv, Engine, Tied, reflectionVars, Early
  <1>7. Degraded' = Degraded
    BY <1>1 DEF Degraded
  <1>8. Finals'
    BY <1>1, <1>7 DEF IInv, Finals, Ending, reflectionVars
  <1>9. Responded'
    BY <1>1, <1>2, <1>7 DEF Responded
  <1>10. QED
    BY <1>3, <1>4, <1>5, <1>6, <1>8, <1>9 DEF IInv

\* A request that fails serves nothing.
LEMMA FailInv ==
    ASSUME IInv, Fail
    PROVE  IInv'
  <1>1. /\ stage \in {"transform", "retrieve", "correct", "draft", "respond"}
        /\ stage' = "failed"
        /\ UNCHANGED <<plan, chunks, fellBack, crag, draft, final, response,
                       cragVars, reflectionVars>>
    BY DEF Fail, Choosing
  <1>2. TypeOK'
    BY <1>1 DEF IInv, TypeOK
  <1>3. CorrectionInv'
    BY <1>1, KeepCorrection DEF IInv, Early
  <1>4. Used'
    BY <1>1, KeepUsed DEF IInv, Early, Ending, cragVars
  <1>5. P!IInv' /\ Engine' /\ Tied'
    BY <1>1, EngineStep DEF IInv, Engine, Tied, reflectionVars, Early
  <1>6. Finals' /\ Responded'
    BY <1>1, KeepResponded DEF IInv, Finals, Ending
  <1>7. QED
    BY <1>2, <1>3, <1>4, <1>5, <1>6 DEF IInv

\* Every step of the pipeline preserves the invariant.
LEMMA StepInv == IInv /\ [Next]_vars => IInv'
  <1> SUFFICES ASSUME IInv, [Next]_vars PROVE IInv'
    OBVIOUS
  <1>1. CASE \/ \E failed \in BOOLEAN : Transform(failed)
             \/ \E hits \in SUBSET Local : Retrieve(hits)
             \/ \E kept \in SUBSET Local, failed \in BOOLEAN : Rerank(kept, failed)
    BY <1>1, EarlyInv
  <1>2. CASE (\E inScope \in BOOLEAN : BeginCorrection(inScope)) \/ Correct
    BY <1>2, CorrectInv
  <1>3. CASE Corrected
    BY <1>3, CorrectedInv
  <1>4. CASE \E cites \in SUBSET Chunks : Draft(cites)
    BY <1>4, DraftInv
  <1>5. CASE Reflect \/ Expire
    BY <1>5, ReflectInv
  <1>6. CASE Reflected
    BY <1>6, ReflectedInv
  <1>7. CASE \E blocked \in BOOLEAN : Respond(blocked)
    BY <1>7, RespondInv
  <1>8. CASE Fail
    BY <1>8, FailInv
  <1>9. CASE UNCHANGED vars
    <2>1. UNCHANGED <<plan, stage, chunks, fellBack, crag, draft, final, response,
                      cragVars, reflectionVars>>
      BY <1>9 DEF vars, pipelineVars
    <2>2. TypeOK'
      BY <2>1 DEF IInv, TypeOK
    <2>3. CorrectionInv' /\ Used'
      BY <2>1, KeepCorrection, KeepUsed DEF IInv, cragVars
    <2>4. P!IInv' /\ Engine' /\ Tied'
      BY <2>1, EngineStep DEF IInv, Engine, Tied, reflectionVars
    <2>5. Degraded' = Degraded
      BY <2>1 DEF Degraded
    <2>6. Finals' /\ Responded'
      BY <2>1, <2>5 DEF IInv, Finals, Responded, reflectionVars
    <2>7. QED
      BY <2>2, <2>3, <2>4, <2>6 DEF IInv
  <1>10. QED
    BY <1>1, <1>2, <1>3, <1>4, <1>5, <1>6, <1>7, <1>8, <1>9 DEF Next, Step

-----------------------------------------------------------------------------
(* What follows.                                                            *)

\* What the correction that is used says of the evidence it passes on.
LEMMA UsedSound ==
    ASSUME IInv
    PROVE  /\ ~crag.webUsed => crag.evidence \subseteq Local
           /\ crag.decision = "incorrect" =>
                 /\ crag.evidence \cap Local = {}
                 /\ crag.webUsed \/ crag.abstain
           /\ crag.webUsed =>
                 /\ plan.crag = "treatment" /\ plan.mayUseWeb /\ cragCall.mayUseWeb
                 /\ pieces.local < MinEvidence
           /\ plan.mode = "enforce" => crag.evidence \cap Flagged = {}
           /\ stage = "answered" /\ plan.crag = "treatment"
                 /\ ~crag.fallback /\ ~crag.abstain /\ ~crag.webUsed =>
                 /\ correction.decision # "none" /\ ~correction.fallback
                 /\ crag.evidence \subseteq found /\ found \cap Web = {}
                 /\ pieces.local >= MinEvidence
  <1>1. ASSUME NEW S \in SUBSET Local, crag = C!NoOp(S)
        PROVE  /\ crag.evidence = S /\ ~crag.webUsed
               /\ crag.decision = "none"
    BY <1>1 DEF C!NoOp, C!CRAGOutcome
  <1>2. ASSUME cragPhase = "returned", plan.crag = "treatment",
               crag = [correction EXCEPT !.evidence = Guarded(correction.evidence)]
        PROVE  /\ CorrectionSound /\ crag.evidence = Guarded(correction.evidence)
               /\ crag.webUsed = correction.webUsed
               /\ crag.decision = correction.decision
               /\ crag.abstain = correction.abstain
               /\ crag.fallback = correction.fallback
    BY <1>2 DEF IInv, CorrectionInv, CorrectionSound
  <1>3. Guarded(chunks) \in SUBSET Local /\ {} \in SUBSET Local
        /\ (plan.mode = "enforce" => Guarded(chunks) \cap Flagged = {})
    BY DEF IInv, TypeOK, Guarded
  <1>4. CASE crag = C!NoOp({}) \/ crag = C!NoOp(Guarded(chunks))
    <2>1. /\ ~crag.webUsed /\ crag.decision # "incorrect"
          /\ crag.evidence \subseteq Local
          /\ plan.mode = "enforce" => crag.evidence \cap Flagged = {}
      BY <1>1, <1>3, <1>4
    <2>2. stage = "answered" /\ plan.crag = "treatment"
             /\ ~crag.fallback /\ ~crag.abstain /\ ~crag.webUsed =>
             /\ correction.decision # "none" /\ ~correction.fallback
             /\ crag.evidence \subseteq found /\ found \cap Web = {}
             /\ pieces.local >= MinEvidence
      BY <1>2 DEF IInv, Used, Ending, CorrectionSound, Guarded
    <2>3. QED
      BY <2>1, <2>2
  <1>5. CASE /\ cragPhase = "returned" /\ plan.crag = "treatment"
             /\ crag = [correction EXCEPT !.evidence = Guarded(correction.evidence)]
    BY <1>2, <1>5 DEF CorrectionSound, Guarded, IInv, CorrectionInv, Correcting
  <1>6. QED
    BY <1>4, <1>5 DEF IInv, Used

\* The invariant holds of every reachable state.
LEMMA PipelineInvariance == Spec => []IInv
  BY InitInv, StepInv, PTL DEF Spec

\* The plan, the correction, the outcomes and the response keep their shapes.
THEOREM TypeCorrect == Spec => []TypeOK
  <1>1. IInv => TypeOK
    BY DEF IInv
  <1>2. QED
    BY <1>1, PipelineInvariance, PTL

\* For any chunks and budgets, and wherever a stage falls back, what is written
\* to the caches was made by every stage of its plan: neither HyDE nor the
\* reranker nor the draft fell back, a treatment's correction graded the chunks
\* and extracted enough from them without the web, the evidence is what it
\* extracted unless a second retrieval added to it, and a treatment's reflection
\* accepted the answer.
THEOREM CachesWhatWasPlanned == Spec => []CachedIsWhatThePlanSays
  <1>1. ASSUME IInv, response.cached
        PROVE  /\ response.answer.kind # "abstention"
               /\ response.evidence \subseteq Local
               /\ fellBack = {}
               /\ plan.crag = "treatment" =>
                     /\ correction.decision # "none" /\ ~correction.fallback
                     /\ found \cap Web = {} /\ pieces.local >= MinEvidence
                     /\ state.retrievals = 0 => response.evidence \subseteq found
               /\ plan.reflection = "treatment" =>
                     result.accepted /\ ~result.fallback
    <2>1. /\ stage = "answered" /\ ~Degraded
          /\ response.answer = final.answer /\ response.evidence = final.evidence
      BY <1>1 DEF IInv, Responded
    <2>2. ~crag.webUsed /\ ~crag.fallback /\ ~crag.abstain /\ fellBack = {}
      BY <2>1 DEF Degraded
    <2>3. crag.evidence \subseteq Local
      BY <1>1, <2>2, UsedSound
    <2>4. /\ final.evidence \subseteq crag.evidence \cup Local
          /\ final.answer.kind # "abstention"
          /\ state.retrievals = 0 => final.evidence = crag.evidence
          /\ plan.reflection = "treatment" =>
                result.accepted /\ ~result.fallback
      BY <1>1, <2>1 DEF IInv, Finals, Ending
    <2>5. QED
      BY <1>1, <2>1, <2>2, <2>3, <2>4, UsedSound
  <1>2. IInv => CachedIsWhatThePlanSays
    BY <1>1 DEF CachedIsWhatThePlanSays
  <1>3. QED
    BY <1>2, PipelineInvariance, PTL

\* An answer served with evidence cites nothing else, on every path through the
\* stages.
THEOREM CitesItsEvidence == Spec => []ServedCitesItsEvidence
  <1>1. IInv => ServedCitesItsEvidence
    BY AbstentionIsAnswer DEF IInv, Finals, Responded, Ending, ServedCitesItsEvidence
  <1>2. QED
    BY <1>1, PipelineInvariance, PTL

\* Observing a question changes neither the evidence nor the answer, and uses
\* neither the web nor a second retrieval.
THEOREM ShadowsOnlyObserve == Spec => []ShadowChangesNothing
  <1>1. ASSUME IInv, plan.crag = "shadow"
        PROVE  /\ found \cap Web = {}
               /\ stage \in {"draft", "reflect", "respond", "answered"} =>
                     crag = C!NoOp(Guarded(chunks))
    BY <1>1 DEF IInv, TypeOK, CorrectionInv, Correcting, Used, Ending
  <1>2. ASSUME IInv, plan.reflection = "shadow"
        PROVE  /\ state.retrievals = 0
               /\ stage = "answered" =>
                     /\ response.evidence = crag.evidence
                     /\ response.answer \in {draft, R!Abstention}
    <2>1. ~given.allow
      BY <1>2 DEF IInv, TypeOK, Tied, Engine
    <2>2. state.retrievals = 0
      BY <1>2, <2>1, EngineKnows DEF IInv
    <2>3. QED
      BY <1>2, <2>2 DEF IInv, Finals, Responded, Ending
  <1>3. IInv => ShadowChangesNothing
    BY <1>1, <1>2 DEF ShadowChangesNothing
  <1>4. QED
    BY <1>3, PipelineInvariance, PTL

\* With reflection on for a request, what it serves is what the last critique
\* passed, with the evidence it passed it with, or a fixed abstention.
THEOREM ServesOnlyTheChecked == Spec => []CheckedOrAbstained
  <1>1. IInv => CheckedOrAbstained
    BY DEF IInv, Finals, Responded, Ending, CheckedOrAbstained
  <1>2. QED
    BY <1>1, PipelineInvariance, PTL

\* The web is the last resort, an incorrect retrieval leaves nothing local, and
\* the enforced guard keeps out what it flags, for any thresholds.
THEOREM UsesOnlyTheVetted == Spec => []EvidenceIsVetted
  <1>1. ASSUME IInv
        PROVE  WebIsTheLastResort
    <2>1. /\ stage = "answered" => /\ response.evidence \subseteq crag.evidence \cup Local
                                   /\ crag.abstain => response.answer = R!Abstention
          /\ stage # "answered" => /\ response.evidence = {}
                                   /\ response.answer = R!Abstention
      BY <1>1 DEF IInv, Finals, Responded, Ending
    <2>2. (crag.evidence \cup response.evidence) \cap Web # {} => crag.webUsed
      BY <1>1, <2>1, UsedSound, PipelineAssumption
    <2>3. QED
      BY <1>1, <2>1, <2>2, UsedSound DEF WebIsTheLastResort
  <1>2. ASSUME IInv
        PROVE  IncorrectDraftsNothingLocal
    BY <1>2, UsedSound DEF IncorrectDraftsNothingLocal, IInv, Used, Ending
  <1>3. ASSUME IInv
        PROVE  GuardedEvidence
    <2>1. ASSUME state.retrievals = 0
          PROVE  /\ state.evidence = {} \/ state.evidence = crag.evidence
                 /\ response.evidence = {} \/ response.evidence = crag.evidence
      BY <1>3, <2>1 DEF IInv, Engine, Tied, Finals, Responded, Ending
    <2>2. QED
      BY <1>3, <2>1, UsedSound DEF GuardedEvidence
  <1>4. IInv => EvidenceIsVetted
    BY <1>1, <1>2, <1>3 DEF EvidenceIsVetted
  <1>5. QED
    BY <1>4, PipelineInvariance, PTL

-----------------------------------------------------------------------------
(* Every request ends: what is left of it.                                  *)

StageSteps ==
    [transform |-> 7, retrieve |-> 6, rerank |-> 5, correct |-> 4, draft |-> 3,
     reflect |-> 2, respond |-> 1, answered |-> 0, failed |-> 0]

CorrectionSteps ==
    [idle |-> 5, grading |-> 4, refining |-> 3, searching |-> 2, verifying |-> 1,
     returned |-> 0]

EngineLeft == P!StepsLeft

\* The stages to come, those of the correction until it is used, and the loop of the
\* engine until it has returned: all of it before it is called.
StepsToCome ==
    StageSteps[stage]
    + (IF stage \in Early \cup {"correct"} THEN CorrectionSteps[cragPhase] ELSE 0)
    + (IF stage \in Early \cup {"correct", "draft"} THEN 5 * MaxIterations + 5
       ELSE IF stage = "reflect" THEN EngineLeft ELSE 0)

PhaseKnown == cragPhase \in DOMAIN CorrectionSteps

\* The phases of correct() are these.
LEMMA PhaseStays == PhaseKnown /\ [Next]_vars => PhaseKnown'
  <1> SUFFICES ASSUME PhaseKnown, [Next]_vars PROVE PhaseKnown'
    OBVIOUS
  <1>1. CASE UNCHANGED cragPhase
    BY <1>1 DEF PhaseKnown, CorrectionSteps
  <1>2. CASE \E inScope \in BOOLEAN : BeginCorrection(inScope)
    BY <1>2 DEF BeginCorrection, C!Start, PhaseKnown, CorrectionSteps
  <1>3. CASE Correct
    BY <1>3 DEF Correct, C!Stage, C!Grade, C!RefineLocal, C!SearchWeb, C!Verify, C!Fails,
        C!Done, PhaseKnown, CorrectionSteps
  <1>4. ASSUME ~(\E inScope \in BOOLEAN : BeginCorrection(inScope)), ~Correct
        PROVE  UNCHANGED cragPhase
    BY <1>4 DEF Next, Step, Transform, Retrieve, Rerank, Corrected, Draft, Reflect, Reflected,
        Respond, Fail, Expire, cragVars, vars
  <1>5. QED
    BY <1>1, <1>2, <1>3, <1>4

\* What the engine has left is a number, before a step and after it.
LEMMA EngineLeftIsNat == (IInv => EngineLeft \in Nat) /\ (IInv' => EngineLeft' \in Nat)
  <1> DEFINE Counted == EngineLeft \in Nat
  <1>1. IInv => Counted
    BY P!StepsLeftIsNat, EngineAssumption DEF IInv, EngineLeft
  <1> HIDE DEF Counted
  <1>2. IInv' => Counted'
    BY <1>1, PTL
  <1>3. QED
    BY <1>1, <1>2 DEF Counted

\* What is left of a request is a number.
LEMMA StepsToComeIsNat == IInv /\ PhaseKnown => StepsToCome \in Nat
  <1> SUFFICES ASSUME IInv, PhaseKnown PROVE StepsToCome \in Nat
    OBVIOUS
  <1>1. StageSteps[stage] \in Nat
    BY DEF IInv, TypeOK, StageSteps
  <1>2. CorrectionSteps[cragPhase] \in Nat
    BY DEF PhaseKnown, CorrectionSteps
  <1>3. EngineLeft \in Nat
    BY EngineLeftIsNat
  <1>4. 5 * MaxIterations + 5 \in Nat
    BY PipelineAssumption
  <1>5. QED
    BY <1>1, <1>2, <1>3, <1>4 DEF StepsToCome

\* Each stage, each call of a stage and each failure uses some of it up.
LEMMA StepCounts == IInv /\ PhaseKnown /\ (Step \/ Fail) => StepsToCome' < StepsToCome
  <1> SUFFICES ASSUME IInv, PhaseKnown, Step \/ Fail PROVE StepsToCome' < StepsToCome
    OBVIOUS
  <1> DEFINE whole == 5 * MaxIterations + 5
  <1>1. whole \in Nat
    BY PipelineAssumption
  <1>2. CorrectionSteps[cragPhase] \in Nat
    BY DEF PhaseKnown, CorrectionSteps
  <1>3. EngineLeft \in Nat
    BY EngineLeftIsNat
  <1>4. /\ stage = "transform" => StepsToCome = 7 + CorrectionSteps[cragPhase] + whole
        /\ stage = "retrieve" => StepsToCome = 6 + CorrectionSteps[cragPhase] + whole
        /\ stage = "rerank" => StepsToCome = 5 + CorrectionSteps[cragPhase] + whole
        /\ stage = "correct" => StepsToCome = 4 + CorrectionSteps[cragPhase] + whole
        /\ stage = "draft" => StepsToCome = 3 + whole
        /\ stage = "reflect" => StepsToCome = 2 + EngineLeft
        /\ stage = "respond" => StepsToCome = 1
    BY <1>1, <1>2, <1>3 DEF StepsToCome, StageSteps, Early
  <1>5. /\ stage' = "retrieve" => StepsToCome' = 6 + CorrectionSteps[cragPhase'] + whole
        /\ stage' = "rerank" => StepsToCome' = 5 + CorrectionSteps[cragPhase'] + whole
        /\ stage' = "correct" => StepsToCome' = 4 + CorrectionSteps[cragPhase'] + whole
        /\ stage' = "draft" => StepsToCome' = 3 + whole
        /\ stage' = "reflect" => StepsToCome' = 2 + EngineLeft'
        /\ stage' = "respond" => StepsToCome' = 1
        /\ stage' \in {"answered", "failed"} => StepsToCome' = 0
    <2>1. PhaseKnown'
      BY PhaseStays DEF Next
    <2>2. CorrectionSteps[cragPhase'] \in Nat
      BY <2>1 DEF PhaseKnown, CorrectionSteps
    <2>3. IInv'
      BY StepInv DEF Next
    <2>4. EngineLeft' \in Nat
      BY <2>3, EngineLeftIsNat
    <2>5. QED
      BY <1>1, <2>2, <2>4 DEF StepsToCome, StageSteps, Early
  <1> HIDE DEF whole
  <1>6. ASSUME NEW failed, Transform(failed)
        PROVE  StepsToCome' < StepsToCome
    BY <1>6, <1>1, <1>2, <1>4, <1>5 DEF Transform, cragVars
  <1>7. ASSUME NEW hits, Retrieve(hits)
        PROVE  StepsToCome' < StepsToCome
    BY <1>7, <1>1, <1>2, <1>4, <1>5 DEF Retrieve, cragVars
  <1>8. ASSUME NEW kept, NEW failed, Rerank(kept, failed)
        PROVE  StepsToCome' < StepsToCome
    BY <1>8, <1>1, <1>2, <1>4, <1>5 DEF Rerank, cragVars
  <1>9. ASSUME NEW inScope, BeginCorrection(inScope)
        PROVE  StepsToCome' < StepsToCome
    <2>1. stage = "correct" /\ stage' = "correct" /\ cragPhase = "idle" /\ cragPhase' = "grading"
      BY <1>9 DEF BeginCorrection, C!Start, pipelineVars
    <2>2. QED
      BY <2>1, <1>1, <1>4, <1>5 DEF CorrectionSteps
  <1>10. ASSUME Correct
         PROVE  StepsToCome' < StepsToCome
    <2>1. stage = "correct" /\ stage' = "correct"
      BY <1>10 DEF Correct, pipelineVars
    <2>2. CorrectionSteps[cragPhase'] < CorrectionSteps[cragPhase]
      <3>1. \/ cragPhase = "grading" /\ cragPhase' \in {"refining", "returned"}
            \/ cragPhase = "refining" /\ cragPhase' \in {"searching", "returned"}
            \/ cragPhase = "searching" /\ cragPhase' \in {"verifying", "returned"}
            \/ cragPhase = "verifying" /\ cragPhase' = "returned"
        BY <1>10 DEF Correct, C!Stage, C!Grade, C!RefineLocal, C!SearchWeb, C!Verify,
            C!Fails, C!Done
      <3>2. QED
        BY <3>1 DEF CorrectionSteps
    <2>3. CorrectionSteps[cragPhase'] \in Nat
      BY PhaseStays DEF Next, PhaseKnown, CorrectionSteps
    <2>4. QED
      BY <2>1, <2>2, <2>3, <1>1, <1>2, <1>4, <1>5
  <1>11. ASSUME Corrected
         PROVE  StepsToCome' < StepsToCome
    <2>1. stage = "correct" /\ stage' \in {"draft", "respond"}
      BY <1>11 DEF Corrected, Choosing
    <2>2. QED
      BY <2>1, <1>1, <1>2, <1>4, <1>5
  <1>12. ASSUME NEW cites, Draft(cites)
         PROVE  StepsToCome' < StepsToCome
    <2>1. CASE stage' = "respond"
      BY <2>1, <1>1, <1>4, <1>5, <1>12 DEF Draft
    <2>2. CASE stage' # "respond"
      <3>1. /\ stage = "draft" /\ stage' = "reflect"
            /\ \E answer : R!Start(answer, crag.evidence, plan.mayRetrieve)
        BY <2>2, <1>12 DEF Draft
      <3>2. phase' = "top" /\ state'.iteration = 0
        BY <3>1 DEF R!Start, R!Fresh
      <3>3. EngineLeft' = whole
        BY <3>2, PipelineAssumption DEF EngineLeft, P!StepsLeft, P!RoundSteps, whole
      <3>4. QED
        BY <3>1, <3>3, <1>1, <1>4, <1>5
    <2>3. QED
      BY <2>1, <2>2
  <1>13. ASSUME Reflect
         PROVE  StepsToCome' < StepsToCome
    <2>1. stage = "reflect" /\ stage' = "reflect"
      BY <1>13 DEF Reflect, pipelineVars
    <2>2. EngineLeft' < EngineLeft
      BY <1>13, SameRound, P!RoundCounts, EngineAssumption DEF Reflect, IInv, EngineLeft
    <2>3. EngineLeft' \in Nat
      <3>1. IInv'
        BY StepInv DEF Next
      <3>2. QED
        BY <3>1, EngineLeftIsNat
    <2>4. StepsToCome = 2 + EngineLeft /\ StepsToCome' = 2 + EngineLeft'
      BY <2>1, <1>4, <1>5
    <2>5. \A a, b \in Nat : b < a => 2 + b < 2 + a
      OBVIOUS
    <2>6. 2 + EngineLeft' < 2 + EngineLeft
      BY <2>2, <2>3, <2>5, <1>3
    <2>7. QED
      BY <2>4, <2>6
  <1>14. ASSUME Reflected
         PROVE  StepsToCome' < StepsToCome
    BY <1>14, <1>3, <1>4, <1>5 DEF Reflected
  <1>15. ASSUME NEW blocked, Respond(blocked)
         PROVE  StepsToCome' < StepsToCome
    BY <1>15, <1>4, <1>5 DEF Respond
  <1>16. ASSUME Fail
         PROVE  StepsToCome' < StepsToCome
    BY <1>16, <1>1, <1>2, <1>4, <1>5 DEF Fail, Choosing
  <1>17. QED
    BY <1>6, <1>7, <1>8, <1>9, <1>10, <1>11, <1>12, <1>13, <1>14, <1>15, <1>16 DEF Step

\* No request goes on for ever: through every fallback, correction and round of
\* reflection, what is left of it is a number that every step makes smaller and the
\* passing of a deadline leaves alone.
THEOREM RequestsRunOut ==
    Spec => [](StepsToCome \in Nat)
            /\ [][/\ Step \/ Fail => StepsToCome' < StepsToCome
                  /\ Expire => StepsToCome' = StepsToCome]_vars
  <1> DEFINE Counts == /\ Step \/ Fail => StepsToCome' < StepsToCome
                       /\ Expire => StepsToCome' = StepsToCome
  <1>1. Init => PhaseKnown
    BY DEF Init, C!Init, PhaseKnown, CorrectionSteps
  <1>2. Expire => StepsToCome' = StepsToCome
    BY DEF Expire, R!Expire, pipelineVars, cragVars, StepsToCome, EngineLeft, P!StepsLeft
  <1>3. IInv /\ PhaseKnown /\ [Next]_vars => [Counts]_vars
    BY <1>2, StepCounts
  <1>4. QED
    BY <1>1, <1>3, PhaseStays, StepsToComeIsNat, PipelineInvariance, PTL DEF Spec

=============================================================================
