---------------------------- MODULE RagPipeline -----------------------------
(***************************************************************************)
(* RAGService.answer after a cache miss: transform the query, retrieve,    *)
(* rerank, correct (CorrectiveRetrieval), guard the evidence, draft an     *)
(* answer, reflect on it (SelfReflection), guard the answer, and decide    *)
(* whether it may be cached.  Each stage has its own cohort, taken from    *)
(* one snapshot of the configuration, and its own way to fall back.        *)
(***************************************************************************)
EXTENDS Naturals, FiniteSets

CONSTANTS
    Local,                  \* policy chunks
    Web,                    \* regulatory web pages
    Flagged,                \* what the context guard would drop
    MinEvidence, MaxPieces, MaxIterations, MaxRetrievals, MaxTokens, MaxCost,
    MaxEvidence, PolicyMayIgnoreBudget

Chunks == Local \cup Web

ASSUME PipelineAssumption ==
    /\ IsFiniteSet(Local) /\ IsFiniteSet(Web) /\ Local \cap Web = {}
    /\ Flagged \subseteq Chunks
    /\ MinEvidence \in Nat \ {0} /\ MaxPieces \in Nat /\ MaxEvidence \in Nat \ {0}
    /\ MaxIterations \in Nat /\ MaxRetrievals \in Nat
    /\ MaxTokens \in Nat /\ MaxCost \in Nat
    /\ PolicyMayIgnoreBudget \in BOOLEAN

VARIABLES
    plan,       \* the cohorts and modes of this request
    stage,      \* where answer() is
    chunks,     \* retrieved, then reranked
    fellBack,   \* which of HyDE, the reranker and the draft were replaced
    crag,       \* the correction that is used, its evidence guarded
    draft,      \* answer_text before reflection
    final,      \* the reflection outcome that is used
    response,   \* what is served, and whether it is written to the caches
    cragPhase, cragCall, grade, found, pieces, correction,
    phase, late, given, state, action, judged, result

cragVars == <<cragPhase, cragCall, grade, found, pieces, correction>>
reflectionVars == <<phase, late, given, state, action, judged, result>>
pipelineVars == <<plan, stage, chunks, fellBack, crag, draft, final, response>>
vars == <<pipelineVars, cragVars, reflectionVars>>

C == INSTANCE CorrectiveRetrieval
R == INSTANCE SelfReflection

-----------------------------------------------------------------------------
(* The plans: one cohort per feature, from the snapshot and the question.   *)

\* A setting of one feature: on for this request, in shadow, sampled by its
\* rollout percentage.
Settings == [on : BOOLEAN, shadow : BOOLEAN, sampled : BOOLEAN]

\* "off" is disabled or in the control cohort, which differ only in what is
\* counted and in the namespace.
CohortOf(setting, emergency) ==
    CASE ~setting.on \/ emergency -> "off"
      [] setting.on /\ ~emergency /\ setting.shadow -> "shadow"
      [] OTHER -> IF setting.sampled THEN "treatment" ELSE "off"

\* Only a treatment may use the web, or retrieve during reflection.  Whether
\* HyDE and the reranker run matters to no later stage and is left open.
PlanOf(correct, reflect, emergency, web, more, mode) ==
    [crag        |-> CohortOf(correct, emergency),
     mayUseWeb   |-> web /\ CohortOf(correct, emergency) = "treatment",
     reflection  |-> CohortOf(reflect, emergency),
     mayRetrieve |-> more /\ CohortOf(reflect, emergency) = "treatment",
     mode        |-> mode]

Nothing == R!Outcome(R!Abstention, {}, FALSE, FALSE, FALSE)

Init ==
    /\ \E correct, reflect \in Settings, emergency, web, more \in BOOLEAN,
          mode \in {"enforce", "monitor"} :
          plan = PlanOf(correct, reflect, emergency, web, more, mode)
    /\ stage = "transform" /\ chunks = {}
    /\ fellBack = {}
    /\ crag = C!NoOp({})
    /\ draft = R!Abstention
    /\ final = Nothing
    /\ response = [answer |-> R!Abstention, evidence |-> {}, cached |-> FALSE]
    /\ C!Init /\ R!Init

-----------------------------------------------------------------------------
(* The stages.                                                              *)

\* A stage that fell back, if it did.
IfFailed(failed, name) == IF failed THEN {name} ELSE {}

\* HyDE, if it runs: the hypotheses, or after any error the question itself.
Transform(failed) ==
    /\ stage = "transform"
    /\ fellBack' = IfFailed(failed, "hyde")
    /\ stage' = "retrieve"
    /\ UNCHANGED <<plan, chunks, crag, draft, final, response, cragVars, reflectionVars>>

Retrieve(hits) ==
    /\ stage = "retrieve"
    /\ chunks' = hits
    /\ stage' = "rerank"
    /\ UNCHANGED <<plan, fellBack, crag, draft, final, response, cragVars, reflectionVars>>

\* The best of the wider pool, the first of it after an error, or everything;
\* without chunks the reranker is not called.
Rerank(kept, failed) ==
    /\ stage = "rerank"
    /\ kept \subseteq chunks
    /\ kept = {} => chunks = {} /\ ~failed
    /\ chunks' = kept
    /\ fellBack' = fellBack \cup IfFailed(failed, "reranker")
    /\ stage' = "correct"
    /\ UNCHANGED <<plan, crag, draft, final, response, cragVars, reflectionVars>>

\* The corrective retriever runs for a treatment, and for a shadow.
BeginCorrection(inScope) ==
    /\ stage = "correct"
    /\ plan.crag \in {"treatment", "shadow"}
    /\ C!Start(chunks, plan.mayUseWeb /\ inScope)
    /\ UNCHANGED <<pipelineVars, reflectionVars>>

Correct ==
    /\ stage = "correct"
    /\ C!Stage
    /\ UNCHANGED <<pipelineVars, reflectionVars>>

\* Mutant: the modes are mixed up.
GuardedInMonitor(evidence) ==
    IF plan.mode = "monitor" THEN evidence \ Flagged ELSE evidence

Guarded(evidence) ==
    IF plan.mode = "enforce" THEN evidence \ Flagged ELSE evidence

\* Mutant: the shadow's outcome is used.
CorrectedByShadow ==
    LET outcome == IF plan.crag = "off" THEN C!NoOp(chunks) ELSE correction
    IN  /\ stage = "correct"
        /\ plan.crag # "off" => cragPhase = "returned"
        /\ crag' = [outcome EXCEPT !.evidence = Guarded(outcome.evidence)]
        /\ stage' = "draft"
        /\ UNCHANGED <<plan, chunks, fellBack, draft, final, response, cragVars, reflectionVars>>

\* The outcome that is used once the corrective retriever has returned: a
\* shadow's is not.
Chosen == IF plan.crag = "treatment" THEN correction ELSE C!NoOp(chunks)

Choosing ==
    /\ stage = "correct"
    /\ plan.crag \in {"treatment", "shadow"} => cragPhase = "returned"

\* The context guard drops what it flags, and a correction that abstains is
\* answered without the model.
Corrected ==
    LET outcome == Chosen
    IN  /\ Choosing
        /\ crag' = [outcome EXCEPT !.evidence = Guarded(outcome.evidence)]
        /\ IF outcome.abstain
           THEN /\ stage' = "respond"
                /\ final' = R!Outcome(R!Abstention, Guarded(outcome.evidence),
                                      TRUE, FALSE, FALSE)
           ELSE stage' = "draft" /\ UNCHANGED final
        /\ UNCHANGED <<plan, chunks, fellBack, draft, response, cragVars, reflectionVars>>

\* The model drafts an answer; one that cites what it was not given is
\* replaced, and goes around reflection.
Draft(cites) ==
    LET fabricated == R!Fabricated(cites, crag.evidence)
        answer == IF fabricated
                  THEN R!Abstention
                  ELSE [kind |-> "draft", version |-> 0, cites |-> cites]
    IN  /\ stage = "draft"
        /\ draft' = answer
        /\ fellBack' = fellBack \cup IfFailed(fabricated, "draft")
        /\ IF plan.reflection \in {"treatment", "shadow"} /\ ~fabricated
           THEN /\ stage' = "reflect"
                /\ R!Start(answer, crag.evidence, plan.mayRetrieve)
                /\ UNCHANGED final
           ELSE /\ stage' = "respond"
                /\ final' = R!Outcome(answer, crag.evidence, TRUE, FALSE, FALSE)
                /\ UNCHANGED reflectionVars
        /\ UNCHANGED <<plan, chunks, crag, response, cragVars>>

Reflect ==
    /\ stage = "reflect"
    /\ R!Round
    /\ UNCHANGED <<pipelineVars, cragVars>>

Expire ==
    /\ stage = "reflect"
    /\ R!Expire
    /\ UNCHANGED <<pipelineVars, cragVars>>

\* Mutant: the answer after reflection with the evidence before it.
ReflectedAnswerOnly ==
    /\ stage = "reflect"
    /\ phase = "returned"
    /\ final' = [result EXCEPT !.evidence = crag.evidence]
    /\ stage' = "respond"
    /\ UNCHANGED <<plan, chunks, fellBack, crag, draft, response, cragVars, reflectionVars>>

\* Mutant: the draft of a reflection that failed is served.
ReflectedDraft ==
    /\ stage = "reflect"
    /\ phase = "returned"
    /\ final' = IF plan.reflection = "shadow"
                THEN R!Outcome(draft, crag.evidence, TRUE, FALSE, FALSE)
                ELSE result
    /\ stage' = "respond"
    /\ UNCHANGED <<plan, chunks, fellBack, crag, draft, response, cragVars, reflectionVars>>

\* A shadow's outcome is not used, and the draft of a reflection that failed
\* is not served.
Reflected ==
    /\ stage = "reflect"
    /\ phase = "returned"
    /\ final' = IF plan.reflection = "shadow"
                THEN R!Outcome(draft, crag.evidence, TRUE, FALSE, FALSE)
                ELSE IF result.fallback
                THEN [result EXCEPT !.answer = R!Abstention, !.abstain = TRUE]
                ELSE result
    /\ stage' = "respond"
    /\ UNCHANGED <<plan, chunks, fellBack, crag, draft, response, cragVars, reflectionVars>>

\* Mutant: the fallback of HyDE is forgotten.
DegradedDespiteHyDE ==
    \/ fellBack \ {"hyde"} # {}
    \/ crag.fallback \/ crag.webUsed \/ crag.abstain
    \/ final.fallback \/ final.abstain \/ ~final.accepted

\* pipeline_fallback, but for the output guard.
Degraded ==
    \/ fellBack # {}
    \/ crag.fallback \/ crag.webUsed \/ crag.abstain
    \/ final.fallback \/ final.abstain \/ ~final.accepted

\* The output guard may block the answer when it is enforced.
Respond(blocked) ==
    /\ stage = "respond"
    /\ blocked => plan.mode = "enforce"
    /\ response' = [answer   |-> IF blocked THEN R!Abstention ELSE final.answer,
                    evidence |-> final.evidence,
                    cached   |-> ~Degraded /\ ~blocked]
    /\ stage' = "answered"
    /\ UNCHANGED <<plan, chunks, fellBack, crag, draft, final, cragVars, reflectionVars>>

\* The embedding of the question, the retrieval and the drafting model have
\* nothing to fall back on, and neither have the guards when they cannot write
\* down what they dropped, redacted, blocked or would have blocked: the request
\* fails, even with its answer made.
Fail ==
    /\ \/ stage \in {"transform", "retrieve", "draft", "respond"}
       \/ Choosing /\ Guarded(Chosen.evidence) # Chosen.evidence
    /\ stage' = "failed"
    /\ UNCHANGED <<plan, chunks, fellBack, crag, draft, final, response, cragVars, reflectionVars>>

-----------------------------------------------------------------------------
Step ==
    \/ \E failed \in BOOLEAN : Transform(failed)
    \/ \E hits \in SUBSET Local : Retrieve(hits)
    \/ \E kept \in SUBSET Local, failed \in BOOLEAN : Rerank(kept, failed)
    \/ \E inScope \in BOOLEAN : BeginCorrection(inScope)
    \/ Correct
    \/ Corrected
    \/ \E cites \in SUBSET Chunks : Draft(cites)
    \/ Reflect
    \/ Reflected
    \/ \E blocked \in BOOLEAN : Respond(blocked)

Next == Step \/ Expire \/ Fail

Spec == Init /\ [][Next]_vars

\* Every call of a stage has a timeout, so the stage goes on or fails.
FairSpec == Spec /\ WF_vars(Step)

-----------------------------------------------------------------------------
TypeOK ==
    /\ plan \in [crag : {"off", "shadow", "treatment"},
                 mayUseWeb : BOOLEAN,
                 reflection : {"off", "shadow", "treatment"},
                 mayRetrieve : BOOLEAN, mode : {"enforce", "monitor"}]
    /\ plan.mayUseWeb => plan.crag = "treatment"
    /\ plan.mayRetrieve => plan.reflection = "treatment"
    /\ stage \in {"transform", "retrieve", "rerank", "correct", "draft",
                  "reflect", "respond", "answered", "failed"}
    /\ chunks \subseteq Local
    /\ fellBack \subseteq {"hyde", "reranker", "draft"}
    /\ crag \in [evidence : SUBSET Chunks, decision : C!Decisions,
                 fallback : BOOLEAN, abstain : BOOLEAN, webUsed : BOOLEAN]
    /\ draft \in R!Answers
    /\ final \in [answer : R!Answers, evidence : SUBSET Chunks,
                  accepted : BOOLEAN, fallback : BOOLEAN, abstain : BOOLEAN]
    /\ response \in [answer : R!Answers, evidence : SUBSET Chunks,
                     cached : BOOLEAN]

\* What the caches keep was made by every stage of its plan: no stage before
\* the answer fell back; a treatment's correction graded the chunks, extracted
\* enough from them without the web (whose state is not in the namespace), and
\* the evidence is what it extracted, unless a second retrieval added to it; a
\* treatment's reflection accepted the answer; and no abstention is kept.
CachedIsWhatThePlanSays ==
    response.cached =>
        /\ response.answer.kind # "abstention"
        /\ response.evidence \subseteq Local
        /\ fellBack = {}
        /\ plan.crag = "treatment" =>
              /\ correction.decision # "none" /\ ~correction.fallback
              /\ found \cap Web = {} /\ pieces.local >= MinEvidence
              /\ state.retrievals = 0 => response.evidence \subseteq found
        /\ plan.reflection = "treatment" => result.accepted /\ ~result.fallback

\* Whatever path a request takes, an answer served with evidence cites only
\* that evidence: never the answer before reflection with the evidence after
\* it, or the other way round.
ServedCitesItsEvidence ==
    stage = "answered" =>
        ~R!Fabricated(response.answer.cites, response.evidence)

\* "A fabricated citation (a bracket citing a source/page never actually
\* supplied) is a hard-safety issue on its own": no answer is served that cites
\* what the model was never given, with evidence or without.
NothingFabricatedIsServed ==
    stage = "answered" => response.answer.cites \subseteq response.evidence

\* A shadow never changes what is served: the evidence is what there would be
\* without correction, the answer is the draft, and neither the web nor a
\* second retrieval is used while observing.
ShadowChangesNothing ==
    /\ plan.crag = "shadow" =>
          /\ found \cap Web = {}
          /\ stage \in {"draft", "reflect", "respond", "answered"} =>
                crag = C!NoOp(Guarded(chunks))
    /\ plan.reflection = "shadow" =>
          /\ state.retrievals = 0
          /\ stage = "answered" =>
                /\ response.evidence = crag.evidence
                /\ response.answer \in {draft, R!Abstention}

\* "the draft was never actually checked against evidence, so it can never be
\* trusted enough to serve as-is": with reflection on for a request, the answer
\* it serves is one the last critique passed together with its evidence, or
\* a fixed abstention.
CheckedOrAbstained ==
    stage = "answered" /\ plan.reflection = "treatment"
        /\ response.answer # R!Abstention =>
            /\ judged.passed
            /\ response.answer = judged.answer
            /\ response.evidence = judged.evidence

\* A web page is evidence only in a treatment that may use the web, only when
\* the extracted policy evidence was not enough, and an answer drafted from
\* the web is one whose combination was graded as correct.
WebIsTheLastResort ==
    (crag.evidence \cup response.evidence) \cap Web # {} =>
        /\ plan.crag = "treatment" /\ plan.mayUseWeb /\ cragCall.mayUseWeb
        /\ pieces.local < MinEvidence
        /\ crag.webUsed
        /\ response.answer # R!Abstention => ~crag.abstain

\* "INCORRECT requires zero such chunks": a decision that the retrieval was
\* incorrect leaves no policy evidence, so nothing is drafted from it.
IncorrectDraftsNothingLocal ==
    crag.decision = "incorrect" =>
        /\ crag.evidence \cap Local = {}
        /\ stage = "draft" => crag.webUsed

\* With the guard enforced, no model is asked about evidence it drops, and
\* none is served, unless reflection itself retrieved more.
GuardedEvidence ==
    plan.mode = "enforce" /\ state.retrievals = 0 =>
        (crag.evidence \cup state.evidence \cup response.evidence)
            \cap Flagged = {}

\* What is drafted from and served was let in by every stage that had to: the
\* web as the last resort, nothing local after an incorrect retrieval, nothing
\* the enforced guard drops.
EvidenceIsVetted ==
    WebIsTheLastResort /\ IncorrectDraftsNothingLocal /\ GuardedEvidence

\* "Abstention is a deterministic response, never an LLM guess filling an
\* evidence gap": after a correction, the model is only asked with evidence.
NoGuess ==
    stage = "draft" /\ plan.crag = "treatment" => crag.evidence # {}

\* Every request that does not fail is answered.
Answers == (stage = "transform") ~> (stage \in {"answered", "failed"})

=============================================================================
