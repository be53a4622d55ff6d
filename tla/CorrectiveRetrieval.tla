------------------------ MODULE CorrectiveRetrieval -------------------------
(***************************************************************************)
(* One run of the corrective retriever (CRAG): grade the retrieved chunks, *)
(* keep what the refiner extracts from those that clear the bar, and only  *)
(* if that is too little, and the question is in scope, search the         *)
(* regulatory web and grade the combination again; all of it inside an     *)
(* availability boundary.                                                  *)
(*                                                                         *)
(* A piece of evidence is known by the chunk or web page it is extracted   *)
(* from.  The refiner may extract several pieces from one, and the         *)
(* thresholds count pieces, so their number is kept beside the set.  Of    *)
(* the grader's scores what counts is kept: which chunks clear the bar     *)
(* (they support the question and are at least ambiguously relevant) and   *)
(* whether the coverage is below both thresholds, between, or above.       *)
(***************************************************************************)
EXTENDS Naturals, FiniteSets

CONSTANTS
    Local,        \* policy chunks
    Web,          \* regulatory web pages
    MinEvidence,  \* crag_min_evidence_chunks
    MaxPieces     \* bound: pieces extracted at a time

VARIABLES
    cragPhase,    \* where correct() is
    cragCall,     \* its arguments: the chunks, and whether the web may be used
    grade,        \* the grader's decision and the chunks that clear the bar
    found,        \* what evidence was extracted from so far
    pieces,       \* how many pieces: from policy chunks, from the web
    correction    \* CRAGOutcome

cragVars == <<cragPhase, cragCall, grade, found, pieces, correction>>

-----------------------------------------------------------------------------
Decisions == {"none", "correct", "ambiguous", "incorrect"}

Coverages == {"low", "middle", "high"}

\* Mutant: incorrect by the coverage alone.
GradeByCoverage(coverage, clearing) ==
    CASE coverage = "high" /\ clearing # {} -> "correct"
      [] coverage = "low" -> "incorrect"
      [] OTHER -> "ambiguous"

GradeOf(coverage, clearing) ==
    CASE coverage = "high" /\ clearing # {} -> "correct"
      [] coverage = "low" /\ clearing = {} -> "incorrect"
      [] OTHER -> "ambiguous"

CRAGOutcome(evidence, decision, fallback, abstain, webUsed) ==
    [evidence |-> evidence, decision |-> decision, fallback |-> fallback,
     abstain |-> abstain, webUsed |-> webUsed]

\* PlannedNoOpCorrectiveRetriever: the chunks as they are.
NoOp(chunks) == CRAGOutcome(chunks, "none", FALSE, FALSE, FALSE)

Init ==
    /\ cragPhase = "idle"
    /\ cragCall = [chunks |-> {}, mayUseWeb |-> FALSE]
    /\ grade = [decision |-> "none", clearing |-> {}]
    /\ found = {}
    /\ pieces = [local |-> 0, web |-> 0]
    /\ correction = NoOp({})

Done(outcome) == cragPhase' = "returned" /\ correction' = outcome

\* mayUseWeb: the plan allows the web, a web retriever is configured, and the
\* scope policy permits it for this question.
Start(chunks, mayUseWeb) ==
    /\ cragPhase = "idle"
    /\ cragPhase' = "grading"
    /\ cragCall' = [chunks |-> chunks, mayUseWeb |-> mayUseWeb]
    /\ UNCHANGED <<grade, found, pieces, correction>>

\* Without chunks the grader does not ask the model.
Grade(coverage, clearing) ==
    /\ cragPhase = "grading"
    /\ clearing \subseteq cragCall.chunks
    /\ cragCall.chunks = {} => coverage = "low"
    /\ grade' = [decision |-> GradeOf(coverage, clearing), clearing |-> clearing]
    /\ cragPhase' = "refining"
    /\ UNCHANGED <<cragCall, found, pieces, correction>>

\* So many pieces may be extracted from these sources: at least one from each.
Counts(sources, count) ==
    /\ count >= Cardinality(sources)
    /\ sources = {} => count = 0

\* Mutant: the gate is the decision about the coverage.
RefineLocalByDecision(extracted, count) ==
    /\ cragPhase = "refining"
    /\ extracted \subseteq grade.clearing
    /\ Counts(extracted, count)
    /\ found' = extracted
    /\ pieces' = [pieces EXCEPT !.local = count]
    /\ IF grade.decision = "correct"
       THEN Done(CRAGOutcome(extracted, grade.decision, FALSE, FALSE, FALSE))
       ELSE IF cragCall.mayUseWeb
       THEN cragPhase' = "searching" /\ UNCHANGED correction
       ELSE Done(CRAGOutcome(extracted, grade.decision, FALSE, TRUE, FALSE))
    /\ UNCHANGED <<cragCall, grade>>

\* The gate is the evidence extracted, not the decision about the coverage.
RefineLocal(extracted, count) ==
    /\ cragPhase = "refining"
    /\ extracted \subseteq grade.clearing
    /\ Counts(extracted, count)
    /\ found' = extracted
    /\ pieces' = [pieces EXCEPT !.local = count]
    /\ IF count >= MinEvidence
       THEN Done(CRAGOutcome(extracted, grade.decision, FALSE, FALSE, FALSE))
       ELSE IF cragCall.mayUseWeb
       THEN cragPhase' = "searching" /\ UNCHANGED correction
       ELSE Done(CRAGOutcome(extracted, grade.decision, FALSE, TRUE, FALSE))
    /\ UNCHANGED <<cragCall, grade>>

\* The query formulator fails open, so it cannot be told from here.
SearchWeb(pages, count) ==
    /\ cragPhase = "searching"
    /\ Counts(pages, count)
    /\ found' = found \cup pages
    /\ pieces' = [pieces EXCEPT !.web = count]
    /\ IF pages = {}
       THEN Done(CRAGOutcome(found, grade.decision, FALSE, TRUE, FALSE))
       ELSE cragPhase' = "verifying" /\ UNCHANGED correction
    /\ UNCHANGED <<cragCall, grade>>

\* The combination is graded again; the outcome keeps the first decision.
Verify(coverage, clearing) ==
    /\ cragPhase = "verifying"
    /\ clearing \subseteq found
    /\ Done(CRAGOutcome(found, grade.decision, FALSE,
                        ~(/\ GradeOf(coverage, clearing) = "correct"
                          /\ pieces.local + pieces.web >= MinEvidence),
                        TRUE))
    /\ UNCHANGED <<cragCall, grade, found, pieces>>

\* FailSafeCorrectiveRetriever: the original chunks, or an abstention if there
\* are none.  Without chunks neither the grader nor the refiner calls anything.
Fails ==
    /\ \/ cragPhase = "grading" /\ cragCall.chunks # {}
       \/ cragPhase = "refining" /\ grade.clearing # {}
       \/ cragPhase \in {"searching", "verifying"}
    /\ Done(CRAGOutcome(cragCall.chunks, "none", TRUE, cragCall.chunks = {}, FALSE))
    /\ UNCHANGED <<cragCall, grade, found, pieces>>

Stage ==
    \/ \E coverage \in Coverages, clearing \in SUBSET Local :
          Grade(coverage, clearing)
    \/ \E extracted \in SUBSET Local, count \in 0..MaxPieces : RefineLocal(extracted, count)
    \/ \E pages \in SUBSET Web, count \in 0..MaxPieces : SearchWeb(pages, count)
    \/ \E coverage \in Coverages, clearing \in SUBSET (Local \cup Web) :
          Verify(coverage, clearing)
    \/ Fails

=============================================================================
