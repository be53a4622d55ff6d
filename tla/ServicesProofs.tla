--------------------------- MODULE ServicesProofs ---------------------------
(***************************************************************************)
(* What the small services around an answer promise, for any clients,      *)
(* limits, windows and collections: the LLM and the embedding client, the  *)
(* rate limiter, the metrics, the semantic cache's collection, the         *)
(* migration script and the wiring of a worker.                            *)
(*                                                                         *)
(* The services share no state, so each part is a development of its own:  *)
(* what a caller knows at each of its points, the invariant made of it,    *)
(* one lemma that the steps keep it, and the theorem.                      *)
(***************************************************************************)
EXTENDS LlmCalls, EmbeddingCalls, RateLimiter, RagMetrics, SemanticCollection,
        CollectionMigration, WorkerWiring, FiniteSetTheorems, SequenceTheorems, TLAPS

-----------------------------------------------------------------------------
\* The LLM client: attempts, backoffs and one deadline.

\* What the loop knows at its top, in an attempt and in a backoff: which attempt it is
\* in, what the last one met, and that the time an attempt may take is still there.
LlmProgress ==
    /\ llm.attempt <= llm.max
    /\ llm.pc = "idle" => llm_clock = 0 /\ llm.asked = 0 /\ llm.outcome = "none"
                          /\ llm.attempt = 1 /\ llm.error = "none"
    /\ llm.pc = "start" => /\ llm.asked = llm.attempt - 1
                           /\ llm.error = IF llm.attempt = 1 THEN "none" ELSE "transient"
    /\ llm.pc = "asking" => /\ llm.asked = llm.attempt
                            /\ Structured => llm_clock + llm.timeout <= llm.total
    /\ llm.pc = "backoff" => /\ llm.asked = llm.attempt /\ llm.attempt # llm.max
                             /\ llm.error = "transient"
    /\ llm.pc # "over" => llm.outcome = "none"

LlmInv == LlmTypeOK /\ LlmProgress /\ EndsInTime /\ GivesUpForAReason

\* What the settings of the client are.
LEMMA LlmConstants ==
    /\ \A t \in Totals : t \in Nat /\ t # NoLimit
    /\ \A m \in MaxAttempts : m \in Nat /\ 1 <= m
    /\ ClientTimeout \in Nat /\ BackoffUnit \in Nat
BY LlmAssumption

\* The numbers of a call.
LEMMA LlmTypes ==
    ASSUME LlmTypeOK
    PROVE  /\ llm.total \in Nat /\ llm.timeout \in Nat /\ llm_clock \in Nat
           /\ llm.attempt \in Nat /\ 1 <= llm.attempt /\ llm.max \in Nat
<1>1. llm.total \in Totals \union {NoLimit}
  BY DEF LlmTypeOK
<1>2. llm.total \in Nat
  BY <1>1, LlmConstants DEF NoLimit
<1>3. llm.attempt \in Nat \ {0}
  BY DEF LlmTypeOK
<1>4. llm.max \in MaxAttempts \union {1}
  BY DEF LlmTypeOK
<1>5. llm.max \in Nat
  BY <1>4, LlmConstants
<1> QED  BY <1>2, <1>3, <1>5 DEF LlmTypeOK

\* A sleep is never longer than what is left of the deadline.
LEMMA PauseFits ==
    ASSUME LlmTypeOK, ~NoTimeLeft
    PROVE  Pause \in Nat /\ (Structured => llm_clock + Pause <= llm.total)
<1>1. \A m, n \in Nat : m * n \in Nat
  OBVIOUS
<1>2. BackoffUnit * llm.attempt \in Nat
  BY <1>1, LlmConstants, LlmTypes
<1> QED  BY <1>2, LlmTypes DEF Pause, AtMost, NoTimeLeft, Remaining

\* An attempt is given no more than what is left of the deadline (_attempt_timeout).
LEMMA ClampFits ==
    ASSUME LlmTypeOK, ~NoTimeLeft
    PROVE  Clamped \in Nat /\ (Structured => llm_clock + Clamped <= llm.total)
BY LlmTypes DEF Clamped, AtMost, NoTimeLeft, Remaining

\* Before the first call the invariant of the client holds.
LEMMA LlmInitInv == LlmInit => LlmInv
BY LlmConstants DEF LlmInit, LlmInv, LlmTypeOK, LlmProgress, EndsInTime, GivesUpForAReason,
   NoCall, Errors, Outcomes, Structured, NoLimit

\* Every step of the retry loop keeps it.
LEMMA LlmNextInv == LlmInv /\ [LlmNext]_llm_vars => LlmInv'
<1> SUFFICES ASSUME LlmInv, [LlmNext]_llm_vars PROVE LlmInv'
  OBVIOUS
<1> USE LlmConstants DEF LlmInv
<1>0. /\ llm.total \in Nat /\ llm.timeout \in Nat /\ llm_clock \in Nat /\ llm.asked + 1 \in Nat
      /\ llm.attempt \in Nat /\ 1 <= llm.attempt /\ llm.attempt + 1 \in Nat \ {0}
      /\ llm.max \in Nat
  BY LlmTypes DEF LlmTypeOK
<1>1. ASSUME NEW max \in MaxAttempts, GenerateText(max) PROVE LlmInv'
  <2>1. llm' = [pc |-> "start", total |-> NoLimit, max |-> max, attempt |-> 1,
                  timeout |-> ClientTimeout, error |-> "none", outcome |-> "none", asked |-> 0]
        /\ llm_clock' = llm_clock /\ llm.pc = "idle"
    BY <1>1 DEF GenerateText, NoCall
  <2>7. LlmTypeOK'
    BY <2>1 DEF LlmTypeOK, Errors, Outcomes, NoLimit
  <2>8. LlmProgress'
    BY <2>1 DEF LlmProgress, Structured
  <2>9. EndsInTime' /\ GivesUpForAReason'
    BY <2>1 DEF LlmProgress, EndsInTime, GivesUpForAReason, Structured, NoLimit
  <2> QED  BY <2>7, <2>8, <2>9
<1>2. ASSUME NEW max \in MaxAttempts, NEW total \in Totals, GenerateStructured(total, max)
      PROVE  LlmInv'
  <2>1. llm' = [pc |-> "start", total |-> total, max |-> max, attempt |-> 1,
                  timeout |-> total, error |-> "none", outcome |-> "none", asked |-> 0]
        /\ llm_clock' = llm_clock /\ llm.pc = "idle"
    BY <1>2 DEF GenerateStructured, NoCall
  <2>7. LlmTypeOK'
    BY <2>1 DEF LlmTypeOK, Errors, Outcomes, NoLimit
  <2>8. LlmProgress'
    BY <2>1 DEF LlmProgress, Structured
  <2>9. EndsInTime' /\ GivesUpForAReason'
    BY <2>1 DEF LlmProgress, EndsInTime, GivesUpForAReason, Structured, NoLimit
  <2> QED  BY <2>7, <2>8, <2>9
<1>3. CASE OutOfTime
  <2>6. llm_clock' \in Nat
    BY <1>3, <1>0 DEF OutOfTime, Ends, NoTimeLeft, Remaining, LlmTypeOK
  <2>7. LlmTypeOK'
    BY <1>3, <2>6, <1>0 DEF OutOfTime, Ends, NoTimeLeft, Remaining, LlmTypeOK, Errors, Outcomes
  <2>8. LlmProgress'
    BY <1>3, <1>0 DEF OutOfTime, Ends, NoTimeLeft, Remaining, LlmProgress, Structured, Errors
  <2>9. EndsInTime' /\ GivesUpForAReason'
    BY <1>3, <1>0 DEF OutOfTime, Ends, NoTimeLeft, Remaining, LlmProgress, EndsInTime,
       GivesUpForAReason, Structured, Errors
  <2> QED  BY <2>7, <2>8, <2>9
<1>4. CASE StartAttempt
  <2>1. Clamped \in Nat /\ (Structured => llm_clock + Clamped <= llm.total)
    BY <1>4, ClampFits DEF StartAttempt
  <2>2. /\ llm.pc = "start" /\ llm_clock' = llm_clock
        /\ llm' = [llm EXCEPT !.pc = "asking", !.timeout = Clamped, !.asked = @ + 1]
    BY <1>4 DEF StartAttempt
  <2>6. llm_clock' \in Nat
    BY <2>1, <2>2, <1>0 DEF LlmTypeOK
  <2>7. LlmTypeOK'
    BY <2>1, <2>2, <2>6, <1>0 DEF LlmTypeOK, Errors, Outcomes
  <2>8. LlmProgress'
    BY <2>1, <2>2, <1>0 DEF LlmProgress, Structured, Errors
  <2>9. EndsInTime' /\ GivesUpForAReason'
    BY <2>1, <2>2, <1>0 DEF LlmProgress, EndsInTime, GivesUpForAReason, Structured, Errors
  <2> QED  BY <2>7, <2>8, <2>9
<1>5. CASE Backoff /\ NoTimeLeft
  <2>1. /\ llm.pc = "backoff" /\ llm_clock' = llm_clock /\ NoTimeLeft
        /\ llm' = [llm EXCEPT !.pc = "over", !.outcome = "raised"]
    BY <1>5 DEF Backoff, Ends
  <2>6. llm_clock' \in Nat
    BY <2>1, <1>0 DEF NoTimeLeft, Remaining, LlmTypeOK
  <2>7. LlmTypeOK'
    BY <2>1, <2>6, <1>0 DEF NoTimeLeft, Remaining, LlmTypeOK, Errors, Outcomes
  <2>8. LlmProgress'
    BY <2>1, <1>0 DEF NoTimeLeft, Remaining, LlmProgress, Structured, Errors
  <2>9. EndsInTime' /\ GivesUpForAReason'
    BY <2>1, <1>0 DEF NoTimeLeft, Remaining, LlmProgress, EndsInTime, GivesUpForAReason,
       Structured, Errors
  <2> QED  BY <2>7, <2>8, <2>9
<1>6. CASE Backoff /\ ~NoTimeLeft
  <2>1. Pause \in Nat /\ (Structured => llm_clock + Pause <= llm.total)
    BY <1>6, PauseFits
  <2>2. /\ llm.pc = "backoff" /\ llm_clock' = llm_clock + Pause
        /\ llm' = [llm EXCEPT !.pc = "start", !.attempt = @ + 1]
    BY <1>6 DEF Backoff
  <2>6. llm_clock' \in Nat
    BY <2>1, <2>2, <1>0 DEF LlmTypeOK
  <2>7. LlmTypeOK'
    BY <2>1, <2>2, <2>6, <1>0 DEF LlmTypeOK, Errors, Outcomes
  <2>3. /\ llm.asked = llm.attempt /\ llm.error = "transient" /\ llm.outcome = "none"
        /\ llm.attempt < llm.max
    BY <2>2, <1>0 DEF LlmProgress
  <2>4. /\ llm'.pc = "start" /\ llm'.attempt = llm.attempt + 1 /\ llm'.asked = llm.asked
        /\ llm'.error = llm.error /\ llm'.outcome = llm.outcome /\ llm'.max = llm.max
    BY <2>2 DEF LlmTypeOK
  <2>8. LlmProgress'
    BY <2>3, <2>4, <1>0 DEF LlmProgress
  <2>9. EndsInTime' /\ GivesUpForAReason'
    BY <2>1, <2>2, <1>0 DEF LlmProgress, EndsInTime, GivesUpForAReason, Structured, Errors
  <2> QED  BY <2>7, <2>8, <2>9
<1>7. ASSUME NEW d \in 0..llm.timeout, NEW reply \in Replies, Answer(d, reply) PROVE LlmInv'
  <2>1. d \in Nat /\ d <= llm.timeout
    BY LlmTypes
  <2>2. /\ llm.pc = "asking" /\ llm_clock' = llm_clock + d
        /\ \E outcome \in {"answered", "rejected"} :
              llm' = [llm EXCEPT !.pc = "over", !.outcome = outcome]
    BY <1>7 DEF Answer, Ends
  <2>6. llm_clock' \in Nat
    BY <2>1, <2>2, <1>0 DEF LlmTypeOK
  <2>7. LlmTypeOK'
    BY <2>1, <2>2, <2>6, <1>0 DEF LlmTypeOK, Errors, Outcomes
  <2>8. LlmProgress'
    BY <2>1, <2>2, <1>0 DEF LlmProgress, Structured, Errors
  <2>9. EndsInTime' /\ GivesUpForAReason'
    BY <2>1, <2>2, <1>0 DEF LlmProgress, EndsInTime, GivesUpForAReason, Structured, Errors
  <2> QED  BY <2>7, <2>8, <2>9
<1>8. ASSUME NEW d \in 0..llm.timeout, NEW error \in Errors \ {"none"}, Fails(d, error),
             ~(~Transient(error) \/ llm.attempt = llm.max)
      PROVE  LlmInv'
  <2>1. d \in Nat /\ d <= llm.timeout /\ error \in {"transient", "permanent"}
    BY <1>0 DEF Errors
  <2>2. /\ llm.pc = "asking" /\ llm_clock' = llm_clock + d
        /\ ~(error # "transient" \/ llm.attempt = llm.max)
        /\ llm' = [llm EXCEPT !.error = error, !.pc = "backoff", !.outcome = "none"]
    BY <1>8 DEF Fails, Transient
  <2>6. llm_clock' \in Nat
    BY <2>1, <2>2, <1>0 DEF LlmTypeOK
  <2>7. LlmTypeOK'
    BY <2>1, <2>2, <2>6, <1>0 DEF LlmTypeOK, Errors, Outcomes
  <2>8. LlmProgress'
    BY <2>1, <2>2, <1>0 DEF LlmProgress, Structured, Errors
  <2>9. EndsInTime' /\ GivesUpForAReason'
    BY <2>1, <2>2, <1>0 DEF LlmProgress, EndsInTime, GivesUpForAReason, Structured, Errors
  <2> QED  BY <2>7, <2>8, <2>9
<1>9. ASSUME NEW d \in 0..llm.timeout, NEW error \in Errors \ {"none"}, Fails(d, error),
             (~Transient(error) \/ llm.attempt = llm.max)
      PROVE  LlmInv'
  <2>1. d \in Nat /\ d <= llm.timeout /\ error \in {"transient", "permanent"}
    BY <1>0 DEF Errors
  <2>2. /\ llm.pc = "asking" /\ llm_clock' = llm_clock + d
        /\ (error # "transient" \/ llm.attempt = llm.max)
        /\ llm' = [llm EXCEPT !.error = error, !.pc = "over", !.outcome = "raised"]
    BY <1>9 DEF Fails, Transient
  <2>6. llm_clock' \in Nat
    BY <2>1, <2>2, <1>0 DEF LlmTypeOK
  <2>7. LlmTypeOK'
    BY <2>1, <2>2, <2>6, <1>0 DEF LlmTypeOK, Errors, Outcomes
  <2>8. LlmProgress'
    BY <2>1, <2>2, <1>0 DEF LlmProgress, Structured, Errors
  <2>9. EndsInTime' /\ GivesUpForAReason'
    BY <2>1, <2>2, <1>0 DEF LlmProgress, EndsInTime, GivesUpForAReason, Structured, Errors
  <2> QED  BY <2>7, <2>8, <2>9
<1>10. CASE UNCHANGED llm_vars
  BY <1>10 DEF llm_vars, LlmTypeOK, LlmProgress, EndsInTime, GivesUpForAReason, Structured
<1> QED  BY <1>1, <1>2, <1>3, <1>4, <1>5, <1>6, <1>7, <1>8, <1>9, <1>10
    DEF LlmNext, LlmStep

\* If no attempt outlasts its timeout, a structured call ends within its total timeout,
\* attempts and sleeps together; and a call gives up only for a permanent error, after its
\* last attempt or with its deadline used up, by a shortened backoff if need be
\* (chat_client._invoke_with_retry), whatever the timeouts and the backoff are.
THEOREM LlmKeepsItsDeadline == LlmSpec => []DeadlineKept
<1>1. LlmInv => DeadlineKept
  BY DEF LlmInv, DeadlineKept
<1> QED  BY LlmInitInv, LlmNextInv, <1>1, PTL DEF LlmSpec

-----------------------------------------------------------------------------
\* The embedding client: the texts asked for, the misses, the vectors stored.

EmbedPoints == {"idle", "reading", "asking", "storing", "checking", "returned", "raised"}
Vectors == Vector \union {NoVector}

EmbedCalls == [pc : EmbedPoints, model : EmbedModels \union {NotAsked.model},
          texts : Seq(EmbedTexts), results : Seq(Vectors), misses : Seq(EmbedTexts),
          pending : SUBSET Nat, attempt : Nat, cause : {"none", "api", "gap", "cache"}]

OwnVector(e, i) == e.results[i] = <<e.model, e.texts[i]>>
InPlace(e) == \A i \in DOMAIN e.results : e.results[i] = NoVector \/ OwnVector(e, i)
Distinct(s) == \A i, j \in DOMAIN s : s[i] = s[j] => i = j
Gaps(e) == (\E i \in DOMAIN e.results : e.results[i] = NoVector) => e.misses # <<>>

\* What holds of a call at every point of it: what is in a place is that place's vector, a
\* place that is empty has been noted, and no text has been noted twice.
CallLinesUp(e) ==
    /\ e \in EmbedCalls
    /\ e.pc # "idle" => e.model \in EmbedModels
    /\ e.pending \subseteq DOMAIN e.misses
    /\ InPlace(e) /\ Gaps(e) /\ Distinct(e.misses)
    /\ Len(e.results) <= Len(e.texts)
    /\ e.pc \notin {"idle", "reading"} => Len(e.results) = Len(e.texts)
    /\ e.pc # "raised" => e.attempt <= EmbedAttempts
    /\ e.pc = "returned" => Complete(e.results)
    /\ e.pc = "raised" => \/ e.cause = "api" /\ e.attempt = EmbedAttempts + 1
                          \/ e.cause = "gap" /\ e.misses # <<>>

\* Every entry of the cache is the vector of its key.
KeysOwn == \A key \in DOMAIN embedded : key \in Vector /\ embedded[key] = key

EmbedInv ==
    /\ KeysOwn
    /\ embed \in [EmbedCallers -> EmbedCalls]
    /\ \A c \in EmbedCallers : CallLinesUp(embed[c])

\* No vector is taken for a missing one.
LEMMA VectorsAreThere == \A v \in Vector : v # NoVector
BY DEF Vector, NoVector

\* What is asked for are texts.
LEMMA InputsAreTexts == Inputs \subseteq Seq(EmbedTexts)
BY DEF Inputs

\* A text is added to the misses once.
LEMMA MissesStayDistinct ==
    ASSUME NEW misses \in Seq(EmbedTexts), NEW text \in EmbedTexts, Distinct(misses)
    PROVE  /\ WithMiss(misses, text) \in Seq(EmbedTexts)
           /\ Distinct(WithMiss(misses, text))
           /\ WithMiss(misses, text) # <<>>
           /\ DOMAIN misses \subseteq DOMAIN WithMiss(misses, text)
<1>1. CASE \E i \in DOMAIN misses : misses[i] = text
  BY <1>1 DEF WithMiss
<1>2. CASE ~\E i \in DOMAIN misses : misses[i] = text
  <2>1. WithMiss(misses, text) = Append(misses, text)
    BY <1>2 DEF WithMiss
  <2> QED  BY <1>2, <2>1 DEF Distinct
<1> QED  BY <1>1, <1>2

\* A step of a call that takes e to f, the call of c, keeps the invariant if f lines up.
LEMMA OneCallMoves ==
    ASSUME EmbedInv, NEW c \in EmbedCallers, NEW f, CallLinesUp(f), KeysOwn',
           embed' = [embed EXCEPT ![c] = f]
    PROVE  EmbedInv'
<1>1. f \in EmbedCalls
  BY DEF CallLinesUp
<1>2. embed' \in [EmbedCallers -> EmbedCalls]
  BY <1>1 DEF EmbedInv
<1>3. ASSUME NEW d \in EmbedCallers PROVE CallLinesUp(embed'[d])
  BY <1>1 DEF EmbedInv
<1>4. \A d \in EmbedCallers : CallLinesUp(embed[d])'
  BY <1>3 DEF CallLinesUp, EmbedCalls, InPlace, OwnVector, Gaps, Distinct, Complete
<1> QED  BY <1>2, <1>4 DEF EmbedInv

\* A call that was not made is well formed.
LEMMA NotAskedIsACall == NotAsked \in EmbedCalls
BY EmbedAssumption DEF NotAsked, EmbedCalls, EmbedPoints

\* Before the first call no vector is cached and the invariant holds.
LEMMA EmbedInitInv == EmbedInit => EmbedInv
<1> SUFFICES ASSUME EmbedInit PROVE EmbedInv
  OBVIOUS
<1>1. NotAsked \in EmbedCalls
  BY NotAskedIsACall
<1>2. CallLinesUp(NotAsked)
  BY <1>1, EmbedAssumption DEF NotAsked, CallLinesUp, InPlace, Gaps, Distinct
<1> QED  BY <1>1, <1>2 DEF EmbedInit, EmbedInv, KeysOwn

\* Reading the cache, asking, storing and checking keep it, whatever the API leaves out.
LEMMA EmbedNextInv == EmbedInv /\ [EmbedNext]_embed_vars => EmbedInv'
<1> SUFFICES ASSUME EmbedInv, [EmbedNext]_embed_vars PROVE EmbedInv'
  OBVIOUS
<1> USE DEF EmbedInv
<1>0. \A c \in EmbedCallers : CallLinesUp(embed[c]) /\ embed[c] \in EmbedCalls
  OBVIOUS
<1>1. ASSUME NEW c \in EmbedCallers, NEW model \in EmbedModels, NEW texts \in Inputs,
             EmbedTextsOf(c, model, texts)
      PROVE  EmbedInv'
  <2> DEFINE f == [NotAsked EXCEPT !.pc = "reading", !.model = model, !.texts = texts]
  <2>1. embed' = [embed EXCEPT ![c] = f] /\ KeysOwn'
    BY <1>1 DEF EmbedTextsOf, KeysOwn
  <2>2. /\ f \in EmbedCalls /\ f.pc = "reading" /\ f.model = model /\ f.results = <<>>
        /\ f.misses = <<>> /\ f.pending = {} /\ f.attempt = 1
    <3>1. texts \in Seq(EmbedTexts) /\ NotAsked \in EmbedCalls
      BY InputsAreTexts, NotAskedIsACall
    <3>2. f \in EmbedCalls
      BY <3>1 DEF EmbedCalls, EmbedPoints
    <3> QED  BY <3>2 DEF NotAsked
  <2>3. CallLinesUp(f)
    <3> HIDE DEF f
    <3> QED  BY <2>2, EmbedAssumption DEF CallLinesUp, InPlace, Gaps, Distinct, EmbedCalls
  <2> QED  BY <2>1, <2>3, OneCallMoves
<1>2. ASSUME NEW c \in EmbedCallers, NEW works \in BOOLEAN, ReadOne(c, works) PROVE EmbedInv'
  <2> DEFINE e == embed[c]
             text == e.texts[Reached(e)]
             key == CacheKey(e.model, text)
             hit == works /\ key \in DOMAIN embedded
             vector == IF hit THEN embedded[key] ELSE NoVector
             misses == IF hit THEN e.misses ELSE WithMiss(e.misses, text)
             f == [e EXCEPT !.results = Append(@, vector), !.misses = misses]
  <2>1. /\ embed' = [embed EXCEPT ![c] = f] /\ KeysOwn'
        /\ e.pc = "reading" /\ Reached(e) <= Len(e.texts)
    BY <1>2 DEF ReadOne, KeysOwn
  <2>2. e \in EmbedCalls /\ CallLinesUp(e)
    BY <1>0
  <2>3. text \in EmbedTexts /\ Reached(e) = Len(e.results) + 1
    BY <2>1, <2>2 DEF Reached, EmbedCalls
  <2>4. /\ vector \in Vectors
        /\ vector = NoVector \/ vector = <<e.model, text>>
        /\ vector = NoVector => ~hit
    BY VectorsAreThere DEF KeysOwn, Vectors, CacheKey
  <2>5. /\ misses \in Seq(EmbedTexts) /\ Distinct(misses)
        /\ DOMAIN e.misses \subseteq DOMAIN misses
        /\ ~hit => misses # <<>>
        /\ e.misses # <<>> => misses # <<>>
    BY <2>2, <2>3, MissesStayDistinct DEF EmbedCalls, CallLinesUp
  <2>6. /\ f \in EmbedCalls /\ f.pc = "reading" /\ f.model = e.model /\ f.texts = e.texts
        /\ f.results = Append(e.results, vector) /\ f.misses = misses /\ f.pending = e.pending
        /\ f.attempt = e.attempt
    <3> HIDE DEF vector, misses
    <3>1. Append(e.results, vector) \in Seq(Vectors)
      BY <2>2, <2>4 DEF EmbedCalls
    <3> QED  BY <2>1, <2>2, <2>5, <3>1 DEF EmbedCalls
  <2>7. /\ Len(f.results) = Len(e.results) + 1 /\ f.results[Len(e.results) + 1] = vector
        /\ \A i \in DOMAIN e.results : f.results[i] = e.results[i]
        /\ DOMAIN f.results = DOMAIN e.results \union {Len(e.results) + 1}
    <3> HIDE DEF vector, misses, f
    <3> QED  BY <2>2, <2>4, <2>6 DEF EmbedCalls
  <2>8. CallLinesUp(f)
    <3> HIDE DEF vector, f, misses, hit, text
    <3>1. InPlace(f)
      <4>1. \A i \in DOMAIN e.results : f.results[i] = NoVector \/ OwnVector(f, i)
        BY <2>2, <2>6, <2>7 DEF CallLinesUp, InPlace, OwnVector
      <4>2. vector = NoVector \/ OwnVector(f, Len(e.results) + 1)
        BY <2>3, <2>4, <2>6, <2>7 DEF OwnVector, text
      <4> QED  BY <2>7, <4>1, <4>2 DEF InPlace
    <3>2. Gaps(f)
      BY <2>2, <2>4, <2>5, <2>6, <2>7 DEF CallLinesUp, Gaps
    <3>3. f.pending \subseteq DOMAIN f.misses /\ Distinct(f.misses)
      BY <2>2, <2>5, <2>6 DEF CallLinesUp
    <3>4. Len(f.results) <= Len(f.texts) /\ f.attempt <= EmbedAttempts /\ f.model \in EmbedModels
      BY <2>1, <2>2, <2>3, <2>6, <2>7 DEF CallLinesUp
    <3> QED  BY <2>6, <3>1, <3>2, <3>3, <3>4 DEF CallLinesUp
  <2> HIDE DEF f, vector, misses, hit, text, key
  <2> QED  BY <2>1, <2>8, OneCallMoves
<1>3. ASSUME NEW c \in EmbedCallers, AllRead(c) PROVE EmbedInv'
  <2> DEFINE e == embed[c]
             pc == IF e.misses = <<>> THEN "checking" ELSE "asking"
             f == [e EXCEPT !.pc = pc]
  <2>1. /\ embed' = [embed EXCEPT ![c] = f] /\ KeysOwn'
        /\ e.pc = "reading" /\ Reached(e) > Len(e.texts)
    BY <1>3 DEF AllRead, KeysOwn
  <2>2. e \in EmbedCalls /\ CallLinesUp(e)
    BY <1>0
  <2>3. /\ f \in EmbedCalls /\ f.pc \in {"checking", "asking"}
        /\ f.model = e.model /\ f.texts = e.texts
        /\ f.results = e.results /\ f.misses = e.misses /\ f.pending = e.pending
        /\ f.attempt = e.attempt
    BY <2>2 DEF EmbedCalls, EmbedPoints
  <2>4. Len(e.results) = Len(e.texts)
    BY <2>1, <2>2 DEF CallLinesUp, EmbedCalls, Reached
  <2>5. CallLinesUp(f)
    <3> HIDE DEF f
    <3> QED  BY <2>1, <2>2, <2>3, <2>4 DEF CallLinesUp, InPlace, OwnVector, Gaps
  <2> HIDE DEF f
  <2> QED  BY <2>1, <2>5, OneCallMoves
<1>4. ASSUME NEW c \in EmbedCallers, AskFails(c) PROVE EmbedInv'
  <2> DEFINE e == embed[c]
             last == e.attempt = EmbedAttempts
             f == [e EXCEPT !.attempt = @ + 1, !.pc = IF last THEN "raised" ELSE @,
                            !.cause = IF last THEN "api" ELSE @]
  <2>1. embed' = [embed EXCEPT ![c] = f] /\ KeysOwn' /\ e.pc = "asking"
    BY <1>4 DEF AskFails, KeysOwn
  <2>2. e \in EmbedCalls /\ CallLinesUp(e)
    BY <1>0
  <2>3. /\ f \in EmbedCalls /\ f.model = e.model /\ f.texts = e.texts
        /\ f.results = e.results /\ f.misses = e.misses /\ f.pending = e.pending
        /\ f.attempt = e.attempt + 1 /\ f.pc = IF last THEN "raised" ELSE "asking"
        /\ last => f.cause = "api"
    <3> HIDE DEF last
    <3>1. e.attempt + 1 \in Nat
      BY <2>2 DEF EmbedCalls
    <3>2. f \in EmbedCalls
      BY <2>2, <3>1 DEF EmbedCalls, EmbedPoints
    <3> QED  BY <2>1, <2>2, <3>2 DEF EmbedCalls
  <2>4. e.attempt \in Nat /\ e.attempt <= EmbedAttempts /\ EmbedAttempts \in Nat
    BY <2>1, <2>2, EmbedAssumption DEF CallLinesUp, EmbedCalls
  <2>5. CallLinesUp(f)
    <3> HIDE DEF f
    <3> QED  BY <2>1, <2>2, <2>3, <2>4 DEF CallLinesUp, InPlace, OwnVector, Gaps
  <2> HIDE DEF f
  <2> QED  BY <2>1, <2>5, OneCallMoves
<1>5. ASSUME NEW c \in EmbedCallers, NEW items \in SUBSET DOMAIN embed[c].misses,
             Responds(c, items)
      PROVE  EmbedInv'
  <2> DEFINE e == embed[c]
             f == [e EXCEPT !.pc = "storing", !.pending = items]
  <2>1. embed' = [embed EXCEPT ![c] = f] /\ KeysOwn' /\ e.pc = "asking"
    BY <1>5 DEF Responds, KeysOwn
  <2>2. e \in EmbedCalls /\ CallLinesUp(e)
    BY <1>0
  <2>3. items \in SUBSET Nat
    BY <2>2 DEF EmbedCalls
  <2>4. /\ f \in EmbedCalls /\ f.pc = "storing" /\ f.model = e.model /\ f.texts = e.texts
        /\ f.results = e.results /\ f.misses = e.misses /\ f.pending = items
        /\ f.attempt = e.attempt
    BY <2>2, <2>3 DEF EmbedCalls, EmbedPoints
  <2>5. CallLinesUp(f)
    <3> HIDE DEF f
    <3> QED  BY <2>1, <2>2, <2>4 DEF CallLinesUp, InPlace, OwnVector, Gaps
  <2> HIDE DEF f
  <2> QED  BY <2>1, <2>5, OneCallMoves
<1>6. ASSUME NEW c \in EmbedCallers, NEW works \in BOOLEAN, NEW index \in embed[c].pending,
             StoreItem(c, index, works)
      PROVE  EmbedInv'
  <2> DEFINE e == embed[c]
             text == e.misses[index]
             vector == <<e.model, text>>
             results == [i \in DOMAIN e.results |->
                           IF e.results[i] = NoVector /\ e.texts[i] = text THEN vector
                           ELSE e.results[i]]
             f == [e EXCEPT !.pending = @ \ {index}, !.results = results]
  <2>1. e \in EmbedCalls /\ CallLinesUp(e)
    BY <1>0
  <2>2. embed' = [embed EXCEPT ![c] = f] /\ e.pc = "storing"
    BY <1>6 DEF StoreItem, InputOf
  <2>3. text \in EmbedTexts /\ e.model \in EmbedModels /\ vector \in Vector
    BY <2>1, <2>2 DEF CallLinesUp, EmbedCalls, Vector
  <2>4. KeysOwn'
    <3> HIDE DEF vector
    <3>1. embedded' = embedded \/
          embedded' = [k \in DOMAIN embedded \union {vector} |->
                         IF k = vector THEN vector ELSE embedded[k]]
      BY <1>6 DEF StoreItem, InputOf, CacheKey, vector
    <3> QED  BY <2>3, <3>1 DEF KeysOwn
  <2>5. /\ results \in Seq(Vectors) /\ DOMAIN results = DOMAIN e.results
        /\ Len(results) = Len(e.results)
    <3> HIDE DEF vector, text
    <3>1. e.results \in Seq(Vectors) /\ DOMAIN e.results = 1..Len(e.results)
      BY <2>1 DEF EmbedCalls
    <3>2. vector \in Vectors /\ \A i \in DOMAIN e.results : e.results[i] \in Vectors
      BY <2>3, <3>1 DEF Vectors
    <3>3. results \in [1..Len(e.results) -> Vectors]
      BY <3>1, <3>2
    <3>4. Len(e.results) \in Nat
      BY <3>1
    <3> HIDE DEF results
    <3> QED  BY <3>1, <3>3, <3>4
  <2>6. /\ f \in EmbedCalls /\ f.pc = "storing" /\ f.model = e.model /\ f.texts = e.texts
        /\ f.results = results /\ f.misses = e.misses /\ f.pending = e.pending \ {index}
        /\ f.attempt = e.attempt
    <3> HIDE DEF results
    <3> QED  BY <2>1, <2>2, <2>5 DEF EmbedCalls, EmbedPoints
  <2>7. /\ \A i \in DOMAIN results :
              results[i] = e.results[i] \/ results[i] = <<e.model, e.texts[i]>>
        /\ \A i \in DOMAIN results : results[i] = NoVector => e.results[i] = NoVector
    BY VectorsAreThere, <2>3
  <2>8. CallLinesUp(f)
    <3> HIDE DEF f, results, text, vector
    <3>1. InPlace(f) /\ Gaps(f)
      BY <2>1, <2>5, <2>6, <2>7 DEF CallLinesUp, InPlace, OwnVector, Gaps
    <3> QED  BY <2>1, <2>2, <2>5, <2>6, <3>1 DEF CallLinesUp
  <2> HIDE DEF f
  <2> QED  BY <2>2, <2>4, <2>8, OneCallMoves
<1>7. ASSUME NEW c \in EmbedCallers, AllStored(c) PROVE EmbedInv'
  <2> DEFINE e == embed[c]
             f == [e EXCEPT !.pc = "checking"]
  <2>1. embed' = [embed EXCEPT ![c] = f] /\ KeysOwn' /\ e.pc = "storing"
    BY <1>7 DEF AllStored, KeysOwn
  <2>2. e \in EmbedCalls /\ CallLinesUp(e)
    BY <1>0
  <2>3. /\ f \in EmbedCalls /\ f.pc = "checking" /\ f.model = e.model /\ f.texts = e.texts
        /\ f.results = e.results /\ f.misses = e.misses /\ f.pending = e.pending
        /\ f.attempt = e.attempt
    BY <2>2 DEF EmbedCalls, EmbedPoints
  <2>4. CallLinesUp(f)
    <3> HIDE DEF f
    <3> QED  BY <2>1, <2>2, <2>3 DEF CallLinesUp, InPlace, OwnVector, Gaps
  <2> HIDE DEF f
  <2> QED  BY <2>1, <2>4, OneCallMoves
<1>8. ASSUME NEW c \in EmbedCallers, Return(c) PROVE EmbedInv'
  <2> DEFINE e == embed[c]
             full == Complete(e.results)
             f == [e EXCEPT !.pc = IF full THEN "returned" ELSE "raised",
                            !.cause = IF full THEN "none" ELSE "gap"]
  <2>1. embed' = [embed EXCEPT ![c] = f] /\ KeysOwn' /\ e.pc = "checking"
    BY <1>8 DEF Return, KeysOwn
  <2>2. e \in EmbedCalls /\ CallLinesUp(e)
    BY <1>0
  <2>3. /\ f \in EmbedCalls /\ f.model = e.model /\ f.texts = e.texts
        /\ f.results = e.results /\ f.misses = e.misses /\ f.pending = e.pending
        /\ f.attempt = e.attempt /\ f.pc = IF full THEN "returned" ELSE "raised"
        /\ ~full => f.cause = "gap"
    <3> HIDE DEF full
    <3> QED  BY <2>2 DEF EmbedCalls, EmbedPoints
  <2>4. ~full => e.misses # <<>>
    BY <2>2 DEF Complete, CallLinesUp, Gaps
  <2>5. CallLinesUp(f)
    <3> HIDE DEF f
    <3> QED  BY <2>1, <2>2, <2>3, <2>4 DEF CallLinesUp, InPlace, OwnVector, Gaps
  <2> HIDE DEF f
  <2> QED  BY <2>1, <2>5, OneCallMoves
<1>9. ASSUME NEW key \in DOMAIN embedded, Forget(key) PROVE EmbedInv'
  <2>1. KeysOwn' /\ embed' = embed
    BY <1>9 DEF Forget, KeysOwn
  <2> QED  BY <2>1 DEF CallLinesUp, EmbedCalls, InPlace, OwnVector, Gaps, Distinct, Complete
<1>10. CASE UNCHANGED embed_vars
  <2>1. KeysOwn' /\ embed' = embed
    BY <1>10 DEF embed_vars, KeysOwn
  <2> QED  BY <2>1 DEF CallLinesUp, EmbedCalls, InPlace, OwnVector, Gaps, Distinct, Complete
<1> QED  BY <1>1, <1>2, <1>3, <1>4, <1>5, <1>6, <1>7, <1>8, <1>9, <1>10 DEF EmbedNext

\* embed_texts returns each text its own vector, asks for no text twice, and fails only when
\* the API does or leaves a vector out, for any texts, callers and order of the items.
THEOREM EmbedsEachText == EmbedSpec => []EmbedsEach
<1>1. EmbedInv => EmbedsEach
  <2> SUFFICES ASSUME EmbedInv PROVE EmbedsEach
    OBVIOUS
  <2>1. ASSUME NEW c \in EmbedCallers, embed[c].pc = "returned"
        PROVE  embed[c].results =
                   [i \in DOMAIN embed[c].texts |-> <<embed[c].model, embed[c].texts[i]>>]
    <3>1. CallLinesUp(embed[c]) /\ embed[c] \in EmbedCalls
      BY DEF EmbedInv
    <3>2. DOMAIN embed[c].results = DOMAIN embed[c].texts
      BY <2>1, <3>1 DEF CallLinesUp, EmbedCalls
    <3>3. \A i \in DOMAIN embed[c].results : OwnVector(embed[c], i)
      BY <2>1, <3>1 DEF CallLinesUp, InPlace, Complete
    <3>4. embed[c].results = [i \in DOMAIN embed[c].results |-> embed[c].results[i]]
      BY <3>1 DEF EmbedCalls
    <3> QED  BY <3>2, <3>3, <3>4 DEF OwnVector
  <2>2. EachItsOwn
    BY <2>1 DEF EachItsOwn
  <2>3. AskedOnce
    BY DEF AskedOnce, EmbedInv, CallLinesUp, Distinct
  <2>4. OnlyTheApiFails
    BY DEF OnlyTheApiFails, EmbedInv, CallLinesUp
  <2> QED  BY <2>2, <2>3, <2>4 DEF EmbedsEach
<1> QED  BY EmbedInitInv, EmbedNextInv, <1>1, PTL DEF EmbedSpec

-----------------------------------------------------------------------------
\* The rate limiter: the sorted set, its expiry, the count of a request.

LimiterPoints == {"idle", "stamped", "removed", "added", "counted", "admitted", "refused",
                  "failed", "served"}
Marked == {"added", "counted", "admitted", "served"}

RequestTypes(r) ==
    /\ r = [pc |-> r.pc, stamp |-> r.stamp, count |-> r.count, oldest |-> r.oldest]
    /\ r.pc \in LimiterPoints /\ r.stamp \in Nat /\ r.count \in Nat

LimiterTypes ==
    /\ time \in Nat /\ 1 <= time
    /\ ttl_ends \in Nat
    /\ disturbed \in BOOLEAN
    /\ limiter = [c \in Calls |-> limiter[c]]
    /\ \A c \in Calls : RequestTypes(limiter[c])

\* Stamps are of the past, and of the near past for a request under way.
StampsOfThePast == \A c \in Calls :
    /\ limiter[c].stamp <= time
    /\ limiter[c].pc = "idle" <=> limiter[c].stamp = 0
    /\ limiter[c].pc \in Started => time <= limiter[c].stamp + MaxStall

StampsDiffer ==
    ~disturbed => \A c, d \in Calls :
        limiter[c].stamp = limiter[d].stamp => c = d \/ limiter[c].stamp = 0

\* Members are stamps, and who has removed the outdated ones finds none of them again.
MembersAreStamps ==
    /\ \A s \in members : s # 0 /\ \E d \in Calls : limiter[d].stamp = s
    /\ \A c \in Calls : limiter[c].pc \in {"removed", "added", "counted"} =>
           \A s \in members : s > limiter[c].stamp - Window

\* A stamp that was added stays for the window, and so does the key.
MarksStay ==
    ~disturbed => \A c \in Calls :
        /\ limiter[c].pc \in Marked =>
               limiter[c].stamp \in members \/ time >= limiter[c].stamp + Window
        /\ limiter[c].pc \in {"admitted", "served"} =>
               \/ ttl_ends = 0
               \/ ttl_ends >= limiter[c].stamp + Window
               \/ time >= limiter[c].stamp + Window

\* The requests a request may have counted.
Neighbours(c) == {d \in Calls : /\ limiter[d].stamp > limiter[c].stamp - Window
                                /\ limiter[d].stamp # 0}

CountsAreFair == \A c \in Calls :
    /\ limiter[c].pc \in {"counted", "refused"} =>
           limiter[c].count <= Cardinality(Neighbours(c))
    /\ limiter[c].pc = "refused" => limiter[c].count > Limit
    /\ limiter[c].pc \in {"admitted", "served"} => limiter[c].count <= Limit

\* Those who are, or are about to be, admitted in a window.
Chosen(from) == {c \in Calls :
    /\ limiter[c].pc \in {"counted", "admitted", "served"} /\ limiter[c].count <= Limit
    /\ limiter[c].stamp \in from..(from + Window - MaxStall - 1)}

FewAreChosen == ~disturbed => \A from \in 1..MaxTime : Cardinality(Chosen(from)) <= Limit

LimiterInv ==
    /\ LimiterTypes /\ StampsOfThePast /\ StampsDiffer /\ MembersAreStamps /\ MarksStay
    /\ CountsAreFair /\ FewAreChosen

\* What the limit, the window and the stall are.
LEMMA LimiterConstants ==
    /\ IsFiniteSet(Calls) /\ Limit \in Nat /\ Limit # 0 /\ MaxStall \in Nat /\ MaxTime \in Nat
    /\ Window \in Nat /\ MaxStall < Window
BY LimiterAssumption

\* Members are counted by the requests whose stamps they are, and the other way round.
LEMMA MembersAtMostCalls ==
    ASSUME NEW S \in SUBSET Calls, NEW M, \A s \in M : \E d \in S : limiter[d].stamp = s
    PROVE  IsFiniteSet(M) /\ Cardinality(M) <= Cardinality(S)
<1> DEFINE T == {d \in S : limiter[d].stamp \in M}
           f == [d \in T |-> limiter[d].stamp]
<1>1. f \in Surjection(T, M)
  BY DEF Surjection
<1>2. IsFiniteSet(S) /\ IsFiniteSet(T) /\ Cardinality(T) <= Cardinality(S)
  BY LimiterConstants, FS_Subset
<1>3. IsFiniteSet(M) /\ Cardinality(M) <= Cardinality(T)
  BY <1>1, <1>2, FS_Surjection
<1>4. Cardinality(M) \in Nat /\ Cardinality(T) \in Nat /\ Cardinality(S) \in Nat
  BY <1>2, <1>3, FS_CardinalityType
<1> QED  BY <1>2, <1>3, <1>4

\* Requests with different stamps are no more than the members they are.
LEMMA CallsAtMostMembers ==
    ASSUME NEW S \in SUBSET Calls, NEW M, IsFiniteSet(M), \A d \in S : limiter[d].stamp \in M,
           \A c, d \in S : limiter[c].stamp = limiter[d].stamp => c = d
    PROVE  Cardinality(S) <= Cardinality(M)
<1> DEFINE f == [d \in S |-> limiter[d].stamp]
<1>1. f \in Injection(S, M)
  BY DEF Injection, IsInjective
<1> QED  BY <1>1, FS_Injection

\* Fewer requests, a smaller count.
LEMMA FewerAreFewer ==
    ASSUME NEW S \in SUBSET Calls, NEW T \in SUBSET S
    PROVE  Cardinality(T) <= Cardinality(S) /\ Cardinality(S) \in Nat /\ Cardinality(T) \in Nat
BY LimiterConstants, FS_Subset, FS_CardinalityType

\* Before the first request the invariant of the limiter holds.
LEMMA LimiterInitInv == LimiterInit => LimiterInv
<1> SUFFICES ASSUME LimiterInit PROVE LimiterInv
  OBVIOUS
<1> USE LimiterConstants DEF LimiterInit, NotSent
<1>1. LimiterTypes
  <2>1. \A c \in Calls : limiter[c] = [pc |-> "idle", stamp |-> 0, count |-> 0, oldest |-> 0]
    OBVIOUS
  <2>2. \A c \in Calls : RequestTypes(limiter[c])
    BY <2>1 DEF RequestTypes, LimiterPoints
  <2>3. limiter = [c \in Calls |-> limiter[c]]
    OBVIOUS
  <2>4. time \in Nat /\ 1 <= time /\ ttl_ends \in Nat
    BY DEF LimiterInit
  <2>5. disturbed \in BOOLEAN
    BY DEF LimiterInit
  <2> QED  BY ONLY <2>2, <2>3, <2>4, <2>5 DEF LimiterTypes
<1>2. StampsOfThePast /\ StampsDiffer /\ MembersAreStamps /\ MarksStay /\ CountsAreFair
  BY DEF StampsOfThePast, StampsDiffer, MembersAreStamps, MarksStay, CountsAreFair, Started,
         Marked
<1>3. ASSUME NEW from \in 1..MaxTime PROVE Cardinality(Chosen(from)) <= Limit
  <2>1. Chosen(from) = {}
    BY DEF Chosen
  <2> QED  BY <2>1, FS_EmptySet
<1> QED  BY <1>1, <1>2, <1>3 DEF LimiterInv, FewAreChosen

\* What moving one request leaves alone.
LEMMA OthersStay ==
    ASSUME LimiterTypes, NEW c \in Calls, NEW r, RequestTypes(r),
           limiter' = [limiter EXCEPT ![c] = r]
    PROVE  /\ limiter' = [d \in Calls |-> limiter'[d]] /\ limiter'[c] = r
           /\ \A d \in Calls : d # c => limiter'[d] = limiter[d]
           /\ \A d \in Calls : RequestTypes(limiter'[d])
BY DEF LimiterTypes

\* The record of a request that is given a step and a stamp.
LEMMA Restamped ==
    ASSUME NEW r, NEW p, NEW st, NEW n, NEW o, NEW a, NEW x, NEW s,
           r = [pc |-> p, stamp |-> st, count |-> n, oldest |-> o],
           s = [r EXCEPT !.pc = a, !.stamp = x]
    PROVE  s = [pc |-> a, stamp |-> x, count |-> n, oldest |-> o]
OBVIOUS

\* The record of a request that is given a step, a count and the oldest stamp.
LEMMA Recounted ==
    ASSUME NEW r, NEW p, NEW st, NEW n, NEW o, NEW a, NEW x, NEW y, NEW s,
           r = [pc |-> p, stamp |-> st, count |-> n, oldest |-> o],
           s = [r EXCEPT !.pc = a, !.count = x, !.oldest = y]
    PROVE  s = [pc |-> a, stamp |-> st, count |-> x, oldest |-> y]
OBVIOUS

\* Who can be counted depends on the stamps alone.
LEMMA SameNeighbours ==
    ASSUME \A d \in Calls : limiter'[d].stamp = limiter[d].stamp, NEW c \in Calls
    PROVE  Neighbours(c)' = Neighbours(c)
BY DEF Neighbours

\* A step that chooses nobody keeps the bound.
LEMMA NobodyChosen ==
    ASSUME FewAreChosen, disturbed' \/ ~disturbed,
           \A c \in Calls :
               (/\ limiter'[c].pc \in {"counted", "admitted", "served"}
                /\ limiter'[c].count <= Limit) =>
                   /\ limiter[c].pc \in {"counted", "admitted", "served"}
                   /\ limiter[c].count = limiter'[c].count
                   /\ limiter[c].stamp = limiter'[c].stamp
    PROVE  FewAreChosen'
<1> SUFFICES ASSUME ~disturbed', NEW from \in 1..MaxTime
             PROVE  Cardinality(Chosen(from)') <= Limit
  BY DEF FewAreChosen
<1>1. Chosen(from)' \subseteq Chosen(from) /\ Chosen(from) \subseteq Calls
  BY DEF Chosen
<1>2. Cardinality(Chosen(from)) <= Limit
  BY DEF FewAreChosen
<1>3. Cardinality(Chosen(from)') <= Cardinality(Chosen(from))
      /\ Cardinality(Chosen(from)) \in Nat /\ Cardinality(Chosen(from)') \in Nat
  BY <1>1, FewerAreFewer
<1> QED  BY <1>2, <1>3, LimiterConstants

\* Each command of the limiter, the clock and the loss of the key keep it.
LEMMA LimiterNextInv == LimiterInv /\ [LimiterNext]_limiter_vars => LimiterInv'
<1> SUFFICES ASSUME LimiterInv, [LimiterNext]_limiter_vars PROVE LimiterInv'
  OBVIOUS
<1> USE LimiterConstants DEF LimiterInv
<1>0. ASSUME NEW c \in Calls PROVE RequestTypes(limiter[c]) /\ time \in Nat
  BY DEF LimiterTypes
<1>1. ASSUME NEW c \in Calls, RemoveOutdated(c) PROVE LimiterInv'
  <2> DEFINE r == limiter[c]
             s == [r EXCEPT !.pc = "removed"]
  <2>1. /\ limiter' = [limiter EXCEPT ![c] = s]
        /\ r.pc = "stamped"
    BY <1>1 DEF RemoveOutdated, LimiterTypes
  <2>2. RequestTypes(r) /\ time \in Nat
    BY <1>0
  <2>3. /\ members' = members \ Outdated(r.stamp) /\ UNCHANGED <<time, disturbed>>
        /\ ttl_ends' = 0 \/ ttl_ends' = ttl_ends
    BY <1>1 DEF RemoveOutdated
  <2>4. /\ RequestTypes(s) /\ s.pc = ("removed") /\ s.stamp = r.stamp /\ s.count = r.count
    BY <2>2 DEF RequestTypes, LimiterPoints
  <2> HIDE DEF s
  <2>5. /\ limiter' = [d \in Calls |-> limiter'[d]] /\ limiter'[c] = s
        /\ \A d \in Calls : d # c => limiter'[d] = limiter[d]
        /\ \A d \in Calls : RequestTypes(limiter'[d])
    BY <2>1, <2>4, OthersStay
  <2>6. \A d \in Calls : /\ limiter'[d].stamp = limiter[d].stamp
                         /\ limiter'[d].count = limiter[d].count
    BY <2>4, <2>5
  <2>7. LimiterTypes'
    BY <2>3, <2>5 DEF LimiterTypes
  <2>8. StampsOfThePast'
    BY <2>1, <2>2, <2>3, <2>4, <2>5, <2>6 DEF StampsOfThePast, Started, RequestTypes
  <2>9. StampsDiffer'
    BY <2>3, <2>6 DEF StampsDiffer
  <2>10. MembersAreStamps'
    <3>1. \A m \in members : m \in Nat
      BY <1>0 DEF MembersAreStamps, RequestTypes
    <3>2. \A m \in members' : m \in members /\ m > r.stamp - Window
      BY <2>2, <2>3, <3>1 DEF Outdated, RequestTypes
    <3> QED  BY <2>1, <2>3, <2>4, <2>5, <2>6, <3>2 DEF MembersAreStamps
  <2>11. MarksStay'
    BY <1>0, <2>1, <2>2, <2>3, <2>4, <2>5, <2>6 DEF MarksStay, Marked, Outdated,
       StampsOfThePast, Started, RequestTypes, LimiterTypes
  <2>12. CountsAreFair'
    BY <2>1, <2>2, <2>4, <2>5, <2>6, SameNeighbours DEF CountsAreFair, WithinLimit,
       RequestTypes, Started
  <2>13. FewAreChosen'
    BY <2>1, <2>2, <2>3, <2>4, <2>5, <2>6, NobodyChosen DEF WithinLimit, RequestTypes, Started
  <2> QED  BY <2>7, <2>8, <2>9, <2>10, <2>11, <2>12, <2>13
<1>2. ASSUME NEW c \in Calls, Add(c) PROVE LimiterInv'
  <2> DEFINE r == limiter[c]
             s == [r EXCEPT !.pc = "added"]
  <2>1. /\ limiter' = [limiter EXCEPT ![c] = s]
        /\ r.pc = "removed"
    BY <1>2 DEF Add, WithOwn, LimiterTypes
  <2>2. RequestTypes(r) /\ time \in Nat
    BY <1>0
  <2>3. members' = members \union {r.stamp} /\ UNCHANGED <<time, ttl_ends, disturbed>>
    BY <1>2 DEF Add, WithOwn
  <2>4. /\ RequestTypes(s) /\ s.pc = ("added") /\ s.stamp = r.stamp /\ s.count = r.count
    BY <2>2 DEF RequestTypes, LimiterPoints
  <2> HIDE DEF s
  <2>5. /\ limiter' = [d \in Calls |-> limiter'[d]] /\ limiter'[c] = s
        /\ \A d \in Calls : d # c => limiter'[d] = limiter[d]
        /\ \A d \in Calls : RequestTypes(limiter'[d])
    BY <2>1, <2>4, OthersStay
  <2>6. \A d \in Calls : /\ limiter'[d].stamp = limiter[d].stamp
                         /\ limiter'[d].count = limiter[d].count
    BY <2>4, <2>5
  <2>7. LimiterTypes'
    BY <2>3, <2>5 DEF LimiterTypes
  <2>8. StampsOfThePast'
    BY <2>1, <2>2, <2>3, <2>4, <2>5, <2>6 DEF StampsOfThePast, Started, RequestTypes
  <2>9. StampsDiffer'
    BY <2>3, <2>6 DEF StampsDiffer
  <2>10. MembersAreStamps'
    <3>1. \A m \in members : m \in Nat
      BY <1>0 DEF MembersAreStamps, RequestTypes
    <3>a. r.stamp \in Nat /\ time <= r.stamp + MaxStall
      BY <2>1, <2>2 DEF StampsOfThePast, Started, RequestTypes
    <3>2. \A d \in Calls : r.stamp > limiter[d].stamp - Window
      <4> SUFFICES ASSUME NEW d \in Calls PROVE r.stamp > limiter[d].stamp - Window
        OBVIOUS
      <4>1. limiter[d].stamp \in Nat /\ limiter[d].stamp <= time /\ time \in Nat
        BY <1>0 DEF StampsOfThePast, RequestTypes
      <4> HIDE DEF r
      <4> QED  BY <3>a, <4>1
    <3>3. r.stamp # 0
      BY <2>1 DEF StampsOfThePast
    <3>4. \A m \in members' : m # 0 /\ \E d \in Calls : limiter'[d].stamp = m
      BY <2>3, <2>6, <3>3 DEF MembersAreStamps
    <3>5. \A d \in Calls : limiter'[d].pc \in {"removed", "added", "counted"} =>
              limiter[d].pc \in {"removed", "added", "counted"}
      BY <2>1, <2>4, <2>5
    <3> QED  BY <2>3, <2>6, <3>2, <3>4, <3>5 DEF MembersAreStamps
  <2>11. MarksStay'
    BY <1>0, <2>1, <2>2, <2>3, <2>4, <2>5, <2>6 DEF MarksStay, Marked, Outdated,
       StampsOfThePast, Started, RequestTypes, LimiterTypes
  <2>12. CountsAreFair'
    BY <2>1, <2>2, <2>4, <2>5, <2>6, SameNeighbours DEF CountsAreFair, WithinLimit,
       RequestTypes, Started
  <2>13. FewAreChosen'
    BY <2>1, <2>2, <2>3, <2>4, <2>5, <2>6, NobodyChosen DEF WithinLimit, RequestTypes, Started
  <2> QED  BY <2>7, <2>8, <2>9, <2>10, <2>11, <2>12, <2>13
<1>3. ASSUME NEW c \in Calls, LimiterFails(c) PROVE LimiterInv'
  <2> DEFINE r == limiter[c]
             s == [r EXCEPT !.pc = "failed"]
  <2>1. /\ limiter' = [limiter EXCEPT ![c] = s]
        /\ r.pc \in Started
    BY <1>3 DEF LimiterFails, LimiterTypes
  <2>2. RequestTypes(r) /\ time \in Nat
    BY <1>0
  <2>3. UNCHANGED <<time, members, ttl_ends, disturbed>>
    BY <1>3 DEF LimiterFails
  <2>4. /\ RequestTypes(s) /\ s.pc = ("failed") /\ s.stamp = r.stamp /\ s.count = r.count
    BY <2>2 DEF RequestTypes, LimiterPoints
  <2> HIDE DEF s
  <2>5. /\ limiter' = [d \in Calls |-> limiter'[d]] /\ limiter'[c] = s
        /\ \A d \in Calls : d # c => limiter'[d] = limiter[d]
        /\ \A d \in Calls : RequestTypes(limiter'[d])
    BY <2>1, <2>4, OthersStay
  <2>6. \A d \in Calls : /\ limiter'[d].stamp = limiter[d].stamp
                         /\ limiter'[d].count = limiter[d].count
    BY <2>4, <2>5
  <2>7. LimiterTypes'
    BY <2>3, <2>5 DEF LimiterTypes
  <2>8. StampsOfThePast'
    BY <2>1, <2>2, <2>3, <2>4, <2>5, <2>6 DEF StampsOfThePast, Started, RequestTypes
  <2>9. StampsDiffer'
    BY <2>3, <2>6 DEF StampsDiffer
  <2>10. MembersAreStamps'
    BY <1>0, <2>1, <2>2, <2>3, <2>4, <2>5, <2>6 DEF MembersAreStamps, Outdated,
       StampsOfThePast, Started, RequestTypes, LimiterPoints
  <2>11. MarksStay'
    BY <1>0, <2>1, <2>2, <2>3, <2>4, <2>5, <2>6 DEF MarksStay, Marked, Outdated,
       StampsOfThePast, Started, RequestTypes, LimiterTypes
  <2>12. CountsAreFair'
    BY <2>1, <2>2, <2>4, <2>5, <2>6, SameNeighbours DEF CountsAreFair, WithinLimit,
       RequestTypes, Started
  <2>13. FewAreChosen'
    BY <2>1, <2>2, <2>3, <2>4, <2>5, <2>6, NobodyChosen DEF WithinLimit, RequestTypes, Started
  <2> QED  BY <2>7, <2>8, <2>9, <2>10, <2>11, <2>12, <2>13
<1>4. ASSUME NEW c \in Calls, ServeAuth(c) PROVE LimiterInv'
  <2> DEFINE r == limiter[c]
             s == [r EXCEPT !.pc = "served"]
  <2>1. /\ limiter' = [limiter EXCEPT ![c] = s]
        /\ r.pc = "admitted"
    BY <1>4 DEF ServeAuth, MayServe, LimiterTypes
  <2>2. RequestTypes(r) /\ time \in Nat
    BY <1>0
  <2>3. UNCHANGED <<time, members, ttl_ends, disturbed>>
    BY <1>4 DEF ServeAuth
  <2>4. /\ RequestTypes(s) /\ s.pc = ("served") /\ s.stamp = r.stamp /\ s.count = r.count
    BY <2>2 DEF RequestTypes, LimiterPoints
  <2> HIDE DEF s
  <2>5. /\ limiter' = [d \in Calls |-> limiter'[d]] /\ limiter'[c] = s
        /\ \A d \in Calls : d # c => limiter'[d] = limiter[d]
        /\ \A d \in Calls : RequestTypes(limiter'[d])
    BY <2>1, <2>4, OthersStay
  <2>6. \A d \in Calls : /\ limiter'[d].stamp = limiter[d].stamp
                         /\ limiter'[d].count = limiter[d].count
    BY <2>4, <2>5
  <2>7. LimiterTypes'
    BY <2>3, <2>5 DEF LimiterTypes
  <2>8. StampsOfThePast'
    BY <2>1, <2>2, <2>3, <2>4, <2>5, <2>6 DEF StampsOfThePast, Started, RequestTypes
  <2>9. StampsDiffer'
    BY <2>3, <2>6 DEF StampsDiffer
  <2>10. MembersAreStamps'
    BY <1>0, <2>1, <2>2, <2>3, <2>4, <2>5, <2>6 DEF MembersAreStamps, Outdated,
       StampsOfThePast, Started, RequestTypes, LimiterPoints
  <2>11. MarksStay'
    BY <1>0, <2>1, <2>2, <2>3, <2>4, <2>5, <2>6 DEF MarksStay, Marked, Outdated,
       StampsOfThePast, Started, RequestTypes, LimiterTypes
  <2>12. CountsAreFair'
    BY <2>1, <2>2, <2>4, <2>5, <2>6, SameNeighbours DEF CountsAreFair, WithinLimit,
       RequestTypes, Started
  <2>13. FewAreChosen'
    BY <2>1, <2>2, <2>3, <2>4, <2>5, <2>6, NobodyChosen DEF WithinLimit, RequestTypes, Started
  <2> QED  BY <2>7, <2>8, <2>9, <2>10, <2>11, <2>12, <2>13
<1>5. ASSUME NEW c \in Calls, Expire(c) PROVE LimiterInv'
  <2> DEFINE r == limiter[c]
             s == [r EXCEPT !.pc = IF WithinLimit(r.count) THEN "admitted" ELSE "refused"]
  <2>1. /\ limiter' = [limiter EXCEPT ![c] = s]
        /\ r.pc = "counted"
    BY <1>5 DEF Expire, LimiterTypes
  <2>2. RequestTypes(r) /\ time \in Nat
    BY <1>0
  <2>3. /\ ttl_ends' = (IF members = {} THEN 0 ELSE time + Window)
        /\ UNCHANGED <<time, members, disturbed>>
    BY <1>5 DEF Expire
  <2>4. /\ RequestTypes(s) /\ s.pc = (IF WithinLimit(r.count) THEN "admitted" ELSE "refused")
        /\ s.stamp = r.stamp /\ s.count = r.count
    BY <2>2 DEF RequestTypes, LimiterPoints
  <2> HIDE DEF s
  <2>5. /\ limiter' = [d \in Calls |-> limiter'[d]] /\ limiter'[c] = s
        /\ \A d \in Calls : d # c => limiter'[d] = limiter[d]
        /\ \A d \in Calls : RequestTypes(limiter'[d])
    BY <2>1, <2>4, OthersStay
  <2>6. \A d \in Calls : /\ limiter'[d].stamp = limiter[d].stamp
                         /\ limiter'[d].count = limiter[d].count
    BY <2>4, <2>5
  <2>7. LimiterTypes'
    BY <2>3, <2>5 DEF LimiterTypes
  <2>8. StampsOfThePast'
    BY <2>1, <2>2, <2>3, <2>4, <2>5, <2>6 DEF StampsOfThePast, Started, RequestTypes
  <2>9. StampsDiffer'
    BY <2>3, <2>6 DEF StampsDiffer
  <2>10. MembersAreStamps'
    BY <1>0, <2>1, <2>2, <2>3, <2>4, <2>5, <2>6 DEF MembersAreStamps, Outdated,
       StampsOfThePast, Started, RequestTypes, LimiterPoints
  <2>11. MarksStay'
    BY <1>0, <2>1, <2>2, <2>3, <2>4, <2>5, <2>6 DEF MarksStay, Marked, Outdated,
       StampsOfThePast, Started, RequestTypes, LimiterTypes
  <2>12. CountsAreFair'
    BY <2>1, <2>2, <2>4, <2>5, <2>6, SameNeighbours DEF CountsAreFair, WithinLimit,
       RequestTypes, Started
  <2>13. FewAreChosen'
    BY <2>1, <2>2, <2>3, <2>4, <2>5, <2>6, NobodyChosen DEF WithinLimit, RequestTypes, Started
  <2> QED  BY <2>7, <2>8, <2>9, <2>10, <2>11, <2>12, <2>13
<1>6. ASSUME NEW c \in Calls, Stamp(c) PROVE LimiterInv'
  <2> DEFINE r == limiter[c]
             s == [r EXCEPT !.pc = "stamped", !.stamp = time]
  <2>1. limiter' = [limiter EXCEPT ![c] = s] /\ r.pc = "idle"
    BY <1>6 DEF Stamp, LimiterTypes
  <2>2. RequestTypes(r) /\ time \in Nat /\ 1 <= time
    BY <1>0 DEF LimiterTypes
  <2>3. /\ disturbed' = (disturbed \/ \E d \in Calls : limiter[d].stamp = time)
        /\ UNCHANGED <<time, members, ttl_ends>>
    BY <1>6 DEF Stamp
  <2>4. RequestTypes(s) /\ s.pc = "stamped" /\ s.stamp = time /\ s.count = r.count
    <3>1. s = [pc |-> "stamped", stamp |-> time, count |-> r.count, oldest |-> r.oldest]
      <4>1. r = [pc |-> r.pc, stamp |-> r.stamp, count |-> r.count, oldest |-> r.oldest]
        BY <2>2 DEF RequestTypes
      <4>2. s = [r EXCEPT !.pc = "stamped", !.stamp = time]
        OBVIOUS
      <4> HIDE DEF s, r
      <4> QED  BY <4>1, <4>2, Restamped
    <3> HIDE DEF s
    <3> QED  BY <2>2, <3>1 DEF RequestTypes, LimiterPoints
  <2> HIDE DEF s
  <2>5. /\ limiter' = [d \in Calls |-> limiter'[d]] /\ limiter'[c] = s
        /\ \A d \in Calls : d # c => limiter'[d] = limiter[d]
        /\ \A d \in Calls : RequestTypes(limiter'[d])
    BY <2>1, <2>4, OthersStay
  <2>6. r.stamp = 0
    BY <2>1 DEF StampsOfThePast
  <2>7. LimiterTypes'
    BY <2>3, <2>5 DEF LimiterTypes
  <2>8. StampsOfThePast'
    BY <2>2, <2>3, <2>4, <2>5 DEF StampsOfThePast, Started
  <2>9. StampsDiffer'
    BY <2>3, <2>4, <2>5 DEF StampsDiffer
  <2>10. MembersAreStamps'
    BY <2>3, <2>4, <2>5, <2>6 DEF MembersAreStamps
  <2>11. MarksStay'
    BY <2>3, <2>4, <2>5 DEF MarksStay, Marked
  <2>12. CountsAreFair'
    <3>1. ASSUME NEW d \in Calls, d # c
          PROVE  /\ Cardinality(Neighbours(d)) <= Cardinality(Neighbours(d)')
                 /\ Cardinality(Neighbours(d)) \in Nat /\ Cardinality(Neighbours(d)') \in Nat
      <4>1. Neighbours(d)' \subseteq Calls /\ Neighbours(d) \subseteq Neighbours(d)'
        BY <2>5, <2>6, <3>1 DEF Neighbours
      <4> QED  BY <4>1, FewerAreFewer
    <3>2. ASSUME NEW d \in Calls, d # c, limiter[d].pc \in {"counted", "refused"}
          PROVE  limiter'[d].count <= Cardinality(Neighbours(d)')
      BY <1>0, <2>5, <3>1, <3>2 DEF CountsAreFair, RequestTypes
    <3> QED  BY <2>4, <2>5, <3>2 DEF CountsAreFair
  <2>13. FewAreChosen'
    BY <2>3, <2>4, <2>5, NobodyChosen
  <2> QED  BY <2>7, <2>8, <2>9, <2>10, <2>11, <2>12, <2>13
<1>7. ASSUME NEW c \in Calls, CountMembers(c) PROVE LimiterInv'
  <2> DEFINE r == limiter[c]
             s == [r EXCEPT !.pc = "counted", !.count = Cardinality(members), !.oldest = Oldest]
  <2>1. limiter' = [limiter EXCEPT ![c] = s] /\ r.pc = "added"
    BY <1>7 DEF CountMembers, LimiterTypes
  <2>2. RequestTypes(r) /\ time \in Nat
    BY <1>0
  <2>3. UNCHANGED <<time, members, ttl_ends, disturbed>>
    BY <1>7 DEF CountMembers
  <2>a. /\ \A m \in members : \E d \in Neighbours(c) : limiter[d].stamp = m
        /\ Neighbours(c) \subseteq Calls
    BY <2>1 DEF MembersAreStamps, Neighbours
  <2>b. /\ IsFiniteSet(members) /\ Cardinality(members) <= Cardinality(Neighbours(c))
        /\ Cardinality(members) \in Nat
    BY <2>a, MembersAtMostCalls, FS_CardinalityType
  <2>4. /\ RequestTypes(s) /\ s.pc = "counted" /\ s.stamp = r.stamp
        /\ s.count = Cardinality(members)
    <3>1. s = [pc |-> "counted", stamp |-> r.stamp, count |-> Cardinality(members),
               oldest |-> Oldest]
      <4>1. r = [pc |-> r.pc, stamp |-> r.stamp, count |-> r.count, oldest |-> r.oldest]
        BY <2>2 DEF RequestTypes
      <4>2. s = [r EXCEPT !.pc = "counted", !.count = Cardinality(members), !.oldest = Oldest]
        OBVIOUS
      <4> HIDE DEF s, r
      <4> QED  BY <4>1, <4>2, Recounted
    <3> HIDE DEF s
    <3> QED  BY <2>2, <2>b, <3>1 DEF RequestTypes, LimiterPoints
  <2> HIDE DEF s
  <2>5. /\ limiter' = [d \in Calls |-> limiter'[d]] /\ limiter'[c] = s
        /\ \A d \in Calls : d # c => limiter'[d] = limiter[d]
        /\ \A d \in Calls : RequestTypes(limiter'[d])
    BY <2>1, <2>4, OthersStay
  <2>6. \A d \in Calls : limiter'[d].stamp = limiter[d].stamp
    BY <2>4, <2>5
  <2>7. LimiterTypes'
    BY <2>3, <2>5 DEF LimiterTypes
  <2>8. StampsOfThePast'
    BY <2>1, <2>2, <2>3, <2>4, <2>5, <2>6 DEF StampsOfThePast, Started, RequestTypes
  <2>9. StampsDiffer'
    BY <2>3, <2>6 DEF StampsDiffer
  <2>10. MembersAreStamps'
    BY <2>1, <2>3, <2>4, <2>5, <2>6 DEF MembersAreStamps
  <2>11. MarksStay'
    BY <2>1, <2>3, <2>4, <2>5, <2>6 DEF MarksStay, Marked
  <2>12. CountsAreFair'
    BY <2>4, <2>5, <2>6, <2>b, SameNeighbours DEF CountsAreFair
  <2>13. FewAreChosen'
    <3>1. CASE Cardinality(members) > Limit
      <4>1. ~(Cardinality(members) <= Limit)
        BY <2>b, <3>1
      <4> QED  BY <2>3, <2>4, <2>5, <4>1, NobodyChosen
    <3>2. CASE Cardinality(members) <= Limit
      <4> SUFFICES ASSUME ~disturbed, NEW from \in 1..MaxTime
                   PROVE  Cardinality(Chosen(from)') <= Limit
        BY <2>3 DEF FewAreChosen
      <4>1. CASE r.stamp \in from..(from + Window - MaxStall - 1)
        <5> DEFINE S == {d \in Calls : /\ limiter[d].pc \in Marked
                                       /\ limiter[d].stamp \in from..(from + Window - MaxStall - 1)}
        <5>1. time < from + Window
          BY <2>1, <2>2, <4>1 DEF StampsOfThePast, Started, RequestTypes
        <5>2. ASSUME NEW d \in S PROVE limiter[d].stamp \in members /\ limiter[d].stamp # 0
          BY <1>0, <2>2, <5>1 DEF MarksStay, RequestTypes
        <5>3. Cardinality(S) <= Cardinality(members)
          <6>1. \A d, e \in S : limiter[d].stamp = limiter[e].stamp => d = e
            BY <5>2 DEF StampsDiffer
          <6>2. S \subseteq Calls /\ \A d \in S : limiter[d].stamp \in members
            BY <5>2
          <6> HIDE DEF S
          <6> QED  BY <2>b, <6>1, <6>2, CallsAtMostMembers
        <5>4. Chosen(from)' \subseteq S /\ S \subseteq Calls
          BY <2>1, <2>4, <2>5, <2>6, <4>1 DEF Chosen, Marked
        <5>5. Cardinality(Chosen(from)') <= Cardinality(S) /\ Cardinality(S) \in Nat
              /\ Cardinality(Chosen(from)') \in Nat
          <6> HIDE DEF S
          <6> QED  BY <5>4, FewerAreFewer
        <5> HIDE DEF S
        <5> QED  BY <2>b, <3>2, <5>3, <5>5
      <4>2. CASE r.stamp \notin from..(from + Window - MaxStall - 1)
        <5>1. Chosen(from)' \subseteq Chosen(from) /\ Chosen(from) \subseteq Calls
          BY <2>4, <2>5, <4>2 DEF Chosen
        <5>2. Cardinality(Chosen(from)) <= Limit
          BY DEF FewAreChosen
        <5>3. Cardinality(Chosen(from)') <= Cardinality(Chosen(from))
              /\ Cardinality(Chosen(from)) \in Nat /\ Cardinality(Chosen(from)') \in Nat
          BY <5>1, FewerAreFewer
        <5> QED  BY <5>2, <5>3
      <4> QED  BY <4>1, <4>2
    <3> QED  BY <2>b, <3>1, <3>2
  <2> QED  BY <2>7, <2>8, <2>9, <2>10, <2>11, <2>12, <2>13
<1>8. CASE Pass
  <2>1. /\ time' = time + 1 /\ limiter' = limiter /\ time \in Nat /\ 1 <= time
        /\ \A c \in Calls : limiter[c].pc \in Started => time < limiter[c].stamp + MaxStall
    BY <1>8 DEF Pass, LimiterTypes
  <2>2. \/ UNCHANGED <<members, ttl_ends, disturbed>> /\ ~(ttl_ends # 0 /\ time + 1 >= ttl_ends)
        \/ /\ ttl_ends # 0 /\ time + 1 >= ttl_ends /\ members' = {} /\ ttl_ends' = 0
           /\ disturbed' = (disturbed \/ \E c \in Calls : limiter[c].pc \in {"added", "counted"})
    BY <1>8 DEF Pass
  <2>3. LimiterTypes'
    <3>1. limiter' = [c \in Calls |-> limiter'[c]] /\ \A c \in Calls : RequestTypes(limiter'[c])
      BY <2>1 DEF LimiterTypes
    <3>2. time' \in Nat /\ 1 <= time' /\ ttl_ends' \in Nat
      BY <2>1, <2>2 DEF LimiterTypes
    <3>3. disturbed' \in BOOLEAN
      BY <2>2 DEF LimiterTypes
    <3> QED  BY <3>1, <3>2, <3>3 DEF LimiterTypes
  <2>4. StampsOfThePast'
    <3> SUFFICES ASSUME NEW c \in Calls
                 PROVE  /\ limiter[c].stamp <= time + 1
                        /\ limiter[c].pc = "idle" <=> limiter[c].stamp = 0
                        /\ limiter[c].pc \in Started => time + 1 <= limiter[c].stamp + MaxStall
      BY <2>1 DEF StampsOfThePast, Started
    <3>1. limiter[c].stamp \in Nat /\ time \in Nat
      BY <1>0 DEF RequestTypes
    <3>2. limiter[c].stamp <= time /\ (limiter[c].pc = "idle" <=> limiter[c].stamp = 0)
      BY DEF StampsOfThePast
    <3> QED  BY <2>1, <3>1, <3>2
  <2>5. StampsDiffer' /\ MembersAreStamps'
    BY <2>1, <2>2 DEF StampsDiffer, MembersAreStamps
  <2>6. MarksStay'
    <3>1. CASE UNCHANGED <<members, ttl_ends, disturbed>>
      BY <1>0, <2>1, <3>1 DEF MarksStay, RequestTypes, LimiterTypes
    <3>2. CASE /\ ttl_ends # 0 /\ time + 1 >= ttl_ends /\ members' = {} /\ ttl_ends' = 0
               /\ disturbed' = (disturbed \/ \E c \in Calls :
                                                  limiter[c].pc \in {"added", "counted"})
      <4> SUFFICES ASSUME ~disturbed', NEW c \in Calls, limiter[c].pc \in Marked
                   PROVE  time' >= limiter[c].stamp + Window
        BY <2>1, <3>2 DEF MarksStay
      <4>1. limiter[c].pc \in {"admitted", "served"} /\ ~disturbed
        BY <3>2 DEF Marked
      <4> QED  BY <1>0, <2>1, <3>2, <4>1 DEF MarksStay, RequestTypes, LimiterTypes
    <3> QED  BY <2>2, <3>1, <3>2
  <2>7. CountsAreFair'
    BY <2>1, SameNeighbours DEF CountsAreFair
  <2>8. FewAreChosen'
    <3>1. disturbed' \/ ~disturbed
      BY <2>2
    <3>2. FewAreChosen
      OBVIOUS
    <3> QED  BY <2>1, <3>1, <3>2, NobodyChosen
  <2> QED  BY <2>3, <2>4, <2>5, <2>6, <2>7, <2>8
<1>9. CASE UNCHANGED limiter_vars
  <2>1. UNCHANGED <<time, members, ttl_ends, limiter, disturbed>>
    BY <1>9 DEF limiter_vars
  <2>2. LimiterTypes' /\ StampsOfThePast' /\ StampsDiffer' /\ MembersAreStamps' /\ MarksStay'
    BY <2>1 DEF LimiterTypes, RequestTypes, StampsOfThePast, StampsDiffer, MembersAreStamps,
       MarksStay
  <2>3. CountsAreFair' /\ FewAreChosen'
    BY <2>1, SameNeighbours, NobodyChosen DEF CountsAreFair
  <2> QED  BY <2>2, <2>3
<1> QED  BY <1>1, <1>2, <1>3, <1>4, <1>5, <1>6, <1>7, <1>8, <1>9 DEF LimiterNext

\* Between two stamps that are equal or a key that is lost, no window admits more than the
\* limit however the commands alternate, and a refusal had the limit of other requests
\* in its window (rate_limiter.check), for every limit, window and number of requests.
THEOREM LimiterKeepsTheLimit == LimiterSpec => []LimitKept
<1>1. LimiterInv => LimitKept
  <2> SUFFICES ASSUME LimiterInv PROVE LimitKept
    OBVIOUS
  <2> USE LimiterConstants
  <2>1. NoMoreThanTheLimit
    <3> SUFFICES ASSUME ~disturbed, NEW from \in 1..MaxTime
                 PROVE  Cardinality({c \in In({"admitted", "served"}) :
                           limiter[c].stamp \in from..(from + Window - MaxStall - 1)}) <= Limit
      BY DEF NoMoreThanTheLimit
    <3> DEFINE A == {c \in In({"admitted", "served"}) :
                       limiter[c].stamp \in from..(from + Window - MaxStall - 1)}
    <3>1. A \subseteq Chosen(from) /\ Chosen(from) \subseteq Calls
      BY DEF In, Chosen, LimiterInv, CountsAreFair
    <3>2. Cardinality(Chosen(from)) <= Limit
      BY DEF LimiterInv, FewAreChosen
    <3> HIDE DEF A
    <3>3. Cardinality(A) <= Cardinality(Chosen(from))
          /\ Cardinality(Chosen(from)) \in Nat /\ Cardinality(A) \in Nat
      BY <3>1, FewerAreFewer
    <3>4. Cardinality(A) <= Limit
      BY <3>2, <3>3
    <3> QED  BY <3>4 DEF A
  <2>2. RefusedForAReason
    <3> SUFFICES ASSUME NEW c \in In({"refused"})
                 PROVE  Cardinality({d \in Calls \ {c} :
                          /\ limiter[d].stamp > limiter[c].stamp - Window
                          /\ limiter[d].stamp # 0}) >= Limit
      BY DEF RefusedForAReason
    <3>1. /\ c \in Calls /\ limiter[c].pc = "refused" /\ limiter[c].count \in Nat
          /\ limiter[c].count > Limit /\ limiter[c].count <= Cardinality(Neighbours(c))
      BY DEF In, LimiterInv, LimiterTypes, RequestTypes, CountsAreFair
    <3>2. /\ IsFiniteSet(Neighbours(c)) /\ Cardinality(Neighbours(c)) \in Nat
      <4>1. Neighbours(c) \in SUBSET Calls
        BY DEF Neighbours
      <4> QED  BY <4>1, FS_Subset, FS_CardinalityType
    <3>3. Cardinality(Neighbours(c) \ {c}) >= Limit
      <4>1. \/ Cardinality(Neighbours(c) \ {c}) = Cardinality(Neighbours(c)) - 1
            \/ Cardinality(Neighbours(c) \ {c}) = Cardinality(Neighbours(c))
        BY <3>2, FS_RemoveElement
      <4> QED  BY <3>1, <3>2, <4>1
    <3>4. Neighbours(c) \ {c} = {d \in Calls \ {c} :
                                   /\ limiter[d].stamp > limiter[c].stamp - Window
                                   /\ limiter[d].stamp # 0}
      BY DEF Neighbours
    <3> QED  BY <3>3, <3>4
  <2> QED  BY <2>1, <2>2 DEF LimitKept
<1> QED  BY LimiterInitInv, LimiterNextInv, <1>1, PTL DEF LimiterSpec

-----------------------------------------------------------------------------
\* The metrics: the last samples, the totals, the snapshots under the lock.

\* What the window and the reporting threads are.
LEMMA MetricsConstants ==
    /\ "nobody" \notin MetricThreads /\ DOMAIN Sampled = Stages
    /\ WindowSize \in Nat /\ WindowSize # 0
BY MetricsAssumption

\* The last n: how many, and which.
LEMMA LastOfIs ==
    ASSUME NEW S, NEW r \in Seq(S), NEW n \in Nat \ {0}
    PROVE  LET k == IF Len(r) > n THEN Len(r) - n ELSE 0
           IN  /\ LastOf(r, n) \in Seq(S) /\ Len(LastOf(r, n)) = Len(r) - k
               /\ \A i \in 1..(Len(r) - k) : LastOf(r, n)[i] = r[k + i]
<1> DEFINE k == IF Len(r) > n THEN Len(r) - n ELSE 0
<1>1. Len(r) \in Nat /\ k \in Nat /\ k <= Len(r)
  OBVIOUS
<1>2. LastOf(r, n) = SubSeq(r, k + 1, Len(r))
  <2>1. 1 + k = k + 1
    BY <1>1
  <2> QED  BY <2>1 DEF LastOf
<1>3. \A i \in (k + 1)..Len(r) : r[i] \in S
  BY <1>1, ElementOfSeq
<1> HIDE DEF k
<1>4. /\ SubSeq(r, k + 1, Len(r)) \in Seq(S)
      /\ Len(SubSeq(r, k + 1, Len(r))) = IF k + 1 <= Len(r) THEN Len(r) - (k + 1) + 1 ELSE 0
      /\ \A i \in 1..(Len(r) - (k + 1) + 1) : SubSeq(r, k + 1, Len(r))[i] = r[(k + 1) + i - 1]
  BY <1>1, <1>3, SubSeqProperties
<1>5. Len(LastOf(r, n)) = Len(r) - k
  BY <1>1, <1>2, <1>4
<1>6. \A i \in 1..(Len(r) - k) : LastOf(r, n)[i] = r[k + i]
  BY <1>1, <1>2, <1>4
<1>7. LastOf(r, n) \in Seq(S)
  BY <1>2, <1>4
<1> QED  BY <1>5, <1>6, <1>7 DEF k

\* Where a window begins after one more sample.
LEMMA WindowShift ==
    ASSUME NEW a \in Nat, NEW n \in Nat \ {0}, NEW k, NEW c, NEW d, NEW kv, NEW kq,
           k = (IF a > n THEN a - n ELSE 0), c = (a - k) + 1, d = a + 1,
           kv = (IF c > n THEN c - n ELSE 0), kq = (IF d > n THEN d - n ELSE 0)
    PROVE  /\ c - kv = d - kq /\ kq = k + kv /\ c = d - k
           /\ k \in Nat /\ kv \in Nat /\ c \in Nat /\ kv <= c
<1>1. CASE a > n
  BY <1>1
<1>2. CASE a <= n
  BY <1>2
<1> QED  BY <1>1, <1>2

\* A deque that drops its oldest holds the last of all that was ever appended.
LEMMA LastOfNext ==
    ASSUME NEW S, NEW r \in Seq(S), NEW x \in S, NEW n \in Nat \ {0}
    PROVE  LastOf(Append(LastOf(r, n), x), n) = LastOf(Append(r, x), n)
<1> DEFINE w == LastOf(r, n)
           v == Append(w, x)
           q == Append(r, x)
           k == IF Len(r) > n THEN Len(r) - n ELSE 0
           kv == IF Len(v) > n THEN Len(v) - n ELSE 0
           kq == IF Len(q) > n THEN Len(q) - n ELSE 0
<1>1. /\ w \in Seq(S) /\ Len(w) = Len(r) - k /\ Len(r) \in Nat
      /\ \A i \in 1..(Len(r) - k) : w[i] = r[k + i]
  BY LastOfIs
<1>2. /\ v \in Seq(S) /\ Len(v) = Len(w) + 1 /\ v[Len(w) + 1] = x
      /\ \A i \in 1..Len(w) : v[i] = w[i]
  BY <1>1, AppendProperties
<1>3. /\ q \in Seq(S) /\ Len(q) = Len(r) + 1 /\ q[Len(r) + 1] = x
      /\ \A i \in 1..Len(r) : q[i] = r[i]
  BY AppendProperties
<1> HIDE DEF w
<1>4. /\ LastOf(v, n) \in Seq(S) /\ Len(LastOf(v, n)) = Len(v) - kv
      /\ \A i \in 1..(Len(v) - kv) : LastOf(v, n)[i] = v[kv + i]
  BY <1>2, LastOfIs
<1>5. /\ LastOf(q, n) \in Seq(S) /\ Len(LastOf(q, n)) = Len(q) - kq
      /\ \A i \in 1..(Len(q) - kq) : LastOf(q, n)[i] = q[kq + i]
  BY <1>3, LastOfIs
<1> HIDE DEF v, q
<1>6. /\ Len(v) - kv = Len(q) - kq /\ kq = k + kv /\ Len(v) = Len(q) - k
      /\ k \in Nat /\ kv \in Nat /\ Len(v) \in Nat /\ kv <= Len(v)
  <2> DEFINE a == Len(r)  c == Len(v)  d == Len(q)
  <2>1. a \in Nat /\ c = (a - k) + 1 /\ d = a + 1
    BY <1>1, <1>2, <1>3
  <2>2. /\ k = (IF a > n THEN a - n ELSE 0)
        /\ kv = (IF c > n THEN c - n ELSE 0)
        /\ kq = (IF d > n THEN d - n ELSE 0)
    OBVIOUS
  <2> HIDE DEF k, kv, kq, a, c, d
  <2>3. /\ c - kv = d - kq /\ kq = k + kv /\ c = d - k
        /\ k \in Nat /\ kv \in Nat /\ c \in Nat /\ kv <= c
    BY <2>1, <2>2, WindowShift
  <2> QED  BY <2>3 DEF c, d
<1>7. ASSUME NEW i \in 1..(Len(v) - kv) PROVE v[kv + i] = q[kq + i]
  <2> HIDE DEF k, kv, kq
  <2>1. k \in Nat /\ kv \in Nat /\ Len(v) \in Nat /\ kv + i \in 1..Len(v)
    BY <1>6
  <2>2. CASE kv + i = Len(v)
    <3>1. kq + i = Len(q) /\ Len(v) = Len(w) + 1 /\ Len(q) = Len(r) + 1
      <4>1. Len(v) = Len(w) + 1 /\ Len(q) = Len(r) + 1 /\ Len(r) \in Nat
        BY <1>2, <1>3, <1>1
      <4> QED  BY <1>6, <2>1, <2>2, <4>1
    <3> QED  BY <1>2, <1>3, <2>2, <3>1
  <2>3. CASE kv + i # Len(v)
    <3>1. kv + i \in 1..Len(w) /\ kq + i \in 1..Len(r) /\ k + (kv + i) = kq + i
      BY <1>1, <1>2, <1>3, <1>6, <2>1, <2>3
    <3>2. w[kv + i] = r[k + (kv + i)]
      BY <1>1, <3>1
    <3> QED  BY <1>2, <1>3, <3>1, <3>2
  <2> QED  BY <2>2, <2>3
<1>8. Len(LastOf(v, n)) = Len(LastOf(q, n)) /\ Len(LastOf(v, n)) = Len(v) - kv
  <2> HIDE DEF k, kv, kq
  <2> QED  BY <1>4, <1>5, <1>6
<1>9. \A i \in 1..Len(LastOf(v, n)) : LastOf(v, n)[i] = LastOf(q, n)[i]
  BY <1>4, <1>5, <1>6, <1>7, <1>8
<1>10. LastOf(v, n) = LastOf(q, n)
  BY <1>4, <1>5, <1>8, <1>9, SeqEqual
<1> QED  BY <1>10 DEF v, q, w

\* What was recorded stays the beginning of what is.
LEMMA PrefixOfAppend ==
    ASSUME NEW S, NEW r \in Seq(S), NEW x \in S, NEW n \in 0..Len(r)
    PROVE  SubSeq(Append(r, x), 1, n) = SubSeq(r, 1, n)
<1>1. /\ Append(r, x) \in Seq(S) /\ Len(Append(r, x)) = Len(r) + 1 /\ Len(r) \in Nat
      /\ \A i \in 1..Len(r) : Append(r, x)[i] = r[i]
  BY AppendProperties
<1>2. (\A i \in 1..n : r[i] \in S) /\ (\A i \in 1..n : Append(r, x)[i] \in S)
  BY <1>1, ElementOfSeq
<1>3. /\ SubSeq(r, 1, n) \in Seq(S) /\ Len(SubSeq(r, 1, n)) = n
      /\ \A i \in 1..n : SubSeq(r, 1, n)[i] = r[i]
  BY <1>1, <1>2, SubSeqProperties
<1>4. /\ SubSeq(Append(r, x), 1, n) \in Seq(S) /\ Len(SubSeq(Append(r, x), 1, n)) = n
      /\ \A i \in 1..n : SubSeq(Append(r, x), 1, n)[i] = Append(r, x)[i]
  BY <1>1, <1>2, SubSeqProperties
<1>5. \A i \in 1..n : SubSeq(Append(r, x), 1, n)[i] = SubSeq(r, 1, n)[i]
  BY <1>1, <1>3, <1>4
<1> QED  BY <1>3, <1>4, <1>5, SeqEqual

-----------------------------------------------------------------------------
\* What a snapshot shows, of what has been recorded by then or later.
OfOneMoment(m) == \E n \in 0..Len(recorded[m.of]) :
    m.samples = LastOf(SubSeq(recorded[m.of], 1, n), WindowSize) /\ m.tokens = n

TakenIsTrue(m) ==
    /\ m.of \in Stages /\ m.samples \in Seq(Sampled[m.of]) /\ OfOneMoment(m)
    /\ m.p50 = Percentile(m.samples, 50) /\ m.p95 = Percentile(m.samples, 95)
    /\ m.stats = Stats(m.of, m.samples)

Between == {"adding", "looked_up", "copying", "counting"}
AddingTo(s) == \E t \in MetricThreads : metric[t].pc = "adding" /\ metric[t].of = s
LookedUp == \E t \in MetricThreads : metric[t].pc = "looked_up"

MetricsTypes ==
    /\ recorded = [s \in Stages |-> recorded[s]] /\ windows = [s \in Stages |-> windows[s]]
    /\ \A s \in Stages : recorded[s] \in Seq(Sampled[s])
    /\ totals \in [Counters -> Nat]
    /\ metric = [t \in MetricThreads |-> metric[t]]

\* Between the two statements of a record, or of a snapshot, the lock is held.
LockIsHeld == \A t \in MetricThreads : metric[t].pc \in Between => holder = t

\* But for a record between its two statements, the window, the total and the history agree.
CountersAgree ==
    /\ \A s \in Stages :
          /\ windows[s] = LastOf(recorded[s], WindowSize)
          /\ Len(recorded[s]) = IF AddingTo(s) THEN totals[s] + 1 ELSE totals[s]
    /\ totals["hits"] + (IF LookedUp THEN 1 ELSE 0) <= totals["lookups"]

ThreadsKnow == \A t \in MetricThreads :
    /\ metric[t].pc = "adding" => metric[t].of \in Stages
    /\ metric[t].pc = "copying" =>
          metric[t].of \in Stages /\ metric[t].samples = windows[metric[t].of]
    /\ metric[t].pc = "taken" => TakenIsTrue(metric[t])
    /\ metric[t].pc = "counting" => metric[t].lookups = totals["lookups"]
    /\ metric[t].pc = "counted" => metric[t].hits <= metric[t].lookups

MetricsInv == MetricsTypes /\ LockIsHeld /\ CountersAgree /\ ThreadsKnow

\* With nothing recorded the invariant of the metrics holds.
LEMMA MetricsInitInv == MetricsInit => MetricsInv
<1> SUFFICES ASSUME MetricsInit PROVE MetricsInv
  OBVIOUS
<1> USE MetricsConstants DEF MetricsInit
<1>1. MetricsTypes
  BY DEF MetricsTypes, Counters
<1>2. \A t \in MetricThreads : metric[t].pc = "idle"
  BY DEF Quiet
<1>3. LockIsHeld /\ ThreadsKnow
  BY <1>2 DEF LockIsHeld, ThreadsKnow, Between
<1>4. CountersAgree
  <2>1. LastOf(<<>>, WindowSize) = <<>>
    <3>1. Len(<<>>) = 0
      OBVIOUS
    <3>2. LastOf(<<>>, WindowSize) = SubSeq(<<>>, 1, 0)
      BY <3>1 DEF LastOf
    <3> QED  BY <3>2
  <2> QED  BY <1>2, <2>1 DEF CountersAgree, AddingTo, LookedUp, Counters, Stages
<1> QED  BY <1>1, <1>3, <1>4 DEF MetricsInv

\* A thread that changes nothing but what it is doing, or what it has the lock for, leaves
\* what the others know as it is.
LEMMA TakenStaysTrue ==
    ASSUME NEW m, TakenIsTrue(m), MetricsTypes,
           NEW s \in Stages, NEW x \in Sampled[s],
           recorded' \in {recorded, [recorded EXCEPT ![s] = Append(@, x)]}
    PROVE  TakenIsTrue(m)'
<1>1. CASE m.of # s \/ recorded' = recorded
  <2>1. recorded'[m.of] = recorded[m.of]
    BY <1>1 DEF TakenIsTrue, MetricsTypes
  <2> QED  BY <2>1 DEF TakenIsTrue, OfOneMoment
<1>2. CASE m.of = s /\ recorded' # recorded
  <2> DEFINE r == recorded[s]
  <2>1. r \in Seq(Sampled[s]) /\ recorded'[s] = Append(r, x)
    BY <1>2 DEF MetricsTypes
  <2>2. PICK n \in 0..Len(r) :
            m.samples = LastOf(SubSeq(r, 1, n), WindowSize) /\ m.tokens = n
    BY <1>2 DEF TakenIsTrue, OfOneMoment
  <2>3. SubSeq(Append(r, x), 1, n) = SubSeq(r, 1, n) /\ Len(Append(r, x)) = Len(r) + 1
    BY <2>1, PrefixOfAppend, AppendProperties
  <2>4. n \in 0..Len(Append(r, x))
    BY <2>1, <2>3
  <2>5. OfOneMoment(m)'
    BY <1>2, <2>1, <2>2, <2>3, <2>4 DEF OfOneMoment
  <2> QED  BY <2>5 DEF TakenIsTrue
<1> QED  BY <1>1, <1>2

\* Taking the lock.
LEMMA AcquireTakesTurns ==
    ASSUME MetricsInv, NEW t \in MetricThreads, NEW doing, Acquire(t, doing)
    PROVE  /\ \A u \in MetricThreads : metric[u].pc \notin Between
           /\ holder' = t /\ metric' = [u \in MetricThreads |-> metric'[u]]
           /\ metric'[t] = doing
           /\ \A u \in MetricThreads : u # t => metric'[u] = metric[u]
BY MetricsConstants DEF MetricsInv, LockIsHeld, MetricsTypes, Acquire, LockFree

\* Giving it back.
LEMMA ReleaseEndsTurn ==
    ASSUME MetricsInv, NEW t \in MetricThreads, NEW done, Release(t, done), holder = t
    PROVE  /\ \A u \in MetricThreads : u # t => metric[u].pc \notin Between
           /\ holder' = "nobody" /\ metric' = [u \in MetricThreads |-> metric'[u]]
           /\ metric'[t] = done
           /\ \A u \in MetricThreads : u # t => metric'[u] = metric[u]
BY MetricsConstants DEF MetricsInv, LockIsHeld, MetricsTypes, Release

\* The first statement of a record: the sample (record_rerank and the others).
LEMMA ReportKeeps ==
    ASSUME MetricsInv, NEW t \in MetricThreads, NEW s \in Stages, NEW x \in Sampled[s],
           Report(t, s, x)
    PROVE  MetricsInv'
<1> DEFINE doing == [pc |-> "adding", of |-> s]
<1>1. /\ Acquire(t, doing) /\ totals' = totals
      /\ windows' = [windows EXCEPT ![s] = LastOf(Append(@, x), WindowSize)]
      /\ recorded' = [recorded EXCEPT ![s] = Append(@, x)]
  BY DEF Report
<1>2. /\ \A u \in MetricThreads : metric[u].pc \notin Between
      /\ holder' = t /\ metric' = [u \in MetricThreads |-> metric'[u]]
      /\ metric'[t] = doing
      /\ \A u \in MetricThreads : u # t => metric'[u] = metric[u]
  BY <1>1, AcquireTakesTurns
<1>3. /\ recorded'[s] = Append(recorded[s], x)
      /\ windows'[s] = LastOf(Append(windows[s], x), WindowSize)
      /\ \A k \in Stages : k # s => recorded'[k] = recorded[k] /\ windows'[k] = windows[k]
      /\ recorded' = [k \in Stages |-> recorded'[k]] /\ windows' = [k \in Stages |-> windows'[k]]
  BY <1>1 DEF MetricsInv, MetricsTypes
<1>4. /\ recorded[s] \in Seq(Sampled[s]) /\ Append(recorded[s], x) \in Seq(Sampled[s])
      /\ Len(Append(recorded[s], x)) = Len(recorded[s]) + 1 /\ Len(recorded[s]) \in Nat
  BY AppendProperties DEF MetricsInv, MetricsTypes
<1>5. MetricsTypes'
  BY <1>1, <1>2, <1>3, <1>4 DEF MetricsInv, MetricsTypes
<1>6. LockIsHeld'
  BY <1>2 DEF LockIsHeld
<1>7. CountersAgree'
  <2>1. windows'[s] = LastOf(recorded'[s], WindowSize)
    BY <1>3, <1>4, LastOfNext, MetricsConstants DEF MetricsInv, CountersAgree
  <2>2. \A k \in Stages : AddingTo(k)' <=> k = s
    BY <1>2 DEF AddingTo, Between
  <2>3. \A k \in Stages : ~AddingTo(k)
    BY <1>2 DEF AddingTo, Between
  <2>4. ~LookedUp /\ ~LookedUp'
    BY <1>2 DEF LookedUp, Between
  <2>5. \A k \in Stages : Len(recorded[k]) = totals[k]
    BY <2>3 DEF MetricsInv, CountersAgree
  <2>6. Len(recorded'[s]) = totals'[s] + 1
    BY <1>1, <1>3, <1>4, <2>5
  <2>7. \A k \in Stages : k # s => Len(recorded'[k]) = totals'[k]
    BY <1>1, <1>3, <2>5
  <2>8. \A k \in Stages : windows'[k] = LastOf(recorded'[k], WindowSize)
    BY <1>3, <2>1 DEF MetricsInv, CountersAgree
  <2> QED  BY <1>1, <2>2, <2>4, <2>6, <2>7, <2>8 DEF MetricsInv, CountersAgree
<1>8. ThreadsKnow'
  <2>1. ASSUME NEW u \in MetricThreads, u # t, metric[u].pc = "taken"
        PROVE  TakenIsTrue(metric[u])'
    <3> DEFINE m == metric[u]
    <3>1. TakenIsTrue(m) /\ m' = m
      BY <1>2, <2>1 DEF MetricsInv, ThreadsKnow
    <3> QED  BY <1>1, <1>2, <2>1, <3>1, TakenStaysTrue DEF MetricsInv
  <2> QED  BY <1>1, <1>2, <2>1 DEF MetricsInv, ThreadsKnow, Between
<1> QED  BY <1>5, <1>6, <1>7, <1>8 DEF MetricsInv

\* The second: the tokens.
LEMMA AddTokensKeeps ==
    ASSUME MetricsInv, NEW t \in MetricThreads, AddTokens(t)
    PROVE  MetricsInv'
<1> DEFINE s == metric[t].of
<1>1. /\ metric[t].pc = "adding" /\ Release(t, Quiet) /\ s \in Stages /\ holder = t
      /\ totals' = [totals EXCEPT ![s] = @ + 1]
      /\ windows' = windows /\ recorded' = recorded
  BY DEF AddTokens, MetricsInv, ThreadsKnow, LockIsHeld, Between
<1>2. /\ \A u \in MetricThreads : u # t => metric[u].pc \notin Between
      /\ holder' = "nobody" /\ metric' = [u \in MetricThreads |-> metric'[u]]
      /\ metric'[t] = Quiet
      /\ \A u \in MetricThreads : u # t => metric'[u] = metric[u]
  BY <1>1, ReleaseEndsTurn
<1>3. /\ totals'[s] = totals[s] + 1 /\ totals[s] \in Nat /\ s # "hits" /\ s # "lookups"
      /\ \A c \in Counters : c # s => totals'[c] = totals[c]
  BY <1>1 DEF MetricsInv, MetricsTypes, Counters, Stages
<1>4. \A u \in MetricThreads : metric'[u].pc \notin Between
  BY <1>2 DEF Between, Quiet
<1>5. MetricsTypes'
  BY <1>1, <1>2 DEF MetricsInv, MetricsTypes, Counters
<1>6. LockIsHeld'
  BY <1>4 DEF LockIsHeld
<1>7. CountersAgree'
  <2>1. \A k \in Stages : AddingTo(k) <=> k = s
    BY <1>1, <1>2 DEF AddingTo, Between
  <2>2. \A k \in Stages : ~AddingTo(k)'
    BY <1>4 DEF AddingTo, Between
  <2>3. ~LookedUp /\ ~LookedUp'
    BY <1>1, <1>2, <1>4 DEF LookedUp, Between
  <2>4. \A k \in Stages : Len(recorded'[k]) = totals'[k]
    BY <1>1, <1>3, <2>1 DEF MetricsInv, CountersAgree, Counters
  <2>5. totals'["hits"] = totals["hits"] /\ totals'["lookups"] = totals["lookups"]
    BY <1>3 DEF Counters
  <2> QED  BY <1>1, <2>2, <2>3, <2>4, <2>5 DEF MetricsInv, CountersAgree
<1>8. ThreadsKnow'
  <2>1. ASSUME NEW u \in MetricThreads, u # t, metric[u].pc = "taken"
        PROVE  TakenIsTrue(metric[u])'
    BY <1>1, <1>2, <2>1 DEF MetricsInv, ThreadsKnow, TakenIsTrue, OfOneMoment
  <2> QED  BY <1>1, <1>2, <2>1 DEF MetricsInv, ThreadsKnow, Between, Quiet
<1> QED  BY <1>5, <1>6, <1>7, <1>8 DEF MetricsInv

\* A lookup of the semantic cache is counted.
LEMMA ReportLookupKeeps ==
    ASSUME MetricsInv, NEW t \in MetricThreads, NEW hit \in BOOLEAN, ReportLookup(t, hit)
    PROVE  MetricsInv'
<1> DEFINE doing == [pc |-> "looked_up", hit |-> hit]
<1>1. /\ Acquire(t, doing) /\ totals' = [totals EXCEPT !["lookups"] = @ + 1]
      /\ windows' = windows /\ recorded' = recorded
  BY DEF ReportLookup
<1>2. /\ \A u \in MetricThreads : metric[u].pc \notin Between
      /\ holder' = t /\ metric' = [u \in MetricThreads |-> metric'[u]]
      /\ metric'[t] = doing
      /\ \A u \in MetricThreads : u # t => metric'[u] = metric[u]
  BY <1>1, AcquireTakesTurns
<1>3. /\ totals'["lookups"] = totals["lookups"] + 1
      /\ totals["lookups"] \in Nat /\ totals["hits"] \in Nat
      /\ \A c \in Counters : c # "lookups" => totals'[c] = totals[c]
  BY <1>1 DEF MetricsInv, MetricsTypes, Counters
<1>5. MetricsTypes'
  BY <1>1, <1>2 DEF MetricsInv, MetricsTypes, Counters
<1>6. LockIsHeld'
  BY <1>2 DEF LockIsHeld
<1>7. CountersAgree'
  <2>1. \A k \in Stages : ~AddingTo(k) /\ ~AddingTo(k)'
    BY <1>2 DEF AddingTo, Between
  <2>2. ~LookedUp
    BY <1>2 DEF LookedUp, Between
  <2>3. \A k \in Stages : Len(recorded'[k]) = totals'[k]
    BY <1>1, <1>3, <2>1 DEF MetricsInv, CountersAgree, Counters, Stages
  <2>4. totals'["hits"] + 1 <= totals'["lookups"]
    BY <1>3, <2>2 DEF MetricsInv, CountersAgree, Counters
  <2>5. totals'["hits"] \in Nat /\ totals'["lookups"] \in Nat
    BY <1>5 DEF MetricsTypes, Counters
  <2>6. totals'["hits"] + (IF LookedUp' THEN 1 ELSE 0) <= totals'["lookups"]
    BY <2>4, <2>5
  <2> QED  BY <1>1, <2>1, <2>3, <2>6 DEF MetricsInv, CountersAgree
<1>8. ThreadsKnow'
  <2>1. ASSUME NEW u \in MetricThreads, u # t, metric[u].pc = "taken"
        PROVE  TakenIsTrue(metric[u])'
    BY <1>1, <1>2, <2>1 DEF MetricsInv, ThreadsKnow, TakenIsTrue, OfOneMoment
  <2> QED  BY <1>1, <1>2, <2>1 DEF MetricsInv, ThreadsKnow, Between
<1> QED  BY <1>5, <1>6, <1>7, <1>8 DEF MetricsInv

\* And its hit, if it was one.
LEMMA CountHitKeeps ==
    ASSUME MetricsInv, NEW t \in MetricThreads, CountHit(t)
    PROVE  MetricsInv'
<1>1. /\ metric[t].pc = "looked_up" /\ Release(t, Quiet) /\ holder = t
      /\ totals' = [totals EXCEPT !["hits"] = IF metric[t].hit THEN @ + 1 ELSE @]
      /\ windows' = windows /\ recorded' = recorded
  BY DEF CountHit, MetricsInv, LockIsHeld, Between
<1>2. /\ \A u \in MetricThreads : u # t => metric[u].pc \notin Between
      /\ holder' = "nobody" /\ metric' = [u \in MetricThreads |-> metric'[u]]
      /\ metric'[t] = Quiet
      /\ \A u \in MetricThreads : u # t => metric'[u] = metric[u]
  BY <1>1, ReleaseEndsTurn
<1>3. /\ totals'["hits"] \in {totals["hits"], totals["hits"] + 1}
      /\ totals["lookups"] \in Nat /\ totals["hits"] \in Nat
      /\ \A c \in Counters : c # "hits" => totals'[c] = totals[c]
      /\ totals' = [c \in Counters |-> totals'[c]]
  BY <1>1 DEF MetricsInv, MetricsTypes, Counters
<1>4. \A u \in MetricThreads : metric'[u].pc \notin Between
  BY <1>2 DEF Between, Quiet
<1>5. MetricsTypes'
  <2>1. totals' \in [Counters -> Nat]
    BY <1>3 DEF MetricsInv, MetricsTypes
  <2> QED  BY <1>1, <1>2, <2>1 DEF MetricsInv, MetricsTypes
<1>6. LockIsHeld'
  BY <1>4 DEF LockIsHeld
<1>7. CountersAgree'
  <2>1. \A k \in Stages : ~AddingTo(k) /\ ~AddingTo(k)'
    BY <1>1, <1>2, <1>4 DEF AddingTo, Between
  <2>2. LookedUp /\ ~LookedUp'
    BY <1>1, <1>4 DEF LookedUp, Between
  <2>3. \A k \in Stages : Len(recorded'[k]) = totals'[k]
    BY <1>1, <1>3, <2>1 DEF MetricsInv, CountersAgree, Counters, Stages
  <2>4. totals'["hits"] <= totals'["lookups"]
    BY <1>3, <2>2 DEF MetricsInv, CountersAgree, Counters
  <2>5. totals'["hits"] \in Nat
    BY <1>5 DEF MetricsTypes, Counters
  <2> QED  BY <1>1, <2>1, <2>2, <2>3, <2>4, <2>5 DEF MetricsInv, CountersAgree
<1>8. ThreadsKnow'
  <2>1. ASSUME NEW u \in MetricThreads, u # t, metric[u].pc = "taken"
        PROVE  TakenIsTrue(metric[u])'
    BY <1>1, <1>2, <2>1 DEF MetricsInv, ThreadsKnow, TakenIsTrue, OfOneMoment
  <2> QED  BY <1>1, <1>2, <2>1 DEF MetricsInv, ThreadsKnow, Between, Quiet
<1> QED  BY <1>5, <1>6, <1>7, <1>8 DEF MetricsInv

\* A snapshot begins: the window, or the lookups, as they are.
LEMMA StartKeeps ==
    ASSUME MetricsInv, NEW t \in MetricThreads,
           StartCacheSnapshot(t) \/ \E s \in Stages : StartSnapshot(t, s)
    PROVE  MetricsInv'
<1>1. PICK doing \in {[pc |-> "counting", lookups |-> totals["lookups"]]} \union
                {[pc |-> "copying", of |-> s, samples |-> windows[s]] : s \in Stages} :
          Acquire(t, doing) /\ totals' = totals /\ windows' = windows /\ recorded' = recorded
  BY DEF StartCacheSnapshot, StartSnapshot
<1>2. /\ \A u \in MetricThreads : metric[u].pc \notin Between
      /\ holder' = t /\ metric' = [u \in MetricThreads |-> metric'[u]]
      /\ metric'[t] = doing
      /\ \A u \in MetricThreads : u # t => metric'[u] = metric[u]
  BY <1>1, AcquireTakesTurns
<1>3. /\ doing.pc \in {"counting", "copying"}
      /\ doing.pc = "counting" => doing.lookups = totals["lookups"]
      /\ doing.pc = "copying" => doing.of \in Stages /\ doing.samples = windows[doing.of]
  <2>1. CASE doing = [pc |-> "counting", lookups |-> totals["lookups"]]
    BY <2>1
  <2>2. ASSUME NEW s \in Stages, doing = [pc |-> "copying", of |-> s, samples |-> windows[s]]
        PROVE  doing.pc = "copying" /\ doing.of \in Stages /\ doing.samples = windows[doing.of]
    BY <2>2
  <2> QED  BY <1>1, <2>1, <2>2
<1>5. MetricsTypes'
  BY <1>1, <1>2 DEF MetricsInv, MetricsTypes
<1>6. LockIsHeld'
  BY <1>2 DEF LockIsHeld
<1>7. CountersAgree'
  <2>1. \A k \in Stages : ~AddingTo(k) /\ ~AddingTo(k)'
    BY <1>2, <1>3 DEF AddingTo, Between
  <2>2. ~LookedUp /\ ~LookedUp'
    BY <1>2, <1>3 DEF LookedUp, Between
  <2> QED  BY <1>1, <2>1, <2>2 DEF MetricsInv, CountersAgree
<1>8. ThreadsKnow'
  <2>1. ASSUME NEW u \in MetricThreads, u # t, metric[u].pc = "taken"
        PROVE  TakenIsTrue(metric[u])'
    BY <1>1, <1>2, <2>1 DEF MetricsInv, ThreadsKnow, TakenIsTrue, OfOneMoment
  <2> QED  BY <1>1, <1>2, <1>3, <2>1 DEF MetricsInv, ThreadsKnow, Between
<1> QED  BY <1>5, <1>6, <1>7, <1>8 DEF MetricsInv

\* A snapshot ends: the totals have not moved since its window was copied.
LEMMA SnapshotKeeps ==
    ASSUME MetricsInv, NEW t \in MetricThreads, Snapshot(t)
    PROVE  MetricsInv'
<1> DEFINE s == metric[t].of
           w == metric[t].samples
           done == [pc |-> "taken", of |-> s, samples |-> w, tokens |-> totals[s],
                    p50 |-> Percentile(w, 50), p95 |-> Percentile(w, 95), stats |-> Stats(s, w)]
<1>1. /\ metric[t].pc = "copying" /\ Release(t, done)
      /\ s \in Stages /\ w = windows[s] /\ holder = t
      /\ totals' = totals /\ windows' = windows /\ recorded' = recorded
  BY DEF Snapshot, MetricsInv, ThreadsKnow, LockIsHeld, Between
<1>2. /\ \A u \in MetricThreads : u # t => metric[u].pc \notin Between
      /\ holder' = "nobody" /\ metric' = [u \in MetricThreads |-> metric'[u]]
      /\ metric'[t] = done
      /\ \A u \in MetricThreads : u # t => metric'[u] = metric[u]
  BY <1>1, ReleaseEndsTurn
<1>4. \A u \in MetricThreads : metric'[u].pc \notin Between
  BY <1>2 DEF Between
<1>5. MetricsTypes'
  BY <1>1, <1>2 DEF MetricsInv, MetricsTypes
<1>6. LockIsHeld'
  BY <1>4 DEF LockIsHeld
<1>a. \A k \in Stages : ~AddingTo(k) /\ ~AddingTo(k)'
  BY <1>1, <1>2, <1>4 DEF AddingTo, Between
<1>7. CountersAgree'
  <2>2. ~LookedUp /\ ~LookedUp'
    BY <1>1, <1>2, <1>4 DEF LookedUp, Between
  <2> QED  BY <1>1, <1>a, <2>2 DEF MetricsInv, CountersAgree
<1>8. ThreadsKnow'
  <2>1. ASSUME NEW u \in MetricThreads, u # t, metric[u].pc = "taken"
        PROVE  TakenIsTrue(metric[u])'
    BY <1>1, <1>2, <2>1 DEF MetricsInv, ThreadsKnow, TakenIsTrue, OfOneMoment
  <2>2. ASSUME NEW m, m = done PROVE TakenIsTrue(m)'
    <3> DEFINE r == recorded[s]
    <3>1. r \in Seq(Sampled[s]) /\ w = LastOf(r, WindowSize) /\ Len(r) = totals[s]
      BY <1>1, <1>a DEF MetricsInv, MetricsTypes, CountersAgree
    <3>2. SubSeq(r, 1, Len(r)) = r /\ Len(r) \in 0..Len(r) /\ w \in Seq(Sampled[s])
      BY <3>1, LastOfIs, MetricsConstants, SubSeqFull
    <3>3. m.of = s /\ m.samples = w /\ m.tokens = totals[s]
      BY <2>2
    <3>4. m.p50 = Percentile(w, 50) /\ m.p95 = Percentile(w, 95) /\ m.stats = Stats(s, w)
      BY <2>2
    <3>5. OfOneMoment(m)'
      BY <1>1, <3>1, <3>2, <3>3 DEF OfOneMoment
    <3> QED  BY <1>1, <3>2, <3>3, <3>4, <3>5 DEF TakenIsTrue
  <2>3. done.pc = "taken"
    OBVIOUS
  <2>4. ASSUME NEW u \in MetricThreads, metric'[u].pc = "taken" PROVE TakenIsTrue(metric[u])'
    <3>1. CASE u = t
      BY <1>2, <2>2, <3>1 DEF TakenIsTrue, OfOneMoment
    <3> QED  BY <1>2, <2>1, <2>4, <3>1
  <2> HIDE DEF done
  <2> QED  BY <1>1, <1>2, <2>3, <2>4 DEF MetricsInv, ThreadsKnow, Between
<1> QED  BY <1>5, <1>6, <1>7, <1>8 DEF MetricsInv

\* The snapshot of the cache ends with the hits.
LEMMA CacheSnapshotKeeps ==
    ASSUME MetricsInv, NEW t \in MetricThreads, CacheSnapshot(t)
    PROVE  MetricsInv'
<1> DEFINE done == [pc |-> "counted", lookups |-> metric[t].lookups, hits |-> totals["hits"]]
<1>1. /\ metric[t].pc = "counting" /\ Release(t, done) /\ holder = t
      /\ metric[t].lookups = totals["lookups"]
      /\ totals' = totals /\ windows' = windows /\ recorded' = recorded
  BY DEF CacheSnapshot, MetricsInv, ThreadsKnow, LockIsHeld, Between
<1>2. /\ \A u \in MetricThreads : u # t => metric[u].pc \notin Between
      /\ holder' = "nobody" /\ metric' = [u \in MetricThreads |-> metric'[u]]
      /\ metric'[t] = done
      /\ \A u \in MetricThreads : u # t => metric'[u] = metric[u]
  BY <1>1, ReleaseEndsTurn
<1>4. \A u \in MetricThreads : metric'[u].pc \notin Between
  BY <1>2 DEF Between
<1>5. MetricsTypes'
  BY <1>1, <1>2 DEF MetricsInv, MetricsTypes
<1>6. LockIsHeld'
  BY <1>4 DEF LockIsHeld
<1>a. ~LookedUp /\ ~LookedUp'
  BY <1>1, <1>2, <1>4 DEF LookedUp, Between
<1>7. CountersAgree'
  <2>1. \A k \in Stages : ~AddingTo(k) /\ ~AddingTo(k)'
    BY <1>1, <1>2, <1>4 DEF AddingTo, Between
  <2> QED  BY <1>1, <1>a, <2>1 DEF MetricsInv, CountersAgree
<1>8. ThreadsKnow'
  <2>1. ASSUME NEW u \in MetricThreads, u # t, metric[u].pc = "taken"
        PROVE  TakenIsTrue(metric[u])'
    BY <1>1, <1>2, <2>1 DEF MetricsInv, ThreadsKnow, TakenIsTrue, OfOneMoment
  <2>2. totals["hits"] \in Nat /\ totals["hits"] <= totals["lookups"]
    BY <1>a DEF MetricsInv, CountersAgree, MetricsTypes, Counters
  <2> QED  BY <1>1, <1>2, <2>1, <2>2 DEF MetricsInv, ThreadsKnow, Between
<1> QED  BY <1>5, <1>6, <1>7, <1>8 DEF MetricsInv

\* Every statement under the lock keeps the invariant.
LEMMA MetricsNextInv == MetricsInv /\ [MetricsNext]_metrics_vars => MetricsInv'
<1> SUFFICES ASSUME MetricsInv, [MetricsNext]_metrics_vars PROVE MetricsInv'
  OBVIOUS
<1>1. ASSUME NEW t \in MetricThreads, NEW s \in Stages, NEW x \in Sampled[s], Report(t, s, x)
      PROVE  MetricsInv'
  BY <1>1, ReportKeeps
<1>2. CASE UNCHANGED metrics_vars
  BY <1>2 DEF metrics_vars, MetricsInv, MetricsTypes, LockIsHeld, CountersAgree, AddingTo,
     LookedUp, ThreadsKnow, TakenIsTrue, OfOneMoment
<1>3. ASSUME NEW t \in MetricThreads,
             \/ \E sample \in Sampled["rerank"] : ReportRerank(t, sample)
             \/ \E sample \in Sampled["hyde"] : ReportHyde(t, sample)
             \/ \E sample \in Sampled["crag"] : ReportCrag(t, sample)
             \/ \E sample \in Sampled["crag_shadow"] : ReportCragShadow(t, sample)
             \/ \E sample \in Sampled["reflection"] : ReportReflection(t, sample)
             \/ \E sample \in Sampled["reflection_shadow"] : ReportReflectionShadow(t, sample)
      PROVE  \E s \in Stages : \E x \in Sampled[s] : Report(t, s, x)
  BY <1>3 DEF ReportRerank, ReportHyde, ReportCrag, ReportCragShadow, ReportReflection,
     ReportReflectionShadow, Stages
<1>4. ASSUME NEW t \in MetricThreads,
             \/ \E hit \in BOOLEAN : ReportLookup(t, hit)
             \/ \E s \in Stages : StartSnapshot(t, s)
             \/ AddTokens(t) \/ CountHit(t) \/ Snapshot(t) \/ StartCacheSnapshot(t)
             \/ CacheSnapshot(t)
      PROVE  MetricsInv'
  BY <1>4, ReportLookupKeeps, StartKeeps, AddTokensKeeps, CountHitKeeps, SnapshotKeeps,
     CacheSnapshotKeeps
<1> QED  BY <1>1, <1>2, <1>3, <1>4 DEF MetricsNext

-----------------------------------------------------------------------------
\* The numbers of the samples.
LEMMA OneToN ==
    ASSUME NEW n \in Nat
    PROVE  IsFiniteSet(1..n) /\ Cardinality(1..n) = n
<1>1. /\ IsFiniteSet(1..n)
      /\ Cardinality(1..n) = IF 1 > n THEN 0 ELSE n - 1 + 1
  BY FS_Interval
<1> QED  BY <1>1

\* Some of the samples: how many.
LEMMA SomeOf ==
    ASSUME NEW S, NEW r \in Seq(S), NEW A \in SUBSET (DOMAIN r)
    PROVE  IsFiniteSet(A) /\ Cardinality(A) \in Nat /\ Cardinality(A) <= Len(r)
<1>1. DOMAIN r = 1..Len(r) /\ Len(r) \in Nat
  OBVIOUS
<1>2. IsFiniteSet(1..Len(r)) /\ Cardinality(1..Len(r)) = Len(r)
  BY <1>1, OneToN
<1> QED  BY <1>1, <1>2, FS_Subset, FS_CardinalityType

\* Samples that are counted apart are no more than there are.
LEMMA CountedApart ==
    ASSUME NEW S, NEW r \in Seq(S), NEW A \in SUBSET (DOMAIN r), NEW B \in SUBSET (DOMAIN r),
           A \cap B = {}
    PROVE  /\ Cardinality(A \union B) = Cardinality(A) + Cardinality(B)
           /\ Cardinality(A) + Cardinality(B) <= Len(r)
<1>1. A \union B \in SUBSET (DOMAIN r)
  OBVIOUS
<1>2. /\ IsFiniteSet(A) /\ IsFiniteSet(B) /\ Cardinality(A) \in Nat /\ Cardinality(B) \in Nat
      /\ Cardinality(A \union B) <= Len(r)
  BY <1>1, SomeOf
<1>3. Cardinality(A \union B) = Cardinality(A) + Cardinality(B) - Cardinality(A \cap B)
  BY <1>2, FS_Union
<1>4. Cardinality(A \cap B) = 0
  BY FS_EmptySet
<1> QED  BY <1>2, <1>3, <1>4

\* The shares of a window of reflection samples.
LEMMA ReflectionShares ==
    ASSUME NEW r \in Seq(ReflectionSample)
    PROVE  LET stats == ReflectionStats(r)
           IN  /\ stats.first_pass + stats.revised <= Len(r)
               /\ stats.first_pass + stats.abstained <= Len(r)
<1> DEFINE A == {i \in DOMAIN r : FirstPass(r[i])}
           B == {i \in DOMAIN r : r[i].iterations > 1}
           C == {i \in DOMAIN r : r[i].action = "abstain"}
<1>1. /\ ReflectionStats(r).first_pass = Cardinality(A)
      /\ ReflectionStats(r).revised = Cardinality(B)
      /\ ReflectionStats(r).abstained = Cardinality(C)
  BY DEF ReflectionStats, Many
<1>2. \A i \in DOMAIN r : r[i].iterations \in Nat
  <2>1. \A i \in 1..Len(r) : r[i] \in ReflectionSample
    BY ElementOfSeq
  <2> QED  BY <2>1 DEF ReflectionSample
<1>3. A \cap B = {}
  BY <1>2 DEF FirstPass
<1>4. A \cap C = {}
  BY DEF FirstPass
<1>5. /\ Cardinality(A) + Cardinality(B) <= Len(r)
      /\ Cardinality(A) + Cardinality(C) <= Len(r)
  <2> HIDE DEF A, B, C
  <2>1. A \in SUBSET (DOMAIN r) /\ B \in SUBSET (DOMAIN r) /\ C \in SUBSET (DOMAIN r)
    BY DEF A, B, C
  <2> QED  BY <1>3, <1>4, <2>1, CountedApart
<1> QED  BY <1>1, <1>5

\* And of graded ones.
LEMMA CragShares ==
    ASSUME NEW r \in Seq(CragSample)
    PROVE  LET stats == CragStats(r)
           IN  stats.correct + stats.ambiguous + stats.incorrect <= Len(r)
<1> DEFINE A == {i \in DOMAIN r : r[i].decision = "correct"}
           B == {i \in DOMAIN r : r[i].decision = "ambiguous"}
           C == {i \in DOMAIN r : r[i].decision = "incorrect"}
<1>1. /\ CragStats(r).correct = Cardinality(A)
      /\ CragStats(r).ambiguous = Cardinality(B)
      /\ CragStats(r).incorrect = Cardinality(C)
  BY DEF CragStats, Many
<1>2. A \cap B = {} /\ (A \union B) \cap C = {}
  OBVIOUS
<1>3. /\ A \in SUBSET (DOMAIN r) /\ B \in SUBSET (DOMAIN r) /\ C \in SUBSET (DOMAIN r)
      /\ (A \union B) \in SUBSET (DOMAIN r)
  OBVIOUS
<1> HIDE DEF A, B, C
<1>4. /\ Cardinality(A \union B) = Cardinality(A) + Cardinality(B)
      /\ Cardinality(A \union B) + Cardinality(C) <= Len(r)
  BY <1>2, <1>3, CountedApart
<1>5. Cardinality(A) + Cardinality(B) + Cardinality(C) <= Len(r)
  BY <1>4
<1> QED  BY <1>1, <1>5

\* The shares of a snapshot that was taken.
LEMMA SharesOfTaken ==
    ASSUME NEW m, TakenIsTrue(m)
    PROVE  LET stats == m.stats
               n == Len(m.samples)
           IN  /\ m.of \in {"reflection", "reflection_shadow"} =>
                     /\ stats.first_pass + stats.revised <= n
                     /\ stats.first_pass + stats.abstained <= n
               /\ m.of \in {"crag", "crag_shadow"} =>
                     stats.correct + stats.ambiguous + stats.incorrect <= n
<1>1. CASE m.of \in {"reflection", "reflection_shadow"}
  <2>1. m.stats = ReflectionStats(m.samples)
    BY <1>1 DEF TakenIsTrue, Stats, ReflectionShadowStats
  <2>2. Sampled[m.of] \subseteq ReflectionSample
    BY <1>1, MetricsAssumption
  <2>3. m.samples \in Seq(ReflectionSample)
    BY <2>2 DEF TakenIsTrue
  <2> QED  BY <1>1, <2>1, <2>3, ReflectionShares
<1>2. CASE m.of \in {"crag", "crag_shadow"}
  <2>1. m.stats = CragStats(m.samples)
    BY <1>2 DEF TakenIsTrue, Stats, CragShadowStats
  <2>2. Sampled[m.of] \subseteq CragSample
    BY <1>2, MetricsAssumption
  <2>3. m.samples \in Seq(CragSample)
    BY <2>2 DEF TakenIsTrue
  <2> QED  BY <1>2, <2>1, <2>3, CragShares
<1> QED  BY <1>1, <1>2

-----------------------------------------------------------------------------
\* Where the percentiles are, and that they cover their shares.
LEMMA PercentileIndexFits ==
    ASSUME NEW n \in Nat, n > 0, NEW k50, NEW k95,
           k50 = PercentileIndex(n, 50), k95 = PercentileIndex(n, 95)
    PROVE  /\ k50 \in 0..(n - 1) /\ k95 \in 0..(n - 1) /\ k50 <= k95
           /\ 2 * (k50 + 1) >= n /\ 100 * (k95 + 1) >= 95 * n
<1> DEFINE a == (n * 50) \div 100
           b == (n * 95) \div 100
<1>1. a \in Nat /\ 100 * a <= 50 * n /\ 50 * n < 100 * a + 100
  OBVIOUS
<1>2. b \in Nat /\ 100 * b <= 95 * n /\ 95 * n < 100 * b + 100
  OBVIOUS
<1>3. k50 = (IF a < n THEN a ELSE n - 1) /\ k95 = (IF b < n THEN b ELSE n - 1)
  BY DEF PercentileIndex
<1> HIDE DEF a, b
<1> QED  BY <1>1, <1>2, <1>3

\* Some latency is at every index, and only one: the sorted samples at k.
LEMMA PercentileIs ==
    ASSUME NEW r, DOMAIN r = 1..Len(r), Len(r) \in Nat, r # <<>>,
           \A i \in DOMAIN r : r[i].latency \in Latencies,
           NEW percent \in Nat, NEW k, k = PercentileIndex(Len(r), percent),
           k \in 0..(Len(r) - 1)
    PROVE  LET x == Percentile(r, percent)
           IN  /\ x \in Latencies
               /\ Cardinality(Earlier(r, x)) <= k /\ k < Cardinality(NotLater(r, x))
<1> DEFINE Is(x) == Cardinality(Earlier(r, x)) <= k /\ k < Cardinality(NotLater(r, x))
<1>1. Earlier(r, 1) = {} /\ Earlier(r, 2) = NotLater(r, 1) /\ Earlier(r, 3) = NotLater(r, 2)
  BY DEF Earlier, NotLater, Latencies
<1>2. NotLater(r, 3) = DOMAIN r
  BY DEF NotLater, Latencies
<1>3. Cardinality(DOMAIN r) = Len(r) /\ IsFiniteSet(DOMAIN r)
  BY OneToN
<1>4. Cardinality({}) = 0
  BY FS_EmptySet
<1>5. \A x \in Latencies : Cardinality(NotLater(r, x)) \in Nat
  <2>1. \A x \in Latencies : NotLater(r, x) \in SUBSET (DOMAIN r)
    BY DEF NotLater
  <2> QED  BY <1>3, <2>1, FS_Subset, FS_CardinalityType
<1>6. \E x \in Latencies : Is(x)
  <2> DEFINE c1 == Cardinality(NotLater(r, 1))
             c2 == Cardinality(NotLater(r, 2))
  <2>1. CASE k < c1
    <3>1. Cardinality(Earlier(r, 1)) = 0 /\ 0 <= k
      BY SMTT(30), <1>1, <1>4
    <3>2. Is(1)
      BY <2>1, <3>1
    <3> QED  BY <3>2 DEF Latencies
  <2>2. CASE c1 <= k /\ k < c2
    BY <1>1, <2>2 DEF Latencies
  <2>3. CASE c2 <= k
    BY <1>1, <1>2, <1>3, <2>3 DEF Latencies
  <2>4. c1 \in Nat /\ c2 \in Nat
    BY <1>5 DEF Latencies
  <2> QED  BY <1>3, <2>1, <2>2, <2>3, <2>4
<1>7. Percentile(r, percent) = CHOOSE x \in Latencies : Is(x)
  BY DEF Percentile
<1> HIDE DEF Is
<1>8. Percentile(r, percent) \in Latencies /\ Is(Percentile(r, percent))
  BY <1>6, <1>7
<1> QED  BY <1>8 DEF Is

\* The percentiles of a snapshot that was taken.
LEMMA PercentilesCover ==
    ASSUME NEW m, TakenIsTrue(m)
    PROVE  LET samples == m.samples
           IN  /\ 2 * Cardinality(NotLater(samples, m.p50)) >= Len(samples)
               /\ 100 * Cardinality(NotLater(samples, m.p95)) >= 95 * Len(samples)
               /\ m.p50 <= m.p95
               /\ m.p50 = 0 <=> samples = <<>>
<1> DEFINE r == m.samples
           n == Len(r)
<1>1. /\ r \in Seq(Sampled[m.of]) /\ m.of \in Stages
      /\ m.p50 = Percentile(r, 50) /\ m.p95 = Percentile(r, 95)
  BY DEF TakenIsTrue
<1>2. DOMAIN r = 1..n /\ n \in Nat /\ IsFiniteSet(DOMAIN r) /\ Cardinality(DOMAIN r) = n
  BY <1>1, OneToN
<1>3. \A x : NotLater(r, x) \in SUBSET (DOMAIN r) /\ Earlier(r, x) \in SUBSET (DOMAIN r)
  BY DEF NotLater, Earlier
<1>4. \A x : /\ IsFiniteSet(NotLater(r, x)) /\ Cardinality(NotLater(r, x)) \in Nat
             /\ IsFiniteSet(Earlier(r, x)) /\ Cardinality(Earlier(r, x)) \in Nat
  BY <1>2, <1>3, FS_Subset, FS_CardinalityType
<1>5. CASE r = <<>>
  <2>1. n = 0 /\ m.p50 = 0 /\ m.p95 = 0
    BY <1>1, <1>5 DEF Percentile
  <2> QED  BY <1>4, <1>5, <2>1
<1>6. CASE r # <<>>
  <2> DEFINE k50 == PercentileIndex(n, 50)
             k95 == PercentileIndex(n, 95)
  <2>1. n > 0
    BY <1>1, <1>2, <1>6, EmptySeq
  <2>2. /\ k50 \in 0..(n - 1) /\ k95 \in 0..(n - 1) /\ k50 <= k95
        /\ 2 * (k50 + 1) >= n /\ 100 * (k95 + 1) >= 95 * n
    BY <1>2, <2>1, PercentileIndexFits
  <2>3. \A i \in DOMAIN r : r[i].latency \in Latencies
    <3>1. Sampled[m.of] \subseteq RerankSample \union CragSample \union ReflectionSample
      BY <1>1, MetricsAssumption DEF Stages, HydeSample
    <3>2. \A x \in RerankSample \union CragSample \union ReflectionSample :
              x.latency \in Latencies
      BY DEF RerankSample, CragSample, ReflectionSample
    <3>3. \A i \in 1..Len(r) : r[i] \in Sampled[m.of]
      BY <1>1, ElementOfSeq
    <3> QED  BY <1>2, <3>1, <3>2, <3>3
  <2>4. /\ m.p50 \in Latencies
        /\ Cardinality(Earlier(r, m.p50)) <= k50 /\ k50 < Cardinality(NotLater(r, m.p50))
    <3>1. ASSUME NEW k, k = PercentileIndex(Len(r), 50), k \in 0..(Len(r) - 1)
          PROVE  /\ Percentile(r, 50) \in Latencies
                 /\ Cardinality(Earlier(r, Percentile(r, 50))) <= k
                 /\ k < Cardinality(NotLater(r, Percentile(r, 50)))
      <4> HIDE DEF r
      <4>1. 50 \in Nat
        OBVIOUS
      <4> QED  BY <1>2, <1>6, <2>3, <3>1, <4>1, PercentileIs
    <3> QED  BY <1>1, <2>2, <3>1
  <2>5. /\ m.p95 \in Latencies
        /\ Cardinality(Earlier(r, m.p95)) <= k95 /\ k95 < Cardinality(NotLater(r, m.p95))
    <3>1. ASSUME NEW k, k = PercentileIndex(Len(r), 95), k \in 0..(Len(r) - 1)
          PROVE  /\ Percentile(r, 95) \in Latencies
                 /\ Cardinality(Earlier(r, Percentile(r, 95))) <= k
                 /\ k < Cardinality(NotLater(r, Percentile(r, 95)))
      <4> HIDE DEF r
      <4>1. 95 \in Nat
        OBVIOUS
      <4> QED  BY <1>2, <1>6, <2>3, <3>1, <4>1, PercentileIs
    <3> QED  BY <1>1, <2>2, <3>1
  <2>6. m.p50 <= m.p95
    <3>1. SUFFICES ASSUME m.p95 < m.p50 PROVE FALSE
      BY <2>4, <2>5 DEF Latencies
    <3>2. NotLater(r, m.p95) \in SUBSET Earlier(r, m.p50)
      BY <2>3, <2>4, <2>5, <3>1 DEF NotLater, Earlier, Latencies
    <3>3. Cardinality(NotLater(r, m.p95)) <= Cardinality(Earlier(r, m.p50))
      BY <1>4, <3>2, FS_Subset
    <3> HIDE DEF k50, k95
    <3> QED  BY <1>2, <1>4, <2>2, <2>4, <2>5, <3>3
  <2>7. /\ 2 * Cardinality(NotLater(r, m.p50)) >= n
        /\ 100 * Cardinality(NotLater(r, m.p95)) >= 95 * n
    <3> DEFINE c == Cardinality(NotLater(r, m.p50))
               d == Cardinality(NotLater(r, m.p95))
    <3>1. c \in Nat /\ d \in Nat /\ k50 < c /\ k95 < d
      BY <1>4, <2>4, <2>5
    <3> HIDE DEF k50, k95, c, d, n
    <3>2. 2 * c >= n /\ 100 * d >= 95 * n
      BY <1>2, <2>2, <3>1
    <3> QED  BY <3>2 DEF c, d
  <2>8. m.p50 # 0
    BY <2>4 DEF Latencies
  <2> QED  BY <1>6, <2>6, <2>7, <2>8
<1> QED  BY <1>5, <1>6

\* Every snapshot of RagMetricsService shows the window and the total of one moment, no hit
\* without its lookup, percentiles that cover their shares of the window, and counts that
\* are shares of it, for any threads, samples and window.
THEOREM MetricsAreTrue == MetricsSpec => []SnapshotIsTrue
<1>1. ASSUME MetricsInv PROVE SnapshotIsTrue
  <2>1. \A t \in Taken : TakenIsTrue(metric[t])
    BY <1>1 DEF MetricsInv, ThreadsKnow, Taken
  <2>2. PercentileCovers
    BY <2>1, PercentilesCover DEF PercentileCovers
  <2>3. SharesOfOneWindow
    BY <2>1, SharesOfTaken DEF SharesOfOneWindow
  <2>4. SnapshotIsOneMoment
    BY <1>1 DEF MetricsInv, ThreadsKnow, TakenIsTrue, OfOneMoment, SnapshotIsOneMoment, Taken
  <2> QED  BY <2>2, <2>3, <2>4 DEF SnapshotIsTrue
<1> QED  BY <1>1, MetricsInitInv, MetricsNextInv, PTL DEF MetricsSpec

-----------------------------------------------------------------------------
\* The semantic cache's collection: creating it once, clearing it.

CachePoints == {"idle", "flag", "lock", "exists", "create", "index1", "index2",
                "operate", "count", "delete"}

Faults == {"none", "collision", "absent", "error"}

Operations == [pc : CachePoints, kind : Kinds, recreating : BOOLEAN,
               met : Faults]

CollectionTypes ==
    /\ exists \in BOOLEAN /\ cleared \in BOOLEAN /\ broken \in BOOLEAN
    /\ indexes \subseteq Indexed
    /\ ready \subseteq CacheWorkers
    /\ gate \in [CacheWorkers -> CacheThreads \union {Nobody}]
    /\ creator \in CacheThreads \union {Nobody, Unknown}
    /\ cacheop \in [CacheThreads -> Operations]

\* Between the lock and the flag: at the four calls that create, but not for a clear.
Creates == {"exists", "create", "index1", "index2"}
Ensuring(t) == cacheop[t].pc \in Creates /\ ~cacheop[t].recreating

HoldsItsGate == \A t \in CacheThreads :
    /\ Ensuring(t) => gate[WorkerOf[t]] = t
    /\ cacheop[t].recreating => cleared /\ cacheop[t].pc \in Creates

\* Who saw no collection and finds one now lost it to another worker, or to a creation
\* that nobody waited for.
LostToAnother == \A t \in CacheThreads :
    /\ ~cleared /\ ((exists /\ cacheop[t].pc = "create") \/ cacheop[t].met = "collision") =>
          \/ creator = Unknown
          \/ creator # Nobody /\ WorkerOf[creator] # WorkerOf[t]
    /\ ~cleared /\ cacheop[t].met = "collision" => exists

\* An index that is missing is still to be made.
IndexesFollow ==
    exists /\ ~broken =>
        /\ "cache_namespace" \in indexes \/ \E t \in CacheThreads : cacheop[t].pc = "index1"
        /\ "top_k" \in indexes \/ Creating

\* A collection that is missing is still to be created again.
CreatedAgain == ready # {} /\ ~broken /\ ~exists => Clearing

CollectionInv ==
    CollectionTypes /\ HoldsItsGate /\ LostToAnother /\ IndexesFollow /\ CreatedAgain

\* What a step does to the operation of its thread.
Advances(t) ==
    \/ \E pc \in CachePoints : Moves(t, pc)
    \/ Returns(t)
    \/ \E met \in Faults : Aborted(t, met)

\* The operations of the other threads stay as they are.
LEMMA OperationsStay ==
    ASSUME NEW t \in CacheThreads, cacheop \in [CacheThreads -> Operations], Advances(t)
    PROVE  cacheop' \in [CacheThreads -> Operations]
<1>1. ASSUME NEW pc \in CachePoints, Moves(t, pc) PROVE cacheop' \in [CacheThreads -> Operations]
  BY <1>1 DEF Moves, Operations
<1>2. NoOp \in Operations
  BY DEF NoOp, Operations, CachePoints, Kinds, Faults
<1>3. ASSUME NEW met \in Faults, Aborted(t, met)
      PROVE  cacheop' \in [CacheThreads -> Operations]
  <2>1. [NoOp EXCEPT !.met = met] \in Operations
    BY <1>2 DEF Operations
  <2> QED  BY <1>3, <2>1 DEF Aborted
<1> QED  BY <1>1, <1>2, <1>3 DEF Advances, Returns

\* Before any worker has looked, the invariant of the collection holds.
LEMMA CollectionInitInv == CollectionInit => CollectionInv
<1> SUFFICES ASSUME CollectionInit PROVE CollectionInv
  OBVIOUS
<1> USE CollectionAssumption DEF CollectionInit, NoOp
<1>1. CollectionTypes
  BY DEF CollectionTypes, Operations, Faults, CachePoints, Kinds, Indexed
<1>2. HoldsItsGate /\ LostToAnother
  BY DEF HoldsItsGate, LostToAnother, Ensuring, Creates
<1>3. IndexesFollow /\ CreatedAgain
  BY DEF IndexesFollow, CreatedAgain, Indexed
<1> QED  BY <1>1, <1>2, <1>3 DEF CollectionInv

\* Every call of a worker, and every failure of one, keeps it.
LEMMA CollectionNextInv == CollectionInv /\ [CollectionNext]_collection_vars => CollectionInv'
<1> SUFFICES ASSUME CollectionInv, [CollectionNext]_collection_vars PROVE CollectionInv'
  OBVIOUS
<1> USE CollectionAssumption DEF CollectionInv
<1>1. ASSUME NEW t \in CacheThreads, NEW kind \in Kinds, BeginOp(t, kind) PROVE CollectionInv'
  <2>6. cacheop' \in [CacheThreads -> Operations]
    BY <1>1 DEF CollectionTypes, Operations, CachePoints, Faults, Kinds, BeginOp, NoOp
  <2>1. CollectionTypes'
    BY <1>1, <2>6 DEF CollectionTypes, Indexed, BeginOp, NoOp
  <2>2. HoldsItsGate'
    BY <1>1 DEF CollectionTypes, Operations, HoldsItsGate, Ensuring, Creates, BeginOp, NoOp
  <2>3. LostToAnother'
    BY <1>1 DEF CollectionTypes, Operations, Faults, HoldsItsGate, Ensuring, Creates,
       LostToAnother, BeginOp, NoOp
  <2>4. IndexesFollow'
    BY <1>1 DEF CollectionTypes, Operations, IndexesFollow, Creating, Indexed, BeginOp, NoOp
  <2>5. CreatedAgain'
    BY <1>1 DEF CollectionTypes, Operations, HoldsItsGate, Creates, CreatedAgain, Clearing,
       BeginOp, NoOp
  <2> QED  BY <2>1, <2>2, <2>3, <2>4, <2>5
<1>2. ASSUME NEW t \in CacheThreads, CheckFlag(t) PROVE CollectionInv'
  <2>6. cacheop' \in [CacheThreads -> Operations]
    <3>1. Advances(t)
      BY <1>2 DEF Advances, CachePoints, Faults, CheckFlag, AfterReady, Mine
    <3> QED  BY <3>1, OperationsStay DEF CollectionTypes
  <2>1. CollectionTypes'
    BY <1>2, <2>6 DEF CollectionTypes, Indexed, CheckFlag, Moves, AfterReady, Mine
  <2>2. HoldsItsGate'
    BY <1>2 DEF CollectionTypes, Operations, HoldsItsGate, Ensuring, Creates, CheckFlag,
       Moves, AfterReady, Mine
  <2>3. LostToAnother'
    BY <1>2 DEF CollectionTypes, Operations, Faults, HoldsItsGate, Ensuring, Creates,
       LostToAnother, CheckFlag, Moves, AfterReady, Mine
  <2>4. IndexesFollow'
    BY <1>2 DEF CollectionTypes, Operations, IndexesFollow, Creating, Indexed, CheckFlag,
       Moves, AfterReady, Mine
  <2>5. CreatedAgain'
    BY <1>2 DEF CollectionTypes, Operations, HoldsItsGate, Creates, CreatedAgain, Clearing,
       CheckFlag, Moves, AfterReady, Mine
  <2> QED  BY <2>1, <2>2, <2>3, <2>4, <2>5
<1>3. ASSUME NEW t \in CacheThreads, TakeGate(t) PROVE CollectionInv'
  <2>6. cacheop' \in [CacheThreads -> Operations]
    <3>1. Advances(t)
      BY <1>3 DEF Advances, CachePoints, Faults, TakeGate, AfterReady, Mine, GateOpen
    <3> QED  BY <3>1, OperationsStay DEF CollectionTypes
  <2>1. CollectionTypes'
    BY <1>3, <2>6 DEF CollectionTypes, Indexed, TakeGate, Moves, AfterReady, Mine, GateOpen
  <2>2. HoldsItsGate'
    BY <1>3 DEF CollectionTypes, Operations, HoldsItsGate, Ensuring, Creates, TakeGate, Moves,
       AfterReady, Mine, GateOpen
  <2>3. LostToAnother'
    BY <1>3 DEF CollectionTypes, Operations, Faults, HoldsItsGate, Ensuring, Creates,
       LostToAnother, TakeGate, Moves, AfterReady, Mine, GateOpen
  <2>4. IndexesFollow'
    BY <1>3 DEF CollectionTypes, Operations, IndexesFollow, Creating, Indexed, TakeGate,
       Moves, AfterReady, Mine, GateOpen
  <2>5. CreatedAgain'
    BY <1>3 DEF CollectionTypes, Operations, HoldsItsGate, Creates, CreatedAgain, Clearing,
       TakeGate, Moves, AfterReady, Mine, GateOpen
  <2> QED  BY <2>1, <2>2, <2>3, <2>4, <2>5
<1>4. ASSUME NEW t \in CacheThreads, CollectionExists(t), exists PROVE CollectionInv'
  <2>6. cacheop' \in [CacheThreads -> Operations]
    <3>1. Advances(t)
      BY <1>4 DEF Advances, CachePoints, Faults, CollectionExists, Ensured, AfterReady, Mine
    <3> QED  BY <3>1, OperationsStay DEF CollectionTypes
  <2>1. CollectionTypes'
    BY <1>4, <2>6 DEF CollectionTypes, Indexed, CollectionExists, Ensured, Returns, Moves,
       AfterReady, Mine, NoOp
  <2>2. HoldsItsGate'
    BY <1>4 DEF CollectionTypes, Operations, HoldsItsGate, Ensuring, Creates,
       CollectionExists, Ensured, Returns, Moves, AfterReady, Mine, NoOp
  <2>3. LostToAnother'
    BY <1>4 DEF CollectionTypes, Operations, Faults, HoldsItsGate, Ensuring, Creates,
       LostToAnother, CollectionExists, Ensured, Returns, Moves, AfterReady, Mine, NoOp
  <2>4. IndexesFollow'
    BY <1>4 DEF CollectionTypes, Operations, IndexesFollow, Creating, Indexed,
       CollectionExists, Ensured, Returns, Moves, AfterReady, Mine, NoOp
  <2>5. CreatedAgain'
    BY <1>4 DEF CollectionTypes, Operations, HoldsItsGate, Creates, CreatedAgain, Clearing,
       CollectionExists, Ensured, Returns, Moves, AfterReady, Mine, NoOp
  <2> QED  BY <2>1, <2>2, <2>3, <2>4, <2>5
<1>5. ASSUME NEW t \in CacheThreads, CollectionExists(t), ~exists PROVE CollectionInv'
  <2>6. cacheop' \in [CacheThreads -> Operations]
    <3>1. Advances(t)
      BY <1>5 DEF Advances, CachePoints, Faults, CollectionExists, Ensured, AfterReady, Mine
    <3> QED  BY <3>1, OperationsStay DEF CollectionTypes
  <2>1. CollectionTypes'
    BY <1>5, <2>6 DEF CollectionTypes, Indexed, CollectionExists, Ensured, Returns, Moves,
       AfterReady, Mine, NoOp
  <2>2. HoldsItsGate'
    BY <1>5 DEF CollectionTypes, Operations, HoldsItsGate, Ensuring, Creates,
       CollectionExists, Ensured, Returns, Moves, AfterReady, Mine, NoOp
  <2>3. LostToAnother'
    BY <1>5 DEF CollectionTypes, Operations, Faults, HoldsItsGate, Ensuring, Creates,
       LostToAnother, CollectionExists, Ensured, Returns, Moves, AfterReady, Mine, NoOp
  <2>4. IndexesFollow'
    BY <1>5 DEF CollectionTypes, Operations, IndexesFollow, Creating, Indexed,
       CollectionExists, Ensured, Returns, Moves, AfterReady, Mine, NoOp
  <2>5. CreatedAgain'
    BY <1>5 DEF CollectionTypes, Operations, HoldsItsGate, Creates, CreatedAgain, Clearing,
       CollectionExists, Ensured, Returns, Moves, AfterReady, Mine, NoOp
  <2> QED  BY <2>1, <2>2, <2>3, <2>4, <2>5
<1>6. ASSUME NEW t \in CacheThreads, CreateCollection(t), exists PROVE CollectionInv'
  <2>6. cacheop' \in [CacheThreads -> Operations]
    <3>1. Advances(t)
      BY <1>6 DEF Advances, CachePoints, Faults, CreateCollection
    <3> QED  BY <3>1, OperationsStay DEF CollectionTypes
  <2>1. CollectionTypes'
    BY <1>6, <2>6 DEF CollectionTypes, Indexed, CreateCollection, Aborted, Moves, NoOp
  <2>2. HoldsItsGate'
    BY <1>6 DEF CollectionTypes, Operations, HoldsItsGate, Ensuring, Creates,
       CreateCollection, Aborted, Moves, NoOp
  <2>3. LostToAnother'
    BY <1>6 DEF CollectionTypes, Operations, Faults, HoldsItsGate, Ensuring, Creates,
       LostToAnother, CreateCollection, Aborted, Moves, NoOp
  <2>4. IndexesFollow'
    BY <1>6 DEF CollectionTypes, Operations, IndexesFollow, Creating, Indexed,
       CreateCollection, Aborted, Moves, NoOp
  <2>5. CreatedAgain'
    BY <1>6 DEF CollectionTypes, Operations, HoldsItsGate, Creates, CreatedAgain, Clearing,
       CreateCollection, Aborted, Moves, NoOp
  <2> QED  BY <2>1, <2>2, <2>3, <2>4, <2>5
<1>7. ASSUME NEW t \in CacheThreads, CreateCollection(t), ~exists PROVE CollectionInv'
  <2>6. cacheop' \in [CacheThreads -> Operations]
    <3>1. Advances(t)
      BY <1>7 DEF Advances, CachePoints, Faults, CreateCollection
    <3> QED  BY <3>1, OperationsStay DEF CollectionTypes
  <2>1. CollectionTypes'
    BY <1>7, <2>6 DEF CollectionTypes, Indexed, CreateCollection, Aborted, Moves, NoOp
  <2>2. HoldsItsGate'
    BY <1>7 DEF CollectionTypes, Operations, HoldsItsGate, Ensuring, Creates,
       CreateCollection, Aborted, Moves, NoOp
  <2>3. LostToAnother'
    BY <1>7 DEF CollectionTypes, Operations, Faults, HoldsItsGate, Ensuring, Creates,
       LostToAnother, CreateCollection, Aborted, Moves, NoOp
  <2>4. IndexesFollow'
    BY <1>7 DEF CollectionTypes, Operations, IndexesFollow, Creating, Indexed,
       CreateCollection, Aborted, Moves, NoOp
  <2>5. CreatedAgain'
    BY <1>7 DEF CollectionTypes, Operations, HoldsItsGate, Creates, CreatedAgain, Clearing,
       CreateCollection, Aborted, Moves, NoOp
  <2> QED  BY <2>1, <2>2, <2>3, <2>4, <2>5
<1>8. ASSUME NEW t \in CacheThreads, IndexNamespace(t) PROVE CollectionInv'
  <2>6. cacheop' \in [CacheThreads -> Operations]
    <3>1. Advances(t)
      BY <1>8 DEF Advances, CachePoints, Faults, IndexNamespace
    <3> QED  BY <3>1, OperationsStay DEF CollectionTypes
  <2>1. CollectionTypes'
    BY <1>8, <2>6 DEF CollectionTypes, Indexed, IndexNamespace, Aborted, Moves, NoOp
  <2>2. HoldsItsGate'
    BY <1>8 DEF CollectionTypes, Operations, HoldsItsGate, Ensuring, Creates, IndexNamespace,
       Aborted, Moves, NoOp
  <2>3. LostToAnother'
    BY <1>8 DEF CollectionTypes, Operations, Faults, HoldsItsGate, Ensuring, Creates,
       LostToAnother, IndexNamespace, Aborted, Moves, NoOp
  <2>4. IndexesFollow'
    BY <1>8 DEF CollectionTypes, Operations, IndexesFollow, Creating, Indexed, IndexNamespace,
       Aborted, Moves, NoOp
  <2>5. CreatedAgain'
    BY <1>8 DEF CollectionTypes, Operations, HoldsItsGate, Creates, CreatedAgain, Clearing,
       IndexNamespace, Aborted, Moves, NoOp
  <2> QED  BY <2>1, <2>2, <2>3, <2>4, <2>5
<1>9. ASSUME NEW t \in CacheThreads, IndexTopK(t), exists PROVE CollectionInv'
  <2>6. cacheop' \in [CacheThreads -> Operations]
    <3>1. Advances(t)
      BY <1>9 DEF Advances, CachePoints, Faults, IndexTopK, Ensured, AfterReady, Mine
    <3> QED  BY <3>1, OperationsStay DEF CollectionTypes
  <2>1. CollectionTypes'
    BY <1>9, <2>6 DEF CollectionTypes, Indexed, IndexTopK, Aborted, Ensured, Returns, Moves,
       AfterReady, Mine, NoOp
  <2>2. HoldsItsGate'
    BY <1>9 DEF CollectionTypes, Operations, HoldsItsGate, Ensuring, Creates, IndexTopK,
       Aborted, Ensured, Returns, Moves, AfterReady, Mine, NoOp
  <2>3. LostToAnother'
    BY <1>9 DEF CollectionTypes, Operations, Faults, HoldsItsGate, Ensuring, Creates,
       LostToAnother, IndexTopK, Aborted, Ensured, Returns, Moves, AfterReady, Mine, NoOp
  <2>4. IndexesFollow'
    BY <1>9 DEF CollectionTypes, Operations, IndexesFollow, Creating, Indexed, IndexTopK,
       Aborted, Ensured, Returns, Moves, AfterReady, Mine, NoOp
  <2>5. CreatedAgain'
    BY <1>9 DEF CollectionTypes, Operations, HoldsItsGate, Creates, CreatedAgain, Clearing,
       IndexTopK, Aborted, Ensured, Returns, Moves, AfterReady, Mine, NoOp
  <2> QED  BY <2>1, <2>2, <2>3, <2>4, <2>5
<1>10. ASSUME NEW t \in CacheThreads, IndexTopK(t), ~exists PROVE CollectionInv'
  <2>6. cacheop' \in [CacheThreads -> Operations]
    <3>1. Advances(t)
      BY <1>10 DEF Advances, CachePoints, Faults, IndexTopK, Ensured, AfterReady, Mine
    <3> QED  BY <3>1, OperationsStay DEF CollectionTypes
  <2>1. CollectionTypes'
    BY <1>10, <2>6 DEF CollectionTypes, Indexed, IndexTopK, Aborted, Ensured, Returns, Moves,
       AfterReady, Mine, NoOp
  <2>2. HoldsItsGate'
    BY <1>10 DEF CollectionTypes, Operations, HoldsItsGate, Ensuring, Creates, IndexTopK,
       Aborted, Ensured, Returns, Moves, AfterReady, Mine, NoOp
  <2>3. LostToAnother'
    BY <1>10 DEF CollectionTypes, Operations, Faults, HoldsItsGate, Ensuring, Creates,
       LostToAnother, IndexTopK, Aborted, Ensured, Returns, Moves, AfterReady, Mine, NoOp
  <2>4. IndexesFollow'
    BY <1>10 DEF CollectionTypes, Operations, IndexesFollow, Creating, Indexed, IndexTopK,
       Aborted, Ensured, Returns, Moves, AfterReady, Mine, NoOp
  <2>5. CreatedAgain'
    BY <1>10 DEF CollectionTypes, Operations, HoldsItsGate, Creates, CreatedAgain, Clearing,
       IndexTopK, Aborted, Ensured, Returns, Moves, AfterReady, Mine, NoOp
  <2> QED  BY <2>1, <2>2, <2>3, <2>4, <2>5
<1>11. ASSUME NEW t \in CacheThreads, Operate(t) PROVE CollectionInv'
  <2>6. cacheop' \in [CacheThreads -> Operations]
    <3>1. Advances(t)
      BY <1>11 DEF Advances, CachePoints, Faults, Operate
    <3> QED  BY <3>1, OperationsStay DEF CollectionTypes
  <2>1. CollectionTypes'
    BY <1>11, <2>6 DEF CollectionTypes, Indexed, Operate, Aborted, Moves, Returns, NoOp
  <2>2. HoldsItsGate'
    BY <1>11 DEF CollectionTypes, Operations, HoldsItsGate, Ensuring, Creates, Operate,
       Aborted, Moves, Returns, NoOp
  <2>3. LostToAnother'
    BY <1>11 DEF CollectionTypes, Operations, Faults, HoldsItsGate, Ensuring, Creates,
       LostToAnother, Operate, Aborted, Moves, Returns, NoOp
  <2>4. IndexesFollow'
    BY <1>11 DEF CollectionTypes, Operations, IndexesFollow, Creating, Indexed, Operate,
       Aborted, Moves, Returns, NoOp
  <2>5. CreatedAgain'
    BY <1>11 DEF CollectionTypes, Operations, HoldsItsGate, Creates, CreatedAgain, Clearing,
       Operate, Aborted, Moves, Returns, NoOp
  <2> QED  BY <2>1, <2>2, <2>3, <2>4, <2>5
<1>12. ASSUME NEW t \in CacheThreads, DeleteCollection(t) PROVE CollectionInv'
  <2>6. cacheop' \in [CacheThreads -> Operations]
    BY ZenonT(60), <1>12 DEF CollectionTypes, Operations, CachePoints, Faults, Kinds, DeleteCollection
  <2>1. CollectionTypes'
    BY <1>12, <2>6 DEF CollectionTypes, Indexed, DeleteCollection
  <2>2. HoldsItsGate'
    BY <1>12 DEF CollectionTypes, Operations, HoldsItsGate, Ensuring, Creates, DeleteCollection
  <2>3. LostToAnother'
    BY <1>12 DEF CollectionTypes, Operations, Faults, HoldsItsGate, Ensuring, Creates,
       LostToAnother, DeleteCollection
  <2>4. IndexesFollow'
    BY <1>12 DEF CollectionTypes, Operations, IndexesFollow, Creating, Indexed, DeleteCollection
  <2>5. CreatedAgain'
    BY <1>12 DEF CollectionTypes, Operations, HoldsItsGate, Creates, CreatedAgain, Clearing,
       DeleteCollection
  <2> QED  BY <2>1, <2>2, <2>3, <2>4, <2>5
<1>13. ASSUME NEW t \in CacheThreads, NEW sent \in BOOLEAN, CallFails(t, sent)
       PROVE  CollectionInv'
  <2>6. cacheop' \in [CacheThreads -> Operations]
    <3>1. Advances(t)
      BY <1>13 DEF Advances, CachePoints, Faults, CallFails, Changing
    <3> QED  BY <3>1, OperationsStay DEF CollectionTypes
  <2>1. CollectionTypes'
    BY <1>13, <2>6 DEF CollectionTypes, Indexed, CallFails, Aborted, NoOp
  <2>2. HoldsItsGate'
    BY <1>13 DEF CollectionTypes, Operations, HoldsItsGate, Ensuring, Creates, CallFails,
       Aborted, NoOp
  <2>3. LostToAnother'
    BY <1>13 DEF CollectionTypes, Operations, Faults, HoldsItsGate, Ensuring, Creates,
       LostToAnother, CallFails, Aborted, NoOp
  <2>4. IndexesFollow'
    BY <1>13 DEF CollectionTypes, Operations, IndexesFollow, Creating, Indexed, CallFails,
       Aborted, NoOp
  <2>5. CreatedAgain'
    BY <1>13 DEF CollectionTypes, Operations, HoldsItsGate, Creates, CreatedAgain, Clearing,
       CallFails, Aborted, NoOp
  <2> QED  BY <2>1, <2>2, <2>3, <2>4, <2>5
<1>14. ASSUME LateCreation PROVE CollectionInv'
  <2>1. CollectionTypes'
    BY <1>14 DEF CollectionTypes, Indexed, LateCreation, Late
  <2>2. HoldsItsGate'
    BY <1>14 DEF HoldsItsGate, Ensuring, LateCreation, Late
  <2>3. LostToAnother'
    BY <1>14 DEF CollectionTypes, LostToAnother, LateCreation, Late
  <2>4. IndexesFollow'
    BY <1>14 DEF CollectionTypes, IndexesFollow, Creating, Indexed, LateCreation, Late
  <2>5. CreatedAgain'
    BY <1>14 DEF CollectionTypes, CreatedAgain, Clearing, LateCreation, Late
  <2> QED  BY <2>1, <2>2, <2>3, <2>4, <2>5
<1>15. ASSUME LateDeletion PROVE CollectionInv'
  <2>1. CollectionTypes'
    BY <1>15 DEF CollectionTypes, Indexed, LateDeletion, Late
  <2>2. HoldsItsGate'
    BY <1>15 DEF HoldsItsGate, Ensuring, LateDeletion, Late
  <2>3. LostToAnother'
    BY <1>15 DEF CollectionTypes, LostToAnother, LateDeletion, Late
  <2>4. IndexesFollow'
    BY <1>15 DEF CollectionTypes, IndexesFollow, Creating, Indexed, LateDeletion, Late
  <2>5. CreatedAgain'
    BY <1>15 DEF CollectionTypes, CreatedAgain, Clearing, LateDeletion, Late
  <2> QED  BY <2>1, <2>2, <2>3, <2>4, <2>5
<1>16. ASSUME NEW call \in {"index1", "index2"}, NEW field \in Indexed, LateIndex(call, field)
       PROVE  CollectionInv'
  <2>1. CollectionTypes'
    BY <1>16 DEF CollectionTypes, Indexed, LateIndex, Late
  <2>2. HoldsItsGate'
    BY <1>16 DEF HoldsItsGate, Ensuring, LateIndex, Late
  <2>3. LostToAnother'
    BY <1>16 DEF CollectionTypes, LostToAnother, LateIndex, Late
  <2>4. IndexesFollow'
    BY <1>16 DEF CollectionTypes, IndexesFollow, Creating, Indexed, LateIndex, Late
  <2>5. CreatedAgain'
    BY <1>16 DEF CollectionTypes, CreatedAgain, Clearing, LateIndex, Late
  <2> QED  BY <2>1, <2>2, <2>3, <2>4, <2>5
<1>17. CASE UNCHANGED collection_vars
  BY <1>17 DEF collection_vars,  CollectionTypes, HoldsItsGate, Ensuring, Creates,
     LostToAnother,
     IndexesFollow, Creating, CreatedAgain, Clearing
<1> QED  BY <1>1, <1>2, <1>3, <1>4, <1>5, <1>6, <1>7, <1>8, <1>9, <1>10, <1>11, <1>12, <1>13,
            <1>14, <1>15, <1>16, <1>17
    DEF CollectionNext, CollectionStep, Indexed

\* Each worker creates the collection in one thread at a time, and a worker that is ready has
\* a collection with its indexes, unless a clear or a creation is under way, one of them
\* failed half-way or was done after its caller had given up (_ensure_collection), for any
\* number of workers, threads and calls nobody waits for.
THEOREM CollectionGateHolds == CollectionSpec => []GateHolds
<1>1. CollectionInv => GateHolds
  <2> SUFFICES ASSUME CollectionInv PROVE GateHolds
    OBVIOUS
  <2>1. OneCreatorPerWorker
    BY DEF CollectionInv, LostToAnother, OneCreatorPerWorker
  <2>2. ReadyMeansUsable
    BY DEF CollectionInv, CollectionTypes, IndexesFollow, CreatedAgain, ReadyMeansUsable,
       Creating, Indexed
  <2> QED  BY <2>1, <2>2 DEF GateHolds
<1> QED  BY CollectionInitInv, CollectionNextInv, <1>1, PTL DEF CollectionSpec

-----------------------------------------------------------------------------
\* The migration of the served collection.

ScriptPoints == {"idle", "create", "ingest", "read_aliases", "swap", "look", "claim",
                 "look_live", "add_live", "invalidate"}

\* Names are known, an alias is of a new collection, never of one a worker configures.
NamesKnown ==
    /\ DOMAIN collections \subseteq Physical
    /\ \A n \in DOMAIN collections : collections[n] \subseteq Files \union Uploads
    /\ \A a \in DOMAIN aliases : aliases[a] \in DOMAIN collections \ Configured
    /\ setting \in Configured
    /\ DOMAIN aliases \subseteq Configured
    /\ script \in [pc : ScriptPoints, target : Configured, left : SUBSET Files,
                   failed : BOOLEAN, known : SUBSET Configured]

\* What a run knows of the collection it makes: nobody else has made it, what is not left
\* is in it or was noted, and behind the check it is whole.
RunKnows ==
    /\ script.pc = "create" => NewCollection \notin DOMAIN collections /\ script.left = Files
    /\ script.pc = "create" => ~script.failed
    /\ script.pc = "ingest" =>
          /\ NewCollection \in DOMAIN collections
          /\ ~script.failed => Files \subseteq collections[NewCollection] \union script.left
    /\ script.pc \in {"read_aliases", "swap", "look", "claim", "look_live", "add_live"} =>
          NewCollection \in DOMAIN collections /\ Files \subseteq collections[NewCollection]

MigrationInv == NamesKnown /\ RunKnows /\ AliasedIsComplete

StillServed == HasAll(Served) => obeyed' \/ HasAll(Served)'

\* A new collection never has a name that a worker configures.
LEMMA NewNamesAreNew ==
    \A n \in Configured : /\ NewName[n] \in Physical \ Configured /\ NewName[n] # Absent
                          /\ n # Absent /\ n \in Physical
BY DEF NewName, Configured, Physical, Bare, LiveAlias, Absent

\* A collection that exists is not an absent one.
LEMMA PhysicalIsThere == Absent \notin Physical
BY DEF NewName, Configured, Physical, Bare, LiveAlias, Absent

\* Before the first run the invariant of the migration holds.
LEMMA MigrationInitInv == MigrationInit => MigrationInv
<1> SUFFICES ASSUME MigrationInit PROVE MigrationInv
  OBVIOUS
<1> USE DEF MigrationInit
<1>1. NamesKnown
  BY DEF NamesKnown, ScriptPoints, NotRunning, Configured, Physical
<1> QED  BY <1>1 DEF MigrationInv, RunKnows, AliasedIsComplete, NotRunning

\* No step of the script, crash, restart or operator breaks it, or what is served.
LEMMA MigrationNextInv ==
    MigrationInv /\ [MigrationNext]_migration_vars => MigrationInv' /\ StillServed
<1> SUFFICES ASSUME MigrationInv, [MigrationNext]_migration_vars
             PROVE  MigrationInv' /\ StillServed
  OBVIOUS
<1> USE NewNamesAreNew, PhysicalIsThere DEF MigrationInv
<1>1. ASSUME StartMigration PROVE MigrationInv' /\ StillServed
  <2>5. \/ script' = script
        \/ script' = [pc |-> "create", target |-> setting, left |-> Files, failed |-> FALSE,
                      known |-> {}]
    BY <1>1 DEF StartMigration, NotRunning
  <2>6. UNCHANGED <<collections, aliases, setting>>
    BY <1>1 DEF StartMigration
  <2>1. NamesKnown'
    <3>1. script' \in [pc : ScriptPoints, target : Configured, left : SUBSET Files,
                       failed : BOOLEAN, known : SUBSET Configured]
      <4>1. CASE script' = script
        BY <4>1 DEF NamesKnown
      <4>2. CASE script' # script
        <5>1. script' = [pc |-> "create", target |-> setting, left |-> Files,
                         failed |-> FALSE, known |-> {}]
          BY <4>2, <2>5
        <5>2. "create" \in ScriptPoints /\ setting \in Configured /\ Files \in SUBSET Files
          BY DEF NamesKnown, ScriptPoints
        <5>3. {} \in SUBSET Configured
          OBVIOUS
        <5> QED  BY ONLY <5>1, <5>2, <5>3
      <4> QED  BY <4>1, <4>2
    <3> QED  BY <3>1, <2>6 DEF NamesKnown
  <2>2. RunKnows'
    BY ZenonT(60), <1>1 DEF NamesKnown, RunKnows, NewCollection, HasAll, Served, StartMigration,
       NotRunning, CollectionThere, ResolvesTo
  <2>3. AliasedIsComplete'
    BY <1>1 DEF NamesKnown, RunKnows, NewCollection, AliasedIsComplete, HasAll, Served,
       StartMigration, NotRunning, CollectionThere, ResolvesTo
  <2>4. StillServed
    BY <1>1 DEF NamesKnown, RunKnows, NewCollection, StillServed, AliasedIsComplete, HasAll,
       Served, Configured, LiveAlias, Bare, StartMigration, NotRunning, CollectionThere,
       ResolvesTo
  <2> QED  BY <2>1, <2>2, <2>3, <2>4
<1>2. ASSUME CreateNew PROVE MigrationInv' /\ StillServed
  <2>1. NamesKnown'
    BY <1>2 DEF NamesKnown, ScriptPoints, RunKnows, NewCollection, HasAll, Served, ResolvesTo,
       Configured, LiveAlias, Bare, CreateNew, With, Goto
  <2>2. RunKnows'
    BY <1>2 DEF NamesKnown, RunKnows, NewCollection, HasAll, Served, ResolvesTo, CreateNew,
       With, Goto
  <2>3. AliasedIsComplete'
    BY <1>2 DEF NamesKnown, RunKnows, NewCollection, AliasedIsComplete, HasAll, Served,
       ResolvesTo, CreateNew, With, Goto
  <2>4. StillServed
    BY <1>2 DEF NamesKnown, RunKnows, NewCollection, StillServed, AliasedIsComplete, HasAll,
       Served, ResolvesTo, Configured, LiveAlias, Bare, CreateNew, With, Goto
  <2> QED  BY <2>1, <2>2, <2>3, <2>4
<1>3. ASSUME CheckCorpus PROVE MigrationInv' /\ StillServed
  <2>1. NamesKnown'
    BY <1>3 DEF NamesKnown, ScriptPoints, RunKnows, NewCollection, HasAll, Served, ResolvesTo,
       Configured, LiveAlias, Bare, CheckCorpus, Goto, Incomplete
  <2>2. RunKnows'
    <3>1. CASE Incomplete(script)
      <4>1. script'.pc = "idle"
        BY <1>3, <3>1 DEF CheckCorpus, Goto, NamesKnown
      <4> QED  BY <4>1 DEF RunKnows
    <3>2. CASE ~Incomplete(script)
      <4>1. /\ NewCollection \in DOMAIN collections
            /\ Files \subseteq collections[NewCollection]
        BY <1>3, <3>2 DEF CheckCorpus, Incomplete, RunKnows
      <4>2. script'.pc = "read_aliases" /\ NewCollection' = NewCollection
        BY <1>3, <3>2 DEF CheckCorpus, Goto, NewCollection, NamesKnown
      <4> QED  BY <1>3, <4>1, <4>2 DEF RunKnows, CheckCorpus
    <3> QED  BY <3>1, <3>2
  <2>3. AliasedIsComplete'
    BY <1>3 DEF NamesKnown, RunKnows, NewCollection, AliasedIsComplete, HasAll, Served,
       ResolvesTo, CheckCorpus, Goto, Incomplete
  <2>4. StillServed
    BY <1>3 DEF NamesKnown, RunKnows, NewCollection, StillServed, AliasedIsComplete, HasAll,
       Served, ResolvesTo, Configured, LiveAlias, Bare, CheckCorpus, Goto, Incomplete
  <2> QED  BY <2>1, <2>2, <2>3, <2>4
<1>4. ASSUME ReadAliases PROVE MigrationInv' /\ StillServed
  <2>1. NamesKnown'
    BY <1>4 DEF NamesKnown, ScriptPoints, RunKnows, NewCollection, HasAll, Served, ResolvesTo,
       Configured, LiveAlias, Bare, ReadAliases
  <2>2. RunKnows'
    BY <1>4 DEF NamesKnown, RunKnows, NewCollection, HasAll, Served, ResolvesTo, ReadAliases
  <2>3. AliasedIsComplete'
    BY <1>4 DEF NamesKnown, RunKnows, NewCollection, AliasedIsComplete, HasAll, Served,
       ResolvesTo, ReadAliases
  <2>4. StillServed
    BY <1>4 DEF NamesKnown, RunKnows, NewCollection, StillServed, AliasedIsComplete, HasAll,
       Served, ResolvesTo, Configured, LiveAlias, Bare, ReadAliases
  <2> QED  BY <2>1, <2>2, <2>3, <2>4
<1>5. ASSUME SwapAlias PROVE MigrationInv' /\ StillServed
  <2>1. NamesKnown'
    BY <1>5 DEF NamesKnown, ScriptPoints, RunKnows, NewCollection, HasAll, Served, ResolvesTo,
       Configured, LiveAlias, Bare, SwapAlias, With, Goto
  <2>2. RunKnows'
    BY <1>5 DEF NamesKnown, RunKnows, NewCollection, HasAll, Served, ResolvesTo, SwapAlias,
       With, Goto
  <2>3. AliasedIsComplete'
    BY <1>5 DEF NamesKnown, RunKnows, NewCollection, AliasedIsComplete, HasAll, Served,
       ResolvesTo, SwapAlias, With, Goto
  <2>4. StillServed
    BY <1>5 DEF NamesKnown, RunKnows, NewCollection, StillServed, AliasedIsComplete, HasAll,
       Served, ResolvesTo, Configured, LiveAlias, Bare, SwapAlias, With, Goto
  <2> QED  BY <2>1, <2>2, <2>3, <2>4
<1>6. ASSUME LookForBare PROVE MigrationInv' /\ StillServed
  <2>1. NamesKnown'
    BY <1>6 DEF NamesKnown, ScriptPoints, RunKnows, NewCollection, HasAll, Served, ResolvesTo,
       Configured, LiveAlias, Bare, LookForBare, Goto
  <2>2. RunKnows'
    BY <1>6 DEF NamesKnown, RunKnows, NewCollection, HasAll, Served, ResolvesTo, LookForBare,
       Goto
  <2>3. AliasedIsComplete'
    BY <1>6 DEF NamesKnown, RunKnows, NewCollection, AliasedIsComplete, HasAll, Served,
       ResolvesTo, LookForBare, Goto
  <2>4. StillServed
    BY <1>6 DEF NamesKnown, RunKnows, NewCollection, StillServed, AliasedIsComplete, HasAll,
       Served, ResolvesTo, Configured, LiveAlias, Bare, LookForBare, Goto
  <2> QED  BY <2>1, <2>2, <2>3, <2>4
<1>7. ASSUME ClaimName PROVE MigrationInv' /\ StillServed
  <2>5. script'.target = script.target /\ script'.left = script.left
        /\ script'.failed = script.failed /\ script'.pc \in {"idle", "invalidate"}
    BY <1>7 DEF ClaimName, Goto, NamesKnown
  <2>6. collections' = collections /\ setting' = setting
    BY <1>7 DEF ClaimName
  <2>7. aliases' = aliases \/ aliases' = With(aliases, script.target, NewCollection)
    BY <1>7 DEF ClaimName
  <2>8. NewCollection \in DOMAIN collections \ Configured
    BY <1>7 DEF ClaimName, RunKnows, NamesKnown, NewCollection
  <2>1. NamesKnown'
    BY <2>5, <2>6, <2>7, <2>8, <1>7 DEF NamesKnown, ScriptPoints, With, ClaimName, Goto
  <2>2. RunKnows'
    BY <2>5 DEF RunKnows
  <2>3. AliasedIsComplete'
    BY <1>7 DEF NamesKnown, RunKnows, NewCollection, AliasedIsComplete, HasAll, Served,
       ResolvesTo, ClaimName, With, Goto
  <2>4. StillServed
    BY <1>7 DEF NamesKnown, RunKnows, NewCollection, StillServed, AliasedIsComplete, HasAll,
       Served, ResolvesTo, Configured, LiveAlias, Bare, ClaimName, With, Goto
  <2> QED  BY <2>1, <2>2, <2>3, <2>4
<1>8. ASSUME LookForLive PROVE MigrationInv' /\ StillServed
  <2>1. NamesKnown'
    BY <1>8 DEF NamesKnown, ScriptPoints, RunKnows, NewCollection, HasAll, Served, ResolvesTo,
       Configured, LiveAlias, Bare, LookForLive, Goto
  <2>2. RunKnows'
    BY <1>8 DEF NamesKnown, RunKnows, NewCollection, HasAll, Served, ResolvesTo, LookForLive,
       Goto
  <2>3. AliasedIsComplete'
    BY <1>8 DEF NamesKnown, RunKnows, NewCollection, AliasedIsComplete, HasAll, Served,
       ResolvesTo, LookForLive, Goto
  <2>4. StillServed
    BY <1>8 DEF NamesKnown, RunKnows, NewCollection, StillServed, AliasedIsComplete, HasAll,
       Served, ResolvesTo, Configured, LiveAlias, Bare, LookForLive, Goto
  <2> QED  BY <2>1, <2>2, <2>3, <2>4
<1>9. ASSUME AddLive PROVE MigrationInv' /\ StillServed
  <2>1. NamesKnown'
    BY <1>9 DEF NamesKnown, ScriptPoints, RunKnows, NewCollection, HasAll, Served, ResolvesTo,
       Configured, LiveAlias, Bare, AddLive, With, Goto
  <2>2. RunKnows'
    BY <1>9 DEF NamesKnown, RunKnows, NewCollection, HasAll, Served, ResolvesTo, AddLive,
       With, Goto
  <2>3. AliasedIsComplete'
    BY <1>9 DEF NamesKnown, RunKnows, NewCollection, AliasedIsComplete, HasAll, Served,
       ResolvesTo, AddLive, With, Goto
  <2>4. StillServed
    BY <1>9 DEF NamesKnown, RunKnows, NewCollection, StillServed, AliasedIsComplete, HasAll,
       Served, ResolvesTo, Configured, LiveAlias, Bare, AddLive, With, Goto
  <2> QED  BY <2>1, <2>2, <2>3, <2>4
<1>10. ASSUME InvalidateCaches PROVE MigrationInv' /\ StillServed
  <2>1. NamesKnown'
    BY <1>10 DEF NamesKnown, ScriptPoints, RunKnows, NewCollection, HasAll, Served,
       ResolvesTo, Configured, LiveAlias, Bare, InvalidateCaches, Goto
  <2>2. RunKnows'
    BY <1>10 DEF NamesKnown, RunKnows, NewCollection, HasAll, Served, ResolvesTo,
       InvalidateCaches, Goto
  <2>3. AliasedIsComplete'
    BY <1>10 DEF NamesKnown, RunKnows, NewCollection, AliasedIsComplete, HasAll, Served,
       ResolvesTo, InvalidateCaches, Goto
  <2>4. StillServed
    BY <1>10 DEF NamesKnown, RunKnows, NewCollection, StillServed, AliasedIsComplete, HasAll,
       Served, ResolvesTo, Configured, LiveAlias, Bare, InvalidateCaches, Goto
  <2> QED  BY <2>1, <2>2, <2>3, <2>4
<1>11. ASSUME ScriptFails PROVE MigrationInv' /\ StillServed
  <2>1. NamesKnown'
    BY <1>11 DEF NamesKnown, ScriptPoints, RunKnows, NewCollection, HasAll, Served,
       ResolvesTo, Configured, LiveAlias, Bare, ScriptFails, Goto
  <2>2. RunKnows'
    BY <1>11 DEF NamesKnown, RunKnows, NewCollection, HasAll, Served, ResolvesTo, ScriptFails,
       Goto
  <2>3. AliasedIsComplete'
    BY <1>11 DEF NamesKnown, RunKnows, NewCollection, AliasedIsComplete, HasAll, Served,
       ResolvesTo, ScriptFails, Goto
  <2>4. StillServed
    BY <1>11 DEF NamesKnown, RunKnows, NewCollection, StillServed, AliasedIsComplete, HasAll,
       Served, ResolvesTo, Configured, LiveAlias, Bare, ScriptFails, Goto
  <2> QED  BY <2>1, <2>2, <2>3, <2>4
<1>12. ASSUME NEW file \in Files, NEW ok \in BOOLEAN, IngestFile(file, ok)
       PROVE  MigrationInv' /\ StillServed
  <2>1. NamesKnown'
    BY <1>12 DEF NamesKnown, ScriptPoints, RunKnows, NewCollection, HasAll, Served,
       ResolvesTo, Configured, LiveAlias, Bare, IngestFile, With
  <2>5. /\ script.pc = "ingest" /\ script'.pc = "ingest" /\ NewCollection' = NewCollection
        /\ script'.left = script.left \ {file} /\ script'.failed = (script.failed \/ ~ok)
    BY <1>12 DEF IngestFile, NewCollection, NamesKnown
  <2>6. NewCollection \in DOMAIN collections
    BY <2>5 DEF RunKnows
  <2>7. /\ NewCollection \in DOMAIN collections'
        /\ collections'[NewCollection] = IF ok THEN collections[NewCollection] \union {file}
                                         ELSE collections[NewCollection]
    BY <1>12, <2>6 DEF IngestFile, With
  <2>2. RunKnows'
    BY <2>5, <2>7 DEF RunKnows
  <2>3. AliasedIsComplete'
    BY <1>12 DEF NamesKnown, RunKnows, NewCollection, AliasedIsComplete, HasAll, Served,
       ResolvesTo, IngestFile, With
  <2>4. StillServed
    BY <1>12 DEF NamesKnown, RunKnows, NewCollection, StillServed, AliasedIsComplete, HasAll,
       Served, ResolvesTo, Configured, LiveAlias, Bare, IngestFile, With
  <2> QED  BY <2>1, <2>2, <2>3, <2>4
<1>13. ASSUME StartWorker PROVE MigrationInv' /\ StillServed
  <2>1. NamesKnown'
    BY <1>13 DEF NamesKnown, ScriptPoints, RunKnows, NewCollection, HasAll, Served,
       Configured, LiveAlias, Bare, StartWorker, With, CollectionThere, ResolvesTo
  <2>2. RunKnows'
    BY <1>13 DEF NamesKnown, RunKnows, NewCollection, HasAll, Served, StartWorker, With,
       CollectionThere, ResolvesTo
  <2>3. AliasedIsComplete'
    BY <1>13 DEF NamesKnown, RunKnows, NewCollection, AliasedIsComplete, HasAll, Served,
       StartWorker, With, CollectionThere, ResolvesTo
  <2>4. StillServed
    BY <1>13 DEF NamesKnown, RunKnows, NewCollection, StillServed, AliasedIsComplete, HasAll,
       Served, Configured, LiveAlias, Bare, StartWorker, With, CollectionThere, ResolvesTo
  <2> QED  BY <2>1, <2>2, <2>3, <2>4
<1>14. ASSUME AnswerQuestion PROVE MigrationInv' /\ StillServed
  <2>1. NamesKnown'
    BY <1>14 DEF NamesKnown, ScriptPoints, RunKnows, NewCollection, HasAll, Served,
       ResolvesTo, Configured, LiveAlias, Bare, AnswerQuestion
  <2>2. RunKnows'
    BY <1>14 DEF NamesKnown, RunKnows, NewCollection, HasAll, Served, ResolvesTo, AnswerQuestion
  <2>3. AliasedIsComplete'
    BY <1>14 DEF NamesKnown, RunKnows, NewCollection, AliasedIsComplete, HasAll, Served,
       ResolvesTo, AnswerQuestion
  <2>4. StillServed
    BY <1>14 DEF NamesKnown, RunKnows, NewCollection, StillServed, AliasedIsComplete, HasAll,
       Served, ResolvesTo, Configured, LiveAlias, Bare, AnswerQuestion
  <2> QED  BY <2>1, <2>2, <2>3, <2>4
<1>15. ASSUME SeedServed PROVE MigrationInv' /\ StillServed
  <2>1. NamesKnown'
    BY <1>15 DEF NamesKnown, ScriptPoints, RunKnows, NewCollection, HasAll, Served,
       ResolvesTo, Configured, LiveAlias, Bare, SeedServed, With, CollectionThere
  <2>2. RunKnows'
    BY <1>15 DEF NamesKnown, RunKnows, NewCollection, HasAll, Served, ResolvesTo, SeedServed,
       With, CollectionThere
  <2>3. AliasedIsComplete'
    BY <1>15 DEF NamesKnown, RunKnows, NewCollection, AliasedIsComplete, HasAll, Served,
       ResolvesTo, SeedServed, With, CollectionThere
  <2>4. StillServed
    BY <1>15 DEF NamesKnown, RunKnows, NewCollection, StillServed, AliasedIsComplete, HasAll,
       Served, ResolvesTo, Configured, LiveAlias, Bare, SeedServed, With, CollectionThere
  <2> QED  BY <2>1, <2>2, <2>3, <2>4
<1>16. ASSUME Redeploy PROVE MigrationInv' /\ StillServed
  <2>1. NamesKnown'
    BY <1>16 DEF NamesKnown, ScriptPoints, RunKnows, NewCollection, HasAll, Served,
       ResolvesTo, Configured, LiveAlias, Bare, Redeploy
  <2>2. RunKnows'
    BY <1>16 DEF NamesKnown, RunKnows, NewCollection, HasAll, Served, ResolvesTo, Redeploy
  <2>3. AliasedIsComplete'
    BY <1>16 DEF NamesKnown, RunKnows, NewCollection, AliasedIsComplete, HasAll, Served,
       ResolvesTo, Redeploy
  <2>4. StillServed
    BY <1>16 DEF NamesKnown, RunKnows, NewCollection, StillServed, AliasedIsComplete, HasAll,
       Served, ResolvesTo, Configured, LiveAlias, Bare, Redeploy
  <2> QED  BY <2>1, <2>2, <2>3, <2>4
<1>17. ASSUME DeleteBare PROVE MigrationInv' /\ StillServed
  <2>1. NamesKnown'
    BY <1>17 DEF NamesKnown, ScriptPoints, RunKnows, NewCollection, HasAll, Served,
       ResolvesTo, Configured, LiveAlias, Bare, DeleteBare, Drop, Without
  <2>5. /\ script' = script /\ collections' = Without(collections, {Bare})
        /\ NewCollection' = NewCollection
    BY <1>17 DEF DeleteBare, Drop, NewCollection
  <2>6. NewCollection # Bare
    BY DEF NamesKnown, NewCollection, Configured
  <2>2. RunKnows'
    BY <2>5, <2>6 DEF RunKnows, Without
  <2>3. AliasedIsComplete'
    BY <1>17 DEF NamesKnown, RunKnows, NewCollection, AliasedIsComplete, HasAll, Served,
       ResolvesTo, DeleteBare, Drop, Without
  <2>4. StillServed
    BY <1>17 DEF NamesKnown, RunKnows, NewCollection, StillServed, AliasedIsComplete, HasAll,
       Served, ResolvesTo, Configured, LiveAlias, Bare, DeleteBare, Drop, Without
  <2> QED  BY <2>1, <2>2, <2>3, <2>4
<1>18. ASSUME NEW name \in told, DeleteAsTold(name) PROVE MigrationInv' /\ StillServed
  <2>1. NamesKnown'
    BY <1>18 DEF NamesKnown, ScriptPoints, RunKnows, NewCollection, HasAll, Served,
       ResolvesTo, Configured, LiveAlias, Bare, DeleteAsTold, Drop, Without
  <2>2. RunKnows'
    BY <1>18 DEF NamesKnown, RunKnows, NewCollection, HasAll, Served, ResolvesTo,
       DeleteAsTold, Drop, Without
  <2>3. AliasedIsComplete'
    BY <1>18 DEF NamesKnown, RunKnows, NewCollection, AliasedIsComplete, HasAll, Served,
       ResolvesTo, DeleteAsTold, Drop, Without
  <2>4. StillServed
    BY <1>18 DEF NamesKnown, RunKnows, NewCollection, StillServed, AliasedIsComplete, HasAll,
       Served, ResolvesTo, Configured, LiveAlias, Bare, DeleteAsTold, Drop, Without
  <2> QED  BY <2>1, <2>2, <2>3, <2>4
<1>19. ASSUME NEW doc \in Uploads, PublishUpload(doc) PROVE MigrationInv' /\ StillServed
  <2>1. NamesKnown'
    BY <1>19 DEF NamesKnown, ScriptPoints, HasAll, Served,
       ResolvesTo, Configured, LiveAlias, Bare, PublishUpload, With, CollectionThere
  <2>2. RunKnows'
    BY <1>19 DEF NamesKnown, RunKnows, NewCollection, HasAll, Served, ResolvesTo,
       PublishUpload, With, CollectionThere
  <2>3. AliasedIsComplete'
    BY <1>19 DEF NamesKnown, RunKnows, NewCollection, AliasedIsComplete, HasAll, Served,
       ResolvesTo, PublishUpload, With, CollectionThere
  <2>4. StillServed
    BY <1>19 DEF NamesKnown, RunKnows, NewCollection, StillServed, AliasedIsComplete, HasAll,
       Served, ResolvesTo, Configured, LiveAlias, Bare, PublishUpload, With, CollectionThere
  <2> QED  BY <2>1, <2>2, <2>3, <2>4
<1>20. CASE UNCHANGED migration_vars
  BY <1>20 DEF migration_vars, NamesKnown, RunKnows, NewCollection, AliasedIsComplete,
     StillServed, HasAll, Served,
     ResolvesTo
<1> QED  BY <1>1, <1>2, <1>3, <1>4, <1>5, <1>6, <1>7, <1>8, <1>9, <1>10, <1>11, <1>12, <1>13,
            <1>14, <1>15, <1>16, <1>17, <1>18, <1>19, <1>20
    DEF MigrationNext

\* Once what a worker serves has every file of the policy directory, no step of
\* migrate_qdrant_hybrid.py, no crash and no second run takes one away, unless the operator
\* deletes it, for every set of files and of uploads beside them.
THEOREM ServedCorpusStays == MigrationSpec => ServedStaysComplete
<1>1. MigrationInv /\ [MigrationNext]_migration_vars =>
          [(HasAll(Served) => obeyed' \/ HasAll(Served)') /\ AliasedIsComplete']_migration_vars
  BY MigrationNextInv DEF MigrationInv, StillServed
<1> QED  BY MigrationInitInv, MigrationNextInv, <1>1, PTL DEF MigrationSpec, ServedStaysComplete

-----------------------------------------------------------------------------
\* The wiring of a worker: getters calling getters.

\* Every getter stands above those it calls, so that a call can never come back to it.
Layered(needs, rank) ==
    \A g \in DOMAIN needs : \A i \in DOMAIN needs[g] : rank[needs[g][i]] < rank[g]

\* A stack of getters in progress: each but the innermost waits for the next of its needs.
CalledInTurn(s) ==
    \A k \in DOMAIN s :
        LET needs == Needs[s[k].of]
            n == Len(s[k].got)
        IN  /\ n <= Len(needs)
            /\ k + 1 \in DOMAIN s => n < Len(needs) /\ s[k + 1].of = needs[n + 1]

\* Further in is further down.
Descends(s, rank) ==
    \A i, j \in DOMAIN s : i < j => rank[s[j].of] < rank[s[i].of]

\* An object given for a kept getter is the one that is kept, or two threads built one.
PartOf(kept, twice, g, by) ==
    g \in Kept => (kept[g] # NotBuilt /\ by = kept[g]) \/ g \in twice

PartsMatch(kept, twice, of, parts) ==
    \A i \in DOMAIN parts : i \in DOMAIN Needs[of] /\ PartOf(kept, twice, Needs[of][i], parts[i])

StackMatches(kept, twice, s) ==
    \A k \in DOMAIN s : PartsMatch(kept, twice, s[k].of, s[k].got)

\* The needs of a getter are getters.
LEMMA NeedsAreGetters ==
    ASSUME NEW g \in Getters
    PROVE  /\ Needs[g] \in Seq(Getters) /\ Len(Needs[g]) \in Nat
           /\ DOMAIN Needs[g] = 1..Len(Needs[g])
           /\ \A i \in 1..Len(Needs[g]) : Needs[g][i] \in Getters
  BY WiringAssumption

\* A frame and what it has been given.
LEMMA FrameShape ==
    ASSUME NEW f \in Frame
    PROVE  /\ f.of \in Getters /\ f.got \in Seq(Builders) /\ Len(f.got) \in Nat
           /\ DOMAIN f.got = 1..Len(f.got)
  BY DEF Frame

\* Calling one more getter.
LEMMA PushedFrame ==
    ASSUME NEW s \in Seq(Frame), NEW g \in Getters
    PROVE  LET f == [of |-> g, got |-> <<>>]
           IN  /\ f \in Frame
               /\ Append(s, f) \in Seq(Frame)
               /\ Len(s) \in Nat /\ DOMAIN s = 1..Len(s)
               /\ DOMAIN Append(s, f) = 1..(Len(s) + 1)
               /\ \A k \in 1..Len(s) : Append(s, f)[k] = s[k] /\ s[k] \in Frame
               /\ Append(s, f)[Len(s) + 1] = f
  <1> DEFINE f == [of |-> g, got |-> <<>>]
  <1>1. f \in Frame
    BY EmptySeq DEF Frame
  <1>2. \A k \in 1..Len(s) : s[k] \in Frame
    BY ElementOfSeq
  <1> HIDE DEF f
  <1>3. /\ Append(s, f) \in Seq(Frame) /\ Len(Append(s, f)) = Len(s) + 1
        /\ \A k \in 1..Len(s) : Append(s, f)[k] = s[k]
        /\ Append(s, f)[Len(s) + 1] = f
    BY <1>1, AppendProperties
  <1>4. Len(s) \in Nat /\ DOMAIN s = 1..Len(s)
    BY LenProperties
  <1>5. DOMAIN Append(s, f) = 1..(Len(s) + 1)
    BY <1>3, LenProperties
  <1> QED
    BY <1>1, <1>2, <1>3, <1>4, <1>5 DEF f

\* The innermost getter receives an object, the others do not change.
LEMMA GivenFrame ==
    ASSUME NEW s \in Seq(Frame), Len(s) > 0, NEW by \in Builders
    PROVE  /\ Given(s, by) \in Seq(Frame)
           /\ Len(s) \in Nat /\ DOMAIN s = 1..Len(s)
           /\ DOMAIN Given(s, by) = 1..Len(s)
           /\ \A k \in 1..Len(s) : s[k] \in Frame /\ Given(s, by)[k].of = s[k].of
           /\ \A k \in 1..(Len(s) - 1) : Given(s, by)[k] = s[k]
           /\ Given(s, by)[Len(s)].got = Append(s[Len(s)].got, by)
  <1> DEFINE n == Len(s)
             f == [of |-> s[n].of, got |-> Append(s[n].got, by)]
  <1>1. n \in 1..Len(s) /\ DOMAIN s = 1..Len(s) /\ s[n] \in Frame
    BY LenProperties
  <1>2. f \in Frame
    BY <1>1, FrameShape, AppendProperties DEF Frame
  <1>3. [s[n] EXCEPT !.got = Append(s[n].got, by)] = f
    <2>1. \A x \in Frame : \A y : [x EXCEPT !.got = y] = [of |-> x.of, got |-> y]
      BY DEF Frame
    <2> QED
      BY <1>1, <2>1
  <1>6. Given(s, by) = [s EXCEPT ![n] = f]
    BY <1>3 DEF Given
  <1>4. s[n].of = f.of
    OBVIOUS
  <1>5. \A k \in 1..Len(s) : s[k] \in Frame
    BY ElementOfSeq
  <1> QED
    BY <1>1, <1>2, <1>4, <1>5, <1>6, ExceptSeq, LenProperties

\* The stack without its innermost getter.
LEMMA OuterFrames ==
    ASSUME NEW s \in Seq(Frame), Len(s) > 0
    PROVE  LET outer == SubSeq(s, 1, Len(s) - 1)
           IN  /\ outer \in Seq(Frame) /\ Len(outer) = Len(s) - 1 /\ DOMAIN s = 1..Len(s)
               /\ DOMAIN outer = 1..(Len(s) - 1) /\ Len(s) \in Nat
               /\ \A k \in 1..(Len(s) - 1) : outer[k] = s[k]
               /\ s[Len(s)] \in Frame
               /\ (outer = <<>>) <=> (Len(s) = 1)
  <1> DEFINE n == Len(s) - 1
             outer == SubSeq(s, 1, n)
  <1>1. Len(s) \in Nat /\ DOMAIN s = 1..Len(s) /\ n \in Nat /\ n \in Int /\ 1 \in Int
    BY LenProperties
  <1>2. \A k \in 1..n : s[k] \in Frame
    BY <1>1, ElementOfSeq
  <1>3. s[Len(s)] \in Frame
    BY <1>1, ElementOfSeq
  <1>4. /\ outer \in Seq(Frame) /\ Len(outer) = n
        /\ \A k \in 1..n : outer[k] = s[k]
    BY <1>1, <1>2, SubSeqProperties
  <1>5. (outer = <<>>) <=> (n = 0)
    BY <1>4, EmptySeq
  <1>6. DOMAIN outer = 1..n
    BY <1>4, LenProperties
  <1> QED
    BY <1>1, <1>3, <1>4, <1>5, <1>6

\* The three ways a stack changes keep it a stack of calls, ...
LEMMA PushKeepsTurn ==
    ASSUME NEW s \in Seq(Frame), NEW g \in Getters, CalledInTurn(s),
           \/ Len(s) = 0
           \/ LET top == s[Len(s)]
              IN  Len(top.got) < Len(Needs[top.of]) /\ g = Needs[top.of][Len(top.got) + 1]
    PROVE  CalledInTurn(Append(s, [of |-> g, got |-> <<>>]))
  <1> DEFINE f == [of |-> g, got |-> <<>>]
             n == Len(s)
             pushed == Append(s, f)
  <1>1. Len(Needs[f.of]) \in Nat /\ Len(f.got) = 0 /\ f.of = g
    BY NeedsAreGetters
  <1>2. /\ n \in Nat /\ DOMAIN s = 1..n /\ DOMAIN pushed = 1..(n + 1)
        /\ \A k \in 1..n : pushed[k] = s[k]
        /\ pushed[n + 1] = f
    BY PushedFrame
  <1>3. n > 0 => Len(s[n].got) < Len(Needs[s[n].of]) /\ g = Needs[s[n].of][Len(s[n].got) + 1]
    BY <1>2
  <1>5. SUFFICES CalledInTurn(pushed)
    OBVIOUS
  <1> HIDE DEF f, n, pushed
  <1>4. ASSUME NEW k \in DOMAIN pushed
        PROVE  LET needs == Needs[pushed[k].of]
                   m == Len(pushed[k].got)
               IN  /\ m <= Len(needs)
                   /\ k + 1 \in DOMAIN pushed => m < Len(needs) /\ pushed[k + 1].of = needs[m + 1]
    <2>1. CASE k = n + 1
      BY <1>1, <1>2, <2>1
    <2>2. CASE k = n
      BY <1>1, <1>2, <1>3, <2>2 DEF CalledInTurn
    <2>3. CASE k < n
      <3>1. k \in DOMAIN s /\ k + 1 \in DOMAIN s
        BY <1>2, <2>3
      <3>2. pushed[k] = s[k] /\ pushed[k + 1] = s[k + 1]
        BY <1>2, <3>1
      <3> QED
        BY <3>1, <3>2 DEF CalledInTurn
    <2> QED
      BY <1>2, <2>1, <2>2, <2>3
  <1> QED
    BY <1>4 DEF CalledInTurn

LEMMA GivenKeepsTurn ==
    ASSUME NEW s \in Seq(Frame), Len(s) > 0, NEW by \in Builders, CalledInTurn(s),
           Len(s[Len(s)].got) < Len(Needs[s[Len(s)].of])
    PROVE  CalledInTurn(Given(s, by))
  <1> DEFINE n == Len(s)
  <1>1. /\ n \in Nat /\ DOMAIN s = 1..n /\ DOMAIN Given(s, by) = 1..n /\ n > 0
        /\ \A k \in 1..n : Given(s, by)[k].of = s[k].of
        /\ \A k \in 1..(n - 1) : Given(s, by)[k] = s[k]
        /\ Given(s, by)[n].got = Append(s[n].got, by)
    BY GivenFrame
  <1>2. s[n] \in Frame
    BY <1>1, GivenFrame
  <1>3. /\ Len(Append(s[n].got, by)) = Len(s[n].got) + 1 /\ Len(s[n].got) \in Nat
        /\ Len(Needs[s[n].of]) \in Nat
    BY <1>2, FrameShape, AppendProperties, NeedsAreGetters
  <1>4. Len(s[n].got) < Len(Needs[s[n].of])
    OBVIOUS
  <1> DEFINE given == Given(s, by)
  <1>5. SUFFICES ASSUME NEW k \in DOMAIN given
                 PROVE  LET needs == Needs[given[k].of]
                            m == Len(given[k].got)
                        IN  /\ m <= Len(needs)
                            /\ k + 1 \in DOMAIN given =>
                                 m < Len(needs) /\ given[k + 1].of = needs[m + 1]
    BY DEF CalledInTurn
  <1> HIDE DEF n, given
  <1>6. CASE k = n
    BY <1>1, <1>3, <1>4, <1>6 DEF given, n
  <1>7. CASE k < n
    <2>1. k \in DOMAIN s /\ k + 1 \in DOMAIN s
      BY <1>1, <1>7 DEF given
    <2>2. given[k] = s[k] /\ given[k + 1].of = s[k + 1].of
      BY <1>1, <1>7, <2>1 DEF given
    <2> QED
      BY <2>1, <2>2 DEF CalledInTurn
  <1> QED
    BY <1>1, <1>6, <1>7 DEF given

LEMMA OuterKeepsTurn ==
    ASSUME NEW s \in Seq(Frame), Len(s) > 1, CalledInTurn(s)
    PROVE  LET outer == SubSeq(s, 1, Len(s) - 1)
               top == outer[Len(outer)]
           IN  /\ CalledInTurn(outer)
               /\ Len(top.got) < Len(Needs[top.of])
               /\ s[Len(s)].of = Needs[top.of][Len(top.got) + 1]
  <1> DEFINE n == Len(s) - 1
             outer == SubSeq(s, 1, n)
  <1>1. /\ n \in Nat /\ n > 0 /\ Len(outer) = n /\ DOMAIN s = 1..(n + 1)
        /\ DOMAIN outer = 1..n /\ \A k \in 1..n : outer[k] = s[k]
    BY OuterFrames
  <1>2. Len(s) = n + 1
    BY OuterFrames
  <1> HIDE DEF n, outer
  <1>3. CalledInTurn(outer)
    <2> SUFFICES ASSUME NEW k \in DOMAIN outer
                 PROVE  LET needs == Needs[outer[k].of]
                            m == Len(outer[k].got)
                        IN  /\ m <= Len(needs)
                            /\ k + 1 \in DOMAIN outer =>
                                 m < Len(needs) /\ outer[k + 1].of = needs[m + 1]
      BY DEF CalledInTurn
    <2>1. outer[k] = s[k] /\ k \in DOMAIN s
      BY <1>1
    <2>2. k + 1 \in DOMAIN outer => outer[k + 1] = s[k + 1] /\ k + 1 \in DOMAIN s
      BY <1>1
    <2> QED
      BY <2>1, <2>2 DEF CalledInTurn
  <1>4. outer[n] = s[n] /\ n \in DOMAIN s /\ n + 1 \in DOMAIN s
    BY <1>1
  <1>5. /\ Len(s[n].got) < Len(Needs[s[n].of])
        /\ s[n + 1].of = Needs[s[n].of][Len(s[n].got) + 1]
    BY <1>4 DEF CalledInTurn
  <1> QED
    BY <1>1, <1>2, <1>3, <1>4, <1>5 DEF n, outer

\* ..., descending, ...
LEMMA PushKeepsDescent ==
    ASSUME NEW rank \in [Getters -> Nat], Layered(Needs, rank),
           NEW s \in Seq(Frame), NEW g \in Getters, Descends(s, rank),
           \/ Len(s) = 0
           \/ LET top == s[Len(s)]
              IN  Len(top.got) < Len(Needs[top.of]) /\ g = Needs[top.of][Len(top.got) + 1]
    PROVE  Descends(Append(s, [of |-> g, got |-> <<>>]), rank)
  <1> DEFINE f == [of |-> g, got |-> <<>>]
             n == Len(s)
             pushed == Append(s, f)
  <1>1. /\ n \in Nat /\ DOMAIN s = 1..n /\ DOMAIN pushed = 1..(n + 1)
        /\ \A k \in 1..n : pushed[k] = s[k] /\ s[k] \in Frame
        /\ pushed[n + 1] = f
    BY PushedFrame
  <1>2. \A k \in 1..n : rank[s[k].of] \in Nat
    BY <1>1, FrameShape
  <1>3. f.of = g /\ rank[g] \in Nat
    OBVIOUS
  <1>4. n > 0 => rank[g] < rank[s[n].of]
    <2>1. HAVE n > 0
    <2>2. s[n].of \in Getters /\ Len(s[n].got) \in Nat
      BY <1>1, <2>1, FrameShape
    <2>3. Len(s[n].got) + 1 \in DOMAIN Needs[s[n].of]
      BY <2>1, <2>2, NeedsAreGetters
    <2>4. g = Needs[s[n].of][Len(s[n].got) + 1]
      BY <2>1
    <2>5. s[n].of \in DOMAIN Needs
      BY <2>2, WiringAssumption
    <2> QED
      BY <2>3, <2>4, <2>5 DEF Layered
  <1>5. SUFFICES Descends(pushed, rank)
    OBVIOUS
  <1> HIDE DEF f, n, pushed
  <1>6. ASSUME NEW k \in 1..n
        PROVE  rank[g] < rank[s[k].of]
    <2>1. CASE k = n
      BY <1>1, <1>4, <2>1
    <2>2. CASE k < n
      <3>1. rank[s[n].of] < rank[s[k].of]
        BY SMTT(30), <1>1, <2>2 DEF Descends
      <3> QED
        BY <1>1, <1>2, <1>3, <1>4, <2>2, <3>1
    <2> QED
      BY <1>1, <2>1, <2>2
  <1>7. ASSUME NEW i \in DOMAIN pushed, NEW j \in DOMAIN pushed, i < j
        PROVE  rank[pushed[j].of] < rank[pushed[i].of]
    <2>1. CASE j = n + 1
      BY <1>1, <1>3, <1>6, <1>7, <2>1
    <2>2. CASE j # n + 1
      BY <1>1, <1>7, <2>2 DEF Descends
    <2> QED
      BY <2>1, <2>2
  <1> QED
    BY <1>7 DEF Descends

LEMMA GivenKeepsDescent ==
    ASSUME NEW rank, NEW s \in Seq(Frame), Len(s) > 0, NEW by \in Builders, Descends(s, rank)
    PROVE  Descends(Given(s, by), rank)
  BY GivenFrame DEF Descends

LEMMA OuterKeepsDescent ==
    ASSUME NEW rank, NEW s \in Seq(Frame), Len(s) > 0, Descends(s, rank)
    PROVE  Descends(SubSeq(s, 1, Len(s) - 1), rank)
  BY OuterFrames DEF Descends

-----------------------------------------------------------------------------
\* The frames of every thread, and what each of them knows of the objects.

\* Two threads inside of a getter have been seen to be.
OverlapsAreSeen ==
    \A t, u \in Threads : t # u =>
        \A g \in Getters : Inside(t, g) /\ Inside(u, g) => g \in overlapped

\* A getter still being called, not asked for, was not kept when the call began: what is
\* kept by now another thread has built.
LateIsOverlapped ==
    \A t \in Threads : \A k \in DOMAIN calls[t] :
        LET g == calls[t][k].of
        IN  k > 1 /\ g \in Kept /\ singleton[g] # NotBuilt => g \in overlapped

FramesMatch == \A t \in Threads : StackMatches(singleton, overlapped, calls[t])

ObjectsMatch == \A o \in objects : PartsMatch(singleton, overlapped, o.of, o.parts)

StacksAreCalls(rank) ==
    \A t \in Threads : CalledInTurn(calls[t]) /\ Descends(calls[t], rank)

WiringInv(rank) ==
    /\ WiringTypeOK /\ StacksAreCalls(rank)
    /\ OverlapsAreSeen /\ LateIsOverlapped /\ FramesMatch /\ ObjectsMatch

\* A worker that has only loaded its guards.
LEMMA WiringInitInv ==
    ASSUME NEW rank
    PROVE  WiringInit => WiringInv(rank)
  <1> SUFFICES ASSUME WiringInit
               PROVE  WiringInv(rank)
    OBVIOUS
  <1>1. WiringTypeOK
    <2>1. objects \subseteq BuiltObject
      <3>1. \A g \in Preloaded : g \in Getters
        BY WiringAssumption
      <3>2. \A g \in Getters : [of |-> g, by |-> Startup, parts |-> <<>>] \in BuiltObject
        BY EmptySeq DEF BuiltObject, Builders
      <3> QED
        BY <3>1, <3>2 DEF WiringInit
    <2>2. calls \in [Threads -> Seq(Frame)]
      BY EmptySeq DEF WiringInit
    <2>3. singleton \in [Getters -> Builders \union {NotBuilt}]
      BY DEF WiringInit, Builders
    <2> QED
      BY <2>1, <2>2, <2>3 DEF WiringInit, WiringTypeOK
  <1>2. \A t \in Threads : calls[t] = <<>> /\ DOMAIN calls[t] = {}
    BY DEF WiringInit
  <1>3. \A o \in objects : DOMAIN o.parts = {}
    BY DEF WiringInit
  <1> QED
    BY <1>1, <1>2, <1>3
       DEF WiringInv, StacksAreCalls, CalledInTurn, Descends, OverlapsAreSeen, Inside,
           LateIsOverlapped, FramesMatch, StackMatches, ObjectsMatch, PartsMatch

\* What is kept stays, and so does what was seen to overlap: what matched still does.
LEMMA MatchesStay ==
    ASSUME NEW kept, NEW twice, NEW kept2, NEW twice2, twice \subseteq twice2,
           \A g \in Getters : kept[g] # NotBuilt => kept2[g] = kept[g]
    PROVE  /\ \A g \in Getters : \A by :
                PartOf(kept, twice, g, by) => PartOf(kept2, twice2, g, by)
           /\ \A g \in Getters : \A parts :
                PartsMatch(kept, twice, g, parts) => PartsMatch(kept2, twice2, g, parts)
           /\ \A s \in Seq(Frame) :
                StackMatches(kept, twice, s) => StackMatches(kept2, twice2, s)
  <1>1. \A g \in Getters : \A by : PartOf(kept, twice, g, by) => PartOf(kept2, twice2, g, by)
    BY DEF PartOf
  <1>2. \A g \in Getters : \A parts :
             PartsMatch(kept, twice, g, parts) => PartsMatch(kept2, twice2, g, parts)
    BY <1>1, NeedsAreGetters DEF PartsMatch
  <1>3. \A s \in Seq(Frame) : StackMatches(kept, twice, s) => StackMatches(kept2, twice2, s)
    <2>1. \A s \in Seq(Frame) : \A k \in DOMAIN s : s[k].of \in Getters
      BY LenProperties, ElementOfSeq, FrameShape
    <2> QED
      BY <1>2, <2>1 DEF StackMatches
  <1> QED
    BY <1>1, <1>2, <1>3

\* The three ways a stack changes, once more.
LEMMA PushMatches ==
    ASSUME NEW kept, NEW twice, NEW s \in Seq(Frame), NEW g \in Getters,
           StackMatches(kept, twice, s)
    PROVE  StackMatches(kept, twice, Append(s, [of |-> g, got |-> <<>>]))
  <1> DEFINE f == [of |-> g, got |-> <<>>]
             pushed == Append(s, f)
  <1>1. /\ Len(s) \in Nat /\ DOMAIN s = 1..Len(s) /\ DOMAIN pushed = 1..(Len(s) + 1)
        /\ \A k \in 1..Len(s) : pushed[k] = s[k]
        /\ pushed[Len(s) + 1] = f
    BY PushedFrame
  <1>2. PartsMatch(kept, twice, f.of, f.got)
    BY DEF PartsMatch
  <1> SUFFICES StackMatches(kept, twice, pushed)
    OBVIOUS
  <1> HIDE DEF f, pushed
  <1> QED
    BY <1>1, <1>2 DEF StackMatches

LEMMA GivenMatches ==
    ASSUME NEW kept, NEW twice, NEW s \in Seq(Frame), Len(s) > 0, NEW by \in Builders,
           StackMatches(kept, twice, s),
           LET top == s[Len(s)]
           IN  /\ Len(top.got) < Len(Needs[top.of])
               /\ PartOf(kept, twice, Needs[top.of][Len(top.got) + 1], by)
    PROVE  StackMatches(kept, twice, Given(s, by))
  <1> DEFINE n == Len(s)
             top == s[n]
             m == Len(top.got)
             more == Append(top.got, by)
             given == Given(s, by)
  <1>1. /\ n \in Nat /\ DOMAIN s = 1..n /\ DOMAIN given = 1..n /\ n > 0
        /\ \A k \in 1..n : given[k].of = s[k].of
        /\ \A k \in 1..(n - 1) : given[k] = s[k]
        /\ given[n].got = more
    BY GivenFrame
  <1>2. top \in Frame
    BY <1>1, GivenFrame
  <1>3. /\ m \in Nat /\ DOMAIN top.got = 1..m /\ Len(Needs[top.of]) \in Nat
        /\ DOMAIN Needs[top.of] = 1..Len(Needs[top.of])
    BY <1>2, FrameShape, NeedsAreGetters
  <1>4. /\ DOMAIN more = 1..(m + 1) /\ more[m + 1] = by
        /\ \A i \in 1..m : more[i] = top.got[i]
    <2>1. top.got \in Seq(Builders)
      BY <1>2, FrameShape
    <2> QED
      BY <1>3, <2>1, AppendProperties, LenProperties
  <1>5. m < Len(Needs[top.of]) /\ PartOf(kept, twice, Needs[top.of][m + 1], by)
    OBVIOUS
  <1>6. PartsMatch(kept, twice, top.of, top.got)
    BY <1>1 DEF StackMatches
  <1>7. PartsMatch(kept, twice, top.of, more)
    <2> HIDE DEF m, more, top
    <2> SUFFICES ASSUME NEW i \in 1..(m + 1)
                 PROVE  i \in DOMAIN Needs[top.of]
                        /\ PartOf(kept, twice, Needs[top.of][i], more[i])
      BY <1>4 DEF PartsMatch
    <2>1. CASE i = m + 1
      BY <1>3, <1>4, <1>5, <2>1
    <2>2. CASE i # m + 1
      <3>1. i \in 1..m
        BY <1>3, <2>2
      <3> QED
        BY <1>3, <1>4, <1>6, <3>1 DEF PartsMatch
    <2> QED
      BY <2>1, <2>2
  <1>8. SUFFICES ASSUME NEW k \in 1..n
                 PROVE  PartsMatch(kept, twice, given[k].of, given[k].got)
    BY <1>1 DEF StackMatches
  <1>9. CASE k = n
    BY <1>1, <1>7, <1>9
  <1>10. CASE k # n
    <2> HIDE DEF n
    <2>1. k \in 1..(n - 1)
      BY <1>1, <1>10
    <2> QED
      BY <1>1, <2>1 DEF StackMatches
  <1> QED
    BY <1>9, <1>10

LEMMA OuterMatches ==
    ASSUME NEW kept, NEW twice, NEW s \in Seq(Frame), Len(s) > 0, StackMatches(kept, twice, s)
    PROVE  StackMatches(kept, twice, SubSeq(s, 1, Len(s) - 1))
  BY OuterFrames DEF StackMatches

-----------------------------------------------------------------------------
\* The steps.

\* A getter is entered by a request or because another one needs it.
LEMMA EnterInv ==
    ASSUME NEW rank \in [Getters -> Nat], Layered(Needs, rank), WiringInv(rank),
           NEW t \in Threads, NEW g \in Getters, Enter(t, g),
           Depth(t) = 0 \/ (Missing(t) /\ ~Known(g) /\ g = NextNeed(t))
    PROVE  WiringInv(rank)'
  <1> DEFINE f == [of |-> g, got |-> <<>>]
             s == calls[t]
             pushed == Append(s, f)
  <1>1. s \in Seq(Frame) /\ pushed \in Seq(Frame) /\ calls \in [Threads -> Seq(Frame)]
    BY PushedFrame DEF WiringInv, WiringTypeOK
  <1>2. calls' = [calls EXCEPT ![t] = pushed]
    BY DEF Enter
  <1>3. calls'[t] = pushed /\ \A u \in Threads \ {t} : calls'[u] = calls[u]
    BY <1>1, <1>2
  <1>4. /\ overlapped \subseteq overlapped' /\ overlapped' \subseteq Getters
        /\ singleton' = singleton /\ objects' = objects
    BY DEF Enter, WiringInv, WiringTypeOK
  <1>5. /\ Len(s) \in Nat /\ DOMAIN s = 1..Len(s) /\ DOMAIN pushed = 1..(Len(s) + 1)
        /\ \A k \in 1..Len(s) : pushed[k] = s[k]
        /\ pushed[Len(s) + 1].of = g
    BY <1>1, PushedFrame
  <1>6. \/ Len(s) = 0
        \/ /\ Len(s[Len(s)].got) < Len(Needs[s[Len(s)].of])
           /\ g = Needs[s[Len(s)].of][Len(s[Len(s)].got) + 1]
    BY DEF Depth, Missing, NextNeed, Top
  <1>7. CalledInTurn(s) /\ Descends(s, rank) /\ StackMatches(singleton, overlapped, s)
    BY DEF WiringInv, StacksAreCalls, FramesMatch
  <1>8. WiringTypeOK'
    BY <1>1, <1>2, <1>4 DEF WiringInv, WiringTypeOK, Enter
  <1>9. CalledInTurn(pushed)
    BY <1>1, <1>6, <1>7, PushKeepsTurn
  <1>10. Descends(pushed, rank)
    BY <1>1, <1>6, <1>7, PushKeepsDescent
  <1>11. StacksAreCalls(rank)'
    BY <1>3, <1>9, <1>10 DEF WiringInv, StacksAreCalls
  <1>12. \A u \in Threads : StackMatches(singleton', overlapped', calls[u])
    BY <1>1, <1>4, MatchesStay DEF WiringInv, FramesMatch
  <1>13. StackMatches(singleton', overlapped', pushed)
    BY <1>1, <1>12, PushMatches
  <1>14. FramesMatch'
    BY <1>3, <1>12, <1>13 DEF FramesMatch
  <1>15. ObjectsMatch'
    <2>1. \A o \in objects : o.of \in Getters
      BY DEF WiringInv, WiringTypeOK, BuiltObject
    <2> QED
      BY <1>4, <2>1, MatchesStay DEF WiringInv, ObjectsMatch
  <1> HIDE DEF pushed, f
  <1>16. \A u \in Threads : \A h \in Getters :
            Inside(u, h)' => Inside(u, h) \/ (u = t /\ h = g)
    BY SMTT(30), <1>3, <1>5 DEF Inside
  <1>17. OverlapsAreSeen'
    <2>1. (\E u \in Threads \ {t} : Inside(u, g)) => g \in overlapped'
      BY DEF Enter
    <2>2. ASSUME NEW u \in Threads, NEW v \in Threads, u # v, NEW h \in Getters,
                 Inside(u, h)', Inside(v, h)'
          PROVE  h \in overlapped'
      BY <1>4, <1>16, <2>1, <2>2 DEF WiringInv, OverlapsAreSeen
    <2> QED
      BY <2>2 DEF OverlapsAreSeen
  <1>18. LateIsOverlapped'
    <2> SUFFICES ASSUME NEW u \in Threads, NEW k \in DOMAIN calls'[u], k > 1,
                        calls'[u][k].of \in Kept, singleton[calls'[u][k].of] # NotBuilt
                 PROVE  calls'[u][k].of \in overlapped'
      BY <1>4 DEF LateIsOverlapped
    <2>1. CASE k \in DOMAIN calls[u] /\ calls'[u][k] = calls[u][k]
      BY <1>4, <2>1 DEF WiringInv, LateIsOverlapped
    <2>2. CASE ~(k \in DOMAIN calls[u] /\ calls'[u][k] = calls[u][k])
      <3>1. u = t /\ k = Len(s) + 1 /\ calls'[u][k].of = g
        BY SMTT(30), <1>3, <1>5, <2>2
      <3>2. ~Known(g)
        BY <1>5, <3>1 DEF Depth
      <3> QED
        BY <3>1, <3>2 DEF Known
    <2> QED
      BY <2>1, <2>2
  <1> QED
    BY <1>8, <1>11, <1>14, <1>15, <1>17, <1>18 DEF WiringInv

\* Steps that leave no thread inside of a getter it was not in, and keep the objects.
LEMMA NothingEntered ==
    ASSUME WiringTypeOK, OverlapsAreSeen, LateIsOverlapped, overlapped' = overlapped,
           \A u \in Threads : \A k \in DOMAIN calls'[u] :
               k \in DOMAIN calls[u] /\ calls'[u][k].of = calls[u][k].of
    PROVE  /\ OverlapsAreSeen'
           /\ singleton' = singleton => LateIsOverlapped'
  <1>1. \A u \in Threads : \A h \in Getters : Inside(u, h)' => Inside(u, h)
    BY DEF Inside
  <1> QED
    BY <1>1 DEF OverlapsAreSeen, LateIsOverlapped

\* lru_cache has the object, and the getter goes on with it.
LEMMA HitInv ==
    ASSUME NEW rank \in [Getters -> Nat], WiringInv(rank), NEW t \in Threads, Hit(t)
    PROVE  WiringInv(rank)'
  <1> DEFINE s == calls[t]
             by == singleton[NextNeed(t)]
             given == Given(s, by)
  <1>1. s \in Seq(Frame) /\ Len(s) > 0 /\ calls \in [Threads -> Seq(Frame)]
    BY DEF Hit, Missing, Depth, WiringInv, WiringTypeOK
  <1>2. /\ Len(s[Len(s)].got) < Len(Needs[s[Len(s)].of])
        /\ NextNeed(t) = Needs[s[Len(s)].of][Len(s[Len(s)].got) + 1]
    BY DEF Hit, Missing, Depth, Top, NextNeed
  <1>3. NextNeed(t) \in Getters /\ by \in Builders /\ by # NotBuilt
    BY WiringAssumption DEF Hit, Known, WiringInv, WiringTypeOK
  <1>4. PartOf(singleton, overlapped, NextNeed(t), by)
    BY <1>3 DEF PartOf
  <1>5. CalledInTurn(s) /\ Descends(s, rank) /\ StackMatches(singleton, overlapped, s)
    BY DEF WiringInv, StacksAreCalls, FramesMatch
  <1>6. /\ CalledInTurn(given) /\ Descends(given, rank)
        /\ StackMatches(singleton, overlapped, given) /\ given \in Seq(Frame)
    BY <1>1, <1>2, <1>3, <1>4, <1>5, GivenKeepsTurn, GivenKeepsDescent, GivenMatches, GivenFrame
  <1>7. \A k \in DOMAIN given : k \in DOMAIN s /\ given[k].of = s[k].of
    BY ZenonT(60), <1>1, <1>3, GivenFrame
  <1>8. calls' = [calls EXCEPT ![t] = given]
    BY DEF Hit
  <1>9. /\ singleton' = singleton /\ overlapped' = overlapped /\ objects' = objects
        /\ asks' = asks /\ served' = served
    BY DEF Hit
  <1> HIDE DEF given
  <1>10. calls'[t] = given /\ \A u \in Threads \ {t} : calls'[u] = calls[u]
    BY <1>1, <1>8
  <1>11. WiringTypeOK'
    BY <1>1, <1>6, <1>8, <1>9 DEF WiringInv, WiringTypeOK
  <1>12. StacksAreCalls(rank)' /\ FramesMatch' /\ ObjectsMatch'
    BY <1>6, <1>9, <1>10 DEF WiringInv, StacksAreCalls, FramesMatch, ObjectsMatch
  <1>13. OverlapsAreSeen' /\ LateIsOverlapped'
    BY <1>7, <1>9, <1>10, NothingEntered DEF WiringInv
  <1> QED
    BY <1>11, <1>12, <1>13 DEF WiringInv

\* A constructor returns: its object is kept, or another thread's was.
LEMMA BuildInv ==
    ASSUME NEW rank \in [Getters -> Nat], WiringInv(rank), NEW t \in Threads, Build(t)
    PROVE  WiringInv(rank)'
  <1> DEFINE s == calls[t]
             n == Len(s)
             g == s[n].of
             outer == SubSeq(s, 1, n - 1)
             left == IF outer = <<>> THEN <<>> ELSE Given(outer, t)
             object == [of |-> g, by |-> t, parts |-> s[n].got]
  <1>1. /\ s \in Seq(Frame) /\ n > 0 /\ n \in Nat /\ DOMAIN s = 1..n /\ s[n] \in Frame
        /\ calls \in [Threads -> Seq(Frame)]
        /\ singleton \in [Getters -> Builders \union {NotBuilt}]
    BY LenProperties, ElementOfSeq DEF Build, Depth, WiringInv, WiringTypeOK
  <1>2. /\ objects' = objects \union {object}
        /\ singleton' = IF g \in Kept /\ singleton[g] = NotBuilt
                        THEN [singleton EXCEPT ![g] = t] ELSE singleton
        /\ calls' = [calls EXCEPT ![t] = left]
        /\ overlapped' = overlapped /\ asks' = asks /\ served' \in {served, served \union {t}}
    BY DEF Build, Top, Depth
  <1>3. g \in Getters /\ t \in Builders /\ t # NotBuilt /\ object \in BuiltObject
    BY <1>1, FrameShape, WiringAssumption DEF BuiltObject, Builders
  <1>4. CalledInTurn(s) /\ Descends(s, rank) /\ StackMatches(singleton, overlapped, s)
    BY DEF WiringInv, StacksAreCalls, FramesMatch
  <1>5. /\ singleton' \in [Getters -> Builders \union {NotBuilt}]
        /\ \A h \in Getters : singleton[h] # NotBuilt => singleton'[h] = singleton[h]
        /\ \A h \in Getters : singleton'[h] # singleton[h] => h = g
        /\ g \in Kept => singleton'[g] # NotBuilt
        /\ g \in Kept /\ singleton[g] = NotBuilt => singleton'[g] = t
    BY <1>1, <1>2, <1>3
  <1>6. \A u \in Threads : StackMatches(singleton', overlapped, calls[u])
    BY <1>1, <1>5, MatchesStay DEF WiringInv, FramesMatch
  <1>7. n > 1 => PartOf(singleton', overlapped, g, t)
    BY <1>1, <1>3, <1>5 DEF PartOf, WiringInv, LateIsOverlapped
  <1>8. /\ outer \in Seq(Frame) /\ Len(outer) = n - 1 /\ DOMAIN outer = 1..(n - 1)
        /\ \A k \in 1..(n - 1) : outer[k] = s[k]
        /\ (outer = <<>>) <=> (n = 1)
    BY <1>1, OuterFrames
  <1>9. outer = <<>> => left = <<>>
    OBVIOUS
  <1>10. outer # <<>> => left = Given(outer, t)
    OBVIOUS
  <1> HIDE DEF outer, left
  <1>11. /\ left \in Seq(Frame) /\ CalledInTurn(left) /\ Descends(left, rank)
         /\ StackMatches(singleton', overlapped, left)
         /\ \A k \in DOMAIN left : k \in 1..(n - 1) /\ left[k].of = s[k].of
    <2>1. CASE outer = <<>>
      <3>1. left = <<>> /\ DOMAIN left = {} /\ left \in Seq(Frame)
        BY <1>9, <2>1, EmptySeq
      <3> QED
        BY <3>1 DEF CalledInTurn, Descends, StackMatches
    <2>2. CASE outer # <<>>
      <3>1. Len(outer) > 0 /\ Len(s) > 1
        BY <1>1, <1>8, <2>2
      <3>2. /\ CalledInTurn(outer)
            /\ Len(outer[Len(outer)].got) < Len(Needs[outer[Len(outer)].of])
            /\ g = Needs[outer[Len(outer)].of][Len(outer[Len(outer)].got) + 1]
        BY <1>1, <1>4, <3>1, OuterKeepsTurn DEF outer
      <3>3. Descends(outer, rank) /\ StackMatches(singleton', overlapped, outer)
        BY <1>1, <1>4, <1>6, OuterKeepsDescent, OuterMatches DEF outer
      <3>4. PartOf(singleton', overlapped, g, t)
        BY <1>7, <3>1
      <3>5. /\ DOMAIN Given(outer, t) = 1..Len(outer)
            /\ \A k \in 1..Len(outer) : Given(outer, t)[k].of = outer[k].of
            /\ Given(outer, t) \in Seq(Frame)
        BY <1>3, <1>8, <3>1, GivenFrame
      <3>6. CalledInTurn(Given(outer, t))
        BY <1>3, <1>8, <3>1, <3>2, GivenKeepsTurn
      <3>7. Descends(Given(outer, t), rank)
        BY <1>3, <1>8, <3>1, <3>3, GivenKeepsDescent
      <3>8. StackMatches(singleton', overlapped, Given(outer, t))
        BY <1>3, <1>8, <3>1, <3>2, <3>3, <3>4, GivenMatches
      <3>9. \A k \in DOMAIN left : k \in 1..(n - 1) /\ left[k].of = s[k].of
        BY <1>8, <1>10, <2>2, <3>5
      <3> QED
        BY <1>10, <2>2, <3>5, <3>6, <3>7, <3>8, <3>9
    <2> QED
      BY <2>1, <2>2
  <1>12. calls'[t] = left /\ \A u \in Threads \ {t} : calls'[u] = calls[u]
    BY <1>1, <1>2
  <1> HIDE DEF object
  <1>13. WiringTypeOK'
    <2>1. calls' \in [Threads -> Seq(Frame)]
      BY <1>1, <1>2, <1>11
    <2> QED
      BY <1>2, <1>3, <1>5, <2>1 DEF WiringInv, WiringTypeOK
  <1>14. StacksAreCalls(rank)'
    BY <1>11, <1>12 DEF WiringInv, StacksAreCalls
  <1>15. FramesMatch'
    BY <1>2, <1>6, <1>11, <1>12 DEF FramesMatch
  <1>16. ObjectsMatch'
    <2>1. \A o \in objects : o.of \in Getters
      BY DEF WiringInv, WiringTypeOK, BuiltObject
    <2>2. \A o \in objects : PartsMatch(singleton', overlapped, o.of, o.parts)
      BY <1>5, <2>1, MatchesStay DEF WiringInv, ObjectsMatch
    <2>3. PartsMatch(singleton', overlapped, object.of, object.parts)
      BY <1>1, <1>6 DEF StackMatches, object
    <2> QED
      BY <1>2, <2>2, <2>3 DEF ObjectsMatch
  <1>17. \A u \in Threads : \A k \in DOMAIN calls'[u] :
             k \in DOMAIN calls[u] /\ calls'[u][k].of = calls[u][k].of
    <2> HIDE DEF n
    <2>1. \A k \in 1..(n - 1) : k \in DOMAIN s
      BY <1>1
    <2> QED
      BY <1>11, <1>12, <2>1
  <1>18. OverlapsAreSeen'
    BY <1>2, <1>17, NothingEntered DEF WiringInv
  <1>19. LateIsOverlapped'
    <2> SUFFICES ASSUME NEW u \in Threads, NEW k \in DOMAIN calls'[u], k > 1,
                        NEW h, h = calls'[u][k].of, h \in Kept, singleton'[h] # NotBuilt
                 PROVE  h \in overlapped
      BY <1>2 DEF LateIsOverlapped
    <2>1. k \in DOMAIN calls[u] /\ calls[u][k].of = h /\ h \in Getters
      BY <1>17, WiringAssumption
    <2>2. CASE singleton[h] # NotBuilt
      BY <2>1, <2>2 DEF WiringInv, LateIsOverlapped
    <2>3. CASE singleton[h] = NotBuilt
      <3>1. h = g
        BY <1>5, <2>1, <2>3
      <3>2. Inside(u, g) /\ Inside(t, g)
        <4>1. n \in DOMAIN s
          BY <1>1
        <4> QED
          BY <2>1, <3>1, <4>1 DEF Inside
      <3>3. CASE u # t
        BY <1>3, <3>1, <3>2, <3>3 DEF WiringInv, OverlapsAreSeen
      <3>4. CASE u = t
        <4>1. k \in DOMAIN s /\ n \in DOMAIN s /\ k < n
          BY <1>1, <1>11, <1>12, <3>4
        <4>2. rank[g] < rank[g]
          BY <1>4, <2>1, <3>1, <3>4, <4>1 DEF Descends
        <4> QED
          BY <1>3, <4>2
      <3> QED
        BY <3>3, <3>4
    <2> QED
      BY <2>2, <2>3
  <1> QED
    BY <1>13, <1>14, <1>15, <1>16, <1>18, <1>19 DEF WiringInv

\* A constructor raises: the whole stack is gone, the objects built under it stay.
LEMMA RaiseInv ==
    ASSUME NEW rank, WiringInv(rank), NEW t \in Threads, Raise(t)
    PROVE  WiringInv(rank)'
  <1>1. /\ calls' = [calls EXCEPT ![t] = <<>>] /\ calls \in [Threads -> Seq(Frame)]
        /\ singleton' = singleton /\ overlapped' = overlapped /\ objects' = objects
        /\ asks' = asks /\ served' = served
    BY DEF Raise, WiringInv, WiringTypeOK
  <1>2. /\ calls'[t] = <<>> /\ DOMAIN calls'[t] = {}
        /\ \A u \in Threads \ {t} : calls'[u] = calls[u]
    BY <1>1
  <1>3. WiringTypeOK'
    BY <1>1, EmptySeq DEF WiringInv, WiringTypeOK
  <1>4. StacksAreCalls(rank)' /\ FramesMatch' /\ ObjectsMatch'
    BY <1>1, <1>2
       DEF WiringInv, StacksAreCalls, CalledInTurn, Descends, FramesMatch, StackMatches,
           ObjectsMatch
  <1>5. OverlapsAreSeen' /\ LateIsOverlapped'
    BY <1>1, <1>2, NothingEntered DEF WiringInv
  <1> QED
    BY <1>3, <1>4, <1>5 DEF WiringInv

LEMMA WiringStepInv ==
    ASSUME NEW rank \in [Getters -> Nat], Layered(Needs, rank)
    PROVE  WiringInv(rank) /\ [WiringNext]_wiring_vars => WiringInv(rank)'
  <1> SUFFICES ASSUME WiringInv(rank), [WiringNext]_wiring_vars
               PROVE  WiringInv(rank)'
    OBVIOUS
  <1>1. ASSUME NEW t \in Threads, CallGetter(t)
        PROVE  WiringInv(rank)'
    <2>1. asks[t] \in Getters
      BY DEF WiringInv, WiringTypeOK
    <2> QED
      BY <1>1, <2>1, EnterInv DEF CallGetter
  <1>2. ASSUME NEW t \in Threads, Miss(t)
        PROVE  WiringInv(rank)'
    <2>1. NextNeed(t) \in Getters
      <3>1. calls[t] \in Seq(Frame) /\ Depth(t) > 0
        BY <1>2 DEF Miss, Missing, WiringInv, WiringTypeOK
      <3>2. Top(t) \in Frame
        BY <3>1, LenProperties, ElementOfSeq DEF Top, Depth
      <3>3. Top(t).of \in Getters /\ Len(Top(t).got) \in Nat
        BY <3>2, FrameShape
      <3>4. Len(Top(t).got) + 1 \in 1..Len(Needs[Top(t).of])
        BY <1>2, <3>3, NeedsAreGetters DEF Miss, Missing
      <3> QED
        BY <3>3, <3>4, NeedsAreGetters DEF NextNeed
    <2> QED
      BY <1>2, <2>1, EnterInv DEF Miss
  <1>3. ASSUME UNCHANGED wiring_vars
        PROVE  WiringInv(rank)'
    BY <1>3 DEF wiring_vars, WiringInv, WiringTypeOK, StacksAreCalls, OverlapsAreSeen, Inside,
                LateIsOverlapped, FramesMatch, ObjectsMatch
  <1> QED
    BY <1>1, <1>2, <1>3, HitInv, BuildInv, RaiseInv DEF WiringNext

\* What the wiring has come to, from what is known of the objects and the stacks.
LEMMA WiredOnceFromInv ==
    ASSUME NEW rank \in [Getters -> Nat], Shared \subseteq Kept, WiringInv(rank)
    PROVE  WiredOnce
  <1>1. SharedUnlessOverlapped
    BY DEF WiringInv, ObjectsMatch, PartsMatch, PartOf, SharedUnlessOverlapped
  <1>2. NeverReentered
    <2> SUFFICES ASSUME NEW t \in Threads, NEW i \in DOMAIN calls[t], NEW j \in DOMAIN calls[t],
                        calls[t][i].of = calls[t][j].of, i # j
                 PROVE  FALSE
      BY DEF NeverReentered
    <2>1. calls[t] \in Seq(Frame)
      BY DEF WiringInv, WiringTypeOK
    <2>2. i \in 1..Len(calls[t]) /\ j \in 1..Len(calls[t]) /\ Len(calls[t]) \in Nat
      BY <2>1, LenProperties
    <2>3. rank[calls[t][i].of] \in Nat
      BY <2>1, <2>2, ElementOfSeq, FrameShape
    <2>4. rank[calls[t][i].of] < rank[calls[t][i].of]
      BY <2>2 DEF WiringInv, StacksAreCalls, Descends
    <2> QED
      BY <2>3, <2>4
  <1> QED
    BY <1>1, <1>2 DEF WiredOnce

\* However the first calls of a worker's threads interleave, and whatever fails, an object
\* of the process is shared unless two threads built it at the same time, and no getter
\* comes back to itself: for every set of getters that can be put in layers.
THEOREM LayeredGettersAreWiredOnce ==
    ASSUME NEW rank \in [Getters -> Nat], Layered(Needs, rank), Shared \subseteq Kept
    PROVE  WiringSpec => []WiredOnce
  <1>1. WiringInit => WiringInv(rank)
    BY WiringInitInv
  <1>2. WiringInv(rank) /\ [WiringNext]_wiring_vars => WiringInv(rank)'
    BY WiringStepInv
  <1>3. WiringInv(rank) => WiredOnce
    BY WiredOnceFromInv
  <1> QED
    BY <1>1, <1>2, <1>3, PTL DEF WiringSpec

-----------------------------------------------------------------------------
\* The getters by how far they stand above the clients that need nothing; the one of the
\* orchestrator and the one of the chat stand on top.
Layer0 ==
    {"db_pool", "rag_metrics_service", "redis_client", "openai_client", "qdrant_client",
     "sparse_embedding_client", "regulatory_web_retriever",
     "reflection_decision_policy", "reranker", "llm_guard_input_scanner",
     "llm_guard_output_scanner", "guardrail_policy", "sql_pool", "sql_policy",
     "sql_result_policy", "document_processor", "password_hasher"}
Layer1 ==
    {"rag_ops_repository", "security_events_repository", "llm_client",
     "vector_repository", "dynamic_reranker", "semantic_query_cache",
     "query_cache_service", "sql_catalog", "sql_generator", "sql_executor",
     "sql_proposal_repository", "sql_example_repository",
     "document_security_repository", "user_repository", "rate_limiter",
     "chat_history_repository", "conversation_repository", "health_checks"}
Layer2 ==
    {"embedding_client", "retrieval_strategies", "hyde_transformer", "crag_grader",
     "crag_refiner", "web_query_formulator", "reflection_critic", "answer_reviser",
     "rag_runtime_config_store", "input_guard_pipeline", "context_guard_pipeline",
     "output_guard_pipeline", "tool_guardrail", "sql_answerer", "intent_router",
     "ingestion_security_scanner", "auth_service"}
Layer3 ==
    {"dynamic_hyde_transformer", "eval_hyde_transformer", "crag_delegate",
     "self_reflection_delegate", "sql_service", "policy_ingestion_service",
     "auth_controller", "rag_ops_controller", "rag_ops_config_poller"}
Layer4 ==
    {"dynamic_crag", "eval_crag", "dynamic_self_reflection", "eval_self_reflection",
     "policy_ingestion_security_service", "sql_controller"}
Layer5 ==
    {"rag_service", "admin_controller"}

LayerOf(g) ==
    IF g \in Layer0 THEN 0 ELSE IF g \in Layer1 THEN 1 ELSE IF g \in Layer2 THEN 2
    ELSE IF g \in Layer3 THEN 3 ELSE IF g \in Layer4 THEN 4 ELSE IF g \in Layer5 THEN 5
    ELSE IF g = "query_orchestrator" THEN 6 ELSE 7

\* What a group of getters calls stands in lower layers.
CallsDown(group) ==
    \A g \in DOMAIN group : \A i \in DOMAIN group[g] : LayerOf(group[g][i]) < LayerOf(g)

\* No getter of app.api.deps calls one of its own layer or above.
LEMMA GraphCallsDown == CallsDown(Graph)
  <1> USE DEF CallsDown, LayerOf, Layer0, Layer1, Layer2, Layer3, Layer4, Layer5
  <1>1. CallsDown(StoreGetters)
    BY DEF StoreGetters
  <1>2. CallsDown(ModelGetters)
    BY DEF ModelGetters
  <1>3. CallsDown(EmbeddingGetters)
    BY DEF EmbeddingGetters
  <1>4. CallsDown(HydeGetters)
    BY DEF HydeGetters
  <1>5. CallsDown(CragGradingGetters)
    BY DEF CragGradingGetters
  <1>6. CallsDown(CragWebGetters)
    BY DEF CragWebGetters
  <1>7. CallsDown(CragGetters)
    BY DEF CragGetters
  <1>8. CallsDown(ReflectionGetters)
    BY DEF ReflectionGetters
  <1>9. CallsDown(RerankerGetters)
    BY DEF RerankerGetters
  <1>10. CallsDown(CacheGetters)
    BY DEF CacheGetters
  <1>11. CallsDown(ConfigStoreGetter)
    BY DEF ConfigStoreGetter
  <1>12. CallsDown(GuardGetters)
    BY DEF GuardGetters
  <1>13. CallsDown(RagGetters)
    BY DEF RagGetters
  <1>14. CallsDown(SqlPartGetters)
    BY DEF SqlPartGetters
  <1>15. CallsDown(OrchestrationGetters)
    BY DEF OrchestrationGetters
  <1>16. CallsDown(IngestionGetters)
    BY DEF IngestionGetters
  <1>17. CallsDown(AuthGetters)
    BY DEF AuthGetters
  <1>18. CallsDown(PerRequestGetters)
    BY DEF PerRequestGetters
  <1>19. CallsDown(PollerParts)
    BY DEF PollerParts
  <1> HIDE DEF CallsDown, LayerOf
  <1>20. \A group \in Groups : CallsDown(group)
    BY <1>1, <1>2, <1>3, <1>4, <1>5, <1>6, <1>7, <1>8, <1>9, <1>10, <1>11, <1>12, <1>13,
       <1>14, <1>15, <1>16, <1>17, <1>18, <1>19 DEF Groups
  <1>21. ASSUME NEW g \in AllGetters, NEW i \in DOMAIN Graph[g]
        PROVE  LayerOf(Graph[g][i]) < LayerOf(g)
    <2> DEFINE group == CHOOSE group \in Groups : g \in DOMAIN group
    <2>1. group \in Groups /\ g \in DOMAIN group
      BY DEF AllGetters
    <2>2. Graph[g] = group[g]
      BY DEF Graph
    <2> HIDE DEF group
    <2> QED
      BY <1>20, <2>1, <2>2 DEF CallsDown
  <1> QED
    BY <1>21 DEF CallsDown, Graph

\* What holds state of the process is kept.
LEMMA StatefulIsKept ==
    ASSUME Stateful \subseteq AllGetters
    PROVE  Stateful \subseteq Cached
  BY DEF Stateful, Cached, NotKept, PerRequestGetters, PollerParts

\* The getters of app.api.deps, asked for by any requests of any number of threads: what
\* holds state of the process is one of its kind but for overlapping first calls, and the
\* graph has no way back into a getter.
THEOREM TheWorkerIsWiredOnce ==
    ASSUME Needs = Graph, Kept = Cached, Shared = Stateful
    PROVE  WiringSpec => []WiredOnce
  <1> DEFINE rank == [g \in Getters |-> LayerOf(g)]
  <1>1. \A g : LayerOf(g) \in Nat
    BY DEF LayerOf
  <1>2. rank \in [Getters -> Nat]
    BY <1>1
  <1>3. DOMAIN Graph = Getters /\ AllGetters = Getters
    BY WiringAssumption DEF Graph
  <1>4. Layered(Needs, rank)
    <2> SUFFICES ASSUME NEW g \in Getters, NEW i \in DOMAIN Graph[g]
                 PROVE  rank[Graph[g][i]] < rank[g]
      BY <1>3 DEF Layered
    <2>1. Graph[g][i] \in Getters
      BY NeedsAreGetters
    <2>2. LayerOf(Graph[g][i]) < LayerOf(g)
      BY <1>3, GraphCallsDown DEF CallsDown
    <2> QED
      BY <2>1, <2>2
  <1>5. Shared \subseteq Kept
    BY <1>3, StatefulIsKept, WiringAssumption
  <1> QED
    BY <1>2, <1>4, <1>5, LayeredGettersAreWiredOnce
=============================================================================
