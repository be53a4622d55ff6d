------------------------------ MODULE LlmCalls ------------------------------
(***************************************************************************)
(* One call of OpenAILLMClient: the attempts, the backoff between them and *)
(* the deadline they share.  generate and generate_json have no deadline;  *)
(* generate_structured has its caller's, and rejects what it cannot parse. *)
(* Time passes only in an attempt and in a sleep.  Assumed: an attempt is  *)
(* over when its timeout is.  httpx applies the timeout to each phase of a *)
(* request by itself, so a slow answer in many pieces may take longer.     *)
(***************************************************************************)
EXTENDS Integers

CONSTANTS Totals,         \* total_timeout_seconds of the callers with a deadline
          MaxAttempts,    \* the max_attempts they may ask for
          ClientTimeout,  \* the timeout of the client itself
          BackoffUnit     \* _RETRY_BACKOFF_SECONDS

NoLimit == 0

ASSUME LlmAssumption ==
    /\ Totals \subseteq Nat \ {NoLimit}
    /\ MaxAttempts \subseteq Nat \ {0}
    /\ ClientTimeout \in Nat \ {0}
    /\ BackoffUnit \in Nat

VARIABLES llm,    \* the call
          llm_clock  \* time since it began

llm_vars == <<llm, llm_clock>>

Errors == {"none", "transient", "permanent"}
Outcomes == {"none", "answered", "raised", "deadline", "rejected"}
Replies == {"usable", "refused", "empty", "invalid"}

NoCall == [pc |-> "idle", total |-> NoLimit, max |-> 1, attempt |-> 1, timeout |-> ClientTimeout,
           error |-> "none", outcome |-> "none", asked |-> 0]

LlmInit == llm = NoCall /\ llm_clock = 0

-----------------------------------------------------------------------------
Structured == llm.total # NoLimit
Remaining == llm.total - llm_clock
NoTimeLeft == Structured /\ Remaining <= 0
AtMost(n, bound) == IF n <= bound THEN n ELSE bound

Ends(outcome) == llm' = [llm EXCEPT !.pc = "over", !.outcome = outcome]

\* generate, generate_json: three attempts and the client's own timeout.
GenerateText(max) ==
    /\ llm.pc = "idle"
    /\ llm' = [NoCall EXCEPT !.pc = "start", !.max = max]
    /\ UNCHANGED llm_clock

GenerateStructured(total, max) ==
    /\ llm.pc = "idle"
    /\ llm' = [NoCall EXCEPT !.pc = "start", !.total = total, !.max = max, !.timeout = total]
    /\ UNCHANGED llm_clock

\* The top of the loop: an attempt starts only with time left, and no longer than that.
OutOfTime ==
    /\ llm.pc = "start" /\ NoTimeLeft
    /\ Ends(IF llm.error = "none" THEN "deadline" ELSE "raised")
    /\ UNCHANGED llm_clock

Clamped == IF Structured THEN AtMost(llm.timeout, Remaining) ELSE llm.timeout

StartAttempt ==
    /\ llm.pc = "start" /\ ~NoTimeLeft
    /\ llm' = [llm EXCEPT !.pc = "asking", !.timeout = Clamped, !.asked = @ + 1]
    /\ UNCHANGED llm_clock

\* An answer; what generate_structured cannot use is an error of its own, never retried.
Answer(d, reply) ==
    /\ llm.pc = "asking"
    /\ llm_clock' = llm_clock + d
    /\ Ends(IF Structured /\ reply # "usable" THEN "rejected" ELSE "answered")

Transient(error) == error = "transient"

\* An error: a timeout is one that took all its time.
Fails(d, error) ==
    /\ llm.pc = "asking"
    /\ llm_clock' = llm_clock + d
    /\ LET gives_up == ~Transient(error) \/ llm.attempt = llm.max
       IN  llm' = [llm EXCEPT !.error = error,
                              !.pc = IF gives_up THEN "over" ELSE "backoff",
                              !.outcome = IF gives_up THEN "raised" ELSE "none"]

\* Mutant: the sleep knows nothing of the deadline.
PauseUnclamped == BackoffUnit * llm.attempt

Pause == LET backoff == BackoffUnit * llm.attempt
         IN  IF Structured THEN AtMost(backoff, Remaining) ELSE backoff

\* Mutant: a backoff that does not fit is not shortened, the call gives up instead.
BackoffOnlyIfItFits ==
    /\ llm.pc = "backoff"
    /\ IF Structured /\ Remaining < BackoffUnit * llm.attempt
       THEN Ends("raised") /\ UNCHANGED llm_clock
       ELSE /\ llm_clock' = llm_clock + Pause
            /\ llm' = [llm EXCEPT !.pc = "start", !.attempt = @ + 1]

Backoff ==
    /\ llm.pc = "backoff"
    /\ IF NoTimeLeft
       THEN Ends("raised") /\ UNCHANGED llm_clock
       ELSE /\ llm_clock' = llm_clock + Pause
            /\ llm' = [llm EXCEPT !.pc = "start", !.attempt = @ + 1]

LlmStep ==
    \/ OutOfTime \/ StartAttempt \/ Backoff
    \/ \E d \in 0..llm.timeout :
          \/ \E reply \in Replies : Answer(d, reply)
          \/ \E error \in Errors \ {"none"} : Fails(d, error)

LlmNext ==
    \/ \E max \in MaxAttempts : \/ GenerateText(max)
                                \/ \E total \in Totals : GenerateStructured(total, max)
    \/ LlmStep

LlmSpec == LlmInit /\ [][LlmNext]_llm_vars

-----------------------------------------------------------------------------
LlmTypeOK ==
    /\ llm \in [pc : {"idle", "start", "asking", "backoff", "over"},
                total : Totals \union {NoLimit}, max : MaxAttempts \union {1},
                attempt : Nat \ {0}, timeout : Nat, error : Errors, outcome : Outcomes,
                asked : Nat]
    /\ llm_clock \in Nat

\* The deadline covers all attempts and the backoff between them together: if no attempt
\* outlasts its timeout, a call that was given time t is over after t, whatever failed in it.
EndsInTime == Structured => llm_clock <= llm.total

\* A call gives up for one of three reasons: an error that no retry can mend, no attempt
\* left, or no time left.  No time left may be its own doing: a backoff is shortened to
\* the time that remains, uses all of it up, and then no attempt follows.  A bare timeout,
\* in place of the last error, is raised only if nothing was ever asked.
GivesUpForAReason ==
    /\ llm.outcome = "raised" =>
          \/ llm.error = "permanent"
          \/ llm.error = "transient" /\ llm.asked = llm.max
          \/ llm.error = "transient" /\ Structured /\ llm_clock = llm.total
    /\ llm.outcome = "deadline" => llm.asked = 0

\* A call ends within the time it was given, and gives up before that only for an error
\* no retry can mend or after its last attempt.
DeadlineKept == EndsInTime /\ GivesUpForAReason

=============================================================================
