\* guardrail_mode is switched from monitor to enforce.
\* The bounds may leave nothing to do.
SPECIFICATION Spec
CONSTANTS
    Workers = {w1}
    Requests = {r1}
    Admins = {a1}
    Questions = {q1}
    MaxGeneration = 1
    MaxConfigs = 2
    Replacing = FALSE
    Failures = FALSE
    ModeSwitches = TRUE
SYMMETRY Interchangeable
PROPERTIES EnforcedAnswersOnly
CHECK_DEADLOCK FALSE
