\* An upload replaces a searchable document.
\* The bounds may leave nothing to do.
SPECIFICATION Spec
CONSTANTS
    Workers = {w1}
    Requests = {r1}
    Admins = {a1}
    Questions = {q1}
    MaxGeneration = 2
    MaxConfigs = 1
    Replacing = TRUE
    Failures = FALSE
    ModeSwitches = FALSE
SYMMETRY Interchangeable
INVARIANTS UpToDate
CHECK_DEADLOCK FALSE
