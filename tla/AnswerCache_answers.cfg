\* Two admins publish, replace and clear beside an answer in flight, whatever fails.
\* The bounds may leave nothing to do.
SPECIFICATION Spec
CONSTANTS
    Workers = {w1}
    Requests = {r1}
    Admins = {a1, a2}
    Questions = {q1}
    MaxGeneration = 3
    MaxConfigs = 3
    Replacing = TRUE
    Failures = TRUE
    ModeSwitches = TRUE
SYMMETRY Interchangeable
INVARIANTS BumpsSuffice
PROPERTY ServedFresh
CHECK_DEADLOCK FALSE
