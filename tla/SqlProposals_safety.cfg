\* Three concurrent requests of two owners on two workers over one proposal.
SPECIFICATION Spec
CONSTANTS
    Proposals = {p1}
    Requests = {r1, r2, r3}
    Workers = {w1, w2}
    Users = {u1, u2}
    Configs <- OpenOnly
    Policies = {v1, v2}
    MaxCatalog = 2
    Ttl = 1
    StaleAfter = 0
    MaxAttempts = 2
    StatementsBounded = FALSE
SYMMETRY Interchangeable
INVARIANTS AtMostOneRun SoleOwnerHolds ClosedIsInert ExecutedIsTrue
PROPERTIES RunsWhatWasApproved ClaimedInTime
