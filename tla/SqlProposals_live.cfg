\* Two proposals and two requests; nothing is fair but time and the reclaimer.
SPECIFICATION FairSpec
CONSTANTS
    Proposals = {p1, p2}
    Requests = {r1, r2}
    Workers = {w1}
    Users = {u1}
    Configs <- OpenOnly
    Policies = {v1}
    MaxCatalog = 2
    Ttl = 1
    StaleAfter = 1
    MaxAttempts = 1
    StatementsBounded = FALSE
PROPERTIES ExecutingEnds HonoursConsent
