\* One worker whose configuration an admin changes.
SPECIFICATION Spec
CONSTANTS
    Proposals = {p1}
    Requests = {r1}
    Workers = {w1}
    Users = {u1}
    Configs <- OpenOrKilled
    Policies = {v1}
    MaxCatalog = 1
    Ttl = 1
    StaleAfter = 1
    MaxAttempts = 1
    StatementsBounded = TRUE
PROPERTIES DisabledIsImmediate
