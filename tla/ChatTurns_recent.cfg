\* Two turns of one user in two conversations.
\* Requests come once: when all are over nothing need happen.
SPECIFICATION ChatSpec
CONSTANTS
    r1 = r1
    r2 = r2
    alice = alice
    bob = bob
    Requests = {r1, r2}
    Users = {bob}
    Admins = {}
    Configs <- OneSetting
    PoolSize = 2
SYMMETRY Alike
INVARIANTS MostRecentFirst
CHECK_DEADLOCK FALSE
