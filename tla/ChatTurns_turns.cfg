\* Two requests of an administrator and a user, a pool of one connection.
\* Requests come once: when all are over nothing need happen.
SPECIFICATION ChatSpec
CONSTANTS
    r1 = r1
    r2 = r2
    alice = alice
    bob = bob
    Requests = {r1, r2}
    Users = {alice, bob}
    Admins = {alice}
    Configs <- Settings
    PoolSize = 1
SYMMETRY Alike
INVARIANTS OwnTurns ProposalsAuthorised ResponseIsTrue GuardComesFirst
PROPERTIES StoredIsTold
CHECK_DEADLOCK FALSE
