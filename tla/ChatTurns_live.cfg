\* Liveness of the requests, under one configuration.
\* Requests come once: when all are over nothing need happen.
SPECIFICATION ChatFairSpec
CONSTANTS
    r1 = r1
    r2 = r2
    alice = alice
    bob = bob
    Requests = {r1, r2}
    Users = {alice, bob}
    Admins = {alice}
    Configs <- OneSetting
    PoolSize = 1
PROPERTIES EveryTurnEnds
CHECK_DEADLOCK FALSE
