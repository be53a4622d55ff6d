\* A corpus bump on the only worker.
SPECIFICATION Spec
CONSTANTS
    Workers = {w1}
    Admins = {a1}
    Flags <- OneFlag
    Requires <- NoRequires
    Payloads <- OnePayload
    Seed <- OneSeed
    MaxClock = 3
    Overlap = "turns"
PROPERTIES BumpIsObserved
