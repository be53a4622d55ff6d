\* The transaction that began first commits last.
SPECIFICATION Spec
CONSTANTS
    Workers = {w1}
    Admins = {a1, a2}
    Flags <- OneFlag
    Requires <- NoRequires
    Payloads <- OnePayload
    Seed <- OneSeed
    MaxClock = 3
    Overlap = "transactions"
PROPERTIES EveryChangeIsPushed
