\* Admins take turns; pollers, crashes and lost answers interleave freely.
SPECIFICATION FairSpec
CONSTANTS
    Workers = {w1, w2}
    Admins = {a1}
    Flags <- OneFlag
    Requires <- NoRequires
    Payloads <- OnePayload
    Seed <- OneSeed
    MaxClock = 3
    Overlap = "turns"
PROPERTIES Converges
