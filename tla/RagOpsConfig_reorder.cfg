\* Two admins on one worker apply in the wrong order.
SPECIFICATION Spec
CONSTANTS
    Workers = {w1}
    Admins = {a1, a2}
    Flags <- OneFlag
    Requires <- NoRequires
    Payloads <- OnePayload
    Seed <- OneSeed
    MaxClock = 3
    Overlap = "requests"
PROPERTIES PollConverges
