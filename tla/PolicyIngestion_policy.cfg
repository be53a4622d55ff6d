\* Requests on two sources overlap freely and fail anywhere, beside a run of seed_db.py.
\* Admins may stop uploading, and then nothing is left to do.
SPECIFICATION Spec
CONSTANTS
    Sources = {s1, s2}
    Handlers = {h1, h2}
    Parts = {c1, c2}
    Seeded = {s1}
    ScrollLimit = 100
    MaxUploads = 3
    MaxReseeds = 1
SYMMETRY Interchangeable
INVARIANTS LiveHasApproval LiveWasScannedInTurn
PROPERTIES FailedStaysFailed HonoursQuarantine
CHECK_DEADLOCK FALSE
