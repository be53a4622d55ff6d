\* An approval fails before it marks its row.
\* Admins may stop uploading, and then nothing is left to do.
SPECIFICATION Spec
CONSTANTS
    Sources = {s1}
    Handlers = {h1}
    Parts = {c1}
    Seeded = {}
    ScrollLimit = 100
    MaxUploads = 1
    MaxReseeds = 0
SYMMETRY Interchangeable
INVARIANTS ApprovedIsUnsearchable
CHECK_DEADLOCK FALSE
