\* An approval and a new upload of the same source overlap.
\* Admins may stop uploading, and then nothing is left to do.
SPECIFICATION Spec
CONSTANTS
    Sources = {s1}
    Handlers = {h1, h2}
    Parts = {c1}
    Seeded = {}
    ScrollLimit = 100
    MaxUploads = 2
    MaxReseeds = 0
SYMMETRY Interchangeable
INVARIANTS LiveWasScanned
CHECK_DEADLOCK FALSE
