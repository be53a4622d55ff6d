----------------------------- MODULE Quarantine -----------------------------
(***************************************************************************)
(* What the quarantine promises of a source, without chunks, rows, files   *)
(* or requests: an upload is held, read by the scan, approved and only     *)
(* then opened to search, each in its turn; whatever replaces or removes   *)
(* it starts again from nothing.  A source leaves this order for good when *)
(* two requests on it overlap, an upload ends between storing its chunks   *)
(* and having its row, or seed_db.py runs: then nothing is promised.       *)
(***************************************************************************)
CONSTANTS Sources, Seeded

VARIABLE stage   \* stage[s]: how far what the collection holds of s has come

Supervised == {"empty", "held", "passed", "failed", "approved", "open"}
Stages == Supervised \union {"unsupervised"}

QuarantineInit == stage = [s \in Sources |-> IF s \in Seeded THEN "open" ELSE "empty"]

Move(s, from, to) ==
    /\ stage[s] \in from
    /\ stage' = [stage EXCEPT ![s] = to]

Hold(s) == Move(s, {"empty"}, "held")
Pass(s) == Move(s, {"held"}, "passed")
Condemn(s) == Move(s, {"held"}, "failed")
Approve(s) == Move(s, {"passed"}, "approved")
Open(s) == Move(s, {"approved"}, "open")
Remove(s) == Move(s, Supervised, "empty")
Stray(s) == Move(s, Supervised, "unsupervised")

QuarantineNext ==
    \E s \in Sources : \/ Hold(s) \/ Pass(s) \/ Condemn(s) \/ Approve(s) \/ Open(s) \/ Remove(s)
                       \/ Stray(s)

QuarantineSpec == QuarantineInit /\ [][QuarantineNext]_stage
=============================================================================
