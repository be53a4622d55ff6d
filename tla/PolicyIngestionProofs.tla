------------------------ MODULE PolicyIngestionProofs ------------------------
(***************************************************************************)
(* What the quarantine keeps to, for any sources, handlers, chunks and     *)
(* bounds.                                                                 *)
(*                                                                         *)
(* Three invariants.  `Approvals' needs nothing: whatever overlaps or      *)
(* fails, each request knows enough of its row that scan_failed is final   *)
(* and that nothing of an unapproved source is searchable.  `InTurn'       *)
(* speaks source by source of those whose requests took turns, and needs   *)
(* that a scroll returns everything it matches (OnePage): what the chunks  *)
(* of a source are at each step of the one request at work on it.          *)
(* `Supervision' adds which rows speak for those chunks, and with it the   *)
(* workflow implements Quarantine.                                         *)
(***************************************************************************)
EXTENDS PolicyIngestion, FiniteSetTheorems, WellFoundedInduction, TLAPS

(* What holds whatever overlaps or fails.                                  *)

Phases == {"idle"} \union UploadPhases \union ApprovePhases \union RejectPhases
WithRow == {"scanning", "recording", "purging"} \union ApprovePhases \union RejectPhases
Scanning == {"scanning", "recording"}
Decided == {"scan_passed", "approved", "active", "rejected"}

\* What a request knows of its row, whoever else is at work.
RowKnown(j) ==
    /\ j.phase \in WithRow => rows[j.row].doc = j.doc
    /\ j.phase \in Scanning => rows[j.row].status = "pending_scan"
    /\ j.phase \in ApprovePhases => rows[j.row].status \in Decided
    /\ j.phase = "activating" => rows[j.row].approved
    /\ j.phase \in RejectPhases => rows[j.row].status # "pending_scan"

\* Requests about their rows, and rows about their history: no two requests scan for
\* one row, and approved_by is kept by what was approved once.
Rows ==
    /\ \A h \in Handlers : RowKnown(job[h])
    /\ \A g, h \in Handlers :
          g # h /\ job[g].phase \in Scanning /\ job[h].phase \in Scanning =>
              job[g].row # job[h].row
    /\ \A i \in DOMAIN rows :
          rows[i].approved => rows[i].status \in {"approved", "active", "rejected"}

Approvals ==
    /\ TypeOK
    /\ Rows
    /\ LiveHasApproval

-----------------------------------------------------------------------------
(* What holds of a source whose requests took turns.                       *)

\* No scroll meets its limit.
OnePage == \A matching \in SUBSET points : Cardinality(matching) <= ScrollLimit

Uploaded == Scanning \union {"registering", "purging"}

\* Request h is at work on source s.
On(h, s) == job[h].phase # "idle" /\ SourceOf(job[h].doc) = s

IsLatest(i, s) == \A k \in DOMAIN rows : SourceOf(rows[k].doc) = s => k <= i

\* What the request at work on a source knows of its chunks.
ChunksKnown(j, s) ==
    /\ j.phase = "stored" /\ ~j.replaces => ChunksOf(s) = {}
    /\ j.phase = "upserting" => ChunksOf(s) = {}
    /\ j.phase \in Uploaded => \A p \in ChunksOf(s) : p.doc = j.doc /\ ~p.live
    /\ j.phase \in Scanning => IsLatest(j.row, s)
    /\ j.phase = "recording" => ScannedBy(s, j.texts)
    /\ j.phase \in {"approving", "activating"} => ScannedBy(s, rows[j.row].scanned)

\* A row that may be approved speaks for all chunks of its source, unless an upload has
\* stored its chunks and not created its row yet.
Settled(s) ==
    (~\E h \in Handlers : job[h].phase = "registering" /\ On(h, s)) =>
        \A i \in DOMAIN rows :
            SourceOf(rows[i].doc) = s /\ IsLatest(i, s) /\ rows[i].status = "scan_passed" =>
                ScannedBy(s, rows[i].scanned)

\* What LiveWasScannedInTurn asks of a searchable chunk.
Vetted(p) == \/ documents[p.doc].seeded
             \/ \E i \in DOMAIN rows : /\ rows[i].approved
                                       /\ <<p.doc, p.part>> \in rows[i].scanned

TurnOf(s) ==
    /\ \A g, h \in Handlers : On(g, s) /\ On(h, s) => g = h
    /\ \A h \in Handlers : On(h, s) => ChunksKnown(job[h], s)
    /\ Settled(s)
    /\ \A p, q \in ChunksOf(s) : p.doc = q.doc
    /\ \A p \in ChunksOf(s) : p.live => Vetted(p)

\* The policy directory stores a document under its source.
Files == \A s \in Sources : file[s] # 0 => SourceOf(file[s]) = s

InTurn ==
    /\ Approvals
    /\ Files
    /\ \A s \in Sources \ strayed : TurnOf(s)

-----------------------------------------------------------------------------
(* The steps, by what they change.                                         *)

\* A step of one request: what it leaves alone, and what it keeps while it goes on.
Only(h) == /\ job' \in [Handlers -> Job]
           /\ \A g \in Handlers : g # h => job'[g] = job[g]
Keeps(h) == /\ job'[h].doc = job[h].doc
            /\ job'[h].row = job[h].row
Goes(h, x) == Only(h) /\ Keeps(h) /\ job'[h].phase = x /\ job'[h].texts = job[h].texts
Ends(h) == Only(h) /\ job'[h].phase = "idle"

\* What the update of a row does to the rows.
Rewrites(h, status) ==
    /\ rows' \in Seq(Row) /\ DOMAIN rows' = DOMAIN rows
    /\ job[h].row \in DOMAIN rows
    /\ \A i \in DOMAIN rows : rows'[i].doc = rows[i].doc
    /\ \A i \in DOMAIN rows : i # job[h].row => rows'[i] = rows[i]
    /\ rows'[job[h].row].status = status

\* The steps of a request that is under way.
GoesOn(h) == \/ StoreFile(h) \/ DeleteReplaced(h) \/ Upsert(h) \/ CreatePending(h) \/ ReadBack(h)
             \/ RecordPassed(h) \/ RecordFailed(h) \/ Purge(h) \/ ApproveRow(h) \/ Activate(h)
             \/ MarkActive(h) \/ DeleteRejected(h) \/ RejectRow(h) \/ Fail(h)

\* What a step on behalf of source s leaves alone of the others.
Around(s) ==
    /\ \A d \in DOMAIN documents : d \in DOMAIN documents' /\ documents'[d] = documents[d]
    /\ \A p \in points : p \in points' \/ SourceOf(p.doc) = s
    /\ \A p \in points' : p \in points \/ documents'[p.doc].source = s
    /\ \A i \in DOMAIN rows : /\ i \in DOMAIN rows' /\ rows'[i].doc = rows[i].doc
                              /\ rows'[i] = rows[i] \/ SourceOf(rows[i].doc) = s
                              /\ rows[i].approved => /\ rows'[i].approved
                                                     /\ rows'[i].scanned = rows[i].scanned
    /\ \A i \in DOMAIN rows' : i \in DOMAIN rows \/ documents'[rows'[i].doc].source = s
    /\ \A h \in Handlers :
          \/ job'[h] = job[h]
          \/ /\ job[h].phase # "idle" => SourceOf(job[h].doc) = s
             /\ job'[h].phase # "idle" => documents'[job'[h].doc].source = s
    /\ strayed \subseteq strayed'

-----------------------------------------------------------------------------
(* Sequences and types.                                                    *)

\* An element of a sequence is of its type.
LEMMA Elements ==
    ASSUME NEW S, NEW q \in Seq(S), NEW i \in DOMAIN q
    PROVE  q[i] \in S /\ i \in 1..Len(q)
  OBVIOUS

\* Replacing one element of a sequence.
LEMMA Updates ==
    ASSUME NEW S, NEW q \in Seq(S), NEW i \in DOMAIN q, NEW e \in S
    PROVE  /\ [q EXCEPT ![i] = e] \in Seq(S)
           /\ DOMAIN [q EXCEPT ![i] = e] = DOMAIN q
           /\ [q EXCEPT ![i] = e][i] = e
           /\ \A k \in DOMAIN q : k # i => [q EXCEPT ![i] = e][k] = q[k]
  OBVIOUS

\* Adding one element to a sequence.
LEMMA Appends ==
    ASSUME NEW S, NEW q \in Seq(S), NEW e \in S
    PROVE  /\ Append(q, e) \in Seq(S)
           /\ Len(Append(q, e)) = Len(q) + 1
           /\ DOMAIN Append(q, e) = DOMAIN q \union {Len(q) + 1}
           /\ Len(q) + 1 \notin DOMAIN q
           /\ Append(q, e)[Len(q) + 1] = e
           /\ \A k \in DOMAIN q : Append(q, e)[k] = q[k] /\ k < Len(q) + 1
  OBVIOUS

\* A request that only moves on stays a request.
LEMMA PhaseTypes ==
    ASSUME NEW j \in Job, NEW x \in Phases
    PROVE  /\ [j EXCEPT !.phase = x] \in Job
           /\ [j EXCEPT !.phase = x].phase = x
           /\ [j EXCEPT !.phase = x].doc = j.doc
           /\ [j EXCEPT !.phase = x].row = j.row
           /\ [j EXCEPT !.phase = x].texts = j.texts
  BY DEF Job, Phases

\* A request at rest is a request.
LEMMA IdleTypes == Idle \in Job /\ Idle.phase = "idle"
  BY IngestionAssumption DEF Idle, Job

\* What the types say of one request.
LEMMA JobTypes ==
    ASSUME TypeOK, NEW h \in Handlers, job[h].phase # "idle"
    PROVE  /\ job[h].doc \in DOMAIN documents
           /\ job[h].doc \in Documents
           /\ SourceOf(job[h].doc) \in Sources
  <1>1. job[h].doc \in DOMAIN documents /\ documents \in Seq([source : Sources, seeded : BOOLEAN])
    BY DEF TypeOK
  <1>2. /\ documents[job[h].doc] \in [source : Sources, seeded : BOOLEAN]
        /\ job[h].doc \in 1..Len(documents)
    BY <1>1, Elements
  <1>3. job[h].doc \in Documents
    BY <1>1, <1>2, IngestionAssumption DEF TypeOK, Documents
  <1>4. QED
    BY <1>1, <1>2, <1>3 DEF SourceOf

\* A chunk is of some source.
LEMMA PointSources ==
    ASSUME TypeOK, NEW p \in points
    PROVE  SourceOf(p.doc) \in Sources
  <1>1. p.doc \in DOMAIN documents /\ documents \in Seq([source : Sources, seeded : BOOLEAN])
    BY DEF TypeOK
  <1>2. documents[p.doc] \in [source : Sources, seeded : BOOLEAN]
    BY <1>1, Elements
  <1>3. QED
    BY <1>2 DEF SourceOf

\* The chunks of a document are points of that document.
LEMMA ChunkTypes ==
    ASSUME NEW doc \in Documents, NEW live \in BOOLEAN
    PROVE  /\ Chunks(doc, live) \subseteq Point
           /\ \A p \in Chunks(doc, live) : p.doc = doc /\ p.live = live
  BY DEF Chunks, Point

\* Assigning the phase is moving on.
LEMMA Goings ==
    ASSUME TypeOK, NEW h \in Handlers, NEW x \in Phases, job' = [job EXCEPT ![h].phase = x]
    PROVE  Goes(h, x)
  <1>1. job \in [Handlers -> Job] /\ job[h] \in Job
    BY DEF TypeOK
  <1>2. job' = [job EXCEPT ![h] = [job[h] EXCEPT !.phase = x]]
    BY <1>1
  <1>3. QED
    BY <1>1, <1>2, PhaseTypes DEF Goes, Only, Keeps

\* Assigning Idle is ending.
LEMMA Endings ==
    ASSUME TypeOK, NEW h \in Handlers, job' = [job EXCEPT ![h] = Idle]
    PROVE  Ends(h)
  BY IdleTypes DEF TypeOK, Ends, Only

\* What each step does to its request.
LEMMA JobEffects ==
    ASSUME TypeOK, NEW h \in Handlers
    PROVE  /\ StoreFile(h) => Goes(h, IF job[h].replaces THEN "deleting" ELSE "upserting")
           /\ DeleteReplaced(h) => Goes(h, "upserting")
           /\ Upsert(h) => Goes(h, "registering")
           /\ RecordFailed(h) => Goes(h, "purging")
           /\ ApproveRow(h) => Goes(h, "activating")
           /\ Activate(h) => Goes(h, "marking")
           /\ DeleteRejected(h) => Goes(h, "closing")
           /\ RecordPassed(h) \/ Purge(h) \/ MarkActive(h) \/ RejectRow(h) \/ Fail(h) => Ends(h)
  <1>1. /\ "deleting" \in Phases /\ "upserting" \in Phases /\ "registering" \in Phases
        /\ "purging" \in Phases /\ "activating" \in Phases /\ "marking" \in Phases
        /\ "closing" \in Phases
    BY DEF Phases, UploadPhases, ApprovePhases, RejectPhases
  <1>2. StoreFile(h) => Goes(h, IF job[h].replaces THEN "deleting" ELSE "upserting")
    BY <1>1, Goings DEF StoreFile
  <1>3. DeleteReplaced(h) => Goes(h, "upserting")
    BY <1>1, Goings DEF DeleteReplaced
  <1>4. Upsert(h) => Goes(h, "registering")
    BY <1>1, Goings DEF Upsert
  <1>5. RecordFailed(h) => Goes(h, "purging")
    BY <1>1, Goings DEF RecordFailed
  <1>6. ApproveRow(h) => Goes(h, "activating")
    BY <1>1, Goings DEF ApproveRow
  <1>7. Activate(h) => Goes(h, "marking")
    BY <1>1, Goings DEF Activate
  <1>8. DeleteRejected(h) => Goes(h, "closing")
    BY <1>1, Goings DEF DeleteRejected
  <1>9. RecordPassed(h) \/ Purge(h) \/ MarkActive(h) \/ RejectRow(h) \/ Fail(h) => Ends(h)
    BY Endings DEF RecordPassed, Purge, MarkActive, RejectRow, Fail
  <1>10. QED
    BY <1>2, <1>3, <1>4, <1>5, <1>6, <1>7, <1>8, <1>9

\* create_pending gives the request the row it has just added.
LEMMA CreateEffects ==
    ASSUME TypeOK, NEW h \in Handlers, CreatePending(h)
    PROVE  /\ Only(h)
           /\ job'[h].phase = "scanning" /\ job'[h].doc = job[h].doc
           /\ job'[h].row = Len(rows) + 1
  <1>1. job \in [Handlers -> Job] /\ job[h] \in Job /\ Len(rows) + 1 \in Nat
    BY DEF TypeOK
  <1>2. job' = [job EXCEPT ![h] = [job[h] EXCEPT !.phase = "scanning", !.row = Len(rows) + 1]]
    BY <1>1 DEF CreatePending
  <1>3. [job[h] EXCEPT !.phase = "scanning", !.row = Len(rows) + 1] \in Job
    BY <1>1 DEF Job, UploadPhases
  <1>4. QED
    BY <1>1, <1>2, <1>3 DEF Only, Job

\* The texts read back are those of the source on the page.
LEMMA ReadEffects ==
    ASSUME TypeOK, NEW h \in Handlers, ReadBack(h)
    PROVE  /\ Only(h) /\ Keeps(h) /\ job'[h].phase = "recording"
           /\ \E page \in Page({p \in points : ~p.live}) :
                 job'[h].texts = {<<p.doc, p.part>> : p \in page \intersect
                                                        ChunksOf(SourceOf(job[h].doc))}
  <1>1. job \in [Handlers -> Job] /\ job[h] \in Job /\ points \subseteq Point
    BY DEF TypeOK
  <1>2. PICK page \in Page({p \in points : ~p.live}) :
             job' = [job EXCEPT
                   ![h].phase = "recording",
                   ![h].texts = {<<p.doc, p.part>> : p \in page \intersect
                                                        ChunksOf(SourceOf(job[h].doc))}]
    BY DEF ReadBack
  <1> DEFINE read == {<<p.doc, p.part>> : p \in page \intersect ChunksOf(SourceOf(job[h].doc))}
  <1>3. read \subseteq Text
    BY <1>1 DEF ChunksOf, Point, Text
  <1> HIDE DEF read
  <1>4. job' = [job EXCEPT ![h] = [job[h] EXCEPT !.phase = "recording", !.texts = read]]
    BY <1>1, <1>2 DEF read
  <1>5. [job[h] EXCEPT !.phase = "recording", !.texts = read] \in Job
    BY <1>1, <1>3 DEF Job, UploadPhases
  <1>6. Only(h) /\ Keeps(h) /\ job'[h].phase = "recording" /\ job'[h].texts = read
    BY <1>1, <1>4, <1>5 DEF Only, Keeps, Job
  <1>7. QED
    BY <1>2, <1>6 DEF read

\* One request changes; documents and rows are only added to.
LEMMA OneJob ==
    ASSUME TypeOK, NEW h \in Handlers, Only(h),
           job'[h].phase # "idle" => job'[h].doc \in DOMAIN documents',
           job'[h].phase \in WithRow => job'[h].row \in DOMAIN rows',
           DOMAIN documents \subseteq DOMAIN documents', DOMAIN rows \subseteq DOMAIN rows'
    PROVE  \A g \in Handlers :
                 /\ job'[g].phase # "idle" => job'[g].doc \in DOMAIN documents'
                 /\ job'[g].phase \in WithRow => job'[g].row \in DOMAIN rows'
  BY DEF TypeOK, WithRow, Only

\* An update of the request's row.
LEMMA Rewriting ==
    ASSUME TypeOK, NEW h \in Handlers, job[h].row \in DOMAIN rows,
           NEW e \in Row, e.doc = rows[job[h].row].doc,
           rows' = [rows EXCEPT ![job[h].row] = e]
    PROVE  Rewrites(h, e.status) /\ rows'[job[h].row] = e
  <1> DEFINE i == job[h].row
  <1>1. rows \in Seq(Row)
    BY DEF TypeOK
  <1> HIDE DEF i
  <1>2. /\ rows' \in Seq(Row) /\ DOMAIN rows' = DOMAIN rows /\ rows'[i] = e
        /\ \A k \in DOMAIN rows : k # i => rows'[k] = rows[k]
    BY <1>1, Updates DEF i
  <1>3. QED
    BY <1>2 DEF Rewrites, i

\* What each update of a row writes, and what it keeps.
LEMMA RowEffects ==
    ASSUME TypeOK, NEW h \in Handlers, NEW i, i = job[h].row
    PROVE  /\ RecordPassed(h) => /\ Rewrites(h, "scan_passed")
                                 /\ rows'[i].scanned = job[h].texts
                                 /\ rows'[i].approved = rows[i].approved
           /\ RecordFailed(h) => /\ Rewrites(h, "scan_failed")
                                 /\ rows'[i].scanned = job[h].texts
                                 /\ rows'[i].approved = rows[i].approved
           /\ ApproveRow(h) => /\ Rewrites(h, "approved")
                               /\ rows'[i].scanned = rows[i].scanned
                               /\ rows'[i].approved
           /\ MarkActive(h) => /\ Rewrites(h, "active")
                               /\ rows'[i].scanned = rows[i].scanned
                               /\ rows'[i].approved = rows[i].approved
           /\ RejectRow(h) => /\ Rewrites(h, "rejected")
                              /\ rows'[i].scanned = rows[i].scanned
                              /\ rows'[i].approved = rows[i].approved
  <1>1. rows \in Seq(Row) /\ job[h] \in Job /\ job[h].texts \in SUBSET Text
    BY DEF TypeOK, Job
  <1>2. i \in DOMAIN rows => rows[i] \in Row
    BY <1>1, Elements
  <1>3. RecordPassed(h) \/ RecordFailed(h) \/ ApproveRow(h) \/ MarkActive(h) \/ RejectRow(h)
           => i \in DOMAIN rows
    BY DEF TypeOK, RecordPassed, RecordFailed, ApproveRow, MarkActive, RejectRow,
           ApprovePhases, RejectPhases
  <1>4. \A status \in {"scan_passed", "scan_failed", "approved", "active", "rejected"} :
           status \in Status
    BY DEF Status
  <1> DEFINE Scanned(status) == [rows[i] EXCEPT !.status = status, !.scanned = job[h].texts]
             Approved == [rows[i] EXCEPT !.status = "approved", !.approved = TRUE]
             Moved(status) == [rows[i] EXCEPT !.status = status]
  <1>5. ASSUME NEW status \in Status, i \in DOMAIN rows
        PROVE  /\ Scanned(status) \in Row /\ Scanned(status).status = status
               /\ Scanned(status).doc = rows[i].doc
               /\ Scanned(status).scanned = job[h].texts
               /\ Scanned(status).approved = rows[i].approved
               /\ Moved(status) \in Row /\ Moved(status).status = status
               /\ Moved(status).doc = rows[i].doc
               /\ Moved(status).scanned = rows[i].scanned
               /\ Moved(status).approved = rows[i].approved
    BY <1>1, <1>2, <1>5 DEF Row
  <1>6. i \in DOMAIN rows => /\ Approved \in Row /\ Approved.status = "approved"
                             /\ Approved.doc = rows[i].doc /\ Approved.approved
                             /\ Approved.scanned = rows[i].scanned
    BY <1>1, <1>2, <1>4 DEF Row
  <1>7. /\ RecordPassed(h) => rows' = [rows EXCEPT ![i] = Scanned("scan_passed")]
        /\ RecordFailed(h) => rows' = [rows EXCEPT ![i] = Scanned("scan_failed")]
        /\ ApproveRow(h) => rows' = [rows EXCEPT ![i] = Approved]
        /\ MarkActive(h) => rows' = [rows EXCEPT ![i] = Moved("active")]
        /\ RejectRow(h) => rows' = [rows EXCEPT ![i] = Moved("rejected")]
    BY <1>1, <1>3 DEF RecordPassed, RecordFailed, ApproveRow, MarkActive, RejectRow
  <1> HIDE DEF Scanned, Approved, Moved
  <1>8. RecordPassed(h) => /\ Rewrites(h, Scanned("scan_passed").status)
                    /\ rows'[i] = Scanned("scan_passed")
    BY <1>3, <1>4, <1>5, <1>7, Rewriting
  <1>9. RecordFailed(h) => /\ Rewrites(h, Scanned("scan_failed").status)
                    /\ rows'[i] = Scanned("scan_failed")
    BY <1>3, <1>4, <1>5, <1>7, Rewriting
  <1>10. ApproveRow(h) => /\ Rewrites(h, Approved.status)
                    /\ rows'[i] = Approved
    BY <1>3, <1>6, <1>7, Rewriting
  <1>11. MarkActive(h) => /\ Rewrites(h, Moved("active").status)
                    /\ rows'[i] = Moved("active")
    BY <1>3, <1>4, <1>5, <1>7, Rewriting
  <1>12. RejectRow(h) => /\ Rewrites(h, Moved("rejected").status)
                    /\ rows'[i] = Moved("rejected")
    BY <1>3, <1>4, <1>5, <1>7, Rewriting
  <1>13. QED
    BY <1>3, <1>4, <1>5, <1>6, <1>8, <1>9, <1>10, <1>11, <1>12

-----------------------------------------------------------------------------
\* A set of positions that is not empty has a last one.
LEMMA Greatest ==
    ASSUME NEW n \in Nat, NEW S \in SUBSET (1..n), S # {}
    PROVE  \E i \in S : \A k \in S : k <= i
  <1> DEFINE R == OpToRel(<, Nat)
             T == {n - i : i \in S}
  <1>1. IsWellFoundedOn(R, Nat)
    BY NatLessThanWellFounded
  <1>2. \A x, y \in Nat : <<x, y>> \in R <=> x < y
    BY DEF OpToRel
  <1> HIDE DEF R
  <1>3. T \subseteq Nat /\ T # {}
    <2>1. \A i \in S : i \in 1..n /\ n - i \in Nat
      OBVIOUS
    <2>2. QED
      BY <2>1
  <1>4. PICK x \in T : \A y \in T : ~(<<y, x>> \in R)
    BY <1>1, <1>3, WFMin
  <1>5. PICK i \in S : x = n - i
    OBVIOUS
  <1>6. ASSUME NEW k \in S
        PROVE  k <= i
    <2>1. n - k \in T /\ n - k \in Nat /\ n - i \in Nat
      OBVIOUS
    <2>2. ~(n - k < n - i)
      BY <2>1, <1>2, <1>4, <1>5
    <2>3. QED
      BY <2>2
  <1>7. QED
    BY <1>6

\* Latest is the last row of the source, if it has one.
LEMMA LatestIsLast ==
    ASSUME TypeOK, NEW s, Latest(s) # 0
    PROVE  /\ Latest(s) \in DOMAIN rows
           /\ SourceOf(rows[Latest(s)].doc) = s
           /\ IsLatest(Latest(s), s)
  <1> DEFINE mine == {i \in DOMAIN rows : SourceOf(rows[i].doc) = s}
  <1>1. mine # {} /\ Latest(s) = CHOOSE i \in mine : \A j \in mine : j <= i
    BY DEF Latest
  <1>2. mine \in SUBSET (1..Len(rows)) /\ Len(rows) \in Nat
    BY DEF TypeOK
  <1>3. \E i \in mine : \A j \in mine : j <= i
    BY <1>1, <1>2, Greatest
  <1>4. Latest(s) \in mine /\ \A j \in mine : j <= Latest(s)
    BY <1>1, <1>3
  <1>5. QED
    BY <1>4 DEF IsLatest

\* A new upload has the next number, under its source.
LEMMA SubmitEffects ==
    ASSUME TypeOK, NEW h \in Handlers, NEW s \in Sources, StartSubmit(h, s)
    PROVE  /\ Only(h)
           /\ job'[h].phase = "stored" /\ job'[h].doc = Len(documents) + 1
           /\ \E page \in Page(points) :
                 job'[h].replaces = \E p \in page : SourceOf(p.doc) = s
           /\ documents' \in Seq([source : Sources, seeded : BOOLEAN])
           /\ Len(documents') <= MaxUploads
           /\ DOMAIN documents' = DOMAIN documents \union {Len(documents) + 1}
           /\ Len(documents) + 1 \notin DOMAIN documents
           /\ \A d \in DOMAIN documents : documents'[d] = documents[d]
           /\ documents'[Len(documents) + 1].source = s
           /\ Len(documents') = Len(documents) + 1
  <1> DEFINE new == [source |-> s, seeded |-> FALSE]
  <1>1. documents \in Seq([source : Sources, seeded : BOOLEAN]) /\ Len(documents) \in Nat
    BY DEF TypeOK
  <1>2. documents' = Append(documents, new) /\ Len(documents) < MaxUploads
    BY DEF StartSubmit
  <1>3. new \in [source : Sources, seeded : BOOLEAN] /\ new.source = s
    OBVIOUS
  <1> HIDE DEF new
  <1>4. /\ documents' \in Seq([source : Sources, seeded : BOOLEAN])
        /\ Len(documents') = Len(documents) + 1
        /\ DOMAIN documents' = DOMAIN documents \union {Len(documents) + 1}
        /\ Len(documents) + 1 \notin DOMAIN documents
        /\ \A d \in DOMAIN documents : documents'[d] = documents[d]
        /\ documents'[Len(documents) + 1] = new
    BY <1>1, <1>2, <1>3, Appends
  <1>5. PICK page \in Page(points) :
           job' = [job EXCEPT ![h] = [phase |-> "stored", doc |-> Len(documents) + 1, row |-> 0,
                                      replaces |-> \E p \in page : SourceOf(p.doc) = s,
                                      texts |-> {}]]
    BY DEF StartSubmit
  <1> DEFINE rep == \E p \in page : SourceOf(p.doc) = s
             j == [phase |-> "stored", doc |-> Len(documents) + 1, row |-> 0,
                   replaces |-> rep, texts |-> {}]
  <1>6. rep \in BOOLEAN
    OBVIOUS
  <1>7. Len(documents) + 1 \in 0..MaxUploads
    BY <1>1, <1>2, IngestionAssumption
  <1>8. j \in Job /\ job' = [job EXCEPT ![h] = j]
    BY <1>5, <1>6, <1>7 DEF Job, UploadPhases
  <1>9. j.phase = "stored" /\ j.doc = Len(documents) + 1 /\ j.replaces = rep
    OBVIOUS
  <1> HIDE DEF j, rep
  <1>10. Only(h) /\ job'[h] = j
    BY <1>8 DEF TypeOK, Only
  <1>11. \E p \in Page(points) : rep = \E q \in p : SourceOf(q.doc) = s
    BY <1>5 DEF rep
  <1>12. Len(documents') <= MaxUploads
    BY <1>1, <1>2, <1>4, IngestionAssumption
  <1>13. QED
    BY <1>3, <1>4, <1>9, <1>10, <1>11, <1>12

\* A decision is about the latest row of the source, and its document.
LEMMA DecisionEffects ==
    ASSUME TypeOK, NEW h \in Handlers, NEW s \in Sources, NEW x \in {"approving", "rejecting"},
           Latest(s) # 0,
           job' = [job EXCEPT ![h] = [phase |-> x, doc |-> rows[Latest(s)].doc,
                                      row |-> Latest(s), replaces |-> FALSE, texts |-> {}]]
    PROVE  /\ Only(h)
           /\ job'[h].phase = x /\ job'[h].row = Latest(s)
           /\ job'[h].doc = rows[Latest(s)].doc
           /\ job'[h].doc \in DOMAIN documents
  <1> DEFINE j == [phase |-> x, doc |-> rows[Latest(s)].doc,
                   row |-> Latest(s), replaces |-> FALSE, texts |-> {}]
  <1>1. Latest(s) \in DOMAIN rows /\ rows \in Seq(Row)
    BY LatestIsLast DEF TypeOK
  <1>2. rows[Latest(s)] \in Row /\ Latest(s) \in Nat
    BY <1>1, Elements
  <1>3. j \in Job
    BY <1>2, IngestionAssumption DEF Job, Row, Documents, ApprovePhases, RejectPhases
  <1>4. QED
    BY <1>1, <1>3 DEF TypeOK, Only

\* create_pending adds one row and leaves the others alone.
LEMMA RegisterEffects ==
    ASSUME TypeOK, NEW h \in Handlers, CreatePending(h)
    PROVE  LET new == Len(rows) + 1
           IN  /\ rows' \in Seq(Row)
               /\ DOMAIN rows' = DOMAIN rows \union {new} /\ new \notin DOMAIN rows
               /\ \A i \in DOMAIN rows : rows'[i] = rows[i] /\ i < new
               /\ rows'[new].doc = job[h].doc /\ rows'[new].status = "pending_scan"
               /\ ~rows'[new].approved /\ rows'[new].scanned = {}
  <1> DEFINE e == [doc |-> job[h].doc, status |-> "pending_scan",
                   approved |-> FALSE, scanned |-> {}]
  <1>1. job[h].phase = "registering" /\ rows' = Append(rows, e) /\ rows \in Seq(Row)
    BY DEF CreatePending, TypeOK
  <1>2. job[h].doc \in Documents
    BY <1>1, JobTypes
  <1>3. /\ e \in Row /\ e.doc = job[h].doc /\ e.status = "pending_scan" /\ ~e.approved
        /\ e.scanned = {}
    BY <1>2 DEF Row, Status
  <1> HIDE DEF e
  <1>4. QED
    BY <1>1, <1>3, Appends

-----------------------------------------------------------------------------
\* A step that ingests nothing keeps the types if it keeps those of what it writes.
LEMMA TypesOfAStep ==
    ASSUME TypeOK, NEW h \in Handlers, Only(h), UNCHANGED <<documents, file, reseeds>>,
           job'[h].phase # "idle" => job'[h].doc \in DOMAIN documents,
           job'[h].phase \in WithRow => job'[h].row \in DOMAIN rows',
           rows' \in Seq(Row), DOMAIN rows \subseteq DOMAIN rows',
           \A i \in DOMAIN rows' : rows'[i].doc \in DOMAIN documents,
           points' \subseteq Point, \A p \in points' : p.doc \in DOMAIN documents,
           strayed' \subseteq Sources
    PROVE  TypeOK'
  <1>1. \A g \in Handlers :
           /\ job'[g].phase # "idle" => job'[g].doc \in DOMAIN documents'
           /\ job'[g].phase \in WithRow => job'[g].row \in DOMAIN rows'
    BY OneJob
  <1>2. job' \in [Handlers -> Job]
    BY DEF Only
  <1>3. QED
    BY <1>1, <1>2 DEF TypeOK, WithRow

\* The chunks written are chunks of documents that exist.
LEMMA PointEffects ==
    ASSUME TypeOK, NEW h \in Handlers
    PROVE  /\ Upsert(h) => /\ points' \subseteq Point
                           /\ \A p \in points' : p.doc \in DOMAIN documents
           /\ Activate(h) => /\ points' \subseteq Point
                             /\ \A p \in points' : p.doc \in DOMAIN documents
  <1>1. Upsert(h) => job[h].doc \in Documents /\ job[h].doc \in DOMAIN documents
    BY JobTypes DEF Upsert
  <1>2. Upsert(h) => /\ points' \subseteq Point
                     /\ \A p \in points' : p.doc \in DOMAIN documents
    BY <1>1, ChunkTypes DEF Upsert, TypeOK
  <1>3. \A p \in Point : [p EXCEPT !.live = TRUE] \in Point /\ [p EXCEPT !.live = TRUE].doc = p.doc
    BY DEF Point
  <1>4. Activate(h) => /\ points' \subseteq Point
                       /\ \A p \in points' : p.doc \in DOMAIN documents
    <2>1. Activate(h) => \A p \in points' : \E q \in points : p = q \/ p = [q EXCEPT !.live = TRUE]
      BY DEF Activate, ChunksOf
    <2>2. points \subseteq Point /\ \A q \in points : q.doc \in DOMAIN documents
      BY DEF TypeOK
    <2>3. QED
      BY <1>3, <2>1, <2>2
  <1>5. QED
    BY <1>2, <1>4

\* Starting an upload keeps the types.
LEMMA SubmitTypes ==
    ASSUME TypeOK, NEW h \in Handlers, NEW s \in Sources, StartSubmit(h, s)
    PROVE  TypeOK'
  <1>1. UNCHANGED <<points, rows, reseeds>> /\ file' = file /\ strayed' \subseteq Sources
    BY DEF StartSubmit, Strays, TypeOK
  <1>2. Only(h) /\ job'[h].phase = "stored" /\ job'[h].doc \in DOMAIN documents'
    BY SubmitEffects
  <1>3. /\ DOMAIN documents \subseteq DOMAIN documents'
        /\ documents' \in Seq([source : Sources, seeded : BOOLEAN])
        /\ Len(documents') <= MaxUploads
        /\ Len(documents') = Len(documents) + 1
    BY SubmitEffects
  <1>4. \A g \in Handlers :
           /\ job'[g].phase # "idle" => job'[g].doc \in DOMAIN documents'
           /\ job'[g].phase \in WithRow => job'[g].row \in DOMAIN rows'
    BY <1>1, <1>2, <1>3, OneJob DEF WithRow, ApprovePhases, RejectPhases
  <1>5. file' \in [Sources -> 0..Len(documents')]
    BY <1>1, <1>3 DEF TypeOK
  <1>6. QED
    BY <1>1, <1>2, <1>3, <1>4, <1>5 DEF TypeOK, Only, WithRow

\* Every step of a request keeps the types.
LEMMA StepTypes ==
    ASSUME TypeOK, NEW h \in Handlers, SubmitStep(h) \/ DecisionStep(h) \/ Fail(h)
    PROVE  TypeOK'
  <1> USE DEF WithRow
  <1>a. /\ rows \in Seq(Row) /\ \A i \in DOMAIN rows : rows[i].doc \in DOMAIN documents
        /\ points \subseteq Point /\ \A p \in points : p.doc \in DOMAIN documents
        /\ strayed \subseteq Sources
        /\ job[h].phase \in WithRow => job[h].row \in DOMAIN rows
        /\ job[h].phase # "idle" => job[h].doc \in DOMAIN documents
    BY DEF TypeOK
  <1>1. CASE \E s \in Sources : StartSubmit(h, s)
    BY <1>1, SubmitTypes
  <1>2. CASE StoreFile(h)
    <2>1. /\ Goes(h, IF job[h].replaces THEN "deleting" ELSE "upserting")
          /\ job[h].phase = "stored" /\ UNCHANGED <<documents, points, rows, reseeds, strayed>>
          /\ file' = [file EXCEPT ![SourceOf(job[h].doc)] = job[h].doc]
      BY <1>2, JobEffects DEF StoreFile
    <2>2. \A g \in Handlers :
             /\ job'[g].phase # "idle" => job'[g].doc \in DOMAIN documents'
             /\ job'[g].phase \in WithRow => job'[g].row \in DOMAIN rows'
      BY <1>a, <2>1, OneJob DEF Goes, Keeps, ApprovePhases, RejectPhases
    <2>3. file' \in [Sources -> 0..Len(documents)]
      <3>1. SourceOf(job[h].doc) \in Sources /\ job[h].doc \in DOMAIN documents
        BY <2>1, JobTypes
      <3>2. DOMAIN documents = 1..Len(documents) /\ Len(documents) \in Nat
        BY DEF TypeOK
      <3>3. job[h].doc \in 0..Len(documents)
        BY <3>1, <3>2
      <3>4. QED
        BY <2>1, <3>1, <3>3 DEF TypeOK
    <2>4. QED
      BY <2>1, <2>2, <2>3 DEF TypeOK, Goes, Only
  <1>3. CASE DeleteReplaced(h) \/ Upsert(h)
    BY <1>3, <1>a, JobEffects, PointEffects, TypesOfAStep
       DEF DeleteReplaced, Upsert, Goes, Keeps, ApprovePhases, RejectPhases
  <1>4. CASE CreatePending(h)
    <2>1. UNCHANGED <<documents, points, file, reseeds, strayed>> /\ job[h].phase = "registering"
      BY <1>4 DEF CreatePending
    <2>2. /\ rows' \in Seq(Row) /\ DOMAIN rows' = DOMAIN rows \union {Len(rows) + 1}
          /\ \A i \in DOMAIN rows : rows'[i] = rows[i]
          /\ rows'[Len(rows) + 1].doc = job[h].doc
      BY <1>4, RegisterEffects
    <2>3. QED
      BY <1>4, <1>a, <2>1, <2>2, CreateEffects, TypesOfAStep
  <1>5. CASE ReadBack(h)
    BY <1>5, <1>a, ReadEffects, TypesOfAStep DEF ReadBack, Keeps
  <1>6. CASE RecordPassed(h) \/ RecordFailed(h) \/ ApproveRow(h) \/ MarkActive(h) \/ RejectRow(h)
    <2>1. /\ rows' \in Seq(Row) /\ DOMAIN rows' = DOMAIN rows
          /\ \A i \in DOMAIN rows : rows'[i].doc = rows[i].doc
      BY <1>6, RowEffects DEF Rewrites
    <2>2. /\ UNCHANGED <<documents, points, file, reseeds, strayed>>
          /\ job[h].phase \in WithRow /\ job[h].phase # "idle"
      BY <1>6 DEF RecordPassed, RecordFailed, ApproveRow, MarkActive, RejectRow,
                  ApprovePhases, RejectPhases
    <2>3. Ends(h) \/ \E x : Goes(h, x)
      BY <1>6, JobEffects
    <2>4. QED
      BY <1>a, <2>1, <2>2, <2>3, TypesOfAStep DEF Ends, Goes, Keeps, ApprovePhases, RejectPhases
  <1>7. CASE Purge(h) \/ Fail(h)
    <2>1. Ends(h) /\ UNCHANGED <<documents, rows, file, reseeds>>
      BY <1>7, JobEffects DEF Purge, Fail
    <2>2. points' \subseteq points
      BY <1>7 DEF Purge, Fail
    <2>3. strayed' \subseteq Sources
      BY <1>7, <1>a, JobTypes DEF Purge, Fail, Strays
    <2>4. QED
      BY <1>a, <2>1, <2>2, <2>3, TypesOfAStep DEF Ends, ApprovePhases, RejectPhases
  <1>8. CASE \E s \in Sources : StartApprove(h, s) \/ StartReject(h, s)
    <2>1. PICK s \in Sources : StartApprove(h, s) \/ StartReject(h, s)
      BY <1>8
    <2>2. /\ UNCHANGED <<documents, points, rows, file, reseeds>> /\ Latest(s) # 0
          /\ strayed' \subseteq Sources
      BY <2>1, <1>a DEF StartApprove, StartReject, Strays
    <2>3. Only(h) /\ job'[h].row = Latest(s) /\ job'[h].doc \in DOMAIN documents
      BY <2>1, DecisionEffects DEF StartApprove, StartReject
    <2>4. QED
      BY <1>a, <2>2, <2>3, LatestIsLast, TypesOfAStep
  <1>9. CASE Activate(h) \/ DeleteRejected(h)
    <2>1. /\ UNCHANGED <<documents, rows, file, reseeds, strayed>> /\ job[h].phase \in WithRow
          /\ job[h].phase # "idle"
          /\ points' \subseteq Point /\ \A p \in points' : p.doc \in DOMAIN documents
      BY <1>9, <1>a, PointEffects DEF Activate, DeleteRejected, ApprovePhases, RejectPhases
    <2>2. Goes(h, "marking") \/ Goes(h, "closing")
      BY <1>9, JobEffects
    <2>3. QED
      BY <1>a, <2>1, <2>2, TypesOfAStep DEF Goes, Keeps, ApprovePhases, RejectPhases
  <1>10. QED
    BY <1>1, <1>2, <1>3, <1>4, <1>5, <1>6, <1>7, <1>8, <1>9 DEF SubmitStep, DecisionStep

\* A run of seed_db.py keeps the types.
LEMMA ReseedTypes ==
    ASSUME TypeOK, NEW s \in Sources, Reseed(s)
    PROVE  TypeOK'
  <1>1. /\ UNCHANGED <<documents, rows, file, job>> /\ reseeds' = reseeds + 1
        /\ reseeds < MaxReseeds /\ file[s] # 0 /\ strayed' \subseteq Sources
        /\ points' = points \union Chunks(file[s], TRUE)
    BY DEF Reseed, Strays, TypeOK
  <1>2. file[s] \in DOMAIN documents /\ file[s] \in Documents
    BY <1>1, IngestionAssumption DEF TypeOK, Documents
  <1>3. points' \subseteq Point /\ \A p \in points' : p.doc \in DOMAIN documents
    BY <1>1, <1>2, ChunkTypes DEF TypeOK
  <1>4. QED
    <2>1. reseeds \in 0..MaxReseeds /\ MaxReseeds \in Nat
      BY IngestionAssumption DEF TypeOK
    <2>2. reseeds' \in 0..MaxReseeds
      BY <1>1, <2>1
    <2>3. QED
      BY <1>1, <1>3, <2>2 DEF TypeOK

\* The server starts with well-typed stores.
LEMMA InitTypes ==
    ASSUME Init
    PROVE  TypeOK
  <1>1. Cardinality(Seeded) \in Nat
    BY FS_CardinalityType, IngestionAssumption
  <1>2. /\ documents \in [1..Cardinality(Seeded) -> [source : Seeded, seeded : {TRUE}]]
        /\ \A s \in Seeded : \E d \in DOMAIN documents : documents[d].source = s
    BY DEF Init
  <1> DEFINE n == Cardinality(Seeded)
             Old == [source : Sources, seeded : BOOLEAN]
  <1>3. /\ documents \in Seq(Old) /\ Len(documents) = n
        /\ DOMAIN documents = 1..n /\ n <= MaxUploads /\ MaxUploads \in Nat
    <2>1. [source : Seeded, seeded : {TRUE}] \subseteq Old
      BY IngestionAssumption
    <2>2. documents \in [1..n -> Old]
      BY <1>2, <2>1
    <2> HIDE DEF Old
    <2>3. QED
      BY <1>1, <2>2, IngestionAssumption
  <1> HIDE DEF n
  <1>4. DOMAIN documents \subseteq Documents
    BY <1>1, <1>3 DEF Documents, n
  <1>5. points \subseteq Point /\ \A p \in points : p.doc \in DOMAIN documents
    <2>1. points = UNION {Chunks(d, TRUE) : d \in DOMAIN documents}
      BY DEF Init
    <2>2. \A d \in DOMAIN documents :
             Chunks(d, TRUE) \subseteq Point /\ \A p \in Chunks(d, TRUE) : p.doc = d
      BY <1>4, ChunkTypes
    <2>3. \A p \in points : \E d \in DOMAIN documents : p \in Chunks(d, TRUE)
      BY <2>1
    <2>4. QED
      BY <2>2, <2>3
  <1>6. \A s \in Seeded : (CHOOSE d \in DOMAIN documents : SourceOf(d) = s) \in 1..n
    BY <1>2, <1>3 DEF SourceOf
  <1>7. file \in [Sources -> 0..Len(documents)]
    <2>1. \A s \in Sources :
             (IF s \in Seeded THEN CHOOSE d \in DOMAIN documents : SourceOf(d) = s ELSE 0) \in 0..n
      BY <1>1, <1>6 DEF n
    <2>2. QED
      BY <1>3, <2>1 DEF Init
  <1>8. job \in [Handlers -> Job] /\ \A h \in Handlers : job[h].phase = "idle"
    BY IdleTypes DEF Init
  <1>9. /\ rows \in Seq(Row) /\ DOMAIN rows = {}
        /\ reseeds \in 0..MaxReseeds /\ strayed \subseteq Sources
    BY IngestionAssumption DEF Init
  <1>10. QED
    BY <1>3, <1>5, <1>7, <1>8, <1>9 DEF TypeOK, ApprovePhases, RejectPhases

\* So does nothing at all.
LEMMA StutterTypes == TypeOK /\ UNCHANGED vars => TypeOK'
  BY DEF TypeOK, vars

-----------------------------------------------------------------------------
\* A step that leaves the rows there were alone.
LEMMA RowsKept ==
    ASSUME TypeOK, Rows, NEW h \in Handlers, Only(h),
           \A i \in DOMAIN rows : i \in DOMAIN rows' /\ rows'[i] = rows[i],
           \A i \in DOMAIN rows' : i \notin DOMAIN rows => ~rows'[i].approved,
           RowKnown(job[h])',
           job'[h].phase \in Scanning => \A g \in Handlers :
               g # h /\ job[g].phase \in Scanning => job[g].row # job'[h].row
    PROVE  Rows'
  <1>1. ASSUME NEW g \in Handlers, g # h
        PROVE  RowKnown(job[g])'
    <2>1. job'[g] = job[g] /\ RowKnown(job[g])
      BY <1>1 DEF Only, Rows
    <2>2. job[g].phase \in WithRow => job[g].row \in DOMAIN rows
      BY DEF TypeOK, WithRow
    <2>3. QED
      BY <2>1, <2>2 DEF RowKnown, WithRow, Scanning, ApprovePhases, RejectPhases
  <1>2. \A g \in Handlers : RowKnown(job[g])'
    BY <1>1
  <1>3. QED
    BY <1>2 DEF Rows, Only

\* The update of a row: a scan result reaches a row nobody else is at work on, a decision
\* one that others can only decide as well.
LEMMA RowsRewritten ==
    ASSUME TypeOK, Rows, NEW h \in Handlers, Only(h), NEW status, Rewrites(h, status),
           \/ job[h].phase = "recording" /\ status \in {"scan_passed", "scan_failed"}
           \/ /\ job[h].phase \in ApprovePhases \union RejectPhases
              /\ status \in {"approved", "active", "rejected"},
           LET old == rows[job[h].row]
               new == rows'[job[h].row]
           IN  new.approved = old.approved \/ (new.approved /\ status = "approved"),
           RowKnown(job[h])', job'[h].phase \notin Scanning
    PROVE  Rows'
  <1> DEFINE i == job[h].row
  <1>1. /\ RowKnown(job[h]) /\ i \in DOMAIN rows
        /\ rows[i].approved => rows[i].status \in {"approved", "active", "rejected"}
    BY DEF Rows, Rewrites
  <1>2. ASSUME NEW g \in Handlers, g # h
        PROVE  RowKnown(job[g])'
    <2>1. job'[g] = job[g] /\ RowKnown(job[g])
      BY <1>2 DEF Only, Rows
    <2>2. job[g].phase \in WithRow => job[g].row \in DOMAIN rows
      BY DEF TypeOK, WithRow
    <2>3. CASE job[g].row # i
      BY <2>1, <2>2, <2>3 DEF RowKnown, WithRow, Scanning, ApprovePhases, RejectPhases, Rewrites
    <2>4. CASE job[g].row = i /\ job[h].phase = "recording"
      <3>1. job[g].phase \notin Scanning
        BY <1>2, <2>4 DEF Rows, Scanning
      <3>2. rows[i].status = "pending_scan"
        BY <1>1, <2>4 DEF RowKnown, WithRow, Scanning
      <3>3. job[g].phase \notin ApprovePhases \union RejectPhases
        BY <2>1, <2>4, <3>2 DEF RowKnown, WithRow, Decided
      <3>4. rows'[i].doc = rows[i].doc
        BY <1>1 DEF Rewrites
      <3>5. QED
        BY <2>1, <2>4, <3>1, <3>3, <3>4 DEF RowKnown, WithRow, Scanning, ApprovePhases
    <2>5. CASE job[g].row = i /\ job[h].phase \in ApprovePhases \union RejectPhases
      <3>1. rows[i].status # "pending_scan" /\ status \in {"approved", "active", "rejected"}
        BY <1>1, <2>5 DEF RowKnown, WithRow, Decided, ApprovePhases, RejectPhases
      <3>2. job[g].phase \notin Scanning
        BY <2>1, <2>5, <3>1 DEF RowKnown
      <3>3. /\ rows'[i].status = status /\ rows'[i].doc = rows[i].doc
            /\ rows[i].approved => rows'[i].approved
        BY <1>1 DEF Rewrites
      <3>4. QED
        BY <2>1, <2>5, <3>1, <3>2, <3>3 DEF RowKnown, WithRow, Decided, ApprovePhases, RejectPhases
    <2>6. QED
      BY <2>3, <2>4, <2>5
  <1>3. \A k \in DOMAIN rows' :
           rows'[k].approved => rows'[k].status \in {"approved", "active", "rejected"}
    <2>1. \A k \in DOMAIN rows : k # i => rows'[k] = rows[k]
      BY DEF Rewrites
    <2>2. job[h].phase = "recording" => ~rows[i].approved
      BY <1>1 DEF RowKnown, WithRow, Scanning
    <2>3. rows'[i].approved => rows'[i].status \in {"approved", "active", "rejected"}
      BY <2>2 DEF Rewrites
    <2>4. QED
      BY <2>1, <2>3 DEF Rewrites, Rows
  <1>4. \A g, k \in Handlers :
          g # k /\ job'[g].phase \in Scanning /\ job'[k].phase \in Scanning =>
              job'[g].row # job'[k].row
    BY DEF Rows, Only
  <1>5. \A g \in Handlers : RowKnown(job[g])'
    BY <1>2
  <1>6. QED
    BY <1>3, <1>4, <1>5 DEF Rows

\* A step that makes chunks searchable only under an approved row of their source.
LEMMA LiveKept ==
    ASSUME TypeOK, LiveHasApproval, reseeds' = reseeds,
           \A d \in DOMAIN documents : documents'[d] = documents[d],
           \A i \in DOMAIN rows : /\ i \in DOMAIN rows' /\ rows'[i].doc = rows[i].doc
                                  /\ rows[i].approved => rows'[i].approved,
           \A p \in points' : p.live => \E q \in points :
              /\ q.doc = p.doc
              /\ \/ q.live
                 \/ \E i \in DOMAIN rows : /\ SourceOf(rows[i].doc) = SourceOf(p.doc)
                                           /\ rows[i].approved
    PROVE  LiveHasApproval'
  <1>1. SUFFICES ASSUME reseeds' = 0, NEW p \in points', p.live
                 PROVE  \/ documents'[p.doc].seeded
                        \/ \E i \in DOMAIN rows' : /\ SourceOf(rows[i].doc)' = SourceOf(p.doc)'
                                                   /\ rows'[i].approved
    BY DEF LiveHasApproval
  <1>2. PICK q \in points : /\ q.doc = p.doc
                            /\ \/ q.live
                               \/ \E i \in DOMAIN rows : /\ SourceOf(rows[i].doc) = SourceOf(p.doc)
                                                         /\ rows[i].approved
    BY <1>1
  <1>3. p.doc \in DOMAIN documents /\ documents'[p.doc] = documents[p.doc]
    BY <1>2 DEF TypeOK
  <1>4. CASE documents[p.doc].seeded
    BY <1>3, <1>4
  <1>5. ASSUME NEW i \in DOMAIN rows, SourceOf(rows[i].doc) = SourceOf(p.doc), rows[i].approved
        PROVE  \E k \in DOMAIN rows' : /\ SourceOf(rows[k].doc)' = SourceOf(p.doc)'
                                       /\ rows'[k].approved
    <2>1. rows[i].doc \in DOMAIN documents
      BY DEF TypeOK
    <2>2. SourceOf(rows[i].doc)' = SourceOf(p.doc)' /\ rows'[i].approved /\ i \in DOMAIN rows'
      BY <1>3, <1>5, <2>1 DEF SourceOf
    <2>3. QED
      BY <2>2
  <1>6. QED
    BY <1>1, <1>2, <1>4, <1>5 DEF LiveHasApproval

\* A new request, or one that goes on without touching its row.
LEMMA QuietRows ==
    ASSUME TypeOK, Rows, NEW h \in Handlers, rows' = rows,
           \/ \E s \in Sources : StartSubmit(h, s) \/ StartApprove(h, s) \/ StartReject(h, s)
           \/ StoreFile(h) \/ DeleteReplaced(h) \/ Upsert(h) \/ Purge(h) \/ Activate(h)
           \/ DeleteRejected(h) \/ ReadBack(h) \/ Fail(h)
    PROVE  Rows'
  <1>a. RowKnown(job[h]) /\ rows' = rows
    BY DEF Rows
  <1>1. CASE \E s \in Sources : StartSubmit(h, s)
    <2>1. Only(h) /\ job'[h].phase = "stored"
      BY <1>1, SubmitEffects
    <2>2. RowKnown(job[h])'
      BY <2>1 DEF RowKnown, WithRow, Scanning, ApprovePhases, RejectPhases
    <2>3. QED
      BY <1>a, <2>1, <2>2, RowsKept DEF Scanning
  <1>2. CASE \E s \in Sources : StartApprove(h, s)
    <2>1. PICK s \in Sources : StartApprove(h, s)
      BY <1>2
    <2>2. /\ Only(h) /\ job'[h].phase = "approving" /\ job'[h].row = Latest(s)
          /\ job'[h].doc = rows[Latest(s)].doc /\ rows[Latest(s)].status = "scan_passed"
      BY <2>1, DecisionEffects DEF StartApprove, Approvable
    <2>3. RowKnown(job[h])'
      BY <1>a, <2>2 DEF RowKnown, WithRow, Scanning, Decided, ApprovePhases, RejectPhases
    <2>4. QED
      BY <1>a, <2>2, <2>3, RowsKept DEF Scanning
  <1>3. CASE \E s \in Sources : StartReject(h, s)
    <2>1. PICK s \in Sources : StartReject(h, s)
      BY <1>3
    <2>2. /\ Only(h) /\ job'[h].phase = "rejecting" /\ job'[h].row = Latest(s)
          /\ job'[h].doc = rows[Latest(s)].doc
          /\ rows[Latest(s)].status \in {"scan_passed", "scan_failed"}
      BY <2>1, DecisionEffects DEF StartReject, Rejectable
    <2>3. RowKnown(job[h])'
      BY <1>a, <2>2 DEF RowKnown, WithRow, Scanning, ApprovePhases, RejectPhases
    <2>4. QED
      BY <1>a, <2>2, <2>3, RowsKept DEF Scanning
  <1>4. CASE StoreFile(h) \/ DeleteReplaced(h) \/ Upsert(h)
    <2>1. Only(h) /\ job'[h].phase \in {"deleting", "upserting", "registering"}
      BY <1>4, JobEffects DEF Goes
    <2>2. RowKnown(job[h])'
      BY <2>1 DEF RowKnown, WithRow, Scanning, ApprovePhases, RejectPhases
    <2>3. QED
      BY <1>a, <2>1, <2>2, RowsKept DEF Scanning
  <1>5. CASE Purge(h) \/ Fail(h)
    <2>1. Only(h) /\ job'[h].phase = "idle"
      BY <1>5, JobEffects DEF Ends
    <2>2. RowKnown(job[h])'
      BY <2>1 DEF RowKnown, WithRow, Scanning, ApprovePhases, RejectPhases
    <2>3. QED
      BY <1>a, <2>1, <2>2, RowsKept DEF Scanning
  <1>6. CASE Activate(h)
    <2>1. Goes(h, "marking") /\ job[h].phase = "activating"
      BY <1>6, JobEffects DEF Activate
    <2>2. RowKnown(job[h])'
      BY <1>a, <2>1 DEF RowKnown, WithRow, Scanning, ApprovePhases, RejectPhases, Goes, Keeps
    <2>3. QED
      BY <1>a, <2>1, <2>2, RowsKept DEF Scanning, Goes
  <1>7. CASE DeleteRejected(h)
    <2>1. Goes(h, "closing") /\ job[h].phase = "rejecting"
      BY <1>7, JobEffects DEF DeleteRejected
    <2>2. RowKnown(job[h])'
      BY <1>a, <2>1 DEF RowKnown, WithRow, Scanning, ApprovePhases, RejectPhases, Goes, Keeps
    <2>3. QED
      BY <1>a, <2>1, <2>2, RowsKept DEF Scanning, Goes
  <1>8. CASE ReadBack(h)
    <2>1. /\ Only(h) /\ Keeps(h) /\ job'[h].phase = "recording" /\ job[h].phase = "scanning"
      BY <1>8, ReadEffects DEF ReadBack
    <2>2. RowKnown(job[h])'
      BY <1>a, <2>1 DEF RowKnown, WithRow, Scanning, ApprovePhases, RejectPhases, Keeps
    <2>3. \A g \in Handlers :
             g # h /\ job[g].phase \in Scanning => job[g].row # job'[h].row
      BY <2>1 DEF Rows, Scanning, Keeps
    <2>4. QED
      BY <1>a, <2>1, <2>2, <2>3, RowsKept
  <1>9. QED
    BY <1>1, <1>2, <1>3, <1>4, <1>5, <1>6, <1>7, <1>8

\* A new row is pending and nobody else's.
LEMMA RegisterRows ==
    ASSUME TypeOK, Rows, NEW h \in Handlers, CreatePending(h)
    PROVE  Rows'
  <1>1. /\ Only(h) /\ job'[h].phase = "scanning" /\ job'[h].row = Len(rows) + 1
        /\ job'[h].doc = job[h].doc
    BY CreateEffects
  <1>2. /\ DOMAIN rows' = DOMAIN rows \union {Len(rows) + 1} /\ Len(rows) + 1 \notin DOMAIN rows
        /\ \A i \in DOMAIN rows : rows'[i] = rows[i]
        /\ rows'[Len(rows) + 1].status = "pending_scan" /\ ~rows'[Len(rows) + 1].approved
        /\ rows'[Len(rows) + 1].doc = job[h].doc
    BY RegisterEffects
  <1>3. RowKnown(job[h])'
    BY <1>1, <1>2 DEF RowKnown, WithRow, ApprovePhases, RejectPhases
  <1>4. \A g \in Handlers : job[g].phase \in Scanning => job[g].row # job'[h].row
    BY <1>1, <1>2 DEF TypeOK, Scanning
  <1>5. QED
    BY <1>1, <1>2, <1>3, <1>4, RowsKept

\* The updates of rows keep what requests know of them, approved_by, and failed scans.
LEMMA DecidedRows ==
    ASSUME TypeOK, Rows, NEW h \in Handlers,
           RecordPassed(h) \/ RecordFailed(h) \/ ApproveRow(h) \/ MarkActive(h) \/ RejectRow(h)
    PROVE  /\ Rows'
           /\ \A i \in DOMAIN rows : /\ i \in DOMAIN rows' /\ rows'[i].doc = rows[i].doc
                                     /\ rows[i].approved => rows'[i].approved
           /\ \A i \in DOMAIN rows : rows[i].status = "scan_failed" =>
                                        rows'[i].status \in {"scan_failed", "rejected"}
  <1> DEFINE i == job[h].row
  <1>a. RowKnown(job[h])
    BY DEF Rows
  <1>1. CASE RecordPassed(h) \/ RecordFailed(h)
    <2>1. PICK status \in {"scan_passed", "scan_failed"} :
             Rewrites(h, status) /\ rows'[i].approved = rows[i].approved
      BY <1>1, RowEffects
    <2>2. /\ job[h].phase = "recording" /\ Only(h) /\ job'[h].phase \in {"idle", "purging"}
          /\ job'[h].phase = "purging" => Keeps(h)
      BY <1>1, JobEffects DEF RecordPassed, RecordFailed, Ends, Goes
    <2>3. RowKnown(job[h])'
      BY <1>a, <2>1, <2>2
         DEF RowKnown, WithRow, Scanning, ApprovePhases, RejectPhases, Keeps, Rewrites
    <2>4. Rows'
      BY <2>1, <2>2, <2>3, RowsRewritten DEF Scanning
    <2>5. rows[i].status = "pending_scan"
      BY <1>a, <2>2 DEF RowKnown, WithRow, Scanning
    <2>6. QED
      BY <2>1, <2>4, <2>5 DEF Rewrites
  <1>2. CASE ApproveRow(h) \/ MarkActive(h)
    <2>1. PICK status \in {"approved", "active"} :
             /\ Rewrites(h, status)
             /\ rows'[i].approved = rows[i].approved \/ (rows'[i].approved /\ status = "approved")
             /\ ApproveRow(h) => rows'[i].approved
      BY <1>2, RowEffects
    <2>2. /\ job[h].phase \in ApprovePhases /\ Only(h) /\ job'[h].phase \in {"idle", "activating"}
          /\ job'[h].phase = "activating" => Keeps(h) /\ ApproveRow(h)
      BY <1>2, JobEffects DEF ApproveRow, MarkActive, Ends, Goes, ApprovePhases
    <2>3. rows[i].status \in Decided /\ rows[i].doc = job[h].doc
      BY <1>a, <2>2 DEF RowKnown, WithRow
    <2>4. RowKnown(job[h])'
      BY <2>1, <2>2, <2>3
         DEF RowKnown, WithRow, Scanning, ApprovePhases, RejectPhases, Keeps, Rewrites, Decided
    <2>5. Rows'
      BY <2>1, <2>2, <2>4, RowsRewritten DEF Scanning
    <2>6. QED
      BY <2>1, <2>3, <2>5 DEF Rewrites, Decided
  <1>3. CASE RejectRow(h)
    <2>1. Rewrites(h, "rejected") /\ rows'[i].approved = rows[i].approved
      BY <1>3, RowEffects
    <2>2. job[h].phase = "closing" /\ Only(h) /\ job'[h].phase = "idle"
      BY <1>3, JobEffects DEF RejectRow, Ends
    <2>3. RowKnown(job[h])'
      BY <2>2 DEF RowKnown, WithRow, Scanning, ApprovePhases, RejectPhases
    <2>4. Rows'
      BY <2>1, <2>2, <2>3, RowsRewritten DEF Scanning, RejectPhases
    <2>5. QED
      BY <2>1, <2>4 DEF Rewrites
  <1>4. QED
    BY <1>1, <1>2, <1>3

\* Every step of a request keeps the searchable chunks approved.
LEMMA QuietLive ==
    ASSUME TypeOK, Rows, LiveHasApproval, NEW h \in Handlers,
           SubmitStep(h) \/ DecisionStep(h) \/ Fail(h)
    PROVE  LiveHasApproval'
  <1>1. CASE \E s \in Sources : StartSubmit(h, s)
    <2>1. /\ points' = points /\ rows' = rows /\ reseeds' = reseeds
          /\ \A d \in DOMAIN documents : documents'[d] = documents[d]
      BY <1>1, SubmitEffects DEF StartSubmit
    <2>2. QED
      BY <2>1, LiveKept
  <1>2. CASE \/ StoreFile(h) \/ ReadBack(h) \/ Fail(h) \/ Purge(h) \/ DeleteReplaced(h)
             \/ DeleteRejected(h) \/ \E s \in Sources : StartApprove(h, s) \/ StartReject(h, s)
    <2>1. points' \subseteq points /\ rows' = rows /\ reseeds' = reseeds /\ documents' = documents
      BY <1>2 DEF StoreFile, ReadBack, Fail, Purge, DeleteReplaced, DeleteRejected,
                  StartApprove, StartReject
    <2>2. QED
      BY <2>1, LiveKept
  <1>3. CASE Upsert(h)
    <2>1. job[h].doc \in Documents
      BY <1>3, JobTypes DEF Upsert
    <2>2. \A p \in points' : p.live => p \in points
      BY <1>3, <2>1, ChunkTypes DEF Upsert
    <2>3. rows' = rows /\ reseeds' = reseeds /\ documents' = documents
      BY <1>3 DEF Upsert
    <2>4. QED
      BY <2>2, <2>3, LiveKept
  <1>4. CASE CreatePending(h)
    <2>1. points' = points /\ reseeds' = reseeds /\ documents' = documents
      BY <1>4 DEF CreatePending
    <2>2. \A i \in DOMAIN rows : i \in DOMAIN rows' /\ rows'[i] = rows[i]
      BY <1>4, RegisterEffects
    <2>3. QED
      BY <2>1, <2>2, LiveKept
  <1>5. CASE RecordPassed(h) \/ RecordFailed(h) \/ ApproveRow(h) \/ MarkActive(h) \/ RejectRow(h)
    <2>1. points' = points /\ reseeds' = reseeds /\ documents' = documents
      BY <1>5 DEF RecordPassed, RecordFailed, ApproveRow, MarkActive, RejectRow
    <2>2. QED
      BY <1>5, <2>1, DecidedRows, LiveKept
  <1>6. CASE Activate(h)
    <2>1. job[h].phase = "activating" /\ UNCHANGED <<documents, rows, reseeds>>
      BY <1>6 DEF Activate
    <2>2. \A p \in points' : p \in points \/ \E q \in ChunksOf(SourceOf(job[h].doc)) :
                                                p = [q EXCEPT !.live = TRUE]
      BY <1>6 DEF Activate
    <2>3. /\ job[h].row \in DOMAIN rows /\ rows[job[h].row].approved
          /\ rows[job[h].row].doc = job[h].doc
      BY <2>1 DEF TypeOK, Rows, RowKnown, WithRow, ApprovePhases
    <2>4. \A q \in points : [q EXCEPT !.live = TRUE].doc = q.doc
      BY DEF TypeOK, Point
    <2>5. ASSUME NEW p \in points', p.live
          PROVE  \E q \in points :
              /\ q.doc = p.doc
              /\ \/ q.live
                 \/ \E i \in DOMAIN rows : /\ SourceOf(rows[i].doc) = SourceOf(p.doc)
                                           /\ rows[i].approved
      <3>1. CASE p \in points
        BY <2>5, <3>1
      <3>2. ASSUME NEW q \in ChunksOf(SourceOf(job[h].doc)), p = [q EXCEPT !.live = TRUE]
            PROVE  \E r \in points :
              /\ r.doc = p.doc
              /\ \/ r.live
                 \/ \E i \in DOMAIN rows : /\ SourceOf(rows[i].doc) = SourceOf(p.doc)
                                           /\ rows[i].approved
        <4>1. q \in points /\ SourceOf(q.doc) = SourceOf(job[h].doc) /\ q.doc = p.doc
          BY <2>4, <3>2 DEF ChunksOf
        <4>2. QED
          BY <2>3, <4>1
      <3>3. QED
        BY <2>2, <3>1, <3>2
    <2>6. QED
      BY <2>1, <2>5, LiveKept
  <1>7. QED
    BY <1>1, <1>2, <1>3, <1>4, <1>5, <1>6 DEF SubmitStep, DecisionStep

\* The first invariant is inductive, and failed scans stay failed.
LEMMA NextApprovals ==
    ASSUME Approvals, [Next]_vars
    PROVE  /\ Approvals'
           /\ \A i \in DOMAIN rows :
                 rows[i].status = "scan_failed" => rows'[i].status \in {"scan_failed", "rejected"}
  <1> USE DEF Approvals
  <1>1. CASE UNCHANGED vars
    BY <1>1, StutterTypes DEF vars, Rows, RowKnown, LiveHasApproval, SourceOf
  <1>2. ASSUME NEW s \in Sources, Reseed(s)
        PROVE  /\ Approvals'
           /\ \A i \in DOMAIN rows :
                 rows[i].status = "scan_failed" => rows'[i].status \in {"scan_failed", "rejected"}
    <2>1. reseeds' = reseeds + 1 /\ UNCHANGED <<rows, job>>
      BY <1>2 DEF Reseed
    <2>2. reseeds' # 0
      BY <2>1, IngestionAssumption DEF TypeOK
    <2>3. QED
      BY <1>2, <2>1, <2>2, ReseedTypes DEF Rows, RowKnown, LiveHasApproval
  <1>3. ASSUME NEW h \in Handlers, SubmitStep(h) \/ DecisionStep(h) \/ Fail(h)
        PROVE  /\ Approvals'
           /\ \A i \in DOMAIN rows :
                 rows[i].status = "scan_failed" => rows'[i].status \in {"scan_failed", "rejected"}
    <2>1. TypeOK' /\ LiveHasApproval'
      BY <1>3, StepTypes, QuietLive
    <2>2. CASE \/ \E s \in Sources : StartSubmit(h, s) \/ StartApprove(h, s) \/ StartReject(h, s)
               \/ StoreFile(h) \/ DeleteReplaced(h) \/ Upsert(h) \/ Purge(h) \/ Activate(h)
               \/ DeleteRejected(h) \/ ReadBack(h) \/ Fail(h)
      <3>1. rows' = rows
        BY <2>2 DEF StartSubmit, StartApprove, StartReject, StoreFile, DeleteReplaced, Upsert,
                    Purge, Activate, DeleteRejected, ReadBack, Fail
      <3>2. QED
        BY <2>1, <2>2, <3>1, QuietRows
    <2>3. CASE CreatePending(h)
      <3>1. \A i \in DOMAIN rows : rows'[i] = rows[i]
        BY <2>3, RegisterEffects
      <3>2. QED
        BY <2>1, <2>3, <3>1, RegisterRows
    <2>4. CASE RecordPassed(h) \/ RecordFailed(h) \/ ApproveRow(h) \/ MarkActive(h) \/ RejectRow(h)
      BY <2>1, <2>4, DecidedRows
    <2>5. QED
      BY <1>3, <2>2, <2>3, <2>4 DEF SubmitStep, DecisionStep
  <1>4. QED
    BY <1>1, <1>2, <1>3 DEF Next

\* Nothing is uploaded, and what is searchable was seeded.
LEMMA InitApprovals == Init => Approvals
  <1>1. ASSUME Init
        PROVE  Rows /\ LiveHasApproval
    <2>1. TypeOK
      BY <1>1, InitTypes
    <2>2. DOMAIN rows = {} /\ \A h \in Handlers : job[h].phase = "idle"
      BY <1>1 DEF Init, Idle
    <2>3. Rows
      BY <2>2 DEF Rows, RowKnown, WithRow, Scanning, ApprovePhases, RejectPhases
    <2>4. \A d \in DOMAIN documents : documents[d].seeded
      BY <1>1 DEF Init
    <2>5. QED
      BY <2>1, <2>3, <2>4 DEF LiveHasApproval, TypeOK
  <1>2. QED
    BY <1>1, InitTypes DEF Approvals

\* The requests and their rows stay in step, whatever overlaps or fails.
THEOREM ApprovalsInvariance == Spec => []Approvals
  BY InitApprovals, NextApprovals, PTL DEF Spec

\* Documents, chunks, rows and requests keep their shapes.
THEOREM TypeCorrect == Spec => []TypeOK
  BY ApprovalsInvariance, PTL DEF Approvals

\* Nothing of an uploaded source is searchable before an admin approved an upload of it
\* (approve, set_ingestion_status).
THEOREM NothingLiveUnapproved == Spec => []LiveHasApproval
  BY ApprovalsInvariance, PTL DEF Approvals

\* None of the unconditional row updates gets a row out of scan_failed but a rejection.
THEOREM FailedScansStayFailed == Spec => FailedStaysFailed
  <1>1. Approvals /\ [Next]_vars =>
           [\A i \in DOMAIN rows : rows[i].status = "scan_failed" =>
              rows'[i].status \in {"scan_failed", "rejected"}]_vars
    BY NextApprovals
  <1>2. QED
    BY <1>1, ApprovalsInvariance, PTL DEF Spec, FailedStaysFailed

-----------------------------------------------------------------------------
\* The chunks of another source are where they were.
LEMMA OtherChunks ==
    ASSUME TypeOK, NEW s, Around(s), NEW t, t # s
    PROVE  ChunksOf(t)' = ChunksOf(t)
  <1>1. ASSUME NEW p \in points
        PROVE  p.doc \in DOMAIN documents /\ documents'[p.doc] = documents[p.doc]
    BY DEF TypeOK, Around
  <1>2. ASSUME NEW p \in ChunksOf(t)'
        PROVE  p \in ChunksOf(t)
    <2>1. p \in points' /\ documents'[p.doc].source = t
      BY <1>2 DEF ChunksOf, SourceOf
    <2>2. p \in points
      BY <2>1 DEF Around
    <2>3. QED
      BY <1>1, <2>1, <2>2 DEF ChunksOf, SourceOf
  <1>3. ASSUME NEW p \in ChunksOf(t)
        PROVE  p \in ChunksOf(t)'
    <2>1. p \in points /\ SourceOf(p.doc) = t
      BY <1>3 DEF ChunksOf
    <2>2. p \in points' /\ documents'[p.doc] = documents[p.doc]
      BY <1>1, <2>1 DEF Around
    <2>3. QED
      BY <2>1, <2>2 DEF ChunksOf, SourceOf
  <1>4. QED
    BY <1>2, <1>3

\* Requests on another source go on as they were.
LEMMA OtherRequests ==
    ASSUME TypeOK, NEW s, Around(s), NEW t, t # s, NEW h \in Handlers
    PROVE  /\ On(h, t)' => On(h, t)
           /\ On(h, t) => On(h, t)' /\ job'[h] = job[h]
  <1>1. job[h].phase # "idle" =>
           job[h].doc \in DOMAIN documents /\ documents'[job[h].doc] = documents[job[h].doc]
    BY DEF TypeOK, Around
  <1>2. \/ job'[h] = job[h]
        \/ /\ job[h].phase # "idle" => SourceOf(job[h].doc) = s
           /\ job'[h].phase # "idle" => documents'[job'[h].doc].source = s
    BY DEF Around
  <1>3. QED
    BY <1>1, <1>2 DEF On, SourceOf

\* The rows of another source are as they were.
LEMMA OtherRows ==
    ASSUME TypeOK, NEW s, Around(s), NEW t, t # s
    PROVE  /\ \A i \in DOMAIN rows : SourceOf(rows[i].doc) = t =>
                 i \in DOMAIN rows' /\ rows'[i] = rows[i] /\ SourceOf(rows[i].doc)' = t
           /\ \A i \in DOMAIN rows' : SourceOf(rows[i].doc)' = t =>
                 i \in DOMAIN rows /\ rows'[i] = rows[i] /\ SourceOf(rows[i].doc) = t
           /\ \A i : IsLatest(i, t)' <=> IsLatest(i, t)
  <1>1. \A i \in DOMAIN rows :
           rows[i].doc \in DOMAIN documents /\ documents'[rows[i].doc] = documents[rows[i].doc]
    BY DEF TypeOK, Around
  <1>2. \A i \in DOMAIN rows : SourceOf(rows[i].doc) = t =>
                 i \in DOMAIN rows' /\ rows'[i] = rows[i] /\ SourceOf(rows[i].doc)' = t
    BY <1>1 DEF Around, SourceOf
  <1>3. \A i \in DOMAIN rows' : SourceOf(rows[i].doc)' = t =>
                 i \in DOMAIN rows /\ rows'[i] = rows[i] /\ SourceOf(rows[i].doc) = t
    BY <1>1 DEF Around, SourceOf
  <1>4. QED
    BY <1>2, <1>3 DEF IsLatest

\* The turn of another source is not disturbed.
LEMMA OthersKeepTurns ==
    ASSUME TypeOK, Rows, NEW s, Around(s), NEW t, t # s, TurnOf(t)
    PROVE  TurnOf(t)'
  <1>1. ChunksOf(t)' = ChunksOf(t)
    BY OtherChunks
  <1>2. \A g, h \in Handlers : On(g, t)' /\ On(h, t)' => g = h
    BY OtherRequests DEF TurnOf
  <1>3. ASSUME NEW h \in Handlers, On(h, t)'
        PROVE  ChunksKnown(job[h], t)'
    <2>1. job'[h] = job[h] /\ On(h, t) /\ ChunksKnown(job[h], t)
      BY <1>3, OtherRequests DEF TurnOf
    <2>2. job[h].phase \in WithRow => job[h].row \in DOMAIN rows
      BY DEF TypeOK, WithRow
    <2>3. job[h].phase \in WithRow => rows[job[h].row].doc = job[h].doc
      BY DEF Rows, RowKnown
    <2>4. job[h].phase \in Scanning \union ApprovePhases =>
             SourceOf(rows[job[h].row].doc) = t /\ rows'[job[h].row] = rows[job[h].row]
      BY <2>1, <2>2, <2>3, OtherRows DEF On, ChunksKnown, Scanning, WithRow
    <2>5. job[h].phase \in Scanning => SourceOf(rows[job[h].row].doc)' = t
      BY <2>1, <2>2, <2>4, OtherRows DEF Scanning, WithRow, SourceOf
    <2>6. QED
      <3>1. (IsLatest(job[h].row, t))' <=> IsLatest(job[h].row, t)
        BY <2>1, OtherRows
      <3>2. QED
        BY <1>1, <2>1, <2>4, <2>5, <3>1 DEF ChunksKnown, ScannedBy, ApprovePhases
  <1>4. Settled(t)'
    <2>1. SUFFICES ASSUME ~\E h \in Handlers : job'[h].phase = "registering" /\ On(h, t)',
                          NEW i \in DOMAIN rows', SourceOf(rows[i].doc)' = t, IsLatest(i, t)',
                          rows'[i].status = "scan_passed"
                   PROVE  ScannedBy(t, rows[i].scanned)'
      BY DEF Settled
    <2>2. ~\E h \in Handlers : job[h].phase = "registering" /\ On(h, t)
      BY <2>1, OtherRequests
    <2>3. i \in DOMAIN rows /\ rows'[i] = rows[i] /\ SourceOf(rows[i].doc) = t /\ IsLatest(i, t)
      BY <2>1, OtherRows
    <2>4. ScannedBy(t, rows[i].scanned)
      BY <2>1, <2>2, <2>3 DEF TurnOf, Settled
    <2>5. QED
      BY <1>1, <2>3, <2>4 DEF ScannedBy
  <1>5. ASSUME NEW p \in ChunksOf(t), p.live
        PROVE  Vetted(p)'
    <2>1. Vetted(p) /\ p.doc \in DOMAIN documents
      BY <1>5 DEF TurnOf, ChunksOf, TypeOK
    <2>2. QED
      BY <2>1 DEF Vetted, Around
  <1>6. QED
    BY <1>1, <1>2, <1>3, <1>4, <1>5 DEF TurnOf

-----------------------------------------------------------------------------
\* What a request that is under way does concerns its own source.
LEMMA OwnJob ==
    ASSUME TypeOK, NEW h \in Handlers, GoesOn(h)
    PROVE  /\ Only(h) /\ documents' = documents /\ strayed \subseteq strayed'
           /\ job[h].phase # "idle"
           /\ job'[h].phase # "idle" => job'[h].doc = job[h].doc
  <1>1. CASE CreatePending(h)
    BY <1>1, CreateEffects DEF CreatePending
  <1>2. CASE ReadBack(h)
    BY <1>2, ReadEffects DEF ReadBack, Keeps
  <1>3. CASE StoreFile(h) \/ DeleteReplaced(h) \/ Upsert(h) \/ DeleteRejected(h) \/ Activate(h)
             \/ RecordFailed(h) \/ ApproveRow(h)
    <2>1. \E x : Goes(h, x)
      BY <1>3, JobEffects
    <2>2. /\ documents' = documents /\ strayed' = strayed /\ job[h].phase # "idle"
      BY <1>3 DEF StoreFile, DeleteReplaced, Upsert, DeleteRejected, Activate, RecordFailed,
                  ApproveRow
    <2>3. QED
      BY <2>1, <2>2 DEF Goes, Keeps
  <1>4. CASE RecordPassed(h) \/ Purge(h) \/ MarkActive(h) \/ RejectRow(h) \/ Fail(h)
    <2>1. Ends(h)
      BY <1>4, JobEffects
    <2>2. /\ documents' = documents /\ strayed \subseteq strayed' /\ job[h].phase # "idle"
      BY <1>4 DEF RecordPassed, Purge, MarkActive, RejectRow, Fail, Strays
    <2>3. QED
      BY <2>1, <2>2 DEF Ends
  <1>5. QED
    BY <1>1, <1>2, <1>3, <1>4 DEF GoesOn

\* The chunks that come or go are of the request's source.
LEMMA OwnPoints ==
    ASSUME TypeOK, NEW h \in Handlers, NEW s, On(h, s), GoesOn(h)
    PROVE  /\ \A p \in points : p \in points' \/ SourceOf(p.doc) = s
           /\ \A p \in points' : p \in points \/ SourceOf(p.doc) = s
  <1>1. SourceOf(job[h].doc) = s /\ job[h].doc \in Documents
    BY JobTypes DEF On
  <1>2. CASE DeleteReplaced(h) \/ Purge(h) \/ DeleteRejected(h)
    BY <1>1, <1>2 DEF DeleteReplaced, Purge, DeleteRejected, ChunksOf
  <1>3. CASE Upsert(h)
    BY <1>1, <1>3, ChunkTypes DEF Upsert
  <1>4. CASE Activate(h)
    <2>1. \A p \in points : [p EXCEPT !.live = TRUE].doc = p.doc
      BY DEF TypeOK, Point
    <2>2. QED
      BY <1>1, <1>4, <2>1 DEF Activate, ChunksOf
  <1>5. CASE ~(DeleteReplaced(h) \/ Purge(h) \/ DeleteRejected(h) \/ Upsert(h) \/ Activate(h))
    <2>1. points' = points
      BY <1>5 DEF GoesOn, StoreFile, CreatePending, ReadBack, RecordPassed, RecordFailed,
                  ApproveRow, MarkActive, RejectRow, Fail
    <2>2. QED
      BY <2>1
  <1>6. QED
    BY <1>2, <1>3, <1>4, <1>5

\* The row that comes or changes is of the request's source.
LEMMA OwnRows ==
    ASSUME TypeOK, Rows, NEW h \in Handlers, NEW s, On(h, s), GoesOn(h)
    PROVE  /\ \A i \in DOMAIN rows :
                 /\ i \in DOMAIN rows' /\ rows'[i].doc = rows[i].doc
                 /\ rows'[i] = rows[i] \/ SourceOf(rows[i].doc) = s
                 /\ rows[i].approved => rows'[i].approved /\ rows'[i].scanned = rows[i].scanned
           /\ \A i \in DOMAIN rows' : i \in DOMAIN rows \/ SourceOf(rows'[i].doc) = s
  <1>1. SourceOf(job[h].doc) = s /\ RowKnown(job[h])
    BY DEF On, Rows
  <1>2. CASE CreatePending(h)
    BY <1>1, <1>2, RegisterEffects
  <1>3. CASE RecordPassed(h) \/ RecordFailed(h)
    <2>1. \E status : Rewrites(h, status) /\ rows'[job[h].row].approved = rows[job[h].row].approved
      BY <1>3, RowEffects
    <2>2. job[h].phase = "recording"
      BY <1>3 DEF RecordPassed, RecordFailed
    <2>3. /\ rows[job[h].row].status = "pending_scan" /\ rows[job[h].row].doc = job[h].doc
          /\ job[h].row \in DOMAIN rows
      BY <1>1, <2>1, <2>2 DEF RowKnown, WithRow, Scanning, Rewrites
    <2>4. ~rows[job[h].row].approved
      BY <2>3 DEF Rows
    <2>5. QED
      BY <1>1, <2>1, <2>3, <2>4 DEF Rewrites
  <1>4. CASE ApproveRow(h) \/ MarkActive(h) \/ RejectRow(h)
    <2>1. \E status : /\ Rewrites(h, status)
                      /\ rows'[job[h].row].scanned = rows[job[h].row].scanned
                      /\ rows[job[h].row].approved => rows'[job[h].row].approved
      BY <1>4, RowEffects
    <2>2. job[h].phase \in WithRow
      BY <1>4 DEF ApproveRow, MarkActive, RejectRow, WithRow, ApprovePhases, RejectPhases
    <2>3. rows[job[h].row].doc = job[h].doc
      BY <1>1, <2>2 DEF RowKnown
    <2>4. QED
      BY <1>1, <2>1, <2>3 DEF Rewrites
  <1>5. CASE ~(CreatePending(h) \/ RecordPassed(h) \/ RecordFailed(h) \/ ApproveRow(h)
               \/ MarkActive(h) \/ RejectRow(h))
    <2>1. rows' = rows
      BY <1>5 DEF GoesOn, StoreFile, DeleteReplaced, Upsert, ReadBack, Purge, Activate,
                  DeleteRejected, Fail
    <2>2. QED
      BY <2>1
  <1>6. QED
    BY <1>2, <1>3, <1>4, <1>5

\* A request under way leaves the other sources alone.
LEMMA OwnStep ==
    ASSUME TypeOK, Rows, NEW h \in Handlers, NEW s, On(h, s), GoesOn(h)
    PROVE  Around(s)
  <1>1. SourceOf(job[h].doc) = s
    BY DEF On
  <1>2. QED
    BY <1>1, OwnJob, OwnPoints, OwnRows DEF Around, Only, SourceOf

\* The request at work on a source takes a step: nobody else is on it.
LEMMA TurnGoesOn ==
    ASSUME TypeOK, NEW h \in Handlers, NEW s, On(h, s), TurnOf(s), GoesOn(h),
           On(h, s)' => ChunksKnown(job[h], s)',
           Settled(s)',
           \A p, q \in ChunksOf(s)' : p.doc = q.doc,
           \A p \in ChunksOf(s)' : p.live => Vetted(p)'
    PROVE  TurnOf(s)'
  <1>1. Only(h) /\ documents' = documents
    BY OwnJob
  <1>2. \A g \in Handlers : On(g, s)' => g = h
    BY <1>1 DEF Only, On, TurnOf, SourceOf
  <1>3. QED
    BY <1>2 DEF TurnOf

\* Updating rows does not change which one is the latest.
LEMMA SameLatest ==
    ASSUME documents' = documents, DOMAIN rows' = DOMAIN rows,
           \A i \in DOMAIN rows : rows'[i].doc = rows[i].doc, NEW i, NEW s
    PROVE  IsLatest(i, s)' <=> IsLatest(i, s)
  BY DEF IsLatest, SourceOf

\* A scanned and approved text stays so.
LEMMA VettedKept ==
    ASSUME TypeOK, NEW s, Around(s), NEW p \in points, Vetted(p),
           NEW q, q.doc = p.doc, q.part = p.part
    PROVE  Vetted(q)'
  <1>1. p.doc \in DOMAIN documents
    BY DEF TypeOK
  <1>2. CASE documents[p.doc].seeded
    BY <1>1, <1>2 DEF Vetted, Around
  <1>3. ASSUME NEW i \in DOMAIN rows, rows[i].approved, <<p.doc, p.part>> \in rows[i].scanned
        PROVE  Vetted(q)'
    <2>1. i \in DOMAIN rows' /\ rows'[i].approved /\ rows'[i].scanned = rows[i].scanned
      BY <1>3 DEF Around
    <2>2. QED
      BY <1>3, <2>1 DEF Vetted
  <1>4. QED
    BY <1>2, <1>3 DEF Vetted

\* No row comes to scan_passed and no text is added.
LEMMA SettledKept ==
    ASSUME TypeOK, NEW h \in Handlers, NEW s, On(h, s), TurnOf(s), GoesOn(h),
           job[h].phase # "registering", DOMAIN rows' = DOMAIN rows,
           \A i \in DOMAIN rows : /\ rows'[i].doc = rows[i].doc
                                  /\ rows'[i].status = "scan_passed" => rows'[i] = rows[i],
           \A p \in ChunksOf(s)' : \E q \in ChunksOf(s) : p.doc = q.doc /\ p.part = q.part
    PROVE  Settled(s)'
  <1>1. SUFFICES ASSUME NEW i \in DOMAIN rows', SourceOf(rows[i].doc)' = s, IsLatest(i, s)',
                        rows'[i].status = "scan_passed"
                 PROVE  ScannedBy(s, rows[i].scanned)'
    BY DEF Settled
  <1>2. documents' = documents
    BY OwnJob
  <1>3. ~\E g \in Handlers : job[g].phase = "registering" /\ On(g, s)
    BY DEF TurnOf
  <1>4. i \in DOMAIN rows /\ SourceOf(rows[i].doc) = s /\ IsLatest(i, s) /\ rows'[i] = rows[i]
    BY <1>1, <1>2, SameLatest DEF SourceOf
  <1>5. ScannedBy(s, rows[i].scanned)
    BY <1>1, <1>3, <1>4 DEF TurnOf, Settled
  <1>6. QED
    BY <1>4, <1>5 DEF ScannedBy

\* A step that takes chunks away at most.
LEMMA TurnShrinks ==
    ASSUME Approvals, NEW h \in Handlers, NEW s, On(h, s), TurnOf(s), GoesOn(h),
           job[h].phase # "registering", rows' = rows, points' \subseteq points,
           On(h, s)' => ChunksKnown(job[h], s)'
    PROVE  TurnOf(s)'
  <1>1. documents' = documents /\ TypeOK /\ Around(s)
    BY OwnJob, OwnStep DEF Approvals
  <1>2. ChunksOf(s)' \subseteq ChunksOf(s)
    BY <1>1 DEF ChunksOf, SourceOf
  <1>3. Settled(s)'
    BY <1>1, <1>2, SettledKept
  <1>4. \A p \in ChunksOf(s)' : p.live => Vetted(p)'
    BY <1>1, <1>2, VettedKept DEF TurnOf, ChunksOf
  <1>5. QED
    BY <1>1, <1>2, <1>3, <1>4, TurnGoesOn DEF TurnOf

\* The steps that read chunks or take them away.
LEMMA ChunksGoOn ==
    ASSUME Approvals, OnePage, NEW h \in Handlers, NEW s, On(h, s), TurnOf(s),
           \/ StoreFile(h) \/ DeleteReplaced(h) \/ ReadBack(h) \/ Purge(h) \/ DeleteRejected(h)
           \/ Fail(h) /\ s \notin strayed'
    PROVE  TurnOf(s)'
  <1> USE DEF Approvals
  <1>a. SourceOf(job[h].doc) = s /\ ChunksKnown(job[h], s) /\ points \subseteq Point
    BY DEF On, TurnOf, TypeOK
  <1>1. CASE StoreFile(h)
    <2>1. /\ UNCHANGED <<documents, points, rows>> /\ job[h].phase = "stored"
          /\ Goes(h, IF job[h].replaces THEN "deleting" ELSE "upserting")
      BY <1>1, JobEffects DEF StoreFile
    <2>2. ChunksOf(s)' = ChunksOf(s)
      BY <2>1 DEF ChunksOf, SourceOf
    <2>3. ChunksKnown(job[h], s)'
      BY <1>a, <2>1, <2>2 DEF ChunksKnown, Goes, Scanning, Uploaded
    <2>4. QED
      BY <1>1, <2>1, <2>3, TurnShrinks DEF GoesOn
  <1>2. CASE DeleteReplaced(h)
    <2>1. /\ UNCHANGED <<documents, rows>> /\ job[h].phase = "deleting" /\ Goes(h, "upserting")
          /\ points' = points \ ChunksOf(s)
      BY <1>a, <1>2, JobEffects DEF DeleteReplaced
    <2>2. ChunksOf(s)' = {}
      BY <2>1 DEF ChunksOf, SourceOf
    <2>3. ChunksKnown(job[h], s)'
      BY <2>1, <2>2 DEF ChunksKnown, Goes, Scanning, Uploaded
    <2>4. QED
      BY <1>2, <2>1, <2>3, TurnShrinks DEF GoesOn
  <1>3. CASE ReadBack(h)
    <2>1. /\ UNCHANGED <<documents, points, rows>> /\ job[h].phase = "scanning"
          /\ Only(h) /\ Keeps(h) /\ job'[h].phase = "recording"
      BY <1>3, ReadEffects DEF ReadBack
    <2> DEFINE quarantined == {p \in points : ~p.live}
    <2>2. Page(quarantined) = {quarantined}
      BY DEF OnePage, Page
    <2>3. job'[h].texts = {<<p.doc, p.part>> : p \in quarantined \intersect ChunksOf(s)}
      BY <1>a, <1>3, <2>2, ReadEffects
    <2>4. ChunksOf(s)' = ChunksOf(s)
      BY <2>1 DEF ChunksOf, SourceOf
    <2>5. \A p \in ChunksOf(s) : p.doc = job[h].doc /\ ~p.live /\ p \in points
      BY <1>a, <2>1 DEF ChunksKnown, Uploaded, Scanning, ChunksOf
    <2>6. ScannedBy(s, job[h].texts)'
      BY <2>3, <2>4, <2>5 DEF ScannedBy
    <2>7. IsLatest(job[h].row, s)'
      BY <1>a, <2>1, SameLatest DEF ChunksKnown, Scanning, Keeps
    <2>8. ChunksKnown(job[h], s)'
      BY <2>1, <2>4, <2>5, <2>6, <2>7 DEF ChunksKnown, Keeps
    <2>9. QED
      BY <1>3, <2>1, <2>8, TurnShrinks DEF GoesOn
  <1>4. CASE Purge(h)
    <2>1. /\ rows' = rows /\ job[h].phase = "purging" /\ points' \subseteq points
          /\ job'[h].phase = "idle"
      BY <1>4, JobEffects DEF Purge, Ends
    <2>2. QED
      BY <1>4, <2>1, TurnShrinks DEF GoesOn, On
  <1>5. CASE DeleteRejected(h)
    <2>1. /\ UNCHANGED <<documents, rows>> /\ job[h].phase = "rejecting" /\ Goes(h, "closing")
          /\ points' \subseteq points
      BY <1>5, JobEffects DEF DeleteRejected
    <2>2. ChunksKnown(job[h], s)'
      BY <2>1 DEF ChunksKnown, Goes, Scanning, Uploaded
    <2>3. QED
      BY <1>5, <2>1, <2>2, TurnShrinks DEF GoesOn
  <1>6. CASE Fail(h) /\ s \notin strayed'
    <2>1. job[h].phase # "registering"
      BY <1>a, <1>6 DEF Fail, Strays
    <2>2. rows' = rows /\ points' = points /\ job'[h].phase = "idle"
      BY <1>6, JobEffects DEF Fail, Ends
    <2>3. QED
      BY <1>6, <2>1, <2>2, TurnShrinks DEF GoesOn, On
  <1>7. QED
    BY <1>1, <1>2, <1>3, <1>4, <1>5, <1>6

\* The chunks of the new document are stored when the collection holds none of the source.
LEMMA UpsertTurn ==
    ASSUME Approvals, NEW h \in Handlers, NEW s, On(h, s), TurnOf(s), Upsert(h)
    PROVE  TurnOf(s)'
  <1> USE DEF Approvals
  <1>1. /\ SourceOf(job[h].doc) = s /\ ChunksOf(s) = {} /\ job[h].doc \in Documents
        /\ Goes(h, "registering") /\ documents' = documents
        /\ points' = points \union Chunks(job[h].doc, FALSE)
    BY JobTypes, JobEffects DEF On, TurnOf, ChunksKnown, Upsert
  <1>2. \A p \in ChunksOf(s)' : p.doc = job[h].doc /\ ~p.live
    BY <1>1, ChunkTypes DEF ChunksOf, SourceOf
  <1>3. job'[h].phase = "registering" /\ job'[h].doc = job[h].doc
    BY <1>1 DEF Goes, Keeps
  <1>4. ChunksKnown(job[h], s)'
    BY <1>2, <1>3 DEF ChunksKnown, Scanning
  <1>5. On(h, s)'
    BY <1>1, <1>3 DEF On, SourceOf
  <1>6. Settled(s)'
    BY <1>3, <1>5 DEF Settled
  <1>7. QED
    BY <1>2, <1>4, <1>6, TurnGoesOn DEF GoesOn

\* The new row is the latest, and pending.
LEMMA RegisterTurn ==
    ASSUME Approvals, NEW h \in Handlers, NEW s, On(h, s), TurnOf(s), CreatePending(h)
    PROVE  TurnOf(s)'
  <1> USE DEF Approvals
  <1>0. PICK new : new = Len(rows) + 1
    OBVIOUS
  <1>1. /\ UNCHANGED <<documents, points>> /\ job[h].phase = "registering"
        /\ Only(h) /\ job'[h].phase = "scanning" /\ job'[h].doc = job[h].doc /\ job'[h].row = new
    BY <1>0, CreateEffects DEF CreatePending
  <1>2. /\ DOMAIN rows' = DOMAIN rows \union {new} /\ new \notin DOMAIN rows
        /\ \A i \in DOMAIN rows : rows'[i] = rows[i] /\ i < new
        /\ rows'[new].status = "pending_scan" /\ rows'[new].doc = job[h].doc
    BY <1>0, RegisterEffects
  <1>3. new \in Nat /\ DOMAIN rows \subseteq Nat
    BY <1>0 DEF TypeOK
  <1>4. ChunksOf(s)' = ChunksOf(s)
    BY <1>1 DEF ChunksOf, SourceOf
  <1>5. IsLatest(new, s)'
    BY <1>2, <1>3 DEF IsLatest
  <1>6. \A p \in ChunksOf(s) : p.doc = job[h].doc /\ ~p.live
    BY <1>1 DEF TurnOf, ChunksKnown, Uploaded
  <1>7. ChunksKnown(job[h], s)'
    BY <1>1, <1>4, <1>5, <1>6 DEF ChunksKnown
  <1>8. Settled(s)'
    <2>1. SourceOf(rows[new].doc)' = s
      BY <1>1, <1>2 DEF On, SourceOf
    <2>2. \A i \in DOMAIN rows' : IsLatest(i, s)' => i = new
      BY <1>2, <1>3, <2>1 DEF IsLatest
    <2>3. QED
      BY <1>2, <2>2 DEF Settled
  <1>9. QED
    BY <1>1, <1>4, <1>6, <1>7, <1>8, TurnGoesOn DEF GoesOn

\* The row that passed is the latest, and its texts are those of all chunks.
LEMMA RecordTurn ==
    ASSUME Approvals, NEW h \in Handlers, NEW s, On(h, s), TurnOf(s),
           RecordPassed(h) \/ RecordFailed(h)
    PROVE  TurnOf(s)'
  <1> USE DEF Approvals
  <1>0. PICK i : i = job[h].row
    OBVIOUS
  <1>1. /\ UNCHANGED <<documents, points>> /\ job[h].phase = "recording" /\ GoesOn(h)
    BY DEF RecordPassed, RecordFailed, GoesOn
  <1>2. PICK status : /\ Rewrites(h, status) /\ rows'[i].scanned = job[h].texts
                      /\ status = "scan_passed" => RecordPassed(h)
                      /\ status = "scan_failed" => RecordFailed(h)
                      /\ status \in {"scan_passed", "scan_failed"}
    BY <1>0, RowEffects
  <1>3. ChunksOf(s)' = ChunksOf(s) /\ Around(s)
    BY <1>1, OwnStep DEF ChunksOf, SourceOf
  <1>4. /\ \A p \in ChunksOf(s) : p.doc = job[h].doc /\ ~p.live
        /\ IsLatest(i, s) /\ ScannedBy(s, job[h].texts)
    BY <1>0, <1>1 DEF TurnOf, ChunksKnown, Uploaded, Scanning
  <1>5. i \in DOMAIN rows /\ DOMAIN rows \subseteq Nat /\ DOMAIN rows' = DOMAIN rows
    BY <1>0, <1>2 DEF Rewrites, TypeOK
  <1>6. On(h, s)' => ChunksKnown(job[h], s)'
    <2>1. RecordFailed(h) => Goes(h, "purging")
      BY JobEffects
    <2>2. RecordPassed(h) => job'[h].phase = "idle"
      BY JobEffects DEF Ends
    <2>3. QED
      BY <1>3, <1>4, <2>1, <2>2 DEF On, ChunksKnown, Goes, Keeps, Scanning
  <1>7. SourceOf(rows[i].doc) = s
    <2>1. RowKnown(job[h])
      BY DEF Rows
    <2>2. QED
      BY <1>0, <1>1, <2>1 DEF RowKnown, WithRow, On
  <1>8. Settled(s)'
    <2>1. SUFFICES ASSUME NEW k \in DOMAIN rows', SourceOf(rows[k].doc)' = s, IsLatest(k, s)',
                          rows'[k].status = "scan_passed"
                   PROVE  ScannedBy(s, rows[k].scanned)'
      BY DEF Settled
    <2>2. k \in DOMAIN rows /\ SourceOf(rows[k].doc) = s /\ IsLatest(k, s)
      BY <1>1, <1>2, <1>5, <2>1, SameLatest DEF Rewrites, SourceOf
    <2>3. k = i
      BY <1>4, <1>5, <1>7, <2>2 DEF IsLatest
    <2>4. QED
      BY <1>2, <1>3, <1>4, <2>3 DEF ScannedBy
  <1>9. QED
    BY <1>1, <1>3, <1>4, <1>6, <1>8, TurnGoesOn

\* A decision leaves chunks and scans as they were.
LEMMA DecideTurn ==
    ASSUME Approvals, NEW h \in Handlers, NEW s, On(h, s), TurnOf(s),
           ApproveRow(h) \/ MarkActive(h) \/ RejectRow(h)
    PROVE  TurnOf(s)'
  <1> USE DEF Approvals
  <1>0. PICK i : i = job[h].row
    OBVIOUS
  <1>1. /\ UNCHANGED <<documents, points>> /\ job[h].phase # "registering" /\ GoesOn(h)
        /\ ApproveRow(h) => job[h].phase = "approving"
    BY DEF ApproveRow, MarkActive, RejectRow, GoesOn
  <1>2. PICK status \in {"approved", "active", "rejected"} :
           Rewrites(h, status) /\ rows'[i].scanned = rows[i].scanned
    BY <1>0, RowEffects
  <1>3. ChunksOf(s)' = ChunksOf(s) /\ Around(s)
    BY <1>1, OwnStep DEF ChunksOf, SourceOf
  <1>4. On(h, s)' => ChunksKnown(job[h], s)'
    <2>1. ApproveRow(h) => Goes(h, "activating") /\ ScannedBy(s, rows[i].scanned)
      BY <1>0, <1>1, JobEffects DEF TurnOf, ChunksKnown
    <2>2. MarkActive(h) \/ RejectRow(h) => job'[h].phase = "idle"
      BY JobEffects DEF Ends
    <2>3. ApproveRow(h) => job'[h].phase = "activating" /\ job'[h].row = i
      BY <1>0, <2>1 DEF Goes, Keeps
    <2>4. ApproveRow(h) => ScannedBy(s, rows[job[h].row].scanned)'
      BY <1>2, <1>3, <2>1, <2>3 DEF ScannedBy
    <2>5. QED
      BY <2>2, <2>3, <2>4 DEF On, ChunksKnown, Scanning, Uploaded
  <1>5. /\ DOMAIN rows' = DOMAIN rows
        /\ \A k \in DOMAIN rows : /\ rows'[k].doc = rows[k].doc
                                  /\ rows'[k].status = "scan_passed" => rows'[k] = rows[k]
    BY <1>2 DEF Rewrites
  <1>6. Settled(s)'
    BY <1>1, <1>3, <1>5, SettledKept
  <1>7. \A p \in ChunksOf(s) : p.live => Vetted(p)'
    BY <1>3, VettedKept DEF TurnOf, ChunksOf
  <1>8. QED
    BY <1>1, <1>3, <1>4, <1>6, <1>7, TurnGoesOn DEF TurnOf

\* What is published was scanned, for the row being approved is the one that was found.
LEMMA ActivateTurn ==
    ASSUME Approvals, NEW h \in Handlers, NEW s, On(h, s), TurnOf(s), Activate(h)
    PROVE  TurnOf(s)'
  <1> USE DEF Approvals
  <1>1. /\ UNCHANGED <<documents, rows>> /\ job[h].phase = "activating" /\ GoesOn(h)
        /\ Goes(h, "marking") /\ SourceOf(job[h].doc) = s
        /\ points' = (points \ ChunksOf(s)) \union {[p EXCEPT !.live = TRUE] : p \in ChunksOf(s)}
    BY JobEffects DEF Activate, GoesOn, On
  <1>2. \A p \in points : /\ [p EXCEPT !.live = TRUE].doc = p.doc
                          /\ [p EXCEPT !.live = TRUE].part = p.part
    BY DEF TypeOK, Point
  <1>3. \A p \in ChunksOf(s)' : \E q \in ChunksOf(s) : p.doc = q.doc /\ p.part = q.part
    BY <1>1, <1>2 DEF ChunksOf, SourceOf
  <1>4. ChunksKnown(job[h], s)'
    BY <1>1 DEF ChunksKnown, Goes, Scanning, Uploaded
  <1>5. Settled(s)'
    BY <1>1, <1>3, SettledKept
  <1>6. job[h].row \in DOMAIN rows /\ rows[job[h].row].approved
    BY <1>1 DEF TypeOK, Rows, RowKnown, ApprovePhases
  <1>7. ScannedBy(s, rows[job[h].row].scanned)
    BY <1>1 DEF TurnOf, ChunksKnown
  <1>8. \A p \in ChunksOf(s)' : Vetted(p)'
    BY <1>1, <1>3, <1>6, <1>7 DEF Vetted, ScannedBy
  <1>9. \A p, q \in ChunksOf(s)' : p.doc = q.doc
    BY <1>3 DEF TurnOf
  <1>10. QED
    BY <1>1, <1>4, <1>5, <1>8, <1>9, TurnGoesOn

\* A new request finds the source at rest.
LEMMA StartSubmitTurn ==
    ASSUME Approvals, OnePage, NEW h \in Handlers, NEW s \in Sources, StartSubmit(h, s)
    PROVE  /\ Around(s)
           /\ s \notin strayed' /\ TurnOf(s) => TurnOf(s)'
  <1> USE DEF Approvals
  <1>0. PICK new : new = Len(documents) + 1
    OBVIOUS
  <1>1. /\ UNCHANGED <<points, rows>> /\ job[h].phase = "idle" /\ strayed \subseteq strayed'
        /\ s \notin strayed' => ~Busy(s)
    BY DEF StartSubmit, Strays
  <1>2. /\ Only(h) /\ job'[h].phase = "stored" /\ job'[h].doc = new
        /\ \E page \in Page(points) : job'[h].replaces = \E p \in page : SourceOf(p.doc) = s
        /\ DOMAIN documents' = DOMAIN documents \union {new}
        /\ new \notin DOMAIN documents
        /\ \A d \in DOMAIN documents : documents'[d] = documents[d]
        /\ documents'[new].source = s
    BY <1>0, SubmitEffects
  <1>3. Around(s)
    BY <1>1, <1>2 DEF Around, Only
  <1>4. ASSUME s \notin strayed', TurnOf(s)
        PROVE  TurnOf(s)'
    <2>1. \A p \in points : p.doc \in DOMAIN documents
      BY DEF TypeOK
    <2>2. ChunksOf(s)' = ChunksOf(s)
      BY <1>1, <1>2, <2>1 DEF ChunksOf, SourceOf
    <2>3. \A g \in Handlers : g # h => ~On(g, s)'
      <3>1. \A g \in Handlers : job[g].phase # "idle" => job[g].doc \in DOMAIN documents
        BY DEF TypeOK
      <3>2. QED
        BY <1>1, <1>2, <1>4, <3>1 DEF Busy, On, Only, SourceOf
    <2>4. ChunksKnown(job[h], s)'
      <3>1. Page(points) = {points}
        BY DEF OnePage, Page
      <3>2. ~job'[h].replaces => ChunksOf(s) = {}
        BY <1>2, <3>1 DEF ChunksOf
      <3>3. QED
        BY <1>2, <2>2, <3>2 DEF ChunksKnown, Scanning, Uploaded
    <2>5. ~\E g \in Handlers : job[g].phase = "registering" /\ On(g, s)
      BY <1>1, <1>4 DEF Busy, On
    <2>6. Settled(s)'
      <3>1. \A i \in DOMAIN rows :
               rows[i].doc \in DOMAIN documents /\ SourceOf(rows[i].doc)' = SourceOf(rows[i].doc)
        BY <1>1, <1>2 DEF TypeOK, SourceOf
      <3>2. \A i : IsLatest(i, s)' <=> IsLatest(i, s)
        BY <1>1, <3>1 DEF IsLatest
      <3>3. QED
        BY <1>1, <1>4, <2>2, <2>5, <3>1, <3>2 DEF Settled, TurnOf, ScannedBy
    <2>7. \A p \in ChunksOf(s) : p.live => Vetted(p)'
      BY <1>3, <1>4, VettedKept DEF TurnOf, ChunksOf
    <2>8. QED
      BY <1>4, <2>2, <2>3, <2>4, <2>6, <2>7 DEF TurnOf
  <1>5. QED
    BY <1>3, <1>4

\* A decision begins with the latest row, which speaks for all chunks.
LEMMA StartDecisionTurn ==
    ASSUME Approvals, NEW h \in Handlers, NEW s \in Sources,
           StartApprove(h, s) \/ StartReject(h, s)
    PROVE  /\ Around(s)
           /\ s \notin strayed' /\ TurnOf(s) => TurnOf(s)'
  <1> USE DEF Approvals
  <1>0. PICK i : i = Latest(s)
    OBVIOUS
  <1>1. /\ UNCHANGED <<documents, points, rows>> /\ job[h].phase = "idle"
        /\ strayed \subseteq strayed'
        /\ s \notin strayed' => ~Busy(s)
        /\ Latest(s) # 0
        /\ StartApprove(h, s) => rows[i].status = "scan_passed"
    BY <1>0 DEF StartApprove, StartReject, Strays, Approvable
  <1>2. /\ Only(h) /\ job'[h].row = i /\ job'[h].doc = rows[i].doc
        /\ \/ job'[h].phase = "approving" /\ StartApprove(h, s)
           \/ job'[h].phase = "rejecting"
    BY <1>0, DecisionEffects DEF StartApprove, StartReject
  <1>3. i \in DOMAIN rows /\ SourceOf(rows[i].doc) = s /\ IsLatest(i, s)
    BY <1>0, <1>1, LatestIsLast
  <1>4. Around(s)
    BY <1>1, <1>2, <1>3 DEF Around, Only, SourceOf
  <1>5. ASSUME s \notin strayed', TurnOf(s)
        PROVE  TurnOf(s)'
    <2>1. ChunksOf(s)' = ChunksOf(s)
      BY <1>1 DEF ChunksOf, SourceOf
    <2>2. \A g \in Handlers : g # h => ~On(g, s)'
      BY <1>1, <1>2, <1>5 DEF Busy, On, Only, SourceOf
    <2>3. ~\E g \in Handlers : job[g].phase = "registering" /\ On(g, s)
      BY <1>1, <1>5 DEF Busy, On
    <2>4. StartApprove(h, s) => ScannedBy(s, rows[i].scanned)
      BY <1>1, <1>3, <1>5, <2>3 DEF TurnOf, Settled
    <2>5. ChunksKnown(job[h], s)'
      BY <1>1, <1>2, <2>1, <2>4 DEF ChunksKnown, ScannedBy, Scanning, Uploaded
    <2>6. \A k : IsLatest(k, s)' <=> IsLatest(k, s)
      BY <1>1 DEF IsLatest, SourceOf
    <2>7. Settled(s)'
      BY <1>1, <1>5, <2>1, <2>3, <2>6 DEF Settled, TurnOf, ScannedBy, SourceOf
    <2>8. \A p \in ChunksOf(s) : p.live => Vetted(p)'
      BY <1>4, <1>5, VettedKept DEF TurnOf, ChunksOf
    <2>9. QED
      BY <1>5, <2>1, <2>2, <2>5, <2>7, <2>8 DEF TurnOf
  <1>6. QED
    BY <1>4, <1>5

\* A file is stored under the source of its document.
LEMMA FilesKept ==
    ASSUME TypeOK, Files, [Next]_vars
    PROVE  Files'
  <1>a. /\ DOMAIN documents = 1..Len(documents) /\ Len(documents) \in Nat
        /\ \A s \in Sources : file[s] \in 0..Len(documents)
    BY DEF TypeOK
  <1>1. CASE \E h \in Handlers, s \in Sources : StartSubmit(h, s)
    <2>1. file' = file /\ \A d \in DOMAIN documents : documents'[d] = documents[d]
      BY <1>1, SubmitEffects DEF StartSubmit
    <2>2. QED
      BY <1>a, <2>1 DEF Files, SourceOf
  <1>2. CASE \E h \in Handlers : StoreFile(h)
    <2>1. PICK h \in Handlers : StoreFile(h)
      BY <1>2
    <2>2. /\ documents' = documents /\ file' = [file EXCEPT ![SourceOf(job[h].doc)] = job[h].doc]
      BY <2>1 DEF StoreFile
    <2>3. file \in [Sources -> 0..Len(documents)]
      BY DEF TypeOK
    <2>4. \A s \in Sources : \/ file'[s] = file[s]
                             \/ SourceOf(job[h].doc) = s /\ file'[s] = job[h].doc
      BY <2>2, <2>3
    <2>5. QED
      BY <2>2, <2>4 DEF Files, SourceOf
  <1>3. CASE file' = file /\ documents' = documents
    BY <1>3 DEF Files, SourceOf
  <1>4. QED
    BY <1>1, <1>2, <1>3
       DEF Next, vars, SubmitStep, DecisionStep, StartApprove, StartReject, DeleteReplaced, Upsert,
           CreatePending, ReadBack, RecordPassed, RecordFailed, Purge, ApproveRow, Activate,
           MarkActive, DeleteRejected, RejectRow, Fail, Reseed

\* What is left to show of a step is its own source.
LEMMA TurnsKept ==
    ASSUME InTurn, Approvals', Files', NEW s \in Sources, Around(s),
           s \notin strayed' /\ TurnOf(s) => TurnOf(s)'
    PROVE  InTurn'
  <1>1. ASSUME NEW t \in Sources, t \notin strayed'
        PROVE  TurnOf(t)'
    <2>1. t \notin strayed /\ TurnOf(t)
      BY <1>1 DEF Around, InTurn
    <2>2. CASE t = s
      BY <1>1, <2>1, <2>2
    <2>3. CASE t # s
      BY <2>1, <2>3, OthersKeepTurns DEF InTurn, Approvals
    <2>4. QED
      BY <2>2, <2>3
  <1>2. QED
    BY <1>1 DEF InTurn

\* The second invariant is inductive while no scroll meets its limit.
LEMMA NextInTurn ==
    ASSUME InTurn, OnePage, [Next]_vars
    PROVE  InTurn'
  <1>a. Approvals /\ Approvals' /\ Files /\ Files' /\ TypeOK /\ Rows
    BY NextApprovals, FilesKept DEF InTurn, Approvals
  <1>1. CASE UNCHANGED vars
    <2>1. ASSUME NEW s \in Sources \ strayed
          PROVE  TurnOf(s)'
      <3>1. TurnOf(s)
        BY <2>1 DEF InTurn
      <3>2. QED
        BY <1>1, <3>1 DEF TurnOf, On, ChunksKnown, Settled, ScannedBy, Vetted, ChunksOf, IsLatest,
                          SourceOf, vars
    <2>2. QED
      BY <1>1, <1>a, <2>1 DEF InTurn, vars
  <1>2. ASSUME NEW s \in Sources, Reseed(s)
        PROVE  InTurn'
    <2>1. /\ UNCHANGED <<documents, rows, job>> /\ strayed \subseteq strayed' /\ s \in strayed'
          /\ points' = points \union Chunks(file[s], TRUE) /\ file[s] # 0
      BY <1>2 DEF Reseed, Strays
    <2>2. file[s] \in Documents /\ SourceOf(file[s]) = s
      BY <1>a, <2>1, IngestionAssumption DEF TypeOK, Documents, Files
    <2>3. \A p \in points' : p \in points \/ SourceOf(p.doc) = s
      BY <2>1, <2>2, ChunkTypes
    <2>4. Around(s)
      BY <2>1, <2>3 DEF Around, SourceOf
    <2>5. QED
      BY <1>a, <2>1, <2>4, TurnsKept
  <1>3. ASSUME NEW h \in Handlers, NEW s \in Sources,
               StartSubmit(h, s) \/ StartApprove(h, s) \/ StartReject(h, s)
        PROVE  InTurn'
    BY <1>3, <1>a, StartSubmitTurn, StartDecisionTurn, TurnsKept
  <1>4. ASSUME NEW h \in Handlers, GoesOn(h)
        PROVE  InTurn'
    <2>1. PICK s \in Sources : s = SourceOf(job[h].doc) /\ On(h, s)
      BY <1>4, <1>a, OwnJob, JobTypes DEF On
    <2>2. Around(s)
      BY <1>4, <1>a, <2>1, OwnStep
    <2>3. ASSUME s \notin strayed', TurnOf(s)
          PROVE  TurnOf(s)'
      BY <1>4, <1>a, <2>1, <2>3, ChunksGoOn, UpsertTurn, RegisterTurn, RecordTurn, DecideTurn,
         ActivateTurn DEF GoesOn
    <2>4. QED
      BY <1>a, <2>2, <2>3, TurnsKept
  <1>5. QED
    BY <1>1, <1>2, <1>3, <1>4 DEF Next, SubmitStep, DecisionStep, GoesOn

\* seed_db.py has ingested every seeded source once: as many documents as sources.
LEMMA SeededOnce ==
    ASSUME Init, NEW d \in DOMAIN documents, NEW e \in DOMAIN documents, SourceOf(d) = SourceOf(e)
    PROVE  d = e
  <1>0. PICK n : n = Cardinality(Seeded)
    OBVIOUS
  <1>1. n \in Nat /\ IsFiniteSet(Seeded)
    BY <1>0, FS_CardinalityType, IngestionAssumption
  <1>2. /\ documents \in [1..n -> [source : Seeded, seeded : {TRUE}]]
        /\ \A s \in Seeded : \E k \in 1..n : documents[k].source = s
    BY <1>0 DEF Init
  <1>3. PICK f : f = [k \in 1..n |-> documents[k].source]
    OBVIOUS
  <1>4. f \in [1..n -> Seeded] /\ \A s \in Seeded : \E k \in 1..n : f[k] = s
    BY <1>2, <1>3
  <1>5. f \in Surjection(1..n, Seeded)
    BY <1>4 DEF Surjection
  <1>6. IsFiniteSet(1..n) /\ Cardinality(1..n) = Cardinality(Seeded)
    BY <1>0, <1>1, FS_Interval
  <1>7. f \in Injection(1..n, Seeded)
    BY <1>5, <1>6, FS_SurjSameCardinalityImpliesInj
  <1>8. d \in 1..n /\ e \in 1..n /\ f[d] = f[e]
    BY <1>2, <1>3 DEF SourceOf
  <1>9. QED
    BY <1>7, <1>8 DEF Injection, IsInjective

\* At first every source has one document, searchable and seeded.
LEMMA InitInTurn == Init => InTurn
  <1>1. SUFFICES ASSUME Init PROVE InTurn
    OBVIOUS
  <1>2. Approvals /\ TypeOK
    BY <1>1, InitApprovals DEF Approvals
  <1>3. DOMAIN rows = {} /\ \A h \in Handlers : job[h].phase = "idle"
    BY <1>1 DEF Init, Idle
  <1>4. Files
    <2>1. \A s \in Seeded : \E d \in DOMAIN documents : SourceOf(d) = s
      BY <1>1 DEF Init, SourceOf
    <2>2. \A s \in Seeded : SourceOf(CHOOSE d \in DOMAIN documents : SourceOf(d) = s) = s
      BY <2>1
    <2>3. QED
      BY <1>1, <2>2 DEF Files, Init
  <1>5. \A p \in points : p.doc \in DOMAIN documents /\ documents[p.doc].seeded
    BY <1>1, <1>2 DEF Init, TypeOK
  <1>6. \A s \in Sources : TurnOf(s)
    BY <1>1, <1>3, <1>5, SeededOnce DEF TurnOf, On, Settled, Vetted, ChunksOf
  <1>7. QED
    BY <1>2, <1>4, <1>6 DEF InTurn

\* Of every source whose requests took turns, the request at work knows the chunks.
THEOREM TurnsInvariance == Spec /\ []OnePage => []InTurn
  BY InitInTurn, NextInTurn, PTL DEF Spec

\* What approve publishes of such a source is what submit read back and scanned, chunk
\* by chunk, as long as its one scroll shows the whole quarantine.
THEOREM PublishedWasScanned == Spec /\ []OnePage => []LiveWasScannedInTurn
  <1>1. InTurn => LiveWasScannedInTurn
    <2>1. SUFFICES ASSUME InTurn, NEW p \in points, p.live, SourceOf(p.doc) \notin strayed
                   PROVE  Vetted(p)
      BY DEF LiveWasScannedInTurn, Vetted
    <2>2. SourceOf(p.doc) \in Sources
      BY <2>1, PointSources DEF InTurn, Approvals
    <2>3. QED
      BY <2>1, <2>2 DEF InTurn, TurnOf, ChunksOf
  <1>2. QED
    BY <1>1, TurnsInvariance, PTL

\* Of such a source ingest leaves one upload in the collection, as long as its one
\* scroll shows whether there is an earlier one.
THEOREM UploadsReplaceEachOther == Spec /\ []OnePage => []OneUploadPerSource
  <1>1. InTurn => OneUploadPerSource
    <2>1. SUFFICES ASSUME InTurn, NEW p \in points, NEW q \in points,
                          SourceOf(p.doc) = SourceOf(q.doc), SourceOf(p.doc) \notin strayed
                   PROVE  p.doc = q.doc
      BY DEF OneUploadPerSource
    <2>2. SourceOf(p.doc) \in Sources
      BY <2>1, PointSources DEF InTurn, Approvals
    <2>3. QED
      BY <2>1, <2>2 DEF InTurn, TurnOf, ChunksOf
  <1>2. QED
    BY <1>1, TurnsInvariance, PTL

-----------------------------------------------------------------------------
(* The refinement of Quarantine: what a source shows, and what keeps it so. *)

Unregistered == {"stored", "deleting", "upserting", "registering"}

\* A document has one row at most, and none while its upload is under way.
Numbered ==
    /\ \A h \in Handlers : job[h].phase \in Unregistered =>
          /\ \A i \in DOMAIN rows : rows[i].doc # job[h].doc
          /\ \A g \in Handlers : job[g].phase \in Unregistered /\ job[g].doc = job[h].doc => g = h
    /\ \A i, k \in DOMAIN rows : rows[i].doc = rows[k].doc => i = k

\* What was read belongs to one document.
OwnTexts(texts, doc) == \A t \in texts : t[1] = doc

\* What the request at work on a source knows besides.
JobRead(j, s) ==
    /\ j.phase = "recording" => OwnTexts(j.texts, j.doc)
    /\ j.phase = "approving" => rows[j.row].status = "scan_passed"
    /\ j.phase = "marking" => rows[j.row].approved
    /\ j.phase = "closing" => ChunksOf(s) = {}

\* The chunks of a source are published together, and its rows speak for their own
\* documents.
ReadInTurn(s) ==
    /\ \A p, q \in ChunksOf(s) : p.live = q.live
    /\ \A i \in DOMAIN rows : SourceOf(rows[i].doc) = s => OwnTexts(rows[i].scanned, rows[i].doc)
    /\ \A h \in Handlers : On(h, s) => JobRead(job[h], s)

\* What the refinement rests on.
Supervision ==
    /\ InTurn
    /\ Numbered
    /\ \A s \in Sources \ strayed : ReadInTurn(s)

\* The moves Quarantine allows.
Moves(from, to) ==
    \/ to = from
    \/ from \in Promise!Supervised /\ to \in {"empty", "unsupervised"}
    \/ from = "empty" /\ to = "held"
    \/ from = "held" /\ to \in {"passed", "failed"}
    \/ from = "passed" /\ to = "approved"
    \/ from = "approved" /\ to = "open"

\* Only create_pending adds a row.
LEMMA SameRows ==
    ASSUME TypeOK, NEW h \in Handlers, GoesOn(h), ~CreatePending(h)
    PROVE  /\ DOMAIN rows' = DOMAIN rows
           /\ \A i \in DOMAIN rows : rows'[i].doc = rows[i].doc
  <1>1. CASE RecordPassed(h) \/ RecordFailed(h) \/ ApproveRow(h) \/ MarkActive(h) \/ RejectRow(h)
    <2>1. \E status : Rewrites(h, status)
      BY <1>1, RowEffects
    <2>2. QED
      BY <2>1 DEF Rewrites
  <1>2. CASE ~(RecordPassed(h) \/ RecordFailed(h) \/ ApproveRow(h) \/ MarkActive(h)
               \/ RejectRow(h))
    BY <1>2 DEF GoesOn, StoreFile, DeleteReplaced, Upsert, ReadBack, Purge, Activate,
                DeleteRejected, Fail
  <1>3. QED
    BY <1>1, <1>2

\* A step after which the request is not, or is no more than before, at work on an
\* upload without a row.
LEMMA NumbersKept ==
    ASSUME Numbered, NEW h \in Handlers, Only(h),
           DOMAIN rows' = DOMAIN rows, \A i \in DOMAIN rows : rows'[i].doc = rows[i].doc,
           job'[h].phase \in Unregistered =>
               job[h].phase \in Unregistered /\ job'[h].doc = job[h].doc
    PROVE  Numbered'
  <1>1. \A g \in Handlers : job'[g].phase \in Unregistered =>
               job[g].phase \in Unregistered /\ job'[g].doc = job[g].doc
    BY DEF Only
  <1>2. QED
    BY <1>1 DEF Numbered

\* Documents are numbered anew by every upload, and create_pending runs once per upload.
LEMMA NumberedKept ==
    ASSUME TypeOK, Numbered, [Next]_vars
    PROVE  Numbered'
  <1>a. /\ \A i \in DOMAIN rows : rows[i].doc \in DOMAIN documents
        /\ \A h \in Handlers : job[h].phase # "idle" => job[h].doc \in DOMAIN documents
    BY DEF TypeOK
  <1>1. CASE UNCHANGED vars \/ \E s \in Sources : Reseed(s)
    <2>1. rows' = rows /\ job' = job
      BY <1>1 DEF vars, Reseed
    <2>2. QED
      BY <2>1 DEF Numbered
  <1>2. ASSUME NEW h \in Handlers, NEW s \in Sources, StartSubmit(h, s)
        PROVE  Numbered'
    <2>1. PICK new : new = Len(documents) + 1
      OBVIOUS
    <2>2. /\ Only(h) /\ job'[h].doc = new /\ new \notin DOMAIN documents /\ rows' = rows
      BY <1>2, <2>1, SubmitEffects DEF StartSubmit
    <2>3. \A g \in Handlers : g # h /\ job'[g].phase \in Unregistered =>
             /\ job'[g] = job[g] /\ job[g].doc \in DOMAIN documents
      BY <1>a, <2>2 DEF Only, Unregistered
    <2>4. QED
      BY <1>a, <2>2, <2>3 DEF Numbered
  <1>3. ASSUME NEW h \in Handlers, NEW s \in Sources, StartApprove(h, s) \/ StartReject(h, s)
        PROVE  Numbered'
    <2>1. Only(h) /\ job'[h].phase \in {"approving", "rejecting"} /\ rows' = rows
      BY <1>3, DecisionEffects DEF StartApprove, StartReject
    <2>2. QED
      BY <2>1, NumbersKept DEF Unregistered
  <1>4. ASSUME NEW h \in Handlers, CreatePending(h)
        PROVE  Numbered'
    <2>1. PICK new : new = Len(rows) + 1
      OBVIOUS
    <2>2. /\ DOMAIN rows' = DOMAIN rows \union {new} /\ new \notin DOMAIN rows
          /\ \A i \in DOMAIN rows : rows'[i] = rows[i]
          /\ rows'[new].doc = job[h].doc
      BY <1>4, <2>1, RegisterEffects
    <2>3. Only(h) /\ job'[h].phase = "scanning" /\ job[h].phase = "registering"
      BY <1>4, CreateEffects DEF CreatePending
    <2>4. \A g \in Handlers : job'[g].phase \in Unregistered => g # h /\ job'[g] = job[g]
      BY <2>3 DEF Only, Unregistered
    <2>5. /\ \A i \in DOMAIN rows : rows[i].doc # job[h].doc
          /\ \A g \in Handlers : job[g].phase \in Unregistered /\ job[g].doc = job[h].doc => g = h
      BY <2>3 DEF Numbered, Unregistered
    <2>6. \A i, k \in DOMAIN rows' : rows'[i].doc = rows'[k].doc => i = k
      BY <2>2, <2>5 DEF Numbered
    <2>7. QED
      BY <2>2, <2>4, <2>5, <2>6 DEF Numbered
  <1>5. ASSUME NEW h \in Handlers, GoesOn(h), ~CreatePending(h)
        PROVE  Numbered'
    <2>1. Only(h) /\ (job'[h].phase # "idle" => job'[h].doc = job[h].doc)
      BY <1>5, OwnJob
    <2>2. job'[h].phase \in Unregistered => job[h].phase \in Unregistered
      BY <1>5, JobEffects, ReadEffects
         DEF Unregistered, Goes, Ends, GoesOn, StoreFile, DeleteReplaced, Upsert
    <2>3. QED
      BY <1>5, <2>1, <2>2, SameRows, NumbersKept DEF Unregistered
  <1>6. QED
    BY <1>1, <1>2, <1>3, <1>4, <1>5 DEF Next, SubmitStep, DecisionStep, GoesOn

\* What a source shows does not change: the same chunks, and rows that say the same.
LEMMA StageFrame ==
    ASSUME NEW s, ChunksOf(s)' = ChunksOf(s), Speaking(s)' = Speaking(s),
           s \in strayed' <=> s \in strayed,
           \A i \in Speaking(s) :
              /\ rows'[i].approved <=> rows[i].approved
              /\ rows'[i].status = "scan_passed" <=> rows[i].status = "scan_passed"
              /\ rows'[i].status = "scan_failed" <=> rows[i].status = "scan_failed"
    PROVE  StageOf(s)' = StageOf(s)
  <1>1. (\E p, q \in ChunksOf(s) : p.doc # q.doc \/ p.live # q.live)'
           <=> \E p, q \in ChunksOf(s) : p.doc # q.doc \/ p.live # q.live
    OBVIOUS
  <1>2. (\A p \in ChunksOf(s) : p.live)' <=> \A p \in ChunksOf(s) : p.live
    OBVIOUS
  <1>3. (\E i \in Speaking(s) : rows[i].approved)' <=> \E i \in Speaking(s) : rows[i].approved
    OBVIOUS
  <1>4. (\E i \in Speaking(s) : rows[i].status = "scan_passed")'
           <=> \E i \in Speaking(s) : rows[i].status = "scan_passed"
    OBVIOUS
  <1>5. (\E i \in Speaking(s) : rows[i].status = "scan_failed")'
           <=> \E i \in Speaking(s) : rows[i].status = "scan_failed"
    OBVIOUS
  <1>6. QED
    BY <1>1, <1>2, <1>3, <1>4, <1>5 DEF StageOf

\* The rows that speak for the chunks are the same as long as the texts are.
LEMMA SpeakingKept ==
    ASSUME NEW s, ChunksOf(s)' = ChunksOf(s), DOMAIN rows' = DOMAIN rows,
           \A i \in DOMAIN rows : /\ rows'[i].scanned = rows[i].scanned
                                  /\ SourceOf(rows[i].doc)' = SourceOf(rows[i].doc)
    PROVE  Speaking(s)' = Speaking(s)
  BY DEF Speaking, ScannedBy

\* Another source shows what it did.
LEMMA OthersKeepStage ==
    ASSUME TypeOK, NEW s, Around(s), NEW t, t # s, t \in strayed' <=> t \in strayed
    PROVE  StageOf(t)' = StageOf(t)
  <1>1. ChunksOf(t)' = ChunksOf(t)
    BY OtherChunks
  <1>2. \A i \in Speaking(t) : i \in Speaking(t)' /\ rows'[i] = rows[i]
    BY <1>1, OtherRows DEF Speaking, ScannedBy
  <1>3. \A i \in Speaking(t)' : i \in Speaking(t)
    BY <1>1, OtherRows DEF Speaking, ScannedBy
  <1>4. QED
    BY SMTT(30), <1>1, <1>2, <1>3, StageFrame

\* What is known of another source stays so.
LEMMA OthersReadInTurn ==
    ASSUME TypeOK, Rows, NEW s, Around(s), NEW t, t # s, ReadInTurn(t)
    PROVE  ReadInTurn(t)'
  <1>1. ChunksOf(t)' = ChunksOf(t)
    BY OtherChunks
  <1>2. \A i \in DOMAIN rows' : SourceOf(rows[i].doc)' = t =>
            OwnTexts(rows'[i].scanned, rows'[i].doc)
    BY OtherRows DEF ReadInTurn
  <1>3. ASSUME NEW h \in Handlers, On(h, t)'
        PROVE  JobRead(job[h], t)'
    <2>1. On(h, t) /\ job'[h] = job[h] /\ JobRead(job[h], t)
      BY <1>3, OtherRequests DEF ReadInTurn
    <2>2. job[h].phase \in ApprovePhases => rows'[job[h].row] = rows[job[h].row]
      <3>1. job[h].phase \in ApprovePhases =>
               job[h].row \in DOMAIN rows /\ rows[job[h].row].doc = job[h].doc
        BY DEF TypeOK, Rows, RowKnown, WithRow
      <3>2. QED
        BY <2>1, <3>1, OtherRows DEF On
    <2>3. QED
      BY <1>1, <2>1, <2>2 DEF JobRead, ApprovePhases
  <1>4. QED
    BY <1>1, <1>2, <1>3 DEF ReadInTurn

\* What is left to show of a step that concerns one source and its request h.
LEMMA ReadBy ==
    ASSUME NEW s, NEW h \in Handlers, \A g \in Handlers : On(g, s)' => g = h,
           On(h, s)' => JobRead(job[h], s)',
           \A p, q \in ChunksOf(s)' : p.live = q.live,
           \A i \in DOMAIN rows' :
               SourceOf(rows[i].doc)' = s => OwnTexts(rows'[i].scanned, rows'[i].doc)
    PROVE  ReadInTurn(s)'
  BY DEF ReadInTurn

\* The request at work on a source is the only one, also after its step.
LEMMA OnlyOne ==
    ASSUME TypeOK, NEW h \in Handlers, NEW s, On(h, s), TurnOf(s), GoesOn(h)
    PROVE  /\ documents' = documents
           /\ \A g \in Handlers : On(g, s)' => g = h
  <1>1. Only(h) /\ documents' = documents
    BY OwnJob
  <1>2. QED
    BY <1>1 DEF Only, On, TurnOf, SourceOf

\* What is kept by a step that leaves rows and chunks alone.
LEMMA QuietStage ==
    ASSUME NEW s \in Sources, s \notin strayed, s \notin strayed',
           UNCHANGED <<documents, points, rows>>
    PROVE  /\ ChunksOf(s)' = ChunksOf(s)
           /\ StageOf(s)' = StageOf(s)
  <1>1. ChunksOf(s)' = ChunksOf(s)
    BY DEF ChunksOf, SourceOf
  <1>2. Speaking(s)' = Speaking(s)
    BY <1>1, SpeakingKept DEF SourceOf
  <1>3. QED
    BY <1>1, <1>2, StageFrame

\* The steps that read, remove or leave the chunks.
LEMMA StageGoesOn ==
    ASSUME Approvals, OnePage, NEW h \in Handlers, NEW s \in Sources, On(h, s), TurnOf(s),
           ReadInTurn(s), s \notin strayed, s \notin strayed',
           \/ StoreFile(h) \/ DeleteReplaced(h) \/ ReadBack(h) \/ Purge(h) \/ DeleteRejected(h)
           \/ Fail(h)
    PROVE  ReadInTurn(s)' /\ Moves(StageOf(s), StageOf(s)')
  <1> USE DEF Approvals
  <1>a. SourceOf(job[h].doc) = s /\ ChunksKnown(job[h], s) /\ JobRead(job[h], s)
    BY DEF On, TurnOf, ReadInTurn
  <1>b. GoesOn(h) /\ rows' = rows
    BY DEF GoesOn, StoreFile, DeleteReplaced, ReadBack, Purge, DeleteRejected, Fail
  <1>c. documents' = documents /\ \A g \in Handlers : On(g, s)' => g = h
    BY <1>b, OnlyOne
  <1>d. \A i \in DOMAIN rows' :
           SourceOf(rows[i].doc)' = s => OwnTexts(rows'[i].scanned, rows'[i].doc)
    BY <1>b, <1>c DEF ReadInTurn, SourceOf
  <1>1. CASE StoreFile(h) \/ Fail(h)
    <2>1. points' = points
      BY <1>1 DEF StoreFile, Fail
    <2>2. ChunksOf(s)' = ChunksOf(s) /\ StageOf(s)' = StageOf(s)
      BY <1>b, <1>c, <2>1, QuietStage
    <2>3. On(h, s)' => JobRead(job[h], s)'
      BY <1>1, JobEffects DEF Goes, Ends, On, JobRead
    <2>4. ReadInTurn(s)'
      BY <1>c, <1>d, <2>2, <2>3, ReadBy DEF ReadInTurn
    <2>5. QED
      BY <2>2, <2>4 DEF Moves
  <1>2. CASE ReadBack(h)
    <2>1. points' = points /\ job[h].phase = "scanning"
      BY <1>2 DEF ReadBack
    <2>2. ChunksOf(s)' = ChunksOf(s) /\ StageOf(s)' = StageOf(s)
      BY <1>b, <1>c, <2>1, QuietStage
    <2>3. Keeps(h) /\ job'[h].phase = "recording"
      BY <1>2, ReadEffects
    <2>4. OwnTexts(job'[h].texts, job[h].doc)
      <3>1. PICK page : job'[h].texts = {<<p.doc, p.part>> : p \in page \intersect ChunksOf(s)}
        BY <1>a, <1>2, ReadEffects
      <3>2. \A p \in ChunksOf(s) : p.doc = job[h].doc
        BY <1>a, <2>1 DEF ChunksKnown, Uploaded, Scanning
      <3>3. QED
        BY <3>1, <3>2 DEF OwnTexts
    <2>5. JobRead(job[h], s)'
      BY <2>3, <2>4 DEF JobRead, Keeps
    <2>6. ReadInTurn(s)'
      BY <1>c, <1>d, <2>2, <2>5, ReadBy DEF ReadInTurn
    <2>7. QED
      BY <2>2, <2>6 DEF Moves
  <1>3. CASE DeleteReplaced(h) \/ Purge(h) \/ DeleteRejected(h)
    <2>1. points' = points \ ChunksOf(s)
      BY <1>a, <1>3 DEF DeleteReplaced, Purge, DeleteRejected
    <2>2. ChunksOf(s)' = {}
      BY <1>c, <2>1 DEF ChunksOf, SourceOf
    <2>3. StageOf(s)' = "empty"
      BY <2>2 DEF StageOf
    <2>4. StageOf(s) \in Promise!Supervised
      BY DEF StageOf, TurnOf, ReadInTurn, Promise!Supervised
    <2>5. JobRead(job[h], s)'
      BY <1>3, <2>2, JobEffects DEF Goes, Ends, JobRead
    <2>6. ReadInTurn(s)'
      BY <1>c, <1>d, <2>2, <2>5, ReadBy
    <2>7. QED
      BY <2>3, <2>4, <2>6 DEF Moves
  <1>4. QED
    BY <1>1, <1>2, <1>3

\* New chunks are held: no row has read any of them.
LEMMA UpsertStage ==
    ASSUME Approvals, Numbered, NEW h \in Handlers, NEW s \in Sources, On(h, s), TurnOf(s),
           ReadInTurn(s), s \notin strayed, s \notin strayed', Upsert(h)
    PROVE  ReadInTurn(s)' /\ Moves(StageOf(s), StageOf(s)')
  <1> USE DEF Approvals
  <1>1. /\ rows' = rows /\ job[h].phase = "upserting" /\ GoesOn(h) /\ Goes(h, "registering")
        /\ points' = points \union Chunks(job[h].doc, FALSE)
    BY JobEffects DEF Upsert, GoesOn
  <1>2. documents' = documents /\ \A g \in Handlers : On(g, s)' => g = h
    BY <1>1, OnlyOne
  <1>3. ChunksOf(s) = {} /\ SourceOf(job[h].doc) = s
    BY <1>1 DEF TurnOf, ChunksKnown, On
  <1>4. \A p \in Chunks(job[h].doc, FALSE) : p.doc = job[h].doc /\ ~p.live
    BY DEF Chunks
  <1>5. ChunksOf(s)' = Chunks(job[h].doc, FALSE)
    BY <1>1, <1>2, <1>3, <1>4 DEF ChunksOf, SourceOf
  <1>6. PICK p : p \in ChunksOf(s)'
    BY <1>5, IngestionAssumption DEF Chunks
  <1>7. Speaking(s)' = {}
    <2>1. SUFFICES ASSUME NEW i \in Speaking(s)' PROVE FALSE
      OBVIOUS
    <2>2. /\ i \in DOMAIN rows /\ SourceOf(rows[i].doc) = s
          /\ <<p.doc, p.part>> \in rows[i].scanned
      BY <1>1, <1>2, <1>6, <2>1 DEF Speaking, ScannedBy, SourceOf
    <2>3. rows[i].doc = p.doc
      BY <2>2 DEF ReadInTurn, OwnTexts
    <2>4. rows[i].doc # job[h].doc
      BY <1>1, <2>2 DEF Numbered, Unregistered
    <2>5. QED
      BY <1>4, <1>5, <1>6, <2>3, <2>4
  <1>8. StageOf(s) = "empty" /\ StageOf(s)' = "held"
    <2>1. \A q \in ChunksOf(s)' : q.doc = job[h].doc /\ q.live = FALSE
      BY <1>5 DEF Chunks
    <2>2. /\ ~\E q, r \in ChunksOf(s)' : q.doc # r.doc \/ q.live # r.live
          /\ ~\A q \in ChunksOf(s)' : q.live
          /\ ChunksOf(s)' # {}
      BY <1>6, <2>1
    <2>3. StageOf(s)' = "held"
      BY <1>7, <2>2 DEF StageOf
    <2>4. QED
      BY <1>3, <2>3 DEF StageOf
  <1>9. \A i \in DOMAIN rows' :
           SourceOf(rows[i].doc)' = s => OwnTexts(rows'[i].scanned, rows'[i].doc)
    BY <1>1, <1>2 DEF ReadInTurn, SourceOf
  <1>10. JobRead(job[h], s)'
    BY <1>1 DEF JobRead, Goes
  <1>11. \A q, r \in ChunksOf(s)' : q.live = r.live
    <2>1. \A q \in ChunksOf(s)' : q.live = FALSE
      BY <1>5 DEF Chunks
    <2>2. QED
      BY <2>1
  <1>12. ReadInTurn(s)'
    BY <1>2, <1>9, <1>10, <1>11, ReadBy
  <1>13. QED
    BY <1>8, <1>12 DEF Moves

\* A row that was just created speaks for nothing.
LEMMA RegisterStage ==
    ASSUME Approvals, NEW h \in Handlers, NEW s \in Sources, On(h, s), TurnOf(s),
           ReadInTurn(s), s \notin strayed, s \notin strayed', CreatePending(h)
    PROVE  ReadInTurn(s)' /\ Moves(StageOf(s), StageOf(s)')
  <1> USE DEF Approvals
  <1>0. PICK new : new = Len(rows) + 1
    OBVIOUS
  <1>1. points' = points /\ GoesOn(h)
    BY DEF CreatePending, GoesOn
  <1>2. /\ DOMAIN rows' = DOMAIN rows \union {new} /\ new \notin DOMAIN rows
        /\ \A i \in DOMAIN rows : rows'[i] = rows[i]
        /\ rows'[new].scanned = {}
    BY <1>0, RegisterEffects
  <1>3. documents' = documents /\ \A g \in Handlers : On(g, s)' => g = h
    BY <1>1, OnlyOne
  <1>4. ChunksOf(s)' = ChunksOf(s)
    BY <1>1, <1>3 DEF ChunksOf, SourceOf
  <1>5. StageOf(s)' = StageOf(s)
    <2>1. CASE ChunksOf(s) = {}
      BY <1>4, <2>1 DEF StageOf
    <2>2. CASE ChunksOf(s) # {}
      <3>1. \A i : i \in Speaking(s)' <=> i \in Speaking(s)
        BY <1>2, <1>3, <1>4, <2>2 DEF Speaking, ScannedBy, SourceOf
      <3>2. Speaking(s)' = Speaking(s) /\ \A i \in Speaking(s) : rows'[i] = rows[i]
        BY <1>2, <3>1 DEF Speaking
      <3>3. QED
        BY <1>4, <3>2, StageFrame
    <2>3. QED
      BY <2>1, <2>2
  <1>6. \A i \in DOMAIN rows' :
           SourceOf(rows[i].doc)' = s => OwnTexts(rows'[i].scanned, rows'[i].doc)
    BY <1>2, <1>3 DEF ReadInTurn, SourceOf, OwnTexts
  <1>7. JobRead(job[h], s)'
    BY CreateEffects DEF JobRead
  <1>8. ReadInTurn(s)'
    BY <1>3, <1>4, <1>6, <1>7, ReadBy DEF ReadInTurn
  <1>9. QED
    BY <1>5, <1>8 DEF Moves

\* The verdict is about all chunks there are, and it is the first.
LEMMA RecordStage ==
    ASSUME Approvals, Numbered, NEW h \in Handlers, NEW s \in Sources, On(h, s), TurnOf(s),
           ReadInTurn(s), s \notin strayed, s \notin strayed',
           RecordPassed(h) \/ RecordFailed(h)
    PROVE  ReadInTurn(s)' /\ Moves(StageOf(s), StageOf(s)')
  <1> USE DEF Approvals
  <1>0. PICK r : r = job[h].row
    OBVIOUS
  <1>1. points' = points /\ GoesOn(h) /\ job[h].phase = "recording"
    BY DEF RecordPassed, RecordFailed, GoesOn
  <1>2. documents' = documents /\ \A g \in Handlers : On(g, s)' => g = h
    BY <1>1, OnlyOne
  <1>3. ChunksOf(s)' = ChunksOf(s)
    BY <1>1, <1>2 DEF ChunksOf, SourceOf
  <1>4. PICK verdict \in {"scan_passed", "scan_failed"} :
           Rewrites(h, verdict) /\ rows'[r].scanned = job[h].texts
                                /\ rows'[r].approved = rows[r].approved
    BY <1>0, RowEffects
  <1>5. /\ r \in DOMAIN rows /\ DOMAIN rows' = DOMAIN rows
        /\ \A i \in DOMAIN rows : rows'[i].doc = rows[i].doc
        /\ \A i \in DOMAIN rows : i # r => rows'[i] = rows[i]
        /\ rows'[r].status = verdict
    BY <1>0, <1>4 DEF Rewrites
  <1>6. /\ rows[r].doc = job[h].doc /\ rows[r].status = "pending_scan" /\ ~rows[r].approved
        /\ SourceOf(rows[r].doc) = s
    BY <1>0, <1>1, <1>5 DEF Rows, RowKnown, WithRow, Scanning, On
  <1>7. /\ \A p \in ChunksOf(s) : p.doc = job[h].doc /\ ~p.live
        /\ ScannedBy(s, job[h].texts)
        /\ OwnTexts(job[h].texts, job[h].doc)
    BY <1>1 DEF TurnOf, ChunksKnown, Uploaded, Scanning, ReadInTurn, JobRead
  <1>8. Moves(StageOf(s), StageOf(s)')
    <2>1. CASE ChunksOf(s) = {}
      BY <1>3, <2>1 DEF StageOf, Moves
    <2>2. CASE ChunksOf(s) # {}
      <3>1. PICK p : p \in ChunksOf(s)
        BY <2>2
      <3>2. \A i \in Speaking(s) : i = r
        <4>1. SUFFICES ASSUME NEW i \in Speaking(s) PROVE i = r
          OBVIOUS
        <4>2. /\ i \in DOMAIN rows /\ SourceOf(rows[i].doc) = s
              /\ <<p.doc, p.part>> \in rows[i].scanned
          BY <3>1 DEF Speaking, ScannedBy
        <4>3. rows[i].doc = p.doc
          BY <4>2 DEF ReadInTurn, OwnTexts
        <4>4. QED
          BY <1>5, <1>6, <1>7, <3>1, <4>2, <4>3 DEF Numbered
      <3>a. /\ ~\E q, t \in ChunksOf(s) : q.doc # t.doc \/ q.live # t.live
            /\ ~\A q \in ChunksOf(s) : q.live
        BY <1>7, <3>1 DEF ReadInTurn
      <3>3. StageOf(s) = "held"
        <4>1. \A i \in Speaking(s) : /\ ~rows[i].approved /\ rows[i].status # "scan_passed"
                                     /\ rows[i].status # "scan_failed"
          BY <1>6, <3>2
        <4>2. QED
          BY <2>2, <3>a, <4>1 DEF StageOf
      <3>4. r \in Speaking(s)'
        BY <1>2, <1>3, <1>4, <1>5, <1>6, <1>7 DEF Speaking, ScannedBy, SourceOf
      <3>5. \A i \in Speaking(s)' : i = r
        <4>1. SUFFICES ASSUME NEW i \in Speaking(s)', i # r PROVE FALSE
          OBVIOUS
        <4>2. i \in Speaking(s)
          BY <1>2, <1>3, <1>5, <4>1 DEF Speaking, ScannedBy, SourceOf
        <4>3. QED
          BY <3>2, <4>1, <4>2
      <3>6. /\ ~\E i \in Speaking(s)' : rows'[i].approved
            /\ verdict = "scan_passed" <=> \E i \in Speaking(s)' : rows'[i].status = "scan_passed"
            /\ verdict = "scan_failed" <=> \E i \in Speaking(s)' : rows'[i].status = "scan_failed"
        BY <1>4, <1>5, <1>6, <3>4, <3>5
      <3>7. StageOf(s)' \in {"passed", "failed"}
        <4>1. \/ \E i \in Speaking(s)' : rows'[i].status = "scan_passed"
              \/ \E i \in Speaking(s)' : rows'[i].status = "scan_failed"
          BY <3>6
        <4>2. QED
          BY <1>3, <2>2, <3>a, <3>6, <4>1 DEF StageOf
      <3>8. QED
        BY <3>3, <3>7 DEF Moves
    <2>3. QED
      BY <2>1, <2>2
  <1>9. \A i \in DOMAIN rows' :
           SourceOf(rows[i].doc)' = s => OwnTexts(rows'[i].scanned, rows'[i].doc)
    <2>1. OwnTexts(rows'[r].scanned, rows'[r].doc)
      BY <1>4, <1>5, <1>6, <1>7
    <2>2. QED
      BY <1>2, <1>5, <2>1 DEF ReadInTurn, SourceOf
  <1>10. On(h, s)' => JobRead(job[h], s)'
    BY JobEffects DEF Goes, Ends, On, JobRead
  <1>11. ReadInTurn(s)'
    BY <1>2, <1>3, <1>9, <1>10, ReadBy DEF ReadInTurn
  <1>12. QED
    BY <1>8, <1>11

\* An approval is of a source whose scan passed; afterwards only the flag counts.
LEMMA DecideStage ==
    ASSUME Approvals, NEW h \in Handlers, NEW s \in Sources, On(h, s), TurnOf(s),
           ReadInTurn(s), s \notin strayed, s \notin strayed',
           ApproveRow(h) \/ MarkActive(h) \/ RejectRow(h)
    PROVE  ReadInTurn(s)' /\ Moves(StageOf(s), StageOf(s)')
  <1> USE DEF Approvals
  <1>0. PICK r : r = job[h].row
    OBVIOUS
  <1>1. /\ points' = points /\ GoesOn(h)
        /\ ApproveRow(h) => job[h].phase = "approving"
        /\ MarkActive(h) => job[h].phase = "marking"
        /\ RejectRow(h) => job[h].phase = "closing"
    BY DEF ApproveRow, MarkActive, RejectRow, GoesOn
  <1>2. documents' = documents /\ \A g \in Handlers : On(g, s)' => g = h
    BY <1>1, OnlyOne
  <1>3. ChunksOf(s)' = ChunksOf(s)
    BY <1>1, <1>2 DEF ChunksOf, SourceOf
  <1>4. PICK status \in {"approved", "active", "rejected"} :
           /\ Rewrites(h, status) /\ rows'[r].scanned = rows[r].scanned
           /\ ApproveRow(h) => rows'[r].approved
           /\ ~ApproveRow(h) => rows'[r].approved = rows[r].approved
    BY <1>0, RowEffects
  <1>5. /\ r \in DOMAIN rows /\ DOMAIN rows' = DOMAIN rows
        /\ \A i \in DOMAIN rows : rows'[i].doc = rows[i].doc
        /\ \A i \in DOMAIN rows : i # r => rows'[i] = rows[i]
        /\ \A i \in DOMAIN rows : rows'[i].scanned = rows[i].scanned
        /\ rows'[r].status = status
    BY <1>0, <1>4 DEF Rewrites
  <1>6. JobRead(job[h], s) /\ ChunksKnown(job[h], s)
    BY DEF ReadInTurn, TurnOf
  <1>7. Speaking(s)' = Speaking(s)
    BY <1>2, <1>3, <1>5, SpeakingKept DEF SourceOf
  <1>8. Moves(StageOf(s), StageOf(s)')
    <2>1. CASE ChunksOf(s) = {}
      BY <1>3, <2>1 DEF StageOf, Moves
    <2>2. CASE ChunksOf(s) # {} /\ MarkActive(h)
      <3>1. rows[r].approved
        BY <1>0, <1>1, <1>6, <2>2 DEF JobRead
      <3>2. rows[r].status \notin {"scan_passed", "scan_failed"}
        BY <1>5, <3>1 DEF Rows
      <3>3. rows'[r].approved = rows[r].approved
        BY <1>1, <1>4, <2>2 DEF ApproveRow
      <3>4. \A i \in DOMAIN rows :
                 /\ rows'[i].approved <=> rows[i].approved
                 /\ rows'[i].status = "scan_passed" <=> rows[i].status = "scan_passed"
                 /\ rows'[i].status = "scan_failed" <=> rows[i].status = "scan_failed"
        BY <1>5, <3>2, <3>3
      <3>5. StageOf(s)' = StageOf(s)
        BY <1>3, <1>7, <3>4, StageFrame DEF Speaking
      <3>6. QED
        BY <3>5 DEF Moves
    <2>3. CASE RejectRow(h)
      BY <1>1, <1>3, <1>6, <2>3 DEF StageOf, Moves, JobRead
    <2>4. CASE ChunksOf(s) # {} /\ ApproveRow(h)
      <3>1. /\ rows[r].status = "scan_passed" /\ ScannedBy(s, rows[r].scanned)
            /\ rows[r].doc = job[h].doc /\ SourceOf(rows[r].doc) = s
        BY <1>0, <1>1, <1>5, <1>6, <2>4
           DEF JobRead, ChunksKnown, Rows, RowKnown, WithRow, ApprovePhases, On
      <3>2. r \in Speaking(s) /\ rows'[r].approved
        BY <1>4, <1>5, <2>4, <3>1 DEF Speaking
      <3>3. CASE \A p \in ChunksOf(s) : p.live
        <4>1. StageOf(s) = "open" /\ StageOf(s)' = "open"
          BY <1>3, <2>4, <3>3 DEF StageOf, TurnOf
        <4>2. QED
          BY <4>1 DEF Moves
      <3>4. CASE ~\A p \in ChunksOf(s) : p.live
        <4>1. ~\E p, q \in ChunksOf(s) : p.doc # q.doc \/ p.live # q.live
          BY DEF TurnOf, ReadInTurn
        <4>2. StageOf(s) \in {"approved", "passed"}
          BY <2>4, <3>1, <3>2, <3>4, <4>1 DEF StageOf
        <4>3. \E i \in Speaking(s)' : rows'[i].approved
          BY <1>7, <3>2
        <4>4. StageOf(s)' = "approved"
          BY <1>3, <2>4, <3>4, <4>1, <4>3 DEF StageOf
        <4>5. QED
          BY <4>2, <4>4 DEF Moves
      <3>5. QED
        BY <3>3, <3>4
    <2>5. QED
      BY <2>1, <2>2, <2>3, <2>4
  <1>9. \A i \in DOMAIN rows' :
           SourceOf(rows[i].doc)' = s => OwnTexts(rows'[i].scanned, rows'[i].doc)
    BY <1>2, <1>5 DEF ReadInTurn, SourceOf
  <1>10. On(h, s)' => JobRead(job[h], s)'
    BY JobEffects DEF Goes, Ends, On, JobRead
  <1>11. ReadInTurn(s)'
    BY <1>2, <1>3, <1>9, <1>10, ReadBy DEF ReadInTurn
  <1>12. QED
    BY <1>8, <1>11

\* What is opened was approved, and is opened as a whole.
LEMMA ActivateStage ==
    ASSUME Approvals, NEW h \in Handlers, NEW s \in Sources, On(h, s), TurnOf(s),
           ReadInTurn(s), s \notin strayed, s \notin strayed', Activate(h)
    PROVE  ReadInTurn(s)' /\ Moves(StageOf(s), StageOf(s)')
  <1> USE DEF Approvals
  <1>0. PICK r : r = job[h].row
    OBVIOUS
  <1>1. /\ rows' = rows /\ job[h].phase = "activating" /\ GoesOn(h) /\ Goes(h, "marking")
        /\ SourceOf(job[h].doc) = s
        /\ points' = (points \ ChunksOf(s)) \union {[p EXCEPT !.live = TRUE] : p \in ChunksOf(s)}
    BY JobEffects DEF Activate, GoesOn, On
  <1>2. documents' = documents /\ \A g \in Handlers : On(g, s)' => g = h
    BY <1>1, OnlyOne
  <1>3. \A p \in points : /\ [p EXCEPT !.live = TRUE].doc = p.doc
                          /\ [p EXCEPT !.live = TRUE].live = TRUE
    BY DEF TypeOK, Point
  <1>4. ChunksOf(s)' = {[p EXCEPT !.live = TRUE] : p \in ChunksOf(s)}
    <2> DEFINE opened == {[p EXCEPT !.live = TRUE] : p \in ChunksOf(s)}
    <2>1. \A p \in opened : SourceOf(p.doc) = s
      BY <1>3 DEF ChunksOf
    <2>2. points' = (points \ ChunksOf(s)) \union opened
      BY <1>1
    <2> HIDE DEF opened
    <2>3. ChunksOf(s)' = opened
      BY <1>2, <2>1, <2>2 DEF ChunksOf, SourceOf
    <2>4. QED
      BY <2>3 DEF opened
  <1>5. \A p \in ChunksOf(s)' : p.live = TRUE /\ \E q \in ChunksOf(s) : p.doc = q.doc
    BY <1>3, <1>4 DEF ChunksOf
  <1>6. \A p, q \in ChunksOf(s)' : p.live = q.live /\ p.doc = q.doc
    BY <1>5 DEF TurnOf
  <1>7. /\ r \in DOMAIN rows /\ rows[r].approved /\ rows[r].doc = job[h].doc
        /\ ScannedBy(s, rows[r].scanned)
    BY <1>0, <1>1
       DEF TypeOK, Rows, RowKnown, WithRow, ApprovePhases, TurnOf, ChunksKnown
  <1>8. Moves(StageOf(s), StageOf(s)')
    <2>1. CASE ChunksOf(s) = {}
      <3>1. ChunksOf(s)' = {}
        BY <1>4, <2>1
      <3>2. QED
        BY <2>1, <3>1 DEF StageOf, Moves
    <2>2. CASE ChunksOf(s) # {}
      <3>1. ChunksOf(s)' # {}
        BY <1>4, <2>2
      <3>2. StageOf(s)' = "open"
        BY <1>5, <1>6, <3>1 DEF StageOf
      <3>3. r \in Speaking(s)
        BY <1>1, <1>7 DEF Speaking
      <3>4. ~\E p, q \in ChunksOf(s) : p.doc # q.doc \/ p.live # q.live
        BY DEF TurnOf, ReadInTurn
      <3>5. StageOf(s) \in {"open", "approved"}
        BY <1>7, <2>2, <3>3, <3>4 DEF StageOf
      <3>6. QED
        BY <3>2, <3>5 DEF Moves
    <2>3. QED
      BY <2>1, <2>2
  <1>9. \A i \in DOMAIN rows' :
           SourceOf(rows[i].doc)' = s => OwnTexts(rows'[i].scanned, rows'[i].doc)
    BY <1>1, <1>2 DEF ReadInTurn, SourceOf
  <1>10. JobRead(job[h], s)'
    BY <1>0, <1>1, <1>7 DEF JobRead, Goes, Keeps
  <1>11. ReadInTurn(s)'
    BY <1>2, <1>6, <1>9, <1>10, ReadBy
  <1>12. QED
    BY <1>8, <1>11

\* A request that begins changes nothing of what the source shows.
LEMMA StartStage ==
    ASSUME Approvals, NEW h \in Handlers, NEW s \in Sources, TurnOf(s)', ReadInTurn(s),
           s \notin strayed, s \notin strayed',
           StartSubmit(h, s) \/ StartApprove(h, s) \/ StartReject(h, s)
    PROVE  ReadInTurn(s)' /\ StageOf(s)' = StageOf(s)
  <1> USE DEF Approvals
  <1>1. points' = points /\ rows' = rows
    BY DEF StartSubmit, StartApprove, StartReject
  <1>2. \A d \in DOMAIN documents : documents'[d] = documents[d]
    BY SubmitEffects DEF StartApprove, StartReject
  <1>3. /\ \A p \in points : SourceOf(p.doc)' = SourceOf(p.doc)
        /\ \A i \in DOMAIN rows : SourceOf(rows[i].doc)' = SourceOf(rows[i].doc)
    BY <1>1, <1>2 DEF TypeOK, SourceOf
  <1>4. ChunksOf(s)' = ChunksOf(s)
    BY <1>1, <1>3 DEF ChunksOf, SourceOf
  <1>5. Speaking(s)' = Speaking(s)
    BY <1>1, <1>3, <1>4, SpeakingKept
  <1>6. StageOf(s)' = StageOf(s)
    BY <1>1, <1>4, <1>5, StageFrame
  <1>7. On(h, s)' /\ JobRead(job[h], s)'
    <2>1. CASE StartSubmit(h, s)
      BY <2>1, SubmitEffects DEF On, SourceOf, JobRead
    <2>2. CASE StartApprove(h, s) \/ StartReject(h, s)
      <3>1. PICK i : i = Latest(s)
        OBVIOUS
      <3>2. /\ i \in DOMAIN rows /\ SourceOf(rows[i].doc) = s
            /\ StartApprove(h, s) => rows[i].status = "scan_passed"
        BY <2>2, <3>1, LatestIsLast DEF StartApprove, StartReject, Approvable
      <3>3. /\ job'[h].row = i /\ job'[h].doc = rows[i].doc
            /\ \/ job'[h].phase = "approving" /\ StartApprove(h, s)
               \/ job'[h].phase = "rejecting"
        BY <2>2, <3>1, DecisionEffects DEF StartApprove, StartReject
      <3>4. QED
        BY <1>1, <1>3, <3>2, <3>3 DEF On, JobRead, SourceOf
    <2>3. QED
      BY <2>1, <2>2
  <1>8. \A g \in Handlers : On(g, s)' => g = h
    BY <1>7 DEF TurnOf
  <1>9. ReadInTurn(s)'
    BY <1>1, <1>3, <1>4, <1>7, <1>8, ReadBy DEF ReadInTurn
  <1>10. QED
    BY <1>6, <1>9

\* What the source of a step shows, whether it strays or not.
LEMMA StepStage ==
    ASSUME NEW s \in Sources, s \in strayed => s \in strayed',
           s \notin strayed => TurnOf(s) /\ ReadInTurn(s),
           s \notin strayed' => Moves(StageOf(s), StageOf(s)')
    PROVE  Moves(StageOf(s), StageOf(s)')
  <1>1. CASE s \notin strayed'
    BY <1>1
  <1>2. CASE s \in strayed
    BY <1>2 DEF StageOf, Moves
  <1>3. CASE s \notin strayed /\ s \in strayed'
    <2>1. StageOf(s) \in Promise!Supervised
      BY <1>3 DEF StageOf, TurnOf, ReadInTurn, Promise!Supervised
    <2>2. QED
      BY <1>3, <2>1 DEF StageOf, Moves
  <1>4. QED
    BY <1>1, <1>2, <1>3

\* A step concerns one source: it makes one of the moves of Quarantine there, and
\* nothing is seen of it elsewhere.
Concerns(s) ==
    /\ Around(s)
    /\ strayed' \subseteq strayed \union {s}
    /\ s \notin strayed' => ReadInTurn(s)' /\ Moves(StageOf(s), StageOf(s)')

\* Every step concerns one source.
LEMMA StepConcerns ==
    ASSUME Supervision, OnePage, Next, InTurn'
    PROVE  \E s \in Sources : Concerns(s)
  <1>a. Approvals /\ TypeOK /\ Rows /\ Files /\ Numbered
    BY DEF Supervision, InTurn, Approvals
  <1>b. \A s \in Sources \ strayed : TurnOf(s) /\ ReadInTurn(s)
    BY DEF Supervision, InTurn
  <1>1. ASSUME NEW s \in Sources, Reseed(s)
        PROVE  Concerns(s)
    <2>1. /\ UNCHANGED <<documents, rows, job>> /\ strayed' = strayed \union {s}
          /\ points' = points \union Chunks(file[s], TRUE) /\ file[s] # 0
      BY <1>1 DEF Reseed, Strays
    <2>2. file[s] \in Documents /\ SourceOf(file[s]) = s
      BY <1>a, <2>1, IngestionAssumption DEF TypeOK, Documents, Files
    <2>3. \A p \in points' : p \in points \/ SourceOf(p.doc) = s
      BY <2>1, <2>2, ChunkTypes
    <2>4. Around(s)
      BY <2>1, <2>3 DEF Around, SourceOf
    <2>5. QED
      BY <2>1, <2>4 DEF Concerns
  <1>2. ASSUME NEW h \in Handlers, NEW s \in Sources,
               StartSubmit(h, s) \/ StartApprove(h, s) \/ StartReject(h, s)
        PROVE  Concerns(s)
    <2>1. Around(s)
      BY <1>2, <1>a, StartSubmitTurn, StartDecisionTurn
    <2>2. strayed' \subseteq strayed \union {s} /\ strayed \subseteq strayed'
      BY <1>2 DEF StartSubmit, StartApprove, StartReject, Strays
    <2>3. ASSUME s \notin strayed'
          PROVE  ReadInTurn(s)' /\ StageOf(s)' = StageOf(s)
      <3>1. s \notin strayed /\ TurnOf(s)' /\ ReadInTurn(s)
        BY <1>b, <2>2, <2>3 DEF InTurn
      <3>2. QED
        BY <1>2, <1>a, <2>3, <3>1, StartStage
    <2>4. QED
      BY <2>1, <2>2, <2>3 DEF Concerns, Moves
  <1>3. ASSUME NEW h \in Handlers, GoesOn(h)
        PROVE  \E s \in Sources : Concerns(s)
    <2>1. PICK s \in Sources : s = SourceOf(job[h].doc) /\ On(h, s)
      BY <1>3, <1>a, OwnJob, JobTypes DEF On
    <2>2. Around(s)
      BY <1>3, <1>a, <2>1, OwnStep
    <2>3. strayed' \subseteq strayed \union {s} /\ strayed \subseteq strayed'
      BY <1>3, <2>1 DEF GoesOn, StoreFile, DeleteReplaced, Upsert, CreatePending, ReadBack,
                        RecordPassed, RecordFailed, Purge, ApproveRow, Activate, MarkActive,
                        DeleteRejected, RejectRow, Fail, Strays
    <2>4. ASSUME s \notin strayed'
          PROVE  ReadInTurn(s)' /\ Moves(StageOf(s), StageOf(s)')
      <3>1. s \notin strayed /\ TurnOf(s) /\ ReadInTurn(s)
        BY <1>b, <2>3, <2>4
      <3>2. QED
        BY <1>3, <1>a, <2>1, <2>4, <3>1, StageGoesOn, UpsertStage, RegisterStage, RecordStage,
           DecideStage, ActivateStage DEF GoesOn
    <2>5. QED
      BY <2>2, <2>3, <2>4 DEF Concerns
  <1>4. QED
    BY <1>1, <1>2, <1>3 DEF Next, SubmitStep, DecisionStep, GoesOn

\* The third invariant is inductive on top of the second.
LEMMA NextSupervision ==
    ASSUME Supervision, OnePage, [Next]_vars
    PROVE  Supervision'
  <1>a. TypeOK /\ Rows /\ InTurn /\ Numbered
    BY DEF Supervision, InTurn, Approvals
  <1>1. InTurn' /\ Numbered'
    BY <1>a, NextInTurn, NumberedKept
  <1>2. CASE UNCHANGED vars
    <2>1. \A s \in Sources \ strayed : ReadInTurn(s)'
      BY <1>2 DEF Supervision, ReadInTurn, JobRead, OwnTexts, On, ChunksOf, SourceOf, vars
    <2>2. QED
      BY <1>1, <1>2, <2>1 DEF Supervision, vars
  <1>3. CASE Next
    <2>1. PICK s \in Sources : Concerns(s)
      BY <1>1, <1>3, StepConcerns
    <2>2. ASSUME NEW t \in Sources \ strayed'
          PROVE  ReadInTurn(t)'
      <3>1. t \notin strayed
        BY <2>1, <2>2 DEF Concerns, Around
      <3>2. CASE t = s
        BY <2>1, <2>2, <3>2 DEF Concerns
      <3>3. CASE t # s
        BY <1>a, <2>1, <3>1, <3>3, OthersReadInTurn DEF Concerns, Supervision
      <3>4. QED
        BY <3>2, <3>3
    <2>3. QED
      BY <1>1, <2>2 DEF Supervision
  <1>4. QED
    BY <1>2, <1>3

\* At first there are no rows, and what is there is searchable.
LEMMA InitSupervision == Init => Supervision
  <1>1. SUFFICES ASSUME Init PROVE Supervision
    OBVIOUS
  <1>2. InTurn
    BY <1>1, InitInTurn
  <1>3. DOMAIN rows = {} /\ \A h \in Handlers : job[h].phase = "idle"
    BY <1>1 DEF Init, Idle
  <1>4. \A p \in points : p.live = TRUE
    BY <1>1 DEF Init, Chunks
  <1>5. \A s : ReadInTurn(s)
    BY <1>3, <1>4 DEF ReadInTurn, On, ChunksOf
  <1>6. QED
    BY <1>2, <1>3, <1>5 DEF Supervision, Numbered, Unregistered

\* The first states are those of Quarantine: what seed_db.py ingested is open.
LEMMA QuarantineInitial == Init => Promise!QuarantineInit
  <1>1. SUFFICES ASSUME Init, NEW s \in Sources
                 PROVE  StageOf(s) = IF s \in Seeded THEN "open" ELSE "empty"
    BY DEF Promise!QuarantineInit
  <1>2. \A p \in points : p.live = TRUE /\ p.doc \in DOMAIN documents
    BY <1>1, InitInTurn DEF Init, Chunks, InTurn, Approvals, TypeOK
  <1>3. \A d \in DOMAIN documents : SourceOf(d) \in Seeded
    BY <1>1 DEF Init, SourceOf
  <1>4. s \notin strayed
    BY <1>1 DEF Init
  <1>5. CASE s \notin Seeded
    <2>1. ChunksOf(s) = {}
      BY <1>2, <1>3, <1>5 DEF ChunksOf
    <2>2. QED
      BY <1>4, <1>5, <2>1 DEF StageOf
  <1>6. CASE s \in Seeded
    <2>1. PICK d \in DOMAIN documents : SourceOf(d) = s
      BY <1>1, <1>6 DEF Init, SourceOf
    <2>2. PICK i : i \in Parts
      BY IngestionAssumption
    <2>3. [doc |-> d, part |-> i, live |-> TRUE] \in ChunksOf(s)
      <3>1. [doc |-> d, part |-> i, live |-> TRUE] \in Chunks(d, TRUE)
        BY <2>2 DEF Chunks
      <3>2. [doc |-> d, part |-> i, live |-> TRUE] \in points
        BY <1>1, <2>1, <3>1 DEF Init
      <3>3. QED
        BY <2>1, <3>2 DEF ChunksOf
    <2>4. \A p, q \in ChunksOf(s) : p.doc = q.doc /\ p.live = q.live
      BY <1>1, <1>2, SeededOnce DEF ChunksOf
    <2>5. QED
      BY <1>2, <1>4, <1>6, <2>3, <2>4 DEF StageOf, ChunksOf
  <1>7. QED
    BY <1>5, <1>6

\* A step is a move of its source, or it is not seen at all.
LEMMA QuarantineStep ==
    ASSUME Supervision, OnePage, InTurn', [Next]_vars
    PROVE  [Promise!QuarantineNext]_([s \in Sources |-> StageOf(s)])
  <1> DEFINE stages == [s \in Sources |-> StageOf(s)]
  <1>1. CASE UNCHANGED vars
    <2>1. \A s : StageOf(s)' = StageOf(s)
      BY <1>1 DEF StageOf, Speaking, ScannedBy, ChunksOf, SourceOf, vars
    <2>2. stages' = stages
      BY <2>1
    <2>3. QED
      BY <2>2
  <1>2. CASE Next
    <2>1. PICK s \in Sources : Concerns(s)
      BY <1>2, StepConcerns
    <2>2. ASSUME NEW t \in Sources, t # s
          PROVE  StageOf(t)' = StageOf(t)
      <3>1. Around(s) /\ (t \in strayed' <=> t \in strayed)
        BY <2>1, <2>2 DEF Concerns, Around
      <3>2. QED
        BY <2>2, <3>1, OthersKeepStage DEF Supervision, InTurn, Approvals
    <2>3. Moves(StageOf(s), StageOf(s)')
      BY <2>1, StepStage DEF Concerns, Around, Supervision, InTurn
    <2>4. stages' = [stages EXCEPT ![s] = StageOf(s)'] /\ stages[s] = StageOf(s)
      BY <2>2
    <2>5. CASE StageOf(s)' = StageOf(s)
      <3>1. stages' = stages
        BY <2>2, <2>5
      <3>2. QED
        BY <3>1
    <2>6. CASE StageOf(s)' # StageOf(s)
      <3>1. Promise!QuarantineNext
        BY <2>3, <2>4, <2>6
           DEF Moves, Promise!QuarantineNext, Promise!Move, Promise!Hold, Promise!Pass,
               Promise!Condemn, Promise!Approve, Promise!Open, Promise!Remove, Promise!Stray
      <3>2. QED
        BY <3>1
    <2>7. QED
      BY <2>5, <2>6
  <1>3. QED
    BY <1>1, <1>2

\* Whatever the requests on other sources do and wherever they fail: the quarantine
\* workflow implements Quarantine, as long as no scroll meets its limit.
THEOREM ImplementsQuarantine == Spec /\ []OnePage => HonoursQuarantine
  <1>1. Supervision => InTurn
    BY DEF Supervision
  <1>2. QED
    BY <1>1, InitSupervision, NextSupervision, QuarantineInitial, QuarantineStep, PTL
       DEF Spec, HonoursQuarantine, Promise!QuarantineSpec
=============================================================================
