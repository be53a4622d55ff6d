--------------------------- MODULE PolicyIngestion ---------------------------
(***************************************************************************)
(* The quarantine workflow around policy uploads:                          *)
(* PolicyIngestionSecurityService over PolicyIngestionService, the rows of *)
(* document_security_state, the chunks in Qdrant and the files of the      *)
(* policy directory.  Every request runs in a thread of its own; each of   *)
(* its calls to Postgres or Qdrant is a step, nothing spans two of them,   *)
(* and it may fail between any two.                                        *)
(*                                                                         *)
(* A document is its number; a chunk is one of its Parts.  The scanners'   *)
(* verdict on the text they are given is left open.                        *)
(***************************************************************************)
EXTENDS Naturals, Sequences, FiniteSets

CONSTANTS
    Sources,       \* file names
    Handlers,      \* requests in flight
    Parts,         \* chunks of every document
    Seeded,        \* sources ingested by seed_db.py before the server started
    ScrollLimit,   \* points one scroll returns at most (10 000 in the code)
    MaxUploads,    \* bound: documents ever ingested, the seeded ones included
    MaxReseeds     \* bound: runs of seed_db.py beside the server

VARIABLES
    documents,  \* every document ever ingested, in order
    points,     \* the collection: [doc, part, live]
    rows,       \* document_security_state, in the order of uploaded_at
    file,       \* file[s]: the document stored as s in the policy directory, 0 = none
    job,        \* job[h]: what request h is doing
    reseeds,    \* runs of seed_db.py so far
    strayed     \* history: the sources on which two requests overlapped, an upload failed
                \* between storing its chunks and having its row, or seed_db.py ran

vars == <<documents, points, rows, file, job, reseeds, strayed>>

Documents == 1..MaxUploads
Text == Documents \X Parts
Point == [doc : Documents, part : Parts, live : BOOLEAN]
Status == {"pending_scan", "scan_passed", "scan_failed", "approved", "active", "rejected"}
\* approved keeps approved_by, which no later status clears; scanned, the text
\* behind scan_decision.
Row == [doc : Documents, status : Status, approved : BOOLEAN, scanned : SUBSET Text]

UploadPhases == {"stored", "deleting", "upserting", "registering", "scanning", "recording",
                 "purging"}
ApprovePhases == {"approving", "activating", "marking"}
RejectPhases == {"rejecting", "closing"}
Job == [phase : {"idle"} \union UploadPhases \union ApprovePhases \union RejectPhases,
        doc : 0..MaxUploads, row : Nat, replaces : BOOLEAN, texts : SUBSET Text]
Idle == [phase |-> "idle", doc |-> 0, row |-> 0, replaces |-> FALSE, texts |-> {}]

ASSUME IngestionAssumption ==
    /\ IsFiniteSet(Parts) /\ Parts # {}
    /\ Seeded \subseteq Sources
    /\ IsFiniteSet(Seeded)
    /\ ScrollLimit \in Nat \ {0}
    /\ MaxUploads \in Nat /\ Cardinality(Seeded) <= MaxUploads
    /\ MaxReseeds \in Nat

SourceOf(doc) == documents[doc].source
ChunksOf(s) == {p \in points : SourceOf(p.doc) = s}
Chunks(doc, live) == {[doc |-> doc, part |-> i, live |-> live] : i \in Parts}

\* One page of a scroll: everything that matches, or as much as the limit lets
\* through, in an order nothing fixes (point ids are random).
Page(matching) ==
    IF Cardinality(matching) <= ScrollLimit
    THEN {matching}
    ELSE {page \in SUBSET matching : Cardinality(page) = ScrollLimit}

\* get_latest_for_source, 0 if the source was never uploaded.
Latest(s) ==
    LET mine == {i \in DOMAIN rows : SourceOf(rows[i].doc) = s}
    IN  IF mine = {} THEN 0 ELSE CHOOSE i \in mine : \A j \in mine : j <= i

Busy(s) == \E h \in Handlers : job[h].phase # "idle" /\ SourceOf(job[h].doc) = s
Strays(s, so) == strayed' = IF so THEN strayed \union {s} ELSE strayed

----------------------------------------------------------------------------
\* seed_db.py has ingested the seeded sources as active, without rows.
Init ==
    /\ documents \in {ds \in [1..Cardinality(Seeded) -> [source : Seeded, seeded : {TRUE}]] :
                        \A s \in Seeded : \E d \in DOMAIN ds : ds[d].source = s}
    /\ points = UNION {Chunks(d, TRUE) : d \in DOMAIN documents}
    /\ rows = <<>>
    /\ file = [s \in Sources |->
                 IF s \in Seeded THEN CHOOSE d \in DOMAIN documents : SourceOf(d) = s ELSE 0]
    /\ job = [h \in Handlers |-> Idle]
    /\ reseeds = 0
    /\ strayed = {}

----------------------------------------------------------------------------
(* submit                                                                  *)

\* ingest lists every chunk to see whether it replaces something.
StartSubmit(h, s) ==
    /\ job[h].phase = "idle"
    /\ Len(documents) < MaxUploads
    /\ documents' = Append(documents, [source |-> s, seeded |-> FALSE])
    /\ \E page \in Page(points) :
         job' = [job EXCEPT ![h] = [phase |-> "stored", doc |-> Len(documents) + 1, row |-> 0,
                                    replaces |-> \E p \in page : SourceOf(p.doc) = s,
                                    texts |-> {}]]
    /\ UNCHANGED <<points, rows, file, reseeds>>
    /\ Strays(s, Busy(s))

\* Extraction and embedding succeeded; the file is copied to the policy directory.
StoreFile(h) ==
    /\ job[h].phase = "stored"
    /\ file' = [file EXCEPT ![SourceOf(job[h].doc)] = job[h].doc]
    /\ job' = [job EXCEPT ![h].phase = IF job[h].replaces THEN "deleting" ELSE "upserting"]
    /\ UNCHANGED <<documents, points, rows, reseeds, strayed>>

\* Mutant: only the quarantined chunks of the old document are deleted.
DeleteQuarantinedOnly(h) ==
    /\ job[h].phase = "deleting"
    /\ points' = points \ {p \in ChunksOf(SourceOf(job[h].doc)) : ~p.live}
    /\ job' = [job EXCEPT ![h].phase = "upserting"]
    /\ UNCHANGED <<documents, rows, file, reseeds, strayed>>

DeleteReplaced(h) ==
    /\ job[h].phase = "deleting"
    /\ points' = points \ ChunksOf(SourceOf(job[h].doc))
    /\ job' = [job EXCEPT ![h].phase = "upserting"]
    /\ UNCHANGED <<documents, rows, file, reseeds, strayed>>

\* Mutant: chunks are stored with upsert_chunks' default status.
UpsertActive(h) ==
    /\ job[h].phase = "upserting"
    /\ points' = points \union Chunks(job[h].doc, TRUE)
    /\ job' = [job EXCEPT ![h].phase = "registering"]
    /\ UNCHANGED <<documents, rows, file, reseeds, strayed>>

Upsert(h) ==
    /\ job[h].phase = "upserting"
    /\ points' = points \union Chunks(job[h].doc, FALSE)
    /\ job' = [job EXCEPT ![h].phase = "registering"]
    /\ UNCHANGED <<documents, rows, file, reseeds, strayed>>

CreatePending(h) ==
    /\ job[h].phase = "registering"
    /\ rows' = Append(rows, [doc |-> job[h].doc, status |-> "pending_scan",
                             approved |-> FALSE, scanned |-> {}])
    /\ job' = [job EXCEPT ![h].phase = "scanning", ![h].row = Len(rows) + 1]
    /\ UNCHANGED <<documents, points, file, reseeds, strayed>>

\* Mutant: the text is read back before the row exists, as its chunks go in.
ReadBackNothing(h) ==
    /\ job[h].phase = "scanning"
    /\ job' = [job EXCEPT ![h].phase = "recording"]
    /\ UNCHANGED <<documents, points, rows, file, reseeds, strayed>>

\* _quarantined_chunk_texts: one page of the quarantined chunks of all sources,
\* of which those of this source are scanned.
ReadBack(h) ==
    /\ job[h].phase = "scanning"
    /\ \E page \in Page({p \in points : ~p.live}) :
         job' = [job EXCEPT
                   ![h].phase = "recording",
                   ![h].texts = {<<p.doc, p.part>> : p \in page \intersect
                                                        ChunksOf(SourceOf(job[h].doc))}]
    /\ UNCHANGED <<documents, points, rows, file, reseeds, strayed>>

RecordPassed(h) ==
    /\ job[h].phase = "recording"
    /\ rows' = [rows EXCEPT ![job[h].row].status = "scan_passed",
                            ![job[h].row].scanned = job[h].texts]
    /\ job' = [job EXCEPT ![h] = Idle]
    /\ UNCHANGED <<documents, points, file, reseeds, strayed>>

RecordFailed(h) ==
    /\ job[h].phase = "recording"
    /\ rows' = [rows EXCEPT ![job[h].row].status = "scan_failed",
                            ![job[h].row].scanned = job[h].texts]
    /\ job' = [job EXCEPT ![h].phase = "purging"]
    /\ UNCHANGED <<documents, points, file, reseeds, strayed>>

Purge(h) ==
    /\ job[h].phase = "purging"
    /\ points' = points \ ChunksOf(SourceOf(job[h].doc))
    /\ job' = [job EXCEPT ![h] = Idle]
    /\ UNCHANGED <<documents, rows, file, reseeds, strayed>>

----------------------------------------------------------------------------
(* approve and reject                                                      *)

\* Mutant: any row that is not decided yet may be approved.
ApprovableUndecided(status) == status \in {"pending_scan", "scan_passed", "scan_failed"}

Approvable(status) == status = "scan_passed"

Rejectable(status) == status \in {"scan_passed", "scan_failed"}

StartApprove(h, s) ==
    /\ job[h].phase = "idle"
    /\ Latest(s) # 0
    /\ Approvable(rows[Latest(s)].status)
    /\ job' = [job EXCEPT ![h] = [phase |-> "approving", doc |-> rows[Latest(s)].doc,
                                  row |-> Latest(s), replaces |-> FALSE, texts |-> {}]]
    /\ UNCHANGED <<documents, points, rows, file, reseeds>>
    /\ Strays(s, Busy(s))

\* None of the row's updates has a condition on the status it finds.
ApproveRow(h) ==
    /\ job[h].phase = "approving"
    /\ rows' = [rows EXCEPT ![job[h].row].status = "approved", ![job[h].row].approved = TRUE]
    /\ job' = [job EXCEPT ![h].phase = "activating"]
    /\ UNCHANGED <<documents, points, file, reseeds, strayed>>

\* set_ingestion_status: every chunk of the source, whichever upload it is from.
Activate(h) ==
    /\ job[h].phase = "activating"
    /\ LET mine == ChunksOf(SourceOf(job[h].doc))
       IN  points' = (points \ mine) \union {[p EXCEPT !.live = TRUE] : p \in mine}
    /\ job' = [job EXCEPT ![h].phase = "marking"]
    /\ UNCHANGED <<documents, rows, file, reseeds, strayed>>

MarkActive(h) ==
    /\ job[h].phase = "marking"
    /\ rows' = [rows EXCEPT ![job[h].row].status = "active"]
    /\ job' = [job EXCEPT ![h] = Idle]
    /\ UNCHANGED <<documents, points, file, reseeds, strayed>>

StartReject(h, s) ==
    /\ job[h].phase = "idle"
    /\ Latest(s) # 0
    /\ Rejectable(rows[Latest(s)].status)
    /\ job' = [job EXCEPT ![h] = [phase |-> "rejecting", doc |-> rows[Latest(s)].doc,
                                  row |-> Latest(s), replaces |-> FALSE, texts |-> {}]]
    /\ UNCHANGED <<documents, points, rows, file, reseeds>>
    /\ Strays(s, Busy(s))

DeleteRejected(h) ==
    /\ job[h].phase = "rejecting"
    /\ points' = points \ ChunksOf(SourceOf(job[h].doc))
    /\ job' = [job EXCEPT ![h].phase = "closing"]
    /\ UNCHANGED <<documents, rows, file, reseeds, strayed>>

RejectRow(h) ==
    /\ job[h].phase = "closing"
    /\ rows' = [rows EXCEPT ![job[h].row].status = "rejected"]
    /\ job' = [job EXCEPT ![h] = Idle]
    /\ UNCHANGED <<documents, points, file, reseeds, strayed>>

----------------------------------------------------------------------------
\* A request fails, or its worker dies, between two steps.
Fail(h) ==
    /\ job[h].phase # "idle"
    /\ job' = [job EXCEPT ![h] = Idle]
    /\ UNCHANGED <<documents, points, rows, file, reseeds>>
    /\ Strays(SourceOf(job[h].doc), job[h].phase = "registering")

\* seed_db.py upserts what it finds in the policy directory, as active.
Reseed(s) ==
    /\ reseeds < MaxReseeds
    /\ file[s] # 0
    /\ points' = points \union Chunks(file[s], TRUE)
    /\ reseeds' = reseeds + 1
    /\ UNCHANGED <<documents, rows, file, job>>
    /\ Strays(s, TRUE)

SubmitStep(h) ==
    \/ \E s \in Sources : StartSubmit(h, s)
    \/ StoreFile(h)
    \/ DeleteReplaced(h)
    \/ Upsert(h)
    \/ CreatePending(h)
    \/ ReadBack(h)
    \/ RecordPassed(h)
    \/ RecordFailed(h)
    \/ Purge(h)

DecisionStep(h) ==
    \/ \E s \in Sources : StartApprove(h, s) \/ StartReject(h, s)
    \/ ApproveRow(h)
    \/ Activate(h)
    \/ MarkActive(h)
    \/ DeleteRejected(h)
    \/ RejectRow(h)

Next ==
    \/ \E h \in Handlers : SubmitStep(h) \/ DecisionStep(h) \/ Fail(h)
    \/ \E s \in Sources : Reseed(s)

Spec == Init /\ [][Next]_vars

----------------------------------------------------------------------------
(* What the workflow promises.                                             *)

\* Documents, chunks, rows and requests keep their shapes, and every request
\* holds numbers of documents and rows that exist.
TypeOK ==
    /\ documents \in Seq([source : Sources, seeded : BOOLEAN])
    /\ Len(documents) <= MaxUploads
    /\ points \subseteq Point
    /\ \A p \in points : p.doc \in DOMAIN documents
    /\ rows \in Seq(Row)
    /\ \A i \in DOMAIN rows : rows[i].doc \in DOMAIN documents
    /\ file \in [Sources -> 0..Len(documents)]
    /\ job \in [Handlers -> Job]
    /\ \A h \in Handlers :
         /\ job[h].phase # "idle" => job[h].doc \in DOMAIN documents
         /\ job[h].phase \in {"scanning", "recording", "purging"} \union ApprovePhases
                               \union RejectPhases => job[h].row \in DOMAIN rows
    /\ reseeds \in 0..MaxReseeds
    /\ strayed \subseteq Sources

\* Whatever overlaps or fails, short of seed_db.py beside the server: if a chunk of
\* a source is searchable, and was not seeded, an admin approved some upload of the
\* source whose scan passed.
LiveHasApproval ==
    reseeds = 0 => \A p \in points : p.live =>
        \/ documents[p.doc].seeded
        \/ \E i \in DOMAIN rows : /\ SourceOf(rows[i].doc) = SourceOf(p.doc)
                                  /\ rows[i].approved

\* No race of uploads, approvals and rejections, none of whose updates looks at
\* the status it overwrites, gets a row out of scan_failed other than by rejecting it.
FailedStaysFailed ==
    [][\A i \in DOMAIN rows :
         rows[i].status = "scan_failed" => rows'[i].status \in {"scan_failed", "rejected"}]_vars

\* upload_policy's docstring: a document "becomes live only after a separate
\* approval, once its content has passed the guardrails scan".
LiveWasScanned ==
    \A p \in points : p.live =>
        \/ documents[p.doc].seeded
        \/ \E i \in DOMAIN rows : /\ rows[i].approved
                                  /\ <<p.doc, p.part>> \in rows[i].scanned

\* It holds of every source whose requests took turns, whatever happened to the other
\* sources, and whatever failed elsewhere than between the chunks and their row.
LiveWasScannedInTurn ==
    \A p \in points : p.live =>
        \/ documents[p.doc].seeded
        \/ SourceOf(p.doc) \in strayed
        \/ \E i \in DOMAIN rows : /\ rows[i].approved
                                  /\ <<p.doc, p.part>> \in rows[i].scanned

\* Re-uploading a file name replaces the document: two uploads of one source whose
\* requests take turns are never in the collection together.
OneUploadPerSource ==
    \A p, q \in points :
        SourceOf(p.doc) = SourceOf(q.doc) /\ SourceOf(p.doc) \notin strayed => p.doc = q.doc

\* mark_active's docstring: a row left at "approved" is of a document that is
\* "never searchable".
ApprovedIsUnsearchable ==
    \A i \in DOMAIN rows :
        rows[i].status = "approved" /\ ~Busy(SourceOf(rows[i].doc)) =>
            ~\E p \in points : p.doc = rows[i].doc /\ p.live
----------------------------------------------------------------------------
(* Refinement: what the collection shows of a source is Quarantine.        *)

\* All that the collection holds of the source was in these texts.
ScannedBy(s, texts) == \A p \in ChunksOf(s) : <<p.doc, p.part>> \in texts

\* The rows of the source that speak for all that the collection holds of it.
Speaking(s) ==
    {i \in DOMAIN rows : SourceOf(rows[i].doc) = s /\ ScannedBy(s, rows[i].scanned)}

StageOf(s) ==
    IF s \in strayed THEN "unsupervised"
    ELSE IF ChunksOf(s) = {} THEN "empty"
    ELSE IF \E p, q \in ChunksOf(s) : p.doc # q.doc \/ p.live # q.live THEN "mixed"
    ELSE IF \A p \in ChunksOf(s) : p.live THEN "open"
    ELSE IF \E i \in Speaking(s) : rows[i].approved THEN "approved"
    ELSE IF \E i \in Speaking(s) : rows[i].status = "scan_passed" THEN "passed"
    ELSE IF \E i \in Speaking(s) : rows[i].status = "scan_failed" THEN "failed"
    ELSE "held"

Promise == INSTANCE Quarantine WITH stage <- [s \in Sources |-> StageOf(s)]

\* The workflow keeps that promise: what is opened to search is one upload, wholly
\* read by a scan that passed and approved after it; what failed its scan is only
\* removed; and a source leaves this order only by straying.
HonoursQuarantine == Promise!QuarantineSpec
=============================================================================
