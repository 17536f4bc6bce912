---------------------------- MODULE DocumentStore ----------------------------
(***************************************************************************)
(* Documents, their blobs and the objects behind them: three records of    *)
(* the same bytes that no single transaction covers.                       *)
(*                                                                         *)
(*  - the document and document_part tables (documents/service.py);        *)
(*  - the media table, one row per object key (media/service.py);          *)
(*  - the object store, written before the rows and deleted before them.   *)
(*                                                                         *)
(* Calls are POST /documents/{id}/finalize and mining runs, which finalize *)
(* the document too, materialize its parts and record their thumbnails.    *)
(* They interleave, await by await, with DELETE /documents, with the two   *)
(* scheduled sweeps and with a client that may overwrite its upload while  *)
(* the presigned URL lasts.  A transaction is one step.                    *)
(***************************************************************************)
EXTENDS Naturals, FiniteSets

CONSTANTS
    Docs,         \* document ids
    PageCount,    \* pages of a split document
    Finalizers,   \* POST /documents/{id}/finalize calls
    Runs,         \* mining runs
    NoKey,        \* NULL, where a row may refer to a blob
    MaxPuts,      \* bound: client uploads per document
    MaxCrashes,   \* bound: runs that die or raise half-way
    MaxFaults     \* bound: object-store calls that fail

ASSUME ConstantsAssumption ==
    /\ PageCount \in Nat \ {0}
    /\ Finalizers \cap Runs = {}
    /\ MaxPuts \in Nat
    /\ MaxCrashes \in Nat
    /\ MaxFaults \in Nat

(* Object keys: page 0 is the original; every blob may have a thumbnail.     *)
Pages == 1 .. PageCount
Keys == [doc: Docs, page: Pages \cup {0}, thumb: BOOLEAN]
Original(d) == [doc |-> d, page |-> 0, thumb |-> FALSE]
PageKey(d, p) == [doc |-> d, page |-> p, thumb |-> FALSE]
ThumbOf(k) == [k EXCEPT !.thumb = TRUE]

ASSUME NoKeyAssumption == NoKey \notin Keys

VARIABLES
    doc,       \* the document table, and the history of each document
    part,      \* the document_part table, by document and locator
    media,     \* the media table, by object key
    store,     \* the keys the object store holds
    content,   \* what the client's upload holds
    call,      \* the calls in flight
    sweep,     \* soft_delete_invalid: the ids it selected
    purge,     \* purge_expired: keys to delete, keys deleted
    crashes, faults

vars == <<doc, part, media, store, content, call, sweep, purge, crashes, faults>>

Calls == Finalizers \cup Runs

(* What validate_object detects: a PDF, an image, a type that is accepted    *)
(* but not mined, or one that is refused (or too large).                     *)
Contents == {"pdf", "image", "other", "bad"}
Mimes == {"none", "pdf", "image", "other"}

(* "uploads" counts client PUTs.  "unclean" remembers that a run died on the *)
(* document, that it was deleted under a call, or that two runs disagreed on *)
(* what its page 1 is; "swept" that the sweep of invalid ones deleted it.    *)
Documents == [status: {"ABSENT", "NEW", "READY", "INVALID", "PURGED"},
              mime: Mimes, deleted: BOOLEAN,
              uploads: Nat, unclean: BOOLEAN, swept: BOOLEAN]

(* A part has a blob, which for the source part of an image is the original, *)
(* and a thumbnail once one was recorded.                                    *)
Parts == [blob: Keys \cup {NoKey}, thumb: Keys \cup {NoKey}]
NoPart == [blob |-> NoKey, thumb |-> NoKey]

Steps == {"idle", "validate", "set_invalid", "set_ready", "refetch", "get",
          "download", "page", "upload", "commit", "thumb", "thumb_upload",
          "thumb_insert", "record", "done"}
CallStates == [step: Steps, doc: Docs, page: Nat, mime: Mimes]

Exists(d) == doc[d].status \notin {"ABSENT", "PURGED"}
Visible(d) == Exists(d) /\ ~doc[d].deleted
InFlight(c) == call[c].step \notin {"idle", "done"}

Init ==
    /\ doc = [d \in Docs |-> [status |-> "ABSENT", mime |-> "none",
                deleted |-> FALSE, uploads |-> 0, unclean |-> FALSE,
                swept |-> FALSE]]
    /\ part = [d \in Docs |-> [p \in Pages |-> NoPart]]
    /\ media = [k \in Keys |-> "none"]
    /\ store = {}
    /\ content = [d \in Docs |-> "bad"]
    /\ call \in [Calls -> {[step |-> "idle", doc |-> d, page |-> 0,
                            mime |-> "none"] : d \in Docs}]
    /\ sweep = {}
    /\ purge = [step |-> "idle", todo |-> {}, gone |-> {}]
    /\ crashes = 0
    /\ faults = 0
-----------------------------------------------------------------------------
(* Uploads.                                                                 *)

(* request_upload: the original's blob row and a NEW document, together. *)
RequestUpload(d) ==
    /\ doc[d].status = "ABSENT"
    /\ doc' = [doc EXCEPT ![d].status = "NEW"]
    /\ media' = [media EXCEPT ![Original(d)] = "live"]
    /\ UNCHANGED <<part, store, content, call, sweep, purge, crashes, faults>>

(* The client PUTs to its presigned URL, which lasts 15 minutes, again and   *)
(* again if it likes: the server never learns when.                          *)
ClientPut(d) ==
    /\ media[Original(d)] \in {"live", "deleted"}
    /\ doc[d].uploads < MaxPuts
    /\ doc' = [doc EXCEPT ![d].uploads = @ + 1]
    /\ store' = store \cup {Original(d)}
    /\ \E c \in Contents : content' = [content EXCEPT ![d] = c]
    /\ UNCHANGED <<part, media, call, sweep, purge, crashes, faults>>

-----------------------------------------------------------------------------
(* Finalizing.                                                              *)

(* The next step of a call; "idle" means that it raised and may be made      *)
(* again: a task is retried, a client may repeat its request.                *)
To(c, step) ==
    call' = [call EXCEPT ![c] =
               IF step \in {"idle", "done"}
               THEN [@ EXCEPT !.step = step, !.page = 0, !.mime = "none"]
               ELSE [@ EXCEPT !.step = step]]

(* route_by_type, on the record that finalize or get returned. *)
Routed(c, mime) ==
    IF mime \notin {"pdf", "image"} THEN To(c, "done")
    ELSE call' = [call EXCEPT ![c] =
                    [@ EXCEPT !.mime = mime, !.page = 1,
                       !.step = IF mime = "pdf" THEN "download" ELSE "page"]]

(* finalize up to its first await: a visible document that is NEW is going   *)
(* to be validated; otherwise the endpoint answers 409 and the activity gets *)
(* the record a second time.                                                 *)
FinalizeFetch(c, d) ==
    /\ call[c].step = "idle" /\ call[c].doc = d
    /\ Visible(d)
    /\ IF doc[d].status = "NEW" THEN To(c, "validate")
       ELSE To(c, IF c \in Finalizers THEN "done" ELSE "get")
    /\ UNCHANGED <<doc, part, media, store, content, sweep, purge, crashes, faults>>

(* validate_object streams the stored object and judges what it holds. *)
Validate(c) ==
    LET d == call[c].doc
    IN  /\ call[c].step = "validate"
        /\ Original(d) \in store
        /\ IF content[d] = "bad" THEN To(c, "set_invalid")
           ELSE call' = [call EXCEPT ![c] = [@ EXCEPT !.step = "set_ready",
                                                     !.mime = content[d]]]
        /\ UNCHANGED <<doc, part, media, store, content, sweep, purge,
                       crashes, faults>>

(* Mutant of StreamFails: any failure of the validation counts as a verdict. *)
StreamFailsInvalid(c) ==
    /\ call[c].step = "validate"
    /\ \/ Original(call[c].doc) \notin store /\ UNCHANGED faults
       \/ faults < MaxFaults /\ faults' = faults + 1
    /\ To(c, "set_invalid")
    /\ UNCHANGED <<doc, part, media, store, content, sweep, purge, crashes>>

(* There is no object yet, or the store fails: the call raises and the       *)
(* document stays NEW.                                                       *)
StreamFails(c) ==
    /\ call[c].step = "validate"
    /\ \/ Original(call[c].doc) \notin store /\ UNCHANGED faults
       \/ faults < MaxFaults /\ faults' = faults + 1
    /\ To(c, "idle")
    /\ UNCHANGED <<doc, part, media, store, content, sweep, purge, crashes>>

(* Mutant of SetStatus: the two columns are swapped.                         *)
SetStatusSwapped(d, status, mime) ==
    doc' = [doc EXCEPT ![d] =
              IF Exists(d) THEN [@ EXCEPT !.status = mime, !.mime = status]
              ELSE @]

(* UPDATE document: no row is hit once the document is purged.               *)
SetStatus(d, status, mime) ==
    doc' = [doc EXCEPT ![d] =
              IF Exists(d) THEN [@ EXCEPT !.status = status, !.mime = mime]
              ELSE @]

(* _set_status(INVALID), whatever the status has become; then the validation *)
(* error is raised again, which a run's task retries.                        *)
SetInvalid(c) ==
    LET d == call[c].doc
    IN  /\ call[c].step = "set_invalid"
        /\ SetStatus(d, "INVALID", doc[d].mime)
        /\ To(c, IF c \in Runs THEN "idle" ELSE "done")
        /\ UNCHANGED <<part, media, store, content, sweep, purge, crashes, faults>>

(* The transaction that stores MIME and size and marks the document READY,   *)
(* whatever its status has become, deleted or not.                           *)
SetReady(c) ==
    LET d == call[c].doc
    IN  /\ call[c].step = "set_ready"
        /\ SetStatus(d, "READY", call[c].mime)
        /\ To(c, IF c \in Runs THEN "refetch" ELSE "done")
        /\ UNCHANGED <<part, media, store, content, sweep, purge, crashes, faults>>

(* What a run's finalize returns and route_by_type reads: the record, which  *)
(* finalize fetches again, deleted or not, after its transaction, and get,   *)
(* after AlreadyFinalized, only if it is not deleted by then.                *)
ReturnRecord(c) ==
    LET d == call[c].doc
    IN  /\ call[c].step \in {"refetch", "get"}
        /\ IF Exists(d) /\ (call[c].step = "get" => ~doc[d].deleted)
           THEN Routed(c, doc[d].mime) ELSE To(c, "idle")
        /\ UNCHANGED <<doc, part, media, store, content, sweep, purge,
                       crashes, faults>>

-----------------------------------------------------------------------------
(* Mining: parts.                                                           *)

(* The PDF and image tasks take a READY document of whatever type. *)
StartDirect(r, d) ==
    /\ call[r].step = "idle" /\ call[r].doc = d
    /\ Visible(d) /\ doc[d].status = "READY"
    /\ \E kind \in {"pdf", "image"} : Routed(r, kind)
    /\ UNCHANGED <<doc, part, media, store, content, sweep, purge, crashes, faults>>

(* media.download: the row must not be deleted and the object must be there. *)
Downloadable(k) == media[k] = "live" /\ k \in store

(* The original is downloaded and split, which raises unless it is a PDF;    *)
(* one that validation calls bad, by its size, may be one.                   *)
Download(r) ==
    LET d == call[r].doc
    IN  /\ call[r].step = "download"
        /\ \/ Downloadable(Original(d)) /\ content[d] \in {"pdf", "bad"} /\ To(r, "page")
           \/ ~(Downloadable(Original(d)) /\ content[d] = "pdf") /\ To(r, "idle")
        /\ UNCHANGED <<doc, part, media, store, content, sweep, purge,
                       crashes, faults>>

LastPage(r) == IF call[r].mime = "image" THEN 1 ELSE PageCount
NextPage(r) ==
    LET next == call[r].page + 1
    IN  call' = [call EXCEPT ![r] =
                   IF next <= LastPage(r) THEN [@ EXCEPT !.step = "page", !.page = next]
                   ELSE [@ EXCEPT !.step = "thumb", !.page = 1]]

(* Mutant of PageLookup: the row is committed before the object is there.    *)
PageLookupCommits(r) ==
    LET d == call[r].doc
    IN  /\ call[r].step = "page"
        /\ IF part[d][call[r].page] # NoPart THEN NextPage(r)
           ELSE To(r, "commit")
        /\ UNCHANGED <<doc, part, media, store, content, sweep, purge,
                       crashes, faults>>

(* ensure_part and ensure_source_part: an existing part is used as it is;    *)
(* a new page is rendered and uploaded first, a source part only needs its   *)
(* document, which must be visible.                                          *)
PageLookup(r) ==
    LET d == call[r].doc
    IN  /\ call[r].step = "page"
        /\ IF part[d][call[r].page] # NoPart THEN NextPage(r)
           ELSE IF call[r].mime = "pdf" THEN To(r, "upload")
           ELSE IF Visible(d) THEN To(r, "commit") ELSE To(r, "idle")
        /\ UNCHANGED <<doc, part, media, store, content, sweep, purge,
                       crashes, faults>>

UploadPage(r) ==
    /\ call[r].step = "upload"
    /\ store' = store \cup {PageKey(call[r].doc, call[r].page)}
    /\ To(r, "commit")
    /\ UNCHANGED <<doc, part, media, content, sweep, purge, crashes, faults>>

(* insert_blob: a new row, or the existing one with new MIME and size; a row *)
(* already deleted stays deleted.                                            *)
Blob(k) == IF media[k] = "none" THEN [media EXCEPT ![k] = "live"] ELSE media

(* The transaction of ensure_part, or the insert of ensure_source_part: the  *)
(* first part at a locator wins, without regard to the document's deletion.  *)
(* A page that loses to a source part leaves a blob row nothing refers to.   *)
CommitPart(r) ==
    LET d == call[r].doc
        p == call[r].page
        blob == IF call[r].mime = "pdf" THEN PageKey(d, p) ELSE Original(d)
    IN  /\ call[r].step = "commit" /\ Exists(d)
        /\ media' = IF call[r].mime = "pdf" THEN Blob(blob) ELSE media
        /\ part' = [part EXCEPT ![d][p].blob = IF @ = NoKey THEN blob ELSE @]
        /\ doc' = [doc EXCEPT ![d].unclean = @ \/ part[d][p].blob \notin {NoKey, blob}]
        /\ NextPage(r)
        /\ UNCHANGED <<store, content, sweep, purge, crashes, faults>>

-----------------------------------------------------------------------------
(* Mining: thumbnails.                                                      *)

(* A page is mined from its part's blob, an image always from the original.  *)
Source(r) == IF call[r].mime = "image" THEN Original(call[r].doc)
             ELSE part[call[r].doc][call[r].page].blob

(* The page's blob is downloaded and processed; ensure_thumb then looks for  *)
(* a thumbnail that is not deleted.                                          *)
ThumbLookup(r) ==
    /\ call[r].step = "thumb"
    /\ To(r, IF ~Downloadable(Source(r)) THEN "idle"
             ELSE IF media[ThumbOf(Source(r))] = "live" THEN "record"
             ELSE "thumb_upload")
    /\ UNCHANGED <<doc, part, media, store, content, sweep, purge, crashes, faults>>

ThumbUpload(r) ==
    /\ call[r].step = "thumb_upload"
    /\ store' = store \cup {ThumbOf(Source(r))}
    /\ To(r, "thumb_insert")
    /\ UNCHANGED <<doc, part, media, content, sweep, purge, crashes, faults>>

(* The thumbnail's row is committed on its own: nothing refers to it yet.    *)
ThumbInsert(r) ==
    /\ call[r].step = "thumb_insert"
    /\ media' = Blob(ThumbOf(Source(r)))
    /\ To(r, "record")
    /\ UNCHANGED <<doc, part, store, content, sweep, purge, crashes, faults>>

(* set_part_thumb, if the part has none; another blob's thumbnail stays, and *)
(* then nothing refers to the one just made.                                 *)
RecordThumb(r) ==
    LET d == call[r].doc
        p == call[r].page
        new == ThumbOf(Source(r))
    IN  /\ call[r].step = "record"
        /\ part' = [part EXCEPT ![d][p].thumb = IF @ = NoKey THEN new ELSE @]
        /\ doc' = [doc EXCEPT ![d].unclean = @ \/ part[d][p].thumb \notin {NoKey, new}]
        /\ IF p = LastPage(r) THEN To(r, "done")
           ELSE call' = [call EXCEPT ![r] = [@ EXCEPT !.step = "thumb", !.page = p + 1]]
        /\ UNCHANGED <<media, store, content, sweep, purge, crashes, faults>>

(* A run dies, or one of its other calls raises, at any point of its way. *)
RunStops(c) ==
    /\ crashes < MaxCrashes
    /\ crashes' = crashes + 1
    /\ InFlight(c)
    /\ To(c, "idle")
    /\ doc' = [doc EXCEPT ![call[c].doc].unclean = TRUE]
    /\ UNCHANGED <<part, media, store, content, sweep, purge, faults>>

-----------------------------------------------------------------------------
(* Deletion and the scheduled sweeps.                                       *)

(* Mutant of Blobs: the thumbnails are forgotten.                            *)
BlobsNoThumbs(d) == ({Original(d)} \cup {part[d][p].blob : p \in Pages}) \ {NoKey}

(* The keys of all blobs that a document and its parts refer to.             *)
Blobs(d) ==
    ({Original(d)} \cup {part[d][p].blob : p \in Pages}
                   \cup {part[d][p].thumb : p \in Pages}) \ {NoKey}

(* Mutant of DeleteDocs: only the blobs are marked.                          *)
DeleteDocsBlobsOnly(ids, swept) ==
    LET del == {d \in ids : Visible(d)}
    IN  /\ media' = [k \in Keys |->
                       IF media[k] = "live" /\ \E d \in del : k \in Blobs(d)
                       THEN "deleted" ELSE media[k]]
        /\ UNCHANGED <<doc, part, store, content, call, purge, crashes, faults>>

(* delete: one transaction marks the documents that are not deleted yet and  *)
(* all blobs they and their parts refer to.                                  *)
DeleteDocs(ids, swept) ==
    LET del == {d \in ids : Visible(d)}
    IN  /\ doc' = [d \in Docs |->
                     IF d \in del
                     THEN [doc[d] EXCEPT !.deleted = TRUE, !.swept = swept,
                             !.unclean = @ \/ \E c \in Calls :
                                                  InFlight(c) /\ call[c].doc = d]
                     ELSE doc[d]]
        /\ media' = [k \in Keys |->
                       IF media[k] = "live" /\ \E d \in del : k \in Blobs(d)
                       THEN "deleted" ELSE media[k]]
        /\ UNCHANGED <<part, store, content, call, purge, crashes, faults>>

(* DELETE /documents/{id}, and DELETE /documents with a list of ids. *)
Delete(ids) ==
    /\ \E d \in ids : Visible(d)
    /\ DeleteDocs(ids, FALSE)
    /\ UNCHANGED sweep

(* soft_delete_invalid: select the invalid documents, then delete them.      *)
SweepSelect ==
    /\ sweep = {}
    /\ sweep' = {d \in Docs : Visible(d) /\ doc[d].status = "INVALID"}
    /\ sweep' # {}
    /\ UNCHANGED <<doc, part, media, store, content, call, purge, crashes, faults>>

SweepDelete ==
    /\ sweep # {}
    /\ DeleteDocs(sweep, TRUE)
    /\ sweep' = {}

(* The purge window, a week, passes.  Calls on the document, and the         *)
(* client's presigned URL, are long over.                                    *)
Elapse(d) ==
    /\ doc[d].deleted
    /\ \A c \in Calls : ~(InFlight(c) /\ call[c].doc = d)
    /\ \E k \in Keys : k.doc = d /\ media[k] = "deleted"
    /\ media' = [k \in Keys |-> IF k.doc = d /\ media[k] = "deleted" THEN "due"
                                ELSE media[k]]
    /\ UNCHANGED <<doc, part, store, content, call, sweep, purge, crashes, faults>>

(* purge_expired: select the due rows. *)
PurgeSelect ==
    /\ purge.step = "idle"
    /\ \E k \in Keys : media[k] = "due"
    /\ purge' = [step |-> "objects", gone |-> {},
                 todo |-> {k \in Keys : media[k] = "due"}]
    /\ UNCHANGED <<doc, part, media, store, content, call, sweep, crashes, faults>>

(* Mutant of PurgeObject: a failed object delete is taken for a success.     *)
PurgeObjectIgnoresFailure(k) ==
    /\ purge.step = "objects" /\ k \in purge.todo
    /\ purge' = [purge EXCEPT !.todo = @ \ {k}, !.gone = @ \cup {k}]
    /\ \/ store' = store \ {k} /\ UNCHANGED faults
       \/ faults < MaxFaults /\ faults' = faults + 1 /\ UNCHANGED store
    /\ UNCHANGED <<doc, part, media, content, call, sweep, crashes>>

(* purge_one: delete the object; on a failure leave the row for the next     *)
(* sweep.                                                                    *)
PurgeObject(k) ==
    /\ purge.step = "objects" /\ k \in purge.todo
    /\ \/ /\ store' = store \ {k}
          /\ purge' = [purge EXCEPT !.todo = @ \ {k}, !.gone = @ \cup {k}]
          /\ UNCHANGED faults
       \/ /\ faults < MaxFaults /\ faults' = faults + 1
          /\ purge' = [purge EXCEPT !.todo = @ \ {k}]
          /\ UNCHANGED store
    /\ UNCHANGED <<doc, part, media, content, call, sweep, crashes>>

(* DELETE FROM media, with its cascades: the document that owns a deleted    *)
(* original goes with all its parts, a part goes with its blob, and a part   *)
(* whose thumbnail goes loses the reference.                                 *)
PurgeRows ==
    LET purged(d) == Original(d) \in purge.gone
    IN  /\ purge.step = "objects" /\ purge.todo = {}
        /\ media' = [k \in Keys |-> IF k \in purge.gone THEN "none" ELSE media[k]]
        /\ part' = [d \in Docs |-> [p \in Pages |->
                      IF purged(d) \/ part[d][p].blob \in purge.gone THEN NoPart
                      ELSE [part[d][p] EXCEPT !.thumb = IF @ \in purge.gone THEN NoKey
                                                        ELSE @]]]
        /\ doc' = [d \in Docs |-> IF purged(d) THEN [doc[d] EXCEPT !.status = "PURGED"]
                                  ELSE doc[d]]
        /\ purge' = [step |-> "idle", todo |-> {}, gone |-> {}]
        /\ UNCHANGED <<store, content, call, sweep, crashes, faults>>

-----------------------------------------------------------------------------
MiningStep(r) == \/ Download(r) \/ PageLookup(r) \/ UploadPage(r) \/ CommitPart(r)
                 \/ ThumbLookup(r) \/ ThumbUpload(r) \/ ThumbInsert(r)
                 \/ RecordThumb(r)

FinalizeStep(c) == \/ Validate(c) \/ StreamFails(c) \/ SetInvalid(c)
                   \/ SetReady(c) \/ ReturnRecord(c)

Purge == PurgeSelect \/ (\E k \in Keys : PurgeObject(k)) \/ PurgeRows

Next ==
    \/ \E d \in Docs : \/ RequestUpload(d) \/ ClientPut(d) \/ Elapse(d)
                       \/ \E c \in Calls : FinalizeFetch(c, d)
                       \/ \E r \in Runs : StartDirect(r, d)
    \/ \E c \in Calls : FinalizeStep(c) \/ RunStops(c)
    \/ \E r \in Runs : MiningStep(r)
    \/ \E ids \in SUBSET Docs : Delete(ids)
    \/ SweepSelect \/ SweepDelete
    \/ Purge

Spec == Init /\ [][Next]_vars

(* Time passes and the scheduler keeps kicking the purge.                    *)
Fairness == WF_vars(Purge) /\ \A d \in Docs : WF_vars(Elapse(d))

FairSpec == Spec /\ Fairness
-----------------------------------------------------------------------------
(* Properties.                                                              *)

TypeOK ==
    /\ doc \in [Docs -> Documents]
    /\ part \in [Docs -> [Pages -> Parts]]
    /\ media \in [Keys -> {"none", "live", "deleted", "due"}]
    /\ store \subseteq Keys
    /\ content \in [Docs -> Contents]
    /\ call \in [Calls -> CallStates]
    /\ sweep \subseteq Docs
    /\ purge.step \in {"idle", "objects"}
    /\ purge.todo \subseteq Keys /\ purge.gone \subseteq Keys
    /\ crashes \in Nat /\ faults \in Nat

Derived(k) == k.page # 0 \/ k.thumb

(* service.py:13 "the S3 upload is always sequenced before the transaction": *)
(* a derived blob that is listed can be downloaded.                          *)
LiveBlobHasObject == \A k \in Keys : Derived(k) /\ media[k] = "live" => k \in store

(* media/service.py:240 the row is removed "only once its object is gone":   *)
(* while no run dies, an object has a row, or its uploader is about to write *)
(* it, so that a later purge finds it.                                       *)
ObjectHasRow ==
    crashes = 0 =>
        \A k \in store :
            \/ media[k] # "none"
            \/ \E r \in Runs :
                  \/ call[r].step = "commit" /\ k = PageKey(call[r].doc, call[r].page)
                  \/ call[r].step = "thumb_insert" /\ k = ThumbOf(Source(r))

(* A document a client can see shows it all: its original, its parts and     *)
(* their thumbnails have blobs that are not on their way to be purged.       *)
VisibleIsComplete ==
    \A d \in Docs : Visible(d) => \A k \in Blobs(d) : media[k] = "live"

(* The verdict on an upload that is written once stands, whoever else        *)
(* finalizes the document: validation errors are the only way to INVALID.    *)
VerdictStands ==
    [][\A d \in Docs :
          doc[d].status \in {"READY", "INVALID"} /\ doc'[d].uploads <= 1 =>
              doc'[d].status \in {doc[d].status, "PURGED"}]_vars

(* documents/service.py:327 "Soft-delete all invalid documents": the sweep   *)
(* takes no document whose only upload was good.                             *)
SweepSparesGood ==
    \A d \in Docs : doc[d].swept /\ doc[d].uploads <= 1 => content[d] = "bad"

(* documents/service.py:288 "route all their blobs into the purge window":   *)
(* a document that is gone left no listed blob and no object behind.         *)
LeavesNothing(d) ==
    \A k \in Keys : k.doc = d => /\ media[k] # "live"
                                 /\ k \in store => media[k] # "none"

PurgedLeavesNothing ==
    \A d \in Docs : doc[d].status = "PURGED" => LeavesNothing(d)

(* The same, where nothing raced the deletion and no run died half-way.      *)
CleanPurgeLeavesNothing ==
    \A d \in Docs : doc[d].status = "PURGED" /\ ~doc[d].unclean => LeavesNothing(d)

(* A deleted document's rows and objects are all gone eventually, although   *)
(* object-store calls fail on the way.                                       *)
DeletedIsReclaimed ==
    \A d \in Docs :
        doc[d].deleted /\ ~doc[d].unclean
            ~> \A k \in Keys : k.doc = d => media[k] = "none" /\ k \notin store
=============================================================================
