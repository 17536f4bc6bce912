------------------------ MODULE DocumentStoreProofs ------------------------
(***************************************************************************)
(* Theorems about DocumentStore, for any number of documents, pages, calls *)
(* and faults: its type invariant and every safety property of its runs.   *)
(*                                                                         *)
(* VisibleIsComplete and LiveBlobHasObject are parts of one inductive      *)
(* invariant, Consistent, which says what a call between two of its steps  *)
(* may rely on, and why the purge cannot take it away: a row that is due   *)
(* has no call on its document, and a deleted document gets no new one.    *)
(* Two more rest on it: Judged, on what is known of an upload written once *)
(* (VerdictStands, SweepSparesGood), and Traced, on who accounts for an    *)
(* object and for a row (ObjectHasRow, CleanPurgeLeavesNothing).           *)
(***************************************************************************)
EXTENDS DocumentStore, TLAPS

(* A part refers to blobs of its own document, and their rows exist. *)
PartsRefer ==
    \A d \in Docs, p \in Pages :
        \A k \in {part[d][p].blob, part[d][p].thumb} :
            k # NoKey => k.doc = d /\ media[k] # "none"

(* So does a document, to its original. *)
OriginalsExist == \A d \in Docs : Exists(d) => media[Original(d)] # "none"

(* A part has a blob: a thumbnail is recorded only for a part that is there. *)
PartsHaveBlobs ==
    \A d \in Docs, p \in Pages : part[d][p].thumb # NoKey => part[d][p].blob # NoKey

(* A blob is marked for the purge only with its document. *)
Began(d) == doc[d].status # "ABSENT"
OnlyDeletedGo ==
    \A k \in Keys : media[k] \in {"deleted", "due"} =>
                        doc[k.doc].deleted /\ Began(k.doc)

(* What the purge may take belongs to a document that no call works on. *)
Quiet ==
    /\ \A k \in Keys : media[k] = "due" =>
          \A c \in Calls : InFlight(c) => call[c].doc # k.doc
    /\ \A k \in purge.todo \cup purge.gone : media[k] = "due"

SplitSteps == {"page", "upload", "commit"}
ThumbSteps == {"thumb", "thumb_upload", "thumb_insert", "record"}

(* A mining run is at a page; the pages it split before have parts. *)
AtPage(c) ==
    /\ call[c].step \in {"download"} \cup SplitSteps \cup ThumbSteps =>
          call[c].page \in Pages /\ call[c].mime \in {"pdf", "image"}
    /\ call[c].step = "download" => call[c].page = 1
    /\ call[c].step \in SplitSteps \cup ThumbSteps /\ call[c].mime = "image" =>
          call[c].page = 1
    /\ call[c].step = "upload" => call[c].mime = "pdf"
    /\ call[c].step = "set_ready" => call[c].mime \in Contents \ {"bad"}
    /\ call[c].step \in SplitSteps /\ call[c].mime = "pdf" =>
          \A p \in Pages : p < call[c].page => part[call[c].doc][p].blob # NoKey
    /\ call[c].step \in ThumbSteps =>
          \A p \in Pages : call[c].mime = "pdf" \/ p = 1 =>
                              part[call[c].doc][p].blob # NoKey

(* The key a call is about to insert or to refer to. *)
Product(c) == IF call[c].step = "commit" THEN PageKey(call[c].doc, call[c].page)
              ELSE ThumbOf(Source(c))

(* A call about to insert a row has stored its object, and one about to      *)
(* record a thumbnail has its row.                                           *)
InHand(c) ==
    /\ call[c].step = "commit" /\ call[c].mime = "pdf" => Product(c) \in store
    /\ call[c].step = "thumb_insert" => Product(c) \in store
    /\ call[c].step = "record" => media[Product(c)] # "none"

Steady == \A c \in Calls : AtPage(c) /\ InHand(c)

Consistent == /\ TypeOK /\ PartsRefer /\ PartsHaveBlobs /\ OriginalsExist /\ OnlyDeletedGo
              /\ Quiet /\ Steady /\ LiveBlobHasObject
-----------------------------------------------------------------------------
(* Keys.                                                                    *)

LEMMA KeyFacts ==
  ASSUME NEW d \in Docs
  PROVE  /\ Original(d) \in Keys /\ Original(d).doc = d /\ ~Derived(Original(d))
         /\ \A p \in Pages : /\ PageKey(d, p) \in Keys /\ PageKey(d, p).doc = d
                             /\ Derived(PageKey(d, p))
         /\ NoKey \notin Keys
  BY ConstantsAssumption, NoKeyAssumption
  DEF Original, PageKey, Keys, Pages, Derived

LEMMA ThumbFacts ==
  ASSUME NEW k \in Keys
  PROVE  /\ ThumbOf(k) \in Keys /\ ThumbOf(k).doc = k.doc /\ Derived(ThumbOf(k))
         /\ k.doc \in Docs
  BY DEF ThumbOf, Keys, Derived

LEMMA PartFacts ==
  ASSUME TypeOK, NEW d \in Docs, NEW p \in Pages
  PROVE  /\ part[d][p] \in Parts
         /\ part[d][p].blob \in Keys \cup {NoKey}
         /\ part[d][p].thumb \in Keys \cup {NoKey}
  BY DEF TypeOK, Parts

LEMMA DocFacts ==
  ASSUME TypeOK, NEW d \in Docs
  PROVE  /\ doc[d] \in Documents
         /\ doc[d].status \in {"ABSENT", "NEW", "READY", "INVALID", "PURGED"}
         /\ doc[d].mime \in Mimes /\ doc[d].deleted \in BOOLEAN
         /\ doc[d].uploads \in Nat /\ doc[d].unclean \in BOOLEAN
         /\ doc[d].swept \in BOOLEAN
  BY DEF TypeOK, Documents

LEMMA CallFacts ==
  ASSUME TypeOK, NEW c \in Calls
  PROVE  /\ call[c] \in CallStates /\ call[c].step \in Steps
         /\ call[c].doc \in Docs /\ call[c].page \in Nat
         /\ call[c].mime \in Mimes
  BY DEF TypeOK, CallStates

(* What a document and its parts refer to are blobs of that document. *)
LEMMA BlobsOwned ==
  ASSUME TypeOK, PartsRefer, OriginalsExist, NEW d \in Docs, NEW k \in Blobs(d)
  PROVE  k \in Keys /\ k.doc = d /\ (Exists(d) => media[k] # "none")
<1>1. CASE k = Original(d)
  BY <1>1, KeyFacts DEF OriginalsExist
<1>2. CASE k # Original(d)
  <2>1. PICK p \in Pages : k \in {part[d][p].blob, part[d][p].thumb} /\ k # NoKey
    BY <1>2 DEF Blobs
  <2> QED
    BY <2>1, PartFacts DEF PartsRefer
<1> QED
  BY <1>1, <1>2

(* Whatever a run makes its thumbnail from is a blob of its document. *)
LEMMA SourceTyped ==
  ASSUME TypeOK, PartsRefer, NEW c \in Calls, AtPage(c), call[c].step \in ThumbSteps
  PROVE  /\ Source(c) \in Keys /\ Source(c).doc = call[c].doc
         /\ ThumbOf(Source(c)) \in Keys /\ ThumbOf(Source(c)).doc = call[c].doc
         /\ Derived(ThumbOf(Source(c)))
         /\ Product(c) = ThumbOf(Source(c))
         /\ call[c].page \in Pages
<1>1. call[c].doc \in Docs /\ call[c].page \in Pages /\ call[c].mime \in {"pdf", "image"}
  BY CallFacts DEF AtPage
<1>2. ASSUME call[c].mime = "image" PROVE Source(c) \in Keys /\ Source(c).doc = call[c].doc
  <2>1. Source(c) = Original(call[c].doc)
    BY <1>2 DEF Source
  <2> QED
    BY <1>1, <2>1, KeyFacts
<1>3. ASSUME call[c].mime = "pdf" PROVE Source(c) \in Keys /\ Source(c).doc = call[c].doc
  <2>1. part[call[c].doc][call[c].page].blob # NoKey
    BY <1>1, <1>3 DEF AtPage
  <2>2. Source(c) = part[call[c].doc][call[c].page].blob
    BY <1>3 DEF Source
  <2> QED
    BY <1>1, <2>1, <2>2, PartFacts DEF PartsRefer
<1>4. Source(c) \in Keys /\ Source(c).doc = call[c].doc
  BY <1>1, <1>2, <1>3
<1>5. Product(c) = ThumbOf(Source(c))
  BY DEF Product, ThumbSteps
<1> QED
  BY <1>1, <1>4, <1>5, ThumbFacts
-----------------------------------------------------------------------------
(* What one step does to the calls.                                         *)

(* Only c moves, and keeps its document. *)
Moves(c) == /\ call' \in [Calls -> CallStates]
            /\ call'[c].doc = call[c].doc
            /\ \A e \in Calls \ {c} : call'[e] = call[e]

LEMMA ToMoves ==
  ASSUME TypeOK, NEW c \in Calls, NEW step \in Steps, To(c, step)
  PROVE  /\ Moves(c)
         /\ call'[c].step = step
         /\ step \notin {"idle", "done"} =>
               call'[c].page = call[c].page /\ call'[c].mime = call[c].mime
<1>1. call[c] \in CallStates /\ call \in [Calls -> CallStates]
  BY DEF TypeOK
<1>2. CASE step \in {"idle", "done"}
  <2> DEFINE new == [call[c] EXCEPT !.step = step, !.page = 0, !.mime = "none"]
  <2>1. new \in CallStates /\ new.step = step /\ new.doc = call[c].doc
    BY <1>1 DEF CallStates, Mimes
  <2>2. call' = [call EXCEPT ![c] = new]
    BY <1>2 DEF To
  <2> HIDE DEF new
  <2> QED
    BY <1>1, <1>2, <2>1, <2>2 DEF Moves
<1>3. CASE step \notin {"idle", "done"}
  <2> DEFINE new == [call[c] EXCEPT !.step = step]
  <2>1. /\ new \in CallStates /\ new.step = step /\ new.doc = call[c].doc
        /\ new.page = call[c].page /\ new.mime = call[c].mime
    BY <1>1 DEF CallStates
  <2>2. call' = [call EXCEPT ![c] = new]
    BY <1>3 DEF To
  <2> HIDE DEF new
  <2> QED
    BY <1>1, <2>1, <2>2 DEF Moves
<1> QED
  BY <1>2, <1>3

LEMMA RoutedMoves ==
  ASSUME TypeOK, NEW c \in Calls, NEW mime \in Mimes, Routed(c, mime)
  PROVE  /\ Moves(c)
         /\ call'[c].step \in {"done", "download", "page"}
         /\ call'[c].step # "done" =>
               call'[c].page = 1 /\ call'[c].mime \in {"pdf", "image"}
<1>1. call[c] \in CallStates /\ call \in [Calls -> CallStates]
  BY DEF TypeOK
<1>2. CASE mime \notin {"pdf", "image"}
  <2>1. To(c, "done")
    BY <1>2 DEF Routed
  <2> QED
    BY <2>1, ToMoves DEF Steps
<1>3. CASE mime \in {"pdf", "image"}
  <2> DEFINE new == [call[c] EXCEPT !.mime = mime, !.page = 1,
                       !.step = IF mime = "pdf" THEN "download" ELSE "page"]
  <2>1. /\ new \in CallStates /\ new.step \in {"download", "page"}
        /\ new.doc = call[c].doc /\ new.page = 1 /\ new.mime = mime
    BY <1>1 DEF CallStates, Steps
  <2>2. call' = [call EXCEPT ![c] = new]
    BY <1>3 DEF Routed
  <2> HIDE DEF new
  <2> QED
    BY <1>1, <1>3, <2>1, <2>2 DEF Moves
<1> QED
  BY <1>2, <1>3

LEMMA NextPageMoves ==
  ASSUME TypeOK, NEW c \in Calls, call[c].page \in Pages, NextPage(c)
  PROVE  /\ Moves(c)
         /\ call'[c].mime = call[c].mime /\ call'[c].page \in Pages
         /\ call[c].mime = "image" => call'[c].page = 1
         /\ \/ call'[c].step = "page" /\ call'[c].page = call[c].page + 1
            \/ /\ call'[c].step = "thumb"
               /\ call[c].mime # "image" => call[c].page = PageCount
<1> DEFINE next == call[c].page + 1
           step == IF next <= LastPage(c) THEN "page" ELSE "thumb"
           page == IF next <= LastPage(c) THEN next ELSE 1
           new == [call[c] EXCEPT !.step = step, !.page = page]
<1>1. /\ call[c] \in CallStates /\ call \in [Calls -> CallStates]
      /\ call[c].page \in Nat
  BY DEF TypeOK, CallStates
<1>2. /\ page \in Pages /\ step \in {"page", "thumb"} /\ page \in Nat
      /\ step = "page" => page = call[c].page + 1
      /\ call[c].mime = "image" => page = 1
      /\ step = "thumb" /\ call[c].mime # "image" => call[c].page = PageCount
  BY <1>1, ConstantsAssumption DEF LastPage, Pages
<1>3. call' = [call EXCEPT ![c] = new]
  BY DEF NextPage
<1> HIDE DEF next, step, page
<1>4. /\ new \in CallStates /\ new.step = step /\ new.doc = call[c].doc
      /\ new.page = page /\ new.mime = call[c].mime
  BY <1>1, <1>2 DEF CallStates, Steps
<1> HIDE DEF new
<1> QED
  BY <1>1, <1>2, <1>3, <1>4 DEF Moves
-----------------------------------------------------------------------------
(* Types.                                                                   *)

(* A change of one document that leaves its existence and deletion alone. *)
Updates(d) == /\ doc' \in [Docs -> Documents]
              /\ \A e \in Docs : /\ Exists(e)' = Exists(e)
                                 /\ doc'[e].deleted = doc[e].deleted
                                 /\ Began(e) => Began(e)'

LEMMA SetStatusUpdates ==
  ASSUME TypeOK, NEW d \in Docs, NEW status \in {"READY", "INVALID"},
         NEW mime \in Mimes, SetStatus(d, status, mime)
  PROVE  Updates(d)
<1> DEFINE new == [doc[d] EXCEPT !.status = status, !.mime = mime]
<1>1. doc[d] \in Documents /\ doc \in [Docs -> Documents]
  BY DEF TypeOK
<1>2. /\ new \in Documents /\ new.deleted = doc[d].deleted
      /\ new.status \notin {"ABSENT", "PURGED"}
  BY <1>1 DEF Documents
<1>3. doc' = [doc EXCEPT ![d] = IF Exists(d) THEN new ELSE doc[d]]
  BY DEF SetStatus
<1> HIDE DEF new
<1> QED
  BY <1>1, <1>2, <1>3 DEF Updates, Exists, Began

LEMMA UncleanUpdates ==
  ASSUME TypeOK, NEW d \in Docs, NEW v \in BOOLEAN,
         doc' = [doc EXCEPT ![d].unclean = v]
  PROVE  Updates(d)
<1> DEFINE new == [doc[d] EXCEPT !.unclean = v]
<1>1. doc[d] \in Documents /\ doc \in [Docs -> Documents]
  BY DEF TypeOK
<1>2. new \in Documents /\ new.deleted = doc[d].deleted /\ new.status = doc[d].status
  BY <1>1 DEF Documents
<1>3. doc' = [doc EXCEPT ![d] = new]
  OBVIOUS
<1> HIDE DEF new
<1> QED
  BY <1>1, <1>2, <1>3 DEF Updates, Exists, Began

LEMMA PutUpdates ==
  ASSUME TypeOK, NEW d \in Docs, ClientPut(d)
  PROVE  Updates(d) /\ content' \in [Docs -> Contents]
<1> DEFINE new == [doc[d] EXCEPT !.uploads = @ + 1]
<1>1. doc[d] \in Documents /\ doc \in [Docs -> Documents]
  BY DEF TypeOK
<1>2. new \in Documents /\ new.deleted = doc[d].deleted /\ new.status = doc[d].status
  BY <1>1 DEF Documents
<1>3. doc' = [doc EXCEPT ![d] = new]
  BY DEF ClientPut
<1>4. content' \in [Docs -> Contents]
  BY DEF ClientPut, TypeOK
<1> HIDE DEF new
<1> QED
  BY <1>1, <1>2, <1>3, <1>4 DEF Updates, Exists, Began

LEMMA BlobFacts ==
  ASSUME TypeOK, NEW k \in Keys, media' = Blob(k)
  PROVE  /\ media' \in [Keys -> {"none", "live", "deleted", "due"}]
         /\ media'[k] # "none"
         /\ \A j \in Keys : \/ media'[j] = media[j]
                            \/ j = k /\ media'[j] = "live"
  BY DEF Blob, TypeOK

(* What deleting documents does: it marks them and the blobs that they own. *)
LEMMA DeleteFacts ==
  ASSUME TypeOK, PartsRefer, OriginalsExist, NEW ids \in SUBSET Docs,
         NEW swept \in BOOLEAN, DeleteDocs(ids, swept)
  PROVE  /\ doc' \in [Docs -> Documents]
         /\ \A d \in Docs : /\ Exists(d)' = Exists(d)
                            /\ doc[d].deleted => doc'[d].deleted
                            /\ Began(d) => Began(d)'
         /\ media' \in [Keys -> {"none", "live", "deleted", "due"}]
         /\ \A k \in Keys :
               \/ media'[k] = media[k]
               \/ /\ media[k] = "live" /\ media'[k] = "deleted"
                  /\ doc'[k.doc].deleted /\ Began(k.doc)'
<1> DEFINE del == {d \in ids : Visible(d)}
           raced(d) == \E c \in Calls : InFlight(c) /\ call[c].doc = d
           new(d) == [doc[d] EXCEPT !.deleted = TRUE, !.swept = swept,
                                    !.unclean = @ \/ raced(d)]
<1>1. \A d \in Docs : /\ new(d) \in Documents /\ new(d).deleted
                      /\ new(d).status = doc[d].status
  <2> TAKE d \in Docs
  <2>1. doc[d] \in Documents
    BY DEF TypeOK
  <2>2. (doc[d].unclean \/ raced(d)) \in BOOLEAN
    OBVIOUS
  <2> HIDE DEF raced
  <2> QED
    BY <2>1, <2>2 DEF Documents
<1>2. /\ doc' = [d \in Docs |-> IF d \in del THEN new(d) ELSE doc[d]]
      /\ media' = [k \in Keys |->
                     IF media[k] = "live" /\ \E d \in del : k \in Blobs(d)
                     THEN "deleted" ELSE media[k]]
  BY DEF DeleteDocs
<1>3. doc \in [Docs -> Documents] /\ media \in [Keys -> {"none", "live", "deleted", "due"}]
  BY DEF TypeOK
<1> HIDE DEF new
<1>4. \A k \in Keys : (\E d \in del : k \in Blobs(d)) => k.doc \in del
  BY BlobsOwned
<1>5. doc' \in [Docs -> Documents] /\ \A d \in del : doc'[d].deleted
  BY <1>1, <1>2, <1>3
<1>6. \A d \in Docs : doc'[d].status = doc[d].status /\ (doc[d].deleted => doc'[d].deleted)
  BY <1>1, <1>2, <1>3
<1>7. media' \in [Keys -> {"none", "live", "deleted", "due"}]
  BY <1>2, <1>3
<1>8. \A k \in Keys :
         \/ media'[k] = media[k]
         \/ /\ media[k] = "live" /\ media'[k] = "deleted"
            /\ doc'[k.doc].deleted /\ Began(k.doc)'
  BY <1>2, <1>4, <1>5, <1>6, KeyFacts DEF Began, Visible, Exists
<1> QED
  BY <1>5, <1>6, <1>7, <1>8 DEF Exists, Began

(* What the purge's last transaction does: it takes the rows of the keys     *)
(* whose objects are gone, and what refers to them.                          *)
LEMMA PurgeFacts ==
  ASSUME TypeOK, PurgeRows
  PROVE  /\ doc' \in [Docs -> Documents]
         /\ \A d \in Docs :
               /\ doc'[d].deleted = doc[d].deleted
               /\ Began(d) => Began(d)'
               /\ Exists(d)' => Exists(d) /\ Original(d) \notin purge.gone
         /\ part' \in [Docs -> [Pages -> Parts]]
         /\ \A d \in Docs, p \in Pages :
               /\ PartsHaveBlobs /\ part'[d][p].blob = NoKey => part'[d][p].thumb = NoKey
               /\ part'[d][p].blob \in {part[d][p].blob, NoKey} \ purge.gone
               /\ part'[d][p].thumb \in {part[d][p].thumb, NoKey} \ purge.gone
               /\ Original(d) \notin purge.gone /\ part[d][p].blob \notin purge.gone =>
                     part'[d][p].blob = part[d][p].blob
         /\ media' \in [Keys -> {"none", "live", "deleted", "due"}]
         /\ \A k \in Keys : media'[k] = IF k \in purge.gone THEN "none" ELSE media[k]
<1> DEFINE purged(d) == Original(d) \in purge.gone
           newDoc(d) == [doc[d] EXCEPT !.status = "PURGED"]
           newPart(d, p) ==
             IF purged(d) \/ part[d][p].blob \in purge.gone THEN NoPart
             ELSE [part[d][p] EXCEPT !.thumb = IF @ \in purge.gone THEN NoKey ELSE @]
<1>1. \A d \in Docs : /\ newDoc(d) \in Documents /\ newDoc(d).status = "PURGED"
                      /\ newDoc(d).deleted = doc[d].deleted
  BY DocFacts DEF Documents
<1>2. \A d \in Docs, p \in Pages :
         /\ newPart(d, p) \in Parts
         /\ PartsHaveBlobs /\ newPart(d, p).blob = NoKey => newPart(d, p).thumb = NoKey
         /\ newPart(d, p).blob \in {part[d][p].blob, NoKey} \ purge.gone
         /\ newPart(d, p).thumb \in {part[d][p].thumb, NoKey} \ purge.gone
         /\ ~purged(d) /\ part[d][p].blob \notin purge.gone =>
               newPart(d, p).blob = part[d][p].blob
  <2> TAKE d \in Docs, p \in Pages
  <2>1. part[d][p] \in Parts /\ NoKey \notin purge.gone
    BY PartFacts, NoKeyAssumption DEF TypeOK
  <2> QED
    BY <2>1 DEF Parts, NoPart, PartsHaveBlobs
<1>3. /\ doc' = [d \in Docs |-> IF purged(d) THEN newDoc(d) ELSE doc[d]]
      /\ part' = [d \in Docs |-> [p \in Pages |-> newPart(d, p)]]
      /\ media' = [k \in Keys |-> IF k \in purge.gone THEN "none" ELSE media[k]]
  BY DEF PurgeRows
<1>4. doc \in [Docs -> Documents] /\ media \in [Keys -> {"none", "live", "deleted", "due"}]
  BY DEF TypeOK
<1> HIDE DEF newDoc, newPart
<1>5. /\ doc' \in [Docs -> Documents]
      /\ \A d \in Docs : doc'[d].deleted = doc[d].deleted
  BY <1>1, <1>3, <1>4
<1>6. \A d \in Docs : /\ Exists(d)' => Exists(d) /\ ~purged(d)
                      /\ Began(d) => Began(d)'
  BY <1>1, <1>3, <1>4 DEF Exists, Began
<1>7. part' \in [Docs -> [Pages -> Parts]]
  BY <1>2, <1>3
<1>8. \A d \in Docs, p \in Pages : part'[d][p] = newPart(d, p)
  BY <1>3
<1>9. /\ media' \in [Keys -> {"none", "live", "deleted", "due"}]
      /\ \A k \in Keys : media'[k] = IF k \in purge.gone THEN "none" ELSE media[k]
  BY <1>3, <1>4
<1> QED
  BY <1>2, <1>5, <1>6, <1>7, <1>8, <1>9

(* Only empty fields of parts are filled. *)
Fills(d, p, field, v) ==
    /\ part' \in [Docs -> [Pages -> Parts]]
    /\ \A e \in Docs, q \in Pages, f \in {"blob", "thumb"} :
          \/ part'[e][q][f] = part[e][q][f]
          \/ /\ e = d /\ q = p /\ f = field
             /\ part[e][q][f] = NoKey /\ part'[e][q][f] = v
    /\ part'[d][p][field] # NoKey

LEMMA BlobFills ==
  ASSUME TypeOK, NEW d \in Docs, NEW p \in Pages, NEW v \in Keys,
         part' = [part EXCEPT ![d][p].blob = IF @ = NoKey THEN v ELSE @]
  PROVE  Fills(d, p, "blob", v)
<1> DEFINE b == IF part[d][p].blob = NoKey THEN v ELSE part[d][p].blob
           new == [part[d][p] EXCEPT !.blob = b]
           row == [part[d] EXCEPT ![p] = new]
<1>1. /\ part \in [Docs -> [Pages -> Parts]]
      /\ part[d] \in [Pages -> Parts] /\ part[d][p] \in Parts
      /\ b \in Keys /\ v # NoKey
  BY PartFacts, NoKeyAssumption DEF TypeOK
<1>2. new \in Parts /\ new.blob = b /\ new.thumb = part[d][p].thumb
  BY <1>1 DEF Parts
<1>3. part' = [part EXCEPT ![d] = row]
  OBVIOUS
<1>4. (b = v /\ part[d][p].blob = NoKey) \/ b = part[d][p].blob
  OBVIOUS
<1> HIDE DEF new, b
<1>5. row \in [Pages -> Parts] /\ row[p] = new /\ \A q \in Pages \ {p} : row[q] = part[d][q]
  BY <1>1, <1>2
<1> HIDE DEF row
<1>6. part' \in [Docs -> [Pages -> Parts]] /\ part'[d] = row
      /\ \A e \in Docs \ {d} : part'[e] = part[e]
  BY <1>1, <1>3, <1>5
<1>7. part'[d][p].blob = b /\ part'[d][p].thumb = part[d][p].thumb /\ b # NoKey
  BY <1>1, <1>2, <1>5, <1>6, NoKeyAssumption
<1>8. \A e \in Docs, q \in Pages : e # d \/ q # p => part'[e][q] = part[e][q]
  BY <1>5, <1>6
<1> QED
  BY <1>4, <1>6, <1>7, <1>8 DEF Fills

LEMMA ThumbFills ==
  ASSUME TypeOK, NEW d \in Docs, NEW p \in Pages, NEW v \in Keys,
         part' = [part EXCEPT ![d][p].thumb = IF @ = NoKey THEN v ELSE @]
  PROVE  Fills(d, p, "thumb", v)
<1> DEFINE b == IF part[d][p].thumb = NoKey THEN v ELSE part[d][p].thumb
           new == [part[d][p] EXCEPT !.thumb = b]
           row == [part[d] EXCEPT ![p] = new]
<1>1. /\ part \in [Docs -> [Pages -> Parts]]
      /\ part[d] \in [Pages -> Parts] /\ part[d][p] \in Parts
      /\ b \in Keys /\ v # NoKey
  BY PartFacts, NoKeyAssumption DEF TypeOK
<1>2. new \in Parts /\ new.thumb = b /\ new.blob = part[d][p].blob
  BY <1>1 DEF Parts
<1>3. part' = [part EXCEPT ![d] = row]
  OBVIOUS
<1>4. (b = v /\ part[d][p].thumb = NoKey) \/ b = part[d][p].thumb
  OBVIOUS
<1> HIDE DEF new, b
<1>5. row \in [Pages -> Parts] /\ row[p] = new /\ \A q \in Pages \ {p} : row[q] = part[d][q]
  BY <1>1, <1>2
<1> HIDE DEF row
<1>6. part' \in [Docs -> [Pages -> Parts]] /\ part'[d] = row
      /\ \A e \in Docs \ {d} : part'[e] = part[e]
  BY <1>1, <1>3, <1>5
<1>7. part'[d][p].thumb = b /\ part'[d][p].blob = part[d][p].blob /\ b # NoKey
  BY <1>1, <1>2, <1>5, <1>6, NoKeyAssumption
<1>8. \A e \in Docs, q \in Pages : e # d \/ q # p => part'[e][q] = part[e][q]
  BY <1>5, <1>6
<1> QED
  BY <1>4, <1>6, <1>7, <1>8 DEF Fills

(* The blob that the commit of a part inserts, or refers to. *)
LEMMA CommitFacts ==
  ASSUME Consistent, NEW r \in Runs, CommitPart(r)
  PROVE  LET d == call[r].doc
             p == call[r].page
         IN  /\ d \in Docs /\ p \in Pages /\ Exists(d)
             /\ Updates(d) /\ NextPage(r)
             /\ \E blob \in Keys :
                   /\ blob.doc = d /\ Fills(d, p, "blob", blob)
                   /\ media'[blob] # "none"
                   /\ \/ media' = media
                      \/ media' = Blob(blob) /\ blob = PageKey(d, p) /\ call[r].mime = "pdf"
<1> DEFINE d == call[r].doc
           p == call[r].page
           blob == IF call[r].mime = "pdf" THEN PageKey(d, p) ELSE Original(d)
           lost == part[d][p].blob \notin {NoKey, blob}
<1>1. r \in Calls /\ TypeOK /\ AtPage(r) /\ call[r].step = "commit" /\ OriginalsExist
  BY DEF Consistent, Steady, Calls, CommitPart
<1>2. d \in Docs /\ p \in Pages /\ Exists(d) /\ NextPage(r)
  BY <1>1, CallFacts DEF AtPage, SplitSteps, CommitPart
<1>3. blob \in Keys /\ blob.doc = d
  BY <1>2, KeyFacts
<1>4. /\ media' = IF call[r].mime = "pdf" THEN Blob(blob) ELSE media
      /\ part' = [part EXCEPT ![d][p].blob = IF @ = NoKey THEN blob ELSE @]
      /\ doc' = [doc EXCEPT ![d].unclean = @ \/ lost]
  BY DEF CommitPart
<1>5. Updates(d)
  <2>1. (doc[d].unclean \/ lost) \in BOOLEAN
    BY <1>1, <1>2, DocFacts
  <2>2. doc' = [doc EXCEPT ![d].unclean = doc[d].unclean \/ lost]
    BY <1>4
  <2> HIDE DEF lost
  <2> QED
    BY <1>1, <1>2, <2>1, <2>2, UncleanUpdates
<1>6. Fills(d, p, "blob", blob)
  <2> HIDE DEF blob, d, p
  <2> QED
    BY <1>1, <1>2, <1>3, <1>4, BlobFills
<1>7. media'[blob] # "none"
  <2>1. CASE call[r].mime = "pdf"
    BY <1>1, <1>3, <1>4, <2>1, BlobFacts
  <2>2. CASE call[r].mime # "pdf"
    BY <1>1, <1>2, <1>4, <2>2 DEF OriginalsExist
  <2> QED
    BY <2>1, <2>2
<1>8. \/ media' = media
      \/ media' = Blob(blob) /\ blob = PageKey(d, p) /\ call[r].mime = "pdf"
  BY <1>4
<1> QED
  BY <1>2, <1>3, <1>5, <1>6, <1>7, <1>8

LEMMA RecordFacts ==
  ASSUME Consistent, NEW r \in Runs, RecordThumb(r)
  PROVE  LET d == call[r].doc
             p == call[r].page
         IN  /\ d \in Docs /\ p \in Pages /\ Updates(d)
             /\ Product(r) \in Keys /\ Product(r).doc = d
             /\ media[Product(r)] # "none"
             /\ Fills(d, p, "thumb", Product(r))
             /\ Moves(r) /\ call'[r].step \in {"done", "thumb"}
             /\ call'[r].step = "thumb" =>
                   /\ call'[r].mime = call[r].mime /\ call'[r].page \in Pages
                   /\ call[r].mime # "image"
<1> DEFINE d == call[r].doc
           p == call[r].page
           v == ThumbOf(Source(r))
           lost == part[d][p].thumb \notin {NoKey, v}
<1>1. /\ r \in Calls /\ TypeOK /\ AtPage(r) /\ call[r].step = "record"
      /\ call[r].step \in ThumbSteps /\ InHand(r) /\ PartsRefer
  BY DEF Consistent, Steady, Calls, RecordThumb, ThumbSteps
<1>2. /\ d \in Docs /\ p \in Pages /\ v \in Keys /\ v.doc = d /\ Product(r) = v
      /\ media[Product(r)] # "none"
  BY <1>1, CallFacts, SourceTyped DEF InHand
<1>3. /\ part' = [part EXCEPT ![d][p].thumb = IF @ = NoKey THEN v ELSE @]
      /\ doc' = [doc EXCEPT ![d].unclean = @ \/ lost]
      /\ IF p = LastPage(r) THEN To(r, "done")
         ELSE call' = [call EXCEPT ![r] = [@ EXCEPT !.step = "thumb", !.page = p + 1]]
  BY DEF RecordThumb
<1>4. Updates(d)
  <2>1. (doc[d].unclean \/ lost) \in BOOLEAN
    BY <1>1, <1>2, DocFacts
  <2>2. doc' = [doc EXCEPT ![d].unclean = doc[d].unclean \/ lost]
    BY <1>3
  <2> HIDE DEF lost
  <2> QED
    BY <1>1, <1>2, <2>1, <2>2, UncleanUpdates
<1>5. Fills(d, p, "thumb", v)
  <2> HIDE DEF v, d, p
  <2> QED
    BY <1>1, <1>2, <1>3, ThumbFills
<1>6. /\ Moves(r) /\ call'[r].step \in {"done", "thumb"}
      /\ call'[r].step = "thumb" =>
            /\ call'[r].mime = call[r].mime /\ call'[r].page \in Pages
            /\ call[r].mime # "image"
  <2>1. CASE p = LastPage(r)
    <3>1. To(r, "done")
      BY <1>3, <2>1
    <3> QED
      BY <1>1, <3>1, ToMoves DEF Steps
  <2>2. CASE p # LastPage(r)
    <3> DEFINE next == p + 1
               new == [call[r] EXCEPT !.step = "thumb", !.page = next]
    <3>1. call[r] \in CallStates /\ call \in [Calls -> CallStates]
      BY <1>1 DEF TypeOK
    <3>2. next \in Pages /\ next \in Nat /\ call[r].mime # "image"
      BY <1>1, <1>2, <2>2, ConstantsAssumption DEF LastPage, Pages, AtPage, ThumbSteps
    <3>3. call' = [call EXCEPT ![r] = new]
      BY <1>3, <2>2
    <3> HIDE DEF next
    <3>4. /\ new \in CallStates /\ new.step = "thumb" /\ new.doc = call[r].doc
          /\ new.page = next /\ new.mime = call[r].mime
      BY <3>1, <3>2 DEF CallStates, Steps
    <3> HIDE DEF new
    <3> QED
      BY <1>1, <3>1, <3>2, <3>3, <3>4 DEF Moves
  <2> QED
    BY <2>1, <2>2
<1> QED
  BY <1>2, <1>4, <1>5, <1>6
-----------------------------------------------------------------------------
(* The steps that only read: they move one call and change nothing else.    *)

Reads(c) == /\ Moves(c) /\ AtPage(c)' /\ InHand(c)'
            /\ InFlight(c)' => InFlight(c) \/ Visible(call[c].doc)
            /\ UNCHANGED <<doc, part, media, store, content, sweep, purge, crashes>>
            /\ faults' \in Nat

(* A call at rest has nothing in hand. *)
LEMMA AtRest ==
  ASSUME NEW c \in Calls, call'[c].step \in {"idle", "done", "validate", "set_invalid",
                                           "refetch", "get"}
  PROVE  AtPage(c)' /\ InHand(c)'
  BY DEF AtPage, InHand, SplitSteps, ThumbSteps

LEMMA RoutedReady ==
  ASSUME TypeOK, NEW c \in Calls, NEW mime \in Mimes, Routed(c, mime)
  PROVE  AtPage(c)' /\ InHand(c)'
<1>1. /\ call'[c].step \in {"done", "download", "page"}
      /\ call'[c].step # "done" =>
            call'[c].page = 1 /\ call'[c].mime \in {"pdf", "image"}
  BY RoutedMoves
<1>2. 1 \in Pages /\ \A p \in Pages : ~(p < 1)
  BY ConstantsAssumption DEF Pages
<1> QED
  BY <1>1, <1>2 DEF AtPage, InHand, SplitSteps, ThumbSteps

LEMMA FinalizeFetchReads ==
  ASSUME Consistent, NEW c \in Calls, NEW d \in Docs, FinalizeFetch(c, d)
  PROVE  Reads(c)
<1>1. /\ TypeOK /\ call[c].doc = d /\ Visible(d) /\ faults' \in Nat
      /\ UNCHANGED <<doc, part, media, store, content, sweep, purge, crashes>>
  BY DEF Consistent, FinalizeFetch, TypeOK
<1>2. PICK step \in {"validate", "done", "get"} : To(c, step)
  BY DEF FinalizeFetch
<1>3. Moves(c) /\ call'[c].step \in {"validate", "done", "get"}
  BY <1>1, <1>2, ToMoves DEF Steps
<1> QED
  BY <1>1, <1>3, AtRest DEF Reads

LEMMA ReturnRecordReads ==
  ASSUME Consistent, NEW c \in Calls, ReturnRecord(c)
  PROVE  Reads(c) /\ call'[c].step \notin {"set_invalid", "set_ready"}
<1> DEFINE d == call[c].doc
<1>1. /\ TypeOK /\ doc[d].mime \in Mimes /\ faults' \in Nat /\ InFlight(c)
      /\ UNCHANGED <<doc, part, media, store, content, sweep, purge, crashes>>
  BY CallFacts, DocFacts DEF Consistent, ReturnRecord, TypeOK, InFlight
<1>2. CASE To(c, "idle")
  <2>1. Moves(c) /\ call'[c].step = "idle"
    BY <1>1, <1>2, ToMoves DEF Steps
  <2> QED
    BY <1>1, <2>1, AtRest DEF Reads
<1>3. CASE Routed(c, doc[d].mime)
  <2>1. /\ Moves(c) /\ AtPage(c)' /\ InHand(c)'
        /\ call'[c].step \notin {"set_invalid", "set_ready"}
    BY <1>1, <1>3, RoutedMoves, RoutedReady
  <2> QED
    BY <1>1, <2>1 DEF Reads
<1> QED
  BY <1>2, <1>3 DEF ReturnRecord

LEMMA StartDirectReads ==
  ASSUME Consistent, NEW r \in Runs, NEW d \in Docs, StartDirect(r, d)
  PROVE  r \in Calls /\ Reads(r)
<1>1. /\ TypeOK /\ call[r].doc = d /\ Visible(d) /\ r \in Calls /\ faults' \in Nat
      /\ UNCHANGED <<doc, part, media, store, content, sweep, purge, crashes>>
  BY DEF Consistent, StartDirect, Calls, TypeOK
<1>2. PICK kind \in {"pdf", "image"} : Routed(r, kind)
  BY DEF StartDirect
<1>3. kind \in Mimes
  BY DEF Mimes
<1> QED
  BY <1>1, <1>2, <1>3, RoutedMoves, RoutedReady DEF Reads

LEMMA ValidateReads ==
  ASSUME Consistent, NEW c \in Calls, Validate(c)
  PROVE  Reads(c)
<1> DEFINE d == call[c].doc
<1>1. /\ TypeOK /\ d \in Docs /\ InFlight(c) /\ content[d] \in Contents
      /\ faults' \in Nat
      /\ UNCHANGED <<doc, part, media, store, content, sweep, purge, crashes>>
  BY CallFacts DEF Consistent, Validate, InFlight, TypeOK
<1>2. CASE content[d] = "bad"
  <2>1. To(c, "set_invalid")
    BY <1>2 DEF Validate
  <2> QED
    BY <1>1, <2>1, ToMoves, AtRest DEF Reads, Steps
<1>3. CASE content[d] # "bad"
  <2> DEFINE v == content[d]
             new == [call[c] EXCEPT !.step = "set_ready", !.mime = v]
  <2>1. call[c] \in CallStates /\ call \in [Calls -> CallStates]
    BY <1>1 DEF TypeOK
  <2>2. v \in Mimes /\ v \in Contents \ {"bad"}
    BY <1>1, <1>3 DEF Contents, Mimes
  <2>3. call' = [call EXCEPT ![c] = new]
    BY <1>3 DEF Validate
  <2> HIDE DEF v
  <2>4. /\ new \in CallStates /\ new.step = "set_ready" /\ new.mime = v
        /\ new.doc = call[c].doc
    BY <2>1, <2>2 DEF CallStates, Steps
  <2> HIDE DEF new
  <2>5. Moves(c) /\ call'[c].step = "set_ready" /\ call'[c].mime = v
    BY <2>1, <2>3, <2>4 DEF Moves
  <2>6. AtPage(c)' /\ InHand(c)'
    BY <2>2, <2>5 DEF AtPage, InHand, SplitSteps, ThumbSteps
  <2> QED
    BY <1>1, <2>5, <2>6 DEF Reads
<1> QED
  BY <1>2, <1>3

LEMMA StreamFailsReads ==
  ASSUME Consistent, NEW c \in Calls, StreamFails(c)
  PROVE  Reads(c)
<1>1. /\ TypeOK /\ To(c, "idle") /\ faults' \in Nat
      /\ UNCHANGED <<doc, part, media, store, content, sweep, purge, crashes>>
  BY DEF Consistent, StreamFails, TypeOK
<1>2. Moves(c) /\ call'[c].step = "idle"
  BY <1>1, ToMoves DEF Steps
<1> QED
  BY <1>1, <1>2, AtRest DEF Reads, InFlight

LEMMA DownloadReads ==
  ASSUME Consistent, NEW r \in Runs, Download(r)
  PROVE  r \in Calls /\ Reads(r)
<1>1. /\ TypeOK /\ r \in Calls /\ AtPage(r) /\ call[r].step = "download" /\ InFlight(r)
      /\ faults' \in Nat
      /\ UNCHANGED <<doc, part, media, store, content, sweep, purge, crashes>>
  BY DEF Consistent, Steady, Calls, Download, InFlight, TypeOK
<1>2. CASE To(r, "idle")
  BY <1>1, <1>2, ToMoves, AtRest DEF Reads, Steps
<1>3. CASE To(r, "page")
  <2>1. /\ Moves(r) /\ call'[r].step = "page"
        /\ call'[r].page = call[r].page /\ call'[r].mime = call[r].mime
    BY <1>1, <1>3, ToMoves DEF Steps
  <2>2. /\ call[r].page = 1 /\ call[r].page \in Pages /\ call[r].mime \in {"pdf", "image"}
        /\ \A p \in Pages : ~(p < 1)
    BY <1>1, ConstantsAssumption DEF AtPage, Pages
  <2>3. AtPage(r)' /\ InHand(r)'
    BY <2>1, <2>2 DEF AtPage, InHand, SplitSteps, ThumbSteps
  <2> QED
    BY <1>1, <2>1, <2>3 DEF Reads
<1> QED
  BY <1>2, <1>3 DEF Download

(* The run that looks at its next page has a part for every page before it. *)
LEMMA NextPageReady ==
  ASSUME TypeOK, NEW c \in Calls, AtPage(c), call[c].step \in SplitSteps, NextPage(c),
         \A p \in Pages : part[call[c].doc][p].blob # NoKey =>
                             part'[call[c].doc][p].blob # NoKey,
         part'[call[c].doc][call[c].page].blob # NoKey
  PROVE  AtPage(c)' /\ InHand(c)' /\ Moves(c)
<1>1. /\ call[c].page \in Pages /\ call[c].mime \in {"pdf", "image"}
      /\ call[c].mime = "pdf" =>
            \A p \in Pages : p < call[c].page => part[call[c].doc][p].blob # NoKey
  BY DEF AtPage, SplitSteps
<1>2. /\ Moves(c) /\ call'[c].mime = call[c].mime /\ call'[c].page \in Pages
      /\ call[c].mime = "image" => call'[c].page = 1
      /\ \/ call'[c].step = "page" /\ call'[c].page = call[c].page + 1
         \/ /\ call'[c].step = "thumb"
            /\ call[c].mime # "image" => call[c].page = PageCount
  BY <1>1, NextPageMoves
<1>3. call'[c].mime = "pdf" =>
         \A p \in Pages : p <= call[c].page => part'[call[c].doc][p].blob # NoKey
  <2> SUFFICES ASSUME call[c].mime = "pdf", NEW p \in Pages, p <= call[c].page
               PROVE  part'[call[c].doc][p].blob # NoKey
    BY <1>2
  <2>1. CASE p = call[c].page
    BY <2>1
  <2>2. CASE p < call[c].page
    BY <1>1, <2>2
  <2> QED
    BY <1>1, <2>1, <2>2, ConstantsAssumption DEF Pages
<1>4. call'[c].doc = call[c].doc
  BY <1>2 DEF Moves
<1>5. CASE call'[c].step = "page" /\ call'[c].page = call[c].page + 1
  <2>1. \A p \in Pages : p < call'[c].page => p <= call[c].page
    BY <1>1, <1>5, ConstantsAssumption DEF Pages
  <2> QED
    BY <1>1, <1>2, <1>3, <1>4, <1>5, <2>1 DEF AtPage, InHand, SplitSteps, ThumbSteps
<1>6. CASE call'[c].step = "thumb" /\ (call[c].mime # "image" => call[c].page = PageCount)
  <2>1. call[c].mime = "pdf" => \A p \in Pages : p <= call[c].page
    BY <1>6, ConstantsAssumption DEF Pages
  <2> QED
    BY <1>1, <1>2, <1>3, <1>4, <1>6, <2>1 DEF AtPage, InHand, SplitSteps, ThumbSteps
<1> QED
  BY <1>2, <1>5, <1>6

LEMMA PageLookupReads ==
  ASSUME Consistent, NEW r \in Runs, PageLookup(r)
  PROVE  r \in Calls /\ Reads(r)
<1> DEFINE d == call[r].doc
           p == call[r].page
<1>1. /\ TypeOK /\ r \in Calls /\ AtPage(r) /\ call[r].step = "page" /\ InFlight(r)
      /\ d \in Docs /\ p \in Pages /\ faults' \in Nat
      /\ UNCHANGED <<doc, part, media, store, content, sweep, purge, crashes>>
  BY CallFacts
  DEF Consistent, Steady, Calls, PageLookup, InFlight, TypeOK, AtPage, SplitSteps
<1>2. CASE part[d][p] # NoPart
  <2>1. part[d][p].blob # NoKey
    <3>1. part[d][p] \in Parts
      BY <1>1, PartFacts
    <3>2. CASE part[d][p].blob = NoKey
      <4>1. part[d][p].thumb # NoKey
        BY <1>2, <3>1, <3>2 DEF Parts, NoPart
      <4> QED
        BY <1>1, <4>1 DEF Consistent, PartsHaveBlobs
    <3> QED
      BY <3>2
  <2>2. NextPage(r)
    BY <1>2 DEF PageLookup
  <2>3. AtPage(r)' /\ InHand(r)' /\ Moves(r)
    BY <1>1, <2>1, <2>2, NextPageReady DEF SplitSteps
  <2> QED
    BY <1>1, <2>3 DEF Reads
<1>3. CASE To(r, "idle")
  BY <1>1, <1>3, ToMoves, AtRest DEF Reads, Steps
<1>4. CASE \/ (To(r, "upload") /\ call[r].mime = "pdf")
           \/ (To(r, "commit") /\ call[r].mime # "pdf")
  <2>1. /\ Moves(r) /\ call'[r].step \in {"upload", "commit"}
        /\ call'[r].page = call[r].page /\ call'[r].mime = call[r].mime
        /\ (call'[r].step = "upload") <=> (call[r].mime = "pdf")
    BY <1>1, <1>4, ToMoves DEF Steps
  <2>2. AtPage(r)' /\ InHand(r)'
    BY <1>1, <2>1 DEF AtPage, InHand, SplitSteps, ThumbSteps, Moves
  <2> QED
    BY <1>1, <2>1, <2>2 DEF Reads
<1> QED
  BY <1>2, <1>3, <1>4 DEF PageLookup

LEMMA ThumbLookupReads ==
  ASSUME Consistent, NEW r \in Runs, ThumbLookup(r)
  PROVE  r \in Calls /\ Reads(r)
<1>1. /\ TypeOK /\ r \in Calls /\ AtPage(r) /\ call[r].step = "thumb" /\ InFlight(r)
      /\ faults' \in Nat
      /\ UNCHANGED <<doc, part, media, store, content, sweep, purge, crashes>>
  BY DEF Consistent, Steady, Calls, ThumbLookup, InFlight, TypeOK
<1>2. CASE To(r, "idle")
  BY <1>1, <1>2, ToMoves, AtRest DEF Reads, Steps
<1>3. ASSUME NEW step \in {"record", "thumb_upload"}, To(r, step),
             step = "record" => media[ThumbOf(Source(r))] = "live"
      PROVE  Reads(r)
  <2>1. /\ Moves(r) /\ call'[r].step = step
        /\ call'[r].page = call[r].page /\ call'[r].mime = call[r].mime
    BY <1>1, <1>3, ToMoves DEF Steps
  <2>2. AtPage(r)'
    BY <1>1, <1>3, <2>1 DEF AtPage, SplitSteps, ThumbSteps, Moves
  <2>3. step = "record" => Product(r)' = ThumbOf(Source(r))
    BY <1>1, <2>1 DEF Product, Source, Moves, Original, ThumbOf
  <2>4. InHand(r)'
    BY <1>1, <1>3, <2>1, <2>3 DEF InHand
  <2> QED
    BY <1>1, <2>1, <2>2, <2>4 DEF Reads
<1>4. \/ To(r, "idle") \/ To(r, "thumb_upload")
      \/ To(r, "record") /\ media[ThumbOf(Source(r))] = "live"
  BY DEF ThumbLookup
<1>5. CASE To(r, "thumb_upload")
  BY <1>1, <1>3, <1>5
<1>6. CASE To(r, "record") /\ media[ThumbOf(Source(r))] = "live"
  BY <1>1, <1>3, <1>6
<1> QED
  BY <1>2, <1>4, <1>5, <1>6
-----------------------------------------------------------------------------
(* The steps that only add: rows, objects and references.                   *)

Grows ==
    /\ \A d \in Docs : /\ Exists(d)' => Exists(d) \/ media'[Original(d)] # "none"
                       /\ doc'[d].deleted = doc[d].deleted
                       /\ Began(d) => Began(d)'
    /\ \A d \in Docs, p \in Pages :
          /\ \/ part'[d][p].blob = part[d][p].blob
             \/ /\ part[d][p].blob = NoKey
                /\ part'[d][p].blob \in Keys /\ part'[d][p].blob.doc = d
                /\ media'[part'[d][p].blob] # "none"
          /\ \/ part'[d][p].thumb = part[d][p].thumb
             \/ /\ part[d][p].blob # NoKey
                /\ part'[d][p].thumb \in Keys /\ part'[d][p].thumb.doc = d
                /\ media'[part'[d][p].thumb] # "none"
    /\ \A k \in Keys :
          \/ media'[k] = media[k]
          \/ /\ media[k] = "none" /\ media'[k] = "live"
             /\ Derived(k) => k \in store'
    /\ store \subseteq store'
    /\ purge' = purge

(* At most one call moves; it is where it may be, and it does not begin on a *)
(* deleted document.                                                         *)
Proceeds ==
    \/ call' = call
    \/ \E c \in Calls : /\ Moves(c) /\ AtPage(c)' /\ InHand(c)'
                        /\ InFlight(c)' => InFlight(c) \/ Visible(call[c].doc)

(* What a call in flight relies on. *)
KeepsFor(d) ==
    /\ \A p \in Pages : part[d][p].blob # NoKey => part'[d][p].blob = part[d][p].blob
    /\ \A k \in Keys : k.doc = d => /\ media[k] # "none" => media'[k] # "none"
                                    /\ k \in store => k \in store'

LEMMA StaysReady ==
  ASSUME Consistent, NEW c \in Calls, call'[c] = call[c],
         InFlight(c) => KeepsFor(call[c].doc)
  PROVE  AtPage(c)' /\ InHand(c)'
<1>1. /\ TypeOK /\ PartsRefer /\ AtPage(c) /\ InHand(c)
      /\ call[c].doc \in Docs
  BY CallFacts DEF Consistent, Steady
<1>2. CASE ~InFlight(c)
  BY <1>2, AtRest DEF InFlight
<1>3. CASE InFlight(c)
  <2>1. KeepsFor(call[c].doc)
    BY <1>3
  <2>2. AtPage(c)'
    BY <1>1, <2>1 DEF AtPage, KeepsFor
  <2>3. call[c].step = "commit" /\ call[c].mime = "pdf" => Product(c)' \in store'
    <3> SUFFICES ASSUME call[c].step = "commit", call[c].mime = "pdf"
                 PROVE  Product(c)' \in store'
      OBVIOUS
    <3>1. Product(c) = PageKey(call[c].doc, call[c].page) /\ Product(c)' = Product(c)
      BY DEF Product
    <3>2. call[c].page \in Pages
      BY <1>1 DEF AtPage, SplitSteps
    <3>3. Product(c) \in Keys /\ Product(c).doc = call[c].doc /\ Product(c) \in store
      BY <1>1, <3>1, <3>2, KeyFacts DEF InHand
    <3> QED
      BY <2>1, <3>1, <3>3 DEF KeepsFor
  <2>4. CASE call[c].step \in {"thumb_insert", "record"}
    <3>1. call[c].step \in ThumbSteps
      BY <2>4 DEF ThumbSteps
    <3>2. /\ Product(c) = ThumbOf(Source(c)) /\ Product(c) \in Keys
          /\ Product(c).doc = call[c].doc /\ call[c].page \in Pages
      BY <1>1, <3>1, SourceTyped
    <3>3. Source(c)' = Source(c)
      <4>1. CASE call[c].mime = "image"
        BY <4>1 DEF Source, Original
      <4>2. CASE call[c].mime # "image"
        <5>1. part[call[c].doc][call[c].page].blob # NoKey
          BY <1>1, <3>1, <3>2, <4>2 DEF AtPage
        <5>2. part'[call[c].doc][call[c].page].blob = part[call[c].doc][call[c].page].blob
          BY <2>1, <3>2, <5>1 DEF KeepsFor
        <5> QED
          BY <4>2, <5>2 DEF Source
      <4> QED
        BY <4>1, <4>2
    <3>4. Product(c)' = Product(c)
      BY <2>4, <3>2, <3>3 DEF Product, ThumbOf
    <3>5. /\ call[c].step = "thumb_insert" => Product(c) \in store
          /\ call[c].step = "record" => media[Product(c)] # "none"
      BY <1>1 DEF InHand
    <3>6. InHand(c)'
      BY <2>1, <2>4, <3>2, <3>4, <3>5 DEF KeepsFor, InHand
    <3> QED
      BY <2>2, <3>6
  <2>5. CASE call[c].step \notin {"thumb_insert", "record"}
    BY <2>2, <2>3, <2>5 DEF InHand
  <2> QED
    BY <2>4, <2>5
<1> QED
  BY <1>2, <1>3

LEMMA ProceedsSteady ==
  ASSUME Consistent, Proceeds,
         \A c \in Calls : InFlight(c) => KeepsFor(call[c].doc)
  PROVE  Steady'
<1> SUFFICES ASSUME NEW e \in Calls PROVE AtPage(e)' /\ InHand(e)'
  BY DEF Steady
<1>1. CASE call'[e] = call[e]
  BY <1>1, StaysReady
<1>2. CASE call'[e] # call[e]
  BY <1>2 DEF Proceeds, Moves
<1> QED
  BY <1>1, <1>2

(* No call begins on a document with a row that is due. *)
LEMMA ProceedsQuiet ==
  ASSUME Consistent, Proceeds, purge' = purge,
         \A k \in Keys : (media'[k] = "due") <=> (media[k] = "due")
  PROVE  Quiet'
<1>1. Quiet /\ TypeOK /\ OnlyDeletedGo
  BY DEF Consistent
<1>2. ASSUME NEW k \in Keys, media'[k] = "due", NEW c \in Calls, InFlight(c)'
      PROVE  call'[c].doc # k.doc
  <2>1. media[k] = "due" /\ doc[k.doc].deleted
    BY <1>1, <1>2 DEF OnlyDeletedGo
  <2>2. call'[c].doc = call[c].doc /\ (InFlight(c) \/ Visible(call[c].doc))
    <3>1. CASE call'[c] = call[c]
      BY <1>2, <3>1 DEF InFlight
    <3>2. CASE call'[c] # call[c]
      BY <1>2, <3>2 DEF Proceeds, Moves
    <3> QED
      BY <3>1, <3>2
  <2> QED
    BY <1>1, <2>1, <2>2 DEF Quiet, Visible
<1>3. \A k \in purge'.todo \cup purge'.gone : media'[k] = "due"
  BY <1>1 DEF Quiet, TypeOK
<1> QED
  BY <1>2, <1>3 DEF Quiet

LEMMA GrowsConsistent ==
  ASSUME Consistent, TypeOK', Grows, Proceeds
  PROVE  Consistent'
<1>1. /\ TypeOK /\ PartsRefer /\ PartsHaveBlobs /\ OriginalsExist /\ OnlyDeletedGo
      /\ LiveBlobHasObject
  BY DEF Consistent
<1>2. \A k \in Keys : media[k] # "none" => media'[k] # "none"
  BY DEF Grows
<1>3. PartsRefer'
  <2> SUFFICES ASSUME NEW d \in Docs, NEW p \in Pages
               PROVE  /\ part'[d][p].blob # NoKey =>
                            part'[d][p].blob.doc = d /\ media'[part'[d][p].blob] # "none"
                      /\ part'[d][p].thumb # NoKey =>
                            part'[d][p].thumb.doc = d /\ media'[part'[d][p].thumb] # "none"
    BY DEF PartsRefer
  <2>1. part[d][p].blob \in Keys \cup {NoKey} /\ part[d][p].thumb \in Keys \cup {NoKey}
    BY <1>1, PartFacts
  <2>2. /\ part[d][p].blob # NoKey =>
              part[d][p].blob.doc = d /\ media[part[d][p].blob] # "none"
        /\ part[d][p].thumb # NoKey =>
              part[d][p].thumb.doc = d /\ media[part[d][p].thumb] # "none"
    BY <1>1 DEF PartsRefer
  <2> QED
    BY <1>2, <2>1, <2>2 DEF Grows
<1>4. PartsHaveBlobs'
  BY <1>1, KeyFacts DEF PartsHaveBlobs, Grows
<1>5. OriginalsExist'
  <2>1. \A d \in Docs : Original(d) \in Keys
    BY KeyFacts
  <2> QED
    BY <1>1, <1>2, <2>1 DEF OriginalsExist, Grows, Original
<1>6. OnlyDeletedGo'
  BY <1>1, ThumbFacts DEF OnlyDeletedGo, Grows
<1>7. LiveBlobHasObject'
  BY <1>1 DEF LiveBlobHasObject, Grows, Derived
<1>8. \A c \in Calls : InFlight(c) => KeepsFor(call[c].doc)
  BY <1>1, <1>2, CallFacts DEF KeepsFor, Grows
<1>9. Steady'
  BY <1>8, ProceedsSteady
<1>10. Quiet'
  BY ProceedsQuiet DEF Grows
<1> QED
  BY <1>3, <1>4, <1>5, <1>6, <1>7, <1>9, <1>10 DEF Consistent

LEMMA ReadsConsistent ==
  ASSUME Consistent, NEW c \in Calls, Reads(c)
  PROVE  Consistent'
<1>1. TypeOK /\ UNCHANGED <<doc, part, media, store, content, sweep, purge, crashes>>
  BY DEF Consistent, Reads
<1>2. TypeOK'
  BY <1>1 DEF TypeOK, Reads, Moves
<1>3. Grows
  BY <1>1 DEF Grows, Exists, Began
<1>4. Proceeds
  BY DEF Reads, Proceeds
<1> QED
  BY <1>2, <1>3, <1>4, GrowsConsistent
-----------------------------------------------------------------------------
(* The steps that write, one lemma for each.                                *)

LEMMA RequestUploadStep ==
  ASSUME Consistent, NEW d \in Docs, RequestUpload(d)
  PROVE  Consistent'
<1> DEFINE new == [doc[d] EXCEPT !.status = "NEW"]
<1>1. /\ TypeOK /\ OnlyDeletedGo /\ doc[d].status = "ABSENT" /\ Original(d) \in Keys
      /\ Original(d).doc = d /\ ~Derived(Original(d))
      /\ UNCHANGED <<part, store, content, call, sweep, purge, crashes, faults>>
      /\ media' = [media EXCEPT ![Original(d)] = "live"]
  BY KeyFacts DEF Consistent, RequestUpload
<1>2. doc[d] \in Documents /\ doc \in [Docs -> Documents]
  BY <1>1 DEF TypeOK
<1>3. new \in Documents /\ new.status = "NEW" /\ new.deleted = doc[d].deleted
  BY <1>2 DEF Documents
<1>4. doc' = [doc EXCEPT ![d] = new]
  BY DEF RequestUpload
<1> HIDE DEF new
<1>5. doc' \in [Docs -> Documents]
  BY <1>2, <1>3, <1>4
<1>6. TypeOK'
  BY <1>1, <1>5 DEF TypeOK
<1>7. \A e \in Docs : /\ Exists(e)' => Exists(e) \/ media'[Original(e)] # "none"
                      /\ doc'[e].deleted = doc[e].deleted
                      /\ Began(e) => Began(e)'
  <2> TAKE e \in Docs
  <2>1. CASE e = d
    BY <1>1, <1>2, <1>3, <1>4, <2>1 DEF Began, TypeOK
  <2>2. CASE e # d
    BY <1>2, <1>4, <2>2 DEF Exists, Began
  <2> QED
    BY <2>1, <2>2
<1>8. media[Original(d)] \in {"none", "live"}
  BY <1>1 DEF OnlyDeletedGo, Began, TypeOK
<1>9. Grows
  BY <1>1, <1>7, <1>8 DEF Grows, TypeOK
<1> QED
  BY <1>1, <1>6, <1>9, GrowsConsistent DEF Proceeds

LEMMA ClientPutStep ==
  ASSUME Consistent, NEW d \in Docs, ClientPut(d)
  PROVE  Consistent'
<1>1. /\ TypeOK /\ Updates(d) /\ content' \in [Docs -> Contents] /\ Original(d) \in Keys
      /\ store' = store \cup {Original(d)}
      /\ UNCHANGED <<part, media, call, sweep, purge, crashes, faults>>
  BY PutUpdates, KeyFacts DEF Consistent, ClientPut
<1>2. TypeOK'
  BY <1>1 DEF TypeOK, Updates
<1>3. Grows
  BY <1>1 DEF Grows, Updates
<1> QED
  BY <1>1, <1>2, <1>3, GrowsConsistent DEF Proceeds

(* UPDATE document by a call that is let go, or goes on to mine. *)
LEMMA SetStatusStep ==
  ASSUME Consistent, NEW c \in Calls, InFlight(c), Updates(call[c].doc),
         Moves(c), AtPage(c)', InHand(c)',
         UNCHANGED <<part, media, store, content, sweep, purge, crashes, faults>>
  PROVE  Consistent'
<1>1. TypeOK'
  BY DEF Consistent, TypeOK, Updates, Moves
<1>2. Grows
  BY DEF Grows, Updates
<1> QED
  BY <1>1, <1>2, GrowsConsistent DEF Proceeds

LEMMA SetInvalidStep ==
  ASSUME Consistent, NEW c \in Calls, SetInvalid(c)
  PROVE  Consistent'
<1> DEFINE d == call[c].doc
           step == IF c \in Runs THEN "idle" ELSE "done"
<1>1. TypeOK /\ d \in Docs /\ doc[d].mime \in Mimes
  BY CallFacts, DocFacts DEF Consistent
<1>2. Updates(d)
  BY <1>1, SetStatusUpdates DEF SetInvalid
<1>3. To(c, step) /\ step \in {"idle", "done"} /\ step \in Steps
  BY DEF SetInvalid, Steps
<1> HIDE DEF step
<1>4. Moves(c) /\ call'[c].step \in {"idle", "done"}
  BY <1>1, <1>3, ToMoves
<1> QED
  BY <1>2, <1>4, AtRest, SetStatusStep DEF SetInvalid, InFlight

LEMMA SetReadyStep ==
  ASSUME Consistent, NEW c \in Calls, SetReady(c)
  PROVE  Consistent'
<1> DEFINE d == call[c].doc
           mime == call[c].mime
<1>1. TypeOK /\ d \in Docs /\ mime \in Mimes
  BY CallFacts DEF Consistent
<1>2. Updates(d)
  BY <1>1, SetStatusUpdates DEF SetReady
<1>3. PICK step \in {"refetch", "done"} : To(c, step)
  BY DEF SetReady
<1>4. Moves(c) /\ call'[c].step \in {"refetch", "done"}
  BY <1>1, <1>3, ToMoves DEF Steps
<1> QED
  BY <1>2, <1>4, AtRest, SetStatusStep DEF SetReady, InFlight

LEMMA RunStopsStep ==
  ASSUME Consistent, NEW c \in Calls, RunStops(c)
  PROVE  Consistent'
<1>1. /\ TypeOK /\ call[c].doc \in Docs /\ crashes' \in Nat
      /\ UNCHANGED <<part, media, store, content, sweep, purge, faults>>
  BY CallFacts DEF Consistent, TypeOK, RunStops
<1>2. Updates(call[c].doc)
  BY <1>1, UncleanUpdates DEF RunStops
<1>3. Moves(c) /\ AtPage(c)' /\ InHand(c)' /\ ~InFlight(c)'
  <2>1. Moves(c) /\ call'[c].step = "idle"
    BY <1>1, ToMoves DEF RunStops, Steps
  <2> QED
    BY <2>1, AtRest DEF InFlight
<1>4. TypeOK'
  BY <1>1, <1>2, <1>3 DEF TypeOK, Updates, Moves
<1>5. Grows
  BY <1>1, <1>2 DEF Grows, Updates
<1>6. Proceeds
  BY <1>3 DEF Proceeds
<1> QED
  BY <1>4, <1>5, <1>6, GrowsConsistent

LEMMA UploadPageStep ==
  ASSUME Consistent, NEW r \in Runs, UploadPage(r)
  PROVE  Consistent'
<1>1. /\ TypeOK /\ r \in Calls /\ AtPage(r) /\ call[r].step = "upload" /\ InFlight(r)
      /\ call[r].doc \in Docs
      /\ store' = store \cup {PageKey(call[r].doc, call[r].page)}
      /\ UNCHANGED <<doc, part, media, content, sweep, purge, crashes, faults>>
  BY CallFacts DEF Consistent, Steady, Calls, UploadPage, InFlight
<1>2. /\ Moves(r) /\ call'[r].step = "commit"
      /\ call'[r].page = call[r].page /\ call'[r].mime = call[r].mime
  BY <1>1, ToMoves DEF UploadPage, Steps
<1>3. call[r].page \in Pages /\ PageKey(call[r].doc, call[r].page) \in Keys
  BY <1>1, KeyFacts DEF AtPage, SplitSteps
<1>4. AtPage(r)'
  BY <1>1, <1>2 DEF AtPage, SplitSteps, ThumbSteps, Moves
<1>5. Product(r)' = PageKey(call[r].doc, call[r].page)
  BY <1>2 DEF Product, Moves, PageKey
<1>6. InHand(r)'
  BY <1>1, <1>2, <1>5 DEF InHand
<1>7. TypeOK'
  BY <1>1, <1>2, <1>3 DEF TypeOK, Moves
<1>8. Grows
  BY <1>1 DEF Grows, Exists, Began
<1>9. Proceeds
  BY <1>1, <1>2, <1>4, <1>6 DEF Proceeds
<1> QED
  BY <1>7, <1>8, <1>9, GrowsConsistent

LEMMA CommitPartStep ==
  ASSUME Consistent, NEW r \in Runs, CommitPart(r)
  PROVE  Consistent'
<1> DEFINE d == call[r].doc
           p == call[r].page
<1>1. /\ TypeOK /\ r \in Calls /\ AtPage(r) /\ InHand(r) /\ call[r].step = "commit"
      /\ InFlight(r) /\ call[r].step \in SplitSteps
      /\ UNCHANGED <<store, content, sweep, purge, crashes, faults>>
  BY DEF Consistent, Steady, Calls, CommitPart, InFlight, SplitSteps
<1>2. /\ d \in Docs /\ p \in Pages /\ Updates(d) /\ NextPage(r)
      /\ \E blob \in Keys :
            /\ blob.doc = d /\ Fills(d, p, "blob", blob)
            /\ media'[blob] # "none"
            /\ \/ media' = media
               \/ media' = Blob(blob) /\ blob = PageKey(d, p) /\ call[r].mime = "pdf"
  BY CommitFacts
<1>3. PICK blob \in Keys :
            /\ blob.doc = d /\ Fills(d, p, "blob", blob)
            /\ media'[blob] # "none"
            /\ \/ media' = media
               \/ media' = Blob(blob) /\ blob = PageKey(d, p) /\ call[r].mime = "pdf"
  BY <1>2
<1>4. /\ part' \in [Docs -> [Pages -> Parts]]
      /\ part'[d][p].blob # NoKey
      /\ \A e \in Docs, q \in Pages :
            /\ \/ part'[e][q].blob = part[e][q].blob
               \/ /\ e = d /\ q = p /\ part[e][q].blob = NoKey
                  /\ part'[e][q].blob = blob
            /\ part'[e][q].thumb = part[e][q].thumb
  BY <1>3 DEF Fills
<1>5. /\ media' \in [Keys -> {"none", "live", "deleted", "due"}]
      /\ \A k \in Keys : \/ media'[k] = media[k]
                         \/ media[k] = "none" /\ media'[k] = "live" /\ k \in store
  <2>1. CASE media' = media
    BY <1>1, <2>1 DEF TypeOK
  <2>2. CASE media' = Blob(blob) /\ blob = PageKey(d, p) /\ call[r].mime = "pdf"
    <3>1. blob \in store
      BY <1>1, <2>2 DEF InHand, Product
    <3> QED
      BY <1>1, <2>2, <3>1 DEF Blob, TypeOK
  <2> QED
    BY <1>3, <2>1, <2>2
<1>6. AtPage(r)' /\ InHand(r)' /\ Moves(r)
  <2>1. \A q \in Pages : part[d][q].blob # NoKey => part'[d][q].blob # NoKey
    BY <1>2, <1>4
  <2> QED
    BY <1>1, <1>2, <1>4, <2>1, NextPageReady
<1>7. TypeOK'
  BY <1>1, <1>2, <1>4, <1>5, <1>6 DEF TypeOK, Updates, Moves
<1>8. Grows
  BY <1>1, <1>2, <1>3, <1>4, <1>5 DEF Grows, Updates
<1>9. Proceeds
  BY <1>1, <1>6 DEF Proceeds
<1> QED
  BY <1>7, <1>8, <1>9, GrowsConsistent

(* What a run is about to make a thumbnail of does not change while it      *)
(* uploads it and inserts its row.                                          *)
LEMMA ThumbStep ==
  ASSUME Consistent, NEW r \in Runs, call[r].step \in ThumbSteps,
         NEW step \in {"thumb_insert", "record"}, To(r, step),
         UNCHANGED part
  PROVE  /\ TypeOK /\ r \in Calls /\ InFlight(r) /\ Moves(r) /\ call'[r].step = step
         /\ AtPage(r)' /\ Product(r)' = ThumbOf(Source(r))
         /\ ThumbOf(Source(r)) \in Keys /\ Product(r) = ThumbOf(Source(r))
<1>1. TypeOK /\ PartsRefer /\ r \in Calls /\ AtPage(r) /\ InFlight(r)
  BY DEF Consistent, Steady, Calls, InFlight, ThumbSteps
<1>2. ThumbOf(Source(r)) \in Keys /\ Product(r) = ThumbOf(Source(r))
  BY <1>1, SourceTyped
<1>3. /\ Moves(r) /\ call'[r].step = step
      /\ call'[r].page = call[r].page /\ call'[r].mime = call[r].mime
  BY <1>1, ToMoves DEF Steps
<1>4. AtPage(r)'
  BY <1>1, <1>3 DEF AtPage, SplitSteps, ThumbSteps, Moves
<1>5. Product(r)' = ThumbOf(Source(r))
  BY <1>3 DEF Product, Source, Moves, Original, ThumbOf
<1> QED
  BY <1>1, <1>2, <1>3, <1>4, <1>5

LEMMA ThumbUploadStep ==
  ASSUME Consistent, NEW r \in Runs, ThumbUpload(r)
  PROVE  Consistent'
<1>1. /\ store' = store \cup {ThumbOf(Source(r))}
      /\ UNCHANGED <<doc, part, media, content, sweep, purge, crashes, faults>>
      /\ call[r].step \in ThumbSteps /\ To(r, "thumb_insert")
  BY DEF ThumbUpload, ThumbSteps
<1>2. /\ TypeOK /\ r \in Calls /\ InFlight(r) /\ Moves(r) /\ call'[r].step = "thumb_insert"
      /\ AtPage(r)' /\ Product(r)' = ThumbOf(Source(r)) /\ ThumbOf(Source(r)) \in Keys
  BY <1>1, ThumbStep
<1>3. InHand(r)'
  BY <1>1, <1>2 DEF InHand
<1>4. TypeOK'
  BY <1>1, <1>2 DEF TypeOK, Moves
<1>5. Grows
  BY <1>1 DEF Grows, Exists, Began
<1>6. Proceeds
  BY <1>2, <1>3 DEF Proceeds
<1> QED
  BY <1>4, <1>5, <1>6, GrowsConsistent

LEMMA ThumbInsertStep ==
  ASSUME Consistent, NEW r \in Runs, ThumbInsert(r)
  PROVE  Consistent'
<1> DEFINE k == ThumbOf(Source(r))
<1>1. /\ media' = Blob(k)
      /\ UNCHANGED <<doc, part, store, content, sweep, purge, crashes, faults>>
      /\ call[r].step = "thumb_insert" /\ call[r].step \in ThumbSteps /\ To(r, "record")
  BY DEF ThumbInsert, ThumbSteps
<1>2. /\ TypeOK /\ r \in Calls /\ InFlight(r) /\ Moves(r) /\ call'[r].step = "record"
      /\ AtPage(r)' /\ Product(r)' = k /\ k \in Keys /\ Product(r) = k
  BY <1>1, ThumbStep
<1>3. k \in store
  BY <1>1, <1>2 DEF Consistent, Steady, InHand
<1>4. /\ media' \in [Keys -> {"none", "live", "deleted", "due"}]
      /\ media'[k] # "none"
      /\ \A j \in Keys : \/ media'[j] = media[j]
                         \/ media[j] = "none" /\ media'[j] = "live" /\ j \in store
  BY <1>1, <1>2, <1>3 DEF Blob, TypeOK
<1>5. InHand(r)'
  BY <1>2, <1>4 DEF InHand
<1>6. TypeOK'
  BY <1>1, <1>2, <1>4 DEF TypeOK, Moves
<1>7. Grows
  BY <1>1, <1>4 DEF Grows, Exists, Began
<1>8. Proceeds
  BY <1>2, <1>5 DEF Proceeds
<1> QED
  BY <1>6, <1>7, <1>8, GrowsConsistent

LEMMA RecordThumbStep ==
  ASSUME Consistent, NEW r \in Runs, RecordThumb(r)
  PROVE  Consistent'
<1> DEFINE d == call[r].doc
           p == call[r].page
           k == Product(r)
<1>1. /\ TypeOK /\ PartsRefer /\ r \in Calls /\ AtPage(r) /\ call[r].step = "record"
      /\ InFlight(r) /\ call[r].step \in ThumbSteps
      /\ UNCHANGED <<media, store, content, sweep, purge, crashes, faults>>
  BY DEF Consistent, Steady, Calls, RecordThumb, InFlight, ThumbSteps
<1>2. /\ d \in Docs /\ p \in Pages /\ Updates(d)
      /\ k \in Keys /\ k.doc = d /\ media[k] # "none"
      /\ Fills(d, p, "thumb", k)
      /\ Moves(r) /\ call'[r].step \in {"done", "thumb"}
      /\ call'[r].step = "thumb" =>
            /\ call'[r].mime = call[r].mime /\ call'[r].page \in Pages
            /\ call[r].mime # "image"
  BY RecordFacts
<1>3. /\ part' \in [Docs -> [Pages -> Parts]]
      /\ \A e \in Docs, q \in Pages :
            /\ part'[e][q].blob = part[e][q].blob
            /\ \/ part'[e][q].thumb = part[e][q].thumb
               \/ e = d /\ q = p /\ part'[e][q].thumb = k
  BY <1>2 DEF Fills
<1>4. part[d][p].blob # NoKey
  BY <1>1, <1>2, ConstantsAssumption DEF AtPage, SplitSteps
<1>5. AtPage(r)' /\ InHand(r)'
  <2>1. CASE call'[r].step = "done"
    BY <2>1, AtRest, <1>1
  <2>2. CASE call'[r].step = "thumb"
    <3>1. call'[r].doc = d
      BY <1>2 DEF Moves
    <3>2. call[r].mime = "pdf" /\ \A q \in Pages : part[d][q].blob # NoKey
      BY <1>1, <1>2, <2>2 DEF AtPage
    <3>3. \A q \in Pages : part'[d][q].blob # NoKey
      BY <1>2, <1>3, <3>2
    <3>4. call'[r].mime = "pdf" /\ call'[r].page \in Pages
      BY <1>2, <2>2, <3>2
    <3>5. AtPage(r)'
      BY <2>2, <3>1, <3>3, <3>4 DEF AtPage, SplitSteps, ThumbSteps
    <3>6. InHand(r)'
      BY <2>2 DEF InHand
    <3> QED
      BY <3>5, <3>6
  <2> QED
    BY <1>2, <2>1, <2>2
<1>6. TypeOK'
  BY <1>1, <1>2, <1>3 DEF TypeOK, Updates, Moves
<1>7. Grows
  BY <1>1, <1>2, <1>3, <1>4 DEF Grows, Updates
<1>8. Proceeds
  BY <1>1, <1>2, <1>5 DEF Proceeds
<1> QED
  BY <1>6, <1>7, <1>8, GrowsConsistent

(* Deleting takes no reference away, and makes no row due. *)
LEMMA DeleteStep ==
  ASSUME Consistent, NEW ids \in SUBSET Docs, NEW swept \in BOOLEAN,
         DeleteDocs(ids, swept), sweep' \subseteq Docs
  PROVE  Consistent'
<1>1. /\ TypeOK /\ PartsRefer /\ PartsHaveBlobs /\ OriginalsExist /\ OnlyDeletedGo
      /\ LiveBlobHasObject
      /\ UNCHANGED <<part, store, content, call, purge, crashes, faults>>
  BY DEF Consistent, DeleteDocs
<1>2. /\ doc' \in [Docs -> Documents]
      /\ \A d \in Docs : /\ Exists(d)' = Exists(d)
                         /\ doc[d].deleted => doc'[d].deleted
                         /\ Began(d) => Began(d)'
      /\ media' \in [Keys -> {"none", "live", "deleted", "due"}]
      /\ \A k \in Keys :
            \/ media'[k] = media[k]
            \/ /\ media[k] = "live" /\ media'[k] = "deleted"
               /\ doc'[k.doc].deleted /\ Began(k.doc)'
  BY <1>1, DeleteFacts
<1>3. TypeOK'
  BY <1>1, <1>2 DEF TypeOK
<1>4. \A k \in Keys : media[k] # "none" => media'[k] # "none"
  BY <1>2
<1>5. PartsRefer' /\ PartsHaveBlobs'
  BY <1>1, <1>4, PartFacts DEF PartsRefer, PartsHaveBlobs
<1>6. OriginalsExist'
  BY <1>1, <1>2, <1>4, KeyFacts DEF OriginalsExist, Original
<1>7. OnlyDeletedGo'
  BY <1>1, <1>2, ThumbFacts DEF OnlyDeletedGo
<1>8. LiveBlobHasObject'
  BY <1>1, <1>2 DEF LiveBlobHasObject, Derived
<1>9. Proceeds /\ \A c \in Calls : InFlight(c) => KeepsFor(call[c].doc)
  BY <1>1, <1>4 DEF Proceeds, KeepsFor
<1>10. Steady'
  BY <1>9, ProceedsSteady
<1>11. Quiet'
  BY <1>1, <1>2, <1>9, ProceedsQuiet
<1> QED
  BY <1>3, <1>5, <1>6, <1>7, <1>8, <1>10, <1>11 DEF Consistent

(* Rows become due only when the calls on their document are over. *)
LEMMA ElapseStep ==
  ASSUME Consistent, NEW d \in Docs, Elapse(d)
  PROVE  Consistent'
<1>1. /\ TypeOK /\ PartsRefer /\ PartsHaveBlobs /\ OriginalsExist /\ OnlyDeletedGo
      /\ LiveBlobHasObject /\ Quiet
      /\ UNCHANGED <<doc, part, store, content, call, sweep, purge, crashes, faults>>
  BY DEF Consistent, Elapse
<1>2. /\ media' \in [Keys -> {"none", "live", "deleted", "due"}]
      /\ \A k \in Keys :
            \/ media'[k] = media[k]
            \/ media[k] = "deleted" /\ media'[k] = "due" /\ k.doc = d
  BY <1>1 DEF Elapse, TypeOK
<1>3. TypeOK'
  BY <1>1, <1>2 DEF TypeOK
<1>4. \A k \in Keys : media[k] # "none" => media'[k] # "none"
  BY <1>2
<1>5. PartsRefer' /\ PartsHaveBlobs'
  BY <1>1, <1>4, PartFacts DEF PartsRefer, PartsHaveBlobs
<1>6. OriginalsExist'
  BY <1>1, <1>4, KeyFacts DEF OriginalsExist, Original, Exists
<1>7. OnlyDeletedGo'
  BY <1>1, <1>2, ThumbFacts DEF OnlyDeletedGo, Began
<1>8. LiveBlobHasObject'
  BY <1>1, <1>2 DEF LiveBlobHasObject, Derived
<1>9. Proceeds /\ \A c \in Calls : InFlight(c) => KeepsFor(call[c].doc)
  BY <1>1, <1>4 DEF Proceeds, KeepsFor
<1>10. Steady'
  BY <1>9, ProceedsSteady
<1>11. Quiet'
  <2>1. \A c \in Calls : InFlight(c) => call[c].doc # d
    BY DEF Elapse
  <2>2. \A k \in Keys : media'[k] = "due" =>
           \A c \in Calls : InFlight(c) => call[c].doc # k.doc
    BY <1>1, <1>2, <2>1 DEF Quiet
  <2>3. \A k \in purge.todo \cup purge.gone : media'[k] = "due"
    BY <1>1, <1>2 DEF Quiet, TypeOK
  <2> QED
    BY <1>1, <2>2, <2>3 DEF Quiet, InFlight
<1> QED
  BY <1>3, <1>5, <1>6, <1>7, <1>8, <1>10, <1>11 DEF Consistent

LEMMA SweepSelectStep ==
  ASSUME Consistent, SweepSelect
  PROVE  Consistent'
<1>1. /\ TypeOK /\ sweep' \subseteq Docs
      /\ UNCHANGED <<doc, part, media, store, content, call, purge, crashes, faults>>
  BY DEF Consistent, SweepSelect
<1>2. TypeOK'
  BY <1>1 DEF TypeOK
<1>3. Grows
  BY <1>1 DEF Grows, Exists, Began
<1> QED
  BY <1>1, <1>2, <1>3, GrowsConsistent DEF Proceeds

(* Only the purge's own record changes. *)
LEMMA PurgeSelectStep ==
  ASSUME Consistent, PurgeSelect
  PROVE  Consistent'
<1> DEFINE due == {k \in Keys : media[k] = "due"}
<1>1. /\ TypeOK /\ Quiet /\ purge' = [step |-> "objects", gone |-> {}, todo |-> due]
      /\ UNCHANGED <<doc, part, media, store, content, call, sweep, crashes, faults>>
  BY DEF Consistent, PurgeSelect
<1>2. TypeOK'
  BY <1>1 DEF TypeOK
<1>3. Quiet'
  BY <1>1 DEF Quiet, InFlight
<1>4. Steady'
  BY <1>1 DEF Consistent, Steady, AtPage, InHand, Product, Source, Original,
              PageKey, ThumbOf
<1> QED
  BY <1>1, <1>2, <1>3, <1>4
  DEF Consistent, PartsRefer, PartsHaveBlobs, OriginalsExist, OnlyDeletedGo,
      LiveBlobHasObject, Exists, Began, Original, Derived

(* An object that is deleted has a row that is due: no call relies on it, and *)
(* it is not listed.                                                          *)
LEMMA PurgeObjectStep ==
  ASSUME Consistent, NEW k \in Keys, PurgeObject(k)
  PROVE  Consistent'
<1>1. /\ TypeOK /\ Quiet /\ media[k] = "due" /\ LiveBlobHasObject
      /\ UNCHANGED <<doc, part, media, content, call, sweep, crashes>>
  BY DEF Consistent, PurgeObject, Quiet
<1>2. /\ purge'.step = purge.step /\ purge'.todo \subseteq purge.todo
      /\ purge'.gone \subseteq purge.gone \cup {k}
      /\ store' \subseteq store /\ store \subseteq store' \cup {k}
      /\ faults' \in Nat
  <2>1. CASE purge' = [purge EXCEPT !.todo = @ \ {k}, !.gone = @ \cup {k}]
             /\ store' = store \ {k} /\ UNCHANGED faults
    BY <1>1, <2>1 DEF TypeOK, PurgeObject
  <2>2. CASE purge' = [purge EXCEPT !.todo = @ \ {k}]
             /\ UNCHANGED store /\ faults' = faults + 1
    BY <1>1, <2>2 DEF TypeOK, PurgeObject
  <2> QED
    BY <2>1, <2>2 DEF PurgeObject
<1>3. TypeOK'
  BY <1>1, <1>2 DEF TypeOK
<1>4. Quiet'
  BY <1>1, <1>2 DEF Quiet, InFlight
<1>5. Steady'
  <2>1. \A c \in Calls : InFlight(c) => KeepsFor(call[c].doc)
    BY <1>1, <1>2 DEF KeepsFor, Quiet
  <2> QED
    BY <1>1, <2>1, ProceedsSteady DEF Proceeds
<1>6. LiveBlobHasObject'
  BY <1>1, <1>2 DEF LiveBlobHasObject, Derived
<1> QED
  BY <1>1, <1>3, <1>4, <1>5, <1>6
  DEF Consistent, PartsRefer, PartsHaveBlobs, OriginalsExist, OnlyDeletedGo,
      Exists, Began, Original

(* The rows that go are due: no call relies on them, and what referred to    *)
(* them goes too.                                                            *)
LEMMA PurgeRowsStep ==
  ASSUME Consistent, PurgeRows
  PROVE  Consistent'
<1>1. /\ TypeOK /\ PartsRefer /\ PartsHaveBlobs /\ OriginalsExist /\ OnlyDeletedGo
      /\ LiveBlobHasObject /\ Quiet
      /\ UNCHANGED <<store, content, call, sweep, crashes, faults>>
      /\ purge' = [step |-> "idle", todo |-> {}, gone |-> {}]
  BY DEF Consistent, PurgeRows
<1>2. /\ doc' \in [Docs -> Documents]
      /\ \A d \in Docs :
            /\ doc'[d].deleted = doc[d].deleted
            /\ Began(d) => Began(d)'
            /\ Exists(d)' => Exists(d) /\ Original(d) \notin purge.gone
  BY <1>1, PurgeFacts
<1>3. /\ part' \in [Docs -> [Pages -> Parts]]
      /\ \A d \in Docs, p \in Pages :
            /\ part'[d][p].blob \in {part[d][p].blob, NoKey} \ purge.gone
            /\ part'[d][p].thumb \in {part[d][p].thumb, NoKey} \ purge.gone
            /\ Original(d) \notin purge.gone /\ part[d][p].blob \notin purge.gone =>
                  part'[d][p].blob = part[d][p].blob
            /\ part'[d][p].blob = NoKey => part'[d][p].thumb = NoKey
  BY <1>1, PurgeFacts
<1>4. /\ media' \in [Keys -> {"none", "live", "deleted", "due"}]
      /\ \A k \in Keys : media'[k] = IF k \in purge.gone THEN "none" ELSE media[k]
  BY <1>1, PurgeFacts
<1>5. TypeOK'
  BY <1>1, <1>2, <1>3, <1>4 DEF TypeOK
<1>6. PartsRefer' /\ PartsHaveBlobs'
  <2> SUFFICES ASSUME NEW d \in Docs, NEW p \in Pages
               PROVE  /\ \A k \in {part'[d][p].blob, part'[d][p].thumb} :
                            k # NoKey => k.doc = d /\ media'[k] # "none"
                      /\ part'[d][p].thumb # NoKey => part'[d][p].blob # NoKey
    BY DEF PartsRefer, PartsHaveBlobs
  <2>1. part[d][p].blob \in Keys \cup {NoKey} /\ part[d][p].thumb \in Keys \cup {NoKey}
    BY <1>1, PartFacts
  <2> QED
    BY <1>1, <1>3, <1>4, <2>1 DEF PartsRefer
<1>7. OriginalsExist'
  BY <1>1, <1>2, <1>4, KeyFacts DEF OriginalsExist, Original
<1>8. OnlyDeletedGo'
  BY <1>1, <1>2, <1>4, ThumbFacts DEF OnlyDeletedGo
<1>9. LiveBlobHasObject'
  BY <1>1, <1>4 DEF LiveBlobHasObject, Derived
<1>10. Quiet'
  BY <1>1, <1>4 DEF Quiet, InFlight
<1>11. Steady'
  <2>1. ASSUME NEW c \in Calls, InFlight(c) PROVE KeepsFor(call[c].doc)
    <3>1. call[c].doc \in Docs
      BY <1>1, CallFacts
    <3>2. \A k \in Keys : k.doc = call[c].doc => k \notin purge.gone
      BY <1>1, <2>1 DEF Quiet
    <3>3. Original(call[c].doc) \notin purge.gone
      BY <3>1, <3>2, KeyFacts
    <3>4. \A p \in Pages : part[call[c].doc][p].blob # NoKey =>
                              part[call[c].doc][p].blob \notin purge.gone
      BY <1>1, <3>1, <3>2, PartFacts DEF PartsRefer
    <3> QED
      BY <1>1, <1>3, <1>4, <3>1, <3>2, <3>3, <3>4 DEF KeepsFor
  <2> QED
    BY <1>1, <2>1, ProceedsSteady DEF Proceeds
<1> QED
  BY <1>5, <1>6, <1>7, <1>8, <1>9, <1>10, <1>11 DEF Consistent
-----------------------------------------------------------------------------
(* The theorems.                                                            *)

LEMMA InitConsistent == Init => Consistent
<1> SUFFICES ASSUME Init PROVE Consistent
  OBVIOUS
<1>1. TypeOK
  <2>1. /\ doc \in [Docs -> Documents] /\ part \in [Docs -> [Pages -> Parts]]
        /\ media \in [Keys -> {"none", "live", "deleted", "due"}]
        /\ content \in [Docs -> Contents]
    BY DEF Init, Documents, Mimes, Parts, NoPart, Contents
  <2>2. \A d \in Docs : [step |-> "idle", doc |-> d, page |-> 0, mime |-> "none"]
                           \in CallStates
    BY DEF CallStates, Steps, Mimes
  <2>3. call \in [Calls -> CallStates]
    BY <2>2 DEF Init
  <2> QED
    BY <2>1, <2>3 DEF Init, TypeOK
<1>2. \A c \in Calls : call[c].step = "idle"
  BY DEF Init
<1>3. Steady
  BY <1>2 DEF Steady, AtPage, InHand, SplitSteps, ThumbSteps
<1>4. Quiet
  BY <1>2 DEF Init, Quiet
<1>5. /\ PartsRefer /\ PartsHaveBlobs /\ OriginalsExist /\ OnlyDeletedGo
      /\ LiveBlobHasObject
  BY DEF Init, NoPart, PartsRefer, PartsHaveBlobs, OriginalsExist, Exists,
         OnlyDeletedGo, LiveBlobHasObject
<1> QED
  BY <1>1, <1>3, <1>4, <1>5 DEF Consistent

LEMMA StepConsistent == Consistent /\ [Next]_vars => Consistent'
<1> SUFFICES ASSUME Consistent, [Next]_vars PROVE Consistent'
  OBVIOUS
<1>1. ASSUME NEW d \in Docs, \/ RequestUpload(d) \/ ClientPut(d) \/ Elapse(d)
                             \/ \E c \in Calls : FinalizeFetch(c, d)
                             \/ \E r \in Runs : StartDirect(r, d)
      PROVE  Consistent'
  BY <1>1, RequestUploadStep, ClientPutStep, ElapseStep, FinalizeFetchReads,
     StartDirectReads, ReadsConsistent
<1>2. ASSUME NEW c \in Calls, FinalizeStep(c) \/ RunStops(c)
      PROVE  Consistent'
  BY <1>2, ValidateReads, StreamFailsReads, ReadsConsistent, SetInvalidStep,
     SetReadyStep, ReturnRecordReads, RunStopsStep DEF FinalizeStep
<1>3. ASSUME NEW r \in Runs, MiningStep(r)
      PROVE  Consistent'
  BY <1>3, DownloadReads, PageLookupReads, ThumbLookupReads, ReadsConsistent,
     UploadPageStep, CommitPartStep, ThumbUploadStep, ThumbInsertStep,
     RecordThumbStep DEF MiningStep
<1>4. ASSUME NEW ids \in SUBSET Docs, Delete(ids)
      PROVE  Consistent'
  <2>1. DeleteDocs(ids, FALSE) /\ sweep' \subseteq Docs
    BY <1>4 DEF Delete, Consistent, TypeOK
  <2> QED
    BY <2>1, DeleteStep
<1>5. CASE SweepSelect
  BY <1>5, SweepSelectStep
<1>6. CASE SweepDelete
  <2>1. /\ sweep \in SUBSET Docs /\ DeleteDocs(sweep, TRUE) /\ sweep' \subseteq Docs
    BY <1>6 DEF SweepDelete, Consistent, TypeOK
  <2> QED
    BY <2>1, DeleteStep
<1>7. CASE Purge
  BY <1>7, PurgeSelectStep, PurgeObjectStep, PurgeRowsStep DEF Purge
<1>8. CASE UNCHANGED vars
  <2>1. TypeOK'
    BY <1>8 DEF Consistent, TypeOK, vars
  <2>2. Grows
    BY <1>8 DEF Grows, vars, Exists, Began
  <2>3. Proceeds
    BY <1>8 DEF Proceeds, vars
  <2> QED
    BY <2>1, <2>2, <2>3, GrowsConsistent
<1> QED
  BY <1>1, <1>2, <1>3, <1>4, <1>5, <1>6, <1>7, <1>8 DEF Next

(* Every step of every call, sweep and purge keeps the tables, the store and *)
(* the calls consistent with each other.                                     *)
THEOREM AlwaysConsistent == Spec => []Consistent
  BY InitConsistent, StepConsistent, PTL DEF Spec

(* The document and document_part tables (documents/service.py), the media   *)
(* table, the object store and the calls on them hold what they should.      *)
THEOREM TypeCorrect == Spec => []TypeOK
<1>1. Consistent => TypeOK
  BY DEF Consistent
<1> QED
  BY <1>1, AlwaysConsistent, PTL

(* ensure_part and ensure_thumb put the object before they insert its row    *)
(* and purge_one deletes it before the row goes: a listed blob has its       *)
(* object, whatever fails, dies or races.                                    *)
THEOREM NoBlobWithoutObject == Spec => []LiveBlobHasObject
<1>1. Consistent => LiveBlobHasObject
  BY DEF Consistent
<1> QED
  BY <1>1, AlwaysConsistent, PTL

(* delete marks a document and its blobs in one transaction, and the purge's *)
(* cascades take no row that a visible document refers to.                   *)
THEOREM VisibleStaysComplete == Spec => []VisibleIsComplete
<1>1. Consistent => VisibleIsComplete
  <2> SUFFICES ASSUME Consistent, NEW d \in Docs, Visible(d), NEW k \in Blobs(d)
               PROVE  media[k] = "live"
    BY DEF VisibleIsComplete
  <2>1. TypeOK /\ PartsRefer /\ OriginalsExist /\ OnlyDeletedGo
    BY DEF Consistent
  <2>2. k \in Keys /\ k.doc = d /\ media[k] # "none"
    BY <2>1, BlobsOwned DEF Visible
  <2> QED
    BY <2>1, <2>2 DEF OnlyDeletedGo, Visible, TypeOK
<1> QED
  BY <1>1, AlwaysConsistent, PTL
-----------------------------------------------------------------------------
(* Verdicts.                                                                *)

(* Of a document that was uploaded once: its status, the sweep and the calls *)
(* about to write a verdict agree with what was uploaded, and none was       *)
(* reached before there was an upload.                                       *)
OnceBad(d) == doc[d].uploads = 1 /\ content[d] = "bad"
OnceGood(d) == doc[d].uploads = 1 /\ content[d] # "bad"

JudgedRight(d) ==
    /\ doc[d].status = "INVALID" => OnceBad(d)
    /\ doc[d].status = "READY" => OnceGood(d)
    /\ doc[d].swept => OnceBad(d)
    /\ d \in sweep => OnceBad(d)
    /\ Original(d) \in store => doc[d].uploads = 1
    /\ \A c \in Calls : call[c].doc = d =>
          /\ call[c].step = "set_invalid" => OnceBad(d)
          /\ call[c].step = "set_ready" => OnceGood(d)

Judged == \A d \in Docs : doc[d].uploads <= 1 => JudgedRight(d)

(* A step that uploads nothing: every verdict it adds is justified. *)
Justified ==
    /\ content' = content
    /\ \A c \in Calls : call'[c].doc = call[c].doc
    /\ \A d \in Docs :
          /\ doc'[d].uploads = doc[d].uploads
          /\ Original(d) \in store' => Original(d) \in store
          /\ doc[d].uploads <= 1 =>
                /\ doc'[d].status = "INVALID" => doc[d].status = "INVALID" \/ OnceBad(d)
                /\ doc'[d].status = "READY" => doc[d].status = "READY" \/ OnceGood(d)
                /\ doc'[d].swept => doc[d].swept \/ OnceBad(d)
                /\ d \in sweep' => d \in sweep \/ OnceBad(d)
                /\ \A c \in Calls : call[c].doc = d =>
                      /\ call'[c].step = "set_invalid" =>
                            call[c].step = "set_invalid" \/ OnceBad(d)
                      /\ call'[c].step = "set_ready" =>
                            call[c].step = "set_ready" \/ OnceGood(d)

LEMMA JustifiedKeeps == Judged /\ Justified => Judged'
<1> SUFFICES ASSUME Judged, Justified, NEW d \in Docs, doc'[d].uploads <= 1
             PROVE  JudgedRight(d)'
  BY DEF Judged
<1>1. /\ doc'[d].uploads = doc[d].uploads /\ content' = content /\ JudgedRight(d)
      /\ OnceBad(d)' = OnceBad(d) /\ OnceGood(d)' = OnceGood(d)
  BY DEF Judged, Justified, OnceBad, OnceGood
<1>2. /\ doc'[d].status = "INVALID" => OnceBad(d)
      /\ doc'[d].status = "READY" => OnceGood(d)
      /\ doc'[d].swept => OnceBad(d)
      /\ d \in sweep' => OnceBad(d)
      /\ Original(d) \in store' => doc'[d].uploads = 1
  BY <1>1 DEF Justified, JudgedRight
<1>3. \A c \in Calls : call'[c].doc = d =>
          /\ call'[c].step = "set_invalid" => OnceBad(d)
          /\ call'[c].step = "set_ready" => OnceGood(d)
  BY <1>1 DEF Justified, JudgedRight
<1> HIDE DEF OnceBad, OnceGood
<1> QED
  BY <1>1, <1>2, <1>3 DEF JudgedRight

(* Statuses, uploads and the sweep's mark as they were. *)
SameVerdicts == \A d \in Docs : /\ doc'[d].uploads = doc[d].uploads
                                /\ doc'[d].status = doc[d].status
                                /\ doc'[d].swept = doc[d].swept

LEMMA UncleanSame ==
  ASSUME TypeOK, NEW d \in Docs, NEW v, doc' = [doc EXCEPT ![d].unclean = v]
  PROVE  SameVerdicts
<1> DEFINE new == [doc[d] EXCEPT !.unclean = v]
<1>1. doc[d] \in Documents /\ doc \in [Docs -> Documents]
  BY DEF TypeOK
<1>2. /\ new.uploads = doc[d].uploads /\ new.status = doc[d].status
      /\ new.swept = doc[d].swept
  BY <1>1 DEF Documents
<1>3. doc' = [doc EXCEPT ![d] = new]
  OBVIOUS
<1> HIDE DEF new
<1> QED
  BY <1>1, <1>2, <1>3 DEF SameVerdicts

(* A call that moves on, but not to a verdict. *)
LEMMA MovesJustified ==
  ASSUME TypeOK, NEW c \in Calls, Moves(c), SameVerdicts,
         call'[c].step \notin {"set_invalid", "set_ready"},
         content' = content, sweep' = sweep,
         \A d \in Docs : Original(d) \in store' => Original(d) \in store
  PROVE  Justified
  BY DEF Justified, Moves, SameVerdicts

LEMMA ValidateJustified ==
  ASSUME Consistent, Judged, NEW c \in Calls, Validate(c)
  PROVE  Justified
<1> DEFINE d == call[c].doc
<1>1. /\ TypeOK /\ d \in Docs /\ Original(d) \in store /\ Moves(c) /\ doc[d].uploads \in Nat
      /\ UNCHANGED <<doc, store, content, sweep>>
  BY CallFacts, DocFacts, ValidateReads DEF Consistent, Validate, Reads
<1>2. doc[d].uploads <= 1 => doc[d].uploads = 1
  BY <1>1 DEF Judged, JudgedRight
<1>3. /\ call'[c].step = "set_invalid" => content[d] = "bad"
      /\ call'[c].step = "set_ready" => content[d] # "bad"
  <2>1. CASE content[d] = "bad"
    BY <1>1, <2>1, ToMoves DEF Validate, Steps
  <2>2. CASE content[d] # "bad"
    <3>1. call \in [Calls -> CallStates] /\ call[c] \in CallStates
      BY <1>1 DEF TypeOK
    <3>2. call'[c].step = "set_ready"
      BY <2>2, <3>1 DEF Validate, CallStates
    <3> QED
      BY <2>2, <3>2
  <2> QED
    BY <2>1, <2>2
<1>4. doc[d].uploads <= 1 =>
         /\ call'[c].step = "set_invalid" => OnceBad(d)
         /\ call'[c].step = "set_ready" => OnceGood(d)
  BY <1>2, <1>3 DEF OnceBad, OnceGood
<1> QED
  BY <1>1, <1>4 DEF Justified, Moves

LEMMA FinalizeFetchJustified ==
  ASSUME Consistent, NEW c \in Calls, NEW d \in Docs, FinalizeFetch(c, d)
  PROVE  Justified
<1>1. /\ TypeOK /\ Moves(c) /\ SameVerdicts
      /\ UNCHANGED <<doc, store, content, sweep>>
  BY FinalizeFetchReads DEF Consistent, Reads, SameVerdicts
<1>2. call'[c].step \notin {"set_invalid", "set_ready"}
  <2>1. PICK step \in {"validate", "done", "get"} : To(c, step)
    BY DEF FinalizeFetch
  <2> QED
    BY <1>1, <2>1, ToMoves DEF Steps
<1> QED
  BY <1>1, <1>2, MovesJustified

LEMMA ReturnRecordJustified ==
  ASSUME Consistent, NEW c \in Calls, ReturnRecord(c)
  PROVE  Justified
<1>1. /\ TypeOK /\ Moves(c) /\ SameVerdicts
      /\ UNCHANGED <<doc, store, content, sweep>>
      /\ call'[c].step \notin {"set_invalid", "set_ready"}
  BY ReturnRecordReads DEF Consistent, Reads, SameVerdicts
<1> QED
  BY <1>1, MovesJustified

LEMMA StartDirectJustified ==
  ASSUME Consistent, NEW r \in Runs, NEW d \in Docs, StartDirect(r, d)
  PROVE  Justified
<1>1. /\ TypeOK /\ r \in Calls /\ Moves(r) /\ SameVerdicts
      /\ UNCHANGED <<doc, store, content, sweep>>
  BY StartDirectReads DEF Consistent, Reads, SameVerdicts
<1>2. PICK kind \in {"pdf", "image"} : Routed(r, kind)
  BY DEF StartDirect
<1>3. call'[r].step \notin {"set_invalid", "set_ready"}
  BY <1>1, <1>2, RoutedMoves DEF Mimes
<1> QED
  BY <1>1, <1>3, MovesJustified

(* A new status of one document, or none when it is purged. *)
LEMMA SetStatusSets ==
  ASSUME TypeOK, NEW d \in Docs, NEW status, NEW mime, SetStatus(d, status, mime)
  PROVE  /\ \A e \in Docs : /\ doc'[e].uploads = doc[e].uploads
                            /\ doc'[e].swept = doc[e].swept
                            /\ e # d => doc'[e].status = doc[e].status
         /\ doc'[d].status \in {status, doc[d].status}
<1> DEFINE new == [doc[d] EXCEPT !.status = status, !.mime = mime]
<1>1. doc[d] \in Documents /\ doc \in [Docs -> Documents]
  BY DEF TypeOK
<1>2. /\ new.uploads = doc[d].uploads /\ new.swept = doc[d].swept
      /\ new.status = status
  BY <1>1 DEF Documents
<1>3. doc' = [doc EXCEPT ![d] = IF Exists(d) THEN new ELSE doc[d]]
  BY DEF SetStatus
<1> HIDE DEF new
<1> QED
  BY <1>1, <1>2, <1>3

LEMMA SetInvalidJustified ==
  ASSUME Consistent, Judged, NEW c \in Calls, SetInvalid(c)
  PROVE  /\ Justified
         /\ \A d \in Docs : doc'[d].status = doc[d].status \/ call[c].doc = d
         /\ doc'[call[c].doc].status \in {"INVALID", doc[call[c].doc].status}
         /\ doc[call[c].doc].uploads <= 1 => OnceBad(call[c].doc)
<1> DEFINE d == call[c].doc
           step == IF c \in Runs THEN "idle" ELSE "done"
<1>1. /\ TypeOK /\ d \in Docs /\ call[c].step = "set_invalid"
      /\ UNCHANGED <<store, content, sweep>>
  BY CallFacts DEF Consistent, SetInvalid
<1>2. To(c, step) /\ step \in {"idle", "done"} /\ step \in Steps
  BY DEF SetInvalid, Steps
<1> HIDE DEF step
<1>3. Moves(c) /\ call'[c].step \in {"idle", "done"}
  BY <1>1, <1>2, ToMoves
<1>4. /\ \A e \in Docs : /\ doc'[e].uploads = doc[e].uploads
                         /\ doc'[e].swept = doc[e].swept
                         /\ e # d => doc'[e].status = doc[e].status
      /\ doc'[d].status \in {"INVALID", doc[d].status}
  BY <1>1, SetStatusSets DEF SetInvalid
<1>5. doc[d].uploads <= 1 => OnceBad(d)
  BY <1>1 DEF Judged, JudgedRight
<1> QED
  BY <1>1, <1>3, <1>4, <1>5 DEF Justified, Moves

LEMMA SetReadyJustified ==
  ASSUME Consistent, Judged, NEW c \in Calls, SetReady(c)
  PROVE  /\ Justified
         /\ \A d \in Docs : doc'[d].status = doc[d].status \/ call[c].doc = d
         /\ doc'[call[c].doc].status \in {"READY", doc[call[c].doc].status}
         /\ doc[call[c].doc].uploads <= 1 => OnceGood(call[c].doc)
<1> DEFINE d == call[c].doc
<1>1. /\ TypeOK /\ d \in Docs /\ call[c].step = "set_ready" /\ call[c].mime \in Mimes
      /\ UNCHANGED <<store, content, sweep>>
  BY CallFacts DEF Consistent, SetReady
<1>2. Moves(c) /\ call'[c].step \notin {"set_invalid", "set_ready"}
  <2>1. PICK step \in {"refetch", "done"} : To(c, step)
    BY DEF SetReady
  <2> QED
    BY <1>1, <2>1, ToMoves DEF Steps
<1>3. /\ \A e \in Docs : /\ doc'[e].uploads = doc[e].uploads
                         /\ doc'[e].swept = doc[e].swept
                         /\ e # d => doc'[e].status = doc[e].status
      /\ doc'[d].status \in {"READY", doc[d].status}
  BY <1>1, SetStatusSets DEF SetReady
<1>4. doc[d].uploads <= 1 => OnceGood(d)
  BY <1>1 DEF Judged, JudgedRight
<1> QED
  BY <1>1, <1>2, <1>3, <1>4 DEF Justified, Moves

LEMMA MiningJustified ==
  ASSUME Consistent, NEW r \in Runs, MiningStep(r)
  PROVE  Justified /\ SameVerdicts
<1>1. TypeOK /\ r \in Calls
  BY DEF Consistent, Calls
<1>2. ASSUME Download(r) \/ PageLookup(r) \/ ThumbLookup(r)
      PROVE  Moves(r) /\ SameVerdicts /\ UNCHANGED <<doc, store, content, sweep>>
  BY <1>2, DownloadReads, PageLookupReads, ThumbLookupReads DEF Reads, SameVerdicts
<1>3. CASE Download(r)
  <2>1. call'[r].step \in {"page", "idle"}
    BY <1>1, <1>3, ToMoves DEF Download, Steps
  <2> QED
    BY <1>1, <1>2, <1>3, <2>1, MovesJustified
<1>4. CASE PageLookup(r)
  <2>1. CASE NextPage(r)
    <3>1. call[r].page \in Pages
      BY <1>1, <1>4 DEF Consistent, Steady, AtPage, PageLookup, SplitSteps
    <3>2. call'[r].step \in {"page", "thumb"}
      BY <1>1, <2>1, <3>1, NextPageMoves
    <3> QED
      BY <1>1, <1>2, <1>4, <3>2, MovesJustified
  <2>2. CASE To(r, "upload") \/ To(r, "commit") \/ To(r, "idle")
    <3>1. call'[r].step \in {"upload", "commit", "idle"}
      BY <1>1, <2>2, ToMoves DEF Steps
    <3> QED
      BY <1>1, <1>2, <1>4, <3>1, MovesJustified
  <2> QED
    BY <1>4, <2>1, <2>2 DEF PageLookup
<1>5. CASE UploadPage(r)
  <2>1. /\ Moves(r) /\ call'[r].step = "commit" /\ SameVerdicts
        /\ content' = content /\ sweep' = sweep
        /\ store' = store \cup {PageKey(call[r].doc, call[r].page)}
    BY <1>1, <1>5, ToMoves DEF UploadPage, Steps, SameVerdicts
  <2>2. call[r].page # 0
    BY <1>1, <1>5 DEF Consistent, Steady, AtPage, UploadPage, SplitSteps, Pages
  <2>3. \A d \in Docs : Original(d) # PageKey(call[r].doc, call[r].page)
    BY <2>2 DEF Original, PageKey
  <2> QED
    BY <1>1, <2>1, <2>3, MovesJustified
<1>6. CASE CommitPart(r)
  <2> DEFINE lost == part[call[r].doc][call[r].page].blob \notin
                       {NoKey, IF call[r].mime = "pdf"
                               THEN PageKey(call[r].doc, call[r].page)
                               ELSE Original(call[r].doc)}
             v == doc[call[r].doc].unclean \/ lost
  <2>1. /\ call[r].doc \in Docs /\ call[r].page \in Pages /\ NextPage(r)
        /\ UNCHANGED <<store, content, sweep>>
    BY <1>6, CommitFacts DEF CommitPart
  <2>2. doc' = [doc EXCEPT ![call[r].doc].unclean = v]
    BY <1>6 DEF CommitPart
  <2> HIDE DEF v
  <2>3. SameVerdicts
    BY <1>1, <2>1, <2>2, UncleanSame
  <2>4. Moves(r) /\ call'[r].step \in {"page", "thumb"}
    BY <1>1, <2>1, NextPageMoves
  <2> QED
    BY <1>1, <2>1, <2>3, <2>4, MovesJustified
<1>7. CASE ThumbLookup(r)
  <2>1. call'[r].step \in {"idle", "record", "thumb_upload"}
    BY <1>1, <1>7, ToMoves DEF ThumbLookup, Steps
  <2> QED
    BY <1>1, <1>2, <1>7, <2>1, MovesJustified
<1>8. CASE ThumbUpload(r)
  <2>1. /\ Moves(r) /\ call'[r].step = "thumb_insert" /\ SameVerdicts
        /\ content' = content /\ sweep' = sweep
        /\ store' = store \cup {ThumbOf(Source(r))}
    BY <1>1, <1>8, ToMoves DEF ThumbUpload, Steps, SameVerdicts
  <2>2. Derived(ThumbOf(Source(r)))
    BY <1>1, <1>8, SourceTyped DEF Consistent, Steady, ThumbUpload, ThumbSteps
  <2>3. \A d \in Docs : Original(d) # ThumbOf(Source(r))
    BY <2>2, KeyFacts
  <2> QED
    BY <1>1, <2>1, <2>3, MovesJustified
<1>9. CASE ThumbInsert(r)
  <2>1. /\ Moves(r) /\ call'[r].step = "record" /\ SameVerdicts
        /\ UNCHANGED <<content, sweep, store>>
    BY <1>1, <1>9, ToMoves DEF ThumbInsert, Steps, SameVerdicts
  <2> QED
    BY <1>1, <2>1, MovesJustified
<1>10. CASE RecordThumb(r)
  <2> DEFINE lost == part[call[r].doc][call[r].page].thumb \notin
                       {NoKey, ThumbOf(Source(r))}
             v == doc[call[r].doc].unclean \/ lost
  <2>1. /\ call[r].doc \in Docs /\ Moves(r) /\ call'[r].step \in {"done", "thumb"}
        /\ UNCHANGED <<store, content, sweep>>
    BY <1>10, RecordFacts DEF RecordThumb
  <2>2. doc' = [doc EXCEPT ![call[r].doc].unclean = v]
    BY <1>10 DEF RecordThumb
  <2> HIDE DEF v
  <2>3. SameVerdicts
    BY <1>1, <2>1, <2>2, UncleanSame
  <2> QED
    BY <1>1, <2>1, <2>3, MovesJustified
<1> QED
  BY <1>2, <1>3, <1>4, <1>5, <1>6, <1>7, <1>8, <1>9, <1>10 DEF MiningStep

(* What the other steps do to statuses, uploads and the sweep's mark. *)
LEMMA RequestUploadJustified ==
  ASSUME Consistent, NEW d \in Docs, RequestUpload(d)
  PROVE  /\ Justified
         /\ \A e \in Docs : doc[e].status # "ABSENT" => doc'[e].status = doc[e].status
<1> DEFINE new == [doc[d] EXCEPT !.status = "NEW"]
<1>1. doc[d] \in Documents /\ doc \in [Docs -> Documents] /\ doc[d].status = "ABSENT"
  BY DEF Consistent, TypeOK, RequestUpload
<1>2. /\ new.uploads = doc[d].uploads /\ new.swept = doc[d].swept
      /\ new.status = "NEW"
  BY <1>1 DEF Documents
<1>3. /\ doc' = [doc EXCEPT ![d] = new]
      /\ UNCHANGED <<store, content, sweep, call>>
  BY DEF RequestUpload
<1> HIDE DEF new
<1>4. \A e \in Docs : /\ doc'[e].uploads = doc[e].uploads
                      /\ doc'[e].swept = doc[e].swept
                      /\ doc'[e].status \in {doc[e].status, "NEW"}
                      /\ doc[e].status # "ABSENT" => doc'[e].status = doc[e].status
  BY <1>1, <1>2, <1>3
<1> QED
  BY <1>3, <1>4 DEF Justified

LEMMA RunStopsJustified ==
  ASSUME Consistent, NEW c \in Calls, RunStops(c)
  PROVE  Justified /\ SameVerdicts
<1>1. /\ TypeOK /\ call[c].doc \in Docs /\ Moves(c) /\ call'[c].step = "idle"
      /\ UNCHANGED <<store, content, sweep>>
  BY CallFacts, ToMoves DEF Consistent, RunStops, Steps
<1>2. SameVerdicts
  BY <1>1, UncleanSame DEF RunStops
<1> QED
  BY <1>1, <1>2, MovesJustified

LEMMA DeleteSets ==
  ASSUME TypeOK, NEW ids \in SUBSET Docs, NEW swept \in BOOLEAN, DeleteDocs(ids, swept)
  PROVE  \A d \in Docs :
            /\ doc'[d].uploads = doc[d].uploads /\ doc'[d].status = doc[d].status
            /\ doc'[d].swept = doc[d].swept \/ (d \in ids /\ doc'[d].swept = swept)
<1> DEFINE del == {d \in ids : Visible(d)}
           raced(d) == \E c \in Calls : InFlight(c) /\ call[c].doc = d
           new(d) == [doc[d] EXCEPT !.deleted = TRUE, !.swept = swept,
                                    !.unclean = @ \/ raced(d)]
<1>1. \A d \in Docs : /\ new(d).uploads = doc[d].uploads
                      /\ new(d).status = doc[d].status /\ new(d).swept = swept
  BY DocFacts DEF Documents
<1>2. doc' = [d \in Docs |-> IF d \in del THEN new(d) ELSE doc[d]]
  BY DEF DeleteDocs
<1> HIDE DEF new
<1> QED
  BY <1>1, <1>2

LEMMA DeleteJustified ==
  ASSUME Consistent, Judged,
         NEW ids \in SUBSET Docs, Delete(ids)
  PROVE  Justified /\ \A d \in Docs : doc'[d].status = doc[d].status
<1>1. /\ TypeOK /\ DeleteDocs(ids, FALSE)
      /\ UNCHANGED <<store, content, call, sweep>>
  BY DEF Consistent, Delete, DeleteDocs
<1>2. \A d \in Docs :
         /\ doc'[d].uploads = doc[d].uploads /\ doc'[d].status = doc[d].status
         /\ doc'[d].swept => doc[d].swept
  BY <1>1, DeleteSets
<1> QED
  BY <1>1, <1>2 DEF Justified

LEMMA SweepJustified ==
  ASSUME Consistent, Judged, SweepSelect \/ SweepDelete
  PROVE  Justified /\ \A d \in Docs : doc'[d].status = doc[d].status
<1>1. CASE SweepSelect
  <2>1. /\ UNCHANGED <<doc, store, content, call>>
        /\ \A d \in sweep' : doc[d].status = "INVALID"
    BY <1>1 DEF SweepSelect
  <2>2. \A d \in Docs : doc[d].uploads <= 1 /\ d \in sweep' => OnceBad(d)
    BY <2>1 DEF Judged, JudgedRight
  <2> QED
    BY <2>1, <2>2 DEF Justified
<1>2. CASE SweepDelete
  <2>1. /\ TypeOK /\ DeleteDocs(sweep, TRUE) /\ sweep \in SUBSET Docs /\ sweep' = {}
        /\ UNCHANGED <<store, content, call>>
    BY <1>2 DEF Consistent, TypeOK, SweepDelete, DeleteDocs
  <2>2. \A d \in Docs :
           /\ doc'[d].uploads = doc[d].uploads /\ doc'[d].status = doc[d].status
           /\ doc'[d].swept => doc[d].swept \/ d \in sweep
    BY <2>1, DeleteSets
  <2>3. \A d \in Docs : doc[d].uploads <= 1 /\ d \in sweep => OnceBad(d)
    BY DEF Judged, JudgedRight
  <2> QED
    BY <2>1, <2>2, <2>3 DEF Justified
<1> QED
  BY <1>1, <1>2

LEMMA PurgeJustified ==
  ASSUME Consistent, Purge
  PROVE  Justified /\ \A d \in Docs : doc'[d].status \in {doc[d].status, "PURGED"}
<1>1. CASE PurgeSelect
  BY <1>1 DEF PurgeSelect, Justified
<1>2. ASSUME NEW k \in Keys, PurgeObject(k)
      PROVE  Justified /\ \A d \in Docs : doc'[d].status \in {doc[d].status, "PURGED"}
  <2>1. UNCHANGED <<doc, content, call, sweep>> /\ store' \subseteq store
    BY <1>2 DEF PurgeObject
  <2> QED
    BY <2>1 DEF Justified
<1>3. CASE PurgeRows
  <2> DEFINE new(d) == [doc[d] EXCEPT !.status = "PURGED"]
  <2>1. \A d \in Docs : /\ new(d).uploads = doc[d].uploads
                        /\ new(d).swept = doc[d].swept /\ new(d).status = "PURGED"
    BY DocFacts DEF Consistent, Documents
  <2>2. /\ doc' = [d \in Docs |-> IF Original(d) \in purge.gone THEN new(d) ELSE doc[d]]
        /\ UNCHANGED <<store, content, call, sweep>>
    BY <1>3 DEF PurgeRows
  <2> HIDE DEF new
  <2>3. \A d \in Docs : /\ doc'[d].uploads = doc[d].uploads
                        /\ doc'[d].swept = doc[d].swept
                        /\ doc'[d].status \in {doc[d].status, "PURGED"}
    BY <2>1, <2>2
  <2> QED
    BY <2>2, <2>3 DEF Justified
<1> QED
  BY <1>1, <1>2, <1>3 DEF Purge

(* A second upload ends what is known of the first; before the first, there  *)
(* is no verdict that it could contradict.                                   *)
LEMMA ClientPutJudged ==
  ASSUME Consistent, Judged, NEW d \in Docs, ClientPut(d)
  PROVE  Judged' /\ \A e \in Docs : doc'[e].status = doc[e].status
<1> DEFINE n == doc[d].uploads + 1
           new == [doc[d] EXCEPT !.uploads = n]
<1>1. /\ TypeOK /\ doc[d] \in Documents /\ doc \in [Docs -> Documents]
      /\ doc[d].uploads \in Nat /\ content \in [Docs -> Contents]
  BY DocFacts DEF Consistent, TypeOK
<1>2. /\ new.uploads = n /\ new.status = doc[d].status /\ new.swept = doc[d].swept
  BY <1>1 DEF Documents
<1>3. /\ doc' = [doc EXCEPT ![d] = new]
      /\ store' = store \cup {Original(d)} /\ UNCHANGED <<call, sweep>>
      /\ \A e \in Docs \ {d} : content'[e] = content[e]
  BY <1>1 DEF ClientPut
<1> HIDE DEF new, n
<1>4. /\ doc'[d].uploads = n /\ doc'[d].status = doc[d].status
      /\ doc'[d].swept = doc[d].swept
      /\ \A e \in Docs \ {d} : doc'[e] = doc[e]
  BY <1>1, <1>2, <1>3
<1>5. ASSUME NEW e \in Docs \ {d}, doc'[e].uploads <= 1 PROVE JudgedRight(e)'
  <2>1. JudgedRight(e) /\ OnceBad(e)' = OnceBad(e) /\ OnceGood(e)' = OnceGood(e)
    BY <1>3, <1>4, <1>5 DEF Judged, OnceBad, OnceGood
  <2>2. Original(e) # Original(d)
    BY <1>5, KeyFacts
  <2> HIDE DEF OnceBad, OnceGood
  <2> QED
    BY <1>3, <1>4, <1>5, <2>1, <2>2 DEF JudgedRight
<1>6. ASSUME doc'[d].uploads <= 1 PROVE JudgedRight(d)'
  <2>1. doc[d].uploads = 0 /\ n = 1
    BY <1>1, <1>4, <1>6 DEF n
  <2>2. /\ doc[d].status \notin {"READY", "INVALID"} /\ ~doc[d].swept /\ d \notin sweep
        /\ \A c \in Calls : call[c].doc = d =>
              call[c].step \notin {"set_invalid", "set_ready"}
    BY <2>1, DocFacts, <1>1 DEF Judged, JudgedRight, OnceBad, OnceGood
  <2> QED
    BY <1>3, <1>4, <2>1, <2>2 DEF JudgedRight
<1> QED
  BY <1>4, <1>5, <1>6 DEF Judged

LEMMA InitJudged == Init => Judged
  BY DEF Init, Judged, JudgedRight

(* A verdict on a document with one upload is not overturned. *)
Stands == \A d \in Docs :
             doc[d].status \in {"READY", "INVALID"} /\ doc'[d].uploads <= 1 =>
                 doc'[d].status \in {doc[d].status, "PURGED"}

LEMMA StepJudged == Consistent /\ Judged /\ [Next]_vars => Judged' /\ Stands
<1> SUFFICES ASSUME Consistent, Judged, [Next]_vars PROVE Judged' /\ Stands
  OBVIOUS
<1>1. ASSUME NEW d \in Docs, ClientPut(d) PROVE Judged' /\ Stands
  BY <1>1, ClientPutJudged DEF Stands
<1>2. ASSUME NEW d \in Docs, \/ RequestUpload(d) \/ Elapse(d)
                             \/ \E c \in Calls : FinalizeFetch(c, d)
                             \/ \E r \in Runs : StartDirect(r, d)
      PROVE  Justified /\ Stands
  <2>1. CASE RequestUpload(d)
    BY <2>1, RequestUploadJustified DEF Stands
  <2>2. CASE Elapse(d)
    BY <2>2 DEF Elapse, Justified, Stands
  <2>3. ASSUME NEW c \in Calls, FinalizeFetch(c, d) PROVE Justified /\ Stands
    BY <2>3, FinalizeFetchJustified DEF FinalizeFetch, Stands
  <2>4. ASSUME NEW r \in Runs, StartDirect(r, d) PROVE Justified /\ Stands
    BY <2>4, StartDirectJustified DEF StartDirect, Stands
  <2> QED
    BY <1>2, <2>1, <2>2, <2>3, <2>4
<1>3. ASSUME NEW c \in Calls, Validate(c) \/ StreamFails(c) \/ ReturnRecord(c)
      PROVE  Justified /\ Stands
  <2>1. UNCHANGED doc
    BY <1>3 DEF Validate, StreamFails, ReturnRecord
  <2>2. CASE Validate(c)
    BY <2>1, <2>2, ValidateJustified DEF Stands
  <2>3. CASE StreamFails(c)
    <3>1. /\ TypeOK /\ Moves(c) /\ call'[c].step = "idle" /\ SameVerdicts
          /\ UNCHANGED <<store, content, sweep>>
      BY <2>1, <2>3, ToMoves DEF Consistent, StreamFails, Steps, SameVerdicts
    <3> QED
      BY <2>1, <3>1, MovesJustified DEF Stands
  <2>4. CASE ReturnRecord(c)
    BY <2>1, <2>4, ReturnRecordJustified DEF Stands
  <2> QED
    BY <1>3, <2>2, <2>3, <2>4
<1>4. ASSUME NEW c \in Calls, SetInvalid(c) PROVE Justified /\ Stands
  <2> DEFINE d == call[c].doc
  <2>1. /\ Justified /\ d \in Docs
        /\ \A e \in Docs : doc'[e].status = doc[e].status \/ d = e
        /\ doc'[d].status \in {"INVALID", doc[d].status}
        /\ doc[d].uploads <= 1 => OnceBad(d)
    BY <1>4, SetInvalidJustified, CallFacts DEF Consistent
  <2>2. doc'[d].uploads = doc[d].uploads
    BY <2>1 DEF Justified
  <2>3. doc[d].uploads <= 1 => doc[d].status # "READY"
    BY <2>1 DEF Judged, JudgedRight, OnceBad, OnceGood
  <2> QED
    BY <2>1, <2>2, <2>3 DEF Stands
<1>5. ASSUME NEW c \in Calls, SetReady(c) PROVE Justified /\ Stands
  <2> DEFINE d == call[c].doc
  <2>1. /\ Justified /\ d \in Docs
        /\ \A e \in Docs : doc'[e].status = doc[e].status \/ d = e
        /\ doc'[d].status \in {"READY", doc[d].status}
        /\ doc[d].uploads <= 1 => OnceGood(d)
    BY <1>5, SetReadyJustified, CallFacts DEF Consistent
  <2>2. doc'[d].uploads = doc[d].uploads
    BY <2>1 DEF Justified
  <2>3. doc[d].uploads <= 1 => doc[d].status # "INVALID"
    BY <2>1 DEF Judged, JudgedRight, OnceBad, OnceGood
  <2> QED
    BY <2>1, <2>2, <2>3 DEF Stands
<1>6. ASSUME NEW c \in Calls, RunStops(c) PROVE Justified /\ Stands
  BY <1>6, RunStopsJustified DEF SameVerdicts, Stands
<1>7. ASSUME NEW r \in Runs, MiningStep(r) PROVE Justified /\ Stands
  BY <1>7, MiningJustified DEF SameVerdicts, Stands
<1>8. ASSUME NEW ids \in SUBSET Docs, Delete(ids) PROVE Justified /\ Stands
  BY <1>8, DeleteJustified DEF Stands
<1>9. CASE SweepSelect \/ SweepDelete
  BY <1>9, SweepJustified, JustifiedKeeps DEF Stands
<1>10. CASE Purge
  BY <1>10, PurgeJustified, JustifiedKeeps DEF Stands
<1>11. CASE UNCHANGED vars
  <2>1. Justified /\ Stands
    BY <1>11 DEF vars, Justified, Stands
  <2> QED
    BY <2>1, JustifiedKeeps
<1> QED
  BY <1>1, <1>2, <1>3, <1>4, <1>5, <1>6, <1>7, <1>8, <1>9, <1>10, <1>11,
     JustifiedKeeps DEF Next, FinalizeStep

LEMMA AlwaysJudged == Spec => [](Consistent /\ Judged)
  BY InitConsistent, StepConsistent, InitJudged, StepJudged, PTL DEF Spec

(* finalize reads NEW, validates for seconds and then writes its verdict     *)
(* whatever the status has become: on an upload written once, no interleaving*)
(* of finalizers, runs, sweeps and deletions overturns a verdict.            *)
THEOREM VerdictsStand == Spec => VerdictStands
<1>1. Consistent /\ Judged /\ [Next]_vars => [Stands]_vars
  BY StepJudged
<1>2. VerdictStands <=> [][Stands]_vars
  BY PTL DEF VerdictStands, Stands
<1> QED
  BY <1>1, <1>2, AlwaysJudged, PTL DEF Spec

(* soft_delete_invalid selects ids in one statement and deletes them in      *)
(* another: no document whose only upload is good is among those it takes.   *)
THEOREM SweepTakesOnlyBad == Spec => []SweepSparesGood
<1>1. Consistent /\ Judged => SweepSparesGood
  BY DEF Judged, JudgedRight, OnceBad, SweepSparesGood
<1> QED
  BY <1>1, AlwaysJudged, PTL
-----------------------------------------------------------------------------
(* What a purge leaves behind.                                              *)

(* A run that has stored an object and is about to insert its row, and one   *)
(* that has the row and is about to refer to it.                             *)
Storing(r, k) ==
    /\ k = Product(r)
    /\ \/ call[r].step = "commit" /\ call[r].mime = "pdf"
       \/ call[r].step = "thumb_insert"
Linking(r, k) == k = Product(r) /\ call[r].step = "record"

HasRow(k) == media[k] # "none" \/ \E r \in Runs : Storing(r, k)
Held(k) == k \in Blobs(k.doc) \/ \E r \in Runs : Linking(r, k)

ObjectsKnown == \A k \in store : crashes = 0 \/ ~doc[k.doc].unclean => HasRow(k)

(* While nothing went wrong with a document, whatever is listed of it is one *)
(* of its blobs, or about to be, and it is not deleted.                      *)
BlobsKnown == \A k \in Keys : media[k] = "live" /\ ~doc[k.doc].unclean =>
                                  ~doc[k.doc].deleted /\ Held(k)

(* A document deleted under a call is remembered. *)
RacesSeen == \A c \in Calls : InFlight(c) /\ doc[call[c].doc].deleted =>
                                  doc[call[c].doc].unclean

(* Only what was there is deleted, and only what was deleted is purged.      *)
DeletedFirst == \A d \in Docs : /\ doc[d].deleted => Began(d)
                                /\ doc[d].status = "PURGED" => doc[d].deleted

Traced == /\ ObjectsKnown /\ BlobsKnown /\ RacesSeen
          /\ purge.gone \cap store = {}
          /\ DeletedFirst

LEMMA ProductFacts ==
  ASSUME Consistent, NEW c \in Calls, NEW k, Storing(c, k) \/ Linking(c, k)
  PROVE  k \in Keys /\ k.doc = call[c].doc /\ InFlight(c)
<1>1. /\ TypeOK /\ PartsRefer /\ AtPage(c) /\ call[c].doc \in Docs /\ k = Product(c)
      /\ InFlight(c)
  BY CallFacts DEF Consistent, Steady, Storing, Linking, InFlight
<1>2. CASE call[c].step = "commit"
  <2>1. call[c].page \in Pages
    BY <1>1, <1>2 DEF AtPage, SplitSteps
  <2>2. Product(c) = PageKey(call[c].doc, call[c].page)
    BY <1>2 DEF Product
  <2> QED
    BY <1>1, <2>1, <2>2, KeyFacts
<1>3. CASE call[c].step # "commit"
  <2>1. call[c].step \in ThumbSteps
    BY <1>3 DEF Storing, Linking, ThumbSteps
  <2> QED
    BY <1>1, <2>1, SourceTyped
<1> QED
  BY <1>2, <1>3

(* What a call that does not move has in hand stays the same, while parts    *)
(* keep their blobs.                                                         *)
LEMMA ProductStays ==
  ASSUME Consistent, NEW c \in Calls, call'[c] = call[c], NEW k,
         \A p \in Pages : part[call[c].doc][p].blob # NoKey =>
                             part'[call[c].doc][p].blob = part[call[c].doc][p].blob
  PROVE  Storing(c, k)' = Storing(c, k) /\ Linking(c, k)' = Linking(c, k)
<1>1. AtPage(c)
  BY DEF Consistent, Steady
<1>2. CASE call[c].step = "commit"
  <2>1. Product(c)' = Product(c)
    BY <1>2 DEF Product, PageKey
  <2> QED
    BY <1>2, <2>1 DEF Storing, Linking
<1>3. CASE call[c].step \in {"thumb_insert", "record"}
  <2>1. Source(c)' = Source(c)
    <3>1. CASE call[c].mime = "image"
      BY <3>1 DEF Source, Original
    <3>2. CASE call[c].mime # "image"
      <4>1. /\ call[c].page \in Pages
            /\ part[call[c].doc][call[c].page].blob # NoKey
        BY <1>1, <1>3, <3>2 DEF AtPage, ThumbSteps
      <4> QED
        BY <3>2, <4>1 DEF Source
    <3> QED
      BY <3>1, <3>2
  <2>2. Product(c)' = Product(c)
    BY <1>3, <2>1 DEF Product, ThumbOf
  <2> QED
    BY <1>3, <2>2 DEF Storing, Linking
<1>4. CASE call[c].step \notin {"commit", "thumb_insert", "record"}
  BY <1>4 DEF Storing, Linking
<1> QED
  BY <1>2, <1>3, <1>4

LEMMA BlobsGrow ==
  ASSUME NEW d \in Docs,
         \A p \in Pages : /\ part[d][p].blob # NoKey => part'[d][p].blob = part[d][p].blob
                          /\ part[d][p].thumb # NoKey => part'[d][p].thumb = part[d][p].thumb
  PROVE  Blobs(d) \subseteq Blobs(d)'
<1> SUFFICES ASSUME NEW k \in Blobs(d) PROVE k \in Blobs(d)'
  OBVIOUS
<1>1. CASE k = Original(d)
  BY <1>1 DEF Blobs, Original
<1>2. CASE k # Original(d)
  <2>1. PICK p \in Pages : k \in {part[d][p].blob, part[d][p].thumb} /\ k # NoKey
    BY <1>2 DEF Blobs
  <2> QED
    BY <2>1 DEF Blobs
<1> QED
  BY <1>1, <1>2

(* A step that neither creates, deletes nor purges a document. *)
LivesOn == \A d \in Docs : /\ doc'[d].deleted = doc[d].deleted
                           /\ Began(d) => Began(d)'
                           /\ doc'[d].status = "PURGED" => doc[d].status = "PURGED"

(* A step of the call c.  It adds rows and objects only of its document, and *)
(* each is accounted for; so is what c had in hand before.                   *)
Accounts(c) ==
    /\ Moves(c) /\ purge' = purge
    /\ InFlight(c)' => InFlight(c) \/ Visible(call[c].doc)
    /\ crashes' = 0 => crashes = 0
    /\ LivesOn /\ \A d \in Docs : doc[d].unclean => doc'[d].unclean
    /\ \A d \in Docs, p \in Pages :
          /\ part[d][p].blob # NoKey => part'[d][p].blob = part[d][p].blob
          /\ part[d][p].thumb # NoKey => part'[d][p].thumb = part[d][p].thumb
    /\ \A k \in Keys :
          \/ media'[k] = media[k]
          \/ /\ InFlight(c) /\ k.doc = call[c].doc
             /\ media'[k] # "none"
             /\ doc'[k.doc].unclean \/ Held(k)'
    /\ store' \subseteq Keys
    /\ \A k \in store' :
          k \in store \/ (InFlight(c) /\ k.doc = call[c].doc /\ HasRow(k)')
    /\ \A k \in Keys :
          /\ Storing(c, k) /\ (crashes' = 0 \/ ~doc'[k.doc].unclean) => HasRow(k)'
          /\ Linking(c, k) /\ ~doc'[k.doc].unclean => Held(k)'

LEMMA AccountsTraced ==
  ASSUME Consistent, Traced, NEW c \in Calls, Accounts(c)
  PROVE  Traced'
<1> DEFINE d == call[c].doc
<1>1. /\ TypeOK /\ Quiet /\ d \in Docs /\ Moves(c) /\ \A r \in Runs : r \in Calls
      /\ \A k \in Keys : k.doc \in Docs
  BY CallFacts, ThumbFacts DEF Consistent, Calls, Accounts
<1>2. \A e \in Calls \ {c} : /\ call'[e] = call[e] /\ call[e].doc \in Docs
                             /\ \A k \in Keys : /\ Storing(e, k) => Storing(e, k)'
                                                /\ Linking(e, k) => Linking(e, k)'
  <2> TAKE e \in Calls \ {c}
  <2>1. call'[e] = call[e] /\ call[e].doc \in Docs
    BY <1>1, CallFacts DEF Moves
  <2> QED
    BY <2>1, ProductStays DEF Accounts
<1>3. \A k \in Keys : HasRow(k) /\ (crashes' = 0 \/ ~doc'[k.doc].unclean) => HasRow(k)'
  <2> TAKE k \in Keys
  <2> HAVE HasRow(k) /\ (crashes' = 0 \/ ~doc'[k.doc].unclean)
  <2>1. CASE media[k] # "none"
    BY <2>1 DEF Accounts, HasRow
  <2>2. ASSUME NEW r \in Runs, Storing(r, k) PROVE HasRow(k)'
    <3>1. CASE r = c
      BY <2>2, <3>1 DEF Accounts
    <3>2. CASE r # c
      BY <1>1, <1>2, <2>2, <3>2 DEF HasRow
    <3> QED
      BY <3>1, <3>2
  <2> QED
    BY <2>1, <2>2 DEF HasRow
<1>4. \A k \in Keys : Held(k) /\ ~doc'[k.doc].unclean => Held(k)'
  <2> TAKE k \in Keys
  <2> HAVE Held(k) /\ ~doc'[k.doc].unclean
  <2>1. CASE k \in Blobs(k.doc)
    <3>1. Blobs(k.doc) \subseteq Blobs(k.doc)'
      BY <1>1, BlobsGrow DEF Accounts
    <3> QED
      BY <2>1, <3>1 DEF Held
  <2>2. ASSUME NEW r \in Runs, Linking(r, k) PROVE Held(k)'
    <3>1. CASE r = c
      BY <2>2, <3>1 DEF Accounts
    <3>2. CASE r # c
      BY <1>1, <1>2, <2>2, <3>2 DEF Held
    <3> QED
      BY <3>1, <3>2
  <2> QED
    BY <2>1, <2>2 DEF Held
<1>5. RacesSeen'
  <2> SUFFICES ASSUME NEW e \in Calls, InFlight(e)', doc'[call'[e].doc].deleted
               PROVE  doc'[call'[e].doc].unclean
    BY DEF RacesSeen
  <2>1. call'[e].doc = call[e].doc /\ call[e].doc \in Docs /\ doc[call[e].doc].deleted
    BY <1>1, <1>2 DEF Moves, Accounts, LivesOn
  <2>2. InFlight(e)
    <3>1. CASE e = c
      BY <2>1, <3>1 DEF Accounts, Visible
    <3>2. CASE e # c
      BY <1>2, <3>2 DEF InFlight
    <3> QED
      BY <3>1, <3>2
  <2> QED
    BY <2>1, <2>2 DEF Accounts, Traced, RacesSeen
<1>6. ObjectsKnown'
  <2> SUFFICES ASSUME NEW k \in store', crashes' = 0 \/ ~doc'[k.doc].unclean
               PROVE  HasRow(k)'
    BY DEF ObjectsKnown
  <2>1. k \in Keys /\ (crashes = 0 \/ ~doc[k.doc].unclean)
    BY <1>1 DEF Accounts
  <2>2. CASE k \in store
    BY <1>3, <2>1, <2>2 DEF Traced, ObjectsKnown
  <2> QED
    BY <2>2 DEF Accounts
<1>7. BlobsKnown'
  <2> SUFFICES ASSUME NEW k \in Keys, media'[k] = "live", ~doc'[k.doc].unclean
               PROVE  ~doc'[k.doc].deleted /\ Held(k)'
    BY DEF BlobsKnown
  <2>1. ~doc[k.doc].unclean /\ doc'[k.doc].deleted = doc[k.doc].deleted
    BY <1>1 DEF Accounts, LivesOn
  <2>2. CASE media'[k] = media[k]
    BY <1>4, <2>1, <2>2 DEF Traced, BlobsKnown
  <2>3. CASE media'[k] # media[k]
    BY <2>1, <2>3 DEF Accounts, Traced, RacesSeen
  <2> QED
    BY <2>2, <2>3
<1>8. purge'.gone \cap store' = {}
  <2>1. \A k \in Keys : InFlight(c) /\ k.doc = d => k \notin purge.gone
    BY <1>1 DEF Quiet
  <2> QED
    BY <1>1, <2>1 DEF Accounts, Traced
<1>9. DeletedFirst'
  BY DEF Accounts, Traced, LivesOn, DeletedFirst
<1> QED
  BY <1>5, <1>6, <1>7, <1>8, <1>9 DEF Traced

LEMMA ReadsTraced ==
  ASSUME Consistent, Traced, NEW c \in Calls, Reads(c),
         call[c].step \notin {"commit", "thumb_insert", "record"}
  PROVE  Traced'
<1>1. Accounts(c)
  BY DEF Reads, Accounts, LivesOn, Began, Storing, Linking, Consistent, TypeOK
<1> QED
  BY <1>1, AccountsTraced

(* The calls' steps. *)
LEMMA SetStatusTraced ==
  ASSUME Consistent, Traced, NEW c \in Calls, SetInvalid(c) \/ SetReady(c)
  PROVE  Traced'
<1> DEFINE d == call[c].doc
<1>1. /\ TypeOK /\ d \in Docs /\ InFlight(c) /\ call[c].mime \in Mimes
      /\ call[c].step \notin {"commit", "thumb_insert", "record"}
      /\ UNCHANGED <<part, media, store, purge, crashes>>
  BY CallFacts DEF Consistent, SetInvalid, SetReady, InFlight
<1>2. Moves(c)
  <2>1. PICK step \in Steps : To(c, step)
    BY DEF SetInvalid, SetReady, Steps
  <2> QED
    BY <1>1, <2>1, ToMoves
<1>3. LivesOn /\ \A e \in Docs : doc'[e].unclean = doc[e].unclean
  <2>1. PICK status \in {"READY", "INVALID"}, mime \in Mimes : SetStatus(d, status, mime)
    BY <1>1, DocFacts DEF SetInvalid, SetReady
  <2> DEFINE new == [doc[d] EXCEPT !.status = status, !.mime = mime]
  <2>2. doc[d] \in Documents /\ doc \in [Docs -> Documents]
    BY <1>1 DEF TypeOK
  <2>3. /\ new.deleted = doc[d].deleted /\ new.unclean = doc[d].unclean
        /\ new.status \in {"READY", "INVALID"}
    BY <2>2 DEF Documents
  <2>4. doc' = [doc EXCEPT ![d] = IF Exists(d) THEN new ELSE doc[d]]
    BY <2>1 DEF SetStatus
  <2> HIDE DEF new
  <2> QED
    BY <2>2, <2>3, <2>4 DEF Began, LivesOn
<1>4. Accounts(c)
  BY <1>1, <1>2, <1>3 DEF Accounts, Storing, Linking, TypeOK
<1> QED
  BY <1>4, AccountsTraced

(* Only what is remembered of one document changes. *)
LEMMA UncleanSets ==
  ASSUME TypeOK, NEW d \in Docs, NEW v \in BOOLEAN, doc' = [doc EXCEPT ![d].unclean = v]
  PROVE  /\ LivesOn
         /\ \A e \in Docs : doc'[e].unclean = IF e = d THEN v ELSE doc[e].unclean
<1> DEFINE new == [doc[d] EXCEPT !.unclean = v]
<1>1. doc[d] \in Documents /\ doc \in [Docs -> Documents]
  BY DEF TypeOK
<1>2. new.deleted = doc[d].deleted /\ new.unclean = v /\ new.status = doc[d].status
  BY <1>1 DEF Documents
<1>3. doc' = [doc EXCEPT ![d] = new]
  OBVIOUS
<1> HIDE DEF new
<1> QED
  BY <1>1, <1>2, <1>3 DEF Began, LivesOn

LEMMA RunStopsTraced ==
  ASSUME Consistent, Traced, NEW c \in Calls, RunStops(c)
  PROVE  Traced'
<1> DEFINE d == call[c].doc
<1>1. /\ TypeOK /\ d \in Docs /\ InFlight(c) /\ crashes' # 0
      /\ UNCHANGED <<part, media, store, purge>>
      /\ doc' = [doc EXCEPT ![d].unclean = TRUE]
  BY CallFacts DEF Consistent, RunStops, TypeOK
<1>2. /\ LivesOn
      /\ \A e \in Docs : doc'[e].unclean = IF e = d THEN TRUE ELSE doc[e].unclean
  BY <1>1, UncleanSets
<1>3. Moves(c)
  BY <1>1, ToMoves DEF RunStops, Steps
<1>4. \A k \in Keys : Storing(c, k) \/ Linking(c, k) => k.doc = d
  BY ProductFacts
<1>5. Accounts(c)
  BY <1>1, <1>2, <1>3, <1>4 DEF Accounts, TypeOK
<1> QED
  BY <1>5, AccountsTraced

LEMMA UploadPageTraced ==
  ASSUME Consistent, Traced, NEW r \in Runs, UploadPage(r)
  PROVE  Traced'
<1> DEFINE d == call[r].doc
<1>1. /\ TypeOK /\ r \in Calls /\ AtPage(r) /\ call[r].step = "upload" /\ InFlight(r)
      /\ d \in Docs
      /\ UNCHANGED <<doc, part, media, purge, crashes>>
  BY CallFacts DEF Consistent, Steady, Calls, UploadPage, InFlight
<1>2. /\ Moves(r) /\ call'[r].step = "commit"
      /\ call'[r].page = call[r].page /\ call'[r].mime = call[r].mime
  BY <1>1, ToMoves DEF UploadPage, Steps
<1>3. call[r].page \in Pages /\ call[r].mime = "pdf"
  BY <1>1 DEF AtPage, SplitSteps
<1>4. PICK k \in Keys : k = PageKey(d, call[r].page) /\ k.doc = d
  BY <1>1, <1>3, KeyFacts
<1>5. Storing(r, k)' /\ store' = store \cup {k}
  BY <1>2, <1>3, <1>4 DEF Storing, Product, Moves, UploadPage
<1>6. HasRow(k)'
  BY <1>5 DEF HasRow
<1>7. Accounts(r)
  BY <1>1, <1>2, <1>4, <1>5, <1>6 DEF Accounts, LivesOn, Began, Storing, Linking, TypeOK
<1> QED
  BY <1>1, <1>7, AccountsTraced

LEMMA CommitPartTraced ==
  ASSUME Consistent, Traced, NEW r \in Runs, CommitPart(r)
  PROVE  Traced'
<1> DEFINE d == call[r].doc
           p == call[r].page
<1>1. /\ TypeOK /\ r \in Calls /\ AtPage(r) /\ call[r].step = "commit" /\ InFlight(r)
      /\ d \in Docs /\ p \in Pages /\ NextPage(r)
      /\ UNCHANGED <<store, purge, crashes>>
  BY CallFacts DEF Consistent, Steady, Calls, CommitPart, InFlight, AtPage, SplitSteps
<1>2. PICK blob \in Keys :
         blob.doc = d /\ blob = IF call[r].mime = "pdf" THEN PageKey(d, p) ELSE Original(d)
  BY <1>1, KeyFacts
<1>3. Moves(r)
  BY <1>1, NextPageMoves
<1>4. PICK v \in BOOLEAN :
         v <=> doc[d].unclean \/ part[d][p].blob \notin {NoKey, blob}
  OBVIOUS
<1>5. /\ media' = IF call[r].mime = "pdf" THEN Blob(blob) ELSE media
      /\ part' = [part EXCEPT ![d][p].blob = IF @ = NoKey THEN blob ELSE @]
  BY <1>2 DEF CommitPart
<1>6. doc' = [doc EXCEPT ![d].unclean = v]
  <2>1. (doc[d].unclean \/ part[d][p].blob \notin {NoKey, blob}) = v
    BY <1>1, <1>4, DocFacts
  <2> QED
    BY <1>2, <2>1 DEF CommitPart
<1>7. call[r].mime = "pdf" => Product(r) = blob
  BY <1>1, <1>2 DEF Product
<1>8. Fills(d, p, "blob", blob)
  <2> HIDE DEF d, p
  <2> QED
    BY <1>1, <1>5, BlobFills
<1>9. /\ \A e \in Docs, q \in Pages :
            /\ part[e][q].blob # NoKey => part'[e][q].blob = part[e][q].blob
            /\ part'[e][q].thumb = part[e][q].thumb
      /\ part'[d][p].blob \in {part[d][p].blob, blob} /\ part'[d][p].blob # NoKey
  BY <1>1, <1>8 DEF Fills
<1>10. /\ LivesOn
      /\ \A e \in Docs : doc'[e].unclean = IF e = d THEN v ELSE doc[e].unclean
  BY <1>1, <1>6, UncleanSets
<1>11. v \/ Held(blob)'
  <2> SUFFICES ASSUME ~v PROVE blob \in Blobs(blob.doc)'
    BY DEF Held
  <2>1. part'[blob.doc][p].blob = blob /\ blob # NoKey
    BY <1>2, <1>4, <1>9, NoKeyAssumption
  <2> QED
    BY <1>1, <2>1 DEF Blobs
<1>12. /\ \A k \in Keys : \/ media'[k] = media[k]
                          \/ k = blob /\ media'[k] # "none"
       /\ call[r].mime = "pdf" => media'[blob] # "none"
  <2>1. CASE call[r].mime = "pdf"
    <3>1. media' = Blob(blob)
      BY <1>5, <2>1
    <3> QED
      BY <1>1, <3>1, BlobFacts
  <2>2. CASE call[r].mime # "pdf"
    BY <1>5, <2>2
  <2> QED
    BY <2>1, <2>2
<1>13. \A k \in Keys : (Storing(r, k) => HasRow(k)') /\ ~Linking(r, k)
  BY <1>1, <1>7, <1>12 DEF Storing, HasRow, Linking
<1>14. /\ \A e \in Docs : doc[e].unclean => doc'[e].unclean
       /\ \A k \in Keys : \/ media'[k] = media[k]
                          \/ /\ k.doc = d /\ media'[k] # "none"
                             /\ doc'[k.doc].unclean \/ Held(k)'
  BY <1>1, <1>2, <1>4, <1>10, <1>11, <1>12
<1>15. store' = store /\ store \subseteq Keys
  BY <1>1 DEF TypeOK
<1>16. Accounts(r)
  BY <1>1, <1>3, <1>9, <1>10, <1>13, <1>14, <1>15 DEF Accounts
<1> QED
  BY <1>1, <1>16, AccountsTraced

LEMMA ThumbUploadTraced ==
  ASSUME Consistent, Traced, NEW r \in Runs, ThumbUpload(r)
  PROVE  Traced'
<1>1. /\ call[r].step = "thumb_upload"
      /\ UNCHANGED <<doc, part, media, purge, crashes>>
      /\ call[r].step \in ThumbSteps /\ To(r, "thumb_insert")
  BY DEF ThumbUpload, ThumbSteps
<1>2. PICK k \in Keys : k = ThumbOf(Source(r))
  BY <1>1, ThumbStep
<1>3. /\ TypeOK /\ r \in Calls /\ InFlight(r) /\ Moves(r) /\ call'[r].step = "thumb_insert"
      /\ Product(r)' = k /\ store' = store \cup {k}
  BY <1>1, <1>2, ThumbStep DEF ThumbUpload
<1>4. k.doc = call[r].doc
  BY <1>1, <1>2, <1>3, SourceTyped DEF Consistent, Steady
<1>5. HasRow(k)'
  BY <1>3 DEF HasRow, Storing
<1>6. Accounts(r)
  BY <1>1, <1>3, <1>4, <1>5 DEF Accounts, LivesOn, Began, Storing, Linking, TypeOK
<1> QED
  BY <1>3, <1>6, AccountsTraced

LEMMA ThumbInsertTraced ==
  ASSUME Consistent, Traced, NEW r \in Runs, ThumbInsert(r)
  PROVE  Traced'
<1>1. /\ call[r].step = "thumb_insert"
      /\ UNCHANGED <<doc, part, store, purge, crashes>>
      /\ call[r].step \in ThumbSteps /\ To(r, "record")
  BY DEF ThumbInsert, ThumbSteps
<1>2. PICK k \in Keys : k = ThumbOf(Source(r))
  BY <1>1, ThumbStep
<1>3. /\ TypeOK /\ r \in Calls /\ InFlight(r) /\ Moves(r) /\ call'[r].step = "record"
      /\ Product(r)' = k /\ Product(r) = k /\ media' = Blob(k)
  BY <1>1, <1>2, ThumbStep DEF ThumbInsert
<1>4. k.doc = call[r].doc
  BY <1>1, <1>2, <1>3, SourceTyped DEF Consistent, Steady
<1>5. Held(k)'
  BY <1>3 DEF Held, Linking
<1>6. /\ media'[k] # "none"
      /\ \A j \in Keys : media'[j] = media[j] \/ j = k
  BY <1>3, BlobFacts
<1>7. Accounts(r)
  BY <1>1, <1>3, <1>4, <1>5, <1>6 DEF Accounts, LivesOn, Began, Storing, Linking, HasRow, TypeOK
<1> QED
  BY <1>3, <1>7, AccountsTraced

LEMMA RecordThumbTraced ==
  ASSUME Consistent, Traced, NEW r \in Runs, RecordThumb(r)
  PROVE  Traced'
<1> DEFINE d == call[r].doc
           p == call[r].page
<1>1. /\ TypeOK /\ r \in Calls /\ call[r].step = "record" /\ InFlight(r)
      /\ UNCHANGED <<media, store, purge, crashes>>
  BY DEF Consistent, Calls, RecordThumb, InFlight
<1>2. PICK k \in Keys : k = Product(r) /\ k.doc = d
  BY RecordFacts
<1>3. /\ d \in Docs /\ p \in Pages /\ k = ThumbOf(Source(r))
      /\ Fills(d, p, "thumb", k) /\ Moves(r)
  BY <1>1, <1>2, RecordFacts DEF Product
<1>4. PICK v \in BOOLEAN :
         v <=> doc[d].unclean \/ part[d][p].thumb \notin {NoKey, k}
  OBVIOUS
<1>5. doc' = [doc EXCEPT ![d].unclean = v]
  <2>1. (doc[d].unclean \/ part[d][p].thumb \notin {NoKey, k}) = v
    BY <1>1, <1>3, <1>4, DocFacts
  <2> QED
    BY <1>3, <2>1 DEF RecordThumb
<1>6. /\ LivesOn
      /\ \A e \in Docs : doc'[e].unclean = IF e = d THEN v ELSE doc[e].unclean
  BY <1>1, <1>3, <1>5, UncleanSets
<1>7. /\ \A e \in Docs, q \in Pages :
            /\ part'[e][q].blob = part[e][q].blob
            /\ part[e][q].thumb # NoKey => part'[e][q].thumb = part[e][q].thumb
      /\ part'[d][p].thumb \in {part[d][p].thumb, k} /\ part'[d][p].thumb # NoKey
  BY <1>3 DEF Fills
<1>8. v \/ Held(k)'
  <2> SUFFICES ASSUME ~v PROVE k \in Blobs(k.doc)'
    BY DEF Held
  <2>1. part'[k.doc][p].thumb = k /\ k # NoKey
    BY <1>2, <1>4, <1>7, NoKeyAssumption
  <2> QED
    BY <1>3, <2>1 DEF Blobs
<1>9. \A j \in Keys : Linking(r, j) => j = k
  BY <1>2 DEF Linking
<1>10. Accounts(r)
  BY <1>1, <1>2, <1>3, <1>4, <1>6, <1>7, <1>8, <1>9 DEF Accounts, Storing, TypeOK
<1> QED
  BY <1>1, <1>10, AccountsTraced

(* The steps that leave all calls where they are. *)
LEMMA StandsTraced ==
  ASSUME Consistent, Traced, UNCHANGED <<part, call>>, crashes' = crashes,
         LivesOn, \A d \in Docs : doc'[d].unclean = doc[d].unclean,
         \A k \in Keys : /\ media[k] # "none" => media'[k] # "none"
                         /\ media'[k] = "live" => media[k] = "live",
         store' \subseteq Keys,
         \A k \in store' : k \in store \/ media[k] # "none",
         purge'.gone \cap store' = {}
  PROVE  Traced'
<1>1. \A k \in Keys : HasRow(k) => HasRow(k)'
  BY DEF HasRow, Storing, Product, Source, Original, PageKey, ThumbOf
<1>2. \A k \in Keys : Held(k)' = Held(k)
  BY DEF Held, Linking, Product, Source, Original, PageKey, ThumbOf, Blobs
<1>3. TypeOK /\ \A k \in Keys : k.doc \in Docs
  BY ThumbFacts DEF Consistent
<1>4. ObjectsKnown'
  <2> SUFFICES ASSUME NEW k \in store', crashes' = 0 \/ ~doc'[k.doc].unclean
               PROVE  HasRow(k)'
    BY DEF ObjectsKnown
  <2>1. k \in Keys /\ (crashes = 0 \/ ~doc[k.doc].unclean)
    BY <1>3
  <2>2. HasRow(k)
    BY <2>1 DEF HasRow, Traced, ObjectsKnown
  <2> QED
    BY <1>1, <2>1, <2>2
<1>5. BlobsKnown'
  BY <1>2, <1>3 DEF BlobsKnown, Traced, LivesOn
<1>6. RacesSeen'
  BY <1>3, CallFacts DEF RacesSeen, Traced, InFlight, LivesOn
<1>7. DeletedFirst'
  BY DEF Traced, LivesOn, DeletedFirst
<1> QED
  BY <1>4, <1>5, <1>6, <1>7 DEF Traced

(* A document deleted with no call in flight on it leaves no listed blob.    *)
LEMMA DeleteTraced ==
  ASSUME Consistent, Traced, NEW ids \in SUBSET Docs, NEW swept \in BOOLEAN,
         DeleteDocs(ids, swept)
  PROVE  Traced'
<1> DEFINE del == {d \in ids : Visible(d)}
           raced(d) == \E c \in Calls : InFlight(c) /\ call[c].doc = d
           new(d) == [doc[d] EXCEPT !.deleted = TRUE, !.swept = swept,
                                    !.unclean = @ \/ raced(d)]
<1>1. /\ TypeOK /\ PartsRefer /\ OriginalsExist /\ doc \in [Docs -> Documents]
      /\ \A k \in Keys : k.doc \in Docs
      /\ UNCHANGED <<part, store, call, purge, crashes>>
  BY ThumbFacts DEF Consistent, TypeOK, DeleteDocs
<1>2. \A d \in Docs : /\ new(d).deleted /\ new(d).status = doc[d].status
                      /\ new(d).unclean = (doc[d].unclean \/ raced(d))
  BY <1>1 DEF Documents
<1>3. /\ doc' = [d \in Docs |-> IF d \in del THEN new(d) ELSE doc[d]]
      /\ media' = [k \in Keys |->
                     IF media[k] = "live" /\ \E d \in del : k \in Blobs(d)
                     THEN "deleted" ELSE media[k]]
  BY DEF DeleteDocs
<1> HIDE DEF new
<1>4. \A d \in Docs : /\ d \in del => /\ doc'[d].deleted
                                      /\ doc'[d].unclean = (doc[d].unclean \/ raced(d))
                      /\ d \notin del => doc'[d] = doc[d]
                      /\ doc'[d].status = doc[d].status
  BY <1>1, <1>2, <1>3
<1>5. /\ \A k \in Keys : media[k] # "none" => media'[k] # "none"
      /\ \A k \in Keys : media'[k] = "live" =>
            media[k] = "live" /\ \A d \in del : k \notin Blobs(d)
  BY <1>3
<1>6. \A k \in Keys : /\ HasRow(k) => HasRow(k)'
                      /\ Held(k)' = Held(k)
  BY <1>1, <1>5 DEF HasRow, Held, Storing, Linking, Product, Source, Original, PageKey,
                    ThumbOf, Blobs
<1>7. \A d \in Docs : doc[d].unclean => doc'[d].unclean
  BY <1>4
<1>8. ObjectsKnown'
  <2> SUFFICES ASSUME NEW k \in store', crashes' = 0 \/ ~doc'[k.doc].unclean
               PROVE  HasRow(k)'
    BY DEF ObjectsKnown
  <2>1. k \in Keys /\ k \in store /\ (crashes = 0 \/ ~doc[k.doc].unclean)
    BY <1>1, <1>7 DEF TypeOK
  <2> QED
    BY <1>6, <2>1 DEF Traced, ObjectsKnown
<1>9. BlobsKnown'
  <2> SUFFICES ASSUME NEW k \in Keys, media'[k] = "live", ~doc'[k.doc].unclean
               PROVE  ~doc'[k.doc].deleted /\ Held(k)'
    BY DEF BlobsKnown
  <2>1. media[k] = "live" /\ ~doc[k.doc].unclean /\ k.doc \in Docs
    BY <1>1, <1>5, <1>7
  <2>2. ~doc[k.doc].deleted /\ Held(k)
    BY <2>1 DEF Traced, BlobsKnown
  <2>3. k.doc \notin del
    <3> SUFFICES ASSUME k.doc \in del PROVE FALSE
      OBVIOUS
    <3>1. ~raced(k.doc) /\ k \notin Blobs(k.doc)
      BY <1>4, <1>5, <2>1
    <3>2. PICK r \in Runs : Linking(r, k)
      BY <2>2, <3>1 DEF Held
    <3>3. r \in Calls /\ InFlight(r) /\ call[r].doc = k.doc
      BY <3>2, ProductFacts DEF Calls
    <3> QED
      BY <3>1, <3>3
  <2> QED
    BY <1>4, <1>6, <2>1, <2>2, <2>3
<1>10. RacesSeen'
  <2> SUFFICES ASSUME NEW c \in Calls, InFlight(c), doc'[call[c].doc].deleted
               PROVE  doc'[call[c].doc].unclean
    BY <1>1 DEF RacesSeen, InFlight
  <2>1. call[c].doc \in Docs
    BY <1>1, CallFacts
  <2>2. CASE call[c].doc \in del
    BY <1>4, <2>1, <2>2
  <2>3. CASE call[c].doc \notin del
    BY <1>4, <2>1, <2>3 DEF Traced, RacesSeen
  <2> QED
    BY <2>2, <2>3
<1>11. DeletedFirst'
  BY <1>4 DEF Traced, DeletedFirst, Began, Visible, Exists
<1> QED
  BY <1>1, <1>8, <1>9, <1>10, <1>11 DEF Traced

LEMMA RequestUploadTraced ==
  ASSUME Consistent, Traced, NEW d \in Docs, RequestUpload(d)
  PROVE  Traced'
<1> DEFINE new == [doc[d] EXCEPT !.status = "NEW"]
<1>1. /\ TypeOK /\ doc[d].status = "ABSENT" /\ doc[d] \in Documents
      /\ doc \in [Docs -> Documents] /\ doc' = [doc EXCEPT ![d] = new]
      /\ UNCHANGED <<part, store, call, purge, crashes>>
      /\ \A k \in Keys : k.doc \in Docs
  BY DocFacts, ThumbFacts DEF Consistent, TypeOK, RequestUpload
<1>2. PICK o \in Keys : o = Original(d) /\ o.doc = d
  BY KeyFacts
<1>3. media' = [media EXCEPT ![o] = "live"] /\ media \in [Keys -> {"none", "live", "deleted", "due"}]
  BY <1>1, <1>2 DEF RequestUpload, TypeOK
<1>4. /\ new.deleted = doc[d].deleted /\ new.unclean = doc[d].unclean
      /\ new.status = "NEW"
  BY <1>1 DEF Documents
<1> HIDE DEF new
<1>5. LivesOn /\ \A e \in Docs : doc'[e].unclean = doc[e].unclean
  BY <1>1, <1>4 DEF Began, LivesOn
<1>6. \A k \in Keys : /\ media[k] # "none" => media'[k] # "none"
                      /\ media'[k] = "live" => media[k] = "live" \/ k = o
  BY <1>3
<1>7. \A k \in Keys : /\ HasRow(k) => HasRow(k)'
                      /\ Held(k)' = Held(k)
  BY <1>1, <1>6 DEF HasRow, Held, Storing, Linking, Product, Source, Original, PageKey,
                    ThumbOf, Blobs
<1>8. Held(o) /\ ~doc[d].deleted
  BY <1>1, <1>2, NoKeyAssumption DEF Held, Blobs, Traced, DeletedFirst, Began
<1>9. ObjectsKnown'
  <2> SUFFICES ASSUME NEW k \in store', crashes' = 0 \/ ~doc'[k.doc].unclean
               PROVE  HasRow(k)'
    BY DEF ObjectsKnown
  <2>1. k \in Keys /\ k \in store /\ (crashes = 0 \/ ~doc[k.doc].unclean)
    BY <1>1, <1>5 DEF TypeOK
  <2> QED
    BY <1>7, <2>1 DEF Traced, ObjectsKnown
<1>10. BlobsKnown'
  <2> SUFFICES ASSUME NEW k \in Keys, media'[k] = "live", ~doc'[k.doc].unclean
               PROVE  ~doc'[k.doc].deleted /\ Held(k)'
    BY DEF BlobsKnown
  <2>1. CASE k = o
    BY <1>2, <1>5, <1>7, <1>8, <2>1 DEF LivesOn
  <2>2. CASE k # o
    BY <1>1, <1>5, <1>6, <1>7, <2>2 DEF Traced, BlobsKnown, LivesOn
  <2> QED
    BY <2>1, <2>2
<1>11. RacesSeen'
  BY <1>1, <1>5, CallFacts DEF RacesSeen, Traced, InFlight, LivesOn
<1> QED
  BY <1>1, <1>5, <1>9, <1>10, <1>11 DEF Traced, LivesOn, DeletedFirst

LEMMA ClientPutTraced ==
  ASSUME Consistent, Traced, NEW d \in Docs, ClientPut(d)
  PROVE  Traced'
<1> DEFINE n == doc[d].uploads + 1
           new == [doc[d] EXCEPT !.uploads = n]
<1>1. /\ TypeOK /\ Quiet /\ doc[d] \in Documents /\ doc \in [Docs -> Documents]
      /\ UNCHANGED <<part, media, call, purge, crashes>>
      /\ doc' = [doc EXCEPT ![d] = new] /\ store' = store \cup {Original(d)}
      /\ media[Original(d)] \in {"live", "deleted"} /\ Original(d) \in Keys
  BY DocFacts, KeyFacts DEF Consistent, TypeOK, ClientPut
<1>2. /\ new.deleted = doc[d].deleted /\ new.unclean = doc[d].unclean
      /\ new.status = doc[d].status
  BY <1>1 DEF Documents
<1> HIDE DEF new
<1>3. LivesOn /\ \A e \in Docs : doc'[e].unclean = doc[e].unclean
  BY <1>1, <1>2 DEF Began, LivesOn
<1>4. /\ store' \subseteq Keys /\ \A k \in store' : k \in store \/ media[k] # "none"
      /\ purge'.gone \cap store' = {}
  BY <1>1 DEF TypeOK, Traced, Quiet
<1> QED
  BY <1>1, <1>3, <1>4, StandsTraced

LEMMA PurgeRowsTraced ==
  ASSUME Consistent, Traced, PurgeRows
  PROVE  Traced'
<1>1. /\ TypeOK /\ PartsRefer /\ OnlyDeletedGo /\ Quiet /\ OriginalsExist
      /\ UNCHANGED <<store, content, call, crashes>> /\ purge'.gone = {}
      /\ \A k \in Keys : k.doc \in Docs
  BY ThumbFacts DEF Consistent, PurgeRows
<1>2. \A d \in Docs : /\ doc'[d].deleted = doc[d].deleted
                      /\ doc'[d].unclean = doc[d].unclean
                      /\ Began(d) => Began(d)'
                      /\ doc'[d].status = "PURGED" =>
                            doc[d].status = "PURGED" \/ Original(d) \in purge.gone
  <2> DEFINE new(d) == [doc[d] EXCEPT !.status = "PURGED"]
  <2>1. \A d \in Docs : /\ new(d).deleted = doc[d].deleted
                        /\ new(d).unclean = doc[d].unclean /\ new(d).status = "PURGED"
    BY <1>1, DocFacts DEF Documents
  <2>2. doc' = [d \in Docs |-> IF Original(d) \in purge.gone THEN new(d) ELSE doc[d]]
    BY DEF PurgeRows
  <2> HIDE DEF new
  <2> QED
    BY <2>1, <2>2 DEF Began
<1>3. \A k \in Keys : media'[k] = IF k \in purge.gone THEN "none" ELSE media[k]
  BY <1>1, PurgeFacts
<1>4. \A k \in purge.gone : /\ k \in Keys /\ doc[k.doc].deleted
                            /\ \A c \in Calls : InFlight(c) => call[c].doc # k.doc
  BY <1>1 DEF Quiet, OnlyDeletedGo, TypeOK
<1>5. ASSUME NEW d \in Docs, \A k \in purge.gone : k.doc # d
      PROVE  \A p \in Pages : part'[d][p] = part[d][p]
  <2> TAKE p \in Pages
  <2>1. part[d][p] \in Parts /\ part[d][p].blob \in Keys \cup {NoKey}
        /\ part[d][p].thumb \in Keys \cup {NoKey} /\ NoKey \notin purge.gone
    BY <1>1, <1>4, PartFacts, NoKeyAssumption
  <2>2. part[d][p].blob \notin purge.gone /\ part[d][p].thumb \notin purge.gone
    BY <1>1, <1>5, <2>1 DEF PartsRefer
  <2>3. Original(d) \notin purge.gone
    BY <1>5, KeyFacts
  <2>4. part'[d][p] = [part[d][p] EXCEPT !.thumb = part[d][p].thumb]
    BY <2>2, <2>3 DEF PurgeRows
  <2> QED
    BY <2>1, <2>4 DEF Parts
<1>6. \A c \in Calls, k \in Keys : /\ Storing(c, k) => Storing(c, k)'
                                   /\ Linking(c, k) => Linking(c, k)'
  <2> TAKE c \in Calls, k \in Keys
  <2> SUFFICES ASSUME Storing(c, k) \/ Linking(c, k)
               PROVE  Storing(c, k)' = Storing(c, k) /\ Linking(c, k)' = Linking(c, k)
    OBVIOUS
  <2>1. InFlight(c) /\ call[c].doc \in Docs
    BY <1>1, ProductFacts, CallFacts
  <2>2. \A p \in Pages : part'[call[c].doc][p] = part[call[c].doc][p]
    BY <1>4, <1>5, <2>1
  <2> QED
    BY <1>1, <2>2, ProductStays
<1>7. ObjectsKnown'
  <2> SUFFICES ASSUME NEW k \in store', crashes' = 0 \/ ~doc'[k.doc].unclean
               PROVE  HasRow(k)'
    BY DEF ObjectsKnown
  <2>1. /\ k \in Keys /\ k \in store /\ (crashes = 0 \/ ~doc[k.doc].unclean)
        /\ k \notin purge.gone
    BY <1>1, <1>2 DEF TypeOK, Traced
  <2>2. HasRow(k)
    BY <2>1 DEF Traced, ObjectsKnown
  <2> QED
    BY <1>3, <1>6, <2>1, <2>2 DEF HasRow, Calls
<1>8. BlobsKnown'
  <2> SUFFICES ASSUME NEW k \in Keys, media'[k] = "live", ~doc'[k.doc].unclean
               PROVE  ~doc'[k.doc].deleted /\ Held(k)'
    BY DEF BlobsKnown
  <2>1. media[k] = "live" /\ ~doc[k.doc].unclean /\ k.doc \in Docs
    BY <1>1, <1>2, <1>3
  <2>2. ~doc[k.doc].deleted /\ Held(k)
    BY <2>1 DEF Traced, BlobsKnown
  <2>3. \A p \in Pages : part'[k.doc][p] = part[k.doc][p]
    BY <1>4, <1>5, <2>1, <2>2
  <2>4. Blobs(k.doc) \subseteq Blobs(k.doc)'
    BY <2>1, <2>3, BlobsGrow
  <2>5. Held(k)'
    BY <1>6, <2>2, <2>4 DEF Held, Calls
  <2> QED
    BY <1>2, <2>1, <2>2, <2>5
<1>9. RacesSeen'
  BY <1>1, <1>2, CallFacts DEF RacesSeen, Traced, InFlight
<1>10. DeletedFirst'
  <2>1. \A d \in Docs : Original(d) \in purge.gone => doc[d].deleted
    BY <1>4, KeyFacts
  <2> QED
    BY <1>2, <2>1 DEF DeletedFirst, Traced
<1> QED
  BY <1>1, <1>7, <1>8, <1>9, <1>10 DEF Traced

LEMMA InitTraced == Init => Traced
<1> SUFFICES ASSUME Init PROVE Traced
  OBVIOUS
<1>1. \A c \in Calls : ~InFlight(c)
  BY DEF Init, InFlight
<1>2. \A k \in Keys : media[k] = "none"
  BY DEF Init
<1>3. store = {} /\ \A d \in Docs : ~doc[d].deleted /\ doc[d].status = "ABSENT"
  BY DEF Init
<1> QED
  BY <1>1, <1>2, <1>3 DEF Traced, ObjectsKnown, BlobsKnown, RacesSeen, DeletedFirst

LEMMA StepTraced == Consistent /\ Traced /\ [Next]_vars => Traced'
<1> SUFFICES ASSUME Consistent, Traced, [Next]_vars PROVE Traced'
  OBVIOUS
<1>1. TypeOK
  BY DEF Consistent
<1>2. ASSUME NEW d \in Docs, \/ RequestUpload(d) \/ ClientPut(d) \/ Elapse(d)
                             \/ \E c \in Calls : FinalizeFetch(c, d)
                             \/ \E r \in Runs : StartDirect(r, d)
      PROVE  Traced'
  <2>1. CASE Elapse(d)
    <3>1. /\ UNCHANGED <<doc, part, store, call, purge, crashes>>
          /\ \A k \in Keys : /\ media[k] # "none" => media'[k] # "none"
                             /\ media'[k] = "live" => media[k] = "live"
      BY <2>1 DEF Elapse
    <3> QED
      BY <1>1, <3>1, StandsTraced DEF Began, LivesOn, Traced, TypeOK
  <2>2. ASSUME NEW c \in Calls, FinalizeFetch(c, d) PROVE Traced'
    BY <2>2, FinalizeFetchReads, ReadsTraced DEF FinalizeFetch
  <2>3. ASSUME NEW r \in Runs, StartDirect(r, d) PROVE Traced'
    BY <2>3, StartDirectReads, ReadsTraced DEF StartDirect
  <2> QED
    BY <1>2, <2>1, <2>2, <2>3, RequestUploadTraced, ClientPutTraced
<1>3. ASSUME NEW c \in Calls, FinalizeStep(c) \/ RunStops(c) PROVE Traced'
  <2>1. CASE Validate(c)
    BY <2>1, ValidateReads, ReadsTraced DEF Validate
  <2>2. CASE StreamFails(c)
    BY <2>2, StreamFailsReads, ReadsTraced DEF StreamFails
  <2>3. CASE ReturnRecord(c)
    BY <2>3, ReturnRecordReads, ReadsTraced DEF ReturnRecord
  <2> QED
    BY <1>3, <2>1, <2>2, <2>3, SetStatusTraced, RunStopsTraced DEF FinalizeStep
<1>4. ASSUME NEW r \in Runs, MiningStep(r) PROVE Traced'
  <2>1. CASE Download(r)
    BY <2>1, DownloadReads, ReadsTraced DEF Download
  <2>2. CASE PageLookup(r)
    BY <2>2, PageLookupReads, ReadsTraced DEF PageLookup
  <2>3. CASE ThumbLookup(r)
    BY <2>3, ThumbLookupReads, ReadsTraced DEF ThumbLookup
  <2> QED
    BY <1>4, <2>1, <2>2, <2>3, UploadPageTraced, CommitPartTraced, ThumbUploadTraced,
       ThumbInsertTraced, RecordThumbTraced DEF MiningStep
<1>5. ASSUME NEW ids \in SUBSET Docs, Delete(ids) PROVE Traced'
  BY <1>5, DeleteTraced DEF Delete
<1>6. CASE SweepDelete
  <2>1. sweep \in SUBSET Docs /\ DeleteDocs(sweep, TRUE)
    BY <1>1, <1>6 DEF SweepDelete, TypeOK
  <2> QED
    BY <2>1, DeleteTraced
<1>7. CASE SweepSelect \/ PurgeSelect \/ UNCHANGED vars
  <2>1. /\ UNCHANGED <<doc, part, media, store, call, crashes>>
        /\ purge'.gone \cap store' = {}
    BY <1>7 DEF SweepSelect, PurgeSelect, vars, Traced
  <2> QED
    BY <1>1, <2>1, StandsTraced DEF Began, LivesOn, TypeOK
<1>8. ASSUME NEW k \in Keys, PurgeObject(k) PROVE Traced'
  <2>1. /\ UNCHANGED <<doc, part, media, call, crashes>> /\ store' \subseteq store
        /\ purge'.gone \cap store' = {}
    <3>1. CASE /\ store' = store \ {k}
               /\ purge' = [purge EXCEPT !.todo = @ \ {k}, !.gone = @ \cup {k}]
      BY <1>1, <1>8, <3>1 DEF PurgeObject, Traced, TypeOK
    <3>2. CASE /\ UNCHANGED store /\ purge' = [purge EXCEPT !.todo = @ \ {k}]
      BY <1>1, <1>8, <3>2 DEF PurgeObject, Traced, TypeOK
    <3> QED
      BY <1>8, <3>1, <3>2 DEF PurgeObject
  <2> QED
    BY <1>1, <2>1, StandsTraced DEF Began, LivesOn, TypeOK
<1> QED
  BY <1>2, <1>3, <1>4, <1>5, <1>6, <1>7, <1>8, PurgeRowsTraced DEF Next, Purge

LEMMA AlwaysTraced == Spec => [](Consistent /\ Traced)
  BY InitConsistent, StepConsistent, InitTraced, StepTraced, PTL DEF Spec

(* ensure_part and ensure_thumb put an object before its row is there, and   *)
(* purge_one takes a row only after its object: while no run dies half-way,  *)
(* no object is left that a later purge would not find.                      *)
THEOREM ObjectsAreRecorded == Spec => []ObjectHasRow
<1>1. Consistent /\ Traced => ObjectHasRow
  <2> SUFFICES ASSUME Consistent, Traced, crashes = 0, NEW k \in store, media[k] = "none"
               PROVE  \E r \in Runs :
                         \/ /\ call[r].step = "commit"
                            /\ k = PageKey(call[r].doc, call[r].page)
                         \/ call[r].step = "thumb_insert" /\ k = ThumbOf(Source(r))
    BY DEF ObjectHasRow
  <2>1. PICK r \in Runs : Storing(r, k)
    BY DEF Traced, ObjectsKnown, HasRow
  <2> QED
    BY <2>1 DEF Storing, Product
<1> QED
  BY <1>1, AlwaysTraced, PTL

(* delete routes the blobs it finds into the purge window: of a document     *)
(* that no run died on and no call raced, it finds all of them, and the      *)
(* purge leaves nothing behind.                                              *)
THEOREM CleanPurgesAreComplete == Spec => []CleanPurgeLeavesNothing
<1>1. Consistent /\ Traced => CleanPurgeLeavesNothing
  <2> SUFFICES ASSUME Consistent, Traced, NEW d \in Docs, doc[d].status = "PURGED",
                      ~doc[d].unclean, NEW k \in Keys, k.doc = d
               PROVE  /\ media[k] # "live"
                      /\ k \in store => media[k] # "none"
    BY DEF CleanPurgeLeavesNothing, LeavesNothing
  <2>1. doc[d].deleted
    BY DEF Traced, DeletedFirst
  <2>2. \A r \in Runs : ~Storing(r, k)
    <3> SUFFICES ASSUME NEW r \in Runs, Storing(r, k) PROVE FALSE
      OBVIOUS
    <3>1. r \in Calls /\ InFlight(r) /\ call[r].doc = d
      BY ProductFacts DEF Calls
    <3> QED
      BY <2>1, <3>1 DEF Traced, RacesSeen
  <2> QED
    BY <2>1, <2>2 DEF Traced, BlobsKnown, ObjectsKnown, HasRow
<1> QED
  BY <1>1, AlwaysTraced, PTL
=============================================================================
