------------------------------- MODULE Reads -------------------------------
(***************************************************************************)
(* Reads of several statements.  The lists (documents, definitions,        *)
(* knowledge, runs, audits) are paged by LIMIT and OFFSET, newest first,   *)
(* one row more than the page telling whether another page follows; a      *)
(* client walks through the pages while rows come and go.  A row takes its *)
(* place by created_at, the start of the transaction that inserts it, and  *)
(* is seen when that transaction commits, perhaps behind younger rows.     *)
(* The view of a document reads the document, its parts and their blobs in *)
(* three statements, between which the document may be deleted and mining  *)
(* may add a page or a thumbnail.                                          *)
(***************************************************************************)
EXTENDS Integers, FiniteSets, SequencesExt

CONSTANTS Rows,           \* row identities of the listed tables
          AuditRows,      \* the rows whose workflow is an audit
          Similarity,     \* of each row to a search, in tenths
          Threshold,      \* _SEARCH_SIM_THRESHOLD, in tenths
          Asked,          \* values given for "limit"
          NoLimit,        \* "limit" left out
          DefaultPage, MaxPage,   \* userdata.common, MediaConfig
          MaxRunPage,     \* the limit the run lists accept
          Walkers, Viewers,
          PageNumbers     \* pages of the viewed document

ASSUME ReadsAssumption ==
  /\ IsFiniteSet(Rows) /\ IsFiniteSet(PageNumbers)
  /\ AuditRows \subseteq Rows
  /\ Similarity \in [Rows -> Nat] /\ Threshold \in Nat
  /\ Asked \subseteq Int \union {NoLimit}
  /\ DefaultPage \in Nat \ {0} /\ MaxPage \in Nat \ {0} /\ MaxRunPage \in Nat \ {0}
  /\ PageNumbers \subseteq Nat \ {0}

VARIABLES list,     \* the list that the clients walk through
          stamp,    \* created_at of each row, 0 before its transaction starts
          entry,    \* each row: absent, live or deleted
          walk,     \* each client's walk through a list
          doc,      \* the viewed document, and the state of each blob of its parts
          view      \* each request for its view

readsVars == <<list, stamp, entry, walk, doc, view>>

Lists == {"documents", "definitions", "knowledge", "runs", "audits"}
BlobStates == {"none", "live", "deleted"}

ReadsTypeOK ==
  /\ stamp \in [Rows -> 0..Cardinality(Rows)]
  /\ list \in Lists /\ entry \in [Rows -> {"absent", "live", "deleted"}]
  /\ walk \in [Walkers ->
       [step : {"idle", "pages", "done", "refused"}, limit : Nat, offset : Nat,
        seen : Seq(Rows), steady : SUBSET Rows, came : BOOLEAN, went : BOOLEAN]]
  /\ doc \in [state : {"live", "deleted"}, mime : {"pdf", "image"},
              page : [PageNumbers -> BlobStates], thumb : [PageNumbers -> BlobStates]]
  /\ view \in [Viewers ->
       [step : {"idle", "parts", "media", "done"}, of : {"page", "thumb"},
        parts : SUBSET PageNumbers, due : SUBSET PageNumbers, records : Seq(Nat),
        outcome : {"none", "shown", "not_found", "index_error"}, quiet : BOOLEAN]]

NoWalk == [step |-> "idle", limit |-> 0, offset |-> 0,
           seen |-> <<>>, steady |-> {}, came |-> FALSE, went |-> FALSE]
NoView == [step |-> "idle", of |-> "page", parts |-> {}, due |-> {}, records |-> <<>>,
           outcome |-> "none", quiet |-> TRUE]

ReadsInit ==
  /\ stamp = [r \in Rows |-> 0]
  /\ list \in Lists
  /\ entry = [r \in Rows |-> "absent"]
  /\ walk = [w \in Walkers |-> NoWalk]
  /\ doc \in [state : {"live"}, mime : {"pdf", "image"},
              page : {[p \in PageNumbers |-> "none"]}, thumb : {[p \in PageNumbers |-> "none"]}]
  /\ view = [v \in Viewers |-> NoView]
-----------------------------------------------------------------------------
(* Lists *)

\* The clamped limit: 0 is false in Python and stands for the default.
PageBounds(asked) ==
  IF asked = NoLimit \/ asked = 0 THEN Min({DefaultPage, MaxPage})
                                  ELSE Max({1, Min({asked, MaxPage})})

\* Query(50, ge=1, le=200): anything else is refused, not clamped.
RunLimits(asked) ==
  IF asked = NoLimit THEN {Min({DefaultPage, MaxRunPage})} ELSE {asked} \intersect (1..MaxRunPage)

\* What a request may use as its limit: nothing when it is refused.
Limits(asked) ==
  IF list \in {"runs", "audits"} THEN RunLimits(asked) ELSE {PageBounds(asked)}

Live == {r \in Rows : entry[r] = "live"}
Newer(r, s) == stamp[r] > stamp[s]
Closer(r, s) == \/ Similarity[r] > Similarity[s]
                \/ Similarity[r] = Similarity[s] /\ Newer(r, s)

\* Rows in an order: each in the place after all that come before it.
Sorted(rows, Before(_, _)) ==
  [i \in 1..Cardinality(rows) |->
     CHOOSE r \in rows : Cardinality({s \in rows : Before(s, r)}) = i - 1]

\* WHERE deleted_at IS NULL ORDER BY created_at DESC, id; no two stamps are equal.
Newest(rows) == Sorted(rows, Newer)
\* A search keeps the rows above the threshold, the most similar first.
Ranked(rows) == Sorted({r \in rows : Similarity[r] >= Threshold}, Closer)
\* list_recent: all the runs, or those of one workflow.
Recent == Newest(IF list = "audits" THEN Live \intersect AuditRows ELSE Live)

Listed == CASE list = "knowledge" -> Ranked(Live)
            [] list \in {"runs", "audits"} -> Recent
            [] OTHER -> Newest(Live)

Slice(seq, off, n) == [i \in 1..Min({n, Len(seq) - off}) |-> seq[off + i]]

\* Mutant: the row that tells of another page is not fetched.
ListPageBare(lim, off) ==
  LET rows == Slice(Listed, off, lim)
  IN  [items |-> Slice(rows, 0, lim), more |-> Len(rows) > lim]

\* LIMIT lim + 1 OFFSET off, cut to lim.
ListPage(lim, off) ==
  LET rows == Slice(Listed, off, lim + 1)
  IN  [items |-> Slice(rows, 0, lim), more |-> Len(rows) > lim]

\* INSERT ... created_at DEFAULT now(), the start of the transaction.
BeginInsert(r) ==
  /\ stamp[r] = 0
  /\ stamp' = [stamp EXCEPT ![r] = Cardinality({s \in Rows : stamp[s] # 0}) + 1]
  /\ UNCHANGED <<list, entry, walk, doc, view>>

CommitInsert(r) ==
  /\ stamp[r] # 0 /\ entry[r] = "absent"
  /\ entry' = [entry EXCEPT ![r] = "live"]
  /\ walk' = [w \in Walkers |-> [walk[w] EXCEPT !.came = TRUE]]
  /\ UNCHANGED <<list, stamp, doc, view>>

\* A soft delete; nothing deletes a run.
RemoveRow(r) ==
  /\ entry[r] = "live" /\ list \notin {"runs", "audits"}
  /\ entry' = [entry EXCEPT ![r] = "deleted"]
  /\ walk' = [w \in Walkers |-> [walk[w] EXCEPT !.went = TRUE, !.steady = @ \ {r}]]
  /\ UNCHANGED <<list, stamp, doc, view>>

StartWalk(w, asked) ==
  /\ walk[w].step = "idle"
  /\ IF Limits(asked) = {}
       THEN walk' = [walk EXCEPT ![w] = [NoWalk EXCEPT !.step = "refused"]]
       ELSE \E lim \in Limits(asked) :
              walk' = [walk EXCEPT ![w] = [NoWalk EXCEPT !.step = "pages", !.limit = lim,
                                                         !.steady = Live]]
  /\ UNCHANGED <<list, stamp, entry, doc, view>>

NextPage(w) ==
  /\ walk[w].step = "pages"
  /\ LET page == ListPage(walk[w].limit, walk[w].offset)
     IN  walk' = [walk EXCEPT ![w].seen = @ \o page.items,
                              ![w].offset = @ + walk[w].limit,
                              ![w].step = IF page.more THEN "pages" ELSE "done"]
  /\ UNCHANGED <<list, stamp, entry, doc, view>>
-----------------------------------------------------------------------------
(* Views of a document *)

\* Mining commits the page's part; an image's only part is the original blob.
AddPage(p) ==
  /\ doc.page[p] = "none"
  /\ doc.mime = "image" => p = 1
  /\ doc' = [doc EXCEPT !.page[p] = IF doc.mime = "image" /\ doc.state = "deleted"
                                      THEN "deleted" ELSE "live"]
  /\ UNCHANGED <<list, stamp, entry, walk, view>>

AddThumb(p) ==
  /\ doc.page[p] # "none" /\ doc.thumb[p] = "none"
  /\ doc' = [doc EXCEPT !.thumb[p] = "live"]
  /\ UNCHANGED <<list, stamp, entry, walk, view>>

\* One transaction marks the document and the blobs that it has by then.
DeleteDoc ==
  /\ doc.state = "live"
  /\ LET marked(blobs) == [p \in PageNumbers |-> IF blobs[p] = "none" THEN "none" ELSE "deleted"]
     IN  doc' = [doc EXCEPT !.state = "deleted", !.page = marked(@), !.thumb = marked(@)]
  /\ view' = [v \in Viewers |-> [view[v] EXCEPT !.quiet = FALSE]]
  /\ UNCHANGED <<list, stamp, entry, walk>>

Due(of) == {p \in PageNumbers : IF of = "page" THEN doc.mime = "pdf" /\ doc.page[p] = "live"
                                               ELSE doc.thumb[p] = "live"}

\* get_view fetches the document first; get_view_thumb starts with the parts.
BeginDocView(v, of) ==
  /\ view[v].step = "idle"
  /\ view' = [view EXCEPT ![v] =
       IF of = "page" /\ doc.state = "deleted"
         THEN [NoView EXCEPT !.step = "done", !.outcome = "not_found"]
         ELSE [NoView EXCEPT !.step = "parts", !.of = of, !.due = Due(of),
                             !.quiet = doc.state = "live"]]
  /\ UNCHANGED <<list, stamp, entry, walk, doc>>

\* The parts that have a page blob other than the original, or a thumbnail.
ReadParts(v) ==
  /\ view[v].step = "parts"
  /\ view' = [view EXCEPT ![v].step = "media", ![v].parts =
       {p \in PageNumbers : IF view[v].of = "page" THEN doc.mime = "pdf" /\ doc.page[p] # "none"
                                                   ELSE doc.thumb[p] # "none"}]
  /\ UNCHANGED <<list, stamp, entry, walk, doc>>

Lower(p, q) == p < q

\* get_many: the blobs that are not deleted, in the order of the parts; 0 is the original.
RecordsOf(v) ==
  LET blob == IF view[v].of = "page" THEN doc.page ELSE doc.thumb
      found == {p \in view[v].parts : blob[p] = "live"}
  IN  Sorted(IF view[v].of = "page" /\ doc.state = "live" THEN found \union {0} ELSE found, Lower)

\* get_view does not ask whether anything is left: views[0] of nothing raises.
ShowView(v) ==
  /\ view[v].step = "media"
  /\ view' = [view EXCEPT ![v].step = "done", ![v].records = RecordsOf(v),
                          ![v].outcome = IF RecordsOf(v) # <<>> THEN "shown"
                                         ELSE IF view[v].of = "page" THEN "index_error"
                                                                     ELSE "not_found"]
  /\ UNCHANGED <<list, stamp, entry, walk, doc>>
-----------------------------------------------------------------------------
ListNext ==
  \/ \E r \in Rows : BeginInsert(r) \/ CommitInsert(r) \/ RemoveRow(r)
  \/ \E w \in Walkers : NextPage(w)
  \/ \E w \in Walkers, asked \in Asked : StartWalk(w, asked)

DocViewNext ==
  \/ \E p \in PageNumbers : AddPage(p) \/ AddThumb(p)
  \/ DeleteDoc
  \/ \E v \in Viewers : ReadParts(v) \/ ShowView(v)
  \/ \E v \in Viewers, of \in {"page", "thumb"} : BeginDocView(v, of)

ReadsNext == ListNext \/ DocViewNext
ReadsSpec == ReadsInit /\ [][ReadsNext]_readsVars

InList == {r \in Rows : /\ list = "knowledge" => Similarity[r] >= Threshold
                        /\ list = "audits" => r \in AuditRows}

(* A finished walk has shown every row of the list that was there all along, *)
(* unless a row was deleted meanwhile (never, for runs); it has shown no row *)
(* twice, unless one was added; and when neither happened it has shown       *)
(* exactly the list.                                                         *)
WalkIsWhole(w) ==
  walk[w].step = "done" =>
    /\ ~walk[w].went => walk[w].steady \intersect InList \subseteq ToSet(walk[w].seen)
    /\ ~walk[w].came => IsInjective(walk[w].seen)
    /\ ~walk[w].went /\ ~walk[w].came => walk[w].seen = Listed

(* A view of a document that was not deleted meanwhile does not fail for     *)
(* want of a row: it begins with the original, the pages follow in order,    *)
(* and none that was there when the request began is missing.                *)
ViewIsWhole(v) ==
  view[v].step = "done" /\ view[v].quiet =>
    /\ view[v].outcome # "index_error"
    /\ view[v].due \subseteq ToSet(view[v].records)
    /\ IsInjective(view[v].records)
    /\ view[v].of = "page" /\ view[v].outcome = "shown" => view[v].records[1] = 0

(* Reads of several statements are whole as far as writes let them: GET     *)
(* lists with limit and offset, DocumentService.get_view, get_view_thumb.    *)
ReadsAreWhole ==
  /\ \A w \in Walkers : WalkIsWhole(w)
  /\ \A v \in Viewers : ViewIsWhole(v)
=============================================================================
