-------------------------------- MODULE Mining --------------------------------
(***************************************************************************)
(* One mining run: the attempts of its task, the graph that finalizes,     *)
(* classifies and routes the document, the fan-out over the pages of a PDF *)
(* and the two paths a page takes (workflows/langgraph_document_mining,    *)
(* _pdf and _image), with the results they save.                           *)
(*                                                                         *)
(* asyncio.gather raises on the first page that fails and leaves the other *)
(* pages running, so the pages of a failed attempt run on beside the next  *)
(* attempt.  Parts and their media are DocumentStore's; the execution row  *)
(* and the broker are WorkflowRuns's.                                      *)
(***************************************************************************)
EXTENDS Naturals, FiniteSets

CONSTANTS
    PageCount,     \* pages of the PDF
    PageSignals,   \* what a split page may look like
    Concurrency,   \* MAX_PAGE_CONCURRENCY
    ReflectOn,     \* annotate_reflect, with a reflect model configured
    MaxRetries,    \* MAX_RETRIES
    MaxAttempts    \* bound: deliveries of the task

ASSUME MiningAssumption ==
    /\ PageCount \in Nat \ {0}
    /\ PageSignals \subseteq [text_len: Nat, image_count: Nat, has_annotations: BOOLEAN]
    /\ PageSignals # {}
    /\ Concurrency \in Nat \ {0}
    /\ ReflectOn \in BOOLEAN
    /\ MaxRetries \in Nat \ {0}
    /\ MaxAttempts \in Nat \ {0}

Pages == 1 .. PageCount
Attempts == 1 .. MaxAttempts

VARIABLES
    document,  \* what was uploaded, and what finalize made of it
    pages,     \* the signals of each page of a PDF
    attempt,   \* where each attempt of the task is
    job,       \* the coroutine of each attempt and page
    results,   \* the attempt that saved each result last, 0 for none
    thumb,     \* has the part of a page a thumbnail
    task,      \* the broker: is a message waiting, and its _retries label
    run,       \* the execution row, and which attempt marked it succeeded
    straggled  \* history: an attempt began beside pages of an earlier one

miningVars == <<document, pages, attempt, job, results, thumb, task, run, straggled>>

AttemptSteps == {"none", "finalize", "route", "process", "succeed", "chain",
                 "failing", "timing_out", "over"}

(* A page's coroutine: the transcription and the thumbnail, side by side for *)
(* an image page, one inside the other for a text page.                      *)
ReadSteps == {"none", "wait", "annotate", "reflect", "save_extract",
              "save_annotation", "done", "failed"}
ThumbSteps == {"none", "ensure", "record", "done"}
Kinds == {"extract", "annotation"}

MiningTypeOK ==
    /\ document \in [content: {"pdf", "image", "unsupported", "invalid"},
                     status: {"uploaded", "ready", "invalid"}]
    /\ pages \in [Pages -> PageSignals]
    /\ attempt \in [Attempts -> AttemptSteps]
    /\ job \in [Attempts -> [Pages -> [read: ReadSteps, thumb: ThumbSteps]]]
    /\ results \in [Pages -> [Kinds -> Attempts \cup {0}]]
    /\ thumb \in [Pages -> BOOLEAN]
    /\ task \in [queued: BOOLEAN, retries: Nat]
    /\ run \in [status: {"queued", "running", "succeeded", "failed"},
                winner: Attempts \cup {0}]
    /\ straggled \in BOOLEAN

NoJob == [read |-> "none", thumb |-> "none"]

MiningInit ==
    /\ document \in [content: {"pdf", "image", "unsupported", "invalid"},
                     status: {"uploaded"}]
    /\ pages \in [Pages -> PageSignals]
    /\ attempt = [a \in Attempts |-> "none"]
    /\ job = [a \in Attempts |-> [p \in Pages |-> NoJob]]
    /\ results = [p \in Pages |-> [k \in Kinds |-> 0]]
    /\ thumb = [p \in Pages |-> FALSE]
    /\ task = [queued |-> TRUE, retries |-> 0]
    /\ run = [status |-> "queued", winner |-> 0]
    /\ straggled = FALSE

(* classify_page: text only when it is pure text. *)
ClassifyPage(p) ==
    IF pages[p].text_len > 0 /\ pages[p].image_count = 0 /\ ~pages[p].has_annotations
    THEN "text" ELSE "image"

(* A stand-alone image has one part, read like an image page. *)
PagesOfDocument == IF document.content = "image" THEN {1} ELSE Pages
IsText(p) == document.content = "pdf" /\ ClassifyPage(p) = "text"

(* A coroutine that has begun, and one that has not ended. *)
InFlight(a) == {p \in Pages : /\ job[a][p].read \notin {"none", "wait", "failed"}
                              /\ job[a][p] # [read |-> "done", thumb |-> "done"]}
Unfinished(a) == InFlight(a) \cup {p \in Pages : job[a][p].read = "wait"}

Alive(a) == attempt[a] \notin {"none", "over"}
Goto(a, step) == attempt' = [attempt EXCEPT ![a] = step]
SetJob(a, p, j) == job' = [job EXCEPT ![a] = [@ EXCEPT ![p] = j]]

-----------------------------------------------------------------------------
(* The task.                                                                *)

(* A worker takes the message: mark_running, and the graph starts over. *)
BeginAttempt(a) ==
    /\ task.queued
    /\ attempt[a] = "none"
    /\ \A b \in Attempts : b < a => attempt[b] # "none"
    /\ task' = [task EXCEPT !.queued = FALSE]
    /\ run' = [run EXCEPT !.status = "running"]
    /\ Goto(a, "finalize")
    /\ straggled' = (straggled \/ \E b \in Attempts : Unfinished(b) # {})
    /\ UNCHANGED <<document, pages, job, results, thumb>>

(* mark_succeeded ... *)
Succeed(a) ==
    /\ attempt[a] = "succeed"
    /\ run' = [status |-> "succeeded", winner |-> a]
    /\ Goto(a, "chain")
    /\ UNCHANGED <<document, pages, job, results, thumb, task, straggled>>

(* ... then the audit is chained, and the message acknowledged. *)
Chain(a) ==
    /\ attempt[a] = "chain"
    /\ Goto(a, "over")
    /\ UNCHANGED <<document, pages, job, results, thumb, task, run, straggled>>

(* mark_failed; the retry engine sends the task again while it may. *)
MarkFailed(a) ==
    /\ attempt[a] = "failing"
    /\ run' = [run EXCEPT !.status = "failed"]
    /\ task' = IF task.retries + 1 < MaxRetries
               THEN [queued |-> TRUE, retries |-> task.retries + 1] ELSE task
    /\ Goto(a, "over")
    /\ UNCHANGED <<document, pages, job, results, thumb, straggled>>

MarkTimedOut(a) ==
    /\ attempt[a] = "timing_out"
    /\ run' = [run EXCEPT !.status = "failed"]
    /\ Goto(a, "over")
    /\ UNCHANGED <<document, pages, job, results, thumb, task, straggled>>

Stopped(a) == [p \in Pages |-> IF p \in Unfinished(a)
                               THEN [job[a][p] EXCEPT !.read = "failed"] ELSE job[a][p]]

(* wait_for gives up on the graph and cancels it with the pages it awaits. *)
Timeout(a) ==
    /\ attempt[a] \in {"finalize", "route", "process"}
    /\ job' = [job EXCEPT ![a] = Stopped(a)]
    /\ Goto(a, "timing_out")
    /\ UNCHANGED <<document, pages, results, thumb, task, run, straggled>>

(* A call of the task or of a node outside the pages raises. *)
AttemptRaises(a) ==
    /\ attempt[a] \in {"finalize", "route", "succeed", "chain"}
    /\ Goto(a, "failing")
    /\ UNCHANGED <<document, pages, job, results, thumb, task, run, straggled>>

(* The worker dies with its coroutines; an unacknowledged message comes back. *)
WorkerDies(a) ==
    /\ Alive(a) \/ Unfinished(a) # {}
    /\ job' = [job EXCEPT ![a] = Stopped(a)]
    /\ IF Alive(a) THEN Goto(a, "over") /\ task' = [task EXCEPT !.queued = TRUE]
                   ELSE UNCHANGED <<attempt, task>>
    /\ UNCHANGED <<document, pages, results, thumb, run, straggled>>

-----------------------------------------------------------------------------
(* The graph.                                                               *)

(* FinalizeDocument: validates an uploaded document, and answers the record  *)
(* of one that was validated before, whatever came of it.                    *)
FinalizeNode(a) ==
    /\ attempt[a] = "finalize"
    /\ \/ /\ document.status = "uploaded"
          /\ document.content = "invalid"
          /\ document' = [document EXCEPT !.status = "invalid"]
          /\ Goto(a, "failing")
       \/ /\ document.status = "uploaded"
          /\ document.content # "invalid"
          /\ document' = [document EXCEPT !.status = "ready"]
          /\ Goto(a, "route")
       \/ /\ document.status # "uploaded"
          /\ Goto(a, "route")
          /\ UNCHANGED document
    /\ UNCHANGED <<pages, job, results, thumb, task, run, straggled>>

(* Mutant: a retry skips the pages an earlier attempt has saved. *)
RouteSkippingSaved(a) ==
    /\ attempt[a] = "route"
    /\ IF document.content \in {"pdf", "image"}
       THEN /\ job' = [job EXCEPT ![a] =
                         [p \in Pages |->
                            IF p \notin PagesOfDocument THEN NoJob
                            ELSE IF thumb[p] /\ \A k \in Kinds : results[p][k] # 0
                            THEN [read |-> "done", thumb |-> "done"]
                            ELSE [NoJob EXCEPT !.read = "wait"]]]
            /\ Goto(a, "process")
       ELSE /\ Goto(a, "succeed")
            /\ UNCHANGED job
    /\ UNCHANGED <<document, pages, results, thumb, task, run, straggled>>

(* route_by_type: a PDF is split and an image's part prepared, and every     *)
(* page gets its coroutine; any other document ends the graph at once.  An   *)
(* invalid one has no MIME type to classify.                                 *)
Route(a) ==
    /\ attempt[a] = "route"
    /\ IF document.content \in {"pdf", "image"}
       THEN /\ job' = [job EXCEPT ![a] =
                         [p \in Pages |-> IF p \in PagesOfDocument
                                          THEN [NoJob EXCEPT !.read = "wait"]
                                          ELSE NoJob]]
            /\ Goto(a, "process")
       ELSE /\ Goto(a, "succeed")
            /\ UNCHANGED job
    /\ UNCHANGED <<document, pages, results, thumb, task, run, straggled>>

(* Mutant: the fan-out is over when no page is in flight any more. *)
GatheredWhenIdle(a) ==
    /\ attempt[a] = "process"
    /\ InFlight(a) = {}
    /\ Goto(a, "succeed")
    /\ UNCHANGED <<document, pages, job, results, thumb, task, run, straggled>>

(* gather returns when every page has. *)
Gathered(a) ==
    /\ attempt[a] = "process"
    /\ \A p \in PagesOfDocument : job[a][p] = [read |-> "done", thumb |-> "done"]
    /\ Goto(a, "succeed")
    /\ UNCHANGED <<document, pages, job, results, thumb, task, run, straggled>>

-----------------------------------------------------------------------------
(* A page.  None of these steps asks whether its attempt is still alive.    *)

(* The semaphore belongs to the call of process_node, that is the attempt. *)
Acquire(a, p) ==
    /\ job[a][p].read = "wait"
    /\ Cardinality(InFlight(a)) < Concurrency
    /\ SetJob(a, p, [read |-> "annotate", thumb |-> "ensure"])
    /\ UNCHANGED <<document, pages, attempt, results, thumb, task, run, straggled>>

(* Download, extract, and the first annotation pass ... *)
Annotate(a, p) ==
    /\ job[a][p].read = "annotate"
    /\ SetJob(a, p, [job[a][p] EXCEPT !.read = IF ReflectOn THEN "reflect"
                                               ELSE "save_extract"])
    /\ UNCHANGED <<document, pages, attempt, results, thumb, task, run, straggled>>

(* ... and the passes of the reflect model that correct it. *)
Reflect(a, p) ==
    /\ job[a][p].read = "reflect"
    /\ SetJob(a, p, [job[a][p] EXCEPT !.read = "save_extract"])
    /\ UNCHANGED <<document, pages, attempt, results, thumb, task, run, straggled>>

(* ensure_thumb: after the annotation of a text page, beside an image's. *)
EnsureThumb(a, p) ==
    /\ job[a][p].thumb = "ensure"
    /\ job[a][p].read # "failed"
    /\ IsText(p) => job[a][p].read = "save_extract"
    /\ SetJob(a, p, [job[a][p] EXCEPT !.thumb = "record"])
    /\ UNCHANGED <<document, pages, attempt, results, thumb, task, run, straggled>>

(* set_part_thumb: before the results of a text page are saved, and when the *)
(* image graph is through.                                                   *)
RecordThumb(a, p) ==
    /\ job[a][p].thumb = "record"
    /\ job[a][p].read = IF IsText(p) THEN "save_extract" ELSE "done"
    /\ thumb' = [thumb EXCEPT ![p] = TRUE]
    /\ SetJob(a, p, [job[a][p] EXCEPT !.thumb = "done"])
    /\ UNCHANGED <<document, pages, attempt, results, task, run, straggled>>

(* save: an upsert on (execution, part, kind). *)
Save(a, p, kind) == results' = [results EXCEPT ![p] = [@ EXCEPT ![kind] = a]]

SaveExtract(a, p) ==
    /\ job[a][p].read = "save_extract"
    /\ IsText(p) => job[a][p].thumb = "done"
    /\ Save(a, p, "extract")
    /\ SetJob(a, p, [job[a][p] EXCEPT !.read = "save_annotation"])
    /\ UNCHANGED <<document, pages, attempt, thumb, task, run, straggled>>

SaveAnnotation(a, p) ==
    /\ job[a][p].read = "save_annotation"
    /\ Save(a, p, "annotation")
    /\ SetJob(a, p, [job[a][p] EXCEPT !.read = "done"])
    /\ UNCHANGED <<document, pages, attempt, thumb, task, run, straggled>>

(* A page raises.  gather passes the first exception on and leaves the other *)
(* pages alone, the ones still waiting for the semaphore too.                *)
PageRaises(a, p) ==
    /\ p \in InFlight(a)
    /\ SetJob(a, p, [job[a][p] EXCEPT !.read = "failed"])
    /\ attempt' = IF attempt[a] = "process" THEN [attempt EXCEPT ![a] = "failing"]
                  ELSE attempt
    /\ UNCHANGED <<document, pages, results, thumb, task, run, straggled>>

MiningNext ==
    \E a \in Attempts :
      \/ BeginAttempt(a) \/ Succeed(a) \/ Chain(a) \/ MarkFailed(a)
      \/ MarkTimedOut(a) \/ Timeout(a) \/ AttemptRaises(a) \/ WorkerDies(a)
      \/ FinalizeNode(a) \/ Route(a) \/ Gathered(a)
      \/ \E p \in Pages :
           \/ Acquire(a, p) \/ Annotate(a, p) \/ Reflect(a, p)
           \/ EnsureThumb(a, p) \/ RecordThumb(a, p)
           \/ SaveExtract(a, p) \/ SaveAnnotation(a, p) \/ PageRaises(a, p)

MiningSpec == MiningInit /\ [][MiningNext]_miningVars

-----------------------------------------------------------------------------
(* Properties.                                                              *)

Mined == run.status = "succeeded" /\ document.content \in {"pdf", "image"}

(* A run that succeeded on a PDF or an image has both results and the        *)
(* thumbnail of every page, whatever failed, timed out or died before        *)
(* (process.py:152-154, task.py:96-116).                                     *)
SuccessIsComplete ==
    Mined => \A p \in PagesOfDocument :
               thumb[p] /\ \A k \in Kinds : results[p][k] # 0

(* Unless pages of a failed attempt ran on into the next one, the results of *)
(* a run that succeeded are all of one attempt, the one that succeeded: a    *)
(* retry redoes every page and nothing of an earlier attempt is left, nor    *)
(* comes in later (service.py:47-51 of results, process.py:152).             *)
ResultsOfOneAttempt ==
    Mined /\ ~straggled =>
      \A p \in PagesOfDocument : \A k \in Kinds : results[p][k] = run.winner

(* What the idempotent finalize promises (finalize_document.py:21-25): a run *)
(* that succeeds mined a document that was finalized as valid.               *)
MinedIsReady == run.status = "succeeded" => document.status = "ready"

=============================================================================
