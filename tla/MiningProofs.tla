---------------------------- MODULE MiningProofs ----------------------------
(***************************************************************************)
(* A mining run for any number of pages, attempts and retries, any page    *)
(* limit and any documents.  Two inductive invariants, one per property:   *)
(*   - Worked: the coroutines of an attempt are those of the document's    *)
(*     pages (Shape), what one has behind it is in the database (Honest),  *)
(*     and nothing reports success before every page is complete           *)
(*     (Reported); a result, once there, is never taken back (Kept);       *)
(*   - Apart: attempts take turns (InTurn), and unless pages of an earlier *)
(*     attempt ran on beside a later one, what is in flight and what was   *)
(*     saved is of the attempt that began last (Undisturbed).              *)
(*                                                                         *)
(* The actions fall into four groups, whose frames are lemmas: the steps   *)
(* of the task and the graph (TaskAction), the ends that stop an attempt   *)
(* from outside (StopAction), Route, which starts the pages, and the steps *)
(* of one page (PageAction).                                               *)
(***************************************************************************)
EXTENDS Mining, TLAPS

USE MiningAssumption DEF MiningAssumption

Jobs == [read: ReadSteps, thumb: ThumbSteps]
Finished == [read |-> "done", thumb |-> "done"]

(* The steps of one page's coroutine. *)
PageAction(a, p) ==
    \/ Acquire(a, p) \/ Annotate(a, p) \/ Reflect(a, p)
    \/ EnsureThumb(a, p) \/ RecordThumb(a, p)
    \/ SaveExtract(a, p) \/ SaveAnnotation(a, p) \/ PageRaises(a, p)

(* Only the pages of the document have coroutines, and only while the fan-out *)
(* of their attempt has begun; an attempt that reports success awaits none.   *)
Shape ==
    /\ \A a \in Attempts, p \in Pages :
         /\ job[a][p].read \in {"none", "wait"} => job[a][p].thumb = "none"
         /\ job[a][p].read # "none" => p \in PagesOfDocument
    /\ \A a \in Attempts : attempt[a] \in {"none", "finalize", "route"} =>
         \A p \in Pages : job[a][p].read = "none"
    /\ \A a \in Attempts : attempt[a] \in {"succeed", "chain"} => Unfinished(a) = {}

(* What a coroutine has behind it is in the database.                         *)
Honest ==
    \A a \in Attempts, p \in Pages :
      /\ job[a][p].thumb = "done" => thumb[p]
      /\ job[a][p].read \in {"save_annotation", "done"} => results[p]["extract"] # 0
      /\ job[a][p].read = "done" => results[p]["annotation"] # 0

(* Every page of a document that can be mined has its thumbnail and results.  *)
Complete == document.content \in {"pdf", "image"} =>
    \A p \in PagesOfDocument : thumb[p] /\ \A k \in Kinds : results[p][k] # 0

(* Success is only reported of a complete document.                           *)
Reported ==
    (run.status = "succeeded" \/ \E a \in Attempts : attempt[a] \in {"succeed", "chain"})
      => Complete

-----------------------------------------------------------------------------
LEMMA TypeInit == MiningInit => MiningTypeOK
<1> SUFFICES ASSUME MiningInit PROVE MiningTypeOK
  OBVIOUS
<1>1. NoJob \in Jobs BY DEF NoJob, Jobs, ReadSteps, ThumbSteps
<1>2. job \in [Attempts -> [Pages -> Jobs]] BY <1>1 DEF MiningInit
<1>3. attempt \in [Attempts -> AttemptSteps] BY DEF MiningInit, AttemptSteps
<1>4. document \in [content: {"pdf", "image", "unsupported", "invalid"},
                    status: {"uploaded", "ready", "invalid"}]
  BY DEF MiningInit
<1>5. results \in [Pages -> [Kinds -> Attempts \cup {0}]] BY DEF MiningInit
<1>6. task \in [queued: BOOLEAN, retries: Nat] BY DEF MiningInit
<1>7. run \in [status: {"queued", "running", "succeeded", "failed"},
               winner: Attempts \cup {0}]
  BY DEF MiningInit
<1> QED BY <1>2, <1>3, <1>4, <1>5, <1>6, <1>7 DEF MiningInit, MiningTypeOK, Jobs

LEMMA SetOneJob ==
    ASSUME MiningTypeOK, NEW a \in Attempts, NEW p \in Pages, NEW j \in Jobs, SetJob(a, p, j)
    PROVE  /\ job' \in [Attempts -> [Pages -> Jobs]]
           /\ job'[a][p] = j
           /\ \A b \in Attempts, q \in Pages :
                b # a \/ q # p => job'[b][q] = job[b][q]
BY DEF SetJob, MiningTypeOK, Jobs

LEMMA JobType ==
    ASSUME MiningTypeOK, NEW a \in Attempts, NEW p \in Pages
    PROVE  /\ job[a][p] \in Jobs
           /\ job[a][p].read \in ReadSteps
           /\ job[a][p].thumb \in ThumbSteps
           /\ job[a][p] = Finished <=> job[a][p].read = "done" /\ job[a][p].thumb = "done"
BY DEF MiningTypeOK, Jobs, Finished

Flights ==
    \A a \in Attempts, p \in Pages :
      /\ p \in InFlight(a) <=>
           /\ job[a][p].read \notin {"none", "wait", "failed"}
           /\ ~(job[a][p].read = "done" /\ job[a][p].thumb = "done")
      /\ p \in Unfinished(a) <=>
           /\ job[a][p].read \notin {"none", "failed"}
           /\ ~(job[a][p].read = "done" /\ job[a][p].thumb = "done")

LEMMA ReadFlights == MiningTypeOK => Flights
BY JobType DEF Flights, InFlight, Unfinished, Finished

LEMMA JobTypeNext ==
    ASSUME MiningTypeOK', NEW a \in Attempts, NEW p \in Pages
    PROVE  /\ job'[a][p] \in Jobs
           /\ job'[a][p].read \in ReadSteps
           /\ job'[a][p].thumb \in ThumbSteps
           /\ job'[a][p] = Finished <=> job'[a][p].read = "done" /\ job'[a][p].thumb = "done"
BY DEF MiningTypeOK, Jobs, Finished

LEMMA ReadFlightsNext == MiningTypeOK' => Flights'
BY JobTypeNext DEF Flights, InFlight, Unfinished, Finished

(* What a page's step does to its coroutine.                                  *)
LEMMA PageMoves ==
    ASSUME MiningTypeOK, Shape, NEW a \in Attempts, NEW p \in Pages, PageAction(a, p)
    PROVE  /\ \E j \in Jobs : SetJob(a, p, j) /\ j.read \notin {"none", "wait"}
           /\ p \in Unfinished(a)
<1> DEFINE r == job[a][p].read
           t == job[a][p].thumb
<1>1. /\ job[a][p] \in Jobs /\ r \in ReadSteps /\ t \in ThumbSteps
      /\ r \in {"none", "wait"} => t = "none"
  BY JobType DEF Shape
<1>2. /\ p \in InFlight(a) <=> r \notin {"none", "wait", "failed"} /\ ~(r = "done" /\ t = "done")
      /\ p \in Unfinished(a) <=> r \notin {"none", "failed"} /\ ~(r = "done" /\ t = "done")
  BY ReadFlights DEF Flights
<1>3. ASSUME NEW s \in ReadSteps
      PROVE  /\ [job[a][p] EXCEPT !.read = s] \in Jobs
             /\ [job[a][p] EXCEPT !.read = s].read = s
  BY <1>1, <1>3 DEF Jobs
<1>4. ASSUME NEW s \in ThumbSteps
      PROVE  /\ [job[a][p] EXCEPT !.thumb = s] \in Jobs
             /\ [job[a][p] EXCEPT !.thumb = s].read = r
  BY <1>1, <1>4 DEF Jobs
<1> HIDE DEF r, t
<1>5. CASE Acquire(a, p)
  <2>1. [read |-> "annotate", thumb |-> "ensure"] \in Jobs BY DEF Jobs, ReadSteps, ThumbSteps
  <2> QED BY <1>2, <1>5, <2>1 DEF Acquire, r
<1>6. CASE Annotate(a, p)
  <2> DEFINE s == IF ReflectOn THEN "reflect" ELSE "save_extract"
  <2>1. s \in ReadSteps /\ s \notin {"none", "wait"} BY DEF ReadSteps
  <2> QED BY <1>2, <1>3, <1>6, <2>1 DEF Annotate, r
<1>7. CASE Reflect(a, p)
  <2>1. "save_extract" \in ReadSteps BY DEF ReadSteps
  <2> QED BY <1>2, <1>3, <1>7, <2>1 DEF Reflect, r
<1>8. CASE EnsureThumb(a, p)
  <2>1. "record" \in ThumbSteps BY DEF ThumbSteps
  <2>2. t = "ensure" /\ r \notin {"none", "wait", "failed"} BY <1>1, <1>8 DEF EnsureThumb, r, t
  <2> QED BY <1>2, <1>4, <1>8, <2>1, <2>2 DEF EnsureThumb
<1>9. CASE RecordThumb(a, p)
  <2>1. "done" \in ThumbSteps BY DEF ThumbSteps
  <2>2. t = "record" /\ r \in {"save_extract", "done"} BY <1>9 DEF RecordThumb, r, t
  <2> QED BY <1>2, <1>4, <1>9, <2>1, <2>2 DEF RecordThumb
<1>10. CASE SaveExtract(a, p)
  <2>1. "save_annotation" \in ReadSteps BY DEF ReadSteps
  <2> QED BY <1>2, <1>3, <1>10, <2>1 DEF SaveExtract, r
<1>11. CASE SaveAnnotation(a, p)
  <2>1. "done" \in ReadSteps BY DEF ReadSteps
  <2> QED BY <1>2, <1>3, <1>11, <2>1 DEF SaveAnnotation, r
<1>12. CASE PageRaises(a, p)
  <2>1. "failed" \in ReadSteps BY DEF ReadSteps
  <2> QED BY <1>2, <1>3, <1>12, <2>1 DEF PageRaises, r
<1> QED BY <1>5, <1>6, <1>7, <1>8, <1>9, <1>10, <1>11, <1>12 DEF PageAction

(* Cancelling an attempt's coroutines.                                        *)
LEMMA StopMoves ==
    ASSUME MiningTypeOK, NEW a \in Attempts, job' = [job EXCEPT ![a] = Stopped(a)]
    PROVE  /\ job' \in [Attempts -> [Pages -> Jobs]]
           /\ \A b \in Attempts, p \in Pages :
                /\ b # a \/ p \notin Unfinished(b) => job'[b][p] = job[b][p]
                /\ b = a /\ p \in Unfinished(b) =>
                     job'[b][p].read = "failed" /\ job'[b][p].thumb = job[b][p].thumb
<1> DEFINE stopped(p) == IF p \in Unfinished(a) THEN [job[a][p] EXCEPT !.read = "failed"]
                                                ELSE job[a][p]
<1>1. ASSUME NEW p \in Pages
      PROVE  /\ stopped(p) \in Jobs
             /\ p \in Unfinished(a) =>
                  stopped(p).read = "failed" /\ stopped(p).thumb = job[a][p].thumb
  <2>1. job[a][p] \in Jobs /\ "failed" \in ReadSteps BY JobType DEF ReadSteps
  <2> QED BY <2>1 DEF Jobs
<1>2. Stopped(a) = [p \in Pages |-> stopped(p)] BY DEF Stopped
<1>3. \A p \in Pages : p \notin Unfinished(a) => stopped(p) = job[a][p] OBVIOUS
<1> HIDE DEF stopped
<1>4. Stopped(a) \in [Pages -> Jobs] /\ \A p \in Pages : Stopped(a)[p] = stopped(p)
  BY <1>1, <1>2
<1>5. job \in [Attempts -> [Pages -> Jobs]] BY DEF MiningTypeOK, Jobs
<1>6. job'[a] = Stopped(a) /\ \A b \in Attempts : b # a => job'[b] = job[b] BY <1>5
<1>7. job' \in [Attempts -> [Pages -> Jobs]] BY <1>4, <1>5
<1> QED BY <1>1, <1>3, <1>4, <1>6, <1>7

RouteJobs == [p \in Pages |-> IF p \in PagesOfDocument
                              THEN [NoJob EXCEPT !.read = "wait"] ELSE NoJob]

LEMMA RouteMoves ==
    ASSUME MiningTypeOK, NEW a \in Attempts, job' = [job EXCEPT ![a] = RouteJobs]
    PROVE  /\ job' \in [Attempts -> [Pages -> Jobs]]
           /\ \A b \in Attempts \ {a} : job'[b] = job[b]
           /\ \A p \in Pages :
                /\ job'[a][p].read = IF p \in PagesOfDocument THEN "wait" ELSE "none"
                /\ job'[a][p].thumb = "none"
<1>1. /\ NoJob \in Jobs /\ NoJob.read = "none" /\ NoJob.thumb = "none"
      /\ [NoJob EXCEPT !.read = "wait"] \in Jobs
      /\ [NoJob EXCEPT !.read = "wait"].read = "wait"
      /\ [NoJob EXCEPT !.read = "wait"].thumb = "none"
  BY DEF NoJob, Jobs, ReadSteps, ThumbSteps
<1>2. RouteJobs \in [Pages -> Jobs] BY <1>1 DEF RouteJobs
<1>3. job \in [Attempts -> [Pages -> Jobs]] BY DEF MiningTypeOK, Jobs
<1>4. job'[a] = RouteJobs /\ \A b \in Attempts \ {a} : job'[b] = job[b] BY <1>3
<1>5. job' \in [Attempts -> [Pages -> Jobs]] BY <1>2, <1>3
<1> QED BY <1>1, <1>4, <1>5 DEF RouteJobs

(* The steps of an attempt that leave its pages alone.                        *)
TaskAction(a) ==
    \/ BeginAttempt(a) \/ Succeed(a) \/ Chain(a) \/ MarkFailed(a) \/ MarkTimedOut(a)
    \/ AttemptRaises(a) \/ FinalizeNode(a) \/ Gathered(a)

StopAction(a) == Timeout(a) \/ WorkerDies(a)

LEMMA MiningActions ==
    ASSUME MiningNext
    PROVE  \E a \in Attempts :
             \/ TaskAction(a) \/ StopAction(a) \/ Route(a)
             \/ \E p \in Pages : PageAction(a, p)
BY DEF MiningNext, TaskAction, StopAction, PageAction

LEMMA GotoType ==
    ASSUME MiningTypeOK, NEW a \in Attempts, NEW step \in AttemptSteps, Goto(a, step)
    PROVE  /\ attempt' \in [Attempts -> AttemptSteps]
           /\ attempt'[a] = step
           /\ \A b \in Attempts \ {a} : attempt'[b] = attempt[b]
BY DEF Goto, MiningTypeOK

LEMMA TaskType == ASSUME MiningTypeOK, NEW a \in Attempts, TaskAction(a) PROVE MiningTypeOK'
<1>1. \A step \in AttemptSteps : Goto(a, step) => attempt' \in [Attempts -> AttemptSteps]
  BY GotoType
<1>2. \A step \in {"finalize", "route", "succeed", "chain", "failing", "over"} :
        Goto(a, step) => attempt' \in [Attempts -> AttemptSteps]
  BY <1>1 DEF AttemptSteps
<1>3. CASE BeginAttempt(a) \/ AttemptRaises(a) \/ Chain(a) \/ Gathered(a)
  BY <1>2, <1>3 DEF BeginAttempt, AttemptRaises, Chain, Gathered, MiningTypeOK
<1>4. CASE Succeed(a) BY <1>2, <1>4 DEF Succeed, MiningTypeOK
<1>5. CASE MarkFailed(a)
  <2>1. task' \in [queued: BOOLEAN, retries: Nat] BY <1>5 DEF MarkFailed, MiningTypeOK
  <2> QED BY <1>2, <1>5, <2>1 DEF MarkFailed, MiningTypeOK
<1>6. CASE MarkTimedOut(a) BY <1>2, <1>6 DEF MarkTimedOut, MiningTypeOK
<1>7. CASE FinalizeNode(a) BY <1>2, <1>7 DEF FinalizeNode, MiningTypeOK
<1> QED BY <1>3, <1>4, <1>5, <1>6, <1>7 DEF TaskAction

LEMMA StopType == ASSUME MiningTypeOK, NEW a \in Attempts, StopAction(a) PROVE MiningTypeOK'
<1>1. job' \in [Attempts -> [Pages -> Jobs]]
  BY StopMoves DEF StopAction, Timeout, WorkerDies
<1>2. attempt' \in [Attempts -> AttemptSteps]
  BY GotoType DEF StopAction, Timeout, WorkerDies, MiningTypeOK, AttemptSteps
<1>3. task' \in [queued: BOOLEAN, retries: Nat]
  BY DEF StopAction, Timeout, WorkerDies, MiningTypeOK
<1> QED BY <1>1, <1>2, <1>3 DEF StopAction, Timeout, WorkerDies, MiningTypeOK, Jobs

LEMMA RouteType == ASSUME MiningTypeOK, NEW a \in Attempts, Route(a) PROVE MiningTypeOK'
<1>1. job' = [job EXCEPT ![a] = RouteJobs] \/ job' = job BY DEF Route, RouteJobs
<1>2. job' \in [Attempts -> [Pages -> Jobs]] BY <1>1, RouteMoves DEF MiningTypeOK, Jobs
<1>3. attempt' \in [Attempts -> AttemptSteps]
  BY GotoType DEF Route, AttemptSteps
<1> QED BY <1>2, <1>3 DEF Route, MiningTypeOK, Jobs

LEMMA SaveMoves ==
    ASSUME MiningTypeOK, NEW a \in Attempts, NEW p \in Pages, NEW kind \in Kinds,
           Save(a, p, kind)
    PROVE  /\ results' \in [Pages -> [Kinds -> Attempts \cup {0}]]
           /\ results'[p][kind] = a
           /\ \A q \in Pages, k \in Kinds :
                q # p \/ k # kind => results'[q][k] = results[q][k]
<1>1. results \in [Pages -> [Kinds -> Attempts \cup {0}]] BY DEF MiningTypeOK
<1>2. [results[p] EXCEPT ![kind] = a] \in [Kinds -> Attempts \cup {0}] BY <1>1
<1>3. results' \in [Pages -> [Kinds -> Attempts \cup {0}]] BY <1>1, <1>2 DEF Save
<1>4. /\ results'[p] = [results[p] EXCEPT ![kind] = a]
      /\ \A q \in Pages : q # p => results'[q] = results[q]
  BY <1>1 DEF Save
<1> QED BY <1>1, <1>3, <1>4

(* What the steps of a task, the ends of an attempt and the steps of a page    *)
(* leave alone.                                                              *)
DocumentMoves ==
    \/ document' = document
    \/ document' = [document EXCEPT !.status = "invalid"]
    \/ document' = [document EXCEPT !.status = "ready"]

LEMMA TaskFrame ==
    ASSUME NEW a \in Attempts, TaskAction(a)
    PROVE  /\ UNCHANGED <<pages, job, results, thumb>>
           /\ DocumentMoves
           /\ ~straggled' => ~straggled
<1> USE DEF DocumentMoves
<1>1. CASE BeginAttempt(a) BY <1>1 DEF BeginAttempt
<1>2. CASE Succeed(a) BY <1>2 DEF Succeed
<1>3. CASE Chain(a) BY <1>3 DEF Chain
<1>4. CASE MarkFailed(a) BY <1>4 DEF MarkFailed
<1>5. CASE MarkTimedOut(a) BY <1>5 DEF MarkTimedOut
<1>6. CASE AttemptRaises(a) BY <1>6 DEF AttemptRaises
<1>7. CASE FinalizeNode(a) BY <1>7 DEF FinalizeNode
<1>8. CASE Gathered(a) BY <1>8 DEF Gathered
<1> QED BY <1>1, <1>2, <1>3, <1>4, <1>5, <1>6, <1>7, <1>8 DEF TaskAction

LEMMA EndFrame ==
    ASSUME NEW a \in Attempts, StopAction(a) \/ Route(a)
    PROVE  UNCHANGED <<document, pages, results, thumb, straggled>>
<1>1. CASE Timeout(a) BY <1>1 DEF Timeout
<1>2. CASE WorkerDies(a) BY <1>2 DEF WorkerDies
<1>3. CASE Route(a) BY <1>3 DEF Route
<1> QED BY <1>1, <1>2, <1>3 DEF StopAction

LEMMA PageLeaves ==
    ASSUME NEW a \in Attempts, NEW p \in Pages, PageAction(a, p)
    PROVE  /\ UNCHANGED <<document, pages, task, run, straggled>>
           /\ \/ RecordThumb(a, p) \/ SaveExtract(a, p) \/ SaveAnnotation(a, p)
              \/ UNCHANGED <<results, thumb>>
           /\ attempt' = attempt \/ (Goto(a, "failing") /\ attempt[a] = "process")
<1>1. CASE Acquire(a, p) BY <1>1 DEF Acquire
<1>2. CASE Annotate(a, p) BY <1>2 DEF Annotate
<1>3. CASE Reflect(a, p) BY <1>3 DEF Reflect
<1>4. CASE EnsureThumb(a, p) BY <1>4 DEF EnsureThumb
<1>5. CASE RecordThumb(a, p) BY <1>5 DEF RecordThumb
<1>6. CASE SaveExtract(a, p) BY <1>6 DEF SaveExtract
<1>7. CASE SaveAnnotation(a, p) BY <1>7 DEF SaveAnnotation
<1>8. CASE PageRaises(a, p) BY <1>8 DEF PageRaises, Goto
<1> QED BY <1>1, <1>2, <1>3, <1>4, <1>5, <1>6, <1>7, <1>8 DEF PageAction

LEMMA PageType ==
    ASSUME MiningTypeOK, Shape, NEW a \in Attempts, NEW p \in Pages, PageAction(a, p)
    PROVE  MiningTypeOK'
<1>1. job' \in [Attempts -> [Pages -> Jobs]] BY PageMoves, SetOneJob
<1>2. UNCHANGED <<document, pages, task, run, straggled>> BY PageLeaves
<1>3. thumb' \in [Pages -> BOOLEAN]
  BY PageLeaves DEF RecordThumb, SaveExtract, SaveAnnotation, MiningTypeOK
<1>4. attempt' \in [Attempts -> AttemptSteps]
  BY PageLeaves, GotoType DEF MiningTypeOK, AttemptSteps
<1>5. results' \in [Pages -> [Kinds -> Attempts \cup {0}]]
  <2>1. results' = results \/ \E k \in Kinds : Save(a, p, k)
    BY PageLeaves DEF RecordThumb, SaveExtract, SaveAnnotation, Kinds
  <2> QED BY <2>1, SaveMoves DEF MiningTypeOK
<1> QED BY <1>1, <1>2, <1>3, <1>4, <1>5 DEF MiningTypeOK, Jobs

LEMMA StepType == MiningTypeOK /\ Shape /\ [MiningNext]_miningVars => MiningTypeOK'
<1>1. ASSUME MiningTypeOK, UNCHANGED miningVars PROVE MiningTypeOK'
  BY <1>1 DEF miningVars, MiningTypeOK
<1> QED BY <1>1, MiningActions, TaskType, StopType, RouteType, PageType

(* No step changes what was uploaded, hence which pages there are to read.    *)
LEMMA ContentStays ==
    ASSUME MiningTypeOK, [MiningNext]_miningVars
    PROVE  /\ document'.content = document.content
           /\ pages' = pages
           /\ PagesOfDocument' = PagesOfDocument
<1>1. DocumentMoves /\ pages' = pages
  <2>1. CASE UNCHANGED miningVars BY <2>1 DEF miningVars, DocumentMoves
  <2>2. CASE MiningNext
    <3>1. PICK a \in Attempts : \/ TaskAction(a) \/ StopAction(a) \/ Route(a)
                               \/ \E p \in Pages : PageAction(a, p)
      BY <2>2, MiningActions
    <3>2. CASE TaskAction(a) BY <3>2, TaskFrame
    <3>3. CASE StopAction(a) \/ Route(a) BY <3>3, EndFrame DEF DocumentMoves
    <3>4. CASE \E p \in Pages : PageAction(a, p) BY <3>4, PageLeaves DEF DocumentMoves
    <3> QED BY <3>1, <3>2, <3>3, <3>4
  <2> QED BY <2>1, <2>2
<1>2. document'.content = document.content BY <1>1 DEF DocumentMoves, MiningTypeOK
<1> QED BY <1>1, <1>2 DEF PagesOfDocument, Pages

LEMMA ShapeInit == MiningInit => Shape
BY DEF MiningInit, Shape, NoJob, Unfinished, InFlight

LEMMA TaskShape ==
    ASSUME MiningTypeOK, Shape, NEW a \in Attempts, TaskAction(a)
    PROVE  Shape'
<1>1. PagesOfDocument' = PagesOfDocument
  BY ContentStays DEF MiningNext, TaskAction
<1>2. job' = job
  BY DEF TaskAction, BeginAttempt, Succeed, Chain, MarkFailed, MarkTimedOut, AttemptRaises,
         FinalizeNode, Gathered
<1>3. \A b \in Attempts : Unfinished(b)' = Unfinished(b) BY <1>2 DEF Unfinished, InFlight
<1>4. \A b \in Attempts \ {a} : attempt'[b] = attempt[b]
  BY GotoType
     DEF TaskAction, BeginAttempt, Succeed, Chain, MarkFailed, MarkTimedOut, AttemptRaises,
         FinalizeNode, Gathered, AttemptSteps
<1>5. attempt'[a] \in {"none", "finalize", "route"} =>
        attempt[a] \in {"none", "finalize", "route"}
  BY GotoType
     DEF TaskAction, BeginAttempt, Succeed, Chain, MarkFailed, MarkTimedOut, AttemptRaises,
         FinalizeNode, Gathered, AttemptSteps
<1>6. attempt'[a] \in {"succeed", "chain"} => Unfinished(a) = {}
  <2>1. CASE Gathered(a)
    <3>1. \A p \in Pages : p \notin Unfinished(a)
      <4> TAKE p \in Pages
      <4>1. CASE p \in PagesOfDocument
        BY <2>1, <4>1 DEF Gathered, Unfinished, InFlight
      <4>2. CASE p \notin PagesOfDocument BY <4>2 DEF Shape, Unfinished, InFlight
      <4> QED BY <4>1, <4>2
    <3> QED BY <3>1 DEF Unfinished, InFlight
  <2>2. CASE Succeed(a) BY <2>2 DEF Succeed, Shape
  <2>3. CASE ~Gathered(a) /\ ~Succeed(a)
    BY <2>3, GotoType
       DEF TaskAction, BeginAttempt, Chain, MarkFailed, MarkTimedOut, AttemptRaises,
           FinalizeNode, AttemptSteps
  <2> QED BY <2>1, <2>2, <2>3
<1>7. \A b \in Attempts : attempt'[b] \in {"none", "finalize", "route"} =>
        \A p \in Pages : job'[b][p].read = "none"
  BY <1>2, <1>4, <1>5 DEF Shape
<1>8. \A b \in Attempts : attempt'[b] \in {"succeed", "chain"} => Unfinished(b)' = {}
  BY <1>3, <1>4, <1>6 DEF Shape
<1> QED BY <1>1, <1>2, <1>7, <1>8 DEF Shape, Pages

LEMMA StopShape ==
    ASSUME MiningTypeOK, Shape, NEW a \in Attempts, StopAction(a)
    PROVE  Shape'
<1>1. PagesOfDocument' = PagesOfDocument BY ContentStays DEF MiningNext, StopAction
<1>2. \A b \in Attempts, p \in Pages :
        /\ b # a \/ p \notin Unfinished(b) => job'[b][p] = job[b][p]
        /\ b = a /\ p \in Unfinished(b) =>
             job'[b][p].read = "failed" /\ job'[b][p].thumb = job[b][p].thumb
  BY StopMoves DEF StopAction, Timeout, WorkerDies
<1>3. \A b \in Attempts : attempt'[b] \in {"none", "finalize", "route", "succeed", "chain"}
                            => attempt'[b] = attempt[b]
  BY GotoType DEF StopAction, Timeout, WorkerDies, AttemptSteps
<1>4. Flights /\ Flights' BY ReadFlights, ReadFlightsNext, StopType
<1>5. \A b \in Attempts, p \in Pages : p \in Unfinished(b) => job[b][p].read # "none"
  BY <1>4 DEF Flights
<1>6. \A b \in Attempts, p \in Pages : p \in Unfinished(b)' => p \in Unfinished(b)
  BY <1>2, <1>4 DEF Flights
<1>7. \A b \in Attempts : attempt'[b] \in {"succeed", "chain"} => Unfinished(b)' = {}
  <2> TAKE b \in Attempts
  <2>1. Unfinished(b)' \subseteq Pages BY DEF Unfinished, InFlight, Pages
  <2> QED BY <1>3, <1>6, <2>1 DEF Shape
<1>8. \A b \in Attempts, p \in Pages :
        /\ job'[b][p].read \in {"none", "wait"} => job'[b][p].thumb = "none"
        /\ job'[b][p].read # "none" => p \in PagesOfDocument
  BY <1>2, <1>5 DEF Shape
<1>9. \A b \in Attempts : attempt'[b] \in {"none", "finalize", "route"} =>
        \A p \in Pages : job'[b][p].read = "none"
  BY <1>2, <1>3, <1>5 DEF Shape
<1> QED BY <1>1, <1>7, <1>8, <1>9 DEF Shape, Pages

LEMMA RouteShape ==
    ASSUME MiningTypeOK, Shape, NEW a \in Attempts, Route(a)
    PROVE  Shape'
<1>1. PagesOfDocument' = PagesOfDocument BY ContentStays DEF MiningNext
<1>2. CASE document.content \in {"pdf", "image"}
  <2>1. job' = [job EXCEPT ![a] = RouteJobs] BY <1>2 DEF Route, RouteJobs
  <2>2. /\ \A b \in Attempts \ {a} : job'[b] = job[b]
        /\ \A p \in Pages :
                /\ job'[a][p].read = IF p \in PagesOfDocument THEN "wait" ELSE "none"
                /\ job'[a][p].thumb = "none"
    BY <2>1, RouteMoves
  <2>3. attempt'[a] = "process" /\ \A b \in Attempts \ {a} : attempt'[b] = attempt[b]
    BY <1>2, GotoType DEF Route, AttemptSteps
  <2>4. \A b \in Attempts \ {a} : Unfinished(b)' = Unfinished(b)
    BY <2>2 DEF Unfinished, InFlight, Pages
  <2> QED BY <1>1, <2>2, <2>3, <2>4 DEF Shape, Pages
<1>3. CASE document.content \notin {"pdf", "image"}
  <2>1. job' = job /\ attempt[a] = "route" BY <1>3 DEF Route
  <2>2. attempt'[a] = "succeed" /\ \A b \in Attempts \ {a} : attempt'[b] = attempt[b]
    BY <1>3, GotoType DEF Route, AttemptSteps
  <2>3. \A b \in Attempts : Unfinished(b)' = Unfinished(b)
    BY <2>1 DEF Unfinished, InFlight, Pages
  <2>4. Unfinished(a) = {} BY <2>1 DEF Shape, Unfinished, InFlight
  <2> QED BY <1>1, <2>1, <2>2, <2>3, <2>4 DEF Shape, Pages
<1> QED BY <1>2, <1>3

LEMMA PageFrame ==
    ASSUME MiningTypeOK, Shape, NEW a \in Attempts, NEW p \in Pages, PageAction(a, p)
    PROVE  /\ job'[a][p].read \notin {"none", "wait"}
           /\ \A b \in Attempts, q \in Pages : b # a \/ q # p => job'[b][q] = job[b][q]
           /\ \A b \in Attempts, q \in Pages : q \in Unfinished(b)' => q \in Unfinished(b)
           /\ attempt' = attempt \/ attempt' = [attempt EXCEPT ![a] = "failing"]
<1>1. PICK j \in Jobs : SetJob(a, p, j) /\ j.read \notin {"none", "wait"}
  BY PageMoves
<1>2. /\ job'[a][p] = j
      /\ \A b \in Attempts, q \in Pages : b # a \/ q # p => job'[b][q] = job[b][q]
  BY <1>1, SetOneJob
<1>3. Flights /\ Flights' BY ReadFlights, ReadFlightsNext, PageType
<1>4. p \in Unfinished(a) BY PageMoves
<1>5. \A b \in Attempts, q \in Pages : q \in Unfinished(b)' => q \in Unfinished(b)
  BY <1>2, <1>3, <1>4 DEF Flights
<1>6. attempt' = attempt \/ attempt' = [attempt EXCEPT ![a] = "failing"]
  BY PageLeaves DEF Goto
<1> QED BY <1>1, <1>2, <1>5, <1>6

LEMMA PageShape ==
    ASSUME MiningTypeOK, Shape, NEW a \in Attempts, NEW p \in Pages, PageAction(a, p)
    PROVE  Shape'
<1>1. PagesOfDocument' = PagesOfDocument BY ContentStays DEF MiningNext, PageAction
<1>2. /\ job'[a][p].read \notin {"none", "wait"}
      /\ \A b \in Attempts, q \in Pages : b # a \/ q # p => job'[b][q] = job[b][q]
      /\ \A b \in Attempts, q \in Pages : q \in Unfinished(b)' => q \in Unfinished(b)
      /\ attempt' = attempt \/ attempt' = [attempt EXCEPT ![a] = "failing"]
  BY PageFrame
<1>3. p \in Unfinished(a) BY PageMoves
<1>4. job[a][p].read # "none" BY <1>3, ReadFlights DEF Flights
<1>5. attempt[a] \notin {"none", "finalize", "route", "succeed", "chain"}
  BY <1>3, <1>4 DEF Shape
<1>6. \A b \in Attempts : attempt'[b] \in {"none", "finalize", "route", "succeed", "chain"}
                            => b # a /\ attempt'[b] = attempt[b]
  BY <1>2, <1>5 DEF MiningTypeOK
<1>7. \A b \in Attempts : attempt'[b] \in {"succeed", "chain"} => Unfinished(b)' = {}
  <2> TAKE b \in Attempts
  <2>1. Unfinished(b)' \subseteq Pages BY DEF Unfinished, InFlight, Pages
  <2> QED BY <1>2, <1>6, <2>1 DEF Shape
<1>8. \A b \in Attempts, q \in Pages :
        /\ job'[b][q].read \in {"none", "wait"} => job'[b][q].thumb = "none"
        /\ job'[b][q].read # "none" => q \in PagesOfDocument
  BY <1>2, <1>4 DEF Shape
<1>9. \A b \in Attempts : attempt'[b] \in {"none", "finalize", "route"} =>
        \A q \in Pages : job'[b][q].read = "none"
  BY <1>2, <1>6 DEF Shape
<1> QED BY <1>1, <1>7, <1>8, <1>9 DEF Shape, Pages

LEMMA StepShape == MiningTypeOK /\ Shape /\ [MiningNext]_miningVars => Shape'
<1>1. ASSUME Shape, UNCHANGED miningVars PROVE Shape'
  BY <1>1 DEF miningVars, Shape, PagesOfDocument, Unfinished, InFlight, Pages, Attempts
<1> QED BY <1>1, MiningActions, TaskShape, StopShape, RouteShape, PageShape

-----------------------------------------------------------------------------
(* A result that is there stays there, and so does a thumbnail.               *)
Kept ==
    /\ \A p \in Pages : thumb[p] => thumb'[p]
    /\ \A p \in Pages, k \in Kinds : results[p][k] # 0 => results'[p][k] # 0

LEMMA StepKeeps == ASSUME MiningTypeOK, [MiningNext]_miningVars PROVE Kept
<1>1. CASE UNCHANGED <<thumb, results>> BY <1>1 DEF Kept
<1>2. ASSUME NEW a \in Attempts, NEW p \in Pages, RecordThumb(a, p) PROVE Kept
  BY <1>2 DEF RecordThumb, Kept, MiningTypeOK
<1>3. ASSUME NEW a \in Attempts, NEW p \in Pages, NEW kind \in Kinds, Save(a, p, kind),
             thumb' = thumb
      PROVE  Kept
  <2>1. a # 0 BY DEF Attempts
  <2>2. \A q \in Pages, k \in Kinds : results'[q][k] = a \/ results'[q][k] = results[q][k]
    BY <1>3, SaveMoves
  <2> QED BY <1>3, <2>1, <2>2 DEF Kept
<1>4. CASE ~UNCHANGED <<thumb, results>>
  <2>1. PICK a \in Attempts, p \in Pages :
           RecordThumb(a, p) \/ SaveExtract(a, p) \/ SaveAnnotation(a, p)
    <3>1. MiningNext BY <1>4 DEF miningVars
    <3>2. PICK a \in Attempts : \/ TaskAction(a) \/ StopAction(a) \/ Route(a)
                               \/ \E p \in Pages : PageAction(a, p)
      BY <3>1, MiningActions
    <3>3. ~TaskAction(a) BY <1>4, TaskFrame
    <3>4. ~(StopAction(a) \/ Route(a)) BY <1>4, EndFrame
    <3> QED BY <1>4, <3>2, <3>3, <3>4, PageLeaves
  <2> QED BY <1>2, <1>3, <2>1 DEF SaveExtract, SaveAnnotation, Kinds
<1> QED BY <1>1, <1>4

(* What a page's step has saved when its coroutine moves on.                  *)
LEMMA PageSaves ==
    ASSUME MiningTypeOK, NEW a \in Attempts, NEW p \in Pages, PageAction(a, p)
    PROVE  /\ \/ job'[a][p].thumb = job[a][p].thumb
              \/ job'[a][p].thumb # "done"
              \/ thumb'[p]
           /\ \A q \in Pages, k \in Kinds : q # p => results'[q][k] = results[q][k]
           /\ \/ /\ job'[a][p].read = job[a][p].read \/ job'[a][p].read \notin {"save_annotation", "done"}
                 /\ results' = results
              \/ /\ job'[a][p].read = "save_annotation"
                 /\ results'[p]["extract"] = a
              \/ /\ job[a][p].read = "save_annotation"
                 /\ job'[a][p].read = "done"
                 /\ results'[p]["extract"] = results[p]["extract"]
                 /\ results'[p]["annotation"] = a
<1>1. job \in [Attempts -> [Pages -> Jobs]] /\ job[a][p] \in Jobs
  BY DEF MiningTypeOK, Jobs
<1>2. ASSUME NEW s \in ReadSteps, SetJob(a, p, [job[a][p] EXCEPT !.read = s])
      PROVE  job'[a][p].read = s /\ job'[a][p].thumb = job[a][p].thumb
  BY <1>1, <1>2 DEF SetJob, Jobs
<1>3. ASSUME NEW s \in ThumbSteps, SetJob(a, p, [job[a][p] EXCEPT !.thumb = s])
      PROVE  job'[a][p].thumb = s /\ job'[a][p].read = job[a][p].read
  BY <1>1, <1>3 DEF SetJob, Jobs
<1>4. CASE Acquire(a, p)
  <2>1. job'[a][p] = [read |-> "annotate", thumb |-> "ensure"]
    BY <1>1, <1>4 DEF Acquire, SetJob
  <2> QED BY <1>4, <2>1 DEF Acquire
<1>5. CASE Annotate(a, p)
  <2>1. /\ job'[a][p].read \in {"reflect", "save_extract"}
        /\ job'[a][p].thumb = job[a][p].thumb
    BY <1>2, <1>5 DEF Annotate, ReadSteps
  <2> QED BY <1>5, <2>1 DEF Annotate
<1>6. CASE Reflect(a, p)
  <2>1. job'[a][p].read = "save_extract" /\ job'[a][p].thumb = job[a][p].thumb
    BY <1>2, <1>6 DEF Reflect, ReadSteps
  <2> QED BY <1>6, <2>1 DEF Reflect
<1>7. CASE EnsureThumb(a, p)
  <2>1. job'[a][p].thumb = "record" /\ job'[a][p].read = job[a][p].read
    BY <1>3, <1>7 DEF EnsureThumb, ThumbSteps
  <2> QED BY <1>7, <2>1 DEF EnsureThumb
<1>8. CASE RecordThumb(a, p)
  <2>1. job'[a][p].thumb = "done" /\ job'[a][p].read = job[a][p].read
    BY <1>3, <1>8 DEF RecordThumb, ThumbSteps
  <2>2. thumb'[p] BY <1>8 DEF RecordThumb, MiningTypeOK
  <2> QED BY <1>8, <2>1, <2>2 DEF RecordThumb
<1>9. CASE SaveExtract(a, p)
  <2>1. job'[a][p].read = "save_annotation" /\ job'[a][p].thumb = job[a][p].thumb
    BY <1>2, <1>9 DEF SaveExtract, ReadSteps
  <2>2. Save(a, p, "extract") /\ "extract" \in Kinds BY <1>9 DEF SaveExtract, Kinds
  <2>3. /\ results'[p]["extract"] = a
        /\ \A q \in Pages, k \in Kinds : q # p => results'[q][k] = results[q][k]
    BY <2>2, SaveMoves
  <2> QED BY <2>1, <2>3
<1>10. CASE SaveAnnotation(a, p)
  <2>1. /\ job[a][p].read = "save_annotation" /\ job'[a][p].read = "done"
        /\ job'[a][p].thumb = job[a][p].thumb
    BY <1>2, <1>10 DEF SaveAnnotation, ReadSteps
  <2>2. Save(a, p, "annotation") /\ "annotation" \in Kinds /\ "extract" \in Kinds
    BY <1>10 DEF SaveAnnotation, Kinds
  <2>3. /\ results'[p]["annotation"] = a
        /\ results'[p]["extract"] = results[p]["extract"]
        /\ \A q \in Pages, k \in Kinds : q # p => results'[q][k] = results[q][k]
    BY <2>2, SaveMoves
  <2> QED BY <2>1, <2>3
<1>11. CASE PageRaises(a, p)
  <2>1. job'[a][p].read = "failed" /\ job'[a][p].thumb = job[a][p].thumb
    BY <1>2, <1>11 DEF PageRaises, ReadSteps
  <2> QED BY <1>11, <2>1 DEF PageRaises
<1> QED BY <1>4, <1>5, <1>6, <1>7, <1>8, <1>9, <1>10, <1>11 DEF PageAction

LEMMA PageHonest ==
    ASSUME MiningTypeOK, Honest, NEW a \in Attempts, NEW p \in Pages, PageAction(a, p)
    PROVE  /\ job'[a][p].thumb = "done" => thumb'[p]
           /\ job'[a][p].read \in {"save_annotation", "done"} => results'[p]["extract"] # 0
           /\ job'[a][p].read = "done" => results'[p]["annotation"] # 0
<1>1. Kept BY StepKeeps DEF MiningNext, PageAction
<1>2. {"extract", "annotation"} = Kinds /\ a # 0 BY DEF Kinds, Attempts
<1>3. /\ job[a][p].thumb = "done" => thumb'[p]
      /\ job[a][p].read \in {"save_annotation", "done"} => results'[p]["extract"] # 0
      /\ job[a][p].read = "done" => results'[p]["annotation"] # 0
  BY <1>1, <1>2 DEF Kept, Honest
<1> QED BY <1>2, <1>3, PageSaves

LEMMA StepHonest ==
    ASSUME MiningTypeOK, Shape, Honest, [MiningNext]_miningVars
    PROVE  Honest'
<1>1. Kept BY StepKeeps
<1>2. {"extract", "annotation"} = Kinds BY DEF Kinds
<1>3. ASSUME NEW b \in Attempts, NEW q \in Pages,
             \/ job'[b][q].read \in {"none", "wait", "failed"} /\ job'[b][q].thumb = "none"
             \/ job'[b][q].read = "failed" /\ job'[b][q].thumb = job[b][q].thumb
             \/ job'[b][q] = job[b][q]
      PROVE  /\ job'[b][q].thumb = "done" => thumb'[q]
             /\ job'[b][q].read \in {"save_annotation", "done"} => results'[q]["extract"] # 0
             /\ job'[b][q].read = "done" => results'[q]["annotation"] # 0
  BY <1>1, <1>2, <1>3 DEF Kept, Honest
<1>4. ASSUME NEW a \in Attempts, TaskAction(a) PROVE Honest'
  <2>1. job' = job
    BY <1>4
       DEF TaskAction, BeginAttempt, Succeed, Chain, MarkFailed, MarkTimedOut, AttemptRaises,
           FinalizeNode, Gathered
  <2> QED BY <1>3, <2>1 DEF Honest, Pages
<1>5. ASSUME NEW a \in Attempts, StopAction(a) PROVE Honest'
  <2>1. job' = [job EXCEPT ![a] = Stopped(a)] BY <1>5 DEF StopAction, Timeout, WorkerDies
  <2>2. \A b \in Attempts, q \in Pages :
          \/ job'[b][q] = job[b][q]
          \/ job'[b][q].read = "failed" /\ job'[b][q].thumb = job[b][q].thumb
    BY <2>1, StopMoves
  <2> QED BY <1>3, <2>2 DEF Honest, Pages
<1>6. ASSUME NEW a \in Attempts, Route(a) PROVE Honest'
  <2>1. job' = [job EXCEPT ![a] = RouteJobs] \/ job' = job BY <1>6 DEF Route, RouteJobs
  <2>2. CASE job' = job BY <1>3, <2>2 DEF Honest, Pages
  <2>3. CASE job' = [job EXCEPT ![a] = RouteJobs]
    <3>1. /\ \A b \in Attempts \ {a} : job'[b] = job[b]
          /\ \A p \in Pages :
                /\ job'[a][p].read \in {"none", "wait"}
                /\ job'[a][p].thumb = "none"
      BY <2>3, RouteMoves
    <3> QED BY <1>3, <3>1 DEF Honest, Pages
  <2> QED BY <2>1, <2>2, <2>3
<1>7. ASSUME NEW a \in Attempts, NEW p \in Pages, PageAction(a, p) PROVE Honest'
  <2>1. \A b \in Attempts, q \in Pages : b # a \/ q # p => job'[b][q] = job[b][q]
    BY <1>7, PageFrame
  <2> QED BY <1>3, <1>7, <2>1, PageHonest DEF Honest, Pages
<1>8. CASE UNCHANGED miningVars BY <1>3, <1>8 DEF miningVars, Honest, Pages
<1> QED BY <1>4, <1>5, <1>6, <1>7, <1>8, MiningActions

LEMMA CompleteStays ==
    ASSUME MiningTypeOK, [MiningNext]_miningVars, Complete
    PROVE  Complete'
<1>1. Kept BY StepKeeps
<1>2. document'.content = document.content /\ PagesOfDocument' = PagesOfDocument
  BY ContentStays
<1>3. PagesOfDocument \subseteq Pages BY DEF PagesOfDocument, Pages
<1> QED BY <1>1, <1>2, <1>3 DEF Complete, Kept

(* gather returned on every page: each has its results and its thumbnail.     *)
LEMMA GatheredComplete ==
    ASSUME MiningTypeOK, Honest, NEW a \in Attempts, Gathered(a)
    PROVE  Complete
<1>1. PagesOfDocument \subseteq Pages BY DEF PagesOfDocument, Pages
<1>2. \A p \in PagesOfDocument : job[a][p].read = "done" /\ job[a][p].thumb = "done"
  BY DEF Gathered
<1> QED BY <1>1, <1>2 DEF Complete, Honest, Kinds

LEMMA StepReported ==
    ASSUME MiningTypeOK, Shape, Honest, Reported, [MiningNext]_miningVars
    PROVE  Reported'
<1>1. SUFFICES ASSUME (run.status = "succeeded"
                        \/ \E a \in Attempts : attempt[a] \in {"succeed", "chain"})',
                      ~Complete
               PROVE  Complete'
  BY CompleteStays DEF Reported, Attempts
<1>2. run.status # "succeeded" /\ \A a \in Attempts : attempt[a] \notin {"succeed", "chain"}
  BY <1>1 DEF Reported
<1>3. PICK a \in Attempts : Gathered(a) \/ (Route(a) /\ document.content \notin {"pdf", "image"})
  <2>1. ASSUME NEW a \in Attempts, NEW step \in AttemptSteps \ {"succeed", "chain"},
               Goto(a, step), run' = run \/ run'.status # "succeeded"
        PROVE  FALSE
    BY <1>1, <1>2, <2>1, GotoType
  <2>2. ~(UNCHANGED <<attempt, run>>) BY <1>1, <1>2
  <2>3. ASSUME NEW a \in Attempts, TaskAction(a) PROVE Gathered(a)
    BY <1>2, <2>1, <2>3
       DEF TaskAction, BeginAttempt, Succeed, Chain, MarkFailed, MarkTimedOut, AttemptRaises,
           FinalizeNode, AttemptSteps, MiningTypeOK
  <2>4. ASSUME NEW a \in Attempts, StopAction(a) PROVE FALSE
    BY <2>1, <2>2, <2>4 DEF StopAction, Timeout, WorkerDies, AttemptSteps
  <2>5. ASSUME NEW a \in Attempts, Route(a) PROVE document.content \notin {"pdf", "image"}
    BY <2>1, <2>5 DEF Route, AttemptSteps
  <2>6. ASSUME NEW a \in Attempts, NEW p \in Pages, PageAction(a, p) PROVE FALSE
    <3>1. run' = run BY <2>6, PageLeaves
    <3>2. attempt' = attempt \/ Goto(a, "failing") BY <2>6, PageFrame DEF Goto
    <3> QED BY <2>1, <2>2, <3>1, <3>2 DEF AttemptSteps
  <2> QED BY <2>2, <2>3, <2>4, <2>5, <2>6, MiningActions DEF miningVars
<1>4. Complete BY <1>3, GatheredComplete DEF Complete
<1> QED BY <1>1, <1>4

(* The first inductive invariant. *)
Worked == MiningTypeOK /\ Shape /\ Honest /\ Reported

LEMMA WorkedInit == MiningInit => Worked
<1>1. MiningInit => Honest BY DEF MiningInit, Honest, NoJob
<1>2. MiningInit => Reported BY DEF MiningInit, Reported
<1> QED BY <1>1, <1>2, TypeInit, ShapeInit DEF Worked

LEMMA WorkedStep == Worked /\ [MiningNext]_miningVars => Worked'
BY StepType, StepShape, StepHonest, StepReported DEF Worked

LEMMA AlwaysWorked == MiningSpec => []Worked
BY WorkedInit, WorkedStep, PTL DEF MiningSpec

(* Every variable of a mining run keeps its type: the rows, the coroutines   *)
(* of the fan-out and the message of its task (document_mining/task.py).     *)
THEOREM MiningTypeCorrect == MiningSpec => []MiningTypeOK
<1>1. Worked => MiningTypeOK BY DEF Worked
<1> QED BY <1>1, AlwaysWorked, PTL

(* A run marked succeeded on a PDF or an image has both results and the      *)
(* thumbnail of every page, after any failures, timeouts and deaths of       *)
(* workers: the gather of process.py:152-154 returns on no less, and         *)
(* task.py:96-116 marks the run only after it.                               *)
THEOREM SuccessesAreComplete == MiningSpec => []SuccessIsComplete
<1>1. Worked => SuccessIsComplete
  BY DEF Worked, Reported, Complete, SuccessIsComplete, Mined
<1> QED BY <1>1, AlwaysWorked, PTL

-----------------------------------------------------------------------------
(* One attempt at a time: only one is alive, and none while a message waits;  *)
(* attempts begin in order, and after success none does more than end.        *)
InTurn ==
    /\ \A a, b \in Attempts : b < a /\ attempt[a] # "none" => attempt[b] # "none"
    /\ \A a, b \in Attempts : Alive(a) /\ attempt[b] # "none" => b <= a
    /\ task.queued => \A a \in Attempts : ~Alive(a)
    /\ run.status = "succeeded" =>
         \A a \in Attempts : attempt[a] \in {"none", "chain", "failing", "over"}

(* The attempt that began last. *)
Latest(a) == attempt[a] # "none" /\ \A b \in Attempts : attempt[b] # "none" => b <= a

(* Nothing ran on beside a later attempt: what is in flight belongs to the    *)
(* attempt that began last, and so does what its coroutines have saved.       *)
Undisturbed ==
    ~straggled =>
      /\ \A a \in Attempts : Unfinished(a) # {} => Latest(a)
      /\ \A a \in Attempts, p \in Pages : Latest(a) =>
           /\ job[a][p].read \in {"save_annotation", "done"} => results[p]["extract"] = a
           /\ job[a][p].read = "done" => results[p]["annotation"] = a
      /\ \A a \in Attempts : attempt[a] \in {"succeed", "chain"}
                             /\ document.content \in {"pdf", "image"} =>
           \A p \in PagesOfDocument, k \in Kinds : results[p][k] = a
      /\ run.status = "succeeded" =>
           /\ \A a \in Attempts : Unfinished(a) = {}
           /\ document.content \in {"pdf", "image"} =>
                \A p \in PagesOfDocument, k \in Kinds : results[p][k] = run.winner

LEMMA TurnInit == MiningInit => InTurn /\ Undisturbed
BY DEF MiningInit, InTurn, Undisturbed, Alive, Unfinished, InFlight, NoJob

LEMMA StepInTurn ==
    ASSUME MiningTypeOK, Shape, InTurn, [MiningNext]_miningVars
    PROVE  InTurn'
<1> USE DEF Alive
<1>1. ASSUME NEW a \in Attempts, Alive(a),
             NEW step \in AttemptSteps \ {"none"}, Goto(a, step),
             task' = task \/ step = "over" \/ ~task'.queued,
             run' = run \/ step \in {"over", "chain"} \/ run'.status # "succeeded",
             run.status # "succeeded" \/ step \in {"chain", "failing", "over"}
      PROVE  InTurn'
  <2>1. attempt'[a] = step /\ \A b \in Attempts \ {a} : attempt'[b] = attempt[b]
    BY <1>1, GotoType
  <2>2. \A b \in Attempts \ {a} : attempt[b] \in {"none", "over"}
    BY <1>1 DEF InTurn, Attempts
  <2>3. \A b \in Attempts : attempt'[b] = "none" <=> attempt[b] = "none" BY <1>1, <2>1
  <2> QED BY <1>1, <2>1, <2>2, <2>3 DEF InTurn
<1>2. ASSUME NEW a \in Attempts, BeginAttempt(a) PROVE InTurn'
  <2>1. attempt'[a] = "finalize" /\ \A b \in Attempts \ {a} : attempt'[b] = attempt[b]
    BY <1>2, GotoType DEF BeginAttempt, AttemptSteps
  <2>2. run'.status = "running" /\ ~task'.queued BY <1>2 DEF BeginAttempt, MiningTypeOK
  <2>3. \A b \in Attempts : ~Alive(b) BY <1>2 DEF BeginAttempt, InTurn
  <2>4. attempt[a] = "none" /\ \A b \in Attempts : b < a => attempt[b] # "none"
    BY <1>2 DEF BeginAttempt
  <2>5. \A b \in Attempts : attempt[b] # "none" => b <= a
    BY <2>4 DEF InTurn, Attempts
  <2> QED BY <2>1, <2>2, <2>3, <2>4, <2>5 DEF InTurn, Attempts
<1>3. ASSUME NEW a \in Attempts, TaskAction(a), ~BeginAttempt(a) PROVE InTurn'
  <2>1. Alive(a)
    BY <1>3
       DEF TaskAction, Succeed, Chain, MarkFailed, MarkTimedOut, AttemptRaises,
           FinalizeNode, Gathered
  <2>2. CASE Succeed(a)
    <3>1. \A b \in Attempts \ {a} : attempt[b] \in {"none", "over"}
      BY <2>1 DEF InTurn, Attempts
    <3> QED BY <1>1, <2>1, <2>2 DEF Succeed, AttemptSteps
  <2>3. CASE MarkFailed(a) BY <1>1, <2>1, <2>3 DEF MarkFailed, AttemptSteps, MiningTypeOK
  <2>4. CASE MarkTimedOut(a) \/ Chain(a) \/ AttemptRaises(a)
    BY <1>1, <2>1, <2>4 DEF MarkTimedOut, Chain, AttemptRaises, AttemptSteps, MiningTypeOK
  <2>5. CASE FinalizeNode(a) \/ Gathered(a)
    <3>1. run.status # "succeeded" BY <2>5 DEF FinalizeNode, Gathered, InTurn
    <3> QED BY <1>1, <2>1, <2>5, <3>1 DEF FinalizeNode, Gathered, AttemptSteps
  <2> QED BY <1>3, <2>2, <2>3, <2>4, <2>5 DEF TaskAction
<1>4. ASSUME NEW a \in Attempts, StopAction(a) PROVE InTurn'
  <2>1. CASE Timeout(a)
    <3>1. run.status # "succeeded" BY <2>1 DEF Timeout, InTurn
    <3> QED BY <1>1, <2>1, <3>1 DEF Timeout, AttemptSteps
  <2>2. CASE WorkerDies(a) /\ Alive(a) BY <1>1, <2>2 DEF WorkerDies, AttemptSteps
  <2>3. CASE WorkerDies(a) /\ ~Alive(a) BY <2>3 DEF WorkerDies, InTurn
  <2> QED BY <1>4, <2>1, <2>2, <2>3 DEF StopAction
<1>5. ASSUME NEW a \in Attempts, Route(a) PROVE InTurn'
  <2>1. Alive(a) /\ run.status # "succeeded" BY <1>5 DEF Route, InTurn
  <2> QED BY <1>1, <1>5, <2>1 DEF Route, AttemptSteps
<1>6. ASSUME NEW a \in Attempts, NEW p \in Pages, PageAction(a, p) PROVE InTurn'
  <2>1. UNCHANGED <<task, run>> BY <1>6, PageLeaves
  <2>2. attempt' = attempt \/ (Goto(a, "failing") /\ attempt[a] = "process")
    BY <1>6, PageLeaves
  <2>3. CASE attempt' = attempt BY <2>1, <2>3 DEF InTurn
  <2>4. CASE Goto(a, "failing") /\ attempt[a] = "process"
    BY <1>1, <2>1, <2>4 DEF AttemptSteps
  <2> QED BY <2>2, <2>3, <2>4
<1>7. CASE UNCHANGED miningVars BY <1>7 DEF miningVars, InTurn
<1> QED BY <1>2, <1>3, <1>4, <1>5, <1>6, <1>7, MiningActions

LEMMA StepUndisturbed ==
    ASSUME MiningTypeOK, Shape, InTurn, Undisturbed, [MiningNext]_miningVars
    PROVE  Undisturbed'
<1> USE DEF Alive
<1>1. SUFFICES ASSUME ~straggled'
               PROVE  Undisturbed'
  BY DEF Undisturbed
<1>2. ~straggled
  <2>1. CASE UNCHANGED miningVars BY <1>1, <2>1 DEF miningVars
  <2>2. CASE MiningNext
    <3>1. PICK a \in Attempts : \/ TaskAction(a) \/ StopAction(a) \/ Route(a)
                               \/ \E p \in Pages : PageAction(a, p)
      BY <2>2, MiningActions
    <3> QED BY <1>1, <3>1, TaskFrame, EndFrame, PageLeaves
  <2> QED BY <2>1, <2>2
<1>3. /\ \A a \in Attempts : Unfinished(a) # {} => Latest(a)
      /\ \A a \in Attempts, p \in Pages : Latest(a) =>
           /\ job[a][p].read \in {"save_annotation", "done"} => results[p]["extract"] = a
           /\ job[a][p].read = "done" => results[p]["annotation"] = a
      /\ \A a \in Attempts : attempt[a] \in {"succeed", "chain"}
                             /\ document.content \in {"pdf", "image"} =>
           \A p \in PagesOfDocument, k \in Kinds : results[p][k] = a
      /\ run.status = "succeeded" =>
           /\ \A a \in Attempts : Unfinished(a) = {}
           /\ document.content \in {"pdf", "image"} =>
                \A p \in PagesOfDocument, k \in Kinds : results[p][k] = run.winner
  BY <1>2 DEF Undisturbed
<1>4. document'.content = document.content /\ PagesOfDocument' = PagesOfDocument
  BY ContentStays
<1>5. PagesOfDocument \subseteq Pages BY DEF PagesOfDocument, Pages
<1>6. ASSUME NEW a \in Attempts, NEW b \in Attempts, Alive(a), Latest(b) PROVE a = b
  BY <1>6 DEF InTurn, Latest, Attempts
<1>7. ASSUME NEW a \in Attempts, Alive(a) PROVE Latest(a)
  BY <1>7 DEF InTurn, Latest
<1>8. ASSUME \A b \in Attempts : attempt'[b] = "none" <=> attempt[b] = "none"
      PROVE  \A b \in Attempts : Latest(b)' <=> Latest(b)
  BY <1>8 DEF Latest, Attempts
<1>9. ASSUME NEW a \in Attempts, NEW b \in Attempts, Latest(a), Latest(b) PROVE a = b
  BY <1>9 DEF Latest, Attempts
<1>10. MiningTypeOK' BY StepType
<1>11. Flights /\ Flights' BY <1>10, ReadFlights, ReadFlightsNext
<1>12. \A b \in Attempts : Unfinished(b)' \subseteq Pages /\ Unfinished(b) \subseteq Pages
  BY DEF Unfinished, InFlight, Pages
<1>13. ASSUME NEW a \in Attempts, BeginAttempt(a) PROVE Undisturbed'
  <2>1. attempt'[a] = "finalize" /\ \A b \in Attempts \ {a} : attempt'[b] = attempt[b]
    BY <1>13, GotoType DEF BeginAttempt, AttemptSteps
  <2>2. UNCHANGED <<job, results>> /\ run'.status = "running"
    BY <1>13 DEF BeginAttempt, MiningTypeOK
  <2>3. \A b \in Attempts : Unfinished(b)' = {}
    <3>1. \A b \in Attempts : Unfinished(b) = {} BY <1>1, <1>13 DEF BeginAttempt
    <3> QED BY <2>2, <3>1 DEF Unfinished, InFlight, Pages
  <2>4. \A b \in Attempts : attempt'[b] \notin {"succeed", "chain"}
    BY <1>13, <2>1 DEF BeginAttempt, InTurn
  <2>5. \A b \in Attempts : attempt[b] # "none" => b < a
    BY <1>13 DEF BeginAttempt, InTurn, Attempts
  <2>6. \A b \in Attempts : Latest(b)' => b = a BY <2>1, <2>5 DEF Latest, Attempts
  <2>7. \A p \in Pages : job'[a][p].read = "none" BY <1>13, <2>2 DEF BeginAttempt, Shape
  <2> QED BY <2>2, <2>3, <2>4, <2>6, <2>7 DEF Undisturbed, Pages
<1>14. ASSUME NEW a \in Attempts, TaskAction(a), ~BeginAttempt(a) PROVE Undisturbed'
  <2>1. Alive(a) /\ Latest(a)
    BY <1>7, <1>14
       DEF TaskAction, Succeed, Chain, MarkFailed, MarkTimedOut, AttemptRaises,
           FinalizeNode, Gathered
  <2>2. UNCHANGED <<job, results>>
    BY <1>14
       DEF TaskAction, Succeed, Chain, MarkFailed, MarkTimedOut, AttemptRaises,
           FinalizeNode, Gathered
  <2>3. PICK step \in AttemptSteps \ {"none"} : Goto(a, step)
    BY <1>14
       DEF TaskAction, Succeed, Chain, MarkFailed, MarkTimedOut, AttemptRaises,
           FinalizeNode, Gathered, AttemptSteps
  <2>4. attempt'[a] = step /\ \A b \in Attempts \ {a} : attempt'[b] = attempt[b]
    BY <2>3, GotoType
  <2>5. \A b \in Attempts : Latest(b)' <=> Latest(b) BY <1>8, <2>1, <2>4
  <2>6. \A b \in Attempts : Unfinished(b)' = Unfinished(b)
    BY <2>2 DEF Unfinished, InFlight, Pages
  <2>7. ASSUME attempt'[a] \in {"succeed", "chain"}, document.content \in {"pdf", "image"},
               NEW p \in PagesOfDocument, NEW k \in Kinds
        PROVE  results[p][k] = a
    <3>1. Gathered(a) \/ Succeed(a)
      BY <1>14, <2>7, GotoType
         DEF TaskAction, Chain, MarkFailed, MarkTimedOut, AttemptRaises, FinalizeNode,
             AttemptSteps
    <3>2. CASE Gathered(a)
      <4>1. job[a][p].read = "done" BY <3>2 DEF Gathered
      <4> QED BY <1>3, <1>5, <2>1, <4>1 DEF Kinds
    <3>3. CASE Succeed(a) BY <1>3, <2>7, <3>3 DEF Succeed
    <3> QED BY <3>1, <3>2, <3>3
  <2>8. ASSUME run'.status = "succeeded"
        PROVE  /\ \A b \in Attempts : Unfinished(b) = {}
               /\ document.content \in {"pdf", "image"} =>
                    \A p \in PagesOfDocument, k \in Kinds : results[p][k] = run'.winner
    <3>1. CASE Succeed(a)
      <4>1. Unfinished(a) = {} /\ run'.winner = a BY <3>1 DEF Succeed, Shape
      <4>2. \A b \in Attempts : Unfinished(b) = {} BY <1>3, <1>6, <2>1, <4>1
      <4> QED BY <1>3, <3>1, <4>1, <4>2 DEF Succeed
    <3>2. CASE ~Succeed(a)
      <4>1. run' = run
        BY <1>14, <2>8, <3>2
           DEF TaskAction, Chain, MarkFailed, MarkTimedOut, AttemptRaises, FinalizeNode,
               Gathered, MiningTypeOK
      <4> QED BY <1>3, <2>8, <4>1
    <3> QED BY <3>1, <3>2
  <2>9. \A b \in Attempts : attempt'[b] \in {"succeed", "chain"}
                            /\ document'.content \in {"pdf", "image"} =>
          \A p \in PagesOfDocument', k \in Kinds : results'[p][k] = b
    BY <1>3, <1>4, <2>2, <2>4, <2>7
  <2> QED BY <1>3, <1>4, <2>2, <2>5, <2>6, <2>8, <2>9 DEF Undisturbed, Pages
<1>15. ASSUME NEW a \in Attempts, StopAction(a) PROVE Undisturbed'
  <2>1. UNCHANGED <<results, run>> BY <1>15 DEF StopAction, Timeout, WorkerDies
  <2>2. \A b \in Attempts, p \in Pages :
          \/ job'[b][p] = job[b][p]
          \/ job'[b][p].read = "failed"
    BY <1>15, StopMoves DEF StopAction, Timeout, WorkerDies
  <2>3. \A b \in Attempts : Unfinished(b)' \subseteq Unfinished(b)
    BY <1>11, <1>12, <2>2 DEF Flights
  <2>4. \A b \in Attempts : attempt'[b] = attempt[b]
                            \/ (attempt[b] # "none" /\ attempt'[b] \in {"timing_out", "over"})
    BY <1>15, GotoType DEF StopAction, Timeout, WorkerDies, AttemptSteps
  <2>5. \A b \in Attempts : Latest(b)' <=> Latest(b) BY <1>8, <2>4
  <2> QED BY <1>3, <1>4, <2>1, <2>2, <2>3, <2>4, <2>5 DEF Undisturbed, Pages
<1>16. ASSUME NEW a \in Attempts, Route(a) PROVE Undisturbed'
  <2>1. Latest(a) /\ run.status # "succeeded" /\ UNCHANGED <<results, run>>
    BY <1>7, <1>16 DEF Route, InTurn
  <2>2. \A b \in Attempts \ {a} : attempt'[b] = attempt[b]
    BY <1>16, GotoType DEF Route, AttemptSteps
  <2>3. attempt[a] # "none" /\ attempt'[a] # "none"
        /\ (document.content \in {"pdf", "image"} => attempt'[a] = "process")
    BY <1>16, GotoType DEF Route, AttemptSteps
  <2>4. \A b \in Attempts : Latest(b)' <=> Latest(b) BY <1>8, <2>2, <2>3
  <2>5. /\ \A b \in Attempts \ {a}, p \in Pages : job'[b][p] = job[b][p]
        /\ \A p \in Pages : job'[a][p].read \in {"none", "wait"}
    BY <1>16, RouteMoves DEF Route, RouteJobs, Shape
  <2>6. \A b \in Attempts : b = a \/ Unfinished(b)' = Unfinished(b)
    BY <2>5 DEF Unfinished, InFlight, Pages
  <2> QED BY <1>3, <1>4, <2>1, <2>2, <2>3, <2>4, <2>5, <2>6 DEF Undisturbed, Pages
<1>17. ASSUME NEW a \in Attempts, NEW p \in Pages, PageAction(a, p) PROVE Undisturbed'
  <2>1. Unfinished(a) # {} /\ Latest(a) BY <1>3, <1>17, PageMoves
  <2>2. run' = run /\ run.status # "succeeded" BY <1>3, <1>17, <2>1, PageLeaves
  <2>3. /\ \A b \in Attempts, q \in Pages : b # a \/ q # p => job'[b][q] = job[b][q]
        /\ \A b \in Attempts, q \in Pages : q \in Unfinished(b)' => q \in Unfinished(b)
        /\ attempt' = attempt \/ attempt' = [attempt EXCEPT ![a] = "failing"]
    BY <1>17, PageFrame
  <2>4. \A b \in Attempts : attempt'[b] = attempt[b]
                            \/ (b = a /\ attempt'[b] = "failing")
    BY <2>3 DEF MiningTypeOK
  <2>5. \A b \in Attempts : Latest(b)' <=> Latest(b) BY <1>8, <2>1, <2>4 DEF Latest
  <2>6. \A b \in Attempts : attempt'[b] \notin {"succeed", "chain"}
    BY <1>6, <2>1, <2>4 DEF Shape
  <2>7. \A b \in Attempts : Unfinished(b)' # {} => Unfinished(b) # {} BY <1>12, <2>3
  <2>8. ASSUME NEW q \in Pages
        PROVE  /\ job'[a][q].read \in {"save_annotation", "done"} => results'[q]["extract"] = a
               /\ job'[a][q].read = "done" => results'[q]["annotation"] = a
    <3>1. /\ job[a][q].read \in {"save_annotation", "done"} => results[q]["extract"] = a
          /\ job[a][q].read = "done" => results[q]["annotation"] = a
      BY <1>3, <2>1
    <3>2. CASE q # p
      <4>1. job'[a][q] = job[a][q] BY <2>3, <3>2
      <4>2. /\ results'[q]["extract"] = results[q]["extract"]
            /\ results'[q]["annotation"] = results[q]["annotation"]
        BY <1>17, <3>2, PageSaves DEF Kinds
      <4> QED BY <3>1, <4>1, <4>2
    <3>3. CASE q = p
      <4>1. \/ /\ job'[a][p].read = job[a][p].read
                  \/ job'[a][p].read \notin {"save_annotation", "done"}
               /\ results' = results
            \/ /\ job'[a][p].read = "save_annotation"
               /\ results'[p]["extract"] = a
            \/ /\ job[a][p].read = "save_annotation"
               /\ job'[a][p].read = "done"
               /\ results'[p]["extract"] = results[p]["extract"]
               /\ results'[p]["annotation"] = a
        BY <1>17, PageSaves
      <4> QED BY <3>1, <3>3, <4>1
    <3> QED BY <3>2, <3>3
  <2> QED BY <1>3, <1>9, <2>1, <2>2, <2>5, <2>6, <2>7, <2>8 DEF Undisturbed, Pages
<1>18. CASE UNCHANGED miningVars
  BY <1>3, <1>18
     DEF miningVars, Undisturbed, Latest, Unfinished, InFlight, Pages, Attempts,
         PagesOfDocument
<1> QED BY <1>13, <1>14, <1>15, <1>16, <1>17, <1>18, MiningActions

(* The second inductive invariant. *)
Apart == Worked /\ InTurn /\ Undisturbed

(* Unless pages of a failed attempt ran on into the next one, the results of *)
(* a run that succeeded are all of the attempt that succeeded: each attempt  *)
(* saves every page over what was there (service.py:47-51 of results), and   *)
(* none of an earlier one comes in later (process.py:152).                   *)
THEOREM SuccessOfOneAttempt == MiningSpec => []ResultsOfOneAttempt
<1>1. MiningInit => Apart BY WorkedInit, TurnInit DEF Apart
<1>2. Apart /\ [MiningNext]_miningVars => Apart'
  BY WorkedStep, StepInTurn, StepUndisturbed DEF Apart, Worked
<1>3. Apart => ResultsOfOneAttempt
  BY DEF Apart, Undisturbed, ResultsOfOneAttempt, Mined
<1> QED BY <1>1, <1>2, <1>3, PTL DEF MiningSpec
====
