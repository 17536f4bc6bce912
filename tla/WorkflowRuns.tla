---------------------------- MODULE WorkflowRuns ----------------------------
(***************************************************************************)
(* The lifecycle of a workflow run across its three owners:                *)
(*                                                                         *)
(*  - the API process, which records a workflow_execution row, enqueues a  *)
(*    task and backfills the task id (POST /workflows, POST /audits);      *)
(*  - the Redis-stream broker, which keeps a delivered message pending     *)
(*    until it is acknowledged and lets another worker claim it once it    *)
(*    has been idle for IdleTimeout;                                       *)
(*  - the workers, which run the task body: mark the row RUNNING, run the  *)
(*    graph under a time budget, merge the final metadata, mark the row    *)
(*    SUCCEEDED or FAILED, chain the audit, retry and acknowledge.         *)
(*                                                                         *)
(* Every await of the task body and of the two handlers is a step of its   *)
(* own, so anything may happen between two of them.  The graph is reduced  *)
(* to its outcome.  A database or broker call may raise (MaxFaults times)  *)
(* and a process may die (MaxCrashes times).                               *)
(***************************************************************************)
EXTENDS Naturals, FiniteSets

CONSTANTS
    Submits,       \* POST /workflows calls
    Audits,        \* POST /audits calls
    Workers,       \* task slots: worker processes times async slots
    MaxRuns,       \* bound: workflow_execution rows of a behaviour
    MaxMessages,   \* bound: entries put on the task stream
    MaxRetries,    \* per workflow: the max_retries label of its task
    Timeout,       \* per workflow: its TIMEOUT_S, in ticks
    IdleTimeout,   \* TASKIQ_IDLE_TIMEOUT_MS, in ticks
    MaxCrashes,    \* bound: processes that die in a behaviour
    MaxFaults      \* bound: database, broker or checkpoint calls that raise

Workflows == {"mining", "audit"}

(* Rows and stream entries are numbered in the order they are created. *)
Runs == 1 .. MaxRuns
NoRun == 0
Messages == 1 .. MaxMessages
NoMsg == 0
Requests == Submits \cup Audits

ASSUME ConstantsAssumption ==
    /\ Submits \cap Audits = {}
    /\ MaxRuns \in Nat
    /\ MaxMessages \in Nat
    /\ MaxRetries \in [Workflows -> Nat \ {0}]
    /\ Timeout \in [Workflows -> Nat]
    /\ IdleTimeout \in Nat
    /\ MaxCrashes \in Nat
    /\ MaxFaults \in Nat

VARIABLES
    row,      \* the workflow_execution table
    stream,   \* the broker's stream and its pending list
    att,      \* the task attempt each worker slot executes
    req,      \* the API calls
    crashes, faults

vars == <<row, stream, att, req, crashes, faults>>

Statuses == {"ABSENT", "QUEUED", "RUNNING", "SUCCEEDED", "FAILED"}
Finished == {"SUCCEEDED", "FAILED"}

(* "of" is the mining execution an audit was enqueued for (a task argument, *)
(* not a column) and "auto" says that mining chained it.  taskiq and ckpt   *)
(* say whether the metadata blob holds the task id and the checkpoint data  *)
(* that final_metadata captured.                                            *)
Rows == [workflow: Workflows, of: Runs \cup {NoRun}, auto: BOOLEAN,
         dossier: BOOLEAN, status: Statuses,
         result: {"none", "output", "error"}, taskiq: BOOLEAN, ckpt: BOOLEAN]

Entries == [state: {"free", "queued", "pending", "acked"},
            run: Runs \cup {NoRun}, retries: Nat, age: Nat]

Steps == {"idle", "mark_running", "graph", "final_metadata", "finish",
          "audit_create", "audit_kiq", "on_error", "ack"}

Attempts == [step: Steps, msg: Messages \cup {NoMsg}, spent: Nat,
             out: {"none", "ok", "error", "timeout"},
             exc: {"none", "error", "timeout"},
             taskiq: BOOLEAN, audit: Runs \cup {NoRun}]

Calls == [step: {"new", "created", "kicked", "done", "dead"},
          run: Runs \cup {NoRun}]

AbsentRow == [workflow |-> "mining", of |-> NoRun, auto |-> FALSE,
              dossier |-> FALSE, status |-> "ABSENT", result |-> "none",
              taskiq |-> FALSE, ckpt |-> FALSE]
FreeEntry == [state |-> "free", run |-> NoRun, retries |-> 0, age |-> 0]
Attempt(step, m) == [step |-> step, msg |-> m, spent |-> 0, out |-> "none",
                     exc |-> "none", taskiq |-> FALSE, audit |-> NoRun]
NoAttempt == Attempt("idle", NoMsg)

Init ==
    /\ row = [r \in Runs |-> AbsentRow]
    /\ stream = [m \in Messages |-> FreeEntry]
    /\ att = [w \in Workers |-> NoAttempt]
    /\ req = [q \in Requests |-> [step |-> "new", run |-> NoRun]]
    /\ crashes = 0
    /\ faults = 0

-----------------------------------------------------------------------------
(* Operations of the row service and of the broker.                         *)

(* Mutant of Create: the coroutine is built but never awaited. *)
CreateNotAwaited(r, workflow, of, auto, dossier) ==
    row[r].status = "ABSENT" /\ UNCHANGED row

(* WorkflowExecutionService.create: a fresh QUEUED row. *)
Create(r, workflow, of, auto, dossier) ==
    /\ row[r].status = "ABSENT"
    /\ \A p \in 1 .. (r - 1) : row[p].status # "ABSENT"
    /\ row' = [row EXCEPT ![r] =
                 [workflow |-> workflow, of |-> of, auto |-> auto,
                  dossier |-> dossier, status |-> "QUEUED",
                  result |-> "none", taskiq |-> FALSE, ckpt |-> FALSE]]

(* kiq: append a message to the stream. *)
Kiq(r, retries) ==
    \E m \in Messages :
        /\ stream[m].state = "free"
        /\ \A p \in 1 .. (m - 1) : stream[p].state # "free"
        /\ stream' = [stream EXCEPT ![m] =
                        [state |-> "queued", run |-> r,
                         retries |-> retries, age |-> 0]]

RunOf(w) == stream[att[w].msg].run
WorkflowOf(w) == row[RunOf(w)].workflow
Goto(w, step) == att' = [att EXCEPT ![w].step = step]

(* Mutant of Finish: the exception's kind is stored as the result. *)
FinishStoresKind(w, status, result) ==
    row' = [row EXCEPT ![RunOf(w)] =
              [@ EXCEPT !.status = status, !.result = att[w].exc]]

(* _finish: status, result and metadata are overwritten unconditionally. *)
Finish(w, status, result) ==
    row' = [row EXCEPT ![RunOf(w)] =
              [@ EXCEPT !.status = status, !.result = result,
                        !.taskiq = att[w].taskiq, !.ckpt = TRUE]]

-----------------------------------------------------------------------------
(* The API process.                                                         *)

(* POST /workflows up to runs.create; a dossier key may be given. *)
SubmitCreate(q) ==
    /\ q \in Submits /\ req[q].step = "new"
    /\ \E r \in Runs, dossier \in BOOLEAN :
        /\ Create(r, "mining", NoRun, FALSE, dossier)
        /\ req' = [req EXCEPT ![q] = [step |-> "created", run |-> r]]
    /\ UNCHANGED <<stream, att, crashes, faults>>

(* POST /audits up to runs.create: a manual audit.  The id of the run to     *)
(* audit is not looked up: it may name any run, an audit too, or none.       *)
PostAuditCreate(q) ==
    /\ q \in Audits /\ req[q].step = "new"
    /\ \E r \in Runs, of \in {x \in Runs : row[x].status # "ABSENT"} \cup {NoRun} :
        /\ Create(r, "audit", of, FALSE, TRUE)
        /\ req' = [req EXCEPT ![q] = [step |-> "created", run |-> r]]
    /\ UNCHANGED <<stream, att, crashes, faults>>

(* Mutant of RequestKiq: a handler that may enqueue its task again. *)
RequestKiqAgain(q) ==
    /\ req[q].step = "created"
    /\ Kiq(req[q].run, 0)
    /\ UNCHANGED <<row, att, req, crashes, faults>>

(* The task is enqueued; POST /audits then answers, POST /workflows still    *)
(* has the metadata to write.                                                *)
RequestKiq(q) ==
    /\ req[q].step = "created"
    /\ Kiq(req[q].run, 0)
    /\ req' = [req EXCEPT ![q].step = IF q \in Submits THEN "kicked"
                                                          ELSE "done"]
    /\ UNCHANGED <<row, att, crashes, faults>>

(* set_metadata: the whole blob is replaced by the task id and a LangGraph   *)
(* part without checkpoint.                                                  *)
SubmitSetMetadata(q) ==
    /\ req[q].step = "kicked"
    /\ row' = [row EXCEPT ![req[q].run] =
                 [@ EXCEPT !.taskiq = TRUE, !.ckpt = FALSE]]
    /\ req' = [req EXCEPT ![q].step = "done"]
    /\ UNCHANGED <<stream, att, crashes, faults>>

(* The handler raises or its process dies between two of its calls. *)
RequestDies(q) ==
    /\ req[q].step \in {"created", "kicked"}
    /\ req' = [req EXCEPT ![q].step = "dead"]
    /\ \/ crashes < MaxCrashes /\ crashes' = crashes + 1 /\ UNCHANGED faults
       \/ faults < MaxFaults /\ faults' = faults + 1 /\ UNCHANGED crashes
    /\ UNCHANGED <<row, stream, att>>

-----------------------------------------------------------------------------
(* Delivery.                                                                *)

Begin(w, m) ==
    /\ stream' = [stream EXCEPT ![m] =
                    [@ EXCEPT !.state = "pending", !.age = 0]]
    /\ att' = [att EXCEPT ![w] = Attempt("mark_running", m)]
    /\ UNCHANGED <<row, req, crashes, faults>>

(* XREADGROUP: a new message goes to an idle slot and becomes pending. *)
Deliver(w, m) ==
    /\ att[w].step = "idle"
    /\ stream[m].state = "queued"
    /\ Begin(w, m)

(* Mutants of Reclaim: without the minimum idle time, and not at all. *)
ReclaimEager(w, m) ==
    /\ att[w].step = "idle"
    /\ stream[m].state = "pending"
    /\ Begin(w, m)

ReclaimNever(w, m) == FALSE

(* XAUTOCLAIM: a message pending for IdleTimeout is delivered again, to any  *)
(* idle slot, whether or not the slot that had it is still running it.       *)
Reclaim(w, m) ==
    /\ att[w].step = "idle"
    /\ stream[m].state = "pending"
    /\ stream[m].age >= IdleTimeout
    /\ Begin(w, m)

(* Time passes only while graphs run: the calls around a graph take a        *)
(* fraction of a tick.  wait_for cancels a graph that used up its budget     *)
(* before more time passes.                                                  *)
Tick ==
    /\ \A w \in Workers :
        \/ att[w].step = "idle"
        \/ att[w].step = "graph" /\ att[w].spent < Timeout[WorkflowOf(w)]
    /\ \E m \in Messages :
        stream[m].state = "pending" /\ stream[m].age < IdleTimeout
    /\ stream' = [m \in Messages |->
                    IF stream[m].state = "pending" /\ stream[m].age < IdleTimeout
                    THEN [stream[m] EXCEPT !.age = @ + 1] ELSE stream[m]]
    /\ att' = [w \in Workers |->
                 IF att[w].step = "graph"
                 THEN [att[w] EXCEPT !.spent = @ + 1] ELSE att[w]]
    /\ UNCHANGED <<row, req, crashes, faults>>

-----------------------------------------------------------------------------
(* The task body.                                                           *)

MarkRunning(w) ==
    /\ att[w].step = "mark_running"
    /\ row' = [row EXCEPT ![RunOf(w)].status = "RUNNING"]
    /\ Goto(w, "graph")
    /\ UNCHANGED <<stream, req, crashes, faults>>

(* The graph returns, raises, or a TimeoutError reaches the task: from the   *)
(* task's own wait_for or from a call inside the graph.                      *)
GraphEnds(w, out) ==
    /\ att[w].step = "graph"
    /\ att' = [att EXCEPT ![w] =
                 [@ EXCEPT !.step = "final_metadata", !.spent = 0, !.out = out,
                           !.exc = IF out = "ok" THEN "none" ELSE out]]
    /\ UNCHANGED <<row, stream, req, crashes, faults>>

(* final_metadata: the row's metadata is read here, its LangGraph part is    *)
(* refreshed, and the next step writes the result back.                      *)
FinalMetadata(w) ==
    /\ att[w].step = "final_metadata"
    /\ att' = [att EXCEPT ![w] =
                 [@ EXCEPT !.step = "finish",
                           !.taskiq = row[RunOf(w)].taskiq]]
    /\ UNCHANGED <<row, stream, req, crashes, faults>>

(* Mutant of MarkSucceeded: the audit is not chained. *)
MarkSucceededUnchained(w) ==
    /\ att[w].step = "finish"
    /\ att[w].exc = "none"
    /\ Finish(w, "SUCCEEDED", "output")
    /\ Goto(w, "ack")
    /\ UNCHANGED <<stream, req, crashes, faults>>

(* mark_succeeded; a mining run with a dossier goes on to chain its audit. *)
MarkSucceeded(w) ==
    /\ att[w].step = "finish"
    /\ att[w].exc = "none"
    /\ Finish(w, "SUCCEEDED", "output")
    /\ Goto(w, IF WorkflowOf(w) = "mining" /\ row[RunOf(w)].dossier
               THEN "audit_create" ELSE "ack")
    /\ UNCHANGED <<stream, req, crashes, faults>>

(* Mutant of MarkFailed: the exception is re-raised without marking the row. *)
MarkFailedForgets(w) ==
    /\ att[w].step = "finish"
    /\ att[w].exc # "none"
    /\ Goto(w, "on_error")
    /\ UNCHANGED <<row, stream, req, crashes, faults>>

(* mark_failed, in either except clause, before the exception is re-raised. *)
MarkFailed(w) ==
    /\ att[w].step = "finish"
    /\ att[w].exc # "none"
    /\ Finish(w, "FAILED", "error")
    /\ Goto(w, "on_error")
    /\ UNCHANGED <<stream, req, crashes, faults>>

(* enqueue_audit: first the audit's row, then its message. *)
EnqueueAuditCreate(w) ==
    /\ att[w].step = "audit_create"
    /\ \E r \in Runs :
        /\ Create(r, "audit", RunOf(w), TRUE, TRUE)
        /\ att' = [att EXCEPT ![w] =
                     [@ EXCEPT !.step = "audit_kiq", !.audit = r]]
    /\ UNCHANGED <<stream, req, crashes, faults>>

EnqueueAuditKiq(w) ==
    /\ att[w].step = "audit_kiq"
    /\ Kiq(att[w].audit, 0)
    /\ Goto(w, "ack")
    /\ UNCHANGED <<row, req, crashes, faults>>

(* Mutant of OnError: one attempt more than the label says. *)
OnErrorOneMore(w) ==
    LET retries == stream[att[w].msg].retries + 1
        retry == att[w].exc # "timeout" /\ retries <= MaxRetries[WorkflowOf(w)]
    IN  /\ att[w].step = "on_error"
        /\ IF retry THEN Kiq(RunOf(w), retries) ELSE UNCHANGED stream
        /\ Goto(w, "ack")
        /\ UNCHANGED <<row, req, crashes, faults>>

(* RetryUnlessTimeoutMiddleware.on_error: every exception but TaskTimeout    *)
(* re-enqueues the task while attempts are left.                             *)
OnError(w) ==
    LET retries == stream[att[w].msg].retries + 1
        retry == att[w].exc # "timeout" /\ retries < MaxRetries[WorkflowOf(w)]
    IN  /\ att[w].step = "on_error"
        /\ IF retry THEN Kiq(RunOf(w), retries) ELSE UNCHANGED stream
        /\ Goto(w, "ack")
        /\ UNCHANGED <<row, req, crashes, faults>>

(* XACK, after the task and the middlewares ran; the slot is free again. *)
Ack(w) ==
    /\ att[w].step = "ack"
    /\ stream' = [stream EXCEPT ![att[w].msg] =
                    [@ EXCEPT !.state = "acked", !.age = 0]]
    /\ att' = [att EXCEPT ![w] = NoAttempt]
    /\ UNCHANGED <<row, req, crashes, faults>>

(* A call of the task body raises.  mark_running is outside the try; a call  *)
(* after it lands in "except Exception", which starts over with the          *)
(* bookkeeping of a failure; a call inside an except clause replaces the     *)
(* exception in flight, a timeout included, and leaves the row as it is.     *)
CallRaises(w) ==
    /\ faults < MaxFaults
    /\ faults' = faults + 1
    /\ att[w].step \in {"mark_running", "final_metadata", "finish",
                        "audit_create", "audit_kiq"}
    /\ LET lands == IF att[w].step = "mark_running" \/ att[w].exc # "none"
                    THEN "on_error" ELSE "final_metadata"
       IN  att' = [att EXCEPT ![w] =
                     [@ EXCEPT !.exc = "error", !.step = lands]]
    /\ UNCHANGED <<row, stream, req, crashes>>

(* A middleware's call on the way out raises, the monitor's or the retry     *)
(* middleware's own kiq: nothing catches it, so the attempt ends without an  *)
(* acknowledgement, and the message stays pending.                           *)
OnErrorRaises(w) ==
    /\ faults < MaxFaults
    /\ faults' = faults + 1
    /\ att[w].step = "on_error"
    /\ att' = [att EXCEPT ![w] = NoAttempt]
    /\ UNCHANGED <<row, stream, req, crashes>>

(* The worker dies: the attempt is gone, its message stays pending.  An XACK *)
(* that fails looks the same to the broker.                                  *)
WorkerDies(w) ==
    /\ crashes < MaxCrashes
    /\ crashes' = crashes + 1
    /\ att[w].step # "idle"
    /\ att' = [att EXCEPT ![w] = NoAttempt]
    /\ UNCHANGED <<row, stream, req, faults>>

-----------------------------------------------------------------------------
RequestStep(q) == \/ SubmitCreate(q) \/ PostAuditCreate(q)
                  \/ RequestKiq(q) \/ SubmitSetMetadata(q)

TaskStep(w) == \/ MarkRunning(w)
               \/ \E out \in {"ok", "error", "timeout"} : GraphEnds(w, out)
               \/ FinalMetadata(w) \/ MarkSucceeded(w) \/ MarkFailed(w)
               \/ EnqueueAuditCreate(w) \/ EnqueueAuditKiq(w)
               \/ OnError(w) \/ Ack(w)

Listen(w) == \E m \in Messages : Deliver(w, m) \/ Reclaim(w, m)

Next == \/ \E q \in Requests : RequestStep(q) \/ RequestDies(q)
        \/ \E w \in Workers : \/ Listen(w) \/ TaskStep(w)
                              \/ CallRaises(w) \/ OnErrorRaises(w) \/ WorkerDies(w)
        \/ Tick

Spec == Init /\ [][Next]_vars

(* A worker that lives keeps executing and keeps listening, time passes, and *)
(* a handler that lives completes its calls.                                 *)
Fairness ==
    /\ \A w \in Workers : WF_vars(TaskStep(w)) /\ WF_vars(Listen(w))
    /\ \A q \in Requests : WF_vars(RequestKiq(q) \/ SubmitSetMetadata(q))
    /\ WF_vars(Tick)

FairSpec == Spec /\ Fairness
-----------------------------------------------------------------------------
(* Properties.                                                              *)

TypeOK ==
    /\ row \in [Runs -> Rows]
    /\ stream \in [Messages -> Entries]
    /\ att \in [Workers -> Attempts]
    /\ req \in [Requests -> Calls]
    /\ crashes \in Nat
    /\ faults \in Nat

Live(w) == att[w].step # "idle"
Unacked(m) == stream[m].state \in {"queued", "pending"}
Owed(r) == \E m \in Messages : Unacked(m) /\ stream[m].run = r

(* router.py:160 "record the run before enqueuing so the worker can never    *)
(* reference a row that doesn't exist yet": every message the stream ever    *)
(* held names a recorded run, so mark_running and _finish always hit a row.  *)
RowBeforeMessage ==
    \A m \in Messages :
        stream[m].state # "free" =>
            /\ stream[m].run \in Runs
            /\ row[stream[m].run].status # "ABSENT"

(* config.py:20 idle_timeout_ms "MUST exceed the longest task runtime, or a  *)
(* task still running gets reclaimed and double-run": no message is executed *)
(* by two slots at once.                                                     *)
NoDoubleRun ==
    \A v, w \in Workers :
        v # w /\ Live(v) /\ Live(w) => att[v].msg # att[w].msg

(* The broker is at-least-once (broker.py:4): a run that is RUNNING still    *)
(* has an unacknowledged message, so a dead worker's run is always retaken.  *)
RunningIsOwed ==
    faults = 0 =>
        \A r \in Runs : row[r].status = "RUNNING" => Owed(r)

(* A mining run with a dossier that ended SUCCEEDED and is not owed any more *)
(* has chained an audit, and that audit was handed to the broker             *)
(* (task.py:117 "Auto-chain an audit of this exact mining run").             *)
SuccessIsChained ==
    \A r \in Runs :
        /\ row[r].workflow = "mining" /\ row[r].dossier
        /\ row[r].status = "SUCCEEDED" /\ ~Owed(r) /\ faults = 0
        => \E m \in Messages :
              /\ stream[m].state # "free"
              /\ row[stream[m].run].auto /\ row[stream[m].run].of = r

(* task.py:46 "failures retry (MAX_RETRIES)": without a crash the broker is  *)
(* never given a task more often than its max_retries label says.            *)
AttemptsBounded ==
    crashes = 0 =>
        \A r \in Runs :
            Cardinality({m \in Messages : stream[m].run = r})
                <= MaxRetries[row[r].workflow]

(* task.py:46 "except a timeout, which fails terminally": an attempt whose   *)
(* graph timed out puts nothing on the stream.                               *)
TimeoutIsTerminal ==
    [][\A w \in Workers :
          att[w].out = "timeout" /\ att'[w] # att[w] =>
              \A m \in Messages : stream[m].state = "free" =>
                                     stream'[m].state = "free"]_vars

(* Without a crash or a failed call a run that SUCCEEDED stays so: no retry  *)
(* and no second delivery of its task reopens it.                            *)
SuccessIsFinal ==
    [][\A r \in Runs :
          row[r].status = "SUCCEEDED" /\ crashes' = 0 /\ faults' = 0 =>
              row'[r].status = "SUCCEEDED"]_vars

(* runtime.py:100 final_metadata returns the "current row metadata (keeps    *)
(* the taskiq id)": a step of a worker never drops the task id of a row.     *)
KeepsTaskiqId ==
    [][\A r \in Runs : row[r].taskiq => row'[r].taskiq]_vars

(* Crash recovery: a run that was handed to the broker ends SUCCEEDED or     *)
(* FAILED with nothing owed, although workers die on the way.                *)
EnqueuedRunSettles ==
    \A r \in Runs :
        Owed(r) ~> row[r].status \in Finished /\ ~Owed(r)

(* What the row and the stream promise together, whatever the number of      *)
(* workers: see RunContract.                                                 *)
Contract == INSTANCE RunContract
              WITH status <- [r \in Runs |-> row[r].status],
                   owed <- [r \in Runs |-> Owed(r)]

(* service.py:4 "the API inserts a QUEUED row at trigger time; the worker    *)
(* tasks advance it to RUNNING and finally SUCCEEDED / FAILED": every step,  *)
(* crashes and redeliveries included, is a step of the contract.             *)
ImplementsContract == Contract!Spec
=============================================================================
