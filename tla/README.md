# A verification project for doci

doci mines payment dossiers: a client uploads a document, a worker splits it,
transcribes and annotates its pages with LLMs, and a second run audits what was
mined. Postgres holds the records, an S3 store the bytes, a Redis stream (Valkey)
the task queue, and Valkey again the LangGraph checkpoints, the caches, the rate
limits and the task monitor. API processes and worker processes share nothing
else, so what makes the program correct is the order of single statements and
calls against these stores. That is what the modules here are about.

## 1. Inventory

Paths are under `src/doci/`.

| Component | State it keeps | Operations | Hard parts | What makes it correct |
|---|---|---|---|---|
| Workflow runs (`workflows/service.py`, `router.py`, `runtime.py`, the four task modules, `langgraph_audit/trigger.py`) | one `workflow_execution` row per run: status, result, metadata blob | `create`, `set_metadata`, `mark_running`, `mark_succeeded`, `mark_failed`; `POST /workflows`, `POST /audits`; the task bodies | unconditional updates; a failing call inside an except clause; chaining inside the try; metadata written by two processes | a run is recorded before it is enqueued, settles, is not lost with a worker, is chained to its audit, keeps its metadata |
| Broker and retries (`taskiq/broker.py`, `config.py`, `retry.py`) | the stream and its pending list | enqueue, deliver, reclaim, acknowledge, retry | at-least-once delivery, idle timeout against task budgets | one slot per message, bounded attempts, timeouts final |
| Documents (`documents/service.py`, `router.py`) | `document` and `document_part` rows | `request_upload`, `finalize`, `ensure_part`, `ensure_source_part`, `set_part_thumb`, `set_page_count`, views, `delete`, `soft_delete_invalid` | check-then-act around a long validation; deletion against runs in flight | a verdict stands; what is listed is complete; what is deleted goes |
| Media (`media/service.py`) | `media` rows, one per object key, with a purge deadline | presign, upload, `insert_blob`, `validate_object`, `ensure_thumb`, `purge_expired` | object store and database without a common transaction | a listed derived blob has its object; an object has a row |
| Object store (`objstore/client.py`) | the stored keys | upload, download, stream, delete, presign | calls fail | external, see the models above it |
| Mining graphs (`workflows/langgraph_document_mining*`) | LangGraph state and checkpoints | finalize and route, split, process pages, thumbnails | concurrent pages, retries over half-done work | idempotent per page |
| Scheduled sweeps (`scheduler/tasks.py`) | none | the two cron tasks | overlap with users and runs | never take a good document, never orphan an object |
| Audit (`audit/service.py`, `workflows/langgraph_audit`) | findings, one verdict per run | `record_finding`, `delete_finding`, `clear`, `set_verdict`, `GET /audits/{id}` | `clear` is two statements; two deliveries share the rows; a report is three reads | findings and verdict are one delivery's; audits do not touch each other |
| Task monitor (`taskiq/monitor.py`) | a hash per task and an index | the middleware hooks, list, retry | `post_send` runs after the message is on the stream; pipelines that are no transactions; copies of a running task; concurrent retries | the record ends as the last execution did, shows no stale error, lasts and is listed |
| LLM rate limiter (`llm/ratelimit.py`, `agents/ratelimit.py`) | one token bucket per task kind | `acquire`, `adjust` (Lua, atomic) | clamping, failing calls, a clock set back, expiry | never more than a full bucket, the refill, the debt it remembers and what an expiry forgives |
| Checkpoint saver (`workflows/checkpoint.py`) | checkpoint hashes, index sets, pending writes | `aput`, `aput_writes`, `aget_tuple`, `alist`, `adelete_thread` | non-transactional pipelines, TTLs, two attempts at one graph | the newest checkpoint is found; first write wins; abandoned keys expire |
| Results (`results/service.py`) | one row per (run, part, name) | `save`, `page_index` | late saves of abandoned attempts | all results of a run are of one attempt |
| Cache (`cache/`) | two tiers and a breaker | `get`, `set`, `delete` | a store that is skipped for a while; a value that itself expires | no dead URL is handed out |
| User data (`userdata/`) | dossiers, document types, rules, knowledge, links | CRUD with soft delete, `set_dossiers` | READ COMMITTED; keys given again; lists paged by OFFSET | links are what one caller asked for; a lookup is of one row; a walk misses nothing |
| Audit tools (`tools/`) | none | parsing and comparing money, dates, VAT | rounding, formats | an amount is read in one of its conventions; rounding is tolerated |
| Agents, activities, prompts, LLM clients | none of their own | LLM calls | outcome unknown | external |
| Clients and process lifetime (`bootstrap.py`, `postgres/client.py`, `health/`, `api/app.py`) | the bounded connection pool, what is built and open | open, serve, close; `GET /readyz` | the probe queues on the pool it reports about, which hands out broken connections | the answer names a state there was; false alarms end |
| Telemetry, config | none | tracing, settings | - | - |

Who calls whom: the API inserts rows and enqueues tasks; a worker slot takes a
message, advances the row, runs a graph whose nodes call documents, media and
results, enqueues the audit, and acknowledges; the scheduler enqueues the sweeps,
which work on documents and media; users delete documents at any time.

The hazards found while reading, each at its line, are listed under `hazards` in
`PROJECT.json`, with the properties that cover them.

## 2. Modules

| Module | Models | Checked in | Proved in |
|---|---|---|---|
| `WorkflowRuns`, `RunContract` | runs, broker, task bodies; what a run promises | `MCWorkflowRuns` (5 runs) | `WorkflowRunsProofs` |
| `DocumentStore` | documents, parts, blobs, objects, sweeps | `MCDocumentStore` (3 runs) | `DocumentStoreProofs` |
| `Mining` | routing, page fan-out, results, thumbnails, retries | `MCPipelines`, `MCMining` | `MiningProofs` |
| `AuditRun` | audit findings and verdicts, deliveries, the report | `MCPipelines` | `PipelinesProofs` |
| `AuditTools` | the deterministic audit tools | `MCPipelines` | `PipelinesProofs` |
| `Reads` | paged lists, document views | `MCPipelines` | `PipelinesProofs` |
| `TokenBucket` | the LLM rate limiter | `MCStores` | `StoresProofs` |
| `ViewCache` | the cache, as view URLs use it | `MCStores` | `StoresProofs` |
| `CheckpointSaver` | LangGraph checkpoints in Valkey | `MCStores` | `CheckpointSaverProofs` |
| `TaskMonitor` | the task monitor | `MCStores` | `StoresProofs` |
| `Userdata` | rules, dossiers, knowledge, links | `MCStores`, `Userdata` itself | `UserdataProofs` |
| `ClientPool` | clients of a process, pool, readiness | `MCStores` | `StoresProofs` |

Components that meet share a module: rows, stream and task bodies in
`WorkflowRuns`; documents, blobs, objects, runs and sweeps in `DocumentStore`;
graph, results and broker retries in `Mining`; graph, tables and readers in
`AuditRun`. The others have no row and no key in common. `MCStores` and
`MCPipelines` therefore put them beside each other in one run, and a variable
`focus` says which of them moves: the product of their states would hold nothing
that the components do not. Where a component in turn falls into parts that do
not meet, there is a focus for each part, with the reason in the module:
checkpoints and pending writes of the saver have different keys; links and lookups
of `Userdata` meet only in the definitions, which move with both.

`StoresProofs` also proves that of `MCStores`: by `StoresStandApart` a behaviour of
`StoresSpec` is a behaviour of each component, so that `StoresTypeCorrect`, and every
theorem about one store, holds of all of them together; `PipelinesStandApart` and
`PipelinesTypeCorrect` in `PipelinesProofs` say the same of `MCPipelines`. `NatSets` has the facts about
sets of numbers that several proofs cite: induction, least and greatest members.

## 3. WorkflowRuns

| In the model | In the code |
|---|---|
| `row[r]` | a `workflow_execution` row; `taskiq` and `ckpt` say what its metadata blob holds, `of`, `auto` and `dossier` are the task's arguments |
| `stream[m]` | a stream entry: `queued` (not delivered), `pending` (delivered, not acknowledged, idle for `age` ticks), `acked`; `retries` is the label the retry middleware counts in |
| `att[w]` | the attempt in one worker slot: `step` is the next await of the task body, `exc` the exception in flight, `taskiq` the metadata that `final_metadata` read |
| `req[q]` | a `POST /workflows` or `POST /audits` handler |
| `SubmitCreate`, `RequestKiq`, `SubmitSetMetadata` | `workflows/router.py` `submit`: create, kiq, set_metadata |
| `PostAuditCreate`, `RequestKiq` | `langgraph_audit/router.py` `submit`, through `enqueue_audit`; the mining run it names need not exist |
| `Deliver`, `Reclaim`, `Ack` | XREADGROUP, XAUTOCLAIM after `idle_timeout_ms`, XACK after the middlewares |
| `MarkRunning` ... `EnqueueAuditKiq` | the awaits of `run_document_mining` and `run_audit` in order |
| `OnError` | `RetryUnlessTimeoutMiddleware.on_error` and the engine it extends |
| `CallRaises`, `OnErrorRaises` | any database, broker or checkpoint call that raises, with the except clause it lands in; a middleware's call on the way out, after which the message stays pending |
| `WorkerDies`, `RequestDies` | a process that dies, or a handler whose call raises |

The task bodies of the stand-alone PDF and image jobs are those of mining without
a dossier. A graph is its outcome: `ok`, `error`, or a `TimeoutError`, which may
come from the task's own `wait_for` or from inside the graph. Time is counted in
ticks and passes only while graphs run: a statement takes milliseconds, a budget
minutes. A mining run that finds its document unsupported is `ok`.

Properties:

- `RowBeforeMessage`: no message names a run that is not recorded.
- `NoDoubleRun`: no message is executed by two slots at once.
- `RunningIsOwed`: a RUNNING row has an unacknowledged message, so a dead worker's
  run is taken up again.
- `SuccessIsChained`: a SUCCEEDED mining run with a dossier that is no longer owed
  has an audit that reached the broker.
- `AttemptsBounded`: without a crash no run is given to the broker more often than
  its `max_retries` label says.
- `SuccessIsFinal`: without crash or fault nothing reopens a SUCCEEDED run.
- `ImplementsContract`: statuses and owed work move only as `RunContract` allows.
- `EnqueuedRunSettles`: whatever was handed to the broker ends SUCCEEDED or FAILED.
- `TimeoutIsTerminal`, `KeepsTaskiqId`: see the findings.

`RunContract` knows only a status per run and whether somebody owes work on it: a
run is recorded, handed out, started, settled, discharged, and it can be discharged
only once it has settled. The refinement maps `owed` to "some message of the run is
not acknowledged".

### Runs

| Run | Bounds | Shows |
|---|---|---|
| `runs` | 1 submission, 1 manual audit, 2 slots, 3 rows, 3 messages, 1 crash, 1 failing call; budgets 0 and 1 tick, idle timeout 2 | all safety properties with a crash and a fault anywhere |
| `runs_recovery` | 1 submission, 2 slots, 5 messages, 1 crash; budgets 1 and 2, idle timeout 3 | refinement and liveness |
| `runs_default_idle` | as above, idle timeout 2, no crash | the default of 30 minutes is too short for the audit |
| `runs_metadata` | no crash, no fault | the task id is lost |
| `runs_timeout` | one failing call | a timeout is retried |

Two slots are the least that can run one message twice; two attempts (instead of
three) are the least that retry; three rows hold a mining run, its audit and a
manual or second audit. A bound on rows or messages only disables the action that
needs another one. Slots are interchangeable (symmetry). In `runs` a tick is coarse, so mining's budget is 0 ticks: its
graph may run, but time passes only during audits; `runs_recovery` has finer ticks.

Fairness (`runs_recovery` only): each live slot keeps executing its task and keeps
listening - the worker's loop; a handler that is not killed finishes its calls; time
passes. Nothing is assumed about submissions, crashes or graph outcomes: that a
graph ends within its budget is what `wait_for` enforces, hence weak fairness of the
slot's next step.

### Findings

1. `runs_default_idle`: the idle timeout's default (30 min) is below the audit's
   budget (35 min), against the comment in `taskiq/config.py`.
2. `runs_metadata`: `final_metadata` and `POST /workflows` overwrite each other's
   metadata.
3. `runs_timeout`: a call that fails while a timeout is handled makes it retryable.

### What is proved

`WorkflowRunsProofs` proves, for every number of slots, requests, rows, messages,
attempts, crashes and faults:

- `TypeCorrect`: `Spec => []TypeOK`.
- `MessagesHaveRows`: `Spec => []RowBeforeMessage`. `RowBeforeMessage` is not
  inductive alone: a request or an attempt about to enqueue must already hold a
  recorded run. `Wired` adds that, and that every live attempt holds a message that
  was delivered.
- `NoRunIsDoubled`: if every `Timeout` is below `IdleTimeout`, `Spec => []NoDoubleRun`.
  `Exclusive` adds `InBudget`: while an attempt is live its message has been idle
  for no longer than the graph has been running, so for at most its budget. This is
  what keeps `Reclaim` away, and fails as soon as `<` is weakened to `<=`.
- `NoRunIsStranded`: under that assumption and with calls that do not fail,
  `Spec => []RunningIsOwed`. `Sound` joins the above with `OpenWhileUnfinished` (a
  live attempt's message is not acknowledged) and `Faultless`.
- `RunsImplementContract`: under the same assumptions every step is a step of
  `RunContract` or a stutter.

The assumption on the budgets is the comment in `taskiq/config.py`; the defaults
break it, which is finding 1. The last two need calls that do not fail because a
bookkeeping call that raises does leave a RUNNING row that nobody owes.

The other three need the assumption on the budgets only; what they say of calls and
processes that fail is in the properties themselves.

- `AttemptsAreBounded`: `Spec => []AttemptsBounded`. `Numbered` says that the messages
  of a run carry different retry counts below its label, that its one active message
  (the one whose attempt has more to do than acknowledge it) carries the highest, and
  that a row is handed out first by the one call or attempt that created it. The bound
  is then an injection into `0 .. max_retries - 1`.
- `SuccessStands`: `Spec => SuccessIsFinal`. `Rested` adds that the active message of a
  run that succeeded is held by the attempt chaining its audit, so no other attempt is
  left to mark it again.
- `AuditsAreChained`: `Spec => []SuccessIsChained`. `Pursued` says that a success is
  audited or pledged: a message of it is owed whose attempt, if any, has the chaining
  still to do. That survives the death of any worker.

`KeepsTaskiqId` and `TimeoutIsTerminal` are refuted by the code, findings 2 and 3.
`EnqueuedRunSettles` is model-checked only, since liveness under fairness is out of
the prover's reach.

## 4. DocumentStore

| In the model | In the code |
|---|---|
| `doc[d]` | a `document` row (status, deleted, and the MIME type of its original), and the history the properties speak of: uploads, whether a run died on it or it was deleted under a call, whether the sweep took it |
| `part[d][p]` | the `document_part` row with locator p: its blob and its thumbnail |
| `media[k]` | the `media` row with object key k: none, live, deleted (inside the purge window), due |
| `store`, `content` | the object keys stored, and what the client's upload holds |
| `call[c]` | a finalize request or a mining run between two awaits |
| `sweep`, `purge` | what the two scheduled sweeps hold between their statements |
| `FinalizeFetch`, `Validate`, `StreamFails`, `SetInvalid`, `SetReady` | `DocumentService.finalize`, through the endpoint or the `FinalizeDocument` activity |
| `ReturnRecord` | the record a run goes on with: fetched again after finalize's transaction (deleted or not), or by `get` when the document is finalized already; `route_by_type` reads its MIME type |
| `StartDirect` | the PDF and image tasks on a READY document |
| `Download`, `PageLookup`, `UploadPage`, `CommitPart` | `split_node` and `ensure_part`; `ensure_source_part` |
| `ThumbLookup`, `ThumbUpload`, `ThumbInsert`, `RecordThumb` | `ensure_thumb`, `set_part_thumb` |
| `Delete`, `SweepSelect`, `SweepDelete` | `delete`, `soft_delete_invalid` |
| `Elapse`, `PurgeSelect`, `PurgeObject`, `PurgeRows` | the purge window, `purge_expired` |

A transaction is one step; so is a single statement. Between two awaits anything
may happen. A client may PUT to its presigned URL again and again, with a PDF, an
image, an accepted type that is not mined, or something refused. `PurgeRows` is the
DELETE with its cascades (`migrations/20260610000000`, `...01`). A run mines its
pages one after another; that they are concurrent in the code does not matter here,
since each page has keys of its own, and two runs cover the shared ones.

`Elapse` lets the purge window, seven days, pass for a document only when no call on
it is in flight: a run is cut off after 15 minutes and a presigned URL lasts 15
(`media/config.py`). Without that, a part committed a week late would be reported as
a leak.

Properties:

- `LiveBlobHasObject`: a derived blob that is listed can be downloaded (uploads come
  before rows, object deletions after the row is marked).
- `ObjectHasRow`: while no run dies, every object has a row or is about to get one.
- `VisibleIsComplete`: everything a listed document refers to is live.
- `VerdictStands`, `SweepSparesGood`: concurrent finalizers of one upload agree, and
  the sweep never takes a good document. Both are stated for a client that uploads
  once: a client that overwrites its upload during validation can flip the verdict.
- `CleanPurgeLeavesNothing`: after the purge, no listed blob and no unrecorded object
  of the document is left, unless a run died on it or it was deleted under a call.
- `DeletedIsReclaimed`: the purge gets there although deletions fail.
- `PurgedLeavesNothing`: the same without the exceptions; refuted, finding 4.

| Run | Bounds | Shows |
|---|---|---|
| `documents` | 1 document of 2 pages, 1 finalizer, 2 runs, 2 uploads, 1 crash, 1 store failure | the safety properties; runs are interchangeable (symmetry) |
| `documents_reclaim` | 2 documents of 1 page, 1 finalizer, 1 run, 1 upload, 2 store failures | liveness of the purge |
| `documents_race` | 1 document of 1 page, 1 run | finding 4 |

Two runs and a finalizer are three concurrent validators; two pages are the least
with a page that is not the first. Fairness: the scheduler keeps kicking the purge
(cron) and time passes.

### Finding

4. `documents_race`: `delete` routes the blobs it can see; a run in flight inserts
   another one afterwards, which is never purged.

### What is proved

`DocumentStoreProofs` proves, for every number of documents, pages, calls, uploads,
crashes and store failures, and assuming only that a document has a page, that
finalizers are not runs and that NULL is not a key:

- `TypeCorrect`: `Spec => []TypeOK`.
- `NoBlobWithoutObject`: `Spec => []LiveBlobHasObject`.
- `VisibleStaysComplete`: `Spec => []VisibleIsComplete`.
- `VerdictsStand`: `Spec => VerdictStands`, and `SweepTakesOnlyBad`:
  `Spec => []SweepSparesGood`.
- `ObjectsAreRecorded`: `Spec => []ObjectHasRow`, and `CleanPurgesAreComplete`:
  `Spec => []CleanPurgeLeavesNothing`.

None of them is inductive, `TypeOK` included: a call between two awaits holds a page
number, a key or a MIME type and acts on it later. `Consistent` adds what it may rely
on. `AtPage` says that a run past the split has a part for every page it will mine;
`InHand` that one about to insert a row has stored its object, and one about to record
a thumbnail has its row; `PartsRefer`, `PartsHaveBlobs` and `OriginalsExist` that
references lead to rows of the same document. `OnlyDeletedGo` and `Quiet` are why the
purge cannot take any of that away: what is due belongs to a deleted document on which
no call is in flight, and no call begins on a deleted one. `Quiet` rests on `Elapse`,
which is where the assumption that a week outlasts every call enters the proof.

Steps fall into three classes with a lemma each: those that only read and move a call
(`Reads`), those that only add rows, objects and references (`Grows`), and the
deletions and the purge, which have lemmas of their own.

Two more invariants carry the last four theorems. `Judged`: of a document uploaded
once, the status, the sweep's choice and every call about to write a verdict agree with
what was uploaded. `Traced`: an object has a row or an uploader about to insert it, a
listed blob of a document that met no crash and no race is one its rows refer to or is
about to be linked, and a deletion under a call is remembered.

Only `DeletedIsReclaimed`, being liveness, is left to model checking.

## 5. The stores: MCStores

Run `stores`. Every component has at least two actors, and the invariants hold
with all of the mishaps listed.

### TokenBucket

`bucket` is the Valkey hash with its expiry, `caller[c]` a model call in the
middleware: `StartCall`, `Grant` or `Wait` (the acquire script, one Lua call),
`Wake`, `Answer`, `Adjust`, `EndCall` (the call raised, or its worker died, and the
reservation stays). `Tick`, `StepBack` and `Expire` are the server's clock, an
operator who sets it back, and the key's TTL. Time and tokens are whole units, and
the capacity a multiple of the rate, as `tpm` is of `tpm / window_s`.

- `BudgetKept`: what was charged never exceeds one full bucket, what refilled in
  real time, the debt that the bucket still remembers, and `Forgiven` for each life of
  an idle key that has passed: a key that expires takes its debt with it, and a new
  bucket starts full. `Forgiven` is what the deepest debt exceeds the refill of an idle
  key's life (two windows, or 60 s) by; it is 0 where budgets are ample for the
  overshoot, and nothing in the code says that they are. What is charged is net of what
  is given back, which may be more than was taken: `acquire` clamps a request, the
  reconciliation does not.
- `DebtBounded`: the debt is at most the overshoot of the calls in flight.
- `WaitIsEnough`: a caller that slept as long as it was told, and met nobody, finds
  enough tokens.

Bounds: 2 callers, a capacity of 2, estimates up to 3 (above the capacity, where
`acquire` clamps) and 2 tokens of overshoot, so that `Forgiven` is not 0, 3 units of
time, 1 step back.

Proved (`BudgetIsKept`, `DebtIsBounded`, `WaitingSuffices`) for all values from
`BucketAssumption`, which only says what is a number. The invariant `Balanced` is a
potential argument: what the bucket would hold if it were touched now, plus what was
spent, grows by at most the rate per unit of time, and at an expiry by `Forgiven`.
`Lapses` counts the lives of an idle key that fit into the time
before its present one.

### ViewCache

`kv` and `mem[p]` are the entries of one object key in Valkey and in a process's
memory (age of the signed URL, rest of the TTL), `down[p]` what is left of the
breaker's cooldown, `view[p]` a `view_url` or a delete between two awaits. `KvLost`,
`KvBack`, `Evict` and `Pass` are outages, eviction and time.

- `HandedOutAlive`: no client gets a URL that has expired, whichever tier it comes
  from and however late it was stored there.

Proved (`UrlsAreAlive`) from `ViewCacheAssumption`, of which the essential part is
that `view_cache_ttl` and the time from signing to storing stay within
`view_expiry`: the 10% margin in `media/config.py`. The invariant `Margin` says
that age and remaining TTL of an entry add up to no more than the URL's life.

### CheckpointSaver

`cp`, `index` and `writes` are the keys of one thread with their TTLs; `pipe[c]`
what a client has sent and the server has not yet run: a pipeline is no
transaction. `at[a]` is the checkpoint at which an attempt's graph is; two
attempts run the same graph tasks after a redelivery. `LoadLatest`, `LoadTuple`
(`aget_tuple` on resume), `Aput`, `ReadFields` and `SendWrites` (`aput_writes`)
and `Quit` are the saver's side; `Run`, `Break` and `Decay` the server's: a
command, a lost connection, TTLs.

- `LatestNotLost`: whoever asks gets a checkpoint no older than the last stored one
  that has not expired.
- `FirstWriteWins`: a task's write is kept as first stored. `aput_writes` reads
  before it writes, so two attempts that write one task at once can both find the
  field missing; such tasks (`mixed`) are left out, since the code does overwrite
  there.
- `SelfExpires`: unless a connection was lost, a key without TTL has one on its way.

Bounds: 2 attempts, 1 task, 3 checkpoints, TTL 2, 2 lost connections; the writes
are explored on one checkpoint, the checkpoints without writes.

Proved: `FirstWritesStand` and `AbandonedExpire`, for any number of attempts, tasks
and checkpoints. `Orderly` joins `Formed` (which rests of which pipelines there can
be), `Turns` (a client sends when its last pipeline is done), `Expiring` (a key
without TTL is tied to the client about to give it one) and `Honest` (of a task
that is not mixed, one attempt writes at a time, and knows every field it must not
send again).

`LatestStands` proves `LatestNotLost`, from `Ordered`. `Underway` follows a checkpoint
through the commands of `aput`: its hash is there before the index names it, and
nobody is told that it is stored before the last command has run. `Indexed` says
that along the index the hashes expire in the order of their ids, and that the index
outlives every hash stored. So among the ids of the index there is a newest
(`NatMax`), and its hash is there if any is.

### TaskMonitor

`record`, `lasting` and `listed` are the hash of one task id, whether it has a TTL, and
its place in the index. A slot of `send` is a message sent under the id, or one more
delivery of it: `step` takes it from the stream through the middleware's hooks to the
acknowledgement, `tell` is the sender's pipeline and `mark` the worker's. A pipeline is
no transaction, so its commands are steps (`TellClear`, `TellSet`, `TellExpire`,
`TellList`; `PreExecute`, `PostExecute` or `OnErrorMonitor`, then `MarkExpire` and
`MarkList`; the three commands on the index are one, with `Cut` for a stop between
them). The connection may go before any of them (`TellCut`, `Abandon`), which ends the
delivery as well. `Reclaim` is XAUTOCLAIM after a delivery that came to nothing,
`ReclaimRunning` the one the broker makes while the task still runs. `asked[r]` is a
`POST /tasks/{id}/retry` between its read and its kick, `reader` a `GET /tasks` between
its two reads.

- `BoardIsRight`: once nothing is on its way, the record ends as the execution recorded
  last did; a queued or successful record shows no error of an earlier attempt; and a
  record has a TTL and is listed.

Five mishaps break one of these in the code. The model performs each, remembers it in
`mishaps`, and each part of `BoardIsRight` leaves out only those that break it:

| Mishap | What happens | Then |
|---|---|---|
| `early` | a worker marks a message before `post_send` did | the record may end as `queued` |
| `lost` | a delivery stopped half way, and its message was acknowledged by another delivery | it is recorded as running, and nobody takes it up |
| `uncleared` | `post_send` failed before its HDEL | a stale error |
| `again` | a delivery stopped after its failure was recorded | its redelivery succeeds beside the old error |
| `twice` | a copy of a running task, or a retry of a task that is on its way | two executions record in either order: a stale error |

The third part leaves out a record whose last pipeline stopped after its HSET, or whose
id a late reader took off the index (`lapsed`), until the next pipeline is through.

Bounds: 3 slots, `max_retries` 2, 1 manual retry; at most one mishap in a behaviour
(`FewMishaps`), and in focus `board`, where records also expire, 2 slots. Proved
(`BoardStaysRight`) for any number of each, any mishaps together. `Board` has a
part for each of the three claims: the record is in accord with the outcome or some
delivery still owes the last word on it (`InAccord`); without a mishap one delivery is
live at most, and an error is seen only until the monitor is told of the next sending
(`NoStaleError`); a record lacks its TTL or its place only while a pipeline is about to
give it one (`Covered`).

### Userdata

`defs`, `docdefs` and `links` are the committed rows; `edit[e]` a request of several
statements, `lookup[c]` the two reads that resolve a dossier key. `set_dossiers` is
a READ COMMITTED transaction: `FindDossiers`, `StartClear` and `FinishClear` (the
DELETE takes its snapshot, then waits for rows another transaction is deleting, and
skips those that one deletes, though it inserted them anew),
`InsertLink` (waits for a conflicting insert), `CommitSet`, `AbortSet`.

- `LoneSetReplaces`: a call that no other on the rule overlapped leaves exactly the
  links it was given, whatever aborted before.
- `QuietLookup`: a lookup returns dossier and documents of one row, unless the
  dossier is deleted in between.
- `SetReplaces`, without the condition, is refuted: finding 6.

Proved for any keys, rows and requests, `LoneSetsReplace` and `QuietLookupsAgree`, from
`UserdataAssumption`: the three tables have ids of their own, so that a write of one
leaves the rows of the others alone (they are tables in the code, one function in the
model). `Steady` says that a live dossier's key is nobody else's, and that between its
reads a quiet lookup holds a row that is still live, hence the one the second read
finds. `Lone` says of a call that met no other on its rule that what it has seen, then
deleted, is just what was linked, and of every call that the keys of the dossiers it
resolved are the ones asked for, deleted since or not.

### ClientPool

`life` and `held` are where a process is between building and closing its clients,
`conn[u]` a coroutine's use of the connection pool, `stale` the idle connections of the
pool that an outage of PostgreSQL broke, `probe` a readiness probe that pings all
dependencies at once, through the same pool. The pool checks nothing it hands out
(`Take`): a broken connection fails its borrower, the probe's `select 1` included, and
is thrown away.

- `ReadyIsTruthful`: `ok` only if each dependency was up at some moment of the
  probe, `degraded` only if Valkey was down, `unavailable` only if a critical one was,
  or the pool had no connection left, or the one the probe got was broken. The last two
  are answers that `health/router.py:33-34,100,115` does not know: it says that a
  critical dependency is down.
- `FalseAlarmsEnd`: they do not go on. After an outage, at most as many answers
  `unavailable` as the pool has connections are explained by neither an outage nor a
  full pool.

Proved (`ReadinessIsTruthful`, `FalseAlarmsAreBounded`, `PoolTypeCorrect`) for any pool
and any number of coroutines and outages. `Witnessed` says what the probe has on record
for each ping, `Paid` that each false alarm cost one of the connections that the last
outage broke.

## 6. The pipelines: MCPipelines

Run `pipelines`.

### Mining

`attempt[a]` is an attempt of the mining task, `job[a][p]` the coroutine of one of
its pages, `results` who saved each result last, `task` and `run` broker and row.
`gather` raises on the first page that fails and leaves its siblings running, so
the pages of a failed attempt (stragglers) run on beside the next one.

- `SuccessIsComplete`: a run that succeeded has both results and the thumbnail of
  every page.
- `ResultsOfOneAttempt`: they are all of the attempt that succeeded, unless pages of
  an earlier one ran on.
- `MinedIsReady` is refuted: finding 5.

Bounds: 2 pages, each with text alone or annotated, 1 page at a time, 2 attempts,
also images and documents that are refused.

Proved for any number of pages and attempts and any limit:

- `SuccessesAreComplete`, from `Worked`: coroutines exist only for the document's
  pages (`Shape`), what one has behind it is in the database (`Honest`), and success
  is reported only of a document that is complete (`Reported`). A late page of an
  attempt that failed may save over a result, but none is ever taken back (`Kept`).
- `SuccessOfOneAttempt`, from `Apart`, which adds that attempts take turns (`InTurn`)
  and that, as long as none began beside pages of an earlier one, all that is in
  flight and all that the latest attempt's pages have saved is its own (`Undisturbed`).

The load is not bounded by more than one semaphore per attempt: beside stragglers a
retry exceeds `MAX_PAGE_CONCURRENCY`, in the code as in the model.

### AuditRun

`finding`, `verdict` and `row` are the tables, `delivery[s]` a worker slot in the
audit graph, `report` a `GET /audits/{id}` between its three statements. Which tool
an agent calls, and with what, is a choice; which tools it has is the code's.

- `ConclusionOfOneDelivery`: an audit that succeeded stands on the findings and the
  verdict of the one delivery that concluded it. Deliveries that overlap do mix
  (the idle timeout of finding 1 makes them), and are left out.
- `ReportIsWhole`: a report that says SUCCEEDED shows what its run ended with,
  unless the audit was delivered again meanwhile.
- `OthersUntouched`: an audit nobody is running keeps its findings and verdict.

An audit may be delivered whenever there is a message of it, and be it that an earlier
one was acknowledged: a second message under one task id is possible.

Bounds: 2 audits, 2 slots, 2 findings, 2 deliveries; audits, slots and findings are
interchangeable. Proved for any number of them (`ConcludedByOneDelivery`,
`ReportsAreWhole`, `AuditsAreApart`): `Conclusive` says of every audit never
delivered twice at once what its only delivery may rely on at each step (`Held`) and
what a SUCCEEDED row stands on (`Concluded`); `OwnAuditOnly` is the one lemma about
the other audits.

### AuditTools

A behaviour is one call and its answer; the initial states are the bounded inputs.

- `MoneyReadRight`: a text that is an amount in one of the two conventions is read as
  one of the amounts it can be; `Reading` is the reference. Texts of up to 8 of the
  characters digit, comma and full stop.
- `DatesInOrder`: no violation if and only if any two dates that could be read are in
  order, whatever stands between them. Chains of up to 4 dates.
- `RoundedVatMatches`: a VAT rounded to the unit is accepted from an expected VAT of
  a hundred units on.

`compare_amount`, `invoice_age` (which takes today where no reference date is given) and `find_document` are there with their
definitions; a property about them would repeat the definition.

Proved for any amounts, and for texts and chains of any length, as long as days and
amounts are numbers and `None` is not one (`ToolAssumption`):

- `RoundingIsTolerated`.
- `DateOrderIsChecked`. The tool compares each readable date with the next one only;
  `NearestAreNeighbours` says that if two places violate the order, the two nearest
  ones that do are neighbours.
- `MoneyIsReadRight`. A text has a reading at all only if its separators stand as an
  amount's do; `ReadingIsRead` goes through which of the two it uses and shows that
  `to_money` then takes the branch of that reading. The case that needs arithmetic is
  a single separator: `GroupsOfThree` shows that thousands marks in their places
  are what the regular expression for groups accepts, so that `1.234` is read as a
  whole amount, one of its two readings.

### Reads

`walk[w]` is a client that pages through a list while rows come and go, `view[v]` a
document view in its three statements. A row takes its place by `created_at`, the
start of its transaction, and is seen when that commits.

- `ReadsAreWhole`: a walk misses no row if none was deleted and sees none twice if
  none came; a view of a document that was not deleted does not raise, begins with
  the original and misses no page that was there. The code pages by OFFSET and
  reads a view without a transaction, hence the conditions.

`Sorted` states ORDER BY by rank instead of by a sorting function: each row stands in
the place after all that come before it, which is what the provers can reason about.

Proved for any finite set of rows and of pages, any number of clients and any limits
that the configuration allows (`ReadsWhole`, with `ReadsTypeCorrect`). A list is not a
variable but a function of the rows, so the invariant speaks of the `Place` of a row,
one more than the number of rows shown ahead of it. A row that comes pushes some places
back, a row that goes moves some up, never the reverse (`PlaceMoves`). Hence, at each
page of a walk (`WalkUnderWay`): while no row went, a row that was there from the start
has been seen or is still behind the offset; while none came, every row seen is within
the offset, so the next page repeats none; while neither happened, what was seen is the
list up to the offset. That each page advances needs `LimitsPositive`: `0` and negative limits
are clamped to at least 1. For a view (`ViewInv`): until the document is deleted, what
was there when the request began still is, and the parts read include it.

## 7. All runs

| Run | Distinct states | Result |
|---|---|---|
| `runs` | 7,168,435 | passes |
| `runs_recovery` | 322,529 | passes |
| `runs_default_idle` | 1,353 | refuted, finding 1 |
| `runs_metadata` | 165 | refuted, finding 2 |
| `runs_timeout` | 201 | refuted, finding 3 |
| `documents` | 2,587,832 | passes |
| `documents_reclaim` | 407,984 | passes |
| `documents_race` | 208 | refuted, finding 4 |
| `stores` | 2,397,140 | passes |
| `pipelines` | 982,659 | passes |
| `mining_invalid` | 540 | refuted, finding 5 |
| `links_mixed` | about 6.7 million | refuted, finding 6 |

`StoresTypeOK` and `PipelinesTypeOK` join the type invariants of the components in their
run. A run that refutes a property stops at the counterexample. `CHECK_DEADLOCK` is off
in every run: clients may stop asking, and bounds on messages, attempts and failures
end the behaviours.

Several properties leave out a history that the model performs: overlapping deliveries,
late saves, a deletion under a call, a failed bookkeeping call. Each of these conditions
stands where the property without it is false of the code, so that the exception is part
of what is said. Four such cases are runs of their own, findings 3 to 6; the others are
named at their hazard in `PROJECT.json`.

Findings 1 to 4 are in sections 3 and 4. The others:

5. `mining_invalid`: a document found invalid fails its run's first attempt; the
   retry is answered the INVALID record, finds no accepted MIME type and succeeds.
6. `links_mixed`: two overlapping `set_dossiers` calls on one rule both commit, and
   the rule is left with the union.

Every invariant and every action property of a passing run is also a theorem. Only
model-checked:

- `EnqueuedRunSettles` and `DeletedIsReclaimed`: liveness under fairness is out of the
  prover's reach.
- the refuted properties, of which the counterexample is the evidence.

Where a proof needs induction over numbers it is an induction over a set of them,
`SetInduction` in `NatSets`, proved there from the pigeonhole principle: the library's
induction theorems have an operator for a parameter, which none of the provers
instantiates. All other theorems are for every value of the constants that meets the
named assumption of the module; those assumptions are evaluated by TLC in each run.
The fairness assumed is named in sections 3 and 4; the modules of sections 5 and 6
state safety only.

## 8. Not modelled, and why

- Prompts, LLM clients and what a model answers: a nondeterministic choice where the
  answer decides anything. Rendering and text extraction: outcomes.
- Telemetry, logging, configuration parsing: no state that another part reads.
- Library behaviour: stream trimming at `stream_maxlen`, prefetching by a worker, the
  result backend, LangGraph's scheduling of graph tasks beyond their order.
- MIME detection on bytes: its outcome is chosen.
- `adelete_thread` of the saver, which nothing in the repository calls, and
  serialisation, which gives back what was stored.
- Fuzzy text matching, tax-id checksums, fact collection and knowledge search: string
  processing.
- In the task monitor: the state filter of `GET /tasks`, `GET /tasks/scheduled` and
  result payloads, which only read.
- `WorkflowRuns`, `Mining` and `DocumentStore` each keep the part of a run that they
  are about and are not composed: a run is a choice of outcomes in the first, one
  page after another in the last.
