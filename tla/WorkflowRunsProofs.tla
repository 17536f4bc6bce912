------------------------- MODULE WorkflowRunsProofs -------------------------
(* Theorems about WorkflowRuns for every number of calls, slots, rows and   *)
(* messages, and every budget.                                              *)
EXTENDS WorkflowRuns, FiniteSetTheorems, TLAPS

LEMMA CreateTyped ==
  ASSUME TypeOK, NEW r \in Runs, NEW workflow \in Workflows,
         NEW of \in Runs \cup {NoRun}, NEW auto \in BOOLEAN,
         NEW dossier \in BOOLEAN, Create(r, workflow, of, auto, dossier)
  PROVE  row' \in [Runs -> Rows]
  BY DEF TypeOK, Create, Rows, Statuses

LEMMA KiqTyped ==
  ASSUME TypeOK, NEW r \in Runs \cup {NoRun}, NEW retries \in Nat,
         Kiq(r, retries)
  PROVE  stream' \in [Messages -> Entries]
  BY DEF TypeOK, Kiq, Entries

LEMMA GotoTyped ==
  ASSUME TypeOK, NEW w \in Workers, NEW step \in Steps, Goto(w, step)
  PROVE  att' \in [Workers -> Attempts]
  BY DEF TypeOK, Goto, Attempts

LEMMA FinishTyped ==
  ASSUME TypeOK, NEW w \in Workers, NEW status \in Statuses,
         NEW result \in {"none", "output", "error"}, RunOf(w) \in Runs,
         Finish(w, status, result)
  PROVE  row' \in [Runs -> Rows]
<1> DEFINE new == [row[RunOf(w)] EXCEPT !.status = status, !.result = result,
                                      !.taskiq = att[w].taskiq, !.ckpt = TRUE]
<1>1. row[RunOf(w)] \in Rows /\ att[w].taskiq \in BOOLEAN
  BY DEF TypeOK, Attempts
<1>2. new \in Rows
  BY <1>1 DEF Rows
<1>3. row' = [row EXCEPT ![RunOf(w)] = new]
  BY DEF Finish
<1> HIDE DEF new
<1> QED
  BY <1>2, <1>3 DEF TypeOK

LEMMA AttemptTyped ==
  ASSUME NEW step \in Steps, NEW m \in Messages \cup {NoMsg}
  PROVE  Attempt(step, m) \in Attempts
  BY DEF Attempt, Attempts, NoRun

(* A slot that executes something holds a message, and a message in the     *)
(* stream names a run.                                                      *)
Wired ==
  /\ \A w \in Workers : Live(w) => att[w].msg \in Messages
  /\ \A w \in Workers : Live(w) => stream[att[w].msg].state # "free"
  /\ \A w \in Workers : att[w].step = "audit_kiq" =>
        att[w].audit \in Runs /\ row[att[w].audit].status # "ABSENT"
  /\ \A q \in Requests : req[q].step \in {"created", "kicked"} =>
        req[q].run \in Runs /\ row[req[q].run].status # "ABSENT"
  /\ RowBeforeMessage

LEMMA RunOfTyped ==
  ASSUME TypeOK, Wired, NEW w \in Workers, Live(w)
  PROVE  /\ RunOf(w) \in Runs
         /\ att[w].msg \in Messages
         /\ row[RunOf(w)].status # "ABSENT"
         /\ WorkflowOf(w) \in Workflows
  BY DEF TypeOK, Wired, RowBeforeMessage, RunOf, WorkflowOf, Rows

LEMMA InitTyped == Init => TypeOK /\ Wired
<1> SUFFICES ASSUME Init PROVE TypeOK /\ Wired
  OBVIOUS
<1>1. AbsentRow \in Rows /\ FreeEntry \in Entries
  BY DEF AbsentRow, FreeEntry, Rows, Entries, Statuses, Workflows, NoRun
<1>2. NoAttempt \in Attempts
  BY AttemptTyped DEF NoAttempt, Steps
<1>3. [step |-> "new", run |-> NoRun] \in Calls
  BY DEF Calls
<1>4. TypeOK
  BY <1>1, <1>2, <1>3 DEF Init, TypeOK
<1>5. Wired
  BY DEF Init, Wired, RowBeforeMessage, FreeEntry, NoAttempt, Attempt, Live
<1> QED
  BY <1>4, <1>5

LEMMA NextTyped == ASSUME TypeOK, Wired, [Next]_vars PROVE TypeOK'
<1> USE DEF Workflows
<1>1. ASSUME NEW q \in Requests, SubmitCreate(q) PROVE TypeOK'
  <2>1. PICK r \in Runs, dossier \in BOOLEAN :
           /\ Create(r, "mining", NoRun, FALSE, dossier)
           /\ req' = [req EXCEPT ![q] = [step |-> "created", run |-> r]]
    BY <1>1 DEF SubmitCreate
  <2>2. row' \in [Runs -> Rows]
    BY <2>1, CreateTyped
  <2> QED
    BY <1>1, <2>1, <2>2 DEF TypeOK, SubmitCreate, Calls
<1>2. ASSUME NEW q \in Requests, PostAuditCreate(q) PROVE TypeOK'
  <2>1. PICK r \in Runs, of \in Runs \cup {NoRun} :
           /\ Create(r, "audit", of, FALSE, TRUE)
           /\ req' = [req EXCEPT ![q] = [step |-> "created", run |-> r]]
    BY <1>2 DEF PostAuditCreate
  <2>2. row' \in [Runs -> Rows]
    BY <2>1, CreateTyped
  <2> QED
    BY <1>2, <2>1, <2>2 DEF TypeOK, PostAuditCreate, Calls
<1>3. ASSUME NEW q \in Requests, RequestKiq(q) PROVE TypeOK'
  <2>1. req' \in [Requests -> Calls]
    BY <1>3 DEF TypeOK, RequestKiq, Calls
  <2>2. req[q].run \in Runs \cup {NoRun} /\ 0 \in Nat
    BY DEF TypeOK, Calls
  <2>3. stream' \in [Messages -> Entries]
    BY <1>3, <2>2, KiqTyped DEF RequestKiq
  <2> QED
    BY <1>3, <2>1, <2>3 DEF TypeOK, RequestKiq
<1>4. ASSUME NEW q \in Requests, SubmitSetMetadata(q) PROVE TypeOK'
  <2>1. req[q].run \in Runs
    BY <1>4 DEF Wired, SubmitSetMetadata
  <2> QED
    <3>1. row' \in [Runs -> Rows]
      <4>1. row[req[q].run] \in Rows
        BY <2>1 DEF TypeOK
      <4>2. PICK new \in Rows : row' = [row EXCEPT ![req[q].run] = new]
        BY <1>4, <4>1 DEF SubmitSetMetadata, Rows
      <4> QED
        BY <2>1, <4>2 DEF TypeOK
    <3>2. req' \in [Requests -> Calls]
      BY <1>4 DEF TypeOK, SubmitSetMetadata, Calls
    <3> QED
      BY <1>4, <3>1, <3>2 DEF TypeOK, SubmitSetMetadata
<1>5. ASSUME NEW q \in Requests, RequestDies(q) PROVE TypeOK'
  <2>1. req' \in [Requests -> Calls]
    BY <1>5 DEF TypeOK, RequestDies, Calls
  <2>2. crashes' \in Nat /\ faults' \in Nat
    BY <1>5 DEF TypeOK, RequestDies
  <2> QED
    BY <1>5, <2>1, <2>2 DEF TypeOK, RequestDies
<1>6. ASSUME NEW w \in Workers, Listen(w) PROVE TypeOK'
  <2>1. PICK m \in Messages : Begin(w, m)
    BY <1>6 DEF Listen, Deliver, Reclaim
  <2>2. stream' \in [Messages -> Entries]
    BY <2>1 DEF TypeOK, Begin, Entries
  <2>3. att' \in [Workers -> Attempts]
    BY <2>1, AttemptTyped DEF TypeOK, Begin, Steps
  <2> QED
    BY <2>1, <2>2, <2>3 DEF TypeOK, Begin
<1>7. ASSUME NEW w \in Workers, TaskStep(w) PROVE TypeOK'
  <2>0. Live(w)
    BY <1>7 DEF TaskStep, MarkRunning, GraphEnds, FinalMetadata, MarkSucceeded,
       MarkFailed, EnqueueAuditCreate, EnqueueAuditKiq, OnError, Ack, Live
  <2>w. RunOf(w) \in Runs /\ att[w].msg \in Messages
    BY <2>0, RunOfTyped
  <2>1. CASE MarkRunning(w)
    <3>1. row' \in [Runs -> Rows]
      <4>1. row[RunOf(w)] \in Rows
        BY <2>w DEF TypeOK
      <4>2. PICK new \in Rows : row' = [row EXCEPT ![RunOf(w)] = new]
        BY <2>1, <4>1 DEF MarkRunning, Rows, Statuses
      <4> QED
        BY <2>w, <4>2 DEF TypeOK
    <3> QED
      BY <2>1, <3>1, GotoTyped DEF TypeOK, MarkRunning, Steps
  <2>2. ASSUME NEW out \in {"ok", "error", "timeout"}, GraphEnds(w, out)
        PROVE  TypeOK'
    <3> DEFINE new == [att[w] EXCEPT !.step = "final_metadata", !.spent = 0,
                         !.out = out,
                         !.exc = IF out = "ok" THEN "none" ELSE out]
    <3>2. att[w] \in Attempts
      BY DEF TypeOK
    <3>3. new \in Attempts
      BY <3>2 DEF Attempts, Steps
    <3>4. att' = [att EXCEPT ![w] = new]
      BY <2>2 DEF GraphEnds
    <3>1. att' \in [Workers -> Attempts]
      BY <3>3, <3>4 DEF TypeOK
    <3> QED
      BY <2>2, <3>1 DEF TypeOK, GraphEnds
  <2>3. CASE FinalMetadata(w)
    <3>1. row[RunOf(w)].taskiq \in BOOLEAN
      BY <2>w DEF TypeOK, Rows
    <3>2. att' \in [Workers -> Attempts]
      <4>1. att[w] \in Attempts
        BY DEF TypeOK
      <4>2. PICK new \in Attempts : att' = [att EXCEPT ![w] = new]
        BY <2>3, <3>1, <4>1 DEF FinalMetadata, Attempts, Steps
      <4> QED
        BY <4>2 DEF TypeOK
    <3> QED
      BY <2>3, <3>2 DEF TypeOK, FinalMetadata
  <2>4. CASE MarkSucceeded(w)
    <3>1. row' \in [Runs -> Rows]
      BY <2>4, <2>w, FinishTyped DEF MarkSucceeded, Statuses
    <3>2. att' \in [Workers -> Attempts]
      BY <2>4, GotoTyped DEF MarkSucceeded, Steps
    <3> QED
      BY <2>4, <3>1, <3>2 DEF TypeOK, MarkSucceeded
  <2>5. CASE MarkFailed(w)
    <3>1. row' \in [Runs -> Rows]
      BY <2>5, <2>w, FinishTyped DEF MarkFailed, Statuses
    <3>2. att' \in [Workers -> Attempts]
      BY <2>5, GotoTyped DEF MarkFailed, Steps
    <3> QED
      BY <2>5, <3>1, <3>2 DEF TypeOK, MarkFailed
  <2>6. CASE EnqueueAuditCreate(w)
    <3>1. PICK r \in Runs :
             /\ Create(r, "audit", RunOf(w), TRUE, TRUE)
             /\ att' = [att EXCEPT ![w] =
                          [@ EXCEPT !.step = "audit_kiq", !.audit = r]]
      BY <2>6 DEF EnqueueAuditCreate
    <3>2. row' \in [Runs -> Rows]
      BY <3>1, <2>w, CreateTyped
    <3> DEFINE new == [att[w] EXCEPT !.step = "audit_kiq", !.audit = r]
    <3>4. att[w] \in Attempts
      BY DEF TypeOK
    <3>5. new \in Attempts
      BY <3>4 DEF Attempts, Steps
    <3>3. att' \in [Workers -> Attempts]
      BY <3>1, <3>5 DEF TypeOK
    <3> QED
      BY <2>6, <3>2, <3>3 DEF TypeOK, EnqueueAuditCreate
  <2>7. CASE EnqueueAuditKiq(w)
    <3>1. att[w].audit \in Runs \cup {NoRun} /\ 0 \in Nat
      BY DEF TypeOK, Attempts
    <3>2. stream' \in [Messages -> Entries]
      BY <2>7, <3>1, KiqTyped DEF EnqueueAuditKiq
    <3>3. att' \in [Workers -> Attempts]
      BY <2>7, GotoTyped DEF EnqueueAuditKiq, Steps
    <3> QED
      BY <2>7, <3>2, <3>3 DEF TypeOK, EnqueueAuditKiq
  <2>8. CASE OnError(w)
    <3>1. stream[att[w].msg].retries + 1 \in Nat
      BY <2>w DEF TypeOK, Entries
    <3>2. stream' \in [Messages -> Entries]
      BY <2>8, <2>w, <3>1, KiqTyped DEF OnError, TypeOK
    <3>3. att' \in [Workers -> Attempts]
      BY <2>8, GotoTyped DEF OnError, Steps
    <3> QED
      BY <2>8, <3>2, <3>3 DEF TypeOK, OnError
  <2>9. CASE Ack(w)
    <3>1. stream' \in [Messages -> Entries]
      BY <2>9, <2>w DEF TypeOK, Ack, Entries
    <3>2. att' \in [Workers -> Attempts]
      BY <2>9, AttemptTyped DEF TypeOK, Ack, NoAttempt, Steps
    <3> QED
      BY <2>9, <3>1, <3>2 DEF TypeOK, Ack
  <2> QED
    BY <1>7, <2>1, <2>2, <2>3, <2>4, <2>5, <2>6, <2>7, <2>8, <2>9 DEF TaskStep
<1>8. ASSUME NEW w \in Workers, CallRaises(w) PROVE TypeOK'
  <2> DEFINE lands == IF att[w].step = "mark_running" \/ att[w].exc # "none"
                      THEN "on_error" ELSE "final_metadata"
             new == [att[w] EXCEPT !.exc = "error", !.step = lands]
  <2>5. lands \in Steps
    BY DEF Steps
  <2>2. att[w] \in Attempts
    BY DEF TypeOK
  <2>3. new \in Attempts
    <3> HIDE DEF lands
    <3> QED
      BY <2>2, <2>5 DEF Attempts
  <2>4. att' = [att EXCEPT ![w] = new]
    BY <1>8 DEF CallRaises
  <2>1. att' \in [Workers -> Attempts]
    BY <2>3, <2>4 DEF TypeOK
  <2> QED
    BY <1>8, <2>1 DEF TypeOK, CallRaises
<1>9. ASSUME NEW w \in Workers, OnErrorRaises(w) \/ WorkerDies(w) PROVE TypeOK'
  <2>1. att' \in [Workers -> Attempts]
    BY <1>9, AttemptTyped DEF TypeOK, OnErrorRaises, WorkerDies, NoAttempt, Steps
  <2> QED
    BY <1>9, <2>1 DEF TypeOK, OnErrorRaises, WorkerDies
<1>10. CASE Tick
  <2>1. ASSUME NEW m \in Messages PROVE stream'[m] \in Entries
    <3>1. stream[m] \in Entries
      BY DEF TypeOK
    <3>2. [stream[m] EXCEPT !.age = @ + 1] \in Entries
      BY <3>1 DEF Entries
    <3> QED
      BY <1>10, <3>1, <3>2 DEF Tick
  <2>2. ASSUME NEW w \in Workers PROVE att'[w] \in Attempts
    <3>1. att[w] \in Attempts
      BY DEF TypeOK
    <3>2. [att[w] EXCEPT !.spent = @ + 1] \in Attempts
      BY <3>1 DEF Attempts
    <3> QED
      BY <1>10, <3>1, <3>2 DEF Tick
  <2>3. stream' \in [Messages -> Entries] /\ att' \in [Workers -> Attempts]
    BY <1>10, <2>1, <2>2 DEF Tick
  <2> QED
    BY <1>10, <2>3 DEF TypeOK, Tick
<1>11. CASE UNCHANGED vars
  BY <1>11 DEF TypeOK, vars
<1> QED
  BY <1>1, <1>2, <1>3, <1>4, <1>5, <1>6, <1>7, <1>8, <1>9, <1>10, <1>11
  DEF Next, RequestStep

-----------------------------------------------------------------------------
(* What no step takes back: rows stay recorded with their workflow, and     *)
(* entries stay in the stream; a new entry names a recorded run.            *)
Grows ==
  /\ \A r \in Runs : row[r].status # "ABSENT" =>
        row'[r].status # "ABSENT" /\ row'[r].workflow = row[r].workflow
  /\ \A m \in Messages : stream[m].state # "free" =>
        stream'[m].state # "free" /\ stream'[m].run = stream[m].run
  /\ \A m \in Messages : stream[m].state = "free" =>
        \/ stream'[m] = stream[m]
        \/ /\ stream'[m].state = "queued" /\ stream'[m].run \in Runs
           /\ row[stream'[m].run].status # "ABSENT"

LEMMA CreateGrows ==
  ASSUME TypeOK, NEW r \in Runs, NEW workflow \in Workflows,
         NEW of, NEW auto, NEW dossier, Create(r, workflow, of, auto, dossier),
         stream' = stream
  PROVE  Grows
  BY DEF TypeOK, Create, Grows

LEMMA KiqGrows ==
  ASSUME TypeOK, NEW r \in Runs, NEW retries \in Nat,
         row[r].status # "ABSENT", Kiq(r, retries), row' = row
  PROVE  Grows
  BY DEF TypeOK, Kiq, Grows

LEMMA FinishGrows ==
  ASSUME TypeOK, NEW w \in Workers, RunOf(w) \in Runs,
         NEW status \in Finished, NEW result, Finish(w, status, result),
         stream' = stream
  PROVE  Grows
  BY DEF TypeOK, Finish, Grows, Finished, Rows

LEMMA SameGrows ==
  ASSUME TypeOK, row' = row, stream' = stream PROVE Grows
  BY DEF Grows

LEMMA NextGrows == ASSUME TypeOK, Wired, [Next]_vars PROVE Grows
<1>1. ASSUME NEW q \in Requests, SubmitCreate(q) PROVE Grows
  BY <1>1, CreateGrows DEF SubmitCreate, Workflows
<1>2. ASSUME NEW q \in Requests, PostAuditCreate(q) PROVE Grows
  BY <1>2, CreateGrows DEF PostAuditCreate, Workflows
<1>3. ASSUME NEW q \in Requests, RequestKiq(q) PROVE Grows
  <2>1. req[q].run \in Runs /\ row[req[q].run].status # "ABSENT" /\ 0 \in Nat
    BY <1>3 DEF RequestKiq, Wired
  <2> QED
    BY <1>3, <2>1, KiqGrows DEF RequestKiq
<1>4. ASSUME NEW q \in Requests, SubmitSetMetadata(q) PROVE Grows
  BY <1>4 DEF SubmitSetMetadata, Grows, TypeOK, Rows
<1>5. ASSUME NEW q \in Requests, RequestDies(q) PROVE Grows
  BY <1>5, SameGrows DEF RequestDies
<1>6. ASSUME NEW w \in Workers, Listen(w) PROVE Grows
  <2>1. PICK m \in Messages : Begin(w, m) /\ stream[m].state # "free"
    BY <1>6 DEF Listen, Deliver, Reclaim
  <2> QED
    BY <2>1 DEF Begin, Grows, TypeOK, Entries
<1>7. ASSUME NEW w \in Workers, TaskStep(w) PROVE Grows
  <2>0. Live(w)
    BY <1>7 DEF TaskStep, MarkRunning, GraphEnds, FinalMetadata, MarkSucceeded,
       MarkFailed, EnqueueAuditCreate, EnqueueAuditKiq, OnError, Ack, Live
  <2>w. /\ RunOf(w) \in Runs /\ att[w].msg \in Messages
        /\ row[RunOf(w)].status # "ABSENT"
        /\ stream[att[w].msg].state # "free"
    BY <2>0, RunOfTyped DEF Wired
  <2>1. CASE MarkRunning(w)
    BY <2>1, <2>w DEF MarkRunning, Grows, TypeOK, Rows
  <2>2. CASE \/ \E out \in {"ok", "error", "timeout"} : GraphEnds(w, out)
             \/ FinalMetadata(w)
    BY <2>2, SameGrows DEF GraphEnds, FinalMetadata
  <2>4. CASE MarkSucceeded(w)
    BY <2>4, <2>w, FinishGrows DEF MarkSucceeded, Finished
  <2>5. CASE MarkFailed(w)
    BY <2>5, <2>w, FinishGrows DEF MarkFailed, Finished
  <2>6. CASE EnqueueAuditCreate(w)
    BY <2>6, CreateGrows DEF EnqueueAuditCreate, Workflows
  <2>7. CASE EnqueueAuditKiq(w)
    <3>1. /\ att[w].audit \in Runs /\ 0 \in Nat
          /\ row[att[w].audit].status # "ABSENT"
      BY <2>7 DEF EnqueueAuditKiq, Wired
    <3> QED
      BY <2>7, <3>1, KiqGrows DEF EnqueueAuditKiq
  <2>8. CASE OnError(w)
    <3>1. stream[att[w].msg].retries + 1 \in Nat
      BY <2>w DEF TypeOK, Entries
    <3> QED
      BY <2>8, <2>w, <3>1, KiqGrows, SameGrows DEF OnError
  <2>9. CASE Ack(w)
    BY <2>9, <2>w DEF Ack, Grows, TypeOK, Entries
  <2> QED
    BY <1>7, <2>1, <2>2, <2>4, <2>5, <2>6, <2>7, <2>8, <2>9 DEF TaskStep
<1>8. ASSUME NEW w \in Workers, CallRaises(w) \/ OnErrorRaises(w) \/ WorkerDies(w) PROVE Grows
  BY <1>8, SameGrows DEF CallRaises, OnErrorRaises, WorkerDies
<1>9. CASE Tick
  BY <1>9 DEF Tick, Grows, TypeOK, Entries
<1>10. CASE UNCHANGED vars
  BY <1>10, SameGrows DEF vars
<1> QED
  BY <1>1, <1>2, <1>3, <1>4, <1>5, <1>6, <1>7, <1>8, <1>9, <1>10
  DEF Next, RequestStep

LEMMA NextWired == ASSUME TypeOK, Wired, [Next]_vars PROVE Wired'
<1>g. Grows
  BY NextGrows
<1>t. TypeOK'
  BY NextTyped
<1>1. RowBeforeMessage'
  <2> SUFFICES ASSUME NEW m \in Messages, stream'[m].state # "free"
               PROVE  /\ stream'[m].run \in Runs
                      /\ row'[stream'[m].run].status # "ABSENT"
    BY DEF RowBeforeMessage
  <2> QED
    BY <1>g DEF Grows, Wired, RowBeforeMessage
(* Enough: a slot keeps its message or takes one of the stream; an audit or  *)
(* a request keeps its run or takes one just recorded.                       *)
<1> DEFINE SlotOK(w) == Live(w)' =>
              att'[w].msg \in Messages /\ stream'[att'[w].msg].state # "free"
           AuditOK(w) == att'[w].step = "audit_kiq" =>
              att'[w].audit \in Runs /\ row'[att'[w].audit].status # "ABSENT"
           ReqOK(q) == req'[q].step \in {"created", "kicked"} =>
              req'[q].run \in Runs /\ row'[req'[q].run].status # "ABSENT"
<1>2. ASSUME NEW w \in Workers, att'[w] = att[w] PROVE SlotOK(w) /\ AuditOK(w)
  BY <1>2, <1>g DEF Wired, Grows, Live
<1>3. ASSUME NEW w \in Workers, Live(w), att'[w].msg = att[w].msg PROVE SlotOK(w)
  BY <1>3, <1>g DEF Wired, Grows, Live
<1>4. ASSUME NEW q \in Requests, req'[q] = req[q] PROVE ReqOK(q)
  BY <1>4, <1>g DEF Wired, Grows
<1> HIDE DEF SlotOK, AuditOK, ReqOK
<1>5. (\A w \in Workers : SlotOK(w) /\ AuditOK(w)) /\ (\A q \in Requests : ReqOK(q))
  <2>1. ASSUME NEW q \in Requests, RequestStep(q) \/ RequestDies(q)
        PROVE  att' = att /\ \A p \in Requests : ReqOK(p)
    <3>1. ASSUME NEW p \in Requests, p # q PROVE ReqOK(p)
      <4>1. req'[p] = req[p]
        BY <2>1, <3>1 DEF TypeOK, RequestStep, RequestDies, SubmitCreate,
           PostAuditCreate, RequestKiq, SubmitSetMetadata
      <4> QED
        BY <4>1, <1>4
    <3>2. CASE SubmitCreate(q) \/ PostAuditCreate(q)
      <4>1. PICK r \in Runs, workflow \in Workflows, of \in Runs \cup {NoRun},
                   auto \in BOOLEAN, dossier \in BOOLEAN :
               /\ Create(r, workflow, of, auto, dossier)
               /\ req' = [req EXCEPT ![q] = [step |-> "created", run |-> r]]
        BY <3>2 DEF SubmitCreate, PostAuditCreate, Workflows
      <4>2. row'[r].status # "ABSENT" /\ req'[q].run = r
        BY <4>1 DEF TypeOK, Create
      <4>3. ReqOK(q)
        BY <4>2 DEF ReqOK
      <4>4. att' = att
        BY <3>2 DEF SubmitCreate, PostAuditCreate
      <4> QED
        BY <3>1, <4>3, <4>4
    <3>3. CASE RequestKiq(q) \/ SubmitSetMetadata(q) \/ RequestDies(q)
      <4>1. req[q].step \in {"created", "kicked"} /\ req'[q].run = req[q].run
        BY <3>3 DEF RequestKiq, SubmitSetMetadata, RequestDies, TypeOK, Calls
      <4>2. ReqOK(q)
        BY <4>1, <1>g DEF ReqOK, Wired, Grows
      <4>3. att' = att
        BY <3>3 DEF RequestKiq, SubmitSetMetadata, RequestDies
      <4> QED
        BY <3>1, <4>2, <4>3
    <3> QED
      BY <2>1, <3>2, <3>3 DEF RequestStep
  <2>2. ASSUME NEW w \in Workers,
               Listen(w) \/ TaskStep(w) \/ CallRaises(w) \/ OnErrorRaises(w) \/ WorkerDies(w)
        PROVE  /\ req' = req
               /\ \A v \in Workers : v # w => att'[v] = att[v]
               /\ SlotOK(w) /\ AuditOK(w)
    <3>1. CASE Listen(w)
      <4>1. PICK m \in Messages : Begin(w, m)
        BY <3>1 DEF Listen, Deliver, Reclaim
      <4>2. att'[w].msg = m /\ att'[w].step = "mark_running"
        BY <4>1 DEF Begin, Attempt, TypeOK
      <4>3. stream'[m].state = "pending"
        BY <4>1 DEF Begin, TypeOK, Entries
      <4>4. SlotOK(w) /\ AuditOK(w)
        BY <4>2, <4>3 DEF SlotOK, AuditOK
      <4> QED
        BY <4>1, <4>4 DEF Begin, TypeOK
    <3>2. CASE Ack(w) \/ OnErrorRaises(w) \/ WorkerDies(w)
      <4>1. att' = [att EXCEPT ![w] = NoAttempt] /\ req' = req
        BY <3>2 DEF Ack, OnErrorRaises, WorkerDies
      <4>2. att'[w].step = "idle"
        BY <4>1 DEF NoAttempt, Attempt, TypeOK
      <4> QED
        BY <4>1, <4>2 DEF SlotOK, AuditOK, Live, TypeOK
    <3>3. CASE EnqueueAuditCreate(w)
      <4>1. PICK r \in Runs :
               /\ Create(r, "audit", RunOf(w), TRUE, TRUE)
               /\ att' = [att EXCEPT ![w] =
                            [@ EXCEPT !.step = "audit_kiq", !.audit = r]]
        BY <3>3 DEF EnqueueAuditCreate
      <4>2. row'[r].status # "ABSENT"
        BY <4>1 DEF Create, TypeOK
      <4>3. att'[w].audit = r /\ att'[w].msg = att[w].msg
        BY <4>1 DEF TypeOK, Attempts
      <4>4. SlotOK(w) /\ AuditOK(w)
        BY <3>3, <4>2, <4>3, <1>3 DEF AuditOK, EnqueueAuditCreate, Live
      <4> QED
        BY <3>3, <4>1, <4>4 DEF EnqueueAuditCreate, TypeOK
    <3>4. CASE \/ MarkRunning(w) \/ MarkSucceeded(w) \/ MarkFailed(w)
               \/ EnqueueAuditKiq(w) \/ OnError(w)
      <4>1. PICK step \in Steps \ {"audit_kiq"} : Goto(w, step)
        BY <3>4 DEF MarkRunning, MarkSucceeded, MarkFailed, EnqueueAuditKiq,
           OnError, Steps
      <4>2. /\ Live(w) /\ att'[w].msg = att[w].msg
            /\ att'[w].step # "audit_kiq"
        <5>1. att'[w].msg = att[w].msg /\ att'[w].step = step
          BY <4>1 DEF Goto, TypeOK, Attempts
        <5> QED
          BY <3>4, <4>1, <5>1 DEF MarkRunning, MarkSucceeded, MarkFailed,
             EnqueueAuditKiq, OnError, Live
      <4>3. SlotOK(w) /\ AuditOK(w)
        BY <4>2, <1>3 DEF AuditOK
      <4> QED
        BY <3>4, <4>1, <4>3 DEF MarkRunning, MarkSucceeded, MarkFailed,
           EnqueueAuditKiq, OnError, Goto, TypeOK
    <3>5. CASE \/ \E out \in {"ok", "error", "timeout"} : GraphEnds(w, out)
               \/ FinalMetadata(w) \/ CallRaises(w)
      <4>1. att[w] \in Attempts
        BY DEF TypeOK
      <4>2. /\ att'[w].msg = att[w].msg /\ att'[w].step # "audit_kiq"
            /\ Live(w)
        <5>1. CASE \E out \in {"ok", "error", "timeout"} : GraphEnds(w, out)
          BY <5>1, <4>1 DEF GraphEnds, TypeOK, Attempts, Live
        <5>2. CASE FinalMetadata(w)
          BY <5>2, <4>1 DEF FinalMetadata, TypeOK, Attempts, Live
        <5>3. CASE CallRaises(w)
          BY <5>3, <4>1 DEF CallRaises, TypeOK, Attempts, Live
        <5> QED
          BY <3>5, <5>1, <5>2, <5>3
      <4>3. SlotOK(w) /\ AuditOK(w)
        BY <4>2, <1>3 DEF AuditOK
      <4> QED
        BY <3>5, <4>3 DEF GraphEnds, FinalMetadata, CallRaises, TypeOK
    <3> QED
      BY <2>2, <3>1, <3>2, <3>3, <3>4, <3>5 DEF TaskStep
  <2>3. CASE Tick
    <3>1. ASSUME NEW w \in Workers
          PROVE  /\ att'[w].step = att[w].step /\ att'[w].msg = att[w].msg
                 /\ att'[w].audit = att[w].audit
      BY <2>3 DEF Tick, TypeOK, Attempts
    <3>2. ASSUME NEW w \in Workers PROVE SlotOK(w) /\ AuditOK(w)
      BY <3>1, <1>g DEF SlotOK, AuditOK, Wired, Grows, Live
    <3>3. req' = req
      BY <2>3 DEF Tick
    <3> QED
      BY <3>2, <3>3, <1>4
  <2>4. CASE UNCHANGED vars
    BY <2>4, <1>2, <1>4 DEF vars
  <2>5. ASSUME NEW q \in Requests, RequestStep(q) \/ RequestDies(q)
        PROVE  \A w \in Workers : SlotOK(w) /\ AuditOK(w)
    BY <2>1, <2>5, <1>2
  <2>6. ASSUME NEW w \in Workers,
               Listen(w) \/ TaskStep(w) \/ CallRaises(w) \/ OnErrorRaises(w) \/ WorkerDies(w)
        PROVE  /\ \A v \in Workers : SlotOK(v) /\ AuditOK(v)
               /\ \A q \in Requests : ReqOK(q)
    BY <2>2, <2>6, <1>2, <1>4
  <2> QED
    BY <2>1, <2>3, <2>4, <2>5, <2>6 DEF Next
<1> QED
  BY <1>1, <1>5 DEF Wired, SlotOK, AuditOK, ReqOK

(* The tables, the stream, the slots and the calls always have the shape     *)
(* the code gives them.                                                      *)
THEOREM TypeCorrect == Spec => []TypeOK
<1>1. Init => TypeOK /\ Wired
  BY InitTyped
<1>2. TypeOK /\ Wired /\ [Next]_vars => (TypeOK /\ Wired)'
  BY NextTyped, NextWired
<1> QED
  BY <1>1, <1>2, PTL DEF Spec

(* Every message names a recorded run (workflows/router.py:160): the row is  *)
(* inserted before the task is enqueued, by the API and by the chaining      *)
(* worker alike, and no step removes it.                                     *)
THEOREM MessagesHaveRows == Spec => []RowBeforeMessage
<1>1. Init => TypeOK /\ Wired
  BY InitTyped
<1>2. TypeOK /\ Wired /\ [Next]_vars => (TypeOK /\ Wired)'
  BY NextTyped, NextWired
<1>3. Wired => RowBeforeMessage
  BY DEF Wired
<1> QED
  BY <1>1, <1>2, <1>3, PTL DEF Spec

-----------------------------------------------------------------------------
(* NoDoubleRun needs to know why no slot ever takes a message another slot   *)
(* holds: a held message is pending, and it has not been idle longer than    *)
(* the graph has run, which the time budget bounds.                          *)
Age(w) == stream[att[w].msg].age

InBudget(w) ==
  Live(w) => /\ stream[att[w].msg].state = "pending"
             /\ Age(w) <= Timeout[WorkflowOf(w)]
             /\ att[w].step \in {"mark_running", "graph"} =>
                   Age(w) <= att[w].spent /\ att[w].spent <= Timeout[WorkflowOf(w)]

Exclusive == NoDoubleRun /\ \A w \in Workers : InBudget(w)

(* The steps of a slot that leave its message and its clocks alone.          *)
Bookkeeping(w) ==
  /\ Live(w)
  /\ \A v \in Workers : v # w => att'[v] = att[v]
  /\ att'[w].msg = att[w].msg /\ att'[w].step # "idle"
  /\ att'[w].step = "graph" => att[w].step = "mark_running"
                               /\ att'[w].spent = att[w].spent
  /\ att'[w].step # "mark_running"
  /\ \A m \in Messages : stream[m].state # "free" => stream'[m] = stream[m]

LEMMA KiqKeepsEntries ==
  ASSUME TypeOK, NEW r, NEW retries, Kiq(r, retries)
  PROVE  \A m \in Messages : stream[m].state # "free" => stream'[m] = stream[m]
  BY DEF Kiq, TypeOK

LEMMA TaskStepKinds ==
  ASSUME TypeOK, NEW w \in Workers, TaskStep(w) \/ CallRaises(w)
  PROVE  Ack(w) \/ Bookkeeping(w)
<1>1. att[w] \in Attempts
  BY DEF TypeOK
<1>2. CASE \/ MarkRunning(w) \/ MarkSucceeded(w) \/ MarkFailed(w)
           \/ EnqueueAuditKiq(w) \/ OnError(w)
  <2>1. /\ Live(w)
        /\ \A m \in Messages : stream[m].state # "free" => stream'[m] = stream[m]
    BY <1>2, KiqKeepsEntries DEF MarkRunning, MarkSucceeded, MarkFailed,
       EnqueueAuditKiq, OnError, Live
  <2>2. PICK step \in Steps \ {"idle", "mark_running"} :
           /\ Goto(w, step)
           /\ step = "graph" => att[w].step = "mark_running"
    BY <1>2 DEF MarkRunning, MarkSucceeded, MarkFailed, EnqueueAuditKiq,
       OnError, Steps
  <2>3. /\ \A v \in Workers : v # w => att'[v] = att[v]
        /\ att'[w].msg = att[w].msg /\ att'[w].spent = att[w].spent
        /\ att'[w].step = step
    BY <1>1, <2>2 DEF Goto, TypeOK, Attempts
  <2> QED
    BY <2>1, <2>2, <2>3 DEF Bookkeeping
<1>3. CASE \E out \in {"ok", "error", "timeout"} : GraphEnds(w, out)
  BY <1>1, <1>3 DEF GraphEnds, Bookkeeping, Live, TypeOK, Attempts
<1>4. CASE FinalMetadata(w)
  BY <1>1, <1>4 DEF FinalMetadata, Bookkeeping, Live, TypeOK, Attempts
<1>5. CASE EnqueueAuditCreate(w)
  BY <1>1, <1>5 DEF EnqueueAuditCreate, Bookkeeping, Live, TypeOK, Attempts
<1>6. CASE CallRaises(w)
  BY <1>1, <1>6 DEF CallRaises, Bookkeeping, Live, TypeOK, Attempts
<1> QED
  BY <1>2, <1>3, <1>4, <1>5, <1>6 DEF TaskStep

(* The workflow of a run that is held does not change.                       *)
LEMMA SameWorkflow ==
  ASSUME TypeOK, Wired, [Next]_vars, NEW w \in Workers, Live(w),
         att'[w].msg = att[w].msg
  PROVE  WorkflowOf(w)' = WorkflowOf(w)
<1>1. Grows
  BY NextGrows
<1>2. /\ RunOf(w) \in Runs /\ row[RunOf(w)].status # "ABSENT"
      /\ att[w].msg \in Messages /\ stream[att[w].msg].state # "free"
  BY RunOfTyped DEF Wired
<1>3. RunOf(w)' = RunOf(w)
  BY <1>1, <1>2 DEF Grows, RunOf
<1> QED
  BY <1>1, <1>2, <1>3 DEF Grows, WorkflowOf

LEMMA NextExclusive ==
  ASSUME \A k \in Workflows : Timeout[k] < IdleTimeout,
         TypeOK, Wired, Exclusive, [Next]_vars
  PROVE  Exclusive'
<1>a. \A k \in Workflows : Timeout[k] \in Nat
  BY ConstantsAssumption
<1>i. IdleTimeout \in Nat
  BY ConstantsAssumption
<1>b. ASSUME NEW w \in Workers, Live(w)
      PROVE  /\ att[w].msg \in Messages /\ Age(w) \in Nat /\ att[w].spent \in Nat
             /\ stream[att[w].msg].state = "pending"
             /\ WorkflowOf(w) \in Workflows /\ Timeout[WorkflowOf(w)] \in Nat
             /\ Timeout[WorkflowOf(w)] < IdleTimeout
             /\ Age(w) <= Timeout[WorkflowOf(w)]
  <2>1. att[w].msg \in Messages /\ WorkflowOf(w) \in Workflows
    BY <1>b, RunOfTyped
  <2>2. Age(w) \in Nat /\ att[w].spent \in Nat
    BY <2>1 DEF TypeOK, Entries, Attempts, Age
  <2> QED
    BY <1>a, <1>b, <2>1, <2>2 DEF Exclusive, InBudget
(* A slot whose attempt and message stay as they are stays in budget. *)
<1>c. ASSUME NEW w \in Workers, att'[w] = att[w],
             Live(w) => stream'[att[w].msg] = stream[att[w].msg]
      PROVE  InBudget(w)'
  <2> SUFFICES ASSUME Live(w)' PROVE InBudget(w)'
    BY DEF InBudget
  <2>1. Live(w)
    BY <1>c DEF Live
  <2>2. WorkflowOf(w)' = WorkflowOf(w)
    BY <1>c, <2>1, SameWorkflow
  <2> QED
    BY <1>c, <2>1, <2>2 DEF Exclusive, InBudget, Age
<1>1. ASSUME att' = att, \A m \in Messages :
               stream[m].state # "free" => stream'[m] = stream[m]
      PROVE  Exclusive'
  <2>1. ASSUME NEW w \in Workers PROVE InBudget(w)'
    BY <1>1, <1>b, <1>c
  <2>2. NoDoubleRun'
    BY <1>1 DEF Exclusive, NoDoubleRun, Live
  <2> QED
    BY <2>1, <2>2 DEF Exclusive
<1>2. ASSUME NEW w \in Workers, NEW m \in Messages, Begin(w, m),
             att[w].step = "idle",
             \/ stream[m].state = "queued"
             \/ stream[m].state = "pending" /\ stream[m].age >= IdleTimeout
      PROVE  Exclusive'
  <2>1. ASSUME NEW v \in Workers, Live(v) PROVE att[v].msg # m
    BY <1>2, <1>b, <1>i, <2>1 DEF Age
  <2>2. /\ att'[w].msg = m /\ att'[w].step = "mark_running" /\ att'[w].spent = 0
        /\ \A v \in Workers : v # w => att'[v] = att[v]
    BY <1>2 DEF Begin, Attempt, TypeOK
  <2>3. /\ stream'[m].state = "pending" /\ stream'[m].age = 0
        /\ \A p \in Messages : p # m => stream'[p] = stream[p]
    BY <1>2 DEF Begin, TypeOK, Entries
  <2>4. ASSUME NEW v \in Workers, v # w PROVE InBudget(v)'
    BY <2>1, <2>2, <2>3, <2>4, <1>b, <1>c
  <2>5. InBudget(w)'
    <3>1. TypeOK' /\ Wired' /\ Live(w)'
      BY <2>2, NextTyped, NextWired DEF Live
    <3>2. WorkflowOf(w)' \in Workflows
      BY <3>1 DEF TypeOK, Wired, RowBeforeMessage, RunOf, WorkflowOf, Rows
    <3>3. 0 <= Timeout[WorkflowOf(w)']
      BY <3>2, <1>a
    <3> QED
      BY <2>2, <2>3, <3>3 DEF InBudget, Age
  <2>6. NoDoubleRun'
    BY <2>1, <2>2 DEF Exclusive, NoDoubleRun, Live
  <2> QED
    BY <2>4, <2>5, <2>6 DEF Exclusive
<1>3. ASSUME NEW w \in Workers, Bookkeeping(w) PROVE Exclusive'
  <2>1. ASSUME NEW v \in Workers, v # w PROVE InBudget(v)'
    BY <1>3, <1>b, <1>c, <2>1 DEF Bookkeeping
  <2>2. InBudget(w)'
    <3>1. WorkflowOf(w)' = WorkflowOf(w)
      BY <1>3, SameWorkflow DEF Bookkeeping
    <3>2. stream'[att'[w].msg] = stream[att[w].msg]
      BY <1>3, <1>b DEF Bookkeeping
    <3> QED
      BY <1>3, <3>1, <3>2 DEF Exclusive, InBudget, Bookkeeping, Age
  <2>3. NoDoubleRun'
    BY <1>3 DEF Exclusive, NoDoubleRun, Bookkeeping, Live
  <2> QED
    BY <2>1, <2>2, <2>3 DEF Exclusive
<1>4. ASSUME NEW w \in Workers, Ack(w) \/ OnErrorRaises(w) \/ WorkerDies(w) PROVE Exclusive'
  <2>1. /\ Live(w) /\ att'[w].step = "idle"
        /\ \A v \in Workers : v # w => att'[v] = att[v]
    BY <1>4 DEF Ack, OnErrorRaises, WorkerDies, Live, NoAttempt, Attempt, TypeOK
  <2>2. \A p \in Messages : p # att[w].msg => stream'[p] = stream[p]
    BY <1>4 DEF Ack, OnErrorRaises, WorkerDies, TypeOK
  <2>3. ASSUME NEW v \in Workers, v # w PROVE InBudget(v)'
    <3>1. Live(v) => att[v].msg # att[w].msg
      BY <2>1, <2>3 DEF Exclusive, NoDoubleRun
    <3> QED
      BY <2>1, <2>2, <2>3, <3>1, <1>b, <1>c
  <2>4. NoDoubleRun' /\ InBudget(w)'
    BY <2>1 DEF Exclusive, NoDoubleRun, InBudget, Live
  <2> QED
    BY <2>3, <2>4 DEF Exclusive
<1>5. CASE Tick
  <2>1. ASSUME NEW w \in Workers
        PROVE  att'[w].step = att[w].step /\ att'[w].msg = att[w].msg
    BY <1>5 DEF Tick, TypeOK, Attempts
  <2>2. ASSUME NEW w \in Workers, Live(w) PROVE InBudget(w)'
    <3>1. /\ att[w].step = "graph" /\ att[w].spent < Timeout[WorkflowOf(w)]
          /\ att'[w].spent = att[w].spent + 1
      BY <1>5, <2>2 DEF Tick, Live, TypeOK, Attempts
    <3>2. /\ stream'[att[w].msg].state = stream[att[w].msg].state
          /\ \/ stream'[att[w].msg].age = stream[att[w].msg].age
             \/ stream'[att[w].msg].age = stream[att[w].msg].age + 1
      BY <1>5, <1>b, <2>2 DEF Tick, TypeOK, Entries
    <3>3. WorkflowOf(w)' = WorkflowOf(w)
      BY <2>1, <2>2, SameWorkflow
    <3>4. Age(w) <= att[w].spent
      BY <2>2, <3>1 DEF Exclusive, InBudget
    <3> QED
      BY <2>1, <2>2, <1>b, <3>1, <3>2, <3>3, <3>4 DEF InBudget, Age
  <2>3. ASSUME NEW w \in Workers PROVE InBudget(w)'
    BY <2>1, <2>2 DEF InBudget, Live
  <2>4. NoDoubleRun'
    BY <2>1 DEF Exclusive, NoDoubleRun, Live
  <2> QED
    BY <2>3, <2>4 DEF Exclusive
<1>6. ASSUME NEW q \in Requests, RequestStep(q) \/ RequestDies(q)
      PROVE  Exclusive'
  <2>1. att' = att /\ \A m \in Messages :
                         stream[m].state # "free" => stream'[m] = stream[m]
    BY <1>6, KiqKeepsEntries DEF RequestStep, SubmitCreate, PostAuditCreate,
       RequestKiq, SubmitSetMetadata, RequestDies
  <2> QED
    BY <2>1, <1>1
<1>7. ASSUME NEW w \in Workers, Listen(w) PROVE Exclusive'
  BY <1>7, <1>2 DEF Listen, Deliver, Reclaim
<1>8. CASE UNCHANGED vars
  BY <1>8, <1>1 DEF vars
<1> QED
  BY <1>3, <1>4, <1>5, <1>6, <1>7, <1>8, TaskStepKinds DEF Next

(* config.py:20: when the idle timeout exceeds every workflow's time budget, *)
(* no task that is still running is reclaimed and run twice, for any number  *)
(* of workers, runs, crashes and failing calls.                              *)
THEOREM NoRunIsDoubled ==
  ASSUME \A k \in Workflows : Timeout[k] < IdleTimeout
  PROVE  Spec => []NoDoubleRun
<1>1. Init => TypeOK /\ Wired /\ Exclusive
  <2>1. Init => Exclusive
    BY DEF Init, Exclusive, NoDoubleRun, InBudget, Live, NoAttempt, Attempt
  <2> QED
    BY <2>1, InitTyped
<1>2. TypeOK /\ Wired /\ Exclusive /\ [Next]_vars => (TypeOK /\ Wired /\ Exclusive)'
  BY NextTyped, NextWired, NextExclusive
<1>3. Exclusive => NoDoubleRun
  BY DEF Exclusive
<1> QED
  BY <1>1, <1>2, <1>3, PTL DEF Spec

-----------------------------------------------------------------------------
(* The contract.  A step of a worker may only stop owing a run that has      *)
(* ended, so a run that has not ended must be owed by a message whose        *)
(* attempt, if any, still has its result to write: such a message is open.   *)
Closing(w) == att[w].step \in {"audit_create", "audit_kiq", "on_error", "ack"}
Open(m) == Unacked(m) /\ \A w \in Workers : Closing(w) => att[w].msg # m

OpenWhileUnfinished ==
  \A r \in Runs :
     row[r].status = "RUNNING" \/ (row[r].status = "QUEUED" /\ Owed(r)) =>
        \E m \in Messages : Open(m) /\ stream[m].run = r

(* No call has failed: MaxFaults is 0 where the contract is claimed.         *)
Faultless == faults = 0

Sound == TypeOK /\ Wired /\ Exclusive /\ OpenWhileUnfinished /\ Faultless

LEMMA NextFaultless ==
  ASSUME MaxFaults = 0, TypeOK, Faultless, [Next]_vars PROVE Faultless'
<1>1. ~(faults < MaxFaults)
  BY DEF Faultless
<1>2. ASSUME NEW q \in Requests, RequestStep(q) \/ RequestDies(q)
      PROVE  faults' = faults
  BY <1>1, <1>2 DEF RequestStep, SubmitCreate, PostAuditCreate, RequestKiq,
     SubmitSetMetadata, RequestDies
<1>3. ASSUME NEW w \in Workers, Listen(w) PROVE faults' = faults
  BY <1>3 DEF Listen, Deliver, Reclaim, Begin
<1>4. ASSUME NEW w \in Workers, TaskStep(w) PROVE faults' = faults
  BY <1>4 DEF TaskStep, MarkRunning, GraphEnds, FinalMetadata, MarkSucceeded,
     MarkFailed, EnqueueAuditCreate, EnqueueAuditKiq, OnError, Ack
<1>5. ASSUME NEW w \in Workers, CallRaises(w) \/ OnErrorRaises(w) \/ WorkerDies(w)
      PROVE  faults' = faults
  BY <1>1, <1>5 DEF CallRaises, OnErrorRaises, WorkerDies
<1>6. CASE Tick \/ UNCHANGED vars
  BY <1>6 DEF Tick, vars, Faultless
<1> QED
  BY <1>2, <1>3, <1>4, <1>5, <1>6 DEF Next, Faultless

(* A live attempt's message is unacknowledged, so its run is owed.           *)
LEMMA LiveOwed ==
  ASSUME TypeOK, Wired, Exclusive, NEW w \in Workers, Live(w)
  PROVE  RunOf(w) \in Runs /\ att[w].msg \in Messages /\ Unacked(att[w].msg)
         /\ Owed(RunOf(w))
<1>1. RunOf(w) \in Runs /\ att[w].msg \in Messages
  BY RunOfTyped
<1>2. Unacked(att[w].msg)
  BY DEF Exclusive, InBudget, Unacked
<1> QED
  BY <1>1, <1>2 DEF Owed, RunOf

(* What Kiq does to the runs that are owed and to the open messages.         *)
LEMMA KiqHandsOut ==
  ASSUME Sound, NEW r \in Runs, NEW retries, Kiq(r, retries)
  PROVE  /\ Owed(r)'
         /\ \A p \in Runs : p # r => (Owed(p)' <=> Owed(p))
         /\ \E m \in Messages : /\ stream[m].state = "free"
                                /\ Unacked(m)' /\ stream'[m].run = r
         /\ \A m \in Messages : stream[m].state # "free" => stream'[m] = stream[m]
<1>1. PICK m \in Messages :
         /\ stream[m].state = "free"
         /\ stream' = [stream EXCEPT ![m] = [state |-> "queued", run |-> r,
                                             retries |-> retries, age |-> 0]]
  BY DEF Kiq
<1>2. /\ stream'[m].state = "queued" /\ stream'[m].run = r
      /\ \A p \in Messages : p # m => stream'[p] = stream[p]
  BY <1>1 DEF Sound, TypeOK
<1>3. Unacked(m)' /\ ~Unacked(m)
  BY <1>1, <1>2 DEF Unacked
<1>4. Owed(r)'
  BY <1>2, <1>3 DEF Owed
<1>5. ASSUME NEW p \in Runs, p # r PROVE Owed(p)' <=> Owed(p)
  BY <1>2, <1>3, <1>5 DEF Owed, Unacked
<1> QED
  BY <1>1, <1>2, <1>3, <1>4, <1>5

(* Creating a row: only that row changes, and nobody owes it yet.            *)
LEMMA CreateRecords ==
  ASSUME Sound, NEW r \in Runs, NEW workflow, NEW of, NEW auto, NEW dossier,
         Create(r, workflow, of, auto, dossier)
  PROVE  /\ row[r].status = "ABSENT" /\ ~Owed(r) /\ row'[r].status = "QUEUED"
         /\ \A p \in Runs : p # r => row'[p] = row[p]
<1>1. row[r].status = "ABSENT" /\ row'[r].status = "QUEUED"
      /\ \A p \in Runs : p # r => row'[p] = row[p]
  BY DEF Create, Sound, TypeOK
<1>2. ~Owed(r)
  BY <1>1 DEF Sound, Wired, RowBeforeMessage, Owed, Unacked
<1> QED
  BY <1>1, <1>2

Status == [r \in Runs |-> row[r].status]
OwedMap == [r \in Runs |-> Owed(r)]
Maps == [Contract!Next]_<<Status, OwedMap>>
Keeps == OpenWhileUnfinished'

(* A step that changes neither a status nor what the stream owes, and closes *)
(* no message.                                                               *)
LEMMA StutterMaps ==
  ASSUME Sound,
         \A r \in Runs : row'[r].status = row[r].status,
         \A m \in Messages : stream'[m].run = stream[m].run
                             /\ (Unacked(m)' <=> Unacked(m))
  PROVE  Maps
<1>1. \A r \in Runs : Owed(r)' <=> Owed(r)
  BY DEF Owed
<1>2. Status' = Status
  BY DEF Status
<1>3. OwedMap' = OwedMap
  BY <1>1 DEF OwedMap, Owed, Unacked
<1> QED
  BY <1>2, <1>3 DEF Maps

LEMMA RecordMaps ==
  ASSUME Sound, NEW r \in Runs, NEW workflow, NEW of, NEW auto, NEW dossier,
         Create(r, workflow, of, auto, dossier), stream' = stream
  PROVE  Maps
<1>1. Status[r] = "ABSENT" /\ Status' = [Status EXCEPT ![r] = "QUEUED"]
  BY CreateRecords DEF Status
<1>2. OwedMap' = OwedMap
  BY DEF OwedMap, Owed, Unacked
<1>3. Contract!Record(r)
  BY <1>1, <1>2 DEF Contract!Record, Status, OwedMap
<1> QED
  BY <1>3 DEF Maps, Contract!Next, Status, OwedMap

LEMMA HandOutMaps ==
  ASSUME Sound, NEW r \in Runs, NEW retries, row[r].status # "ABSENT",
         Kiq(r, retries), row' = row
  PROVE  Maps
<1>1. Status[r] # "ABSENT" /\ Status' = Status
  BY DEF Status
<1>2. OwedMap' = [OwedMap EXCEPT ![r] = TRUE]
  <2>1. /\ Owed(r)' = TRUE
        /\ \A p \in Runs : p # r => (Owed(p)' = Owed(p))
    BY KiqHandsOut DEF Owed, Unacked
  <2> QED
    BY <2>1 DEF OwedMap, Owed, Unacked
<1>3. Contract!HandOut(r)
  BY <1>1, <1>2 DEF Contract!HandOut, Status, OwedMap
<1> QED
  BY <1>3 DEF Maps, Contract!Next, Status, OwedMap

LEMMA ProgressMaps ==
  ASSUME Sound, NEW w \in Workers, Live(w), stream' = stream,
         NEW s \in {"RUNNING", "SUCCEEDED", "FAILED"},
         row'[RunOf(w)].status = s,
         \A r \in Runs : r # RunOf(w) => row'[r].status = row[r].status
  PROVE  Maps
<1>0. PICK run \in Runs : run = RunOf(w) /\ Owed(run)
  BY LiveOwed DEF Sound
<1>1. OwedMap[run]
  BY <1>0 DEF OwedMap
<1>2. Status' = [Status EXCEPT ![run] = s]
  BY <1>0 DEF Status
<1>3. OwedMap' = OwedMap
  BY DEF OwedMap, Owed, Unacked
<1>4. Contract!Start(run) \/ Contract!Settle(run)
  BY <1>1, <1>2, <1>3 DEF Contract!Start, Contract!Settle, Status, OwedMap
<1> QED
  BY <1>1, <1>4 DEF Maps, Contract!Next, Status, OwedMap

LEMMA Unset ==
  ASSUME NEW S, NEW f \in [S -> BOOLEAN], NEW g \in [S -> BOOLEAN], NEW e \in S,
         \A x \in S : g[x] <=> x # e /\ f[x]
  PROVE  g = [f EXCEPT ![e] = FALSE]
<1> DEFINE h == [f EXCEPT ![e] = FALSE]
<1>1. \A x \in S : g[x] = h[x]
  <2> TAKE x \in S
  <2>1. g[x] \in BOOLEAN /\ f[x] \in BOOLEAN
    OBVIOUS
  <2>2. CASE x = e
    BY <2>1, <2>2
  <2>3. CASE x # e
    BY <2>1, <2>3
  <2> QED
    BY <2>2, <2>3
<1>2. h \in [S -> BOOLEAN]
  OBVIOUS
<1> QED
  BY <1>1, <1>2

LEMMA AckMaps ==
  ASSUME Sound, NEW w \in Workers, Ack(w) PROVE Maps
<1>1. PICK run \in Runs, msg \in Messages :
         /\ run = RunOf(w) /\ msg = att[w].msg /\ Owed(run)
         /\ stream[msg].run = run
  BY LiveOwed DEF Sound, Ack, Live, RunOf
<1>2. /\ stream'[msg].state = "acked" /\ stream'[msg].run = stream[msg].run
      /\ \A m \in Messages : m # msg => stream'[m] = stream[m]
  BY <1>1 DEF Ack, Sound, TypeOK, Entries
<1>3. ASSUME NEW r \in Runs, r # run PROVE Owed(r)' <=> Owed(r)
  BY <1>1, <1>2, <1>3 DEF Owed, Unacked
<1>4. Status' = Status
  BY DEF Ack, Status
<1>5. CASE Owed(run)'
  <2>1. OwedMap' = OwedMap
    BY <1>1, <1>3, <1>5 DEF OwedMap, Owed, Unacked
  <2> QED
    BY <1>4, <2>1 DEF Maps, Status, OwedMap
<1>6. CASE ~Owed(run)'
  <2>1. ~\E m \in Messages : Open(m) /\ stream[m].run = run
    <3> SUFFICES ASSUME NEW m \in Messages, Open(m), stream[m].run = run
                 PROVE  FALSE
      OBVIOUS
    <3>1. m # msg
      BY <1>1 DEF Open, Closing, Ack
    <3>2. stream'[m] = stream[m] /\ Unacked(m)
      BY <1>2, <3>1 DEF Open
    <3>3. Unacked(m)' /\ stream'[m].run = run
      BY <3>2 DEF Unacked
    <3> QED
      BY <1>6, <3>3 DEF Owed
  <2>2. row[run].status \in Finished
    <3>1. row[run].status \in Statuses \ {"ABSENT"}
      BY <1>1, RunOfTyped DEF Sound, TypeOK, Rows, Ack, Live
    <3> QED
      BY <1>1, <2>1, <3>1 DEF Sound, OpenWhileUnfinished, Statuses, Finished
  <2>3. OwedMap' = [OwedMap EXCEPT ![run] = FALSE] /\ OwedMap[run]
    <3>1. OwedMap[run]
      BY <1>1 DEF OwedMap
    <3>2. /\ OwedMap \in [Runs -> BOOLEAN] /\ OwedMap' \in [Runs -> BOOLEAN]
          /\ \A r \in Runs : (OwedMap[r] <=> Owed(r)) /\ (OwedMap'[r] <=> Owed(r)')
      BY DEF OwedMap, Owed
    <3>3. \A r \in Runs : OwedMap'[r] <=> r # run /\ OwedMap[r]
      BY <1>3, <1>6, <3>2
    <3> QED
      BY <3>1, <3>2, <3>3, Unset
  <2>4. Status[run] \in {"SUCCEEDED", "FAILED"}
    BY <1>1, <2>2 DEF Status, Finished
  <2>5. Contract!Discharge(run)
    BY <1>4, <2>3, <2>4 DEF Contract!Discharge, Status, OwedMap
  <2> QED
    BY <1>1, <2>5 DEF Maps, Contract!Next, Status, OwedMap
<1> QED
  BY <1>5, <1>6

LEMMA NextMaps ==
  ASSUME MaxFaults = 0, Sound, [Next]_vars PROVE Maps
<1>1. ASSUME NEW q \in Requests, RequestStep(q) PROVE Maps
  <2>1. CASE SubmitCreate(q)
    BY <2>1, RecordMaps DEF SubmitCreate
  <2>2. CASE PostAuditCreate(q)
    BY <2>2, RecordMaps DEF PostAuditCreate
  <2>3. CASE RequestKiq(q)
    <3>1. req[q].run \in Runs /\ row[req[q].run].status # "ABSENT"
      BY <2>3 DEF RequestKiq, Sound, Wired
    <3> QED
      BY <2>3, <3>1, HandOutMaps DEF RequestKiq
  <2>4. CASE SubmitSetMetadata(q)
    <3>1. /\ \A r \in Runs : row'[r].status = row[r].status
          /\ stream' = stream
      BY <2>4 DEF SubmitSetMetadata, Sound, TypeOK, Rows
    <3> QED
      BY <3>1, StutterMaps DEF Unacked
  <2> QED
    BY <1>1, <2>1, <2>2, <2>3, <2>4 DEF RequestStep
<1>3. ASSUME NEW w \in Workers, Listen(w) PROVE Maps
  <2>1. PICK m \in Messages : Begin(w, m) /\ Unacked(m)
    BY <1>3 DEF Listen, Deliver, Reclaim, Unacked
  <2>2. /\ row' = row
        /\ \A p \in Messages : stream'[p].run = stream[p].run
                               /\ (Unacked(p)' <=> Unacked(p))
    BY <2>1 DEF Begin, Unacked, Sound, TypeOK, Entries
  <2> QED
    BY <2>2, StutterMaps
<1>4. ASSUME NEW w \in Workers, TaskStep(w) PROVE Maps
  <2>0. Live(w)
    BY <1>4 DEF TaskStep, MarkRunning, GraphEnds, FinalMetadata, MarkSucceeded,
       MarkFailed, EnqueueAuditCreate, EnqueueAuditKiq, OnError, Ack, Live
  <2>r. RunOf(w) \in Runs /\ row[RunOf(w)].status # "ABSENT"
    BY <2>0, RunOfTyped DEF Sound
  <2>1. CASE MarkRunning(w)
    <3>1. /\ row'[RunOf(w)].status = "RUNNING" /\ stream' = stream
          /\ \A r \in Runs : r # RunOf(w) => row'[r].status = row[r].status
      BY <2>1, <2>r DEF MarkRunning, Sound, TypeOK, Rows
    <3> QED
      BY <2>0, <3>1, ProgressMaps
  <2>2. CASE MarkSucceeded(w) \/ MarkFailed(w)
    <3>1. PICK s \in Finished, result \in {"output", "error"} : Finish(w, s, result)
      BY <2>2 DEF MarkSucceeded, MarkFailed, Finished
    <3>2. /\ row'[RunOf(w)].status = s
          /\ \A r \in Runs : r # RunOf(w) => row'[r].status = row[r].status
      BY <3>1, <2>r DEF Finish, Sound, TypeOK, Rows
    <3>3. stream' = stream
      BY <2>2 DEF MarkSucceeded, MarkFailed
    <3> QED
      BY <2>0, <3>1, <3>2, <3>3, ProgressMaps DEF Finished
  <2>3. CASE \/ \E out \in {"ok", "error", "timeout"} : GraphEnds(w, out)
             \/ FinalMetadata(w)
    <3>1. row' = row /\ stream' = stream
      BY <2>3 DEF GraphEnds, FinalMetadata
    <3> QED
      BY <3>1, StutterMaps DEF Unacked
  <2>4. CASE EnqueueAuditCreate(w)
    BY <2>4, RecordMaps DEF EnqueueAuditCreate
  <2>5. CASE EnqueueAuditKiq(w)
    <3>1. att[w].audit \in Runs /\ row[att[w].audit].status # "ABSENT"
      BY <2>5 DEF EnqueueAuditKiq, Sound, Wired
    <3> QED
      BY <2>5, <3>1, HandOutMaps DEF EnqueueAuditKiq
  <2>6. CASE OnError(w)
    <3>1. CASE UNCHANGED stream
      BY <2>6, <3>1, StutterMaps DEF OnError, Unacked
    <3> QED
      BY <2>6, <3>1, <2>r, HandOutMaps DEF OnError
  <2>7. CASE Ack(w)
    BY <2>7, AckMaps
  <2> QED
    BY <1>4, <2>1, <2>2, <2>3, <2>4, <2>5, <2>6, <2>7 DEF TaskStep
<1>5. CASE Tick
  <2>1. /\ row' = row
        /\ \A m \in Messages : stream'[m].run = stream[m].run
                               /\ (Unacked(m)' <=> Unacked(m))
    BY <1>5 DEF Tick, Unacked, Sound, TypeOK, Entries
  <2> QED
    BY <2>1, StutterMaps
<1>6. CASE UNCHANGED vars
  BY <1>6, StutterMaps DEF vars, Unacked
<1>7. ASSUME NEW w \in Workers, CallRaises(w) \/ OnErrorRaises(w) \/ WorkerDies(w) PROVE Maps
  <2>1. row' = row /\ stream' = stream
    BY <1>7 DEF CallRaises, OnErrorRaises, WorkerDies
  <2> QED
    BY <2>1, StutterMaps DEF Unacked
<1>8. ASSUME NEW q \in Requests, RequestDies(q) PROVE Maps
  <2>1. row' = row /\ stream' = stream
    BY <1>8 DEF RequestDies
  <2> QED
    BY <2>1, StutterMaps DEF Unacked
<1> QED
  BY <1>1, <1>3, <1>4, <1>5, <1>6, <1>7, <1>8 DEF Next

(* Nothing that has not ended lacks an open message: every open message of a *)
(* run stays open until the run has ended.                                   *)
LEMMA OpenStays ==
  ASSUME Sound,
         \A m \in Messages : Open(m) => Open(m)' /\ stream'[m].run = stream[m].run,
         \A r \in Runs :
            row'[r].status = "RUNNING" \/ (row'[r].status = "QUEUED" /\ Owed(r)') =>
               \/ \E m \in Messages : Open(m)' /\ stream'[m].run = r
               \/ row[r].status = "RUNNING" \/ (row[r].status = "QUEUED" /\ Owed(r))
  PROVE  Keeps
<1> SUFFICES ASSUME NEW r \in Runs,
                    row'[r].status = "RUNNING"
                      \/ (row'[r].status = "QUEUED" /\ Owed(r)')
             PROVE  \E m \in Messages : Open(m)' /\ stream'[m].run = r
  BY DEF Keeps, OpenWhileUnfinished, Open, Unacked, Closing, Owed
<1>1. CASE row[r].status = "RUNNING" \/ (row[r].status = "QUEUED" /\ Owed(r))
  BY <1>1 DEF Sound, OpenWhileUnfinished
<1> QED
  BY <1>1

LEMMA NextOpen ==
  ASSUME MaxFaults = 0, Sound, TypeOK', [Next]_vars PROVE Keeps
(* Steps that touch no status and no message. *)
<1>s. ASSUME \A r \in Runs : row'[r].status = row[r].status,
             \A m \in Messages : stream'[m].run = stream[m].run
                                 /\ (Unacked(m)' <=> Unacked(m)),
             \A m \in Messages : Open(m) => Open(m)'
      PROVE  Keeps
  <2>1. \A r \in Runs : Owed(r)' <=> Owed(r)
    BY <1>s DEF Owed
  <2> QED
    BY <1>s, <2>1, OpenStays
<1>c. ASSUME NEW r \in Runs, NEW workflow, NEW of, NEW auto, NEW dossier,
             Create(r, workflow, of, auto, dossier), stream' = stream,
             \A m \in Messages : Open(m) => Open(m)'
      PROVE  Keeps
  <2>1. /\ ~Owed(r)' /\ row'[r].status = "QUEUED"
        /\ \A p \in Runs : p # r => row'[p] = row[p] /\ (Owed(p)' <=> Owed(p))
    BY <1>c, CreateRecords DEF Owed, Unacked
  <2> QED
    BY <1>c, <2>1, OpenStays
<1>k. ASSUME NEW r \in Runs, NEW retries \in Nat, Kiq(r, retries), row' = row,
             \A w \in Workers : att'[w].msg = att[w].msg,
             \A w \in Workers : Closing(w)' =>
                stream[att[w].msg].state # "free" /\ att[w].msg \in Messages,
             \A w \in Workers : Closing(w)' => Closing(w)
      PROVE  Keeps
  <2>1. PICK m \in Messages : /\ stream[m].state = "free"
                              /\ Unacked(m)' /\ stream'[m].run = r
    BY <1>k, KiqHandsOut
  <2>2. Open(m)'
    BY <1>k, <2>1 DEF Open
  <2>3. ASSUME NEW p \in Messages, Open(p)
        PROVE  Open(p)' /\ stream'[p].run = stream[p].run
    <3>1. stream'[p] = stream[p]
      BY <1>k, <2>3, KiqHandsOut DEF Open, Unacked
    <3> QED
      BY <1>k, <2>3, <3>1 DEF Open, Unacked
  <2>4. \A p \in Runs : p # r => (Owed(p)' <=> Owed(p))
    BY <1>k, KiqHandsOut
  <2> QED
    BY <1>k, <2>1, <2>2, <2>3, <2>4, OpenStays
<1>1. ASSUME NEW q \in Requests, RequestStep(q) PROVE Keeps
  <2>a. att' = att
    BY <1>1 DEF RequestStep, SubmitCreate, PostAuditCreate, RequestKiq,
       SubmitSetMetadata
  <2>1. CASE SubmitCreate(q) \/ PostAuditCreate(q)
    <3>1. stream' = stream
      BY <2>1 DEF SubmitCreate, PostAuditCreate
    <3>2. \A m \in Messages : Open(m) => Open(m)'
      BY <2>a, <3>1 DEF Open, Unacked, Closing
    <3>3. CASE SubmitCreate(q)
      BY <3>1, <3>2, <3>3, <1>c DEF SubmitCreate
    <3>4. CASE PostAuditCreate(q)
      BY <3>1, <3>2, <3>4, <1>c DEF PostAuditCreate
    <3> QED
      BY <2>1, <3>3, <3>4
  <2>2. CASE RequestKiq(q)
    <3>1. req[q].run \in Runs /\ 0 \in Nat
      BY <2>2 DEF RequestKiq, Sound, Wired
    <3>2. \A w \in Workers : Closing(w)' => Closing(w) /\ Live(w)
      BY <2>a DEF Closing, Live
    <3>3. \A w \in Workers : Closing(w)' =>
             stream[att[w].msg].state # "free" /\ att[w].msg \in Messages
      BY <3>2 DEF Sound, Wired
    <3> QED
      BY <2>2, <2>a, <3>1, <3>2, <3>3, <1>k DEF RequestKiq
  <2>3. CASE SubmitSetMetadata(q)
    <3>1. stream' = stream /\ \A r \in Runs : row'[r].status = row[r].status
      BY <2>3 DEF SubmitSetMetadata, Sound, TypeOK, Rows
    <3> QED
      BY <2>a, <3>1, <1>s DEF Open, Unacked, Closing
  <2> QED
    BY <1>1, <2>1, <2>2, <2>3 DEF RequestStep
<1>2. ASSUME NEW w \in Workers, Listen(w) PROVE Keeps
  <2>1. PICK m \in Messages : Begin(w, m) /\ Unacked(m)
    BY <1>2 DEF Listen, Deliver, Reclaim, Unacked
  <2>2. /\ row' = row
        /\ \A p \in Messages : stream'[p].run = stream[p].run
                               /\ (Unacked(p)' <=> Unacked(p))
    BY <2>1 DEF Begin, Unacked, Sound, TypeOK, Entries
  <2>3. \A v \in Workers : Closing(v)' => Closing(v) /\ att'[v] = att[v]
    BY <2>1 DEF Begin, Attempt, Closing, Sound, TypeOK
  <2> QED
    BY <2>2, <2>3, <1>s DEF Open
<1>3. ASSUME NEW w \in Workers, TaskStep(w) PROVE Keeps
  <2>0. Live(w)
    BY <1>3 DEF TaskStep, MarkRunning, GraphEnds, FinalMetadata, MarkSucceeded,
       MarkFailed, EnqueueAuditCreate, EnqueueAuditKiq, OnError, Ack, Live
  <2>r. PICK run \in Runs, msg \in Messages :
           /\ run = RunOf(w) /\ msg = att[w].msg /\ Unacked(msg)
           /\ stream[msg].run = run /\ stream[msg].retries + 1 \in Nat
    <3>1. RunOf(w) \in Runs /\ att[w].msg \in Messages /\ Unacked(att[w].msg)
      BY <2>0, LiveOwed DEF Sound
    <3>2. stream[att[w].msg].retries + 1 \in Nat
      BY <3>1 DEF Sound, TypeOK, Entries
    <3> QED
      BY <3>1, <3>2 DEF RunOf
  <2>a. att[w] \in Attempts /\ \A v \in Workers : v # w => att'[v] = att[v]
    BY <1>3, TaskStepKinds DEF Sound, TypeOK, Bookkeeping, Ack
  <2>o. ASSUME NEW v \in Workers, v # w, Closing(v) PROVE att[v].msg # msg
    BY <2>0, <2>r, <2>o DEF Sound, Exclusive, NoDoubleRun, Live, Closing
  <2>1. CASE MarkRunning(w)
    <3>1. /\ row'[run].status = "RUNNING" /\ stream' = stream
          /\ \A r \in Runs : r # run => row'[r] = row[r]
      BY <2>1, <2>r DEF MarkRunning, Sound, TypeOK, Rows
    <3>2. ~Closing(w) /\ ~Closing(w)' /\ att'[w].msg = att[w].msg
      BY <2>1, <2>a DEF MarkRunning, Goto, Closing, Sound, TypeOK, Attempts
    <3>3. \A m \in Messages : Open(m)' <=> Open(m)
      BY <2>a, <3>1, <3>2 DEF Open, Unacked, Closing
    <3>4. Open(msg)
      BY <2>r, <2>o, <3>2 DEF Open
    <3>5. \A r \in Runs : Owed(r)' <=> Owed(r)
      BY <3>1 DEF Owed, Unacked
    <3> QED
      BY <2>r, <3>1, <3>3, <3>4, <3>5, OpenStays
  <2>2. CASE MarkSucceeded(w) \/ MarkFailed(w)
    <3>1. PICK s \in Finished, result \in {"output", "error"} : Finish(w, s, result)
      BY <2>2 DEF MarkSucceeded, MarkFailed, Finished
    <3>2. stream' = stream
      BY <2>2 DEF MarkSucceeded, MarkFailed
    <3>3. /\ row'[run].status = s
          /\ \A r \in Runs : r # run => row'[r] = row[r]
      BY <3>1, <2>r DEF Finish, Sound, TypeOK, Rows
    <3>4. att'[w].msg = att[w].msg
      BY <2>2, <2>a DEF MarkSucceeded, MarkFailed, Goto, Sound, TypeOK, Attempts
    <3> SUFFICES ASSUME NEW r \in Runs, row'[r].status = "RUNNING"
                                  \/ (row'[r].status = "QUEUED" /\ Owed(r)')
                 PROVE  \E m \in Messages : Open(m)' /\ stream'[m].run = r
      BY DEF Keeps, OpenWhileUnfinished, Open, Unacked, Closing, Owed
    <3>5. r # run
      BY <3>3 DEF Finished
    <3>6. PICK m \in Messages : Open(m) /\ stream[m].run = r
      BY <3>2, <3>3, <3>5 DEF Sound, OpenWhileUnfinished, Owed, Unacked
    <3>7. m # msg
      BY <2>r, <3>5, <3>6
    <3> QED
      BY <2>a, <2>r, <3>2, <3>4, <3>6, <3>7 DEF Open, Unacked, Closing
  <2>3. CASE \/ \E out \in {"ok", "error", "timeout"} : GraphEnds(w, out)
             \/ FinalMetadata(w)
    <3>1. row' = row /\ stream' = stream
      BY <2>3 DEF GraphEnds, FinalMetadata
    <3>2. ~Closing(w)'
      <4>1. CASE \E out \in {"ok", "error", "timeout"} : GraphEnds(w, out)
        BY <4>1, <2>a DEF GraphEnds, Closing, Sound, TypeOK, Attempts
      <4>2. CASE FinalMetadata(w)
        BY <4>2, <2>a DEF FinalMetadata, Closing, Sound, TypeOK, Attempts
      <4> QED
        BY <2>3, <4>1, <4>2
    <3> QED
      BY <2>a, <3>1, <3>2, <1>s DEF Open, Unacked, Closing
  <2>4. CASE EnqueueAuditCreate(w)
    <3>1. stream' = stream /\ Closing(w)
      BY <2>4 DEF EnqueueAuditCreate, Closing
    <3>2. att'[w].msg = att[w].msg
      BY <2>4, <2>a DEF EnqueueAuditCreate, Sound, TypeOK, Attempts
    <3>3. \A m \in Messages : Open(m) => Open(m)'
      BY <2>a, <3>1, <3>2 DEF Open, Unacked, Closing
    <3> QED
      BY <2>4, <3>1, <3>3, <1>c DEF EnqueueAuditCreate
  <2>5. CASE EnqueueAuditKiq(w) \/ OnError(w)
    <3>1. /\ Closing(w) /\ row' = row /\ Goto(w, "ack")
          /\ \/ UNCHANGED stream
             \/ \E r \in Runs, retries \in Nat : Kiq(r, retries)
      <4>1. CASE EnqueueAuditKiq(w)
        BY <4>1 DEF EnqueueAuditKiq, Closing, Sound, Wired
      <4>2. CASE OnError(w)
        BY <4>2, <2>r DEF OnError, Closing
      <4> QED
        BY <2>5, <4>1, <4>2
    <3>2. att'[w].msg = att[w].msg
      BY <2>a, <3>1 DEF Goto, Sound, TypeOK, Attempts
    <3>3. \A v \in Workers : Closing(v)' => Closing(v) /\ Live(v)
      BY <2>a, <3>1 DEF Closing, Live
    <3>4. \A v \in Workers : Closing(v)' =>
             stream[att[v].msg].state # "free" /\ att[v].msg \in Messages
      BY <3>3 DEF Sound, Wired
    <3>5. \A v \in Workers : att'[v].msg = att[v].msg
      BY <2>a, <3>2
    <3>6. CASE UNCHANGED stream
      BY <3>1, <3>3, <3>5, <3>6, <1>s DEF Open, Unacked
    <3> QED
      BY <3>1, <3>3, <3>4, <3>5, <3>6, <1>k
  <2>6. CASE Ack(w)
    <3>1. /\ row' = row /\ Closing(w) /\ ~Closing(w)'
          /\ \A m \in Messages : m # msg => stream'[m] = stream[m]
          /\ stream'[msg].state = "acked"
      BY <2>6, <2>r DEF Ack, Closing, NoAttempt, Attempt, Sound, TypeOK, Entries
    <3>2. ASSUME NEW m \in Messages, Open(m)
          PROVE  Open(m)' /\ stream'[m].run = stream[m].run
      <4>1. m # msg
        BY <2>r, <3>1, <3>2 DEF Open
      <4> QED
        BY <2>a, <3>1, <3>2, <4>1 DEF Open, Unacked, Closing
    <3>3. \A r \in Runs : Owed(r)' => Owed(r)
      BY <3>1 DEF Owed, Unacked
    <3> QED
      BY <3>1, <3>2, <3>3, OpenStays
  <2> QED
    BY <1>3, <2>1, <2>2, <2>3, <2>4, <2>5, <2>6 DEF TaskStep
<1>4. ASSUME NEW w \in Workers, CallRaises(w) \/ OnErrorRaises(w) \/ WorkerDies(w) PROVE Keeps
  <2>1. row' = row /\ stream' = stream /\ att' = [att EXCEPT ![w] = NoAttempt]
    BY <1>4 DEF CallRaises, OnErrorRaises, WorkerDies, Sound, Faultless
  <2>2. \A v \in Workers : Closing(v)' => Closing(v) /\ att'[v] = att[v]
    BY <2>1 DEF Closing, NoAttempt, Attempt, Sound, TypeOK
  <2> QED
    BY <2>1, <2>2, <1>s DEF Open, Unacked
<1>5. CASE Tick
  <2>1. /\ row' = row
        /\ \A m \in Messages : stream'[m].run = stream[m].run
                               /\ (Unacked(m)' <=> Unacked(m))
    BY <1>5 DEF Tick, Unacked, Sound, TypeOK, Entries
  <2>2. \A w \in Workers : att'[w].step = att[w].step /\ att'[w].msg = att[w].msg
    BY <1>5 DEF Tick, Sound, TypeOK, Attempts
  <2> QED
    BY <2>1, <2>2, <1>s DEF Open, Closing
<1>6. ASSUME NEW q \in Requests, RequestDies(q) PROVE Keeps
  <2>1. row' = row /\ stream' = stream /\ att' = att
    BY <1>6 DEF RequestDies
  <2> QED
    BY <2>1, <1>s DEF Open, Unacked, Closing
<1>7. CASE UNCHANGED vars
  BY <1>7, <1>s DEF vars, Open, Unacked, Closing
<1> QED
  BY <1>1, <1>2, <1>3, <1>4, <1>5, <1>6, <1>7 DEF Next

LEMMA InitSound == Init => Sound
<1> SUFFICES ASSUME Init PROVE Sound
  OBVIOUS
<1>1. TypeOK /\ Wired
  BY InitTyped
<1>2. Exclusive /\ Faultless
  BY DEF Init, Exclusive, NoDoubleRun, InBudget, Live, NoAttempt, Attempt,
     Faultless
<1>3. OpenWhileUnfinished
  BY DEF Init, OpenWhileUnfinished, AbsentRow
<1> QED
  BY <1>1, <1>2, <1>3 DEF Sound

LEMMA NextSound ==
  ASSUME MaxFaults = 0, \A k \in Workflows : Timeout[k] < IdleTimeout,
         Sound, [Next]_vars
  PROVE  Sound'
<1>1. TypeOK' /\ Wired' /\ Exclusive' /\ Faultless'
  BY NextTyped, NextWired, NextExclusive, NextFaultless DEF Sound
<1> QED
  BY <1>1, NextOpen DEF Sound, Keeps

(* broker.py:4: while every call succeeds, a RUNNING row always has an       *)
(* unacknowledged message, however many workers die: no run is stranded.     *)
THEOREM NoRunIsStranded ==
  ASSUME MaxFaults = 0, \A k \in Workflows : Timeout[k] < IdleTimeout
  PROVE  Spec => []RunningIsOwed
<1>1. Sound => RunningIsOwed
  BY DEF Sound, OpenWhileUnfinished, RunningIsOwed, Open, Owed
<1> QED
  BY InitSound, NextSound, <1>1, PTL DEF Spec

(* service.py:4: every behaviour of the API, the broker and the workers is,  *)
(* seen through the row's status and what the stream owes, a behaviour of    *)
(* the contract.                                                             *)
THEOREM RunsImplementContract ==
  ASSUME MaxFaults = 0, \A k \in Workflows : Timeout[k] < IdleTimeout
  PROVE  Spec => ImplementsContract
<1>1. Init => Contract!Init
  BY DEF Init, Contract!Init, AbsentRow, FreeEntry, Owed, Unacked
<1>2. Sound /\ [Next]_vars =>
        [Contract!Next]_<<[r \in Runs |-> row[r].status], [r \in Runs |-> Owed(r)]>>
  BY NextMaps DEF Maps, Status, OwedMap
<1> QED
  BY InitSound, NextSound, <1>1, <1>2, PTL DEF Spec, ImplementsContract, Contract!Spec

-----------------------------------------------------------------------------
(* How often a task is handed out.  A message is active until its attempt    *)
(* has done everything but acknowledge it.  While no process has died a run  *)
(* has at most one active message, the one of its last attempt, and the      *)
(* attempts of a run are numbered.  A row is handed out for the first time   *)
(* by the one call or attempt that created it.                               *)
Active(m) == Unacked(m) /\ \A w \in Workers : att[w].step = "ack" => att[w].msg # m

Used(m) == stream[m].state # "free"
Retries(m) == stream[m].retries
Fresh(r) == \A m \in Messages : stream[m].run # r

Limited == \A m \in Messages :
    /\ ~Used(m) => stream[m].run = NoRun
    /\ Used(m) => Retries(m) < MaxRetries[row[stream[m].run].workflow]

Ordered == crashes = 0 => \A m, n \in Messages :
    Used(m) /\ Used(n) /\ stream[m].run = stream[n].run =>
        /\ Active(n) => Retries(m) <= Retries(n)
        /\ Retries(m) = Retries(n) => m = n

Submitting(q, r) == req[q].step = "created" /\ req[q].run = r
Chaining(w, r) == att[w].step = "audit_kiq" /\ att[w].audit = r

Handing == \A r \in Runs :
    /\ \A q \in Requests : Submitting(q, r) =>
          Fresh(r) /\ \A p \in Requests : Submitting(p, r) => p = q
    /\ \A w \in Workers : Chaining(w, r) =>
          Fresh(r) /\ \A v \in Workers : Chaining(v, r) => v = w
    /\ \A q \in Requests, w \in Workers : ~(Submitting(q, r) /\ Chaining(w, r))

Numbered == Limited /\ Ordered /\ Handing

(* What a step that executes a task does to the slots.                       *)
LEMMA BookkeepingSteps ==
  ASSUME TypeOK, NEW w \in Workers, TaskStep(w) \/ CallRaises(w), ~Ack(w)
  PROVE  /\ Live(w) /\ att'[w].msg = att[w].msg
         /\ \A v \in Workers : v # w => att'[v] = att[v]
         /\ att[w].step # "ack"
         /\ att'[w].step = "ack" =>
               MarkSucceeded(w) \/ EnqueueAuditKiq(w) \/ OnError(w)
         /\ att'[w].step = "audit_kiq" => EnqueueAuditCreate(w)
         /\ req' = req /\ crashes' = crashes
<1>1. Bookkeeping(w)
  BY TaskStepKinds
<1>2. att[w] \in Attempts
  BY DEF TypeOK
<1>3. ASSUME MarkRunning(w) \/ MarkFailed(w)
      PROVE  /\ att[w].step # "ack" /\ att'[w].step \notin {"ack", "audit_kiq"}
             /\ req' = req /\ crashes' = crashes
  BY <1>2, <1>3 DEF MarkRunning, MarkFailed, Goto, TypeOK, Attempts
<1>f. ASSUME FinalMetadata(w)
      PROVE  /\ att[w].step # "ack" /\ att'[w].step \notin {"ack", "audit_kiq"}
             /\ req' = req /\ crashes' = crashes
  BY <1>2, <1>f DEF FinalMetadata, TypeOK, Attempts
<1>g. ASSUME NEW out, GraphEnds(w, out)
      PROVE  /\ att[w].step # "ack" /\ att'[w].step \notin {"ack", "audit_kiq"}
             /\ req' = req /\ crashes' = crashes
  BY <1>2, <1>g DEF GraphEnds, TypeOK, Attempts
<1>r. ASSUME CallRaises(w)
      PROVE  /\ att[w].step # "ack" /\ att'[w].step \notin {"ack", "audit_kiq"}
             /\ req' = req /\ crashes' = crashes
  BY <1>2, <1>r DEF CallRaises, TypeOK, Attempts
<1>4. ASSUME MarkSucceeded(w) \/ EnqueueAuditKiq(w) \/ OnError(w)
      PROVE  /\ att[w].step # "ack" /\ att'[w].step # "audit_kiq"
             /\ req' = req /\ crashes' = crashes
  BY <1>2, <1>4 DEF MarkSucceeded, EnqueueAuditKiq, OnError, Goto, TypeOK, Attempts
<1>5. ASSUME EnqueueAuditCreate(w)
      PROVE  /\ att[w].step # "ack" /\ att'[w].step # "ack"
             /\ req' = req /\ crashes' = crashes
  BY <1>2, <1>5 DEF EnqueueAuditCreate, TypeOK, Attempts
<1> QED
  BY <1>1, <1>3, <1>f, <1>g, <1>r, <1>4, <1>5 DEF TaskStep, Bookkeeping

(* A slot that is not acknowledging holds an active message, on its own.     *)
LEMMA HeldActive ==
  ASSUME TypeOK, Wired, Exclusive, NEW w \in Workers, Live(w), att[w].step # "ack"
  PROVE  /\ att[w].msg \in Messages /\ Used(att[w].msg) /\ Active(att[w].msg)
         /\ stream[att[w].msg].run = RunOf(w)
         /\ RunOf(w) \in Runs /\ row[RunOf(w)].status # "ABSENT"
<1>1. att[w].msg \in Messages /\ Unacked(att[w].msg) /\ Used(att[w].msg)
  BY LiveOwed DEF Unacked, Used
<1>2. \A v \in Workers : att[v].step = "ack" => att[v].msg # att[w].msg
  BY DEF Exclusive, NoDoubleRun, Live
<1> QED
  BY <1>1, <1>2, RunOfTyped DEF Active, RunOf

(* A step that puts nothing on the stream.                                   *)
Unextended == \A m \in Messages :
    /\ Used(m)' <=> Used(m)
    /\ stream'[m].run = stream[m].run /\ stream'[m].retries = stream[m].retries

LEMMA UnextendedNumbered ==
  ASSUME TypeOK, Wired, Grows, Numbered, Unextended,
         crashes' = 0 => crashes = 0 /\ \A m \in Messages : Active(m)' => Active(m)
  PROVE  Limited' /\ Ordered'
<1>1. Limited'
  <2> SUFFICES ASSUME NEW m \in Messages
               PROVE  /\ ~Used(m)' => stream'[m].run = NoRun
                      /\ Used(m)' => stream'[m].retries <
                                       MaxRetries[row'[stream'[m].run].workflow]
    BY DEF Limited, Used, Retries
  <2>1. Used(m) => /\ stream[m].run \in Runs /\ row[stream[m].run].status # "ABSENT"
                   /\ row'[stream[m].run].workflow = row[stream[m].run].workflow
    BY DEF Wired, RowBeforeMessage, Used, Grows
  <2> QED
    BY <2>1 DEF Unextended, Numbered, Limited, Used, Retries
<1>2. Ordered'
  BY DEF Unextended, Numbered, Ordered, Used, Retries
<1> QED
  BY <1>1, <1>2

(* A step that hands a run out: for the first time, or its next attempt.     *)
LEMMA KiqNumbered ==
  ASSUME TypeOK, Wired, Numbered, NEW r \in Runs, NEW k \in Nat, Kiq(r, k),
         row' = row, crashes' = crashes, k < MaxRetries[row[r].workflow],
         crashes = 0 => \A m \in Messages : Used(m) =>
            /\ stream[m].run = r => Retries(m) < k /\ ~Active(m)'
            /\ Active(m)' => Active(m)
  PROVE  Limited' /\ Ordered'
<1>1. PICK n \in Messages :
         /\ stream[n].state = "free"
         /\ stream' = [stream EXCEPT ![n] = [state |-> "queued", run |-> r,
                                             retries |-> k, age |-> 0]]
  BY DEF Kiq
<1>2. /\ Used(n)' /\ stream'[n].run = r /\ stream'[n].retries = k
      /\ \A m \in Messages : m # n => stream'[m] = stream[m] /\ (Used(m)' <=> Used(m))
  BY <1>1 DEF TypeOK, Used
<1>3. Limited'
  BY <1>2 DEF Numbered, Limited, Used, Retries
<1>4. ASSUME crashes = 0, NEW m \in Messages, NEW p \in Messages, Used(m)', Used(p)',
             stream'[m].run = stream'[p].run
      PROVE  /\ Active(p)' => Retries(m)' <= Retries(p)'
             /\ Retries(m)' = Retries(p)' => m = p
  <2>1. CASE m # n /\ p # n
    BY <1>2, <1>4, <2>1 DEF Numbered, Ordered, Retries
  <2>2. CASE m = n /\ p # n
    <3>1. Used(p) /\ stream[p].run = r /\ stream'[p] = stream[p]
      BY <1>2, <1>4, <2>2
    <3>2. Retries(p)' < k /\ ~Active(p)' /\ Retries(m)' = k /\ Retries(p)' \in Nat
      BY <1>2, <1>4, <2>2, <3>1 DEF Retries, TypeOK, Entries
    <3> QED
      BY <3>2
  <2>3. CASE m # n /\ p = n
    <3>1. Used(m) /\ stream[m].run = r /\ stream'[m] = stream[m]
      BY <1>2, <1>4, <2>3
    <3>2. Retries(m)' < k /\ Retries(p)' = k /\ Retries(m)' \in Nat
      BY <1>2, <1>4, <2>3, <3>1 DEF Retries, TypeOK, Entries
    <3> QED
      BY <3>2
  <2>4. CASE m = n /\ p = n
    BY <1>2, <2>4 DEF Retries
  <2> QED
    BY <2>1, <2>2, <2>3, <2>4
<1>5. Ordered'
  BY <1>4 DEF Ordered
<1> QED
  BY <1>3, <1>5

(* A step after which no call and no slot has a row to hand out it had not.  *)
LEMMA HandingKept ==
  ASSUME Handing,
         \A q \in Requests : req'[q].step = "created" => req'[q] = req[q],
         \A w \in Workers : att'[w].step = "audit_kiq" => att'[w] = att[w],
         \A r \in Runs :
            /\ Fresh(r)
            /\ \/ \E q \in Requests : Submitting(q, r)'
               \/ \E w \in Workers : Chaining(w, r)'
            => Fresh(r)'
  PROVE  Handing'
<1>1. \A q \in Requests, r \in Runs : Submitting(q, r)' => Submitting(q, r)
  BY DEF Submitting
<1>2. \A w \in Workers, r \in Runs : Chaining(w, r)' => Chaining(w, r)
  BY DEF Chaining
<1> QED
  BY <1>1, <1>2 DEF Handing

LEMMA InitExclusive == Init => Exclusive
  BY DEF Init, Exclusive, NoDoubleRun, InBudget, Live, NoAttempt, Attempt

LEMMA CreateHands ==
  ASSUME TypeOK, Wired, Numbered, NEW r \in Runs, NEW workflow \in Workflows,
         NEW of \in Runs \cup {NoRun}, NEW auto \in BOOLEAN, NEW dossier \in BOOLEAN,
         Create(r, workflow, of, auto, dossier)
  PROVE  /\ Fresh(r)
         /\ \A q \in Requests : ~Submitting(q, r)
         /\ \A w \in Workers : ~Chaining(w, r)
<1>1. row[r].status = "ABSENT" /\ r # NoRun
  BY DEF Create, NoRun, Runs
<1>2. Fresh(r)
  BY <1>1 DEF Numbered, Limited, Wired, RowBeforeMessage, Fresh, Used
<1> QED
  BY <1>1, <1>2 DEF Wired, Submitting, Chaining

LEMMA NextNumbered ==
  ASSUME TypeOK, Wired, Exclusive, Numbered, [Next]_vars
  PROVE  Numbered'
<1>g. Grows
  BY NextGrows
<1>u. ASSUME stream' = stream PROVE Unextended /\ \A r \in Runs : Fresh(r)' <=> Fresh(r)
  BY <1>u DEF Unextended, Used, Fresh
<1>m. MaxRetries \in [Workflows -> Nat \ {0}]
  BY ConstantsAssumption
<1>1. ASSUME NEW q \in Requests, SubmitCreate(q) \/ PostAuditCreate(q)
      PROVE  Numbered'
  <2>1. stream' = stream /\ att' = att /\ crashes' = crashes
    BY <1>1 DEF SubmitCreate, PostAuditCreate
  <2>2. Limited' /\ Ordered'
    BY <2>1, <1>g, <1>u, UnextendedNumbered DEF Active, Unacked
  <2>3. PICK r \in Runs : /\ req' = [req EXCEPT ![q] = [step |-> "created", run |-> r]]
                          /\ Fresh(r)
                          /\ \A p \in Requests : ~Submitting(p, r)
                          /\ \A w \in Workers : ~Chaining(w, r)
    BY <1>1, CreateHands DEF SubmitCreate, PostAuditCreate, Workflows
  <2>4. \A p \in Requests, s \in Runs :
           Submitting(p, s)' => Submitting(p, s) \/ (p = q /\ s = r)
    BY <2>3 DEF Submitting, TypeOK
  <2>5. \A w \in Workers, s \in Runs : Chaining(w, s)' <=> Chaining(w, s)
    BY <2>1 DEF Chaining
  <2>6. Handing'
    BY <2>1, <1>u, <2>3, <2>4, <2>5 DEF Numbered, Handing
  <2> QED
    BY <2>2, <2>6 DEF Numbered
<1>2. ASSUME NEW q \in Requests, RequestKiq(q) PROVE Numbered'
  <2>1. PICK r \in Runs : r = req[q].run /\ row[r].status # "ABSENT"
    BY <1>2 DEF RequestKiq, Wired
  <2>2. Submitting(q, r) /\ Fresh(r)
    BY <1>2, <2>1 DEF RequestKiq, Submitting, Numbered, Handing
  <2>3. Kiq(r, 0) /\ row' = row /\ att' = att /\ crashes' = crashes /\ 0 \in Nat
    BY <1>2, <2>1 DEF RequestKiq
  <2>4. \A m \in Messages : Used(m) => stream'[m] = stream[m]
    BY <2>3, KiqKeepsEntries DEF Used
  <2>5. 0 < MaxRetries[row[r].workflow]
    BY <1>m DEF TypeOK, Rows
  <2>6. \A m \in Messages : Used(m) => stream[m].run # r /\ (Active(m)' => Active(m))
    BY <2>2, <2>3, <2>4 DEF Fresh, Active, Unacked
  <2>7. Limited' /\ Ordered'
    BY <2>3, <2>5, <2>6, KiqNumbered
  <2>8. /\ \A p \in Requests : p # q => req'[p] = req[p]
        /\ req'[q].step # "created"
    BY <1>2 DEF RequestKiq, TypeOK, Calls
  <2>9. \A s \in Runs : s # r /\ Fresh(s) => Fresh(s)'
    BY <2>3 DEF Kiq, Fresh, TypeOK
  <2>10. /\ \A p \in Requests : ~Submitting(p, r)'
         /\ \A w \in Workers : ~Chaining(w, r)'
    BY <2>2, <2>3, <2>8 DEF Numbered, Handing, Submitting, Chaining
  <2>11. Handing'
    BY <2>3, <2>8, <2>9, <2>10, HandingKept DEF Numbered
  <2> QED
    BY <2>7, <2>11 DEF Numbered
<1>3. ASSUME NEW q \in Requests, SubmitSetMetadata(q) \/ RequestDies(q)
      PROVE  Numbered'
  <2>1. stream' = stream /\ att' = att /\ (crashes' = 0 => crashes = 0)
    BY <1>3 DEF SubmitSetMetadata, RequestDies, TypeOK
  <2>2. \A p \in Requests : req'[p].step = "created" => req'[p] = req[p]
    BY <1>3 DEF SubmitSetMetadata, RequestDies, TypeOK, Calls
  <2>3. Limited' /\ Ordered'
    BY <2>1, <1>g, <1>u, UnextendedNumbered DEF Active, Unacked
  <2>4. Handing'
    BY <2>1, <2>2, <1>u, HandingKept DEF Numbered
  <2> QED
    BY <2>3, <2>4 DEF Numbered
<1>4. ASSUME NEW w \in Workers, Listen(w) PROVE Numbered'
  <2>1. PICK m \in Messages : Begin(w, m) /\ Unacked(m) /\ Used(m)
    BY <1>4 DEF Listen, Deliver, Reclaim, Unacked, Used
  <2>2. /\ att[w].step = "idle" /\ att'[w].step = "mark_running"
        /\ \A v \in Workers : v # w => att'[v] = att[v]
        /\ req' = req /\ crashes' = crashes
    BY <1>4, <2>1 DEF Listen, Deliver, Reclaim, Begin, Attempt, TypeOK
  <2>3. /\ Unextended /\ \A p \in Messages : Unacked(p)' <=> Unacked(p)
    BY <2>1 DEF Begin, Unextended, Used, Unacked, TypeOK, Entries
  <2>4. Limited' /\ Ordered'
    BY <2>2, <2>3, <1>g, UnextendedNumbered DEF Active
  <2>5. Handing'
    BY <2>2, <2>3, HandingKept DEF Numbered, Unextended, Fresh
  <2> QED
    BY <2>4, <2>5 DEF Numbered
<1>5. ASSUME NEW w \in Workers, EnqueueAuditCreate(w) PROVE Numbered'
  <2>1. stream' = stream
    BY <1>5 DEF EnqueueAuditCreate
  <2>2. /\ att'[w].msg = att[w].msg /\ att[w].step # "ack" /\ att'[w].step # "ack"
        /\ req' = req /\ crashes' = crashes
        /\ \A v \in Workers : v # w => att'[v] = att[v]
    BY <1>5 DEF EnqueueAuditCreate, TypeOK, Attempts
  <2>3. Limited' /\ Ordered'
    BY <2>1, <2>2, <1>g, <1>u, UnextendedNumbered DEF Active, Unacked
  <2>r. RunOf(w) \in Runs
    BY <1>5, HeldActive DEF EnqueueAuditCreate, Live
  <2>4. PICK r \in Runs : /\ att'[w].audit = r
                          /\ Fresh(r)
                          /\ \A p \in Requests : ~Submitting(p, r)
                          /\ \A v \in Workers : ~Chaining(v, r)
    <3>1. PICK r \in Runs : /\ Create(r, "audit", RunOf(w), TRUE, TRUE)
                            /\ att' = [att EXCEPT ![w] =
                                 [@ EXCEPT !.step = "audit_kiq", !.audit = r]]
      BY <1>5 DEF EnqueueAuditCreate
    <3>2. att'[w].audit = r
      BY <3>1 DEF TypeOK, Attempts
    <3> QED
      BY <2>r, <3>1, <3>2, CreateHands DEF Workflows
  <2>5. \A p \in Requests, s \in Runs : Submitting(p, s)' <=> Submitting(p, s)
    BY <2>2 DEF Submitting
  <2>6. \A v \in Workers, s \in Runs :
           Chaining(v, s)' => Chaining(v, s) \/ (v = w /\ s = r)
    BY <2>2, <2>4 DEF Chaining
  <2>7. Handing'
    BY <2>1, <1>u, <2>4, <2>5, <2>6 DEF Numbered, Handing
  <2> QED
    BY <2>3, <2>7 DEF Numbered
<1>6. ASSUME NEW w \in Workers, EnqueueAuditKiq(w) PROVE Numbered'
  <2>1. PICK r \in Runs : r = att[w].audit /\ row[r].status # "ABSENT"
    BY <1>6 DEF EnqueueAuditKiq, Wired
  <2>2. Chaining(w, r) /\ Fresh(r)
    BY <1>6, <2>1 DEF EnqueueAuditKiq, Chaining, Numbered, Handing
  <2>3. Kiq(r, 0) /\ row' = row /\ req' = req /\ crashes' = crashes /\ 0 \in Nat
    BY <1>6, <2>1 DEF EnqueueAuditKiq
  <2>4. \A m \in Messages : Used(m) => stream'[m] = stream[m]
    BY <2>3, KiqKeepsEntries DEF Used
  <2>5. 0 < MaxRetries[row[r].workflow]
    BY <1>m DEF TypeOK, Rows
  <2>6. /\ \A v \in Workers : v # w => att'[v] = att[v]
        /\ att[w].step # "ack" /\ att'[w].step = "ack" /\ att'[w].msg = att[w].msg
    BY <1>6 DEF EnqueueAuditKiq, Goto, TypeOK, Attempts
  <2>7. \A m \in Messages : Used(m) => stream[m].run # r /\ (Active(m)' => Active(m))
    BY <2>2, <2>4, <2>6 DEF Fresh, Active, Unacked
  <2>8. Limited' /\ Ordered'
    BY <2>3, <2>5, <2>7, KiqNumbered
  <2>9. \A s \in Runs : s # r /\ Fresh(s) => Fresh(s)'
    BY <2>3 DEF Kiq, Fresh, TypeOK
  <2>10. /\ \A p \in Requests : ~Submitting(p, r)'
         /\ \A v \in Workers : ~Chaining(v, r)'
    BY <2>2, <2>3, <2>6 DEF Numbered, Handing, Submitting, Chaining
  <2>11. Handing'
    BY <2>3, <2>6, <2>9, <2>10, HandingKept DEF Numbered
  <2> QED
    BY <2>8, <2>11 DEF Numbered
<1>7. ASSUME NEW w \in Workers, OnError(w) PROVE Numbered'
  <2>1. /\ \A v \in Workers : v # w => att'[v] = att[v]
        /\ Live(w) /\ att[w].step = "on_error" /\ att'[w].step = "ack"
        /\ att'[w].msg = att[w].msg
        /\ row' = row /\ req' = req /\ crashes' = crashes
    BY <1>7 DEF OnError, Goto, TypeOK, Attempts, Live
  <2>2. PICK msg \in Messages, r \in Runs :
           /\ msg = att[w].msg /\ r = RunOf(w) /\ stream[msg].run = r
           /\ Used(msg) /\ Active(msg) /\ row[r].status # "ABSENT"
    BY <2>1, HeldActive
  <2>3. ~Active(msg)'
    BY <2>1, <2>2 DEF Active
  <2>4. CASE UNCHANGED stream
    <3>1. Limited' /\ Ordered'
      BY <2>1, <2>4, <1>g, <1>u, UnextendedNumbered DEF Active, Unacked
    <3>2. Handing'
      BY <2>1, <2>4, <1>u, HandingKept DEF Numbered
    <3> QED
      BY <3>1, <3>2 DEF Numbered
  <2>5. CASE ~UNCHANGED stream
    <3> DEFINE k == stream[msg].retries + 1
    <3>1. /\ k \in Nat /\ Kiq(r, k) /\ k < MaxRetries[row[r].workflow]
      <4>1. k \in Nat
        BY DEF TypeOK, Entries
      <4>2. Kiq(RunOf(w), k) /\ k < MaxRetries[WorkflowOf(w)]
        BY <1>7, <2>2, <2>5 DEF OnError
      <4> QED
        BY <2>2, <4>1, <4>2 DEF WorkflowOf
    <3>2. \A m \in Messages : Used(m) => stream'[m] = stream[m]
      BY <3>1, KiqKeepsEntries DEF Used
    <3>3. ASSUME crashes = 0, NEW m \in Messages, Used(m)
          PROVE  /\ stream[m].run = r => Retries(m) < k /\ ~Active(m)'
                 /\ Active(m)' => Active(m)
      <4>1. Active(m)' => Active(m)
        BY <2>1, <3>2, <3>3 DEF Active, Unacked
      <4>2. ASSUME stream[m].run = r PROVE Retries(m) < k /\ ~Active(m)'
        <5>1. Retries(m) <= Retries(msg) /\ (Retries(m) = Retries(msg) => m = msg)
          BY <2>2, <3>3, <4>2 DEF Numbered, Ordered
        <5>2. Active(m) => Retries(msg) <= Retries(m)
          BY <2>2, <3>3, <4>2 DEF Numbered, Ordered
        <5>3. Retries(m) \in Nat /\ Retries(msg) \in Nat /\ k = Retries(msg) + 1
          BY DEF Retries, TypeOK, Entries
        <5> QED
          BY <2>3, <4>1, <5>1, <5>2, <5>3
      <4> QED
        BY <4>1, <4>2
    <3>4. Limited' /\ Ordered'
      BY <2>1, <3>1, <3>3, KiqNumbered
    <3>5. \A s \in Runs : s # r /\ Fresh(s) => Fresh(s)'
      BY <3>1 DEF Kiq, Fresh, TypeOK
    <3>6. ~Fresh(r)
      BY <2>2 DEF Fresh
    <3>7. Handing'
      BY <2>1, <3>5, <3>6, HandingKept DEF Numbered
    <3> QED
      BY <3>4, <3>7 DEF Numbered
  <2> QED
    BY <2>4, <2>5
<1>8. ASSUME NEW w \in Workers, Ack(w) PROVE Numbered'
  <2>1. /\ \A v \in Workers : v # w => att'[v] = att[v]
        /\ Live(w) /\ att[w].step = "ack" /\ att'[w].step = "idle"
        /\ req' = req /\ crashes' = crashes
    BY <1>8 DEF Ack, NoAttempt, Attempt, TypeOK, Live
  <2>2. PICK msg \in Messages : msg = att[w].msg /\ Used(msg)
    BY <2>1 DEF Wired, Used
  <2>3. /\ stream'[msg].state = "acked"
        /\ stream'[msg].run = stream[msg].run /\ stream'[msg].retries = stream[msg].retries
        /\ \A m \in Messages : m # msg => stream'[m] = stream[m]
    BY <1>8, <2>2 DEF Ack, TypeOK, Entries
  <2>4. Unextended /\ \A m \in Messages : Active(m)' => Active(m)
    <3>1. ~Unacked(msg)' /\ Unextended
      BY <2>2, <2>3 DEF Unextended, Used, Unacked
    <3>2. ASSUME NEW m \in Messages, Active(m)' PROVE Active(m)
      <4>1. m # msg /\ stream'[m] = stream[m]
        BY <2>3, <3>1, <3>2 DEF Active
      <4>2. ASSUME NEW v \in Workers, att[v].step = "ack" PROVE att[v].msg # m
        BY <2>1, <2>2, <3>2, <4>1, <4>2 DEF Active
      <4> QED
        BY <3>2, <4>1, <4>2 DEF Active, Unacked
    <3> QED
      BY <3>1, <3>2
  <2>5. Limited' /\ Ordered'
    BY <2>1, <2>4, <1>g, UnextendedNumbered
  <2>6. Handing'
    BY <2>1, <2>4, HandingKept DEF Numbered, Unextended, Fresh
  <2> QED
    BY <2>5, <2>6 DEF Numbered
<1>9. ASSUME NEW w \in Workers, TaskStep(w) \/ CallRaises(w), ~Ack(w),
             ~EnqueueAuditCreate(w), ~EnqueueAuditKiq(w), ~OnError(w)
      PROVE  Numbered'
  <2>1. stream' = stream
    BY <1>9 DEF TaskStep, MarkRunning, GraphEnds, FinalMetadata, MarkSucceeded,
       MarkFailed, CallRaises
  <2>2. /\ att'[w].msg = att[w].msg /\ att[w].step # "ack"
        /\ \A v \in Workers : v # w => att'[v] = att[v]
        /\ att'[w].step # "audit_kiq" /\ req' = req /\ crashes' = crashes
    BY <1>9, BookkeepingSteps
  <2>3. Limited' /\ Ordered'
    BY <2>1, <2>2, <1>g, <1>u, UnextendedNumbered DEF Active, Unacked
  <2>4. Handing'
    BY <2>1, <2>2, <1>u, HandingKept DEF Numbered
  <2> QED
    BY <2>3, <2>4 DEF Numbered
<1>10. ASSUME NEW w \in Workers, OnErrorRaises(w) \/ WorkerDies(w) PROVE Numbered'
  <2>a. crashes' # 0 \/ (crashes' = crashes /\ att[w].step = "on_error")
    BY <1>10 DEF OnErrorRaises, WorkerDies, TypeOK
  <2>1. /\ \A v \in Workers : v # w => att'[v] = att[v]
        /\ att'[w].step = "idle" /\ stream' = stream /\ req' = req
    BY <1>10 DEF OnErrorRaises, WorkerDies, NoAttempt, Attempt, TypeOK
  <2>2. Limited' /\ Ordered'
    BY <2>a, <2>1, <1>g, <1>u, UnextendedNumbered DEF Active, Unacked
  <2>3. Handing'
    BY <2>1, <1>u, HandingKept DEF Numbered
  <2> QED
    BY <2>2, <2>3 DEF Numbered
<1>11. CASE Tick
  <2>1. /\ \A w \in Workers : /\ att'[w].step = att[w].step /\ att'[w].msg = att[w].msg
                              /\ att[w].step = "audit_kiq" => att'[w] = att[w]
        /\ req' = req /\ crashes' = crashes
    BY <1>11 DEF Tick, TypeOK, Attempts
  <2>2. Unextended /\ \A m \in Messages : Unacked(m)' <=> Unacked(m)
    BY <1>11 DEF Tick, Unextended, Used, Unacked, TypeOK, Entries
  <2>3. Limited' /\ Ordered'
    BY <2>1, <2>2, <1>g, UnextendedNumbered DEF Active
  <2>4. Handing'
    BY <2>1, <2>2, HandingKept DEF Numbered, Unextended, Fresh
  <2> QED
    BY <2>3, <2>4 DEF Numbered
<1>12. CASE UNCHANGED vars
  <2>1. stream' = stream /\ att' = att /\ req' = req /\ crashes' = crashes
    BY <1>12 DEF vars
  <2>2. Limited' /\ Ordered'
    BY <2>1, <1>g, <1>u, UnextendedNumbered DEF Active, Unacked
  <2>3. Handing'
    BY <2>1, <1>u, HandingKept DEF Numbered
  <2> QED
    BY <2>2, <2>3 DEF Numbered
<1> QED
  BY <1>1, <1>2, <1>3, <1>4, <1>5, <1>6, <1>7, <1>8, <1>9, <1>10, <1>11, <1>12
  DEF Next, RequestStep

LEMMA InitNumbered == Init => Numbered
  BY DEF Init, FreeEntry, NoAttempt, Attempt, Numbered, Limited, Ordered, Handing,
     Used, Submitting, Chaining

(* Attempts of a run carry different numbers below its label's max_retries.  *)
LEMMA NumberedBounded ==
  ASSUME TypeOK, Wired, Numbered PROVE AttemptsBounded
<1> SUFFICES ASSUME crashes = 0, NEW r \in Runs
             PROVE  Cardinality({m \in Messages : stream[m].run = r})
                       <= MaxRetries[row[r].workflow]
  BY DEF AttemptsBounded
<1> DEFINE S == {m \in Messages : stream[m].run = r}
           n == MaxRetries[row[r].workflow]
           f == [m \in S |-> Retries(m)]
<1>1. n \in Nat
  BY ConstantsAssumption DEF TypeOK, Rows
<1>2. \A m \in S : Used(m)
  BY DEF Numbered, Limited, NoRun, Runs
<1>3. \A m \in S : Retries(m) \in 0 .. (n - 1)
  BY <1>1, <1>2 DEF Numbered, Limited, Retries, TypeOK, Entries
<1>4. f \in Injection(S, 0 .. (n - 1))
  BY <1>2, <1>3 DEF Numbered, Ordered, Injection, IsInjective
<1>5. ASSUME NEW k \in Nat
      PROVE  IsFiniteSet(0 .. (k - 1)) /\ Cardinality(0 .. (k - 1)) = k
  <2>1. 0 \in Int /\ k - 1 \in Int
    OBVIOUS
  <2>2. /\ IsFiniteSet(0 .. (k - 1))
        /\ Cardinality(0 .. (k - 1)) = IF 0 > k - 1 THEN 0 ELSE k - 1 - 0 + 1
    BY <2>1, FS_Interval
  <2> QED
    BY <2>2
<1>6. Cardinality(S) <= Cardinality(0 .. (n - 1))
  BY <1>1, <1>4, <1>5, FS_Injection
<1> QED
  BY <1>1, <1>5, <1>6

(* task.py:46: while no process dies, the broker is given a task at most     *)
(* max_retries times, for every mixture of failing graphs and calls.         *)
THEOREM AttemptsAreBounded ==
  ASSUME \A k \in Workflows : Timeout[k] < IdleTimeout
  PROVE  Spec => []AttemptsBounded
<1>1. Init => TypeOK /\ Wired /\ Exclusive /\ Numbered
  BY InitTyped, InitExclusive, InitNumbered
<1>2. TypeOK /\ Wired /\ Exclusive /\ Numbered /\ [Next]_vars
        => (TypeOK /\ Wired /\ Exclusive /\ Numbered)'
  BY NextTyped, NextWired, NextExclusive, NextNumbered
<1>3. TypeOK /\ Wired /\ Numbered => AttemptsBounded
  BY NumberedBounded
<1> QED
  BY <1>1, <1>2, <1>3, PTL DEF Spec

-----------------------------------------------------------------------------
(* Why nothing reopens a run that succeeded.  Its last message is followed   *)
(* only by the audit it chains, and nobody is about to hand it out again.    *)
Following(w, m) == att[w].msg = m /\ att[w].step \in {"audit_create", "audit_kiq"}
Succeeded(r) == row[r].status = "SUCCEEDED"
Calm == crashes = 0 /\ faults = 0

Rested == Calm => \A r \in Runs : Succeeded(r) =>
    /\ \A q \in Requests : ~Submitting(q, r)
    /\ \A w \in Workers : ~Chaining(w, r)
    /\ \A m \in Messages : Active(m) /\ stream[m].run = r =>
          \E w \in Workers : Following(w, m)

Stands == Calm' => \A r \in Runs : Succeeded(r) => Succeeded(r)'

LEMMA CountersGrow ==
  ASSUME TypeOK, [Next]_vars
  PROVE  (faults' = 0 => faults = 0) /\ (Calm' => Calm)
<1>1. ASSUME NEW q \in Requests, RequestStep(q)
      PROVE  (faults' = 0 => faults = 0) /\ (Calm' => Calm)
  BY <1>1 DEF RequestStep, SubmitCreate, PostAuditCreate, RequestKiq,
     SubmitSetMetadata, Calm
<1>d. ASSUME NEW q \in Requests, RequestDies(q)
      PROVE  (faults' = 0 => faults = 0) /\ (Calm' => Calm)
  <2>1. faults \in Nat /\ crashes \in Nat
    BY DEF TypeOK
  <2>2. faults' \in {faults, faults + 1} /\ crashes' \in {crashes, crashes + 1}
    BY <1>d DEF RequestDies
  <2> QED
    BY <2>1, <2>2 DEF Calm
<1>2. ASSUME NEW w \in Workers, Listen(w)
      PROVE  (faults' = 0 => faults = 0) /\ (Calm' => Calm)
  BY <1>2 DEF Listen, Deliver, Reclaim, Begin, Calm
<1>3. ASSUME NEW w \in Workers, TaskStep(w)
      PROVE  (faults' = 0 => faults = 0) /\ (Calm' => Calm)
  BY <1>3 DEF TaskStep, MarkRunning, GraphEnds, FinalMetadata, MarkSucceeded,
     MarkFailed, EnqueueAuditCreate, EnqueueAuditKiq, OnError, Ack, Calm
<1>4. ASSUME NEW w \in Workers, CallRaises(w) \/ OnErrorRaises(w) \/ WorkerDies(w)
      PROVE  (faults' = 0 => faults = 0) /\ (Calm' => Calm)
  BY <1>4 DEF CallRaises, OnErrorRaises, WorkerDies, Calm, TypeOK
<1>5. CASE Tick \/ UNCHANGED vars
  BY <1>5 DEF Tick, vars, Calm
<1> QED
  BY <1>1, <1>d, <1>2, <1>3, <1>4, <1>5 DEF Next

(* A run under way has not succeeded. *)
LEMMA UnderWay ==
  ASSUME TypeOK, Wired, Exclusive, Rested, Calm, NEW w \in Workers, Live(w),
         att[w].step \notin {"audit_create", "audit_kiq", "ack"}
  PROVE  ~Succeeded(RunOf(w))
<1> SUFFICES ASSUME Succeeded(RunOf(w)) PROVE FALSE
  OBVIOUS
<1>1. PICK v \in Workers : Following(v, att[w].msg)
  BY HeldActive DEF Rested
<1>2. v # w /\ Live(v) /\ att[v].msg = att[w].msg
  BY <1>1 DEF Following, Live
<1> QED
  BY <1>2 DEF Exclusive, NoDoubleRun

LEMMA RestedKept ==
  ASSUME Rested, Calm,
         \A r \in Runs : Succeeded(r)' =>
            /\ Succeeded(r)
            /\ \A q \in Requests : Submitting(q, r)' => Submitting(q, r)
            /\ \A w \in Workers : Chaining(w, r)' => Chaining(w, r)
            /\ \A m \in Messages : Active(m)' /\ stream'[m].run = r =>
                  /\ Active(m) /\ stream[m].run = r
                  /\ \A w \in Workers : Following(w, m) => Following(w, m)'
  PROVE  Rested'
  BY DEF Rested

LEMMA NextRested ==
  ASSUME TypeOK, Wired, Exclusive, Numbered, Rested, [Next]_vars
  PROVE  Rested' /\ Stands
<1> SUFFICES ASSUME Calm' PROVE Rested' /\ \A r \in Runs : Succeeded(r) => Succeeded(r)'
  BY DEF Rested, Stands
<1>0. Calm
  BY CountersGrow
<1>s. ASSUME \A r \in Runs : row'[r].status = row[r].status
      PROVE  \A r \in Runs : Succeeded(r)' <=> Succeeded(r)
  BY <1>s DEF Succeeded
<1>c. ASSUME NEW r \in Runs, NEW workflow, NEW of, NEW auto, NEW dossier,
             Create(r, workflow, of, auto, dossier)
      PROVE  /\ ~Succeeded(r)'
             /\ \A s \in Runs : s # r => (Succeeded(s)' <=> Succeeded(s))
             /\ ~Succeeded(r)
  BY <1>c DEF Create, Succeeded, TypeOK
<1>1. ASSUME NEW q \in Requests, SubmitCreate(q) \/ PostAuditCreate(q)
      PROVE  Rested' /\ \A r \in Runs : Succeeded(r) => Succeeded(r)'
  <2>1. stream' = stream /\ att' = att
    BY <1>1 DEF SubmitCreate, PostAuditCreate
  <2>2. PICK r \in Runs :
           /\ req' = [req EXCEPT ![q] = [step |-> "created", run |-> r]]
           /\ ~Succeeded(r)' /\ ~Succeeded(r)
           /\ \A s \in Runs : s # r => (Succeeded(s)' <=> Succeeded(s))
    BY <1>1, <1>c DEF SubmitCreate, PostAuditCreate
  <2>3. \A p \in Requests, s \in Runs : s # r /\ Submitting(p, s)' => Submitting(p, s)
    BY <2>2 DEF Submitting, TypeOK
  <2>4. Rested'
    BY <1>0, <2>1, <2>2, <2>3, RestedKept DEF Chaining, Active, Unacked, Following
  <2> QED
    BY <2>2, <2>4
<1>2. ASSUME NEW q \in Requests, RequestKiq(q)
      PROVE  Rested' /\ \A r \in Runs : Succeeded(r) => Succeeded(r)'
  <2>1. PICK r \in Runs : r = req[q].run /\ Submitting(q, r)
    BY <1>2 DEF RequestKiq, Wired, Submitting
  <2>2. ~Succeeded(r)
    BY <1>0, <2>1 DEF Rested
  <2>3. /\ row' = row /\ att' = att
        /\ \A p \in Requests, s \in Runs : Submitting(p, s)' => Submitting(p, s)
    BY <1>2 DEF RequestKiq, Submitting, TypeOK, Calls
  <2>4. \A m \in Messages : stream'[m].run # r => stream'[m] = stream[m]
    BY <1>2, <2>1 DEF RequestKiq, Kiq, TypeOK
  <2>5. \A s \in Runs : Succeeded(s)' <=> Succeeded(s)
    BY <2>3 DEF Succeeded
  <2>6. Rested'
    BY <1>0, <2>2, <2>3, <2>4, <2>5, RestedKept DEF Chaining, Active, Unacked, Following
  <2> QED
    BY <2>5, <2>6
<1>3. ASSUME NEW q \in Requests, SubmitSetMetadata(q) \/ RequestDies(q)
      PROVE  Rested' /\ \A r \in Runs : Succeeded(r) => Succeeded(r)'
  <2>1. /\ stream' = stream /\ att' = att
        /\ \A r \in Runs : row'[r].status = row[r].status
    <3>1. CASE SubmitSetMetadata(q)
      BY <3>1 DEF SubmitSetMetadata, TypeOK, Rows
    <3>2. CASE RequestDies(q)
      BY <3>2 DEF RequestDies
    <3> QED
      BY <1>3, <3>1, <3>2
  <2>2. \A p \in Requests, s \in Runs : Submitting(p, s)' => Submitting(p, s)
    BY <1>3 DEF SubmitSetMetadata, RequestDies, Submitting, TypeOK, Calls
  <2>3. Rested'
    BY <1>0, <1>s, <2>1, <2>2, RestedKept DEF Chaining, Active, Unacked, Following
  <2> QED
    BY <1>s, <2>1, <2>3
<1>4. ASSUME NEW w \in Workers, Listen(w)
      PROVE  Rested' /\ \A r \in Runs : Succeeded(r) => Succeeded(r)'
  <2>1. PICK m \in Messages : Begin(w, m) /\ Unacked(m)
    BY <1>4 DEF Listen, Deliver, Reclaim, Unacked
  <2>2. /\ att[w].step = "idle" /\ att'[w].step = "mark_running"
        /\ \A v \in Workers : v # w => att'[v] = att[v]
        /\ row' = row /\ req' = req
    BY <1>4, <2>1 DEF Listen, Deliver, Reclaim, Begin, Attempt, TypeOK
  <2>3. \A p \in Messages : stream'[p].run = stream[p].run /\ (Unacked(p)' <=> Unacked(p))
    BY <2>1 DEF Begin, Unacked, TypeOK, Entries
  <2>4. \A p \in Messages : Active(p)' => Active(p)
    BY <2>2, <2>3 DEF Active
  <2>5. \A v \in Workers, p \in Messages : Following(v, p) => Following(v, p)'
    BY <2>2 DEF Following
  <2>6. /\ \A v \in Workers, s \in Runs : Chaining(v, s)' => Chaining(v, s)
        /\ \A q \in Requests, s \in Runs : Submitting(q, s)' => Submitting(q, s)
    BY <2>2 DEF Chaining, Submitting
  <2>7. \A r \in Runs : Succeeded(r)' <=> Succeeded(r)
    BY <2>2 DEF Succeeded
  <2>8. Rested'
    BY <1>0, <2>3, <2>4, <2>5, <2>6, <2>7, RestedKept
  <2> QED
    BY <2>7, <2>8
(* The steps of a task before it is done: their run has not succeeded. *)
<1>5. ASSUME NEW w \in Workers, NEW r \in Runs, r = RunOf(w),
             MarkRunning(w) \/ MarkFailed(w)
               \/ FinalMetadata(w) \/ \E out \in {"ok", "error", "timeout"} : GraphEnds(w, out)
      PROVE  Rested' /\ \A s \in Runs : Succeeded(s) => Succeeded(s)'
  <2>1. Live(w) /\ att[w].step \notin {"audit_create", "audit_kiq", "ack", "on_error"}
    BY <1>5 DEF MarkRunning, MarkFailed, FinalMetadata, GraphEnds, Live
  <2>2. ~Succeeded(r)
    BY <1>0, <1>5, <2>1, UnderWay
  <2>3. /\ att'[w].msg = att[w].msg /\ req' = req
        /\ \A v \in Workers : v # w => att'[v] = att[v]
        /\ att'[w].step # "audit_kiq"
    BY <1>5, BookkeepingSteps DEF TaskStep, Ack, EnqueueAuditCreate,
       MarkRunning, MarkFailed, FinalMetadata, GraphEnds
  <2>4. stream' = stream
    BY <1>5 DEF MarkRunning, MarkFailed, FinalMetadata, GraphEnds
  <2>5. ~Succeeded(r)' /\ \A s \in Runs : s # r => (Succeeded(s)' <=> Succeeded(s))
    <3>1. CASE MarkRunning(w)
      BY <1>5, <3>1 DEF MarkRunning, Succeeded, TypeOK, Rows
    <3>2. CASE MarkFailed(w)
      BY <1>5, <3>2 DEF MarkFailed, Finish, Succeeded, TypeOK, Rows
    <3>3. CASE FinalMetadata(w) \/ \E out \in {"ok", "error", "timeout"} : GraphEnds(w, out)
      BY <2>2, <3>3 DEF FinalMetadata, GraphEnds, Succeeded
    <3> QED
      BY <1>5, <3>1, <3>2, <3>3
  <2>6. \A m \in Messages : Active(m)' => Active(m)
    BY <2>1, <2>3, <2>4 DEF Active, Unacked
  <2>7. \A v \in Workers, m \in Messages : Following(v, m) => Following(v, m)'
    BY <2>1, <2>3 DEF Following
  <2>8. /\ \A v \in Workers, s \in Runs : Chaining(v, s)' => Chaining(v, s)
        /\ \A q \in Requests, s \in Runs : Submitting(q, s)' => Submitting(q, s)
    BY <2>3 DEF Chaining, Submitting
  <2>9. Rested'
    BY <1>0, <2>2, <2>4, <2>5, <2>6, <2>7, <2>8, RestedKept
  <2> QED
    BY <2>2, <2>5, <2>9
<1>6. ASSUME NEW w \in Workers, MarkSucceeded(w)
      PROVE  Rested' /\ \A r \in Runs : Succeeded(r) => Succeeded(r)'
  <2>1. /\ Live(w) /\ att[w].step = "finish" /\ stream' = stream
        /\ att'[w].step \in {"audit_create", "ack"}
    BY <1>6 DEF MarkSucceeded, Goto, Live, TypeOK, Attempts
  <2>2. PICK r \in Runs, msg \in Messages :
           /\ r = RunOf(w) /\ msg = att[w].msg /\ stream[msg].run = r
           /\ Used(msg) /\ Active(msg)
    BY <2>1, HeldActive
  <2>3. /\ att'[w].msg = msg /\ req' = req
        /\ \A v \in Workers : v # w => att'[v] = att[v]
    BY <1>6, <2>1, <2>2, BookkeepingSteps DEF TaskStep, Ack
  <2>4. Succeeded(r)' /\ \A s \in Runs : s # r => (Succeeded(s)' <=> Succeeded(s))
    BY <1>6, <2>2 DEF MarkSucceeded, Finish, Succeeded, TypeOK, Rows
  <2>5. ASSUME NEW m \in Messages, Active(m)' PROVE Active(m)
    BY <2>1, <2>3, <2>5 DEF Active, Unacked
  <2>6. \A v \in Workers, m \in Messages : Following(v, m) => Following(v, m)'
    BY <2>1, <2>3 DEF Following
  <2>7. /\ \A v \in Workers, s \in Runs : Chaining(v, s)' => Chaining(v, s)
        /\ \A q \in Requests, s \in Runs : Submitting(q, s)' => Submitting(q, s)
    BY <2>1, <2>3 DEF Chaining, Submitting
  <2>8. ~Fresh(r)
    BY <2>2 DEF Fresh
  <2>9. /\ \A q \in Requests : ~Submitting(q, r)'
        /\ \A v \in Workers : ~Chaining(v, r)'
    BY <2>7, <2>8 DEF Numbered, Handing
  <2>10. ASSUME NEW m \in Messages, Active(m)', stream'[m].run = r
         PROVE  Following(w, m)'
    <3>1. Active(m) /\ Used(m) /\ stream[m].run = r
      BY <2>1, <2>5, <2>10 DEF Active, Unacked, Used
    <3>2. Retries(m) <= Retries(msg) /\ Retries(msg) <= Retries(m)
          /\ (Retries(m) = Retries(msg) => m = msg)
      BY <1>0, <2>2, <3>1 DEF Numbered, Ordered, Calm
    <3>3. Retries(m) \in Nat /\ Retries(msg) \in Nat
      BY DEF Retries, TypeOK, Entries
    <3>4. m = msg
      BY <3>2, <3>3
    <3> QED
      BY <2>1, <2>3, <2>10, <3>4 DEF Active, Following
  <2>11. Rested'
    <3> SUFFICES ASSUME NEW s \in Runs, Succeeded(s)'
                 PROVE  /\ \A q \in Requests : ~Submitting(q, s)'
                        /\ \A v \in Workers : ~Chaining(v, s)'
                        /\ \A m \in Messages : Active(m)' /\ stream'[m].run = s =>
                              \E v \in Workers : Following(v, m)'
      BY DEF Rested
    <3>1. CASE s = r
      BY <2>9, <2>10, <3>1
    <3>2. CASE s # r
      BY <1>0, <2>1, <2>4, <2>5, <2>6, <2>7, <3>2 DEF Rested
    <3> QED
      BY <3>1, <3>2
  <2> QED
    BY <2>4, <2>11
<1>7. ASSUME NEW w \in Workers, EnqueueAuditCreate(w)
      PROVE  Rested' /\ \A r \in Runs : Succeeded(r) => Succeeded(r)'
  <2>1. stream' = stream /\ att[w].step = "audit_create" /\ req' = req
    BY <1>7 DEF EnqueueAuditCreate
  <2>2. PICK r \in Runs :
           /\ ~Succeeded(r)' /\ ~Succeeded(r)
           /\ \A s \in Runs : s # r => (Succeeded(s)' <=> Succeeded(s))
           /\ att'[w].audit = r /\ att'[w].step = "audit_kiq"
           /\ att'[w].msg = att[w].msg
    <3>1. PICK r \in Runs : /\ Create(r, "audit", RunOf(w), TRUE, TRUE)
                            /\ att' = [att EXCEPT ![w] =
                                 [@ EXCEPT !.step = "audit_kiq", !.audit = r]]
      BY <1>7 DEF EnqueueAuditCreate
    <3>2. /\ att'[w].audit = r /\ att'[w].step = "audit_kiq"
          /\ att'[w].msg = att[w].msg
      BY <3>1 DEF TypeOK, Attempts
    <3> QED
      BY <1>c, <3>1, <3>2
  <2>3. \A v \in Workers : v # w => att'[v] = att[v]
    BY <1>7 DEF EnqueueAuditCreate, TypeOK
  <2>4. \A m \in Messages : Active(m)' => Active(m)
    BY <2>1, <2>2, <2>3 DEF Active, Unacked
  <2>5. \A v \in Workers, m \in Messages : Following(v, m) => Following(v, m)'
    BY <2>2, <2>3 DEF Following
  <2>6. /\ \A v \in Workers, s \in Runs : s # r /\ Chaining(v, s)' => Chaining(v, s)
        /\ \A q \in Requests, s \in Runs : Submitting(q, s)' => Submitting(q, s)
    BY <2>1, <2>2, <2>3 DEF Chaining, Submitting
  <2>7. Rested'
    BY <1>0, <2>1, <2>2, <2>4, <2>5, <2>6, RestedKept
  <2> QED
    BY <2>2, <2>7
<1>8. ASSUME NEW w \in Workers, NEW r \in Runs,
             \/ EnqueueAuditKiq(w) /\ r = att[w].audit
             \/ OnError(w) /\ r = RunOf(w)
      PROVE  Rested' /\ \A s \in Runs : Succeeded(s) => Succeeded(s)'
  <2>1. Live(w) /\ row' = row /\ att'[w].step = "ack"
        /\ att[w].step \in {"audit_kiq", "on_error"}
    BY <1>8 DEF EnqueueAuditKiq, OnError, Goto, Live, TypeOK, Attempts
  <2>2. /\ att'[w].msg = att[w].msg /\ req' = req
        /\ \A v \in Workers : v # w => att'[v] = att[v]
    BY <1>8, <2>1, BookkeepingSteps DEF TaskStep, Ack
  <2>3. ~Succeeded(r)
    <3>1. CASE EnqueueAuditKiq(w)
      <4>1. Chaining(w, r) \/ OnError(w)
        BY <1>8, <3>1 DEF EnqueueAuditKiq, Chaining
      <4>2. ~OnError(w)
        BY <3>1 DEF EnqueueAuditKiq, OnError
      <4> QED
        BY <1>0, <4>1, <4>2 DEF Rested
    <3>2. CASE OnError(w) /\ r = RunOf(w)
      <4>1. att[w].step = "on_error"
        BY <3>2 DEF OnError
      <4> QED
        BY <1>0, <2>1, <3>2, <4>1, UnderWay
    <3> QED
      BY <1>8, <3>1, <3>2
  <2>4. \A m \in Messages : stream'[m].run # r => stream'[m] = stream[m]
    BY <1>8 DEF EnqueueAuditKiq, OnError, Kiq, TypeOK
  <2>5. \A s \in Runs : Succeeded(s)' <=> Succeeded(s)
    BY <2>1 DEF Succeeded
  <2>6. ASSUME NEW m \in Messages, Active(m)', stream'[m].run # r
        PROVE  Active(m) /\ stream'[m].run = stream[m].run /\ m # att[w].msg
    BY <2>1, <2>2, <2>4, <2>6 DEF Active, Unacked
  <2>7. \A v \in Workers, m \in Messages :
           m # att[w].msg /\ Following(v, m) => Following(v, m)'
    BY <2>2 DEF Following
  <2>8. /\ \A v \in Workers, s \in Runs : Chaining(v, s)' => Chaining(v, s)
        /\ \A q \in Requests, s \in Runs : Submitting(q, s)' => Submitting(q, s)
    BY <2>1, <2>2 DEF Chaining, Submitting
  <2>9. Rested'
    BY <1>0, <2>3, <2>5, <2>6, <2>7, <2>8, RestedKept
  <2> QED
    BY <2>5, <2>9
<1>9. ASSUME NEW w \in Workers, Ack(w)
      PROVE  Rested' /\ \A r \in Runs : Succeeded(r) => Succeeded(r)'
  <2>1. /\ \A v \in Workers : v # w => att'[v] = att[v]
        /\ Live(w) /\ att[w].step = "ack" /\ att'[w].step = "idle"
        /\ req' = req /\ row' = row
    BY <1>9 DEF Ack, NoAttempt, Attempt, TypeOK, Live
  <2>2. PICK msg \in Messages : msg = att[w].msg
    BY <2>1 DEF Wired
  <2>3. /\ stream'[msg].state = "acked" /\ stream'[msg].run = stream[msg].run
        /\ \A m \in Messages : m # msg => stream'[m] = stream[m]
    BY <1>9, <2>2 DEF Ack, TypeOK, Entries
  <2>4. ASSUME NEW m \in Messages, Active(m)'
        PROVE  Active(m) /\ stream'[m].run = stream[m].run
    <3>1. m # msg /\ stream'[m] = stream[m]
      BY <2>3, <2>4 DEF Active, Unacked
    <3>2. ASSUME NEW v \in Workers, att[v].step = "ack" PROVE att[v].msg # m
      BY <2>1, <2>2, <2>4, <3>1, <3>2 DEF Active
    <3> QED
      BY <2>4, <3>1, <3>2 DEF Active, Unacked
  <2>5. \A v \in Workers, m \in Messages : Following(v, m) => Following(v, m)'
    BY <2>1 DEF Following
  <2>6. /\ \A v \in Workers, s \in Runs : Chaining(v, s)' => Chaining(v, s)
        /\ \A q \in Requests, s \in Runs : Submitting(q, s)' => Submitting(q, s)
    BY <2>1 DEF Chaining, Submitting
  <2>7. \A s \in Runs : Succeeded(s)' <=> Succeeded(s)
    BY <2>1 DEF Succeeded
  <2>8. Rested'
    BY <1>0, <2>4, <2>5, <2>6, <2>7, RestedKept
  <2> QED
    BY <2>7, <2>8
<1>10. ASSUME NEW w \in Workers PROVE ~CallRaises(w) /\ ~OnErrorRaises(w) /\ ~WorkerDies(w)
  BY <1>0 DEF CallRaises, OnErrorRaises, WorkerDies, Calm
<1>11. CASE Tick
  <2>1. /\ \A w \in Workers :
              /\ att'[w].step = att[w].step /\ att'[w].msg = att[w].msg
              /\ att'[w].audit = att[w].audit
        /\ req' = req /\ row' = row
    BY <1>11 DEF Tick, TypeOK, Attempts
  <2>2. \A m \in Messages : stream'[m].run = stream[m].run /\ (Unacked(m)' <=> Unacked(m))
    BY <1>11 DEF Tick, Unacked, TypeOK, Entries
  <2>3. \A s \in Runs : Succeeded(s)' <=> Succeeded(s)
    BY <2>1 DEF Succeeded
  <2>4. Rested'
    BY <1>0, <2>1, <2>2, <2>3, RestedKept
    DEF Chaining, Submitting, Active, Following
  <2> QED
    BY <2>3, <2>4
<1>12. CASE UNCHANGED vars
  BY <1>0, <1>12, RestedKept
  DEF vars, Chaining, Submitting, Active, Unacked, Following, Succeeded
<1>13. ASSUME NEW w \in Workers, TaskStep(w)
       PROVE  Rested' /\ \A r \in Runs : Succeeded(r) => Succeeded(r)'
  <2>1. RunOf(w) \in Runs /\ (att[w].step = "audit_kiq" => att[w].audit \in Runs)
    <3>1. Live(w)
      BY <1>13 DEF TaskStep, MarkRunning, GraphEnds, FinalMetadata, MarkSucceeded,
         MarkFailed, EnqueueAuditCreate, EnqueueAuditKiq, OnError, Ack, Live
    <3> QED
      BY <3>1, RunOfTyped DEF Wired
  <2>2. EnqueueAuditKiq(w) => att[w].step = "audit_kiq"
    BY DEF EnqueueAuditKiq
  <2> QED
    BY <1>5, <1>6, <1>7, <1>8, <1>9, <1>13, <2>1, <2>2 DEF TaskStep
<1> QED
  BY <1>1, <1>2, <1>3, <1>4, <1>10, <1>11, <1>12, <1>13 DEF Next, RequestStep

(* A run that SUCCEEDED stays so while no process dies and no call fails: no *)
(* retry and no second delivery of its task is under way or can begin.       *)
THEOREM SuccessStands ==
  ASSUME \A k \in Workflows : Timeout[k] < IdleTimeout
  PROVE  Spec => SuccessIsFinal
<1>1. Init => TypeOK /\ Wired /\ Exclusive /\ Numbered /\ Rested
  <2>1. Init => Rested
    BY DEF Init, Rested, Succeeded, AbsentRow
  <2> QED
    BY <2>1, InitTyped, InitExclusive, InitNumbered
<1>2. TypeOK /\ Wired /\ Exclusive /\ Numbered /\ Rested /\ [Next]_vars
        => (TypeOK /\ Wired /\ Exclusive /\ Numbered /\ Rested)'
  BY NextTyped, NextWired, NextExclusive, NextNumbered, NextRested
<1>3. TypeOK /\ Wired /\ Exclusive /\ Numbered /\ Rested /\ [Next]_vars
        => [\A r \in Runs :
              row[r].status = "SUCCEEDED" /\ crashes' = 0 /\ faults' = 0 =>
                 row'[r].status = "SUCCEEDED"]_vars
  BY NextRested DEF Stands, Calm, Succeeded
<1> QED
  BY <1>1, <1>2, <1>3, PTL DEF Spec, SuccessIsFinal

-----------------------------------------------------------------------------
(* Why the audit of a success is chained.  Until it is, the run is pledged:  *)
(* a message of it is owed whose attempt, if any, still has it to do.        *)
Pledge(m) == Unacked(m) /\ \A w \in Workers :
                att[w].step \in {"on_error", "ack"} => att[w].msg # m
Pledged(r) == \E m \in Messages : Pledge(m) /\ stream[m].run = r

Audited(r) == \E m \in Messages :
    Used(m) /\ row[stream[m].run].auto /\ row[stream[m].run].of = r

Wanting(r) == row[r].workflow = "mining" /\ row[r].dossier /\ Succeeded(r)

Named == \A w \in Workers : att[w].step = "audit_kiq" =>
            row[att[w].audit].auto /\ row[att[w].audit].of = RunOf(w)

Pursued == faults = 0 => \A r \in Runs : Wanting(r) => Audited(r) \/ Pledged(r)

(* What a row was created with stays. *)
Origin == \A r \in Runs : row[r].status # "ABSENT" =>
    /\ row'[r].workflow = row[r].workflow /\ row'[r].dossier = row[r].dossier
    /\ row'[r].auto = row[r].auto /\ row'[r].of = row[r].of

LEMMA NextOrigin == ASSUME TypeOK, Wired, [Next]_vars PROVE Origin
<1>c. ASSUME NEW r \in Runs, NEW workflow, NEW of, NEW auto, NEW dossier,
             Create(r, workflow, of, auto, dossier)
      PROVE  Origin
  BY <1>c DEF Create, Origin, TypeOK
<1>u. ASSUME row' = row PROVE Origin
  BY <1>u DEF Origin
<1>1. ASSUME NEW q \in Requests, RequestStep(q) \/ RequestDies(q) PROVE Origin
  <2>1. CASE SubmitSetMetadata(q)
    BY <2>1 DEF SubmitSetMetadata, Origin, TypeOK, Rows
  <2> QED
    BY <1>1, <1>c, <1>u, <2>1 DEF RequestStep, SubmitCreate, PostAuditCreate,
       RequestKiq, RequestDies
<1>2. ASSUME NEW w \in Workers, MarkRunning(w) PROVE Origin
  BY <1>2 DEF MarkRunning, Origin, TypeOK, Rows
<1>3. ASSUME NEW w \in Workers, NEW status, NEW result, Finish(w, status, result)
      PROVE  Origin
  BY <1>3 DEF Finish, Origin, TypeOK, Rows
<1>4. ASSUME NEW w \in Workers, TaskStep(w) PROVE Origin
  BY <1>4, <1>c, <1>u, <1>2, <1>3 DEF TaskStep, GraphEnds, FinalMetadata,
     MarkSucceeded, MarkFailed, EnqueueAuditCreate, EnqueueAuditKiq, OnError, Ack
<1>5. ASSUME NEW w \in Workers, Listen(w) \/ CallRaises(w) \/ OnErrorRaises(w) \/ WorkerDies(w)
      PROVE  Origin
  BY <1>5, <1>u DEF Listen, Deliver, Reclaim, Begin, CallRaises, OnErrorRaises, WorkerDies
<1>6. CASE Tick \/ UNCHANGED vars
  BY <1>6, <1>u DEF Tick, vars
<1> QED
  BY <1>1, <1>4, <1>5, <1>6 DEF Next

LEMMA AuditedStays ==
  ASSUME Wired, Grows, Origin, NEW r \in Runs, Audited(r)
  PROVE  Audited(r)'
<1>1. PICK m \in Messages :
         Used(m) /\ row[stream[m].run].auto /\ row[stream[m].run].of = r
  BY DEF Audited
<1>2. stream[m].run \in Runs /\ row[stream[m].run].status # "ABSENT"
  BY <1>1 DEF Wired, RowBeforeMessage, Used
<1>3. Used(m)' /\ stream'[m].run = stream[m].run
  BY <1>1 DEF Grows, Used
<1> QED
  BY <1>1, <1>2, <1>3 DEF Origin, Audited

LEMMA NextNamed ==
  ASSUME TypeOK, Wired, Named, [Next]_vars
  PROVE  Named'
<1>g. Grows /\ Origin
  BY NextGrows, NextOrigin
<1>k. ASSUME NEW w \in Workers, att[w].step = "audit_kiq", att'[w] = att[w]
      PROVE  row'[att'[w].audit].auto /\ row'[att'[w].audit].of = RunOf(w)'
  <2>1. /\ att[w].audit \in Runs /\ row[att[w].audit].status # "ABSENT"
        /\ att[w].msg \in Messages /\ stream[att[w].msg].state # "free"
        /\ row[att[w].audit].auto /\ row[att[w].audit].of = RunOf(w)
    BY <1>k DEF Wired, Live, Named
  <2>2. RunOf(w)' = RunOf(w)
    BY <1>g, <1>k, <2>1 DEF Grows, RunOf
  <2> QED
    BY <1>g, <1>k, <2>1, <2>2 DEF Origin
<1>1. ASSUME \A w \in Workers : att'[w].step = "audit_kiq" => att'[w] = att[w]
      PROVE  Named'
  BY <1>1, <1>k DEF Named
<1>2. ASSUME NEW w \in Workers, EnqueueAuditCreate(w) PROVE Named'
  <2>1. PICK r \in Runs : /\ Create(r, "audit", RunOf(w), TRUE, TRUE)
                          /\ att' = [att EXCEPT ![w] =
                                 [@ EXCEPT !.step = "audit_kiq", !.audit = r]]
    BY <1>2 DEF EnqueueAuditCreate
  <2>2. /\ att'[w].audit = r /\ att'[w].msg = att[w].msg
        /\ \A v \in Workers : v # w => att'[v] = att[v]
    BY <2>1 DEF TypeOK, Attempts
  <2>3. row'[r].auto /\ row'[r].of = RunOf(w)
    BY <2>1 DEF Create, TypeOK
  <2>4. RunOf(w)' = RunOf(w)
    BY <1>2, <2>2 DEF EnqueueAuditCreate, RunOf
  <2> QED
    BY <1>k, <2>2, <2>3, <2>4 DEF Named
<1>3. ASSUME NEW w \in Workers, TaskStep(w) \/ CallRaises(w), ~EnqueueAuditCreate(w)
      PROVE  Named'
  <2>1. CASE Ack(w)
    BY <1>1, <2>1 DEF Ack, NoAttempt, Attempt, TypeOK
  <2>2. CASE ~Ack(w)
    BY <1>1, <1>3, <2>2, BookkeepingSteps
  <2> QED
    BY <2>1, <2>2
<1>4. ASSUME NEW w \in Workers, Listen(w) \/ OnErrorRaises(w) \/ WorkerDies(w) PROVE Named'
  <2>1. CASE Listen(w)
    <3>1. PICK m \in Messages : Begin(w, m)
      BY <2>1 DEF Listen, Deliver, Reclaim
    <3> QED
      BY <1>1, <3>1 DEF Begin, Attempt, TypeOK
  <2>2. CASE OnErrorRaises(w) \/ WorkerDies(w)
    BY <1>1, <2>2 DEF OnErrorRaises, WorkerDies, NoAttempt, Attempt, TypeOK
  <2> QED
    BY <1>4, <2>1, <2>2
<1>5. CASE Tick
  BY <1>1, <1>5 DEF Tick, TypeOK, Attempts
<1>6. ASSUME NEW q \in Requests, RequestStep(q) \/ RequestDies(q) PROVE Named'
  BY <1>1, <1>6 DEF RequestStep, SubmitCreate, PostAuditCreate, RequestKiq,
     SubmitSetMetadata, RequestDies
<1>7. CASE UNCHANGED vars
  BY <1>1, <1>7 DEF vars
<1> QED
  BY <1>2, <1>3, <1>4, <1>5, <1>6, <1>7 DEF Next

(* A step after which every successful run was so before, and kept the       *)
(* message it is pledged by.                                                 *)
LEMMA PursuedKept ==
  ASSUME Wired, Grows, Origin, Pursued, faults = 0,
         \A r \in Runs : Wanting(r)' =>
            \/ Wanting(r) /\ \A m \in Messages :
                  Pledge(m) /\ stream[m].run = r => Pledge(m)'
            \/ Pledged(r)' \/ Audited(r)'
  PROVE  Pursued'
<1> SUFFICES ASSUME NEW r \in Runs, Wanting(r)' PROVE Audited(r)' \/ Pledged(r)'
  BY DEF Pursued
<1>1. CASE Pledged(r)' \/ Audited(r)'
  BY <1>1
<1>2. CASE Wanting(r) /\ \A m \in Messages :
              Pledge(m) /\ stream[m].run = r => Pledge(m)'
  <2>1. CASE Audited(r)
    BY <2>1, AuditedStays
  <2>2. CASE Pledged(r)
    <3>1. PICK m \in Messages : Pledge(m) /\ stream[m].run = r
      BY <2>2 DEF Pledged
    <3>2. stream'[m].run = r
      BY <3>1 DEF Pledge, Unacked, Grows
    <3> QED
      BY <1>2, <3>1, <3>2 DEF Pledged
  <2> QED
    BY <1>2, <2>1, <2>2 DEF Pursued
<1> QED
  BY <1>1, <1>2

LEMMA NextPursued ==
  ASSUME TypeOK, Wired, Exclusive, Named, Pursued, [Next]_vars
  PROVE  Pursued'
<1> SUFFICES ASSUME faults' = 0 PROVE Pursued'
  BY DEF Pursued
<1>0. faults = 0 /\ Grows /\ Origin
  BY CountersGrow, NextGrows, NextOrigin
(* Steps that make no run a successful one. *)
<1>s. ASSUME \A r \in Runs : Succeeded(r)' => Succeeded(r),
             \A m \in Messages : Pledge(m) => Pledge(m)'
      PROVE  Pursued'
  <2>1. ASSUME NEW r \in Runs, Wanting(r)' PROVE Wanting(r)
    <3>1. Succeeded(r)
      BY <1>s, <2>1 DEF Wanting
    <3>2. row[r].status # "ABSENT"
      BY <3>1 DEF Succeeded
    <3> QED
      BY <1>0, <2>1, <3>1, <3>2 DEF Wanting, Origin
  <2> QED
    BY <1>0, <1>s, <2>1, PursuedKept
<1>c. ASSUME NEW r \in Runs, NEW workflow, NEW of, NEW auto, NEW dossier,
             Create(r, workflow, of, auto, dossier)
      PROVE  \A s \in Runs : Succeeded(s)' => Succeeded(s)
  BY <1>c DEF Create, Succeeded, TypeOK
<1>1. ASSUME NEW q \in Requests, RequestStep(q) \/ RequestDies(q) PROVE Pursued'
  <2>1. att' = att /\ \A m \in Messages :
                         stream[m].state # "free" => stream'[m] = stream[m]
    BY <1>1, KiqKeepsEntries DEF RequestStep, SubmitCreate, PostAuditCreate,
       RequestKiq, SubmitSetMetadata, RequestDies
  <2>2. \A s \in Runs : Succeeded(s)' => Succeeded(s)
    <3>1. CASE SubmitSetMetadata(q)
      BY <3>1 DEF SubmitSetMetadata, Succeeded, TypeOK, Rows
    <3>2. CASE RequestKiq(q) \/ RequestDies(q)
      BY <3>2 DEF RequestKiq, RequestDies, Succeeded
    <3>3. CASE SubmitCreate(q) \/ PostAuditCreate(q)
      BY <3>3, <1>c DEF SubmitCreate, PostAuditCreate
    <3> QED
      BY <1>1, <3>1, <3>2, <3>3 DEF RequestStep
  <2>3. \A m \in Messages : Pledge(m) => Pledge(m)'
    BY <2>1 DEF Pledge, Unacked
  <2> QED
    BY <1>s, <2>2, <2>3
<1>2. ASSUME NEW w \in Workers, Listen(w) PROVE Pursued'
  <2>1. PICK m \in Messages : Begin(w, m) /\ Unacked(m)
    BY <1>2 DEF Listen, Deliver, Reclaim, Unacked
  <2>2. /\ att'[w].step = "mark_running" /\ row' = row
        /\ \A v \in Workers : v # w => att'[v] = att[v]
    BY <2>1 DEF Begin, Attempt, TypeOK
  <2>3. \A p \in Messages : Unacked(p)' <=> Unacked(p)
    BY <2>1 DEF Begin, Unacked, TypeOK, Entries
  <2>4. \A p \in Messages : Pledge(p) => Pledge(p)'
    BY <2>2, <2>3 DEF Pledge
  <2> QED
    BY <1>s, <2>2, <2>4 DEF Succeeded
<1>3. ASSUME NEW w \in Workers, TaskStep(w), ~Ack(w) PROVE Pursued'
  <2>1. /\ Live(w) /\ att'[w].msg = att[w].msg /\ att[w].step # "ack"
        /\ \A v \in Workers : v # w => att'[v] = att[v]
    BY <1>3, BookkeepingSteps
  <2>2. PICK msg \in Messages, run \in Runs :
           msg = att[w].msg /\ run = RunOf(w) /\ stream[msg].run = run /\ Used(msg)
    BY <2>1, HeldActive
  <2>3. \A m \in Messages : Used(m) => stream'[m] = stream[m]
    BY <1>3, TaskStepKinds DEF Bookkeeping, Used
  (* Only the message of this slot can stop being a pledge. *)
  <2>4. ASSUME NEW m \in Messages, Pledge(m), m # msg PROVE Pledge(m)'
    <3>1. Unacked(m)'
      BY <2>3, <2>4 DEF Pledge, Unacked, Used
    <3> QED
      BY <2>1, <2>2, <2>4, <3>1 DEF Pledge
  <2>5. ASSUME NEW m \in Messages, Pledge(m),
               att'[w].step \notin {"on_error", "ack"} \/ att[w].step = "on_error"
        PROVE  Pledge(m)'
    <3>1. CASE m = msg
      <4>1. att'[w].step \notin {"on_error", "ack"}
        BY <2>2, <2>5, <3>1 DEF Pledge
      <4>2. Unacked(m)'
        BY <2>2, <2>3, <2>5, <3>1 DEF Pledge, Unacked
      <4> QED
        BY <2>1, <2>5, <4>1, <4>2 DEF Pledge
    <3> QED
      BY <2>4, <2>5, <3>1
  (* A step that changes, of all statuses, that of its own run. *)
  <2>6. ASSUME \A r \in Runs : r # run /\ Succeeded(r)' => Succeeded(r),
               Wanting(run)' => Pledged(run)' \/ Audited(run)'
        PROVE  Pursued'
    <3>1. ASSUME NEW r \in Runs, r # run, Wanting(r)' PROVE Wanting(r)
      <4>1. Succeeded(r)
        BY <2>6, <3>1 DEF Wanting
      <4>2. row[r].status # "ABSENT"
        BY <4>1 DEF Succeeded
      <4> QED
        BY <1>0, <3>1, <4>1, <4>2 DEF Wanting, Origin
    <3>2. ASSUME NEW r \in Runs, r # run, NEW m \in Messages, Pledge(m),
                 stream[m].run = r
          PROVE  Pledge(m)'
      BY <2>2, <2>4, <3>2
    <3> QED
      BY <1>0, <2>6, <3>1, <3>2, PursuedKept
  <2>7. CASE MarkRunning(w) \/ FinalMetadata(w) \/ EnqueueAuditCreate(w) \/ OnError(w)
             \/ \E out \in {"ok", "error", "timeout"} : GraphEnds(w, out)
    <3>1. att'[w].step \notin {"on_error", "ack"} \/ att[w].step = "on_error"
      <4>1. CASE OnError(w)
        BY <4>1 DEF OnError
      <4>2. CASE MarkRunning(w)
        BY <4>2 DEF MarkRunning, Goto, TypeOK, Attempts
      <4>3. CASE FinalMetadata(w)
        BY <4>3 DEF FinalMetadata, TypeOK, Attempts
      <4>4. CASE EnqueueAuditCreate(w)
        BY <4>4 DEF EnqueueAuditCreate, TypeOK, Attempts
      <4>5. CASE \E out \in {"ok", "error", "timeout"} : GraphEnds(w, out)
        BY <4>5 DEF GraphEnds, TypeOK, Attempts
      <4> QED
        BY <2>7, <4>1, <4>2, <4>3, <4>4, <4>5
    <3>2. \A r \in Runs : Succeeded(r)' => Succeeded(r)
      <4>1. CASE MarkRunning(w)
        BY <2>2, <4>1 DEF MarkRunning, Succeeded, TypeOK, Rows
      <4>2. CASE EnqueueAuditCreate(w)
        BY <4>2, <1>c DEF EnqueueAuditCreate
      <4>3. CASE row' = row
        BY <4>3 DEF Succeeded
      <4> QED
        BY <2>7, <4>1, <4>2, <4>3 DEF FinalMetadata, OnError, GraphEnds
    <3> QED
      BY <1>s, <2>5, <3>1, <3>2
  <2>8. CASE MarkFailed(w)
    <3>1. /\ ~Succeeded(run)'
          /\ \A r \in Runs : r # run => (Succeeded(r)' <=> Succeeded(r))
      BY <2>2, <2>8 DEF MarkFailed, Finish, Succeeded, TypeOK, Rows
    <3> QED
      BY <2>6, <3>1 DEF Wanting
  <2>9. CASE MarkSucceeded(w)
    <3>1. \A r \in Runs : r # run => (Succeeded(r)' <=> Succeeded(r))
      BY <2>2, <2>9 DEF MarkSucceeded, Finish, Succeeded, TypeOK, Rows
    <3>2. ASSUME Wanting(run)' PROVE Pledged(run)'
      <4>1. row[run].workflow = "mining" /\ row[run].dossier
        <5>1. row[run].status # "ABSENT"
          BY <2>1, <2>2, HeldActive
        <5> QED
          BY <1>0, <3>2, <5>1 DEF Wanting, Origin
      <4>2. att'[w].step = "audit_create"
        BY <2>2, <2>9, <4>1 DEF MarkSucceeded, Goto, WorkflowOf, TypeOK, Attempts
      <4>3. stream' = stream /\ Unacked(msg)
        BY <2>1, <2>2, <2>9, LiveOwed DEF MarkSucceeded
      <4>4. ASSUME NEW v \in Workers, att'[v].step \in {"on_error", "ack"}
            PROVE  att'[v].msg # msg
        <5>1. v # w /\ att'[v] = att[v] /\ Live(v)
          BY <2>1, <4>2, <4>4 DEF Live
        <5> QED
          BY <2>1, <2>2, <5>1 DEF Exclusive, NoDoubleRun
      <4>5. Pledge(msg)' /\ stream'[msg].run = run
        BY <2>2, <4>3, <4>4 DEF Pledge, Unacked
      <4> QED
        BY <4>5 DEF Pledged
    <3> QED
      BY <2>6, <3>1, <3>2
  <2>10. CASE EnqueueAuditKiq(w)
    <3>1. row' = row /\ att[w].step = "audit_kiq" /\ Kiq(att[w].audit, 0)
      BY <2>10 DEF EnqueueAuditKiq
    <3>2. PICK m \in Messages : /\ stream'[m].run = att[w].audit
                                /\ stream'[m].state = "queued"
      BY <3>1 DEF Kiq, TypeOK
    <3>3. row[att[w].audit].auto /\ row[att[w].audit].of = run
      BY <2>2, <3>1 DEF Named
    <3>4. Audited(run)'
      BY <3>1, <3>2, <3>3 DEF Audited, Used
    <3>5. \A r \in Runs : Succeeded(r)' => Succeeded(r)
      BY <3>1 DEF Succeeded
    <3> QED
      BY <2>6, <3>4, <3>5
  <2> QED
    BY <1>3, <2>7, <2>8, <2>9, <2>10 DEF TaskStep
<1>4. ASSUME NEW w \in Workers, Ack(w) PROVE Pursued'
  <2>1. /\ \A v \in Workers : v # w => att'[v] = att[v]
        /\ Live(w) /\ att[w].step = "ack" /\ att'[w].step = "idle" /\ row' = row
    BY <1>4 DEF Ack, NoAttempt, Attempt, TypeOK, Live
  <2>2. \A m \in Messages : m # att[w].msg => stream'[m] = stream[m]
    BY <1>4 DEF Ack, TypeOK
  <2>3. ASSUME NEW m \in Messages, Pledge(m) PROVE Pledge(m)'
    <3>1. m # att[w].msg
      BY <2>1, <2>3 DEF Pledge
    <3> QED
      BY <2>1, <2>2, <2>3, <3>1 DEF Pledge, Unacked
  <2> QED
    BY <1>s, <2>1, <2>3 DEF Succeeded
<1>5. ASSUME NEW w \in Workers PROVE ~CallRaises(w) /\ ~OnErrorRaises(w)
  BY <1>0 DEF CallRaises, OnErrorRaises
<1>6. ASSUME NEW w \in Workers, WorkerDies(w) PROVE Pursued'
  <2>1. /\ stream' = stream /\ row' = row
        /\ \A v \in Workers : v # w => att'[v] = att[v]
        /\ att'[w].step = "idle"
    BY <1>6 DEF WorkerDies, NoAttempt, Attempt, TypeOK
  <2>2. \A m \in Messages : Pledge(m) => Pledge(m)'
    BY <2>1 DEF Pledge, Unacked
  <2> QED
    BY <1>s, <2>1, <2>2 DEF Succeeded
<1>7. CASE Tick
  <2>1. row' = row /\ \A w \in Workers :
           att'[w].step = att[w].step /\ att'[w].msg = att[w].msg
    BY <1>7 DEF Tick, TypeOK, Attempts
  <2>2. \A m \in Messages : Unacked(m)' <=> Unacked(m)
    BY <1>7 DEF Tick, Unacked, TypeOK, Entries
  <2>3. \A m \in Messages : Pledge(m) => Pledge(m)'
    BY <2>1, <2>2 DEF Pledge
  <2> QED
    BY <1>s, <2>1, <2>3 DEF Succeeded
<1>8. CASE UNCHANGED vars
  BY <1>8, <1>s DEF vars, Succeeded, Pledge, Unacked
<1> QED
  BY <1>1, <1>2, <1>3, <1>4, <1>5, <1>6, <1>7, <1>8 DEF Next

(* task.py:117: while no call fails, a mining run with a dossier that ended  *)
(* SUCCEEDED and is owed no longer had its audit handed to the broker, even  *)
(* if workers died between the two.                                          *)
THEOREM AuditsAreChained ==
  ASSUME \A k \in Workflows : Timeout[k] < IdleTimeout
  PROVE  Spec => []SuccessIsChained
<1>1. Init => TypeOK /\ Wired /\ Exclusive /\ Named /\ Pursued
  <2>1. Init => Named /\ Pursued
    BY DEF Init, Named, Pursued, Wanting, Succeeded, AbsentRow, NoAttempt, Attempt
  <2> QED
    BY <2>1, InitTyped, InitExclusive
<1>2. TypeOK /\ Wired /\ Exclusive /\ Named /\ Pursued /\ [Next]_vars
        => (TypeOK /\ Wired /\ Exclusive /\ Named /\ Pursued)'
  BY NextTyped, NextWired, NextExclusive, NextNamed, NextPursued
<1>3. Pursued => SuccessIsChained
  BY DEF Pursued, SuccessIsChained, Wanting, Succeeded, Audited, Used, Pledged,
     Pledge, Owed
<1> QED
  BY <1>1, <1>2, <1>3, PTL DEF Spec
=============================================================================
