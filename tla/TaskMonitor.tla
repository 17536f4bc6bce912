----------------------------- MODULE TaskMonitor -----------------------------
(***************************************************************************)
(* The developer task monitor (taskiq/monitor.py): a middleware that keeps *)
(* one lifecycle record per task id in Valkey, written by whoever sends    *)
(* the task and by the worker that runs it, an index of the ids, from      *)
(* which GET /tasks lists them, and POST /tasks/{id}/retry, which sends a  *)
(* failed task again under its id.                                         *)
(*                                                                         *)
(* One task id.  A slot of "send" is one sending of it, or one more        *)
(* delivery of a message that the broker took for abandoned.  The sender   *)
(* tells the monitor after the message is on the stream, so a worker may   *)
(* be quicker; every mark is a pipeline that is not a transaction, so its  *)
(* commands interleave with those of others and may stop after any of them.*)
(***************************************************************************)
EXTENDS Naturals, FiniteSets

CONSTANTS
    MaxSends,    \* bound: messages sent under the id, and further deliveries
    MaxRetries,  \* the task's max_retries label
    Retriers     \* POST /tasks/{id}/retry requests

ASSUME MonitorAssumption ==
    /\ MaxSends \in Nat \ {0}
    /\ MaxRetries \in Nat

Sends == 1 .. MaxSends

VARIABLES
    record,   \* the hash of the task
    lasting,  \* has the hash a TTL?
    listed,   \* is the task in the sorted set of ids?
    lapsed,   \* history: the last pipeline stopped after its HSET, or the index
              \* was made to forget the task
    reader,   \* a GET /tasks request
    send,     \* the messages
    asked,    \* the retry requests: what they read from the record
    mishaps,  \* history: which of the five mishaps below happened
    outcome   \* history: how the execution recorded last ended

monitorVars == <<record, lasting, listed, lapsed, reader, send, asked, mishaps, outcome>>
store == <<record, lasting, listed, lapsed>>

(* "starting", "ending" and "failing" are the mark pipelines of the worker;  *)
(* "rekick" is the retry engine's delay before it sends the next message,    *)
(* "unacked" a message that is executed but not yet acknowledged, "pending"  *)
(* one whose delivery came to nothing and that waits to be reclaimed.        *)
Marking == {"starting", "ending", "failing"}
SendSteps == {"unsent", "stream", "running", "rekick", "unacked", "pending", "over"} \cup Marking

(* The commands of a pipeline that are still to come: HDEL, HSET, EXPIRE and *)
(* the three on the index.                                                   *)
PipelineSteps == {"clear", "set", "expire", "list"}

(* "tell" is the sender's pipeline and "mark" the worker's; "of" the message *)
(* that is delivered, "by" the delivery whose on_error sends it (0: none);   *)
(* "retries" the _retries label.                                             *)
Messages == [step: SendSteps, tell: PipelineSteps \cup {"done"}, mark: PipelineSteps,
             of: Nat, by: Nat, retries: Nat]

(* "error" stands for the fields of a run that mark_queued clears            *)
(* (_RUNTIME_FIELDS), "named" for those that only mark_queued writes: the    *)
(* task's name, arguments and labels.                                        *)
Records == [state: {"none", "queued", "running", "success", "failed"},
            retries: Nat, error: BOOLEAN, named: BOOLEAN]
NoRecord == [state |-> "none", retries |-> 0, error |-> FALSE, named |-> FALSE]

Mishaps == {"early", "uncleared", "again", "twice", "lost"}

MonitorTypeOK ==
    /\ record \in Records
    /\ lasting \in BOOLEAN /\ listed \in BOOLEAN /\ lapsed \in BOOLEAN
    /\ reader \in {"idle", "empty"}
    /\ send \in [Sends -> Messages]
    /\ asked \in [Retriers -> [step: {"idle", "kick", "over"}, retries: Nat]]
    /\ mishaps \subseteq Mishaps
    /\ outcome \in {"none", "success", "failed"}

Message(of, tell, by, retries) ==
    [step |-> "stream", tell |-> tell, mark |-> "set",
     of |-> of, by |-> by, retries |-> retries]

MonitorInit ==
    /\ record = NoRecord /\ lasting = FALSE /\ listed = FALSE /\ lapsed = FALSE
    /\ reader = "idle"
    /\ send = [m \in Sends |->
                 IF m = 1 THEN Message(1, "clear", 0, 0)
                 ELSE [Message(0, "done", 0, 0) EXCEPT !.step = "unsent"]]
    /\ asked = [r \in Retriers |-> [step |-> "idle", retries |-> 0]]
    /\ mishaps = {}
    /\ outcome = "none"

(* The next message under the id, any slot that is not used. *)
Unsent == {m \in Sends : send[m].step = "unsent"}
NextSend == CHOOSE m \in Unsent : TRUE

(* A message that is still queued, executing or about to be sent again. *)
Live(m) == send[m].step \notin {"unsent", "unacked", "over"}

Happened(what, condition) == mishaps' = mishaps \cup (IF condition THEN {what} ELSE {})

-----------------------------------------------------------------------------
(* The commands of _touch, sent in one pipeline that is not a transaction.  *)

Hset(new) == record' = new /\ UNCHANGED <<lasting, listed, lapsed>>

(* No effect on a hash that is gone. *)
ExpireHash == lasting' = (record.state # "none") /\ UNCHANGED <<record, listed, lapsed>>

(* ZADD, the TTL of the index and the removal of old ids: a pipeline that    *)
(* comes this far makes up for one that did not.                             *)
Zadd ==
    /\ listed' = TRUE
    /\ lapsed' = (lapsed /\ record.state # "none" /\ ~lasting)
    /\ UNCHANGED <<record, lasting>>

(* The connection is lost before the command, or inside the last three.      *)
Cut(command) ==
    /\ listed' \in {listed, listed \/ command = "list"}
    /\ lapsed' = (lapsed \/ command \in {"expire", "list"})
    /\ UNCHANGED <<record, lasting>>

-----------------------------------------------------------------------------
(* Senders.                                                                 *)

(* Mutant: the fields of the last run stay when the task is queued again. *)
TellClearNothing(m) ==
    /\ send[m].tell = "clear"
    /\ UNCHANGED store
    /\ send' = [send EXCEPT ![m].tell = "set"]
    /\ UNCHANGED <<reader, asked, mishaps, outcome>>

(* post_send: mark_queued, once the message is on the stream. *)
TellClear(m) ==
    /\ send[m].tell = "clear"
    /\ Hset([record EXCEPT !.error = FALSE])
    /\ send' = [send EXCEPT ![m].tell = "set"]
    /\ UNCHANGED <<reader, asked, mishaps, outcome>>

TellSet(m) ==
    /\ send[m].tell = "set"
    /\ Hset([record EXCEPT !.state = "queued", !.retries = send[m].retries, !.named = TRUE])
    /\ send' = [send EXCEPT ![m].tell = "expire"]
    /\ UNCHANGED <<reader, asked, mishaps, outcome>>

TellExpire(m) ==
    /\ send[m].tell = "expire"
    /\ ExpireHash
    /\ send' = [send EXCEPT ![m].tell = "list"]
    /\ UNCHANGED <<reader, asked, mishaps, outcome>>

TellList(m) ==
    /\ send[m].tell = "list"
    /\ Zadd
    /\ send' = [send EXCEPT ![m].tell = "done", ![m].by = 0]
    /\ UNCHANGED <<reader, asked, mishaps, outcome>>

(* The message was acknowledged by one of its deliveries. *)
Acked(m) == \E n \in Sends : send[n].of = send[m].of /\ send[n].step = "over"

(* A delivery that comes to nothing: the message stays pending, unless it    *)
(* was acknowledged.                                                         *)
Abandoned(m) == IF Acked(m) THEN "over" ELSE "pending"

(* The delivery whose on_error sends the message, if there is one. *)
Sender(m) == {n \in Sends : n = send[m].by /\ send[n].step = "unacked"}

(* The sender loses its connection or dies.  The message is on the stream    *)
(* all the same; if it was sent by on_error the exception ends the delivery. *)
(* Second mishap: the runtime fields of the last run were not cleared.       *)
TellCut(m) ==
    /\ send[m].tell # "done"
    /\ Cut(send[m].tell)
    /\ send' = [n \in Sends |->
                  IF n = m THEN [send[m] EXCEPT !.tell = "done", !.by = 0]
                  ELSE IF n \in Sender(m) THEN [send[n] EXCEPT !.step = Abandoned(n)]
                  ELSE send[n]]
    /\ mishaps' = mishaps
                    \cup (IF send[m].tell = "clear" THEN {"uncleared"} ELSE {})
                    \cup (IF Sender(m) # {} THEN {"again"} ELSE {})
                    \cup (IF \E n \in Sender(m) : Acked(n) THEN {"lost"} ELSE {})
    /\ UNCHANGED <<reader, asked, outcome>>

(* retry_task reads the record and refuses one that is not failed (409), or  *)
(* stumbles over one that its sender did not write (KeyError) ...            *)
RetryReads(r) ==
    /\ asked[r].step = "idle"
    /\ record.state # "none"
    /\ asked' = [asked EXCEPT ![r] =
                   IF record.state = "failed" /\ record.named
                   THEN [step |-> "kick", retries |-> record.retries]
                   ELSE [step |-> "over", retries |-> 0]]
    /\ UNCHANGED <<store, reader, send, mishaps, outcome>>

(* ... and sends the message it read, labels included.  Fourth mishap: the   *)
(* task is already on its way, by another request or by its own retry.       *)
RetryKicks(r) ==
    /\ asked[r].step = "kick"
    /\ Unsent # {}
    /\ send' = [send EXCEPT ![NextSend] = Message(NextSend, "clear", 0, asked[r].retries)]
    /\ asked' = [asked EXCEPT ![r] = [step |-> "over", retries |-> 0]]
    /\ Happened("twice", \E m \in Sends : Live(m))
    /\ UNCHANGED <<store, reader, outcome>>

-----------------------------------------------------------------------------
(* Workers.                                                                 *)

(* pre_execute: mark_running.  First mishap: the worker marks the message    *)
(* before its sender marked it.                                              *)
PreExecute(m) ==
    /\ send[m].step = "stream"
    /\ Hset([record EXCEPT !.state = "running"])
    /\ send' = [send EXCEPT ![m].step = "starting", ![m].mark = "expire"]
    /\ Happened("early", send[m].tell \in {"clear", "set"})
    /\ UNCHANGED <<reader, asked, outcome>>

(* The task function returns or raises. *)
Execute(m) ==
    /\ send[m].step = "running"
    /\ \E hook \in {"ending", "failing"} :
         send' = [send EXCEPT ![m].step = hook, ![m].mark = "set"]
    /\ UNCHANGED <<store, reader, asked, mishaps, outcome>>

(* post_execute: mark_success. *)
PostExecute(m) ==
    /\ send[m].step = "ending" /\ send[m].mark = "set"
    /\ Hset([record EXCEPT !.state = "success"])
    /\ send' = [send EXCEPT ![m].mark = "expire"]
    /\ outcome' = "success"
    /\ UNCHANGED <<reader, asked, mishaps>>

(* on_error, first of the monitor: mark_failed ... *)
OnErrorMonitor(m) ==
    /\ send[m].step = "failing" /\ send[m].mark = "set"
    /\ Hset([record EXCEPT !.state = "failed", !.error = TRUE])
    /\ send' = [send EXCEPT ![m].mark = "expire"]
    /\ outcome' = "failed"
    /\ UNCHANGED <<reader, asked, mishaps>>

MarkExpire(m) ==
    /\ send[m].step \in Marking /\ send[m].mark = "expire"
    /\ ExpireHash
    /\ send' = [send EXCEPT ![m].mark = "list"]
    /\ UNCHANGED <<reader, asked, mishaps, outcome>>

(* A TaskTimeout is not retried. *)
MayRetry(m) == send[m].retries + 1 < MaxRetries

(* The hook returns, and the delivery goes on. *)
MarkList(m) ==
    /\ send[m].step \in Marking /\ send[m].mark = "list"
    /\ Zadd
    /\ \E next \in IF send[m].step = "starting" THEN {"running"}
                  ELSE IF send[m].step = "failing" /\ MayRetry(m) THEN {"rekick", "unacked"}
                  ELSE {"unacked"} :
         send' = [send EXCEPT ![m].step = next]
    /\ UNCHANGED <<reader, asked, mishaps, outcome>>

(* ... then of the retry engine, which sends the task again after a delay. *)
OnErrorRetry(m) ==
    /\ send[m].step = "rekick"
    /\ Unsent # {}
    /\ send' = [send EXCEPT ![m].step = "unacked",
                            ![NextSend] = Message(NextSend, "clear", m, send[m].retries + 1)]
    /\ UNCHANGED <<store, reader, asked, mishaps, outcome>>

(* Is the delivery still in on_error, telling of the message it sent? *)
Telling(m) == \E n \in Sends : send[n].by = m

(* The acknowledgement is for all deliveries of the message.  Fifth mishap:  *)
(* one of them stopped half way, and now nobody takes it up again.           *)
Acknowledge(m) ==
    /\ send[m].step = "unacked" /\ ~Telling(m)
    /\ LET dropped == {n \in Sends : send[n].of = send[m].of /\ send[n].step = "pending"} IN
       /\ send' = [n \in Sends |-> IF n \in dropped \cup {m} THEN [send[n] EXCEPT !.step = "over"]
                                   ELSE send[n]]
       /\ Happened("lost", dropped # {})
    /\ UNCHANGED <<store, reader, asked, outcome>>

(* The worker dies, or loses its connection in a hook, and the exception     *)
(* ends the delivery without an acknowledgement.  Third mishap: the failure  *)
(* was already recorded; fifth: the message was acknowledged before.         *)
Abandon(m) ==
    /\ send[m].step \in Marking \cup {"running", "rekick", "unacked"} /\ ~Telling(m)
    /\ IF send[m].step \in Marking THEN Cut(send[m].mark) ELSE UNCHANGED store
    /\ send' = [send EXCEPT ![m].step = Abandoned(m), ![m].mark = "set"]
    /\ mishaps' = mishaps
                    \cup (IF \/ send[m].step = "failing" /\ send[m].mark # "set"
                             \/ send[m].step \in {"rekick", "unacked"}
                          THEN {"again"} ELSE {})
                    \cup (IF Acked(m) THEN {"lost"} ELSE {})
    /\ UNCHANGED <<reader, asked, outcome>>

(* XAUTOCLAIM: the message is delivered again ... *)
Reclaim(m) ==
    /\ send[m].step = "pending"
    /\ send' = [send EXCEPT ![m].step = "stream"]
    /\ UNCHANGED <<store, reader, asked, mishaps, outcome>>

(* ... once it was idle for long enough, and be it that its worker is at     *)
(* work on it (fourth mishap).                                               *)
ReclaimRunning(m) ==
    /\ Live(m) \/ send[m].step = "unacked"
    /\ send[m].step # "pending" /\ ~Acked(m)
    /\ Unsent # {}
    /\ send' = [send EXCEPT ![NextSend] = Message(send[m].of, "done", 0, send[m].retries)]
    /\ Happened("twice", TRUE)
    /\ UNCHANGED <<store, reader, asked, outcome>>

-----------------------------------------------------------------------------
(* The board.                                                               *)

(* The TTL of the hash, three days by default, is over. *)
ExpireRecord ==
    /\ lasting
    /\ record' = NoRecord /\ lasting' = FALSE
    /\ outcome' = "none"
    /\ UNCHANGED <<listed, lapsed, reader, send, asked, mishaps>>

(* The index forgets the id when another task is touched and the id's score  *)
(* is older than the TTL, which is renewed with the score: the hash is gone  *)
(* (but for the time the pipeline took), or a pipeline renewed only the TTL. *)
Trim ==
    /\ listed /\ (record.state = "none" \/ lapsed)
    /\ listed' = FALSE
    /\ UNCHANGED <<record, lasting, lapsed, reader, send, asked, mishaps, outcome>>

(* list reads the ids and then their hashes.  It matters only when an id of  *)
(* the index has none ...                                                    *)
ListTasks ==
    /\ reader = "idle"
    /\ listed /\ record.state = "none"
    /\ reader' = "empty"
    /\ UNCHANGED <<store, send, asked, mishaps, outcome>>

(* ... for then it takes the id off the index, a task that was touched again *)
(* in between too.                                                           *)
ListForgets ==
    /\ reader = "empty"
    /\ listed' = FALSE /\ reader' = "idle"
    /\ lapsed' = (lapsed \/ record.state # "none")
    /\ UNCHANGED <<record, lasting, send, asked, mishaps, outcome>>

MonitorNext ==
    \/ \E m \in Sends :
         \/ TellClear(m) \/ TellSet(m) \/ TellExpire(m) \/ TellList(m) \/ TellCut(m)
         \/ PreExecute(m) \/ Execute(m) \/ PostExecute(m) \/ OnErrorMonitor(m)
         \/ MarkExpire(m) \/ MarkList(m) \/ OnErrorRetry(m) \/ Acknowledge(m)
         \/ Abandon(m) \/ Reclaim(m) \/ ReclaimRunning(m)
    \/ \E r \in Retriers : RetryReads(r) \/ RetryKicks(r)
    \/ ExpireRecord \/ Trim \/ ListTasks \/ ListForgets

MonitorSpec == MonitorInit /\ [][MonitorNext]_monitorVars

-----------------------------------------------------------------------------
(* Properties.                                                              *)

(* Nothing is on its way any more: all that was sent is told and executed. *)
Quiet == \A m \in Sends : send[m].step \in {"unsent", "over"} /\ send[m].tell = "done"

(* A pipeline for the message has the command before it ...                  *)
At(m, command) ==
    send[m].tell = command \/ (send[m].step \in Marking /\ send[m].mark = command)

(* ... and is between its HSET and the index.                                *)
InFlight(m) == At(m, "expire") \/ At(m, "list")

(* The record ends as the execution recorded last did, through retries (two  *)
(* at once included), deliveries to two workers, redeliveries, broken        *)
(* pipelines and expiry, unless a worker was quicker than the sender or      *)
(* dropped a delivery of a message acknowledged by another.  A record that is *)
(* queued or succeeded shows no error of an earlier attempt as long as one   *)
(* delivery at a time was under way and none failed twice.  And a record has *)
(* a TTL and is listed, unless the last pipeline broke off or the reader of  *)
(* an expired one came late (monitor.py:12-14,31-32,41-43,71-86,157-158).    *)
BoardIsRight ==
    /\ Quiet /\ mishaps \cap {"early", "lost"} = {} => record.state = outcome
    /\ mishaps \subseteq {"lost"} =>
         (record.state \in {"queued", "success"} => ~record.error)
    /\ ~lapsed /\ (\A m \in Sends : ~InFlight(m)) =>
         (record.state # "none" => lasting /\ listed)

=============================================================================
