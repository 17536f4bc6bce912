------------------------------- MODULE AuditRun -------------------------------
(***************************************************************************)
(* The audit task (workflows/langgraph_audit) and the two tables it writes *)
(* (audit/service.py): a delivery clears what its run recorded before,     *)
(* an agent records findings, a second one reconciles them, a third sets   *)
(* the verdict, and the outcome is read back into the execution row.       *)
(* GET /audits/{id} reads row, verdict and findings one after the other.   *)
(*                                                                         *)
(* A message is delivered again when its worker dies or when it is         *)
(* reclaimed from a slow one, and a retry by hand puts another one on the  *)
(* stream under the same id, which may start after the first has been      *)
(* acknowledged: so any audit may be delivered at any time.                *)
(***************************************************************************)
EXTENDS Naturals, FiniteSets

CONSTANTS
    Audits,         \* audit executions
    Slots,          \* worker slots
    FindingIds,     \* bound: findings ever recorded
    MaxDeliveries,  \* bound: deliveries, over all executions
    NoAudit

ASSUME AuditAssumption ==
    /\ NoAudit \notin Audits
    /\ IsFiniteSet(FindingIds)
    /\ MaxDeliveries \in Nat

VARIABLES
    finding,    \* the table audit_finding
    verdict,    \* the table audit_verdict
    row,        \* the execution rows
    delivery,   \* what each slot is doing
    delivered,  \* deliveries so far; they are numbered
    report,     \* one reader of GET /audits/{id}
    overlapped, \* history: executions delivered while a delivery was running
    torn        \* history: a report was not what its audit ended with

auditVars == <<finding, verdict, row, delivery, delivered, report, overlapped,
              torn>>

Verdicts == {"pass", "fail"}
NoVerdict == "none"
DeliverySteps == {"idle", "clear", "clear_verdict", "find", "reflect", "verdict",
                  "get_verdict", "list_findings", "succeed", "ack", "failed"}
Numbers == 0 .. MaxDeliveries

(* "by": the delivery that wrote a row.  "on": the findings there were when  *)
(* the verdict was set.                                                      *)
FindingRows == [audit: Audits \cup {NoAudit}, by: Numbers, used: BOOLEAN]
VerdictRows == [value: Verdicts \cup {NoVerdict}, by: Numbers, on: SUBSET FindingIds]
ExecutionRows == [status: {"queued", "running", "succeeded", "failed"},
                  verdict: Verdicts \cup {NoVerdict}, count: Nat, by: Numbers]
Deliveries == [step: DeliverySteps, audit: Audits \cup {NoAudit}, number: Numbers,
               verdict: Verdicts \cup {NoVerdict}, count: Nat]
Reports == [step: {"none", "verdict", "findings"}, audit: Audits \cup {NoAudit},
            succeeded: BOOLEAN, verdict: Verdicts \cup {NoVerdict}, stale: BOOLEAN]

AuditTypeOK ==
    /\ finding \in [FindingIds -> FindingRows]
    /\ verdict \in [Audits -> VerdictRows]
    /\ row \in [Audits -> ExecutionRows]
    /\ delivery \in [Slots -> Deliveries]
    /\ delivered \in Numbers
    /\ report \in Reports
    /\ torn \in BOOLEAN
    /\ overlapped \subseteq Audits

Idle == [step |-> "idle", audit |-> NoAudit, number |-> 0, verdict |-> NoVerdict,
         count |-> 0]
NoReport == [step |-> "none", audit |-> NoAudit, succeeded |-> FALSE,
             verdict |-> NoVerdict, stale |-> FALSE]
Unset == [value |-> NoVerdict, by |-> 0, on |-> {}]

AuditInit ==
    /\ finding = [f \in FindingIds |-> [audit |-> NoAudit, by |-> 0, used |-> FALSE]]
    /\ verdict = [a \in Audits |-> Unset]
    /\ row = [a \in Audits |-> [status |-> "queued", verdict |-> NoVerdict,
                                count |-> 0, by |-> 0]]
    /\ delivery = [s \in Slots |-> Idle]
    /\ delivered = 0
    /\ report = NoReport
    /\ torn = FALSE
    /\ overlapped = {}

FindingsOf(a) == {f \in FindingIds : finding[f].audit = a}
Running(a) == {s \in Slots : delivery[s].audit = a}

ToStep(s, step) == delivery' = [delivery EXCEPT ![s] = [@ EXCEPT !.step = step]]
Deleted == [audit |-> NoAudit, by |-> 0, used |-> TRUE]

-----------------------------------------------------------------------------
(* The task.                                                                *)

(* mark_running.  A report in progress may now show a run that started over. *)
Deliver(s, a) ==
    /\ delivery[s].step = "idle"
    /\ delivered < MaxDeliveries
    /\ delivered' = delivered + 1
    /\ delivery' = [delivery EXCEPT ![s] =
                      [Idle EXCEPT !.step = "clear", !.audit = a, !.number = delivered + 1]]
    /\ row' = [row EXCEPT ![a] = [@ EXCEPT !.status = "running"]]
    /\ overlapped' = IF Running(a) # {} THEN overlapped \cup {a} ELSE overlapped
    /\ report' = IF report.audit = a THEN [report EXCEPT !.stale = TRUE] ELSE report
    /\ UNCHANGED <<finding, verdict, torn>>

(* Mutant: a delivery keeps what an earlier one recorded. *)
ClearNothing(s) ==
    /\ delivery[s].step = "clear"
    /\ ToStep(s, "clear_verdict")
    /\ UNCHANGED <<finding, verdict, row, delivered, report, overlapped, torn>>

(* clear, the first thing the find node does: two statements of their own. *)
ClearFindings(s) ==
    /\ delivery[s].step = "clear"
    /\ finding' = [f \in FindingIds |-> IF finding[f].audit = delivery[s].audit
                                        THEN Deleted ELSE finding[f]]
    /\ ToStep(s, "clear_verdict")
    /\ UNCHANGED <<verdict, row, delivered, report, overlapped, torn>>

ClearVerdict(s) ==
    /\ delivery[s].step = "clear_verdict"
    /\ verdict' = [verdict EXCEPT ![delivery[s].audit] = Unset]
    /\ ToStep(s, "find")
    /\ UNCHANGED <<finding, row, delivered, report, overlapped, torn>>

(* find -> reflect -> verdict -> the end of the graph: an agent is done. *)
NextPhase(s) ==
    /\ \/ delivery[s].step = "find" /\ ToStep(s, "reflect")
       \/ delivery[s].step = "reflect" /\ ToStep(s, "verdict")
       \/ delivery[s].step = "verdict" /\ ToStep(s, "get_verdict")
    /\ UNCHANGED <<finding, verdict, row, delivered, report, overlapped, torn>>

GetVerdict(s) ==
    /\ delivery[s].step = "get_verdict"
    /\ delivery' = [delivery EXCEPT ![s] =
                      [@ EXCEPT !.step = "list_findings",
                                !.verdict = verdict[delivery[s].audit].value]]
    /\ UNCHANGED <<finding, verdict, row, delivered, report, overlapped, torn>>

ListFindings(s) ==
    /\ delivery[s].step = "list_findings"
    /\ delivery' = [delivery EXCEPT ![s] =
                      [@ EXCEPT !.step = "succeed",
                                !.count = Cardinality(FindingsOf(delivery[s].audit))]]
    /\ UNCHANGED <<finding, verdict, row, delivered, report, overlapped, torn>>

(* Mutant: the task monitor's word for the outcome in place of the run's. *)
MarkSucceededAsMonitor(s) ==
    /\ delivery[s].step = "succeed"
    /\ row' = [row EXCEPT ![delivery[s].audit] =
                 [status |-> "success", verdict |-> delivery[s].verdict,
                  count |-> delivery[s].count, by |-> delivery[s].number]]
    /\ ToStep(s, "ack")
    /\ UNCHANGED <<finding, verdict, delivered, report, overlapped, torn>>

(* mark_succeeded, with verdict and count in the output. *)
MarkSucceeded(s) ==
    /\ delivery[s].step = "succeed"
    /\ row' = [row EXCEPT ![delivery[s].audit] =
                 [status |-> "succeeded", verdict |-> delivery[s].verdict,
                  count |-> delivery[s].count, by |-> delivery[s].number]]
    /\ ToStep(s, "ack")
    /\ UNCHANGED <<finding, verdict, delivered, report, overlapped, torn>>

Acknowledge(s) ==
    /\ delivery[s].step = "ack"
    /\ delivery' = [delivery EXCEPT ![s] = Idle]
    /\ UNCHANGED <<finding, verdict, row, delivered, report, overlapped, torn>>

(* An agent or a call raises, or a phase or the task runs out of time; with  *)
(* MAX_RETRIES = 1 neither is retried by the broker.                         *)
Raise(s) ==
    /\ delivery[s].step \notin {"idle", "ack", "failed"}
    /\ ToStep(s, "failed")
    /\ UNCHANGED <<finding, verdict, row, delivered, report, overlapped, torn>>

MarkAuditFailed(s) ==
    /\ delivery[s].step = "failed"
    /\ row' = [row EXCEPT ![delivery[s].audit] = [@ EXCEPT !.status = "failed"]]
    /\ delivery' = [delivery EXCEPT ![s] = Idle]
    /\ UNCHANGED <<finding, verdict, delivered, report, overlapped, torn>>

SlotDies(s) ==
    /\ delivery[s].step # "idle"
    /\ delivery' = [delivery EXCEPT ![s] = Idle]
    /\ UNCHANGED <<finding, verdict, row, delivered, report, overlapped, torn>>

-----------------------------------------------------------------------------
(* The tools the agents call, bound to the execution they work for.  Calls  *)
(* the tools reject (an unknown status or verdict, no message, an id that   *)
(* is no UUID) change nothing.                                              *)

(* The tools that write, of each phase's agent; the others only read. *)
FindingTools == {"record_finding"}
ReflectionTools == {"delete_finding", "record_finding"}
VerdictTools == {"set_verdict"}

HasTool(s, t) ==
    \/ delivery[s].step = "find" /\ t \in FindingTools
    \/ delivery[s].step = "reflect" /\ t \in ReflectionTools
    \/ delivery[s].step = "verdict" /\ t \in VerdictTools

(* record_finding: the finding and the reflection agent have it. *)
RecordFinding(s) ==
    /\ HasTool(s, "record_finding")
    /\ \E f \in FindingIds :
         /\ ~finding[f].used
         /\ finding' = [finding EXCEPT ![f] = [audit |-> delivery[s].audit,
                                               by |-> delivery[s].number,
                                               used |-> TRUE]]
    /\ UNCHANGED <<verdict, row, delivery, delivered, report, overlapped, torn>>

(* Mutant: DELETE without the scope of the execution. *)
DeleteAnyFinding(s, f) ==
    /\ HasTool(s, "delete_finding")
    /\ finding[f].audit # NoAudit
    /\ finding' = [finding EXCEPT ![f] = Deleted]
    /\ UNCHANGED <<verdict, row, delivery, delivered, report, overlapped, torn>>

(* delete_finding, of the reflection agent: whatever id it is given, only a  *)
(* finding of its own run goes.                                              *)
DeleteFinding(s, f) ==
    /\ HasTool(s, "delete_finding")
    /\ finding[f].audit = delivery[s].audit
    /\ finding' = [finding EXCEPT ![f] = Deleted]
    /\ UNCHANGED <<verdict, row, delivery, delivered, report, overlapped, torn>>

(* Mutant: the agent outlives its node and sets the verdict later. *)
SetVerdictLate(s) ==
    /\ delivery[s].step \in {"verdict", "list_findings"}
    /\ \E v \in Verdicts :
         verdict' = [verdict EXCEPT ![delivery[s].audit] =
                       [value |-> v, by |-> delivery[s].number,
                        on |-> FindingsOf(delivery[s].audit)]]
    /\ UNCHANGED <<finding, row, delivery, delivered, report, overlapped, torn>>

(* set_verdict, of the verdict agent: an upsert. *)
SetVerdict(s) ==
    /\ HasTool(s, "set_verdict")
    /\ \E v \in Verdicts :
         verdict' = [verdict EXCEPT ![delivery[s].audit] =
                       [value |-> v, by |-> delivery[s].number,
                        on |-> FindingsOf(delivery[s].audit)]]
    /\ UNCHANGED <<finding, row, delivery, delivered, report, overlapped, torn>>

-----------------------------------------------------------------------------
(* GET /audits/{execution_id}: three reads. *)

ReportRow(a) ==
    /\ report.step = "none"
    /\ report' = [NoReport EXCEPT !.step = "verdict", !.audit = a,
                                  !.succeeded = (row[a].status = "succeeded")]
    /\ UNCHANGED <<finding, verdict, row, delivery, delivered, overlapped, torn>>

ReportVerdict ==
    /\ report.step = "verdict"
    /\ report' = [report EXCEPT !.step = "findings",
                                !.verdict = verdict[report.audit].value]
    /\ UNCHANGED <<finding, verdict, row, delivery, delivered, overlapped, torn>>

(* The report is put together; "stale": the audit was delivered meanwhile. *)
ReportFindings ==
    LET a == report.audit IN
    /\ report.step = "findings"
    /\ report' = NoReport
    /\ torn' = (torn \/ /\ report.succeeded /\ ~report.stale /\ a \notin overlapped
                        /\ \/ report.verdict # row[a].verdict
                           \/ Cardinality(FindingsOf(a)) # row[a].count)
    /\ UNCHANGED <<finding, verdict, row, delivery, delivered, overlapped>>

AuditNext ==
    \/ \E s \in Slots :
         \/ \E a \in Audits : Deliver(s, a)
         \/ ClearFindings(s) \/ ClearVerdict(s) \/ NextPhase(s) \/ GetVerdict(s)
         \/ ListFindings(s) \/ MarkSucceeded(s) \/ Acknowledge(s) \/ Raise(s)
         \/ MarkAuditFailed(s) \/ SlotDies(s) \/ RecordFinding(s) \/ SetVerdict(s)
         \/ \E f \in FindingIds : DeleteFinding(s, f)
    \/ \E a \in Audits : ReportRow(a)
    \/ ReportVerdict
    \/ ReportFindings

AuditSpec == AuditInit /\ [][AuditNext]_auditVars

-----------------------------------------------------------------------------
(* Properties.                                                              *)

(* An audit that succeeded, and was never run twice at once, stands on the   *)
(* findings of the delivery that succeeded alone, whatever earlier ones left *)
(* behind, and its verdict, if one was set, was set by that delivery when    *)
(* just those findings were there (find.py:38, graph.py:40-43).              *)
ConclusionOfOneDelivery ==
    \A a \in Audits \ overlapped :
      row[a].status = "succeeded" =>
        /\ \A f \in FindingsOf(a) : finding[f].by = row[a].by
        /\ verdict[a] # Unset => /\ verdict[a].by = row[a].by
                                 /\ verdict[a].on = FindingsOf(a)

(* A report that says SUCCEEDED shows the verdict and as many findings as    *)
(* the run ended with, although it is put together from three reads, unless  *)
(* the audit was delivered again meanwhile (router.py:121-133, task.py:80-89)*)
ReportIsWhole == ~torn

(* An audit nobody is running keeps its findings and its verdict, whatever   *)
(* the agents of other audits ask for (service.py:103-111).                  *)
OthersUntouched ==
    [][\A a \in Audits : Running(a) = {} =>
         /\ FindingsOf(a)' = FindingsOf(a)
         /\ verdict'[a] = verdict[a]]_auditVars

=============================================================================
