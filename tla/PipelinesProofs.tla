--------------------------- MODULE PipelinesProofs ---------------------------
(***************************************************************************)
(* The audit runs, the tools of the audit's agents and the reads of the    *)
(* API, each for any values of its constants, and the composition of these *)
(* three with the mining runs (MiningProofs).                              *)
(*                                                                         *)
(* Audits.  The inductive invariant, Conclusive, says of every audit that  *)
(* was never delivered twice at once what its only delivery may rely on at *)
(* each of its steps (Held), and what a row that says SUCCEEDED stands on  *)
(* (Concluded).  A step of a slot leaves every audit but its own alone:    *)
(* that is one lemma, OwnAuditOnly, from which OthersUntouched follows.    *)
(*                                                                         *)
(* Tools.  A behaviour is one call: what is proved is what the answer is,  *)
(* for texts, chains and amounts of any size.                              *)
(*                                                                         *)
(* Reads.  Each row shown has a Place in the list; rows that come push the *)
(* others back and rows that go let them move up.  So while none went, a   *)
(* row of the list that is not behind the offset has been seen, and while  *)
(* none came, what was seen is behind it (WalkUnderWay).  A quiet view     *)
(* still finds what was there when it began (ViewInv).                     *)
(***************************************************************************)
EXTENDS MCPipelines, MiningProofs, NatSets

-----------------------------------------------------------------------------
(* Audits.                                                                   *)

USE AuditAssumption DEF AuditAssumption

(* Types, and what they do not say: an unused finding belongs to no audit,   *)
(* and only an idle slot and an idle reader have none.                       *)
Shaped ==
    /\ AuditTypeOK
    /\ \A f \in FindingIds : ~finding[f].used => finding[f].audit = NoAudit
    /\ \A s \in Slots : delivery[s].step = "idle" <=> delivery[s].audit = NoAudit
    /\ report.step = "none" <=> report.audit = NoAudit

Cleared == {"clear_verdict", "find", "reflect", "verdict", "get_verdict",
            "list_findings", "succeed", "ack"}
Reconciled == {"verdict", "get_verdict", "list_findings", "succeed", "ack"}

(* The findings and the verdict of a are those of delivery n. *)
AllBy(a, n) == \A f \in FindingsOf(a) : finding[f].by = n
SetBy(a, n) ==
    verdict[a] # Unset => verdict[a].by = n /\ verdict[a].on = FindingsOf(a)

(* What a delivery of a knows, when it is the only one. *)
Held(s, a) ==
    /\ delivery[s].step \in Cleared => AllBy(a, delivery[s].number)
    /\ delivery[s].step \in {"find", "reflect"} => verdict[a] = Unset
    /\ delivery[s].step \in Reconciled => SetBy(a, delivery[s].number)
    /\ delivery[s].step \in {"list_findings", "succeed"} =>
         delivery[s].verdict = verdict[a].value
    /\ delivery[s].step = "succeed" => delivery[s].count = Cardinality(FindingsOf(a))

Concluded(a) ==
    row[a].status = "succeeded" =>
      /\ AllBy(a, row[a].by) /\ SetBy(a, row[a].by)
      /\ row[a].verdict = verdict[a].value
      /\ row[a].count = Cardinality(FindingsOf(a))
      /\ \A s \in Running(a) : delivery[s].step = "ack"

Solid(a) ==
    /\ \A s, t \in Running(a) : s = t
    /\ \A s \in Running(a) : Held(s, a)
    /\ Concluded(a)

(* What the reader of a report has seen so far. *)
Seen ==
    report.step # "none" /\ report.succeeded /\ ~report.stale
      /\ report.audit \notin overlapped
    => /\ row[report.audit].status = "succeeded"
       /\ report.step = "findings" => report.verdict = row[report.audit].verdict

Conclusive ==
    /\ Shaped
    /\ \A a \in Audits \ overlapped : Solid(a)
    /\ Seen
    /\ ~torn

-----------------------------------------------------------------------------
(* Types.                                                                   *)

(* A slot changes. *)
LEMMA SlotShaped ==
    ASSUME Shaped, NEW s \in Slots, NEW new \in Deliveries,
           new.step = "idle" <=> new.audit = NoAudit,
           delivery' = [delivery EXCEPT ![s] = new]
    PROVE  /\ delivery' \in [Slots -> Deliveries]
           /\ \A t \in Slots : (delivery[t].step = "idle" <=> delivery[t].audit = NoAudit)'
BY DEF Shaped, AuditTypeOK

(* A slot goes on to another step of its delivery. *)
LEMMA StepShaped ==
    ASSUME Shaped, NEW s \in Slots, NEW step \in DeliverySteps \ {"idle"},
           delivery[s].step # "idle", ToStep(s, step)
    PROVE  /\ delivery' \in [Slots -> Deliveries]
           /\ \A t \in Slots : (delivery[t].step = "idle" <=> delivery[t].audit = NoAudit)'
BY DEF Shaped, AuditTypeOK, Deliveries, ToStep

(* A slot is set free. *)
LEMMA IdleShaped ==
    ASSUME Shaped, NEW s \in Slots, delivery' = [delivery EXCEPT ![s] = Idle]
    PROVE  /\ delivery' \in [Slots -> Deliveries]
           /\ \A t \in Slots : (delivery[t].step = "idle" <=> delivery[t].audit = NoAudit)'
<1>1. Idle \in Deliveries /\ Idle.step = "idle" /\ Idle.audit = NoAudit
  BY DEF Idle, Deliveries, DeliverySteps, Numbers
<1> QED BY <1>1 DEF Shaped, AuditTypeOK

LEMMA CountIsNat == \A a : Cardinality(FindingsOf(a)) \in Nat
BY FS_Subset, FS_CardinalityType DEF FindingsOf

(* Whoever holds a slot works for an audit. *)
LEMMA HasAudit ==
    ASSUME Shaped, NEW s \in Slots, delivery[s].step # "idle"
    PROVE  delivery[s].audit \in Audits
BY DEF Shaped, AuditTypeOK, Deliveries

LEMMA InitShaped == AuditInit => Shaped
<1> SUFFICES ASSUME AuditInit PROVE Shaped
  OBVIOUS
<1> USE DEF AuditInit
<1>1. finding \in [FindingIds -> FindingRows] BY DEF FindingRows, Numbers
<1>2. verdict \in [Audits -> VerdictRows] BY DEF VerdictRows, Unset, Numbers
<1>3. row \in [Audits -> ExecutionRows] BY DEF ExecutionRows, Numbers
<1>4. Idle \in Deliveries BY DEF Idle, Deliveries, DeliverySteps, Numbers
<1>5. report \in Reports BY DEF Reports, NoReport
<1>6. delivered \in Numbers BY DEF Numbers
<1> QED BY <1>1, <1>2, <1>3, <1>4, <1>5, <1>6 DEF Shaped, AuditTypeOK, Idle, NoReport

LEMMA NextShaped == Shaped /\ [AuditNext]_auditVars => Shaped'
<1> SUFFICES ASSUME Shaped, [AuditNext]_auditVars PROVE Shaped'
  OBVIOUS
<1>1. ASSUME NEW s \in Slots, NEW a \in Audits, Deliver(s, a) PROVE Shaped'
  <2> DEFINE new == [Idle EXCEPT !.step = "clear", !.audit = a, !.number = delivered + 1]
  <2>1. delivered + 1 \in Numbers BY <1>1 DEF Deliver, Shaped, AuditTypeOK, Numbers
  <2>2. new \in Deliveries /\ new.step = "clear" /\ new.audit = a
    BY <2>1 DEF Deliveries, DeliverySteps, Idle
  <2>3. delivery' = [delivery EXCEPT ![s] = new] BY <1>1 DEF Deliver
  <2> HIDE DEF new
  <2>4. row' \in [Audits -> ExecutionRows]
    BY <1>1 DEF Deliver, Shaped, AuditTypeOK, ExecutionRows
  <2>5. report' \in Reports /\ (report'.step = "none" <=> report'.audit = NoAudit)
    BY <1>1 DEF Deliver, Shaped, AuditTypeOK, Reports
  <2>6. overlapped' \subseteq Audits BY <1>1 DEF Deliver, Shaped, AuditTypeOK
  <2> QED BY <1>1, <2>1, <2>2, <2>3, <2>4, <2>5, <2>6 DEF Deliver, Shaped, AuditTypeOK
<1>2. ASSUME NEW s \in Slots, ClearFindings(s) PROVE Shaped'
  <2>1. Deleted \in FindingRows BY DEF Deleted, FindingRows, Numbers
  <2>2. finding' \in [FindingIds -> FindingRows]
    BY <1>2, <2>1 DEF ClearFindings, Shaped, AuditTypeOK
  <2>3. \A f \in FindingIds : (~finding[f].used => finding[f].audit = NoAudit)'
    BY <1>2 DEF ClearFindings, Shaped, Deleted
  <2> QED BY <1>2, <2>2, <2>3, StepShaped DEF ClearFindings, Shaped, AuditTypeOK, DeliverySteps
<1>3. ASSUME NEW s \in Slots, ClearVerdict(s) PROVE Shaped'
  <2>1. Unset \in VerdictRows BY DEF Unset, VerdictRows, Numbers
  <2>2. verdict' \in [Audits -> VerdictRows]
    BY <1>3, <2>1 DEF ClearVerdict, Shaped, AuditTypeOK
  <2> QED BY <1>3, <2>2, StepShaped DEF ClearVerdict, Shaped, AuditTypeOK, DeliverySteps
<1>4. ASSUME NEW s \in Slots, NextPhase(s) PROVE Shaped'
  BY <1>4, StepShaped DEF NextPhase, Shaped, AuditTypeOK, DeliverySteps
<1>5. ASSUME NEW s \in Slots, GetVerdict(s) PROVE Shaped'
  <2> DEFINE v == verdict[delivery[s].audit].value
  <2>1. v \in Verdicts \cup {NoVerdict}
    BY <1>5, HasAudit DEF GetVerdict, Shaped, AuditTypeOK, VerdictRows
  <2> DEFINE new == [delivery[s] EXCEPT !.step = "list_findings", !.verdict = v]
  <2>2. delivery' = [delivery EXCEPT ![s] = new]
    BY <1>5 DEF GetVerdict
  <2> HIDE DEF v
  <2>3. new \in Deliveries /\ new.step # "idle" /\ new.audit # NoAudit
    BY <1>5, <2>1 DEF GetVerdict, Shaped, AuditTypeOK, Deliveries, DeliverySteps
  <2> HIDE DEF new
  <2> QED BY <1>5, <2>2, <2>3, SlotShaped DEF GetVerdict, Shaped, AuditTypeOK
<1>6. ASSUME NEW s \in Slots, ListFindings(s) PROVE Shaped'
  <2> DEFINE n == Cardinality(FindingsOf(delivery[s].audit))
  <2>1. n \in Nat BY CountIsNat
  <2> DEFINE new == [delivery[s] EXCEPT !.step = "succeed", !.count = n]
  <2>2. delivery' = [delivery EXCEPT ![s] = new]
    BY <1>6 DEF ListFindings
  <2> HIDE DEF n
  <2>3. new \in Deliveries /\ new.step # "idle" /\ new.audit # NoAudit
    BY <1>6, <2>1 DEF ListFindings, Shaped, AuditTypeOK, Deliveries, DeliverySteps
  <2> HIDE DEF new
  <2> QED BY <1>6, <2>2, <2>3, SlotShaped DEF ListFindings, Shaped, AuditTypeOK
<1>7. ASSUME NEW s \in Slots, MarkSucceeded(s) PROVE Shaped'
  <2> DEFINE new == [status |-> "succeeded", verdict |-> delivery[s].verdict,
                     count |-> delivery[s].count, by |-> delivery[s].number]
  <2>1. new \in ExecutionRows BY DEF ExecutionRows, Shaped, AuditTypeOK, Deliveries
  <2>2. row' = [row EXCEPT ![delivery[s].audit] = new] BY <1>7 DEF MarkSucceeded
  <2> HIDE DEF new
  <2>3. row' \in [Audits -> ExecutionRows] BY <2>1, <2>2 DEF Shaped, AuditTypeOK
  <2> QED BY <1>7, <2>3, StepShaped DEF MarkSucceeded, Shaped, AuditTypeOK, DeliverySteps
<1>8. ASSUME NEW s \in Slots, Acknowledge(s) PROVE Shaped'
  BY <1>8, IdleShaped, HasAudit DEF Acknowledge, Shaped, AuditTypeOK
<1>9. ASSUME NEW s \in Slots, Raise(s) PROVE Shaped'
  BY <1>9, StepShaped DEF Raise, Shaped, AuditTypeOK, DeliverySteps
<1>10. ASSUME NEW s \in Slots, MarkAuditFailed(s) PROVE Shaped'
  <2>1. row' \in [Audits -> ExecutionRows]
    BY <1>10 DEF MarkAuditFailed, Shaped, AuditTypeOK, ExecutionRows
  <2> QED BY <1>10, <2>1, IdleShaped DEF MarkAuditFailed, Shaped, AuditTypeOK
<1>11. ASSUME NEW s \in Slots, SlotDies(s) PROVE Shaped'
  BY <1>11, IdleShaped DEF SlotDies, Shaped, AuditTypeOK
<1>12. ASSUME NEW s \in Slots, RecordFinding(s) PROVE Shaped'
  <2> DEFINE new == [audit |-> delivery[s].audit, by |-> delivery[s].number, used |-> TRUE]
  <2>1. new \in FindingRows /\ new.used
    BY DEF FindingRows, Shaped, AuditTypeOK, Deliveries
  <2>2. PICK f \in FindingIds : finding' = [finding EXCEPT ![f] = new]
    BY <1>12 DEF RecordFinding
  <2> HIDE DEF new
  <2>3. /\ finding' \in [FindingIds -> FindingRows]
        /\ \A g \in FindingIds : (~finding[g].used => finding[g].audit = NoAudit)'
    BY <2>1, <2>2 DEF Shaped, AuditTypeOK
  <2> QED BY <1>12, <2>3 DEF RecordFinding, Shaped, AuditTypeOK
<1>13. ASSUME NEW s \in Slots, SetVerdict(s) PROVE Shaped'
  <2>1. PICK v \in Verdicts :
          verdict' = [verdict EXCEPT ![delivery[s].audit] =
                        [value |-> v, by |-> delivery[s].number,
                         on |-> FindingsOf(delivery[s].audit)]]
    BY <1>13 DEF SetVerdict
  <2> DEFINE new == [value |-> v, by |-> delivery[s].number,
                     on |-> FindingsOf(delivery[s].audit)]
  <2>2. new \in VerdictRows
    BY DEF VerdictRows, FindingsOf, Shaped, AuditTypeOK, Deliveries
  <2>3. verdict' = [verdict EXCEPT ![delivery[s].audit] = new] BY <2>1
  <2> HIDE DEF new
  <2>4. verdict' \in [Audits -> VerdictRows] BY <2>2, <2>3 DEF Shaped, AuditTypeOK
  <2> QED BY <1>13, <2>4 DEF SetVerdict, Shaped, AuditTypeOK
<1>14. ASSUME NEW s \in Slots, NEW f \in FindingIds, DeleteFinding(s, f) PROVE Shaped'
  <2>1. Deleted \in FindingRows /\ Deleted.used BY DEF Deleted, FindingRows, Numbers
  <2>2. /\ finding' \in [FindingIds -> FindingRows]
        /\ \A g \in FindingIds : (~finding[g].used => finding[g].audit = NoAudit)'
    BY <1>14, <2>1 DEF DeleteFinding, Shaped, AuditTypeOK
  <2> QED BY <1>14, <2>2 DEF DeleteFinding, Shaped, AuditTypeOK
<1>15. ASSUME NEW a \in Audits, ReportRow(a) PROVE Shaped'
  <2> DEFINE done == (row[a].status = "succeeded")
             new == [NoReport EXCEPT !.step = "verdict", !.audit = a, !.succeeded = done]
  <2>1. done \in BOOLEAN OBVIOUS
  <2>2. report' = new BY <1>15 DEF ReportRow
  <2> HIDE DEF done
  <2>3. new \in Reports /\ new.step = "verdict" /\ new.audit = a
    BY <2>1 DEF NoReport, Reports
  <2> HIDE DEF new
  <2> QED BY <1>15, <2>2, <2>3 DEF ReportRow, Shaped, AuditTypeOK
<1>16. CASE ReportVerdict
  <2> DEFINE v == verdict[report.audit].value
  <2>1. v \in Verdicts \cup {NoVerdict}
    BY <1>16 DEF ReportVerdict, Shaped, AuditTypeOK, VerdictRows, Reports
  <2>2. report' = [report EXCEPT !.step = "findings", !.verdict = v]
    BY <1>16 DEF ReportVerdict
  <2> HIDE DEF v
  <2>3. report' \in Reports /\ report'.step # "none" /\ report'.audit # NoAudit
    BY <1>16, <2>1, <2>2 DEF ReportVerdict, Shaped, AuditTypeOK, Reports
  <2> QED BY <1>16, <2>3 DEF ReportVerdict, Shaped, AuditTypeOK
<1>17. CASE ReportFindings
  <2>1. NoReport \in Reports /\ NoReport.step = "none" /\ NoReport.audit = NoAudit
    BY DEF NoReport, Reports
  <2>2. torn' \in BOOLEAN BY <1>17 DEF ReportFindings, Shaped, AuditTypeOK
  <2> QED BY <1>17, <2>1, <2>2 DEF ReportFindings, Shaped, AuditTypeOK
<1>18. CASE UNCHANGED auditVars
  BY <1>18 DEF auditVars, Shaped, AuditTypeOK
<1> QED
  BY <1>1, <1>2, <1>3, <1>4, <1>5, <1>6, <1>7, <1>8, <1>9, <1>10, <1>11, <1>12, <1>13,
     <1>14, <1>15, <1>16, <1>17, <1>18 DEF AuditNext

-----------------------------------------------------------------------------
(* A step of a slot leaves every audit but its own alone.                   *)

(* A step of a slot that is at work. *)
SlotStep(s) ==
    \/ ClearFindings(s) \/ ClearVerdict(s) \/ NextPhase(s) \/ GetVerdict(s)
    \/ ListFindings(s) \/ MarkSucceeded(s) \/ Acknowledge(s) \/ Raise(s)
    \/ MarkAuditFailed(s) \/ SlotDies(s) \/ RecordFinding(s) \/ SetVerdict(s)
    \/ \E f \in FindingIds : DeleteFinding(s, f)

(* Nothing in the tables about a changes. *)
Untouched(a) ==
    /\ verdict'[a] = verdict[a] /\ row'[a] = row[a]
    /\ FindingsOf(a)' = FindingsOf(a)
    /\ \A f \in FindingsOf(a) : finding'[f].by = finding[f].by

(* No slot but s changes, and that does not take up another audit. *)
SlotAlone(s) ==
    /\ \A t \in Slots \ {s} : delivery'[t] = delivery[t]
    /\ delivery'[s].audit \in {delivery[s].audit, NoAudit}

LEMMA OwnAuditOnly ==
    ASSUME Shaped, NEW s \in Slots, SlotStep(s)
    PROVE  /\ delivery[s].step # "idle"
           /\ SlotAlone(s)
           /\ \A a \in Audits \ {delivery[s].audit} : Untouched(a)
<1> DEFINE b == delivery[s].audit
<1>1. delivery[s].step # "idle"
  BY DEF SlotStep, ClearFindings, ClearVerdict, NextPhase, GetVerdict, ListFindings,
         MarkSucceeded, Acknowledge, Raise, MarkAuditFailed, SlotDies, RecordFinding,
         SetVerdict, DeleteFinding, HasTool
<1>2. SlotAlone(s)
  <2>1. /\ delivery \in [Slots -> Deliveries]
        /\ Idle.audit = NoAudit
    BY DEF Shaped, AuditTypeOK, Idle
  <2>2. CASE ClearFindings(s) \/ ClearVerdict(s) \/ NextPhase(s) \/ Raise(s) \/ MarkSucceeded(s)
    <3>1. PICK step \in DeliverySteps : ToStep(s, step)
      BY <2>2 DEF ClearFindings, ClearVerdict, NextPhase, Raise, MarkSucceeded, DeliverySteps
    <3> QED BY <2>1, <3>1 DEF ToStep, SlotAlone, Deliveries
  <2>3. CASE GetVerdict(s)
    <3>1. PICK v : delivery' = [delivery EXCEPT ![s] =
                                 [@ EXCEPT !.step = "list_findings", !.verdict = v]]
      BY <2>3 DEF GetVerdict
    <3> QED BY <2>1, <3>1 DEF SlotAlone, Deliveries
  <2>4. CASE ListFindings(s)
    <3>1. PICK n : delivery' = [delivery EXCEPT ![s] =
                                 [@ EXCEPT !.step = "succeed", !.count = n]]
      BY <2>4 DEF ListFindings
    <3> QED BY <2>1, <3>1 DEF SlotAlone, Deliveries
  <2>5. CASE Acknowledge(s) \/ MarkAuditFailed(s) \/ SlotDies(s)
    BY <2>1, <2>5 DEF Acknowledge, MarkAuditFailed, SlotDies, SlotAlone
  <2>6. CASE RecordFinding(s) \/ SetVerdict(s) \/ \E f \in FindingIds : DeleteFinding(s, f)
    BY <2>6 DEF RecordFinding, SetVerdict, DeleteFinding, SlotAlone
  <2> QED BY <2>2, <2>3, <2>4, <2>5, <2>6 DEF SlotStep
<1>3. \A a \in Audits \ {b} : Untouched(a)
  <2> SUFFICES ASSUME NEW a \in Audits \ {b} PROVE Untouched(a)
    OBVIOUS
  <2> USE DEF Shaped, AuditTypeOK, Untouched, FindingsOf
  <2>1. CASE ClearFindings(s)
    <3>1. Deleted.audit = NoAudit BY DEF Deleted
    <3> QED BY <2>1, <3>1 DEF ClearFindings
  <2>2. CASE ClearVerdict(s) \/ SetVerdict(s) BY <2>2 DEF ClearVerdict, SetVerdict
  <2>3. CASE MarkSucceeded(s) \/ MarkAuditFailed(s)
    BY <2>3 DEF MarkSucceeded, MarkAuditFailed
  <2>4. CASE RecordFinding(s)
    <3> DEFINE new == [audit |-> b, by |-> delivery[s].number, used |-> TRUE]
    <3>1. PICK f \in FindingIds : ~finding[f].used /\ finding' = [finding EXCEPT ![f] = new]
      BY <2>4 DEF RecordFinding
    <3>2. new.audit = b /\ finding[f].audit # a BY <3>1
    <3> HIDE DEF new
    <3> QED BY <2>4, <3>1, <3>2 DEF RecordFinding
  <2>5. ASSUME NEW f \in FindingIds, DeleteFinding(s, f) PROVE Untouched(a)
    <3>1. Deleted.audit = NoAudit BY DEF Deleted
    <3> QED BY <2>5, <3>1 DEF DeleteFinding
  <2>6. CASE NextPhase(s) \/ GetVerdict(s) \/ ListFindings(s) \/ Acknowledge(s) \/ Raise(s)
             \/ SlotDies(s)
    BY <2>6 DEF NextPhase, GetVerdict, ListFindings, Acknowledge, Raise, SlotDies
  <2> QED BY <2>1, <2>2, <2>3, <2>4, <2>5, <2>6 DEF SlotStep
<1> QED BY <1>1, <1>2, <1>3

(* Nor does a step of the reader, or a delivery of another audit. *)
LEMMA OthersAreUntouched ==
    ASSUME Shaped, [AuditNext]_auditVars, NEW a \in Audits, Running(a) = {}
    PROVE  FindingsOf(a)' = FindingsOf(a) /\ verdict'[a] = verdict[a]
<1>1. ASSUME NEW s \in Slots, SlotStep(s)
      PROVE  FindingsOf(a)' = FindingsOf(a) /\ verdict'[a] = verdict[a]
  <2>1. delivery[s].audit # a BY DEF Running
  <2> QED BY <1>1, <2>1, OwnAuditOnly DEF Untouched
<1>2. CASE UNCHANGED <<finding, verdict>> BY <1>2 DEF FindingsOf
<1> QED BY <1>1, <1>2 DEF AuditNext, SlotStep, Deliver, ReportRow, ReportVerdict,
                          ReportFindings, auditVars

(* An audit nobody is running keeps its findings and its verdict, whatever   *)
(* the agents of other audits ask for (service.py:103-111).                  *)
THEOREM AuditsAreApart == AuditSpec => OthersUntouched
<1>1. Shaped /\ [AuditNext]_auditVars =>
        [\A a \in Audits : Running(a) = {} =>
           /\ FindingsOf(a)' = FindingsOf(a)
           /\ verdict'[a] = verdict[a]]_auditVars
  BY OthersAreUntouched
<1> QED BY InitShaped, NextShaped, <1>1, PTL DEF AuditSpec, OthersUntouched

-----------------------------------------------------------------------------
(* What one delivery concludes.                                             *)

(* An audit stays solid through a step that changes neither its rows nor a   *)
(* slot that runs it.                                                        *)
LEMMA StaysSolid ==
    ASSUME NEW a \in Audits, Solid(a), Untouched(a),
           \A t \in Slots : delivery'[t].audit = a => delivery'[t] = delivery[t]
    PROVE  Solid(a)'
<1>1. \A t \in Running(a)' : t \in Running(a) /\ delivery'[t] = delivery[t]
  BY DEF Running
<1>2. \A n : /\ AllBy(a, n) => AllBy(a, n)'
             /\ SetBy(a, n) => SetBy(a, n)'
  BY DEF AllBy, SetBy, Untouched
<1>3. \A t \in Running(a)' : Held(t, a)'
  BY <1>1, <1>2 DEF Solid, Held, Untouched, AllBy, SetBy
<1>4. Concluded(a)' BY <1>1, <1>2 DEF Solid, Concluded, Untouched, AllBy, SetBy
<1> QED BY <1>1, <1>3, <1>4 DEF Solid

(* The audit of the slot that moved is solid if the slot holds what it must. *)
LEMMA OwnSolid ==
    ASSUME Shaped, NEW s \in Slots, NEW a \in Audits, a = delivery[s].audit, Solid(a),
           SlotAlone(s), delivery'[s].audit = a => Held(s, a)', Concluded(a)'
    PROVE  Solid(a)'
<1>1. \A t \in Slots : delivery[t].audit = a => t = s BY DEF Solid, Running
<1>2. \A t \in Slots : delivery'[t].audit = a => t = s BY <1>1 DEF SlotAlone
<1> QED BY <1>2 DEF Solid, Running

LEMMA StepSolid ==
    ASSUME Shaped, NEW s \in Slots, SlotStep(s), NEW a \in Audits,
           a = delivery[s].audit, Solid(a)
    PROVE  Solid(a)'
<1>1. delivery[s].step # "idle" /\ SlotAlone(s) BY OwnAuditOnly
<1>2. s \in Running(a) BY DEF Running
<1>3. Held(s, a) /\ Concluded(a) BY <1>2 DEF Solid
<1>4. row[a].status = "succeeded" => delivery[s].step = "ack" BY <1>2, <1>3 DEF Concluded
<1> SUFFICES (delivery'[s].audit = a => Held(s, a)') /\ Concluded(a)'
  BY <1>1, OwnSolid
<1> USE DEF Shaped, AuditTypeOK
<1>5. CASE ClearFindings(s)
  <2>1. FindingsOf(a)' = {}
    <3>1. Deleted.audit # a BY <1>2 DEF Deleted
    <3> QED BY <1>5, <3>1 DEF ClearFindings, FindingsOf
  <2>2. row'[a].status # "succeeded" BY <1>4, <1>5 DEF ClearFindings
  <2>3. delivery'[s].step = "clear_verdict" BY <1>5 DEF ClearFindings, ToStep, Deliveries
  <2> QED BY <2>1, <2>2, <2>3 DEF Held, Concluded, AllBy, Reconciled
<1>6. CASE ClearVerdict(s)
  <2>1. /\ verdict'[a] = Unset /\ row'[a].status # "succeeded"
        /\ delivery'[s].step = "find" /\ delivery'[s].number = delivery[s].number
        /\ finding' = finding
    BY <1>2, <1>4, <1>6 DEF ClearVerdict, ToStep, Deliveries
  <2>2. AllBy(a, delivery[s].number) BY <1>3, <1>6 DEF Held, ClearVerdict, Cleared
  <2> QED BY <2>1, <2>2 DEF Held, Concluded, AllBy, Reconciled, FindingsOf
<1>7. CASE NextPhase(s)
  <2>1. /\ finding' = finding /\ verdict' = verdict /\ row' = row
        /\ delivery[s].step \in {"find", "reflect", "verdict"}
        /\ delivery'[s].number = delivery[s].number
        /\ delivery'[s].step \in {"reflect", "verdict", "get_verdict"}
        /\ delivery'[s].step = "reflect" => delivery[s].step = "find"
        /\ delivery'[s].step = "verdict" => delivery[s].step = "reflect"
        /\ delivery'[s].step = "get_verdict" => delivery[s].step = "verdict"
    BY <1>7 DEF NextPhase, ToStep, Deliveries
  <2>2. Held(s, a)'
    BY <1>3, <2>1 DEF Held, Cleared, Reconciled, AllBy, SetBy, FindingsOf
  <2>3. Concluded(a)' BY <1>4, <2>1 DEF Concluded
  <2> QED BY <2>2, <2>3
<1>8. CASE GetVerdict(s)
  <2>1. /\ finding' = finding /\ verdict' = verdict /\ row' = row
        /\ delivery[s].step = "get_verdict"
        /\ delivery'[s].number = delivery[s].number
        /\ delivery'[s].step = "list_findings"
        /\ delivery'[s].verdict = verdict[a].value
    BY <1>8 DEF GetVerdict, Deliveries
  <2>2. Held(s, a)'
    BY <1>3, <2>1 DEF Held, Cleared, Reconciled, AllBy, SetBy, FindingsOf
  <2>3. Concluded(a)' BY <1>4, <2>1 DEF Concluded
  <2> QED BY <2>2, <2>3
<1>9. CASE ListFindings(s)
  <2>1. /\ finding' = finding /\ verdict' = verdict /\ row' = row
        /\ delivery[s].step = "list_findings"
        /\ delivery'[s].number = delivery[s].number
        /\ delivery'[s].step = "succeed"
        /\ delivery'[s].verdict = delivery[s].verdict
        /\ delivery'[s].count = Cardinality(FindingsOf(a))
    BY <1>9 DEF ListFindings, Deliveries
  <2>2. Held(s, a)'
    BY <1>3, <2>1 DEF Held, Cleared, Reconciled, AllBy, SetBy, FindingsOf
  <2>3. Concluded(a)' BY <1>4, <2>1 DEF Concluded
  <2> QED BY <2>2, <2>3
<1>10. CASE MarkSucceeded(s)
  <2>1. /\ finding' = finding /\ verdict' = verdict
        /\ delivery[s].step = "succeed"
        /\ delivery'[s].number = delivery[s].number
        /\ delivery'[s].step = "ack"
        /\ row'[a].verdict = delivery[s].verdict /\ row'[a].count = delivery[s].count
        /\ row'[a].by = delivery[s].number
    BY <1>2, <1>10 DEF MarkSucceeded, ToStep, Deliveries
  <2>2. Held(s, a)'
    BY <1>3, <2>1 DEF Held, Cleared, Reconciled, AllBy, SetBy, FindingsOf
  <2>3. \A t \in Running(a)' : t = s BY <1>1, <1>2 DEF Solid, Running, SlotAlone
  <2>4. Concluded(a)'
    BY <1>3, <2>1, <2>3 DEF Concluded, Held, Cleared, Reconciled, AllBy, SetBy, FindingsOf
  <2> QED BY <2>2, <2>4
<1>11. CASE Acknowledge(s) \/ SlotDies(s)
  <2>1. delivery'[s].audit = NoAudit
    BY <1>11 DEF Acknowledge, SlotDies, Idle
  <2>2. \A t \in Running(a)' : t \in Running(a) /\ delivery'[t] = delivery[t]
    BY <1>1, <1>2, <2>1 DEF Running, SlotAlone
  <2>3. UNCHANGED <<finding, verdict, row>> BY <1>11 DEF Acknowledge, SlotDies
  <2>4. row[a].status = "succeeded" => (AllBy(a, row[a].by) /\ SetBy(a, row[a].by))'
    BY <1>3, <2>3 DEF Concluded, AllBy, SetBy, FindingsOf
  <2>5. FindingsOf(a)' = FindingsOf(a) BY <2>3 DEF FindingsOf
  <2>6. Concluded(a)' BY <1>3, <2>2, <2>3, <2>4, <2>5 DEF Concluded
  <2> QED BY <1>2, <2>1, <2>6
<1>12. CASE Raise(s)
  <2>1. delivery'[s].step = "failed" BY <1>12 DEF Raise, ToStep, Deliveries
  <2>2. row'[a].status # "succeeded" BY <1>4, <1>12 DEF Raise
  <2> QED BY <2>1, <2>2 DEF Held, Concluded, Cleared, Reconciled
<1>13. CASE MarkAuditFailed(s)
  <2>1. delivery'[s].audit = NoAudit BY <1>13 DEF MarkAuditFailed, Idle
  <2>2. row'[a].status # "succeeded"
    BY <1>2, <1>13 DEF MarkAuditFailed, ExecutionRows
  <2> QED BY <1>2, <2>1, <2>2 DEF Concluded
<1>14. CASE RecordFinding(s)
  <2> DEFINE new == [audit |-> a, by |-> delivery[s].number, used |-> TRUE]
  <2>1. PICK f \in FindingIds : finding' = [finding EXCEPT ![f] = new]
    BY <1>14 DEF RecordFinding
  <2>2. new.by = delivery[s].number OBVIOUS
  <2> HIDE DEF new
  <2>3. AllBy(a, delivery[s].number)
    BY <1>3, <1>14 DEF RecordFinding, HasTool, Held, Cleared
  <2>4. AllBy(a, delivery[s].number)' BY <1>14, <2>1, <2>2, <2>3 DEF AllBy, FindingsOf, RecordFinding
  <2>5. Held(s, a)'
    BY <1>3, <1>14, <2>4 DEF RecordFinding, HasTool, Held, FindingTools, ReflectionTools,
                             VerdictTools, Reconciled
  <2>6. Concluded(a)' BY <1>4, <1>14 DEF Concluded, RecordFinding, HasTool
  <2> QED BY <2>5, <2>6
<1>15. CASE SetVerdict(s)
  <2>1. PICK v \in Verdicts :
          verdict' = [verdict EXCEPT ![a] = [value |-> v, by |-> delivery[s].number,
                                             on |-> FindingsOf(a)]]
    BY <1>15 DEF SetVerdict
  <2>2. delivery[s].step = "verdict" /\ delivery' = delivery /\ finding' = finding
        /\ row' = row
    BY <1>15 DEF SetVerdict, HasTool, FindingTools, ReflectionTools
  <2>3. verdict'[a].by = delivery[s].number /\ verdict'[a].on = FindingsOf(a)
    BY <1>2, <2>1
  <2>4. Held(s, a)'
    BY <1>3, <2>2, <2>3 DEF Held, Cleared, Reconciled, AllBy, SetBy, FindingsOf
  <2>5. Concluded(a)' BY <1>4, <2>2 DEF Concluded
  <2> QED BY <2>4, <2>5
<1>16. ASSUME NEW f \in FindingIds, DeleteFinding(s, f)
       PROVE  Held(s, a)' /\ Concluded(a)'
  <2>1. delivery[s].step = "reflect" /\ delivery' = delivery /\ verdict' = verdict
        /\ row' = row
    BY <1>16 DEF DeleteFinding, HasTool, FindingTools, VerdictTools
  <2>2. finding' = [finding EXCEPT ![f] = Deleted] /\ Deleted.audit # a
    BY <1>2, <1>16 DEF DeleteFinding, Deleted
  <2>3. AllBy(a, delivery[s].number)' BY <1>3, <2>1, <2>2 DEF Held, Cleared, AllBy, FindingsOf
  <2>4. Held(s, a)' BY <1>3, <2>1, <2>3 DEF Held, Reconciled
  <2>5. Concluded(a)' BY <1>4, <2>1 DEF Concluded
  <2> QED BY <2>4, <2>5
<1> QED BY <1>5, <1>6, <1>7, <1>8, <1>9, <1>10, <1>11, <1>12, <1>13, <1>14, <1>15, <1>16
        DEF SlotStep

(* A slot takes up an audit: a second one at once takes it out of question.  *)
LEMMA DeliverSolid ==
    ASSUME Shaped, NEW s \in Slots, NEW a \in Audits, Deliver(s, a),
           NEW c \in Audits \ overlapped', Solid(c)
    PROVE  Solid(c)'
<1> DEFINE new == [Idle EXCEPT !.step = "clear", !.audit = a, !.number = delivered + 1]
<1>1. /\ delivery[s].step = "idle" /\ delivery[s].audit = NoAudit
      /\ delivery' = [delivery EXCEPT ![s] = new]
      /\ new.audit = a /\ new.step = "clear"
      /\ delivery \in [Slots -> Deliveries]
  BY DEF Deliver, Shaped, AuditTypeOK, Idle
<1> HIDE DEF new
<1>2. \A t \in Slots \ {s} : delivery'[t] = delivery[t] BY <1>1
<1>3. delivery'[s].audit = a /\ delivery'[s].step = "clear" BY <1>1
<1>4. CASE c # a
  <2>1. Untouched(c) BY <1>4 DEF Deliver, Untouched, FindingsOf
  <2> QED BY <1>2, <1>3, <1>4, <2>1, StaysSolid
<1>5. CASE c = a
  <2>1. Running(a) = {} BY <1>5 DEF Deliver
  <2>2. \A t \in Running(a)' : t = s BY <1>2, <2>1 DEF Running
  <2>3. \A t \in Running(a)' : Held(t, a)'
    BY <1>3, <2>2 DEF Held, Cleared, Reconciled
  <2>4. row'[a].status = "running" BY DEF Deliver, Shaped, AuditTypeOK, ExecutionRows
  <2>5. Concluded(a)' BY <2>4 DEF Concluded
  <2> QED BY <1>5, <2>2, <2>3, <2>5 DEF Solid
<1> QED BY <1>4, <1>5

(* A row that says SUCCEEDED is left as it is: its slot only acknowledges.   *)
LEMMA StepSeen ==
    ASSUME Conclusive, NEW s \in Slots, SlotStep(s) PROVE Seen'
<1>1. overlapped' = overlapped /\ report' = report
  BY DEF SlotStep, ClearFindings, ClearVerdict, NextPhase, GetVerdict, ListFindings,
         MarkSucceeded, Acknowledge, Raise, MarkAuditFailed, SlotDies, RecordFinding,
         SetVerdict, DeleteFinding
<1>2. SUFFICES ASSUME report.step # "none", report.audit \notin overlapped,
                      row[report.audit].status = "succeeded"
               PROVE  row'[report.audit] = row[report.audit]
  BY <1>1 DEF Conclusive, Seen
<1>3. report.audit \in Audits BY <1>2 DEF Conclusive, Shaped, AuditTypeOK, Reports
<1>4. CASE delivery[s].audit # report.audit
  BY <1>3, <1>4, OwnAuditOnly DEF Conclusive, Untouched
<1>5. CASE delivery[s].audit = report.audit
  <2>1. delivery[s].step = "ack"
    BY <1>2, <1>3, <1>5 DEF Conclusive, Solid, Concluded, Running
  <2> QED
    BY <2>1 DEF SlotStep, ClearFindings, ClearVerdict, NextPhase, GetVerdict, ListFindings,
       MarkSucceeded, Acknowledge, Raise, MarkAuditFailed, SlotDies, RecordFinding,
       SetVerdict, DeleteFinding, HasTool
<1> QED BY <1>4, <1>5

LEMMA InitConclusive == AuditInit => Conclusive
<1> SUFFICES ASSUME AuditInit PROVE Conclusive
  OBVIOUS
<1>1. \A a \in Audits : Solid(a)
  BY DEF AuditInit, Solid, Running, Concluded, Idle
<1> QED BY <1>1, InitShaped DEF AuditInit, Conclusive, Seen, NoReport

LEMMA NextConclusive == Conclusive /\ [AuditNext]_auditVars => Conclusive'
<1> SUFFICES ASSUME Conclusive, [AuditNext]_auditVars PROVE Conclusive'
  OBVIOUS
<1>0. Shaped /\ Shaped' BY NextShaped DEF Conclusive
<1>1. ASSUME NEW s \in Slots, SlotStep(s) PROVE Conclusive'
  <2>1. overlapped' = overlapped /\ torn' = torn
    BY <1>1 DEF SlotStep, ClearFindings, ClearVerdict, NextPhase, GetVerdict, ListFindings,
       MarkSucceeded, Acknowledge, Raise, MarkAuditFailed, SlotDies, RecordFinding,
       SetVerdict, DeleteFinding
  <2>2. ASSUME NEW a \in Audits \ overlapped PROVE Solid(a)'
    <3>1. Solid(a) BY DEF Conclusive
    <3>2. CASE a = delivery[s].audit BY <1>0, <1>1, <3>1, <3>2, StepSolid
    <3>3. CASE a # delivery[s].audit
      BY <1>0, <1>1, <3>1, <3>3, OwnAuditOnly, StaysSolid DEF SlotAlone
    <3> QED BY <3>2, <3>3
  <2> QED BY <1>0, <1>1, <2>1, <2>2, StepSeen DEF Conclusive
<1>2. ASSUME NEW s \in Slots, NEW a \in Audits, Deliver(s, a) PROVE Conclusive'
  <2>1. overlapped \subseteq overlapped' /\ torn' = torn BY <1>2 DEF Deliver
  <2>2. \A c \in Audits \ overlapped' : Solid(c)'
    BY <1>0, <1>2, <2>1, DeliverSolid DEF Conclusive
  <2>3. Seen'
    <3>1. CASE report.audit = a
      BY <1>2, <3>1 DEF Deliver, Seen, Shaped, AuditTypeOK, Reports, Conclusive
    <3>2. CASE report.audit # a
      <4>1. row'[report.audit] = row[report.audit] /\ report' = report
        BY <1>2, <3>2 DEF Deliver, Conclusive, Shaped, AuditTypeOK
      <4> QED BY <2>1, <4>1 DEF Conclusive, Seen
    <3> QED BY <3>1, <3>2
  <2> QED BY <1>0, <2>1, <2>2, <2>3 DEF Conclusive
<1>3. ASSUME UNCHANGED <<finding, verdict, row, delivery, overlapped>>
      PROVE  \A a \in Audits \ overlapped' : Solid(a)'
  BY <1>3, StaysSolid DEF Conclusive, Untouched, FindingsOf
<1>4. ASSUME NEW a \in Audits, ReportRow(a) PROVE Conclusive'
  <2>1. /\ report'.step = "verdict" /\ report'.audit = a
        /\ report'.succeeded => row[a].status = "succeeded"
    BY <1>4 DEF ReportRow, NoReport
  <2>2. Seen' BY <1>4, <2>1 DEF Seen, ReportRow
  <2> QED BY <1>0, <1>3, <1>4, <2>2 DEF Conclusive, ReportRow
<1>5. CASE ReportVerdict
  <2>1. /\ report.step = "verdict" /\ report'.step = "findings"
        /\ report'.audit = report.audit /\ report'.succeeded = report.succeeded
        /\ report'.stale = report.stale
        /\ report'.verdict = verdict[report.audit].value
    BY <1>5 DEF ReportVerdict, Conclusive, Shaped, AuditTypeOK, Reports
  <2>2. report.audit \in Audits
    BY <2>1 DEF Conclusive, Shaped, AuditTypeOK, Reports
  <2>3. Seen' BY <1>5, <2>1, <2>2 DEF Seen, ReportVerdict, Conclusive, Solid, Concluded
  <2> QED BY <1>0, <1>3, <1>5, <2>3 DEF Conclusive, ReportVerdict
<1>6. CASE ReportFindings
  <2>1. report.audit \in Audits
    BY <1>6 DEF ReportFindings, Conclusive, Shaped, AuditTypeOK, Reports
  <2>2. report.succeeded /\ ~report.stale /\ report.audit \notin overlapped
          => /\ report.verdict = row[report.audit].verdict
             /\ Cardinality(FindingsOf(report.audit)) = row[report.audit].count
    BY <1>6, <2>1 DEF ReportFindings, Conclusive, Seen, Solid, Concluded
  <2>3. ~torn' BY <1>6, <2>2 DEF ReportFindings, Conclusive
  <2>4. Seen' BY <1>6 DEF ReportFindings, Seen, NoReport
  <2> QED BY <1>0, <1>3, <1>6, <2>3, <2>4 DEF Conclusive, ReportFindings
<1>7. CASE UNCHANGED auditVars
  BY <1>0, <1>3, <1>7 DEF Conclusive, auditVars, Seen
<1> QED BY <1>1, <1>2, <1>4, <1>5, <1>6, <1>7 DEF AuditNext, SlotStep

LEMMA AlwaysConclusive == AuditSpec => []Conclusive
BY InitConclusive, NextConclusive, PTL DEF AuditSpec

(* An audit that succeeded, and was never run twice at once, stands on the   *)
(* findings of the delivery that succeeded alone, and so does its verdict    *)
(* (find.py:38, graph.py:40-43).                                             *)
THEOREM ConcludedByOneDelivery == AuditSpec => []ConclusionOfOneDelivery
<1>1. Conclusive => ConclusionOfOneDelivery
  BY DEF Conclusive, Solid, Concluded, AllBy, SetBy, ConclusionOfOneDelivery
<1> QED BY <1>1, AlwaysConclusive, PTL

(* A report that says SUCCEEDED shows the verdict and as many findings as    *)
(* the run ended with, although it is put together from three reads          *)
(* (router.py:121-133, task.py:80-89).                                       *)
THEOREM ReportsAreWhole == AuditSpec => []ReportIsWhole
<1>1. Conclusive => ReportIsWhole BY DEF Conclusive, ReportIsWhole
<1> QED BY <1>1, AlwaysConclusive, PTL

HIDE AuditAssumption DEF AuditAssumption

-----------------------------------------------------------------------------
(* The tools.  A behaviour is one call, so that what is true of its answer   *)
(* when it is given stays true.                                              *)

(* The arguments of a call of check_vat, of check_date_order, of parse_money. *)
LEMMA VatCalls ==
    ASSUME NEW c \in ToolCalls, c.name = "check_vat"
    PROVE  c.subtotal \in Int /\ c.rate \in Int
<1> DEFINE vat == [name : {"check_vat"}, subtotal : Amounts, rate : {0, 5, 8, 10}, off : -1..1]
<1>1. c \in vat
  <2> DEFINE other == {"parse_money", "check_date_order", "invoice_age", "compare_amount",
                       "find_document"}
  <2>1. c \in vat \/ c.name \in other BY DEF ToolCalls
  <2>2. "check_vat" \notin other OBVIOUS
  <2> HIDE DEF vat, other
  <2> QED BY <2>1, <2>2
<1>2. c.subtotal \in Amounts /\ c.rate \in {0, 5, 8, 10} BY <1>1
<1>3. \A a \in Amounts : a \in Int BY ToolAssumption DEF ToolAssumption
<1> HIDE DEF vat
<1> QED BY <1>2, <1>3

LEMMA DateCalls ==
    ASSUME NEW c \in ToolCalls, c.name = "check_date_order"
    PROVE  \E n \in Nat : c.dates \in [1 .. n -> ReadDays]
<1> DEFINE chain == [name : {"check_date_order"}, dates : SeqOf(ReadDays, MaxDates)]
<1>1. c \in chain
  <2> DEFINE other == {"parse_money", "check_vat", "invoice_age", "compare_amount",
                       "find_document"}
  <2>1. c \in chain \/ c.name \in other BY DEF ToolCalls
  <2>2. "check_date_order" \notin other OBVIOUS
  <2> HIDE DEF chain, other
  <2> QED BY <2>1, <2>2
<1> QED BY <1>1 DEF SeqOf

(* Each call is answered by the tool it names. *)
LEMMA OneTool ==
    ASSUME ToolNext
    PROVE  /\ tool.name = "check_vat" => CheckVat
           /\ tool.name = "check_date_order" => CheckDateOrder
           /\ tool.name = "parse_money" => ParseMoney
<1>1. ParseMoney => tool.name = "parse_money" BY DEF ParseMoney
<1>2. CheckDateOrder => tool.name = "check_date_order" BY DEF CheckDateOrder
<1>3. InvoiceAge => tool.name = "invoice_age" BY DEF InvoiceAge
<1>4. CompareAmount => tool.name = "compare_amount" BY DEF CompareAmount
<1>5. CheckVat => tool.name = "check_vat" BY DEF CheckVat
<1>6. FindDocument => tool.name = "find_document" BY DEF FindDocument
<1> QED BY <1>1, <1>2, <1>3, <1>4, <1>5, <1>6 DEF ToolNext

(* Half a unit is at most half a per cent of the VAT expected, from a        *)
(* hundred units on.                                                         *)
LEMMA RoundingIsAllowed ==
    ASSUME NEW expected \in Int, expected >= 10000,
           NEW given \in Int, given = (expected + 50) \div 100
    PROVE  Abs(given * 100 - expected) * 200 <= Larger(expected, 100)
<1>1. given * 100 - expected <= 50 /\ expected - given * 100 <= 50 OBVIOUS
<1>2. Abs(given * 100 - expected) <= 50 BY <1>1 DEF Abs
<1> QED BY <1>2 DEF Abs, Larger

(* A VAT amount rounded to the unit is no violation of the 0.5% that          *)
(* check_vat allows, whatever the subtotal and the legal rate, once the       *)
(* expected VAT reaches a hundred units (check_vat.py:51-62).                 *)
THEOREM RoundingIsTolerated == ToolSpec => []RoundedVatMatches
<1> DEFINE Inv == tool \in ToolCalls /\ RoundedVatMatches
<1>1. ToolInit => Inv BY DEF ToolInit, RoundedVatMatches, Answered
<1>2. Inv /\ [ToolNext]_toolVars => Inv'
  <2> SUFFICES ASSUME Inv, [ToolNext]_toolVars, ~UNCHANGED toolVars PROVE Inv'
    BY DEF toolVars, RoundedVatMatches, Answered
  <2>1. tool' = tool BY DEF ToolNext
  <2> SUFFICES ASSUME tool.name = "check_vat", tool.off = 0, ExpectedVat(tool) >= 10000
               PROVE  answer'.match
    BY <2>1 DEF RoundedVatMatches, Answered
  <2>2. tool.subtotal \in Int /\ tool.rate \in Int
    BY VatCalls
  <2>3. ExpectedVat(tool) \in Int /\ RoundedVat(tool) \in Int
        /\ GivenVat(tool) = RoundedVat(tool)
    BY <2>2 DEF ExpectedVat, RoundedVat, GivenVat
  <2>4. Abs(GivenVat(tool) * 100 - ExpectedVat(tool)) * 200 <= Larger(ExpectedVat(tool), 100)
    BY <2>3, RoundingIsAllowed DEF RoundedVat
  <2>5. CheckVat
    BY OneTool
  <2> DEFINE match == Abs(GivenVat(tool) * 100 - ExpectedVat(tool)) * 200
                      <= Larger(ExpectedVat(tool), 100)
  <2>6. answer' = [ok |-> TRUE, match |-> match] BY <2>5 DEF CheckVat
  <2>7. match = TRUE BY <2>4
  <2> HIDE DEF match
  <2> QED BY <2>6, <2>7
<1>3. Inv => RoundedVatMatches OBVIOUS
<1> QED BY <1>1, <1>2, <1>3, PTL DEF ToolSpec

(* Of two places whose dates are in the wrong order, the nearest such two     *)
(* have no readable date between them: it would be out of order with one.     *)
LEMMA NearestAreNeighbours ==
    ASSUME NEW n \in Nat, NEW dates \in [1 .. n -> ReadDays],
           NEW i \in Parsed(dates), NEW j \in Parsed(dates), i < j, dates[j] < dates[i]
    PROVE  OutOfOrder(dates, Neighbours(Parsed(dates))) # {}
<1> DEFINE P == Parsed(dates)
           Wrong(k, l) == k < l /\ dates[l] < dates[k]
           Gaps == {g \in Nat : \E k, l \in P : Wrong(k, l) /\ g = l - k}
<1>1. ASSUME NEW k \in P PROVE k \in Int /\ dates[k] \in Int
  <2>1. k \in DOMAIN dates /\ dates[k] # None BY DEF Parsed
  <2>2. DOMAIN dates = 1 .. n OBVIOUS
  <2> HIDE DEF P
  <2>3. k \in 1 .. n BY <2>1, <2>2
  <2>4. dates[k] \in ReadDays BY <2>3
  <2>5. dates[k] \in Days BY <2>1, <2>4 DEF ReadDays
  <2>6. \A d \in Days : d \in Int BY ToolAssumption DEF ToolAssumption
  <2> QED BY <2>3, <2>5, <2>6
<1>2. \A k, l \in P : Wrong(k, l) => l - k \in Gaps BY <1>1
<1>3. Gaps # {} BY <1>2
<1>4. PICK g \in Gaps : \A h \in Gaps : g <= h
  <2>1. Gaps \in SUBSET Nat OBVIOUS
  <2> HIDE DEF Gaps
  <2> QED BY <1>3, <2>1, NatMin
<1>5. PICK k \in P, l \in P : Wrong(k, l) /\ g = l - k OBVIOUS
<1>6. ASSUME NEW m \in P, k < m, m < l PROVE FALSE
  <2>1. ~Wrong(k, m) /\ ~Wrong(m, l)
    <3>0. k \in Int /\ l \in Int /\ m \in Int BY <1>1, <1>6
    <3>1. m - k < g /\ l - m < g /\ g \in Int BY <1>5, <1>6, <3>0
    <3> HIDE DEF Gaps, Wrong
    <3>2. m - k \notin Gaps /\ l - m \notin Gaps BY <1>4, <3>0, <3>1
    <3> QED BY <1>2, <3>2
  <2>2. dates[k] \in Int /\ dates[l] \in Int /\ dates[m] \in Int BY <1>1, <1>6
  <2>3. dates[l] < dates[k] BY <1>5
  <2>4. dates[k] <= dates[m] BY <1>6, <2>1, <2>2
  <2>5. dates[m] <= dates[l] BY <1>6, <2>1, <2>2
  <2> QED BY <2>2, <2>3, <2>4, <2>5
<1>7. <<k, l>> \in OutOfOrder(dates, Neighbours(P))
  BY <1>5, <1>6 DEF OutOfOrder, Neighbours
<1> QED BY <1>7

(* check_date_order finds a violation just when two of the dates it could     *)
(* read are out of order, though it compares neighbours only and skips what   *)
(* it could not read, for a chain of any length (check_date_order.py:21-42).  *)
THEOREM DateOrderIsChecked == ToolSpec => []DatesInOrder
<1> DEFINE Inv == tool \in ToolCalls /\ DatesInOrder
<1>1. ToolInit => Inv BY DEF ToolInit, DatesInOrder, Answered
<1>2. Inv /\ [ToolNext]_toolVars => Inv'
  <2> SUFFICES ASSUME Inv, [ToolNext]_toolVars, ~UNCHANGED toolVars PROVE Inv'
    BY DEF toolVars, DatesInOrder, Answered
  <2>1. tool' = tool BY DEF ToolNext
  <2> DEFINE dates == tool.dates
  <2> SUFFICES ASSUME tool.name = "check_date_order"
               PROVE  answer'.violations = {} <=>
                        \A i, j \in DOMAIN dates :
                          i < j /\ None \notin {dates[i], dates[j]} => dates[i] <= dates[j]
    BY <2>1 DEF DatesInOrder, Answered
  <2>2. CheckDateOrder
    BY OneTool
  <2>3. answer'.violations = OutOfOrder(dates, Neighbours(Parsed(dates)))
    BY <2>2 DEF CheckDateOrder
  <2>4. PICK n \in Nat : dates \in [1 .. n -> ReadDays]
    BY DateCalls
  <2> HIDE DEF dates
  <2>5. \A i \in Parsed(dates) : i \in 1 .. n /\ dates[i] \in Int
    BY <2>4, ToolAssumption DEF ToolAssumption, Parsed, ReadDays
  <2>6. ASSUME NEW i \in DOMAIN dates, NEW j \in DOMAIN dates, i < j,
               None \notin {dates[i], dates[j]}, ~(dates[i] <= dates[j])
        PROVE  answer'.violations # {}
    <3>1. i \in Parsed(dates) /\ j \in Parsed(dates) BY <2>6 DEF Parsed
    <3>2. dates[j] < dates[i] BY <2>5, <2>6, <3>1
    <3> QED BY <2>3, <2>4, <2>6, <3>1, <3>2, NearestAreNeighbours
  <2>7. ASSUME NEW p \in OutOfOrder(dates, Neighbours(Parsed(dates)))
        PROVE  \E i, j \in DOMAIN dates :
                 i < j /\ None \notin {dates[i], dates[j]} /\ ~(dates[i] <= dates[j])
    <3>1. /\ p[1] \in Parsed(dates) /\ p[2] \in Parsed(dates)
          /\ p[1] < p[2] /\ dates[p[2]] < dates[p[1]]
      BY DEF OutOfOrder, Neighbours
    <3>2. ~(dates[p[1]] <= dates[p[2]]) BY <2>5, <3>1
    <3> QED BY <3>1, <3>2 DEF Parsed
  <2> QED BY <2>3, <2>6, <2>7
<1>3. Inv => DatesInOrder OBVIOUS
<1> QED BY <1>1, <1>2, <1>3, PTL DEF ToolSpec

MoneyChars == {"d", ",", "."}

LEMMA MoneyCalls ==
    ASSUME NEW c \in ToolCalls, c.name = "parse_money"
    PROVE  \E n \in Nat : c.text \in [1 .. n -> MoneyChars]
<1> DEFINE money == [name : {"parse_money"}, text : MoneyTexts]
<1>1. c \in money
  <2> DEFINE other == {"check_date_order", "check_vat", "invoice_age", "compare_amount",
                       "find_document"}
  <2>1. c \in money \/ c.name \in other BY DEF ToolCalls
  <2>2. "parse_money" \notin other OBVIOUS
  <2> HIDE DEF money, other
  <2> QED BY <2>1, <2>2
<1>2. {"d"} \cup Separators = MoneyChars BY DEF Separators, MoneyChars
<1> QED BY <1>1, <1>2 DEF MoneyTexts, SeqOf

(* The places of a character, and the first and the last of them. *)
LEMMA CharPlaces ==
    ASSUME NEW n \in Nat, NEW text \in [1 .. n -> MoneyChars], NEW c
    PROVE  /\ Len(text) = n /\ CharsOf(text, c) = {i \in 1 .. n : text[i] = c}
           /\ IsFiniteSet(CharsOf(text, c)) /\ Cardinality(CharsOf(text, c)) \in Nat
           /\ Uses(text, c) =>
                /\ Max(CharsOf(text, c)) \in CharsOf(text, c)
                /\ \A i \in CharsOf(text, c) : i <= Max(CharsOf(text, c))
                /\ Min(CharsOf(text, c)) \in CharsOf(text, c)
                /\ \A i \in CharsOf(text, c) : Min(CharsOf(text, c)) <= i
<1> DEFINE at == CharsOf(text, c)
<1>1. DOMAIN text = 1 .. n /\ Len(text) = n OBVIOUS
<1>2. at = {i \in 1 .. n : text[i] = c} BY <1>1 DEF CharsOf
<1>3. at \in SUBSET (1 .. n) BY <1>2
<1> HIDE DEF at
<1>4. IsFiniteSet(at) /\ Cardinality(at) \in Nat
  <2>1. IsFiniteSet(1 .. n) BY FS_Interval
  <2> QED BY <1>3, <2>1, FS_Subset, FS_CardinalityType
<1>5. at \in SUBSET Nat /\ \A i \in at : i <= n BY <1>3
<1>6. ASSUME at # {} PROVE Max(at) \in at /\ \A i \in at : i <= Max(at)
  <2>1. PICK m \in at : \A i \in at : i <= m BY <1>5, <1>6, NatMax
  <2>2. \A i \in at : m >= i BY <1>5, <2>1
  <2>3. Max(at) \in at /\ \A i \in at : Max(at) >= i BY <2>2 DEF Max
  <2> QED BY <1>5, <2>3
<1>7. ASSUME at # {} PROVE Min(at) \in at /\ \A i \in at : Min(at) <= i
  <2>1. PICK m \in at : \A i \in at : m <= i BY <1>5, <1>7, NatMin
  <2> QED BY <2>1 DEF Min
<1> QED BY <1>1, <1>2, <1>4, <1>6, <1>7 DEF Uses, at

(* A text whose grouping character stands at every fourth place from the end *)
(* is grouped, and one point makes a group only three digits from the end.   *)
LEMMA GroupsOfThree ==
    ASSUME NEW n \in Nat, NEW text \in [1 .. n -> MoneyChars], NEW c,
           CharsOf(text, c) = {i \in 1 .. n : (n - i + 1) % 4 = 0},
           Uses(text, c), text[1] # c
    PROVE  Grouped(text, c)
<1> DEFINE at == CharsOf(text, c)
<1>1. at = {i \in 1 .. n : (n - i + 1) % 4 = 0} /\ at # {} BY DEF Uses
<1>2. Len(text) = n BY CharPlaces
<1>3. Min(at) \in at /\ \A i \in at : Min(at) <= i BY CharPlaces
<1>4. 1 \notin at
  <2>1. CharsOf(text, c) = {i \in 1 .. n : text[i] = c} BY CharPlaces
  <2> QED BY <2>1
<1> HIDE DEF at
<1>5. Min(at) <= 4
  <2> DEFINE m == Min(at)
  <2>1. m \in 1 .. n /\ (n - m + 1) % 4 = 0 BY <1>1, <1>3
  <2>2. SUFFICES ASSUME m > 4 PROVE FALSE
    <3> HIDE DEF m
    <3>1. m > 4 \/ m <= 4 BY <2>1
    <3> QED BY <3>1 DEF m
  <2> HIDE DEF m
  <2>3. m - 4 \in 1 .. n /\ (n - (m - 4) + 1) % 4 = 0 BY <2>1, <2>2
  <2>4. m - 4 \in at BY <1>1, <2>3
  <2>5. m <= m - 4 BY <1>3, <2>4 DEF m
  <2> QED BY <2>1, <2>5
<1>6. ASSUME NEW i \in at
      PROVE  /\ i + 3 <= n /\ {i + 1, i + 2, i + 3} \intersect at = {}
             /\ i + 4 \in at \union {n + 1}
  <2>1. i \in 1 .. n /\ (n - i + 1) % 4 = 0 BY <1>1
  <2>2. i + 3 <= n BY <2>1
  <2>3. \A j \in {i + 1, i + 2, i + 3} : (n - j + 1) % 4 # 0 BY <2>1, <2>2
  <2>4. \A j \in {i + 1, i + 2, i + 3} : j \notin at BY <1>1, <2>3
  <2>5. CASE i + 4 <= n
    <3>1. i + 4 \in 1 .. n /\ (n - (i + 4) + 1) % 4 = 0 BY <2>1, <2>5
    <3>2. i + 4 \in at BY <1>1, <3>1
    <3> QED BY <2>2, <2>4, <3>2
  <2>6. CASE ~(i + 4 <= n)
    <3>1. i + 4 = n + 1 BY <2>1, <2>2, <2>6
    <3> QED BY <2>2, <2>4, <3>1
  <2> QED BY <2>5, <2>6
<1> QED BY <1>1, <1>2, <1>5, <1>6 DEF Grouped, at

(* Which way ToMoney reads a text: both separators, one, or none. *)
LEMMA MoneyCases ==
    ASSUME NEW n \in Nat, NEW text \in [1 .. n -> MoneyChars], n > 0,
           NEW group \in Separators, NEW point \in Separators, group # point
    PROVE  /\ Uses(text, group) /\ Uses(text, point) /\ RightOf(text, point) < RightOf(text, group)
                => ToMoney(text) = Float(text, point)
           /\ \A c, b \in Separators : b # c /\ Uses(text, c) /\ ~Uses(text, b) =>
                ToMoney(text) = IF Grouped(text, c) THEN 0 ELSE Float(text, c)
           /\ ~Uses(text, group) /\ ~Uses(text, point) => ToMoney(text) = Float(text, ".")
<1>1. text # <<>>
  <2>1. DOMAIN text = 1 .. n /\ 1 \in 1 .. n OBVIOUS
  <2>2. DOMAIN <<>> = {} OBVIOUS
  <2> QED BY <2>1, <2>2
<1>2. ASSUME NEW c, Uses(text, c) PROVE RightOf(text, c) \in Int
  <2>1. Max(CharsOf(text, c)) \in 1 .. n /\ Len(text) = n BY <1>2, CharPlaces
  <2> QED BY <2>1 DEF RightOf
<1>3. (group = "," /\ point = ".") \/ (group = "." /\ point = ",") BY DEF Separators
<1>4. ~Uses(text, ".") => ~Grouped(text, ".") BY DEF Uses, Grouped
<1>5. ASSUME Uses(text, group), Uses(text, point), RightOf(text, point) < RightOf(text, group)
      PROVE  ToMoney(text) = Float(text, point)
  <2>1. ~(RightOf(text, group) < RightOf(text, point)) BY <1>2, <1>5
  <2> QED BY <1>1, <1>3, <1>5, <2>1 DEF ToMoney, Separators
<1>6. ASSUME NEW c \in Separators, NEW b \in Separators, b # c, Uses(text, c), ~Uses(text, b)
      PROVE  ToMoney(text) = IF Grouped(text, c) THEN 0 ELSE Float(text, c)
  BY <1>1, <1>6 DEF ToMoney, Separators
<1>7. ASSUME ~Uses(text, group), ~Uses(text, point)
      PROVE  ToMoney(text) = Float(text, ".")
  BY <1>1, <1>3, <1>4, <1>7 DEF ToMoney
<1> QED BY <1>5, <1>6, <1>7

(* A text with one point at m, and digits alone after it: n - m decimals.    *)
LEMMA DigitsAfter ==
    ASSUME NEW n \in Nat, NEW text \in [1 .. n -> MoneyChars], NEW m \in 1 .. n,
           NEW point, CharsOf(text, point) = {m}, text[1] = "d",
           \A i \in 1 .. n : i > m => text[i] = "d"
    PROVE  Float(text, point) = n - m /\ RightOf(text, point) = n - m
<1>1. Len(text) = n /\ CharsOf(text, "d") = {i \in 1 .. n : text[i] = "d"}
  BY CharPlaces
<1>2. Uses(text, "d") BY <1>1 DEF Uses
<1>3. Cardinality(CharsOf(text, point)) = 1 BY FS_Singleton
<1>4. {i \in CharsOf(text, "d") : \E j \in CharsOf(text, point) : j < i} = m + 1 .. n
  BY <1>1
<1>5. Cardinality(m + 1 .. n) = n - m
  <2>1. m + 1 \in Int /\ n \in Int OBVIOUS
  <2>2. Cardinality(m + 1 .. n) = IF m + 1 > n THEN 0 ELSE n - (m + 1) + 1
    BY <2>1, FS_Interval
  <2> QED BY <2>2
<1>6. Float(text, point) = n - m
  <2>1. ~(~Uses(text, "d") \/ Cardinality(CharsOf(text, point)) > 1) BY <1>2, <1>3
  <2> QED BY <1>4, <1>5, <2>1 DEF Float
<1>7. Max({m}) = m BY DEF Max
<1> QED BY <1>1, <1>6, <1>7 DEF RightOf

(* A text that is an amount with one grouping character and one point. *)
LEMMA ReadingIsRead ==
    ASSUME NEW n \in Nat, NEW text \in [1 .. n -> MoneyChars],
           NEW group \in Separators, NEW point \in Separators, group # point,
           Reading(text, group, point) # {}
    PROVE  ToMoney(text) \in Reading(text, group, point) \union Reading(text, point, group)
<1> DEFINE gs == CharsOf(text, group)
           ps == CharsOf(text, point)
           cut == IF Uses(text, point) THEN Min(ps) - 1 ELSE Len(text)
           fourth == {i \in 1 .. cut : (cut - i + 1) % 4 = 0}
           value == IF Uses(text, point) THEN RightOf(text, point) ELSE 0
<1>1. /\ cut >= 1 /\ text[1] = "d" /\ gs \in {{}, fourth} /\ Cardinality(ps) <= 1
      /\ cut + 1 # Len(text) /\ Reading(text, group, point) = {value}
  BY DEF Reading
<1>2. Len(text) = n /\ gs = {i \in 1 .. n : text[i] = group} /\ ps = {i \in 1 .. n : text[i] = point}
      /\ CharsOf(text, "d") = {i \in 1 .. n : text[i] = "d"}
  BY CharPlaces
<1>3. \A i \in 1 .. n : i \notin gs /\ i \notin ps => text[i] = "d"
  BY <1>2 DEF Separators, MoneyChars
<1>4. text[1] # group /\ text[1] # point BY <1>1 DEF Separators
<1>5. CASE Uses(text, point)
  <2>1. PICK m \in 1 .. n : ps = {m} /\ Min(ps) = m /\ cut = m - 1
    <3>1. IsFiniteSet(ps) /\ Cardinality(ps) \in Nat /\ Min(ps) \in ps BY <1>5, CharPlaces
    <3>2. Cardinality(ps) # 0 BY <3>1, FS_EmptySet
    <3>3. Cardinality(ps) = 1 BY <1>1, <3>1, <3>2
    <3>4. PICK m : ps = {m} BY <3>1, <3>3, FS_Singleton
    <3>5. Min(ps) = m /\ m \in 1 .. n BY <1>2, <3>1, <3>4
    <3> QED BY <1>5, <3>4, <3>5
  <2>2. m >= 2 /\ m < n BY <1>1, <1>2, <2>1
  <2>3. \A i \in gs : i < m
    <3>1. \A i \in fourth : i \in 1 .. cut OBVIOUS
    <3>2. gs = {} \/ gs = fourth BY <1>1
    <3> HIDE DEF gs, fourth, cut, ps
    <3> QED BY <2>1, <3>1, <3>2
  <2>4. \A i \in 1 .. n : i > m => text[i] = "d" BY <1>3, <2>1, <2>3
  <2>5. Float(text, point) = n - m /\ RightOf(text, point) = n - m
    BY <1>1, <2>1, <2>4, DigitsAfter
  <2>6. n - m \in Reading(text, group, point) BY <1>1, <1>5, <2>5
  <2>7. CASE Uses(text, group)
    <3>1. Max(gs) \in gs BY <2>7, CharPlaces
    <3>2. RightOf(text, group) > n - m
      <4>1. Max(gs) \in 1 .. n /\ Max(gs) < m BY <1>2, <2>3, <3>1
      <4>2. RightOf(text, group) = n - Max(gs) BY <1>2 DEF RightOf
      <4> HIDE DEF gs
      <4> QED BY <4>1, <4>2
    <3>3. RightOf(text, point) < RightOf(text, group)
      <4>1. RightOf(text, group) \in Int
        <5>1. Max(gs) \in 1 .. n BY <1>2, <3>1
        <5>2. RightOf(text, group) = n - Max(gs) BY <1>2 DEF RightOf
        <5> HIDE DEF gs
        <5> QED BY <5>1, <5>2
      <4> QED BY <2>5, <3>2, <4>1
    <3>4. ToMoney(text) = Float(text, point)
      BY <1>5, <2>2, <2>7, <3>3, MoneyCases
    <3> QED BY <2>5, <2>6, <3>4
  <2>8. CASE ~Uses(text, group)
    <3>1. ToMoney(text) = IF Grouped(text, point) THEN 0 ELSE Float(text, point)
      BY <1>5, <2>2, <2>8, MoneyCases
    <3>2. CASE ~Grouped(text, point) BY <2>5, <2>6, <3>1, <3>2
    <3>3. CASE Grouped(text, point)
      <4>1. Min(ps) = m BY <2>1
      <4>2. m <= 4 /\ m + 3 <= n /\ m + 4 = n + 1
        <5>1. Min(ps) <= 4 /\ \A i \in ps : i + 3 <= n /\ i + 4 \in ps \union {n + 1}
          BY <1>2, <3>3 DEF Grouped
        <5> QED BY <2>1, <4>1, <5>1
      <4>3. ps = {i \in 1 .. n : (n - i + 1) % 4 = 0}
        <5>1. ASSUME NEW i \in 1 .. n PROVE (n - i + 1) % 4 = 0 <=> i = m BY <4>2
        <5> QED BY <2>1, <5>1
      <4>4. 0 \in Reading(text, point, group)
        <5>1. Cardinality(gs) <= 1
          <6>1. gs = {} BY <2>8 DEF Uses
          <6> QED BY <6>1, FS_EmptySet
        <5>2. n >= 1 /\ n + 1 # n BY <2>2
        <5> HIDE DEF gs, ps
        <5> QED BY <1>1, <1>2, <2>8, <4>3, <5>1, <5>2 DEF Reading, gs, ps
      <4> QED BY <3>1, <3>3, <4>4
    <3> QED BY <3>2, <3>3
  <2> QED BY <2>7, <2>8
<1>6. CASE ~Uses(text, point)
  <2>1. cut = n /\ n >= 1 /\ value = 0 BY <1>1, <1>2, <1>6
  <2>2. CASE Uses(text, group)
    <3>1. gs = {i \in 1 .. n : (n - i + 1) % 4 = 0} BY <1>1, <2>1, <2>2 DEF Uses
    <3>2. Grouped(text, group) BY <1>4, <2>2, <3>1, GroupsOfThree
    <3>3. ToMoney(text) = 0 BY <1>6, <2>1, <2>2, <3>2, MoneyCases
    <3> QED BY <1>1, <2>1, <3>3
  <2>3. CASE ~Uses(text, group)
    <3>1. ToMoney(text) = Float(text, ".") BY <1>6, <2>1, <2>3, MoneyCases
    <3>2. CharsOf(text, ".") = {} BY <1>6, <2>3 DEF Uses, Separators
    <3>3. Uses(text, "d") BY <1>1, <1>2, <2>1 DEF Uses
    <3>4. Cardinality({}) = 0 BY FS_EmptySet
    <3>5. {i \in CharsOf(text, "d") : \E j \in CharsOf(text, ".") : j < i} = {} BY <3>2
    <3>6. Float(text, ".") = 0 BY <3>2, <3>3, <3>4, <3>5 DEF Float
    <3> QED BY <1>1, <2>1, <3>1, <3>6
  <2> QED BY <2>2, <2>3
<1> QED BY <1>5, <1>6

(* The amounts a text can be are numbers, which None is not.                 *)
LEMMA ReadingsAreNumbers ==
    ASSUME NEW n \in Nat, NEW text \in [1 .. n -> MoneyChars]
    PROVE  Readings(text) \subseteq Int
<1>1. ASSUME NEW c, Uses(text, c) PROVE RightOf(text, c) \in Int
  <2>1. Max(CharsOf(text, c)) \in 1 .. n /\ Len(text) = n BY <1>1, CharPlaces
  <2> QED BY <2>1 DEF RightOf
<1>2. \A group, point : Reading(text, group, point) \subseteq Int BY <1>1 DEF Reading
<1> QED BY <1>2 DEF Readings

(* A text that is an amount in one of the two conventions is read as one of  *)
(* the amounts it can be, however long it is (parse_money.py:26-55).          *)
THEOREM MoneyIsReadRight == ToolSpec => []MoneyReadRight
<1> DEFINE Inv == tool \in ToolCalls /\ MoneyReadRight
<1>1. ToolInit => Inv BY DEF ToolInit, MoneyReadRight, Answered
<1>2. Inv /\ [ToolNext]_toolVars => Inv'
  <2> SUFFICES ASSUME Inv, [ToolNext]_toolVars, ~UNCHANGED toolVars PROVE Inv'
    BY DEF toolVars, MoneyReadRight, Answered
  <2>1. tool' = tool BY DEF ToolNext
  <2> DEFINE text == tool.text
  <2> SUFFICES ASSUME tool.name = "parse_money", Readings(text) # {}
               PROVE  answer'.ok /\ answer'.decimals \in Readings(text)
    BY <2>1 DEF MoneyReadRight, Answered
  <2>2. ParseMoney
    BY OneTool
  <2>3. PICK n \in Nat : text \in [1 .. n -> MoneyChars] BY MoneyCalls
  <2> HIDE DEF text
  <2>4. ToMoney(text) \in Readings(text)
    <3>1. "," \in Separators /\ "." \in Separators /\ "," # "." BY DEF Separators
    <3>2. CASE Reading(text, ".", ",") # {}
      BY <2>3, <3>1, <3>2, ReadingIsRead DEF Readings
    <3>3. CASE Reading(text, ",", ".") # {}
      BY <2>3, <3>1, <3>3, ReadingIsRead DEF Readings
    <3> QED BY <3>2, <3>3 DEF Readings
  <2>5. ToMoney(text) # None
    BY <2>3, <2>4, ReadingsAreNumbers, ToolAssumption DEF ToolAssumption
  <2> QED BY <2>2, <2>4, <2>5 DEF ParseMoney, text
<1>3. Inv => MoneyReadRight OBVIOUS
<1> QED BY <1>1, <1>2, <1>3, PTL DEF ToolSpec

-----------------------------------------------------------------------------
(* Orders, and the places of rows in a list.                                 *)

(* The members of S that come before x in the order R.                       *)
Below(S, R, x) == {y \in S : <<y, x>> \in R}

(* In a strict order of a finite set each place is taken by one member.      *)
LEMMA Places ==
    ASSUME NEW S, IsFiniteSet(S), NEW R,
           \A x \in S : <<x, x>> \notin R,
           \A x, y \in S : x # y => <<x, y>> \in R \/ <<y, x>> \in R,
           \A x, y, z \in S : <<x, y>> \in R /\ <<y, z>> \in R => <<x, z>> \in R
    PROVE  /\ \A x \in S : Cardinality(Below(S, R, x)) \in 0 .. Cardinality(S) - 1
           /\ \A x, y \in S : <<x, y>> \in R =>
                Cardinality(Below(S, R, x)) < Cardinality(Below(S, R, y))
           /\ \A i \in 1 .. Cardinality(S) : \E x \in S : Cardinality(Below(S, R, x)) = i - 1
<1> DEFINE below(x) == {y \in S : <<y, x>> \in R}
           place == [x \in S |-> Cardinality(below(x)) + 1]
<1>0. Cardinality(S) \in Nat BY FS_CardinalityType
<1>1. ASSUME NEW x \in S PROVE Cardinality(below(x)) \in 0 .. Cardinality(S) - 1
  <2>1. below(x) \in SUBSET S /\ below(x) # S OBVIOUS
  <2>2. IsFiniteSet(below(x)) BY FS_Subset
  <2> HIDE DEF below
  <2>3. Cardinality(below(x)) <= Cardinality(S) /\ Cardinality(S) # Cardinality(below(x))
    BY <2>1, FS_Subset
  <2> QED BY <1>0, <2>2, <2>3, FS_CardinalityType
<1>2. ASSUME NEW x \in S, NEW y \in S, <<x, y>> \in R
      PROVE  Cardinality(below(x)) < Cardinality(below(y))
  <2>1. below(x) \in SUBSET below(y) /\ below(x) # below(y)
    <3>1. x \in below(y) /\ x \notin below(x) BY <1>2
    <3>2. ASSUME NEW z \in below(x) PROVE z \in below(y) BY <1>2
    <3> QED BY <3>1, <3>2
  <2>2. IsFiniteSet(below(y)) BY FS_Subset
  <2>3. Cardinality(below(x)) \in Int /\ Cardinality(below(y)) \in Int BY <1>1
  <2> HIDE DEF below
  <2>4. Cardinality(below(x)) <= Cardinality(below(y))
        /\ Cardinality(below(y)) # Cardinality(below(x))
    BY <2>1, <2>2, FS_Subset
  <2> QED BY <2>3, <2>4
<1>3. place \in Injection(S, 1 .. Cardinality(S))
  <2>1. place \in [S -> 1 .. Cardinality(S)]
    <3>1. \A x \in S : Cardinality(below(x)) + 1 \in 1 .. Cardinality(S)
      <4> HIDE DEF below
      <4> QED BY <1>0, <1>1
    <3> QED BY <3>1
  <2>2. ASSUME NEW x \in S, NEW y \in S, place[x] = place[y] PROVE x = y
    <3> DEFINE m == Cardinality(below(x))
               n == Cardinality(below(y))
    <3>0. m \in Int /\ n \in Int BY <1>1
    <3>1. m = n
      <4>1. place[x] = m + 1 /\ place[y] = n + 1 OBVIOUS
      <4>2. m + 1 = n + 1 BY <2>2, <4>1
      <4> HIDE DEF place, m, n
      <4> QED BY <3>0, <4>2
    <3>2. Cardinality(below(x)) \in Int BY <1>1
    <3> HIDE DEF below
    <3>3. <<x, y>> \notin R /\ <<y, x>> \notin R BY <1>2, <3>1, <3>2
    <3> QED BY <3>3
  <2> HIDE DEF place
  <2> QED BY <2>1, <2>2 DEF Injection, IsInjective
<1>4. place \in Surjection(S, 1 .. Cardinality(S))
  <2>1. IsFiniteSet(1 .. Cardinality(S)) /\ Cardinality(1 .. Cardinality(S)) = Cardinality(S)
    BY <1>0, FS_Interval
  <2> HIDE DEF place
  <2> QED BY <1>3, <2>1, FS_Injection
<1>5. ASSUME NEW i \in 1 .. Cardinality(S)
      PROVE  \E x \in S : Cardinality(below(x)) = i - 1
  <2>1. PICK x \in S : place[x] = i
    <3> HIDE DEF place
    <3> QED BY <1>4 DEF Surjection
  <2>2. place[x] = Cardinality(below(x)) + 1 /\ Cardinality(below(x)) \in Int BY <1>1
  <2> HIDE DEF place, below
  <2> QED BY <1>0, <2>1, <2>2
<1>6. \A x \in S : Below(S, R, x) = below(x) BY DEF Below
<1> QED BY <1>1, <1>2, <1>5, <1>6

-----------------------------------------------------------------------------
(* Lists.                                                                    *)

USE ReadsAssumption DEF ReadsAssumption

(* The rows that the list would show now, and the place of each. *)
Shown == {r \in InList : entry[r] = "live"}
Ahead(r, s) == IF list = "knowledge" THEN Closer(r, s) ELSE Newer(r, s)
Place(r) == Cardinality({s \in Shown : Ahead(s, r)}) + 1

(* The clock of the transactions that insert. *)
Started == {r \in Rows : stamp[r] # 0}
Stamped ==
    /\ stamp \in [Rows -> Nat] /\ list \in Lists
    /\ entry \in [Rows -> {"absent", "live", "deleted"}]
    /\ \A r \in Rows : entry[r] # "absent" => stamp[r] # 0
    /\ \A r, s \in Rows : r # s /\ stamp[r] # 0 => stamp[r] # stamp[s]
    /\ \A r \in Rows : stamp[r] <= Cardinality(Started)

(* The list has finitely many rows.                                          *)
LEMMA ShownFinite == IsFiniteSet(Shown) /\ Shown \subseteq Rows /\ Cardinality(Shown) \in Nat
<1>1. Shown \in SUBSET Rows BY DEF Shown, InList
<1> QED BY <1>1, FS_Subset, FS_CardinalityType

(* The order of the list is strict and total: no two rows began at once.     *)
LEMMA AheadIsOrder ==
    ASSUME Stamped
    PROVE  /\ \A r \in Shown : ~Ahead(r, r)
           /\ \A r, s \in Shown : r # s => Ahead(r, s) \/ Ahead(s, r)
           /\ \A r, s, q \in Shown : Ahead(r, s) /\ Ahead(s, q) => Ahead(r, q)
<1>1. \A r \in Shown : r \in Rows /\ stamp[r] \in Nat /\ Similarity[r] \in Nat /\ stamp[r] # 0
  BY DEF Stamped, Shown, InList
<1>2. \A r, s \in Shown : r # s => stamp[r] # stamp[s] BY <1>1 DEF Stamped
<1>3. CASE list = "knowledge"
  BY <1>1, <1>2, <1>3 DEF Ahead, Closer, Newer
<1>4. CASE list # "knowledge"
  BY <1>1, <1>2, <1>4 DEF Ahead, Newer
<1> QED BY <1>3, <1>4

(* Each place of the list is taken by one of the rows shown. *)
LEMMA ShownPlaces ==
    ASSUME Stamped
    PROVE  /\ \A r \in Shown : Place(r) \in 1 .. Cardinality(Shown)
           /\ \A r, s \in Shown : Place(r) = Place(s) => r = s
           /\ \A i \in 1 .. Cardinality(Shown) :
                \E r \in Shown : Cardinality({s \in Shown : Ahead(s, r)}) = i - 1
<1> DEFINE R == {x \in Shown \X Shown : Ahead(x[1], x[2])}
           below(r) == Cardinality(Below(Shown, R, r))
<1>1. \A r, s \in Shown : <<r, s>> \in R <=> Ahead(r, s) OBVIOUS
<1>2. ASSUME NEW r \in Shown
      PROVE  Below(Shown, R, r) = {s \in Shown : Ahead(s, r)}
  BY <1>1 DEF Below
<1> HIDE DEF R
<1>3. /\ \A r \in Shown : below(r) \in 0 .. Cardinality(Shown) - 1
      /\ \A r, s \in Shown : <<r, s>> \in R => below(r) < below(s)
      /\ \A i \in 1 .. Cardinality(Shown) : \E r \in Shown : below(r) = i - 1
  <2>1. \A r \in Shown : <<r, r>> \notin R BY <1>1, AheadIsOrder
  <2>2. \A r, s \in Shown : r # s => <<r, s>> \in R \/ <<s, r>> \in R
    BY <1>1, AheadIsOrder
  <2>3. \A r, s, q \in Shown : <<r, s>> \in R /\ <<s, q>> \in R => <<r, q>> \in R
    BY <1>1, AheadIsOrder
  <2>4. IsFiniteSet(Shown) BY ShownFinite
  <2> QED BY <2>1, <2>2, <2>3, <2>4, Places
<1>4. \A r \in Shown : Place(r) = below(r) + 1 BY <1>2 DEF Place
<1>5. \A i \in 1 .. Cardinality(Shown) :
        \E r \in Shown : Cardinality({s \in Shown : Ahead(s, r)}) = i - 1
  BY <1>2, <1>3
<1> HIDE DEF below
<1>6. \A r \in Shown : Place(r) \in 1 .. Cardinality(Shown)
  BY <1>3, <1>4, ShownFinite
<1>7. ASSUME NEW r \in Shown, NEW s \in Shown, Place(r) = Place(s) PROVE r = s
  <2>1. below(r) \in Int /\ below(s) \in Int BY <1>3
  <2>2. below(r) + 1 = below(s) + 1 BY <1>4, <1>7
  <2>3. ~(below(r) < below(s)) /\ ~(below(s) < below(r)) BY <2>1, <2>2
  <2>4. <<r, s>> \notin R /\ <<s, r>> \notin R BY <1>3, <2>3
  <2> QED BY <1>1, <2>4, AheadIsOrder
<1> QED BY <1>5, <1>6, <1>7

(* The list shows every row in its place, and nothing else.                  *)
LEMMA ListedPlaces ==
    ASSUME Stamped
    PROVE  /\ Listed \in [1 .. Cardinality(Shown) -> Shown]
           /\ \A i \in 1 .. Cardinality(Shown) : Place(Listed[i]) = i
           /\ \A r \in Shown : Listed[Place(r)] = r
<1> DEFINE N == Cardinality(Shown)
           ranked == [i \in 1 .. N |->
             CHOOSE r \in Shown : Cardinality({s \in Shown : Closer(s, r)}) = i - 1]
           newest == [i \in 1 .. N |->
             CHOOSE r \in Shown : Cardinality({s \in Shown : Newer(s, r)}) = i - 1]
<1>1. /\ Listed \in [1 .. N -> Shown]
      /\ \A i \in 1 .. N : /\ Listed[i] \in Shown
                           /\ Cardinality({s \in Shown : Ahead(s, Listed[i])}) = i - 1
  <2>1. CASE list = "knowledge"
    <3>1. Shown = {r \in Live : Similarity[r] >= Threshold} BY <2>1 DEF Shown, InList, Live
    <3>2. Listed = ranked BY <2>1, <3>1 DEF Listed, Ranked, Sorted
    <3>3. \A r \in Shown : {s \in Shown : Ahead(s, r)} = {s \in Shown : Closer(s, r)}
      BY <2>1 DEF Ahead
    <3>4. \A i \in 1 .. N : \E r \in Shown : Cardinality({s \in Shown : Closer(s, r)}) = i - 1
      BY <3>3, ShownPlaces
    <3>5. \A i \in 1 .. N : ranked[i] \in Shown
                            /\ Cardinality({s \in Shown : Closer(s, ranked[i])}) = i - 1
      BY <3>4
    <3>6. ranked \in [1 .. N -> Shown] BY <3>5
    <3> HIDE DEF ranked
    <3> QED BY <3>2, <3>3, <3>5, <3>6
  <2>2. CASE list # "knowledge"
    <3>1. Shown = IF list = "audits" THEN Live \intersect AuditRows ELSE Live
      BY <2>2 DEF Shown, InList, Live
    <3>2. Listed = newest
      <4>1. Listed = Newest(Shown)
        BY <2>2, <3>1 DEF Listed, Recent
      <4> QED BY <4>1 DEF Newest, Sorted
    <3>3. \A r \in Shown : {s \in Shown : Ahead(s, r)} = {s \in Shown : Newer(s, r)}
      BY <2>2 DEF Ahead
    <3>4. \A i \in 1 .. N : \E r \in Shown : Cardinality({s \in Shown : Newer(s, r)}) = i - 1
      BY <3>3, ShownPlaces
    <3>5. \A i \in 1 .. N : newest[i] \in Shown
                            /\ Cardinality({s \in Shown : Newer(s, newest[i])}) = i - 1
      BY <3>4
    <3>6. newest \in [1 .. N -> Shown] BY <3>5
    <3> HIDE DEF newest
    <3> QED BY <3>2, <3>3, <3>5, <3>6
  <2> QED BY <2>1, <2>2
<1> HIDE DEF ranked, newest
<1>4. \A i \in 1 .. N : Place(Listed[i]) = i
  <2>1. ASSUME NEW i \in 1 .. N PROVE Place(Listed[i]) = (i - 1) + 1 BY <1>1 DEF Place
  <2>2. N \in Int BY ShownFinite
  <2> QED BY <2>1, <2>2
<1>5. ASSUME NEW r \in Shown PROVE Listed[Place(r)] = r
  <2>1. Place(r) \in 1 .. N BY ShownPlaces
  <2>2. Listed[Place(r)] \in Shown /\ Place(Listed[Place(r)]) = Place(r) BY <1>1, <1>4, <2>1
  <2> QED BY <2>2, ShownPlaces
<1> QED BY <1>1, <1>4, <1>5

(* A function on 1 .. n is a sequence of length n; the smaller and the larger *)
(* of two numbers.                                                           *)
LEMMA LenOf ==
    ASSUME NEW S, NEW n \in Nat, NEW f \in [1 .. n -> S]
    PROVE  f \in Seq(S) /\ Len(f) = n /\ ToSet(f) = {f[i] : i \in 1 .. n}
<1>1. f \in Seq(S) OBVIOUS
<1>2. Len(f) = n OBVIOUS
<1> QED BY <1>1, <1>2 DEF ToSet

LEMMA MinMax ==
    ASSUME NEW a \in Int, NEW b \in Int
    PROVE  /\ Min({a, b}) = IF a <= b THEN a ELSE b
           /\ Max({a, b}) = IF a <= b THEN b ELSE a
BY DEF Min, Max

(* How many of n rows a page of m from off on has. *)
Taken(n, off, m) == IF n <= off THEN 0 ELSE IF n - off <= m THEN n - off ELSE m

(* The last index of a page.                                                 *)
LEMMA TakenIs ==
    ASSUME NEW n \in Nat, NEW off \in Nat, NEW m \in Nat
    PROVE  Taken(n, off, m) \in Nat /\ 1 .. Min({m, n - off}) = 1 .. Taken(n, off, m)
<1>1. Min({m, n - off}) = IF m <= n - off THEN m ELSE n - off BY MinMax
<1> QED BY <1>1 DEF Taken

PageIs(page, lim, off, k, N) ==
    /\ N \in Nat /\ k \in Nat
    /\ page.items \in [1 .. k -> Shown]
    /\ page.items \in Seq(Rows)
    /\ \A i \in 1 .. k : page.items[i] = Listed[off + i] /\ off + i \in 1 .. N
    /\ page.more <=> N > off + lim

(* What a request for a page is answered. *)
LEMMA PageOf ==
    ASSUME Stamped, NEW lim \in Nat \ {0}, NEW off \in Nat, NEW k, NEW N,
           N = Cardinality(Shown), k = Taken(N, off, lim), NEW page, page = ListPage(lim, off)
    PROVE  PageIs(page, lim, off, k, N)
<1> DEFINE rows == Slice(Listed, off, lim + 1)
           l == Taken(N, off, lim + 1)
<1>1. N \in Nat /\ Shown \subseteq Rows BY ShownFinite
<1>2. Listed \in [1 .. N -> Shown] BY ListedPlaces
<1>3. l \in Nat /\ rows \in [1 .. l -> Shown] /\ \A i \in 1 .. l : rows[i] = Listed[off + i]
  <2>1. Len(Listed) = N BY <1>1, <1>2, LenOf
  <2>2. l \in Nat /\ 1 .. Min({lim + 1, N - off}) = 1 .. l
    <3>1. lim + 1 \in Nat OBVIOUS
    <3> QED BY <1>1, <3>1, TakenIs
  <2>4. rows = [i \in 1 .. l |-> Listed[off + i]] BY <2>1, <2>2 DEF Slice
  <2>3. \A i \in 1 .. l : off + i \in 1 .. N BY <1>1 DEF Taken
  <2> HIDE DEF rows, l
  <2> QED BY <1>2, <2>2, <2>3, <2>4
<1>4. k \in Nat /\ Taken(l, 0, lim) = k BY <1>1 DEF Taken
<1>5. page.items = Slice(rows, 0, lim) /\ page.more = (Len(rows) > lim) BY DEF ListPage
<1>6. Len(rows) = l
  <2> HIDE DEF rows, l
  <2> QED BY <1>3, LenOf
<1>7. Slice(rows, 0, lim) \in [1 .. k -> Shown]
      /\ \A i \in 1 .. k : Slice(rows, 0, lim)[i] = rows[0 + i]
  <2>1. \A i \in 1 .. k : 0 + i \in 1 .. l BY <1>1 DEF Taken
  <2> HIDE DEF rows, l
  <2>2. 1 .. Min({lim, l - 0}) = 1 .. k
    <3>1. 0 \in Nat /\ lim \in Nat OBVIOUS
    <3> QED BY <1>3, <1>4, <3>1, TakenIs
  <2>3. Slice(rows, 0, lim) = [i \in 1 .. k |-> rows[0 + i]] BY <1>6, <2>2 DEF Slice
  <2> QED BY <1>3, <2>1, <2>3
<1>8. \A i \in 1 .. k : i \in 1 .. l /\ 0 + i = i /\ off + i \in 1 .. N BY <1>1 DEF Taken
<1>9. l > lim <=> N > off + lim BY <1>1 DEF Taken
<1>10. page.items \in Seq(Rows)
  <2>1. page.items \in [1 .. k -> Rows] BY <1>1, <1>5, <1>7
  <2> QED BY <1>4, <2>1, LenOf
<1> HIDE DEF rows, l
<1> QED BY <1>1, <1>3, <1>4, <1>5, <1>6, <1>7, <1>8, <1>9, <1>10 DEF PageIs

(* What a client may ask for is a positive limit or refused. *)
LEMMA LimitsPositive == \A asked \in Asked : Limits(asked) \subseteq Nat \ {0}
<1>1. ASSUME NEW asked \in Asked PROVE RunLimits(asked) \subseteq Nat \ {0}
  <2>1. Min({DefaultPage, MaxRunPage}) \in Nat \ {0} BY MinMax
  <2>2. 1 .. MaxRunPage \subseteq Nat \ {0} OBVIOUS
  <2> QED BY <2>1, <2>2 DEF RunLimits
<1>2. ASSUME NEW asked \in Asked PROVE PageBounds(asked) \in Nat \ {0}
  <2>1. CASE asked = NoLimit \/ asked = 0
    <3>1. Min({DefaultPage, MaxPage}) \in Nat \ {0} BY MinMax
    <3> QED BY <2>1, <3>1 DEF PageBounds
  <2>2. CASE ~(asked = NoLimit \/ asked = 0)
    <3>1. asked \in Int BY <2>2
    <3>2. Min({asked, MaxPage}) \in Int BY <3>1, MinMax
    <3>3. Max({1, Min({asked, MaxPage})}) \in Nat \ {0}
      <4> DEFINE m == Min({asked, MaxPage})
      <4>1. m \in Int BY <3>2
      <4> HIDE DEF m
      <4>0. 1 \in Int OBVIOUS
      <4>2. Max({1, m}) = IF 1 <= m THEN m ELSE 1 BY <4>0, <4>1, MinMax
      <4>3. Max({1, m}) \in Nat \ {0} BY <4>1, <4>2
      <4> QED BY <4>3 DEF m
    <3> QED BY <2>2, <3>3 DEF PageBounds
  <2> QED BY <2>1, <2>2
<1> QED BY <1>1, <1>2 DEF Limits

(* A walk under way, and one that has ended. *)
WalkUnderWay(w) ==
    /\ walk[w].limit \in Nat \ {0}
    /\ ~walk[w].went =>
         \A r \in walk[w].steady \intersect InList :
            r \in ToSet(walk[w].seen) \/ Place(r) > walk[w].offset
    /\ ~walk[w].came =>
         /\ IsInjective(walk[w].seen)
         /\ \A r \in ToSet(walk[w].seen) \intersect Shown : Place(r) <= walk[w].offset
    /\ ~walk[w].went /\ ~walk[w].came =>
         /\ Len(walk[w].seen) = walk[w].offset /\ walk[w].offset <= Cardinality(Shown)
         /\ \A i \in 1 .. walk[w].offset :
              walk[w].seen[i] \in Shown /\ Place(walk[w].seen[i]) = i

WalkOver(w) ==
    /\ ~walk[w].went => walk[w].steady \intersect InList \subseteq ToSet(walk[w].seen)
    /\ ~walk[w].came => IsInjective(walk[w].seen)
    /\ ~walk[w].went /\ ~walk[w].came =>
         /\ Len(walk[w].seen) = Cardinality(Shown)
         /\ \A i \in 1 .. Cardinality(Shown) :
              walk[w].seen[i] \in Shown /\ Place(walk[w].seen[i]) = i

WalkInv(w) ==
    /\ walk[w].steady \subseteq Live
    /\ walk[w].step = "pages" => WalkUnderWay(w)
    /\ walk[w].step = "done" => WalkOver(w)

WalkType ==
  [step : {"idle", "pages", "done", "refused"}, limit : Nat, offset : Nat,
   seen : Seq(Rows), steady : SUBSET Rows, came : BOOLEAN, went : BOOLEAN]

ListInv ==
    /\ Stamped
    /\ walk \in [Walkers -> WalkType]
    /\ \A w \in Walkers : WalkInv(w)

(* What is used of sequences.                                                *)
LEMMA SeqFacts ==
    ASSUME NEW S, NEW s \in Seq(S)
    PROVE  /\ Len(s) \in Nat
           /\ DOMAIN s = 1 .. Len(s)
           /\ \A i \in 1 .. Len(s) : s[i] \in S
<1>1. Len(s) \in Nat OBVIOUS
<1>2. DOMAIN s = 1 .. Len(s) OBVIOUS
<1>3. \A i \in 1 .. Len(s) : s[i] \in S OBVIOUS
<1> QED BY <1>1, <1>2, <1>3

LEMMA MembersOf ==
    ASSUME NEW S, NEW s \in Seq(S)
    PROVE  \A r : r \in ToSet(s) <=> \E i \in 1 .. Len(s) : r = s[i]
<1>1. DOMAIN s = 1 .. Len(s) OBVIOUS
<1>2. ASSUME NEW r PROVE r \in ToSet(s) <=> \E i \in 1 .. Len(s) : r = s[i]
  BY <1>1 DEF ToSet
<1> QED BY <1>2

(* What the invariant says of a walk that has ended is that it is whole.     *)
LEMMA WholeWalks ==
    ASSUME ListInv, NEW w \in Walkers PROVE WalkIsWhole(w)
<1> DEFINE s == walk[w].seen
           N == Cardinality(Shown)
<1>1. s \in Seq(Rows) BY DEF ListInv, WalkType
<1>2. ASSUME Len(s) = N, \A i \in 1 .. N : s[i] \in Shown /\ Place(s[i]) = i
      PROVE  s = Listed
  <2>1. Listed \in [1 .. N -> Shown] BY ListedPlaces DEF ListInv
  <2>2. \A i \in 1 .. N : Listed[i] = s[i] BY <1>2, <2>1, ListedPlaces DEF ListInv
  <2> HIDE DEF s, N
  <2>3. s \in [1 .. N -> Rows] BY <1>1, <1>2
  <2>4. \A i \in DOMAIN s : Listed[i] = s[i] BY <2>2, <2>3
  <2>5. DOMAIN Listed = 1 .. N BY <2>1
  <2>6. Listed = [i \in 1 .. N |-> Listed[i]] /\ s = [i \in 1 .. N |-> s[i]] BY <2>1, <2>3
  <2> QED BY <2>2, <2>6
<1> QED BY <1>2 DEF ListInv, WalkInv, WalkOver, WalkIsWhole

(* Rows that come or go move the places of the others one way. *)
LEMMA PlaceMoves ==
    ASSUME NEW S, NEW T, IsFiniteSet(T), S \subseteq T
    PROVE  Cardinality(S) + 1 <= Cardinality(T) + 1 /\ Cardinality(S) + 1 \in Int
<1>1. S \in SUBSET T OBVIOUS
<1>2. IsFiniteSet(S) /\ Cardinality(S) <= Cardinality(T) BY <1>1, FS_Subset
<1> QED BY <1>2, FS_CardinalityType

(* There are no more transactions than rows.                                 *)
LEMMA StartedFinite ==
    /\ IsFiniteSet(Started) /\ Cardinality(Started) \in Nat
    /\ Cardinality(Started) <= Cardinality(Rows)
<1>1. Started \in SUBSET Rows BY DEF Started
<1> QED BY <1>1, FS_Subset, FS_CardinalityType

(* A transaction that begins takes the next stamp and shows nothing yet.     *)
LEMMA BeginInsertKeeps ==
    ASSUME Stamped, NEW r \in Rows, BeginInsert(r)
    PROVE  /\ Stamped'
           /\ Cardinality(Started') = Cardinality(Started) + 1
           /\ Shown' = Shown /\ Live' = Live /\ InList' = InList
           /\ \A s \in Shown : Place(s)' = Place(s)
<1> DEFINE n == Cardinality(Started)
<1>1. n \in Nat BY StartedFinite
<1>2. stamp' = [stamp EXCEPT ![r] = n + 1] /\ stamp[r] = 0 /\ list' = list /\ entry' = entry
  BY DEF BeginInsert, Started
<1>3. stamp' \in [Rows -> Nat] /\ stamp'[r] = n + 1 /\ \A s \in Rows \ {r} : stamp'[s] = stamp[s]
  BY <1>1, <1>2 DEF Stamped
<1>4. Cardinality(Started') = n + 1
  <2>1. Started' = Started \union {r} BY <1>1, <1>2, <1>3 DEF Started
  <2>2. r \notin Started BY <1>2 DEF Started
  <2> QED BY <2>1, <2>2, StartedFinite, FS_AddElement
<1>5. \A s, q \in Rows : s # q /\ stamp'[s] # 0 => stamp'[s] # stamp'[q]
  BY <1>1, <1>3 DEF Stamped
<1>6. \A s \in Rows : stamp'[s] <= n + 1 BY <1>1, <1>3 DEF Stamped
<1>7. \A s \in Rows : entry'[s] # "absent" => stamp'[s] # 0 BY <1>1, <1>2, <1>3 DEF Stamped
<1>8. Stamped'
  <2> HIDE DEF n
  <2> QED BY <1>2, <1>3, <1>4, <1>5, <1>6, <1>7 DEF Stamped
<1>9. Shown' = Shown /\ Live' = Live /\ InList' = InList BY <1>2 DEF Shown, Live, InList
<1>10. \A s \in Shown : s \in Rows \ {r} BY <1>2 DEF Shown, InList, Stamped
<1>11. ASSUME NEW s \in Shown PROVE Place(s)' = Place(s)
  <2>1. \A q \in Shown : Ahead(q, s)' <=> Ahead(q, s)
    BY <1>2, <1>3, <1>10 DEF Ahead, Closer, Newer
  <2>2. {q \in Shown' : Ahead(q, s)'} = {q \in Shown : Ahead(q, s)} BY <1>9, <2>1
  <2> QED BY <2>2 DEF Place
<1> QED BY <1>4, <1>8, <1>9, <1>11

(* A row that comes moves the others back, or leaves them where they are.    *)
LEMMA CommitInsertKeeps ==
    ASSUME Stamped, NEW r \in Rows, CommitInsert(r)
    PROVE  /\ Stamped'
           /\ Live \subseteq Live' /\ Shown \subseteq Shown' /\ InList' = InList
           /\ \A s \in Shown : Place(s)' >= Place(s) /\ Place(s)' \in Int /\ Place(s) \in Int
<1>1. /\ stamp' = stamp /\ list' = list /\ stamp[r] # 0
      /\ entry' = [entry EXCEPT ![r] = "live"]
  BY DEF CommitInsert
<1>2. Stamped' BY <1>1 DEF Stamped, Started
<1>3. Live \subseteq Live' /\ Shown \subseteq Shown' /\ InList' = InList
  BY <1>1 DEF Live, Shown, InList
<1>4. ASSUME NEW s \in Shown
      PROVE  Place(s)' >= Place(s) /\ Place(s)' \in Int /\ Place(s) \in Int
  <2> DEFINE A == {q \in Shown : Ahead(q, s)}
             B == {q \in Shown' : Ahead(q, s)'}
  <2>1. A \subseteq B BY <1>1, <1>3 DEF Ahead, Closer, Newer
  <2>2. IsFiniteSet(B)
    <3>1. B \in SUBSET Rows BY DEF Shown, InList
    <3> QED BY <3>1, FS_Subset
  <2>3. Place(s) = Cardinality(A) + 1 /\ Place(s)' = Cardinality(B) + 1 BY DEF Place
  <2> HIDE DEF A, B
  <2>4. Cardinality(A) + 1 <= Cardinality(B) + 1 /\ Cardinality(A) + 1 \in Int
    BY <2>1, <2>2, PlaceMoves
  <2>5. Cardinality(B) + 1 \in Int BY <2>2, PlaceMoves
  <2> QED BY <2>3, <2>4, <2>5
<1> QED BY <1>2, <1>3, <1>4

(* A row that goes lets the others move up, or leaves them where they are.   *)
LEMMA RemoveRowKeeps ==
    ASSUME Stamped, NEW r \in Rows, RemoveRow(r)
    PROVE  /\ Stamped'
           /\ Live' = Live \ {r} /\ Shown' \subseteq Shown /\ InList' = InList
           /\ \A s \in Shown' : Place(s)' <= Place(s) /\ Place(s)' \in Int /\ Place(s) \in Int
<1>1. /\ stamp' = stamp /\ list' = list /\ entry[r] = "live"
      /\ entry' = [entry EXCEPT ![r] = "deleted"]
      /\ entry \in [Rows -> {"absent", "live", "deleted"}]
  BY DEF RemoveRow, Stamped
<1>2. Stamped' BY <1>1 DEF Stamped, Started
<1>3. Live' = Live \ {r} /\ Shown' \subseteq Shown /\ InList' = InList
  BY <1>1 DEF Live, Shown, InList
<1>4. ASSUME NEW s \in Shown'
      PROVE  Place(s)' <= Place(s) /\ Place(s)' \in Int /\ Place(s) \in Int
  <2> DEFINE A == {q \in Shown : Ahead(q, s)}
             B == {q \in Shown' : Ahead(q, s)'}
  <2>1. B \subseteq A BY <1>1, <1>3 DEF Ahead, Closer, Newer
  <2>2. IsFiniteSet(A)
    <3>1. A \in SUBSET Rows BY DEF Shown, InList
    <3> QED BY <3>1, FS_Subset
  <2>3. Place(s) = Cardinality(A) + 1 /\ Place(s)' = Cardinality(B) + 1 BY DEF Place
  <2> HIDE DEF A, B
  <2>4. Cardinality(B) + 1 <= Cardinality(A) + 1 /\ Cardinality(B) + 1 \in Int
    BY <2>1, <2>2, PlaceMoves
  <2>5. Cardinality(A) + 1 \in Int BY <2>2, PlaceMoves
  <2> QED BY <2>3, <2>4, <2>5
<1> QED BY <1>2, <1>3, <1>4

(* The invariant of the walks is kept by every write,                        *)
LEMMA WritesKeepWalks ==
    ASSUME ListInv, NEW r \in Rows, BeginInsert(r) \/ CommitInsert(r) \/ RemoveRow(r)
    PROVE  ListInv'
<1>0. Stamped /\ walk \in [Walkers -> WalkType] BY DEF ListInv
<1>1. CASE BeginInsert(r)
  <2>1. walk' = walk BY <1>1 DEF BeginInsert
  <2>2. /\ Stamped' /\ Shown' = Shown /\ Live' = Live /\ InList' = InList
        /\ \A s \in Shown : Place(s)' = Place(s)
    BY <1>0, <1>1, BeginInsertKeeps
  <2>3. ASSUME NEW w \in Walkers PROVE WalkInv(w)'
    <3>1. WalkInv(w) BY DEF ListInv
    <3>2. \A s \in walk[w].steady \intersect InList : s \in Shown
      BY <3>1 DEF WalkInv, Live, Shown
    <3>3. WalkUnderWay(w) => WalkUnderWay(w)' BY <2>1, <2>2, <3>2 DEF WalkUnderWay
    <3>4. WalkOver(w) => WalkOver(w)' BY <2>1, <2>2 DEF WalkOver
    <3> QED BY <2>1, <2>2, <3>1, <3>3, <3>4 DEF WalkInv
  <2> QED BY <1>0, <2>1, <2>2, <2>3 DEF ListInv
<1>2. CASE CommitInsert(r)
  <2>1. walk' = [w \in Walkers |-> [walk[w] EXCEPT !.came = TRUE]] BY <1>2 DEF CommitInsert
  <2>2. /\ Stamped' /\ Live \subseteq Live' /\ InList' = InList
        /\ \A s \in Shown : Place(s)' >= Place(s) /\ Place(s)' \in Int /\ Place(s) \in Int
    BY <1>0, <1>2, CommitInsertKeeps
  <2>3. ASSUME NEW w \in Walkers PROVE WalkInv(w)' /\ walk'[w] \in WalkType
    <3>1. WalkInv(w) BY DEF ListInv
    <3>2. /\ walk'[w] = [walk[w] EXCEPT !.came = TRUE] /\ walk[w] \in WalkType
      BY <1>0, <2>1
    <3>3. /\ walk'[w].came /\ walk'[w].went = walk[w].went /\ walk'[w].step = walk[w].step
          /\ walk'[w].limit = walk[w].limit /\ walk'[w].offset = walk[w].offset
          /\ walk'[w].seen = walk[w].seen /\ walk'[w].steady = walk[w].steady
          /\ walk[w].offset \in Nat
      BY <3>2 DEF WalkType
    <3>4. walk'[w] \in WalkType BY <3>2 DEF WalkType
    <3>5. \A s \in walk[w].steady \intersect InList : s \in Shown
      BY <3>1 DEF WalkInv, Live, Shown
    <3>6. ASSUME WalkUnderWay(w), ~walk[w].went, NEW s \in walk[w].steady \intersect InList
          PROVE  s \in ToSet(walk[w].seen) \/ Place(s)' > walk[w].offset
      <4>1. s \in ToSet(walk[w].seen) \/ Place(s) > walk[w].offset BY <3>6 DEF WalkUnderWay
      <4>2. Place(s)' >= Place(s) /\ Place(s)' \in Int /\ Place(s) \in Int BY <2>2, <3>5
      <4>3. walk[w].offset \in Nat BY <3>3
      <4> QED BY <4>1, <4>2, <4>3
    <3>7. WalkUnderWay(w) => WalkUnderWay(w)'
      BY <2>2, <3>3, <3>6 DEF WalkUnderWay
    <3>8. WalkOver(w) => WalkOver(w)' BY <2>2, <3>3 DEF WalkOver
    <3> QED BY <2>2, <3>1, <3>3, <3>4, <3>7, <3>8 DEF WalkInv
  <2> QED BY <2>1, <2>2, <2>3 DEF ListInv
<1>3. CASE RemoveRow(r)
  <2>1. walk' = [w \in Walkers |-> [walk[w] EXCEPT !.went = TRUE, !.steady = @ \ {r}]]
    BY <1>3 DEF RemoveRow
  <2>2. /\ Stamped' /\ Live' = Live \ {r} /\ Shown' \subseteq Shown /\ InList' = InList
        /\ \A s \in Shown' : Place(s)' <= Place(s) /\ Place(s)' \in Int /\ Place(s) \in Int
    BY <1>0, <1>3, RemoveRowKeeps
  <2>3. ASSUME NEW w \in Walkers PROVE WalkInv(w)' /\ walk'[w] \in WalkType
    <3>1. WalkInv(w) BY DEF ListInv
    <3>2. /\ walk'[w] = [walk[w] EXCEPT !.went = TRUE, !.steady = @ \ {r}]
          /\ walk[w] \in WalkType
      BY <1>0, <2>1
    <3>3. /\ walk'[w].went /\ walk'[w].came = walk[w].came /\ walk'[w].step = walk[w].step
          /\ walk'[w].limit = walk[w].limit /\ walk'[w].offset = walk[w].offset
          /\ walk'[w].seen = walk[w].seen /\ walk'[w].steady = walk[w].steady \ {r}
          /\ walk[w].offset \in Nat
      BY <3>2 DEF WalkType
    <3>4. walk'[w] \in WalkType BY <3>2 DEF WalkType
    <3>5. ASSUME WalkUnderWay(w), ~walk[w].came, NEW s \in ToSet(walk[w].seen) \intersect Shown'
          PROVE  Place(s)' <= walk[w].offset
      <4>1. Place(s) <= walk[w].offset BY <2>2, <3>5 DEF WalkUnderWay
      <4>2. Place(s)' <= Place(s) /\ Place(s)' \in Int /\ Place(s) \in Int BY <2>2
      <4>3. walk[w].offset \in Nat BY <3>3
      <4> QED BY <4>1, <4>2, <4>3
    <3>6. WalkUnderWay(w) => WalkUnderWay(w)'
      BY <2>2, <3>3, <3>5 DEF WalkUnderWay
    <3>7. WalkOver(w) => WalkOver(w)' BY <2>2, <3>3 DEF WalkOver
    <3> QED BY <2>2, <3>1, <3>3, <3>4, <3>6, <3>7 DEF WalkInv
  <2> QED BY <2>1, <2>2, <2>3 DEF ListInv
<1> QED BY <1>1, <1>2, <1>3

(* by the first request of a walk,                                           *)
LEMMA NoWalkType == NoWalk \in WalkType
<1>1. <<>> \in Seq(Rows) OBVIOUS
<1> QED BY <1>1 DEF NoWalk, WalkType

LEMMA StartWalkKeeps ==
    ASSUME ListInv, NEW w \in Walkers, NEW asked \in Asked, StartWalk(w, asked)
    PROVE  ListInv'
<1>0. Stamped /\ walk \in [Walkers -> WalkType] /\ (\A u \in Walkers : WalkInv(u))
  BY DEF ListInv
<1>1. list' = list /\ stamp' = stamp /\ entry' = entry BY DEF StartWalk
<1>2. /\ Stamped' /\ Live' = Live /\ Shown' = Shown /\ InList' = InList
      /\ \A s \in Rows : Place(s)' = Place(s)
  BY <1>0, <1>1
     DEF Stamped, Started, Live, Shown, InList, Place, Ahead, Closer, Newer
<1>3. /\ \A u \in Walkers \ {w} : walk'[u] = walk[u]
      /\ walk' \in [Walkers -> WalkType]
      /\ \/ walk'[w] = [NoWalk EXCEPT !.step = "refused"]
         \/ \E lim \in Limits(asked) :
              walk'[w] = [NoWalk EXCEPT !.step = "pages", !.limit = lim, !.steady = Live]
  <2>1. CASE Limits(asked) = {}
    <3>1. walk' = [walk EXCEPT ![w] = [NoWalk EXCEPT !.step = "refused"]]
      BY <2>1 DEF StartWalk
    <3>2. [NoWalk EXCEPT !.step = "refused"] \in WalkType
      BY NoWalkType DEF WalkType
    <3> QED BY <1>0, <3>1, <3>2
  <2>2. CASE Limits(asked) # {}
    <3>1. PICK lim \in Limits(asked) :
            walk' = [walk EXCEPT ![w] =
                       [NoWalk EXCEPT !.step = "pages", !.limit = lim, !.steady = Live]]
      BY <2>2 DEF StartWalk
    <3>2. [NoWalk EXCEPT !.step = "pages", !.limit = lim, !.steady = Live] \in WalkType
      <4>1. lim \in Nat /\ Live \subseteq Rows BY LimitsPositive DEF Live
      <4> QED BY <4>1, NoWalkType DEF WalkType
    <3> QED BY <1>0, <3>1, <3>2
  <2> QED BY <2>1, <2>2
<1>4. ASSUME NEW u \in Walkers \ {w} PROVE WalkInv(u)'
  <2>1. WalkInv(u) /\ walk'[u] = walk[u] BY <1>0, <1>3
  <2>2. walk[u].steady \intersect InList \subseteq Rows BY DEF InList
  <2>3. Shown \subseteq Rows BY DEF Shown, InList
  <2>4. WalkUnderWay(u) => WalkUnderWay(u)' BY <1>2, <2>1, <2>2, <2>3 DEF WalkUnderWay
  <2>5. WalkOver(u) => WalkOver(u)' BY <1>2, <2>1, <2>3 DEF WalkOver
  <2> QED BY <1>2, <2>1, <2>4, <2>5 DEF WalkInv
<1>5. WalkInv(w)'
  <2>1. CASE walk'[w] = [NoWalk EXCEPT !.step = "refused"]
    <3>1. walk'[w].step = "refused" /\ walk'[w].steady = {} BY <2>1 DEF NoWalk
    <3> QED BY <3>1 DEF WalkInv
  <2>2. ASSUME NEW lim \in Limits(asked),
               walk'[w] = [NoWalk EXCEPT !.step = "pages", !.limit = lim, !.steady = Live]
        PROVE  WalkInv(w)'
    <3>1. /\ walk'[w].step = "pages" /\ walk'[w].steady = Live /\ walk'[w].limit = lim
          /\ walk'[w].offset = 0 /\ walk'[w].seen = <<>>
      BY <2>2 DEF NoWalk
    <3>2. lim \in Nat \ {0} BY LimitsPositive
    <3>3. \A s \in Live \intersect InList : Place(s)' > 0
      <4>1. \A s \in Shown : Place(s) \in 1 .. Cardinality(Shown) BY <1>0, ShownPlaces
      <4>2. \A s \in Live \intersect InList : s \in Shown /\ s \in Rows BY DEF Live, Shown
      <4>3. Cardinality(Shown) \in Nat BY ShownFinite
      <4> QED BY <1>2, <4>1, <4>2, <4>3
    <3>4. IsInjective(<<>>) /\ ToSet(<<>>) = {} BY DEF IsInjective, ToSet
    <3>5. Cardinality(Shown) >= 0 BY ShownFinite
    <3>6. WalkUnderWay(w)' BY <1>2, <3>1, <3>2, <3>3, <3>4, <3>5 DEF WalkUnderWay
    <3> QED BY <1>2, <3>1, <3>6 DEF WalkInv
  <2> QED BY <1>3, <2>1, <2>2
<1> QED BY <1>2, <1>3, <1>4, <1>5 DEF ListInv

(* u is s followed by t. *)
Follows(u, s, t) ==
    /\ Len(s) \in Nat /\ Len(t) \in Nat /\ Len(u) = Len(s) + Len(t)
    /\ \A i \in 1 .. Len(s) : u[i] = s[i]
    /\ \A i \in 1 .. Len(t) : u[Len(s) + i] = t[i]
    /\ \A i \in 1 .. Len(u) : i \in 1 .. Len(s) \/ \E j \in 1 .. Len(t) : i = Len(s) + j

(* What concatenation does, as an operator that SMT can match.               *)
LEMMA Joined ==
    ASSUME NEW S, NEW s \in Seq(S), NEW t \in Seq(S)
    PROVE  s \o t \in Seq(S) /\ Follows(s \o t, s, t)
<1>1. Len(s) \in Nat /\ Len(t) \in Nat OBVIOUS
<1>2. s \o t \in Seq(S) /\ Len(s \o t) = Len(s) + Len(t) OBVIOUS
<1>3. \A i \in 1 .. Len(s) : (s \o t)[i] = s[i] OBVIOUS
<1>4. \A i \in 1 .. Len(t) : (s \o t)[Len(s) + i] = t[i] OBVIOUS
<1>5. ASSUME NEW i \in 1 .. Len(s \o t), i \notin 1 .. Len(s)
      PROVE  \E j \in 1 .. Len(t) : i = Len(s) + j
  <2>1. i - Len(s) \in 1 .. Len(t) /\ i = Len(s) + (i - Len(s)) BY <1>1, <1>2, <1>5
  <2> QED BY <2>1
<1> QED BY <1>1, <1>2, <1>3, <1>4, <1>5 DEF Follows

(* and by the request for a page.  A row not seen before the page, in a place *)
(* behind the offset, is on the page or behind the next offset; the rows of the *)
(* page were not seen before, unless rows came and pushed them back.         *)
LEMMA NextPageKeeps ==
    ASSUME ListInv, NEW w \in Walkers, NextPage(w)
    PROVE  ListInv'
<1> DEFINE s == walk[w].seen
           off == walk[w].offset
           lim == walk[w].limit
           N == Cardinality(Shown)
           k == Taken(N, off, lim)
           page == ListPage(lim, off)
           items == page.items
           t == s \o items
<1>0. Stamped /\ walk \in [Walkers -> WalkType] /\ (\A u \in Walkers : WalkInv(u))
  BY DEF ListInv
<1>1. list' = list /\ stamp' = stamp /\ entry' = entry BY DEF NextPage
<1>2. /\ Stamped' /\ Live' = Live /\ Shown' = Shown /\ InList' = InList
      /\ \A r \in Rows : Place(r)' = Place(r)
  BY <1>0, <1>1
     DEF Stamped, Started, Live, Shown, InList, Place, Ahead, Closer, Newer
<1>3. /\ walk[w].step = "pages" /\ WalkUnderWay(w) /\ walk[w].steady \subseteq Live
      /\ walk[w] \in WalkType
  BY <1>0 DEF NextPage, WalkInv
<1>4. lim \in Nat \ {0} /\ off \in Nat /\ s \in Seq(Rows)
  BY <1>3 DEF WalkUnderWay, WalkType
<1>5. walk' = [walk EXCEPT ![w].seen = t, ![w].offset = off + lim,
                           ![w].step = IF page.more THEN "pages" ELSE "done"]
  BY DEF NextPage
<1>6. /\ N \in Nat /\ k \in Nat /\ items \in [1 .. k -> Shown] /\ items \in Seq(Rows)
      /\ \A i \in 1 .. k : items[i] = Listed[off + i] /\ off + i \in 1 .. N
      /\ page.more <=> N > off + lim
  <2>1. N = Cardinality(Shown) /\ k = Taken(N, off, lim) /\ page = ListPage(lim, off) OBVIOUS
  <2> HIDE DEF N, k, page, lim, off
  <2>2. lim \in Nat \ {0} /\ off \in Nat /\ Stamped BY <1>0, <1>4
  <2>3. PageIs(page, lim, off, k, N) BY <2>1, <2>2, PageOf
  <2> QED BY <2>3 DEF PageIs
<1>7. \A i \in 1 .. k : items[i] \in Shown /\ Place(items[i]) = off + i
  BY <1>0, <1>6, ListedPlaces
<1>8. k <= lim /\ (N > off + lim => k = lim) /\ (N <= off + lim /\ off <= N => off + k = N)
  BY <1>4, <1>6 DEF Taken
<1>9. ASSUME NEW r \in Shown, Place(r) > off, ~(Place(r) > off + lim)
      PROVE  \E i \in 1 .. k : r = items[i]
  <2>1. Place(r) \in 1 .. N /\ Listed[Place(r)] = r BY <1>0, ShownPlaces, ListedPlaces
  <2>2. Place(r) - off \in 1 .. k BY <1>4, <1>6, <1>9, <2>1 DEF Taken
  <2>3. off + (Place(r) - off) = Place(r) BY <1>4, <1>6, <2>1
  <2>4. items[Place(r) - off] = Listed[Place(r)] BY <1>6, <2>2, <2>3
  <2> QED BY <2>1, <2>2, <2>4
<1>10. Len(items) = k BY <1>6, LenOf
<1>11. /\ walk' \in [Walkers -> WalkType]
       /\ \A u \in Walkers \ {w} : walk'[u] = walk[u]
       /\ walk'[w].seen = t /\ walk'[w].offset = off + lim /\ walk'[w].limit = lim
       /\ walk'[w].steady = walk[w].steady
       /\ walk'[w].came = walk[w].came /\ walk'[w].went = walk[w].went
       /\ walk'[w].step = IF page.more THEN "pages" ELSE "done"
  <2>1. t \in Seq(Rows) BY <1>4, <1>6, Joined
  <2>2. off + lim \in Nat BY <1>4
  <2>3. walk[w] \in WalkType BY <1>3
  <2> HIDE DEF t, off, lim, page
  <2>4. walk' \in [Walkers -> WalkType] BY <1>0, <1>5, <2>1, <2>2, <2>3 DEF WalkType
  <2> QED BY <1>0, <1>5, <2>3, <2>4 DEF WalkType, lim
<1> HIDE DEF s, off, lim, N, k, page, items, t
<1>12. ASSUME NEW u \in Walkers \ {w} PROVE WalkInv(u)'
  <2>1. WalkInv(u) /\ walk'[u] = walk[u] BY <1>0, <1>11
  <2>2. walk[u].steady \intersect InList \subseteq Rows BY DEF InList
  <2>3. Shown \subseteq Rows BY DEF Shown, InList
  <2>4. WalkUnderWay(u) => WalkUnderWay(u)' BY <1>2, <2>1, <2>2, <2>3 DEF WalkUnderWay
  <2>5. WalkOver(u) => WalkOver(u)' BY <1>2, <2>1, <2>3 DEF WalkOver
  <2> QED BY <1>2, <2>1, <2>4, <2>5 DEF WalkInv
<1>13. /\ t \in Seq(Rows) /\ Len(s) \in Nat /\ Len(t) = Len(s) + k
       /\ \A i \in 1 .. Len(s) : t[i] = s[i]
       /\ \A i \in 1 .. k : t[Len(s) + i] = items[i]
       /\ \A i \in 1 .. Len(t) : i \in 1 .. Len(s) \/ \E j \in 1 .. k : i = Len(s) + j
  <2>1. t \in Seq(Rows) /\ Follows(t, s, items) BY <1>4, <1>6, Joined DEF t
  <2> QED BY <1>10, <2>1 DEF Follows
<1>14. \A r : r \in ToSet(t) <=> r \in ToSet(s) \/ \E i \in 1 .. k : r = items[i]
  <2>1. \A r : r \in ToSet(t) <=> \E i \in 1 .. Len(t) : r = t[i] BY <1>13, MembersOf
  <2>2. \A r : r \in ToSet(s) <=> \E i \in 1 .. Len(s) : r = s[i] BY <1>4, MembersOf
  <2>3. ASSUME NEW r, r \in ToSet(t)
        PROVE  r \in ToSet(s) \/ \E i \in 1 .. k : r = items[i]
    <3>1. PICK i \in 1 .. Len(t) : r = t[i] BY <2>1, <2>3
    <3>2. CASE i \in 1 .. Len(s) BY <1>13, <2>2, <3>1, <3>2
    <3>3. CASE \E j \in 1 .. k : i = Len(s) + j BY <1>13, <3>1, <3>3
    <3> QED BY <1>13, <3>2, <3>3
  <2>4. \A i \in 1 .. Len(s) : i \in 1 .. Len(t) BY <1>6, <1>13
  <2>5. \A j \in 1 .. k : Len(s) + j \in 1 .. Len(t) BY <1>6, <1>13
  <2>6. ASSUME NEW r, r \in ToSet(s) PROVE r \in ToSet(t)
    BY <1>13, <2>1, <2>2, <2>4, <2>6
  <2>7. ASSUME NEW i \in 1 .. k PROVE items[i] \in ToSet(t) BY <1>13, <2>1, <2>5
  <2> QED BY <2>3, <2>6, <2>7
<1>15. /\ ~walk[w].went => \A r \in walk[w].steady \intersect InList :
                             r \in ToSet(s) \/ Place(r) > off
       /\ ~walk[w].came => /\ IsInjective(s)
                           /\ \A r \in ToSet(s) \intersect Shown : Place(r) <= off
       /\ ~walk[w].went /\ ~walk[w].came =>
            /\ Len(s) = off /\ off <= N
            /\ \A i \in 1 .. off : s[i] \in Shown /\ Place(s[i]) = i
  BY <1>3 DEF WalkUnderWay, s, off, N
<1>16. \A r \in Shown : r \in Rows /\ Place(r) \in 1 .. N BY <1>0, ShownPlaces, ShownFinite DEF N
<1>17. ASSUME ~walk[w].went, NEW r \in walk[w].steady \intersect InList
       PROVE  r \in Shown /\ (r \in ToSet(t) \/ Place(r) > off + lim)
  <2>1. r \in Shown BY <1>3 DEF Live, Shown
  <2> QED BY <1>9, <1>14, <1>15, <1>17, <2>1
<1>18. ASSUME ~walk[w].came
       PROVE  /\ IsInjective(t)
              /\ \A r \in ToSet(t) \intersect Shown : Place(r) <= off + lim
  <2>1. ASSUME NEW i \in 1 .. Len(t), NEW j \in 1 .. Len(t), t[i] = t[j] PROVE i = j
    <3>1. CASE i \in 1 .. Len(s) /\ j \in 1 .. Len(s)
      <4>1. DOMAIN s = 1 .. Len(s) BY <1>4, SeqFacts
      <4> QED BY <1>13, <1>15, <1>18, <2>1, <3>1, <4>1 DEF IsInjective
    <3>2. ASSUME NEW a \in 1 .. Len(s), NEW b \in 1 .. k PROVE s[a] # items[b]
      <4>1. s[a] \in ToSet(s) BY <1>4, MembersOf
      <4>2. items[b] \in Shown /\ Place(items[b]) = off + b BY <1>7
      <4>3. ~(off + b <= off) BY <1>4, <1>6
      <4> QED BY <1>15, <1>18, <4>1, <4>2, <4>3
    <3>3. ASSUME NEW a \in 1 .. k, NEW b \in 1 .. k, items[a] = items[b] PROVE a = b
      <4>1. off + a = off + b BY <1>7, <3>3
      <4> QED BY <1>4, <1>6, <4>1
    <3>4. CASE \E a \in 1 .. k : i = Len(s) + a
      <4>1. PICK a \in 1 .. k : i = Len(s) + a BY <3>4
      <4>2. t[i] = items[a] BY <1>13, <4>1
      <4>3. CASE j \in 1 .. Len(s) BY <1>13, <2>1, <3>2, <4>2, <4>3
      <4>4. CASE \E b \in 1 .. k : j = Len(s) + b BY <1>13, <2>1, <3>3, <4>1, <4>2, <4>4
      <4> QED BY <1>13, <4>3, <4>4
    <3>5. CASE i \in 1 .. Len(s) /\ \E b \in 1 .. k : j = Len(s) + b
      BY <1>13, <2>1, <3>2, <3>5
    <3> QED BY <1>13, <3>1, <3>4, <3>5
  <2>2. DOMAIN t = 1 .. Len(t) BY <1>13, SeqFacts
  <2>3. IsInjective(t) BY <2>1, <2>2 DEF IsInjective
  <2>4. ASSUME NEW r \in ToSet(t) \intersect Shown PROVE Place(r) <= off + lim
    <3>1. CASE r \in ToSet(s) BY <1>4, <1>15, <1>16, <1>18, <3>1
    <3>2. CASE \E i \in 1 .. k : r = items[i]
      <4>1. PICK i \in 1 .. k : r = items[i] BY <3>2
      <4>2. Place(r) = off + i BY <1>7, <4>1
      <4> QED BY <1>4, <1>6, <1>8, <4>2
    <3> QED BY <1>14, <3>1, <3>2
  <2> QED BY <2>3, <2>4
<1>19. ASSUME ~walk[w].went, ~walk[w].came
       PROVE  /\ Len(t) = off + k /\ off <= N
              /\ \A i \in 1 .. off + k : t[i] \in Shown /\ Place(t[i]) = i
  <2>1. Len(s) = off /\ off <= N BY <1>15, <1>19
  <2>2. ASSUME NEW i \in 1 .. Len(t) PROVE t[i] \in Shown /\ Place(t[i]) = i
    <3>1. CASE i \in 1 .. Len(s) BY <1>13, <1>15, <1>19, <2>1, <3>1
    <3>2. CASE \E j \in 1 .. k : i = Len(s) + j
      <4>1. PICK j \in 1 .. k : i = Len(s) + j BY <3>2
      <4> QED BY <1>7, <1>13, <2>1, <4>1
    <3> QED BY <1>13, <3>1, <3>2
  <2> QED BY <1>13, <2>1, <2>2
<1>20. WalkInv(w)'
  <2>1. walk'[w].steady \subseteq Live' BY <1>2, <1>3, <1>11
  <2>2. \A r \in Shown : r \in Rows /\ Place(r)' = Place(r) BY <1>2, <1>16
  <2>3. CASE page.more
    <3>1. N > off + lim /\ k = lim BY <1>6, <1>8, <2>3
    <3>2. off + lim <= N BY <1>4, <1>6, <3>1
    <3>3. N = Cardinality(Shown') BY <1>2 DEF N
    <3>4. WalkUnderWay(w)'
      BY <1>2, <1>4, <1>11, <1>17, <1>18, <1>19, <2>2, <3>1, <3>2, <3>3 DEF WalkUnderWay
    <3>5. walk'[w].step = "pages" BY <1>11, <2>3
    <3> QED BY <2>1, <3>4, <3>5 DEF WalkInv
  <2>4. CASE ~page.more
    <3>1. N <= off + lim BY <1>4, <1>6, <2>4
    <3>2. N = Cardinality(Shown') BY <1>2 DEF N
    <3>3. \A r \in Shown : ~(Place(r) > off + lim) BY <1>4, <1>6, <1>16, <3>1
    <3>4. ~walk[w].went => walk[w].steady \intersect InList \subseteq ToSet(t)
      BY <1>17, <3>3
    <3>5. ~walk[w].went /\ ~walk[w].came =>
            Len(t) = N /\ \A i \in 1 .. N : t[i] \in Shown /\ Place(t[i]) = i
      BY <1>8, <1>19, <3>1
    <3>6. WalkOver(w)' BY <1>2, <1>11, <1>18, <2>2, <3>2, <3>4, <3>5 DEF WalkOver
    <3>7. walk'[w].step = "done" BY <1>11, <2>4
    <3> QED BY <2>1, <3>6, <3>7 DEF WalkInv
  <2> QED BY <2>3, <2>4
<1> QED BY <1>2, <1>11, <1>12, <1>20 DEF ListInv
-----------------------------------------------------------------------------
(* Views.                                                                    *)

(* Numbers in ascending order: all of them, none twice, zero first.          *)
LEMMA NumbersSorted ==
    ASSUME NEW S \in SUBSET Nat, IsFiniteSet(S), NEW seq, seq = Sorted(S, Lower)
    PROVE  /\ seq \in Seq(Nat) /\ S \subseteq ToSet(seq) /\ IsInjective(seq)
           /\ 0 \in S => seq # <<>> /\ seq[1] = 0
<1> DEFINE R == {x \in S \X S : x[1] < x[2]}
           N == Cardinality(S)
           below(x) == Cardinality(Below(S, R, x))
<1>1. \A x, y \in S : <<x, y>> \in R <=> x < y OBVIOUS
<1>2. ASSUME NEW x \in S PROVE Below(S, R, x) = {y \in S : y < x} BY <1>1 DEF Below
<1> HIDE DEF R
<1>3. /\ \A x \in S : below(x) \in 0 .. N - 1
      /\ \A x, y \in S : <<x, y>> \in R => below(x) < below(y)
      /\ \A i \in 1 .. N : \E x \in S : below(x) = i - 1
  <2>1. \A x \in S : <<x, x>> \notin R BY <1>1
  <2>2. \A x, y \in S : x # y => <<x, y>> \in R \/ <<y, x>> \in R BY <1>1
  <2>3. \A x, y, z \in S : <<x, y>> \in R /\ <<y, z>> \in R => <<x, z>> \in R BY <1>1
  <2> QED BY <2>1, <2>2, <2>3, Places
<1>4. \A x \in S : Cardinality({y \in S : y < x}) = below(x) BY <1>2
<1>5. seq = [i \in 1 .. N |-> CHOOSE x \in S : Cardinality({y \in S : y < x}) = i - 1]
  BY DEF Sorted, Lower
<1>6. \A i \in 1 .. N : \E x \in S : Cardinality({y \in S : y < x}) = i - 1
  BY <1>3, <1>4
<1>7. \A i \in 1 .. N : seq[i] \in S /\ Cardinality({y \in S : y < seq[i]}) = i - 1
  BY <1>5, <1>6
<1>8. \A i \in 1 .. N : seq[i] \in S /\ below(seq[i]) = i - 1 BY <1>4, <1>7
<1>9. N \in Nat BY FS_CardinalityType
<1>10. seq \in [1 .. N -> S] BY <1>5, <1>8
<1>11. \A x, y \in S : below(x) = below(y) => x = y
  <2>1. ASSUME NEW x \in S, NEW y \in S, below(x) = below(y) PROVE x = y
    <3>1. below(x) \in Int /\ below(y) \in Int BY <1>3, <1>9
    <3> HIDE DEF below
    <3>2. <<x, y>> \notin R /\ <<y, x>> \notin R BY <1>3, <2>1, <3>1
    <3> QED BY <1>1, <3>2
  <2> QED BY <2>1
<1> HIDE DEF below, N
<1>12. seq \in Seq(S) /\ Len(seq) = N /\ DOMAIN seq = 1 .. N BY <1>9, <1>10, LenOf
<1>13. seq \in Seq(Nat)
  <2>1. seq \in [1 .. N -> Nat] BY <1>10
  <2> QED BY <1>9, <2>1, LenOf
<1>14. IsInjective(seq)
  <2>1. ASSUME NEW i \in 1 .. N, NEW j \in 1 .. N, seq[i] = seq[j] PROVE i = j
    <3>1. i - 1 = j - 1 BY <1>8, <2>1
    <3> QED BY <1>9, <3>1
  <2> QED BY <1>12, <2>1 DEF IsInjective
<1>15. ASSUME NEW x \in S PROVE \E i \in 1 .. N : x = seq[i]
  <2>1. below(x) \in 0 .. N - 1 BY <1>3
  <2>2. below(x) + 1 \in 1 .. N /\ (below(x) + 1) - 1 = below(x) BY <1>9, <2>1
  <2>3. seq[below(x) + 1] \in S /\ below(seq[below(x) + 1]) = below(x) BY <1>8, <2>2
  <2> QED BY <1>11, <2>2, <2>3
<1>16. S \subseteq ToSet(seq) BY <1>12, <1>15, MembersOf
<1>17. ASSUME 0 \in S PROVE seq # <<>> /\ seq[1] = 0
  <2>1. PICK i \in 1 .. N : 0 = seq[i] BY <1>15, <1>17
  <2>2. 1 \in 1 .. N BY <1>9, <2>1
  <2>3. seq[1] \in S /\ below(seq[1]) = 1 - 1 /\ below(0) = i - 1 BY <1>8, <2>1, <2>2
  <2>4. seq[1] = 0
    <3>1. SUFFICES ASSUME seq[1] # 0 PROVE FALSE OBVIOUS
    <3>2. seq[1] \in Nat BY <2>3
    <3>3. 0 < seq[1] BY <3>1, <3>2
    <3>4. <<0, seq[1]>> \in R BY <1>1, <1>17, <2>3, <3>3
    <3>5. below(0) < below(seq[1]) BY <1>3, <1>17, <2>3, <3>4
    <3> QED BY <1>9, <2>1, <2>3, <3>5
  <2>5. Len(<<>>) = 0 OBVIOUS
  <2> QED BY <1>9, <1>12, <2>1, <2>4, <2>5
<1> QED BY <1>13, <1>14, <1>16, <1>17

DocType ==
  [state : {"live", "deleted"}, mime : {"pdf", "image"},
   page : [PageNumbers -> BlobStates], thumb : [PageNumbers -> BlobStates]]

ViewType ==
  [step : {"idle", "parts", "media", "done"}, of : {"page", "thumb"},
   parts : SUBSET PageNumbers, due : SUBSET PageNumbers, records : Seq(Nat),
   outcome : {"none", "shown", "not_found", "index_error"}, quiet : BOOLEAN]

(* What was there when a quiet request began is still there, and found. *)
ViewInv(v) ==
    /\ view[v].step \in {"parts", "media"} /\ view[v].quiet =>
         doc.state = "live" /\ view[v].due \subseteq Due(view[v].of)
    /\ view[v].step = "media" /\ view[v].quiet => view[v].due \subseteq view[v].parts
    /\ ViewIsWhole(v)

DocViewInv ==
    /\ doc \in DocType
    /\ view \in [Viewers -> ViewType]
    /\ \A v \in Viewers : ViewInv(v)

(* The invariant of the views is kept by mining, which only adds blobs,      *)
LEMMA NoViewType == NoView \in ViewType
<1>1. <<>> \in Seq(Nat) OBVIOUS
<1> QED BY <1>1 DEF NoView, ViewType

LEMMA MiningKeepsViews ==
    ASSUME DocViewInv, NEW p \in PageNumbers, AddPage(p) \/ AddThumb(p)
    PROVE  DocViewInv'
<1>1. doc \in DocType /\ view' = view BY DEF DocViewInv, AddPage, AddThumb
<1>2. /\ doc' \in DocType /\ doc'.state = doc.state /\ doc'.mime = doc.mime
      /\ \A q \in PageNumbers : doc.page[q] = "live" => doc'.page[q] = "live"
      /\ \A q \in PageNumbers : doc.thumb[q] = "live" => doc'.thumb[q] = "live"
  <2>1. CASE AddPage(p)
    <3>1. PICK b \in {"live", "deleted"} : doc' = [doc EXCEPT !.page[p] = b]
      BY <2>1 DEF AddPage
    <3>2. doc.page[p] = "none" BY <2>1 DEF AddPage
    <3> QED BY <1>1, <3>1, <3>2 DEF DocType, BlobStates
  <2>2. CASE AddThumb(p)
    <3>1. doc' = [doc EXCEPT !.thumb[p] = "live"] BY <2>2 DEF AddThumb
    <3> QED BY <1>1, <3>1 DEF DocType, BlobStates
  <2> QED BY <2>1, <2>2
<1>3. ASSUME NEW of \in {"page", "thumb"} PROVE Due(of) \subseteq Due(of)'
  <2>1. ASSUME NEW q \in Due(of) PROVE q \in Due(of)'
    <3>1. CASE of = "page" BY <1>2, <2>1, <3>1 DEF Due
    <3>2. CASE of = "thumb" BY <1>2, <2>1, <3>2 DEF Due
    <3> QED BY <3>1, <3>2
  <2> QED BY <2>1
<1>4. ASSUME NEW v \in Viewers PROVE ViewInv(v)'
  <2>1. ViewInv(v) /\ view[v] \in ViewType BY DEF DocViewInv
  <2>2. view[v].of \in {"page", "thumb"} BY <2>1 DEF ViewType
  <2>3. Due(view[v].of) \subseteq Due(view[v].of)'
    <3>1. PICK of \in {"page", "thumb"} : view[v].of = of /\ view'[v].of = of BY <1>1, <2>2
    <3>2. Due(view[v].of) = Due(of) /\ Due(view[v].of)' = Due(of)' BY <3>1 DEF Due
    <3> QED BY <1>3, <3>2
  <2> QED BY <1>1, <1>2, <2>1, <2>3 DEF ViewInv, ViewIsWhole
<1> QED BY <1>1, <1>2, <1>4 DEF DocViewInv

(* by the deletion of the document, after which no view is quiet,            *)
LEMMA DeleteDocKeepsViews ==
    ASSUME DocViewInv, DeleteDoc
    PROVE  DocViewInv'
<1>1. doc \in DocType /\ view \in [Viewers -> ViewType] BY DEF DocViewInv
<1>2. doc' \in DocType
  <2> DEFINE marked(blobs) == [p \in PageNumbers |-> IF blobs[p] = "none" THEN "none" ELSE "deleted"]
  <2>1. ASSUME NEW blobs PROVE marked(blobs) \in [PageNumbers -> BlobStates]
    BY DEF BlobStates
  <2>2. doc' = [doc EXCEPT !.state = "deleted", !.page = marked(doc.page),
                           !.thumb = marked(doc.thumb)]
    BY DEF DeleteDoc
  <2> HIDE DEF marked
  <2> QED BY <1>1, <2>1, <2>2 DEF DocType
<1>3. view' = [v \in Viewers |-> [view[v] EXCEPT !.quiet = FALSE]] BY DEF DeleteDoc
<1>4. ASSUME NEW v \in Viewers PROVE ViewInv(v)' /\ view'[v] \in ViewType
  <2>1. view'[v] = [view[v] EXCEPT !.quiet = FALSE] /\ view[v] \in ViewType BY <1>1, <1>3
  <2>2. ~view'[v].quiet /\ view'[v] \in ViewType BY <2>1 DEF ViewType
  <2> QED BY <2>2 DEF ViewInv, ViewIsWhole
<1> QED BY <1>2, <1>3, <1>4 DEF DocViewInv

(* A step of one request leaves the others where they are. *)
LEMMA OtherViews ==
    ASSUME DocViewInv, NEW v \in Viewers, doc' = doc,
           view' \in [Viewers -> ViewType], ViewInv(v)',
           \A u \in Viewers \ {v} : view'[u] = view[u]
    PROVE  DocViewInv'
<1>1. \A of : Due(of)' = Due(of) BY DEF Due
<1>2. ASSUME NEW u \in Viewers \ {v} PROVE ViewInv(u)'
  BY <1>1 DEF ViewInv, ViewIsWhole, DocViewInv
<1> QED BY <1>2 DEF DocViewInv

(* and by the three statements of a view.                                    *)
LEMMA BeginDocViewKeeps ==
    ASSUME DocViewInv, NEW v \in Viewers, NEW of \in {"page", "thumb"}, BeginDocView(v, of)
    PROVE  DocViewInv'
<1> DEFINE new == IF of = "page" /\ doc.state = "deleted"
                    THEN [NoView EXCEPT !.step = "done", !.outcome = "not_found"]
                    ELSE [NoView EXCEPT !.step = "parts", !.of = of, !.due = Due(of),
                                        !.quiet = doc.state = "live"]
<1>1. doc' = doc /\ view' = [view EXCEPT ![v] = new] BY DEF BeginDocView
<1>2. Due(of) \subseteq PageNumbers BY DEF Due
<1>3. new \in ViewType
  <2>1. (doc.state = "live") \in BOOLEAN OBVIOUS
  <2> QED BY <1>2, <2>1, NoViewType DEF ViewType
<1>4. \/ new.step = "done" /\ new.outcome = "not_found" /\ new.due = {} /\ new.records = <<>>
      \/ /\ new.step = "parts" /\ new.of = of /\ new.due = Due(of)
         /\ new.quiet <=> doc.state = "live"
  BY DEF NoView
<1>5. view' \in [Viewers -> ViewType] /\ view'[v] = new /\ \A u \in Viewers \ {v} : view'[u] = view[u]
  BY <1>1, <1>3 DEF DocViewInv
<1> HIDE DEF new
<1>6. ViewInv(v)'
  <2>1. Due(of)' = Due(of) BY <1>1 DEF Due
  <2>2. IsInjective(<<>>) BY DEF IsInjective
  <2>3. CASE /\ new.step = "done" /\ new.outcome = "not_found" /\ new.due = {}
             /\ new.records = <<>>
    BY <1>5, <2>2, <2>3 DEF ViewInv, ViewIsWhole
  <2>4. CASE /\ new.step = "parts" /\ new.of = of /\ new.due = Due(of)
             /\ new.quiet <=> doc.state = "live"
    BY <1>1, <1>5, <2>1, <2>4 DEF ViewInv, ViewIsWhole
  <2> QED BY <1>4, <2>3, <2>4
<1> QED BY <1>1, <1>5, <1>6, OtherViews

LEMMA ReadPartsKeeps ==
    ASSUME DocViewInv, NEW v \in Viewers, ReadParts(v)
    PROVE  DocViewInv'
<1> DEFINE found == {p \in PageNumbers :
                       IF view[v].of = "page" THEN doc.mime = "pdf" /\ doc.page[p] # "none"
                                              ELSE doc.thumb[p] # "none"}
<1>1. /\ doc' = doc /\ view[v].step = "parts"
      /\ view' = [view EXCEPT ![v].step = "media", ![v].parts = found]
  BY DEF ReadParts
<1>2. view[v] \in ViewType /\ ViewInv(v) /\ found \in SUBSET PageNumbers BY DEF DocViewInv
<1>3. view[v].of \in {"page", "thumb"} /\ view[v].due \subseteq PageNumbers BY <1>2 DEF ViewType
<1>4. Due(view[v].of) \subseteq found BY <1>3 DEF Due
<1> HIDE DEF found
<1>5. /\ view' \in [Viewers -> ViewType] /\ \A u \in Viewers \ {v} : view'[u] = view[u]
      /\ view'[v] = [view[v] EXCEPT !.step = "media", !.parts = found]
  BY <1>1, <1>2 DEF ViewType, DocViewInv
<1>6. /\ view'[v].step = "media" /\ view'[v].parts = found /\ view'[v].due = view[v].due
      /\ view'[v].of = view[v].of /\ view'[v].quiet = view[v].quiet
  BY <1>2, <1>5 DEF ViewType
<1>7. Due(view[v].of)' = Due(view[v].of)
  <2>1. view'[v].of = view[v].of BY <1>6
  <2> QED BY <1>1, <2>1 DEF Due
<1>8. ViewInv(v)'
  <2>1. view[v].quiet => doc.state = "live" /\ view[v].due \subseteq Due(view[v].of)
    BY <1>1, <1>2 DEF ViewInv
  <2> QED BY <1>1, <1>4, <1>6, <1>7, <2>1 DEF ViewInv, ViewIsWhole
<1> QED BY <1>1, <1>5, <1>8, OtherViews

LEMMA ShowViewKeeps ==
    ASSUME DocViewInv, NEW v \in Viewers, ShowView(v)
    PROVE  DocViewInv'
<1> DEFINE blob == IF view[v].of = "page" THEN doc.page ELSE doc.thumb
           found == {p \in view[v].parts : blob[p] = "live"}
           S == IF view[v].of = "page" /\ doc.state = "live" THEN found \union {0} ELSE found
           recs == RecordsOf(v)
           what == IF recs # <<>> THEN "shown"
                   ELSE IF view[v].of = "page" THEN "index_error" ELSE "not_found"
<1>1. /\ doc' = doc /\ view[v].step = "media"
      /\ view' = [view EXCEPT ![v].step = "done", ![v].records = recs, ![v].outcome = what]
  BY DEF ShowView
<1>2. view[v] \in ViewType /\ ViewInv(v) BY DEF DocViewInv
<1>3. /\ view[v].of \in {"page", "thumb"} /\ view[v].due \subseteq PageNumbers
      /\ view[v].parts \subseteq PageNumbers
  BY <1>2 DEF ViewType
<1>4. S \in SUBSET Nat /\ IsFiniteSet(S)
  <2>1. found \in SUBSET PageNumbers BY <1>3
  <2>2. IsFiniteSet(found) BY <2>1, FS_Subset
  <2>3. IsFiniteSet(found \union {0}) BY <2>2, FS_AddElement
  <2> HIDE DEF found
  <2> QED BY <2>1, <2>2, <2>3
<1>5. recs = Sorted(S, Lower) BY DEF RecordsOf
<1>6. view[v].quiet => view[v].due \subseteq found
  BY <1>1, <1>2, <1>3 DEF ViewInv, Due
<1>7. found \subseteq S OBVIOUS
<1>8. view[v].quiet /\ view[v].of = "page" => 0 \in S BY <1>1, <1>2 DEF ViewInv
<1> HIDE DEF S, recs, found, blob
<1>9. /\ recs \in Seq(Nat) /\ S \subseteq ToSet(recs) /\ IsInjective(recs)
      /\ 0 \in S => recs # <<>> /\ recs[1] = 0
  BY <1>4, <1>5, NumbersSorted
<1>10. what \in {"none", "shown", "not_found", "index_error"} OBVIOUS
<1>11. /\ view[v].quiet => what # "index_error"
       /\ view[v].quiet /\ view[v].of = "page" => recs[1] = 0
  BY <1>3, <1>8, <1>9
<1> HIDE DEF what
<1>12. /\ view' \in [Viewers -> ViewType] /\ \A u \in Viewers \ {v} : view'[u] = view[u]
       /\ view'[v] = [view[v] EXCEPT !.step = "done", !.records = recs, !.outcome = what]
  BY <1>1, <1>2, <1>9, <1>10 DEF ViewType, DocViewInv
<1>13. /\ view'[v].step = "done" /\ view'[v].records = recs /\ view'[v].outcome = what
       /\ view'[v].due = view[v].due /\ view'[v].of = view[v].of
       /\ view'[v].quiet = view[v].quiet
  BY <1>2, <1>12 DEF ViewType
<1>14. ViewInv(v)' BY <1>6, <1>7, <1>9, <1>11, <1>13 DEF ViewInv, ViewIsWhole
<1> QED BY <1>1, <1>12, <1>14, OtherViews
-----------------------------------------------------------------------------
ReadsInv == ListInv /\ DocViewInv

(* What moves elsewhere leaves both invariants as they are.                  *)
LEMMA ListsStand ==
    ASSUME ListInv, UNCHANGED <<list, stamp, entry, walk>>
    PROVE  ListInv'
<1>1. /\ Stamped' /\ Live' = Live /\ Shown' = Shown /\ InList' = InList
      /\ \A r \in Rows : Place(r)' = Place(r)
  BY DEF ListInv, Stamped, Started, Live, Shown, InList, Place, Ahead, Closer, Newer
<1>2. ASSUME NEW w \in Walkers PROVE WalkInv(w)'
  <2>1. WalkInv(w) BY DEF ListInv
  <2>2. walk[w].steady \intersect InList \subseteq Rows /\ Shown \subseteq Rows
    BY DEF Shown, InList
  <2>3. WalkUnderWay(w) => WalkUnderWay(w)' BY <1>1, <2>2 DEF WalkUnderWay
  <2>4. WalkOver(w) => WalkOver(w)' BY <1>1, <2>2 DEF WalkOver
  <2> QED BY <1>1, <2>1, <2>3, <2>4 DEF WalkInv
<1> QED BY <1>1, <1>2 DEF ListInv

LEMMA ViewsStand ==
    ASSUME DocViewInv, UNCHANGED <<doc, view>>
    PROVE  DocViewInv'
BY DEF DocViewInv, ViewInv, ViewIsWhole, Due

LEMMA ReadsInit_Inv == ReadsInit => ReadsInv
<1> SUFFICES ASSUME ReadsInit PROVE ReadsInv OBVIOUS
<1>1. ListInv
  <2>1. Stamped
    <3>1. Cardinality(Started) \in Nat BY StartedFinite
    <3> QED BY <3>1 DEF ReadsInit, Stamped
  <2>2. walk = [w \in Walkers |-> NoWalk] BY DEF ReadsInit
  <2>3. walk \in [Walkers -> WalkType] BY <2>2, NoWalkType
  <2>4. \A w \in Walkers : WalkInv(w)
    BY <2>2 DEF WalkInv, NoWalk
  <2> QED BY <2>1, <2>3, <2>4 DEF ListInv
<1>2. DocViewInv
  <2>1. view = [v \in Viewers |-> NoView] BY DEF ReadsInit
  <2>2. view \in [Viewers -> ViewType] BY <2>1, NoViewType
  <2>3. doc \in DocType BY DEF ReadsInit, DocType, BlobStates
  <2>4. \A v \in Viewers : ViewInv(v) BY <2>1 DEF ViewInv, ViewIsWhole, NoView
  <2> QED BY <2>2, <2>3, <2>4 DEF DocViewInv
<1> QED BY <1>1, <1>2 DEF ReadsInv

LEMMA ReadsStep_Inv == ReadsInv /\ [ReadsNext]_readsVars => ReadsInv'
<1> SUFFICES ASSUME ReadsInv, [ReadsNext]_readsVars PROVE ReadsInv' OBVIOUS
<1>1. ListInv /\ DocViewInv BY DEF ReadsInv
<1>2. CASE ListNext
  <2>1. UNCHANGED <<doc, view>>
    BY <1>2 DEF ListNext, BeginInsert, CommitInsert, RemoveRow, StartWalk, NextPage
  <2>2. DocViewInv' BY <1>1, <2>1, ViewsStand
  <2>3. ASSUME NEW r \in Rows, BeginInsert(r) \/ CommitInsert(r) \/ RemoveRow(r) PROVE ListInv'
    BY <1>1, <2>3, WritesKeepWalks
  <2>4. ASSUME NEW w \in Walkers, NextPage(w) PROVE ListInv'
    BY <1>1, <2>4, NextPageKeeps
  <2>5. ASSUME NEW w \in Walkers, NEW asked \in Asked, StartWalk(w, asked) PROVE ListInv'
    BY <1>1, <2>5, StartWalkKeeps
  <2> QED BY <1>2, <2>2, <2>3, <2>4, <2>5 DEF ListNext, ReadsInv
<1>3. CASE DocViewNext
  <2>1. UNCHANGED <<list, stamp, entry, walk>>
    BY <1>3 DEF DocViewNext, AddPage, AddThumb, DeleteDoc, BeginDocView, ReadParts, ShowView
  <2>2. ListInv' BY <1>1, <2>1, ListsStand
  <2>3. ASSUME NEW p \in PageNumbers, AddPage(p) \/ AddThumb(p) PROVE DocViewInv'
    BY <1>1, <2>3, MiningKeepsViews
  <2>4. ASSUME DeleteDoc PROVE DocViewInv' BY <1>1, <2>4, DeleteDocKeepsViews
  <2>5. ASSUME NEW v \in Viewers, ReadParts(v) PROVE DocViewInv'
    BY <1>1, <2>5, ReadPartsKeeps
  <2>6. ASSUME NEW v \in Viewers, ShowView(v) PROVE DocViewInv'
    BY <1>1, <2>6, ShowViewKeeps
  <2>7. ASSUME NEW v \in Viewers, NEW of \in {"page", "thumb"}, BeginDocView(v, of)
        PROVE  DocViewInv'
    BY <1>1, <2>7, BeginDocViewKeeps
  <2> QED BY <1>3, <2>2, <2>3, <2>4, <2>5, <2>6, <2>7 DEF DocViewNext, ReadsInv
<1>4. CASE UNCHANGED readsVars
  <2>1. UNCHANGED <<list, stamp, entry, walk>> /\ UNCHANGED <<doc, view>>
    BY <1>4 DEF readsVars
  <2> QED BY <1>1, <2>1, ListsStand, ViewsStand DEF ReadsInv
<1> QED BY <1>2, <1>3, <1>4 DEF ReadsNext

LEMMA ReadsInvHolds == ReadsSpec => []ReadsInv
BY ReadsInit_Inv, ReadsStep_Inv, PTL DEF ReadsSpec

LEMMA ReadsTyped == ReadsInv => ReadsTypeOK
<1> SUFFICES ASSUME ReadsInv PROVE ReadsTypeOK OBVIOUS
<1>1. ListInv /\ DocViewInv BY DEF ReadsInv
<1>2. stamp \in [Rows -> 0 .. Cardinality(Rows)]
  <2>1. \A r \in Rows : stamp[r] \in Nat /\ stamp[r] <= Cardinality(Started)
    BY <1>1 DEF ListInv, Stamped
  <2>2. Cardinality(Rows) \in Nat BY FS_CardinalityType
  <2>3. \A r \in Rows : stamp[r] \in 0 .. Cardinality(Rows) BY <2>1, <2>2, StartedFinite
  <2> QED BY <1>1, <2>3 DEF ListInv, Stamped
<1> QED BY <1>1, <1>2 DEF ReadsTypeOK, ListInv, Stamped, DocViewInv, WalkType, ViewType, DocType

(* The state of the paged lists and of the views of a document keeps its     *)
(* type.                                                                     *)
THEOREM ReadsTypeCorrect == ReadsSpec => []ReadsTypeOK
BY ReadsInvHolds, ReadsTyped, PTL

(* However rows come and go between the pages of a list, and however mining  *)
(* and deletion come between the statements of a view, a finished walk and a *)
(* finished view are whole as far as the writes let them be (the documents'  *)
(* list_documents, get_view, get_view_thumb; the other lists alike).         *)
THEOREM ReadsWhole == ReadsSpec => []ReadsAreWhole
<1>1. ReadsInv => ReadsAreWhole
  BY WholeWalks DEF ReadsInv, ReadsAreWhole, DocViewInv, ViewInv
<1> QED BY <1>1, ReadsInvHolds, PTL

HIDE ReadsAssumption DEF ReadsAssumption
-----------------------------------------------------------------------------
(* The composition.                                                          *)

(* A call is of one of the six tools, and its answer says whether it worked. *)
LEMMA ToolTyped == ToolSpec => []ToolTypeOK
<1>1. ToolInit => ToolTypeOK BY DEF ToolInit, ToolTypeOK
<1>2. ToolTypeOK /\ [ToolNext]_toolVars => ToolTypeOK'
  <2> SUFFICES ASSUME ToolTypeOK, ToolNext PROVE ToolTypeOK'
    BY DEF ToolTypeOK, toolVars
  <2>1. tool' = tool BY DEF ToolNext
  <2>2. CASE ParseMoney BY <2>1, <2>2 DEF ToolTypeOK, ParseMoney
  <2>3. CASE CheckDateOrder BY <2>1, <2>3 DEF ToolTypeOK, CheckDateOrder
  <2>4. CASE InvoiceAge BY <2>1, <2>4 DEF ToolTypeOK, InvoiceAge
  <2>5. CASE CompareAmount BY <2>1, <2>5 DEF ToolTypeOK, CompareAmount
  <2>6. CASE CheckVat BY <2>1, <2>6 DEF ToolTypeOK, CheckVat
  <2>7. CASE FindDocument BY <2>1, <2>7 DEF ToolTypeOK, FindDocument
  <2> QED BY <2>2, <2>3, <2>4, <2>5, <2>6, <2>7 DEF ToolNext
<1> QED BY <1>1, <1>2, PTL DEF ToolSpec

pipelinesVars == <<focus, miningVars, auditVars, toolVars, readsVars>>

(* The pipelines, the tools and the reads share no variable: whichever of    *)
(* them moves, each of the others is where its own specification leaves it.  *)
LEMMA PipelinesStandApart ==
    PipelinesSpec => MiningSpec /\ AuditSpec /\ ToolSpec /\ ReadsSpec
<1>1. [PipelinesNext]_pipelinesVars => [MiningNext]_miningVars
  BY DEF PipelinesNext, pipelinesVars
<1>2. [PipelinesNext]_pipelinesVars => [AuditNext]_auditVars
  BY DEF PipelinesNext, pipelinesVars
<1>3. [PipelinesNext]_pipelinesVars => [ToolNext]_toolVars
  BY DEF PipelinesNext, pipelinesVars
<1>4. [PipelinesNext]_pipelinesVars => [ReadsNext]_readsVars
  BY DEF PipelinesNext, pipelinesVars, ReadsNext
<1>5. PipelinesInit => MiningInit /\ AuditInit /\ ToolInit /\ ReadsInit
  <2>1. <<>> \in MoneyTexts
    <3>1. 0 \in 0 .. MaxMoneyText BY ToolAssumption DEF ToolAssumption
    <3>2. <<>> \in [1 .. 0 -> {"d"} \union Separators] OBVIOUS
    <3> QED BY <3>1, <3>2 DEF MoneyTexts, SeqOf
  <2>2. [name |-> "parse_money", text |-> <<>>] \in ToolCalls BY <2>1 DEF ToolCalls
  <2> QED BY <2>2 DEF PipelinesInit, ToolInit
<1> QED BY <1>1, <1>2, <1>3, <1>4, <1>5, PTL
        DEF PipelinesSpec, pipelinesVars, MiningSpec, AuditSpec, ToolSpec, ReadsSpec

(* Every variable of the four components keeps its type.                     *)
THEOREM PipelinesTypeCorrect == PipelinesSpec => []PipelinesTypeOK
<1>1. Conclusive => AuditTypeOK BY DEF Conclusive, Shaped
<1> QED BY <1>1, AlwaysConclusive, PipelinesStandApart, MiningTypeCorrect, ToolTyped, ReadsTypeCorrect, PTL
        DEF PipelinesTypeOK
=============================================================================
