----------------------------- MODULE RunContract -----------------------------
(***************************************************************************)
(* What a workflow run promises to whoever reads its row, without saying   *)
(* how: a run is recorded before it is handed out, it changes status only  *)
(* while somebody owes work on it, and nobody stops owing work on it       *)
(* before it has ended.  A run that has ended may be started again as long *)
(* as it is owed: the broker delivers at least once.                       *)
(***************************************************************************)
CONSTANT Runs

VARIABLES
    status,   \* per run: its lifecycle status
    owed      \* per run: TRUE while the broker owes its execution

Init ==
    /\ status = [r \in Runs |-> "ABSENT"]
    /\ owed = [r \in Runs |-> FALSE]

Record(r) ==
    /\ status[r] = "ABSENT"
    /\ status' = [status EXCEPT ![r] = "QUEUED"]
    /\ UNCHANGED owed

HandOut(r) ==
    /\ status[r] # "ABSENT"
    /\ owed' = [owed EXCEPT ![r] = TRUE]
    /\ UNCHANGED status

Start(r) ==
    /\ owed[r]
    /\ status' = [status EXCEPT ![r] = "RUNNING"]
    /\ UNCHANGED owed

Settle(r) ==
    /\ owed[r]
    /\ \E s \in {"SUCCEEDED", "FAILED"} :
          status' = [status EXCEPT ![r] = s]
    /\ UNCHANGED owed

Discharge(r) ==
    /\ owed[r]
    /\ status[r] \in {"SUCCEEDED", "FAILED"}
    /\ owed' = [owed EXCEPT ![r] = FALSE]
    /\ UNCHANGED status

Next == \E r \in Runs :
           Record(r) \/ HandOut(r) \/ Start(r) \/ Settle(r) \/ Discharge(r)

Spec == Init /\ [][Next]_<<status, owed>>
=============================================================================
