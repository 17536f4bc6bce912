--------------------------- MODULE MCWorkflowRuns ---------------------------
(***************************************************************************)
(* WorkflowRuns on small instances.  Mining gets two attempts instead of   *)
(* three.  Time budgets are whole ticks of 15 minutes: one for mining's 15 *)
(* minutes, two for the audit's 35; the default idle timeout of 30 is two. *)
(* With a coarse tick of 20 minutes none fits into mining's budget.  The    *)
(* slots are interchangeable.                                              *)
(***************************************************************************)
EXTENDS WorkflowRuns, TLC

Attempts2 == [mining |-> 2, audit |-> 1]
Budgets == [mining |-> 1, audit |-> 2]
CoarseBudgets == [mining |-> 0, audit |-> 1]
Slots == Permutations(Workers)
=============================================================================
