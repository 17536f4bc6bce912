----------------------------- MODULE MCPipelines -----------------------------
(* The two pipelines a worker runs, the tools of the audit's agents and the  *)
(* reads of the API, explored one at a time, as the components of MCStores:  *)
(* each owns its tables, and what one takes from another is an input here.   *)
EXTENDS MCMining, AuditRun, AuditTools, Reads

VARIABLE focus

Components == {"mining", "audit", "tool", "lists", "view"}

(* The component that moves starts anywhere; the others stand still.         *)
PipelinesInit ==
    /\ focus \in Components
    /\ MiningInit
    /\ focus # "mining" => /\ document.content = "pdf"
                           /\ \A p \in Pages : ClassifyPage(p) = "text"
    /\ AuditInit
    /\ tool \in IF focus = "tool" THEN ToolCalls ELSE {[name |-> "parse_money", text |-> <<>>]}
    /\ answer = None
    /\ ReadsInit
    /\ focus # "lists" => list = "documents"
    /\ focus # "view" => doc.mime = "pdf"

PipelinesNext ==
    /\ UNCHANGED focus
    /\ \/ /\ focus = "mining" /\ MiningNext
          /\ UNCHANGED <<auditVars, toolVars, readsVars>>
       \/ /\ focus = "audit" /\ AuditNext
          /\ UNCHANGED <<miningVars, toolVars, readsVars>>
       \/ /\ focus = "tool" /\ ToolNext
          /\ UNCHANGED <<miningVars, auditVars, readsVars>>
       \/ /\ focus = "lists" /\ ListNext
          /\ UNCHANGED <<miningVars, auditVars, toolVars>>
       \/ /\ focus = "view" /\ DocViewNext
          /\ UNCHANGED <<miningVars, auditVars, toolVars>>

PipelinesSpec ==
    PipelinesInit /\ [][PipelinesNext]_<<focus, miningVars, auditVars, toolVars, readsVars>>

(* Every variable of the four components keeps its type.                    *)
PipelinesTypeOK == MiningTypeOK /\ AuditTypeOK /\ ToolTypeOK /\ ReadsTypeOK

(* A credit note, amounts below a unit of VAT, and around the limits.        *)
MCAmounts == {-12345, -5, 0, 5, 55, 995, 1005, 1995, 12345, 12405}

(* How near each row is to a search, on either side of the threshold.        *)
CONSTANTS x1, x2, x3
MCRows == {x1, x2, x3}
MCSimilarity == (x1 :> 5) @@ (x2 :> 0) @@ (x3 :> 9)

(* A limit left out, below the least, zero, in range, and above the most.    *)
MCAsked == {NoLimit, -1, 0, 2, 9}

PipelinesSymmetry ==
    Permutations(Slots) \cup Permutations(FindingIds) \cup Permutations(Audits)
=============================================================================
