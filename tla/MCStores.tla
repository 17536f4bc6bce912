------------------------------ MODULE MCStores ------------------------------
(* The state that requests and workers share in Valkey, in the tables of     *)
(* definitions and in their own process, one component at a time: they have  *)
(* no key and no row in common, so that the product of their states holds    *)
(* nothing that the components do not.  The definitions move with the links  *)
(* to them, and with the lookups and the documents, which do not meet the    *)
(* links elsewhere; names are updated with the lookups only.  In the same    *)
(* way the saver moves with several checkpoints and no pending writes, whose *)
(* keys differ, and with the writes of one checkpoint.  The monitor moves    *)
(* with all its messages while records neither expire nor lose their place   *)
(* on the board, and with one message less when they do, in both cases with  *)
(* few mishaps.  "focus" says what moves.                                    *)
EXTENDS TokenBucket, ViewCache, CheckpointSaver, TaskMonitor, Userdata, ClientPool, TLC

VARIABLE focus

Components == {"bucket", "view", "checkpoints", "writes", "monitor", "board",
               "links", "lookups", "pool"}

(* One mishap at most, and none besides a second sending after a request to  *)
(* retry.                                                                    *)
FewMishaps ==
    /\ Cardinality(mishaps) <= 1
    /\ mishaps \subseteq {"twice"} \/ \A r \in Retriers : asked[r].step = "idle"

StoresInit ==
    /\ BucketInit /\ ViewInit /\ SaverInit /\ MonitorInit /\ UserdataInit
    /\ PoolInit
    /\ focus \in Components
    /\ focus # "pool" => role = "api" /\ poolMax = 1

StoresNext ==
    /\ UNCHANGED focus
    /\ \/ /\ focus = "bucket" /\ BucketNext
          /\ UNCHANGED <<viewVars, saverVars, monitorVars, userdataVars, poolVars>>
       \/ /\ focus = "view" /\ ViewNext
          /\ UNCHANGED <<bucketVars, saverVars, monitorVars, userdataVars, poolVars>>
       \/ /\ focus = "checkpoints" /\ SaverNext
          /\ \A w \in Writers : known'[w].step = "idle"
          /\ UNCHANGED <<bucketVars, viewVars, monitorVars, userdataVars, poolVars>>
       \/ /\ focus = "writes" /\ SaverNext
          /\ created' <= 1
          /\ UNCHANGED <<bucketVars, viewVars, monitorVars, userdataVars, poolVars>>
       \/ /\ focus = "monitor" /\ MonitorNext
          /\ FewMishaps'
          /\ ~lapsed' /\ reader' = "idle" /\ (lasting => lasting')
          /\ UNCHANGED <<bucketVars, viewVars, saverVars, userdataVars, poolVars>>
       \/ /\ focus = "board" /\ MonitorNext
          /\ FewMishaps'
          /\ send'[MaxSends].step = "unsent"
          /\ UNCHANGED <<bucketVars, viewVars, saverVars, userdataVars, poolVars>>
       \/ /\ focus = "links" /\ (RowNext \/ LinkNext)
          /\ \A i \in AllIds : defs'[i].text # "later"
          /\ UNCHANGED <<bucketVars, viewVars, saverVars, monitorVars, poolVars>>
       \/ /\ focus = "lookups" /\ (RowNext \/ DocumentNext \/ LookupNext)
          /\ UNCHANGED <<bucketVars, viewVars, saverVars, monitorVars, poolVars>>
       \/ /\ focus = "pool" /\ PoolNext
          /\ UNCHANGED <<bucketVars, viewVars, saverVars, monitorVars, userdataVars>>

StoresSpec ==
    StoresInit
      /\ [][StoresNext]_<<focus, bucketVars, viewVars, saverVars, monitorVars,
                         userdataVars, poolVars>>

(* Every variable of the six components keeps its type.                      *)
StoresTypeOK ==
    /\ BucketTypeOK /\ ViewTypeOK /\ SaverTypeOK /\ MonitorTypeOK /\ UserdataTypeOK
    /\ PoolTypeOK

StoresSymmetry == Permutations(DossierIds)
=============================================================================
