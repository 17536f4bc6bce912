------------------------------ MODULE ViewCache ------------------------------
(***************************************************************************)
(* The ephemeral cache (cache/cache.py) and what the program keeps in it:  *)
(* presigned view URLs (view_url of media/service.py).  A value lives in   *)
(* Valkey or, while a process believes Valkey to be down, in that          *)
(* process's own memory; each write goes to one of the two.  A presigned   *)
(* URL dies view_expiry after it was signed, wherever it is kept, and both *)
(* tiers count a TTL from the moment of their own write.                   *)
(*                                                                         *)
(* One object key: keys share nothing but the breaker.  Times are counted  *)
(* from the present, so that no clock has to be bounded.                   *)
(***************************************************************************)
EXTENDS Naturals

CONSTANTS
    Procs,        \* processes, each with a Cache of its own
    MemOnly,      \* those whose cache has mode MEM_ONLY
    ViewExpiry,   \* view_expiry: life of a presigned URL
    CacheTtl,     \* view_cache_ttl, 90% of it
    Cooldown,     \* kv_cooldown_seconds
    MaxDelay      \* time a view_url call may take from signing to storing

(* A URL outlives its cache entry even when the write was slow. *)
ASSUME ViewCacheAssumption ==
    /\ MemOnly \subseteq Procs
    /\ ViewExpiry \in Nat
    /\ CacheTtl \in Nat \ {0}
    /\ Cooldown \in Nat
    /\ MaxDelay \in Nat
    /\ CacheTtl + MaxDelay <= ViewExpiry

VARIABLES
    kv,        \* the entry in Valkey
    mem,       \* the entry in each process's memory
    down,      \* what is left of each process's cooldown (_kv_down_until)
    view,      \* the call each process is in
    valkeyUp,  \* is Valkey reachable
    oldest     \* history: the greatest age of a URL when it was handed out

viewVars == <<kv, mem, down, view, valkeyUp, oldest>>

(* How long ago an entry's URL was signed, and what is left of its TTL. *)
Entries == [age: Nat, left: Nat]
NoEntry == [age |-> 0, left |-> 0]
Fresh(entry) == entry.left > 0

ViewSteps == {"idle", "get", "mem_get", "presign", "set", "mem_set", "delete"}

ViewTypeOK ==
    /\ kv \in Entries
    /\ mem \in [Procs -> Entries]
    /\ down \in [Procs -> Nat]
    /\ view \in [Procs -> [step: ViewSteps, age: Nat]]
    /\ valkeyUp \in BOOLEAN
    /\ oldest \in Nat

ViewInit ==
    /\ kv = NoEntry
    /\ mem = [p \in Procs |-> NoEntry]
    /\ down = [p \in Procs |-> 0]
    /\ view = [p \in Procs |-> [step |-> "idle", age |-> 0]]
    /\ valkeyUp = TRUE
    /\ oldest = 0

(* _kv_up, asked before every call of Valkey, and _trip, after a failed one. *)
KvUp(p) == p \notin MemOnly /\ down[p] = 0
Trip(p) == down' = [down EXCEPT ![p] = Cooldown]

Goto(p, step) == view' = [view EXCEPT ![p].step = step]
Finish(p) == view' = [view EXCEPT ![p] = [step |-> "idle", age |-> 0]]

(* A hit is returned as it is. *)
HandOut(age) == oldest' = IF age > oldest THEN age ELSE oldest

(* Mutant: the entry gets the lifetime of the URL instead of 90% of it. *)
StoredForExpiry(p) == [age |-> view[p].age, left |-> ViewExpiry]

(* The entry that a write at this moment leaves. *)
Stored(p) == [age |-> view[p].age, left |-> CacheTtl]

-----------------------------------------------------------------------------
(* view_url and the cache operations it awaits.                             *)

BeginView(p) ==
    /\ view[p].step = "idle"
    /\ Goto(p, IF KvUp(p) THEN "get" ELSE "mem_get")
    /\ UNCHANGED <<kv, mem, down, valkeyUp, oldest>>

GetKv(p) ==
    /\ view[p].step = "get"
    /\ valkeyUp
    /\ \/ /\ Fresh(kv)
          /\ HandOut(kv.age)
          /\ Finish(p)
       \/ /\ ~Fresh(kv)
          /\ Goto(p, "presign")
          /\ UNCHANGED oldest
    /\ UNCHANGED <<kv, mem, down, valkeyUp>>

(* RedisError: trip the breaker and ask the memory instead. *)
GetKvFails(p) ==
    /\ view[p].step = "get"
    /\ ~valkeyUp
    /\ Trip(p)
    /\ Goto(p, "mem_get")
    /\ UNCHANGED <<kv, mem, valkeyUp, oldest>>

GetMem(p) ==
    /\ view[p].step = "mem_get"
    /\ \/ /\ Fresh(mem[p])
          /\ HandOut(mem[p].age)
          /\ Finish(p)
       \/ /\ ~Fresh(mem[p])
          /\ Goto(p, "presign")
          /\ UNCHANGED oldest
    /\ UNCHANGED <<kv, mem, down, valkeyUp>>

(* A miss signs a URL now and stores it under the cache's TTL. *)
Presign(p) ==
    /\ view[p].step = "presign"
    /\ view' = [view EXCEPT ![p] = [step |-> IF KvUp(p) THEN "set" ELSE "mem_set",
                                    age |-> 0]]
    /\ UNCHANGED <<kv, mem, down, valkeyUp, oldest>>

SetKv(p) ==
    /\ view[p].step = "set"
    /\ valkeyUp
    /\ kv' = Stored(p)
    /\ HandOut(view[p].age)
    /\ Finish(p)
    /\ UNCHANGED <<mem, down, valkeyUp>>

SetKvFails(p) ==
    /\ view[p].step = "set"
    /\ ~valkeyUp
    /\ Trip(p)
    /\ Goto(p, "mem_set")
    /\ UNCHANGED <<kv, mem, valkeyUp, oldest>>

SetMem(p) ==
    /\ view[p].step = "mem_set"
    /\ mem' = [mem EXCEPT ![p] = Stored(p)]
    /\ HandOut(view[p].age)
    /\ Finish(p)
    /\ UNCHANGED <<kv, down, valkeyUp>>

(* delete clears both tiers, Valkey only while the breaker is closed. *)
BeginDelete(p) ==
    /\ view[p].step = "idle"
    /\ mem' = [mem EXCEPT ![p] = NoEntry]
    /\ IF KvUp(p) THEN Goto(p, "delete") ELSE UNCHANGED view
    /\ UNCHANGED <<kv, down, valkeyUp, oldest>>

DeleteKv(p) ==
    /\ view[p].step = "delete"
    /\ valkeyUp
    /\ kv' = NoEntry
    /\ Finish(p)
    /\ UNCHANGED <<mem, down, valkeyUp, oldest>>

DeleteKvFails(p) ==
    /\ view[p].step = "delete"
    /\ ~valkeyUp
    /\ Trip(p)
    /\ Finish(p)
    /\ UNCHANGED <<kv, mem, valkeyUp, oldest>>

-----------------------------------------------------------------------------
(* Outages and time.                                                        *)

KvLost ==
    /\ valkeyUp
    /\ valkeyUp' = FALSE
    /\ UNCHANGED <<kv, mem, down, view, oldest>>

KvBack ==
    /\ ~valkeyUp
    /\ valkeyUp' = TRUE
    /\ UNCHANGED <<kv, mem, down, view, oldest>>

(* The full memory tier drops what it used least (TLRUCache, maxsize). *)
Evict(p) ==
    /\ mem[p] # NoEntry
    /\ mem' = [mem EXCEPT ![p] = NoEntry]
    /\ UNCHANGED <<kv, down, view, valkeyUp, oldest>>

(* Mutant: an entry that is gone keeps counting. *)
OlderUnfloored(entry) == [age |-> entry.age + 1, left |-> entry.left - 1]

Older(entry) ==
    IF entry.left <= 1 THEN NoEntry ELSE [age |-> entry.age + 1, left |-> entry.left - 1]

(* Time passes, but no signed URL waits longer than MaxDelay to be stored. *)
Pass ==
    /\ \A p \in Procs : view[p].step \in {"set", "mem_set"} => view[p].age < MaxDelay
    /\ kv' = Older(kv)
    /\ mem' = [p \in Procs |-> Older(mem[p])]
    /\ down' = [p \in Procs |-> IF down[p] = 0 THEN 0 ELSE down[p] - 1]
    /\ view' = [p \in Procs |->
                  [view[p] EXCEPT !.age = IF view[p].step \in {"set", "mem_set"}
                                          THEN @ + 1 ELSE 0]]
    /\ UNCHANGED <<valkeyUp, oldest>>

ViewNext ==
    \/ \E p \in Procs :
         \/ BeginView(p) \/ GetKv(p) \/ GetKvFails(p) \/ GetMem(p)
         \/ Presign(p) \/ SetKv(p) \/ SetKvFails(p) \/ SetMem(p)
         \/ BeginDelete(p) \/ DeleteKv(p) \/ DeleteKvFails(p) \/ Evict(p)
    \/ KvLost
    \/ KvBack
    \/ Pass

ViewSpec == ViewInit /\ [][ViewNext]_viewVars

-----------------------------------------------------------------------------
(* Properties.                                                              *)

(* No client is ever handed a URL that has expired: whichever tier it comes  *)
(* from, across fail-overs between them and however late it was stored, the  *)
(* cache forgets a URL before the object store does (media/service.py:212,   *)
(* config.py:13-14).                                                         *)
HandedOutAlive == oldest < ViewExpiry

=============================================================================
