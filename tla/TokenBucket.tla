----------------------------- MODULE TokenBucket -----------------------------
(***************************************************************************)
(* The rate limiter of the audit agents: one token bucket per task in      *)
(* Valkey (llm/ratelimit.py), shared by the model calls of every worker    *)
(* through a middleware (agents/ratelimit.py).  A call reserves its        *)
(* estimate, waits for refill while the bucket is short, and reconciles    *)
(* the reservation with the usage the model reports.  Both Lua scripts are *)
(* atomic and read the clock of the server.                                *)
(*                                                                         *)
(* Time is in whole units.  Capacity is a multiple of Rate, as tpm is of   *)
(* tpm / window_s.                                                         *)
(***************************************************************************)
EXTENDS Integers, FiniteSets

CONSTANTS
    Callers,      \* model calls in flight at once, over all workers
    Rate,         \* tokens refilled per unit of time
    Window,       \* window_s
    MinTtl,       \* the 60 seconds below which a bucket's TTL never falls
    MaxSleep,     \* max_sleep_s
    MaxEstimate,  \* bound: tokens a call may estimate
    Overshoot,    \* bound: tokens a call may use beyond its estimate
    MaxElapsed,   \* bound: units of time that pass
    MaxStepBacks  \* bound: times the server's clock is set back

AtLeast(x, y) == IF x < y THEN y ELSE x
AtMost(x, y) == IF x < y THEN x ELSE y

(* __init__: a full budget refills in one window, and an idle bucket is kept *)
(* for two.                                                                  *)
Capacity == Rate * AtLeast(1, Window)
BucketTtl == AtLeast(2 * Window, MinTtl)

ASSUME BucketAssumption ==
    /\ IsFiniteSet(Callers)
    /\ Rate \in Nat \ {0}
    /\ Window \in Nat
    /\ MinTtl \in Nat \ {0}
    /\ MaxSleep \in Nat \ {0}
    /\ MaxEstimate \in Nat
    /\ Overshoot \in Nat
    /\ MaxElapsed \in Nat
    /\ MaxStepBacks \in Nat

VARIABLES
    bucket,   \* the Valkey hash: tokens, ts, and when it expires
    caller,   \* the model calls
    time,     \* the server's clock, the time that really passed, set-backs
    spent     \* history: tokens charged to the bucket, net of refunds

bucketVars == <<bucket, caller, time, spent>>

CallerSteps == {"idle", "acquire", "sleep", "call", "reconcile"}

Buckets == [exists: BOOLEAN, tokens: Int, ts: Nat, expiry: Nat]
Times == [clock: Nat, elapsed: Nat, backs: Nat]

(* "delay" is what is left of a sleep.  "promised": the script's answer was  *)
(* not cut by max_sleep_s, and nothing was taken from the bucket since.      *)
CallerStates == [step: CallerSteps, estimate: Nat, delta: Int, delay: Nat,
                 promised: BOOLEAN]

BucketTypeOK ==
    /\ bucket \in Buckets
    /\ caller \in [Callers -> CallerStates]
    /\ time \in Times
    /\ spent \in Int

NoCall == [step |-> "idle", estimate |-> 0, delta |-> 0, delay |-> 0,
           promised |-> FALSE]

BucketInit ==
    /\ bucket = [exists |-> FALSE, tokens |-> 0, ts |-> 0, expiry |-> 0]
    /\ caller = [c \in Callers |-> NoCall]
    /\ time = [clock |-> 0, elapsed |-> 0, backs |-> 0]
    /\ spent = 0

(* What both scripts start with: a missing bucket is full, an existing one   *)
(* refills for the time since it was touched, never for a negative time.     *)
Refilled ==
    IF bucket.exists
    THEN AtMost(Capacity, bucket.tokens + AtLeast(0, time.clock - bucket.ts) * Rate)
    ELSE Capacity

(* Mutant: the refill counts but the time of it is not written back. *)
TouchedKeepingTs(tokens) ==
    [exists |-> TRUE, tokens |-> tokens, ts |-> IF bucket.exists THEN bucket.ts ELSE time.clock,
     expiry |-> time.clock + BucketTtl]

(* HSET and EXPIRE, with which both end. *)
Touched(tokens) ==
    [exists |-> TRUE, tokens |-> tokens, ts |-> time.clock,
     expiry |-> time.clock + BucketTtl]

(* Waiters whose promise another debit breaks. *)
Unpromised == [c \in Callers |-> [caller[c] EXCEPT !.promised = FALSE]]

(* acquire clamps a request to the capacity, which it could never reach. *)
Need(c) == AtMost(caller[c].estimate, Capacity)

(* Mutant: the wait is rounded down. *)
WaitForFloor(missing) == missing \div Rate

(* math.ceil((requested - tokens) / rate). *)
WaitFor(missing) == (missing + Rate - 1) \div Rate

-----------------------------------------------------------------------------
(* The middleware.                                                          *)

(* awrap_model_call counts the tokens of the request. *)
StartCall(c) ==
    /\ caller[c].step = "idle"
    /\ \E e \in 0 .. MaxEstimate :
         caller' = [caller EXCEPT ![c] = [NoCall EXCEPT !.step = "acquire",
                                                        !.estimate = e]]
    /\ UNCHANGED <<bucket, time, spent>>

(* Mutant: any token left lets a request through. *)
GrantWhileAnyLeft(c) ==
    /\ caller[c].step = "acquire"
    /\ Refilled > 0
    /\ bucket' = Touched(Refilled - Need(c))
    /\ caller' = [Unpromised EXCEPT ![c].step = "call"]
    /\ spent' = spent + Need(c)
    /\ UNCHANGED time

(* The acquire script consumes ... *)
Grant(c) ==
    /\ caller[c].step = "acquire"
    /\ Refilled >= Need(c)
    /\ bucket' = Touched(Refilled - Need(c))
    /\ caller' = [Unpromised EXCEPT ![c].step = "call"]
    /\ spent' = spent + Need(c)
    /\ UNCHANGED time

(* ... or leaves the refilled bucket and answers how long to wait. *)
Wait(c) ==
    LET wait == WaitFor(Need(c) - Refilled) IN
    /\ caller[c].step = "acquire"
    /\ Refilled < Need(c)
    /\ bucket' = Touched(Refilled)
    /\ caller' = [caller EXCEPT ![c].step = "sleep",
                                ![c].delay = AtMost(wait, MaxSleep),
                                ![c].promised = (wait <= MaxSleep)]
    /\ UNCHANGED <<time, spent>>

Wake(c) ==
    /\ caller[c].step = "sleep"
    /\ caller[c].delay = 0
    /\ caller' = [caller EXCEPT ![c].step = "acquire"]
    /\ UNCHANGED <<bucket, time, spent>>

(* The model answers with its usage; the delta is taken against the estimate *)
(* as counted, not as clamped.  A call with nothing to reconcile is over.    *)
Answer(c) ==
    /\ caller[c].step = "call"
    /\ \E actual \in 1 .. caller[c].estimate + Overshoot :
         /\ actual # caller[c].estimate
         /\ caller' = [caller EXCEPT ![c].step = "reconcile",
                                     ![c].delta = actual - caller[c].estimate]
    /\ UNCHANGED <<bucket, time, spent>>

(* The adjust script: debts are kept, refunds are cut at the capacity. *)
Adjust(c) ==
    /\ caller[c].step = "reconcile"
    /\ bucket' = Touched(AtMost(Capacity, Refilled - caller[c].delta))
    /\ caller' = [(IF caller[c].delta > 0 THEN Unpromised ELSE caller)
                    EXCEPT ![c] = NoCall]
    /\ spent' = spent + caller[c].delta
    /\ UNCHANGED time

(* A call ends without reconciling: the model reported no usage, exactly the *)
(* estimate, or raised; a script failed; or the worker died.  Whatever was   *)
(* reserved stays charged.                                                   *)
EndCall(c) ==
    /\ caller[c].step # "idle"
    /\ caller' = [caller EXCEPT ![c] = NoCall]
    /\ UNCHANGED <<bucket, time, spent>>

-----------------------------------------------------------------------------
(* Valkey and time.                                                         *)

Tick ==
    /\ time.elapsed < MaxElapsed
    /\ time' = [time EXCEPT !.clock = @ + 1, !.elapsed = @ + 1]
    /\ caller' = [c \in Callers |->
                    [caller[c] EXCEPT !.delay = AtLeast(0, @ - 1)]]
    /\ UNCHANGED <<bucket, spent>>

(* The server's clock is corrected backwards. *)
StepBack ==
    /\ time.backs < MaxStepBacks
    /\ \E earlier \in 0 .. time.clock - 1 :
         time' = [time EXCEPT !.clock = earlier, !.backs = @ + 1]
    /\ caller' = Unpromised
    /\ UNCHANGED <<bucket, spent>>

(* Valkey drops an idle bucket: the next script starts from a full one. *)
Expire ==
    /\ bucket.exists
    /\ time.clock >= bucket.expiry
    /\ bucket' = [bucket EXCEPT !.exists = FALSE]
    /\ UNCHANGED <<caller, time, spent>>

BucketNext ==
    \/ \E c \in Callers : \/ StartCall(c) \/ Grant(c) \/ Wait(c) \/ Wake(c)
                          \/ Answer(c) \/ Adjust(c) \/ EndCall(c)
    \/ Tick
    \/ StepBack
    \/ Expire

BucketSpec == BucketInit /\ [][BucketNext]_bucketVars

-----------------------------------------------------------------------------
(* Properties.                                                              *)

(* The tokens the bucket owes: calls that used more than they reserved. *)
Debt == IF bucket.exists THEN AtLeast(0, -bucket.tokens) ELSE 0

(* A key that expires takes its debt with it.  What an idle life of two      *)
(* windows did not refill of the deepest debt there can be is forgiven.      *)
Forgiven == AtLeast(0, Cardinality(Callers) * Overshoot + Capacity - Rate * BucketTtl)

(* Fleet-wide pacing: whatever the calls, clocks, crashes and expiries do,   *)
(* the tokens charged since the start never exceed one full bucket plus what *)
(* refilled in the time that really passed, except for the debt the bucket   *)
(* still remembers and for what it forgave, once in the life of an idle key  *)
(* at most (the two Lua scripts and the TTL of a paused bucket,              *)
(* ratelimit.py:37-99,145-147).                                              *)
BudgetKept ==
    spent <= Capacity + Rate * time.elapsed + Debt + (time.elapsed \div BucketTtl) * Forgiven

(* A debt is no deeper than the calls in flight can overshoot together, so   *)
(* that one slow call cannot shut the others out for longer.                 *)
DebtBounded == Debt <= Cardinality(Callers) * Overshoot

(* A waiter that slept as long as it was told, while nobody took tokens,     *)
(* finds enough: the wait the script answers is rounded up, and a request is *)
(* clamped to what the bucket can hold (ratelimit.py:63,162).                *)
WaitIsEnough ==
    \A c \in Callers :
      caller[c].step = "sleep" /\ caller[c].delay = 0 /\ caller[c].promised
      => Refilled >= Need(c)

=============================================================================
