----------------------------- MODULE StoresProofs -----------------------------
(***************************************************************************)
(* The token bucket, the cache of presigned URLs, the task monitor and the *)
(* process with its pool, each for any values of its constants, and the    *)
(* composition: with the two stores that have a module of proofs of their  *)
(* own, each component behaves in StoresSpec as in its own specification,  *)
(* so that all that is proved of one alone holds where they stand together.*)
(***************************************************************************)
EXTENDS MCStores, CheckpointSaverProofs, UserdataProofs, FiniteSetTheorems, TLAPS

-----------------------------------------------------------------------------
(* TokenBucket.  One invariant, Balanced, gives all three properties: what   *)
(* the bucket would hold if it were touched now, Refilled, is the potential.  *)
(* A script moves tokens between it and "spent"; time adds at most Rate to    *)
(* it; a clock set back takes from it; and a key that expires adds at most    *)
(* Forgiven, which each unit of an idle life of the key pays for: Idle is how *)
(* much of that life has passed, and Lapses how many lives fit in the rest.   *)

(* The calls that will not be reconciled any more, or not yet. *)
Settled == {c \in Callers : caller[c].step \notin {"call", "reconcile"}}

(* A touched bucket: never above its capacity, and never in deeper debt than *)
(* the calls that were reconciled since it last had tokens to grant.         *)
BucketSound ==
    bucket.exists =>
      /\ bucket.tokens <= Capacity
      /\ bucket.expiry = bucket.ts + BucketTtl
      /\ bucket.tokens >= -(Overshoot * Cardinality(Settled))

(* How long the key has been idle, and how many idle lives the time before   *)
(* can have held.                                                            *)
Idle == IF bucket.exists THEN AtLeast(0, time.clock - bucket.ts) ELSE 0
Lapses == (time.elapsed - Idle) \div BucketTtl
Allowance == Capacity + Rate * time.elapsed + Lapses * Forgiven

(* Who sleeps on a promise finds enough after the rest of the sleep. *)
Promised(c) ==
    caller[c].step = "sleep" /\ caller[c].promised =>
      /\ bucket.exists => bucket.ts <= time.clock
      /\ Refilled + Rate * caller[c].delay >= Need(c)

Balanced ==
    /\ BucketTypeOK
    /\ \A c \in Callers : caller[c].step = "reconcile" => caller[c].delta <= Overshoot
    /\ BucketSound
    /\ Idle <= time.elapsed
    /\ spent + Refilled <= Allowance
    /\ \A c \in Callers : Promised(c)

USE BucketAssumption DEF BucketAssumption

-----------------------------------------------------------------------------
(* Arithmetic.                                                              *)

LEMMA Distribute == \A r, a, b \in Int : r * (a + b) = r * a + r * b
OBVIOUS

LEMMA Monotone == \A r \in Nat, a, b \in Int : a <= b => r * a <= r * b
OBVIOUS

LEMMA Scaled ==
    ASSUME NEW r \in Nat, NEW a \in Nat, NEW b \in Nat, a <= b
    PROVE  r * a <= r * b /\ r * a = a * r /\ r * b = b * r /\ r * a \in Nat /\ r * b \in Nat
OBVIOUS

LEMMA Carried ==
    \A s, old, new, a, b \in Int, n \in Nat :
      s + old <= a /\ new <= old + n /\ b >= a + n => s + new <= b
OBVIOUS

(* The wait is rounded up to a whole unit. *)
LEMMA WaitRefills ==
    ASSUME NEW missing \in Nat PROVE WaitFor(missing) \in Nat /\ Rate * WaitFor(missing) >= missing
BY DEF WaitFor

LEMMA Sizes ==
    /\ Capacity \in Nat /\ BucketTtl \in Nat
    /\ Cardinality(Callers) \in Nat
    /\ Overshoot * Cardinality(Callers) <= Rate * BucketTtl - Capacity + Forgiven
    /\ BucketTtl # 0 /\ Forgiven \in Nat /\ Rate * BucketTtl \in Nat
<1>1. Cardinality(Callers) \in Nat BY FS_CardinalityType
<1>2. AtLeast(1, Window) \in Nat /\ BucketTtl \in Nat BY DEF AtLeast, BucketTtl
<1>3. Capacity \in Nat BY <1>2 DEF Capacity
<1>4. /\ Overshoot * Cardinality(Callers) = Cardinality(Callers) * Overshoot
      /\ Cardinality(Callers) * Overshoot \in Nat
  BY <1>1
<1>5. Rate * BucketTtl \in Nat BY <1>2
<1>6. BucketTtl # 0 BY DEF BucketTtl, AtLeast
<1> QED BY <1>1, <1>2, <1>3, <1>4, <1>5, <1>6 DEF Forgiven, AtLeast

(* Lives of a key that fit in a time. *)
LEMMA DivGrows ==
    ASSUME NEW t \in Nat \ {0}, NEW a \in Nat, NEW b \in Nat, a <= b
    PROVE  a \div t \in Nat /\ b \div t \in Nat /\ a \div t <= b \div t
OBVIOUS

LEMMA DivOneMore ==
    ASSUME NEW t \in Nat \ {0}, NEW a \in Nat
    PROVE  (a + t) \div t = a \div t + 1
OBVIOUS

(* The calls that are settled are finitely many. *)
LEMMA SettledFinite == IsFiniteSet(Settled) /\ Cardinality(Settled) \in Nat
                         /\ Cardinality(Settled) <= Cardinality(Callers)
BY FS_Subset, FS_CardinalityType DEF Settled

-----------------------------------------------------------------------------
(* The bucket.                                                              *)

LEMMA RefilledFacts ==
    ASSUME BucketTypeOK, BucketSound
    PROVE  /\ Refilled \in Int /\ Refilled <= Capacity
           /\ bucket.exists => Refilled >= bucket.tokens
           /\ Refilled >= -(Overshoot * Cardinality(Settled))
<1> DEFINE waited == AtLeast(0, time.clock - bucket.ts)
<1>1. waited \in Nat BY DEF BucketTypeOK, Buckets, Times, AtLeast
<1>2. bucket.tokens \in Int BY DEF BucketTypeOK, Buckets
<1>3. waited * Rate \in Nat BY <1>1
<1>4. Capacity \in Nat BY Sizes
<1>5. Overshoot * Cardinality(Settled) \in Nat BY SettledFinite
<1>6. Refilled = IF bucket.exists THEN AtMost(Capacity, bucket.tokens + waited * Rate)
                 ELSE Capacity
  BY DEF Refilled
<1> HIDE DEF waited
<1> QED BY <1>2, <1>3, <1>4, <1>5, <1>6 DEF BucketSound, AtMost

(* The same of the state after a step. *)
Typed == Refilled \in Int

LEMMA RefilledInt == BucketTypeOK /\ BucketSound => Typed
BY RefilledFacts DEF Typed

LEMMA RefilledNext == BucketTypeOK' /\ BucketSound' => Typed'
BY RefilledInt, PTL

(* What may be spent only grows with time, and when the key is touched. *)
LEMMA AllowanceGrows ==
    ASSUME BucketTypeOK, BucketTypeOK', Idle <= time.elapsed, NEW n \in Nat,
           time'.elapsed = time.elapsed + n, Idle' <= Idle + n
    PROVE  /\ Idle' <= time'.elapsed
           /\ Allowance \in Int /\ Allowance' \in Int
           /\ Allowance' >= Allowance + Rate * n
<1>1. /\ Idle \in Nat /\ Idle' \in Nat /\ time.elapsed \in Nat
      /\ Capacity \in Nat /\ BucketTtl \in Nat \ {0} /\ Forgiven \in Nat
  BY Sizes DEF BucketTypeOK, Buckets, Times, Idle, AtLeast
<1> DEFINE before == time.elapsed - Idle
           after == time'.elapsed - Idle'
<1>2. before \in Nat /\ after \in Nat /\ before <= after /\ Idle' <= time'.elapsed
  BY <1>1
<1>3. Lapses = before \div BucketTtl /\ Lapses' = after \div BucketTtl BY DEF Lapses
<1> HIDE DEF before, after
<1>4. Lapses \in Nat /\ Lapses' \in Nat /\ Lapses <= Lapses' BY <1>1, <1>2, <1>3, DivGrows
<1>5. /\ Forgiven * Lapses <= Forgiven * Lapses'
      /\ Forgiven * Lapses = Lapses * Forgiven /\ Forgiven * Lapses' = Lapses' * Forgiven
      /\ Forgiven * Lapses \in Nat /\ Forgiven * Lapses' \in Nat
  BY <1>1, <1>4, Scaled
<1>6. /\ Rate * time'.elapsed = Rate * time.elapsed + Rate * n
      /\ Rate * time.elapsed \in Nat /\ Rate * n \in Nat
  BY <1>1, Distribute
<1>7. /\ Allowance = Capacity + Rate * time.elapsed + Forgiven * Lapses
      /\ Allowance' = Capacity + Rate * time'.elapsed + Forgiven * Lapses'
  BY <1>5 DEF Allowance
<1> QED BY <1>1, <1>2, <1>5, <1>6, <1>7

(* A script leaves what it says, refilled up to the moment it ran. *)
LEMMA TouchedFacts ==
    ASSUME BucketTypeOK, NEW x \in Int, x <= Capacity, bucket' = Touched(x), UNCHANGED time
    PROVE  /\ bucket' \in Buckets
           /\ bucket'.exists /\ bucket'.tokens = x
           /\ bucket'.ts = time'.clock /\ bucket'.expiry = bucket'.ts + BucketTtl
           /\ Refilled' = x /\ Idle' = 0
<1>1. time.clock \in Nat /\ BucketTtl \in Nat /\ Capacity \in Nat
  BY Sizes DEF BucketTypeOK, Times
<1>2. Touched(x) = [exists |-> TRUE, tokens |-> x, ts |-> time.clock,
                    expiry |-> time.clock + BucketTtl]
  BY DEF Touched
<1>3. Touched(x) \in Buckets BY <1>1, <1>2 DEF Buckets
<1>4. /\ bucket'.exists /\ bucket'.tokens = x
      /\ bucket'.ts = time'.clock /\ bucket'.expiry = bucket'.ts + BucketTtl
  BY <1>2
<1>5. time'.clock - bucket'.ts = 0 BY <1>1, <1>4
<1>6. /\ Refilled' = AtMost(Capacity, x + AtLeast(0, 0) * Rate) /\ Idle' = AtLeast(0, 0)
  BY <1>4, <1>5 DEF Refilled, Idle
<1>7. AtLeast(0, 0) = 0 BY DEF AtLeast
<1>8. 0 * Rate = 0 /\ x + 0 = x OBVIOUS
<1>9. Refilled' = AtMost(Capacity, x) /\ Idle' = 0 BY <1>6, <1>7, <1>8
<1>10. AtMost(Capacity, x) = x BY <1>1 DEF AtMost
<1> QED BY <1>3, <1>4, <1>9, <1>10

(* A step that takes no time and touches the key, or leaves it. *)
LEMMA AllowanceKept ==
    ASSUME Balanced, BucketTypeOK', UNCHANGED time, Idle' \in {0, Idle}
    PROVE  Idle' <= time'.elapsed /\ Allowance \in Int /\ Allowance' \in Int /\ Allowance <= Allowance'
<1>1. time.elapsed \in Nat /\ Idle \in Nat
  BY DEF Balanced, BucketTypeOK, Buckets, Times, Idle, AtLeast
<1>2. Idle' <= Idle + 0 /\ time'.elapsed = time.elapsed + 0 BY <1>1
<1>3. Rate * 0 = 0 OBVIOUS
<1> QED BY <1>2, <1>3, AllowanceGrows DEF Balanced

LEMMA NeedType ==
    ASSUME BucketTypeOK, NEW c \in Callers PROVE Need(c) \in Nat /\ Need(c) <= Capacity
BY Sizes DEF BucketTypeOK, CallerStates, Need, AtMost

LEMMA UnpromisedFacts ==
    ASSUME BucketTypeOK
    PROVE  /\ Unpromised \in [Callers -> CallerStates]
           /\ \A q \in Callers : /\ Unpromised[q].step = caller[q].step
                                 /\ Unpromised[q].delta = caller[q].delta
                                 /\ Unpromised[q].promised = FALSE
BY DEF BucketTypeOK, Unpromised, CallerStates

(* Debts may be deeper when more calls are settled. *)
LEMMA DeeperBound ==
    ASSUME NEW S, NEW T, IsFiniteSet(T), S \subseteq T
    PROVE  -(Overshoot * Cardinality(T)) <= -(Overshoot * Cardinality(S))
<1>1. IsFiniteSet(S) /\ Cardinality(S) <= Cardinality(T) BY FS_Subset
<1>2. Cardinality(S) \in Nat /\ Cardinality(T) \in Nat BY <1>1, FS_CardinalityType
<1> QED BY <1>1, <1>2, Monotone

-----------------------------------------------------------------------------
(* The steps of the calls.                                                  *)

(* A call moves, the bucket does not. *)
LEMMA CallerMove ==
    ASSUME Balanced, NEW c \in Callers, NEW new \in CallerStates,
           caller' = [caller EXCEPT ![c] = new],
           UNCHANGED <<bucket, time, spent>>,
           new.step = "reconcile" => new.delta <= Overshoot,
           new.step \in {"call", "reconcile"} => caller[c].step \in {"call", "reconcile"},
           new.step # "sleep"
    PROVE  Balanced'
<1>1. BucketTypeOK' BY DEF Balanced, BucketTypeOK
<1>2. \A q \in Callers : caller'[q] = IF q = c THEN new ELSE caller[q]
  BY DEF Balanced, BucketTypeOK
<1>3. Refilled' = Refilled /\ Idle' = Idle /\ Allowance' = Allowance
  BY DEF Refilled, Idle, Allowance, Lapses
<1>4. BucketSound'
  <2>1. Settled \subseteq Settled' BY <1>2 DEF Settled
  <2>2. IsFiniteSet(Settled') BY FS_Subset DEF Settled
  <2>3. -(Overshoot * Cardinality(Settled')) <= -(Overshoot * Cardinality(Settled))
    BY <2>1, <2>2, DeeperBound
  <2>4. Cardinality(Settled') \in Nat BY <2>2, FS_CardinalityType
  <2>5. bucket.tokens \in Int BY DEF Balanced, BucketTypeOK, Buckets
  <2> QED BY <2>3, <2>4, <2>5, SettledFinite DEF Balanced, BucketSound
<1>5. \A q \in Callers : Promised(q)'
  BY <1>2, <1>3 DEF Balanced, Promised, Need
<1>6. \A q \in Callers : caller'[q].step = "reconcile" => caller'[q].delta <= Overshoot
  BY <1>2 DEF Balanced
<1> QED BY <1>1, <1>3, <1>4, <1>5, <1>6 DEF Balanced

LEMMA CallsBalanced ==
    ASSUME Balanced, NEW c \in Callers, StartCall(c) \/ Wake(c) \/ Answer(c) \/ EndCall(c)
    PROVE  Balanced'
<1> USE DEF CallerStates, CallerSteps
<1>0. caller \in [Callers -> CallerStates] BY DEF Balanced, BucketTypeOK
<1>1. CASE StartCall(c)
  <2>1. PICK e \in 0 .. MaxEstimate :
          caller' = [caller EXCEPT ![c] = [NoCall EXCEPT !.step = "acquire", !.estimate = e]]
    BY <1>1 DEF StartCall
  <2> DEFINE new == [NoCall EXCEPT !.step = "acquire", !.estimate = e]
  <2>2. NoCall \in CallerStates /\ e \in Nat BY DEF NoCall
  <2>3. new \in CallerStates /\ new.step = "acquire" BY <2>2
  <2>4. caller' = [caller EXCEPT ![c] = new] BY <2>1
  <2> HIDE DEF new
  <2> QED BY <1>1, <2>3, <2>4, CallerMove DEF StartCall
<1>2. CASE Wake(c)
  <2> DEFINE new == [caller[c] EXCEPT !.step = "acquire"]
  <2>1. caller' = [caller EXCEPT ![c] = new] BY <1>2 DEF Wake
  <2>2. new \in CallerStates /\ new.step = "acquire" BY <1>0
  <2> HIDE DEF new
  <2> QED BY <1>2, <2>1, <2>2, CallerMove DEF Wake
<1>3. CASE Answer(c)
  <2>1. PICK actual \in 1 .. caller[c].estimate + Overshoot :
          caller' = [caller EXCEPT ![c].step = "reconcile",
                                   ![c].delta = actual - caller[c].estimate]
    BY <1>3 DEF Answer
  <2>2. caller[c].estimate \in Nat BY <1>0
  <2> DEFINE delta == actual - caller[c].estimate
  <2>3. delta \in Int /\ delta <= Overshoot BY <2>2
  <2> DEFINE new == [caller[c] EXCEPT !.step = "reconcile", !.delta = delta]
  <2>4. caller' = [caller EXCEPT ![c] = new] BY <1>0, <2>1
  <2> HIDE DEF delta
  <2>5. new \in CallerStates /\ new.step = "reconcile" /\ new.delta <= Overshoot BY <1>0, <2>3
  <2> HIDE DEF new
  <2> QED BY <1>3, <2>4, <2>5, CallerMove DEF Answer
<1>4. CASE EndCall(c)
  <2>1. NoCall \in CallerStates /\ NoCall.step = "idle" BY DEF NoCall
  <2> QED BY <1>4, <2>1, CallerMove DEF EndCall
<1> QED BY <1>1, <1>2, <1>3, <1>4

(* A grant leaves no debt, and breaks every promise. *)
LEMMA GrantBalanced ==
    ASSUME Balanced, NEW c \in Callers, Grant(c) PROVE Balanced'
<1> DEFINE x == Refilled - Need(c)
<1>1. x \in Nat /\ x <= Capacity /\ Refilled \in Int /\ Need(c) \in Nat
  BY RefilledFacts, NeedType, Sizes DEF Balanced, Grant
<1>2. bucket' = Touched(x) /\ UNCHANGED time BY DEF Grant
<1>3. /\ bucket' \in Buckets /\ bucket'.exists /\ bucket'.tokens = x
      /\ bucket'.expiry = bucket'.ts + BucketTtl /\ Refilled' = x /\ Idle' = 0
  BY <1>1, <1>2, TouchedFacts DEF Balanced
<1> HIDE DEF x
<1>4. /\ caller' \in [Callers -> CallerStates]
      /\ \A q \in Callers : /\ ~caller'[q].promised
                            /\ caller'[q].step = IF q = c THEN "call" ELSE caller[q].step
                            /\ caller'[q].delta = caller[q].delta
  <2>1. caller' = [Unpromised EXCEPT ![c] = [@ EXCEPT !.step = "call"]] BY DEF Grant
  <2>2. [Unpromised[c] EXCEPT !.step = "call"] \in CallerStates
    BY UnpromisedFacts DEF Balanced, CallerStates, CallerSteps
  <2>3. /\ [Unpromised[c] EXCEPT !.step = "call"].promised = FALSE
        /\ [Unpromised[c] EXCEPT !.step = "call"].step = "call"
        /\ [Unpromised[c] EXCEPT !.step = "call"].delta = caller[c].delta
    BY UnpromisedFacts DEF Balanced, CallerStates
  <2> QED BY <2>1, <2>2, <2>3, UnpromisedFacts DEF Balanced
<1>5. spent' = spent + Need(c) /\ spent \in Int BY DEF Grant, Balanced, BucketTypeOK
<1>6. BucketTypeOK' BY <1>1, <1>2, <1>3, <1>4, <1>5 DEF Balanced, BucketTypeOK
<1>7. BucketSound'
  <2>1. IsFiniteSet(Settled') BY FS_Subset DEF Settled
  <2>2. Overshoot * Cardinality(Settled') \in Nat BY <2>1, FS_CardinalityType
  <2> QED BY <1>1, <1>3, <2>2 DEF BucketSound
<1>8. spent' + Refilled' = spent + Refilled BY <1>1, <1>3, <1>5 DEF x
<1>9. Idle' <= time'.elapsed /\ spent' + Refilled' <= Allowance'
  <2>1. spent \in Int /\ Refilled \in Int BY <1>1, <1>5
  <2> QED BY <1>2, <1>3, <1>6, <1>8, <2>1, AllowanceKept DEF Balanced
<1> QED BY <1>4, <1>6, <1>7, <1>9 DEF Balanced, Promised

(* A refused request leaves the bucket refilled, and a promise to itself. *)
LEMMA WaitBalanced ==
    ASSUME Balanced, NEW c \in Callers, Wait(c) PROVE Balanced'
<1> DEFINE missing == Need(c) - Refilled
           wait == WaitFor(missing)
<1>1. Refilled \in Int /\ Refilled <= Capacity /\ Need(c) \in Nat /\ missing \in Nat
  BY RefilledFacts, NeedType DEF Balanced, Wait
<1>2. wait \in Nat /\ Rate * wait >= missing BY <1>1, WaitRefills
<1>3. bucket' = Touched(Refilled) /\ UNCHANGED <<time, spent>> BY DEF Wait
<1>4. /\ bucket' \in Buckets /\ bucket'.exists /\ bucket'.tokens = Refilled
      /\ bucket'.ts = time'.clock
      /\ bucket'.expiry = bucket'.ts + BucketTtl /\ Refilled' = Refilled /\ Idle' = 0
  BY <1>1, <1>3, TouchedFacts DEF Balanced
<1> DEFINE kept == (wait <= MaxSleep)
           new == [caller[c] EXCEPT !.step = "sleep", !.delay = AtMost(wait, MaxSleep),
                                    !.promised = kept]
<1>5. caller' = [caller EXCEPT ![c] = new]
  BY DEF Wait, Balanced, BucketTypeOK
<1>6. AtMost(wait, MaxSleep) \in Nat /\ (kept => AtMost(wait, MaxSleep) = wait) /\ kept \in BOOLEAN
  BY <1>2 DEF AtMost
<1> HIDE DEF kept, wait, missing
<1>7. new \in CallerStates /\ new.step = "sleep" /\ new.delay = AtMost(wait, MaxSleep)
      /\ new.promised = kept /\ new.estimate = caller[c].estimate
  BY <1>6 DEF Balanced, BucketTypeOK, CallerStates, CallerSteps
<1> HIDE DEF new
<1>8. \A q \in Callers : caller'[q] = IF q = c THEN new ELSE caller[q]
  BY <1>5 DEF Balanced, BucketTypeOK
<1>9. BucketTypeOK' BY <1>3, <1>4, <1>5, <1>7 DEF Balanced, BucketTypeOK
<1>10. BucketSound'
  <2>1. Settled' = Settled BY <1>7, <1>8 DEF Settled, Wait
  <2> QED BY <1>1, <1>4, <2>1, RefilledFacts DEF Balanced, BucketSound
<1>11. ASSUME NEW q \in Callers PROVE Promised(q)'
  <2>1. Need(q)' = Need(q) BY <1>7, <1>8 DEF Need
  <2>2. CASE q # c
    <3>1. caller'[q] = caller[q] /\ Promised(q) BY <1>8, <2>2 DEF Balanced
    <3>2. bucket'.ts <= time'.clock BY <1>4, <1>9 DEF BucketTypeOK, Times
    <3> QED BY <1>4, <2>1, <3>1, <3>2 DEF Promised
  <2>3. CASE q = c
    <3>1. kept => Rate * new.delay >= Need(c) - Refilled BY <1>2, <1>6, <1>7 DEF missing
    <3>2. Rate * new.delay \in Nat BY <1>6, <1>7
    <3>3. kept => Refilled' + Rate * new.delay >= Need(c)' BY <1>1, <1>4, <2>1, <2>3, <3>1, <3>2
    <3> QED BY <1>4, <1>7, <1>8, <1>9, <2>3, <3>3 DEF Promised, BucketTypeOK, Times
  <2> QED BY <2>2, <2>3
<1>12. \A q \in Callers : caller'[q].step = "reconcile" => caller'[q].delta <= Overshoot
  BY <1>7, <1>8 DEF Balanced
<1>13. Idle' <= time'.elapsed /\ spent' + Refilled' <= Allowance'
  <2>1. spent \in Int BY DEF Balanced, BucketTypeOK
  <2> QED BY <1>1, <1>3, <1>4, <1>9, <2>1, AllowanceKept DEF Balanced
<1> QED BY <1>9, <1>10, <1>11, <1>12, <1>13 DEF Balanced

(* Reconciling settles one call more, and takes no more than its overshoot. *)
LEMMA AdjustBalanced ==
    ASSUME Balanced, NEW c \in Callers, Adjust(c) PROVE Balanced'
<1> DEFINE delta == caller[c].delta
           x == AtMost(Capacity, Refilled - delta)
<1>1. /\ delta \in Int /\ delta <= Overshoot /\ Refilled \in Int /\ Refilled <= Capacity
      /\ Refilled >= -(Overshoot * Cardinality(Settled)) /\ Capacity \in Nat
  BY RefilledFacts, Sizes DEF Balanced, Adjust, BucketTypeOK, CallerStates
<1>2. x \in Int /\ x <= Capacity /\ x <= Refilled - delta
      /\ (delta <= 0 => x >= Refilled) /\ x >= -(Overshoot * Cardinality(Settled)) - Overshoot
  <2>1. Overshoot * Cardinality(Settled) \in Nat BY SettledFinite
  <2> QED BY <1>1, <2>1 DEF AtMost
<1>3. bucket' = Touched(x) /\ UNCHANGED time /\ spent' = spent + delta BY DEF Adjust
<1> HIDE DEF x, delta
<1>4. /\ bucket' \in Buckets /\ bucket'.exists /\ bucket'.tokens = x
      /\ bucket'.ts = time'.clock
      /\ bucket'.expiry = bucket'.ts + BucketTtl /\ Refilled' = x /\ Idle' = 0
  BY <1>2, <1>3, TouchedFacts DEF Balanced
<1>5. NoCall \in CallerStates /\ NoCall.step = "idle" BY DEF NoCall, CallerStates, CallerSteps
<1>6. /\ caller' \in [Callers -> CallerStates]
      /\ caller'[c] = NoCall
      /\ \A q \in Callers \ {c} :
           /\ caller'[q].step = caller[q].step /\ caller'[q].delta = caller[q].delta
           /\ delta > 0 => ~caller'[q].promised
           /\ delta <= 0 => caller'[q] = caller[q]
  <2>1. CASE delta > 0
    <3>1. caller' = [Unpromised EXCEPT ![c] = NoCall] BY <2>1 DEF Adjust, delta
    <3>2. ~(delta <= 0) BY <1>1, <2>1
    <3>3. Unpromised \in [Callers -> CallerStates] BY UnpromisedFacts DEF Balanced
    <3>4. /\ caller' \in [Callers -> CallerStates] /\ caller'[c] = NoCall
          /\ \A q \in Callers \ {c} : caller'[q] = Unpromised[q]
      BY <1>5, <3>1, <3>3
    <3> QED BY <3>2, <3>4, UnpromisedFacts DEF Balanced
  <2>2. CASE ~(delta > 0)
    <3>1. caller' = [caller EXCEPT ![c] = NoCall] BY <2>2 DEF Adjust, delta
    <3> QED BY <1>1, <1>5, <2>2, <3>1 DEF Balanced, BucketTypeOK
  <2> QED BY <2>1, <2>2
<1>7. BucketTypeOK'
  <2>1. spent \in Int BY DEF Balanced, BucketTypeOK
  <2> QED BY <1>1, <1>3, <1>4, <1>6, <2>1 DEF Balanced, BucketTypeOK
<1>8. BucketSound'
  <2>1. Settled' = Settled \cup {c} /\ c \notin Settled
    BY <1>5, <1>6 DEF Settled, Adjust
  <2>2. Cardinality(Settled') = Cardinality(Settled) + 1
    BY <2>1, SettledFinite, FS_AddElement
  <2>3. Overshoot * Cardinality(Settled') = Overshoot * Cardinality(Settled) + Overshoot
    BY <2>2, SettledFinite, Distribute
  <2>4. Overshoot * Cardinality(Settled) \in Nat BY SettledFinite
  <2> QED BY <1>2, <1>4, <2>3, <2>4 DEF BucketSound
<1>9. Idle' <= time'.elapsed /\ spent' + Refilled' <= Allowance'
  <2>1. spent \in Int BY DEF Balanced, BucketTypeOK
  <2>2. /\ Idle' <= time'.elapsed /\ Allowance \in Int /\ Allowance' \in Int
        /\ Allowance <= Allowance'
    BY <1>3, <1>4, <1>7, AllowanceKept
  <2>3. spent + Refilled <= Allowance BY DEF Balanced
  <2> QED BY <1>1, <1>2, <1>3, <1>4, <2>1, <2>2, <2>3
<1>10. ASSUME NEW q \in Callers PROVE Promised(q)'
  <2>1. CASE q = c \/ delta > 0 BY <1>5, <1>6, <2>1, NoCall.promised = FALSE DEF Promised, NoCall
  <2>2. CASE q # c /\ ~(delta > 0)
    <3>1. caller'[q] = caller[q] /\ Promised(q) /\ Need(q)' = Need(q)
      BY <1>1, <1>6, <2>2 DEF Balanced, Need
    <3>2. bucket'.ts <= time'.clock BY <1>4, <1>7 DEF BucketTypeOK, Times
    <3>3. Refilled' >= Refilled BY <1>1, <1>2, <1>4, <2>2
    <3>4. Rate * caller[q].delay \in Nat /\ Need(q) \in Nat
      BY NeedType DEF Balanced, BucketTypeOK, CallerStates
    <3>5. caller[q].step = "sleep" /\ caller[q].promised =>
            Refilled' + Rate * caller[q].delay >= Need(q)
      BY <1>1, <1>2, <1>4, <3>1, <3>3, <3>4 DEF Promised
    <3> QED BY <3>1, <3>2, <3>5 DEF Promised
  <2> QED BY <2>1, <2>2
<1>11. \A q \in Callers : caller'[q].step = "reconcile" => caller'[q].delta <= Overshoot
  BY <1>5, <1>6 DEF Balanced
<1> QED BY <1>7, <1>8, <1>9, <1>10, <1>11 DEF Balanced

-----------------------------------------------------------------------------
(* The steps of time and of Valkey.                                         *)

(* What waiting longer adds. *)
LEMMA LaterRefill ==
    ASSUME BucketTypeOK, BucketSound, NEW later \in Nat,
           UNCHANGED bucket, time'.clock = later
    PROVE  /\ later <= time.clock => Refilled' <= Refilled
           /\ later = time.clock + 1 =>
                /\ Refilled' <= Refilled + Rate
                /\ (bucket.exists => bucket.ts <= time.clock) =>
                      Refilled' = AtMost(Capacity, Refilled + Rate)
<1>1. CASE ~bucket.exists BY <1>1, Sizes DEF Refilled, AtMost
<1>2. CASE bucket.exists
  <2> DEFINE before == AtLeast(0, time.clock - bucket.ts)
             after == AtLeast(0, later - bucket.ts)
  <2>1. time.clock \in Nat /\ bucket.ts \in Nat /\ bucket.tokens \in Int /\ Capacity \in Nat
    BY Sizes DEF BucketTypeOK, Buckets, Times
  <2>2. before \in Nat /\ after \in Nat BY <2>1 DEF AtLeast
  <2>3. /\ Refilled = AtMost(Capacity, bucket.tokens + before * Rate)
        /\ Refilled' = AtMost(Capacity, bucket.tokens + after * Rate)
    BY <1>2 DEF Refilled
  <2>4. /\ later <= time.clock => after <= before
        /\ later = time.clock + 1 => after <= before + 1 /\ before <= after
        /\ later = time.clock + 1 /\ bucket.ts <= time.clock => after = before + 1
    BY <2>1 DEF AtLeast
  <2> HIDE DEF before, after
  <2>5. /\ after * Rate = Rate * after /\ before * Rate = Rate * before
        /\ Rate * before \in Nat /\ Rate * after \in Nat
        /\ Rate * (before + 1) = Rate * before + Rate
    BY <2>2, Distribute
  <2>6. /\ after <= before => Rate * after <= Rate * before
        /\ after <= before + 1 => Rate * after <= Rate * (before + 1)
    BY <2>2, Monotone
  <2> QED BY <1>2, <2>1, <2>2, <2>3, <2>4, <2>5, <2>6 DEF AtMost
<1> QED BY <1>1, <1>2

LEMMA TickBalanced == ASSUME Balanced, Tick PROVE Balanced'
<1>1. time' = [time EXCEPT !.clock = @ + 1, !.elapsed = @ + 1] /\ time \in Times
  BY DEF Tick, Balanced, BucketTypeOK
<1>2. /\ time' \in Times /\ time'.clock = time.clock + 1
      /\ time'.elapsed = time.elapsed + 1
      /\ time.clock \in Nat /\ time.elapsed \in Nat
  <2> DEFINE clock == time.clock + 1
             elapsed == time.elapsed + 1
  <2>1. time.clock \in Nat /\ time.elapsed \in Nat /\ clock \in Nat /\ elapsed \in Nat
    BY <1>1 DEF Times
  <2>2. time' = [time EXCEPT !.clock = clock, !.elapsed = elapsed] BY <1>1
  <2> HIDE DEF clock, elapsed
  <2>3. time' \in Times /\ time'.clock = clock /\ time'.elapsed = elapsed
    BY <1>1, <2>1, <2>2 DEF Times
  <2> QED BY <2>1, <2>3 DEF clock, elapsed
<1>3. UNCHANGED <<bucket, spent>> BY DEF Tick
<1>4. /\ Refilled \in Int /\ Refilled <= Capacity /\ Refilled' <= Refilled + Rate
      /\ (bucket.exists => bucket.ts <= time.clock) =>
            Refilled' = AtMost(Capacity, Refilled + Rate)
  BY <1>2, <1>3, RefilledFacts, LaterRefill DEF Balanced
<1>5. /\ caller' \in [Callers -> CallerStates]
      /\ \A q \in Callers :
           /\ caller'[q].step = caller[q].step /\ caller'[q].delta = caller[q].delta
           /\ caller'[q].promised = caller[q].promised
           /\ caller'[q].estimate = caller[q].estimate
           /\ caller'[q].delay = AtLeast(0, caller[q].delay - 1)
  <2>1. \A q \in Callers : AtLeast(0, caller[q].delay - 1) \in Nat
    BY DEF AtLeast, Balanced, BucketTypeOK, CallerStates
  <2>2. caller' = [q \in Callers |->
                     [caller[q] EXCEPT !.delay = AtLeast(0, caller[q].delay - 1)]]
    BY DEF Tick, Balanced, BucketTypeOK
  <2> QED BY <2>1, <2>2 DEF Balanced, BucketTypeOK, CallerStates
<1>6. BucketTypeOK' BY <1>2, <1>3, <1>5 DEF Balanced, BucketTypeOK
<1>7. BucketSound'
  <2>1. Settled' = Settled BY <1>5 DEF Settled
  <2> QED BY <1>3, <2>1 DEF Balanced, BucketSound
<1>8. Idle' <= time'.elapsed /\ spent' + Refilled' <= Allowance'
  <2>1. Idle' <= Idle + 1
    BY <1>2, <1>3 DEF Idle, AtLeast, Balanced, BucketTypeOK, Buckets
  <2>2. /\ Idle' <= time'.elapsed /\ Allowance \in Int /\ Allowance' \in Int
        /\ Allowance' >= Allowance + Rate
    BY <1>2, <1>6, <2>1, AllowanceGrows, Rate * 1 = Rate DEF Balanced
  <2>3. Refilled' \in Int /\ spent \in Int
    BY <1>6, <1>7, RefilledNext DEF Typed, Balanced, BucketTypeOK
  <2>4. spent + Refilled <= Allowance BY DEF Balanced
  <2>5. spent + Refilled' <= Allowance' BY <1>4, <2>2, <2>3, <2>4, Carried
  <2> QED BY <1>3, <2>2, <2>5
<1>9. ASSUME NEW q \in Callers, caller[q].step = "sleep", caller[q].promised
      PROVE  Promised(q)'
  <2>1. /\ bucket.exists => bucket.ts <= time.clock
        /\ Refilled + Rate * caller[q].delay >= Need(q)
    BY <1>9 DEF Balanced, Promised
  <2>2. Need(q)' = Need(q) /\ Need(q) \in Nat /\ Need(q) <= Capacity /\ Capacity \in Nat
    BY <1>5, NeedType, Sizes DEF Balanced, Need
  <2>3. caller[q].delay \in Nat BY DEF Balanced, BucketTypeOK, CallerStates
  <2> DEFINE left == AtLeast(0, caller[q].delay - 1)
  <2>4. left \in Nat /\ (left + 1 = caller[q].delay \/ (left = 0 /\ caller[q].delay = 0))
    BY <2>3 DEF AtLeast
  <2>5. caller'[q].delay = left BY <1>5
  <2> HIDE DEF left
  <2>6. Rate * left \in Nat /\ Rate * (left + 1) = Rate * left + Rate BY <2>4, Distribute
  <2>7. Refilled' = AtMost(Capacity, Refilled + Rate) BY <1>4, <2>1
  <2>8. Refilled' + Rate * left >= Need(q)
    <3>1. CASE Refilled + Rate >= Capacity BY <1>4, <2>2, <2>6, <2>7, <3>1 DEF AtMost
    <3>2. CASE Refilled + Rate < Capacity
      <4>1. Refilled' = Refilled + Rate BY <1>4, <2>2, <2>7, <3>2 DEF AtMost
      <4>2. CASE left + 1 = caller[q].delay
        <5>1. Refilled + (Rate * left + Rate) >= Need(q) BY <2>1, <2>6, <4>2
        <5> QED BY <1>4, <2>2, <2>6, <4>1, <5>1
      <4>3. CASE left = 0 /\ caller[q].delay = 0
        <5>1. Rate * left = 0 /\ Refilled + Rate * left >= Need(q) BY <2>1, <4>3
        <5> QED BY <1>4, <2>2, <4>1, <5>1
      <4> QED BY <2>4, <4>2, <4>3
    <3> QED BY <1>4, <2>2, <3>1, <3>2
  <2>9. bucket'.exists => bucket'.ts <= time'.clock
    BY <1>2, <1>3, <2>1 DEF Balanced, BucketTypeOK, Buckets
  <2> QED BY <2>2, <2>5, <2>8, <2>9 DEF Promised
<1>10. \A q \in Callers : Promised(q)'
  <2>1. \A q \in Callers : ~(caller[q].step = "sleep" /\ caller[q].promised) => Promised(q)'
    BY <1>5 DEF Promised
  <2> QED BY <1>9, <2>1
<1>11. \A q \in Callers : caller'[q].step = "reconcile" => caller'[q].delta <= Overshoot
  BY <1>5 DEF Balanced
<1> QED BY <1>6, <1>7, <1>8, <1>10, <1>11 DEF Balanced

LEMMA StepBackBalanced == ASSUME Balanced, StepBack PROVE Balanced'
<1>1. PICK earlier \in 0 .. time.clock - 1 :
        time' = [time EXCEPT !.clock = earlier, !.backs = @ + 1]
  BY DEF StepBack
<1>2. time \in Times BY DEF Balanced, BucketTypeOK
<1>3. /\ time' \in Times /\ time'.clock = earlier /\ time'.elapsed = time.elapsed
      /\ earlier \in Nat /\ earlier <= time.clock
  <2> DEFINE backs == time.backs + 1
  <2>1. time.clock \in Nat /\ backs \in Nat /\ earlier \in Nat /\ earlier <= time.clock
    BY <1>2 DEF Times
  <2>2. time' = [time EXCEPT !.clock = earlier, !.backs = backs] BY <1>1
  <2> HIDE DEF backs
  <2> QED BY <1>2, <2>1, <2>2 DEF Times
<1>4. UNCHANGED <<bucket, spent>> /\ caller' = Unpromised BY DEF StepBack
<1>5. Refilled' <= Refilled /\ Refilled \in Int
  BY <1>3, <1>4, RefilledFacts, LaterRefill DEF Balanced
<1>6. BucketTypeOK' BY <1>3, <1>4, UnpromisedFacts DEF Balanced, BucketTypeOK
<1>7. BucketSound'
  <2>1. Settled' = Settled BY <1>4, UnpromisedFacts DEF Settled, Balanced
  <2> QED BY <1>4, <2>1 DEF Balanced, BucketSound
<1>8. Idle' <= time'.elapsed /\ spent' + Refilled' <= Allowance'
  <2>1. Refilled' \in Int /\ spent \in Int
    BY <1>6, <1>7, RefilledNext DEF Typed, Balanced, BucketTypeOK
  <2>2. Idle' <= Idle + 0 /\ time'.elapsed = time.elapsed + 0
    BY <1>2, <1>3, <1>4 DEF Idle, AtLeast, Balanced, BucketTypeOK, Buckets, Times
  <2>3. /\ Idle' <= time'.elapsed /\ Allowance \in Int /\ Allowance' \in Int
        /\ Allowance' >= Allowance
    BY <1>6, <2>2, AllowanceGrows, Rate * 0 = 0 DEF Balanced
  <2>4. spent + Refilled <= Allowance BY DEF Balanced
  <2>5. Refilled' <= Refilled + 0 /\ Allowance' >= Allowance + 0 BY <1>5, <2>1, <2>3
  <2>6. spent + Refilled' <= Allowance' BY <1>5, <2>1, <2>3, <2>4, <2>5, Carried
  <2> QED BY <1>4, <2>3, <2>6
<1>9. \A q \in Callers : Promised(q)' BY <1>4, UnpromisedFacts DEF Balanced, Promised
<1>10. \A q \in Callers : caller'[q].step = "reconcile" => caller'[q].delta <= Overshoot
  BY <1>4, UnpromisedFacts DEF Balanced
<1> QED BY <1>6, <1>7, <1>8, <1>9, <1>10 DEF Balanced

(* What a bucket that expires lacks of its capacity is forgiven, and an idle  *)
(* life of its key is over.                                                   *)
LEMMA ExpireBalanced == ASSUME Balanced, Expire PROVE Balanced'
<1>1. /\ bucket.exists /\ bucket.tokens \in Int /\ bucket.ts \in Nat /\ time.clock \in Nat
      /\ bucket.tokens >= -(Overshoot * Cardinality(Settled))
      /\ time.clock >= bucket.ts + BucketTtl /\ time.elapsed \in Nat
  BY DEF Expire, Balanced, BucketSound, BucketTypeOK, Buckets, Times
<1> DEFINE waited == AtLeast(0, time.clock - bucket.ts)
<1>2. waited \in Nat /\ waited >= BucketTtl BY <1>1, Sizes DEF AtLeast
<1>3. Refilled = AtMost(Capacity, bucket.tokens + waited * Rate) /\ Idle = waited
  BY <1>1 DEF Refilled, Idle
<1> HIDE DEF waited
<1>4. Refilled >= Capacity - Forgiven /\ Refilled \in Int
  <2>1. /\ waited * Rate = Rate * waited /\ Rate * waited >= Rate * BucketTtl
        /\ Rate * waited \in Nat
    BY <1>2, Sizes, Monotone
  <2>2. /\ Overshoot * Cardinality(Settled) <= Overshoot * Cardinality(Callers)
        /\ Overshoot * Cardinality(Settled) \in Nat /\ Overshoot * Cardinality(Callers) \in Nat
    BY SettledFinite, Sizes, Monotone
  <2>3. bucket.tokens + Rate * waited >= Capacity - Forgiven BY <1>1, <2>1, <2>2, Sizes
  <2> QED BY <1>1, <1>3, <2>1, <2>3, Sizes DEF AtMost
<1>5. bucket' \in Buckets /\ ~bucket'.exists
  <2>1. bucket' = [bucket EXCEPT !.exists = FALSE] BY DEF Expire
  <2> QED BY <2>1 DEF Balanced, BucketTypeOK, Buckets
<1>6. UNCHANGED <<caller, time, spent>> BY DEF Expire
<1>7. Refilled' = Capacity /\ Idle' = 0 BY <1>5 DEF Refilled, Idle
<1>8. Allowance \in Int /\ Allowance' \in Int /\ Allowance' >= Allowance + Forgiven
  <2> DEFINE rest == time.elapsed - waited
  <2>1. rest \in Nat /\ rest + BucketTtl <= time.elapsed /\ BucketTtl \in Nat \ {0}
    BY <1>1, <1>2, <1>3, Sizes DEF Balanced
  <2>2. Lapses = rest \div BucketTtl /\ Lapses' = time.elapsed \div BucketTtl
    <3>1. Lapses' = (time.elapsed - 0) \div BucketTtl BY <1>6, <1>7 DEF Lapses
    <3> QED BY <1>1, <1>3, <3>1 DEF Lapses
  <2> HIDE DEF rest
  <2>3. /\ Lapses \in Nat /\ Lapses' \in Nat /\ Lapses + 1 <= Lapses'
    <3>1. (rest + BucketTtl) \div BucketTtl = rest \div BucketTtl + 1 BY <2>1, DivOneMore
    <3>2. /\ (rest + BucketTtl) \div BucketTtl <= time.elapsed \div BucketTtl
          /\ time.elapsed \div BucketTtl \in Nat
      <4>1. rest + BucketTtl \in Nat BY <2>1
      <4> QED BY <1>1, <2>1, <4>1, DivGrows
    <3>3. rest \div BucketTtl \in Nat BY <2>1, DivGrows
    <3> QED BY <2>2, <3>1, <3>2, <3>3
  <2>4. /\ Forgiven * (Lapses + 1) <= Forgiven * Lapses'
        /\ Forgiven * (Lapses + 1) = Forgiven * Lapses + Forgiven
        /\ Forgiven * Lapses = Lapses * Forgiven /\ Forgiven * Lapses' = Lapses' * Forgiven
        /\ Forgiven * Lapses \in Nat /\ Forgiven * Lapses' \in Nat
    <3>1. Lapses + 1 \in Nat /\ Forgiven \in Nat BY <2>3, Sizes
    <3>2. Forgiven * (Lapses + 1) = Forgiven * Lapses + Forgiven BY <2>3, <3>1, Distribute
    <3>3. Lapses <= Lapses' BY <2>3
    <3> QED BY <2>3, <3>1, <3>2, <3>3, Scaled
  <2>5. Rate * time.elapsed \in Nat /\ time' = time BY <1>1, <1>6
  <2>6. /\ Allowance = Capacity + Rate * time.elapsed + Forgiven * Lapses
        /\ Allowance' = Capacity + Rate * time.elapsed + Forgiven * Lapses'
    BY <2>4, <2>5 DEF Allowance
  <2> QED BY <2>4, <2>5, <2>6, Sizes
<1>9. spent' + Refilled' <= Allowance'
  <2>1. spent \in Int /\ spent + Refilled <= Allowance BY DEF Balanced, BucketTypeOK
  <2> QED BY <1>4, <1>6, <1>7, <1>8, <2>1, Sizes
<1>10. \A q \in Callers : Promised(q)'
  <2>1. Refilled' >= Refilled BY <1>7, RefilledFacts, Sizes DEF Balanced
  <2>2. ASSUME NEW q \in Callers, caller[q].step = "sleep", caller[q].promised
        PROVE  Refilled' + Rate * caller[q].delay >= Need(q)
    <3>1. Refilled + Rate * caller[q].delay >= Need(q) BY <2>2 DEF Balanced, Promised
    <3>2. Rate * caller[q].delay \in Nat /\ Need(q) \in Nat
      BY NeedType DEF Balanced, BucketTypeOK, CallerStates
    <3> QED BY <1>4, <1>7, <2>1, <3>1, <3>2, Sizes
  <2>3. \A q \in Callers : Need(q)' = Need(q) BY <1>6 DEF Need
  <2> QED BY <1>5, <1>6, <2>2, <2>3 DEF Promised
<1>11. Idle' <= time'.elapsed BY <1>1, <1>6, <1>7
<1> QED BY <1>5, <1>6, <1>9, <1>10, <1>11 DEF Balanced, BucketTypeOK, BucketSound

-----------------------------------------------------------------------------
(* The theorems.                                                            *)

LEMMA BalancedInvariant == BucketSpec => []Balanced
<1>1. BucketInit => Balanced
  <2> SUFFICES ASSUME BucketInit PROVE Balanced
    OBVIOUS
  <2>1. NoCall \in CallerStates /\ NoCall.step = "idle" BY DEF NoCall, CallerStates, CallerSteps
  <2>2. /\ bucket \in Buckets /\ ~bucket.exists /\ time \in Times /\ time.elapsed = 0
        /\ spent = 0
    BY DEF BucketInit, Buckets, Times
  <2>3. caller \in [Callers -> CallerStates] /\ \A c \in Callers : caller[c].step = "idle"
    BY <2>1 DEF BucketInit
  <2>4. Refilled = Capacity /\ Capacity \in Nat /\ Rate * 0 = 0 BY <2>2, Sizes DEF Refilled
  <2>5. Idle = 0 /\ Lapses = 0
    <3>1. BucketTtl \in Nat \ {0} BY Sizes
    <3>2. 0 \div BucketTtl = 0 BY <3>1
    <3>3. Idle = 0 BY <2>2 DEF Idle
    <3> QED BY <2>2, <3>2, <3>3 DEF Lapses
  <2>6. 0 * Forgiven = 0 BY Sizes
  <2>7. spent + Refilled <= Allowance BY <2>2, <2>4, <2>5, <2>6 DEF Allowance
  <2> QED BY <2>2, <2>3, <2>5, <2>7 DEF Balanced, BucketTypeOK, BucketSound, Promised
<1>2. Balanced /\ [BucketNext]_bucketVars => Balanced'
  <2> SUFFICES ASSUME Balanced, [BucketNext]_bucketVars PROVE Balanced'
    OBVIOUS
  <2>1. CASE UNCHANGED bucketVars
    <3>1. /\ Refilled' = Refilled /\ Settled' = Settled
          /\ Idle' = Idle /\ Allowance' = Allowance
      BY <2>1 DEF bucketVars, Refilled, Settled, Idle, Allowance, Lapses
    <3>2. \A q \in Callers : Promised(q)'
      BY <2>1, <3>1 DEF bucketVars, Balanced, Promised, Need
    <3> QED BY <2>1, <3>1, <3>2 DEF bucketVars, Balanced, BucketTypeOK, BucketSound
  <2> QED
    BY <2>1, CallsBalanced, GrantBalanced, WaitBalanced, AdjustBalanced, TickBalanced,
       StepBackBalanced, ExpireBalanced
    DEF BucketNext
<1> QED BY <1>1, <1>2, PTL DEF BucketSpec

(* Fleet-wide pacing for any calls, clocks, crashes and expiries, any number *)
(* of callers and however far they overshoot: no more tokens are charged     *)
(* than a full bucket, what refilled in the time that really passed, the     *)
(* debt the bucket remembers, and what expired keys can have forgiven.       *)
THEOREM BudgetIsKept == BucketSpec => []BudgetKept
<1>1. Balanced => BudgetKept
  <2> SUFFICES ASSUME Balanced PROVE BudgetKept
    OBVIOUS
  <2>1. /\ Refilled \in Int /\ Refilled <= Capacity /\ spent \in Int /\ Capacity \in Nat
        /\ bucket.tokens \in Int /\ Rate * time.elapsed \in Nat
        /\ bucket.exists => Refilled >= bucket.tokens
        /\ ~bucket.exists => Refilled = Capacity
    BY RefilledFacts, Sizes DEF Balanced, BucketTypeOK, Buckets, Times, Refilled
  <2> DEFINE ever == time.elapsed \div BucketTtl
  <2>2. Lapses \in Nat /\ ever \in Nat /\ Lapses <= ever
    <3> DEFINE rest == time.elapsed - Idle
    <3>1. rest \in Nat /\ time.elapsed \in Nat /\ rest <= time.elapsed
      BY DEF Balanced, BucketTypeOK, Buckets, Times, Idle, AtLeast
    <3>2. Lapses = rest \div BucketTtl BY DEF Lapses
    <3> HIDE DEF rest
    <3> QED BY <3>1, <3>2, Sizes, DivGrows
  <2>3. ever * Forgiven >= Lapses * Forgiven /\ ever * Forgiven \in Nat /\ Lapses * Forgiven \in Nat
    <3> HIDE DEF ever
    <3>1. Forgiven * Lapses <= Forgiven * ever BY <2>2, Sizes, Monotone
    <3> QED BY <2>2, <3>1, Sizes
  <2>4. BudgetKept <=> spent <= Capacity + Rate * time.elapsed + Debt + ever * Forgiven
    BY DEF BudgetKept
  <2>5. spent + Refilled <= Capacity + Rate * time.elapsed + Lapses * Forgiven
    BY DEF Balanced, Allowance
  <2> HIDE DEF ever
  <2>6. Debt \in Nat /\ Debt >= -Refilled BY <2>1, Sizes DEF Debt, AtLeast
  <2> QED BY <2>1, <2>3, <2>4, <2>5, <2>6
<1> QED BY <1>1, BalancedInvariant, PTL

(* The bucket never owes more than the calls can overshoot together.         *)
THEOREM DebtIsBounded == BucketSpec => []DebtBounded
<1>1. Balanced => DebtBounded
  <2> SUFFICES ASSUME Balanced PROVE DebtBounded
    OBVIOUS
  <2>1. /\ Overshoot * Cardinality(Settled) <= Overshoot * Cardinality(Callers)
        /\ Overshoot * Cardinality(Settled) \in Nat /\ Overshoot * Cardinality(Callers) \in Nat
        /\ Overshoot * Cardinality(Callers) = Cardinality(Callers) * Overshoot
    BY SettledFinite, Sizes, Monotone
  <2>2. bucket.tokens \in Int BY DEF Balanced, BucketTypeOK, Buckets
  <2> QED BY <2>1, <2>2 DEF Balanced, BucketSound, DebtBounded, Debt, AtLeast
<1> QED BY <1>1, BalancedInvariant, PTL

(* Who slept as long as it was told, while nobody took tokens, is granted.   *)
THEOREM WaitingSuffices == BucketSpec => []WaitIsEnough
<1>1. Balanced => WaitIsEnough
  <2> SUFFICES ASSUME Balanced, NEW c \in Callers, caller[c].step = "sleep",
                      caller[c].delay = 0, caller[c].promised
               PROVE  Refilled >= Need(c)
    BY DEF WaitIsEnough
  <2>1. Refilled + Rate * 0 >= Need(c) BY DEF Balanced, Promised
  <2> QED BY <2>1, RefilledFacts DEF Balanced
<1> QED BY <1>1, BalancedInvariant, PTL

HIDE BucketAssumption DEF BucketAssumption

-----------------------------------------------------------------------------
(* ViewCache.  The invariant, Margin: an entry's age and what is left of its *)
(* TTL do not add up to more than the life of the URL, in either tier, and   *)
(* only a signed URL on its way to a tier has an age.                        *)

(* An entry that can still be read dies before its URL does. *)
Sound(entry) ==
    /\ entry \in Entries
    /\ Fresh(entry) => entry.age + entry.left <= ViewExpiry

(* A call carries a URL that was signed at most MaxDelay ago. *)
Timely(call) ==
    /\ call \in [step: ViewSteps, age: Nat]
    /\ call.age <= MaxDelay
    /\ call.step \notin {"set", "mem_set"} => call.age = 0

Margin ==
    /\ Sound(kv)
    /\ mem \in [Procs -> Entries] /\ \A p \in Procs : Sound(mem[p])
    /\ view \in [Procs -> [step: ViewSteps, age: Nat]] /\ \A p \in Procs : Timely(view[p])
    /\ oldest \in Nat /\ oldest < ViewExpiry

USE ViewCacheAssumption DEF ViewCacheAssumption

LEMMA NoEntrySound == Sound(NoEntry)
BY DEF Sound, Entries, NoEntry, Fresh

(* Time takes from the TTL what it adds to the age. *)
LEMMA OlderSound == ASSUME NEW entry, Sound(entry) PROVE Sound(Older(entry))
<1>1. CASE entry.left <= 1 BY <1>1, NoEntrySound DEF Older
<1>2. CASE ~(entry.left <= 1)
  <2>1. entry.age \in Nat /\ entry.left \in Nat BY DEF Sound, Entries
  <2> DEFINE older == [age |-> entry.age + 1, left |-> entry.left - 1]
  <2>2. Older(entry) = older BY <1>2 DEF Older
  <2>3. older \in Entries BY <1>2, <2>1 DEF Entries
  <2>4. older.age + older.left <= ViewExpiry BY <1>2, <2>1 DEF Sound, Fresh
  <2> QED BY <2>2, <2>3, <2>4 DEF Sound
<1> QED BY <1>1, <1>2

(* What a call writes is sound: it signed its URL at most MaxDelay ago. *)
LEMMA StoredSound ==
    ASSUME NEW p \in Procs, Timely(view[p]) PROVE Sound(Stored(p))
BY DEF Timely, Sound, Stored, Entries, Fresh

(* A URL from a fresh entry, or from the call that signed it, is alive. *)
LEMMA HandOutAlive ==
    ASSUME Margin, NEW age \in Nat, age < ViewExpiry, HandOut(age)
    PROVE  (oldest \in Nat /\ oldest < ViewExpiry)'
BY DEF Margin, HandOut

LEMMA FreshAlive ==
    ASSUME NEW entry, Sound(entry), Fresh(entry)
    PROVE  entry.age \in Nat /\ entry.age < ViewExpiry
BY DEF Sound, Fresh, Entries

LEMMA CarriedAlive ==
    ASSUME NEW call, Timely(call) PROVE call.age \in Nat /\ call.age < ViewExpiry
BY DEF Timely

(* The moves of a call, by what becomes of its age. *)
LEMMA Moves ==
    ASSUME Margin, NEW p \in Procs,
           \/ \E step \in ViewSteps :
                /\ Goto(p, step)
                /\ step \in {"set", "mem_set"} \/ view[p].step \notin {"set", "mem_set"}
           \/ Finish(p)
           \/ \E step \in ViewSteps : view' = [view EXCEPT ![p] = [step |-> step, age |-> 0]]
    PROVE  /\ view' \in [Procs -> [step: ViewSteps, age: Nat]]
           /\ \A q \in Procs : Timely(view'[q])
<1>1. PICK new \in [step: ViewSteps, age: Nat] :
         view' = [view EXCEPT ![p] = new] /\ Timely(new)
  <2>1. ASSUME NEW step \in ViewSteps, view' = [view EXCEPT ![p] = [step |-> step, age |-> 0]]
        PROVE  \E new \in [step: ViewSteps, age: Nat] :
                  view' = [view EXCEPT ![p] = new] /\ Timely(new)
    <3>1. [step |-> step, age |-> 0] \in [step: ViewSteps, age: Nat] OBVIOUS
    <3>2. Timely([step |-> step, age |-> 0]) BY DEF Timely
    <3> QED BY <2>1, <3>1, <3>2
  <2>2. ASSUME NEW step \in ViewSteps, Goto(p, step),
               step \in {"set", "mem_set"} \/ view[p].step \notin {"set", "mem_set"}
        PROVE  \E new \in [step: ViewSteps, age: Nat] :
                  view' = [view EXCEPT ![p] = new] /\ Timely(new)
    <3> DEFINE new == [view[p] EXCEPT !.step = step]
    <3>1. view' = [view EXCEPT ![p] = new] BY <2>2 DEF Goto
    <3>2. new \in [step: ViewSteps, age: Nat] BY DEF Margin
    <3>3. new.age = view[p].age /\ new.step = step BY DEF Margin
    <3>4. Timely(new) BY <2>2, <3>2, <3>3 DEF Margin, Timely
    <3> HIDE DEF new
    <3> QED BY <3>1, <3>2, <3>4
  <2>3. "idle" \in ViewSteps BY DEF ViewSteps
  <2> QED BY <2>1, <2>2, <2>3 DEF Finish
<1> QED BY <1>1 DEF Margin

(* Each step of one call keeps the margin. *)
LEMMA CallKeepsMargin ==
    ASSUME Margin, NEW p \in Procs,
           \/ BeginView(p) \/ GetKv(p) \/ GetKvFails(p) \/ GetMem(p)
           \/ Presign(p) \/ SetKv(p) \/ SetKvFails(p) \/ SetMem(p)
           \/ BeginDelete(p) \/ DeleteKv(p) \/ DeleteKvFails(p) \/ Evict(p)
    PROVE  Margin'
<1> USE DEF ViewSteps
<1>1. CASE BeginView(p) BY <1>1, Moves DEF BeginView, Margin
<1>2. CASE GetKv(p)
  <2>1. CASE Fresh(kv) /\ HandOut(kv.age) /\ Finish(p)
    <3>1. kv.age \in Nat /\ kv.age < ViewExpiry BY <2>1, FreshAlive DEF Margin
    <3> QED BY <1>2, <2>1, <3>1, Moves, HandOutAlive DEF GetKv, Margin
  <2>2. CASE Goto(p, "presign") /\ UNCHANGED oldest
    BY <1>2, <2>2, Moves DEF GetKv, Margin
  <2> QED BY <1>2, <2>1, <2>2 DEF GetKv
<1>3. CASE GetKvFails(p) BY <1>3, Moves DEF GetKvFails, Margin
<1>4. CASE GetMem(p)
  <2>1. CASE Fresh(mem[p]) /\ HandOut(mem[p].age) /\ Finish(p)
    <3>1. mem[p].age \in Nat /\ mem[p].age < ViewExpiry BY <2>1, FreshAlive DEF Margin
    <3> QED BY <1>4, <2>1, <3>1, Moves, HandOutAlive DEF GetMem, Margin
  <2>2. CASE Goto(p, "presign") /\ UNCHANGED oldest
    BY <1>4, <2>2, Moves DEF GetMem, Margin
  <2> QED BY <1>4, <2>1, <2>2 DEF GetMem
<1>5. CASE Presign(p) BY <1>5, Moves DEF Presign, Margin
<1>6. CASE SetKv(p)
  <2>1. Sound(kv') BY <1>6, StoredSound DEF SetKv, Margin
  <2>2. view[p].age \in Nat /\ view[p].age < ViewExpiry BY CarriedAlive DEF Margin
  <2> QED BY <1>6, <2>1, <2>2, Moves, HandOutAlive DEF SetKv, Margin
<1>7. CASE SetKvFails(p) BY <1>7, Moves DEF SetKvFails, Margin
<1>8. CASE SetMem(p)
  <2>1. Sound(Stored(p)) /\ Stored(p) \in Entries BY StoredSound DEF Margin, Sound
  <2>2. mem' \in [Procs -> Entries] /\ \A q \in Procs : Sound(mem'[q])
    BY <1>8, <2>1 DEF SetMem, Margin
  <2>3. view[p].age \in Nat /\ view[p].age < ViewExpiry BY CarriedAlive DEF Margin
  <2> QED BY <1>8, <2>2, <2>3, Moves, HandOutAlive DEF SetMem, Margin
<1>9. CASE BeginDelete(p) \/ Evict(p)
  <2>1. NoEntry \in Entries BY DEF NoEntry, Entries
  <2>2. mem' \in [Procs -> Entries] /\ \A q \in Procs : Sound(mem'[q])
    BY <1>9, <2>1, NoEntrySound DEF BeginDelete, Evict, Margin
  <2> QED BY <1>9, <2>2, Moves DEF BeginDelete, Evict, Margin
<1>10. CASE DeleteKv(p) BY <1>10, NoEntrySound, Moves DEF DeleteKv, Margin
<1>11. CASE DeleteKvFails(p) BY <1>11, Moves DEF DeleteKvFails, Margin
<1> QED BY <1>1, <1>2, <1>3, <1>4, <1>5, <1>6, <1>7, <1>8, <1>9, <1>10, <1>11

(* Time moves every age and every TTL by one. *)
LEMMA PassKeepsMargin == ASSUME Margin, Pass PROVE Margin'
<1>1. Sound(kv') BY OlderSound DEF Pass, Margin
<1>2. mem' \in [Procs -> Entries] /\ \A p \in Procs : Sound(mem'[p])
  <2>1. \A p \in Procs : Sound(Older(mem[p])) BY OlderSound DEF Margin
  <2>2. \A p \in Procs : Older(mem[p]) \in Entries BY <2>1 DEF Sound
  <2> QED BY <2>1, <2>2 DEF Pass
<1>3. \A p \in Procs : Timely(view'[p])
  <2> SUFFICES ASSUME NEW p \in Procs PROVE Timely(view'[p])
    OBVIOUS
  <2> DEFINE age == IF view[p].step \in {"set", "mem_set"} THEN view[p].age + 1 ELSE 0
  <2>1. age \in Nat /\ age <= MaxDelay BY DEF Margin, Timely, Pass
  <2>2. view'[p] = [view[p] EXCEPT !.age = age] BY DEF Pass
  <2>3. view'[p].step = view[p].step /\ view'[p].age = age BY <2>1, <2>2 DEF Margin
  <2>4. view'[p] \in [step: ViewSteps, age: Nat] BY <2>1, <2>2 DEF Margin
  <2> QED BY <2>1, <2>3, <2>4 DEF Timely
<1>4. view' \in [Procs -> [step: ViewSteps, age: Nat]]
  <2>1. \A p \in Procs : view'[p] \in [step: ViewSteps, age: Nat] BY <1>3 DEF Timely
  <2> QED BY <2>1 DEF Pass
<1> QED BY <1>1, <1>2, <1>3, <1>4 DEF Pass, Margin

LEMMA AlwaysMargin == ViewSpec => []Margin
<1>1. ViewInit => Margin
  <2> SUFFICES ASSUME ViewInit PROVE Margin
    OBVIOUS
  <2>1. NoEntry \in Entries BY DEF NoEntry, Entries
  <2>2. [step |-> "idle", age |-> 0] \in [step: ViewSteps, age: Nat] BY DEF ViewSteps
  <2>3. Timely([step |-> "idle", age |-> 0]) BY <2>2 DEF Timely
  <2>4. \A p \in Procs : view[p] = [step |-> "idle", age |-> 0] /\ mem[p] = NoEntry
    BY DEF ViewInit
  <2>5. \A p \in Procs : Timely(view[p]) /\ Sound(mem[p])
    BY <2>3, <2>4, NoEntrySound
  <2>6. view \in [Procs -> [step: ViewSteps, age: Nat]] /\ mem \in [Procs -> Entries]
    BY <2>1, <2>2 DEF ViewInit
  <2> QED BY <2>5, <2>6, NoEntrySound DEF ViewInit, Margin
<1>2. Margin /\ [ViewNext]_viewVars => Margin'
  <2> SUFFICES ASSUME Margin, [ViewNext]_viewVars PROVE Margin'
    OBVIOUS
  <2>1. CASE KvLost \/ KvBack \/ UNCHANGED viewVars
    BY <2>1 DEF KvLost, KvBack, viewVars, Margin
  <2> QED BY <2>1, CallKeepsMargin, PassKeepsMargin DEF ViewNext
<1> QED BY <1>1, <1>2, PTL DEF ViewSpec

(* No presigned view URL is handed out after it has expired, however many    *)
(* processes sign and store URLs, and whenever Valkey goes and comes back.   *)
THEOREM UrlsAreAlive == ViewSpec => []HandedOutAlive
<1>1. Margin => HandedOutAlive BY DEF Margin, HandedOutAlive
<1> QED BY <1>1, AlwaysMargin, PTL

HIDE ViewCacheAssumption DEF ViewCacheAssumption

-----------------------------------------------------------------------------
(* TaskMonitor.  The inductive invariant has one part for each part of        *)
(* BoardIsRight.  InAccord: the record is as the execution recorded last left *)
(* it, or a delivery that has yet to write the last word is on its way.       *)
(* NoStaleError: one delivery at a time is under way, and an error of an      *)
(* earlier attempt is seen only until the monitor is told of the next sending.*)
(* Covered: what the last HSET left out, the TTL or the index, is still ahead *)
(* of one of the pipelines.                                                   *)

USE MonitorAssumption DEF MonitorAssumption

(* The last word on the message is still to come. *)
Owing(m) ==
    \/ send[m].step \in {"stream", "starting", "running", "pending"}
    \/ send[m].step \in {"ending", "failing"} /\ send[m].mark = "set"

(* The monitor will be told of the next sending before a worker takes it. *)
Untold(m) ==
    \/ send[m].step = "failing" /\ send[m].mark # "set"
    \/ send[m].step = "rekick"
    \/ send[m].step = "stream" /\ send[m].tell = "clear"

InAccord ==
    mishaps \cap {"early", "lost"} = {} =>
      /\ record.state = outcome \/ \E m \in Sends : Owing(m)
      /\ \A m \in Sends : send[m].tell \in {"clear", "set"} =>
                            send[m].step \in {"stream", "pending"}

NoStaleError ==
    mishaps \subseteq {"lost"} =>
      /\ \A m, n \in Sends : Live(m) /\ Live(n) => m = n
      /\ \A m \in Sends : send[m].tell \in {"clear", "set"} => send[m].step = "stream"
      /\ record.error => \A m \in Sends : Live(m) => Untold(m)
      /\ record.state \in {"queued", "success"} => ~record.error

Covered ==
    ~lapsed /\ record.state # "none" =>
      /\ lasting \/ \E m \in Sends : At(m, "expire")
      /\ listed \/ \E m \in Sends : InFlight(m)

Untouched == \A m \in Sends : send[m].step = "unsent" => send[m].tell = "done"

Board == MonitorTypeOK /\ Untouched /\ InAccord /\ NoStaleError /\ Covered

LEMMA BoardSuffices == Board => BoardIsRight
<1> SUFFICES ASSUME Board PROVE BoardIsRight
  OBVIOUS
<1>1. Quiet => \A m \in Sends : ~Owing(m) BY DEF Quiet, Owing
<1>2. (\A m \in Sends : ~InFlight(m)) => \A m \in Sends : ~At(m, "expire")
  BY DEF InFlight
<1> QED BY <1>1, <1>2 DEF Board, InAccord, NoStaleError, Covered, BoardIsRight

LEMMA BoardInit == MonitorInit => Board
<1> SUFFICES ASSUME MonitorInit PROVE Board
  OBVIOUS
<1>1. \A m \in Sends : Message(1, "clear", 0, 0) \in Messages
                       /\ [Message(0, "done", 0, 0) EXCEPT !.step = "unsent"] \in Messages
  BY DEF Message, Messages, SendSteps, PipelineSteps, Marking
<1>2. send \in [Sends -> Messages] BY <1>1 DEF MonitorInit
<1>3. record \in Records /\ record.state = "none" /\ ~record.error
  BY DEF MonitorInit, NoRecord, Records
<1>4. MonitorTypeOK BY <1>2, <1>3 DEF MonitorInit, MonitorTypeOK, NoRecord, Records
<1>5. \A m \in Sends : IF m = 1 THEN send[m].step = "stream" /\ send[m].tell = "clear"
                       ELSE send[m].step = "unsent" /\ send[m].tell = "done"
  BY DEF MonitorInit, Message
<1>6. outcome = "none" BY DEF MonitorInit
<1> QED BY <1>3, <1>4, <1>5, <1>6 DEF Board, Untouched, InAccord, NoStaleError, Covered, Live, Untold

(* A new message: one of those not sent. *)
LEMMA NewSend ==
    ASSUME Unsent # {}
    PROVE  NextSend \in Sends /\ send[NextSend].step = "unsent"
BY DEF Unsent, NextSend

(* A sending is a message.                                                   *)
LEMMA MessageType ==
    ASSUME NEW of \in Nat, NEW tell \in PipelineSteps \cup {"done"}, NEW by \in Nat, NEW n \in Nat
    PROVE  Message(of, tell, by, n) \in Messages
BY DEF Message, Messages, SendSteps, Marking, PipelineSteps

(* What the monitor writes has the shape of a record. *)
LEMMA TouchesRecords ==
    ASSUME MonitorTypeOK
    PROVE  /\ \A n \in Nat : [record EXCEPT !.state = "queued", !.retries = n, !.named = TRUE]
                              \in Records
           /\ [record EXCEPT !.error = FALSE] \in Records
           /\ [record EXCEPT !.state = "running"] \in Records
           /\ [record EXCEPT !.state = "success"] \in Records
           /\ [record EXCEPT !.state = "failed", !.error = TRUE] \in Records
           /\ NoRecord \in Records
BY DEF MonitorTypeOK, Records, NoRecord

(* A step that changes one message m. *)
LEMMA OneMessage ==
    ASSUME MonitorTypeOK, NEW m \in Sends, NEW new \in Messages,
           send' = [send EXCEPT ![m] = new]
    PROVE  send' \in [Sends -> Messages]
BY DEF MonitorTypeOK

LEMMA MessageShapes ==
    ASSUME MonitorTypeOK, NEW m \in Sends
    PROVE  /\ \A s \in SendSteps : [send[m] EXCEPT !.step = s] \in Messages
           /\ \A s \in SendSteps, c \in PipelineSteps :
                [send[m] EXCEPT !.step = s, !.mark = c] \in Messages
           /\ \A c \in PipelineSteps : [send[m] EXCEPT !.mark = c] \in Messages
           /\ \A c \in PipelineSteps \cup {"done"} : [send[m] EXCEPT !.tell = c] \in Messages
           /\ [send[m] EXCEPT !.tell = "done", !.by = 0] \in Messages
BY DEF MonitorTypeOK, Messages

LEMMA MonitorKeepsType == MonitorTypeOK /\ [MonitorNext]_monitorVars => MonitorTypeOK'
<1> SUFFICES ASSUME MonitorTypeOK, [MonitorNext]_monitorVars PROVE MonitorTypeOK'
  OBVIOUS
<1> USE DEF MonitorTypeOK
<1>0. Sends \subseteq Nat /\ \A m \in Sends : send[m].retries \in Nat
  BY DEF Sends, Messages
<1>1. ASSUME NEW m \in Sends, TellClear(m) PROVE MonitorTypeOK'
  <2>1. send' = [send EXCEPT ![m] = [send[m] EXCEPT !.tell = "set"]]
    BY <1>1 DEF TellClear, Messages
  <2>2. send' \in [Sends -> Messages]
    BY <2>1, OneMessage, MessageShapes DEF PipelineSteps, SendSteps, Marking
  <2> QED BY <1>1, <2>2, TouchesRecords DEF TellClear, Hset
<1>2. ASSUME NEW m \in Sends, TellSet(m) PROVE MonitorTypeOK'
  <2>1. send' = [send EXCEPT ![m] = [send[m] EXCEPT !.tell = "expire"]]
    BY <1>2 DEF TellSet, Messages
  <2>2. send' \in [Sends -> Messages]
    BY <2>1, OneMessage, MessageShapes DEF PipelineSteps, SendSteps, Marking
  <2> QED BY <1>0, <1>2, <2>2, TouchesRecords DEF TellSet, Hset
<1>3. ASSUME NEW m \in Sends, TellExpire(m) PROVE MonitorTypeOK'
  <2>1. send' = [send EXCEPT ![m] = [send[m] EXCEPT !.tell = "list"]]
    BY <1>3 DEF TellExpire, Messages
  <2>2. send' \in [Sends -> Messages]
    BY <2>1, OneMessage, MessageShapes DEF PipelineSteps, SendSteps, Marking
  <2> QED BY <1>3, <2>2 DEF TellExpire, ExpireHash
<1>4. ASSUME NEW m \in Sends, TellList(m) PROVE MonitorTypeOK'
  <2>1. send' = [send EXCEPT ![m] = [send[m] EXCEPT !.tell = "done", !.by = 0]]
    BY <1>4 DEF TellList, Messages
  <2>2. send' \in [Sends -> Messages]
    BY <2>1, OneMessage, MessageShapes DEF PipelineSteps, SendSteps, Marking
  <2> QED BY <1>4, <2>2 DEF TellList, Zadd
<1>5. ASSUME NEW m \in Sends, TellCut(m) PROVE MonitorTypeOK'
  <2>1. \A n \in Sends : Abandoned(n) \in SendSteps BY DEF SendSteps, Abandoned
  <2>2. send' \in [Sends -> Messages] BY <1>5, <2>1, MessageShapes DEF TellCut
  <2>3. mishaps' \subseteq Mishaps BY <1>5 DEF TellCut, Mishaps
  <2> QED BY <1>5, <2>2, <2>3 DEF TellCut, Cut
<1>6. ASSUME NEW r \in Retriers, RetryReads(r) PROVE MonitorTypeOK'
  BY <1>6 DEF RetryReads, store, Records
<1>7. ASSUME NEW r \in Retriers, RetryKicks(r) PROVE MonitorTypeOK'
  <2>1. NextSend \in Sends BY <1>7, NewSend DEF RetryKicks
  <2>2. Message(NextSend, "clear", 0, asked[r].retries) \in Messages
    BY <1>0, <2>1, MessageType DEF PipelineSteps
  <2>3. send' \in [Sends -> Messages] BY <1>7, <2>2 DEF RetryKicks
  <2>4. mishaps' \subseteq Mishaps BY <1>7 DEF RetryKicks, Happened, Mishaps
  <2> QED BY <1>7, <2>3, <2>4 DEF RetryKicks, store
<1>8. ASSUME NEW m \in Sends, PreExecute(m) PROVE MonitorTypeOK'
  <2>1. send' = [send EXCEPT ![m] = [send[m] EXCEPT !.step = "starting", !.mark = "expire"]]
    BY <1>8 DEF PreExecute, Messages
  <2>2. send' \in [Sends -> Messages]
    BY <2>1, OneMessage, MessageShapes DEF PipelineSteps, SendSteps, Marking
  <2> QED BY <1>8, <2>2, TouchesRecords DEF PreExecute, Hset, Happened, Mishaps
<1>9. ASSUME NEW m \in Sends, Execute(m) PROVE MonitorTypeOK'
  <2>1. PICK hook \in {"ending", "failing"} :
          send' = [send EXCEPT ![m] = [send[m] EXCEPT !.step = hook, !.mark = "set"]]
    BY <1>9 DEF Execute, Messages
  <2>2. send' \in [Sends -> Messages]
    BY <2>1, OneMessage, MessageShapes DEF PipelineSteps, SendSteps, Marking
  <2> QED BY <1>9, <2>2 DEF Execute, store
<1>10. ASSUME NEW m \in Sends, PostExecute(m) PROVE MonitorTypeOK'
  <2>1. send' = [send EXCEPT ![m] = [send[m] EXCEPT !.mark = "expire"]]
    BY <1>10 DEF PostExecute, Messages
  <2>2. send' \in [Sends -> Messages]
    BY <2>1, OneMessage, MessageShapes DEF PipelineSteps, SendSteps, Marking
  <2> QED BY <1>10, <2>2, TouchesRecords DEF PostExecute, Hset
<1>11. ASSUME NEW m \in Sends, OnErrorMonitor(m) PROVE MonitorTypeOK'
  <2>1. send' = [send EXCEPT ![m] = [send[m] EXCEPT !.mark = "expire"]]
    BY <1>11 DEF OnErrorMonitor, Messages
  <2>2. send' \in [Sends -> Messages]
    BY <2>1, OneMessage, MessageShapes DEF PipelineSteps, SendSteps, Marking
  <2> QED BY <1>11, <2>2, TouchesRecords DEF OnErrorMonitor, Hset
<1>12. ASSUME NEW m \in Sends, MarkExpire(m) PROVE MonitorTypeOK'
  <2>1. send' = [send EXCEPT ![m] = [send[m] EXCEPT !.mark = "list"]]
    BY <1>12 DEF MarkExpire, Messages
  <2>2. send' \in [Sends -> Messages]
    BY <2>1, OneMessage, MessageShapes DEF PipelineSteps, SendSteps, Marking
  <2> QED BY <1>12, <2>2 DEF MarkExpire, ExpireHash
<1>13. ASSUME NEW m \in Sends, MarkList(m) PROVE MonitorTypeOK'
  <2>1. PICK next \in {"running", "rekick", "unacked"} :
          send' = [send EXCEPT ![m] = [send[m] EXCEPT !.step = next]]
    BY <1>13 DEF MarkList, Messages
  <2>2. send' \in [Sends -> Messages]
    BY <2>1, OneMessage, MessageShapes DEF SendSteps
  <2> QED BY <1>13, <2>2 DEF MarkList, Zadd
<1>14. ASSUME NEW m \in Sends, OnErrorRetry(m) PROVE MonitorTypeOK'
  <2>1. NextSend \in Sends BY <1>14, NewSend DEF OnErrorRetry
  <2>2. Message(NextSend, "clear", m, send[m].retries + 1) \in Messages
    <3>1. send[m].retries + 1 \in Nat /\ m \in Nat /\ NextSend \in Nat BY <1>0, <2>1
    <3> QED BY <3>1, MessageType DEF PipelineSteps
  <2>3. [send EXCEPT ![m].step = "unacked"] \in [Sends -> Messages]
    BY DEF Messages, SendSteps
  <2>4. send' \in [Sends -> Messages] BY <1>14, <2>2, <2>3 DEF OnErrorRetry
  <2> QED BY <1>14, <2>4 DEF OnErrorRetry, store
<1>15. ASSUME NEW m \in Sends, Acknowledge(m) PROVE MonitorTypeOK'
  <2>1. \A n \in Sends : [send[n] EXCEPT !.step = "over"] \in Messages
    BY MessageShapes DEF SendSteps
  <2>2. send' \in [Sends -> Messages] BY <1>15, <2>1 DEF Acknowledge
  <2> QED BY <1>15, <2>2 DEF Acknowledge, Happened, Mishaps, store
<1>16. ASSUME NEW m \in Sends, Abandon(m) PROVE MonitorTypeOK'
  <2>1. send' = [send EXCEPT ![m] = [send[m] EXCEPT !.step = Abandoned(m), !.mark = "set"]]
    BY <1>16 DEF Abandon, Messages
  <2>2. Abandoned(m) \in SendSteps BY DEF Abandoned, SendSteps
  <2>3. send' \in [Sends -> Messages] BY <2>1, <2>2, OneMessage, MessageShapes DEF PipelineSteps
  <2>4. mishaps' \subseteq Mishaps BY <1>16 DEF Abandon, Mishaps
  <2> QED BY <1>16, <2>3, <2>4 DEF Abandon, Cut, store
<1>17. ASSUME NEW m \in Sends, Reclaim(m) PROVE MonitorTypeOK'
  <2>1. send' = [send EXCEPT ![m] = [send[m] EXCEPT !.step = "stream"]]
    BY <1>17 DEF Reclaim, Messages
  <2>2. send' \in [Sends -> Messages] BY <2>1, OneMessage, MessageShapes DEF SendSteps
  <2> QED BY <1>17, <2>2 DEF Reclaim, store
<1>18. ASSUME NEW m \in Sends, ReclaimRunning(m) PROVE MonitorTypeOK'
  <2>2. Message(send[m].of, "done", 0, send[m].retries) \in Messages
    BY MessageType DEF Messages
  <2>3. send' \in [Sends -> Messages] BY <1>18, <2>2 DEF ReclaimRunning
  <2>4. mishaps' \subseteq Mishaps BY <1>18 DEF ReclaimRunning, Happened, Mishaps
  <2> QED BY <1>18, <2>3, <2>4 DEF ReclaimRunning, store
<1>19. CASE ExpireRecord BY <1>19, TouchesRecords DEF ExpireRecord
<1>20. CASE Trim \/ ListTasks \/ ListForgets
  BY <1>20 DEF Trim, ListTasks, ListForgets, store
<1>21. CASE UNCHANGED monitorVars BY <1>21 DEF monitorVars
<1> QED BY <1>1, <1>2, <1>3, <1>4, <1>5, <1>6, <1>7, <1>8, <1>9, <1>10, <1>11, <1>12, <1>13,
           <1>14, <1>15, <1>16, <1>17, <1>18, <1>19, <1>20, <1>21 DEF MonitorNext

(* What a step does to the message m and to the others.                      *)
Changes(m, step, tell, mark) ==
    /\ send'[m].step = step /\ send'[m].tell = tell /\ send'[m].mark = mark
    /\ \A n \in Sends : n # m => send'[n] = send[n]

LEMMA MonitorEffects ==
    ASSUME MonitorTypeOK, NEW m \in Sends
    PROVE  /\ TellClear(m) => Changes(m, send[m].step, "set", send[m].mark)
           /\ TellSet(m) => Changes(m, send[m].step, "expire", send[m].mark)
           /\ TellExpire(m) => Changes(m, send[m].step, "list", send[m].mark)
           /\ TellList(m) => Changes(m, send[m].step, "done", send[m].mark)
           /\ PreExecute(m) => Changes(m, "starting", send[m].tell, "expire")
           /\ Execute(m) => \E hook \in {"ending", "failing"} :
                              Changes(m, hook, send[m].tell, "set")
           /\ PostExecute(m) => Changes(m, "ending", send[m].tell, "expire")
           /\ OnErrorMonitor(m) => Changes(m, "failing", send[m].tell, "expire")
           /\ MarkExpire(m) => Changes(m, send[m].step, send[m].tell, "list")
           /\ MarkList(m) => \E next \in {"running", "rekick", "unacked"} :
                /\ Changes(m, next, send[m].tell, "list")
                /\ send[m].step = "starting" <=> next = "running"
                /\ next = "rekick" => send[m].step = "failing"
           /\ Abandon(m) => Changes(m, Abandoned(m), send[m].tell, "set")
           /\ Reclaim(m) => Changes(m, "stream", send[m].tell, send[m].mark)
<1> USE DEF Changes, MonitorTypeOK, Messages
<1>1. TellClear(m) => Changes(m, send[m].step, "set", send[m].mark) BY DEF TellClear
<1>2. TellSet(m) => Changes(m, send[m].step, "expire", send[m].mark) BY DEF TellSet
<1>3. TellExpire(m) => Changes(m, send[m].step, "list", send[m].mark) BY DEF TellExpire
<1>4. TellList(m) => Changes(m, send[m].step, "done", send[m].mark) BY DEF TellList
<1>5. PreExecute(m) => Changes(m, "starting", send[m].tell, "expire") BY DEF PreExecute
<1>6. Execute(m) => \E hook \in {"ending", "failing"} : Changes(m, hook, send[m].tell, "set")
  BY DEF Execute
<1>7. PostExecute(m) => Changes(m, "ending", send[m].tell, "expire") BY DEF PostExecute
<1>8. OnErrorMonitor(m) => Changes(m, "failing", send[m].tell, "expire")
  BY DEF OnErrorMonitor
<1>9. MarkExpire(m) => Changes(m, send[m].step, send[m].tell, "list") BY DEF MarkExpire
<1>10. ASSUME MarkList(m)
       PROVE  \E next \in {"running", "rekick", "unacked"} :
                /\ Changes(m, next, send[m].tell, "list")
                /\ send[m].step = "starting" <=> next = "running"
                /\ next = "rekick" => send[m].step = "failing"
  <2>1. PICK next \in IF send[m].step = "starting" THEN {"running"}
                      ELSE IF send[m].step = "failing" /\ MayRetry(m) THEN {"rekick", "unacked"}
                      ELSE {"unacked"} : send' = [send EXCEPT ![m].step = next]
    BY <1>10 DEF MarkList
  <2>2. Changes(m, next, send[m].tell, "list") BY <1>10, <2>1 DEF MarkList
  <2> QED BY <2>1, <2>2
<1>11. Abandon(m) => Changes(m, Abandoned(m), send[m].tell, "set") BY DEF Abandon
<1>12. Reclaim(m) => Changes(m, "stream", send[m].tell, send[m].mark) BY DEF Reclaim
<1> QED BY <1>1, <1>2, <1>3, <1>4, <1>5, <1>6, <1>7, <1>8, <1>9, <1>10, <1>11, <1>12

(* The three steps that put one more message on the stream. *)
LEMMA NewMessage ==
    ASSUME MonitorTypeOK
    PROVE  LET k == NextSend IN
           /\ \A r \in Retriers : RetryKicks(r) =>
                /\ k \in Sends /\ send[k].step = "unsent"
                /\ Changes(k, "stream", "clear", "set")
           /\ \A m \in Sends : ReclaimRunning(m) =>
                /\ k \in Sends /\ send[k].step = "unsent"
                /\ Changes(k, "stream", "done", "set")
           /\ \A m \in Sends : OnErrorRetry(m) =>
                /\ k \in Sends /\ send[k].step = "unsent"
                /\ send'[k].step = "stream" /\ send'[k].tell = "clear" /\ send'[k].mark = "set"
                /\ send'[m].step = "unacked" /\ send'[m].tell = send[m].tell
                /\ \A n \in Sends \ {m, k} : send'[n] = send[n]
<1> USE DEF MonitorTypeOK, Message
<1>1. ASSUME Unsent # {} PROVE NextSend \in Sends /\ send[NextSend].step = "unsent"
  BY <1>1, NewSend
<1>2. ASSUME NEW r \in Retriers, RetryKicks(r)
      PROVE  /\ NextSend \in Sends /\ send[NextSend].step = "unsent"
             /\ Changes(NextSend, "stream", "clear", "set")
  BY <1>1, <1>2 DEF RetryKicks, Changes
<1>3. ASSUME NEW m \in Sends, ReclaimRunning(m)
      PROVE  /\ NextSend \in Sends /\ send[NextSend].step = "unsent"
             /\ Changes(NextSend, "stream", "done", "set")
  BY <1>1, <1>3 DEF ReclaimRunning, Changes
<1>4. ASSUME NEW m \in Sends, OnErrorRetry(m)
      PROVE  /\ NextSend \in Sends /\ send[NextSend].step = "unsent"
             /\ send'[NextSend].step = "stream" /\ send'[NextSend].tell = "clear"
             /\ send'[NextSend].mark = "set"
             /\ send'[m].step = "unacked" /\ send'[m].tell = send[m].tell
             /\ \A n \in Sends \ {m, NextSend} : send'[n] = send[n]
  BY <1>1, <1>4 DEF OnErrorRetry, Messages
<1> QED BY <1>2, <1>3, <1>4

(* A broken pipeline of the sender, and the acknowledgement. *)
LEMMA ManyMessages ==
    ASSUME MonitorTypeOK, NEW m \in Sends
    PROVE  /\ TellCut(m) => /\ send'[m].step = send[m].step /\ send'[m].tell = "done"
                            /\ send'[m].mark = send[m].mark
                            /\ \A n \in Sends \ {m} :
                                 IF n \in Sender(m)
                                 THEN /\ send[n].step = "unacked" /\ send'[n].step = Abandoned(n)
                                      /\ send'[n].tell = send[n].tell
                                 ELSE send'[n] = send[n]
           /\ Acknowledge(m) => \A n \in Sends :
                /\ send'[n].tell = send[n].tell /\ send'[n].mark = send[n].mark
                /\ \/ send'[n].step = send[n].step
                   \/ /\ send'[n].step = "over"
                      /\ n = m \/ (send[n].step = "pending" /\ "lost" \in mishaps')
<1>1. ASSUME TellCut(m)
      PROVE  /\ send'[m].step = send[m].step /\ send'[m].tell = "done"
             /\ send'[m].mark = send[m].mark
             /\ \A n \in Sends \ {m} :
                  IF n \in Sender(m)
                  THEN /\ send[n].step = "unacked" /\ send'[n].step = Abandoned(n)
                       /\ send'[n].tell = send[n].tell
                  ELSE send'[n] = send[n]
  BY <1>1 DEF TellCut, Sender, MonitorTypeOK, Messages
<1>2. ASSUME Acknowledge(m), NEW n \in Sends
      PROVE  /\ send'[n].tell = send[n].tell /\ send'[n].mark = send[n].mark
             /\ \/ send'[n].step = send[n].step
                \/ /\ send'[n].step = "over"
                   /\ n = m \/ (send[n].step = "pending" /\ "lost" \in mishaps')
  BY <1>2 DEF Acknowledge, Happened, MonitorTypeOK, Messages
<1> QED BY <1>1, <1>2
LEMMA StepUntouched == Board /\ [MonitorNext]_monitorVars => Untouched'
<1> SUFFICES ASSUME Board, [MonitorNext]_monitorVars PROVE Untouched'
  OBVIOUS
<1>0. MonitorTypeOK BY DEF Board
<1> USE <1>0 DEF Board, Untouched
<1>1. ASSUME NEW m \in Sends,
             TellClear(m) \/ TellSet(m) \/ TellExpire(m) \/ TellList(m)
      PROVE  Untouched'
  <2>1. send[m].tell # "done" BY <1>1 DEF TellClear, TellSet, TellExpire, TellList
  <2> QED BY <1>1, <2>1, MonitorEffects DEF Changes
<1>2. ASSUME NEW m \in Sends, PreExecute(m) PROVE Untouched'
  BY <1>2, MonitorEffects DEF Changes
<1>3. ASSUME NEW m \in Sends, Execute(m) PROVE Untouched'
  BY <1>3, MonitorEffects DEF Changes
<1>4. ASSUME NEW m \in Sends, PostExecute(m) \/ OnErrorMonitor(m) PROVE Untouched'
  BY <1>4, MonitorEffects DEF Changes
<1>5. ASSUME NEW m \in Sends, MarkExpire(m) PROVE Untouched'
  BY <1>5, MonitorEffects DEF Changes, MarkExpire, Marking
<1>6. ASSUME NEW m \in Sends, MarkList(m) PROVE Untouched'
  BY <1>6, MonitorEffects DEF Changes
<1>7. ASSUME NEW m \in Sends, Abandon(m) PROVE Untouched'
  <2>1. Abandoned(m) # "unsent" BY DEF Abandoned
  <2> QED BY <1>7, <2>1, MonitorEffects DEF Changes
<1>8. ASSUME NEW m \in Sends, Reclaim(m) PROVE Untouched'
  BY <1>8, MonitorEffects DEF Changes
<1>9. ASSUME NEW m \in Sends, TellCut(m) PROVE Untouched'
  <2>1. \A n \in Sends : Abandoned(n) # "unsent" BY DEF Abandoned
  <2> QED BY <1>9, <2>1, ManyMessages
<1>10. ASSUME NEW m \in Sends, Acknowledge(m) PROVE Untouched'
  BY <1>10, ManyMessages
<1>11. ASSUME NEW m \in Sends, OnErrorRetry(m) PROVE Untouched'
  BY <1>11, NewMessage
<1>12. ASSUME NEW m \in Sends, ReclaimRunning(m) PROVE Untouched'
  BY <1>12, NewMessage DEF Changes
<1>13. ASSUME NEW r \in Retriers, RetryReads(r) PROVE Untouched'
  BY <1>13 DEF RetryReads
<1>14. ASSUME NEW r \in Retriers, RetryKicks(r) PROVE Untouched'
  BY <1>14, NewMessage DEF Changes
<1>15. CASE ExpireRecord \/ Trim \/ ListTasks \/ ListForgets
  BY <1>15 DEF ExpireRecord, Trim, ListTasks, ListForgets
<1>16. CASE UNCHANGED monitorVars BY <1>16 DEF monitorVars, Untouched
<1> QED BY <1>1, <1>2, <1>3, <1>4, <1>5, <1>6, <1>7, <1>8, <1>9, <1>10, <1>11, <1>12,
           <1>13, <1>14, <1>15, <1>16 DEF MonitorNext

LEMMA StepInAccord == Board /\ [MonitorNext]_monitorVars => InAccord'
<1> SUFFICES ASSUME Board, [MonitorNext]_monitorVars PROVE InAccord'
  OBVIOUS
<1>0. MonitorTypeOK BY DEF Board
<1> USE <1>0 DEF Board
<1>1. ASSUME NEW m \in Sends, TellClear(m) PROVE InAccord'
  <2>1. Changes(m, send[m].step, "set", send[m].mark) BY <1>1, MonitorEffects
  <2>2. /\ record'.state = record.state
        /\ UNCHANGED <<mishaps, outcome>>
        /\ send[m].tell = "clear"
    BY <1>1 DEF TellClear, Hset, Records
  <2> QED BY <2>1, <2>2 DEF InAccord, Owing, Changes
<1>2. ASSUME NEW m \in Sends, TellSet(m) PROVE InAccord'
  <2>1. Changes(m, send[m].step, "expire", send[m].mark) BY <1>2, MonitorEffects
  <2>2. /\ UNCHANGED <<mishaps, outcome>>
        /\ send[m].tell = "set"
    BY <1>2 DEF TellSet, Hset
  <2> QED BY <2>1, <2>2 DEF InAccord, Owing, Changes
<1>3. ASSUME NEW m \in Sends, TellExpire(m) PROVE InAccord'
  <2>1. Changes(m, send[m].step, "list", send[m].mark) BY <1>3, MonitorEffects
  <2>2. /\ record'.state = record.state
        /\ UNCHANGED <<mishaps, outcome>>
        /\ send[m].tell = "expire"
    BY <1>3 DEF TellExpire, ExpireHash
  <2> QED BY <2>1, <2>2 DEF InAccord, Owing, Changes
<1>4. ASSUME NEW m \in Sends, TellList(m) PROVE InAccord'
  <2>1. Changes(m, send[m].step, "done", send[m].mark) BY <1>4, MonitorEffects
  <2>2. /\ record'.state = record.state
        /\ UNCHANGED <<mishaps, outcome>>
        /\ send[m].tell = "list"
    BY <1>4 DEF TellList, Zadd
  <2> QED BY <2>1, <2>2 DEF InAccord, Owing, Changes
<1>5. ASSUME NEW m \in Sends, PreExecute(m) PROVE InAccord'
  <2>1. Changes(m, "starting", send[m].tell, "expire") BY <1>5, MonitorEffects
  <2>2. /\ mishaps \subseteq mishaps' /\ UNCHANGED outcome
        /\ send[m].tell \in {"clear", "set"} => "early" \in mishaps'
    BY <1>5 DEF PreExecute, Happened
  <2> QED BY <2>1, <2>2 DEF InAccord, Owing, Changes
<1>6. ASSUME NEW m \in Sends, Execute(m) PROVE InAccord'
  <2>1. PICK hook \in {"ending", "failing"} : Changes(m, hook, send[m].tell, "set")
    BY <1>6, MonitorEffects
  <2>2. /\ record'.state = record.state
        /\ UNCHANGED <<mishaps, outcome>>
        /\ send[m].step = "running"
    BY <1>6 DEF Execute, store
  <2> QED BY <2>1, <2>2 DEF InAccord, Owing, Changes
<1>7. ASSUME NEW m \in Sends, PostExecute(m) PROVE InAccord'
  <2>1. Changes(m, "ending", send[m].tell, "expire") BY <1>7, MonitorEffects
  <2>2. /\ record'.state = outcome'
        /\ UNCHANGED mishaps
        /\ send[m].step = "ending"
    BY <1>7 DEF PostExecute, Hset, Records
  <2> QED BY <2>1, <2>2 DEF InAccord, Owing, Changes
<1>8. ASSUME NEW m \in Sends, OnErrorMonitor(m) PROVE InAccord'
  <2>1. Changes(m, "failing", send[m].tell, "expire") BY <1>8, MonitorEffects
  <2>2. /\ record'.state = outcome'
        /\ UNCHANGED mishaps
        /\ send[m].step = "failing"
    BY <1>8 DEF OnErrorMonitor, Hset, Records
  <2> QED BY <2>1, <2>2 DEF InAccord, Owing, Changes
<1>9. ASSUME NEW m \in Sends, MarkExpire(m) PROVE InAccord'
  <2>1. Changes(m, send[m].step, send[m].tell, "list") BY <1>9, MonitorEffects
  <2>2. /\ record'.state = record.state
        /\ UNCHANGED <<mishaps, outcome>>
        /\ send[m].step \in {"starting", "ending", "failing"} /\ send[m].mark = "expire"
    BY <1>9 DEF MarkExpire, ExpireHash, Marking
  <2> QED BY <2>1, <2>2 DEF InAccord, Owing, Changes
<1>10. ASSUME NEW m \in Sends, MarkList(m) PROVE InAccord'
  <2>1. PICK next \in {"running", "rekick", "unacked"} :
          /\ Changes(m, next, send[m].tell, "list")
          /\ send[m].step = "starting" <=> next = "running"
          /\ next = "rekick" => send[m].step = "failing"
    BY <1>10, MonitorEffects
  <2>2. /\ record'.state = record.state
        /\ UNCHANGED <<mishaps, outcome>>
        /\ send[m].step \in {"starting", "ending", "failing"} /\ send[m].mark = "list"
    BY <1>10 DEF MarkList, Zadd, Marking
  <2> QED BY <2>1, <2>2 DEF InAccord, Owing, Changes
<1>11. ASSUME NEW m \in Sends, Abandon(m) PROVE InAccord'
  <2>1. Changes(m, Abandoned(m), send[m].tell, "set") BY <1>11, MonitorEffects
  <2>2. /\ record'.state = record.state /\ UNCHANGED outcome
        /\ mishaps \subseteq mishaps'
        /\ "lost" \notin mishaps' => Abandoned(m) = "pending"
        /\ send[m].step \notin {"stream", "pending"}
    BY <1>11 DEF Abandon, Abandoned, Cut, store, Marking
  <2> QED BY <2>1, <2>2 DEF InAccord, Owing, Changes
<1>12. ASSUME NEW m \in Sends, Reclaim(m) PROVE InAccord'
  <2>1. Changes(m, "stream", send[m].tell, send[m].mark) BY <1>12, MonitorEffects
  <2>2. /\ record'.state = record.state
        /\ UNCHANGED <<mishaps, outcome>>
    BY <1>12 DEF Reclaim, store
  <2> QED BY <2>1, <2>2 DEF InAccord, Owing, Changes
<1>13. ASSUME NEW m \in Sends, TellCut(m) PROVE InAccord'
  <2>1. \A n \in Sender(m) : "lost" \notin mishaps' => Abandoned(n) = "pending"
    BY <1>13 DEF TellCut, Abandoned
  <2>2. UNCHANGED <<record, outcome>> /\ mishaps \subseteq mishaps' BY <1>13 DEF TellCut, Cut
  <2>3. \A n \in Sends : Owing(n) /\ "lost" \notin mishaps' => Owing(n)'
    BY <1>13, <2>1, ManyMessages DEF Owing
  <2>4. \A n \in Sends : \/ "lost" \in mishaps'
                         \/ send'[n].tell \in {"clear", "set"} =>
                              /\ send[n].tell = send'[n].tell
                              /\ send'[n].step \in {send[n].step, "pending"}
    BY <1>13, <2>1, ManyMessages
  <2> QED BY <2>2, <2>3, <2>4 DEF InAccord
<1>14. ASSUME NEW m \in Sends, Acknowledge(m) PROVE InAccord'
  <2>1. /\ UNCHANGED <<record, outcome>> /\ mishaps \subseteq mishaps'
        /\ send[m].step = "unacked"
    BY <1>14 DEF Acknowledge, Happened, store
  <2>2. \A n \in Sends : /\ send'[n].tell = send[n].tell /\ send'[n].mark = send[n].mark
                         /\ n = m \/ send'[n].step = send[n].step \/ "lost" \in mishaps'
    BY <1>14, ManyMessages
  <2> QED BY <2>1, <2>2 DEF InAccord, Owing
<1>15. ASSUME NEW m \in Sends, OnErrorRetry(m) PROVE InAccord'
  <2>1. UNCHANGED <<record, outcome, mishaps>> /\ send[m].step = "rekick"
    BY <1>15 DEF OnErrorRetry, store
  <2>2. NextSend \in Sends /\ send'[NextSend].step = "stream" BY <1>15, NewMessage
  <2>3. \A n \in Sends : \/ n = NextSend
                         \/ send'[n].tell = send[n].tell /\ (n = m \/ send'[n] = send[n])
    BY <1>15, NewMessage
  <2> QED BY <2>1, <2>2, <2>3 DEF InAccord, Owing
<1>16. ASSUME NEW m \in Sends, ReclaimRunning(m) PROVE InAccord'
  <2>1. UNCHANGED <<record, outcome>> /\ mishaps \subseteq mishaps'
    BY <1>16 DEF ReclaimRunning, Happened, store
  <2>2. NextSend \in Sends /\ Changes(NextSend, "stream", "done", "set") BY <1>16, NewMessage
  <2> QED BY <2>1, <2>2 DEF InAccord, Owing, Changes
<1>17. ASSUME NEW r \in Retriers, RetryReads(r) PROVE InAccord'
  BY <1>17 DEF RetryReads, store, InAccord, Owing
<1>18. ASSUME NEW r \in Retriers, RetryKicks(r) PROVE InAccord'
  <2>1. UNCHANGED <<record, outcome>> /\ mishaps \subseteq mishaps'
    BY <1>18 DEF RetryKicks, Happened, store
  <2>2. NextSend \in Sends /\ Changes(NextSend, "stream", "clear", "set") BY <1>18, NewMessage
  <2> QED BY <2>1, <2>2 DEF InAccord, Owing, Changes
<1>19. CASE ExpireRecord
  BY <1>19 DEF ExpireRecord, NoRecord, InAccord, Owing
<1>20. CASE Trim \/ ListTasks \/ ListForgets
  BY <1>20 DEF Trim, ListTasks, ListForgets, store, InAccord, Owing
<1>21. CASE UNCHANGED monitorVars BY <1>21 DEF monitorVars, InAccord, Owing
<1> QED BY <1>1, <1>2, <1>3, <1>4, <1>5, <1>6, <1>7, <1>8, <1>9, <1>10, <1>11, <1>12,
           <1>13, <1>14, <1>15, <1>16, <1>17, <1>18, <1>19, <1>20, <1>21 DEF MonitorNext

LEMMA StepNoStaleError == Board /\ [MonitorNext]_monitorVars => NoStaleError'
<1> SUFFICES ASSUME Board, [MonitorNext]_monitorVars PROVE NoStaleError'
  OBVIOUS
<1>0. MonitorTypeOK BY DEF Board
<1> USE <1>0 DEF Board
<1>1. ASSUME NEW m \in Sends, TellClear(m) PROVE NoStaleError'
  <2>1. Changes(m, send[m].step, "set", send[m].mark) BY <1>1, MonitorEffects
  <2>2. /\ record'.state = record.state /\ ~record'.error
        /\ UNCHANGED mishaps
        /\ send[m].tell = "clear"
    BY <1>1 DEF TellClear, Hset, MonitorTypeOK, Records
  <2> QED BY <2>1, <2>2 DEF NoStaleError, Live, Untold, Changes
<1>2. ASSUME NEW m \in Sends, TellSet(m) PROVE NoStaleError'
  <2>1. Changes(m, send[m].step, "expire", send[m].mark) BY <1>2, MonitorEffects
  <2>2. /\ record'.state = "queued" /\ record'.error = record.error
        /\ UNCHANGED mishaps
        /\ send[m].tell = "set"
    BY <1>2 DEF TellSet, Hset, MonitorTypeOK, Records
  <2> QED BY <2>1, <2>2 DEF NoStaleError, Live, Untold, Changes
<1>3. ASSUME NEW m \in Sends, TellExpire(m) PROVE NoStaleError'
  <2>1. Changes(m, send[m].step, "list", send[m].mark) BY <1>3, MonitorEffects
  <2>2. /\ UNCHANGED <<record, mishaps>>
        /\ send[m].tell = "expire"
    BY <1>3 DEF TellExpire, ExpireHash
  <2> QED BY <2>1, <2>2 DEF NoStaleError, Live, Untold, Changes
<1>4. ASSUME NEW m \in Sends, TellList(m) PROVE NoStaleError'
  <2>1. Changes(m, send[m].step, "done", send[m].mark) BY <1>4, MonitorEffects
  <2>2. /\ UNCHANGED <<record, mishaps>>
        /\ send[m].tell = "list"
    BY <1>4 DEF TellList, Zadd
  <2> QED BY <2>1, <2>2 DEF NoStaleError, Live, Untold, Changes
<1>5. ASSUME NEW m \in Sends, PreExecute(m) PROVE NoStaleError'
  <2>1. Changes(m, "starting", send[m].tell, "expire") BY <1>5, MonitorEffects
  <2>2. /\ record'.state = "running" /\ record'.error = record.error
        /\ mishaps \subseteq mishaps'
        /\ send[m].tell \in {"clear", "set"} => "early" \in mishaps'
        /\ send[m].step = "stream"
    BY <1>5 DEF PreExecute, Happened, Hset, MonitorTypeOK, Records
  <2> QED BY <2>1, <2>2 DEF NoStaleError, Live, Untold, Changes
<1>6. ASSUME NEW m \in Sends, Execute(m) PROVE NoStaleError'
  <2>1. PICK hook \in {"ending", "failing"} : Changes(m, hook, send[m].tell, "set")
    BY <1>6, MonitorEffects
  <2>2. /\ UNCHANGED <<record, mishaps>>
        /\ send[m].step = "running"
    BY <1>6 DEF Execute, store
  <2> QED BY <2>1, <2>2 DEF NoStaleError, Live, Untold, Changes
<1>7. ASSUME NEW m \in Sends, PostExecute(m) PROVE NoStaleError'
  <2>1. Changes(m, "ending", send[m].tell, "expire") BY <1>7, MonitorEffects
  <2>2. /\ record'.state = "success" /\ record'.error = record.error
        /\ UNCHANGED mishaps
        /\ send[m].step = "ending"
    BY <1>7 DEF PostExecute, Hset, MonitorTypeOK, Records
  <2> QED BY <2>1, <2>2 DEF NoStaleError, Live, Untold, Changes
<1>8. ASSUME NEW m \in Sends, OnErrorMonitor(m) PROVE NoStaleError'
  <2>1. Changes(m, "failing", send[m].tell, "expire") BY <1>8, MonitorEffects
  <2>2. /\ record'.state = "failed"
        /\ UNCHANGED mishaps
        /\ send[m].step = "failing"
    BY <1>8 DEF OnErrorMonitor, Hset, MonitorTypeOK, Records
  <2> QED BY <2>1, <2>2 DEF NoStaleError, Live, Untold, Changes
<1>9. ASSUME NEW m \in Sends, MarkExpire(m) PROVE NoStaleError'
  <2>1. Changes(m, send[m].step, send[m].tell, "list") BY <1>9, MonitorEffects
  <2>2. /\ UNCHANGED <<record, mishaps>>
        /\ send[m].step \in {"starting", "ending", "failing"} /\ send[m].mark = "expire"
    BY <1>9 DEF MarkExpire, ExpireHash, Marking
  <2> QED BY <2>1, <2>2 DEF NoStaleError, Live, Untold, Changes
<1>10. ASSUME NEW m \in Sends, MarkList(m) PROVE NoStaleError'
  <2>1. PICK next \in {"running", "rekick", "unacked"} :
          /\ Changes(m, next, send[m].tell, "list")
          /\ send[m].step = "starting" <=> next = "running"
          /\ next = "rekick" => send[m].step = "failing"
    BY <1>10, MonitorEffects
  <2>2. /\ UNCHANGED <<record, mishaps>>
        /\ send[m].step \in {"starting", "ending", "failing"} /\ send[m].mark = "list"
    BY <1>10 DEF MarkList, Zadd, Marking
  <2> QED BY <2>1, <2>2 DEF NoStaleError, Live, Untold, Changes
<1>11. ASSUME NEW m \in Sends, Abandon(m) PROVE NoStaleError'
  <2>1. Changes(m, Abandoned(m), send[m].tell, "set") BY <1>11, MonitorEffects
  <2>2. /\ UNCHANGED record /\ mishaps \subseteq mishaps'
        /\ Abandoned(m) \in {"over", "pending"}
        /\ \/ send[m].step \in {"starting", "running", "ending"}
           \/ send[m].step = "failing" /\ send[m].mark = "set"
           \/ "again" \in mishaps'
    BY <1>11 DEF Abandon, Abandoned, Cut, store, Marking
  <2> QED BY <2>1, <2>2 DEF NoStaleError, Live, Untold, Changes
<1>12. ASSUME NEW m \in Sends, Reclaim(m) PROVE NoStaleError'
  <2>1. Changes(m, "stream", send[m].tell, send[m].mark) BY <1>12, MonitorEffects
  <2>2. /\ UNCHANGED <<record, mishaps>>
        /\ send[m].step = "pending"
    BY <1>12 DEF Reclaim, store
  <2> QED BY <2>1, <2>2 DEF NoStaleError, Live, Untold, Changes
<1>13. ASSUME NEW m \in Sends, TellCut(m) PROVE NoStaleError'
  <2>1. /\ UNCHANGED record /\ mishaps \subseteq mishaps'
        /\ send[m].tell = "clear" => "uncleared" \in mishaps'
        /\ Sender(m) # {} => "again" \in mishaps'
    BY <1>13 DEF TellCut, Cut
  <2>2. mishaps' \subseteq {"lost"} => Sender(m) = {} /\ send[m].tell # "clear"
    BY <2>1
  <2>3. mishaps' \subseteq {"lost"} =>
          /\ \A n \in Sends : send'[n].step = send[n].step /\ send'[n].mark = send[n].mark
          /\ send'[m].tell = "done" /\ send[m].tell # "clear"
          /\ \A n \in Sends \ {m} : send'[n].tell = send[n].tell
    BY <1>13, <2>2, ManyMessages
  <2> QED BY <2>1, <2>3 DEF NoStaleError, Live, Untold
<1>14. ASSUME NEW m \in Sends, Acknowledge(m) PROVE NoStaleError'
  <2>1. /\ UNCHANGED record /\ mishaps \subseteq mishaps'
        /\ send[m].step = "unacked"
    BY <1>14 DEF Acknowledge, Happened, store
  <2>2. \A n \in Sends : /\ send'[n].tell = send[n].tell /\ send'[n].mark = send[n].mark
                         /\ \/ send'[n].step = send[n].step
                            \/ /\ send'[n].step = "over"
                               /\ send[n].step \in {"unacked", "pending"}
    BY <1>14, <2>1, ManyMessages
  <2> QED BY <2>1, <2>2 DEF NoStaleError, Live, Untold
<1>15. ASSUME NEW m \in Sends, OnErrorRetry(m) PROVE NoStaleError'
  <2>1. UNCHANGED <<record, mishaps>> /\ send[m].step = "rekick"
    BY <1>15 DEF OnErrorRetry, store
  <2>2. PICK k \in Sends :
          /\ send[k].step = "unsent"
          /\ send'[k].step = "stream" /\ send'[k].tell = "clear"
          /\ send'[m].step = "unacked" /\ send'[m].tell = send[m].tell
          /\ \A n \in Sends \ {m, k} : send'[n] = send[n]
    BY <1>15, NewMessage
  <2>3. mishaps \subseteq {"lost"} => \A n \in Sends : Live(n) => n = m
    BY <2>1 DEF NoStaleError, Live
  <2>4. mishaps \subseteq {"lost"} => \A n \in Sends : Live(n)' => n = k
    BY <2>2, <2>3 DEF Live
  <2>5. Untold(k)' BY <2>2 DEF Untold
  <2>6. \A n \in Sends : n = k \/ (send'[n].tell = send[n].tell /\ (n = m \/ send'[n] = send[n]))
    BY <2>2
  <2> QED BY <2>1, <2>2, <2>4, <2>5, <2>6 DEF NoStaleError
<1>16. ASSUME NEW m \in Sends, ReclaimRunning(m) PROVE NoStaleError'
  <2>1. "twice" \in mishaps' BY <1>16 DEF ReclaimRunning, Happened
  <2> QED BY <2>1 DEF NoStaleError
<1>17. ASSUME NEW r \in Retriers, RetryReads(r) PROVE NoStaleError'
  BY <1>17 DEF RetryReads, store, NoStaleError, Live, Untold
<1>18. ASSUME NEW r \in Retriers, RetryKicks(r) PROVE NoStaleError'
  <2>1. /\ UNCHANGED record /\ mishaps \subseteq mishaps'
        /\ \A n \in Sends : Live(n) => "twice" \in mishaps'
    BY <1>18 DEF RetryKicks, Happened, store
  <2>2. PICK k \in Sends : Changes(k, "stream", "clear", "set") BY <1>18, NewMessage
  <2>3. mishaps' \subseteq {"lost"} => \A n \in Sends : Live(n)' => n = k
    BY <2>1, <2>2 DEF Live, Changes
  <2>4. Untold(k)' BY <2>2 DEF Untold, Changes
  <2> QED BY <2>1, <2>2, <2>3, <2>4 DEF NoStaleError, Changes
<1>19. CASE ExpireRecord
  <2>1. /\ record'.state = "none" /\ ~record'.error
        /\ UNCHANGED <<send, mishaps>>
    BY <1>19 DEF ExpireRecord, NoRecord
  <2> QED BY <2>1 DEF NoStaleError, Live, Untold
<1>20. CASE Trim \/ ListTasks \/ ListForgets
  BY <1>20 DEF Trim, ListTasks, ListForgets, store, NoStaleError, Live, Untold
<1>21. CASE UNCHANGED monitorVars BY <1>21 DEF monitorVars, NoStaleError, Live, Untold
<1> QED BY <1>1, <1>2, <1>3, <1>4, <1>5, <1>6, <1>7, <1>8, <1>9, <1>10, <1>11, <1>12,
           <1>13, <1>14, <1>15, <1>16, <1>17, <1>18, <1>19, <1>20, <1>21 DEF MonitorNext

LEMMA StepCovered == Board /\ [MonitorNext]_monitorVars => Covered'
<1> SUFFICES ASSUME Board, [MonitorNext]_monitorVars PROVE Covered'
  OBVIOUS
<1>0. MonitorTypeOK BY DEF Board
<1> USE <1>0 DEF Board
<1>1. ASSUME NEW m \in Sends, TellClear(m) PROVE Covered'
  <2>1. Changes(m, send[m].step, "set", send[m].mark) BY <1>1, MonitorEffects
  <2>2. /\ record'.state = record.state
        /\ UNCHANGED <<lasting, listed, lapsed>>
        /\ send[m].tell = "clear"
    BY <1>1 DEF TellClear, Hset, MonitorTypeOK, Records
  <2> QED BY <2>1, <2>2 DEF Covered, At, InFlight, Changes, Marking
<1>2. ASSUME NEW m \in Sends, TellSet(m) PROVE Covered'
  <2>1. Changes(m, send[m].step, "expire", send[m].mark) BY <1>2, MonitorEffects
  <2>2. /\ UNCHANGED <<lasting, listed, lapsed>>
    BY <1>2 DEF TellSet, Hset
  <2> QED BY <2>1, <2>2 DEF Covered, At, InFlight, Changes, Marking
<1>3. ASSUME NEW m \in Sends, TellExpire(m) PROVE Covered'
  <2>1. Changes(m, send[m].step, "list", send[m].mark) BY <1>3, MonitorEffects
  <2>2. /\ UNCHANGED <<record, listed, lapsed>>
        /\ lasting' = (record.state # "none")
    BY <1>3 DEF TellExpire, ExpireHash
  <2> QED BY <2>1, <2>2 DEF Covered, At, InFlight, Changes, Marking
<1>4. ASSUME NEW m \in Sends, TellList(m) PROVE Covered'
  <2>1. Changes(m, send[m].step, "done", send[m].mark) BY <1>4, MonitorEffects
  <2>2. /\ listed' /\ UNCHANGED <<record, lasting>>
        /\ lapsed' = (lapsed /\ record.state # "none" /\ ~lasting)
        /\ send[m].tell = "list"
    BY <1>4 DEF TellList, Zadd
  <2> QED BY <2>1, <2>2 DEF Covered, At, InFlight, Changes, Marking
<1>5. ASSUME NEW m \in Sends, PreExecute(m) PROVE Covered'
  <2>1. Changes(m, "starting", send[m].tell, "expire") BY <1>5, MonitorEffects
  <2>2. /\ UNCHANGED <<lasting, listed, lapsed>>
        /\ send[m].step = "stream"
    BY <1>5 DEF PreExecute, Hset
  <2> QED BY <2>1, <2>2 DEF Covered, At, InFlight, Changes, Marking
<1>6. ASSUME NEW m \in Sends, Execute(m) PROVE Covered'
  <2>1. PICK hook \in {"ending", "failing"} : Changes(m, hook, send[m].tell, "set")
    BY <1>6, MonitorEffects
  <2>2. /\ UNCHANGED <<record, lasting, listed, lapsed>>
        /\ send[m].step = "running"
    BY <1>6 DEF Execute, store
  <2> QED BY <2>1, <2>2 DEF Covered, At, InFlight, Changes, Marking
<1>7. ASSUME NEW m \in Sends, PostExecute(m) PROVE Covered'
  <2>1. Changes(m, "ending", send[m].tell, "expire") BY <1>7, MonitorEffects
  <2>2. /\ UNCHANGED <<lasting, listed, lapsed>>
    BY <1>7 DEF PostExecute, Hset
  <2> QED BY <2>1, <2>2 DEF Covered, At, InFlight, Changes, Marking
<1>8. ASSUME NEW m \in Sends, OnErrorMonitor(m) PROVE Covered'
  <2>1. Changes(m, "failing", send[m].tell, "expire") BY <1>8, MonitorEffects
  <2>2. /\ UNCHANGED <<lasting, listed, lapsed>>
    BY <1>8 DEF OnErrorMonitor, Hset
  <2> QED BY <2>1, <2>2 DEF Covered, At, InFlight, Changes, Marking
<1>9. ASSUME NEW m \in Sends, MarkExpire(m) PROVE Covered'
  <2>1. Changes(m, send[m].step, send[m].tell, "list") BY <1>9, MonitorEffects
  <2>2. /\ UNCHANGED <<record, listed, lapsed>>
        /\ lasting' = (record.state # "none")
        /\ send[m].step \in Marking
    BY <1>9 DEF MarkExpire, ExpireHash
  <2> QED BY <2>1, <2>2 DEF Covered, At, InFlight, Changes, Marking
<1>10. ASSUME NEW m \in Sends, MarkList(m) PROVE Covered'
  <2>1. PICK next \in {"running", "rekick", "unacked"} :
          /\ Changes(m, next, send[m].tell, "list")
          /\ send[m].step = "starting" <=> next = "running"
          /\ next = "rekick" => send[m].step = "failing"
    BY <1>10, MonitorEffects
  <2>2. /\ listed' /\ UNCHANGED <<record, lasting>>
        /\ lapsed' = (lapsed /\ record.state # "none" /\ ~lasting)
        /\ send[m].step \in Marking /\ send[m].mark = "list"
    BY <1>10 DEF MarkList, Zadd
  <2> QED BY <2>1, <2>2 DEF Covered, At, InFlight, Changes, Marking
<1>11. ASSUME NEW m \in Sends, Abandon(m) PROVE Covered'
  <2>1. Changes(m, Abandoned(m), send[m].tell, "set") BY <1>11, MonitorEffects
  <2>2. /\ UNCHANGED <<record, lasting>> /\ (listed => listed')
        /\ lapsed => lapsed'
        /\ Abandoned(m) \notin Marking
        /\ send[m].step \in Marking /\ send[m].mark \in {"expire", "list"} => lapsed'
    BY <1>11 DEF Abandon, Abandoned, Cut, store, Marking, MonitorTypeOK
  <2> QED BY <2>1, <2>2 DEF Covered, At, InFlight, Changes, Marking
<1>12. ASSUME NEW m \in Sends, Reclaim(m) PROVE Covered'
  <2>1. Changes(m, "stream", send[m].tell, send[m].mark) BY <1>12, MonitorEffects
  <2>2. /\ UNCHANGED <<record, lasting, listed, lapsed>>
        /\ send[m].step = "pending"
    BY <1>12 DEF Reclaim, store
  <2> QED BY <2>1, <2>2 DEF Covered, At, InFlight, Changes, Marking
<1>13. ASSUME NEW m \in Sends, TellCut(m) PROVE Covered'
  <2>1. /\ UNCHANGED <<record, lasting>> /\ (listed => listed')
        /\ lapsed => lapsed'
        /\ send[m].tell \in {"expire", "list"} => lapsed'
    BY <1>13 DEF TellCut, Cut, MonitorTypeOK
  <2>2. \A n \in Sends \ {m} : \/ send[n].step = "unacked" /\ send'[n].tell = send[n].tell
                               \/ send'[n] = send[n]
    BY <1>13, ManyMessages
  <2>3. send'[m].step = send[m].step /\ send'[m].mark = send[m].mark BY <1>13, ManyMessages
  <2> QED BY <2>1, <2>2, <2>3 DEF Covered, At, InFlight, Marking
<1>14. ASSUME NEW m \in Sends, Acknowledge(m) PROVE Covered'
  <2>1. UNCHANGED <<record, lasting, listed, lapsed>> /\ send[m].step = "unacked"
    BY <1>14 DEF Acknowledge, store
  <2>2. \A n \in Sends : /\ send'[n].tell = send[n].tell /\ send'[n].mark = send[n].mark
                         /\ \/ send'[n].step = send[n].step
                            \/ send[n].step \in {"unacked", "pending"}
    BY <1>14, <2>1, ManyMessages
  <2> QED BY <2>1, <2>2 DEF Covered, At, InFlight, Marking
<1>15. ASSUME NEW m \in Sends, OnErrorRetry(m) PROVE Covered'
  <2>1. UNCHANGED <<record, lasting, listed, lapsed>> /\ send[m].step = "rekick"
    BY <1>15 DEF OnErrorRetry, store
  <2>2. PICK k \in Sends :
          /\ send[k].step = "unsent"
          /\ send'[m].step = "unacked" /\ send'[m].tell = send[m].tell
          /\ \A n \in Sends \ {m, k} : send'[n] = send[n]
    BY <1>15, NewMessage
  <2>3. send[k].tell = "done" BY <2>2 DEF Board, Untouched
  <2> QED BY <2>1, <2>2, <2>3 DEF Covered, At, InFlight, Marking
<1>16. ASSUME NEW m \in Sends, ReclaimRunning(m) PROVE Covered'
  <2>1. UNCHANGED <<record, lasting, listed, lapsed>> BY <1>16 DEF ReclaimRunning, store
  <2>2. PICK k \in Sends : send[k].step = "unsent" /\ Changes(k, "stream", "done", "set")
    BY <1>16, NewMessage
  <2>3. send[k].tell = "done" BY <2>2 DEF Board, Untouched
  <2> QED BY <2>1, <2>2, <2>3 DEF Covered, At, InFlight, Marking, Changes
<1>17. ASSUME NEW r \in Retriers, RetryReads(r) PROVE Covered'
  BY <1>17 DEF RetryReads, store, Covered, At, InFlight
<1>18. ASSUME NEW r \in Retriers, RetryKicks(r) PROVE Covered'
  <2>1. UNCHANGED <<record, lasting, listed, lapsed>> BY <1>18 DEF RetryKicks, store
  <2>2. PICK k \in Sends : send[k].step = "unsent" /\ Changes(k, "stream", "clear", "set")
    BY <1>18, NewMessage
  <2>3. send[k].tell = "done" BY <2>2 DEF Board, Untouched
  <2> QED BY <2>1, <2>2, <2>3 DEF Covered, At, InFlight, Marking, Changes
<1>19. CASE ExpireRecord
  BY <1>19 DEF ExpireRecord, NoRecord, Covered
<1>20. CASE Trim
  BY <1>20 DEF Trim, Covered
<1>21. CASE ListTasks
  BY <1>21 DEF ListTasks, store, Covered, At, InFlight
<1>22. CASE ListForgets
  BY <1>22 DEF ListForgets, Covered
<1>23. CASE UNCHANGED monitorVars BY <1>23 DEF monitorVars, Covered, At, InFlight
<1> QED BY <1>1, <1>2, <1>3, <1>4, <1>5, <1>6, <1>7, <1>8, <1>9, <1>10, <1>11, <1>12,
           <1>13, <1>14, <1>15, <1>16, <1>17, <1>18, <1>19, <1>20, <1>21, <1>22, <1>23
        DEF MonitorNext

LEMMA AlwaysBoard == MonitorSpec => []Board
<1>1. MonitorInit => Board BY BoardInit
<1>2. Board /\ [MonitorNext]_monitorVars => Board'
  BY MonitorKeepsType, StepUntouched, StepInAccord, StepNoStaleError, StepCovered DEF Board
<1> QED BY <1>1, <1>2, PTL DEF MonitorSpec

(* A developer reads from the board how the execution recorded last ended,   *)
(* sees no error of an earlier attempt and finds the task listed, unless one *)
(* of the mishaps that BoardIsRight names for each of them happened          *)
(* (monitor.py:12-14,71-86).                                                 *)
THEOREM BoardStaysRight == MonitorSpec => []BoardIsRight
<1> QED BY AlwaysBoard, BoardSuffices, PTL

HIDE MonitorAssumption DEF MonitorAssumption

-----------------------------------------------------------------------------
(* ClientPool.  The inductive invariant, Witnessed, says what the probe has  *)
(* on record for each ping while it runs: a ping that came back found its    *)
(* dependency up, one that failed has seen it down, or the pool full, or was *)
(* given a connection that an outage broke.                                  *)

Busy == {u \in Users : conn[u] \in {"query", "transaction"}}

(* The record of a running probe. *)
Remembered ==
    /\ Deps \ up \subseteq probe.down
    /\ up \subseteq probe.seenUp
    /\ probe.ping["postgres"] = "waiting" /\ ~Free => probe.full

(* What each ping's end was due to. *)
Founded ==
    /\ \A d \in Deps : probe.ping[d] = "ok" => d \in probe.seenUp
    /\ \A d \in {"objstore", "kv"} : probe.ping[d] = "failed" => d \in probe.down
    /\ probe.ping["postgres"] = "failed" =>
         "postgres" \in probe.down \/ probe.full \/ probe.dead

Witnessed ==
    /\ PoolTypeOK
    /\ probe.step = "pinging" => Remembered /\ Founded
    /\ ReadyIsTruthful

USE PoolAssumption DEF PoolAssumption

(* The fields of the probe that a step leaves as they are. *)
SameProbe == probe'.step = probe.step /\ probe'.status = probe.status /\ probe'.full = probe.full

LEMMA ProbeEffects ==
    ASSUME PoolTypeOK
    PROVE  /\ \A d \in Deps : Send(d) =>
                /\ SameProbe /\ probe'.down = probe.down /\ probe'.seenUp = probe.seenUp
                /\ probe'.ping = [probe.ping EXCEPT ![d] = "sent"] /\ probe'.dead \in BOOLEAN
                /\ IF d = "postgres" /\ probe'.dead THEN stale > 0 /\ stale' = stale - 1
                   ELSE stale' = stale
                /\ d # "postgres" => probe'.dead = probe.dead
           /\ \A d \in Deps : Flip(d) /\ probe.step = "pinging" =>
                /\ SameProbe /\ probe'.ping = probe.ping
                /\ probe'.down = probe.down \cup (Deps \ up')
                /\ probe'.seenUp = probe.seenUp \cup up'
                /\ probe'.dead \in BOOLEAN /\ (probe.dead => probe'.dead)
                /\ ~(OutageOf(d) /\ Pinging) => probe'.dead = probe.dead
           /\ Report =>
                /\ probe'.step = "reported" /\ probe'.ping = probe.ping
                /\ probe'.down = probe.down /\ probe'.seenUp = probe.seenUp
                /\ probe'.full = probe.full /\ probe'.dead = probe.dead
                /\ probe'.status = Classify({d \in Deps : probe.ping[d] = "failed"})
<1> USE DEF SameProbe
<1>1. ASSUME NEW d \in Deps, Send(d)
      PROVE  /\ SameProbe /\ probe'.down = probe.down /\ probe'.seenUp = probe.seenUp
             /\ probe'.ping = [probe.ping EXCEPT ![d] = "sent"] /\ probe'.dead \in BOOLEAN
             /\ IF d = "postgres" /\ probe'.dead THEN stale > 0 /\ stale' = stale - 1
                ELSE stale' = stale
             /\ d # "postgres" => probe'.dead = probe.dead
  <2>1. CASE d = "postgres"
    <3>1. PICK dead \in BOOLEAN :
            /\ Take(dead)
            /\ probe' = [probe EXCEPT !.ping[d] = "sent", !.dead = dead]
      BY <1>1, <2>1 DEF Send
    <3>2. /\ probe'.dead = dead /\ probe'.ping = [probe.ping EXCEPT ![d] = "sent"]
          /\ SameProbe /\ probe'.down = probe.down /\ probe'.seenUp = probe.seenUp
      BY <3>1 DEF PoolTypeOK
    <3> QED BY <2>1, <3>1, <3>2 DEF Take
  <2>2. CASE d # "postgres"
    <3>1. UNCHANGED stale /\ probe' = [probe EXCEPT !.ping[d] = "sent"]
      BY <1>1, <2>2 DEF Send
    <3> QED BY <2>2, <3>1 DEF PoolTypeOK
  <2> QED BY <2>1, <2>2
<1>2. ASSUME NEW d \in Deps, Flip(d), probe.step = "pinging"
      PROVE  /\ SameProbe /\ probe'.ping = probe.ping
             /\ probe'.down = probe.down \cup (Deps \ up')
             /\ probe'.seenUp = probe.seenUp \cup up'
             /\ probe'.dead \in BOOLEAN /\ (probe.dead => probe'.dead)
             /\ ~(OutageOf(d) /\ Pinging) => probe'.dead = probe.dead
  <2>1. PICK broken \in IF OutageOf(d) /\ Pinging THEN {probe.dead, TRUE} ELSE {probe.dead} :
          probe' = [probe EXCEPT !.down = @ \union (Deps \ up'), !.seenUp = @ \union up',
                                 !.dead = broken]
    BY <1>2 DEF Flip
  <2>2. /\ broken \in BOOLEAN /\ (probe.dead => broken)
        /\ ~(OutageOf(d) /\ Pinging) => broken = probe.dead
    BY <2>1 DEF PoolTypeOK
  <2>3. probe'.dead = broken /\ SameProbe /\ probe'.ping = probe.ping
    BY <2>1 DEF PoolTypeOK
  <2>4. probe'.down = probe.down \cup (Deps \ up') /\ probe'.seenUp = probe.seenUp \cup up'
    BY <2>1 DEF PoolTypeOK
  <2> QED BY <2>2, <2>3, <2>4
<1>3. ASSUME Report
      PROVE  /\ probe'.step = "reported" /\ probe'.ping = probe.ping
             /\ probe'.down = probe.down /\ probe'.seenUp = probe.seenUp
             /\ probe'.full = probe.full /\ probe'.dead = probe.dead
             /\ probe'.status = Classify({d \in Deps : probe.ping[d] = "failed"})
  <2> DEFINE answer == Classify({d \in Deps : probe.ping[d] = "failed"})
  <2>1. probe' = [probe EXCEPT !.step = "reported", !.status = answer] BY <1>3 DEF Report
  <2> HIDE DEF answer
  <2>2. probe'.status = answer BY <2>1 DEF PoolTypeOK
  <2>3. /\ probe'.step = "reported" /\ probe'.ping = probe.ping
        /\ probe'.down = probe.down /\ probe'.seenUp = probe.seenUp
        /\ probe'.full = probe.full /\ probe'.dead = probe.dead
    BY <2>1 DEF PoolTypeOK
  <2> QED BY <2>2, <2>3 DEF answer
<1> QED BY <1>1, <1>2, <1>3

LEMMA BorrowedType == Borrowed \in Nat
<1>1. IsFiniteSet(Busy) BY FS_Subset DEF Busy
<1> QED BY <1>1, FS_CardinalityType DEF Borrowed, Busy

(* Every variable of the process keeps its type. *)
THEOREM PoolTypeCorrect == PoolSpec => []PoolTypeOK
<1>1. PoolInit => PoolTypeOK
  BY DEF PoolInit, PoolTypeOK, Lives, UserStates, Deps, Built, NoProbe
<1>2. PoolTypeOK /\ [PoolNext]_poolVars => PoolTypeOK'
  <2> SUFFICES ASSUME PoolTypeOK, [PoolNext]_poolVars PROVE PoolTypeOK'
    OBVIOUS
  <2> USE DEF PoolTypeOK, Lives, UserStates, Deps, Built
  <2>1. CASE Open BY <2>1 DEF Open
  <2>2. CASE StartWorker BY <2>2 DEF StartWorker
  <2>3. CASE StartApi BY <2>3 DEF StartApi
  <2>4. CASE StartFails BY <2>4 DEF StartFails
  <2>5. CASE BeginShutdown BY <2>5 DEF BeginShutdown
  <2>6. CASE CloseNext BY <2>6 DEF CloseNext
  <2>7. CASE CloseFails BY <2>7 DEF CloseFails
  <2>8. ASSUME NEW u \in Users, Call(u) PROVE PoolTypeOK' BY <2>8 DEF Call
  <2>9. ASSUME NEW u \in Users, Borrow(u) PROVE PoolTypeOK'
    <3> DEFINE now == probe.full \/ (probe.step = "pinging" /\ Borrowed + 1 = poolMax)
    <3>1. now \in BOOLEAN OBVIOUS
    <3>2. probe' = [probe EXCEPT !.full = now] BY <2>9 DEF Borrow
    <3> HIDE DEF now
    <3>3. stale' \in 0..poolMax BY <2>9 DEF Borrow, Take
    <3> QED BY <2>9, <3>1, <3>2, <3>3 DEF Borrow
  <2>10. ASSUME NEW u \in Users, GiveBack(u) PROVE PoolTypeOK' BY <2>10 DEF GiveBack
  <2>11. ASSUME NEW u \in Users, PoolTimesOut(u) PROVE PoolTypeOK' BY <2>11 DEF PoolTimesOut
  <2>12. CASE BeginReadyz BY <2>12 DEF BeginReadyz, NoProbe
  <2>13. CASE Report
    <3> DEFINE answer == Classify({d \in Deps : probe.ping[d] = "failed"})
    <3>1. answer \in {"ok", "degraded", "unavailable"} BY DEF Classify
    <3>2. probe' = [probe EXCEPT !.step = "reported", !.status = answer] BY <2>13 DEF Report
    <3>3. alarms' \in Nat /\ UNCHANGED <<role, poolMax, life, held, conn, stale, up, flips>>
      BY <2>13 DEF Report
    <3> HIDE DEF answer
    <3> QED BY <3>1, <3>2, <3>3
  <2>14. CASE EndReadyz BY <2>14 DEF EndReadyz, NoProbe
  <2>15. ASSUME NEW d \in Deps, Send(d) PROVE PoolTypeOK'
    <3>1. PICK dead \in BOOLEAN, pings \in [Deps -> {"waiting", "sent", "ok", "failed"}] :
            probe' \in {[probe EXCEPT !.ping = pings], [probe EXCEPT !.ping = pings, !.dead = dead]}
      <4> DEFINE pings == [probe.ping EXCEPT ![d] = "sent"]
      <4>1. pings \in [Deps -> {"waiting", "sent", "ok", "failed"}] OBVIOUS
      <4>2. PICK dead \in BOOLEAN :
              probe' \in {[probe EXCEPT !.ping[d] = "sent"],
                         [probe EXCEPT !.ping[d] = "sent", !.dead = dead]}
        BY <2>15 DEF Send
      <4> QED BY <4>1, <4>2
    <3>2. stale' \in 0..poolMax BY <2>15, ProbeEffects
    <3>3. UNCHANGED <<role, poolMax, life, held, conn, alarms, up, flips>> BY <2>15 DEF Send
    <3>4. probe' \in [step : {"idle", "pinging", "reported"},
                     ping : [Deps -> {"waiting", "sent", "ok", "failed"}],
                     down : SUBSET Deps, seenUp : SUBSET Deps, full : BOOLEAN,
                     dead : BOOLEAN, status : {"none", "ok", "degraded", "unavailable"}]
      BY <3>1
    <3> QED BY <3>2, <3>3, <3>4
  <2>16. ASSUME NEW d \in Deps, Pong(d) PROVE PoolTypeOK' BY <2>16 DEF Pong
  <2>17. ASSUME NEW d \in Deps, PingFails(d) PROVE PoolTypeOK' BY <2>17 DEF PingFails
  <2>18. ASSUME NEW d \in Deps, Flip(d) PROVE PoolTypeOK'
    <3>1. up' \subseteq Deps /\ flips' \in 0..MaxFlips BY <2>18 DEF Flip
    <3>2. PICK gone, seen \in SUBSET Deps, broken \in BOOLEAN :
            probe' \in {probe, [probe EXCEPT !.down = gone, !.seenUp = seen, !.dead = broken]}
      <4>1. PICK broken \in IF OutageOf(d) /\ Pinging THEN {probe.dead, TRUE} ELSE {probe.dead} :
              probe' = IF probe.step = "pinging"
                         THEN [probe EXCEPT !.down = @ \union (Deps \ up'),
                                            !.seenUp = @ \union up', !.dead = broken]
                         ELSE probe
        BY <2>18 DEF Flip
      <4>2. broken \in BOOLEAN BY <4>1
      <4>3. /\ probe.down \cup (Deps \ up') \in SUBSET Deps
            /\ probe.seenUp \cup up' \in SUBSET Deps
        BY <3>1
      <4> QED BY <4>1, <4>2, <4>3
    <3>3. stale' \in 0..poolMax /\ alarms' \in Nat
      <4>1. CASE OutageOf(d)
        <5>1. Borrowed \in Nat BY BorrowedType
        <5> QED BY <2>18, <4>1, <5>1 DEF Flip
      <4> QED BY <2>18, <4>1 DEF Flip
    <3> QED BY <2>18, <3>1, <3>2, <3>3 DEF Flip
  <2>19. CASE UNCHANGED poolVars BY <2>19 DEF poolVars
  <2> QED
    BY <2>1, <2>2, <2>3, <2>4, <2>5, <2>6, <2>7, <2>8, <2>9, <2>10, <2>11, <2>12, <2>13,
       <2>14, <2>15, <2>16, <2>17, <2>18, <2>19
    DEF PoolNext, LifeNext, CallNext, ReadyzNext
<1> QED BY <1>1, <1>2, PTL DEF PoolSpec

(* Borrowed connections are those of the coroutines and of the probe. *)
Counts ==
    /\ IsFiniteSet(Busy) /\ Cardinality(Busy) \in Nat
    /\ ~Pinging => Borrowed = Cardinality(Busy)
    /\ Pinging => Borrowed = Cardinality(Busy) + 1

LEMMA Counted == PoolTypeOK => Counts
<1>1. IsFiniteSet(Busy) BY FS_Subset DEF Busy
<1> QED BY <1>1, FS_CardinalityType DEF Counts, Borrowed, Busy

LEMMA CountedNext == PoolTypeOK' => Counts'
BY Counted, PTL

(* A step that leaves the probe and what it watches alone. *)
LEMMA StillWitnessed ==
    ASSUME Witnessed, PoolTypeOK', UNCHANGED <<poolMax, up, probe>>, Free => Free'
    PROVE  Witnessed'
<1>1. probe.step = "pinging" => (Remembered /\ Founded)'
  BY DEF Witnessed, Remembered, Founded
<1> QED BY <1>1 DEF Witnessed, ReadyIsTruthful

(* What a running probe must show once it has answered. *)
LEMMA TruthfulReport ==
    ASSUME Witnessed, Report PROVE ReadyIsTruthful'
<1> DEFINE failed == {d \in Deps : probe.ping[d] = "failed"}
<1>1. Founded /\ \A d \in Deps : probe.ping[d] \in {"ok", "failed"}
  BY DEF Witnessed, Report
<1>2. /\ probe.down \subseteq Deps /\ probe.seenUp \subseteq Deps
      /\ probe'.status = Classify(failed)
      /\ probe'.down = probe.down /\ probe'.seenUp = probe.seenUp
      /\ probe'.full = probe.full /\ probe'.dead = probe.dead
  BY DEF Witnessed, PoolTypeOK, Report
<1>3. failed = {} => probe.seenUp = Deps BY <1>1, <1>2 DEF Founded
<1>4. "kv" \in failed => "kv" \in probe.down BY <1>1 DEF Founded
<1>5. failed \intersect Critical # {} =>
        probe.down \intersect Critical # {} \/ probe.full \/ probe.dead
  BY <1>1 DEF Founded, Critical
<1>6. failed # {} /\ failed \intersect Critical = {} => "kv" \in failed
  BY DEF Deps, Critical
<1> HIDE DEF failed
<1> QED BY <1>2, <1>3, <1>4, <1>5, <1>6 DEF ReadyIsTruthful, Classify

(* The coroutines: only a borrow can fill the pool, and it tells the probe. *)
LEMMA CallsWitnessed ==
    ASSUME Witnessed, PoolTypeOK', CallNext PROVE Witnessed'
<1> USE DEF PoolTypeOK
<1>0. PICK u \in Users : Call(u) \/ Borrow(u) \/ GiveBack(u) \/ PoolTimesOut(u)
  BY DEF CallNext
<1>1. CASE Call(u) \/ PoolTimesOut(u)
  <2>1. Busy' = Busy BY <1>1 DEF Call, PoolTimesOut, Busy, Witnessed
  <2>2. Free => Free' BY <1>1, <2>1 DEF Call, PoolTimesOut, Free, Borrowed, Pinging, Busy
  <2> QED BY <1>1, <2>2, StillWitnessed DEF Call, PoolTimesOut
<1>2. CASE GiveBack(u)
  <2>1. Busy' \subseteq Busy BY <1>2 DEF GiveBack, Busy, Witnessed, UserStates
  <2>2. Cardinality(Busy') <= Cardinality(Busy) BY <2>1, Counted, FS_Subset DEF Witnessed, Counts
  <2>3. Borrowed' <= Borrowed
    <3>1. Pinging' <=> Pinging BY <1>2 DEF GiveBack, Pinging
    <3> QED BY <2>2, <3>1, Counted, CountedNext DEF Witnessed, Counts
  <2>4. Borrowed \in Nat /\ Borrowed' \in Nat
    BY BorrowedType, Counted, CountedNext DEF Witnessed, Counts
  <2>5. Free => Free'
    <3>1. poolMax \in Nat /\ poolMax' = poolMax BY <1>2 DEF GiveBack, Witnessed
    <3> QED BY <2>3, <2>4, <3>1 DEF Free
  <2> QED BY <1>2, <2>5, StillWitnessed DEF GiveBack
<1>3. CASE Borrow(u)
  <2>1. Busy' = Busy \cup {u} /\ u \notin Busy BY <1>3 DEF Borrow, Busy, Witnessed
  <2>2. Cardinality(Busy') = Cardinality(Busy) + 1
    BY <2>1, Counted, FS_AddElement DEF Witnessed, Counts
  <2> DEFINE now == probe.full \/ (probe.step = "pinging" /\ Borrowed + 1 = poolMax)
  <2>3. now \in BOOLEAN OBVIOUS
  <2>4. probe' = [probe EXCEPT !.full = now] BY <1>3 DEF Borrow
  <2>5. now <=> probe.full \/ (probe.step = "pinging" /\ Borrowed + 1 = poolMax) OBVIOUS
  <2> HIDE DEF now
  <2>6. /\ probe'.step = probe.step /\ probe'.ping = probe.ping
        /\ probe'.down = probe.down /\ probe'.seenUp = probe.seenUp
        /\ probe'.status = probe.status /\ probe'.full = now
        /\ probe'.dead = probe.dead
    BY <2>4, <2>3 DEF Witnessed
  <2>7. ReadyIsTruthful' BY <2>5, <2>6 DEF Witnessed, ReadyIsTruthful
  <2>8. probe.step = "pinging" /\ probe.ping["postgres"] = "waiting" /\ ~Free' => now
    <3> HAVE probe.step = "pinging" /\ probe.ping["postgres"] = "waiting" /\ ~Free'
    <3>1. ~Pinging /\ ~Pinging' BY <2>6 DEF Pinging
    <3>2. Borrowed' = Borrowed + 1 /\ Borrowed \in Nat
      BY <2>2, <3>1, Counted, CountedNext DEF Witnessed, Counts
    <3>3. Borrowed < poolMax /\ ~(Borrowed' < poolMax) /\ poolMax \in Nat
      BY <1>3 DEF Borrow, Free, Witnessed
    <3> QED BY <2>5, <3>2, <3>3
  <2>9. probe.step = "pinging" => (Remembered /\ Founded)'
    BY <1>3, <2>5, <2>6, <2>8 DEF Borrow, Witnessed, Remembered, Founded
  <2> QED BY <2>6, <2>7, <2>9 DEF Witnessed
<1> QED BY <1>0, <1>1, <1>2, <1>3

(* The probe and the outages. *)
LEMMA ProbeWitnessed ==
    ASSUME Witnessed, PoolTypeOK', ReadyzNext PROVE Witnessed'
<1> USE DEF PoolTypeOK
<1>1. CASE BeginReadyz
  <2>1. /\ probe'.step = "pinging" /\ probe'.ping = [d \in Deps |-> "waiting"]
        /\ probe'.down = Deps \ up /\ probe'.seenUp = up
    BY <1>1 DEF BeginReadyz, NoProbe
  <2>2. ~Free => probe'.full BY <1>1 DEF BeginReadyz, NoProbe
  <2>3. ~Pinging /\ ~Pinging'
    <3>1. probe.step = "idle" BY <1>1 DEF BeginReadyz
    <3>2. probe'.ping["postgres"] = "waiting" BY <2>1 DEF Deps
    <3> QED BY <3>1, <3>2 DEF Pinging
  <2>4. Free => Free'
    <3>1. UNCHANGED <<poolMax, conn>> BY <1>1 DEF BeginReadyz
    <3>2. Borrowed' = Borrowed BY <2>3, <3>1 DEF Borrowed
    <3> QED BY <3>1, <3>2 DEF Free
  <2>5. Remembered' BY <1>1, <2>1, <2>2, <2>4 DEF BeginReadyz, Remembered, Deps
  <2>6. Founded' BY <2>1 DEF Founded, Deps
  <2> QED BY <2>1, <2>5, <2>6 DEF Witnessed, ReadyIsTruthful
<1>2. CASE Report
  <2>1. probe'.step # "pinging" BY <1>2, ProbeEffects DEF Witnessed
  <2> QED BY <1>2, <2>1, TruthfulReport DEF Witnessed
<1>3. CASE EndReadyz
  <2>1. probe'.step = "idle" BY <1>3 DEF EndReadyz, NoProbe
  <2> QED BY <2>1 DEF Witnessed, ReadyIsTruthful
<1>4. ASSUME NEW d \in Deps, Send(d) \/ Pong(d) \/ PingFails(d) PROVE Witnessed'
  <2>0. UNCHANGED <<poolMax, conn, up>> /\ probe.step = "pinging"
    BY <1>4 DEF Send, Pong, PingFails
  <2>1. /\ probe'.step = "pinging"
        /\ probe'.down = probe.down /\ probe'.seenUp = probe.seenUp
        /\ probe'.full = probe.full
        /\ \A e \in Deps \ {d} : probe'.ping[e] = probe.ping[e]
        /\ probe'.dead = probe.dead \/ (d = "postgres" /\ probe'.ping[d] = "sent")
    <3>1. CASE Send(d) BY <2>0, <3>1, ProbeEffects DEF SameProbe, Witnessed
    <3>2. CASE Pong(d) \/ PingFails(d) BY <2>0, <3>2 DEF Pong, PingFails, Witnessed
    <3> QED BY <1>4, <3>1, <3>2
  <2>3. /\ probe'.ping[d] # "waiting"
        /\ probe'.ping[d] = "ok" => d \in up
        /\ probe'.ping[d] = "failed" => \/ d \notin up
                                        \/ d = "postgres" /\ probe'.dead
                                        \/ d = "postgres" /\ probe.ping[d] = "waiting" /\ ~Free
    <3>1. CASE Send(d) BY <3>1, ProbeEffects DEF Witnessed
    <3>2. CASE Pong(d) BY <3>2 DEF Pong, Witnessed
    <3>3. CASE PingFails(d) BY <3>3 DEF PingFails, OnDead, Witnessed
    <3> QED BY <1>4, <3>1, <3>2, <3>3
  <2>4. probe'.ping["postgres"] = "waiting" => (Free => Free')
    <3> SUFFICES ASSUME probe'.ping["postgres"] = "waiting" PROVE Free => Free'
      OBVIOUS
    <3>1. probe.ping["postgres"] = "waiting" BY <2>1, <2>3 DEF Deps
    <3>2. ~Pinging /\ ~Pinging' BY <3>1 DEF Pinging
    <3> QED BY <2>0, <3>2 DEF Free, Borrowed
  <2>5. Remembered' BY <2>0, <2>1, <2>3, <2>4 DEF Witnessed, Remembered, Deps
  <2>6. Founded' BY <2>0, <2>1, <2>3 DEF Witnessed, Remembered, Founded, Deps
  <2> QED BY <2>1, <2>5, <2>6 DEF Witnessed, ReadyIsTruthful
<1>5. ASSUME NEW d \in Deps, Flip(d) PROVE Witnessed'
  <2>1. CASE probe.step # "pinging"
    BY <1>5, <2>1 DEF Flip, Witnessed, ReadyIsTruthful
  <2>2. CASE probe.step = "pinging"
    <3>1. /\ probe'.step = "pinging" /\ probe'.ping = probe.ping
          /\ probe'.full = probe.full /\ (probe.dead => probe'.dead)
          /\ probe'.down = probe.down \cup (Deps \ up')
          /\ probe'.seenUp = probe.seenUp \cup up'
      BY <1>5, <2>2, ProbeEffects DEF SameProbe, Witnessed
    <3>2. Free => Free' BY <1>5, <3>1 DEF Flip, Free, Borrowed, Pinging
    <3>3. Remembered' BY <2>2, <3>1, <3>2 DEF Witnessed, Remembered
    <3>4. Founded' BY <2>2, <3>1 DEF Witnessed, Founded
    <3> QED BY <3>1, <3>3, <3>4 DEF Witnessed, ReadyIsTruthful
  <2> QED BY <2>1, <2>2
<1> QED BY <1>1, <1>2, <1>3, <1>4, <1>5 DEF ReadyzNext

LEMMA AlwaysWitnessed == PoolSpec => []Witnessed
<1>1. PoolInit => Witnessed
  <2> SUFFICES ASSUME PoolInit PROVE Witnessed
    OBVIOUS
  <2>1. probe.step = "idle" BY DEF PoolInit, NoProbe
  <2>2. PoolTypeOK
    BY DEF PoolInit, PoolTypeOK, Lives, UserStates, Deps, Built, NoProbe
  <2> QED BY <2>1, <2>2 DEF Witnessed, ReadyIsTruthful
<1>2. Witnessed /\ PoolTypeOK' /\ [PoolNext]_poolVars => Witnessed'
  <2> SUFFICES ASSUME Witnessed, PoolTypeOK', [PoolNext]_poolVars PROVE Witnessed'
    OBVIOUS
  <2>1. CASE LifeNext \/ UNCHANGED poolVars
    <3>1. UNCHANGED <<poolMax, conn, up, probe>>
      BY <2>1 DEF LifeNext, poolVars, Open, StartWorker, StartApi, StartFails,
                  BeginShutdown, CloseNext, CloseFails
    <3>2. Free => Free' BY <3>1 DEF Free, Borrowed, Pinging
    <3> QED BY <3>1, <3>2, StillWitnessed
  <2> QED BY <2>1, CallsWitnessed, ProbeWitnessed DEF PoolNext
<1> QED BY <1>1, <1>2, PoolTypeCorrect, PTL DEF PoolSpec

(* GET /readyz never says more than its pings saw: "ok" without each of them *)
(* up at some moment, "degraded" without Valkey down, "unavailable" without  *)
(* a critical dependency down, the pool at its limit or a connection broken  *)
(* by an earlier outage.                                                     *)
THEOREM ReadinessIsTruthful == PoolSpec => []ReadyIsTruthful
<1>1. Witnessed => ReadyIsTruthful BY DEF Witnessed
<1> QED BY <1>1, AlwaysWitnessed, PTL

(* What the alarms cost: each of them one of the connections that the last   *)
(* outage broke, and so does the ping that is on such a connection, if the   *)
(* probe has seen no outage itself.                                          *)
Due == IF probe.step = "pinging" /\ probe.dead /\ probe.down \intersect Critical = {}
         THEN 1 ELSE 0
Paid == alarms + stale + Due <= poolMax

LEMMA LessIsPaid ==
    ASSUME NEW a \in Nat, NEW x \in Nat, NEW y \in Nat, NEW d \in Nat, NEW n \in Nat,
           y <= x, a + x + d <= n
    PROVE  a + y + d <= n
OBVIOUS

LEMMA StepPaid ==
    ASSUME Witnessed, Paid, PoolTypeOK', [PoolNext]_poolVars PROVE Paid'
<1> USE DEF PoolTypeOK, Paid, Due
<1>0. alarms \in Nat /\ stale \in Nat /\ poolMax \in Nat /\ stale <= poolMax
  BY DEF Witnessed
<1>1. CASE LifeNext \/ UNCHANGED poolVars
  <2>1. UNCHANGED <<poolMax, stale, alarms, probe>>
    BY <1>1 DEF LifeNext, poolVars, Open, StartWorker, StartApi, StartFails,
                BeginShutdown, CloseNext, CloseFails
  <2> QED BY <2>1
<1>2. ASSUME NEW u \in Users, Call(u) \/ GiveBack(u) \/ PoolTimesOut(u) PROVE Paid'
  <2>1. UNCHANGED <<poolMax, stale, alarms, probe>>
    BY <1>2 DEF Call, GiveBack, PoolTimesOut
  <2> QED BY <2>1
<1>3. ASSUME NEW u \in Users, Borrow(u) PROVE Paid'
  <2>1. /\ UNCHANGED <<poolMax, alarms>> /\ stale' <= stale /\ stale' \in Nat
    BY <1>0, <1>3 DEF Borrow, Take
  <2>2. probe'.step = probe.step /\ probe'.dead = probe.dead /\ probe'.down = probe.down
    BY <1>3 DEF Borrow, Witnessed
  <2>3. Due' = Due /\ Due \in {0, 1} BY <2>2
  <2> HIDE DEF Due, PoolTypeOK
  <2>4. alarms + stale + Due <= poolMax /\ alarms' = alarms /\ poolMax' = poolMax BY <2>1
  <2>5. stale' <= stale /\ stale' \in Nat /\ Due \in Nat BY <2>1, <2>3
  <2> HIDE DEF Paid
  <2>6. alarms + stale' + Due <= poolMax BY <1>0, <2>4, <2>5, LessIsPaid
  <2> QED BY <2>3, <2>4, <2>6 DEF Paid
<1>4. CASE BeginReadyz
  <2>1. ~probe'.dead /\ UNCHANGED <<poolMax, alarms, stale>>
    BY <1>4 DEF BeginReadyz, NoProbe
  <2> QED BY <1>0, <2>1
<1>5. CASE EndReadyz
  <2>1. ~probe'.dead /\ UNCHANGED <<poolMax, alarms, stale>> BY <1>5 DEF EndReadyz, NoProbe
  <2> QED BY <1>0, <2>1
<1>6. CASE Report
  <2> DEFINE failed == {d \in Deps : probe.ping[d] = "failed"}
             status == Classify(failed)
  <2>1. /\ probe'.step = "reported" /\ UNCHANGED <<poolMax, stale>>
        /\ probe.step = "pinging"
        /\ alarms' = IF FalseAlarm(status) THEN alarms + 1 ELSE alarms
    BY <1>6, ProbeEffects DEF Report, Witnessed
  <2>2. FalseAlarm(status) => probe.dead /\ probe.down \intersect Critical = {}
    <3> HAVE FalseAlarm(status)
    <3>1. /\ probe.down \intersect Critical = {} /\ ~probe.full
          /\ failed \intersect Critical # {}
      BY DEF FalseAlarm, Classify
    <3>2. Founded BY <2>1 DEF Witnessed
    <3> QED BY <3>1, <3>2 DEF Founded, Critical
  <2> HIDE DEF status
  <2> QED BY <1>0, <2>1, <2>2
<1>7. ASSUME NEW d \in Deps, Pong(d) \/ PingFails(d) PROVE Paid'
  <2>1. /\ UNCHANGED <<poolMax, stale, alarms>>
        /\ probe'.step = probe.step /\ probe'.dead = probe.dead /\ probe'.down = probe.down
    BY <1>7 DEF Pong, PingFails, Witnessed
  <2>2. Due' = Due BY <2>1
  <2> HIDE DEF Due, PoolTypeOK
  <2> QED BY <2>1, <2>2
<1>8. ASSUME NEW d \in Deps, Send(d) PROVE Paid'
  <2>1. /\ UNCHANGED <<poolMax, alarms>> /\ stale' \in Nat
        /\ probe'.step = probe.step /\ probe'.down = probe.down
        /\ \/ stale' = stale - 1
           \/ stale' = stale /\ (probe'.dead => probe.dead)
    <3>1. UNCHANGED <<poolMax, alarms>> BY <1>8 DEF Send
    <3> QED BY <1>0, <1>8, <3>1, ProbeEffects DEF SameProbe, Witnessed
  <2>2. Due \in {0, 1} /\ Due' \in {0, 1} OBVIOUS
  <2>3. (probe'.dead => probe.dead) => Due' <= Due BY <2>1
  <2> HIDE DEF Due, PoolTypeOK
  <2>4. alarms + stale + Due <= poolMax /\ UNCHANGED <<poolMax, alarms>> BY <2>1
  <2>5. CASE stale' = stale - 1
    <3>1. alarms + stale <= poolMax BY <1>0, <2>2, <2>4
    <3>2. alarms' + stale' + 1 <= poolMax' /\ alarms' + stale' + 0 <= poolMax'
      BY <1>0, <2>4, <2>5, <3>1
    <3> QED BY <2>2, <3>2
  <2>6. CASE stale' = stale /\ Due' <= Due
    <3>1. CASE Due = 0
      <4>1. Due' = 0 BY <2>2, <2>6, <3>1
      <4> QED BY <2>4, <2>6, <3>1, <4>1
    <3>2. CASE Due = 1
      <4>1. alarms + stale + 1 <= poolMax /\ alarms + stale + 0 <= poolMax
        BY <1>0, <2>4, <3>2
      <4> QED BY <2>2, <2>4, <2>6, <4>1
    <3> QED BY <2>2, <3>1, <3>2
  <2> QED BY <2>1, <2>3, <2>5, <2>6
<1>9. ASSUME NEW d \in Deps, Flip(d) PROVE Paid'
  <2>1. CASE OutageOf(d)
    <3>1. stale' <= poolMax /\ stale' \in Nat /\ alarms' = 0 /\ alarms' \in Nat /\ UNCHANGED poolMax
      BY <1>0, <1>9, <2>1, BorrowedType DEF Flip
    <3>2. probe'.step = "pinging" => "postgres" \in probe'.down
      <4>1. "postgres" \notin up' BY <1>9, <2>1 DEF Flip, OutageOf
      <4>2. probe'.step = "pinging" => probe.step = "pinging" BY <1>9 DEF Flip
      <4> QED BY <1>9, <4>1, <4>2, ProbeEffects DEF Deps, Witnessed
    <3>3. Due' = 0 /\ Due' \in Nat BY <3>2 DEF Critical
    <3> HIDE DEF Due, PoolTypeOK
    <3>4. stale' \in 0..poolMax' /\ poolMax' \in Nat BY <1>0, <3>1
    <3>5. \A n \in Nat : \A k \in 0..n : 0 + k + 0 <= n OBVIOUS
    <3> QED BY <3>1, <3>3, <3>4, <3>5
  <2>2. CASE ~OutageOf(d)
    <3>1. /\ UNCHANGED <<poolMax, stale, alarms>>
          /\ probe.step # "pinging" => probe' = probe
      BY <1>9, <2>2 DEF Flip
    <3>2. probe.step = "pinging" => /\ probe'.step = probe.step /\ probe'.dead = probe.dead
                                    /\ probe.down \subseteq probe'.down
      BY <1>9, <2>2, ProbeEffects DEF SameProbe, Witnessed
    <3> QED BY <1>0, <3>1, <3>2
  <2> QED BY <2>1, <2>2
<1> QED BY <1>1, <1>2, <1>3, <1>4, <1>5, <1>6, <1>7, <1>8, <1>9
        DEF PoolNext, CallNext, ReadyzNext

(* However many probes and callers there are and whatever the pool's size,   *)
(* an outage of PostgreSQL is forgotten after as many false alarms as the    *)
(* pool has connections.                                                     *)
THEOREM FalseAlarmsAreBounded == PoolSpec => []FalseAlarmsEnd
<1>1. PoolInit => Paid
  <2> SUFFICES ASSUME PoolInit PROVE Paid
    OBVIOUS
  <2>1. probe.step = "idle" BY DEF PoolInit, NoProbe
  <2>2. Due = 0 BY <2>1 DEF Due
  <2>3. alarms = 0 /\ stale = 0 /\ poolMax \in Nat BY DEF PoolInit
  <2> QED BY <2>2, <2>3 DEF Paid
<1>2. Paid /\ PoolTypeOK => FalseAlarmsEnd
  BY DEF PoolTypeOK, Paid, Due, FalseAlarmsEnd
<1> QED BY <1>1, <1>2, StepPaid, AlwaysWitnessed, PoolTypeCorrect, PTL DEF PoolSpec

HIDE PoolAssumption DEF PoolAssumption

-----------------------------------------------------------------------------
(* The composition.                                                         *)

(* What Margin leaves open: the breaker, and whether Valkey is there. *)
Breaker == down \in [Procs -> Nat] /\ valkeyUp \in BOOLEAN

LEMMA BreakerTyped == ViewSpec => []Breaker
<1> USE DEF Breaker
<1>1. ViewInit => Breaker BY DEF ViewInit
<1>2. Breaker /\ [ViewNext]_viewVars => Breaker'
  <2> SUFFICES ASSUME Breaker, [ViewNext]_viewVars
               PROVE  Breaker'
    OBVIOUS
  <2>1. \A p \in Procs : Trip(p) => down' \in [Procs -> Nat]
    BY ViewCacheAssumption DEF Trip, ViewCacheAssumption
  <2>2. ASSUME NEW p \in Procs, GetKvFails(p) \/ SetKvFails(p) \/ DeleteKvFails(p)
        PROVE  Breaker'
    BY <2>1, <2>2 DEF GetKvFails, SetKvFails, DeleteKvFails
  <2>3. ASSUME NEW p \in Procs,
               BeginView(p) \/ GetKv(p) \/ GetMem(p) \/ Presign(p) \/ SetKv(p)
        PROVE  Breaker'
    BY <2>3 DEF BeginView, GetKv, GetMem, Presign, SetKv
  <2>4. ASSUME NEW p \in Procs, SetMem(p) \/ BeginDelete(p) \/ DeleteKv(p) \/ Evict(p)
        PROVE  Breaker'
    BY <2>4 DEF SetMem, BeginDelete, DeleteKv, Evict
  <2>5. CASE KvLost \/ KvBack \/ UNCHANGED viewVars BY <2>5 DEF KvLost, KvBack, viewVars
  <2>6. CASE Pass
    <3>1. \A p \in Procs : (IF down[p] = 0 THEN 0 ELSE down[p] - 1) \in Nat OBVIOUS
    <3> QED BY <2>6, <3>1 DEF Pass
  <2> QED BY <2>2, <2>3, <2>4, <2>5, <2>6 DEF ViewNext
<1> HIDE DEF Breaker
<1> QED BY <1>1, <1>2, PTL DEF ViewSpec

storesVars == <<focus, bucketVars, viewVars, saverVars, monitorVars, userdataVars, poolVars>>

(* Where six stores stand side by side, each takes only its own steps: no    *)
(* step of one touches a key, a row or a variable of another, which is what  *)
(* lets every theorem about one alone speak of the whole.                    *)
LEMMA StoresStandApart ==
    StoresSpec => BucketSpec /\ ViewSpec /\ SaverSpec /\ MonitorSpec /\ UserdataSpec
                  /\ PoolSpec
<1>1. [StoresNext]_storesVars => [BucketNext]_bucketVars BY DEF StoresNext, storesVars
<1>2. [StoresNext]_storesVars => [ViewNext]_viewVars BY DEF StoresNext, storesVars
<1>3. [StoresNext]_storesVars => [SaverNext]_saverVars BY DEF StoresNext, storesVars
<1>4. [StoresNext]_storesVars => [MonitorNext]_monitorVars BY DEF StoresNext, storesVars
<1>5. [StoresNext]_storesVars => [UserdataNext]_userdataVars
  BY DEF StoresNext, storesVars, UserdataNext
<1>6. [StoresNext]_storesVars => [PoolNext]_poolVars BY DEF StoresNext, storesVars
<1>7. StoresInit => /\ BucketInit /\ ViewInit /\ SaverInit /\ MonitorInit /\ UserdataInit
                    /\ PoolInit
  BY DEF StoresInit
<1> QED BY <1>1, <1>2, <1>3, <1>4, <1>5, <1>6, <1>7, PTL
        DEF StoresSpec, storesVars, BucketSpec, ViewSpec, SaverSpec, MonitorSpec,
            UserdataSpec, PoolSpec

(* Every variable of the six components keeps its type wherever they run     *)
(* together: the bucket, the cache, the saver, the monitor, the definitions   *)
(* with their links, and the process with its pool.                          *)
THEOREM StoresTypeCorrect == StoresSpec => []StoresTypeOK
<1>1. BucketSpec => []BucketTypeOK
  <2>1. Balanced => BucketTypeOK BY DEF Balanced
  <2> QED BY <2>1, BalancedInvariant, PTL
<1>2. ViewSpec => []ViewTypeOK
  <2>1. Margin /\ Breaker => ViewTypeOK BY DEF Margin, Sound, Breaker, ViewTypeOK
  <2> QED BY <2>1, AlwaysMargin, BreakerTyped, PTL
<1>3. MonitorSpec => []MonitorTypeOK
  <2>1. Board => MonitorTypeOK BY DEF Board
  <2> QED BY <2>1, AlwaysBoard, PTL
<1> QED BY <1>1, <1>2, <1>3, SaverTypeCorrect, UserdataTypeCorrect, PoolTypeCorrect,
           StoresStandApart, PTL DEF StoresTypeOK

===============================================================================
