------------------------- MODULE CheckpointSaverProofs -------------------------
(***************************************************************************)
(* FirstWriteWins, SelfExpires and LatestNotLost, for any number of        *)
(* attempts, graph tasks and checkpoints, and any TTL.                     *)
(*                                                                         *)
(* Formed says which pipelines there can be: what is left of the four      *)
(* commands of aput, or of the two of aput_writes, for the client's own    *)
(* task.  On that rest the invariants: Expiring ties a key that has no TTL *)
(* to the client that is about to give it one; Honest says that a task     *)
(* which no two attempts wrote at once knows every field it must not send  *)
(* again, until it has sent the others; and Ordered says where a           *)
(* checkpoint is on its way into the index, and that along the index the   *)
(* hashes expire in the order of their ids, none after the index itself.   *)
(***************************************************************************)
EXTENDS CheckpointSaver, NatSets, TLAPS

USE SaverAssumption DEF SaverAssumption

-----------------------------------------------------------------------------
(* Pipelines.                                                               *)

RunnerPipe(p) ==
    \/ p = <<>>
    \/ \E i \in Ids : p = <<HsetCp(i), ExpireCp(i), Sadd(i), ExpireIndex(i)>>
    \/ \E i \in Ids : p = <<ExpireCp(i), Sadd(i), ExpireIndex(i)>>
    \/ \E i \in Ids : p = <<Sadd(i), ExpireIndex(i)>>
    \/ \E i \in Ids : p = <<ExpireIndex(i)>>

WriterPipe(p, a, t) ==
    \/ p = <<>>
    \/ \E i \in Ids, s \in Slots : p = StorePipe(i, t, s, a)
    \/ \E i \in Ids : p = <<ExpireW(i)>>

Formed ==
    /\ cp \in [Ids -> Ttls]
    /\ index \in IndexKeys
    /\ writes \in [Ids -> WriteKeys]
    /\ at \in [Attempts -> [step: {"off", "latest", "on"}, id: Ids \cup {0}]]
    /\ known \in [Writers -> [step: {"idle", "seen"}, id: Ids \cup {0},
                              fields: SUBSET Fields]]
    /\ \A w \in Writers : known[w].step = "seen" => known[w].id \in Ids
    /\ created \in Ids \cup {0}
    /\ breaks \in Nat
    /\ pipe = [c \in Clients |-> pipe[c]]
    /\ \A a \in Attempts : RunnerPipe(pipe[<<a, Runner>>])
    /\ \A a \in Attempts, t \in Tasks : WriterPipe(pipe[<<a, t>>], a, t)

(* What the server finds at the head of a pipeline, and what it leaves.      *)
LEMMA HeadAndTail ==
    /\ \A x : <<x>> # <<>> /\ Head(<<x>>) = x /\ Tail(<<x>>) = <<>>
    /\ \A x, y : <<x, y>> # <<>> /\ Head(<<x, y>>) = x /\ Tail(<<x, y>>) = <<y>>
    /\ \A x, y, z : <<x, y, z>> # <<>> /\ Head(<<x, y, z>>) = x
                    /\ Tail(<<x, y, z>>) = <<y, z>>
    /\ \A x, y, z, u : <<x, y, z, u>> # <<>> /\ Head(<<x, y, z, u>>) = x
                       /\ Tail(<<x, y, z, u>>) = <<y, z, u>>
OBVIOUS

(* The hash of pending writes after HSET and after EXPIRE. *)
Written(i, t, s, v) == [val |-> [writes[i].val EXCEPT ![<<t, s>>] = v],
                        ttl |-> Created(writes[i].ttl)]
Kept(i) == [val |-> writes[i].val, ttl |-> Renewed(writes[i].ttl)]

(* Which command of which pipeline it was. *)
RanRunner(a, i) ==
    \/ /\ pipe[<<a, Runner>>] = <<HsetCp(i), ExpireCp(i), Sadd(i), ExpireIndex(i)>>
       /\ pipe' = [pipe EXCEPT ![<<a, Runner>>] = <<ExpireCp(i), Sadd(i), ExpireIndex(i)>>]
       /\ cp' = [cp EXCEPT ![i] = Created(@)] /\ UNCHANGED <<index, writes>>
    \/ /\ pipe[<<a, Runner>>] = <<ExpireCp(i), Sadd(i), ExpireIndex(i)>>
       /\ pipe' = [pipe EXCEPT ![<<a, Runner>>] = <<Sadd(i), ExpireIndex(i)>>]
       /\ cp' = [cp EXCEPT ![i] = Renewed(@)] /\ UNCHANGED <<index, writes>>
    \/ /\ pipe[<<a, Runner>>] = <<Sadd(i), ExpireIndex(i)>>
       /\ pipe' = [pipe EXCEPT ![<<a, Runner>>] = <<ExpireIndex(i)>>]
       /\ index' = [ids |-> index.ids \cup {i}, ttl |-> Created(index.ttl)]
       /\ UNCHANGED <<cp, writes>>
    \/ /\ pipe[<<a, Runner>>] = <<ExpireIndex(i)>>
       /\ pipe' = [pipe EXCEPT ![<<a, Runner>>] = <<>>]
       /\ index' = [ids |-> index.ids, ttl |-> Renewed(index.ttl)] /\ UNCHANGED <<cp, writes>>

RanWriter(a, t, i, s) ==
    \/ /\ pipe[<<a, t>>] = StorePipe(i, t, s, a)
       /\ pipe' = [pipe EXCEPT ![<<a, t>>] = <<ExpireW(i)>>]
       /\ writes' = [writes EXCEPT ![i] = Written(i, t, s, a)]
       /\ UNCHANGED <<cp, index>>
    \/ /\ pipe[<<a, t>>] = <<ExpireW(i)>>
       /\ pipe' = [pipe EXCEPT ![<<a, t>>] = <<>>]
       /\ writes' = [writes EXCEPT ![i] = Kept(i)]
       /\ UNCHANGED <<cp, index>>

(* What each command does. *)
LEMMA Effects ==
    /\ \A i \in Ids : Effect(HsetCp(i)) =>
         cp' = [cp EXCEPT ![i] = Created(@)] /\ UNCHANGED <<index, writes>>
    /\ \A i \in Ids : Effect(ExpireCp(i)) =>
         cp' = [cp EXCEPT ![i] = Renewed(@)] /\ UNCHANGED <<index, writes>>
    /\ \A i \in Ids : Effect(Sadd(i)) =>
         /\ index' = [ids |-> index.ids \cup {i}, ttl |-> Created(index.ttl)]
         /\ UNCHANGED <<cp, writes>>
    /\ \A i \in Ids : Effect(ExpireIndex(i)) =>
         index' = [ids |-> index.ids, ttl |-> Renewed(index.ttl)] /\ UNCHANGED <<cp, writes>>
    /\ \A i \in Ids : Effect(ExpireW(i)) =>
         writes' = [writes EXCEPT ![i] = Kept(i)] /\ UNCHANGED <<cp, index>>
    /\ \A i \in Ids, t \in Tasks, s \in Slots, v \in Attempts : Effect(WriteOf(i, t, s, v)) =>
         /\ writes' = [writes EXCEPT ![i] = Written(i, t, s, v)]
         /\ UNCHANGED <<cp, index>>
<1>1. \A i : HsetCp(i).op = "hset_cp" /\ HsetCp(i).id = i BY DEF HsetCp
<1>2. \A i : ExpireCp(i).op = "expire_cp" /\ ExpireCp(i).id = i BY DEF ExpireCp
<1>3. \A i : Sadd(i).op = "sadd" /\ Sadd(i).id = i BY DEF Sadd
<1>4. \A i : ExpireIndex(i).op = "expire_index" /\ ExpireIndex(i).id = i BY DEF ExpireIndex
<1>5. \A i : ExpireW(i).op = "expire_w" /\ ExpireW(i).id = i BY DEF ExpireW
<1>6. \A i, t, s, v : /\ WriteOf(i, t, s, v).op = "hset_w" /\ WriteOf(i, t, s, v).id = i
                      /\ WriteOf(i, t, s, v).field = <<t, s>>
                      /\ WriteOf(i, t, s, v).value = v
  BY DEF WriteOf
<1>7. \A i : Effect(HsetCp(i)) =>
         cp' = [cp EXCEPT ![i] = Created(@)] /\ UNCHANGED <<index, writes>>
  BY <1>1 DEF Effect
<1>8. \A i : Effect(ExpireCp(i)) =>
         cp' = [cp EXCEPT ![i] = Renewed(@)] /\ UNCHANGED <<index, writes>>
  BY <1>2 DEF Effect
<1>9. \A i : Effect(Sadd(i)) =>
         /\ index' = [ids |-> index.ids \cup {i}, ttl |-> Created(index.ttl)]
         /\ UNCHANGED <<cp, writes>>
  BY <1>3 DEF Effect
<1>10. \A i : Effect(ExpireIndex(i)) =>
         index' = [ids |-> index.ids, ttl |-> Renewed(index.ttl)] /\ UNCHANGED <<cp, writes>>
  BY <1>4 DEF Effect
<1>11. \A i : Effect(ExpireW(i)) =>
         writes' = [writes EXCEPT ![i] = Kept(i)] /\ UNCHANGED <<cp, index>>
  BY <1>5 DEF Effect, Kept
<1>12. \A i, t, s, v : Effect(WriteOf(i, t, s, v)) =>
         /\ writes' = [writes EXCEPT ![i] = Written(i, t, s, v)]
         /\ UNCHANGED <<cp, index>>
  BY <1>6 DEF Effect, Written
<1> QED BY <1>7, <1>8, <1>9, <1>10, <1>11, <1>12

LEMMA RunCases ==
    ASSUME Formed, NEW c \in Clients, Run(c)
    PROVE  \/ \E a \in Attempts, i \in Ids : RanRunner(a, i)
           \/ \E a \in Attempts, t \in Tasks, i \in Ids, s \in Slots : RanWriter(a, t, i, s)
<1>1. PICK a \in Attempts : c = <<a, Runner>> \/ \E t \in Tasks : c = <<a, t>>
  BY DEF Clients
<1>2. CASE c = <<a, Runner>>
  <2>1. PICK i \in Ids :
          pipe[c] \in {<<HsetCp(i), ExpireCp(i), Sadd(i), ExpireIndex(i)>>,
                       <<ExpireCp(i), Sadd(i), ExpireIndex(i)>>,
                       <<Sadd(i), ExpireIndex(i)>>, <<ExpireIndex(i)>>}
    BY <1>2 DEF Formed, RunnerPipe, Run
  <2>2. CASE pipe[c] = <<HsetCp(i), ExpireCp(i), Sadd(i), ExpireIndex(i)>>
    <3>1. Head(pipe[c]) = HsetCp(i) /\ Tail(pipe[c]) = <<ExpireCp(i), Sadd(i), ExpireIndex(i)>>
      BY <2>2, HeadAndTail
    <3>2. Effect(HsetCp(i)) /\ pipe' = [pipe EXCEPT ![c] = <<ExpireCp(i), Sadd(i), ExpireIndex(i)>>]
      BY <3>1 DEF Run
    <3> QED BY <1>2, <2>2, <3>2, Effects DEF RanRunner
  <2>3. CASE pipe[c] = <<ExpireCp(i), Sadd(i), ExpireIndex(i)>>
    <3>1. Head(pipe[c]) = ExpireCp(i) /\ Tail(pipe[c]) = <<Sadd(i), ExpireIndex(i)>>
      BY <2>3, HeadAndTail
    <3>2. Effect(ExpireCp(i)) /\ pipe' = [pipe EXCEPT ![c] = <<Sadd(i), ExpireIndex(i)>>]
      BY <3>1 DEF Run
    <3> QED BY <1>2, <2>3, <3>2, Effects DEF RanRunner
  <2>4. CASE pipe[c] = <<Sadd(i), ExpireIndex(i)>>
    <3>1. Head(pipe[c]) = Sadd(i) /\ Tail(pipe[c]) = <<ExpireIndex(i)>>
      BY <2>4, HeadAndTail
    <3>2. Effect(Sadd(i)) /\ pipe' = [pipe EXCEPT ![c] = <<ExpireIndex(i)>>]
      BY <3>1 DEF Run
    <3> QED BY <1>2, <2>4, <3>2, Effects DEF RanRunner
  <2>5. CASE pipe[c] = <<ExpireIndex(i)>>
    <3>1. Head(pipe[c]) = ExpireIndex(i) /\ Tail(pipe[c]) = <<>> BY <2>5, HeadAndTail
    <3>2. Effect(ExpireIndex(i)) /\ pipe' = [pipe EXCEPT ![c] = <<>>] BY <3>1 DEF Run
    <3> QED BY <1>2, <2>5, <3>2, Effects DEF RanRunner
  <2> QED BY <2>1, <2>2, <2>3, <2>4, <2>5
<1>3. ASSUME NEW t \in Tasks, c = <<a, t>>
      PROVE  \E i \in Ids, s \in Slots : RanWriter(a, t, i, s)
  <2>1. \/ \E i \in Ids, s \in Slots : pipe[c] = StorePipe(i, t, s, a)
        \/ \E i \in Ids : pipe[c] = <<ExpireW(i)>>
    <3>1. WriterPipe(pipe[c], a, t) BY <1>3 DEF Formed
    <3>2. pipe[c] # <<>> BY DEF Run
    <3> QED BY <3>1, <3>2 DEF WriterPipe
  <2>2. ASSUME NEW i \in Ids, NEW s \in Slots, pipe[c] = StorePipe(i, t, s, a)
        PROVE  RanWriter(a, t, i, s)
    <3>1. Head(pipe[c]) = WriteOf(i, t, s, a) /\ Tail(pipe[c]) = <<ExpireW(i)>>
      BY <2>2, HeadAndTail DEF StorePipe
    <3>2. Effect(WriteOf(i, t, s, a)) /\ pipe' = [pipe EXCEPT ![c] = <<ExpireW(i)>>]
      BY <3>1 DEF Run
    <3> QED BY <1>3, <2>2, <3>2, Effects DEF RanWriter
  <2>3. ASSUME NEW i \in Ids, pipe[c] = <<ExpireW(i)>> PROVE RanWriter(a, t, i, 0)
    <3>1. Head(pipe[c]) = ExpireW(i) /\ Tail(pipe[c]) = <<>> BY <2>3, HeadAndTail
    <3>2. Effect(ExpireW(i)) /\ pipe' = [pipe EXCEPT ![c] = <<>>] BY <3>1 DEF Run
    <3> QED BY <1>3, <2>3, <3>2, Effects DEF RanWriter
  <2> QED BY <2>1, <2>2, <2>3 DEF Slots
<1> QED BY <1>1, <1>2, <1>3

-----------------------------------------------------------------------------
(* Formed is inductive.                                                     *)

(* Which step leaves the pipelines as they must be. *)
LEMMA PipesFormed ==
    ASSUME Formed, NEW c \in Clients, NEW p, pipe' = [pipe EXCEPT ![c] = p],
           \A a \in Attempts : c = <<a, Runner>> => RunnerPipe(p),
           \A a \in Attempts, t \in Tasks : c = <<a, t>> => WriterPipe(p, a, t)
    PROVE  /\ (pipe = [d \in Clients |-> pipe[d]])'
           /\ \A a \in Attempts : RunnerPipe(pipe[<<a, Runner>>])'
           /\ \A a \in Attempts, t \in Tasks : WriterPipe(pipe[<<a, t>>], a, t)'
<1>1. \A d \in Clients : pipe'[d] = IF d = c THEN p ELSE pipe[d] BY DEF Formed
<1>2. ASSUME NEW a \in Attempts PROVE RunnerPipe(pipe[<<a, Runner>>])'
  <2>1. <<a, Runner>> \in Clients BY DEF Clients
  <2>2. RunnerPipe(pipe[<<a, Runner>>]) BY DEF Formed
  <2> QED BY <1>1, <2>1, <2>2 DEF RunnerPipe
<1>3. ASSUME NEW a \in Attempts, NEW t \in Tasks PROVE WriterPipe(pipe[<<a, t>>], a, t)'
  <2>1. <<a, t>> \in Clients BY DEF Clients
  <2>2. WriterPipe(pipe[<<a, t>>], a, t) BY DEF Formed
  <2> QED BY <1>1, <2>1, <2>2 DEF WriterPipe
<1>4. (pipe = [d \in Clients |-> pipe[d]])' BY DEF Formed
<1> QED BY <1>2, <1>3, <1>4

LEMMA InitFormed == SaverInit => Formed
<1> SUFFICES ASSUME SaverInit PROVE Formed
  OBVIOUS
<1> USE DEF SaverInit
<1>1. NoWrites \in WriteKeys
  BY DEF NoWrites, WriteKeys, Ttls, Gone
<1>2. NotSeen \in [step: {"idle", "seen"}, id: Ids \cup {0}, fields: SUBSET Fields]
      /\ NotSeen.step = "idle"
  BY DEF NotSeen
<1>3. Gone \in Ttls BY DEF Gone, Ttls
<1>4. \A c \in Clients : pipe[c] = <<>> OBVIOUS
<1>5. \A a \in Attempts : RunnerPipe(pipe[<<a, Runner>>])
  BY <1>4 DEF Clients, RunnerPipe
<1>6. \A a \in Attempts, t \in Tasks : WriterPipe(pipe[<<a, t>>], a, t)
  BY <1>4 DEF Clients, WriterPipe
<1>7. index \in IndexKeys BY <1>3 DEF IndexKeys
<1>8. at \in [Attempts -> [step: {"off", "latest", "on"}, id: Ids \cup {0}]] OBVIOUS
<1> QED BY <1>1, <1>2, <1>3, <1>5, <1>6, <1>7, <1>8 DEF Formed

LEMMA NewTtls == \A ttl \in Ttls : Created(ttl) \in Ttls /\ Renewed(ttl) \in Ttls
                                 /\ Sooner(ttl) \in Ttls
BY DEF Ttls, Created, Renewed, Sooner, Gone, Forever

LEMMA NextFormed == Formed /\ [SaverNext]_saverVars => Formed'
<1> SUFFICES ASSUME Formed, [SaverNext]_saverVars PROVE Formed'
  OBVIOUS
<1>1. ASSUME NEW a \in Attempts, LoadLatest(a) PROVE Formed'
  <2>1. at' \in [Attempts -> [step: {"off", "latest", "on"}, id: Ids \cup {0}]]
    <3>1. Newest \subseteq Ids BY DEF Formed, IndexKeys, Newest
    <3>2. PICK new \in [step: {"off", "latest", "on"}, id: Ids \cup {0}] :
            at' = [at EXCEPT ![a] = new]
      BY <1>1, <3>1 DEF LoadLatest
    <3> QED BY <3>2 DEF Formed
  <2> QED BY <1>1, <2>1 DEF LoadLatest, Formed
<1>2. ASSUME NEW a \in Attempts, LoadTuple(a) PROVE Formed'
  <2> DEFINE id == IF cp[at[a].id] = Gone THEN 0 ELSE at[a].id
  <2>1. id \in Ids \cup {0} BY DEF Formed
  <2>2. at' = [at EXCEPT ![a] = [step |-> "on", id |-> id]] BY <1>2 DEF LoadTuple
  <2> HIDE DEF id
  <2>3. at' \in [Attempts -> [step: {"off", "latest", "on"}, id: Ids \cup {0}]]
    BY <2>1, <2>2 DEF Formed
  <2> QED BY <1>2, <2>3 DEF LoadTuple, Formed
<1>3. ASSUME NEW a \in Attempts, Aput(a) PROVE Formed'
  <2> DEFINE c == <<a, Runner>>
             p == <<HsetCp(created'), ExpireCp(created'), Sadd(created'), ExpireIndex(created')>>
  <2>1. created' \in Ids BY <1>3 DEF Aput, Formed, Ids
  <2>2. at' \in [Attempts -> [step: {"off", "latest", "on"}, id: Ids \cup {0}]]
    BY <1>3, <2>1 DEF Aput, Formed
  <2>3. c \in Clients /\ \A b \in Attempts, t \in Tasks : c # <<b, t>>
    BY DEF Clients, Runner
  <2>4. RunnerPipe(p) BY <2>1 DEF RunnerPipe
  <2>5. pipe' = [pipe EXCEPT ![c] = p] BY <1>3 DEF Aput
  <2> HIDE DEF p, c
  <2>6. /\ (pipe = [d \in Clients |-> pipe[d]])'
        /\ \A b \in Attempts : RunnerPipe(pipe[<<b, Runner>>])'
        /\ \A b \in Attempts, t \in Tasks : WriterPipe(pipe[<<b, t>>], b, t)'
    BY <2>3, <2>4, <2>5, PipesFormed
  <2> QED BY <1>3, <2>1, <2>2, <2>6 DEF Aput, Formed
<1>4. ASSUME NEW a \in Attempts, Quit(a) PROVE Formed'
  <2>1. NotSeen \in [step: {"idle", "seen"}, id: Ids \cup {0}, fields: SUBSET Fields]
        /\ NotSeen.step = "idle"
    BY DEF NotSeen
  <2>2. /\ known' \in [Writers -> [step: {"idle", "seen"}, id: Ids \cup {0},
                                   fields: SUBSET Fields]]
        /\ \A w \in Writers : known'[w].step = "seen" => known'[w].id \in Ids
    BY <1>4, <2>1 DEF Quit, Formed
  <2>3. at' \in [Attempts -> [step: {"off", "latest", "on"}, id: Ids \cup {0}]]
    BY <1>4 DEF Quit, Formed
  <2> QED BY <1>4, <2>2, <2>3 DEF Quit, Formed
<1>5. ASSUME NEW a \in Attempts, NEW t \in Tasks, ReadFields(a, t) PROVE Formed'
  <2> DEFINE id == at[a].id
             fields == {f \in Fields : writes[id].val[f] # NoWrite}
             new == [step |-> "seen", id |-> id, fields |-> fields]
  <2>1. id \in Ids /\ fields \in SUBSET Fields BY <1>5 DEF ReadFields, Formed
  <2>2. known' = [known EXCEPT ![<<a, t>>] = new] BY <1>5 DEF ReadFields
  <2> HIDE DEF id, fields
  <2>3. new \in [step: {"idle", "seen"}, id: Ids \cup {0}, fields: SUBSET Fields]
        /\ new.id \in Ids
    BY <2>1
  <2> HIDE DEF new
  <2>4. /\ known' \in [Writers -> [step: {"idle", "seen"}, id: Ids \cup {0},
                                   fields: SUBSET Fields]]
        /\ \A w \in Writers : known'[w].step = "seen" => known'[w].id \in Ids
    BY <2>2, <2>3 DEF Formed
  <2> QED BY <1>5, <2>4 DEF ReadFields, Formed
<1>6. ASSUME NEW a \in Attempts, NEW t \in Tasks, SendWrites(a, t) PROVE Formed'
  <2>1. NotSeen \in [step: {"idle", "seen"}, id: Ids \cup {0}, fields: SUBSET Fields]
        /\ NotSeen.step = "idle"
    BY DEF NotSeen
  <2>2. /\ known' \in [Writers -> [step: {"idle", "seen"}, id: Ids \cup {0},
                                   fields: SUBSET Fields]]
        /\ \A w \in Writers : known'[w].step = "seen" => known'[w].id \in Ids
    BY <1>6, <2>1 DEF SendWrites, Formed
  <2>3. <<a, t>> \in Writers /\ <<a, t>> \in Clients /\ \A b \in Attempts : <<a, t>> # <<b, Runner>>
    BY DEF Clients, Writers, Runner
  <2>4. PICK p : p \in {<<>>} \cup {StorePipe(known[<<a, t>>].id, t, s, a) : s \in Slots}
                  /\ pipe' = [pipe EXCEPT ![<<a, t>>] = p]
    BY <1>6 DEF SendWrites
  <2>5. known[<<a, t>>].id \in Ids BY <1>6, <2>3 DEF SendWrites, Formed
  <2>6. WriterPipe(p, a, t) BY <2>4, <2>5 DEF WriterPipe
  <2>7. /\ (pipe = [d \in Clients |-> pipe[d]])'
        /\ \A b \in Attempts : RunnerPipe(pipe[<<b, Runner>>])'
        /\ \A b \in Attempts, u \in Tasks : WriterPipe(pipe[<<b, u>>], b, u)'
    BY <2>3, <2>4, <2>6, PipesFormed
  <2> QED BY <1>6, <2>2, <2>7 DEF SendWrites, Formed
<1>7. ASSUME NEW c \in Clients, Run(c) PROVE Formed'
  <2>0. UNCHANGED <<at, known, created, breaks>> BY <1>7 DEF Run
  <2>1. ASSUME NEW a \in Attempts, NEW i \in Ids, RanRunner(a, i) PROVE Formed'
    <3>1. <<a, Runner>> \in Clients /\ \A b \in Attempts, t \in Tasks : <<a, Runner>> # <<b, t>>
      BY DEF Clients, Runner
    <3>2. PICK p : RunnerPipe(p) /\ pipe' = [pipe EXCEPT ![<<a, Runner>>] = p]
      BY <2>1 DEF RanRunner, RunnerPipe
    <3>3. /\ (pipe = [d \in Clients |-> pipe[d]])'
          /\ \A b \in Attempts : RunnerPipe(pipe[<<b, Runner>>])'
          /\ \A b \in Attempts, t \in Tasks : WriterPipe(pipe[<<b, t>>], b, t)'
      BY <3>1, <3>2, PipesFormed
    <3>4. /\ cp' \in [Ids -> Ttls] /\ writes' = writes
          /\ index' \in IndexKeys
      <4>1. /\ cp[i] \in Ttls /\ index.ttl \in Ttls /\ index.ids \subseteq Ids
            /\ cp \in [Ids -> Ttls] /\ index \in IndexKeys
        BY DEF Formed, IndexKeys
      <4>2. /\ Created(cp[i]) \in Ttls /\ Renewed(cp[i]) \in Ttls
            /\ Created(index.ttl) \in Ttls /\ Renewed(index.ttl) \in Ttls
        BY <4>1, NewTtls
      <4>3. /\ [ids |-> index.ids \cup {i}, ttl |-> Created(index.ttl)] \in IndexKeys
            /\ [ids |-> index.ids, ttl |-> Renewed(index.ttl)] \in IndexKeys
        BY <4>1, <4>2 DEF IndexKeys
      <4> QED BY <2>1, <4>1, <4>2, <4>3 DEF RanRunner
    <3> QED BY <2>0, <3>3, <3>4 DEF Formed
  <2>2. ASSUME NEW a \in Attempts, NEW t \in Tasks, NEW i \in Ids, NEW s \in Slots,
               RanWriter(a, t, i, s)
        PROVE  Formed'
    <3>1. <<a, t>> \in Clients /\ \A b \in Attempts : <<a, t>> # <<b, Runner>>
      BY DEF Clients, Runner
    <3>2. PICK p : WriterPipe(p, a, t) /\ pipe' = [pipe EXCEPT ![<<a, t>>] = p]
      BY <2>2 DEF RanWriter, WriterPipe
    <3>3. /\ (pipe = [d \in Clients |-> pipe[d]])'
          /\ \A b \in Attempts : RunnerPipe(pipe[<<b, Runner>>])'
          /\ \A b \in Attempts, u \in Tasks : WriterPipe(pipe[<<b, u>>], b, u)'
      BY <3>1, <3>2, PipesFormed
    <3>4. <<t, s>> \in Fields BY DEF Fields
    <3>5. writes' \in [Ids -> WriteKeys]
      <4>1. writes \in [Ids -> WriteKeys] /\ writes[i] \in WriteKeys BY DEF Formed
      <4>2. Created(writes[i].ttl) \in Ttls /\ Renewed(writes[i].ttl) \in Ttls
        BY <4>1, NewTtls DEF WriteKeys
      <4>3. Written(i, t, s, a) \in WriteKeys /\ Kept(i) \in WriteKeys
        BY <3>4, <4>1, <4>2 DEF WriteKeys, Written, Kept
      <4> QED BY <2>2, <4>1, <4>3 DEF RanWriter
    <3>6. cp' = cp /\ index' = index BY <2>2 DEF RanWriter
    <3> QED BY <2>0, <3>3, <3>5, <3>6 DEF Formed
  <2> QED BY <1>7, <2>1, <2>2, RunCases
<1>8. ASSUME NEW c \in Clients, Break(c) PROVE Formed'
  <2>1. RunnerPipe(<<>>) /\ \A a \in Attempts, t \in Tasks : WriterPipe(<<>>, a, t)
    BY DEF RunnerPipe, WriterPipe
  <2>2. pipe' = [pipe EXCEPT ![c] = <<>>] BY <1>8 DEF Break
  <2>3. /\ (pipe = [d \in Clients |-> pipe[d]])'
        /\ \A b \in Attempts : RunnerPipe(pipe[<<b, Runner>>])'
        /\ \A b \in Attempts, u \in Tasks : WriterPipe(pipe[<<b, u>>], b, u)'
    BY <2>1, <2>2, PipesFormed
  <2> QED BY <1>8, <2>3 DEF Break, Formed
<1>9. CASE Decay
  <2>1. NoWrites \in WriteKeys
    BY DEF NoWrites, WriteKeys, Ttls, Gone
  <2>2. Gone \in Ttls BY DEF Gone, Ttls
  <2>3. cp' \in [Ids -> Ttls] BY <1>9, NewTtls DEF Decay, Formed
  <2>4. index' \in IndexKeys
    <3>1. index.ids \subseteq Ids /\ Sooner(index.ttl) \in Ttls
      BY NewTtls DEF Formed, IndexKeys
    <3>2. index' \in {[ids |-> {}, ttl |-> Gone], [ids |-> index.ids, ttl |-> Sooner(index.ttl)]}
      BY <1>9 DEF Decay, Formed, IndexKeys
    <3> QED BY <2>2, <3>1, <3>2 DEF IndexKeys
  <2>5. writes' \in [Ids -> WriteKeys]
    <3>1. ASSUME NEW i \in Ids
          PROVE  [writes[i] EXCEPT !.ttl = Sooner(@)] \in WriteKeys
      <4>1. writes[i] \in WriteKeys BY DEF Formed
      <4>2. Sooner(writes[i].ttl) \in Ttls BY <4>1, NewTtls DEF WriteKeys
      <4> QED BY <4>1, <4>2 DEF WriteKeys
    <3> QED BY <1>9, <2>1, <3>1 DEF Decay
  <2> QED BY <1>9, <2>3, <2>4, <2>5 DEF Decay, Formed
<1>10. CASE UNCHANGED saverVars BY <1>10 DEF saverVars, Formed
<1> QED BY <1>1, <1>2, <1>3, <1>4, <1>5, <1>6, <1>7, <1>8, <1>9, <1>10 DEF SaverNext

-----------------------------------------------------------------------------
(* What the TTLs and the writes rest on.                                    *)

(* A client sends only when the server has run all it sent before. *)
Turns == \A a \in Attempts, t \in Tasks :
           known[<<a, t>>].step = "seen" => pipe[<<a, t>>] = <<>>

(* Until a connection is lost, a key without TTL gets one next.  *)
Expiring ==
    breaks = 0 =>
      /\ \A i \in Ids : cp[i] = Forever =>
           \E a \in Attempts :
             pipe[<<a, Runner>>] = <<ExpireCp(i), Sadd(i), ExpireIndex(i)>>
      /\ \A i \in Ids : writes[i].ttl = Forever =>
           \E a \in Attempts, t \in Tasks : pipe[<<a, t>>] = <<ExpireW(i)>>
      /\ index.ttl = Forever =>
           \E a \in Attempts, i \in Ids : pipe[<<a, Runner>>] = <<ExpireIndex(i)>>

(* A task that was never written by two attempts at once: the one that is    *)
(* writing knows of its earlier write, or has sent what was not there.       *)
KnowsField(a, t) ==
    known[<<a, t>>].step = "seen"
      /\ writes[known[<<a, t>>].id].val[<<t, 0>>] # NoWrite
    => <<t, 0>> \in known[<<a, t>>].fields
SendsFirst(a, t) ==
    \A i \in Ids : pipe[<<a, t>>] = StorePipe(i, t, 0, a) => writes[i].val[<<t, 0>>] = NoWrite

Honest ==
    \A t \in Tasks \ mixed :
      /\ \A a, b \in Attempts : Writing(a, t) /\ Writing(b, t) => a = b
      /\ \A a \in Attempts : KnowsField(a, t) /\ SendsFirst(a, t)

Orderly == Formed /\ Turns /\ Expiring /\ Honest

(* Pipelines of different lengths, or that store in different fields, differ. *)
LEMMA PipesDiffer ==
    /\ \A x, y : <<x, y>> # <<>> /\ \A z : <<x, y>> # <<z>>
    /\ \A x, y, z : \A u, v : <<x, y, z>> # <<u, v>> /\ <<x, y, z>> # <<u>>
    /\ \A x, y, z, w : /\ \A u, v : <<x, y, z, w>> # <<u, v>> /\ <<x, y, z, w>> # <<u>>
                       /\ \A t, u, v : <<x, y, z, w>> # <<t, u, v>>
    /\ \A x, y : <<x>> = <<y>> => x = y
    /\ \A x, y, z, u, v, w : <<x, y, z>> = <<u, v, w>> => x = u
OBVIOUS

LEMMA StoreUnique ==
    \A i, j \in Ids, t \in Tasks, s \in Slots, a \in Attempts :
      StorePipe(i, t, s, a) = StorePipe(j, t, 0, a) => i = j /\ s = 0
<1> SUFFICES ASSUME NEW i \in Ids, NEW j \in Ids, NEW t \in Tasks, NEW s \in Slots,
                    NEW a \in Attempts, StorePipe(i, t, s, a) = StorePipe(j, t, 0, a)
             PROVE  i = j /\ s = 0
  OBVIOUS
<1>1. WriteOf(i, t, s, a) = WriteOf(j, t, 0, a) BY DEF StorePipe
<1>2. /\ WriteOf(i, t, s, a).id = i /\ WriteOf(j, t, 0, a).id = j
      /\ WriteOf(i, t, s, a).field = <<t, s>> /\ WriteOf(j, t, 0, a).field = <<t, 0>>
  BY DEF WriteOf
<1> QED BY <1>1, <1>2

LEMMA ForeverLast ==
    /\ \A ttl \in Ttls : Renewed(ttl) # Forever
    /\ \A ttl \in Ttls : Sooner(ttl) = Forever => ttl = Forever
    /\ Gone # Forever
BY DEF Ttls, Renewed, Sooner, Gone, Forever

LEMMA InitOrderly == SaverInit => Orderly
<1> SUFFICES ASSUME SaverInit PROVE Orderly
  OBVIOUS
<1>1. Turns /\ \A a \in Attempts, t \in Tasks : ~Writing(a, t)
  BY DEF SaverInit, Turns, Writing, Writers, Clients, NotSeen
<1>2. Expiring BY ForeverLast DEF SaverInit, Expiring, NoWrites
<1>3. Honest
  <2>1. ASSUME NEW i \in Ids, NEW t \in Tasks PROVE writes[i].val[<<t, 0>>] = NoWrite
    BY DEF SaverInit, NoWrites, Fields, Slots
  <2>2. \A a \in Attempts, t \in Tasks : known[<<a, t>>].step # "seen"
    BY <1>1 DEF Writing
  <2> QED BY <1>1, <2>1, <2>2 DEF Honest, KnowsField, SendsFirst
<1> QED BY <1>1, <1>2, <1>3, InitFormed DEF Orderly

(* A step that runs nothing, and in which only idle clients send. *)
LEMMA StaysExpiring ==
    ASSUME Expiring, UNCHANGED <<cp, index, writes>>, breaks' = 0 => breaks = 0,
           \A c \in Clients : pipe[c] # <<>> => pipe'[c] = pipe[c]
    PROVE  Expiring'
<1>1. \A a \in Attempts : <<a, Runner>> \in Clients /\ \A t \in Tasks : <<a, t>> \in Clients
  BY DEF Clients
<1> SUFFICES ASSUME breaks = 0, breaks' = 0 PROVE Expiring'
  BY DEF Expiring
<1>2. ASSUME NEW i \in Ids, cp'[i] = Forever
      PROVE  \E a \in Attempts :
               pipe'[<<a, Runner>>] = <<ExpireCp(i), Sadd(i), ExpireIndex(i)>>
  <2>1. PICK a \in Attempts : pipe[<<a, Runner>>] = <<ExpireCp(i), Sadd(i), ExpireIndex(i)>>
    BY <1>2 DEF Expiring
  <2> QED BY <1>1, <2>1, HeadAndTail
<1>3. ASSUME NEW i \in Ids, writes'[i].ttl = Forever
      PROVE  \E a \in Attempts, t \in Tasks : pipe'[<<a, t>>] = <<ExpireW(i)>>
  <2>1. PICK a \in Attempts, t \in Tasks : pipe[<<a, t>>] = <<ExpireW(i)>>
    BY <1>3 DEF Expiring
  <2> QED BY <1>1, <2>1, HeadAndTail
<1>4. ASSUME index'.ttl = Forever
      PROVE  \E a \in Attempts, i \in Ids : pipe'[<<a, Runner>>] = <<ExpireIndex(i)>>
  <2>1. PICK a \in Attempts, i \in Ids : pipe[<<a, Runner>>] = <<ExpireIndex(i)>>
    BY <1>4 DEF Expiring
  <2> QED BY <1>1, <2>1, HeadAndTail
<1> QED BY <1>2, <1>3, <1>4 DEF Expiring

(* A step that neither reads nor sends nor stores a field: it may forget. *)
LEMMA StaysHonest ==
    ASSUME Formed, Honest, mixed' = mixed,
           \A a \in Attempts, t \in Tasks :
             /\ pipe'[<<a, t>>] \in {pipe[<<a, t>>], <<>>}
             /\ known'[<<a, t>>] \in {known[<<a, t>>], NotSeen},
           \A i \in Ids, t \in Tasks :
             writes'[i].val[<<t, 0>>] \in {writes[i].val[<<t, 0>>], NoWrite}
    PROVE  Honest'
<1> SUFFICES ASSUME NEW t \in Tasks \ mixed
             PROVE  /\ \A a, b \in Attempts : (Writing(a, t) /\ Writing(b, t))' => a = b
                    /\ \A a \in Attempts : (KnowsField(a, t) /\ SendsFirst(a, t))'
  BY DEF Honest
<1>0. NotSeen.step = "idle" BY DEF NotSeen
<1>1. \A a \in Attempts : Writing(a, t)' => Writing(a, t) BY <1>0 DEF Writing
<1>2. \A a, b \in Attempts : (Writing(a, t) /\ Writing(b, t))' => a = b
  BY <1>1 DEF Honest
<1>3. ASSUME NEW a \in Attempts PROVE KnowsField(a, t)'
  <2>1. KnowsField(a, t) BY DEF Honest
  <2>2. known[<<a, t>>].step = "seen" => known[<<a, t>>].id \in Ids BY DEF Formed, Writers
  <2> QED BY <1>0, <2>1, <2>2 DEF KnowsField
<1>4. ASSUME NEW a \in Attempts PROVE SendsFirst(a, t)'
  <2>1. SendsFirst(a, t) BY DEF Honest
  <2>2. \A i : StorePipe(i, t, 0, a) # <<>> BY PipesDiffer DEF StorePipe
  <2> QED BY <2>1, <2>2 DEF SendsFirst
<1> QED BY <1>2, <1>3, <1>4

LEMMA ReadStaysHonest ==
    ASSUME Formed, Honest, NEW a \in Attempts, NEW t \in Tasks, ReadFields(a, t)
    PROVE  Honest'
<1> SUFFICES ASSUME NEW u \in Tasks \ mixed'
             PROVE  /\ \A b, c \in Attempts : (Writing(b, u) /\ Writing(c, u))' => b = c
                    /\ \A b \in Attempts : (KnowsField(b, u) /\ SendsFirst(b, u))'
  BY DEF Honest
<1>1. /\ u \in Tasks \ mixed /\ UNCHANGED <<pipe, writes>>
      /\ <<a, t>> \in Writers
  BY DEF ReadFields, Writers
<1>2. \A b \in Attempts, v \in Tasks : <<b, v>> # <<a, t>> => known'[<<b, v>>] = known[<<b, v>>]
  BY DEF ReadFields, Formed, Writers
<1>3. known'[<<a, t>>] = [step |-> "seen", id |-> at[a].id,
                         fields |-> {f \in Fields : writes[at[a].id].val[f] # NoWrite}]
  BY <1>1 DEF ReadFields, Formed
<1>4. \A b \in Attempts : SendsFirst(b, u)' BY <1>1 DEF Honest, SendsFirst
<1>5. ASSUME NEW b \in Attempts PROVE KnowsField(b, u)'
  <2>1. CASE <<b, u>> # <<a, t>>
    <3>1. known'[<<b, u>>] = known[<<b, u>>] BY <1>2, <2>1
    <3> QED BY <1>1, <3>1 DEF KnowsField, Honest
  <2>2. CASE <<b, u>> = <<a, t>>
    <3>1. <<t, 0>> \in Fields BY DEF Fields, Slots
    <3> QED BY <1>1, <1>3, <2>2, <3>1 DEF KnowsField
  <2> QED BY <2>1, <2>2
<1>6. ASSUME NEW b \in Attempts, NEW c \in Attempts, Writing(b, u)', Writing(c, u)'
      PROVE  b = c
  <2>1. CASE u = t
    <3>1. \A d \in Attempts : ~Writing(d, t) BY <2>1 DEF ReadFields
    <3>2. \A d \in Attempts \ {a} : ~Writing(d, t)'
      BY <1>1, <1>2, <3>1 DEF Writing
    <3> QED BY <1>6, <2>1, <3>2
  <2>2. CASE u # t
    <3>1. \A d \in Attempts : Writing(d, u)' => Writing(d, u) BY <1>1, <1>2, <2>2 DEF Writing
    <3> QED BY <1>1, <1>6, <3>1 DEF Honest
  <2> QED BY <2>1, <2>2
<1> QED BY <1>4, <1>5, <1>6

LEMMA SendStaysHonest ==
    ASSUME Formed, Turns, Honest, NEW a \in Attempts, NEW t \in Tasks, SendWrites(a, t)
    PROVE  Honest'
<1> SUFFICES ASSUME NEW u \in Tasks \ mixed
             PROVE  /\ \A b, c \in Attempts : (Writing(b, u) /\ Writing(c, u))' => b = c
                    /\ \A b \in Attempts : (KnowsField(b, u) /\ SendsFirst(b, u))'
  BY DEF Honest, SendWrites
<1>1. <<a, t>> \in Writers /\ <<a, t>> \in Clients /\ writes' = writes
  BY DEF Writers, Clients, SendWrites
<1>2. known' = [known EXCEPT ![<<a, t>>] = NotSeen] /\ NotSeen.step = "idle"
  BY DEF SendWrites, NotSeen
<1>3. PICK s \in Slots :
        pipe' = [pipe EXCEPT ![<<a, t>>] =
                   IF s >= 0 /\ <<t, s>> \in known[<<a, t>>].fields THEN <<>>
                   ELSE StorePipe(known[<<a, t>>].id, t, s, a)]
  BY DEF SendWrites
<1>4. known[<<a, t>>].step = "seen" /\ known[<<a, t>>].id \in Ids
  BY <1>1 DEF SendWrites, Formed
<1>5. \A b \in Attempts, v \in Tasks : <<b, v>> # <<a, t>> =>
        known'[<<b, v>>] = known[<<b, v>>] /\ pipe'[<<b, v>>] = pipe[<<b, v>>]
  BY <1>2, <1>3 DEF Formed, Writers, Clients
<1>6. known'[<<a, t>>].step = "idle" BY <1>1, <1>2 DEF Formed
<1>7. ASSUME NEW b \in Attempts PROVE Writing(b, u)' => Writing(b, u)
  BY <1>4, <1>5, <1>6 DEF Writing
<1>8. ASSUME NEW b \in Attempts PROVE KnowsField(b, u)'
  BY <1>1, <1>5, <1>6 DEF KnowsField, Honest
<1>9. ASSUME NEW b \in Attempts PROVE SendsFirst(b, u)'
  <2>1. CASE <<b, u>> # <<a, t>>
    <3>1. pipe'[<<b, u>>] = pipe[<<b, u>>] BY <1>5, <2>1
    <3> QED BY <1>1, <3>1 DEF SendsFirst, Honest
  <2>2. CASE <<b, u>> = <<a, t>>
    <3>1. b = a /\ u = t BY <2>2
    <3> SUFFICES ASSUME NEW i \in Ids, pipe'[<<a, t>>] = StorePipe(i, t, 0, a)
                 PROVE  writes[i].val[<<t, 0>>] = NoWrite
      BY <1>1, <3>1 DEF SendsFirst
    <3>2. StorePipe(i, t, 0, a) # <<>> BY PipesDiffer DEF StorePipe
    <3>3. /\ ~(s >= 0 /\ <<t, s>> \in known[<<a, t>>].fields)
          /\ StorePipe(known[<<a, t>>].id, t, s, a) = StorePipe(i, t, 0, a)
      BY <1>1, <1>3, <3>2 DEF Formed
    <3>4. known[<<a, t>>].id = i /\ s = 0 BY <1>4, <3>3, StoreUnique
    <3>5. KnowsField(a, t) BY <3>1 DEF Honest
    <3> QED BY <1>4, <3>3, <3>4, <3>5 DEF KnowsField
  <2> QED BY <2>1, <2>2
<1> QED BY <1>7, <1>8, <1>9 DEF Honest

LEMMA StoreStaysHonest ==
    ASSUME Formed, Turns, Honest, NEW a \in Attempts, NEW t \in Tasks, NEW i \in Ids,
           NEW s \in Slots, RanWriter(a, t, i, s), known' = known, mixed' = mixed
    PROVE  Honest'
<1> SUFFICES ASSUME NEW u \in Tasks \ mixed
             PROVE  /\ \A b, c \in Attempts : (Writing(b, u) /\ Writing(c, u))' => b = c
                    /\ \A b \in Attempts : (KnowsField(b, u) /\ SendsFirst(b, u))'
  BY DEF Honest
<1>1. <<a, t>> \in Clients /\ <<a, t>> \in Writers BY DEF Clients, Writers
<1>2. pipe[<<a, t>>] # <<>> BY HeadAndTail DEF RanWriter, StorePipe
<1>3. PICK p : /\ pipe' = [pipe EXCEPT ![<<a, t>>] = p]
               /\ \A j : p # StorePipe(j, t, 0, a)
  <2>1. \A j : <<ExpireW(i)>> # StorePipe(j, t, 0, a) /\ <<>> # StorePipe(j, t, 0, a)
    BY PipesDiffer DEF StorePipe
  <2> QED BY <2>1 DEF RanWriter
<1>4. \A b \in Attempts, v \in Tasks : <<b, v>> # <<a, t>> => pipe'[<<b, v>>] = pipe[<<b, v>>]
  BY <1>3 DEF Formed, Clients
<1>5. pipe'[<<a, t>>] = p BY <1>1, <1>3 DEF Formed
<1>6. \A b \in Attempts : Writing(b, u)' => Writing(b, u) BY <1>2, <1>4 DEF Writing
<1>7. \A b, c \in Attempts : (Writing(b, u) /\ Writing(c, u))' => b = c
  BY <1>6 DEF Honest
<1>8. CASE u = t
  <2>1. Writing(a, t) BY <1>2 DEF Writing
  <2>2. ASSUME NEW b \in Attempts \ {a}
        PROVE  known[<<b, t>>].step # "seen" /\ pipe[<<b, t>>] = <<>>
    BY <1>8, <2>1 DEF Honest, Writing
  <2>3. known[<<a, t>>].step # "seen" BY <1>2 DEF Turns
  <2>4. \A b \in Attempts : KnowsField(b, t)' BY <2>2, <2>3 DEF KnowsField
  <2>5. \A b \in Attempts : SendsFirst(b, t)'
    <3>1. SendsFirst(a, t)' BY <1>3, <1>5 DEF SendsFirst
    <3>2. ASSUME NEW b \in Attempts \ {a} PROVE SendsFirst(b, t)'
      <4>1. pipe'[<<b, t>>] = <<>> BY <1>4, <2>2
      <4>2. \A j : StorePipe(j, t, 0, b) # <<>> BY PipesDiffer DEF StorePipe
      <4> QED BY <4>1, <4>2 DEF SendsFirst
    <3> QED BY <3>1, <3>2
  <2> QED BY <1>7, <1>8, <2>4, <2>5
<1>9. CASE u # t
  <2>1. \A j \in Ids : writes'[j].val[<<u, 0>>] = writes[j].val[<<u, 0>>]
    <3>1. /\ Kept(i).val = writes[i].val
          /\ Written(i, t, s, a).val = [writes[i].val EXCEPT ![<<t, s>>] = a]
      BY DEF Kept, Written
    <3>2. writes[i].val \in [Fields -> Attempts \cup {NoWrite}] /\ <<u, 0>> \in Fields
          /\ <<t, s>> # <<u, 0>>
      BY <1>9 DEF Formed, WriteKeys, Fields, Slots
    <3>3. Written(i, t, s, a).val[<<u, 0>>] = writes[i].val[<<u, 0>>] BY <3>1, <3>2
    <3> HIDE DEF Kept, Written
    <3>4. PICK new : writes' = [writes EXCEPT ![i] = new] /\ new.val[<<u, 0>>] = writes[i].val[<<u, 0>>]
      BY <3>1, <3>3 DEF RanWriter
    <3> QED BY <3>4 DEF Formed
  <2>2. \A b \in Attempts : pipe'[<<b, u>>] = pipe[<<b, u>>] BY <1>4, <1>9
  <2>3. ASSUME NEW b \in Attempts PROVE KnowsField(b, u)'
    <3>1. known[<<b, u>>].step = "seen" => known[<<b, u>>].id \in Ids BY DEF Formed, Writers
    <3> QED BY <2>1, <3>1 DEF KnowsField, Honest
  <2>4. ASSUME NEW b \in Attempts PROVE SendsFirst(b, u)'
    BY <2>1, <2>2 DEF SendsFirst, Honest
  <2> QED BY <1>7, <2>3, <2>4
<1> QED BY <1>8, <1>9

(* The server never takes a field's first value for another. *)
LEMMA RunStaysHonest ==
    ASSUME Orderly, NEW c \in Clients, Run(c)
    PROVE  Honest'
<1> USE DEF Orderly
<1>0. known' = known /\ mixed' = mixed BY DEF Run
<1>1. ASSUME NEW a \in Attempts, NEW i \in Ids, RanRunner(a, i) PROVE Honest'
  <2>1. \A b \in Attempts, t \in Tasks : <<b, t>> # <<a, Runner>> BY DEF Runner
  <2>2. \A b \in Attempts, t \in Tasks : pipe'[<<b, t>>] = pipe[<<b, t>>]
    <3>1. \A b \in Attempts, t \in Tasks : <<b, t>> \in Clients BY DEF Clients
    <3>2. PICK p : pipe' = [pipe EXCEPT ![<<a, Runner>>] = p] BY <1>1 DEF RanRunner
    <3> QED BY <2>1, <3>1, <3>2 DEF Formed
  <2>3. writes' = writes BY <1>1 DEF RanRunner
  <2> QED BY <1>0, <2>2, <2>3, StaysHonest
<1>2. ASSUME NEW a \in Attempts, NEW t \in Tasks, NEW i \in Ids, NEW s \in Slots,
             RanWriter(a, t, i, s)
      PROVE  Honest'
  BY <1>0, <1>2, StoreStaysHonest
<1> QED BY <1>1, <1>2, RunCases

LEMMA NextHonest == Orderly /\ [SaverNext]_saverVars => Honest'
<1> SUFFICES ASSUME Orderly, [SaverNext]_saverVars PROVE Honest'
  OBVIOUS
<1> USE DEF Orderly
<1>1. ASSUME NEW a \in Attempts, LoadLatest(a) \/ LoadTuple(a) \/ Aput(a) PROVE Honest'
  <2>1. known' = known /\ writes' = writes /\ mixed' = mixed
    BY <1>1 DEF LoadLatest, LoadTuple, Aput
  <2>2. \A b \in Attempts, t \in Tasks : pipe'[<<b, t>>] = pipe[<<b, t>>]
    <3>1. \A b \in Attempts, t \in Tasks : <<b, t>> \in Clients /\ <<b, t>> # <<a, Runner>>
      BY DEF Clients, Runner
    <3>2. pipe' = pipe \/ \E p : pipe' = [pipe EXCEPT ![<<a, Runner>>] = p]
      BY <1>1 DEF LoadLatest, LoadTuple, Aput
    <3> QED BY <3>1, <3>2 DEF Formed
  <2> QED BY <2>1, <2>2, StaysHonest
<1>2. ASSUME NEW a \in Attempts, Quit(a) PROVE Honest'
  <2>1. writes' = writes /\ mixed' = mixed /\ pipe' = pipe BY <1>2 DEF Quit
  <2>2. \A b \in Attempts, t \in Tasks : known'[<<b, t>>] \in {known[<<b, t>>], NotSeen}
    <3>1. \A b \in Attempts, t \in Tasks : <<b, t>> \in Writers BY DEF Writers
    <3> QED BY <1>2, <3>1 DEF Quit
  <2> QED BY <2>1, <2>2, StaysHonest
<1>3. ASSUME NEW a \in Attempts, NEW t \in Tasks, ReadFields(a, t) PROVE Honest'
  BY <1>3, ReadStaysHonest
<1>4. ASSUME NEW a \in Attempts, NEW t \in Tasks, SendWrites(a, t) PROVE Honest'
  BY <1>4, SendStaysHonest
<1>5. ASSUME NEW c \in Clients, Run(c) PROVE Honest'
  BY <1>5, RunStaysHonest
<1>6. ASSUME NEW c \in Clients, Break(c) PROVE Honest'
  <2>1. known' = known /\ writes' = writes /\ mixed' = mixed BY <1>6 DEF Break
  <2>2. \A b \in Attempts, t \in Tasks : pipe'[<<b, t>>] \in {pipe[<<b, t>>], <<>>}
    <3>1. \A b \in Attempts, t \in Tasks : <<b, t>> \in Clients BY DEF Clients
    <3> QED BY <1>6, <3>1 DEF Break, Formed
  <2> QED BY <2>1, <2>2, StaysHonest
<1>7. CASE Decay
  <2>1. known' = known /\ pipe' = pipe /\ mixed' = mixed BY <1>7 DEF Decay
  <2>2. ASSUME NEW i \in Ids, NEW t \in Tasks
        PROVE  writes'[i].val[<<t, 0>>] \in {writes[i].val[<<t, 0>>], NoWrite}
    <3>1. NoWrites.val[<<t, 0>>] = NoWrite BY DEF NoWrites, Fields, Slots
    <3>2. [writes[i] EXCEPT !.ttl = Sooner(@)].val = writes[i].val
      BY DEF Formed, WriteKeys
    <3> QED BY <1>7, <3>1, <3>2 DEF Decay
  <2> QED BY <2>1, <2>2, StaysHonest
<1>8. CASE UNCHANGED saverVars
  <2>1. UNCHANGED <<known, writes, mixed, pipe>> BY <1>8 DEF saverVars
  <2> QED BY <2>1, StaysHonest
<1> QED BY <1>1, <1>2, <1>3, <1>4, <1>5, <1>6, <1>7, <1>8 DEF SaverNext

LEMMA NextTurns == Formed /\ Turns /\ [SaverNext]_saverVars => Turns'
<1> SUFFICES ASSUME Formed, Turns, [SaverNext]_saverVars,
                    NEW b \in Attempts, NEW u \in Tasks, known'[<<b, u>>].step = "seen"
             PROVE  pipe'[<<b, u>>] = <<>>
  BY DEF Turns
<1>0. <<b, u>> \in Clients /\ <<b, u>> \in Writers /\ NotSeen.step = "idle"
  BY DEF Clients, Writers, NotSeen
<1>1. ASSUME NEW a \in Attempts, LoadLatest(a) \/ LoadTuple(a) \/ Aput(a)
      PROVE  pipe'[<<b, u>>] = <<>>
  <2>1. pipe[<<b, u>>] = <<>> BY <1>1 DEF LoadLatest, LoadTuple, Aput, Turns
  <2>2. <<b, u>> # <<a, Runner>> BY DEF Runner
  <2>3. pipe' = pipe \/ \E p : pipe' = [pipe EXCEPT ![<<a, Runner>>] = p]
    BY <1>1 DEF LoadLatest, LoadTuple, Aput
  <2> QED BY <1>0, <2>1, <2>2, <2>3 DEF Formed
<1>2. ASSUME NEW a \in Attempts, Quit(a) PROVE pipe'[<<b, u>>] = <<>>
  BY <1>0, <1>2 DEF Quit, Turns
<1>3. ASSUME NEW a \in Attempts, NEW t \in Tasks, ReadFields(a, t) PROVE pipe'[<<b, u>>] = <<>>
  <2>1. CASE <<b, u>> = <<a, t>> BY <1>3, <2>1 DEF ReadFields, Writing
  <2>2. CASE <<b, u>> # <<a, t>>
    <3>1. known'[<<b, u>>] = known[<<b, u>>] BY <1>0, <1>3, <2>2 DEF ReadFields, Formed
    <3> QED BY <1>3, <3>1 DEF ReadFields, Turns
  <2> QED BY <2>1, <2>2
<1>4. ASSUME NEW a \in Attempts, NEW t \in Tasks, SendWrites(a, t) PROVE pipe'[<<b, u>>] = <<>>
  <2>1. known' = [known EXCEPT ![<<a, t>>] = NotSeen] BY <1>4 DEF SendWrites
  <2>2. <<b, u>> # <<a, t>> BY <1>0, <2>1 DEF Formed
  <2>3. known'[<<b, u>>] = known[<<b, u>>] BY <1>0, <2>1, <2>2 DEF Formed
  <2>4. PICK p : pipe' = [pipe EXCEPT ![<<a, t>>] = p] BY <1>4 DEF SendWrites
  <2> QED BY <1>0, <2>2, <2>3, <2>4 DEF Formed, Turns
<1>5. ASSUME NEW c \in Clients, Run(c) \/ Break(c) PROVE pipe'[<<b, u>>] = <<>>
  <2>1. known' = known /\ pipe[c] # <<>> /\ \E p : pipe' = [pipe EXCEPT ![c] = p]
    BY <1>5 DEF Run, Break
  <2>2. pipe[<<b, u>>] = <<>> BY <2>1 DEF Turns
  <2> QED BY <1>0, <2>1, <2>2 DEF Formed
<1>6. CASE Decay BY <1>6 DEF Decay, Turns
<1>7. CASE UNCHANGED saverVars BY <1>7 DEF saverVars, Turns
<1> QED BY <1>1, <1>2, <1>3, <1>4, <1>5, <1>6, <1>7 DEF SaverNext

(* The command at the head of the runner's pipeline tells which one it was. *)
LEMMA RunnerSteps ==
    ASSUME NEW a \in Attempts, NEW i \in Ids, RanRunner(a, i)
    PROVE  /\ pipe[<<a, Runner>>] = <<HsetCp(i), ExpireCp(i), Sadd(i), ExpireIndex(i)>> =>
                /\ pipe' = [pipe EXCEPT ![<<a, Runner>>] = <<ExpireCp(i), Sadd(i), ExpireIndex(i)>>]
                /\ cp' = [cp EXCEPT ![i] = Created(@)] /\ index' = index
           /\ pipe[<<a, Runner>>] = <<ExpireCp(i), Sadd(i), ExpireIndex(i)>> =>
                cp' = [cp EXCEPT ![i] = Renewed(@)] /\ index' = index
           /\ pipe[<<a, Runner>>] = <<Sadd(i), ExpireIndex(i)>> =>
                pipe' = [pipe EXCEPT ![<<a, Runner>>] = <<ExpireIndex(i)>>] /\ cp' = cp
           /\ pipe[<<a, Runner>>] = <<ExpireIndex(i)>> =>
                /\ index' = [ids |-> index.ids, ttl |-> Renewed(index.ttl)]
                /\ cp' = cp
<1> DEFINE four == <<HsetCp(i), ExpireCp(i), Sadd(i), ExpireIndex(i)>>
           three == <<ExpireCp(i), Sadd(i), ExpireIndex(i)>>
           two == <<Sadd(i), ExpireIndex(i)>>
           one == <<ExpireIndex(i)>>
<1>1. /\ four # three /\ four # two /\ four # one
      /\ three # two /\ three # one /\ two # one
  BY PipesDiffer
<1>2. \/ /\ pipe[<<a, Runner>>] = four /\ pipe' = [pipe EXCEPT ![<<a, Runner>>] = three]
         /\ cp' = [cp EXCEPT ![i] = Created(@)] /\ UNCHANGED <<index, writes>>
      \/ /\ pipe[<<a, Runner>>] = three /\ pipe' = [pipe EXCEPT ![<<a, Runner>>] = two]
         /\ cp' = [cp EXCEPT ![i] = Renewed(@)] /\ UNCHANGED <<index, writes>>
      \/ /\ pipe[<<a, Runner>>] = two /\ pipe' = [pipe EXCEPT ![<<a, Runner>>] = one]
         /\ UNCHANGED <<cp, writes>>
      \/ /\ pipe[<<a, Runner>>] = one
         /\ index' = [ids |-> index.ids, ttl |-> Renewed(index.ttl)] /\ UNCHANGED <<cp, writes>>
  BY DEF RanRunner
<1> HIDE DEF four, three, two, one
<1>3. /\ pipe[<<a, Runner>>] = four =>
           /\ pipe' = [pipe EXCEPT ![<<a, Runner>>] = three]
           /\ cp' = [cp EXCEPT ![i] = Created(@)] /\ index' = index
      /\ pipe[<<a, Runner>>] = three =>
           cp' = [cp EXCEPT ![i] = Renewed(@)] /\ index' = index
      /\ pipe[<<a, Runner>>] = two =>
           pipe' = [pipe EXCEPT ![<<a, Runner>>] = one] /\ cp' = cp
      /\ pipe[<<a, Runner>>] = one =>
           /\ index' = [ids |-> index.ids, ttl |-> Renewed(index.ttl)]
           /\ cp' = cp
  BY <1>1, <1>2
<1> QED BY <1>3 DEF four, three, two, one

LEMMA RunnerStaysExpiring ==
    ASSUME Formed, Expiring, NEW a \in Attempts, NEW i \in Ids, RanRunner(a, i),
           breaks' = breaks
    PROVE  Expiring'
<1> SUFFICES ASSUME breaks = 0 PROVE Expiring'
  BY DEF Expiring
<1>1. /\ <<a, Runner>> \in Clients
      /\ \A b \in Attempts : <<b, Runner>> \in Clients
      /\ \A b \in Attempts, t \in Tasks : <<b, t>> \in Clients /\ <<b, t>> # <<a, Runner>>
  BY DEF Clients, Runner
<1>2. PICK p : pipe' = [pipe EXCEPT ![<<a, Runner>>] = p] BY DEF RanRunner
<1>3. /\ pipe'[<<a, Runner>>] = p
      /\ \A b \in Attempts : b # a => pipe'[<<b, Runner>>] = pipe[<<b, Runner>>]
      /\ \A b \in Attempts, t \in Tasks : pipe'[<<b, t>>] = pipe[<<b, t>>]
  BY <1>1, <1>2 DEF Formed
<1>4. writes' = writes BY DEF RanRunner
<1>5. ASSUME NEW j \in Ids, writes'[j].ttl = Forever
      PROVE  \E b \in Attempts, t \in Tasks : pipe'[<<b, t>>] = <<ExpireW(j)>>
  BY <1>3, <1>4, <1>5 DEF Expiring
<1>6. \A j, k \in Ids : ExpireCp(j) = ExpireCp(k) => j = k
  <2>1. \A j : ExpireCp(j).id = j BY DEF ExpireCp
  <2> QED BY <2>1
<1>7. ASSUME NEW j \in Ids, cp'[j] = Forever
      PROVE  \E b \in Attempts :
               pipe'[<<b, Runner>>] = <<ExpireCp(j), Sadd(j), ExpireIndex(j)>>
  <2>1. CASE pipe[<<a, Runner>>] = <<HsetCp(i), ExpireCp(i), Sadd(i), ExpireIndex(i)>>
    <3>1. pipe'[<<a, Runner>>] = <<ExpireCp(i), Sadd(i), ExpireIndex(i)>>
          /\ cp' = [cp EXCEPT ![i] = Created(@)]
      <4>1. pipe' = [pipe EXCEPT ![<<a, Runner>>] = <<ExpireCp(i), Sadd(i), ExpireIndex(i)>>]
            /\ cp' = [cp EXCEPT ![i] = Created(@)]
        BY <2>1, RunnerSteps
      <4> QED BY <1>1, <4>1 DEF Formed
    <3>2. CASE j = i BY <3>1, <3>2
    <3>3. CASE j # i
      <4>1. cp[j] = Forever BY <1>7, <3>1, <3>3 DEF Formed
      <4>2. PICK b \in Attempts : pipe[<<b, Runner>>] = <<ExpireCp(j), Sadd(j), ExpireIndex(j)>>
        BY <4>1 DEF Expiring
      <4>3. b # a BY <2>1, <4>2, PipesDiffer
      <4> QED BY <1>3, <4>2, <4>3
    <3> QED BY <3>2, <3>3
  <2>2. CASE pipe[<<a, Runner>>] = <<ExpireCp(i), Sadd(i), ExpireIndex(i)>>
    <3>1. cp' = [cp EXCEPT ![i] = Renewed(@)]
      BY <2>2, RunnerSteps
    <3>2. j # i /\ cp[j] = Forever
      <4>1. cp[i] \in Ttls BY DEF Formed
      <4>2. Renewed(cp[i]) # Forever BY <4>1, ForeverLast
      <4> HIDE DEF Renewed, Forever
      <4> QED BY <1>7, <3>1, <4>2 DEF Formed
    <3>3. PICK b \in Attempts : pipe[<<b, Runner>>] = <<ExpireCp(j), Sadd(j), ExpireIndex(j)>>
      BY <3>2 DEF Expiring
    <3>4. b # a BY <1>6, <2>2, <3>2, <3>3, PipesDiffer
    <3> QED BY <1>3, <3>3, <3>4
  <2>3. ASSUME \/ pipe[<<a, Runner>>] = <<Sadd(i), ExpireIndex(i)>>
               \/ pipe[<<a, Runner>>] = <<ExpireIndex(i)>>
        PROVE  \E b \in Attempts :
                 pipe'[<<b, Runner>>] = <<ExpireCp(j), Sadd(j), ExpireIndex(j)>>
    <3>1. cp' = cp BY <2>3, RunnerSteps
    <3>2. PICK b \in Attempts : pipe[<<b, Runner>>] = <<ExpireCp(j), Sadd(j), ExpireIndex(j)>>
      BY <1>7, <3>1 DEF Expiring
    <3>3. b # a BY <2>3, <3>2, PipesDiffer
    <3> QED BY <1>3, <3>2, <3>3
  <2> QED BY <2>1, <2>2, <2>3 DEF RanRunner
<1>8. ASSUME index'.ttl = Forever
      PROVE  \E b \in Attempts, j \in Ids : pipe'[<<b, Runner>>] = <<ExpireIndex(j)>>
  <2>1. CASE pipe[<<a, Runner>>] = <<Sadd(i), ExpireIndex(i)>>
    <3>1. pipe'[<<a, Runner>>] = <<ExpireIndex(i)>>
      <4>1. pipe' = [pipe EXCEPT ![<<a, Runner>>] = <<ExpireIndex(i)>>] BY <2>1, RunnerSteps
      <4> QED BY <1>1, <4>1 DEF Formed
    <3> QED BY <3>1
  <2>2. CASE pipe[<<a, Runner>>] = <<ExpireIndex(i)>>
    <3>1. index' = [ids |-> index.ids, ttl |-> Renewed(index.ttl)]
      BY <2>2, RunnerSteps
    <3>2. index'.ttl = Renewed(index.ttl) /\ index.ttl \in Ttls
      BY <3>1 DEF Formed, IndexKeys
    <3> QED BY <1>8, <3>2, ForeverLast
  <2>3. ASSUME \/ pipe[<<a, Runner>>] = <<HsetCp(i), ExpireCp(i), Sadd(i), ExpireIndex(i)>>
               \/ pipe[<<a, Runner>>] = <<ExpireCp(i), Sadd(i), ExpireIndex(i)>>
        PROVE  \E b \in Attempts, j \in Ids : pipe'[<<b, Runner>>] = <<ExpireIndex(j)>>
    <3>1. index' = index BY <2>3, RunnerSteps
    <3>2. PICK b \in Attempts, j \in Ids : pipe[<<b, Runner>>] = <<ExpireIndex(j)>>
      BY <1>8, <3>1 DEF Expiring
    <3>3. b # a BY <2>3, <3>2, PipesDiffer
    <3> QED BY <1>3, <3>2, <3>3
  <2> QED BY <2>1, <2>2, <2>3 DEF RanRunner
<1> QED BY <1>5, <1>7, <1>8 DEF Expiring

LEMMA WriterStaysExpiring ==
    ASSUME Formed, Expiring, NEW a \in Attempts, NEW t \in Tasks, NEW i \in Ids,
           NEW s \in Slots, RanWriter(a, t, i, s), breaks' = breaks
    PROVE  Expiring'
<1> SUFFICES ASSUME breaks = 0 PROVE Expiring'
  BY DEF Expiring
<1>1. /\ <<a, t>> \in Clients
      /\ \A b \in Attempts : <<b, Runner>> \in Clients /\ <<b, Runner>> # <<a, t>>
      /\ \A b \in Attempts, u \in Tasks : <<b, u>> \in Clients
  BY DEF Clients, Runner
<1>2. PICK p : /\ pipe' = [pipe EXCEPT ![<<a, t>>] = p]
               /\ pipe[<<a, t>>] = StorePipe(i, t, s, a) => p = <<ExpireW(i)>>
  <2>1. StorePipe(i, t, s, a) # <<ExpireW(i)>> BY PipesDiffer DEF StorePipe
  <2> QED BY <2>1 DEF RanWriter
<1>3. /\ pipe'[<<a, t>>] = p
      /\ \A b \in Attempts : pipe'[<<b, Runner>>] = pipe[<<b, Runner>>]
      /\ \A b \in Attempts, u \in Tasks : <<b, u>> # <<a, t>> => pipe'[<<b, u>>] = pipe[<<b, u>>]
  BY <1>1, <1>2 DEF Formed
<1>4. cp' = cp /\ index' = index BY DEF RanWriter
<1>5. /\ \A j \in Ids : cp'[j] = Forever =>
           \E b \in Attempts : pipe'[<<b, Runner>>] = <<ExpireCp(j), Sadd(j), ExpireIndex(j)>>
      /\ index'.ttl = Forever =>
           \E b \in Attempts, j \in Ids : pipe'[<<b, Runner>>] = <<ExpireIndex(j)>>
  BY <1>3, <1>4 DEF Expiring
<1>6. ASSUME NEW j \in Ids, writes'[j].ttl = Forever
      PROVE  \E b \in Attempts, u \in Tasks : pipe'[<<b, u>>] = <<ExpireW(j)>>
  <2>0. \A k, l \in Ids : ExpireW(k) = ExpireW(l) => k = l
    <3>1. \A k : ExpireW(k).id = k BY DEF ExpireW
    <3> QED BY <3>1
  <2>1. CASE pipe[<<a, t>>] = StorePipe(i, t, s, a)
    <3>1. CASE j = i BY <1>2, <1>3, <2>1, <3>1
    <3>2. CASE j # i
      <4>1. \E new : writes' = [writes EXCEPT ![i] = new] BY DEF RanWriter
      <4>2. writes[j].ttl = Forever BY <1>6, <3>2, <4>1 DEF Formed
      <4>3. PICK b \in Attempts, u \in Tasks : pipe[<<b, u>>] = <<ExpireW(j)>>
        BY <4>2 DEF Expiring
      <4>4. <<b, u>> # <<a, t>> BY <2>1, <4>3, PipesDiffer DEF StorePipe
      <4> QED BY <1>3, <4>3, <4>4
    <3> QED BY <3>1, <3>2
  <2>2. CASE pipe[<<a, t>>] = <<ExpireW(i)>>
    <3>1. writes' = [writes EXCEPT ![i] = Kept(i)]
      <4>1. StorePipe(i, t, s, a) # <<ExpireW(i)>> BY PipesDiffer DEF StorePipe
      <4> QED BY <2>2, <4>1 DEF RanWriter
    <3>2. Kept(i).ttl # Forever
      <4>1. writes[i].ttl \in Ttls BY DEF Formed, WriteKeys
      <4>2. Kept(i).ttl = Renewed(writes[i].ttl) BY DEF Kept
      <4> QED BY <4>1, <4>2, ForeverLast
    <3>3. j # i /\ writes[j].ttl = Forever
      <4> HIDE DEF Kept
      <4> QED BY <1>6, <3>1, <3>2 DEF Formed
    <3>4. PICK b \in Attempts, u \in Tasks : pipe[<<b, u>>] = <<ExpireW(j)>>
      BY <3>3 DEF Expiring
    <3>5. <<b, u>> # <<a, t>> BY <2>0, <2>2, <3>3, <3>4, PipesDiffer
    <3> QED BY <1>3, <3>4, <3>5
  <2> QED BY <2>1, <2>2 DEF RanWriter
<1> QED BY <1>5, <1>6 DEF Expiring

LEMMA NextExpiring == Orderly /\ [SaverNext]_saverVars => Expiring'
<1> SUFFICES ASSUME Orderly, [SaverNext]_saverVars PROVE Expiring'
  OBVIOUS
<1> USE DEF Orderly
<1>1. ASSUME NEW a \in Attempts, Aput(a) PROVE Expiring'
  <2>1. /\ pipe[<<a, Runner>>] = <<>> /\ \E p : pipe' = [pipe EXCEPT ![<<a, Runner>>] = p]
        /\ UNCHANGED <<cp, index, writes, breaks>>
    BY <1>1 DEF Aput
  <2>2. \A c \in Clients : pipe[c] # <<>> => pipe'[c] = pipe[c] BY <2>1 DEF Formed
  <2> QED BY <2>1, <2>2, StaysExpiring
<1>2. ASSUME NEW a \in Attempts, NEW t \in Tasks, SendWrites(a, t) PROVE Expiring'
  <2>1. /\ pipe[<<a, t>>] = <<>> /\ \E p : pipe' = [pipe EXCEPT ![<<a, t>>] = p]
        /\ UNCHANGED <<cp, index, writes, breaks>>
    BY <1>2 DEF SendWrites, Turns
  <2>2. \A c \in Clients : pipe[c] # <<>> => pipe'[c] = pipe[c] BY <2>1 DEF Formed
  <2> QED BY <2>1, <2>2, StaysExpiring
<1>3. ASSUME NEW a \in Attempts,
             LoadLatest(a) \/ LoadTuple(a) \/ Quit(a) \/ \E t \in Tasks : ReadFields(a, t)
      PROVE  Expiring'
  <2>1. UNCHANGED <<cp, index, writes, pipe, breaks>>
    BY <1>3 DEF LoadLatest, LoadTuple, Quit, ReadFields
  <2> QED BY <2>1, StaysExpiring
<1>4. ASSUME NEW c \in Clients, Run(c) PROVE Expiring'
  <2>1. breaks' = breaks BY <1>4 DEF Run
  <2> QED BY <1>4, <2>1, RunCases, RunnerStaysExpiring, WriterStaysExpiring
<1>5. ASSUME NEW c \in Clients, Break(c) PROVE Expiring'
  <2>1. breaks \in Nat /\ breaks' = breaks + 1 BY <1>5 DEF Break, Formed
  <2> QED BY <2>1 DEF Expiring
<1>6. CASE Decay
  <2> SUFFICES ASSUME breaks = 0 PROVE Expiring'
    BY <1>6 DEF Expiring, Decay
  <2>1. \A a \in Attempts : /\ pipe[<<a, Runner>>] = <<>>
                            /\ \A t \in Tasks : pipe[<<a, t>>] = <<>>
    BY <1>6 DEF Decay, Clients
  <2>2. /\ \A i \in Ids : cp[i] # Forever /\ writes[i].ttl # Forever
        /\ index.ttl # Forever
    <3>1. \A x, y, z : <<x, y, z>> # <<>> /\ <<x>> # <<>> BY HeadAndTail
    <3>2. ASSUME NEW i \in Ids, cp[i] = Forever PROVE FALSE
      <4>1. PICK a \in Attempts :
              pipe[<<a, Runner>>] = <<ExpireCp(i), Sadd(i), ExpireIndex(i)>>
        BY <3>2 DEF Expiring
      <4> QED BY <2>1, <3>1, <4>1
    <3>3. ASSUME NEW i \in Ids, writes[i].ttl = Forever PROVE FALSE
      <4>1. PICK a \in Attempts, t \in Tasks : pipe[<<a, t>>] = <<ExpireW(i)>>
        BY <3>3 DEF Expiring
      <4> QED BY <2>1, <3>1, <4>1
    <3>4. ASSUME index.ttl = Forever PROVE FALSE
      <4>1. PICK a \in Attempts, i \in Ids : pipe[<<a, Runner>>] = <<ExpireIndex(i)>>
        BY <3>4 DEF Expiring
      <4> QED BY <2>1, <3>1, <4>1
    <3> QED BY <3>2, <3>3, <3>4
  <2>3. /\ \A i \in Ids : cp[i] \in Ttls /\ writes[i].ttl \in Ttls
        /\ index.ttl \in Ttls
    BY DEF Formed, WriteKeys, IndexKeys
  <2>4. /\ \A i \in Ids : Sooner(cp[i]) # Forever /\ Sooner(writes[i].ttl) # Forever
        /\ Sooner(index.ttl) # Forever
    BY <2>2, <2>3, ForeverLast
  <2>5. \A i \in Ids : cp'[i] # Forever BY <1>6, <2>4 DEF Decay
  <2>6. ASSUME NEW i \in Ids PROVE writes'[i].ttl # Forever
    <3>1. [writes[i] EXCEPT !.ttl = Sooner(@)].ttl = Sooner(writes[i].ttl)
      BY DEF Formed, WriteKeys
    <3>2. NoWrites.ttl = Gone BY DEF NoWrites
    <3> QED BY <1>6, <2>4, <3>1, <3>2, ForeverLast DEF Decay
  <2>7. index'.ttl # Forever
    <3>1. [index EXCEPT !.ttl = Sooner(@)].ttl = Sooner(index.ttl)
      BY DEF Formed, IndexKeys
    <3>2. [ids |-> {}, ttl |-> Gone].ttl = Gone OBVIOUS
    <3> QED BY <1>6, <2>4, <3>1, <3>2, ForeverLast DEF Decay
  <2> QED BY <2>5, <2>6, <2>7 DEF Expiring
<1>7. CASE UNCHANGED saverVars
  <2>1. UNCHANGED <<cp, index, writes, pipe, breaks>> BY <1>7 DEF saverVars
  <2> QED BY <2>1, StaysExpiring
<1> QED BY <1>1, <1>2, <1>3, <1>4, <1>5, <1>6, <1>7 DEF SaverNext

LEMMA NextOrderly == Orderly /\ [SaverNext]_saverVars => Orderly'
BY NextFormed, NextTurns, NextExpiring, NextHonest DEF Orderly

-----------------------------------------------------------------------------
(* The theorems.                                                            *)

(* The server stores a field only over nothing, another field, or where two *)
(* attempts wrote at once.                                                  *)
LEMMA FirstStands ==
    ASSUME Orderly, [SaverNext]_saverVars,
           NEW i \in Ids, NEW t \in Tasks \ mixed, writes[i].val[<<t, 0>>] # NoWrite
    PROVE  \/ writes'[i].val[<<t, 0>>] = writes[i].val[<<t, 0>>]
           \/ writes'[i] = NoWrites
<1> USE DEF Orderly
<1>1. CASE writes' = writes BY <1>1
<1>2. CASE Decay
  <2>1. [writes[i] EXCEPT !.ttl = Sooner(@)].val = writes[i].val BY DEF Formed, WriteKeys
  <2> QED BY <1>2, <2>1 DEF Decay
<1>3. ASSUME NEW a \in Attempts, NEW u \in Tasks, NEW j \in Ids, NEW s \in Slots,
             RanWriter(a, u, j, s)
      PROVE  writes'[i].val[<<t, 0>>] = writes[i].val[<<t, 0>>]
  <2>1. Kept(j).val = writes[j].val BY DEF Kept
  <2>2. CASE writes' = [writes EXCEPT ![j] = Kept(j)]
    <3> HIDE DEF Kept
    <3> QED BY <2>1, <2>2 DEF Formed
  <2>3. ASSUME pipe[<<a, u>>] = StorePipe(j, u, s, a),
               writes' = [writes EXCEPT ![j] = Written(j, u, s, a)]
        PROVE  writes'[i].val[<<t, 0>>] = writes[i].val[<<t, 0>>]
    <3>1. CASE i # j BY <2>3, <3>1 DEF Formed
    <3>2. CASE i = j
      <4>1. <<u, s>> # <<t, 0>>
        <5> SUFFICES ASSUME u = t, s = 0 PROVE FALSE
          OBVIOUS
        <5>1. SendsFirst(a, t) BY DEF Honest
        <5> QED BY <2>3, <3>2, <5>1 DEF SendsFirst
      <4>2. Written(j, u, s, a).val = [writes[j].val EXCEPT ![<<u, s>>] = a] BY DEF Written
      <4>3. writes[j].val \in [Fields -> Attempts \cup {NoWrite}] /\ <<t, 0>> \in Fields
        BY DEF Formed, WriteKeys, Fields, Slots
      <4>4. Written(j, u, s, a).val[<<t, 0>>] = writes[j].val[<<t, 0>>] BY <4>1, <4>2, <4>3
      <4> HIDE DEF Written
      <4>5. writes'[j] = Written(j, u, s, a) BY <2>3 DEF Formed
      <4> QED BY <3>2, <4>4, <4>5
    <3> QED BY <3>1, <3>2
  <2> QED BY <1>3, <2>2, <2>3 DEF RanWriter
<1>4. ASSUME NEW c \in Clients, Run(c) PROVE writes'[i].val[<<t, 0>>] = writes[i].val[<<t, 0>>]
  <2>1. \A a \in Attempts, j \in Ids : RanRunner(a, j) => writes' = writes BY DEF RanRunner
  <2> QED BY <1>3, <1>4, <2>1, RunCases
<1>5. \/ writes' = writes \/ Decay \/ \E c \in Clients : Run(c)
  BY DEF SaverNext, saverVars, LoadLatest, LoadTuple, Aput, Quit, ReadFields, SendWrites, Break
<1> QED BY <1>1, <1>2, <1>4, <1>5

LEMMA OrderlySelfExpires == Orderly => SelfExpires
<1> SUFFICES ASSUME Orderly, breaks = 0
             PROVE  /\ \A i \in Ids : cp[i] = Forever => OnItsWay("expire_cp", i)
                    /\ \A i \in Ids : writes[i].ttl = Forever => OnItsWay("expire_w", i)
                    /\ index.ttl = Forever => \E i \in Ids : OnItsWay("expire_index", i)
  BY DEF SelfExpires
<1>0. \A a \in Attempts : <<a, Runner>> \in Clients /\ \A t \in Tasks : <<a, t>> \in Clients
  BY DEF Clients
<1>1. ASSUME NEW i \in Ids, cp[i] = Forever PROVE OnItsWay("expire_cp", i)
  <2>1. PICK a \in Attempts : pipe[<<a, Runner>>] = <<ExpireCp(i), Sadd(i), ExpireIndex(i)>>
    BY <1>1 DEF Orderly, Expiring
  <2>2. Len(pipe[<<a, Runner>>]) = 3 /\ pipe[<<a, Runner>>][1] = ExpireCp(i) BY <2>1
  <2>3. ExpireCp(i).op = "expire_cp" /\ ExpireCp(i).id = i BY DEF ExpireCp
  <2> QED BY <1>0, <2>2, <2>3 DEF OnItsWay
<1>2. ASSUME NEW i \in Ids, writes[i].ttl = Forever PROVE OnItsWay("expire_w", i)
  <2>1. PICK a \in Attempts, t \in Tasks : pipe[<<a, t>>] = <<ExpireW(i)>>
    BY <1>2 DEF Orderly, Expiring
  <2> DEFINE c == <<a, t>>
  <2>2. c \in Clients /\ pipe[c] = <<ExpireW(i)>> BY <2>1 DEF Clients
  <2>3. ExpireW(i).op = "expire_w" /\ ExpireW(i).id = i BY DEF ExpireW
  <2> HIDE DEF c
  <2>4. 1 \in 1 .. Len(pipe[c]) /\ pipe[c][1] = ExpireW(i) BY <2>2
  <2> QED BY <2>2, <2>3, <2>4 DEF OnItsWay
<1>3. ASSUME index.ttl = Forever PROVE \E i \in Ids : OnItsWay("expire_index", i)
  <2>1. PICK a \in Attempts, i \in Ids : pipe[<<a, Runner>>] = <<ExpireIndex(i)>>
    BY <1>3 DEF Orderly, Expiring
  <2>2. Len(pipe[<<a, Runner>>]) = 1 /\ pipe[<<a, Runner>>][1] = ExpireIndex(i) BY <2>1
  <2>3. ExpireIndex(i).op = "expire_index" /\ ExpireIndex(i).id = i BY DEF ExpireIndex
  <2> QED BY <1>0, <2>2, <2>3 DEF OnItsWay
<1> QED BY <1>1, <1>2, <1>3

LEMMA AlwaysOrderly == SaverSpec => []Orderly
<1>1. SaverInit => Orderly BY InitOrderly
<1>2. Orderly /\ [SaverNext]_saverVars => Orderly' BY NextOrderly
<1> QED BY <1>1, <1>2, PTL DEF SaverSpec

(* What a task wrote is kept as first stored by an attempt, whatever another *)
(* attempt or a retry sends after reading it (checkpoint.py:153-161).        *)
THEOREM FirstWritesStand == SaverSpec => FirstWriteWins
<1>1. Orderly /\ [SaverNext]_saverVars =>
        [\A i \in Ids, t \in Tasks \ mixed :
           LET old == writes[i].val[<<t, 0>>]
           IN  old # NoWrite => \/ writes'[i].val[<<t, 0>>] = old
                                \/ writes'[i] = NoWrites]_saverVars
  BY FirstStands
<1> QED BY <1>1, AlwaysOrderly, PTL DEF SaverSpec, FirstWriteWins

(* Unless a connection is lost in between, no key of an abandoned thread     *)
(* stays: each that has no TTL yet has one on its way (checkpoint.py:5-7).   *)
THEOREM AbandonedExpire == SaverSpec => []SelfExpires
BY AlwaysOrderly, OrderlySelfExpires, PTL

-----------------------------------------------------------------------------
(* The index.                                                               *)

(* An index that is not empty has a greatest id, so _latest finds one. *)
LEMMA HasNewest ==
    ASSUME NEW S \in SUBSET Ids, S # {} PROVE \E i \in S : \A j \in S : j <= i
<1>1. S \in SUBSET Nat /\ \A i \in S : i <= MaxId BY DEF Ids
<1> QED BY <1>1, NatMax

(* The last n commands of aput. *)
Rest(i, n) == IF n = 4 THEN <<HsetCp(i), ExpireCp(i), Sadd(i), ExpireIndex(i)>>
              ELSE IF n = 3 THEN <<ExpireCp(i), Sadd(i), ExpireIndex(i)>>
              ELSE IF n = 2 THEN <<Sadd(i), ExpireIndex(i)>>
              ELSE IF n = 1 THEN <<ExpireIndex(i)>>
              ELSE <<>>

(* Attempt a has n commands to go for checkpoint i. *)
Left(a, i, n) == pipe[<<a, Runner>>] = Rest(i, n)

LEMMA RestIsOne ==
    ASSUME NEW i \in Ids, NEW n \in 1 .. 4
    PROVE  /\ Rest(i, n) # <<>>
           /\ \A j \in Ids, m \in 1 .. 4 : Rest(i, n) = Rest(j, m) => i = j /\ n = m
<1>1. \A j, k \in Ids : ExpireIndex(j) = ExpireIndex(k) => j = k
  <2>1. \A j : ExpireIndex(j).id = j BY DEF ExpireIndex
  <2> QED BY <2>1
<1>2. Len(Rest(i, n)) = n /\ Rest(i, n)[n] = ExpireIndex(i)
  BY DEF Rest
<1>3. \A j \in Ids, m \in 1 .. 4 : Len(Rest(j, m)) = m /\ Rest(j, m)[m] = ExpireIndex(j)
  BY DEF Rest
<1>4. Len(<<>>) = 0 OBVIOUS
<1> QED BY <1>1, <1>2, <1>3, <1>4

(* A checkpoint on its way: nobody has been told that it is stored, its hash *)
(* is there before the index names it, and what the index names from it on   *)
(* has just been written.                                                    *)
Underway(a, i) ==
    \A n \in 1 .. 4 : Left(a, i, n) =>
      /\ i <= created /\ i \notin stored
      /\ \A k \in index.ids : k >= i => cp[k] = Ttl
      /\ n >= 3 => i \notin index.ids
      /\ n = 3 => cp[i] # Gone
      /\ n <= 2 => cp[i] = Ttl
      /\ n = 1 => i \in index.ids

Single == \A a, b \in Attempts, i \in Ids, m, n \in 1 .. 4 :
            Left(a, i, m) /\ Left(b, i, n) => a = b

(* The greater the id, the later its hash expires; the index outlives every  *)
(* checkpoint that is stored.                                                *)
Outlives(i) ==
    /\ cp[i] \in 0 .. Ttl
    /\ cp[i] # Gone => i \in index.ids /\ (index.ttl = Forever \/ cp[i] <= index.ttl)

Indexed ==
    /\ index.ids \subseteq 1 .. created /\ stored \subseteq 1 .. created
    /\ index.ids # {} => index.ttl # Gone
    /\ \A i \in index.ids : cp[i] \in 0 .. Ttl
    /\ \A i, j \in index.ids : i < j => cp[i] <= cp[j]
    /\ \A i \in stored : Outlives(i)

Ordered == Single /\ Indexed /\ \A a \in Attempts, i \in Ids : Underway(a, i)

LEMMA InitOrdered == SaverInit => Ordered
<1> SUFFICES ASSUME SaverInit PROVE Ordered
  OBVIOUS
<1>1. \A a \in Attempts : pipe[<<a, Runner>>] = <<>> BY DEF SaverInit, Clients
<1>2. \A a \in Attempts, i \in Ids, n \in 1 .. 4 : ~Left(a, i, n)
  BY <1>1, RestIsOne DEF Left
<1>3. Indexed BY DEF SaverInit, Indexed
<1> QED BY <1>2, <1>3 DEF Ordered, Single, Underway

(* A step after which fewer pipelines are under way, and all keys are as they were. *)
LEMMA StaysOrdered ==
    ASSUME Ordered, UNCHANGED <<cp, index, stored, created>>,
           \A a \in Attempts : pipe'[<<a, Runner>>] \in {pipe[<<a, Runner>>], <<>>}
    PROVE  Ordered'
<1>1. ASSUME NEW a \in Attempts, NEW i \in Ids, NEW n \in 1 .. 4, Left(a, i, n)'
      PROVE  Left(a, i, n)
  BY <1>1, RestIsOne DEF Left
<1>2. Single' BY <1>1 DEF Ordered, Single
<1>3. Indexed' BY DEF Ordered, Indexed, Outlives
<1>4. ASSUME NEW a \in Attempts, NEW i \in Ids PROVE Underway(a, i)'
  <2>1. Underway(a, i) BY DEF Ordered
  <2> QED BY <1>1, <2>1 DEF Underway
<1> QED BY <1>2, <1>3, <1>4 DEF Ordered

(* A new checkpoint is newer than all that were ever made. *)
LEMMA AputOrdered ==
    ASSUME Formed, Ordered, NEW a \in Attempts, Aput(a)
    PROVE  Ordered'
<1> DEFINE new == created + 1
<1>1. created \in Nat /\ created' = new /\ new \in Ids
  BY DEF Aput, Formed, Ids
<1>2. pipe' = [pipe EXCEPT ![<<a, Runner>>] = Rest(new, 4)]
  BY <1>1 DEF Aput, Rest
<1>3. UNCHANGED <<cp, index, stored>> BY DEF Aput
<1>4. \A b \in Attempts : pipe'[<<b, Runner>>] = IF b = a THEN Rest(new, 4)
                                                 ELSE pipe[<<b, Runner>>]
  <2>1. \A b \in Attempts : <<b, Runner>> \in Clients BY DEF Clients
  <2> QED BY <1>2, <2>1 DEF Formed
<1> HIDE DEF new
<1>5. ASSUME NEW b \in Attempts, NEW i \in Ids, NEW n \in 1 .. 4, Left(b, i, n)'
      PROVE  (b = a /\ i = new /\ n = 4) \/ (b # a /\ Left(b, i, n) /\ i <= created)
  <2>1. CASE b = a BY <1>1, <1>4, <1>5, <2>1, RestIsOne DEF Left
  <2>2. CASE b # a
    <3>1. Left(b, i, n) BY <1>4, <1>5, <2>2 DEF Left
    <3> QED BY <2>2, <3>1 DEF Ordered, Underway
  <2> QED BY <2>1, <2>2
<1>6. ~(new <= created) BY <1>1 DEF new
<1>7. Single'
  <2> SUFFICES ASSUME NEW b \in Attempts, NEW d \in Attempts, NEW i \in Ids,
                      NEW m \in 1 .. 4, NEW n \in 1 .. 4, Left(b, i, m)', Left(d, i, n)'
               PROVE  b = d
    BY DEF Single
  <2> QED BY <1>5, <1>6 DEF Ordered, Single
<1>8. Indexed' BY <1>1, <1>3 DEF Ordered, Indexed, Outlives, new
<1>9. ASSUME NEW b \in Attempts, NEW i \in Ids PROVE Underway(b, i)'
  <2> SUFFICES ASSUME NEW n \in 1 .. 4, Left(b, i, n)'
               PROVE  /\ i <= created' /\ i \notin stored'
                      /\ \A k \in index'.ids : k >= i => cp'[k] = Ttl
                      /\ n >= 3 => i \notin index'.ids
                      /\ n = 3 => cp'[i] # Gone
                      /\ n <= 2 => cp'[i] = Ttl
                      /\ n = 1 => i \in index'.ids
    BY DEF Underway
  <2>1. CASE b = a /\ i = new /\ n = 4
    <3>1. new \notin stored /\ new \notin index.ids /\ \A k \in index.ids : ~(k >= new)
      BY <1>1 DEF Ordered, Indexed, new
    <3>2. i <= created' BY <1>1, <2>1 DEF Ids
    <3>3. ~(n = 3) /\ ~(n <= 2) /\ ~(n = 1) BY <2>1
    <3> QED BY <1>3, <2>1, <3>1, <3>2, <3>3
  <2>2. CASE b # a /\ Left(b, i, n)
    <3>1. Underway(b, i) BY DEF Ordered
    <3>2. i <= new BY <1>1, <2>2, <3>1 DEF Underway, Ids, new
    <3> QED BY <1>1, <1>3, <2>2, <3>1, <3>2 DEF Underway
  <2> QED BY <1>5, <2>1, <2>2
<1> QED BY <1>7, <1>8, <1>9 DEF Ordered

(* Which command of aput the server ran. *)
Ran(a, i, n) ==
    /\ Left(a, i, n)
    /\ pipe' = [pipe EXCEPT ![<<a, Runner>>] = Rest(i, n - 1)]
    /\ cp' = [cp EXCEPT ![i] = IF n = 4 THEN Created(@) ELSE IF n = 3 THEN Renewed(@) ELSE @]
    /\ index'.ids = IF n = 2 THEN index.ids \cup {i} ELSE index.ids
    /\ index'.ttl = IF n = 2 THEN Created(index.ttl)
                    ELSE IF n = 1 THEN Renewed(index.ttl) ELSE index.ttl
    /\ stored' = IF n = 1 THEN stored \cup {i} ELSE stored
    /\ created' = created

LEMMA RunnerRuns ==
    ASSUME Formed, NEW a \in Attempts, Run(<<a, Runner>>)
    PROVE  \E i \in Ids, n \in 1 .. 4 : Ran(a, i, n)
<1> DEFINE c == <<a, Runner>>
<1>1. PICK i \in Ids, n \in 1 .. 4 : pipe[c] = Rest(i, n)
  <2>1. PICK i \in Ids :
          \/ pipe[c] = <<HsetCp(i), ExpireCp(i), Sadd(i), ExpireIndex(i)>>
          \/ pipe[c] = <<ExpireCp(i), Sadd(i), ExpireIndex(i)>>
          \/ pipe[c] = <<Sadd(i), ExpireIndex(i)>>
          \/ pipe[c] = <<ExpireIndex(i)>>
    BY DEF Formed, RunnerPipe, Run
  <2>2. /\ Rest(i, 4) = <<HsetCp(i), ExpireCp(i), Sadd(i), ExpireIndex(i)>>
        /\ Rest(i, 3) = <<ExpireCp(i), Sadd(i), ExpireIndex(i)>>
        /\ Rest(i, 2) = <<Sadd(i), ExpireIndex(i)>>
        /\ Rest(i, 1) = <<ExpireIndex(i)>>
    BY DEF Rest
  <2>3. 1 \in 1 .. 4 /\ 2 \in 1 .. 4 /\ 3 \in 1 .. 4 /\ 4 \in 1 .. 4 OBVIOUS
  <2> HIDE DEF c
  <2> QED BY <2>1, <2>2, <2>3
<1>2. /\ Tail(Rest(i, n)) = Rest(i, n - 1)
      /\ Head(Rest(i, n)) = IF n = 4 THEN HsetCp(i) ELSE IF n = 3 THEN ExpireCp(i)
                            ELSE IF n = 2 THEN Sadd(i) ELSE ExpireIndex(i)
  BY HeadAndTail DEF Rest
<1>3. pipe' = [pipe EXCEPT ![c] = Rest(i, n - 1)] BY <1>1, <1>2 DEF Run
<1>4. stored' = IF n = 1 THEN stored \cup {i} ELSE stored
  <2>1. /\ HsetCp(i).op = "hset_cp" /\ ExpireCp(i).op = "expire_cp" /\ Sadd(i).op = "sadd"
        /\ ExpireIndex(i).op = "expire_index" /\ ExpireIndex(i).id = i
    BY DEF HsetCp, ExpireCp, Sadd, ExpireIndex
  <2>2. stored' = IF Head(Rest(i, n)).op = "expire_index"
                  THEN stored \cup {Head(Rest(i, n)).id} ELSE stored
    BY <1>1 DEF Run
  <2>3. CASE n = 1 BY <1>2, <2>1, <2>2, <2>3
  <2>4. CASE n # 1
    <3>1. Head(Rest(i, n)) \in {HsetCp(i), ExpireCp(i), Sadd(i)} BY <1>2, <2>4
    <3>2. Head(Rest(i, n)).op # "expire_index" BY <2>1, <3>1
    <3> QED BY <2>2, <2>4, <3>2
  <2> QED BY <2>3, <2>4
<1>5. created' = created /\ Effect(Head(Rest(i, n))) BY <1>1 DEF Run
<1>6. /\ cp' = [cp EXCEPT ![i] = IF n = 4 THEN Created(@) ELSE IF n = 3 THEN Renewed(@) ELSE @]
      /\ index'.ids = IF n = 2 THEN index.ids \cup {i} ELSE index.ids
      /\ index'.ttl = IF n = 2 THEN Created(index.ttl)
                      ELSE IF n = 1 THEN Renewed(index.ttl) ELSE index.ttl
  <2>1. cp = [cp EXCEPT ![i] = @] BY DEF Formed
  <2>2. CASE n = 4 BY <1>2, <1>5, <2>2, Effects
  <2>3. CASE n = 3 BY <1>2, <1>5, <2>3, Effects
  <2>4. CASE n = 2 BY <1>2, <1>5, <2>1, <2>4, Effects
  <2>5. CASE n = 1 BY <1>2, <1>5, <2>1, <2>5, Effects
  <2> QED BY <2>2, <2>3, <2>4, <2>5
<1> QED BY <1>1, <1>3, <1>4, <1>5, <1>6 DEF Ran, Left

LEMMA RanOrdered ==
    ASSUME Formed, Ordered, NEW a \in Attempts, NEW i \in Ids, NEW n \in 1 .. 4, Ran(a, i, n)
    PROVE  Ordered'
<1>1. /\ cp \in [Ids -> Ttls] /\ index.ids \subseteq Ids /\ index.ttl \in Ttls
      /\ created \in Nat /\ Ttl \in Nat \ {0}
  BY DEF Formed, IndexKeys, Ids
<1>2. /\ i <= created /\ i \notin stored
      /\ \A k \in index.ids : k >= i => cp[k] = Ttl
      /\ n >= 3 => i \notin index.ids
      /\ n = 3 => cp[i] # Gone
      /\ n <= 2 => cp[i] = Ttl
      /\ n = 1 => i \in index.ids
  BY DEF Ran, Ordered, Underway
<1>3. \A k \in Ids : cp'[k] = IF k # i \/ n <= 2 THEN cp[k]
                              ELSE IF n = 4 THEN Created(cp[i]) ELSE Renewed(cp[i])
  BY <1>1 DEF Ran
<1>4. \A k \in Ids : k # i \/ n <= 2 => cp'[k] = cp[k] BY <1>3
<1>5. n = 3 => cp'[i] = Ttl BY <1>2, <1>3 DEF Renewed
<1>6. n = 4 => cp'[i] # Gone BY <1>3 DEF Created, Gone, Forever
<1>7. \A b \in Attempts : pipe'[<<b, Runner>>] = IF b = a THEN Rest(i, n - 1)
                                                 ELSE pipe[<<b, Runner>>]
  <2>1. \A b \in Attempts : <<b, Runner>> \in Clients BY DEF Clients
  <2> QED BY <2>1 DEF Ran, Formed
<1>8. ASSUME NEW b \in Attempts, NEW j \in Ids, NEW m \in 1 .. 4, Left(b, j, m)'
      PROVE  (b = a /\ j = i /\ m = n - 1) \/ (b # a /\ j # i /\ Left(b, j, m))
  <2>1. CASE b = a
    <3>1. Rest(j, m) = Rest(i, n - 1) BY <1>7, <1>8, <2>1 DEF Left
    <3>2. n # 1
      <4>1. Rest(i, 0) = <<>> BY DEF Rest
      <4> QED BY <3>1, <4>1, RestIsOne
    <3> QED BY <2>1, <3>1, <3>2, RestIsOne
  <2>2. CASE b # a
    <3>1. Left(b, j, m) BY <1>7, <1>8, <2>2 DEF Left
    <3>2. j # i BY <2>2, <3>1 DEF Ordered, Single, Ran
    <3> QED BY <2>2, <3>1, <3>2
  <2> QED BY <2>1, <2>2
<1>9. /\ index'.ids = IF n = 2 THEN index.ids \cup {i} ELSE index.ids
      /\ index'.ttl = IF n = 2 THEN Created(index.ttl)
                      ELSE IF n = 1 THEN Renewed(index.ttl) ELSE index.ttl
      /\ stored' = IF n = 1 THEN stored \cup {i} ELSE stored
      /\ created' = created
  BY DEF Ran
<1>10. Single'
  <2> SUFFICES ASSUME NEW b \in Attempts, NEW d \in Attempts, NEW j \in Ids,
                      NEW l \in 1 .. 4, NEW m \in 1 .. 4, Left(b, j, l)', Left(d, j, m)'
               PROVE  b = d
    BY DEF Single
  <2> QED BY <1>8 DEF Ordered, Single
<1>11. Indexed'
  <2> USE DEF Ordered, Indexed
  <2>1. index'.ids \subseteq 1 .. created' /\ stored' \subseteq 1 .. created'
    BY <1>1, <1>2, <1>9 DEF Ids
  <2>2. index'.ids # {} => index'.ttl # Gone
    <3>1. Created(index.ttl) # Gone BY DEF Created, Gone, Forever
    <3>2. index.ids # {} => Renewed(index.ttl) # Gone BY <1>1 DEF Renewed, Gone
    <3> QED BY <1>2, <1>9, <3>1, <3>2
  <2>3. \A k \in index.ids : cp'[k] = cp[k] BY <1>1, <1>2, <1>4
  <2>4. n = 2 => cp'[i] = Ttl BY <1>2, <1>4
  <2>5. \A k \in index'.ids : cp'[k] \in 0 .. Ttl BY <1>1, <1>9, <2>3, <2>4
  <2>6. ASSUME NEW k \in index'.ids, NEW l \in index'.ids, k < l PROVE cp'[k] <= cp'[l]
    <3>1. CASE k \in index.ids /\ l \in index.ids BY <2>3, <2>6, <3>1
    <3>2. CASE n = 2 /\ k = i /\ l \in index.ids
      <4>1. cp[l] = Ttl BY <1>1, <1>2, <2>6, <3>2 DEF Ids
      <4> QED BY <1>1, <2>3, <2>4, <3>2, <4>1
    <3>3. CASE n = 2 /\ l = i BY <1>1, <2>4, <2>5, <3>3
    <3> QED BY <1>9, <3>1, <3>2, <3>3
  <2>7. ASSUME NEW k \in stored' PROVE Outlives(k)'
    <3>1. CASE k \in stored
      <4>1. k \in Ids /\ cp'[k] = cp[k]
        <5>1. k \in Ids BY <3>1, <1>1 DEF Formed, Ids
        <5> QED BY <1>2, <1>4, <3>1, <5>1
      <4>2. Outlives(k) BY <3>1
      <4>3. cp[k] # Gone => index'.ttl = Forever \/ cp[k] <= index'.ttl
        <5>1. CASE n = 2 BY <1>1, <1>9, <4>2, <5>1 DEF Outlives, Created
        <5>2. CASE n = 1
          <6>1. index.ttl # Gone BY <1>2, <5>2
          <6>2. index'.ttl = Ttl BY <1>9, <5>2, <6>1 DEF Renewed
          <6> QED BY <1>1, <4>2, <6>2 DEF Outlives
        <5>3. CASE n >= 3 BY <1>9, <4>2, <5>3 DEF Outlives
        <5> QED BY <5>1, <5>2, <5>3
      <4> QED BY <1>9, <4>1, <4>2, <4>3 DEF Outlives
    <3>2. CASE n = 1 /\ k = i
      <4>1. index.ttl # Gone BY <1>2, <3>2
      <4>2. index'.ttl = Ttl BY <1>9, <3>2, <4>1 DEF Renewed
      <4>3. cp'[i] = Ttl /\ i \in index'.ids BY <1>2, <1>4, <1>9, <3>2
      <4> QED BY <1>1, <3>2, <4>2, <4>3 DEF Outlives
    <3> QED BY <1>9, <3>1, <3>2
  <2> QED BY <2>1, <2>2, <2>5, <2>6, <2>7
<1>12. ASSUME NEW b \in Attempts, NEW j \in Ids PROVE Underway(b, j)'
  <2> SUFFICES ASSUME NEW m \in 1 .. 4, Left(b, j, m)'
               PROVE  /\ j <= created' /\ j \notin stored'
                      /\ \A k \in index'.ids : k >= j => cp'[k] = Ttl
                      /\ m >= 3 => j \notin index'.ids
                      /\ m = 3 => cp'[j] # Gone
                      /\ m <= 2 => cp'[j] = Ttl
                      /\ m = 1 => j \in index'.ids
    BY DEF Underway
  <2>1. \A k \in index'.ids : k \in index.ids \/ (n = 2 /\ k = i) BY <1>9
  <2>2. \A k \in index.ids : k \in Ids /\ cp'[k] = cp[k] BY <1>1, <1>2, <1>4
  <2>3. n <= 2 => cp'[i] = Ttl BY <1>2, <1>4
  <2>4. CASE b = a /\ j = i /\ m = n - 1
    <3>1. \A k \in index'.ids : k >= i => cp'[k] = Ttl BY <1>2, <2>1, <2>2, <2>3
    <3>2. i \notin stored' BY <1>2, <1>9, <2>4
    <3>3. m = 3 => cp'[i] # Gone BY <1>6, <2>4
    <3>4. m = 2 => cp'[i] = Ttl BY <1>5, <2>4
    <3>5. m = 1 => cp'[i] = Ttl /\ i \in index'.ids BY <1>9, <2>3, <2>4
    <3>6. m >= 3 => i \notin index'.ids BY <1>2, <1>9, <2>4
    <3> QED BY <1>2, <1>9, <2>4, <3>1, <3>2, <3>3, <3>4, <3>5, <3>6
  <2>5. CASE j # i /\ Left(b, j, m)
    <3>1. /\ j <= created /\ j \notin stored
          /\ \A k \in index.ids : k >= j => cp[k] = Ttl
          /\ m >= 3 => j \notin index.ids
          /\ m = 3 => cp[j] # Gone
          /\ m <= 2 => cp[j] = Ttl
          /\ m = 1 => j \in index.ids
      BY <2>5 DEF Ordered, Underway
    <3>2. cp'[j] = cp[j] BY <1>4, <2>5
    <3>3. \A k \in index'.ids : k >= j => cp'[k] = Ttl BY <2>1, <2>2, <2>3, <3>1
    <3> QED BY <1>9, <2>5, <3>1, <3>2, <3>3
  <2> QED BY <1>8, <2>4, <2>5
<1> QED BY <1>10, <1>11, <1>12 DEF Ordered

(* Time takes the same from every TTL. *)
LEMMA DecayOrdered ==
    ASSUME Formed, Ordered, Decay
    PROVE  Ordered'
<1>1. /\ cp \in [Ids -> Ttls] /\ index.ids \subseteq Ids /\ index.ttl \in Ttls
      /\ created \in Nat /\ Ttl \in Nat \ {0}
      /\ stored \subseteq Ids
  BY DEF Formed, IndexKeys, Ids, Ordered, Indexed
<1>2. \A a \in Attempts, i \in Ids, n \in 1 .. 4 : ~Left(a, i, n)'
  <2>1. \A a \in Attempts : pipe'[<<a, Runner>>] = <<>> BY DEF Decay, Clients
  <2> QED BY <2>1, RestIsOne DEF Left
<1>3. \A i \in Ids : cp'[i] = Sooner(cp[i]) BY DEF Decay
<1>4. /\ Sooner(index.ttl) = Gone => index'.ids = {}
      /\ Sooner(index.ttl) # Gone => index'.ids = index.ids /\ index'.ttl = Sooner(index.ttl)
  <2>1. [index EXCEPT !.ttl = Sooner(@)].ttl = Sooner(index.ttl)
        /\ [index EXCEPT !.ttl = Sooner(@)].ids = index.ids
    BY DEF Formed, IndexKeys
  <2> QED BY <2>1 DEF Decay
<1>5. index'.ids \subseteq index.ids BY <1>4
<1>6. Indexed'
  <2> USE DEF Ordered, Indexed
  <2>1. created' = created /\ stored' = stored BY DEF Decay
  <2>2. \A x \in 0 .. Ttl : Sooner(x) \in 0 .. Ttl BY <1>1 DEF Sooner
  <2>3. \A x, y \in 0 .. Ttl : x <= y => Sooner(x) <= Sooner(y) BY <1>1 DEF Sooner
  <2>4. index'.ids # {} => index'.ttl # Gone BY <1>4
  <2>5. \A i \in index'.ids : cp'[i] \in 0 .. Ttl BY <1>1, <1>3, <1>5, <2>2
  <2>6. \A i, j \in index'.ids : i < j => cp'[i] <= cp'[j] BY <1>1, <1>3, <1>5, <2>3
  <2>7. ASSUME NEW i \in stored' PROVE Outlives(i)'
    <3>1. i \in Ids /\ Outlives(i) BY <1>1, <2>1
    <3>2. cp'[i] \in 0 .. Ttl BY <1>3, <2>2, <3>1 DEF Outlives
    <3>3. ASSUME cp'[i] # Gone
          PROVE  i \in index'.ids /\ (index'.ttl = Forever \/ cp'[i] <= index'.ttl)
      <4>1. cp[i] \in 0 .. Ttl /\ cp[i] > 1 /\ cp'[i] = cp[i] - 1
        BY <1>1, <1>3, <3>1, <3>3 DEF Sooner, Gone, Outlives
      <4>2. i \in index.ids /\ (index.ttl = Forever \/ cp[i] <= index.ttl)
        BY <3>1, <4>1 DEF Outlives, Gone
      <4>3. CASE index.ttl = Forever
        BY <1>4, <4>2, <4>3 DEF Sooner, Forever, Gone
      <4>4. CASE cp[i] <= index.ttl
        <5>0. index.ttl \in -1 .. Ttl BY <1>1 DEF Ttls
        <5>1. Sooner(index.ttl) = index.ttl - 1 /\ Sooner(index.ttl) # Gone
          BY <1>1, <4>1, <4>4, <5>0 DEF Sooner, Gone
        <5>2. cp'[i] <= index.ttl - 1 BY <1>1, <4>1, <4>4, <5>0
        <5> QED BY <1>4, <4>2, <5>1, <5>2
      <4> QED BY <4>2, <4>3, <4>4
    <3> QED BY <3>2, <3>3 DEF Outlives
  <2>8. index'.ids \subseteq 1 .. created' /\ stored' \subseteq 1 .. created' BY <1>5, <2>1
  <2> QED BY <2>4, <2>5, <2>6, <2>7, <2>8
<1> QED BY <1>2, <1>6 DEF Ordered, Single, Underway

LEMMA NextOrdered == Formed /\ Ordered /\ [SaverNext]_saverVars => Ordered'
<1> SUFFICES ASSUME Formed, Ordered, [SaverNext]_saverVars PROVE Ordered'
  OBVIOUS
<1>0. \A b \in Attempts : /\ <<b, Runner>> \in Clients
                          /\ \A d \in Attempts, t \in Tasks : <<b, Runner>> # <<d, t>>
  BY DEF Clients, Runner
<1>1. ASSUME NEW a \in Attempts, Aput(a) PROVE Ordered'
  BY <1>1, AputOrdered
<1>2. ASSUME NEW a \in Attempts, LoadLatest(a) \/ LoadTuple(a) \/ Quit(a) PROVE Ordered'
  <2>1. UNCHANGED <<cp, index, stored, created, pipe>>
    BY <1>2 DEF LoadLatest, LoadTuple, Quit
  <2> QED BY <2>1, StaysOrdered
<1>3. ASSUME NEW a \in Attempts, NEW t \in Tasks, ReadFields(a, t) PROVE Ordered'
  <2>1. UNCHANGED <<cp, index, stored, created, pipe>> BY <1>3 DEF ReadFields
  <2> QED BY <2>1, StaysOrdered
<1>4. ASSUME NEW a \in Attempts, NEW t \in Tasks, SendWrites(a, t) PROVE Ordered'
  <2>1. UNCHANGED <<cp, index, stored, created>> /\ \E p : pipe' = [pipe EXCEPT ![<<a, t>>] = p]
    BY <1>4 DEF SendWrites
  <2>2. \A b \in Attempts : pipe'[<<b, Runner>>] = pipe[<<b, Runner>>]
    BY <1>0, <2>1 DEF Formed
  <2> QED BY <2>1, <2>2, StaysOrdered
<1>5. ASSUME NEW c \in Clients, Run(c) PROVE Ordered'
  <2>1. CASE \E a \in Attempts : c = <<a, Runner>>
    BY <1>5, <2>1, RunnerRuns, RanOrdered
  <2>2. ASSUME NEW a \in Attempts, NEW t \in Tasks, c = <<a, t>> PROVE Ordered'
    <3>1. \/ \E i \in Ids, s \in Slots : Head(pipe[c]) = WriteOf(i, t, s, a)
          \/ \E i \in Ids : Head(pipe[c]) = ExpireW(i)
      <4>1. WriterPipe(pipe[c], a, t) /\ pipe[c] # <<>> BY <1>5, <2>2 DEF Formed, Run
      <4> QED BY <4>1, HeadAndTail DEF WriterPipe, StorePipe
    <3>2. cp' = cp /\ index' = index BY <1>5, <3>1, Effects DEF Run
    <3>3. stored' = stored /\ created' = created
      <4>1. /\ \A i, s : WriteOf(i, t, s, a).op = "hset_w"
            /\ \A i : ExpireW(i).op = "expire_w"
        BY DEF WriteOf, ExpireW
      <4>2. Head(pipe[c]).op # "expire_index" BY <3>1, <4>1
      <4> QED BY <1>5, <4>2 DEF Run
    <3>4. \E p : pipe' = [pipe EXCEPT ![<<a, t>>] = p] BY <1>5, <2>2 DEF Run
    <3>5. \A b \in Attempts : pipe'[<<b, Runner>>] = pipe[<<b, Runner>>]
      BY <1>0, <3>4 DEF Formed
    <3> QED BY <3>2, <3>3, <3>5, StaysOrdered
  <2> QED BY <2>1, <2>2 DEF Clients
<1>6. ASSUME NEW c \in Clients, Break(c) PROVE Ordered'
  <2>1. UNCHANGED <<cp, index, stored, created>> /\ pipe' = [pipe EXCEPT ![c] = <<>>]
    BY <1>6 DEF Break
  <2>2. \A b \in Attempts : pipe'[<<b, Runner>>] \in {pipe[<<b, Runner>>], <<>>}
    BY <1>0, <2>1 DEF Formed
  <2> QED BY <2>1, <2>2, StaysOrdered
<1>7. CASE Decay BY <1>7, DecayOrdered
<1>8. CASE UNCHANGED saverVars
  <2>1. UNCHANGED <<cp, index, stored, created, pipe>> BY <1>8 DEF saverVars
  <2> QED BY <2>1, StaysOrdered
<1> QED BY <1>1, <1>2, <1>3, <1>4, <1>5, <1>6, <1>7, <1>8 DEF SaverNext

LEMMA OrderedNotLost == Formed /\ Ordered => LatestNotLost
<1> SUFFICES ASSUME Formed, Ordered, NEW i \in stored \cup Listed, cp[i] # Gone
             PROVE  Tuple >= i
  BY DEF LatestNotLost
<1> USE DEF Ordered, Indexed
<1>1. i \in index.ids /\ index.ids \subseteq Ids BY DEF Listed, Outlives, Formed, IndexKeys
<1>2. Newest # {}
  <2>1. \E k \in index.ids : \A j \in index.ids : j <= k BY <1>1, HasNewest
  <2> QED BY <2>1 DEF Newest
<1>3. Latest \in index.ids /\ i <= Latest
  <2>1. Latest \in Newest BY <1>2 DEF Latest
  <2> QED BY <1>1, <2>1 DEF Newest
<1>4. cp[i] <= cp[Latest] BY <1>1, <1>3 DEF Ids
<1>5. cp[i] \in 0 .. Ttl /\ cp[i] > 0 /\ cp[Latest] \in 0 .. Ttl
  <2>1. cp[i] \in 0 .. Ttl /\ cp[Latest] \in 0 .. Ttl BY <1>1, <1>3
  <2> HIDE DEF Ordered, Indexed
  <2> QED BY <2>1 DEF Gone
<1>6. cp[Latest] # Gone BY <1>4, <1>5 DEF Gone
<1> HIDE DEF Ordered, Indexed
<1>7. Tuple = Latest BY <1>1, <1>6 DEF Tuple
<1> QED BY <1>1, <1>3, <1>7 DEF Ids

LEMMA AlwaysOrdered == SaverSpec => []Ordered
<1>1. SaverInit => Ordered BY InitOrdered
<1>2. Formed /\ Ordered /\ [SaverNext]_saverVars => Ordered' BY NextOrdered
<1>3. SaverSpec => []Formed BY AlwaysOrderly, PTL DEF Orderly
<1> QED BY <1>1, <1>2, <1>3, PTL DEF SaverSpec

(* At every moment the thread's state is read as no older a checkpoint than  *)
(* the last whose aput has returned and whose hash is still there, nor than   *)
(* any that alist yields: the pipeline writes a hash before the index names   *)
(* it, and renews the index after the hash (checkpoint.py:118-132,231-247,    *)
(* 289-291).                                                                  *)
THEOREM LatestStands == SaverSpec => []LatestNotLost
<1>1. SaverSpec => []Formed BY AlwaysOrderly, PTL DEF Orderly
<1> QED BY <1>1, AlwaysOrdered, OrderedNotLost, PTL

(* What is in a pipeline is a command. *)
LEMMA RunnerCommands ==
    ASSUME NEW p, RunnerPipe(p), NEW n \in 1 .. Len(p)
    PROVE  p[n] \in Commands
<1>1. \A i \in Ids : /\ HsetCp(i) \in Commands /\ ExpireCp(i) \in Commands
                      /\ Sadd(i) \in Commands /\ ExpireIndex(i) \in Commands
  BY DEF Commands, HsetCp, ExpireCp, Sadd, ExpireIndex
<1>2. ASSUME NEW i \in Ids, p = <<HsetCp(i), ExpireCp(i), Sadd(i), ExpireIndex(i)>>
      PROVE  p[n] \in Commands
  BY <1>1, <1>2
<1>3. ASSUME NEW i \in Ids, p = <<ExpireCp(i), Sadd(i), ExpireIndex(i)>>
      PROVE  p[n] \in Commands
  BY <1>1, <1>3
<1>4. ASSUME NEW i \in Ids, p \in {<<Sadd(i), ExpireIndex(i)>>, <<ExpireIndex(i)>>}
      PROVE  p[n] \in Commands
  BY <1>1, <1>4
<1>5. p # <<>> OBVIOUS
<1> QED BY <1>2, <1>3, <1>4, <1>5 DEF RunnerPipe

LEMMA WriterCommands ==
    ASSUME NEW p, NEW a \in Attempts, NEW t \in Tasks, WriterPipe(p, a, t),
           NEW n \in 1 .. Len(p)
    PROVE  p[n] \in Commands
<1>1. \A i \in Ids : ExpireW(i) \in Commands BY DEF Commands, ExpireW
<1>2. \A i \in Ids, s \in Slots : WriteOf(i, t, s, a) \in Commands
  BY DEF Commands, WriteOf, Fields
<1>3. ASSUME NEW i \in Ids, NEW s \in Slots, p = <<WriteOf(i, t, s, a), ExpireW(i)>>
      PROVE  p[n] \in Commands
  BY <1>1, <1>2, <1>3
<1>4. ASSUME NEW i \in Ids, p = <<ExpireW(i)>> PROVE p[n] \in Commands
  BY <1>1, <1>4
<1>5. p # <<>> OBVIOUS
<1> QED BY <1>3, <1>4, <1>5 DEF WriterPipe, StorePipe

(* Every variable of the saver keeps its type: above all, no pipeline holds   *)
(* anything but the commands of aput and of aput_writes (checkpoint.py:       *)
(* 118-132,153-168).                                                          *)
THEOREM SaverTypeCorrect == SaverSpec => []SaverTypeOK
<1>1. SaverInit => mixed \subseteq Tasks BY DEF SaverInit
<1>2. mixed \subseteq Tasks /\ [SaverNext]_saverVars => (mixed \subseteq Tasks)'
  BY DEF SaverNext, saverVars, LoadLatest, LoadTuple, Aput, Quit, ReadFields, SendWrites,
         Run, Break, Decay
<1>3. ASSUME Formed, Ordered, mixed \subseteq Tasks PROVE SaverTypeOK
  <2>1. \A c \in Clients : \A n \in 1 .. Len(pipe[c]) : pipe[c][n] \in Commands
    <3> SUFFICES ASSUME NEW c \in Clients, NEW n \in 1 .. Len(pipe[c])
                 PROVE  pipe[c][n] \in Commands
      OBVIOUS
    <3> DEFINE p == pipe[c]
    <3>1. \/ RunnerPipe(p)
          \/ \E a \in Attempts, t \in Tasks : WriterPipe(p, a, t)
      <4>1. PICK a \in Attempts : c = <<a, Runner>> \/ \E t \in Tasks : c = <<a, t>>
        BY DEF Clients
      <4>2. /\ RunnerPipe(pipe[<<a, Runner>>])
            /\ \A t \in Tasks : WriterPipe(pipe[<<a, t>>], a, t)
        BY <1>3 DEF Formed
      <4>3. CASE c = <<a, Runner>> BY <4>2, <4>3
      <4>4. ASSUME NEW t \in Tasks, c = <<a, t>> PROVE WriterPipe(p, a, t)
        BY <4>2, <4>4
      <4> QED BY <4>1, <4>3, <4>4
    <3> HIDE DEF p
    <3>2. \A m \in 1 .. Len(p) : p[m] \in Commands
      BY <3>1, RunnerCommands, WriterCommands
    <3> QED BY <3>2 DEF p
  <2>2. stored \subseteq Ids
    <3>1. stored \subseteq 1 .. created BY <1>3 DEF Ordered, Indexed
    <3> QED BY <1>3, <3>1 DEF Formed, Ids
  <2> QED BY <1>3, <2>1, <2>2 DEF Formed, SaverTypeOK
<1> QED BY <1>1, <1>2, <1>3, AlwaysOrderly, AlwaysOrdered, PTL DEF SaverSpec, Orderly

===============================================================================
