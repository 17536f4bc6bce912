--------------------------- MODULE CheckpointSaver ---------------------------
(***************************************************************************)
(* ValkeySaver (workflows/checkpoint.py): the checkpoints of one graph     *)
(* thread as plain Valkey keys, a hash per checkpoint, an index of their   *)
(* ids and a hash of pending writes per checkpoint, each with a TTL.  The  *)
(* thread belongs to one run; when its message is delivered again before   *)
(* the first attempt is over, two attempts execute the same graph tasks.   *)
(*                                                                         *)
(* A pipeline is not a transaction: the server runs its commands one by    *)
(* one, other clients run theirs in between, and a lost connection leaves  *)
(* a prefix.  HSET on an existing key keeps its TTL, on a missing one it   *)
(* makes a key without any.  TTLs are counted down from Ttl.               *)
(***************************************************************************)
EXTENDS Integers, Sequences, FiniteSets

CONSTANTS
    Attempts,    \* attempts at the run that owns the thread
    Tasks,       \* graph tasks that write in one superstep
    MaxId,       \* bound: checkpoints of the thread
    Ttl,         \* TTL of every key, 3 days in the code
    MaxBreaks,   \* bound: connections lost in the middle of a pipeline
    NoWrite

ASSUME SaverAssumption ==
    /\ MaxId \in Nat
    /\ Ttl \in Nat \ {0}
    /\ MaxBreaks \in Nat
    /\ NoWrite \notin Attempts
    /\ "runner" \notin Tasks

(* Ids grow with time (uuid6).  Slots are the indices of a task's writes; a  *)
(* negative one is a special channel (WRITES_IDX_MAP), such as an error.  Of  *)
(* a value it matters only which attempt it is from.                         *)
Ids == 1 .. MaxId
Slots == {-1, 0}

VARIABLES
    cp,        \* TTL left of each checkpoint's hash
    index,     \* the index set and its TTL
    writes,    \* the pending writes of each checkpoint, and their TTL
    pipe,      \* commands each client has sent and the server not yet run
    at,        \* the checkpoint each attempt's graph is at
    known,     \* fields a task saw in the hash before it sent its own
    created,   \* checkpoints ever made of the thread
    stored,    \* history: the ids whose aput has returned
    mixed,     \* history: tasks whose writes two attempts sent at once
    breaks

saverVars == <<cp, index, writes, pipe, at, known, created, stored, mixed, breaks>>

(* In each attempt the runner saves checkpoints, its tasks their writes. *)
Runner == "runner"
Clients == Attempts \X (Tasks \cup {Runner})
Writers == Attempts \X Tasks

(* A key without TTL, and a key that is not there. *)
Forever == -1
Gone == 0
Ttls == -1 .. Ttl

Fields == Tasks \X Slots
Commands == [op: {"hset_cp", "expire_cp", "sadd", "expire_index"}, id: Ids]
            \cup [op: {"hset_w"}, id: Ids, field: Fields, value: Attempts]
            \cup [op: {"expire_w"}, id: Ids]

(* The keys: the index set, a hash of pending writes, each with its TTL.     *)
IndexKeys == [ids: SUBSET Ids, ttl: Ttls]
WriteKeys == [val: [Fields -> Attempts \cup {NoWrite}], ttl: Ttls]

SaverTypeOK ==
    /\ cp \in [Ids -> Ttls]
    /\ index \in IndexKeys
    /\ writes \in [Ids -> WriteKeys]
    /\ \A c \in Clients : \A i \in 1 .. Len(pipe[c]) : pipe[c][i] \in Commands
    /\ at \in [Attempts -> [step: {"off", "latest", "on"}, id: Ids \cup {0}]]
    /\ known \in [Writers -> [step: {"idle", "seen"}, id: Ids \cup {0},
                              fields: SUBSET Fields]]
    /\ created \in Ids \cup {0}
    /\ stored \subseteq Ids
    /\ mixed \subseteq Tasks
    /\ breaks \in Nat

NoWrites == [val |-> [f \in Fields |-> NoWrite], ttl |-> Gone]
NotSeen == [step |-> "idle", id |-> 0, fields |-> {}]

SaverInit ==
    /\ cp = [i \in Ids |-> Gone]
    /\ index = [ids |-> {}, ttl |-> Gone]
    /\ writes = [i \in Ids |-> NoWrites]
    /\ pipe = [c \in Clients |-> <<>>]
    /\ at = [a \in Attempts |-> [step |-> "off", id |-> 0]]
    /\ known = [w \in Writers |-> NotSeen]
    /\ created = 0
    /\ stored = {}
    /\ mixed = {}
    /\ breaks = 0

-----------------------------------------------------------------------------
(* The saver.                                                               *)

(* What _latest answers, the greatest id of the index, and aget_tuple, if    *)
(* its hash is there.                                                        *)
Newest == {i \in index.ids : \A j \in index.ids : j <= i}
Latest == CHOOSE i \in Newest : TRUE
Tuple == IF index.ids = {} THEN 0 ELSE IF cp[Latest] = Gone THEN 0 ELSE Latest

(* An attempt begins where the thread is: two reads, the index and the hash. *)
LoadLatest(a) ==
    /\ at[a].step = "off"
    /\ \/ index.ids = {} /\ at' = [at EXCEPT ![a] = [step |-> "on", id |-> 0]]
       \/ \E i \in Newest : at' = [at EXCEPT ![a] = [step |-> "latest", id |-> i]]
    /\ UNCHANGED <<cp, index, writes, pipe, known, created, stored, mixed, breaks>>

LoadTuple(a) ==
    /\ at[a].step = "latest"
    /\ at' = [at EXCEPT ![a] = [step |-> "on",
                                id |-> IF cp[at[a].id] = Gone THEN 0 ELSE at[a].id]]
    /\ UNCHANGED <<cp, index, writes, pipe, known, created, stored, mixed, breaks>>

(* The commands of aput. *)
HsetCp(i) == [op |-> "hset_cp", id |-> i]
ExpireCp(i) == [op |-> "expire_cp", id |-> i]
Sadd(i) == [op |-> "sadd", id |-> i]
ExpireIndex(i) == [op |-> "expire_index", id |-> i]

(* Mutant: the index names the checkpoint before its hash is there. *)
AputIndexFirst(a) ==
    /\ created < MaxId
    /\ at[a].step = "on"
    /\ pipe[<<a, Runner>>] = <<>>
    /\ created' = created + 1
    /\ at' = [at EXCEPT ![a] = [step |-> "on", id |-> created']]
    /\ pipe' = [pipe EXCEPT ![<<a, Runner>>] =
                  <<Sadd(created'), HsetCp(created'), ExpireCp(created'), ExpireIndex(created')>>]
    /\ UNCHANGED <<cp, index, writes, known, stored, mixed, breaks>>

(* aput, in the order of its pipeline. *)
Aput(a) ==
    /\ created < MaxId
    /\ at[a].step = "on"
    /\ pipe[<<a, Runner>>] = <<>>
    /\ created' = created + 1
    /\ at' = [at EXCEPT ![a] = [step |-> "on", id |-> created']]
    /\ pipe' = [pipe EXCEPT ![<<a, Runner>>] =
                  <<HsetCp(created'), ExpireCp(created'), Sadd(created'), ExpireIndex(created')>>]
    /\ UNCHANGED <<cp, index, writes, known, stored, mixed, breaks>>

(* Between the reading and the end of the writing. *)
Writing(a, t) == known[<<a, t>>].step = "seen" \/ pipe[<<a, t>>] # <<>>

(* aput_writes reads the fields that are there ... *)
ReadFields(a, t) ==
    LET id == at[a].id IN
    /\ at[a].step = "on" /\ id # 0
    /\ ~Writing(a, t)
    /\ known' = [known EXCEPT ![<<a, t>>] =
                   [step |-> "seen", id |-> id,
                    fields |-> {f \in Fields : writes[id].val[f] # NoWrite}]]
    /\ mixed' = IF \E b \in Attempts : Writing(b, t) THEN mixed \cup {t} ELSE mixed
    /\ UNCHANGED <<cp, index, writes, pipe, at, created, stored, breaks>>

(* The pipeline that stores value in slot s, and renews the TTL. *)
WriteOf(id, t, s, v) == [op |-> "hset_w", id |-> id, field |-> <<t, s>>, value |-> v]
ExpireW(id) == [op |-> "expire_w", id |-> id]
StorePipe(id, t, s, v) == <<WriteOf(id, t, s, v), ExpireW(id)>>

(* Mutants: the fields already there are sent again; no TTL follows. *)
SendAllWrites(a, t) ==
    /\ known[<<a, t>>].step = "seen"
    /\ \E s \in Slots :
         pipe' = [pipe EXCEPT ![<<a, t>>] = StorePipe(known[<<a, t>>].id, t, s, a)]
    /\ known' = [known EXCEPT ![<<a, t>>] = NotSeen]
    /\ UNCHANGED <<cp, index, writes, at, created, stored, mixed, breaks>>

SendWritesNoExpire(a, t) ==
    /\ known[<<a, t>>].step = "seen"
    /\ \E s \in Slots :
         pipe' = [pipe EXCEPT ![<<a, t>>] =
                    IF s >= 0 /\ <<t, s>> \in known[<<a, t>>].fields THEN <<>>
                    ELSE <<WriteOf(known[<<a, t>>].id, t, s, a)>>]
    /\ known' = [known EXCEPT ![<<a, t>>] = NotSeen]
    /\ UNCHANGED <<cp, index, writes, at, created, stored, mixed, breaks>>

(* ... and sends those of its own that are not, special channels always.     *)
(* Only a pipeline that writes something is sent.                            *)
SendWrites(a, t) ==
    /\ known[<<a, t>>].step = "seen"
    /\ \E s \in Slots :
         pipe' = [pipe EXCEPT ![<<a, t>>] =
                    IF s >= 0 /\ <<t, s>> \in known[<<a, t>>].fields THEN <<>>
                    ELSE StorePipe(known[<<a, t>>].id, t, s, a)]
    /\ known' = [known EXCEPT ![<<a, t>>] = NotSeen]
    /\ UNCHANGED <<cp, index, writes, at, created, stored, mixed, breaks>>

(* An attempt returns or dies; what it has sent is run or lost.              *)
Quit(a) ==
    /\ at[a].step # "off"
    /\ at' = [at EXCEPT ![a] = [step |-> "off", id |-> 0]]
    /\ known' = [w \in Writers |-> IF w[1] = a THEN NotSeen ELSE known[w]]
    /\ UNCHANGED <<cp, index, writes, pipe, created, stored, mixed, breaks>>

(* What alist yields, newest first: ids of the index whose hash is there. *)
Listed == {i \in index.ids : cp[i] # Gone}

-----------------------------------------------------------------------------
(* The server.                                                              *)

Created(ttl) == IF ttl = Gone THEN Forever ELSE ttl

(* EXPIRE does nothing to a key that is gone. *)
Renewed(ttl) == IF ttl = Gone THEN Gone ELSE Ttl

Effect(k) ==
    \/ /\ k.op = "hset_cp"
       /\ cp' = [cp EXCEPT ![k.id] = Created(@)]
       /\ UNCHANGED <<index, writes>>
    \/ /\ k.op = "expire_cp"
       /\ cp' = [cp EXCEPT ![k.id] = Renewed(@)]
       /\ UNCHANGED <<index, writes>>
    \/ /\ k.op = "sadd"
       /\ index' = [ids |-> index.ids \cup {k.id}, ttl |-> Created(index.ttl)]
       /\ UNCHANGED <<cp, writes>>
    \/ /\ k.op = "expire_index"
       /\ index' = [ids |-> index.ids, ttl |-> Renewed(index.ttl)]
       /\ UNCHANGED <<cp, writes>>
    \/ /\ k.op = "hset_w"
       /\ writes' = [writes EXCEPT ![k.id] = [val |-> [@.val EXCEPT ![k.field] = k.value],
                                              ttl |-> Created(@.ttl)]]
       /\ UNCHANGED <<cp, index>>
    \/ /\ k.op = "expire_w"
       /\ writes' = [writes EXCEPT ![k.id] = [val |-> @.val, ttl |-> Renewed(@.ttl)]]
       /\ UNCHANGED <<cp, index>>

(* The server runs the next command of a pipeline. *)
Run(c) ==
    /\ pipe[c] # <<>>
    /\ Effect(Head(pipe[c]))
    /\ pipe' = [pipe EXCEPT ![c] = Tail(@)]
    /\ stored' = IF Head(pipe[c]).op = "expire_index"
                 THEN stored \cup {Head(pipe[c]).id} ELSE stored
    /\ UNCHANGED <<at, known, created, mixed, breaks>>

(* The connection is lost: the rest of the pipeline never arrives. *)
Break(c) ==
    /\ breaks < MaxBreaks
    /\ pipe[c] # <<>>
    /\ breaks' = breaks + 1
    /\ pipe' = [pipe EXCEPT ![c] = <<>>]
    /\ UNCHANGED <<cp, index, writes, at, known, created, stored, mixed>>

Sooner(ttl) == IF ttl > 0 THEN ttl - 1 ELSE ttl

(* A unit of the TTL passes; a pipeline in flight takes no such time. *)
Decay ==
    /\ \A c \in Clients : pipe[c] = <<>>
    /\ cp' = [i \in Ids |-> Sooner(cp[i])]
    /\ index' = IF Sooner(index.ttl) = Gone THEN [ids |-> {}, ttl |-> Gone]
                ELSE [index EXCEPT !.ttl = Sooner(@)]
    /\ writes' = [i \in Ids |-> IF Sooner(writes[i].ttl) = Gone THEN NoWrites
                                ELSE [writes[i] EXCEPT !.ttl = Sooner(@)]]
    /\ UNCHANGED <<pipe, at, known, created, stored, mixed, breaks>>

SaverNext ==
    \/ \E a \in Attempts : LoadLatest(a) \/ LoadTuple(a) \/ Aput(a) \/ Quit(a)
    \/ \E a \in Attempts, t \in Tasks : ReadFields(a, t) \/ SendWrites(a, t)
    \/ \E c \in Clients : Run(c) \/ Break(c)
    \/ Decay

SaverSpec == SaverInit /\ [][SaverNext]_saverVars

-----------------------------------------------------------------------------
(* Properties.                                                              *)

(* Whoever asks for the thread's state, in the middle of any pipeline and    *)
(* after any lost connection, gets a checkpoint no older than the last one   *)
(* whose aput returned, as long as that one has not expired, nor than any    *)
(* that alist would yield: the hash is written before the index names it,    *)
(* and the index outlives every hash it names (checkpoint.py:118-132,        *)
(* 231-247,289-291).                                                         *)
LatestNotLost ==
    \A i \in stored \cup Listed : cp[i] # Gone => Tuple >= i

(* A task's write is kept as first stored, whatever is sent again by a later *)
(* attempt, until its key expires; special channels may be overwritten.  Two *)
(* attempts that write at once may each find the field missing               *)
(* (checkpoint.py:153-161).                                                  *)
FirstWriteWins ==
    [][\A i \in Ids, t \in Tasks \ mixed :
         LET old == writes[i].val[<<t, 0>>]
         IN  old # NoWrite => \/ writes'[i].val[<<t, 0>>] = old
                              \/ writes'[i] = NoWrites]_saverVars

(* Abandoned checkpoints expire: a key without a TTL has one on its way,     *)
(* unless a connection was lost between the two commands                     *)
(* (checkpoint.py:5-7,129-131,168).                                          *)
OnItsWay(op, i) ==
    \E c \in Clients : \E n \in 1 .. Len(pipe[c]) :
      pipe[c][n].op = op /\ pipe[c][n].id = i

SelfExpires ==
    breaks = 0 =>
      /\ \A i \in Ids : cp[i] = Forever => OnItsWay("expire_cp", i)
      /\ \A i \in Ids : writes[i].ttl = Forever => OnItsWay("expire_w", i)
      /\ index.ttl = Forever => \E i \in Ids : OnItsWay("expire_index", i)

=============================================================================
