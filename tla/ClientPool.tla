----------------------------- MODULE ClientPool -----------------------------
(***************************************************************************)
(* One process's long-lived clients: how the API and the worker build,     *)
(* open and close them (doci.bootstrap, doci.api.app,                      *)
(* doci.workflows.runtime), the bounded pool of PostgreSQL connections     *)
(* that its coroutines queue on (doci.postgres.client), and the readiness  *)
(* probe, which pings every dependency at once and is itself a caller of   *)
(* the pool (doci.health.service).  A dependency that is "down" does not   *)
(* answer within the time a probe allows; one that is up does, if asked on *)
(* a connection that is whole.  The pool hands its connections out without *)
(* a check: one that PostgreSQL broke while it was idle fails whoever      *)
(* borrows it next, and is thrown away then.  The clients of Valkey and of *)
(* the store connect anew by themselves.                                   *)
(***************************************************************************)
EXTENDS Naturals, FiniteSets

CONSTANTS Users,       \* coroutines that query the database
          PoolSizes,   \* values of POSTGRES_POOL_MAX
          MaxFlips     \* bound: changes of what is reachable

ASSUME PoolAssumption ==
  /\ IsFiniteSet(Users)
  /\ PoolSizes \subseteq Nat \ {0} /\ MaxFlips \in Nat

VARIABLES role,       \* "api" or "worker"
          poolMax,    \* the pool's max_size
          life,       \* where the process is in its life
          held,       \* clients built and not closed
          conn,       \* each coroutine's use of the pool
          stale,      \* idle connections of the pool that an outage broke
          up,         \* dependencies that answer
          probe,      \* GET /readyz
          alarms,     \* history: answers "unavailable" since PostgreSQL last went
                      \* down, of probes that saw neither critical dependency down
                      \* nor the pool full
          flips

poolVars == <<role, poolMax, life, held, conn, stale, up, probe, alarms, flips>>

Deps == {"postgres", "objstore", "kv"}
Built == Deps \union {"saver"}
Lives == {"new", "opened", "serving", "closing", "stopped", "failed"}
UserStates == {"idle", "waiting", "query", "transaction", "refused"}

PoolTypeOK ==
  /\ role \in {"api", "worker"} /\ poolMax \in PoolSizes
  /\ life \in Lives
  /\ held \subseteq Built
  /\ conn \in [Users -> UserStates]
  /\ stale \in 0..poolMax /\ alarms \in Nat
  /\ up \subseteq Deps
  /\ probe \in [step : {"idle", "pinging", "reported"},
                ping : [Deps -> {"waiting", "sent", "ok", "failed"}],
                down : SUBSET Deps, seenUp : SUBSET Deps, full : BOOLEAN,
                dead : BOOLEAN, status : {"none", "ok", "degraded", "unavailable"}]
  /\ flips \in 0..MaxFlips

\* The probe's own connection counts: fetch_val("select 1") borrows one.
Pinging == probe.step = "pinging" /\ probe.ping["postgres"] = "sent"
Borrowed == Cardinality({u \in Users : conn[u] \in {"query", "transaction"}})
              + (IF Pinging THEN 1 ELSE 0)
Free == Borrowed < poolMax

\* Mutant: a broken connection goes back into the pool.
TakeKeeping(dead) ==
  IF dead THEN stale > 0 /\ stale' = stale
  ELSE Borrowed + stale < poolMax /\ stale' = stale

\* A borrower gets a broken connection, which the pool then throws away, or a
\* whole one, kept or made.
Take(dead) ==
  IF dead THEN stale > 0 /\ stale' = stale - 1
  ELSE Borrowed + stale < poolMax /\ stale' = stale

NoProbe == [step |-> "idle", ping |-> [d \in Deps |-> "waiting"], down |-> {},
            seenUp |-> {}, full |-> FALSE, dead |-> FALSE, status |-> "none"]

PoolInit ==
  /\ role \in {"api", "worker"} /\ poolMax \in PoolSizes
  /\ life = "new" /\ held = {}
  /\ conn = [u \in Users |-> "idle"]
  /\ stale = 0 /\ alarms = 0
  /\ up = Deps /\ probe = NoProbe /\ flips = 0
-----------------------------------------------------------------------------
(* The life of a process *)

\* build_clients, then postgres.open().
Open ==
  /\ life = "new"
  /\ life' = "opened" /\ held' = Deps
  /\ UNCHANGED <<role, poolMax, conn, stale, alarms, up, probe, flips>>

\* WORKER_STARTUP ends with the saver and puts both in broker.state.
StartWorker ==
  /\ role = "worker" /\ life = "opened"
  /\ life' = "serving" /\ held' = Built
  /\ UNCHANGED <<role, poolMax, conn, stale, alarms, up, probe, flips>>

\* The lifespan starts the broker, then serves.
StartApi ==
  /\ role = "api" /\ life = "opened"
  /\ life' = "serving"
  /\ UNCHANGED <<role, poolMax, held, conn, stale, alarms, up, probe, flips>>

\* A bad variable or an unreachable broker, outside any try: nothing is closed.
StartFails ==
  /\ life = "opened"
  /\ life' = "failed"
  /\ UNCHANGED <<role, poolMax, held, conn, stale, alarms, up, probe, flips>>

\* uvicorn has answered its requests, the receiver has ended its tasks.
BeginShutdown ==
  /\ life = "serving" /\ probe.step # "pinging" /\ \A u \in Users : conn[u] \in {"idle", "refused"}
  /\ life' = "closing"
  /\ UNCHANGED <<role, poolMax, held, conn, stale, alarms, up, probe, flips>>

\* close_clients: Valkey, the store, PostgreSQL; then the worker's saver.
CloseOrder == <<"kv", "objstore", "postgres", "saver">>
CloseNext ==
  /\ life = "closing"
  /\ \E i \in DOMAIN CloseOrder :
       /\ CloseOrder[i] \in held
       /\ \A j \in 1..(i - 1) : CloseOrder[j] \notin held
       /\ held' = held \ {CloseOrder[i]}
       /\ life' = IF held' = {} THEN "stopped" ELSE "closing"
  /\ UNCHANGED <<role, poolMax, conn, stale, alarms, up, probe, flips>>

\* A close that raises leaves itself and those after it.
CloseFails ==
  /\ life = "closing"
  /\ life' = "failed"
  /\ UNCHANGED <<role, poolMax, held, conn, stale, alarms, up, probe, flips>>
-----------------------------------------------------------------------------
(* The pool *)

Call(u) ==
  /\ life = "serving" /\ conn[u] = "idle"
  /\ conn' = [conn EXCEPT ![u] = "waiting"]
  /\ UNCHANGED <<role, poolMax, life, held, stale, alarms, up, probe, flips>>

\* A statement of its own, or a transaction that keeps the connection.
Borrow(u) ==
  /\ conn[u] = "waiting" /\ Free
  /\ \E dead \in BOOLEAN : Take(dead)
  /\ \E use \in {"query", "transaction"} : conn' = [conn EXCEPT ![u] = use]
  /\ probe' = [probe EXCEPT !.full = @ \/ (probe.step = "pinging" /\ Borrowed + 1 = poolMax)]
  /\ UNCHANGED <<role, poolMax, life, held, alarms, up, flips>>

\* Commit, rollback or an error: the context manager gives the connection back.
GiveBack(u) ==
  /\ conn[u] \in {"query", "transaction"}
  /\ conn' = [conn EXCEPT ![u] = "idle"]
  /\ UNCHANGED <<role, poolMax, life, held, stale, alarms, up, probe, flips>>

\* PoolTimeout, after pool_timeout without a free connection.
PoolTimesOut(u) ==
  /\ conn[u] = "waiting" /\ ~Free
  /\ conn' = [conn EXCEPT ![u] = "refused"]
  /\ UNCHANGED <<role, poolMax, life, held, stale, alarms, up, probe, flips>>
-----------------------------------------------------------------------------
(* Readiness: an endpoint of the API *)

BeginReadyz ==
  /\ role = "api" /\ life = "serving" /\ probe.step = "idle"
  /\ probe' = [NoProbe EXCEPT !.step = "pinging", !.down = Deps \ up, !.seenUp = up,
                              !.full = ~Free]
  /\ UNCHANGED <<role, poolMax, life, held, conn, stale, alarms, up, flips>>

\* ping(): PostgreSQL's waits in the pool's queue like any other call.
Send(d) ==
  /\ probe.step = "pinging" /\ probe.ping[d] = "waiting"
  /\ IF d = "postgres"
       THEN /\ Free
            /\ \E dead \in BOOLEAN :
                 Take(dead) /\ probe' = [probe EXCEPT !.ping[d] = "sent", !.dead = dead]
       ELSE probe' = [probe EXCEPT !.ping[d] = "sent"] /\ UNCHANGED stale
  /\ UNCHANGED <<role, poolMax, life, held, conn, alarms, up, flips>>

OnDead(d) == d = "postgres" /\ probe.dead

Pong(d) ==
  /\ probe.step = "pinging" /\ probe.ping[d] = "sent" /\ d \in up /\ ~OnDead(d)
  /\ probe' = [probe EXCEPT !.ping[d] = "ok"]
  /\ UNCHANGED <<role, poolMax, life, held, conn, stale, alarms, up, flips>>

\* wait_for runs out, in the queue or for an answer, or the client raises.
PingFails(d) ==
  /\ probe.step = "pinging"
  /\ \/ probe.ping[d] = "sent" /\ (d \notin up \/ OnDead(d))
     \/ probe.ping[d] = "waiting" /\ d = "postgres" /\ ~Free
  /\ probe' = [probe EXCEPT !.ping[d] = "failed"]
  /\ UNCHANGED <<role, poolMax, life, held, conn, stale, alarms, up, flips>>

Critical == {"postgres", "objstore"}
\* Mutant: every dependency is critical.
ClassifyAny(failed) == IF failed # {} THEN "unavailable" ELSE "ok"

Classify(failed) ==
  IF failed \intersect Critical # {} THEN "unavailable"
  ELSE IF failed # {} THEN "degraded" ELSE "ok"

\* An answer "unavailable" that neither an outage nor the pool's limit explains.
FalseAlarm(status) ==
  status = "unavailable" /\ probe.down \intersect Critical = {} /\ ~probe.full

Report ==
  /\ probe.step = "pinging"
  /\ \A d \in Deps : probe.ping[d] \in {"ok", "failed"}
  /\ LET status == Classify({d \in Deps : probe.ping[d] = "failed"}) IN
       /\ probe' = [probe EXCEPT !.step = "reported", !.status = status]
       /\ alarms' = IF FalseAlarm(status) THEN alarms + 1 ELSE alarms
  /\ UNCHANGED <<role, poolMax, life, held, conn, stale, up, flips>>

\* The caller has its answer.
EndReadyz ==
  /\ probe.step = "reported"
  /\ probe' = NoProbe
  /\ UNCHANGED <<role, poolMax, life, held, conn, stale, alarms, up, flips>>

OutageOf(d) == d = "postgres" /\ d \in up

\* A dependency goes down or comes back.  When PostgreSQL goes down, any number
\* of the pool's idle connections break, and the one of a ping under way may.
Flip(d) ==
  /\ life = "serving" /\ flips < MaxFlips
  /\ flips' = flips + 1
  /\ up' = IF d \in up THEN up \ {d} ELSE up \union {d}
  /\ \E broken \in IF OutageOf(d) /\ Pinging THEN {probe.dead, TRUE} ELSE {probe.dead} :
       probe' = IF probe.step = "pinging"
                  THEN [probe EXCEPT !.down = @ \union (Deps \ up'),
                                     !.seenUp = @ \union up', !.dead = broken]
                  ELSE probe
  /\ IF OutageOf(d) THEN stale' \in stale..(poolMax - Borrowed) /\ alarms' = 0
                    ELSE UNCHANGED <<stale, alarms>>
  /\ UNCHANGED <<role, poolMax, life, held, conn>>
-----------------------------------------------------------------------------
LifeNext == Open \/ StartWorker \/ StartApi \/ StartFails \/ BeginShutdown \/ CloseNext \/ CloseFails
CallNext == \E u \in Users : Call(u) \/ Borrow(u) \/ GiveBack(u) \/ PoolTimesOut(u)
ReadyzNext == \/ BeginReadyz \/ Report \/ EndReadyz
              \/ \E d \in Deps : Send(d) \/ Pong(d) \/ PingFails(d) \/ Flip(d)
PoolNext == LifeNext \/ CallNext \/ ReadyzNext
PoolSpec == PoolInit /\ [][PoolNext]_poolVars

(* GET /readyz (health/service.py:5-6): "ok" only if every dependency was up *)
(* at some moment of the probe; "degraded" only if Valkey was down at one;   *)
(* "unavailable" only if PostgreSQL or the store was, if the pool had no     *)
(* connection left for the probe, or if the one it got had been broken by an *)
(* outage.  Valkey alone never takes the service out.                        *)
ReadyIsTruthful ==
  probe.step = "reported" =>
    /\ probe.status = "ok" => probe.seenUp = Deps
    /\ probe.status = "degraded" => "kv" \in probe.down
    /\ probe.status = "unavailable" =>
         probe.down \intersect Critical # {} \/ probe.full \/ probe.dead

(* An outage of PostgreSQL is over for the probe, too, in the end: of the    *)
(* later answers "unavailable", those that no outage and no full pool        *)
(* explains are at most as many as the pool has connections, for each of     *)
(* them costs the pool one that the outage broke (postgres/client.py:97-104, *)
(* health/service.py:104-113).                                               *)
FalseAlarmsEnd == alarms <= poolMax
=============================================================================
