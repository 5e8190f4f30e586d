--------------------------------- MODULE App ---------------------------------
(***************************************************************************)
(* src/app: the service a cell measures.  Tomcat threads serve checkouts   *)
(* against a ring of rows in Postgres, static keys in Redis and an echo    *)
(* service, while the runner of the kit may reset the state, an operator   *)
(* may calibrate, a backend may lose its data and the process may die.     *)
(*                                                                         *)
(* A step is one statement against a backend, or one stage of a checkout   *)
(* whose calls are of one kind.  One reset and one calibration are in      *)
(* progress at a time.                                                     *)
(***************************************************************************)
EXTENDS Integers, FiniteSets

CONSTANTS
  Thread,       \* the Tomcat threads
  Worker,       \* the threads of a calibration
  RingSlots,    \* BENCH_RING_SLOTS
  Stride,       \* SLOT_STRIDE
  Preset,       \* BENCH_PRESET: its jdbc_ops, redis_ops and http_calls
  Env,          \* the knobs that BENCH_* variables set
  AllowOverrides, \* BENCH_ALLOW_QUERY_OVERRIDES
  Query,        \* the knobs the query parameters of a request may set
  MaxDead,      \* MAX_DEAD_TUPLES_AFTER_VACUUM
  AutovacuumAt, \* autovacuum_vacuum_threshold
  MaxRequests,  \* bound: checkouts one process serves
  Losses,       \* bound: backends that lose their data, processes that die
  Admins        \* bound: resets and calibrations

\* StateService's constructor refuses a ring whose size has a common divisor
\* with the stride.
Coprime(a, b) == \A d \in 2..a : ~(a % d = 0 /\ b % d = 0)

Kind == {"jdbc", "redis", "http"}

\* BenchProperties.baseKnobs: a variable that is set wins over the preset.
BaseKnobs == [k \in Kind |-> IF k \in DOMAIN Env THEN Env[k] ELSE Preset[k]]

\* Knobs refuses a negative number of operations, the base's before the
\* process serves.
ASSUME AppAssumption ==
  /\ RingSlots \in Nat \ {0} /\ Stride \in Nat /\ Coprime(RingSlots, Stride)
  /\ {MaxDead, AutovacuumAt, MaxRequests, Losses, Admins} \subseteq Nat
  /\ AllowOverrides \in BOOLEAN
  /\ BaseKnobs \in [Kind -> Nat]
  /\ \A q \in Query : q \in [DOMAIN q -> Int]
  /\ IsFiniteSet(Thread) /\ IsFiniteSet(Worker) /\ Worker # {}

VARIABLES
  app,      \* "down", "starting" (Tomcat serves, the runner has not finished) or "up"
  counter,  \* CheckoutService.counter
  inflight, \* BenchMetrics.inflight
  pc,       \* pc[t]: the stage of the checkout the thread serves
  num,      \* num[t]: n, the request's number
  knobs,    \* knobs[t]: the operations the request is to execute
  done,     \* done[t]: jdbc, redisOps and http so far
  metric,   \* bench_requests and bench_ops
  tables,   \* whether schema.sql has run on the database's data
  ring,     \* the slots that have a row in orders
  dead,     \* n_dead_tup of orders
  static,   \* whether the static keys are in Redis
  place,    \* place[a]: the statement the start-up or the reset is at
  good,     \* good[a]: whether every check of verify() has passed so far
  fresh,    \* fresh[a]: the stores that kept their data since they were checked
  vouched,  \* the stores whose state the last verify() that passed still vouches for
  cal,      \* the calibration: "idle", "warming", "measuring"
  worker,   \* worker[w]: what the calibration's thread does
  warmed,   \* the latch warmed: how many threads it still waits for
  budget    \* what is left of Losses and Admins

requestVars == <<counter, inflight, pc, num, knobs, done, metric>>
storeVars == <<tables, ring, dead, static>>
stateVars == <<place, good, fresh, vouched>>
calVars == <<cal, worker, warmed>>
vars == <<app, requestVars, storeVars, stateVars, calVars, budget>>

Slot == 0..(RingSlots - 1)
Store == {"postgres", "redis"}
Checker == {"startup", "reset"}

NoOps == [k \in Kind |-> 0]

\* Knobs: with, and the constructor that refuses what is negative.
With(q) == [k \in Kind |-> IF k \in DOMAIN q THEN q[k] ELSE BaseKnobs[k]]
Valid(asked) == \A k \in Kind : asked[k] >= 0

\* Mutant: the parameters are used whatever the setting says.
MutResolve(q) == With(q)

\* CheckoutController.resolve.
Resolve(q) == IF AllowOverrides THEN With(q) ELSE BaseKnobs

\* Mutant: the walk skips the last slot.
MutSlotFor(n) == (n * Stride) % (RingSlots - 1)

\* SqlOps.slotFor.
SlotFor(n) == (n * Stride) % RingSlots

\* The operations of the two JDBC loops: every third is an upsert, and runs in
\* the second loop.
Selects(jdbc) == Cardinality({i \in 0..(jdbc - 1) : i % 3 # 2})
Upserts(jdbc) == Cardinality({i \in 2..(jdbc - 1) : i % 3 = 2})

\* How the Redis operations are shared between the reads and the writes.
Gets(redis) == (redis + 1) \div 2
Sets(redis) == redis \div 2

Init ==
  /\ app = "down"
  /\ counter = 0 /\ inflight = 0
  /\ pc = [t \in Thread |-> "idle"] /\ num = [t \in Thread |-> 0]
  /\ knobs = [t \in Thread |-> NoOps]
  /\ done = [t \in Thread |-> NoOps]
  /\ metric = [requests |-> 0, ops |-> NoOps]
  /\ tables = FALSE /\ ring = {} /\ dead = 0 /\ static = FALSE
  /\ place = [a \in Checker |-> "idle"] /\ good = [a \in Checker |-> TRUE]
  /\ fresh = [a \in Checker |-> {}] /\ vouched = {}
  /\ cal = "idle" /\ worker = [w \in Worker |-> "none"]
  /\ warmed = 0
  /\ budget = [losses |-> Losses, admins |-> Admins]

-----------------------------------------------------------------------------
\* CheckoutService.checkout.

Stage(t, from, to) == pc[t] = from /\ pc' = [pc EXCEPT ![t] = to]
Leave(t) ==
  /\ num' = [num EXCEPT ![t] = 0]
  /\ knobs' = [knobs EXCEPT ![t] = NoOps] /\ done' = [done EXCEPT ![t] = NoOps]
Count(t, kind, n) == done' = [done EXCEPT ![t][kind] = @ + n]

\* BenchMetrics.
Enter == inflight' = inflight + 1
Exit == inflight' = inflight - 1
Record(t) ==
  metric' = [requests |-> metric.requests + 1,
             ops |-> [k \in Kind |-> metric.ops[k] + done[t][k]]]

\* Knobs that are negative are an error before the checkout begins.  Tomcat
\* accepts requests before the ApplicationRunner has filled the ring.
Arrive(t) ==
  /\ app # "down" /\ counter < MaxRequests
  /\ Stage(t, "idle", "reads")
  /\ \E q \in Query :
       /\ Valid(Resolve(q))
       /\ knobs' = [knobs EXCEPT ![t] = Resolve(q)]
  /\ Enter
  /\ num' = [num EXCEPT ![t] = counter]
  /\ counter' = counter + 1
  /\ UNCHANGED <<app, done, metric, storeVars, stateVars, calVars, budget>>

\* The GETs and SELECTs; a GET of a missing key is not an error.
Reads(t) ==
  /\ Stage(t, "reads", "upserts")
  /\ tables \/ Selects(knobs[t].jdbc) = 0
  /\ done' = [done EXCEPT ![t].redis = Gets(knobs[t].redis), ![t].jdbc = Selects(knobs[t].jdbc)]
  /\ UNCHANGED <<app, counter, inflight, num, knobs, metric, storeVars, stateVars, calVars, budget>>

\* Dead versions are pruned in the page an update visits; at the latest
\* autovacuum removes them once they pass its threshold.
Churned(n) == 0..(IF dead > AutovacuumAt THEN dead ELSE dead + n)

\* After the CPU work, the upserts, all of one slot: an INSERT ... ON CONFLICT
\* DO UPDATE.
Upsert(t) ==
  LET n == Upserts(knobs[t].jdbc)
      slots == IF n = 0 THEN {} ELSE {SlotFor(num[t])}
  IN
  /\ Stage(t, "upserts", "posts")
  /\ tables \/ n = 0
  /\ ring' = ring \cup slots
  /\ dead' \in IF n = 0 THEN {dead} ELSE Churned(n - Cardinality(slots \ ring))
  /\ Count(t, "jdbc", n)
  /\ UNCHANGED <<app, counter, inflight, num, knobs, metric, tables, static, stateVars, calVars,
                 budget>>

Post(t) ==
  /\ Stage(t, "posts", "sets")
  /\ Count(t, "http", knobs[t].http)
  /\ UNCHANGED <<app, counter, inflight, num, knobs, metric, storeVars, stateVars, calVars, budget>>

\* The SETs; the churn keys, which no check counts, are left out.
SetChurn(t) ==
  /\ Stage(t, "sets", "record")
  /\ Count(t, "redis", Sets(knobs[t].redis))
  /\ UNCHANGED <<app, counter, inflight, num, knobs, metric, storeVars, stateVars, calVars, budget>>

\* The operations are recorded; the finally block follows.
Finish(t) ==
  /\ Stage(t, "record", "idle")
  /\ Record(t) /\ Exit /\ Leave(t)
  /\ UNCHANGED <<app, counter, storeVars, stateVars, calVars, budget>>

\* Mutant: the exception handler calls exit() as well as the finally block.
MutThrow(t) ==
  /\ pc[t] \in {"reads", "upserts", "posts", "sets"}
  /\ pc' = [pc EXCEPT ![t] = "idle"]
  /\ inflight' = inflight - 2 /\ Leave(t)
  /\ UNCHANGED <<app, counter, metric, storeVars, stateVars, calVars, budget>>

\* A call of any stage throws: nothing is recorded, the request has left.
Throw(t) ==
  /\ pc[t] \in {"reads", "upserts", "posts", "sets"}
  /\ pc' = [pc EXCEPT ![t] = "idle"]
  /\ Exit /\ Leave(t)
  /\ UNCHANGED <<app, counter, metric, storeVars, stateVars, calVars, budget>>

Checkout(t) ==
  Arrive(t) \/ Reads(t) \/ Upsert(t) \/ Post(t) \/ SetChurn(t) \/ Finish(t) \/ Throw(t)

-----------------------------------------------------------------------------
\* StateService: run() at start-up and reset().

\* The process is gone, and what it held in memory with it.
Dies ==
  /\ app' = "down"
  /\ counter' = 0 /\ inflight' = 0
  /\ pc' = [t \in Thread |-> "idle"] /\ num' = [t \in Thread |-> 0]
  /\ knobs' = [t \in Thread |-> NoOps]
  /\ done' = [t \in Thread |-> NoOps]
  /\ metric' = [requests |-> 0, ops |-> NoOps]
  /\ place' = [a \in Checker |-> "idle"] /\ good' = [a \in Checker |-> TRUE]
  /\ fresh' = [a \in Checker |-> {}]
  /\ cal' = "idle" /\ worker' = [w \in Worker |-> "none"]
  /\ warmed' = 0

\* The kubelet starts the container: schema.sql runs, then Tomcat serves, then
\* the ApplicationRunner is called.
Start ==
  /\ app = "down"
  /\ app' = "starting" /\ tables' = TRUE
  /\ place' = [place EXCEPT !["startup"] = "prefill"]
  /\ UNCHANGED <<requestVars, ring, dead, static, good, fresh, vouched, calVars, budget>>

\* POST /admin/reset.
Reset ==
  /\ app # "down" /\ place["reset"] = "idle" /\ budget.admins > 0
  /\ place' = [place EXCEPT !["reset"] = "vacuum"]
  /\ budget' = [budget EXCEPT !.admins = @ - 1]
  /\ UNCHANGED <<app, requestVars, storeVars, good, fresh, vouched, calVars>>

At(a, from, to) == place[a] = from /\ place' = [place EXCEPT ![a] = to]
processVars == <<app, requestVars, calVars, budget>>

\* prefillRing: INSERT ... ON CONFLICT DO NOTHING, and the count of the rows.
Prefill ==
  /\ At("startup", "prefill", "count") /\ tables
  /\ ring' = Slot
  /\ UNCHANGED <<processVars, tables, dead, static, good, fresh, vouched>>

PrefillCount ==
  /\ At("startup", "count", "seed") /\ tables /\ ring = Slot
  /\ UNCHANGED <<processVars, storeVars, good, fresh, vouched>>

Vacuum ==
  /\ At("reset", "vacuum", "seed") /\ tables
  /\ dead' = 0
  /\ UNCHANGED <<processVars, tables, ring, static, good, fresh, vouched>>

SeedStatic(a) ==
  /\ At(a, "seed", IF a = "reset" THEN "churn" ELSE "tables")
  /\ static' = TRUE
  /\ UNCHANGED <<processVars, tables, ring, dead, good, fresh, vouched>>

DeleteChurn ==
  /\ At("reset", "churn", "tables")
  /\ UNCHANGED <<processVars, storeVars, good, fresh, vouched>>

\* One count of verify() and the store it speaks for.
Check(a, from, to, passes, stores) ==
  /\ At(a, from, to)
  /\ good' = [good EXCEPT ![a] = @ /\ passes]
  /\ fresh' = [fresh EXCEPT ![a] = @ \cup stores]
  /\ UNCHANGED <<processVars, storeVars, vouched>>

\* Mutant: the static keys were just seeded, so they are not counted.
MutVerify(a) ==
  \/ tables /\ Check(a, "tables", "ring", TRUE, {})
  \/ tables /\ Check(a, "ring", "dead", ring = Slot, {"postgres"})
  \/ Check(a, "dead", "keys", dead <= MaxDead, {})
  \/ Check(a, "keys", "sizes", TRUE, {"redis"})

\* verify(), statement by statement.  A table that is gone makes a count throw,
\* but not the dead tuples: without a row of statistics they are -1.
Verify(a) ==
  \/ tables /\ Check(a, "tables", "ring", TRUE, {})
  \/ tables /\ Check(a, "ring", "dead", ring = Slot, {"postgres"})
  \/ Check(a, "dead", "keys", dead <= MaxDead, {})
  \/ Check(a, "keys", "sizes", static, {"redis"})

Returns(a) ==
  /\ place' = [place EXCEPT ![a] = "idle"]
  /\ good' = [good EXCEPT ![a] = TRUE]
  /\ fresh' = [fresh EXCEPT ![a] = {}]

\* The relation sizes are read last, and the outcome decided: 200 for a reset,
\* and a process that stays up for a start.
Passes(a) ==
  /\ place[a] = "sizes" /\ tables /\ good[a]
  /\ vouched' = vouched \cup fresh[a]
  /\ app' = IF a = "startup" THEN "up" ELSE app
  /\ Returns(a)
  /\ UNCHANGED <<requestVars, storeVars, calVars, budget>>

\* A statement that throws, or a check that did not pass: 503 for a reset, and
\* the end of the process for a start.
Fails(a) ==
  /\ place[a] # "idle"
  /\ IF a = "startup" THEN Dies /\ UNCHANGED <<storeVars, vouched, budget>>
     ELSE Returns(a) /\ UNCHANGED <<processVars, storeVars, vouched>>

State(a) == SeedStatic(a) \/ Verify(a) \/ Passes(a) \/ Fails(a)

-----------------------------------------------------------------------------
\* AdminController.calibrate and CpuWork.measure.

\* The requests in flight are looked at once; with one, the answer is 409.
Calibrate ==
  /\ app # "down" /\ cal = "idle" /\ budget.admins > 0
  /\ inflight <= 0
  /\ cal' = "warming" /\ worker' = [w \in Worker |-> "warm"]
  /\ warmed' = Cardinality(Worker)
  /\ budget' = [budget EXCEPT !.admins = @ - 1]
  /\ UNCHANGED <<app, requestVars, storeVars, stateVars>>

Works(w, from, to) == worker[w] = from /\ worker' = [worker EXCEPT ![w] = to]
CountDown == warmed' = IF warmed > 0 THEN warmed - 1 ELSE 0
othersOfCal == <<app, requestVars, storeVars, stateVars, budget>>

\* A worker has run its discarded rounds and waits for the others.
WarmedUp(w) ==
  /\ Works(w, "warm", "ready") /\ CountDown
  /\ UNCHANGED <<othersOfCal, cal>>

\* Mutant: the latch is opened before it is awaited.
MutOpenMeasure ==
  /\ cal = "warming"
  /\ cal' = "measuring"
  /\ UNCHANGED <<othersOfCal, worker, warmed>>

\* measure.countDown(), after warmed.await() and compileMs().
OpenMeasure ==
  /\ cal = "warming" /\ warmed = 0
  /\ cal' = "measuring"
  /\ UNCHANGED <<othersOfCal, worker, warmed>>

Measures(w) ==
  /\ Works(w, "ready", "measure") /\ cal = "measuring"
  /\ UNCHANGED <<othersOfCal, cal, warmed>>

Ends(w) ==
  /\ Works(w, "measure", "ended")
  /\ UNCHANGED <<othersOfCal, cal, warmed>>

\* Mutant: a worker that fails does not release the others.
MutWorkerFails(w) ==
  /\ Works(w, "warm", "ended") \/ Works(w, "measure", "ended")
  /\ UNCHANGED <<othersOfCal, cal, warmed>>

\* The catch block of a worker: it counts down in the place of the rounds it
\* did not run.
WorkerFails(w) ==
  /\ Works(w, "warm", "ended") \/ Works(w, "measure", "ended")
  /\ CountDown
  /\ UNCHANGED <<othersOfCal, cal>>

\* Every thread has been joined: the figures are returned, or the failure thrown.
Joined ==
  /\ cal = "measuring" /\ \A w \in Worker : worker[w] = "ended"
  /\ cal' = "idle" /\ worker' = [w \in Worker |-> "none"]
  /\ UNCHANGED <<othersOfCal, warmed>>

Calibration(w) == WarmedUp(w) \/ Measures(w) \/ Ends(w) \/ WorkerFails(w)

-----------------------------------------------------------------------------
\* The cluster around the process.

\* A backend's pod is replaced; neither keeps its data (emptyDir, --save "").
LoseStore(s) ==
  /\ budget.losses > 0
  /\ IF s = "postgres"
     THEN tables' = FALSE /\ ring' = {} /\ dead' = 0 /\ UNCHANGED static
     ELSE static' = FALSE /\ UNCHANGED <<tables, ring, dead>>
  /\ fresh' = [a \in Checker |-> fresh[a] \ {s}]
  /\ vouched' = vouched \ {s}
  /\ budget' = [budget EXCEPT !.losses = @ - 1]
  /\ UNCHANGED <<app, requestVars, place, good, calVars>>

Crash ==
  /\ app # "down" /\ budget.losses > 0
  /\ Dies
  /\ budget' = [budget EXCEPT !.losses = @ - 1]
  /\ UNCHANGED <<storeVars, vouched>>

Next ==
  \/ \E t \in Thread : Checkout(t)
  \/ Start \/ Reset \/ Prefill \/ PrefillCount \/ Vacuum \/ DeleteChurn
  \/ \E a \in Checker : State(a)
  \/ Calibrate \/ OpenMeasure \/ Joined \/ \E w \in Worker : Calibration(w)
  \/ Crash \/ \E s \in Store : LoseStore(s)

\* The threads of a calibration are scheduled by the JVM.
Fairness ==
  WF_vars(OpenMeasure) /\ WF_vars(Joined) /\ \A w \in Worker : WF_vars(Calibration(w))

Spec == Init /\ [][Next]_vars /\ Fairness

-----------------------------------------------------------------------------
Ops == [Kind -> Nat]

TypeOK ==
  /\ app \in {"down", "starting", "up"}
  /\ counter \in Nat /\ inflight \in Nat
  /\ pc \in [Thread -> {"idle", "reads", "upserts", "posts", "sets", "record"}]
  /\ num \in [Thread -> Nat] /\ knobs \in [Thread -> Ops] /\ done \in [Thread -> Ops]
  /\ metric \in [requests : Nat, ops : Ops]
  /\ tables \in BOOLEAN /\ ring \subseteq Slot /\ dead \in Nat
  /\ static \in BOOLEAN
  /\ place \in [Checker -> {"idle", "prefill", "count", "vacuum", "seed", "churn", "tables",
                            "ring", "dead", "keys", "sizes"}]
  /\ good \in [Checker -> BOOLEAN]
  /\ fresh \in [Checker -> SUBSET Store] /\ vouched \subseteq Store
  /\ cal \in {"idle", "warming", "measuring"}
  /\ worker \in [Worker -> {"none", "warm", "ready", "measure", "ended"}]
  /\ warmed \in Nat
  /\ budget \in [losses : Nat, admins : Nat]

\* What a 200 of /admin/reset, and a process that is up, promise: until that
\* store loses its data every slot has its row, so each upsert is an update in
\* place, and every static key is there.  The checks are statements of their
\* own between which a store may be wiped and checkouts go on
\* (StateService.java:83-133, SqlOps.java:83, app/README.md "State and
\* stationarity").
VouchedIsReady ==
  /\ "postgres" \in vouched => tables /\ ring = Slot
  /\ "redis" \in vouched => static

\* Checkouts that write at the same time write different rows, unless one has
\* stalled for a whole walk around the ring (SqlOps.java:19-25).
SlotsApart ==
  \A t, u \in Thread :
    /\ pc[t] = "upserts" /\ pc[u] = "upserts"
    /\ num[t] < num[u] /\ num[u] - num[t] < RingSlots
    => SlotFor(num[t]) # SlotFor(num[u])

\* The operations counted are those of the cell's design for every checkout
\* counted, whatever its query asks, and however checkouts interleave and fail:
\* the number of spans per request the gate expects rests on it (app/README.md
\* "spans = 1 + jdbc_ops + redis_ops + 2 x http_calls", CheckoutService.java:61-118,
\* CheckoutController.java:43-50).
RecordedAsDesigned ==
  ~AllowOverrides =>
    metric.ops = [k \in Kind |-> metric.requests * BaseKnobs[k]]

\* "409 while requests are in flight" (app/README.md): no calibration begins
\* while a checkout is being served, whatever checkouts threw before.
CalibratesAlone == [][cal = "idle" /\ cal' # "idle" => \A t \in Thread : pc[t] = "idle"]_vars

\* No thread measures while another still warms up, so the compiler's work and
\* the contention of the threads are those of the measured rounds
\* (CpuWork.java:124-128).
MeasuredTogether ==
  \A w \in Worker : worker[w] = "measure" => \A v \in Worker : worker[v] # "warm"

\* A calibration always answers, whichever of its threads fail and when
\* (CpuWork.java:146-148): nobody waits for a latch nobody opens.
CalibrationEnds == cal # "idle" ~> cal = "idle"
=============================================================================
