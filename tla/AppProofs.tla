------------------------------ MODULE AppProofs ------------------------------
(***************************************************************************)
(* What App's runs show on two threads and a ring of two slots, for every  *)
(* number of threads, every ring whose size has no common divisor with the *)
(* stride, and every preset.                                               *)
(***************************************************************************)
EXTENDS App, FiniteSetTheorems, WellFoundedInduction, TLAPS

-----------------------------------------------------------------------------
\* The arithmetic of a checkout (CheckoutService.java:61-118, SqlOps.java:19-25).

LEMMA SelectsAndUpserts ==
  ASSUME NEW j \in Nat
  PROVE  /\ Selects(j) \in Nat /\ Upserts(j) \in Nat
         /\ Selects(j) + Upserts(j) = j
<1> DEFINE S == {i \in 0..(j - 1) : i % 3 # 2}
           U == {i \in 2..(j - 1) : i % 3 = 2}
<1>1. IsFiniteSet(0..(j - 1)) /\ Cardinality(0..(j - 1)) = j
  BY FS_Interval
<1>2. S \in SUBSET (0..(j - 1)) /\ U \in SUBSET (0..(j - 1))
  OBVIOUS
<1>3. IsFiniteSet(S) /\ IsFiniteSet(U)
  BY <1>1, <1>2, FS_Subset
<1>4. S \cup U = 0..(j - 1)
  <2>1. ASSUME NEW i \in 0..(j - 1), i % 3 = 2
        PROVE  i \in 2..(j - 1)
    BY <2>1
  <2> QED
    BY <1>2, <2>1
<1>5. S \cap U = {}
  OBVIOUS
<1>6. Cardinality(S \cap U) = 0
  BY <1>5, FS_EmptySet
<1>7. Cardinality(S) \in Nat /\ Cardinality(U) \in Nat
  BY <1>3, FS_CardinalityType
<1>8. Cardinality(S \cup U) = Cardinality(S) + Cardinality(U) - Cardinality(S \cap U)
  BY <1>3, FS_Union
<1>9. Cardinality(S \cup U) = j
  BY <1>1, <1>4
<1>10. Cardinality(S) + Cardinality(U) = j
  <2> HIDE DEF S, U
  <2> QED
    BY <1>6, <1>7, <1>8, <1>9
<1> QED
  BY <1>7, <1>10 DEF Selects, Upserts

LEMMA GetsAndSets ==
  ASSUME NEW r \in Nat
  PROVE  /\ Gets(r) \in Nat /\ Sets(r) \in Nat
         /\ Gets(r) + Sets(r) = r
BY DEF Gets, Sets

LEMMA SlotForType ==
  ASSUME NEW n \in Nat
  PROVE  SlotFor(n) \in Slot
<1>1. n * Stride \in Nat
  BY AppAssumption
<1> QED
  BY <1>1, AppAssumption DEF SlotFor, Slot

\* What Knobs accepts is a number of operations of each kind.
LEMMA KnobsType ==
  /\ NoOps \in Ops /\ BaseKnobs \in Ops
  /\ \A q \in Query : Valid(Resolve(q)) => Resolve(q) \in Ops
<1>1. NoOps \in Ops
  BY DEF NoOps, Ops
<1>2. BaseKnobs \in Ops
  BY AppAssumption DEF Ops
<1>3. ASSUME NEW q \in Query, Valid(Resolve(q))
      PROVE  Resolve(q) \in Ops
  <2>1. CASE AllowOverrides
    <3>1. \A k \in Kind : With(q)[k] >= 0
      BY <1>3, <2>1 DEF Valid, Resolve
    <3>2. q \in [DOMAIN q -> Int] /\ BaseKnobs \in [Kind -> Nat]
      BY AppAssumption
    <3>3. ASSUME NEW k \in Kind
          PROVE  (IF k \in DOMAIN q THEN q[k] ELSE BaseKnobs[k]) \in Nat
      <4>1. With(q)[k] = IF k \in DOMAIN q THEN q[k] ELSE BaseKnobs[k]
        BY DEF With
      <4>2. CASE k \in DOMAIN q
        BY <3>1, <3>2, <4>1, <4>2
      <4>3. CASE k \notin DOMAIN q
        BY <3>2, <4>3
      <4> QED
        BY <4>2, <4>3
    <3>4. With(q) \in [Kind -> Nat]
      BY <3>3 DEF With
    <3> QED
      BY <2>1, <3>4 DEF Resolve, Ops
  <2>2. CASE ~AllowOverrides
    BY <1>2, <2>2 DEF Resolve
  <2> QED
    BY <2>1, <2>2
<1> QED
  BY <1>1, <1>2, <1>3

\* An update of one count of one thread's operations, as Count and Reads make it.
LEMMA CountType ==
  ASSUME NEW f \in [Thread -> Ops], NEW t \in Thread, NEW k \in Kind, NEW n \in Nat
  PROVE  /\ [f EXCEPT ![t][k] = n] \in [Thread -> Ops]
         /\ [f EXCEPT ![t][k] = @ + n] \in [Thread -> Ops]
         /\ f[t][k] + n \in Nat
<1>1. f[t] \in [Kind -> Nat]
  BY DEF Ops
<1>2. f[t][k] + n \in Nat
  BY <1>1
<1>3. ASSUME NEW m \in Nat
      PROVE  [f EXCEPT ![t] = [f[t] EXCEPT ![k] = m]] \in [Thread -> Ops]
  <2>1. [f[t] EXCEPT ![k] = m] \in Ops
    BY <1>1 DEF Ops
  <2> QED
    BY <2>1
<1> QED
  BY <1>2, <1>3

-----------------------------------------------------------------------------
\* TypeOK, and with it the count of BenchMetrics: every checkout that enters
\* leaves once, on whichever of its paths.

Serving == {t \in Thread : pc[t] # "idle"}
InflightCounts == inflight = Cardinality(Serving)
TypeInv == TypeOK /\ InflightCounts

\* A thread that takes a request, one that gives it up, and one that goes on.
LEMMA ServingMoves ==
  ASSUME TypeInv, NEW t \in Thread, \A u \in Thread \ {t} : pc'[u] = pc[u]
  PROVE  /\ pc[t] = "idle" /\ pc'[t] # "idle" /\ inflight' = inflight + 1 => InflightCounts'
         /\ pc[t] # "idle" /\ pc'[t] = "idle" /\ inflight' = inflight - 1 => InflightCounts'
         /\ pc[t] # "idle" /\ pc'[t] # "idle" /\ inflight' = inflight => InflightCounts'
<1>1. IsFiniteSet(Serving)
  BY AppAssumption, FS_Subset DEF Serving
<1>2. inflight = Cardinality(Serving) /\ inflight \in Nat
  BY DEF TypeInv, TypeOK, InflightCounts
<1>3. pc \in [Thread -> {"idle", "reads", "upserts", "posts", "sets", "record"}]
  BY DEF TypeInv, TypeOK
<1>4. pc'[t] # "idle" => Serving' = Serving \cup {t}
  BY <1>3 DEF Serving
<1>5. pc'[t] = "idle" => Serving' = Serving \ {t}
  BY <1>3 DEF Serving
<1>6. t \in Serving <=> pc[t] # "idle"
  BY DEF Serving
<1>7. InflightCounts' <=> inflight' = Cardinality(Serving')
  BY DEF InflightCounts
<1>8. pc[t] = "idle" /\ pc'[t] # "idle" /\ inflight' = inflight + 1 => InflightCounts'
  BY <1>1, <1>2, <1>4, <1>6, <1>7, FS_AddElement
<1>9. pc[t] # "idle" /\ pc'[t] = "idle" /\ inflight' = inflight - 1 => InflightCounts'
  BY <1>1, <1>2, <1>5, <1>6, <1>7, FS_RemoveElement
<1>10. pc[t] # "idle" /\ pc'[t] # "idle" /\ inflight' = inflight => InflightCounts'
  BY <1>1, <1>2, <1>4, <1>6, <1>7, FS_AddElement
<1> QED
  BY <1>8, <1>9, <1>10

\* A request in flight is one that the count holds.
LEMMA SomeoneInflight ==
  ASSUME TypeInv, NEW t \in Thread, pc[t] # "idle"
  PROVE  inflight - 1 \in Nat
<1>1. IsFiniteSet(Serving) /\ t \in Serving
  BY AppAssumption, FS_Subset DEF Serving
<1>2. Cardinality(Serving) # 0
  BY <1>1, FS_EmptySet
<1> QED
  BY <1>2 DEF TypeInv, TypeOK, InflightCounts

LEMMA TypeInit == Init => TypeInv
<1> SUFFICES ASSUME Init PROVE TypeInv
  OBVIOUS
<1>1. TypeOK
  BY KnobsType, AppAssumption DEF Init, TypeOK, Ops, Slot, Checker, Store
<1>2. Serving = {}
  BY DEF Init, Serving
<1>3. InflightCounts
  BY <1>2, FS_EmptySet DEF Init, InflightCounts
<1> QED
  BY <1>1, <1>3 DEF TypeInv

\* The stages of a checkout.
LEMMA TypeCheckout ==
  ASSUME TypeInv, NEW t \in Thread, Checkout(t)
  PROVE  TypeInv'
<1> USE DEF requestVars, storeVars, stateVars, calVars, Stage
<1>1. CASE Arrive(t)
  <2>1. TypeOK'
    BY <1>1, KnobsType DEF TypeInv, TypeOK, Arrive, Enter
  <2>2. /\ pc[t] = "idle" /\ pc'[t] = "reads" /\ inflight' = inflight + 1
       /\ \A u \in Thread \ {t} : pc'[u] = pc[u]
    BY <1>1 DEF TypeInv, TypeOK, Arrive, Enter
  <2>3. InflightCounts'
    BY <2>1, <2>2, ServingMoves
  <2> QED
    BY <2>1, <2>3 DEF TypeInv
<1>2. CASE Reads(t)
  <2>1. knobs[t].jdbc \in Nat /\ knobs[t].redis \in Nat
    BY DEF TypeInv, TypeOK, Ops, Kind
  <2>2. done' \in [Thread -> Ops]
    BY <1>2, <2>1, SelectsAndUpserts, GetsAndSets, CountType DEF TypeInv, TypeOK, Reads, Kind
  <2>3. TypeOK'
    BY <1>2, <2>2 DEF TypeInv, TypeOK, Reads
  <2>4. /\ pc[t] = "reads" /\ pc'[t] = "upserts" /\ inflight' = inflight
       /\ \A u \in Thread \ {t} : pc'[u] = pc[u]
    BY <1>2 DEF TypeInv, TypeOK, Reads
  <2>5. InflightCounts'
    BY <2>3, <2>4, ServingMoves
  <2> QED
    BY <2>3, <2>5 DEF TypeInv
<1>3. CASE Upsert(t)
  <2>0. knobs[t].jdbc \in Nat
    BY DEF TypeInv, TypeOK, Ops, Kind
  <2>1. Upserts(knobs[t].jdbc) \in Nat
    BY <2>0, SelectsAndUpserts
  <2>2. done' \in [Thread -> Ops]
    BY <1>3, <2>1, CountType DEF TypeInv, TypeOK, Upsert, Count, Kind
  <2>3. ring' \subseteq Slot
    BY <1>3, SlotForType DEF TypeInv, TypeOK, Upsert
  <2>4. dead' \in Nat
    BY <1>3, <2>1 DEF TypeInv, TypeOK, Upsert, Churned
  <2>5. TypeOK'
    BY <1>3, <2>2, <2>3, <2>4 DEF TypeInv, TypeOK, Upsert
  <2>6. /\ pc[t] = "upserts" /\ pc'[t] = "posts" /\ inflight' = inflight
       /\ \A u \in Thread \ {t} : pc'[u] = pc[u]
    <3>1. pc[t] = "upserts" /\ pc' = [pc EXCEPT ![t] = "posts"] /\ inflight' = inflight
      BY <1>3 DEF Upsert
    <3> QED
      BY <3>1 DEF TypeInv, TypeOK
  <2>7. InflightCounts'
    BY <2>5, <2>6, ServingMoves
  <2> QED
    BY <2>5, <2>7 DEF TypeInv
<1>4. CASE Post(t)
  <2>1. knobs[t].http \in Nat
    BY DEF TypeInv, TypeOK, Ops, Kind
  <2>2. done' \in [Thread -> Ops]
    BY <1>4, <2>1, CountType DEF TypeInv, TypeOK, Post, Count, Kind
  <2>3. TypeOK'
    BY <1>4, <2>2 DEF TypeInv, TypeOK, Post
  <2>4. /\ pc[t] = "posts" /\ pc'[t] = "sets" /\ inflight' = inflight
       /\ \A u \in Thread \ {t} : pc'[u] = pc[u]
    BY <1>4 DEF TypeInv, TypeOK, Post
  <2>5. InflightCounts'
    BY <2>3, <2>4, ServingMoves
  <2> QED
    BY <2>3, <2>5 DEF TypeInv
<1>5. CASE SetChurn(t)
  <2>0. knobs[t].redis \in Nat
    BY DEF TypeInv, TypeOK, Ops, Kind
  <2>1. Sets(knobs[t].redis) \in Nat
    BY <2>0, GetsAndSets
  <2>2. done' \in [Thread -> Ops]
    BY <1>5, <2>1, CountType DEF TypeInv, TypeOK, SetChurn, Count, Kind
  <2>3. TypeOK'
    BY <1>5, <2>2 DEF TypeInv, TypeOK, SetChurn
  <2>4. /\ pc[t] = "sets" /\ pc'[t] = "record" /\ inflight' = inflight
       /\ \A u \in Thread \ {t} : pc'[u] = pc[u]
    BY <1>5 DEF TypeInv, TypeOK, SetChurn
  <2>5. InflightCounts'
    BY <2>3, <2>4, ServingMoves
  <2> QED
    BY <2>3, <2>5 DEF TypeInv
<1>6. CASE Finish(t)
  <2>1. inflight' \in Nat
    BY <1>6, SomeoneInflight DEF Finish, Exit
  <2>2. metric' \in [requests : Nat, ops : Ops]
    BY <1>6 DEF TypeInv, TypeOK, Finish, Record, Ops
  <2>3. TypeOK'
    BY <1>6, <2>1, <2>2, KnobsType DEF TypeInv, TypeOK, Finish, Leave
  <2>4. /\ pc[t] # "idle" /\ pc'[t] = "idle" /\ inflight' = inflight - 1
       /\ \A u \in Thread \ {t} : pc'[u] = pc[u]
    BY <1>6 DEF TypeInv, TypeOK, Finish, Exit
  <2>5. InflightCounts'
    BY <2>3, <2>4, ServingMoves
  <2> QED
    BY <2>3, <2>5 DEF TypeInv
<1>7. CASE Throw(t)
  <2>1. inflight' \in Nat
    BY <1>7, SomeoneInflight DEF Throw, Exit
  <2>2. TypeOK'
    BY <1>7, <2>1, KnobsType DEF TypeInv, TypeOK, Throw, Leave
  <2>3. /\ pc[t] # "idle" /\ pc'[t] = "idle" /\ inflight' = inflight - 1
       /\ \A u \in Thread \ {t} : pc'[u] = pc[u]
    BY <1>7 DEF TypeInv, TypeOK, Throw, Exit
  <2>4. InflightCounts'
    BY <2>2, <2>3, ServingMoves
  <2> QED
    BY <2>2, <2>4 DEF TypeInv
<1> QED
  BY <1>1, <1>2, <1>3, <1>4, <1>5, <1>6, <1>7 DEF Checkout

\* The process dies: nobody is served any more.
LEMMA TypeDies ==
  ASSUME TypeInv, Dies, storeVars' = storeVars, vouched' = vouched,
         budget' \in [losses : Nat, admins : Nat]
  PROVE  TypeInv'
<1>1. TypeOK'
  BY KnobsType DEF TypeInv, TypeOK, Dies, storeVars, Ops
<1>2. Serving' = {}
  BY DEF Dies, Serving
<1>3. InflightCounts'
  BY <1>2, FS_EmptySet DEF Dies, InflightCounts
<1> QED
  BY <1>1, <1>3 DEF TypeInv

\* The steps that leave the checkouts alone.
LEMMA TypeOthers ==
  ASSUME TypeInv, TypeOK', pc' = pc, inflight' = inflight
  PROVE  TypeInv'
<1>1. Serving' = Serving
  BY DEF Serving
<1> QED
  BY <1>1 DEF TypeInv, InflightCounts

\* One count of verify(), whichever it is.
LEMMA TypeCheck ==
  ASSUME TypeInv, NEW a \in Checker, NEW from,
         NEW to \in {"ring", "dead", "keys", "sizes"}, NEW passes, NEW stores \in SUBSET Store,
         Check(a, from, to, passes, stores)
  PROVE  TypeInv'
<1> USE DEF requestVars, storeVars, stateVars, calVars, processVars, At
<1>1. good' \in [Checker -> BOOLEAN]
  <2>1. (good[a] /\ passes) \in BOOLEAN
    OBVIOUS
  <2>2. good' = [good EXCEPT ![a] = good[a] /\ passes]
    BY DEF Check
  <2>3. good \in [Checker -> BOOLEAN]
    BY DEF TypeInv, TypeOK
  <2> DEFINE b == good[a] /\ passes
  <2> HIDE DEF b
  <2>4. good' = [good EXCEPT ![a] = b] /\ b \in BOOLEAN
    BY <2>1, <2>2 DEF b
  <2> QED
    BY <2>3, <2>4
<1>2. fresh' \in [Checker -> SUBSET Store]
  BY DEF TypeInv, TypeOK, Check
<1>3. TypeOK'
  BY <1>1, <1>2 DEF TypeInv, TypeOK, Check
<1> QED
  BY <1>3, TypeOthers DEF Check

\* The statements of a start and of a reset.
LEMMA TypeState ==
  ASSUME TypeInv,
         \/ Start \/ Reset \/ Prefill \/ PrefillCount \/ Vacuum \/ DeleteChurn
         \/ \E a \in Checker : State(a)
  PROVE  TypeInv'
<1> USE DEF requestVars, storeVars, stateVars, calVars, processVars, At
<1>1. CASE Start
  <2>1. TypeOK'
    BY <1>1 DEF TypeInv, TypeOK, Start, Checker
  <2> QED
    BY <1>1, <2>1, TypeOthers DEF Start
<1>2. CASE Reset
  <2>1. budget' \in [losses : Nat, admins : Nat]
    BY <1>2 DEF TypeInv, TypeOK, Reset
  <2>2. TypeOK'
    BY <1>2, <2>1 DEF TypeInv, TypeOK, Reset, Checker
  <2> QED
    BY <1>2, <2>2, TypeOthers DEF Reset
<1>3. CASE Prefill \/ PrefillCount \/ Vacuum \/ DeleteChurn
  <2>1. TypeOK'
    BY <1>3 DEF TypeInv, TypeOK, Prefill, PrefillCount, Vacuum, DeleteChurn, Checker
  <2> QED
    BY <1>3, <2>1, TypeOthers DEF Prefill, PrefillCount, Vacuum, DeleteChurn
<1>4. ASSUME NEW a \in Checker, SeedStatic(a)
      PROVE  TypeInv'
  <2>1. TypeOK'
    BY <1>4 DEF TypeInv, TypeOK, SeedStatic
  <2> QED
    BY <1>4, <2>1, TypeOthers DEF SeedStatic
<1>5. ASSUME NEW a \in Checker, Verify(a)
      PROVE  TypeInv'
  <2>1. CASE Check(a, "tables", "ring", TRUE, {})
    <3> DEFINE passes == TRUE
    <3>1. Check(a, "tables", "ring", passes, {})
      BY <2>1
    <3> HIDE DEF passes
    <3> QED
      BY <3>1, TypeCheck
  <2>2. CASE Check(a, "ring", "dead", ring = Slot, {"postgres"})
    BY <2>2, TypeCheck DEF Store
  <2>3. CASE Check(a, "dead", "keys", dead <= MaxDead, {})
    BY <2>3, TypeCheck
  <2>4. CASE Check(a, "keys", "sizes", static, {"redis"})
    BY <2>4, TypeCheck DEF Store
  <2> QED
    BY <1>5, <2>1, <2>2, <2>3, <2>4 DEF Verify
<1>6. ASSUME NEW a \in Checker, Passes(a)
      PROVE  TypeInv'
  <2>1. fresh[a] \subseteq Store
    BY DEF TypeInv, TypeOK
  <2>2. TypeOK'
    BY <1>6, <2>1 DEF TypeInv, TypeOK, Passes, Returns
  <2> QED
    BY <1>6, <2>2, TypeOthers DEF Passes
<1>7. ASSUME NEW a \in Checker, Fails(a)
      PROVE  TypeInv'
  <2>1. CASE a = "startup"
    <3>1. Dies /\ storeVars' = storeVars /\ vouched' = vouched /\ budget' = budget
      BY <1>7, <2>1 DEF Fails
    <3>2. budget' \in [losses : Nat, admins : Nat]
      BY <3>1 DEF TypeInv, TypeOK
    <3> QED
      BY <3>1, <3>2, TypeDies
  <2>2. CASE a # "startup"
    <3>1. Returns(a) /\ UNCHANGED <<processVars, storeVars, vouched>>
      BY <1>7, <2>2 DEF Fails
    <3>2. TypeOK'
      BY <3>1 DEF TypeInv, TypeOK, Returns
    <3> QED
      BY <3>1, <3>2, TypeOthers
  <2> QED
    BY <2>1, <2>2
<1> QED
  BY <1>1, <1>2, <1>3, <1>4, <1>5, <1>6, <1>7 DEF State

\* The steps of a calibration.
LEMMA TypeCalibration ==
  ASSUME TypeInv, Calibrate \/ OpenMeasure \/ Joined \/ \E w \in Worker : Calibration(w)
  PROVE  TypeInv'
<1> USE DEF requestVars, storeVars, stateVars, calVars, othersOfCal, Works
<1>1. CASE Calibrate
  <2>1. budget' \in [losses : Nat, admins : Nat]
    BY <1>1 DEF TypeInv, TypeOK, Calibrate
  <2>2. warmed' \in Nat
    BY <1>1, AppAssumption, FS_CardinalityType DEF Calibrate
  <2>3. TypeOK'
    BY <1>1, <2>1, <2>2 DEF TypeInv, TypeOK, Calibrate
  <2> QED
    BY <1>1, <2>3, TypeOthers DEF Calibrate
<1>2. CASE OpenMeasure
  <2>1. TypeOK'
    BY <1>2 DEF TypeInv, TypeOK, OpenMeasure
  <2> QED
    BY <1>2, <2>1, TypeOthers DEF OpenMeasure
<1>3. CASE Joined
  <2>1. TypeOK'
    BY <1>3 DEF TypeInv, TypeOK, Joined
  <2> QED
    BY <1>3, <2>1, TypeOthers DEF Joined
<1>4. ASSUME NEW w \in Worker, Calibration(w)
      PROVE  TypeInv'
  <2>1. TypeOK'
    BY <1>4 DEF TypeInv, TypeOK, Calibration, WarmedUp, Measures, Ends, WorkerFails, CountDown
  <2> QED
    BY <1>4, <2>1, TypeOthers DEF Calibration, WarmedUp, Measures, Ends, WorkerFails
<1> QED
  BY <1>1, <1>2, <1>3, <1>4

LEMMA TypeStep == TypeInv /\ [Next]_vars => TypeInv'
<1> SUFFICES ASSUME TypeInv, [Next]_vars
             PROVE  TypeInv'
  OBVIOUS
<1> USE DEF requestVars, storeVars, stateVars, calVars
<1>1. ASSUME NEW t \in Thread, Checkout(t)
      PROVE  TypeInv'
  BY <1>1, TypeCheckout
<1>2. ASSUME \/ Start \/ Reset \/ Prefill \/ PrefillCount \/ Vacuum \/ DeleteChurn
             \/ \E a \in Checker : State(a)
      PROVE  TypeInv'
  BY <1>2, TypeState
<1>3. ASSUME Calibrate \/ OpenMeasure \/ Joined \/ \E w \in Worker : Calibration(w)
      PROVE  TypeInv'
  BY <1>3, TypeCalibration
<1>4. CASE Crash
  <2>1. budget' \in [losses : Nat, admins : Nat]
    BY <1>4 DEF TypeInv, TypeOK, Crash
  <2> QED
    BY <1>4, <2>1, TypeDies DEF Crash
<1>5. ASSUME NEW s \in Store, LoseStore(s)
      PROVE  TypeInv'
  <2>1. budget' \in [losses : Nat, admins : Nat]
    BY <1>5 DEF TypeInv, TypeOK, LoseStore
  <2>2. fresh' \in [Checker -> SUBSET Store]
    BY <1>5 DEF TypeInv, TypeOK, LoseStore
  <2>3. tables' \in BOOLEAN /\ ring' \subseteq Slot /\ dead' \in Nat /\ static' \in BOOLEAN
    <3>1. CASE s = "postgres"
      <4>1. tables' = FALSE /\ ring' = {} /\ dead' = 0 /\ static' = static
        BY <1>5, <3>1 DEF LoseStore
      <4> QED
        BY <4>1 DEF TypeInv, TypeOK
    <3>2. CASE s # "postgres"
      BY <1>5, <3>2 DEF TypeInv, TypeOK, LoseStore
    <3> QED
      BY <3>1, <3>2
  <2>4. TypeOK'
    BY <1>5, <2>1, <2>2, <2>3 DEF TypeInv, TypeOK, LoseStore
  <2> QED
    BY <1>5, <2>4, TypeOthers DEF LoseStore
<1>6. CASE UNCHANGED vars
  <2>1. TypeOK'
    BY <1>6 DEF TypeInv, TypeOK, vars
  <2> QED
    BY <1>6, <2>1, TypeOthers DEF vars
<1> QED
  BY <1>1, <1>2, <1>3, <1>4, <1>5, <1>6 DEF Next

\* The types of every variable, and the count of the requests in flight.
THEOREM TypeCorrect == Spec => [](TypeOK /\ InflightCounts)
<1>1. Init => TypeInv
  BY TypeInit
<1>2. TypeInv /\ [Next]_vars => TypeInv'
  BY TypeStep
<1>3. TypeInv => TypeOK /\ InflightCounts
  BY DEF TypeInv
<1> QED
  BY <1>1, <1>2, <1>3, PTL DEF Spec

-----------------------------------------------------------------------------
\* The guard of a calibration (AdminController.java:48).

\* The only step that takes the calibration out of "idle" sees inflight = 0, and
\* the count misses nobody.
LEMMA AloneStep ==
  ASSUME TypeInv, [Next]_vars, cal = "idle", cal' # "idle"
  PROVE  \A t \in Thread : pc[t] = "idle"
<1> USE DEF requestVars, storeVars, stateVars, calVars, processVars, othersOfCal
<1>1. Calibrate
  <2>1. ASSUME NEW t \in Thread, Checkout(t)
        PROVE  cal' = cal
    BY <2>1 DEF Checkout, Arrive, Reads, Upsert, Post, SetChurn, Finish, Throw
  <2>2. ASSUME NEW a \in Checker, State(a)
        PROVE  cal' = cal \/ cal' = "idle"
    BY <2>2 DEF State, SeedStatic, Verify, Check, Passes, Fails, Dies
  <2>3. ASSUME Start \/ Reset \/ Prefill \/ PrefillCount \/ Vacuum \/ DeleteChurn
        PROVE  cal' = cal
    BY <2>3 DEF Start, Reset, Prefill, PrefillCount, Vacuum, DeleteChurn
  <2>4. ASSUME NEW w \in Worker, Calibration(w)
        PROVE  cal' = cal
    BY <2>4 DEF Calibration, WarmedUp, Measures, Ends, WorkerFails
  <2>5. ~OpenMeasure /\ ~Joined
    BY DEF OpenMeasure, Joined
  <2>6. ASSUME NEW s \in Store, LoseStore(s)
        PROVE  cal' = cal
    BY <2>6 DEF LoseStore
  <2>7. ~Crash /\ ~UNCHANGED vars
    BY DEF Crash, Dies, vars
  <2> QED
    BY <2>1, <2>2, <2>3, <2>4, <2>5, <2>6, <2>7 DEF Next
<1>2. inflight = 0
  BY <1>1 DEF Calibrate, TypeInv, TypeOK
<1>3. IsFiniteSet(Serving)
  BY AppAssumption, FS_Subset DEF Serving
<1>4. Serving = {}
  BY <1>2, <1>3, FS_EmptySet DEF TypeInv, InflightCounts
<1> QED
  BY <1>4 DEF Serving

\* "409 while requests are in flight": no calibration begins beside a checkout,
\* whatever checkouts threw before and however often the process died.
THEOREM NoCalibrationBesideRequests == Spec => CalibratesAlone
<1>1. Init => TypeInv
  BY TypeInit
<1>2. TypeInv /\ [Next]_vars => TypeInv'
  BY TypeStep
<1>3. TypeInv /\ [Next]_vars =>
        [cal = "idle" /\ cal' # "idle" => \A t \in Thread : pc[t] = "idle"]_vars
  BY AloneStep
<1> QED
  BY <1>1, <1>2, <1>3, PTL DEF Spec, CalibratesAlone

-----------------------------------------------------------------------------
\* verify(), statement by statement (StateService.java:83-133).

\* A check that has passed still holds of a store that has kept its data since,
\* of a start or a reset in progress as of the last one that passed.
FreshIsChecked ==
  \A a \in Checker : good[a] =>
    /\ "postgres" \in fresh[a] => tables /\ ring = Slot
    /\ "redis" \in fresh[a] => static
ReadyInv == FreshIsChecked /\ VouchedIsReady

\* What a step may do to the stores that a verify() has checked: it keeps their
\* state, and takes from the checked stores what it does not.
LEMMA ReadyKept ==
  ASSUME ReadyInv,
         \A a \in Checker : (good'[a] => good[a]) /\ fresh'[a] \subseteq fresh[a],
         vouched' \subseteq vouched,
         (\E a \in Checker : "postgres" \in fresh'[a]) \/ "postgres" \in vouched'
           => (tables => tables') /\ (ring = Slot => ring' = Slot),
         (\E a \in Checker : "redis" \in fresh'[a]) \/ "redis" \in vouched'
           => (static => static')
  PROVE  ReadyInv'
BY DEF ReadyInv, FreshIsChecked, VouchedIsReady

\* The end of a start or of a reset: nothing it checked is left to go stale.
LEMMA ReadyEnds ==
  ASSUME TypeInv, ReadyInv, NEW a \in Checker, Returns(a), storeVars' = storeVars,
         vouched' \subseteq vouched \cup (IF good[a] THEN fresh[a] ELSE {})
  PROVE  ReadyInv'
<1> USE DEF TypeInv, TypeOK, Returns, storeVars
<1>1. FreshIsChecked'
  BY DEF ReadyInv, FreshIsChecked
<1>2. VouchedIsReady'
  BY DEF ReadyInv, FreshIsChecked, VouchedIsReady
<1> QED
  BY <1>1, <1>2 DEF ReadyInv

\* A count of verify() joins the checks that must hold.
LEMMA ReadyChecks ==
  ASSUME TypeInv, ReadyInv, NEW a \in Checker, Verify(a)
  PROVE  ReadyInv'
<1> USE DEF TypeInv, TypeOK, At, storeVars
<1>1. CASE tables /\ Check(a, "tables", "ring", TRUE, {})
  BY <1>1 DEF Check, ReadyInv, FreshIsChecked, VouchedIsReady
<1>2. CASE tables /\ Check(a, "ring", "dead", ring = Slot, {"postgres"})
  BY <1>2 DEF Check, ReadyInv, FreshIsChecked, VouchedIsReady
<1>3. CASE Check(a, "dead", "keys", dead <= MaxDead, {})
  BY <1>3 DEF Check, ReadyInv, FreshIsChecked, VouchedIsReady
<1>4. CASE Check(a, "keys", "sizes", static, {"redis"})
  BY <1>4 DEF Check, ReadyInv, FreshIsChecked, VouchedIsReady
<1> QED
  BY <1>1, <1>2, <1>3, <1>4 DEF Verify

\* The process dies, and what it had checked with it.
LEMMA ReadyDies ==
  ASSUME ReadyInv, Dies, storeVars' = storeVars, vouched' = vouched
  PROVE  ReadyInv'
BY DEF ReadyInv, FreshIsChecked, VouchedIsReady, Dies, storeVars

LEMMA ReadyStep == TypeInv /\ ReadyInv /\ [Next]_vars => ReadyInv'
<1> SUFFICES ASSUME TypeInv, ReadyInv, [Next]_vars
             PROVE  ReadyInv'
  OBVIOUS
<1> USE DEF requestVars, storeVars, stateVars, calVars, processVars, othersOfCal
<1>1. ASSUME NEW t \in Thread, Checkout(t)
      PROVE  ReadyInv'
  <2>1. CASE Upsert(t)
    <3>1. num[t] \in Nat /\ ring \subseteq Slot
      BY DEF TypeInv, TypeOK
    <3>2. SlotFor(num[t]) \in Slot
      BY <3>1, SlotForType
    <3>3. ring = Slot => ring' = Slot
      BY <2>1, <3>2 DEF Upsert
    <3>4. good' = good /\ fresh' = fresh /\ vouched' = vouched /\ tables' = tables /\ static' = static
      BY <2>1 DEF Upsert
    <3> QED
      BY <3>3, <3>4, ReadyKept
  <2>2. CASE ~Upsert(t)
    <3>1. storeVars' = storeVars /\ stateVars' = stateVars
      BY <1>1, <2>2 DEF Checkout, Arrive, Reads, Post, SetChurn, Finish, Throw
    <3> QED
      BY <3>1, ReadyKept
  <2> QED
    BY <2>1, <2>2
<1>2. CASE Start \/ Reset \/ Prefill \/ PrefillCount \/ Vacuum \/ DeleteChurn
  <2>1. /\ good' = good /\ fresh' = fresh /\ vouched' = vouched
        /\ tables => tables'
        /\ ring = Slot => ring' = Slot
        /\ static' = static
    BY <1>2 DEF Start, Reset, Prefill, PrefillCount, Vacuum, DeleteChurn
  <2> QED
    BY <2>1, ReadyKept
<1>3. ASSUME NEW a \in Checker, State(a)
      PROVE  ReadyInv'
  <2>1. CASE SeedStatic(a)
    <3>1. /\ good' = good /\ fresh' = fresh /\ vouched' = vouched
          /\ tables' = tables /\ ring' = ring /\ static'
      BY <2>1 DEF SeedStatic
    <3> QED
      BY <3>1, ReadyKept
  <2>2. CASE Verify(a)
    BY <2>2, ReadyChecks
  <2>3. CASE Passes(a)
    <3>1. Returns(a) /\ storeVars' = storeVars /\ good[a] /\ vouched' = vouched \cup fresh[a]
      BY <2>3 DEF Passes
    <3> QED
      BY <3>1, ReadyEnds
  <2>4. CASE Fails(a)
    <3>1. CASE a = "startup"
      <4>1. Dies /\ storeVars' = storeVars /\ vouched' = vouched
        BY <2>4, <3>1 DEF Fails
      <4> QED
        BY <4>1, ReadyDies
    <3>2. CASE a # "startup"
      <4>1. Returns(a) /\ storeVars' = storeVars /\ vouched' = vouched
        BY <2>4, <3>2 DEF Fails
      <4> QED
        BY <4>1, ReadyEnds
    <3> QED
      BY <3>1, <3>2
  <2> QED
    BY <1>3, <2>1, <2>2, <2>3, <2>4 DEF State
<1>4. ASSUME Calibrate \/ OpenMeasure \/ Joined \/ \E w \in Worker : Calibration(w)
      PROVE  ReadyInv'
  <2>1. storeVars' = storeVars /\ stateVars' = stateVars
    BY <1>4 DEF Calibrate, OpenMeasure, Joined, Calibration, WarmedUp, Measures, Ends, WorkerFails
  <2> QED
    BY <2>1, ReadyKept
<1>5. CASE Crash
  BY <1>5, ReadyDies DEF Crash
<1>6. ASSUME NEW s \in Store, LoseStore(s)
      PROVE  ReadyInv'
  <2>1. good' = good /\ vouched' = vouched \ {s} /\ \A a \in Checker : fresh'[a] = fresh[a] \ {s}
    BY <1>6 DEF LoseStore
  <2>2. CASE s = "postgres"
    <3>1. static' = static
      BY <1>6, <2>2 DEF LoseStore
    <3> QED
      BY <2>1, <2>2, <3>1, ReadyKept
  <2>3. CASE s = "redis"
    <3>1. tables' = tables /\ ring' = ring
      BY <1>6, <2>3 DEF LoseStore
    <3> QED
      BY <2>1, <2>3, <3>1, ReadyKept
  <2> QED
    BY <2>2, <2>3 DEF Store
<1>7. CASE UNCHANGED vars
  BY <1>7, ReadyKept DEF vars
<1> QED
  BY <1>1, <1>2, <1>3, <1>4, <1>5, <1>6, <1>7 DEF Next

\* A process that is up, and a reset that answered 200, vouch for a store until
\* it loses its data: between the counts of verify(), and after them, checkouts
\* only write rows that are there.
THEOREM VerifyVouches == Spec => []VouchedIsReady
<1>1. Init => TypeInv /\ ReadyInv
  <2>1. Init => ReadyInv
    BY DEF Init, ReadyInv, FreshIsChecked, VouchedIsReady
  <2> QED
    BY <2>1, TypeInit
<1>2. TypeInv /\ ReadyInv /\ [Next]_vars => (TypeInv /\ ReadyInv)'
  BY TypeStep, ReadyStep
<1>3. ReadyInv => VouchedIsReady
  BY DEF ReadyInv
<1> QED
  BY <1>1, <1>2, <1>3, PTL DEF Spec

-----------------------------------------------------------------------------
\* CpuWork.measure: the latch (CpuWork.java:124-148).

\* The latch stands at the number of threads that warm up, none of which is left
\* once the measurement is open; nobody measures before.
Warm == {w \in Worker : worker[w] = "warm"}
LatchInv ==
  /\ warmed = Cardinality(Warm)
  /\ cal = "measuring" => Warm = {}
  /\ \A w \in Worker : worker[w] = "measure" => cal = "measuring"

\* A thread counts down once as it stops warming up, and not again when it fails
\* in its measured rounds: the latch is open by then.
LEMMA LatchWorker ==
  ASSUME TypeInv, LatchInv, NEW w \in Worker, Calibration(w)
  PROVE  LatchInv'
<1> USE DEF TypeInv, TypeOK, Works
<1>1. IsFiniteSet(Warm)
  BY AppAssumption, FS_Subset DEF Warm
<1>2. Warm' = IF worker'[w] = "warm" THEN Warm \cup {w} ELSE Warm \ {w}
  BY DEF Warm, Calibration, WarmedUp, Measures, Ends, WorkerFails
<1>3. cal' = cal
  BY DEF Calibration, WarmedUp, Measures, Ends, WorkerFails
<1>4. CASE worker[w] = "warm"
  <2>1. CountDown /\ worker'[w] \in {"ready", "ended"}
    BY <1>4 DEF Calibration, WarmedUp, Measures, Ends, WorkerFails
  <2>2. Warm' = Warm \ {w} /\ w \in Warm
    BY <1>2, <1>4, <2>1 DEF Warm
  <2>3. Cardinality(Warm') = Cardinality(Warm) - 1 /\ Cardinality(Warm) \in Nat
    BY <1>1, <2>2, FS_RemoveElement, FS_CardinalityType
  <2>4. Cardinality(Warm) # 0
    BY <1>1, <2>2, FS_EmptySet
  <2>5. warmed' = Cardinality(Warm')
    BY <2>1, <2>3, <2>4 DEF CountDown, LatchInv
  <2>6. \A v \in Worker : worker'[v] = "measure" => worker[v] = "measure"
    BY <1>4, <2>1 DEF Calibration, WarmedUp, Measures, Ends, WorkerFails
  <2> QED
    BY <1>3, <2>2, <2>5, <2>6 DEF LatchInv
<1>5. CASE worker[w] # "warm"
  <2>1. worker'[w] \in {"measure", "ended"}
    BY <1>5 DEF Calibration, WarmedUp, Measures, Ends, WorkerFails
  <2>2. Warm' = Warm
    BY <1>2, <1>5, <2>1 DEF Warm
  <2>3. cal = "measuring"
    BY <1>5 DEF Calibration, WarmedUp, Measures, Ends, WorkerFails, LatchInv
  <2>4. warmed = 0
    BY <2>3, FS_EmptySet DEF LatchInv
  <2>5. warmed' = warmed
    BY <1>5, <2>4 DEF Calibration, WarmedUp, Measures, Ends, WorkerFails, CountDown
  <2> QED
    BY <1>3, <2>2, <2>3, <2>5 DEF LatchInv
<1> QED
  BY <1>4, <1>5

\* The steps that leave the calibration alone.
LEMMA LatchKept ==
  ASSUME LatchInv, calVars' = calVars
  PROVE  LatchInv'
BY DEF LatchInv, Warm, calVars

\* A calibration that is over, or whose process died.
LEMMA LatchIdle ==
  ASSUME warmed' = 0, cal' = "idle", worker' = [w \in Worker |-> "none"]
  PROVE  LatchInv'
<1>1. Warm' = {}
  BY DEF Warm
<1> QED
  BY <1>1, FS_EmptySet DEF LatchInv

LEMMA LatchStep == TypeInv /\ LatchInv /\ [Next]_vars => LatchInv'
<1> SUFFICES ASSUME TypeInv, LatchInv, [Next]_vars
             PROVE  LatchInv'
  OBVIOUS
<1>1. ASSUME NEW t \in Thread, Checkout(t)
      PROVE  LatchInv'
  BY <1>1, LatchKept DEF Checkout, Arrive, Reads, Upsert, Post, SetChurn, Finish, Throw
<1>2. CASE Start \/ Reset \/ Prefill \/ PrefillCount \/ Vacuum \/ DeleteChurn
  BY <1>2, LatchKept DEF Start, Reset, Prefill, PrefillCount, Vacuum, DeleteChurn, processVars
<1>3. ASSUME NEW a \in Checker, State(a)
      PROVE  LatchInv'
  <2>1. CASE Dies
    BY <2>1, LatchIdle DEF Dies
  <2>2. CASE ~Dies
    <3>1. calVars' = calVars
      BY <1>3, <2>2 DEF State, SeedStatic, Verify, Check, Passes, Fails, processVars
    <3> QED
      BY <3>1, LatchKept
  <2> QED
    BY <2>1, <2>2
<1>4. CASE Calibrate
  <2>1. Warm' = Worker /\ warmed' = Cardinality(Worker) /\ cal' = "warming"
    BY <1>4 DEF Calibrate, Warm
  <2>2. \A w \in Worker : worker'[w] # "measure"
    BY <1>4 DEF Calibrate
  <2> QED
    BY <2>1, <2>2 DEF LatchInv
<1>5. CASE OpenMeasure
  <2>1. IsFiniteSet(Warm) /\ Warm' = Warm
    BY <1>5, AppAssumption, FS_Subset DEF Warm, OpenMeasure
  <2>2. Warm = {}
    BY <1>5, <2>1, FS_EmptySet DEF OpenMeasure, LatchInv
  <2> QED
    BY <1>5, <2>1, <2>2 DEF OpenMeasure, LatchInv
<1>6. CASE Joined
  <2>1. warmed = 0
    BY <1>6, FS_EmptySet DEF Joined, LatchInv
  <2> QED
    BY <1>6, <2>1, LatchIdle DEF Joined
<1>7. ASSUME NEW w \in Worker, Calibration(w)
      PROVE  LatchInv'
  BY <1>7, LatchWorker
<1>8. CASE Crash
  BY <1>8, LatchIdle DEF Crash, Dies
<1>9. ASSUME NEW s \in Store, LoseStore(s)
      PROVE  LatchInv'
  BY <1>9, LatchKept DEF LoseStore
<1>10. CASE UNCHANGED vars
  BY <1>10, LatchKept DEF vars
<1> QED
  BY <1>1, <1>2, <1>3, <1>4, <1>5, <1>6, <1>7, <1>8, <1>9, <1>10 DEF Next

\* The measured rounds of a calibration's threads meet no thread that warms up,
\* whichever of them fail and when.
THEOREM NobodyWarmsBesideAMeasurement == Spec => []MeasuredTogether
<1>1. Init => TypeInv /\ LatchInv
  <2>1. Init => LatchInv
    <3> SUFFICES ASSUME Init PROVE LatchInv
      OBVIOUS
    <3>1. Warm = {}
      BY DEF Init, Warm
    <3> QED
      BY <3>1, FS_EmptySet DEF Init, LatchInv
  <2> QED
    BY <2>1, TypeInit
<1>2. TypeInv /\ LatchInv /\ [Next]_vars => (TypeInv /\ LatchInv)'
  BY TypeStep, LatchStep
<1>3. LatchInv => MeasuredTogether
  BY DEF LatchInv, MeasuredTogether, Warm
<1> QED
  BY <1>1, <1>2, <1>3, PTL DEF Spec

-----------------------------------------------------------------------------
\* The operations counted (CheckoutService.java:61-118).

\* What a checkout has counted at each of its stages, and what it was asked for.
DoneSoFar(t) ==
  /\ pc[t] = "idle" => knobs[t] = NoOps
  /\ ~AllowOverrides /\ pc[t] # "idle" => knobs[t] = BaseKnobs
  /\ done[t]["jdbc"] = IF pc[t] \in {"idle", "reads"} THEN 0
                       ELSE IF pc[t] = "upserts" THEN Selects(knobs[t]["jdbc"])
                       ELSE knobs[t]["jdbc"]
  /\ done[t]["redis"] = IF pc[t] \in {"idle", "reads"} THEN 0
                        ELSE IF pc[t] = "record" THEN knobs[t]["redis"]
                        ELSE Gets(knobs[t]["redis"])
  /\ done[t]["http"] = IF pc[t] \in {"sets", "record"} THEN knobs[t]["http"] ELSE 0
CountInv == (\A t \in Thread : DoneSoFar(t)) /\ RecordedAsDesigned

\* The metrics of a process that has served nothing.
LEMMA NoneCounted == NoOps = [k \in Kind |-> 0 * BaseKnobs[k]]
<1>1. \A k \in Kind : BaseKnobs[k] \in Nat
  BY AppAssumption
<1>2. \A k \in Kind : 0 * BaseKnobs[k] = 0
  BY <1>1
<1> QED
  BY <1>2 DEF NoOps

\* A stage of one thread is the others' business in nothing.
LEMMA OthersKept ==
  ASSUME NEW t \in Thread, NEW u \in Thread, DoneSoFar(u),
         pc'[u] = pc[u], knobs'[u] = knobs[u], done'[u] = done[u]
  PROVE  DoneSoFar(u)'
BY DEF DoneSoFar

\* A checkout that begins, or is over, has counted nothing.
LEMMA NothingDone ==
  ASSUME TypeInv, NEW t \in Thread, done'[t] = NoOps,
         \/ pc'[t] = "idle" /\ knobs'[t] = NoOps
         \/ pc'[t] = "reads" /\ (~AllowOverrides => knobs'[t] = BaseKnobs)
  PROVE  DoneSoFar(t)'
BY DEF DoneSoFar, NoOps, Kind

\* The stages that count: the JDBC loops share out the operations asked for, and
\* so do the reads and the writes of Redis.
LEMMA StageCounts ==
  ASSUME TypeInv, NEW t \in Thread, DoneSoFar(t),
         Reads(t) \/ Upsert(t) \/ Post(t) \/ SetChurn(t)
  PROVE  DoneSoFar(t)'
<1>1. /\ knobs[t] \in [Kind -> Nat] /\ done[t] \in [Kind -> Nat]
      /\ knobs \in [Thread -> Ops] /\ done \in [Thread -> Ops]
      /\ pc \in [Thread -> {"idle", "reads", "upserts", "posts", "sets", "record"}]
  BY DEF TypeInv, TypeOK, Ops
<1>2. knobs' = knobs
  BY DEF Reads, Upsert, Post, SetChurn
<1>3. /\ Selects(knobs[t]["jdbc"]) + Upserts(knobs[t]["jdbc"]) = knobs[t]["jdbc"]
      /\ Gets(knobs[t]["redis"]) + Sets(knobs[t]["redis"]) = knobs[t]["redis"]
  BY <1>1, SelectsAndUpserts, GetsAndSets DEF Kind
<1>4. CASE Reads(t)
  <2>1. /\ pc[t] = "reads" /\ pc'[t] = "upserts"
        /\ done'[t]["jdbc"] = Selects(knobs[t]["jdbc"])
        /\ done'[t]["redis"] = Gets(knobs[t]["redis"])
        /\ done'[t]["http"] = done[t]["http"]
    BY <1>1, <1>4 DEF Reads, Stage, Ops, Kind
  <2> QED
    BY <1>2, <2>1 DEF DoneSoFar
<1>5. CASE Upsert(t)
  <2>1. /\ pc[t] = "upserts" /\ pc'[t] = "posts"
        /\ done'[t]["jdbc"] = done[t]["jdbc"] + Upserts(knobs[t]["jdbc"])
        /\ done'[t]["redis"] = done[t]["redis"]
        /\ done'[t]["http"] = done[t]["http"]
    BY <1>1, <1>5 DEF Upsert, Stage, Count, Ops, Kind
  <2> QED
    BY <1>2, <1>3, <2>1 DEF DoneSoFar
<1>6. CASE Post(t)
  <2>1. /\ pc[t] = "posts" /\ pc'[t] = "sets"
        /\ done'[t]["http"] = done[t]["http"] + knobs[t]["http"]
        /\ done'[t]["redis"] = done[t]["redis"]
        /\ done'[t]["jdbc"] = done[t]["jdbc"]
    BY <1>1, <1>6 DEF Post, Stage, Count, Ops, Kind
  <2>2. knobs[t]["http"] \in Nat
    BY <1>1 DEF Kind
  <2> QED
    BY <1>2, <2>1, <2>2 DEF DoneSoFar
<1>7. CASE SetChurn(t)
  <2>1. /\ pc[t] = "sets" /\ pc'[t] = "record"
        /\ done'[t]["redis"] = done[t]["redis"] + Sets(knobs[t]["redis"])
        /\ done'[t]["jdbc"] = done[t]["jdbc"]
        /\ done'[t]["http"] = done[t]["http"]
    BY <1>1, <1>7 DEF SetChurn, Stage, Count, Ops, Kind
  <2> QED
    BY <1>2, <1>3, <2>1 DEF DoneSoFar
<1> QED
  BY <1>4, <1>5, <1>6, <1>7

\* What is recorded of a checkout that has gone through all its stages.
LEMMA FinishRecords ==
  ASSUME TypeInv, CountInv, NEW t \in Thread, Finish(t)
  PROVE  RecordedAsDesigned'
<1> SUFFICES ASSUME ~AllowOverrides
             PROVE  metric'.ops = [k \in Kind |-> metric'.requests * BaseKnobs[k]]
  BY DEF RecordedAsDesigned
<1>1. knobs[t] = BaseKnobs /\ done[t] \in [Kind -> Nat] /\ BaseKnobs \in [Kind -> Nat]
  BY AppAssumption DEF CountInv, DoneSoFar, Finish, Stage, TypeInv, TypeOK, Ops
<1>2. \A k \in Kind : done[t][k] = BaseKnobs[k]
  BY <1>1 DEF CountInv, DoneSoFar, Finish, Stage, Kind
<1>3. metric.requests \in Nat /\ metric.ops = [k \in Kind |-> metric.requests * BaseKnobs[k]]
  BY DEF CountInv, RecordedAsDesigned, TypeInv, TypeOK
<1>4. ASSUME NEW k \in Kind
      PROVE  metric.requests * BaseKnobs[k] + done[t][k] = (metric.requests + 1) * BaseKnobs[k]
  <2>1. BaseKnobs[k] \in Nat /\ done[t][k] = BaseKnobs[k]
    BY <1>1, <1>2
  <2> QED
    BY <1>3, <2>1
<1>5. metric' = [requests |-> metric.requests + 1,
                 ops |-> [k \in Kind |-> metric.ops[k] + done[t][k]]]
  BY DEF Finish, Record
<1>6. \A k \in Kind : metric.ops[k] + done[t][k] = (metric.requests + 1) * BaseKnobs[k]
  BY <1>3, <1>4
<1>7. metric'.requests = metric.requests + 1
      /\ metric'.ops = [k \in Kind |-> metric.ops[k] + done[t][k]]
  BY <1>5
<1> QED
  BY <1>6, <1>7

LEMMA CountCheckout ==
  ASSUME TypeInv, CountInv, NEW t \in Thread, Checkout(t)
  PROVE  CountInv'
<1> USE DEF Stage
<1>1. ASSUME NEW u \in Thread, u # t
      PROVE  DoneSoFar(u)'
  <2>1. pc'[u] = pc[u] /\ knobs'[u] = knobs[u] /\ done'[u] = done[u]
    BY <1>1 DEF TypeInv, TypeOK, Checkout, Arrive, Reads, Upsert, Post, SetChurn, Finish, Throw,
                Leave, Count
  <2> QED
    BY <2>1, OthersKept DEF CountInv
<1>2. CASE Arrive(t)
  <2>1. done[t] = NoOps
    <3>1. pc[t] = "idle" /\ knobs[t] = NoOps /\ done[t] \in [Kind -> Nat]
      BY <1>2 DEF Arrive, CountInv, DoneSoFar, TypeInv, TypeOK, Ops
    <3>2. done[t]["jdbc"] = 0 /\ done[t]["redis"] = 0 /\ done[t]["http"] = 0
      BY <3>1 DEF CountInv, DoneSoFar
    <3> QED
      BY <3>1, <3>2 DEF NoOps, Kind
  <2>2. done'[t] = NoOps /\ pc'[t] = "reads" /\ (~AllowOverrides => knobs'[t] = BaseKnobs)
    BY <1>2, <2>1 DEF Arrive, TypeInv, TypeOK, Resolve
  <2>3. DoneSoFar(t)'
    BY <2>2, NothingDone
  <2>4. metric' = metric
    BY <1>2 DEF Arrive
  <2> QED
    BY <1>1, <2>3, <2>4 DEF CountInv, RecordedAsDesigned
<1>3. CASE Reads(t) \/ Upsert(t) \/ Post(t) \/ SetChurn(t)
  <2>1. DoneSoFar(t)'
    BY <1>3, StageCounts DEF CountInv
  <2>2. metric' = metric
    BY <1>3 DEF Reads, Upsert, Post, SetChurn
  <2> QED
    BY <1>1, <2>1, <2>2 DEF CountInv, RecordedAsDesigned
<1>4. CASE Finish(t) \/ Throw(t)
  <2>1. done'[t] = NoOps /\ pc'[t] = "idle" /\ knobs'[t] = NoOps
    BY <1>4 DEF Finish, Throw, Leave, TypeInv, TypeOK
  <2>2. DoneSoFar(t)'
    BY <2>1, NothingDone
  <2>3. RecordedAsDesigned'
    BY <1>4, FinishRecords DEF Throw, CountInv, RecordedAsDesigned
  <2> QED
    BY <1>1, <2>2, <2>3 DEF CountInv
<1> QED
  BY <1>2, <1>3, <1>4 DEF Checkout

\* The steps that leave the checkouts alone, and the death of the process.
LEMMA CountOthers ==
  ASSUME CountInv, requestVars' = requestVars \/ Dies
  PROVE  CountInv'
<1>1. CASE requestVars' = requestVars
  BY <1>1 DEF CountInv, RecordedAsDesigned, DoneSoFar, requestVars
<1>2. CASE Dies
  <2>1. \A t \in Thread : done'[t] = NoOps /\ pc'[t] = "idle" /\ knobs'[t] = NoOps
    BY <1>2 DEF Dies
  <2>2. \A t \in Thread : DoneSoFar(t)'
    BY <2>1 DEF DoneSoFar, NoOps, Kind
  <2>3. RecordedAsDesigned'
    BY <1>2, NoneCounted DEF Dies, RecordedAsDesigned
  <2> QED
    BY <2>2, <2>3 DEF CountInv
<1> QED
  BY <1>1, <1>2

LEMMA CountStep == TypeInv /\ CountInv /\ [Next]_vars => CountInv'
<1> SUFFICES ASSUME TypeInv, CountInv, [Next]_vars
             PROVE  CountInv'
  OBVIOUS
<1>1. ASSUME NEW t \in Thread, Checkout(t)
      PROVE  CountInv'
  BY <1>1, CountCheckout
<1>2. ASSUME ~\E t \in Thread : Checkout(t)
      PROVE  requestVars' = requestVars \/ Dies
  <2>1. ASSUME Start \/ Reset \/ Prefill \/ PrefillCount \/ Vacuum \/ DeleteChurn
        PROVE  requestVars' = requestVars
    BY <2>1 DEF Start, Reset, Prefill, PrefillCount, Vacuum, DeleteChurn, processVars
  <2>2. ASSUME NEW a \in Checker, State(a)
        PROVE  requestVars' = requestVars \/ Dies
    BY <2>2 DEF State, SeedStatic, Verify, Check, Passes, Fails, processVars
  <2>3. ASSUME Calibrate \/ OpenMeasure \/ Joined \/ \E w \in Worker : Calibration(w)
        PROVE  requestVars' = requestVars
    BY <2>3 DEF Calibrate, OpenMeasure, Joined, Calibration, WarmedUp, Measures, Ends,
                WorkerFails, othersOfCal
  <2>4. ASSUME Crash \/ (\E s \in Store : LoseStore(s)) \/ UNCHANGED vars
        PROVE  requestVars' = requestVars \/ Dies
    BY <2>4 DEF Crash, LoseStore, vars
  <2> QED
    BY <1>2, <2>1, <2>2, <2>3, <2>4 DEF Next
<1> QED
  BY <1>1, <1>2, CountOthers

\* "spans = 1 + jdbc_ops + redis_ops + 2 x http_calls": every checkout that is
\* counted has executed the design's operations, no more and no less, unless the
\* service was told to listen to its queries.
THEOREM CountedAsDesigned == Spec => []RecordedAsDesigned
<1>1. Init => TypeInv /\ CountInv
  <2>1. ASSUME Init
        PROVE  CountInv
    <3>1. \A t \in Thread : DoneSoFar(t)
      BY <2>1 DEF Init, DoneSoFar, NoOps, Kind
    <3>2. RecordedAsDesigned
      <4>1. metric.ops = NoOps /\ metric.requests = 0
        BY <2>1 DEF Init
      <4> QED
        BY <4>1, NoneCounted DEF RecordedAsDesigned
    <3> QED
      BY <3>1, <3>2 DEF CountInv
  <2> QED
    BY <2>1, TypeInit
<1>2. TypeInv /\ CountInv /\ [Next]_vars => (TypeInv /\ CountInv)'
  BY TypeStep, CountStep
<1>3. CountInv => RecordedAsDesigned
  BY DEF CountInv
<1> QED
  BY <1>1, <1>2, <1>3, PTL DEF Spec

-----------------------------------------------------------------------------
\* The walk around the ring (SqlOps.java:19-25).

\* A non-empty set of numbers has a least one.
LEMMA Least ==
  ASSUME NEW D \in SUBSET Nat, D # {}
  PROVE  \E d \in D : \A e \in D : d <= e
<1>1. PICK d \in D : \A e \in D : ~(<<e, d>> \in OpToRel(<, Nat))
  BY NatLessThanWellFounded, WFMin
<1>2. \A e \in D : ~(e < d)
  BY <1>1 DEF OpToRel
<1> QED
  BY <1>2

LEMMA Remainder ==
  ASSUME NEW a \in Int, NEW b \in Nat \ {0}
  PROVE  /\ a \div b \in Int /\ a % b \in 0..(b - 1)
         /\ a = b * (a \div b) + (a % b)
OBVIOUS

LEMMA MultipleLeavesNone ==
  ASSUME NEW c \in Int, NEW b \in Nat \ {0}
  PROVE  (b * c) % b = 0
OBVIOUS

LEMMA NoneLeftIsMultiple ==
  ASSUME NEW a \in Int, NEW b \in Nat \ {0}, a % b = 0
  PROVE  a \div b \in Int /\ a = b * (a \div b)
BY Remainder

\* No walk shorter than the ring comes back to the slot it left.  Otherwise the
\* shortest one divides the ring, and the number of such walks in it divides the
\* stride as well as the ring.
LEMMA WalkReturnsLate ==
  ASSUME NEW k \in 1..(RingSlots - 1)
  PROVE  (k * Stride) % RingSlots # 0
<1> DEFINE D == {d \in 1..(RingSlots - 1) : (d * Stride) % RingSlots = 0}
<1>0. RingSlots \in Nat \ {0} /\ Stride \in Nat
  BY AppAssumption
<1> SUFFICES ASSUME D # {}
             PROVE  FALSE
  OBVIOUS
<1>1. D \in SUBSET Nat
  BY <1>0
<1>2. PICK d \in D : \A e \in D : d <= e
  BY <1>1, Least
<1>3. d \in Nat \ {0} /\ d < RingSlots /\ (d * Stride) % RingSlots = 0
  BY <1>0, <1>2
<1> DEFINE q == RingSlots \div d
           r == RingSlots % d
           m == (d * Stride) \div RingSlots
<1>4. q \in Int /\ r \in 0..(d - 1) /\ RingSlots = d * q + r
  BY <1>0, <1>3, Remainder
<1>5. m \in Int /\ d * Stride = RingSlots * m
  <2>1. d * Stride \in Int
    BY <1>0, <1>3
  <2> QED
    BY <1>0, <1>3, <2>1, NoneLeftIsMultiple
<1> HIDE DEF q, r, m
<1>6. r = 0
  <2> SUFFICES ASSUME r # 0
               PROVE  FALSE
    OBVIOUS
  <2>1. r * Stride = RingSlots * (Stride - q * m)
    <3>1. r = RingSlots - d * q
      BY <1>0, <1>3, <1>4
    <3>2. r * Stride = RingSlots * Stride - q * (d * Stride)
      BY <1>0, <1>3, <1>4, <3>1
    <3>3. q * (d * Stride) = RingSlots * (q * m)
      BY <1>0, <1>3, <1>4, <1>5
    <3> QED
      BY <1>0, <1>4, <1>5, <3>2, <3>3
  <2>2. Stride - q * m \in Int
    BY <1>0, <1>4, <1>5
  <2>3. (r * Stride) % RingSlots = 0
    BY <1>0, <2>1, <2>2, MultipleLeavesNone
  <2>4. r \in 1..(RingSlots - 1)
    BY <1>0, <1>3, <1>4
  <2>5. d <= r
    BY <1>2, <2>3, <2>4
  <2> QED
    BY <1>3, <1>4, <2>5
<1>7. RingSlots = d * q
  BY <1>0, <1>3, <1>4, <1>6
<1>8. q \in 2..RingSlots
  <2>1. q > 1
    <3>1. CASE q <= 0
      <4>1. d * q <= 0
        BY <1>3, <1>4, <3>1
      <4> QED
        BY <1>0, <1>7, <4>1
    <3>2. CASE q = 1
      BY <1>0, <1>3, <1>7, <3>2
    <3> QED
      BY <1>4, <3>1, <3>2
  <2>2. d * q >= q
    BY <1>3, <1>4, <2>1
  <2> QED
    BY <1>0, <1>4, <1>7, <2>1, <2>2
<1>9. Stride = q * m
  <2>1. d * Stride = d * (q * m)
    BY <1>0, <1>3, <1>4, <1>5, <1>7
  <2> QED
    BY <1>0, <1>3, <1>4, <1>5, <2>1
<1>10. RingSlots % q = 0 /\ Stride % q = 0
  <2>1. (q * d) % q = 0
    BY <1>3, <1>8, MultipleLeavesNone
  <2>2. (q * m) % q = 0
    BY <1>5, <1>8, MultipleLeavesNone
  <2>3. q * d = RingSlots
    BY <1>3, <1>4, <1>7
  <2> QED
    BY <1>9, <2>1, <2>2, <2>3
<1> QED
  BY <1>8, <1>10, AppAssumption DEF Coprime

\* Two numbers less than a ring apart have slots of their own.
LEMMA SlotsDiffer ==
  ASSUME NEW m \in Nat, NEW n \in Nat, m < n, n - m < RingSlots
  PROVE  SlotFor(m) # SlotFor(n)
<1>0. RingSlots \in Nat \ {0} /\ Stride \in Nat
  BY AppAssumption
<1> SUFFICES ASSUME (m * Stride) % RingSlots = (n * Stride) % RingSlots
             PROVE  FALSE
  BY DEF SlotFor
<1> DEFINE x == m * Stride
           y == n * Stride
<1>1. x \in Int /\ y \in Int /\ (n - m) * Stride = y - x
  BY <1>0
<1>2. x % RingSlots = y % RingSlots
  OBVIOUS
<1> HIDE DEF x, y
<1>3. /\ x \div RingSlots \in Int /\ x = RingSlots * (x \div RingSlots) + (x % RingSlots)
      /\ y \div RingSlots \in Int /\ y = RingSlots * (y \div RingSlots) + (y % RingSlots)
      /\ x % RingSlots \in Int
  BY <1>0, <1>1, Remainder
<1>4. y - x = RingSlots * ((y \div RingSlots) - (x \div RingSlots))
  <2> DEFINE a == x \div RingSlots
             b == y \div RingSlots
             c == x % RingSlots
  <2>1. a \in Int /\ b \in Int /\ c \in Int /\ x = RingSlots * a + c /\ y = RingSlots * b + c
    BY <1>2, <1>3
  <2> HIDE DEF a, b, c
  <2>2. y - x = RingSlots * (b - a)
    BY <1>0, <2>1
  <2> QED
    BY <2>2 DEF a, b
<1>5. ((n - m) * Stride) % RingSlots = 0
  <2> DEFINE c == (y \div RingSlots) - (x \div RingSlots)
  <2>1. c \in Int /\ (n - m) * Stride = RingSlots * c
    BY <1>1, <1>3, <1>4
  <2> HIDE DEF c
  <2>2. (RingSlots * c) % RingSlots = 0
    BY <1>0, <2>1, MultipleLeavesNone
  <2> QED
    BY <2>1, <2>2
<1>6. n - m \in 1..(RingSlots - 1)
  BY <1>0
<1> QED
  BY <1>5, <1>6, WalkReturnsLate

\* Checkouts that write at the same time write different rows, on every ring the
\* constructor of StateService lets through.
THEOREM NeighboursKeepApart == Spec => []SlotsApart
<1>1. Init => TypeInv
  BY TypeInit
<1>2. TypeInv /\ [Next]_vars => TypeInv'
  BY TypeStep
<1>3. TypeInv => SlotsApart
  <2> SUFFICES ASSUME TypeInv, NEW t \in Thread, NEW u \in Thread,
                      num[t] < num[u], num[u] - num[t] < RingSlots
               PROVE  SlotFor(num[t]) # SlotFor(num[u])
    BY DEF SlotsApart
  <2>1. num[t] \in Nat /\ num[u] \in Nat
    BY DEF TypeInv, TypeOK
  <2> QED
    BY <2>1, SlotsDiffer
<1> QED
  BY <1>1, <1>2, <1>3, PTL DEF Spec

=============================================================================
