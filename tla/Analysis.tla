------------------------------ MODULE Analysis ------------------------------
(***************************************************************************)
(* analysis/analyze.py: which windows of a battery are compared with which *)
(* and what is made of the differences.                                    *)
(*                                                                         *)
(* A run directory holds, per cell, a sequence of windows in slot order; a *)
(* battery is a sequence of runs.  One metric stands for all: ms, the CPU  *)
(* per request, an integer.  A value that may be missing is a set with at  *)
(* most one element.  Averages are taken of figures that divide evenly;    *)
(* variances stay sums of squares and are compared after multiplication.   *)
(***************************************************************************)
EXTENDS Gate, Sequences, SequencesExt, FiniteSetsExt

CONSTANTS
  BandLimit,   \* BAND_LIMIT_PCT
  BaselineFit  \* BASELINE_FIT

ASSUME AnalysisAssumption == BandLimit \in Nat /\ BaselineFit \in BOOLEAN

The(x) == CHOOSE v \in x : TRUE
Instrumented(run) == {w.arm : w \in {v \in Range(run) : v.k6}} \ {Off}

Total(f(_), S) == SumFunction([x \in S |-> f(x)])
Mean(f(_), S) == Total(f, S) \div Cardinality(S)

\* n times the sum of squares around the mean: n (n - 1) sd^2.
Spread(f(_), S) ==
  LET Square(x) == f(x) * f(x) IN Cardinality(S) * Total(Square, S) - Total(f, S) * Total(f, S)

Measured(W) == {w \in W : w.ms # {}}
Ms(w) == The(w.ms)
MeanMs(W) == Mean(Ms, Measured(W))

-----------------------------------------------------------------------------
\* load_arm: a slot without k6.json is no arm at all; "accepted" defaults to
\* True and only a gate.json that is JSON says otherwise.
AcceptsRow(w) == w.gate # "rejected"

LoadArms(run) == {i \in DOMAIN run : run[i].k6}

AcceptedArms(run) == {i \in LoadArms(run) : AcceptsRow(run[i])}
Pooled(run) == {run[i] : i \in AcceptedArms(run)}

\* Mutant: any uninstrumented neighbour will do.
MutNeighbours(run, i) ==
  LET offs == {j \in LoadArms(run) : run[j].arm = Off}
      before == {j \in offs : j < i}
      after  == {j \in offs : j > i}
  IN (IF before = {} THEN {} ELSE {Max(before)}) \cup (IF after = {} THEN {} ELSE {Min(after)})

\* neighbours: the nearest accepted uninstrumented arm on each side.
Neighbours(run, i) ==
  LET offs == {j \in AcceptedArms(run) : run[j].arm = Off}
      before == {j \in offs : j < i}
      after  == {j \in offs : j > i}
  IN (IF before = {} THEN {} ELSE {Max(before)}) \cup (IF after = {} THEN {} ELSE {Min(after)})

\* bracket: an entry without any baseline returns before a figure is looked
\* for.  The gap between two baselines, relative to their mean, is the band.
Bracket(run, i) ==
  LET base == {run[j] : j \in Neighbours(run, i)}
      figures == {Ms(w) : w \in Measured(base)}
      both == Cardinality(Measured(base)) = 2
      measured == run[i].ms # {} /\ figures # {}
      gap == Max(figures) - Min(figures)
  IN [on |-> run[i], baselines |-> base,
      delta |-> IF measured THEN {Ms(run[i]) - MeanMs(base)} ELSE {},
      gap   |-> IF measured /\ both THEN {gap} ELSE {},
      reasons |-> (IF Cardinality(base) < 2 THEN {"neighbour"} ELSE {})
             \cup (IF base # {} /\ ~measured THEN {"cpu"} ELSE {})
             \cup (IF measured /\ both /\ 100 * gap > BandLimit * MeanMs(base) THEN {"band"} ELSE {})]

BelowBand(r) == \E d \in r.delta, g \in r.gap : Abs(d) < g

\* same_pod_rep: one pod name over all the arms whose meta.json is JSON.
SamePodRep(run) == Cardinality({run[i].pod : i \in {j \in LoadArms(run) : run[j].meta}}) = 1

\* load_run: the bracket entries of the accepted instrumented arms, and which
\* are valid: when every arm ran on one pod the neighbour rule is lifted.
Entries(run) == {Bracket(run, i) : i \in {j \in AcceptedArms(run) : run[j].arm # Off}}

\* Mutant: a run on one pod is valid whatever the reasons.
MutLifted(run) == IF SamePodRep(run) THEN {"neighbour", "band", "cpu"} ELSE {}
Lifted(run) == IF SamePodRep(run) THEN {"neighbour"} ELSE {}

ValidBrackets(run) == {r \in Entries(run) : r.reasons \ Lifted(run) = {}}

\* aggregate: the valid entries of an arm over the runs; a star says that each
\* is below its own drift band.
Aggregate(reps, a) ==
  LET valid == {x \in UNION {{n} \X ValidBrackets(reps[n]) : n \in DOMAIN reps} : x[2].on.arm = a}
  IN [valid |-> valid, deltas |-> {x \in valid : x[2].delta # {}},
      star  |-> valid # {} /\ \A x \in valid : x[2].delta # {} => BelowBand(x[2])]

-----------------------------------------------------------------------------
\* T975 to the tenth: two-sided 95% Student t, df 1..30, then 1.96.
T975 == <<127, 43, 32, 28, 26, 24, 24, 23, 23, 22, 22, 22, 22, 21, 21, 21, 21, 21, 21, 21,
          21, 21, 21, 21, 21, 21, 21, 20, 20, 20>>
TCrit(df) ==
  LET n == Max({1, df}) IN IF n <= Len(T975) THEN T975[n] ELSE 20

\* Mutant: the variance of a mean divided by n where Satterthwaite has n - 1.
MutWelchDf(a, b, m, n) ==
  IF a + b = 0 THEN m + n - 2
  ELSE ((a + b) * (a + b) * m * n) \div (a * a * n + b * b * m)

\* The Welch degrees of freedom of two variances of means a/D and b/D.
WelchDf(a, b, m, n) ==
  IF a + b = 0 THEN m + n - 2
  ELSE ((a + b) * (a + b) * (m - 1) * (n - 1)) \div (a * a * (n - 1) + b * b * (m - 1))

\* Of pairs of a run and a window.
SumMs(S) == LET F(x) == Ms(x[2]) IN Total(F, S)
SpreadMs(S) == LET F(x) == Ms(x[2]) IN Spread(F, S)

\* welch: the difference of the means of two kinds of windows, and with two of
\* each whether its 95% interval excludes 0.
Welch(on, off) ==
  LET m == Cardinality(on)  n == Cardinality(off)
      scaled == SumMs(on) * n - SumMs(off) * m        \* the delta, times m n
      a == SpreadMs(on) * n * n * (n - 1)             \* v1 and v2, times m^2 n^2 (m-1) (n-1)
      b == SpreadMs(off) * m * m * (m - 1)
      df == WelchDf(a, b, m, n)
  IN IF on = {} \/ off = {} THEN {}
     ELSE {[nOn |-> m, nOff |-> n, delta |-> scaled,
            df |-> IF m < 2 \/ n < 2 THEN {} ELSE {df},
            resolved |-> m >= 2 /\ n >= 2
              /\ 100 * scaled * scaled * (m - 1) * (n - 1) > TCrit(df) * TCrit(df) * (a + b)]}

\* pooled: every accepted arm of the cell across all runs, by kind.
PooledDelta(reps, a) ==
  LET Kind(k) == UNION {{n} \X {w \in Measured(Pooled(reps[n])) : w.arm = k} : n \in DOMAIN reps}
  IN Welch(Kind(a), Kind(Off))

-----------------------------------------------------------------------------
\* paired: the accepted windows of a pod, by name.
OnPod(run, p) == {w \in Pooled(run) : w.meta /\ w.pod = {p}}
PodsOf(run) == UNION {w.pod : w \in {v \in Pooled(run) : v.meta}}

\* Mutant: every uninstrumented window on the pod is its baseline.
MutLeading(W) == {w \in W : w.arm = Off}

\* The uninstrumented windows before the first instrumented one, and the ones
\* after it, which are reported as "detached" and are nobody's baseline.
Leading(W) == {w \in W : w.arm = Off /\ \A v \in W : v.arm # Off => w.slot < v.slot}
Trailing(W) == {w \in W : w.arm = Off} \ Leading(W)

\* The line through the baselines, at the time of the comparison.
MeanT0(W) == LET T(w) == The(w.t0) IN Mean(T, W)
Fitted(offs, t) ==
  LET F == Measured(offs)
      mx == MeanT0(F)
      XX(w) == (The(w.t0) - mx) * (The(w.t0) - mx)
      XY(w) == (The(w.t0) - mx) * (Ms(w) - MeanMs(F))
  IN IF /\ t # {} /\ \A w \in F : w.t0 # {}
        /\ Cardinality({w.t0 : w \in F}) > 1
     THEN {MeanMs(F) + (Total(XY, F) * (The(t) - mx)) \div Total(XX, F)}
     ELSE {}

\* Mutant: the fitted line is asked for its value in the middle of the baselines.
MutDiffer(W, offs) ==
  LET base == MeanMs(offs)
  IN [windows |-> W, offs |-> offs, base |-> base, raw |-> MeanMs(W) - base, delta |-> MeanMs(W) - base]

\* One difference: the mean of the windows W, taken as one, against the mean of
\* the baselines, or against the line through them.
Differ(W, offs) ==
  LET timed == {w \in W : w.t0 # {}}
      fitted == Fitted(offs, IF timed = {} THEN {} ELSE {MeanT0(timed)})
      base == MeanMs(offs)
      used == IF BaselineFit /\ fitted # {} THEN The(fitted) ELSE base
  IN [windows |-> W, offs |-> offs, base |-> used, raw |-> MeanMs(W) - base, delta |-> MeanMs(W) - used]

\* Mutant: every window is a difference of its own.
MutPairedRows(run, a) ==
  UNION { {Differ({w}, Leading(OnPod(run, p))) : w \in {v \in OnPod(run, p) : v.arm = a /\ v.ms # {}}} :
          p \in {q \in PodsOf(run) : Measured(Leading(OnPod(run, q))) # {}} }

\* A pod's windows of one kind are one difference: "the repetition is the
\* independent unit".  A pod without a leading baseline is skipped.
PairedRows(run, a) ==
  LET Kind(p) == {w \in OnPod(run, p) : w.arm = a}
  IN { Differ(Kind(p), Leading(OnPod(run, p))) :
         p \in {q \in PodsOf(run) : Measured(Kind(q)) # {} /\ Measured(Leading(OnPod(run, q))) # {}} }

DetachedRows(run) ==
  UNION { {Differ({t}, Leading(OnPod(run, p))) : t \in Measured(Trailing(OnPod(run, p)))} :
          p \in {q \in PodsOf(run) : Measured(Leading(OnPod(run, q))) # {}} }

Skipped(run) ==
  {p \in PodsOf(run) : Leading(OnPod(run, p)) = {} /\ \E w \in OnPod(run, p) : w.arm # Off}

\* Of pairs of a run and a difference.
SumDeltas(rows) == LET D(x) == x[2].delta IN Total(D, rows)
SpreadDeltas(rows) == LET D(x) == x[2].delta IN Spread(D, rows)
SumBases(rows) == LET B(x) == x[2].base IN Total(B, rows)

\* The entry of an arm over all runs, if there is a difference: n of them, their
\* sum and spread, the sum of their baselines; with two or more, whether the t
\* interval excludes 0.
PairedEntry(reps, a) ==
  LET Resolved(n, sum, s) == n > 1 /\ 100 * sum * sum * (n - 1) > TCrit(n - 1) * TCrit(n - 1) * s
  IN { [n |-> Cardinality(rows), sum |-> SumDeltas(rows), bases |-> SumBases(rows), spread |-> SpreadDeltas(rows),
        resolved |-> Resolved(Cardinality(rows), SumDeltas(rows), SpreadDeltas(rows))] :
         rows \in {UNION {{n} \X PairedRows(reps[n], a) : n \in DOMAIN reps}} \ {{}} }

-----------------------------------------------------------------------------
\* fit_model_paired: a point per cell that has a difference, its squared standard
\* error spread / (n^2 (n - 1)).
ModelPoint(reps, a, spans) ==
  {[spans |-> spans, n |-> e.n, sum |-> e.sum, spread |-> e.spread] : e \in {x \in PairedEntry(reps, a) : spans # 0}}

\* Mutant: the weighted sum of the spans is taken for that of their squares.
MutFitPoints(pts) ==
  LET XX(p) == p.n * p.spans   XY(p) == p.spans * p.sum
  IN [num |-> Total(XY, pts), den |-> Total(XX, pts)]

\* fit_points: delta = c * spans through the origin, weighted by 1/se^2 when every
\* point has one that is not 0.  c is num / den; a point's delta is sum / n.
FitPoints(pts) ==
  LET weighted == \A p \in pts : p.n > 1 /\ p.spread > 0
      Others(p) == FoldSet(LAMBDA q, acc : acc * q.spread, 1, pts \ {p})
      Counts(p) == FoldSet(LAMBDA q, acc : acc * q.n, 1, pts \ {p})
      W(p) == IF weighted THEN p.n * p.n * (p.n - 1) * Others(p) ELSE 1
      all  == FoldSet(LAMBDA q, acc : acc * q.n, 1, pts)
      XX(p) == W(p) * p.spans * p.spans
      XY(p) == W(p) * p.spans * p.sum * Counts(p)
  IN [num |-> Total(XY, pts), den |-> all * Total(XX, pts)]

-----------------------------------------------------------------------------
\* print_aggregate: the figures of an arm that has a valid entry are formatted,
\* and formatting a median nobody computed raises.
PrintFails(reps) ==
  \E a \in UNION {Instrumented(reps[n]) : n \in DOMAIN reps} :
    LET agg == Aggregate(reps, a) IN agg.valid # {} /\ agg.deltas = {}

\* main: nothing usable ends it, and a printer that raises does so before
\* summary.json is written.
Summary(reps) ==
  IF \A n \in DOMAIN reps : LoadArms(reps[n]) = {} THEN "no usable arms"
  ELSE IF PrintFails(reps) THEN "raised" ELSE "written"
=============================================================================
