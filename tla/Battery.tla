------------------------------- MODULE Battery ------------------------------
(***************************************************************************)
(* Batteries as they come about, window by window: run directories of the  *)
(* paired design (bin/run.sh with RESTART=once) and the synthetic ones of  *)
(* analysis/make_fixture.py and analysis/make_validation_fixture.py, whose *)
(* cost per span and drift are known.  CPU is counted in units of 5 us.    *)
(***************************************************************************)
EXTENDS Reports

CONSTANTS
  Designs,    \* the sequences of arms a run may have
  Sources,    \* who writes cpu.json: "cgroup_delta" or "fixture"
  Drifts,     \* what a process's cost changes by per slot
  MaxReps,    \* runs of a battery
  MaxOdd,     \* windows of a battery that are not like the others
  MaxNoisy    \* those of them that cost a little more

ASSUME BatteryAssumption ==
  /\ \A d \in Designs : d \in Seq(Arm)
  /\ Drifts \subseteq Int

VARIABLES reps, design, source, drift

vars == <<reps, design, source, drift>>

Level == 384   \* the cell's cost per request without an agent, 1.92 ms
Noise == 12
CSpan == 12    \* C_SPAN_MS: the planted cost of a span
Spans == 1
Sampled == 2   \* what of it is left on the 25% arm: a half, where the code has 0.55
Tol == 1       \* TOL_US, a tenth of what is planted

\* The planted cost of the agent on an arm.
Planted(a) == IF a = Off THEN 0 ELSE IF a = 100 THEN CSpan * Spans ELSE (CSpan * Spans) \div Sampled

\* A window's place in time: the arms of a run follow each other evenly.
Time(slot) == 12 * slot

\* What a window costs, and how it was left: `fate` is "judged" for a window that
\* went as planned.  cgroup_delta.py knows no t0_ns, the fixtures write one.
WindowAt(slot, fate, noise, p) ==
  [arm |-> design[slot], slot |-> slot, pod |-> {p},
   ms |-> IF fate \in {"served nothing", "pod replaced"} THEN {}
          ELSE {Level + drift * slot + Planted(design[slot]) + noise},
   t0 |-> IF source = "fixture" THEN {Time(slot)} ELSE {},
   k6 |-> fate # "no summary",
   gate |-> CASE fate = "judged" -> "accepted"
              [] fate = "never judged" -> "absent"
              [] fate \in {"pod replaced", "count unread"} -> "traceback"
              [] OTHER -> "rejected",
   meta |-> fate \notin {"pod replaced", "count unread"},
   files |-> fate # "pod replaced",
   noisy |-> noise # 0, odd |-> fate # "judged"]

\* A rejected window keeps its figures; one without a served request has a null
\* figure; a kill leaves one unjudged; a pod replaced under a window, or a count
\* of restarts that could not be read, leaves a traceback in gate.json.
Fates == {"judged", "rejected", "served nothing", "no summary", "never judged", "count unread", "pod replaced"}

Count(P(_)) == Cardinality({x \in UNION {{n} \X DOMAIN reps[n] : n \in DOMAIN reps} : P(reps[x[1]][x[2]])})

Init ==
  /\ reps = <<<<>>>>
  /\ design \in Designs /\ source \in Sources /\ drift \in Drifts

\* The pod after a window that lost its own is another one.
PodNow(run) ==
  IF run = <<>> THEN 1
  ELSE LET w == run[Len(run)] IN IF w.gate = "traceback" /\ ~w.files THEN The(w.pod) + 1 ELSE The(w.pod)

\* The cluster may replace the pod before a window.
NextWindow(run, fate, noise, moved) ==
  [WindowAt(Len(run) + 1, fate, noise, PodNow(run) + moved) EXCEPT !.odd = @ \/ moved = 1]

\* The next window of the run.
Measure ==
  LET run == reps[Len(reps)] IN
  /\ Len(run) < Len(design)
  /\ \E fate \in Fates, noise \in {0, Noise}, moved \in {0, 1} :
       LET w == NextWindow(run, fate, noise, moved) IN
       /\ moved = 1 => run # <<>> /\ fate = "judged"
       /\ source = "fixture" => ~w.odd
       /\ w.odd \/ w.noisy => Count(LAMBDA v : v.odd \/ v.noisy) < MaxOdd
       /\ noise # 0 => Count(LAMBDA v : v.noisy) < MaxNoisy
       /\ reps' = [reps EXCEPT ![Len(reps)] = Append(run, w)]
  /\ UNCHANGED <<design, source, drift>>

\* The next repetition is a run of its own, on a process of its own.
Repeat ==
  /\ Len(reps) < MaxReps /\ Len(reps[Len(reps)]) = Len(design)
  /\ reps' = Append(reps, <<>>)
  /\ UNCHANGED <<design, source, drift>>

Next == Measure \/ Repeat

Spec == Init /\ [][Next]_vars

-----------------------------------------------------------------------------
\* The arms of make_fixture.py, all of its repetitions being there.
FixtureArms == <<Off, Off, 100, 25>>
Complete == Len(reps) = MaxReps /\ \A n \in DOMAIN reps : Len(reps[n]) = Len(design)

\* Squares of CPU figures leave TLC's integers: the pooled view is asked about
\* whole spans.
InSpans == [n \in DOMAIN reps |-> [i \in DOMAIN reps[n] |->
             [reps[n][i] EXCEPT !.ms = {m \div CSpan : m \in @}]]]

\* selftest.py, scenario: what it reports of a summary.  An interval of t df
\* around sum / n covers x when (sum - n x)^2 (n - 1) <= t^2 spread.
Scenario ==
  LET Halfwidth2(e) == TCrit(e.n - 1) * TCrit(e.n - 1) * e.spread    \* times 100 n^2 (n - 1)
      Off2(e, x) == 100 * (e.sum - e.n * x) * (e.sum - e.n * x) * (e.n - 1)
      Resolvable(e, x) == 100 * e.n * e.n * x * x * (e.n - 1) > Halfwidth2(e)
      Faults(e, want) ==
        IF e.n = 1 THEN {"no interval"}
        ELSE (IF Off2(e, want) > Halfwidth2(e) THEN {"planted outside"} ELSE {})
             \cup (IF Resolvable(e, want) /\ Abs(e.sum - e.n * want) > e.n * Tol
                   THEN {"not recovered"} ELSE {})
      Failures(a) ==
        LET faults == {Faults(e, Planted(a)) : e \in PairedEntry(reps, a)} IN
        {a} \X (IF faults = {} THEN {"no paired delta"} ELSE UNION faults)
      recovered == {d \in PooledDelta(InSpans, 100) :
                      d.resolved /\ d.delta = d.nOn * d.nOff * (Planted(100) \div CSpan)}
  IN UNION {Failures(a) : a \in {100, 25}}
     \cup (IF drift # 0 /\ recovered # {} THEN {<<100, "the pooled view recovered">>} ELSE {})

-----------------------------------------------------------------------------
\* The battery is of the published design as far as it went: every window is
\* judged, a repetition stays on its process, its baselines lead, and its agent
\* samples everything.
AsPublished ==
  \A n \in DOMAIN reps :
    LET W == Range(reps[n]) IN
    /\ \A w \in W : w.gate \in {"accepted", "rejected"} /\ w.k6 /\ w.arm \in {Off, 100}
    /\ Cardinality(PodsOf(reps[n])) <= 1
    /\ \A v, w \in W : v.arm = Off /\ w.arm # Off => v.slot < w.slot

\* "the same definition analysis/validate.py uses, so the two agree"
\* (summarize.py:13): on such a battery the table of validate.py, made of
\* summary.json, and the one of summarize.py, made of the CSV, rest on the same
\* baseline and the same added CPU per repetition, and so does the headline of
\* analyze.py, which looks at processes and at no gate of its own.
HeadlinesAgree ==
  AsPublished /\ ~ExportRaises(reps) =>
    /\ Validated(reps) = Summarized(reps)
    /\ Validated(reps) =
         UNION { {[rep |-> n, base |-> MeanMs(r.offs), delta |-> r.raw] : r \in PairedRows(reps[n], 100)} :
                 n \in DOMAIN reps }

\* What the gate rejected has no say: whatever a rejected window cost, every
\* comparison of every view stays what it is (analyze.py:172-249, 317, 377,
\* validate.py:55, summarize.py:30).
RejectedHasNoSay ==
  LET other == [n \in DOMAIN reps |-> [i \in DOMAIN reps[n] |->
                 IF reps[n][i].gate = "rejected" THEN [reps[n][i] EXCEPT !.ms = {m + 7 * Noise : m \in @}]
                 ELSE reps[n][i]]]
      Deltas2(r) == {<<e.on.slot, e.delta>> : e \in ValidBrackets(r)}
      Paired2(r, a) == {<<d.base, d.delta>> : d \in PairedRows(r, a) \cup DetachedRows(r)}
  IN other # reps =>
     /\ ~ValidateRaises(reps) => Validated(other) = Validated(reps)
     /\ Summarized(other) = Summarized(reps)
     /\ \A n \in {m \in DOMAIN reps : other[m] # reps[m]} :
          /\ Deltas2(other[n]) = Deltas2(reps[n])
          /\ \A a \in {100, 25} : Paired2(other[n], a) = Paired2(reps[n], a)

\* "The repetition is the independent unit" (analyze.py:394): the interval of an
\* arm is never narrowed by counting one process twice.
OneDeltaPerProcess ==
  \A a \in {100, 25} :
    \A e \in PairedEntry(reps, a) : e.n <=
      Cardinality(UNION {{n} \X UNION {w.pod : w \in Kind(Pooled(reps[n]), a)} : n \in DOMAIN reps})

\* analyze.py gets to write summary.json whatever windows were lost, unless a run
\* has an accepted instrumented window and no accepted baseline at all (an entry
\* of such a run is valid without a figure: analyze.py:186, 251-258).
FailsOnlyWithoutBaseline ==
  Summary(reps) = "raised" =>
    \E n \in DOMAIN reps : Kind(Pooled(reps[n]), Off) = {} /\ \E w \in Pooled(reps[n]) : w.arm # Off

\* selftest.py passes: of every complete synthetic battery, at most MaxNoisy of its
\* windows off by Noise, the paired interval covers what was planted, a resolvable
\* estimate lands on it, and with a trend the pooled view does not.
SelftestPasses ==
  source = "fixture" /\ design = FixtureArms /\ Complete => Scenario = {}

\* BASELINE_FIT removes the trend from the paired comparison (analyze.py:41,
\* selftest.py:17): with two baselines that went as planned and no noise, what is
\* left of an arm is what the agent costs.
TrendRemoved ==
  \A n \in DOMAIN reps, a \in {100, 25} :
    \A r \in PairedRows(reps[n], a) :
      Cardinality(r.offs) > 1 /\ (\A w \in r.offs \cup r.windows : ~w.noisy) => r.delta = Planted(a)

\* Two cells that differ by what a request's spans cost: the cost per span fitted
\* through both lies between the two cells' own, weighted or not (analyze.py:572).
FitBetweenCells ==
  LET spans == 8
      dearer == [n \in DOMAIN reps |-> [i \in DOMAIN reps[n] |->
                  IF reps[n][i].arm = 100 THEN [reps[n][i] EXCEPT !.ms = {m + (spans - 1) * CSpan : m \in @}]
                  ELSE reps[n][i]]]
      s == ModelPoint(reps, 100, Spans)
      l == ModelPoint(SubSeq(dearer, 1, 1), 100, spans) \cup
           (IF Len(reps) > 1 THEN ModelPoint(dearer, 100, spans) ELSE {})
  IN \A p \in s, q \in l : \A c \in {FitPoints({p, q})} :
       LET Below(x, y) == x.sum * y.n * y.spans <= y.sum * x.n * x.spans
           lo == IF Below(p, q) THEN p ELSE q
           hi == IF Below(p, q) THEN q ELSE p
       IN lo.sum * c.den <= c.num * lo.n * lo.spans /\ c.num * hi.n * hi.spans <= hi.sum * c.den

\* The Welch interval never takes more degrees of freedom than its windows have,
\* nor fewer than the smaller side's (analyze.py:300-304).
DfBounded ==
  \A d \in PooledDelta(InSpans, 100) : \A df \in d.df :
    Min({d.nOn, d.nOff}) - 1 <= df /\ df <= d.nOn + d.nOff - 2

\* A figure and a table of the same battery say the same: a row is drawn when the
\* table gives a range its verdict, as inside when the table does, and drawing
\* fails only for want of a second repetition (validation_figures.py:54, 160).
FigureAgreesWithTable ==
  ~ValidateRaises(reps) =>
  LET T == Validated(reps) IN
  /\ Figure(T) # {} <=> Verdict(T) \in {"IN RANGE", "OUTSIDE"}
  /\ \A r \in Figure(T) : r.inside = (Verdict(T) = "IN RANGE")
  /\ FigureRaises(Figure(T)) => Cardinality(T) = 1
=============================================================================
