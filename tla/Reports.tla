------------------------------- MODULE Reports ------------------------------
(***************************************************************************)
(* The reports made of a battery, a sequence of run directories of one     *)
(* cell: analysis/validate.py (from analyze.py's summary.json),            *)
(* analysis/export_csv.py and analysis/summarize.py (from the files        *)
(* themselves), and the figures of analysis/validation_figures.py.         *)
(*                                                                         *)
(* To the fields that Analysis reads, a window adds `files`: cpu.json, its *)
(* halves and sink.json are JSON, even where the figure in them is null.   *)
(***************************************************************************)
EXTENDS Analysis

\* A cell of PREDICTIONS.md: the bucket its CPU per request is meant to lie in,
\* and the range of overheads published for that bucket, in tenths of a percent.
CONSTANTS BucketLo, BucketHi, RangeLo, RangeHi

ASSUME ReportsAssumption ==
  /\ BucketLo \in Nat /\ BucketHi \in Nat /\ BucketLo < BucketHi
  /\ RangeLo \in Nat /\ RangeHi \in Nat /\ RangeLo <= RangeHi

Kind(W, a) == {w \in W : w.arm = a}

\* A repetition's baseline and what the instrumented windows add to it, for every
\* repetition that has windows on both sides.
PerRep(reps, Offs(_), Ons(_)) ==
  { [rep |-> n, base |-> MeanMs(Offs(n)), delta |-> MeanMs(Ons(n)) - MeanMs(Offs(n))] :
      n \in {m \in DOMAIN reps : Offs(m) # {} /\ Ons(m) # {}} }

Bases(T) == LET B(t) == t.base IN Total(B, T)
Deltas(T) == LET D(t) == t.delta IN Total(D, T)

\* The overhead is the mean of the added CPU over the mean baseline.
InRange(T) == RangeLo * Bases(T) <= 1000 * Deltas(T) /\ 1000 * Deltas(T) <= RangeHi * Bases(T)
InBucket(T) ==
  BucketLo * Cardinality(T) <= Bases(T) /\ Bases(T) < BucketHi * Cardinality(T)

-----------------------------------------------------------------------------
\* validate.py takes the arms as analyze.py loaded them.
TakenByValidate(reps, n, a) == Kind(Pooled(reps[n]), a)

\* load: the figure of every accepted off and 100% arm is read, on whatever pod
\* and in whatever order they ran; one without a figure raises.
ValidateRaises(reps) ==
  \E n \in DOMAIN reps : \E w \in TakenByValidate(reps, n, Off) \cup TakenByValidate(reps, n, 100) : w.ms = {}

Validated(reps) ==
  PerRep(reps, LAMBDA n : TakenByValidate(reps, n, Off), LAMBDA n : TakenByValidate(reps, n, 100))

\* main: a bucket cell whose measured baseline has left the bucket is compared
\* with no range.
Verdict(T) ==
  IF T = {} THEN "no data"
  ELSE IF ~InBucket(T) THEN "INVALID" ELSE IF InRange(T) THEN "IN RANGE" ELSE "OUTSIDE"

-----------------------------------------------------------------------------
\* Mutant: a window the gate did not accept is exported like one it did.
MutExported(run) == {[w |-> w, on |-> w.arm # Off, accepted |-> TRUE] : w \in {v \in Range(run) : v.k6 /\ v.files}}

\* rows: a window is a row when every file it needs is there and JSON.  A slot
\* whose name does not end in "-off" is instrumented, whatever its percentage.
Exported(run) ==
  { [w |-> w, on |-> w.arm # Off, accepted |-> w.gate = "accepted"] :
      w \in {v \in Range(run) : v.k6 /\ v.files /\ v.gate \in {"accepted", "rejected"}} }

\* Rounding a figure that is null raises, for a rejected window as well.
ExportRaises(reps) == \E n \in DOMAIN reps : \E r \in Exported(reps[n]) : r.w.ms = {}

\* summarize.py reads the rows back, accepted ones only.
Rows(reps, n, on) == {r.w : r \in {x \in Exported(reps[n]) : x.accepted /\ x.on = on}}

Summarized(reps) == PerRep(reps, LAMBDA n : Rows(reps, n, FALSE), LAMBDA n : Rows(reps, n, TRUE))

\* Its table has the published range but not the bucket.
SummarizedVerdict(T) == IF T = {} THEN "no pair" ELSE IF InRange(T) THEN "in range" ELSE "OUTSIDE"

-----------------------------------------------------------------------------
\* Mutant: the baseline is not held against the bucket.
MutFigure(T) == IF T = {} THEN {} ELSE {[inside |-> InRange(T), interval |-> Cardinality(T) > 1]}

\* validation_figures.py: a row is drawn for a bucket cell inside its bucket, and
\* an interval with it when there are two repetitions.
Figure(T) ==
  IF T = {} \/ ~InBucket(T) THEN {}
  ELSE {[inside |-> InRange(T), interval |-> Cardinality(T) > 1]}

\* bucket_verdict: the axis starts below the lowest interval, and the lowest of
\* none raises.
FigureRaises(rows) == rows # {} /\ \A r \in rows : ~r.interval
=============================================================================
