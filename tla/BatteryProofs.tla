---------------------------- MODULE BatteryProofs ----------------------------
(***************************************************************************)
(* What the views of a battery say, of every battery: of any designs, any  *)
(* trend, any number of runs and of windows that did not go as planned.    *)
(***************************************************************************)
EXTENDS Battery, FiniteSums

-----------------------------------------------------------------------------
(***************************************************************************)
(* The shape of a battery.                                                 *)
(***************************************************************************)

Window ==
  [arm : Arm, slot : Nat, pod : {{p} : p \in Nat}, ms : {{}} \cup {{m} : m \in Int},
   t0 : {{}} \cup {{t} : t \in Nat}, k6 : BOOLEAN, gate : {"accepted", "rejected", "absent", "traceback"},
   meta : BOOLEAN, files : BOOLEAN, noisy : BOOLEAN, odd : BOOLEAN]

\* The gate says nothing of a window whose meta.json or figures are not JSON.
Whole(w) == w.gate \in {"accepted", "rejected"} => w.meta /\ w.files

ShapeInv ==
  /\ design \in Seq(Arm) /\ drift \in Int
  /\ reps \in Seq(Seq(Window)) /\ Len(reps) > 0
  /\ \A n \in DOMAIN reps : \A i \in DOMAIN reps[n] : Whole(reps[n][i])

\* A window is one, however it ended.
LEMMA WindowShape ==
  ASSUME ShapeInv, NEW slot \in DOMAIN design, NEW fate \in Fates, NEW noise \in {0, Noise}, NEW p \in Nat
  PROVE  WindowAt(slot, fate, noise, p) \in Window /\ Whole(WindowAt(slot, fate, noise, p))
<1> DEFINE w == WindowAt(slot, fate, noise, p)
<1>1. slot \in Nat /\ design[slot] \in Arm /\ Time(slot) \in Nat
  BY DEF ShapeInv, Time
<1>2. Level + drift * slot + Planted(design[slot]) + noise \in Int
  BY <1>1 DEF ShapeInv, Level, Planted, CSpan, Spans, Sampled, Noise
<1>3. w.ms \in {{}} \cup {{m} : m \in Int}
  <2>1. CASE fate \in {"served nothing", "pod replaced"}
    BY <2>1 DEF WindowAt
  <2>2. CASE fate \notin {"served nothing", "pod replaced"}
    <3> DEFINE ms == Level + drift * slot + Planted(design[slot]) + noise
    <3>1. w.ms = {ms}
      BY <2>2 DEF WindowAt
    <3>2. ms \in Int
      BY <1>2
    <3> HIDE DEF ms, w
    <3> QED
      BY <3>1, <3>2
  <2> QED
    BY <2>1, <2>2
<1>4. w.t0 \in {{}} \cup {{t} : t \in Nat} /\ w.pod \in {{q} : q \in Nat} /\ w.arm \in Arm /\ w.slot \in Nat
  BY <1>1 DEF WindowAt
<1>5. w.gate \in {"accepted", "rejected", "absent", "traceback"}
  BY DEF WindowAt, Fates
<1>6. w.k6 \in BOOLEAN /\ w.meta \in BOOLEAN /\ w.files \in BOOLEAN /\ w.noisy \in BOOLEAN /\ w.odd \in BOOLEAN
  BY Zenon DEF WindowAt
<1>7. w = [arm |-> w.arm, slot |-> w.slot, pod |-> w.pod, ms |-> w.ms, t0 |-> w.t0, k6 |-> w.k6, gate |-> w.gate,
           meta |-> w.meta, files |-> w.files, noisy |-> w.noisy, odd |-> w.odd]
  BY Zenon DEF WindowAt
<1>8. w \in Window
  <2> HIDE DEF w
  <2> QED
    BY <1>3, <1>4, <1>5, <1>6, <1>7, Zenon DEF Window
<1>9. Whole(w)
  BY DEF WindowAt, Whole, Fates
<1> QED
  BY <1>8, <1>9

LEMMA PodNowNat == ASSUME ShapeInv, NEW run \in Seq(Window) PROVE PodNow(run) \in Nat
<1>1. CASE run = <<>>
  BY <1>1 DEF PodNow
<1>2. CASE run # <<>>
  <2>1. run[Len(run)] \in Window
    BY <1>2
  <2>2. PICK p \in Nat : run[Len(run)].pod = {p}
    BY <2>1 DEF Window
  <2>3. The(run[Len(run)].pod) = p
    BY <2>2 DEF The
  <2> QED
    BY <1>2, <2>2, <2>3 DEF PodNow
<1> QED
  BY <1>1, <1>2

LEMMA ShapeInvariant == Spec => []ShapeInv
<1>1. Init => ShapeInv
  BY BatteryAssumption DEF Init, ShapeInv
<1>2. ASSUME ShapeInv, [Next]_vars PROVE ShapeInv'
  <2>1. CASE Measure
    <3> DEFINE last == Len(reps)  run == reps[last]  slot == Len(run) + 1
    <3>1. PICK fate \in Fates, noise \in {0, Noise}, moved \in {0, 1} :
            reps' = [reps EXCEPT ![last] = Append(run, NextWindow(run, fate, noise, moved))]
      BY <2>1 DEF Measure
    <3> DEFINE p == PodNow(run) + moved  w == WindowAt(slot, fate, noise, p)  odd == [w EXCEPT !.odd = @ \/ moved = 1]
    <3>2. last \in DOMAIN reps /\ run \in Seq(Window)
      BY <1>2 DEF ShapeInv
    <3>3. slot \in DOMAIN design
      BY <1>2, <2>1, <3>2 DEF Measure, ShapeInv
    <3>4. p \in Nat
      BY <1>2, <3>2, PodNowNat
    <3>5. w \in Window /\ Whole(w)
      BY <1>2, <3>3, <3>4, WindowShape
    <3>6. odd \in Window /\ Whole(odd)
      <4>1. (w.odd \/ moved = 1) \in BOOLEAN
        BY Zenon
      <4> HIDE DEF w
      <4>2. odd \in Window
        BY <3>5, <4>1, Zenon DEF Window
      <4>3. odd.gate = w.gate /\ odd.meta = w.meta /\ odd.files = w.files
        BY <3>5 DEF Window
      <4> QED
        BY <3>5, <4>2, <4>3, Zenon DEF Whole
    <3> HIDE DEF odd, last, run
    <3>7. reps' = [reps EXCEPT ![last] = Append(run, odd)]
      BY <3>1 DEF odd, last, run, NextWindow
    <3>8. Append(run, odd) \in Seq(Window) /\ \A i \in DOMAIN Append(run, odd) : Whole(Append(run, odd)[i])
      <4>1. \A i \in DOMAIN run : Whole(run[i])
        BY <1>2, <3>2 DEF ShapeInv, run
      <4> QED
        BY <3>2, <3>6, <4>1
    <3>9. reps' \in Seq(Seq(Window)) /\ Len(reps') = Len(reps) /\ DOMAIN reps' = DOMAIN reps
      BY <1>2, <3>2, <3>7, <3>8 DEF ShapeInv
    <3>10. \A n \in DOMAIN reps' : \A i \in DOMAIN reps'[n] : Whole(reps'[n][i])
      BY <1>2, <3>2, <3>7, <3>8, <3>9 DEF ShapeInv
    <3> QED
      BY <1>2, <2>1, <3>9, <3>10 DEF ShapeInv, Measure
  <2>2. CASE Repeat
    <3>1. reps' = Append(reps, <<>>) /\ <<>> \in Seq(Window)
      BY <2>2 DEF Repeat
    <3>2. reps' \in Seq(Seq(Window)) /\ Len(reps') = Len(reps) + 1
          /\ \A n \in DOMAIN reps' : IF n \in DOMAIN reps THEN reps'[n] = reps[n] ELSE reps'[n] = <<>>
      BY <1>2, <3>1 DEF ShapeInv
    <3>3. \A n \in DOMAIN reps' : \A i \in DOMAIN reps'[n] : Whole(reps'[n][i])
      BY <1>2, <3>2 DEF ShapeInv
    <3> QED
      BY <1>2, <2>2, <3>2, <3>3 DEF ShapeInv, Repeat
  <2>3. CASE UNCHANGED vars
    BY <1>2, <2>3 DEF ShapeInv, vars
  <2> QED
    BY <1>2, <2>1, <2>2, <2>3 DEF Next
<1> QED
  BY <1>1, <1>2, PTL DEF Spec

\* Slots, runs and windows have numbers.
LEMMA Numbered ==
  ASSUME ShapeInv, NEW n \in DOMAIN reps
  PROVE  DOMAIN reps[n] \subseteq Nat /\ \A i \in DOMAIN reps[n] : reps[n][i] \in Window
  BY DEF ShapeInv

-----------------------------------------------------------------------------
(***************************************************************************)
(* The printer.                                                            *)
(***************************************************************************)

\* A window that is not a baseline itself has one beside it as soon as there is one.
LEMMA SomeNeighbour ==
  ASSUME NEW run, DOMAIN run \subseteq Nat,
         NEW i \in AcceptedArms(run), NEW j \in AcceptedArms(run), run[i].arm # Off, run[j].arm = Off
  PROVE  Neighbours(run, i) # {}
<1>1. i \in Nat /\ j \in Nat /\ (j < i \/ j > i)
  BY DEF AcceptedArms, LoadArms
<1> QED
  BY <1>1 DEF Neighbours

\* A valid comparison without a figure has no baseline.
LEMMA ValidWithoutFigure ==
  ASSUME NEW run, NEW i, Bracket(run, i).delta = {}, Bracket(run, i).reasons \ Lifted(run) = {}
  PROVE  Neighbours(run, i) = {}
<1> DEFINE base == {run[j] : j \in Neighbours(run, i)}
           measured == run[i].ms # {} /\ {Ms(w) : w \in Measured(base)} # {}
<1>1. ~measured
  <2>1. Bracket(run, i).delta = IF measured THEN {Ms(run[i]) - MeanMs(base)} ELSE {}
    BY Zenon DEF Bracket
  <2> HIDE DEF measured, base
  <2> QED
    BY <2>1
<1>2. base # {} /\ ~measured => "cpu" \in Bracket(run, i).reasons
  <2>1. (IF base # {} /\ ~measured THEN {"cpu"} ELSE {}) \subseteq Bracket(run, i).reasons
    BY Zenon DEF Bracket
  <2> HIDE DEF measured, base
  <2> QED
    BY <2>1
<1>3. "cpu" \notin Lifted(run)
  BY DEF Lifted
<1>4. base = {}
  <2> HIDE DEF measured, base
  <2> QED
    BY <1>1, <1>2, <1>3
<1> QED
  BY <1>4

\* analyze.py writes its summary unless a run has an accepted instrumented window
\* and no accepted baseline at all, however the other windows ended.
THEOREM RaisesOnlyWithoutBaseline == Spec => []FailsOnlyWithoutBaseline
<1>1. ShapeInv => FailsOnlyWithoutBaseline
  <2> SUFFICES ASSUME ShapeInv, Summary(reps) = "raised"
               PROVE  \E n \in DOMAIN reps : Kind(Pooled(reps[n]), Off) = {} /\ \E w \in Pooled(reps[n]) : w.arm # Off
    BY DEF FailsOnlyWithoutBaseline
  <2>1. PrintFails(reps)
    BY DEF Summary
  <2>2. PICK a : Aggregate(reps, a).valid # {} /\ Aggregate(reps, a).deltas = {}
    BY <2>1 DEF PrintFails
  <2> DEFINE valid == {x \in UNION {{n} \X ValidBrackets(reps[n]) : n \in DOMAIN reps} : x[2].on.arm = a}
  <2>3. valid # {} /\ {x \in valid : x[2].delta # {}} = {}
    <3>1. Aggregate(reps, a).valid = valid /\ Aggregate(reps, a).deltas = {x \in valid : x[2].delta # {}}
      BY Zenon DEF Aggregate
    <3> QED
      BY <2>2, <3>1
  <2>4. PICK x \in valid : x[2].delta = {}
    BY <2>3
  <2>5. PICK n \in DOMAIN reps : x[2] \in ValidBrackets(reps[n])
    BY <2>4
  <2> DEFINE run == reps[n]
  <2>6. PICK i \in AcceptedArms(run) : run[i].arm # Off /\ x[2] = Bracket(run, i) /\ Bracket(run, i).reasons \ Lifted(run) = {}
    BY <2>5 DEF ValidBrackets, Entries
  <2>7. Neighbours(run, i) = {}
    BY <2>4, <2>6, ValidWithoutFigure
  <2>8. DOMAIN run \subseteq Nat
    BY Numbered
  <2>9. \A j \in AcceptedArms(run) : run[j].arm # Off
    BY <2>6, <2>7, <2>8, SomeNeighbour
  <2> QED
    BY <2>6, <2>9 DEF Pooled, Kind
<1> QED
  BY <1>1, ShapeInvariant, PTL

-----------------------------------------------------------------------------
(***************************************************************************)
(* Rejected windows.                                                       *)
(***************************************************************************)

\* Two runs are alike when they differ in what rejected windows cost.
Alike(run, alt) ==
  /\ DOMAIN alt = DOMAIN run
  /\ \A i \in DOMAIN run :
       /\ run[i].gate # "rejected" => alt[i] = run[i]
       /\ alt[i].gate = run[i].gate /\ alt[i].k6 = run[i].k6 /\ alt[i].arm = run[i].arm
       /\ alt[i].pod = run[i].pod /\ alt[i].meta = run[i].meta

\* They have the same accepted windows,
LEMMA AlikeAccepted ==
  ASSUME NEW run, NEW alt, Alike(run, alt)
  PROVE  /\ LoadArms(alt) = LoadArms(run) /\ AcceptedArms(alt) = AcceptedArms(run)
         /\ \A i \in AcceptedArms(run) : alt[i] = run[i]
         /\ Pooled(alt) = Pooled(run)
<1>1. LoadArms(alt) = LoadArms(run)
  BY DEF Alike, LoadArms
<1>2. AcceptedArms(alt) = AcceptedArms(run) /\ \A i \in AcceptedArms(run) : alt[i] = run[i]
  BY <1>1 DEF Alike, LoadArms, AcceptedArms, AcceptsRow
<1>3. Pooled(alt) = Pooled(run)
  BY <1>2 DEF Pooled
<1> QED
  BY <1>1, <1>2, <1>3

\* A neighbour is an accepted baseline,
LEMMA NeighboursAmongAccepted ==
  ASSUME NEW run, NEW n \in Nat, DOMAIN run = 1..n, NEW i
  PROVE  Neighbours(run, i) \subseteq {j \in AcceptedArms(run) : run[j].arm = Off}
<1> DEFINE offs == {j \in AcceptedArms(run) : run[j].arm = Off}
           before == {j \in offs : j < i}
           after == {j \in offs : j > i}
<1>1. offs \subseteq Nat /\ \A j \in offs : j <= n
  BY DEF AcceptedArms, LoadArms
<1>2. before # {} => Max(before) \in before
  <2>1. before \in SUBSET Nat /\ \A j \in before : j <= n
    BY <1>1
  <2> HIDE DEF before
  <2> QED
    BY <2>1, Extremes
<1>3. after # {} => Min(after) \in after
  <2>1. after \in SUBSET Nat
    BY <1>1
  <2> HIDE DEF after
  <2> QED
    BY <2>1, Extremes
<1>4. Neighbours(run, i) = (IF before = {} THEN {} ELSE {Max(before)}) \cup (IF after = {} THEN {} ELSE {Min(after)})
  BY Zenon DEF Neighbours
<1> HIDE DEF offs
<1>5. Neighbours(run, i) \subseteq offs
  BY <1>2, <1>3, <1>4
<1> QED
  BY <1>5 DEF offs

\* the same valid comparisons,
LEMMA AlikeBrackets ==
  ASSUME NEW run, NEW alt, Alike(run, alt), NEW n \in Nat, DOMAIN run = 1..n
  PROVE  ValidBrackets(alt) = ValidBrackets(run)
<1>1. /\ LoadArms(alt) = LoadArms(run) /\ AcceptedArms(alt) = AcceptedArms(run)
      /\ \A i \in AcceptedArms(run) : alt[i] = run[i]
  BY AlikeAccepted
<1>2. ASSUME NEW i PROVE Neighbours(alt, i) = Neighbours(run, i)
  <2>1. {j \in AcceptedArms(alt) : alt[j].arm = Off} = {j \in AcceptedArms(run) : run[j].arm = Off}
    BY <1>1
  <2> QED
    BY <2>1, Zenon DEF Neighbours
<1>3. ASSUME NEW i \in AcceptedArms(run) PROVE Bracket(alt, i) = Bracket(run, i)
  <2>1. {alt[j] : j \in Neighbours(alt, i)} = {run[j] : j \in Neighbours(run, i)}
    BY <1>1, <1>2, NeighboursAmongAccepted
  <2>2. alt[i] = run[i]
    BY <1>1
  <2> QED
    BY <2>1, <2>2, Zenon DEF Bracket
<1>4. Entries(alt) = Entries(run)
  <2>1. {j \in AcceptedArms(alt) : alt[j].arm # Off} = {j \in AcceptedArms(run) : run[j].arm # Off}
    BY <1>1
  <2> QED
    BY <1>3, <2>1 DEF Entries
<1>5. Lifted(alt) = Lifted(run)
  <2>1. {alt[i].pod : i \in {j \in LoadArms(alt) : alt[j].meta}} = {run[i].pod : i \in {j \in LoadArms(run) : run[j].meta}}
    BY <1>1 DEF Alike, LoadArms
  <2> QED
    BY <2>1, Zenon DEF Lifted, SamePodRep
<1> QED
  BY <1>4, <1>5, Zenon DEF ValidBrackets

\* the same paired differences and detached windows.
LEMMA AlikePairs ==
  ASSUME NEW run, NEW alt, Alike(run, alt)
  PROVE  DetachedRows(alt) = DetachedRows(run) /\ \A a : PairedRows(alt, a) = PairedRows(run, a)
<1>1. Pooled(alt) = Pooled(run)
  BY AlikeAccepted
<1>2. PodsOf(alt) = PodsOf(run) /\ \A p : OnPod(alt, p) = OnPod(run, p)
  BY <1>1, Zenon DEF PodsOf, OnPod
<1>3. DetachedRows(alt) = DetachedRows(run)
  <2> DEFINE D(r, p) == {Differ({t}, Leading(OnPod(r, p))) : t \in Measured(Trailing(OnPod(r, p)))}
             Q(r) == {q \in PodsOf(r) : Measured(Leading(OnPod(r, q))) # {}}
  <2>1. \A r : DetachedRows(r) = UNION {D(r, p) : p \in Q(r)}
    BY Zenon DEF DetachedRows
  <2>2. \A p : D(alt, p) = D(run, p)
    BY <1>2
  <2>3. Q(alt) = Q(run)
    BY <1>2
  <2> HIDE DEF D, Q
  <2>4. {D(alt, p) : p \in Q(alt)} = {D(run, p) : p \in Q(run)}
    BY <2>2, <2>3
  <2> QED
    BY <2>1, <2>4, Zenon
<1>4. ASSUME NEW a PROVE PairedRows(alt, a) = PairedRows(run, a)
  <2> DEFINE K(r, p) == {w \in OnPod(r, p) : w.arm = a}
             Q(r) == {q \in PodsOf(r) : Measured(K(r, q)) # {} /\ Measured(Leading(OnPod(r, q))) # {}}
  <2>1. \A r : PairedRows(r, a) = {Differ(K(r, p), Leading(OnPod(r, p))) : p \in Q(r)}
    BY Zenon DEF PairedRows
  <2>2. \A p : K(alt, p) = K(run, p)
    BY <1>2
  <2>3. Q(alt) = Q(run)
    <3> HIDE DEF K
    <3> QED
      BY <1>2, <2>2
  <2> HIDE DEF K, Q
  <2>4. {Differ(K(alt, p), Leading(OnPod(alt, p))) : p \in Q(alt)} = {Differ(K(run, p), Leading(OnPod(run, p))) : p \in Q(run)}
    BY <1>2, <2>2, <2>3
  <2> QED
    BY <2>1, <2>4, Zenon
<1> QED
  BY <1>3, <1>4

\* The battery in which what was rejected has cost more.
Dearer ==
  [n \in DOMAIN reps |-> [i \in DOMAIN reps[n] |->
    IF reps[n][i].gate = "rejected" THEN [reps[n][i] EXCEPT !.ms = {m + 7 * Noise : m \in @}] ELSE reps[n][i]]]

LEMMA DearerIsAlike ==
  ASSUME ShapeInv, NEW n \in DOMAIN reps
  PROVE  Alike(reps[n], Dearer[n])
<1>1. Dearer[n] = [i \in DOMAIN reps[n] |->
        IF reps[n][i].gate = "rejected" THEN [reps[n][i] EXCEPT !.ms = {m + 7 * Noise : m \in @}] ELSE reps[n][i]]
  BY Zenon DEF Dearer
<1>2. ASSUME NEW i \in DOMAIN reps[n]
      PROVE  /\ reps[n][i].gate # "rejected" => Dearer[n][i] = reps[n][i]
             /\ Dearer[n][i].gate = reps[n][i].gate /\ Dearer[n][i].k6 = reps[n][i].k6
             /\ Dearer[n][i].arm = reps[n][i].arm /\ Dearer[n][i].pod = reps[n][i].pod
             /\ Dearer[n][i].meta = reps[n][i].meta
  <2>1. reps[n][i] \in Window
    BY Numbered
  <2>2. Dearer[n][i] = IF reps[n][i].gate = "rejected" THEN [reps[n][i] EXCEPT !.ms = {m + 7 * Noise : m \in @}] ELSE reps[n][i]
    BY <1>1
  <2>3. \A v \in Window : \A x : LET u == [v EXCEPT !.ms = x] IN
          u.gate = v.gate /\ u.k6 = v.k6 /\ u.arm = v.arm /\ u.pod = v.pod /\ u.meta = v.meta
    BY DEF Window
  <2>4. CASE reps[n][i].gate = "rejected"
    BY <2>1, <2>2, <2>3, <2>4
  <2>5. CASE reps[n][i].gate # "rejected"
    BY <2>2, <2>5
  <2> QED
    BY <2>4, <2>5
<1> QED
  BY <1>1, <1>2 DEF Alike

\* What the two tables are made of, for each repetition.
LEMMA ValidatedTable ==
  \A R : Validated(R) =
    { [rep |-> n, base |-> MeanMs(TakenByValidate(R, n, Off)),
       delta |-> MeanMs(TakenByValidate(R, n, 100)) - MeanMs(TakenByValidate(R, n, Off))] :
        n \in {m \in DOMAIN R : TakenByValidate(R, m, Off) # {} /\ TakenByValidate(R, m, 100) # {}} }
  BY Zenon DEF Validated, PerRep

LEMMA SummarizedTable ==
  \A R : Summarized(R) =
    { [rep |-> n, base |-> MeanMs(Rows(R, n, FALSE)), delta |-> MeanMs(Rows(R, n, TRUE)) - MeanMs(Rows(R, n, FALSE))] :
        n \in {m \in DOMAIN R : Rows(R, m, FALSE) # {} /\ Rows(R, m, TRUE) # {}} }
  BY Zenon DEF Summarized, PerRep

\* Only accepted rows are read back.
AcceptedRows(run) == {v \in Range(run) : v.k6 /\ v.files /\ v.gate = "accepted"}

LEMMA RowsAre ==
  \A R, n : /\ Rows(R, n, TRUE) = {v \in AcceptedRows(R[n]) : v.arm # Off}
            /\ Rows(R, n, FALSE) = {v \in AcceptedRows(R[n]) : v.arm = Off}
<1> TAKE R, n
<1> DEFINE row(w) == [w |-> w, on |-> w.arm # Off, accepted |-> w.gate = "accepted"]
           all == {v \in Range(R[n]) : v.k6 /\ v.files /\ v.gate \in {"accepted", "rejected"}}
<1>1. \A on : Rows(R, n, on) = {r.w : r \in {x \in {row(w) : w \in all} : x.accepted /\ x.on = on}}
  BY Zenon DEF Rows, Exported
<1>2. \A w : row(w).w = w /\ (row(w).accepted <=> w.gate = "accepted") /\ row(w).on \in BOOLEAN /\ (row(w).on <=> w.arm # Off)
  BY Zenon
<1> HIDE DEF row
<1>3. \A on : Rows(R, n, on) = {w \in all : w.gate = "accepted" /\ row(w).on = on}
  BY <1>1, <1>2
<1>4. {w \in all : w.gate = "accepted"} = AcceptedRows(R[n])
  BY DEF AcceptedRows
<1> HIDE DEF all
<1>5. Rows(R, n, TRUE) = {w \in {v \in all : v.gate = "accepted"} : w.arm # Off}
  BY <1>2, <1>3
<1>6. Rows(R, n, FALSE) = {w \in {v \in all : v.gate = "accepted"} : w.arm = Off}
  BY <1>2, <1>3
<1> QED
  BY <1>4, <1>5, <1>6, Zenon

LEMMA AlikeRows ==
  ASSUME ShapeInv, NEW n \in DOMAIN reps, NEW on \in BOOLEAN
  PROVE  Rows(Dearer, n, on) = Rows(reps, n, on)
<1>1. AcceptedRows(Dearer[n]) = AcceptedRows(reps[n])
  BY DearerIsAlike DEF Alike, Range, AcceptedRows
<1> QED
  BY <1>1, RowsAre

\* Whatever a window that the gate rejected has cost, every comparison of every
\* view stays what it is.
THEOREM RejectedWindowsHaveNoSay == Spec => []RejectedHasNoSay
<1>1. ShapeInv => RejectedHasNoSay
  <2> SUFFICES ASSUME ShapeInv PROVE RejectedHasNoSay
    OBVIOUS
  <2>1. DOMAIN Dearer = DOMAIN reps /\ \A n \in DOMAIN reps : Alike(reps[n], Dearer[n])
    BY DearerIsAlike, Zenon DEF Dearer
  <2>2. Validated(Dearer) = Validated(reps)
    <3>1. \A n \in DOMAIN reps : \A a : TakenByValidate(Dearer, n, a) = TakenByValidate(reps, n, a)
      BY <2>1, AlikeAccepted, Zenon DEF TakenByValidate
    <3>2. \A n \in DOMAIN reps : /\ TakenByValidate(Dearer, n, Off) = TakenByValidate(reps, n, Off)
                                  /\ TakenByValidate(Dearer, n, 100) = TakenByValidate(reps, n, 100)
      BY <3>1
    <3> QED
      BY <2>1, <3>2, ValidatedTable
  <2>3. Summarized(Dearer) = Summarized(reps)
    BY <2>1, AlikeRows, SummarizedTable
  <2>4. ASSUME NEW n \in DOMAIN reps
        PROVE  /\ ValidBrackets(Dearer[n]) = ValidBrackets(reps[n])
               /\ DetachedRows(Dearer[n]) = DetachedRows(reps[n])
               /\ \A a : PairedRows(Dearer[n], a) = PairedRows(reps[n], a)
    <3>1. Len(reps[n]) \in Nat /\ DOMAIN reps[n] = 1..Len(reps[n])
      BY DEF ShapeInv
    <3> QED
      BY <2>1, <3>1, AlikeBrackets, AlikePairs, Zenon
  <2>5. \A n \in DOMAIN reps :
          /\ {<<e.on.slot, e.delta>> : e \in ValidBrackets(Dearer[n])} = {<<e.on.slot, e.delta>> : e \in ValidBrackets(reps[n])}
          /\ \A a \in {100, 25} :
               {<<d.base, d.delta>> : d \in PairedRows(Dearer[n], a) \cup DetachedRows(Dearer[n])}
               = {<<d.base, d.delta>> : d \in PairedRows(reps[n], a) \cup DetachedRows(reps[n])}
    BY <2>4
  <2> QED
    BY <2>2, <2>3, <2>5, Zenon DEF RejectedHasNoSay, Dearer
<1> QED
  BY <1>1, ShapeInvariant, PTL

-----------------------------------------------------------------------------
(***************************************************************************)
(* Processes.                                                              *)
(***************************************************************************)

\* There are no more values than arguments.
LEMMA Image ==
  ASSUME NEW S, IsFiniteSet(S), NEW f
  PROVE  IsFiniteSet({f[x] : x \in S}) /\ Cardinality({f[x] : x \in S}) <= Cardinality(S)
<1> DEFINE g == [x \in S |-> f[x]]  T == {f[x] : x \in S}
<1>1. g \in Surjection(S, T)
  BY DEF Surjection
<1> HIDE DEF g, T
<1>2. IsFiniteSet(T) /\ Cardinality(T) <= Cardinality(S)
  BY <1>1, FS_Surjection
<1> QED
  BY <1>2 DEF T

\* A window lies on one pod, and those of a run on finitely many.
LEMMA PodOf ==
  ASSUME NEW w \in Window
  PROVE  w.pod = {The(w.pod)}
  BY DEF Window, The

LEMMA PodsOfRun ==
  ASSUME NEW run \in Seq(Window)
  PROVE  /\ IsFiniteSet(UNION {w.pod : w \in Pooled(run)}) /\ IsFiniteSet(PodsOf(run))
         /\ \A w \in Pooled(run) : w \in Window
<1> DEFINE f == [i \in DOMAIN run |-> The(run[i].pod)]
<1>1. Len(run) \in Nat /\ DOMAIN run = 1..Len(run) /\ \A i \in DOMAIN run : run[i] \in Window
  OBVIOUS
<1>2. IsFiniteSet(DOMAIN run)
  BY <1>1, FS_Interval
<1>3. \A i \in DOMAIN run : run[i].pod = {f[i]}
  BY <1>1, PodOf
<1>4. AcceptedArms(run) \subseteq DOMAIN run
  BY DEF AcceptedArms, LoadArms
<1> HIDE DEF f
<1>5. UNION {w.pod : w \in Pooled(run)} \subseteq {f[i] : i \in DOMAIN run}
  BY <1>3, <1>4 DEF Pooled
<1>6. PodsOf(run) \subseteq UNION {w.pod : w \in Pooled(run)}
  BY DEF PodsOf
<1>7. IsFiniteSet({f[i] : i \in DOMAIN run})
  BY <1>2, Image
<1>8. \A w \in Pooled(run) : w \in Window
  BY <1>1, <1>4 DEF Pooled
<1> QED
  BY <1>5, <1>6, <1>7, <1>8, FS_Subset

LEMMA FinitePods ==
  ASSUME ShapeInv, NEW n \in DOMAIN reps
  PROVE  /\ IsFiniteSet(UNION {w.pod : w \in Pooled(reps[n])}) /\ IsFiniteSet(PodsOf(reps[n]))
         /\ \A w \in Pooled(reps[n]) : w \in Window
<1>1. reps[n] \in Seq(Window)
  BY DEF ShapeInv
<1> QED
  BY <1>1, PodsOfRun

\* The differences of an arm, and the processes its accepted windows ran on.
PairsOf(R, a) == UNION {{n} \X PairedRows(R[n], a) : n \in DOMAIN R}
ProcessesOf(R, a) == UNION {{n} \X UNION {w.pod : w \in Kind(Pooled(R[n]), a)} : n \in DOMAIN R}

\* There are finitely many differences, and no more than processes.
LEMMA PairsPerProcess ==
  ASSUME NEW R \in Seq(Seq(Window)), NEW a
  PROVE  IsFiniteSet(PairsOf(R, a)) /\ Cardinality(PairsOf(R, a)) <= Cardinality(ProcessesOf(R, a))
<1> DEFINE rows == UNION {{n} \X PairedRows(R[n], a) : n \in DOMAIN R}
           pods(n) == UNION {w.pod : w \in Kind(Pooled(R[n]), a)}
           all == UNION {{n} \X pods(n) : n \in DOMAIN R}
           K(n, p) == {w \in OnPod(R[n], p) : w.arm = a}
           Q(n) == {q \in PodsOf(R[n]) : Measured(K(n, q)) # {} /\ Measured(Leading(OnPod(R[n], q))) # {}}
           used == {x \in all : x[2] \in Q(x[1])}
           row == [x \in used |-> <<x[1], Differ(K(x[1], x[2]), Leading(OnPod(R[x[1]], x[2])))>>]
<1>1. PairsOf(R, a) = rows /\ ProcessesOf(R, a) = all
  BY Zenon DEF PairsOf, ProcessesOf
<1>2. \A n : PairedRows(R[n], a) = {Differ(K(n, p), Leading(OnPod(R[n], p))) : p \in Q(n)}
  BY Zenon DEF PairedRows
<1>3. ASSUME NEW n \in DOMAIN R PROVE Q(n) \subseteq pods(n)
  BY DEF Measured, OnPod, Kind
<1>4. rows = {row[x] : x \in used}
  <2> HIDE DEF K, Q, pods
  <2>1. ASSUME NEW y \in rows PROVE \E x \in used : y = row[x]
    <3>1. PICK n \in DOMAIN R : y \in {n} \X PairedRows(R[n], a)
      OBVIOUS
    <3>2. PICK p \in Q(n) : y = <<n, Differ(K(n, p), Leading(OnPod(R[n], p)))>>
      <4>1. PairedRows(R[n], a) = {Differ(K(n, p), Leading(OnPod(R[n], p))) : p \in Q(n)}
        BY <1>2, Zenon
      <4>2. y[2] \in PairedRows(R[n], a) /\ y = <<n, y[2]>>
        BY <3>1
      <4> QED
        BY <4>1, <4>2, Zenon
    <3>3. <<n, p>> \in used
      BY <1>3, <3>2
    <3> QED
      BY <3>2, <3>3
  <2>2. ASSUME NEW x \in used PROVE row[x] \in rows
    <3>1. PICK n \in DOMAIN R : x[1] = n /\ x[2] \in Q(n)
      OBVIOUS
    <3> QED
      <4>1. row[x] = <<n, Differ(K(n, x[2]), Leading(OnPod(R[n], x[2])))>>
        BY <3>1
      <4>2. Differ(K(n, x[2]), Leading(OnPod(R[n], x[2]))) \in PairedRows(R[n], a)
        <5>1. PairedRows(R[n], a) = {Differ(K(n, p), Leading(OnPod(R[n], p))) : p \in Q(n)} /\ x[2] \in Q(n)
          <6> HIDE DEF Q, K
          <6>1. x[2] \in Q(n)
            BY <3>1
          <6>2. PairedRows(R[n], a) = {Differ(K(n, p), Leading(OnPod(R[n], p))) : p \in Q(n)}
            BY <1>2, Zenon
          <6> QED
            BY <6>1, <6>2, Zenon
        <5> HIDE DEF Q, K
        <5> QED
          BY <5>1, Zenon
      <4> HIDE DEF row
      <4> QED
        BY <4>1, <4>2
  <2> QED
    BY <2>1, <2>2
<1>5. IsFiniteSet(all)
  <2>1. ASSUME NEW n \in DOMAIN R PROVE IsFiniteSet({n} \X pods(n))
    <3>1. pods(n) \subseteq UNION {w.pod : w \in Pooled(R[n])}
      BY DEF Kind
    <3>2. IsFiniteSet(pods(n))
      BY <3>1, PodsOfRun, FS_Subset, R[n] \in Seq(Window)
    <3> HIDE DEF pods
    <3> QED
      BY <3>2, FS_Singleton, FS_Product
  <2>2. IsFiniteSet(DOMAIN R)
    BY FS_Interval
  <2> DEFINE f == [n \in DOMAIN R |-> {n} \X pods(n)]
  <2> HIDE DEF pods
  <2>3. {f[n] : n \in DOMAIN R} = {{n} \X pods(n) : n \in DOMAIN R}
    OBVIOUS
  <2>4. IsFiniteSet({f[n] : n \in DOMAIN R})
    <3> HIDE DEF f
    <3> QED
      BY <2>2, Image
  <2>5. \A T \in {{n} \X pods(n) : n \in DOMAIN R} : IsFiniteSet(T)
    BY <2>1
  <2> QED
    BY <2>3, <2>4, <2>5, FS_UNION
<1>6. Cardinality(rows) <= Cardinality(used) /\ Cardinality(used) <= Cardinality(all)
  <2> HIDE DEF row, all, rows
  <2>1. IsFiniteSet(used) /\ Cardinality(used) <= Cardinality(all)
    BY <1>5, FS_Subset
  <2>2. Cardinality({row[x] : x \in used}) <= Cardinality(used)
    BY <2>1, Image
  <2> QED
    BY <1>4, <2>1, <2>2
<1>7. IsFiniteSet(used) /\ IsFiniteSet(rows)
  <2> HIDE DEF row, all, rows
  <2>1. IsFiniteSet(used)
    BY <1>5, FS_Subset
  <2>2. IsFiniteSet({row[x] : x \in used})
    <3> HIDE DEF used
    <3> QED
      BY <2>1, Image
  <2> QED
    BY <1>4, <2>1, <2>2
<1>8. Cardinality(rows) \in Nat /\ Cardinality(used) \in Nat /\ Cardinality(all) \in Nat
  BY <1>5, <1>7, FS_CardinalityType
<1> HIDE DEF rows, used, all
<1> QED
  BY <1>1, <1>6, <1>7, <1>8

\* In the interval of an arm a process counts once.
THEOREM ProcessesCountOnce == Spec => []OneDeltaPerProcess
<1>1. ShapeInv => OneDeltaPerProcess
  <2> SUFFICES ASSUME ShapeInv, NEW a \in {100, 25}, NEW e \in PairedEntry(reps, a)
               PROVE  e.n <= Cardinality(ProcessesOf(reps, a))
    BY Zenon DEF OneDeltaPerProcess, ProcessesOf
  <2>1. e.n = Cardinality(PairsOf(reps, a))
    BY DEF PairedEntry, PairsOf
  <2> QED
    BY <2>1, PairsPerProcess DEF ShapeInv
<1> QED
  BY <1>1, ShapeInvariant, PTL

-----------------------------------------------------------------------------
(***************************************************************************)
(* Tables and headlines.                                                   *)
(***************************************************************************)

\* A run as it was published, whose rows could be exported.
Published(run) ==
  /\ \A w \in Range(run) : w.gate \in {"accepted", "rejected"} /\ w.k6 /\ w.arm \in {Off, 100}
  /\ Cardinality(PodsOf(run)) <= 1
  /\ \A v, w \in Range(run) : v.arm = Off /\ w.arm # Off => v.slot < w.slot
  /\ \A r \in Exported(run) : r.w.ms # {}

\* All of its accepted windows lie on one pod and have their files and a figure.
LEMMA PublishedPooled ==
  ASSUME ShapeInv, NEW n \in DOMAIN reps, Published(reps[n])
  PROVE  /\ Pooled(reps[n]) \subseteq Range(reps[n])
         /\ \A w \in Pooled(reps[n]) : w.gate = "accepted" /\ w.meta /\ w.ms # {} /\ w.k6 /\ w.files
         /\ AcceptedRows(reps[n]) = Pooled(reps[n])
         /\ \A w \in Pooled(reps[n]), p \in PodsOf(reps[n]) : w.pod = {p}
<1> DEFINE run == reps[n]
<1>1. \A i \in DOMAIN run : Whole(run[i]) /\ run[i] \in Range(run)
  BY DEF ShapeInv, Range
<1>2. Pooled(run) \subseteq Range(run) /\ \A w \in Pooled(run) : Whole(w) /\ w.k6 /\ w.gate # "rejected"
  BY <1>1 DEF Pooled, AcceptedArms, LoadArms, AcceptsRow
<1>3. \A w \in Pooled(run) : w.gate = "accepted"
  BY <1>2 DEF Published
<1>4. \A w \in Pooled(run) : w.meta /\ w.files
  BY <1>2, <1>3 DEF Whole
<1>5. \A w \in Range(run) : w.k6 /\ w.files /\ w.gate \in {"accepted", "rejected"} => w.ms # {}
  <2> DEFINE row(w) == [w |-> w, on |-> w.arm # Off, accepted |-> w.gate = "accepted"]
  <2>1. Exported(run) = {row(w) : w \in {v \in Range(run) : v.k6 /\ v.files /\ v.gate \in {"accepted", "rejected"}}}
    BY Zenon DEF Exported
  <2>2. \A w : row(w).w = w
    OBVIOUS
  <2> HIDE DEF row
  <2> QED
    BY <2>1, <2>2 DEF Published
<1>6. \A w \in Pooled(run) : w.ms # {}
  BY <1>2, <1>3, <1>4, <1>5
<1>7. AcceptedRows(run) = Pooled(run)
  <2>1. \A w \in Range(run) : w.k6 /\ w.gate = "accepted" => w \in Pooled(run)
    BY DEF Range, Pooled, AcceptedArms, LoadArms, AcceptsRow
  <2> QED
    BY <1>2, <1>3, <1>4, <2>1 DEF AcceptedRows
<1>8. ASSUME NEW w \in Pooled(run), NEW p \in PodsOf(run) PROVE w.pod = {p}
  <2>1. w.pod = {The(w.pod)}
    BY FinitePods, PodOf
  <2>2. The(w.pod) \in PodsOf(run)
    BY <1>4, <2>1 DEF PodsOf
  <2>3. IsFiniteSet(PodsOf(run)) /\ Cardinality(PodsOf(run)) <= 1
    BY FinitePods DEF Published
  <2>4. The(w.pod) = p
    <3> SUFFICES ASSUME The(w.pod) # p PROVE FALSE
      OBVIOUS
    <3>1. Cardinality(PodsOf(run) \ {p}) = Cardinality(PodsOf(run)) - 1 /\ IsFiniteSet(PodsOf(run) \ {p})
      BY <2>3, FS_RemoveElement
    <3>2. Cardinality(PodsOf(run) \ {p}) = 0
      BY <2>3, <3>1, FS_CardinalityType
    <3>3. PodsOf(run) \ {p} = {}
      BY <3>1, <3>2, FS_EmptySet
    <3> QED
      BY <2>2, <3>3
  <2> QED
    BY <2>1, <2>4
<1> QED
  BY <1>2, <1>3, <1>4, <1>6, <1>7, <1>8

\* It makes one difference, of the windows that the tables take, or none.
LEMMA PublishedPair ==
  ASSUME ShapeInv, NEW n \in DOMAIN reps, Published(reps[n])
  PROVE  LET offs == Kind(Pooled(reps[n]), Off)  ons == Kind(Pooled(reps[n]), 100) IN
         PairedRows(reps[n], 100) = IF offs # {} /\ ons # {} THEN {Differ(ons, offs)} ELSE {}
<1> DEFINE run == reps[n]  offs == Kind(Pooled(run), Off)  ons == Kind(Pooled(run), 100)
           K(p) == {w \in OnPod(run, p) : w.arm = 100}
           Q == {q \in PodsOf(run) : Measured(K(q)) # {} /\ Measured(Leading(OnPod(run, q))) # {}}
<1>1. PairedRows(run, 100) = {Differ(K(p), Leading(OnPod(run, p))) : p \in Q}
  BY Zenon DEF PairedRows
<1>2. ASSUME NEW p \in PodsOf(run) PROVE OnPod(run, p) = Pooled(run)
  BY PublishedPooled DEF OnPod
<1>3. Leading(Pooled(run)) = offs
  BY PublishedPooled DEF Leading, Kind, Published
<1>4. Measured(offs) = offs /\ Measured(ons) = ons
  BY PublishedPooled DEF Measured, Kind
<1>5. \A p \in PodsOf(run) : K(p) = ons
  BY <1>2 DEF Kind
<1>6. Q = IF offs # {} /\ ons # {} THEN PodsOf(run) ELSE {}
  <2> HIDE DEF K, offs, ons
  <2> QED
    BY <1>2, <1>3, <1>4, <1>5
<1>7. offs # {} => PodsOf(run) # {}
  <2> SUFFICES ASSUME NEW w \in offs PROVE PodsOf(run) # {}
    OBVIOUS
  <2>1. w \in Pooled(run) /\ w.meta /\ w.pod = {The(w.pod)}
    BY PublishedPooled, FinitePods, PodOf DEF Kind
  <2> QED
    BY <2>1 DEF PodsOf
<1> HIDE DEF K, offs, ons, Q
<1>8. PairedRows(run, 100) = IF offs # {} /\ ons # {} THEN {Differ(ons, offs)} ELSE {}
  BY <1>1, <1>2, <1>3, <1>5, <1>6, <1>7
<1> QED
  BY <1>8 DEF offs, ons

\* On a battery of the published design that could be exported, the three programs
\* rest on one baseline and one added CPU per repetition.
THEOREM PublishedHeadlinesAgree == Spec => []HeadlinesAgree
<1>1. ShapeInv => HeadlinesAgree
  <2> SUFFICES ASSUME ShapeInv, AsPublished, ~ExportRaises(reps)
               PROVE  /\ Validated(reps) = Summarized(reps)
                      /\ Validated(reps) =
                           UNION { {[rep |-> n, base |-> MeanMs(r.offs), delta |-> r.raw] : r \in PairedRows(reps[n], 100)} :
                                   n \in DOMAIN reps }
    BY Zenon DEF HeadlinesAgree
  <2>1. \A n \in DOMAIN reps : Published(reps[n])
    BY DEF AsPublished, ExportRaises, Published
  <2>2. ASSUME NEW n \in DOMAIN reps
        PROVE  /\ Rows(reps, n, FALSE) = TakenByValidate(reps, n, Off)
               /\ Rows(reps, n, TRUE) = TakenByValidate(reps, n, 100)
    <3>1. AcceptedRows(reps[n]) = Pooled(reps[n]) /\ \A w \in Pooled(reps[n]) : w.arm \in {Off, 100}
      BY <2>1, PublishedPooled DEF Published
    <3>2. \A w \in Pooled(reps[n]) : w.arm # Off <=> w.arm = 100
      BY <3>1 DEF Off
    <3>3. /\ Rows(reps, n, FALSE) = {v \in Pooled(reps[n]) : v.arm = Off}
          /\ Rows(reps, n, TRUE) = {v \in Pooled(reps[n]) : v.arm # Off}
      <4>1. /\ Rows(reps, n, FALSE) = {v \in AcceptedRows(reps[n]) : v.arm = Off}
            /\ Rows(reps, n, TRUE) = {v \in AcceptedRows(reps[n]) : v.arm # Off}
        BY RowsAre, Zenon
      <4> QED
        BY <3>1, <4>1, Zenon
    <3>4. {v \in Pooled(reps[n]) : v.arm # Off} = {v \in Pooled(reps[n]) : v.arm = 100}
      BY <3>2
    <3> QED
      BY <3>3, <3>4, Zenon DEF TakenByValidate, Kind
  <2>3. Validated(reps) = Summarized(reps)
    BY <2>2, ValidatedTable, SummarizedTable
  <2> DEFINE offs(n) == Kind(Pooled(reps[n]), Off)
             ons(n) == Kind(Pooled(reps[n]), 100)
             row(n, r) == [rep |-> n, base |-> MeanMs(r.offs), delta |-> r.raw]
             line(n) == [rep |-> n, base |-> MeanMs(offs(n)), delta |-> MeanMs(ons(n)) - MeanMs(offs(n))]
             both == {n \in DOMAIN reps : offs(n) # {} /\ ons(n) # {}}
  <2>4. \A n \in DOMAIN reps : PairedRows(reps[n], 100) = IF n \in both THEN {Differ(ons(n), offs(n))} ELSE {}
    <3>1. ASSUME NEW n \in DOMAIN reps
          PROVE  PairedRows(reps[n], 100) = IF offs(n) # {} /\ ons(n) # {} THEN {Differ(ons(n), offs(n))} ELSE {}
      BY <2>1, PublishedPair, Zenon
    <3> HIDE DEF offs, ons
    <3> QED
      BY <3>1
  <2>5. \A W, V : Differ(W, V).offs = V /\ Differ(W, V).raw = MeanMs(W) - MeanMs(V)
    BY DEF Differ
  <2>6. Validated(reps) = {line(n) : n \in both}
    BY ValidatedTable, Zenon DEF TakenByValidate
  <2>7. \A n : row(n, Differ(ons(n), offs(n))) = line(n)
    <3> HIDE DEF offs, ons
    <3> QED
      BY <2>5
  <2>8. UNION {{row(n, r) : r \in PairedRows(reps[n], 100)} : n \in DOMAIN reps} = {line(n) : n \in both}
    <3>1. both \subseteq DOMAIN reps
      OBVIOUS
    <3> HIDE DEF row, line, both, offs, ons
    <3> QED
      BY <2>4, <2>7, <3>1
  <2> QED
    BY <2>3, <2>6, <2>8, Zenon
<1> QED
  BY <1>1, ShapeInvariant, PTL

\* The figure shows a table's verdict, and cannot be drawn of a single repetition.
THEOREM FiguresShowTheTable == Spec => []FigureAgreesWithTable
<1>1. ShapeInv => FigureAgreesWithTable
  <2> SUFFICES ASSUME ShapeInv, NEW T, T = Validated(reps)
               PROVE  /\ Figure(T) # {} <=> Verdict(T) \in {"IN RANGE", "OUTSIDE"}
                      /\ \A r \in Figure(T) : r.inside = (Verdict(T) = "IN RANGE")
                      /\ FigureRaises(Figure(T)) => Cardinality(T) = 1
    BY DEF FigureAgreesWithTable
  <2>1. IsFiniteSet(T)
    <3> DEFINE line == [n \in DOMAIN reps |->
                 [rep |-> n, base |-> MeanMs(TakenByValidate(reps, n, Off)),
                  delta |-> MeanMs(TakenByValidate(reps, n, 100)) - MeanMs(TakenByValidate(reps, n, Off))]]
    <3>1. IsFiniteSet(DOMAIN reps)
      BY FS_Interval DEF ShapeInv
    <3>2. T \subseteq {line[n] : n \in DOMAIN reps}
      BY ValidatedTable
    <3> HIDE DEF line
    <3>3. IsFiniteSet({line[n] : n \in DOMAIN reps})
      BY <3>1, Image
    <3> QED
      BY <3>2, <3>3, FS_Subset
  <2>2. (Figure(T) # {}) <=> (T # {} /\ InBucket(T))
    BY DEF Figure
  <2>3. Verdict(T) \in {"IN RANGE", "OUTSIDE"} <=> (T # {} /\ InBucket(T))
    BY DEF Verdict
  <2> DEFINE row == [inside |-> InRange(T), interval |-> Cardinality(T) > 1]
  <2>4. Figure(T) = IF T = {} \/ ~InBucket(T) THEN {} ELSE {row}
    BY Zenon DEF Figure
  <2>5. row.inside = InRange(T) /\ row.interval = (Cardinality(T) > 1) /\ InRange(T) \in BOOLEAN
    BY Zenon DEF InRange
  <2> HIDE DEF row
  <2>6. T # {} /\ InBucket(T) => (Verdict(T) = "IN RANGE" <=> InRange(T))
    BY DEF Verdict
  <2>7. ASSUME NEW r \in Figure(T) PROVE r.inside = (Verdict(T) = "IN RANGE")
    <3>1. T # {} /\ InBucket(T) /\ r = row
      BY <2>4
    <3> QED
      BY <2>5, <2>6, <3>1, Zenon
  <2>8. ASSUME FigureRaises(Figure(T)) PROVE Cardinality(T) = 1
    <3>1. T # {} /\ Figure(T) = {row}
      BY <2>4, <2>8 DEF FigureRaises
    <3>2. ~row.interval
      BY <2>8, <3>1 DEF FigureRaises
    <3>3. ~(Cardinality(T) > 1)
      BY <2>5, <3>2, Zenon
    <3> QED
      BY <2>1, <3>1, <3>3, FS_EmptySet, FS_CardinalityType
  <2>9. Figure(T) # {} <=> Verdict(T) \in {"IN RANGE", "OUTSIDE"}
    BY <2>2, <2>3
  <2> QED
    BY <2>7, <2>8, <2>9
<1> QED
  BY <1>1, ShapeInvariant, PTL

-----------------------------------------------------------------------------
(***************************************************************************)
(* The Welch interval.                                                     *)
(***************************************************************************)

\* A quotient lies between two numbers when the dividend lies between the products.
LEMMA Quotient ==
  ASSUME NEW x \in Int, NEW d \in Nat, d > 0, NEW lo \in Int, NEW hi \in Int, lo * d <= x, x <= hi * d
  PROVE  lo <= x \div d /\ x \div d <= hi
<1> DEFINE k == x \div d
<1>1. k \in Int /\ k * d <= x /\ x < k * d + d
  OBVIOUS
<1> HIDE DEF k
<1>2. lo <= k
  <2> SUFFICES ASSUME k + 1 <= lo PROVE FALSE
    BY <1>1
  <2>1. (k + 1) * d <= lo * d /\ (k + 1) * d = k * d + d
    BY <1>1
  <2> QED
    BY <1>1, <2>1
<1>3. k <= hi
  <2> SUFFICES ASSUME hi + 1 <= k PROVE FALSE
    BY <1>1
  <2>1. (hi + 1) * d <= k * d /\ (hi + 1) * d = hi * d + d
    BY <1>1
  <2> QED
    BY <1>1, <2>1
<1> QED
  BY <1>2, <1>3 DEF k

\* Satterthwaite's degrees of freedom, of variances a and b with p and q of their own.
LEMMA Satterthwaite ==
  ASSUME NEW a \in Nat, NEW b \in Nat, NEW p \in Nat, NEW q \in Nat
  PROVE  /\ (a + b) * (a + b) * p * q <= (p + q) * (a * a * q + b * b * p)
         /\ p <= q => p * (a * a * q + b * b * p) <= (a + b) * (a + b) * p * q
         /\ q <= p => q * (a * a * q + b * b * p) <= (a + b) * (a + b) * p * q
<1>1. (p + q) * (a * a * q + b * b * p) = (a + b) * (a + b) * p * q + (a * q - b * p) * (a * q - b * p)
  OBVIOUS
<1>2. (a * q - b * p) \in Int
  OBVIOUS
<1>3. (a * q - b * p) * (a * q - b * p) >= 0
  BY <1>2, SquareNotNegative
<1>4. (a + b) * (a + b) * p * q = a * a * p * q + b * b * p * q + 2 * a * b * p * q
  OBVIOUS
<1>5. a * b * p * q \in Nat
  OBVIOUS
<1>6. ASSUME p <= q PROVE b * b * p * p <= b * b * p * q
  <2>1. b * b * p * q = b * b * p * p + b * b * p * (q - p)
    OBVIOUS
  <2>2. q - p \in Nat
    BY <1>6
  <2>3. b * b * p * (q - p) \in Nat /\ b * b * p * p \in Nat
    BY <2>2
  <2> QED
    BY <2>1, <2>3
<1>7. ASSUME q <= p PROVE a * a * q * q <= a * a * p * q
  <2>1. a * a * p * q = a * a * q * q + a * a * q * (p - q)
    OBVIOUS
  <2>2. p - q \in Nat
    BY <1>7
  <2>3. a * a * q * (p - q) \in Nat /\ a * a * q * q \in Nat
    BY <2>2
  <2> QED
    BY <2>1, <2>3
<1>8. /\ p * (a * a * q + b * b * p) = a * a * p * q + b * b * p * p
      /\ q * (a * a * q + b * b * p) = a * a * q * q + b * b * p * q
  OBVIOUS
<1> QED
  BY <1>1, <1>3, <1>4, <1>5, <1>6, <1>7, <1>8

LEMMA WelchDfBetween ==
  ASSUME NEW a \in Nat, NEW b \in Nat, NEW m \in Nat, NEW n \in Nat, m >= 2, n >= 2
  PROVE  Min({m, n}) - 1 <= WelchDf(a, b, m, n) /\ WelchDf(a, b, m, n) <= m + n - 2
<1>1. /\ Min({m, n}) \in {m, n} /\ Min({m, n}) <= m /\ Min({m, n}) <= n
  BY Extremes
<1>2. CASE a + b = 0
  BY <1>1, <1>2 DEF WelchDf
<1>3. CASE a + b # 0
  <2> DEFINE p == m - 1  q == n - 1
             x == (a + b) * (a + b) * p * q
             d == a * a * q + b * b * p
             lo == Min({m, n}) - 1
  <2>1. WelchDf(a, b, m, n) = x \div d
    BY <1>3 DEF WelchDf
  <2>2. p \in Nat /\ q \in Nat /\ p >= 1 /\ q >= 1
    OBVIOUS
  <2>3. x \in Int /\ d \in Nat
    BY <2>2
  <2>4. d > 0
    <3>1. a # 0 => a * a * q > 0
      BY <2>2
    <3>2. b # 0 => b * b * p > 0
      BY <2>2
    <3>3. a * a * q >= 0 /\ b * b * p >= 0
      BY <2>2
    <3>4. a # 0 \/ b # 0
      BY <1>3
    <3> QED
      BY <3>1, <3>2, <3>3, <3>4, <2>3
  <2>5. x <= (p + q) * d
    BY <2>2, Satterthwaite
  <2>6. lo * d <= x
    <3>1. (p <= q => p * d <= x) /\ (q <= p => q * d <= x)
      BY <2>2, Satterthwaite
    <3>2. (lo = p /\ p <= q) \/ (lo = q /\ q <= p)
      <4> DEFINE k == Min({m, n})
      <4>1. (k = m \/ k = n) /\ k <= m /\ k <= n
        BY <1>1
      <4> HIDE DEF k, x, d
      <4>2. (k - 1 = p /\ p <= q) \/ (k - 1 = q /\ q <= p)
        BY <4>1
      <4> QED
        BY <4>2 DEF k
    <3> HIDE DEF lo, p, q, d, x
    <3> QED
      BY <3>1, <3>2
  <2>7. lo \in Int /\ p + q \in Int
    BY <1>1, <2>2
  <2> HIDE DEF x, d, lo
  <2>8. lo <= x \div d /\ x \div d <= p + q
    BY <2>3, <2>4, <2>5, <2>6, <2>7, Quotient
  <2> QED
    BY <2>1, <2>8 DEF lo
<1> QED
  BY <1>2, <1>3

\* What windows of a run have in common with those of another.
LEMMA SpreadOfFigures ==
  ASSUME NEW S, IsFiniteSet(S), \A x \in S : Ms(x[2]) \in Int
  PROVE  SpreadMs(S) \in Nat
<1> DEFINE m == [x \in S |-> Ms(x[2])]  sq == [x \in S |-> Ms(x[2]) * Ms(x[2])]
<1>1. SpreadMs(S) = Cardinality(S) * SumFunction(sq) - SumFunction(m) * SumFunction(m)
  BY Zenon DEF SpreadMs, Spread, Total
<1>2. \A x \in S : m[x] \in Int /\ sq[x] = m[x] * m[x]
  OBVIOUS
<1>3. SumFunction(sq) = SumOf(sq, S) /\ SumFunction(m) = SumOf(m, S)
  BY SumFunctionIs
<1> HIDE DEF m, sq
<1> QED
  BY <1>1, <1>2, <1>3, SpreadNotNegative

\* The windows of one kind in the pooled view.
PooledKind(R, k) == UNION {{n} \X {w \in Measured(Pooled(R[n])) : w.arm = k} : n \in DOMAIN R}

LEMMA PooledFigures ==
  ASSUME NEW R, IsFiniteSet(DOMAIN R), \A n \in DOMAIN R : R[n] \in Seq(Window), NEW k
  PROVE  IsFiniteSet(PooledKind(R, k)) /\ \A x \in PooledKind(R, k) : Ms(x[2]) \in Int
<1> DEFINE kind(n) == {w \in Measured(Pooled(R[n])) : w.arm = k}
<1>1. ASSUME NEW n \in DOMAIN R
      PROVE  /\ Pooled(R[n]) \subseteq {R[n][i] : i \in DOMAIN R[n]} /\ IsFiniteSet({R[n][i] : i \in DOMAIN R[n]})
             /\ \A i \in DOMAIN R[n] : R[n][i] \in Window
  <2> DEFINE run == R[n]
  <2>1. Len(run) \in Nat /\ DOMAIN run = 1..Len(run)
    OBVIOUS
  <2>2. IsFiniteSet(DOMAIN run) /\ \A i \in DOMAIN run : run[i] \in Window
    BY <2>1, FS_Interval
  <2> HIDE DEF run
  <2>3. IsFiniteSet({run[i] : i \in DOMAIN run})
    BY <2>2, Image
  <2>4. Pooled(run) \subseteq {run[i] : i \in DOMAIN run}
    BY DEF Pooled, AcceptedArms, LoadArms
  <2> QED
    BY <2>2, <2>3, <2>4 DEF run
<1>2. ASSUME NEW n \in DOMAIN R PROVE IsFiniteSet({n} \X kind(n))
  <2>1. kind(n) \subseteq Pooled(R[n])
    BY DEF Measured
  <2> HIDE DEF kind
  <2>2. IsFiniteSet(kind(n))
    BY <1>1, <2>1, FS_Subset
  <2> QED
    BY <2>2, FS_Singleton, FS_Product
<1>3. IsFiniteSet(UNION {{n} \X kind(n) : n \in DOMAIN R})
  <2> DEFINE f == [n \in DOMAIN R |-> {n} \X kind(n)]
  <2> HIDE DEF kind
  <2>1. {f[n] : n \in DOMAIN R} = {{n} \X kind(n) : n \in DOMAIN R}
    OBVIOUS
  <2>2. IsFiniteSet({f[n] : n \in DOMAIN R})
    <3> HIDE DEF f
    <3> QED
      BY Image
  <2>3. \A T \in {{n} \X kind(n) : n \in DOMAIN R} : IsFiniteSet(T)
    BY <1>2
  <2> QED
    BY <2>1, <2>2, <2>3, FS_UNION
<1>4. ASSUME NEW x \in PooledKind(R, k) PROVE Ms(x[2]) \in Int
  <2>1. PICK n \in DOMAIN R : x[2] \in Measured(Pooled(R[n]))
    BY DEF PooledKind
  <2>2. x[2] \in Window /\ x[2].ms # {}
    BY <1>1, <2>1 DEF Measured
  <2>3. PICK m \in Int : x[2].ms = {m}
    BY <2>2 DEF Window
  <2> QED
    BY <2>3 DEF Ms, The
<1> QED
  BY <1>3, <1>4 DEF PooledKind

\* In whole spans a window is one.
LEMMA InSpansShape ==
  ASSUME ShapeInv
  PROVE  IsFiniteSet(DOMAIN InSpans) /\ \A n \in DOMAIN InSpans : InSpans[n] \in Seq(Window)
<1>1. DOMAIN InSpans = DOMAIN reps /\ IsFiniteSet(DOMAIN reps)
  <2>1. DOMAIN InSpans = DOMAIN reps
    BY Zenon DEF InSpans
  <2>2. DOMAIN reps = 1..Len(reps) /\ Len(reps) \in Nat
    BY DEF ShapeInv
  <2> QED
    BY <2>1, <2>2, FS_Interval
<1>2. ASSUME NEW v \in Window PROVE [v EXCEPT !.ms = {m \div CSpan : m \in @}] \in Window
  <2>1. {m \div CSpan : m \in v.ms} \in {{}} \cup {{m} : m \in Int}
    <3>1. CASE v.ms = {}
      BY <3>1
    <3>2. ASSUME NEW m \in Int, v.ms = {m}
          PROVE {y \div CSpan : y \in v.ms} \in {{}} \cup {{y} : y \in Int}
      <4>1. {y \div CSpan : y \in v.ms} = {m \div CSpan} /\ m \div CSpan \in Int
        BY <3>2 DEF CSpan
      <4> QED
        BY <4>1
    <3> QED
      BY <3>1, <3>2 DEF Window
  <2> QED
    BY <2>1, Zenon DEF Window
<1>3. ASSUME NEW n \in DOMAIN reps PROVE InSpans[n] \in Seq(Window)
  <2>1. reps[n] \in Seq(Window) /\ Len(reps[n]) \in Nat /\ DOMAIN reps[n] = 1..Len(reps[n])
    BY DEF ShapeInv
  <2>2. InSpans[n] = [i \in DOMAIN reps[n] |-> [reps[n][i] EXCEPT !.ms = {m \div CSpan : m \in @}]]
    BY Zenon DEF InSpans
  <2>3. \A i \in DOMAIN reps[n] : InSpans[n][i] \in Window
    BY <1>2, <2>1, <2>2
  <2>4. InSpans[n] = [i \in 1..Len(reps[n]) |-> InSpans[n][i]]
    BY <2>1, <2>2
  <2> QED
    BY <2>1, <2>3, <2>4
<1> QED
  BY <1>1, <1>3

\* The interval of the pooled view has no more degrees of freedom than its windows
\* have, and no fewer than the smaller side's.
THEOREM FreedomBetween == Spec => []DfBounded
<1>1. ShapeInv => DfBounded
  <2> SUFFICES ASSUME ShapeInv, NEW d \in PooledDelta(InSpans, 100), NEW df \in d.df
               PROVE  Min({d.nOn, d.nOff}) - 1 <= df /\ df <= d.nOn + d.nOff - 2
    BY DEF DfBounded
  <2> DEFINE on == PooledKind(InSpans, 100)  off == PooledKind(InSpans, Off)
             m == Cardinality(on)  n == Cardinality(off)
             a == SpreadMs(on) * n * n * (n - 1)  b == SpreadMs(off) * m * m * (m - 1)
  <2>1. PooledDelta(InSpans, 100) = Welch(on, off)
    BY Zenon DEF PooledDelta, PooledKind
  <2>2. IsFiniteSet(on) /\ IsFiniteSet(off) /\ SpreadMs(on) \in Nat /\ SpreadMs(off) \in Nat
    BY InSpansShape, PooledFigures, SpreadOfFigures
  <2>3. m \in Nat /\ n \in Nat
    BY <2>2, FS_CardinalityType
  <2>4. m >= 2 /\ n >= 2 /\ d.nOn = m /\ d.nOff = n /\ df = WelchDf(a, b, m, n)
    <3> HIDE DEF on, off
    <3>1. d.nOn = m /\ d.nOff = n /\ d.df = IF m < 2 \/ n < 2 THEN {} ELSE {WelchDf(a, b, m, n)}
      BY <2>1 DEF Welch
    <3> QED
      BY <2>3, <3>1
  <2> HIDE DEF on, off, m, n
  <2>5. a \in Nat /\ b \in Nat
    <3>1. n - 1 \in Nat /\ m - 1 \in Nat
      BY <2>3, <2>4
    <3> QED
      BY <2>2, <2>3, <3>1
  <2> HIDE DEF a, b
  <2> QED
    BY <2>3, <2>4, <2>5, WelchDfBetween
<1> QED
  BY <1>1, ShapeInvariant, PTL

-----------------------------------------------------------------------------
(***************************************************************************)
(* The cost per span fitted through two cells.                             *)
(***************************************************************************)
\* The products of FitPoints, and the functions their folds choose.
CountsOf(S) == FoldSet(LAMBDA q, acc : acc * q.n, 1, S)
SpreadsOf(S) == FoldSet(LAMBDA q, acc : acc * q.spread, 1, S)

CountIterates(S, g) == g = [s \in SUBSET S |-> IF s = {} THEN 1 ELSE g[s \ {Pick(s)}] * Pick(s).n]
SpreadIterates(S, g) == g = [s \in SUBSET S |-> IF s = {} THEN 1 ELSE g[s \ {Pick(s)}] * Pick(s).spread]

LEMMA CountsIterate == ASSUME NEW S PROVE CountsOf(S) = (CHOOSE g : CountIterates(S, g))[S]
  BY Zenon DEF CountsOf, CountIterates, FoldSet, MapThenFoldSet, Pick

LEMMA SpreadsIterate == ASSUME NEW S PROVE SpreadsOf(S) = (CHOOSE g : SpreadIterates(S, g))[S]
  BY Zenon DEF SpreadsOf, SpreadIterates, FoldSet, MapThenFoldSet, Pick

\* Such a function multiplies the counts.
LEMMA CountsMultiply ==
  ASSUME NEW S, NEW g
  PROVE  CountIterates(S, g) <=> Multiplies([z \in S |-> z.n], S, g)
<1> DEFINE m == [z \in S |-> z.n]
<1>1. ASSUME NEW s \in SUBSET S
      PROVE  (IF s = {} THEN 1 ELSE g[s \ {Pick(s)}] * Pick(s).n)
              = (IF s = {} THEN 1 ELSE g[s \ {Pick(s)}] * m[Pick(s)])
  <2>1. s # {} => Pick(s) \in S
    BY PickIsIn
  <2>2. s # {} => m[Pick(s)] = Pick(s).n
    BY <2>1
  <2> HIDE DEF m
  <2> QED
    BY <2>2, Zenon
<1> HIDE DEF m
<1>2. [s \in SUBSET S |-> IF s = {} THEN 1 ELSE g[s \ {Pick(s)}] * Pick(s).n]
       = [s \in SUBSET S |-> IF s = {} THEN 1 ELSE g[s \ {Pick(s)}] * m[Pick(s)]]
  BY <1>1, Zenon
<1> QED
  BY <1>2, Zenon DEF CountIterates, Multiplies, m

\* The product of one count, and of two.
LEMMA CountsOfTwo ==
  ASSUME NEW x, NEW y, x.n \in Int, y.n \in Int
  PROVE  CountsOf({x}) = x.n /\ (x # y => CountsOf({x, y}) = x.n * y.n)
<1>1. ASSUME NEW z \in {x, y}, NEW w \in {x, y}
      PROVE  (z = w => CountsOf({z, w}) = z.n) /\ (z # w => CountsOf({z, w}) = z.n * w.n)
  <2> DEFINE S == {z, w}  m == [v \in S |-> v.n]  G == CHOOSE g : CountIterates(S, g)
  <2>1. m[z] = z.n /\ m[w] = w.n /\ z.n \in Int /\ w.n \in Int
    BY <1>1
  <2> HIDE DEF m, G
  <2>2. \E g : Multiplies(m, S, g)
    BY <2>1, SomeProduct
  <2>3. \E g : CountIterates(S, g)
    <3> HIDE DEF S
    <3> QED
      BY <2>2, CountsMultiply DEF m
  <2>4. CountIterates(S, G)
    BY <2>3, Zenon DEF G
  <2>5. Multiplies(m, S, G)
    <3> HIDE DEF S
    <3> QED
      BY <2>4, CountsMultiply DEF m
  <2>6. CountsOf(S) = G[S]
    <3> HIDE DEF S
    <3> QED
      BY CountsIterate DEF G
  <2>7. ASSUME z # w PROVE G[S] = m[z] * m[w]
    <3>1. m[z] \in Int /\ m[w] \in Int
      BY <2>1
    <3>2. S = {z, w}
      OBVIOUS
    <3> HIDE DEF S
    <3>3. Multiplies(m, {z, w}, G)
      BY <2>5, <3>2
    <3>4. IsProduct(m, z, w, G)
      BY <2>7, <3>1, <3>3, ProductOfTwo
    <3> QED
      BY <3>2, <3>4, Zenon DEF IsProduct
  <2>8. ASSUME z = w PROVE G[S] = m[z]
    <3>1. S = {z} /\ z \in S
      BY <2>8
    <3> HIDE DEF S
    <3>2. G[{z}] = m[z]
      BY <2>1, <2>5, <3>1, ProductOfOne
    <3> QED
      BY <3>1, <3>2
  <2> QED
    BY <2>1, <2>6, <2>7, <2>8
<1>2. {x, x} = {x}
  OBVIOUS
<1>3. CountsOf({x, x}) = x.n
  BY <1>1
<1>4. x # y => CountsOf({x, y}) = x.n * y.n
  BY <1>1
<1> QED
  BY <1>2, <1>3, <1>4

\* A weighted mean of two ratios lies between them, in products.
LEMMA Mediant ==
  ASSUME NEW sp \in Nat, NEW sq \in Nat, NEW np \in Nat, NEW nq \in Nat, NEW Sp \in Int, NEW Sq \in Int,
         NEW wp \in Nat, NEW wq \in Nat, Sp * nq * sq <= Sq * np * sp
  PROVE  /\ Sp * (np * nq * (wp * sp * sp + wq * sq * sq)) <= (wp * sp * Sp * nq + wq * sq * Sq * np) * np * sp
         /\ (wp * sp * Sp * nq + wq * sq * Sq * np) * nq * sq <= Sq * (np * nq * (wp * sp * sp + wq * sq * sq))
<1> DEFINE D == Sq * np * sp - Sp * nq * sq
           num == wp * sp * Sp * nq + wq * sq * Sq * np
           den == np * nq * (wp * sp * sp + wq * sq * sq)
<1>1. num * np * sp = Sp * den + (np * wq * sq) * D
  OBVIOUS
<1>2. Sq * den = num * nq * sq + (nq * wp * sp) * D
  OBVIOUS
<1>3. D \in Int /\ D >= 0 /\ np * wq * sq \in Nat /\ nq * wp * sp \in Nat
  OBVIOUS
<1>4. Sp * den \in Int /\ num * nq * sq \in Int
  OBVIOUS
<1> HIDE DEF D
<1>5. (np * wq * sq) * D \in Nat /\ (nq * wp * sp) * D \in Nat
  BY <1>3
<1> HIDE DEF num, den
<1>6. Sp * den <= num * np * sp /\ num * nq * sq <= Sq * den
  <2> DEFINE a == (np * wq * sq) * D  b == (nq * wp * sp) * D  c == Sp * den  d == num * nq * sq
  <2>1. a \in Nat /\ b \in Nat /\ c \in Int /\ d \in Int
    BY <1>4, <1>5
  <2>2. num * np * sp = c + a /\ Sq * den = d + b
    BY <1>1, <1>2
  <2> HIDE DEF a, b, c, d
  <2>3. c <= num * np * sp /\ d <= Sq * den
    BY <2>1, <2>2
  <2> QED
    BY <2>3 DEF c, d
<1> QED
  BY <1>6 DEF num, den

\* The product of one spread.
LEMMA SpreadsOfOne ==
  ASSUME NEW x, x.spread \in Int
  PROVE  SpreadsOf({x}) = x.spread
<1> DEFINE S == {x}  m == [v \in S |-> v.spread]  G == CHOOSE g : SpreadIterates(S, g)
<1>1. m[x] = x.spread
  OBVIOUS
<1>2. ASSUME NEW g PROVE SpreadIterates(S, g) <=> Multiplies(m, S, g)
  <2>1. ASSUME NEW s \in SUBSET S
        PROVE  (IF s = {} THEN 1 ELSE g[s \ {Pick(s)}] * Pick(s).spread)
                = (IF s = {} THEN 1 ELSE g[s \ {Pick(s)}] * m[Pick(s)])
    <3>1. s # {} => m[Pick(s)] = Pick(s).spread
      BY PickIsIn
    <3> HIDE DEF m
    <3> QED
      BY <3>1, Zenon
  <2> HIDE DEF m, S
  <2>2. [s \in SUBSET S |-> IF s = {} THEN 1 ELSE g[s \ {Pick(s)}] * Pick(s).spread]
         = [s \in SUBSET S |-> IF s = {} THEN 1 ELSE g[s \ {Pick(s)}] * m[Pick(s)]]
    BY <2>1, Zenon
  <2> QED
    BY <2>2, Zenon DEF SpreadIterates, Multiplies
<1> HIDE DEF m, G
<1>3. \E g : Multiplies(m, {x, x}, g)
  BY <1>1, SomeProduct
<1>4. {x, x} = S
  OBVIOUS
<1>5. \E g : SpreadIterates(S, g)
  BY <1>2, <1>3, <1>4, Zenon
<1>6. SpreadIterates(S, G)
  BY <1>5, Zenon DEF G
<1>7. Multiplies(m, S, G)
  BY <1>2, <1>6, Zenon
<1>8. SpreadsOf(S) = G[S]
  BY SpreadsIterate DEF G
<1>9. x \in S
  OBVIOUS
<1> HIDE DEF S
<1>10. G[{x}] = m[x]
  BY <1>1, <1>7, <1>9, ProductOfOne
<1> QED
  BY <1>1, <1>8, <1>10 DEF S

\* A cell's point.
Point == [spans : Nat, n : Nat \ {0}, sum : Int, spread : Nat]

\* The sums of fit_points of two points, whose weights are natural numbers.
FittedBy(p, q, c, wp, wq) ==
  /\ c.num = wp * p.spans * p.sum * q.n + wq * q.spans * q.sum * p.n
  /\ c.den = p.n * q.n * (wp * p.spans * p.spans + wq * q.spans * q.spans)

LEMMA FitOfTwo ==
  ASSUME NEW p \in Point, NEW q \in Point, p # q
  PROVE  \E wp, wq \in Nat : FittedBy(p, q, FitPoints({p, q}), wp, wq)
<1> DEFINE pts == {p, q}
           weighted == \A x \in pts : x.n > 1 /\ x.spread > 0
           W == [x \in pts |-> IF weighted THEN x.n * x.n * (x.n - 1) * SpreadsOf(pts \ {x}) ELSE 1]
           xx == [x \in pts |-> W[x] * x.spans * x.spans]
           xy == [x \in pts |-> W[x] * x.spans * x.sum * CountsOf(pts \ {x})]
           c == FitPoints(pts)
<1>1. c = [num |-> SumFunction(xy), den |-> CountsOf(pts) * SumFunction(xx)]
  BY Zenon DEF FitPoints, Total, CountsOf, SpreadsOf
<1>2. pts \ {p} = {q} /\ pts \ {q} = {p}
  OBVIOUS
<1>3. CountsOf({q}) = q.n /\ CountsOf({p}) = p.n /\ CountsOf(pts) = p.n * q.n
  BY CountsOfTwo DEF Point
<1>4. SpreadsOf({q}) = q.spread /\ SpreadsOf({p}) = p.spread
  BY SpreadsOfOne DEF Point
<1>5. W[p] \in Nat /\ W[q] \in Nat
  <2>1. p.n - 1 \in Nat /\ q.n - 1 \in Nat
    BY DEF Point
  <2>2. p.n * p.n * (p.n - 1) * q.spread \in Nat /\ q.n * q.n * (q.n - 1) * p.spread \in Nat
    BY <2>1 DEF Point
  <2>3. W[p] = (IF weighted THEN p.n * p.n * (p.n - 1) * q.spread ELSE 1)
    BY <1>2, <1>4
  <2>4. W[q] = (IF weighted THEN q.n * q.n * (q.n - 1) * p.spread ELSE 1)
    BY <1>2, <1>4
  <2> HIDE DEF W, weighted
  <2> QED
    BY <2>2, <2>3, <2>4
<1> DEFINE wp == W[p]  wq == W[q]
<1>6. /\ xx[p] = wp * p.spans * p.spans /\ xx[q] = wq * q.spans * q.spans
      /\ xy[p] = wp * p.spans * p.sum * CountsOf(pts \ {p}) /\ xy[q] = wq * q.spans * q.sum * CountsOf(pts \ {q})
      /\ DOMAIN xx = pts /\ DOMAIN xy = pts
  OBVIOUS
<1> HIDE DEF xx, xy, W, pts, c
<1>7. xy[p] = wp * p.spans * p.sum * q.n /\ xy[q] = wq * q.spans * q.sum * p.n
  BY <1>2, <1>3, <1>6
<1> HIDE DEF wp, wq
<1>8. wp \in Nat /\ wq \in Nat
  BY <1>5 DEF wp, wq
<1>9. xx[p] \in Int /\ xx[q] \in Int /\ xy[p] \in Int /\ xy[q] \in Int
  BY <1>6, <1>7, <1>8 DEF Point
<1>10. SumFunction(xx) = xx[p] + xx[q] /\ SumFunction(xy) = xy[p] + xy[q]
  <2>1. SumFunction(xx) = SumOf(xx, pts) /\ SumFunction(xy) = SumOf(xy, pts)
    BY <1>6, SumFunctionIs
  <2> QED
    BY <1>9, <2>1, SumTwo DEF pts
<1>11. c.num = xy[p] + xy[q] /\ c.den = p.n * q.n * (xx[p] + xx[q])
  BY <1>1, <1>3, <1>10
<1>12. FittedBy(p, q, c, wp, wq)
  BY <1>6, <1>7, <1>11 DEF FittedBy
<1> QED
  BY <1>8, <1>12 DEF c, pts

\* The mean of figures is a number.
LEMMA MeanOfFigures ==
  ASSUME NEW S, IsFiniteSet(S), S # {}, NEW f, DOMAIN f = S, \A x \in S : f[x] \in Int
  PROVE  SumFunction(f) \in Int /\ Cardinality(S) \in Nat /\ Cardinality(S) > 0
         /\ SumFunction(f) \div Cardinality(S) \in Int
<1>1. SumFunction(f) = SumOf(f, S) /\ SumOf(f, S) \in Int
  BY SumFunctionIs, SumType
<1>2. Cardinality(S) \in Nat /\ Cardinality(S) # 0
  BY FS_CardinalityType, FS_EmptySet
<1> QED
  BY <1>1, <1>2

\* The figure of a measured window,
LEMMA FigureOf ==
  ASSUME NEW W \in SUBSET Window
  PROVE  \A w \in Measured(W) : Ms(w) \in Int
<1> SUFFICES ASSUME NEW w \in Measured(W) PROVE Ms(w) \in Int
  OBVIOUS
<1>1. w \in Window /\ w.ms # {}
  BY DEF Measured
<1>2. PICK m \in Int : w.ms = {m}
  BY <1>1 DEF Window
<1> QED
  BY <1>2 DEF Ms, The

\* the mean of theirs,
LEMMA MeanMsInt ==
  ASSUME NEW W \in SUBSET Window, IsFiniteSet(W), Measured(W) # {}
  PROVE  MeanMs(W) \in Int
<1> DEFINE S == Measured(W)  f == [x \in S |-> Ms(x)]
<1>1. MeanMs(W) = SumFunction(f) \div Cardinality(S)
  BY Zenon DEF MeanMs, Mean, Total
<1>2. IsFiniteSet(S)
  BY FS_Subset DEF Measured
<1>3. DOMAIN f = S /\ \A x \in S : f[x] \in Int
  BY FigureOf
<1> HIDE DEF S, f
<1> QED
  BY <1>1, <1>2, <1>3, MeanOfFigures DEF S

\* the time of a window that has one,
LEMMA TimeOf ==
  ASSUME NEW w \in Window, w.t0 # {}
  PROVE  w.t0 = {The(w.t0)} /\ The(w.t0) \in Nat
  BY DEF Window, The

\* and the mean of theirs are numbers.
LEMMA MeanT0Int ==
  ASSUME NEW W \in SUBSET Window, IsFiniteSet(W), W # {}, \A w \in W : w.t0 # {}
  PROVE  MeanT0(W) \in Int
<1> DEFINE f == [x \in W |-> The(x.t0)]
<1>1. MeanT0(W) = SumFunction(f) \div Cardinality(W)
  BY Zenon DEF MeanT0, Mean, Total
<1>2. DOMAIN f = W /\ \A x \in W : f[x] \in Int
  BY TimeOf
<1> HIDE DEF f
<1> QED
  BY <1>1, <1>2, MeanOfFigures

\* The line through baselines at different times has a value at any.
LEMMA FittedInt ==
  ASSUME NEW offs \in SUBSET Window, IsFiniteSet(offs), Measured(offs) # {}, NEW t \in {{}} \cup {{x} : x \in Int}
  PROVE  Fitted(offs, t) \in {{}} \cup {{x} : x \in Int}
<1> DEFINE F == Measured(offs)
           mx == MeanT0(F)
           xx == [w \in F |-> (The(w.t0) - mx) * (The(w.t0) - mx)]
           xy == [w \in F |-> (The(w.t0) - mx) * (Ms(w) - MeanMs(F))]
           sloped == t # {} /\ (\A w \in F : w.t0 # {}) /\ Cardinality({w.t0 : w \in F}) > 1
           line == MeanMs(F) + (SumFunction(xy) * (The(t) - mx)) \div SumFunction(xx)
<1>1. Fitted(offs, t) = IF sloped THEN {line} ELSE {}
  BY Zenon DEF Fitted, Total
<1>2. ASSUME sloped PROVE line \in Int
  <2>1. F \in SUBSET Window /\ IsFiniteSet(F) /\ Measured(F) = F
    BY FS_Subset DEF Measured
  <2>2. MeanMs(F) \in Int /\ mx \in Int /\ \A w \in F : Ms(w) \in Int
    <3> HIDE DEF F
    <3> QED
      BY <1>2, <2>1, MeanMsInt, MeanT0Int, FigureOf DEF F
  <2> HIDE DEF F, mx
  <2>3. \A w \in F : The(w.t0) \in Nat /\ w.t0 = {The(w.t0)}
    BY <1>2, <2>1, TimeOf
  <2>4. \A w \in F : The(w.t0) - mx \in Int /\ xx[w] = (The(w.t0) - mx) * (The(w.t0) - mx) /\ xy[w] \in Int
    BY <2>2, <2>3
  <2>5. \A w \in F : xx[w] \in Nat
    BY <2>4, SquareNotNegative
  <2>6. SumFunction(xx) \in Int /\ SumFunction(xy) \in Int
    <3>1. DOMAIN xx = F /\ DOMAIN xy = F
      OBVIOUS
    <3> HIDE DEF xx, xy
    <3> QED
      BY <2>1, <2>4, <2>5, <3>1, MeanOfFigures DEF F
  <2>7. PICK w \in F : The(w.t0) # mx
    <3> SUFFICES ASSUME \A w \in F : The(w.t0) = mx PROVE FALSE
      OBVIOUS
    <3>1. {w.t0 : w \in F} \subseteq {{mx}}
      BY <2>3
    <3>2. Cardinality({w.t0 : w \in F}) <= Cardinality({{mx}}) /\ Cardinality({{mx}}) = 1
      BY <3>1, FS_Subset, FS_Singleton
    <3>3. Cardinality({w.t0 : w \in F}) \in Nat
      BY <3>1, FS_Subset, FS_Singleton, FS_CardinalityType
    <3> QED
      BY <1>2, <3>2, <3>3
  <2>8. xx[w] > 0
    <3>1. The(w.t0) - mx \in Int /\ The(w.t0) - mx # 0
      BY <2>2, <2>3, <2>7
    <3> HIDE DEF xx
    <3> DEFINE d == The(w.t0) - mx
    <3>2. xx[w] = d * d /\ d \in Int /\ d # 0
      BY <2>4, <3>1
    <3> HIDE DEF d
    <3> QED
      BY <3>2
  <2>9. SumFunction(xx) > 0
    <3>1. DOMAIN xx = F
      OBVIOUS
    <3> HIDE DEF xx
    <3>2. SumFunction(xx) = SumOf(xx, F) /\ xx[w] <= SumOf(xx, F)
      BY <2>1, <2>5, <3>1, SumFunctionIs, SumHasEach
    <3> QED
      BY <2>5, <2>6, <2>8, <3>2
  <2>10. The(t) \in Int
    BY <1>2 DEF The
  <2> HIDE DEF xx, xy
  <2>11. SumFunction(xy) * (The(t) - mx) \in Int
    BY <2>2, <2>6, <2>10
  <2> DEFINE a == SumFunction(xy) * (The(t) - mx)  b == SumFunction(xx)
  <2> HIDE DEF a, b
  <2>12. a \div b \in Int
    BY <2>6, <2>9, <2>11 DEF a, b
  <2> QED
    BY <2>2, <2>12 DEF a, b
<1> HIDE DEF sloped, line
<1> QED
  BY <1>1, <1>2

\* A difference between measured windows is a number, and so is its baseline.
LEMMA DifferInt ==
  ASSUME NEW W \in SUBSET Window, IsFiniteSet(W), Measured(W) # {},
         NEW offs \in SUBSET Window, IsFiniteSet(offs), Measured(offs) # {}
  PROVE  Differ(W, offs).delta \in Int
<1> DEFINE timed == {w \in W : w.t0 # {}}
           t == IF timed = {} THEN {} ELSE {MeanT0(timed)}
           fitted == Fitted(offs, t)
           base == MeanMs(offs)
           used == IF BaselineFit /\ fitted # {} THEN The(fitted) ELSE base
<1>1. Differ(W, offs).delta = MeanMs(W) - used
  BY DEF Differ
<1>2. MeanMs(W) \in Int /\ base \in Int
  BY MeanMsInt
<1>3. t \in {{}} \cup {{x} : x \in Int}
  <2>1. timed # {} => MeanT0(timed) \in Int
    <3>1. timed \in SUBSET Window /\ IsFiniteSet(timed) /\ \A w \in timed : w.t0 # {}
      BY FS_Subset
    <3> HIDE DEF timed
    <3> QED
      BY <3>1, MeanT0Int
  <2> HIDE DEF timed
  <2> QED
    BY <2>1
<1> HIDE DEF t
<1>4. fitted \in {{}} \cup {{x} : x \in Int}
  BY <1>3, FittedInt
<1> HIDE DEF fitted, base
<1>5. used \in Int
  BY <1>2, <1>4 DEF The
<1> HIDE DEF used
<1> QED
  BY <1>1, <1>2, <1>5

\* A paired difference is a number, a pod's windows being finitely many.
LEMMA PairInt ==
  ASSUME NEW run \in Seq(Window), NEW a, NEW r \in PairedRows(run, a)
  PROVE  r.delta \in Int
<1> DEFINE K(p) == {w \in OnPod(run, p) : w.arm = a}
           Q == {q \in PodsOf(run) : Measured(K(q)) # {} /\ Measured(Leading(OnPod(run, q))) # {}}
<1>1. PairedRows(run, a) = {Differ(K(p), Leading(OnPod(run, p))) : p \in Q}
  BY Zenon DEF PairedRows
<1>2. PICK p \in Q : r = Differ(K(p), Leading(OnPod(run, p)))
  <2> HIDE DEF Q, K
  <2> QED
    BY <1>1, Zenon
<1>3. OnPod(run, p) \in SUBSET Window /\ IsFiniteSet(OnPod(run, p))
  <2>1. Pooled(run) \in SUBSET Window
    BY PodsOfRun
  <2>2. IsFiniteSet({run[i] : i \in DOMAIN run})
    <3>1. DOMAIN run = 1..Len(run) /\ Len(run) \in Nat
      OBVIOUS
    <3>2. IsFiniteSet(DOMAIN run)
      BY <3>1, FS_Interval
    <3> QED
      BY <3>2, Image
  <2>3. OnPod(run, p) \subseteq Pooled(run) /\ Pooled(run) \subseteq {run[i] : i \in DOMAIN run}
    BY DEF OnPod, Pooled, AcceptedArms, LoadArms
  <2> QED
    BY <2>1, <2>2, <2>3, FS_Subset
<1>4. K(p) \subseteq OnPod(run, p) /\ Leading(OnPod(run, p)) \subseteq OnPod(run, p)
  BY DEF Leading
<1>5. Measured(K(p)) # {} /\ Measured(Leading(OnPod(run, p))) # {}
  BY <1>2
<1>6. IsFiniteSet(K(p)) /\ IsFiniteSet(Leading(OnPod(run, p)))
  BY <1>3, <1>4, FS_Subset
<1> HIDE DEF K
<1> QED
  BY <1>2, <1>3, <1>4, <1>5, <1>6, DifferInt

\* What a battery says of a cell is a point.
IsPoint(p, spans) == p \in Point /\ p.spans = spans

LEMMA PointOf ==
  ASSUME NEW R, R \in Seq(Seq(Window)), NEW a, NEW spans, spans \in Nat, NEW p, p \in ModelPoint(R, a, spans)
  PROVE  IsPoint(p, spans)
<1> DEFINE rows == PairsOf(R, a)
           d == [x \in rows |-> x[2].delta]  sq == [x \in rows |-> x[2].delta * x[2].delta]
<1>1. PICK e \in PairedEntry(R, a) : p = [spans |-> spans, n |-> e.n, sum |-> e.sum, spread |-> e.spread]
  BY DEF ModelPoint
<1>2. rows # {} /\ e.n = Cardinality(rows) /\ e.sum = SumDeltas(rows) /\ e.spread = SpreadDeltas(rows)
  <2>1. \E resolved : e = [n |-> Cardinality(rows), sum |-> SumDeltas(rows), bases |-> SumBases(rows),
                          spread |-> SpreadDeltas(rows), resolved |-> resolved] /\ rows # {}
    BY Zenon DEF PairedEntry, PairsOf
  <2> HIDE DEF rows
  <2> QED
    BY <2>1
<1>3. SumDeltas(rows) = SumFunction(d)
  BY Zenon DEF SumDeltas, Total
<1>4. SpreadDeltas(rows) = Cardinality(rows) * SumFunction(sq) - SumFunction(d) * SumFunction(d)
  BY Zenon DEF SpreadDeltas, Spread, Total
<1>5. IsFiniteSet(rows)
  BY PairsPerProcess
<1>6. \A x \in rows : x[2].delta \in Int
  <2> SUFFICES ASSUME NEW x \in rows PROVE x[2].delta \in Int
    OBVIOUS
  <2>1. PICK n \in DOMAIN R : x[2] \in PairedRows(R[n], a)
    BY DEF PairsOf
  <2>2. R[n] \in Seq(Window)
    OBVIOUS
  <2> QED
    BY <2>1, <2>2, PairInt
<1> HIDE DEF rows
<1>7. \A x \in rows : d[x] \in Int /\ sq[x] = d[x] * d[x]
  BY <1>6
<1>8. SumFunction(d) = SumOf(d, rows) /\ SumFunction(sq) = SumOf(sq, rows)
  <2>1. DOMAIN d = rows /\ DOMAIN sq = rows
    OBVIOUS
  <2> HIDE DEF d, sq
  <2> QED
    BY <2>1, SumFunctionIs
<1> HIDE DEF d, sq
<1>9. SumOf(d, rows) \in Int /\ Cardinality(rows) * SumOf(sq, rows) - SumOf(d, rows) * SumOf(d, rows) \in Nat
  BY <1>5, <1>7, SumType, SpreadNotNegative
<1>10. Cardinality(rows) \in Nat \ {0}
  BY <1>2, <1>5, FS_CardinalityType, FS_EmptySet
<1>11. e.n \in Nat \ {0} /\ e.sum \in Int /\ e.spread \in Nat
  BY <1>2, <1>3, <1>4, <1>8, <1>9, <1>10
<1> QED
  BY <1>1, <1>11 DEF Point, IsPoint

\* A line through two points lies between them.
LEMMA FitBetweenTwo ==
  ASSUME NEW p \in Point, NEW q \in Point, p # q, p.sum * q.n * q.spans <= q.sum * p.n * p.spans
  PROVE  LET c == FitPoints({p, q}) IN
         p.sum * c.den <= c.num * p.n * p.spans /\ c.num * q.n * q.spans <= q.sum * c.den
<1>1. PICK wp, wq \in Nat : FittedBy(p, q, FitPoints({p, q}), wp, wq)
  BY FitOfTwo
<1> DEFINE c == FitPoints({p, q})
<1> HIDE DEF c
<1>2. /\ c.num = wp * p.spans * p.sum * q.n + wq * q.spans * q.sum * p.n
      /\ c.den = p.n * q.n * (wp * p.spans * p.spans + wq * q.spans * q.spans)
  BY <1>1 DEF FittedBy, c
<1> DEFINE sp == p.spans  sq == q.spans  np == p.n  nq == q.n  Sp == p.sum  Sq == q.sum
<1>3. sp \in Nat /\ sq \in Nat /\ np \in Nat /\ nq \in Nat /\ Sp \in Int /\ Sq \in Int /\ Sp * nq * sq <= Sq * np * sp
  BY DEF Point
<1>4. /\ c.num = wp * sp * Sp * nq + wq * sq * Sq * np
      /\ c.den = np * nq * (wp * sp * sp + wq * sq * sq)
  BY <1>2
<1> HIDE DEF sp, sq, np, nq, Sp, Sq
<1>5. Sp * c.den <= c.num * np * sp /\ c.num * nq * sq <= Sq * c.den
  BY <1>3, <1>4, Mediant
<1> QED
  BY <1>5 DEF c, sp, sq, np, nq, Sp, Sq

\* A window that costs something else is one.
LEMMA Recosted ==
  ASSUME NEW w \in Window, NEW k \in Int
  PROVE  [w EXCEPT !.ms = {m + k : m \in @}] \in Window
<1>1. {m + k : m \in w.ms} \in {{}} \cup {{m} : m \in Int}
  <2>1. CASE w.ms = {}
    BY <2>1
  <2>2. ASSUME NEW m \in Int, w.ms = {m}
        PROVE {y + k : y \in w.ms} \in {{}} \cup {{y} : y \in Int}
    <3>1. {y + k : y \in w.ms} = {m + k} /\ m + k \in Int
      BY <2>2
    <3> QED
      BY <3>1
  <2> QED
    BY <2>1, <2>2 DEF Window
<1> QED
  BY <1>1, Zenon DEF Window

\* The cost per span that analyze.py fits through two cells, weighted by their
\* intervals or not, lies between the two cells' own (analyze.py:572, fit_points).
THEOREM FitLiesBetween == Spec => []FitBetweenCells
<1>1. ShapeInv => FitBetweenCells
  <2> SUFFICES ASSUME ShapeInv PROVE FitBetweenCells
    OBVIOUS
  <2> DEFINE more == (8 - 1) * CSpan
             dearerRun(run) == [i \in DOMAIN run |->
                  IF run[i].arm = 100 THEN [run[i] EXCEPT !.ms = {m + more : m \in @}] ELSE run[i]]
             dearer == [n \in DOMAIN reps |-> dearerRun(reps[n])]
             s == ModelPoint(reps, 100, Spans)
             l == ModelPoint(SubSeq(dearer, 1, 1), 100, 8) \cup
                  (IF Len(reps) > 1 THEN ModelPoint(dearer, 100, 8) ELSE {})
             Below(x, y) == x.sum * y.n * y.spans <= y.sum * x.n * x.spans
             Fits(p, q, c) ==
               LET lo == IF Below(p, q) THEN p ELSE q
                   hi == IF Below(p, q) THEN q ELSE p
               IN lo.sum * c.den <= c.num * lo.n * lo.spans /\ c.num * hi.n * hi.spans <= hi.sum * c.den
  <2>1. ASSUME NEW run \in Seq(Window) PROVE dearerRun(run) \in Seq(Window)
    <3>0. more \in Int
      BY DEF CSpan
    <3>1. Len(run) \in Nat /\ DOMAIN run = 1..Len(run) /\ \A i \in DOMAIN run : run[i] \in Window
      OBVIOUS
    <3> HIDE DEF more
    <3>2. ASSUME NEW i \in DOMAIN run PROVE dearerRun(run)[i] \in Window
      <4>1. [run[i] EXCEPT !.ms = {m + more : m \in @}] \in Window
        BY <3>0, <3>1, Recosted
      <4> QED
        BY <3>1, <4>1
    <3>3. dearerRun(run) = [i \in 1..Len(run) |-> dearerRun(run)[i]]
      BY <3>1
    <3> HIDE DEF dearerRun
    <3> QED
      BY <3>1, <3>2, <3>3
  <2>2. dearer \in Seq(Seq(Window)) /\ Len(dearer) > 0
    <3>1. Len(reps) \in Nat /\ Len(reps) > 0 /\ DOMAIN reps = 1..Len(reps) /\ \A n \in DOMAIN reps : reps[n] \in Seq(Window)
      BY DEF ShapeInv
    <3>2. \A n \in 1..Len(reps) : dearerRun(reps[n]) \in Seq(Window)
      BY <2>1, <3>1
    <3> HIDE DEF dearerRun
    <3> QED
      BY <3>1, <3>2
  <2>3. SubSeq(dearer, 1, 1) \in Seq(Seq(Window)) /\ reps \in Seq(Seq(Window))
    <3> HIDE DEF dearer
    <3> QED
      BY <2>2 DEF ShapeInv
  <2>4. ASSUME NEW p \in s, NEW q \in l
        PROVE  p \in Point /\ q \in Point /\ p # q
    <3>0. 1 \in Nat /\ 8 \in Nat
      OBVIOUS
    <3>1. IsPoint(p, 1)
      <4>1. p \in ModelPoint(reps, 100, 1)
        BY DEF Spans
      <4> QED
        BY <2>3, <3>0, <4>1, PointOf
    <3>2. IsPoint(q, 8)
      <4> HIDE DEF dearer
      <4> QED
        <5>1. q \in ModelPoint(SubSeq(dearer, 1, 1), 100, 8) \/ q \in ModelPoint(dearer, 100, 8)
          OBVIOUS
        <5> QED
          BY <2>2, <2>3, <3>0, <5>1, PointOf, Zenon
    <3> QED
      BY <3>1, <3>2 DEF IsPoint
  <2> HIDE DEF s, l
  <2>5. ASSUME NEW p \in s, NEW q \in l
        PROVE  Fits(p, q, FitPoints({p, q}))
    <3>1. p \in Point /\ q \in Point /\ p # q
      BY <2>4
    <3>2. CASE Below(p, q)
      BY <3>1, <3>2, FitBetweenTwo
    <3>3. CASE ~Below(p, q)
      <4>1. Below(q, p)
        BY <3>1, <3>3 DEF Point
      <4>2. {p, q} = {q, p}
        OBVIOUS
      <4> DEFINE c == FitPoints({p, q})
      <4>3. q.sum * c.den <= c.num * q.n * q.spans /\ c.num * p.n * p.spans <= p.sum * c.den
        BY <3>1, <4>1, <4>2, FitBetweenTwo
      <4> QED
        BY <3>3, <4>3
    <3> QED
      BY <3>2, <3>3
  <2> HIDE DEF dearer, Fits, Below
  <2>6. \A p \in s, q \in l : \A c \in {FitPoints({p, q})} : Fits(p, q, c)
    BY <2>5
  <2> QED
    BY <2>6, Zenon DEF FitBetweenCells, s, l, dearer, dearerRun, more, Fits, Below
<1> QED
  BY <1>1, ShapeInvariant, PTL

-----------------------------------------------------------------------------
(***************************************************************************)
(* The selftest.  Of a complete battery the paired entry of an arm is what *)
(* was planted, off by what the one noisy window leaves in the line through *)
(* the two baselines; the pooled view keeps the trend.                     *)
(***************************************************************************)
\* What selftest.py is asked to pass on: a fitted baseline, two repetitions or more
\* of which at most one window is off, and a trend of whole spans per slot.  With
\* one such window and four repetitions or more the selftest may fail: the interval
\* is narrow enough to want the planted value recovered.
SelftestBattery ==
  /\ BaselineFit /\ MaxReps >= 2 /\ \A d \in Drifts : d % CSpan = 0
  /\ MaxNoisy = 0 \/ (MaxNoisy = 1 /\ MaxReps <= 3)

\* A window that went as planned, noisy or not.
Planned(w, i) == w = WindowAt(i, "judged", IF w.noisy THEN Noise ELSE 0, 1)

\* The window of a slot is there, and off.
NoisyAt(n, i) == n \in DOMAIN reps /\ i \in DOMAIN reps[n] /\ reps[n][i].noisy

\* The windows of a fixture all went as planned, and no more than one is noisy.
FixtureInv ==
  /\ drift \in Drifts
  /\ source = "fixture" =>
       /\ \A n \in DOMAIN reps : \A i \in DOMAIN reps[n] : Planned(reps[n][i], i)
       /\ \A n, m, i, j : NoisyAt(n, i) /\ NoisyAt(m, j) => MaxNoisy # 0 /\ n = m /\ i = j

\* No window counted, none noisy.
LEMMA NoneNoisy ==
  ASSUME ShapeInv, SelftestBattery, Count(LAMBDA v : v.noisy) < MaxNoisy
  PROVE  MaxNoisy # 0 /\ \A n, i : ~NoisyAt(n, i)
<1> DEFINE cells == UNION {{n} \X DOMAIN reps[n] : n \in DOMAIN reps}
           C == {x \in cells : reps[x[1]][x[2]].noisy}
<1>1. Count(LAMBDA v : v.noisy) = Cardinality(C)
  BY Zenon DEF Count
<1>2. IsFiniteSet(cells)
  <2> DEFINE f == [n \in DOMAIN reps |-> {n} \X DOMAIN reps[n]]
  <2>1. IsFiniteSet(DOMAIN reps) /\ \A n \in DOMAIN reps : IsFiniteSet(DOMAIN reps[n])
    <3>1. DOMAIN reps = 1..Len(reps) /\ Len(reps) \in Nat
          /\ \A n \in DOMAIN reps : DOMAIN reps[n] = 1..Len(reps[n]) /\ Len(reps[n]) \in Nat
      BY DEF ShapeInv
    <3> QED
      BY <3>1, FS_Interval
  <2>2. \A n \in DOMAIN reps : IsFiniteSet({n} \X DOMAIN reps[n])
    BY <2>1, FS_Singleton, FS_Product
  <2>3. {f[n] : n \in DOMAIN reps} = {{n} \X DOMAIN reps[n] : n \in DOMAIN reps}
    OBVIOUS
  <2>4. IsFiniteSet({f[n] : n \in DOMAIN reps})
    <3> HIDE DEF f
    <3> QED
      BY <2>1, Image
  <2> QED
    BY <2>2, <2>3, <2>4, FS_UNION
<1>3. IsFiniteSet(C)
  <2> HIDE DEF cells
  <2> QED
    BY <1>2, FS_Subset
<1>4. Cardinality(C) < MaxNoisy /\ (MaxNoisy = 0 \/ MaxNoisy = 1)
  BY <1>1 DEF SelftestBattery
<1>5. Cardinality(C) \in Nat
  BY <1>3, FS_CardinalityType
<1>6. MaxNoisy # 0 /\ Cardinality(C) = 0
  <2> HIDE DEF C
  <2> QED
    BY <1>4, <1>5
<1>7. C = {}
  <2> HIDE DEF C
  <2> QED
    BY <1>3, <1>6, FS_EmptySet
<1>8. ASSUME NEW n, NEW i, NoisyAt(n, i) PROVE FALSE
  <2>1. <<n, i>> \in C
    BY <1>8 DEF NoisyAt
  <2> HIDE DEF C
  <2> QED
    BY <1>7, <2>1
<1> HIDE DEF C
<1> QED
  BY <1>6, <1>8

\* They do, step by step: a window is only off when none was.
LEMMA FixtureInvariant == ASSUME SelftestBattery PROVE Spec => []FixtureInv
<1>1. Init => FixtureInv
  BY DEF Init, FixtureInv, NoisyAt
<1>2. ASSUME ShapeInv, FixtureInv, [Next]_vars PROVE FixtureInv'
  <2>1. CASE Measure /\ source = "fixture"
    <3> DEFINE last == Len(reps)  run == reps[last]  slot == Len(run) + 1
    <3>1. PICK fate \in Fates, noise \in {0, Noise}, moved \in {0, 1} :
            /\ ~NextWindow(run, fate, noise, moved).odd
            /\ noise # 0 => Count(LAMBDA v : v.noisy) < MaxNoisy
            /\ reps' = [reps EXCEPT ![last] = Append(run, NextWindow(run, fate, noise, moved))]
      BY <2>1 DEF Measure
    <3> DEFINE w == WindowAt(slot, fate, noise, PodNow(run) + moved)
               z == NextWindow(run, fate, noise, moved)
    <3>2. fate = "judged" /\ moved = 0 /\ z = w
      <4>1. w.odd = (fate # "judged")
        BY Zenon DEF WindowAt
      <4>2. z = [w EXCEPT !.odd = w.odd \/ moved = 1]
        BY Zenon DEF NextWindow
      <4>3. z.odd = (w.odd \/ moved = 1)
        BY Zenon DEF NextWindow, WindowAt
      <4>4. ~(w.odd \/ moved = 1)
        BY <3>1, <4>3, Zenon
      <4>5. fate = "judged" /\ moved = 0
        BY <4>1, <4>4
      <4>6. z = w
        <5>1. w.odd = FALSE /\ (w.odd \/ moved = 1) = FALSE
          BY <4>1, <4>4, <4>5
        <5>2. z = [w EXCEPT !.odd = FALSE]
          BY <4>2, <5>1, Zenon
        <5>3. "odd" \in DOMAIN w /\ w = [x \in DOMAIN w |-> w[x]] /\ w["odd"] = FALSE
          BY <5>1 DEF WindowAt
        <5> HIDE DEF w
        <5> QED
          BY <5>2, <5>3
      <4> QED
        BY <4>5, <4>6
    <3>3. last \in DOMAIN reps /\ run \in Seq(Window) /\ Len(run) \in Nat /\ reps \in Seq(Seq(Window))
      BY <1>2 DEF ShapeInv
    <3>4. PodNow(run) = 1
      <4>1. CASE run = <<>>
        BY <4>1 DEF PodNow
      <4>2. CASE run # <<>>
        <5>1. Len(run) \in DOMAIN run
          BY <3>3, <4>2
        <5>2. Planned(run[Len(run)], Len(run))
          BY <1>2, <2>1, <3>3, <5>1 DEF FixtureInv
        <5>3. run[Len(run)].gate = "accepted" /\ run[Len(run)].pod = {1}
          BY <5>2 DEF Planned, WindowAt
        <5> QED
          BY <4>2, <5>3 DEF PodNow, The
      <4> QED
        BY <4>1, <4>2
    <3>5. Planned(w, slot) /\ (w.noisy <=> noise # 0)
      <4>1. w = WindowAt(slot, "judged", noise, 1)
        BY <3>2, <3>4
      <4>2. w.noisy <=> noise # 0
        BY Zenon DEF WindowAt
      <4>3. noise = IF w.noisy THEN Noise ELSE 0
        BY <4>2 DEF Noise
      <4> HIDE DEF w
      <4> QED
        BY <4>1, <4>2, <4>3 DEF Planned
    <3> HIDE DEF w, z, run, last
    <3>6. reps' = [reps EXCEPT ![last] = Append(run, w)] /\ run = reps[last] /\ slot = Len(run) + 1
      BY <3>1, <3>2 DEF z, run, last
    <3> HIDE DEF slot
    <3>7. /\ DOMAIN reps' = DOMAIN reps
          /\ \A n \in DOMAIN reps : n # last => reps'[n] = reps[n]
          /\ reps'[last] = Append(run, w)
          /\ DOMAIN reps'[last] = DOMAIN run \cup {slot} /\ slot \notin DOMAIN run
          /\ \A i \in DOMAIN run : reps'[last][i] = run[i]
          /\ reps'[last][slot] = w
      BY <3>3, <3>6
    <3>8. UNCHANGED <<design, source, drift>>
      BY <2>1 DEF Measure
    <3>9. ASSUME NEW v, NEW i PROVE Planned(v, i)' <=> Planned(v, i)
      BY <3>8 DEF Planned, WindowAt, Planted, Time
    <3>10. ASSUME NEW n \in DOMAIN reps', NEW i \in DOMAIN reps'[n] PROVE Planned(reps'[n][i], i)
      <4>1. CASE n = last /\ i = slot
        BY <3>5, <3>7, <4>1
      <4>2. CASE ~(n = last /\ i = slot)
        <5>1. n \in DOMAIN reps /\ i \in DOMAIN reps[n] /\ reps'[n][i] = reps[n][i]
          BY <3>6, <3>7, <4>2
        <5> QED
          BY <1>2, <2>1, <5>1 DEF FixtureInv
      <4> QED
        BY <4>1, <4>2
    <3>11. ASSUME NEW n, NEW i, NoisyAt(n, i)'
           PROVE  NoisyAt(n, i) \/ (n = last /\ i = slot /\ noise # 0)
      <4>1. n \in DOMAIN reps' /\ i \in DOMAIN reps'[n] /\ reps'[n][i].noisy
        BY <3>11 DEF NoisyAt
      <4>2. CASE n = last /\ i = slot
        BY <3>5, <3>7, <4>1, <4>2
      <4>3. CASE ~(n = last /\ i = slot)
        <5>1. n \in DOMAIN reps /\ i \in DOMAIN reps[n] /\ reps'[n][i] = reps[n][i]
          BY <3>6, <3>7, <4>1, <4>3
        <5> QED
          BY <4>1, <5>1 DEF NoisyAt
      <4> QED
        BY <4>2, <4>3
    <3>12. noise # 0 => MaxNoisy # 0 /\ \A n, i : ~NoisyAt(n, i)
      BY <1>2, <3>1, NoneNoisy
    <3>13. ASSUME NEW n, NEW m, NEW i, NEW j, NoisyAt(n, i)', NoisyAt(m, j)'
           PROVE  MaxNoisy # 0 /\ n = m /\ i = j
      <4>1. NoisyAt(n, i) \/ (n = last /\ i = slot /\ noise # 0)
        BY <3>11, <3>13
      <4>2. NoisyAt(m, j) \/ (m = last /\ j = slot /\ noise # 0)
        BY <3>11, <3>13
      <4>3. NoisyAt(n, i) /\ NoisyAt(m, j) => MaxNoisy # 0 /\ n = m /\ i = j
        BY <1>2, <2>1 DEF FixtureInv
      <4> QED
        BY <3>12, <4>1, <4>2, <4>3
    <3> QED
      BY <1>2, <3>8, <3>9, <3>10, <3>13 DEF FixtureInv
  <2>2. CASE Measure /\ source # "fixture"
    BY <1>2, <2>2 DEF Measure, FixtureInv
  <2>3. CASE Repeat
    <3>1. reps' = Append(reps, <<>>) /\ UNCHANGED <<design, source, drift>>
      BY <2>3 DEF Repeat
    <3>2. reps \in Seq(Seq(Window))
      BY <1>2 DEF ShapeInv
    <3>3. \A n, i : n \in DOMAIN reps' /\ i \in DOMAIN reps'[n] =>
                      n \in DOMAIN reps /\ i \in DOMAIN reps[n] /\ reps'[n][i] = reps[n][i]
      <4> SUFFICES ASSUME NEW n, NEW i, n \in DOMAIN reps', i \in DOMAIN reps'[n]
                   PROVE  n \in DOMAIN reps /\ i \in DOMAIN reps[n] /\ reps'[n][i] = reps[n][i]
        OBVIOUS
      <4>1. CASE n \in DOMAIN reps
        BY <3>1, <3>2, <4>1
      <4>2. CASE n \notin DOMAIN reps
        <5>1. reps'[n] = <<>>
          BY <3>1, <3>2, <4>2
        <5> QED
          BY <5>1
      <4> QED
        BY <4>1, <4>2
    <3>4. ASSUME NEW v, NEW i PROVE Planned(v, i)' <=> Planned(v, i)
      BY <3>1 DEF Planned, WindowAt, Planted, Time
    <3>5. \A n, i : NoisyAt(n, i)' => NoisyAt(n, i)
      BY <3>3 DEF NoisyAt
    <3>6. source' = source /\ drift' = drift
      BY <3>1
    <3>7. source = "fixture" => \A n \in DOMAIN reps' : \A i \in DOMAIN reps'[n] : Planned(reps'[n][i], i)
      BY <1>2, <3>3 DEF FixtureInv
    <3> QED
      BY <1>2, <3>4, <3>5, <3>6, <3>7 DEF FixtureInv
  <2>4. CASE UNCHANGED vars
    BY <1>2, <2>4 DEF vars, FixtureInv, Planned, NoisyAt, WindowAt, Planted, Time
  <2> QED
    BY <1>2, <2>1, <2>2, <2>3, <2>4 DEF Next
<1> QED
  BY <1>1, <1>2, ShapeInvariant, PTL DEF Spec

\* One window's figure.
LEMMA MeasuredOne ==
  ASSUME NEW w, NEW m \in Int, w.ms = {m}
  PROVE  Measured({w}) = {w} /\ Ms(w) = m /\ MeanMs({w}) = m
<1>1. Measured({w}) = {w} /\ Ms(w) = m
  BY DEF Measured, Ms, The
<1> DEFINE f == [x \in {w} |-> Ms(x)]
<1>2. MeanMs({w}) = SumFunction(f) \div Cardinality({w})
  BY <1>1, Zenon DEF MeanMs, Mean, Total
<1>3. f[w] = m /\ DOMAIN f = {w}
  BY <1>1
<1> HIDE DEF f
<1>4. SumFunction(f) = m
  BY <1>3, SumFunctionIs, SumOne
<1>5. Cardinality({w}) = 1
  BY FS_Singleton
<1> QED
  BY <1>1, <1>2, <1>4, <1>5

\* Two are two.
LEMMA TwoElements ==
  ASSUME NEW u, NEW v, u # v
  PROVE  IsFiniteSet({u, v}) /\ Cardinality({u, v}) = 2
<1>1. IsFiniteSet({v}) /\ Cardinality({v}) = 1 /\ u \notin {v} /\ {v} \cup {u} = {u, v}
  BY FS_Singleton
<1> QED
  BY <1>1, FS_AddElement

\* What a window costs, when; and a line through two.
Costs(w, m, t) == w.ms = {m} /\ w.t0 = {t}
Line(A, B, t) == A + B + (12 * (B - A) * (t - 18)) \div 72

\* The line through two baselines a time 12 apart, at a time t.
LEMMA FittedTwo ==
  ASSUME NEW u, NEW v, NEW A \in Int, NEW B \in Int, NEW t \in Int,
         Costs(u, 2 * A, 12), Costs(v, 2 * B, 24)
  PROVE  Fitted({u, v}, {t}) = {Line(A, B, t)}
<1> DEFINE F == {u, v}
           ms == [x \in F |-> Ms(x)]
           ts == [x \in F |-> The(x.t0)]
           mx == MeanT0(F)
           xx == [w \in F |-> (The(w.t0) - mx) * (The(w.t0) - mx)]
           xy == [w \in F |-> (The(w.t0) - mx) * (Ms(w) - MeanMs(F))]
           sloped == {t} # {} /\ (\A w \in F : w.t0 # {}) /\ Cardinality({w.t0 : w \in F}) > 1
           line == MeanMs(F) + (SumFunction(xy) * (The({t}) - mx)) \div SumFunction(xx)
<1>h. u.ms = {2 * A} /\ v.ms = {2 * B} /\ u.t0 = {12} /\ v.t0 = {24}
  BY DEF Costs
<1>0. u # v
  <2> SUFFICES ASSUME u = v PROVE FALSE
    OBVIOUS
  <2>1. u.t0 = v.t0
    OBVIOUS
  <2>2. 12 \in v.t0 /\ 12 \notin {24}
    BY <1>h, <2>1
  <2> QED
    BY <1>h, <2>2
<1>1. Measured(F) = F /\ Ms(u) = 2 * A /\ Ms(v) = 2 * B /\ The(u.t0) = 12 /\ The(v.t0) = 24 /\ The({t}) = t
  BY <1>h DEF Measured, Ms, The
<1>2. Cardinality(F) = 2
  BY <1>0, TwoElements
<1>3. MeanMs(F) = SumFunction(ms) \div Cardinality(F)
  BY <1>1, Zenon DEF MeanMs, Mean, Total
<1>4. mx = SumFunction(ts) \div Cardinality(F)
  BY Zenon DEF MeanT0, Mean, Total
<1>5. /\ DOMAIN ms = F /\ DOMAIN ts = F /\ DOMAIN xx = F /\ DOMAIN xy = F
      /\ ms[u] = 2 * A /\ ms[v] = 2 * B /\ ts[u] = 12 /\ ts[v] = 24
      /\ xx[u] = (12 - mx) * (12 - mx) /\ xx[v] = (24 - mx) * (24 - mx)
      /\ xy[u] = (12 - mx) * (2 * A - MeanMs(F)) /\ xy[v] = (24 - mx) * (2 * B - MeanMs(F))
  BY <1>1
<1>6. Fitted(F, {t}) = IF sloped THEN {line} ELSE {}
  BY <1>1, Zenon DEF Fitted, Total
<1>7. sloped
  <2>1. {w.t0 : w \in F} = {{12}, {24}} /\ {12} # {24}
    <3>1. {12} # {24}
      <4>1. 12 \in {12} /\ 12 \notin {24}
        OBVIOUS
      <4> QED
        BY <4>1
    <3>2. {w.t0 : w \in F} = {u.t0, v.t0}
      OBVIOUS
    <3> QED
      BY <1>h, <3>1, <3>2
  <2>2. Cardinality({w.t0 : w \in F}) = 2
    <3> DEFINE a == {12}  b == {24}
    <3>1. {w.t0 : w \in F} = {a, b} /\ a # b
      BY <2>1
    <3> HIDE DEF a, b, F
    <3>2. Cardinality({a, b}) = 2
      BY <3>1, TwoElements
    <3> QED
      BY <3>1, <3>2
  <2>3. \A w \in F : w.t0 # {}
    BY <1>h
  <2> QED
    BY <2>2, <2>3
<1> HIDE DEF ms, ts, mx, xx, xy, sloped
<1>8. SumFunction(ms) = 2 * A + 2 * B /\ SumFunction(ts) = 36
  <2>1. SumFunction(ms) = SumOf(ms, F) /\ SumFunction(ts) = SumOf(ts, F)
    BY <1>5, SumFunctionIs
  <2>2. ms[u] \in Int /\ ms[v] \in Int /\ ts[u] \in Int /\ ts[v] \in Int
    BY <1>5
  <2> QED
    BY <1>0, <1>5, <2>1, <2>2, SumTwo
<1>9. MeanMs(F) = A + B /\ mx = 18
  BY <1>2, <1>3, <1>4, <1>8
<1>10. xx[u] = 36 /\ xx[v] = 36 /\ xy[u] = 6 * (B - A) /\ xy[v] = 6 * (B - A)
  <2>1. /\ xx[u] = (12 - 18) * (12 - 18) /\ xx[v] = (24 - 18) * (24 - 18)
        /\ xy[u] = (12 - 18) * (2 * A - (A + B)) /\ xy[v] = (24 - 18) * (2 * B - (A + B))
    BY <1>5, <1>9
  <2> QED
    BY <2>1
<1>11. SumFunction(xx) = 72 /\ SumFunction(xy) = 12 * (B - A)
  <2>1. SumFunction(xx) = SumOf(xx, F) /\ SumFunction(xy) = SumOf(xy, F)
    BY <1>5, SumFunctionIs
  <2>2. xx[u] \in Int /\ xx[v] \in Int /\ xy[u] \in Int /\ xy[v] \in Int
    BY <1>10
  <2>3. ASSUME NEW f, f[u] \in Int, f[v] \in Int PROVE SumOf(f, F) = f[u] + f[v]
    BY <1>0, <2>3, SumTwo
  <2>4. SumOf(xx, F) = xx[u] + xx[v] /\ SumOf(xy, F) = xy[u] + xy[v]
    BY <2>2, <2>3
  <2> QED
    BY <1>10, <2>1, <2>4
<1>12. line = Line(A, B, t)
  BY <1>1, <1>9, <1>11 DEF Line
<1> HIDE DEF line, F
<1> QED
  BY <1>1, <1>6, <1>7, <1>9, <1>12 DEF F

\* What one window costs more than the line through two.
LEMMA DeltaOfTwo ==
  ASSUME NEW u, NEW v, NEW w, NEW A \in Int, NEW B \in Int, NEW t \in Int, NEW m \in Int,
         Costs(u, 2 * A, 12), Costs(v, 2 * B, 24), Costs(w, m, t), BaselineFit
  PROVE  Differ({w}, {u, v}).delta = m - Line(A, B, t)
<1> DEFINE timed == {x \in {w} : x.t0 # {}}
           fitted == Fitted({u, v}, IF timed = {} THEN {} ELSE {MeanT0(timed)})
           used == IF BaselineFit /\ fitted # {} THEN The(fitted) ELSE MeanMs({u, v})
<1>1. Differ({w}, {u, v}).delta = MeanMs({w}) - used
  BY DEF Differ
<1>2. timed = {w}
  BY DEF Costs
<1>3. MeanT0({w}) = t
  <2> DEFINE f == [x \in {w} |-> The(x.t0)]
  <2>1. MeanT0({w}) = SumFunction(f) \div Cardinality({w})
    BY Zenon DEF MeanT0, Mean, Total
  <2>2. f[w] = t /\ DOMAIN f = {w}
    BY DEF The, Costs
  <2> HIDE DEF f
  <2>3. SumFunction(f) = t /\ Cardinality({w}) = 1
    BY <2>2, SumFunctionIs, SumOne, FS_Singleton
  <2> QED
    BY <2>1, <2>3
<1>4. fitted = Fitted({u, v}, {t})
  BY <1>2, <1>3
<1> HIDE DEF fitted, timed
<1>5. fitted = {Line(A, B, t)}
  BY <1>4, FittedTwo
<1>6. used = Line(A, B, t)
  BY <1>5 DEF The
<1>7. MeanMs({w}) = m
  BY MeasuredOne DEF Costs
<1> QED
  BY <1>1, <1>6, <1>7

\* Half of what is off in a window.
Half(w) == IF w.noisy THEN 6 ELSE 0

\* A window of the selftest's run.
FixtureWindow(w, i) ==
  /\ w.arm = FixtureArms[i] /\ w.slot = i /\ w.pod = {1} /\ w.k6 /\ w.gate = "accepted" /\ w.meta
  /\ w.t0 = {12 * i} /\ w.ms = {Level + drift * i + Planted(FixtureArms[i]) + 2 * Half(w)}

\* It is one that went as planned.
LEMMA PlannedWindow ==
  ASSUME source = "fixture", design = FixtureArms, NEW i \in 1..4, NEW w, Planned(w, i)
  PROVE  FixtureWindow(w, i)
<1> DEFINE z == IF w.noisy THEN Noise ELSE 0
<1>1. w = WindowAt(i, "judged", z, 1)
  BY DEF Planned
<1>2. z = 2 * Half(w)
  BY DEF Half, Noise
<1> HIDE DEF z
<1>3. /\ w.arm = design[i] /\ w.slot = i /\ w.pod = {1} /\ w.gate = "accepted"
      /\ w.t0 = {Time(i)} /\ w.ms = {Level + drift * i + Planted(design[i]) + z}
  BY <1>1 DEF WindowAt
<1>4. w.k6 /\ w.meta
  BY <1>1, Zenon DEF WindowAt
<1> QED
  BY <1>2, <1>3, <1>4 DEF FixtureWindow, Time

\* A complete run of them.
FixtureRun(run) ==
  /\ run \in Seq(Window) /\ Len(run) = 4 /\ \A i \in 1..4 : FixtureWindow(run[i], i)

\* An arm with one window, which has a figure.
Sole(W, a, v) == {w \in W : w.arm = a} = {v} /\ Measured({v}) # {}

\* Its windows are one process's, two baselines and one of each arm.
LEMMA FixturePairs ==
  ASSUME NEW run, FixtureRun(run)
  PROVE  /\ Pooled(run) = {run[1], run[2], run[3], run[4]}
         /\ PairedRows(run, 100) = {Differ({run[3]}, {run[1], run[2]})}
         /\ PairedRows(run, 25) = {Differ({run[4]}, {run[1], run[2]})}
<1> DEFINE W == {run[1], run[2], run[3], run[4]}  B == {run[1], run[2]}
<1>1. DOMAIN run = 1..4
  BY DEF FixtureRun
<1>2. /\ FixtureWindow(run[1], 1) /\ FixtureWindow(run[2], 2) /\ FixtureWindow(run[3], 3) /\ FixtureWindow(run[4], 4)
  BY DEF FixtureRun
<1>3. /\ run[1].arm = Off /\ run[2].arm = Off /\ run[3].arm = 100 /\ run[4].arm = 25
      /\ run[1].slot = 1 /\ run[2].slot = 2 /\ run[3].slot = 3 /\ run[4].slot = 4
  BY <1>2 DEF FixtureWindow, FixtureArms, Off
<1>4. \A w \in W : w.pod = {1} /\ w.meta /\ w.ms # {}
  BY <1>2 DEF FixtureWindow
<1>5. \A i \in 1..4 : run[i].k6 /\ run[i].gate = "accepted"
  BY DEF FixtureRun, FixtureWindow
<1>6. Pooled(run) = W
  <2>1. AcceptedArms(run) = 1..4
    BY <1>1, <1>5 DEF AcceptedArms, LoadArms, AcceptsRow
  <2> QED
    BY <2>1 DEF Pooled
<1>7. PodsOf(run) = {1}
  <2> HIDE DEF W
  <2>1. run[1] \in W
    BY DEF W
  <2> QED
    BY <1>4, <1>6, <2>1 DEF PodsOf
<1>8. OnPod(run, 1) = W
  <2> HIDE DEF W
  <2> QED
    BY <1>4, <1>6 DEF OnPod
<1>9. Leading(W) = B
  BY <1>3 DEF Leading, Off
<1>10. Measured(B) # {}
  <2>1. run[1] \in W /\ run[1] \in B
    OBVIOUS
  <2> HIDE DEF W, B
  <2> QED
    BY <1>4, <2>1 DEF Measured
<1>11. {w \in W : w.arm = 100} = {run[3]} /\ {w \in W : w.arm = 25} = {run[4]}
  BY <1>3 DEF Off
<1>12. Measured({run[3]}) # {} /\ Measured({run[4]}) # {}
  <2>1. run[3] \in W /\ run[4] \in W
    OBVIOUS
  <2> HIDE DEF W
  <2> QED
    BY <1>4, <2>1 DEF Measured
<1>s. Sole(W, 100, run[3]) /\ Sole(W, 25, run[4])
  BY <1>11, <1>12, Zenon DEF Sole
<1> HIDE DEF W, B
<1>13. ASSUME NEW a, NEW v, Sole(W, a, v) PROVE PairedRows(run, a) = {Differ({v}, B)}
  <2>0. {w \in W : w.arm = a} = {v} /\ Measured({v}) # {}
    BY <1>13, Zenon DEF Sole
  <2> DEFINE K(p) == {w \in OnPod(run, p) : w.arm = a}
             Q == {q \in PodsOf(run) : Measured(K(q)) # {} /\ Measured(Leading(OnPod(run, q))) # {}}
  <2>1. PairedRows(run, a) = {Differ(K(p), Leading(OnPod(run, p))) : p \in Q}
    BY Zenon DEF PairedRows
  <2>2. K(1) = {v} /\ Leading(OnPod(run, 1)) = B
    BY <1>8, <1>9, <2>0
  <2>3. Q = {1}
    <3> HIDE DEF K
    <3> QED
      BY <1>7, <1>10, <2>0, <2>2
  <2> HIDE DEF K, Q
  <2> QED
    BY <2>1, <2>2, <2>3
<1>14. PairedRows(run, 100) = {Differ({run[3]}, B)} /\ PairedRows(run, 25) = {Differ({run[4]}, B)}
  BY <1>s, <1>13
<1> QED
  BY <1>6, <1>14 DEF W, B

\* What the paired view makes of it.
LEMMA FixtureDeltas ==
  ASSUME NEW run, FixtureRun(run), drift \in Int, drift % CSpan = 0, BaselineFit
  PROVE  /\ Differ({run[3]}, {run[1], run[2]}).delta
              = Planted(100) + 2 * Half(run[3]) + 2 * Half(run[1]) - 4 * Half(run[2])
         /\ Differ({run[4]}, {run[1], run[2]}).delta
              = Planted(25) + 2 * Half(run[4]) + 4 * Half(run[1]) - 6 * Half(run[2])
<1> DEFINE h1 == Half(run[1])  h2 == Half(run[2])  h3 == Half(run[3])  h4 == Half(run[4])
<1>1. h1 \in Int /\ h2 \in Int /\ h3 \in Int /\ h4 \in Int
  BY DEF Half
<1>2. PICK k \in Int : drift = 12 * k
  <2>1. drift = 12 * (drift \div 12) /\ drift \div 12 \in Int
    BY DEF CSpan
  <2> QED
    BY <2>1
<1> DEFINE A == 192 + 6 * k + h1  B == 192 + 12 * k + h2
           m3 == 384 + 36 * k + 12 + 2 * h3  m4 == 384 + 48 * k + 6 + 2 * h4
<1>3. /\ run[1].ms = {Level + drift * 1 + Planted(Off) + 2 * h1} /\ run[1].t0 = {12 * 1}
      /\ run[2].ms = {Level + drift * 2 + Planted(Off) + 2 * h2} /\ run[2].t0 = {12 * 2}
      /\ run[3].ms = {Level + drift * 3 + Planted(100) + 2 * h3} /\ run[3].t0 = {12 * 3}
      /\ run[4].ms = {Level + drift * 4 + Planted(25) + 2 * h4} /\ run[4].t0 = {12 * 4}
  <2>1. FixtureArms[1] = Off /\ FixtureArms[2] = Off /\ FixtureArms[3] = 100 /\ FixtureArms[4] = 25
    BY DEF FixtureArms
  <2>2. FixtureWindow(run[1], 1) /\ FixtureWindow(run[2], 2) /\ FixtureWindow(run[3], 3) /\ FixtureWindow(run[4], 4)
    BY DEF FixtureRun
  <2> QED
    BY <2>1, <2>2 DEF FixtureWindow
<1>4. Planted(Off) = 0 /\ Planted(100) = 12 /\ Planted(25) = 6
  BY DEF Planted, Off, CSpan, Spans, Sampled
<1> HIDE DEF h1, h2, h3, h4
<1>5. /\ Level + drift * 1 + Planted(Off) + 2 * h1 = 2 * A
      /\ Level + drift * 2 + Planted(Off) + 2 * h2 = 2 * B
      /\ Level + drift * 3 + Planted(100) + 2 * h3 = m3
      /\ Level + drift * 4 + Planted(25) + 2 * h4 = m4
  BY <1>1, <1>2, <1>4 DEF Level
<1>6. A \in Int /\ B \in Int /\ m3 \in Int /\ m4 \in Int
  BY <1>1
<1>7. Line(A, B, 36) = 4 * B - 2 * A /\ Line(A, B, 48) = 6 * B - 4 * A
  <2> HIDE DEF A, B
  <2> DEFINE D == B - A
  <2>1. D \in Int
    BY <1>6
  <2>2. Line(A, B, 36) = A + B + (12 * D * (36 - 18)) \div 72 /\ Line(A, B, 48) = A + B + (12 * D * (48 - 18)) \div 72
    BY DEF Line
  <2>3. (12 * D * (36 - 18)) \div 72 = 3 * D /\ (12 * D * (48 - 18)) \div 72 = 5 * D
    <3> HIDE DEF D
    <3> QED
      BY <2>1
  <2> QED
    BY <1>6, <2>2, <2>3
<1> HIDE DEF A, B, m3, m4
<1>8. Costs(run[1], 2 * A, 12) /\ Costs(run[2], 2 * B, 24) /\ Costs(run[3], m3, 36) /\ Costs(run[4], m4, 48)
  BY <1>3, <1>5 DEF Costs
<1>9. /\ Differ({run[3]}, {run[1], run[2]}).delta = m3 - Line(A, B, 36)
      /\ Differ({run[4]}, {run[1], run[2]}).delta = m4 - Line(A, B, 48)
  BY <1>6, <1>8, DeltaOfTwo
<1>10. /\ m3 - (4 * B - 2 * A) = 12 + 2 * h3 + 2 * h1 - 4 * h2
       /\ m4 - (6 * B - 4 * A) = 6 + 2 * h4 + 4 * h1 - 6 * h2
  BY <1>1 DEF A, B, m3, m4
<1> QED
  BY <1>4, <1>7, <1>9, <1>10 DEF h1, h2, h3, h4

\* A complete battery of the selftest.
SelftestCase ==
  /\ ShapeInv /\ FixtureInv /\ SelftestBattery
  /\ source = "fixture" /\ design = FixtureArms /\ Complete

\* How far a run's difference is off.
Deviation(run, a) ==
  IF a = 100 THEN 2 * Half(run[3]) + 2 * Half(run[1]) - 4 * Half(run[2])
  ELSE 2 * Half(run[4]) + 4 * Half(run[1]) - 6 * Half(run[2])

\* All its runs are complete, and no two windows are off.
LEMMA SelftestRuns ==
  ASSUME SelftestCase
  PROVE  /\ Len(reps) \in Nat /\ Len(reps) >= 2 /\ DOMAIN reps = 1..Len(reps)
         /\ \A n \in DOMAIN reps : FixtureRun(reps[n])
         /\ drift \in Int /\ drift % CSpan = 0 /\ BaselineFit
         /\ \A n, m \in DOMAIN reps : \A i, j \in 1..4 :
              reps[n][i].noisy /\ reps[m][j].noisy => n = m /\ i = j /\ Len(reps) <= 3
<1>1. Len(reps) \in Nat /\ DOMAIN reps = 1..Len(reps) /\ Len(reps) = MaxReps /\ Len(reps) >= 2
  BY DEF SelftestCase, ShapeInv, Complete, SelftestBattery
<1>2. drift \in Int /\ drift % CSpan = 0 /\ BaselineFit
  BY DEF SelftestCase, ShapeInv, FixtureInv, SelftestBattery
<1>3. Len(design) = 4
  BY DEF SelftestCase, FixtureArms
<1>4. ASSUME NEW n \in DOMAIN reps
      PROVE  reps[n] \in Seq(Window) /\ Len(reps[n]) = 4 /\ DOMAIN reps[n] = 1..4
  BY <1>3 DEF SelftestCase, ShapeInv, Complete
<1>5. ASSUME NEW n \in DOMAIN reps PROVE FixtureRun(reps[n])
  <2>1. ASSUME NEW i \in 1..4 PROVE FixtureWindow(reps[n][i], i)
    <3>1. Planned(reps[n][i], i)
      BY <1>4 DEF SelftestCase, FixtureInv
    <3> QED
      BY <3>1, PlannedWindow DEF SelftestCase
  <2> QED
    BY <1>4, <2>1 DEF FixtureRun
<1>6. ASSUME NEW n \in DOMAIN reps, NEW m \in DOMAIN reps, NEW i \in 1..4, NEW j \in 1..4,
             reps[n][i].noisy, reps[m][j].noisy
      PROVE  n = m /\ i = j /\ Len(reps) <= 3
  <2>1. NoisyAt(n, i) /\ NoisyAt(m, j)
    BY <1>4, <1>6 DEF NoisyAt
  <2>2. MaxNoisy # 0 /\ n = m /\ i = j
    BY <2>1 DEF SelftestCase, FixtureInv
  <2> QED
    BY <1>1, <2>2 DEF SelftestCase, SelftestBattery
<1> QED
  BY <1>1, <1>2, <1>5, <1>6

\* No more than one run deviates, then by twice a half or more, and only one of
\* two or three runs.
LEMMA OneDeviates ==
  ASSUME SelftestCase, NEW a \in {100, 25}
  PROVE  \E one \in DOMAIN reps, k \in Int :
           /\ Deviation(reps[one], a) = k
           /\ \A n \in DOMAIN reps : n # one => Deviation(reps[n], a) = 0
           /\ k # 0 => Len(reps) <= 3 /\ k * k >= 144
<1> DEFINE dev(n) == Deviation(reps[n], a)
<1>1. ASSUME NEW n \in DOMAIN reps
      PROVE  /\ dev(n) \in Int
             /\ dev(n) # 0 => /\ Len(reps) <= 3 /\ dev(n) * dev(n) >= 144
                              /\ \E i \in 1..4 : reps[n][i].noisy
  <2> DEFINE h1 == Half(reps[n][1])  h2 == Half(reps[n][2])  h3 == Half(reps[n][3])  h4 == Half(reps[n][4])
             noisy(i) == reps[n][i].noisy
  <2>1. \A i, j \in 1..4 : noisy(i) /\ noisy(j) => i = j /\ Len(reps) <= 3
    BY SelftestRuns
  <2>2. /\ h1 = (IF noisy(1) THEN 6 ELSE 0) /\ h2 = (IF noisy(2) THEN 6 ELSE 0)
        /\ h3 = (IF noisy(3) THEN 6 ELSE 0) /\ h4 = (IF noisy(4) THEN 6 ELSE 0)
    BY DEF Half
  <2>3. dev(n) = IF a = 100 THEN 2 * h3 + 2 * h1 - 4 * h2 ELSE 2 * h4 + 4 * h1 - 6 * h2
    BY DEF Deviation
  <2> HIDE DEF dev, noisy, h1, h2, h3, h4
  <2>4. dev(n) \in {0, 12, 24, -24, -36}
    BY <2>1, <2>2, <2>3
  <2>5. dev(n) # 0 => noisy(1) \/ noisy(2) \/ noisy(3) \/ noisy(4)
    BY <2>2, <2>3
  <2>6. dev(n) # 0 => dev(n) * dev(n) >= 144
    BY <2>4
  <2>7. (\E i \in 1..4 : noisy(i)) => Len(reps) <= 3
    BY <2>1
  <2>8. dev(n) # 0 => \E i \in 1..4 : noisy(i)
    BY <2>5
  <2> QED
    BY <2>4, <2>6, <2>7, <2>8 DEF noisy
<1>2. ASSUME NEW n \in DOMAIN reps, NEW m \in DOMAIN reps, dev(n) # 0, dev(m) # 0
      PROVE  n = m
  <2>1. PICK i \in 1..4 : reps[n][i].noisy
    BY <1>1, <1>2
  <2>2. PICK j \in 1..4 : reps[m][j].noisy
    BY <1>1, <1>2
  <2> QED
    BY <2>1, <2>2, SelftestRuns
<1> HIDE DEF dev
<1>3. CASE \A n \in DOMAIN reps : dev(n) = 0
  <2>1. 1 \in DOMAIN reps
    BY SelftestRuns
  <2> QED
    BY <1>3, <2>1 DEF dev
<1>4. ASSUME NEW one \in DOMAIN reps, dev(one) # 0 PROVE
           /\ dev(one) \in Int
           /\ \A n \in DOMAIN reps : n # one => dev(n) = 0
           /\ Len(reps) <= 3 /\ dev(one) * dev(one) >= 144
  BY <1>1, <1>2, <1>4
<1> QED
  BY <1>3, <1>4 DEF dev

\* The entry of an arm in such a battery, which is k off what was planted.
PlantedEntry(e, x, N, k) ==
  /\ e.n = N /\ e.sum = N * x + k /\ e.spread = (N - 1) * k * k
  /\ k # 0 => N <= 3 /\ k * k >= 144

\* Its spread.
LEMMA SpreadWithOneOff ==
  ASSUME NEW N \in Nat, NEW x \in Int, NEW k \in Int
  PROVE  N * (N * (x * x) + (2 * x * k + k * k)) - (N * x + k) * (N * x + k) = (N - 1) * k * k
  OBVIOUS

\* The battery has an entry for each arm, and it is one of these.
LEMMA SelftestEntry ==
  ASSUME SelftestCase, NEW a \in {100, 25}
  PROVE  /\ PairedEntry(reps, a) # {}
         /\ \A e \in PairedEntry(reps, a) : \E k \in Int : PlantedEntry(e, Planted(a), Len(reps), k)
<1> DEFINE N == Len(reps)  x == Planted(a)
           slot == IF a = 100 THEN 3 ELSE 4
           v == [n \in 1..N |-> Differ({reps[n][slot]}, {reps[n][1], reps[n][2]})]
           rows == {<<n, v[n]>> : n \in 1..N}
           d == [r \in rows |-> r[2].delta]  sq == [r \in rows |-> r[2].delta * r[2].delta]
<1>1. N \in Nat /\ N >= 2 /\ DOMAIN reps = 1..N
  BY SelftestRuns
<1>2. ASSUME NEW n \in 1..N
      PROVE  PairedRows(reps[n], a) = {v[n]} /\ v[n].delta = x + Deviation(reps[n], a)
  <2>1. FixtureRun(reps[n])
    BY <1>1, SelftestRuns
  <2>2. CASE a = 100
    <3>1. PairedRows(reps[n], 100) = {Differ({reps[n][3]}, {reps[n][1], reps[n][2]})}
      BY <2>1, FixturePairs
    <3>2. Differ({reps[n][3]}, {reps[n][1], reps[n][2]}).delta
              = Planted(100) + 2 * Half(reps[n][3]) + 2 * Half(reps[n][1]) - 4 * Half(reps[n][2])
      BY <2>1, SelftestRuns, FixtureDeltas
    <3>3. v[n] = Differ({reps[n][3]}, {reps[n][1], reps[n][2]})
      BY <2>2
    <3>4. \A i \in 1..4 : Half(reps[n][i]) \in Int
      BY DEF Half
    <3>5. Planted(100) \in Int
      BY DEF Planted, CSpan, Spans, Sampled, Off
    <3>6. v[n].delta = Planted(100) + Deviation(reps[n], 100)
      <4> DEFINE h == [i \in 1..4 |-> Half(reps[n][i])]
      <4>1. h[1] \in Int /\ h[2] \in Int /\ h[3] \in Int /\ h[4] \in Int
        BY <3>4
      <4>2. Deviation(reps[n], 100) = 2 * h[3] + 2 * h[1] - 4 * h[2]
        BY DEF Deviation
      <4>3. v[n].delta = Planted(100) + 2 * h[3] + 2 * h[1] - 4 * h[2]
        <5> HIDE DEF v
        <5> QED
          BY <3>2, <3>3
      <4> HIDE DEF h, v, N, x, slot, rows, d, sq
      <4> QED
        BY <3>5, <4>1, <4>2, <4>3
    <3> HIDE DEF v
    <3> QED
      BY <2>2, <3>1, <3>3, <3>6
  <2>3. CASE a = 25
    <3>1. PairedRows(reps[n], 25) = {Differ({reps[n][4]}, {reps[n][1], reps[n][2]})}
      BY <2>1, FixturePairs
    <3>2. Differ({reps[n][4]}, {reps[n][1], reps[n][2]}).delta
              = Planted(25) + 2 * Half(reps[n][4]) + 4 * Half(reps[n][1]) - 6 * Half(reps[n][2])
      BY <2>1, SelftestRuns, FixtureDeltas
    <3>3. v[n] = Differ({reps[n][4]}, {reps[n][1], reps[n][2]})
      BY <2>3
    <3>4. \A i \in 1..4 : Half(reps[n][i]) \in Int
      BY DEF Half
    <3>5. Planted(25) \in Int
      BY DEF Planted, CSpan, Spans, Sampled, Off
    <3>6. v[n].delta = Planted(25) + Deviation(reps[n], 25)
      <4> DEFINE h == [i \in 1..4 |-> Half(reps[n][i])]
      <4>1. h[1] \in Int /\ h[2] \in Int /\ h[3] \in Int /\ h[4] \in Int
        BY <3>4
      <4>2. Deviation(reps[n], 25) = 2 * h[4] + 4 * h[1] - 6 * h[2]
        BY DEF Deviation
      <4>3. v[n].delta = Planted(25) + 2 * h[4] + 4 * h[1] - 6 * h[2]
        <5> HIDE DEF v
        <5> QED
          BY <3>2, <3>3
      <4> HIDE DEF h, v, N, x, slot, rows, d, sq
      <4> QED
        BY <3>5, <4>1, <4>2, <4>3
    <3> HIDE DEF v
    <3> QED
      BY <2>3, <3>1, <3>3, <3>6
  <2> QED
    BY <2>2, <2>3
<1>3. PairsOf(reps, a) = rows
  <2> HIDE DEF v
  <2>1. PairsOf(reps, a) = UNION {{n} \X {v[n]} : n \in 1..N}
    BY <1>1, <1>2 DEF PairsOf
  <2>2. ASSUME NEW y \in UNION {{n} \X {v[n]} : n \in 1..N} PROVE y \in rows
    <3>1. PICK n \in 1..N : y \in {n} \X {v[n]}
      BY <2>2
    <3>2. y = <<n, v[n]>>
      BY <3>1
    <3> QED
      BY <3>2
  <2>3. ASSUME NEW y \in rows PROVE y \in UNION {{n} \X {v[n]} : n \in 1..N}
    <3>1. PICK n \in 1..N : y = <<n, v[n]>>
      BY <2>3
    <3>2. y \in {n} \X {v[n]}
      BY <3>1
    <3> QED
      BY <3>2
  <2> HIDE DEF rows
  <2> QED
    BY <2>1, <2>2, <2>3
<1>4. rows # {}
  <2>0. 1 \in 1..N
    BY <1>1
  <2>1. <<1, v[1]>> \in rows
    <3> HIDE DEF v
    <3> QED
      BY <2>0
  <2> HIDE DEF rows
  <2> QED
    BY <2>1
<1>5. ASSUME NEW e \in PairedEntry(reps, a)
      PROVE  e.n = Cardinality(rows) /\ e.sum = SumFunction(d)
             /\ e.spread = Cardinality(rows) * SumFunction(sq) - SumFunction(d) * SumFunction(d)
  <2>1. \E resolved : e = [n |-> Cardinality(PairsOf(reps, a)), sum |-> SumDeltas(PairsOf(reps, a)), bases |-> SumBases(PairsOf(reps, a)),
                          spread |-> SpreadDeltas(PairsOf(reps, a)), resolved |-> resolved]
    BY Zenon DEF PairedEntry, PairsOf
  <2>2. e.n = Cardinality(rows) /\ e.sum = SumDeltas(rows) /\ e.spread = SpreadDeltas(rows)
    <3> HIDE DEF rows
    <3> QED
      BY <1>3, <2>1
  <2>3. SumDeltas(rows) = SumFunction(d)
    BY Zenon DEF SumDeltas, Total
  <2>4. SpreadDeltas(rows) = Cardinality(rows) * SumFunction(sq) - SumFunction(d) * SumFunction(d)
    BY Zenon DEF SpreadDeltas, Spread, Total
  <2> HIDE DEF rows, d, sq
  <2> QED
    BY <2>2, <2>3, <2>4
<1>6. PairedEntry(reps, a) # {}
  <2> DEFINE Res(n, sum, s) == n > 1 /\ 100 * sum * sum * (n - 1) > TCrit(n - 1) * TCrit(n - 1) * s
             E(R) == [n |-> Cardinality(R), sum |-> SumDeltas(R), bases |-> SumBases(R), spread |-> SpreadDeltas(R),
                      resolved |-> Res(Cardinality(R), SumDeltas(R), SpreadDeltas(R))]
  <2>1. PairedEntry(reps, a) = {E(R) : R \in {PairsOf(reps, a)} \ {{}}}
    BY Zenon DEF PairedEntry, PairsOf
  <2> DEFINE Q == {PairsOf(reps, a)} \ {{}}
  <2> HIDE DEF rows, E
  <2>2. PairsOf(reps, a) \in Q
    BY <1>3, <1>4
  <2>3. PairedEntry(reps, a) = {E(R) : R \in Q}
    BY <2>1
  <2> HIDE DEF Q
  <2>4. E(PairsOf(reps, a)) \in PairedEntry(reps, a)
    BY <2>2, <2>3, Zenon
  <2> QED
    BY <2>4
<1>7. PICK one \in 1..N, k \in Int :
           /\ Deviation(reps[one], a) = k
           /\ \A n \in 1..N : n # one => Deviation(reps[n], a) = 0
           /\ k # 0 => N <= 3 /\ k * k >= 144
  <2> HIDE DEF N
  <2> QED
    BY <1>1, OneDeviates DEF N
<1>8. x \in Int
  BY DEF Planted, CSpan, Spans, Sampled, Off
<1>9. /\ v[one].delta = x + k /\ \A n \in 1..N : n # one => v[n].delta = x
  <2> HIDE DEF v, x, N
  <2> QED
    BY <1>2, <1>7, <1>8
<1>10. /\ d[<<one, v[one]>>] = x + k /\ \A n \in 1..N : n # one => d[<<n, v[n]>>] = x
       /\ sq[<<one, v[one]>>] = (x + k) * (x + k) /\ \A n \in 1..N : n # one => sq[<<n, v[n]>>] = x * x
       /\ DOMAIN d = rows /\ DOMAIN sq = rows
  <2> HIDE DEF v, x, N
  <2> QED
    BY <1>9
<1>11. (x + k) * (x + k) = x * x + (2 * x * k + k * k) /\ x * x \in Int /\ 2 * x * k + k * k \in Int
  <2> HIDE DEF x
  <2> QED
    BY <1>8
<1>12. Cardinality(rows) = N /\ SumOf(d, rows) = N * x + k /\ SumOf(sq, rows) = N * (x * x) + (2 * x * k + k * k)
  <2> HIDE DEF d, sq, v, x, N
  <2>0. N \in Nat
    BY <1>1
  <2>a. ASSUME NEW m, NEW p \in Int, NEW q \in Int, m[<<one, v[one]>>] = p + q,
               \A n \in 1..N : n # one => m[<<n, v[n]>>] = p
        PROVE  Cardinality(rows) = N /\ SumOf(m, rows) = N * p + q
    <3>1. one \in 1..N
      BY <1>7
    <3>2. rows = {<<n, v[n]>> : n \in 1..N}
      OBVIOUS
    <3> HIDE DEF rows
    <3>3. AllButOne(m, rows, N, v, p, q)
      BY <2>a, <3>1, <3>2, Zenon DEF AllButOne
    <3> HIDE DEF rows
    <3>4. p \in Int /\ q \in Int
      OBVIOUS
    <3>5. Cardinality(rows) = N
      BY <2>0, <3>2, AsManyNumbered
    <3>6. SumOf(m, rows) = N * p + q
      BY <2>0, <3>3, <3>4, SumNumbered
    <3> QED
      BY <3>5, <3>6
  <2> HIDE DEF rows
  <2>1. Cardinality(rows) = N /\ SumOf(d, rows) = N * x + k
    BY <1>8, <1>10, <2>a
  <2> DEFINE c == x * x  j == 2 * x * k + k * k
  <2>2. c \in Int /\ j \in Int /\ sq[<<one, v[one]>>] = c + j /\ \A n \in 1..N : n # one => sq[<<n, v[n]>>] = c
    BY <1>10, <1>11
  <2> HIDE DEF c, j
  <2>3. SumOf(sq, rows) = N * c + j
    BY <2>2, <2>a
  <2> QED
    BY <2>1, <2>3 DEF c, j
<1> HIDE DEF rows, d, sq, v, x
<1>13. SumFunction(d) = N * x + k /\ SumFunction(sq) = N * (x * x) + (2 * x * k + k * k)
  BY <1>10, <1>12, SumFunctionIs
<1>14. ASSUME NEW e \in PairedEntry(reps, a) PROVE PlantedEntry(e, x, N, k)
  <2>1. e.n = N /\ e.sum = N * x + k
    BY <1>5, <1>12, <1>13
  <2>2. e.spread = N * (N * (x * x) + (2 * x * k + k * k)) - (N * x + k) * (N * x + k)
    BY <1>5, <1>12, <1>13
  <2>3. e.spread = (N - 1) * k * k
    <3> HIDE DEF N
    <3> QED
      BY <1>1, <1>8, <2>2, SpreadWithOneOff
  <2> QED
    BY <1>7, <2>1, <2>3 DEF PlantedEntry
<1> QED
  BY <1>6, <1>14 DEF x

\* The quantiles the selftest rests on.
LEMMA Quantiles == TCrit(1) = 127 /\ TCrit(2) = 43 /\ \A df \in Nat : df >= 1 => TCrit(df) \in Nat
<1>1. ASSUME NEW df \in Nat, df >= 1 PROVE TCrit(df) = IF df <= 30 THEN T975[df] ELSE 20
  <2> DEFINE n == Max({1, df})
  <2>1. n = df
    <3>1. {1, df} \in SUBSET Nat /\ {1, df} # {} /\ 1 \in {1, df} /\ df \in {1, df} /\ \A y \in {1, df} : y <= df
      BY <1>1
    <3>2. n \in {1, df} /\ \A y \in {1, df} : y <= n
      BY <3>1, Extremes
    <3> QED
      BY <3>1, <3>2
  <2>2. TCrit(df) = IF n <= Len(T975) THEN T975[n] ELSE 20
    BY Zenon DEF TCrit
  <2>3. Len(T975) = 30
    BY DEF T975
  <2> QED
    BY <2>1, <2>2, <2>3
<1>2. T975[1] = 127 /\ T975[2] = 43 /\ \A i \in 1..30 : T975[i] \in Nat
  BY DEF T975
<1>3. \A df \in Nat : df >= 1 /\ df <= 30 => df \in 1..30
  OBVIOUS
<1> QED
  BY <1>1, <1>2, <1>3

\* selftest.py finds nothing at an entry that is at most one window off.
LEMMA NoFault ==
  ASSUME NEW e, NEW x \in {12, 6}, NEW N \in Nat, N >= 2, NEW k \in Int, PlantedEntry(e, x, N, k)
  PROVE  /\ e.n # 1
         /\ 100 * (e.sum - e.n * x) * (e.sum - e.n * x) * (e.n - 1) <= TCrit(e.n - 1) * TCrit(e.n - 1) * e.spread
         /\ 100 * e.n * e.n * x * x * (e.n - 1) > TCrit(e.n - 1) * TCrit(e.n - 1) * e.spread
              => Abs(e.sum - e.n * x) <= e.n * Tol
<1> DEFINE n == e.n  sum == e.sum  spread == e.spread  T == TCrit(e.n - 1)
<1>1. n = N /\ sum = N * x + k /\ spread = (N - 1) * k * k /\ (k # 0 => N <= 3 /\ k * k >= 144)
  BY DEF PlantedEntry
<1>2. sum - n * x = k
  <2> HIDE DEF n, sum, spread
  <2> QED
    BY <1>1
<1> SUFFICES /\ n # 1 /\ 100 * k * k * (n - 1) <= T * T * spread
             /\ 100 * n * n * x * x * (n - 1) > T * T * spread => Abs(k) <= n * Tol
  BY <1>2
<1>3. CASE k = 0
  <2>1. spread = 0
    <3> HIDE DEF n, sum, spread
    <3> QED
      BY <1>1, <1>3
  <2>2. Abs(k) = 0 /\ 100 * k * k * (n - 1) = 0 /\ 0 <= n * Tol /\ n # 1
    <3> HIDE DEF n, sum, spread
    <3> QED
      BY <1>1, <1>3 DEF Abs, Tol
  <2>3. T * T * spread = 0
    <3>1. T \in Nat
      <4>1. n - 1 \in Nat /\ n - 1 >= 1
        BY <1>1
      <4> QED
        BY <4>1, Quantiles
    <3> HIDE DEF T, spread
    <3> QED
      BY <2>1, <3>1
  <2> HIDE DEF T, n, spread
  <2> QED
    BY <2>1, <2>2, <2>3
<1>4. CASE k # 0 /\ N = 2
  <2>1. n = 2 /\ T = 127 /\ spread = k * k /\ k * k >= 144
    BY <1>1, <1>4, Quantiles
  <2> DEFINE s == k * k
  <2>2. s \in Int /\ 100 * k * k * (2 - 1) = 100 * s
    OBVIOUS
  <2> HIDE DEF T, n, spread, s
  <2>3. 100 * s <= 127 * 127 * s /\ 100 * 2 * 2 * x * x * (2 - 1) <= 127 * 127 * s
    BY <2>1, <2>2 DEF s
  <2> QED
    BY <2>1, <2>2, <2>3 DEF s
<1>5. CASE k # 0 /\ N = 3
  <2>1. n = 3 /\ T = 43 /\ spread = 2 * k * k /\ k * k >= 144
    BY <1>1, <1>5, Quantiles
  <2> DEFINE s == k * k
  <2>2. s \in Int /\ 100 * k * k * (3 - 1) = 200 * s /\ 2 * k * k = 2 * s
    OBVIOUS
  <2> HIDE DEF T, n, spread, s
  <2>3. 200 * s <= 43 * 43 * (2 * s) /\ 100 * 3 * 3 * x * x * (3 - 1) <= 43 * 43 * (2 * s)
    BY <2>1, <2>2 DEF s
  <2> QED
    BY <2>1, <2>2, <2>3 DEF s
<1> QED
  BY <1>1, <1>3, <1>4, <1>5

\* Half of what is off in a window, in spans.
Extra(w) == IF w.noisy THEN 1 ELSE 0

\* What the window of a slot costs, in spans, with a trend of k spans per slot.
SpansAt(i, k) == 32 + k * i + (IF i = 3 THEN 1 ELSE 0)

\* No more than one window of a slot is off.
LEMMA OneExtra ==
  ASSUME SelftestCase, NEW i \in 1..4
  PROVE  \E one \in 1..Len(reps), e \in {0, 1} :
           Extra(reps[one][i]) = e /\ \A n \in 1..Len(reps) : n # one => Extra(reps[n][i]) = 0
<1> DEFINE noisy(n) == reps[n][i].noisy
<1>1. DOMAIN reps = 1..Len(reps) /\ 1 \in DOMAIN reps
  BY SelftestRuns
<1>2. \A n, m \in DOMAIN reps : noisy(n) /\ noisy(m) => n = m
  BY SelftestRuns
<1>3. \A n : Extra(reps[n][i]) = IF noisy(n) THEN 1 ELSE 0
  BY DEF Extra
<1> HIDE DEF noisy
<1>4. CASE \E n \in DOMAIN reps : noisy(n)
  BY <1>1, <1>2, <1>3, <1>4
<1>5. CASE ~\E n \in DOMAIN reps : noisy(n)
  BY <1>1, <1>3, <1>5
<1> QED
  BY <1>4, <1>5

\* Its windows are windows.
LEMMA WindowsOfFixture ==
  ASSUME NEW run, FixtureRun(run)
  PROVE  \A i \in 1..4 : run[i] \in Window
<1>1. run \in Seq(Window) /\ Len(run) = 4
  BY DEF FixtureRun
<1>2. ASSUME NEW i \in 1..4 PROVE run[i] \in Window
  <2>1. i \in 1..Len(run)
    BY <1>1
  <2> QED
    BY <1>1, <2>1
<1> QED
  BY <1>2

\* A run in whole spans.
LEMMA FixtureSpans ==
  ASSUME SelftestCase, NEW n \in DOMAIN reps, NEW k \in Int, drift = 12 * k
  PROVE  /\ Measured(Pooled(InSpans[n])) = {InSpans[n][1], InSpans[n][2], InSpans[n][3], InSpans[n][4]}
         /\ \A i \in 1..3 : InSpans[n][i].arm = FixtureArms[i] /\ InSpans[n][i].slot = i
                            /\ InSpans[n][i].ms = {SpansAt(i, k) + Extra(reps[n][i])}
         /\ InSpans[n][4].arm = 25
<1> DEFINE run == reps[n]  alt == InSpans[n]
<1>1. FixtureRun(run) /\ DOMAIN run = 1..4
  BY SelftestRuns DEF FixtureRun
<1>2. alt = [i \in DOMAIN run |-> [run[i] EXCEPT !.ms = {m \div CSpan : m \in @}]]
  BY Zenon DEF InSpans
<1>3. ASSUME NEW i \in 1..4
      PROVE  /\ alt[i].arm = run[i].arm /\ alt[i].slot = run[i].slot /\ alt[i].k6 = run[i].k6
             /\ alt[i].gate = run[i].gate /\ alt[i].ms = {m \div CSpan : m \in run[i].ms}
  <2>1. run[i] \in Window
    BY <1>1, WindowsOfFixture
  <2>2. alt[i] = [run[i] EXCEPT !.ms = {m \div CSpan : m \in @}]
    BY <1>1, <1>2
  <2>3. \A w \in Window : [w EXCEPT !.ms = {m \div CSpan : m \in @}].ms = {m \div CSpan : m \in w.ms}
    BY Zenon DEF Window
  <2>4. ASSUME NEW w \in Window, NEW y, NEW z, z = [w EXCEPT !.ms = y]
        PROVE  z.arm = w.arm /\ z.slot = w.slot /\ z.k6 = w.k6 /\ z.gate = w.gate
    BY <2>4 DEF Window
  <2> HIDE DEF run, alt
  <2>5. alt[i].ms = {m \div CSpan : m \in run[i].ms}
    BY <2>1, <2>2, <2>3, Zenon
  <2>6. alt[i] = [run[i] EXCEPT !.ms = {m \div CSpan : m \in run[i].ms}]
    BY <2>2
  <2> DEFINE w == run[i]  y == {m \div CSpan : m \in run[i].ms}
  <2>7. w \in Window /\ alt[i] = [w EXCEPT !.ms = y] /\ alt[i].ms = y
    BY <2>1, <2>5, <2>6
  <2> HIDE DEF y
  <2>8. alt[i].arm = w.arm /\ alt[i].slot = w.slot /\ alt[i].k6 = w.k6 /\ alt[i].gate = w.gate
    <3> DEFINE z == alt[i]
    <3>1. w \in Window /\ z = [w EXCEPT !.ms = y]
      BY <2>7
    <3>2. z.arm = w.arm /\ z.slot = w.slot /\ z.k6 = w.k6 /\ z.gate = w.gate
      <4> HIDE DEF w, z
      <4> QED
        BY <2>4, <3>1, Zenon
    <3> QED
      BY <3>2, Zenon
  <2> QED
    BY <2>7, <2>8 DEF y
<1>4. DOMAIN alt = 1..4
  BY <1>1, <1>2
<1>5. ASSUME NEW i \in 1..4
      PROVE  FixtureWindow(run[i], i)
  BY <1>1 DEF FixtureRun
<1>6. ASSUME NEW i \in 1..4
      PROVE  /\ alt[i].arm = FixtureArms[i] /\ alt[i].slot = i
             /\ \E c : alt[i].ms = {c}
             /\ i # 4 => alt[i].ms = {SpansAt(i, k) + Extra(run[i])}
  <2> DEFINE c == Level + drift * i + Planted(FixtureArms[i]) + 2 * Half(run[i])
             e == Extra(run[i])
  <2>1. run[i].ms = {c} /\ run[i].arm = FixtureArms[i] /\ run[i].slot = i
    BY <1>5 DEF FixtureWindow
  <2>2. alt[i].ms = {c \div CSpan}
    <3> HIDE DEF c
    <3> QED
      BY <1>3, <2>1
  <2>3. ASSUME i # 4 PROVE c \div CSpan = SpansAt(i, k) + e
    <3>1. 2 * Half(run[i]) = 12 * e /\ e \in Int
      BY DEF Half, Extra
    <3>2. Planted(FixtureArms[i]) = 12 * (IF i = 3 THEN 1 ELSE 0)
      BY <2>3 DEF Planted, FixtureArms, CSpan, Spans, Off
    <3> HIDE DEF e
    <3>3. c = 384 + (12 * k) * i + 12 * (IF i = 3 THEN 1 ELSE 0) + 12 * e
      BY <3>1, <3>2 DEF Level
    <3> HIDE DEF c
    <3>4. c = 12 * (32 + k * i + (IF i = 3 THEN 1 ELSE 0) + e)
      BY <3>1, <3>3
    <3>5. c = 12 * (SpansAt(i, k) + e) /\ SpansAt(i, k) + e \in Int
      BY <3>1, <3>4 DEF SpansAt
    <3> DEFINE q == SpansAt(i, k) + e
    <3> HIDE DEF q
    <3>6. c = 12 * q /\ q \in Int
      BY <3>5 DEF q
    <3>7. c \div 12 = q
      BY <3>6
    <3> QED
      BY <3>7 DEF q, CSpan
  <2> HIDE DEF c
  <2>4. alt[i].arm = FixtureArms[i] /\ alt[i].slot = i
    BY <1>3, <2>1
  <2> QED
    BY <2>2, <2>3, <2>4
<1>7. Pooled(alt) = {alt[1], alt[2], alt[3], alt[4]}
  <2>1. \A i \in 1..4 : alt[i].k6 /\ alt[i].gate = "accepted"
    BY <1>3, <1>5 DEF FixtureWindow
  <2> HIDE DEF alt
  <2>2. AcceptedArms(alt) = 1..4
    BY <1>4, <2>1 DEF AcceptedArms, LoadArms, AcceptsRow
  <2>3. 1..4 = {1, 2, 3, 4}
    OBVIOUS
  <2> QED
    BY <2>2, <2>3 DEF Pooled
<1>8. Measured(Pooled(alt)) = {alt[1], alt[2], alt[3], alt[4]}
  <2>1. \A i \in 1..4 : alt[i].ms # {}
    BY <1>6
  <2> HIDE DEF alt
  <2> QED
    BY <1>7, <2>1 DEF Measured
<1>9. FixtureArms[4] = 25
  BY DEF FixtureArms
<1> QED
  BY <1>6, <1>8, <1>9

\* The windows of a slot in all runs.
InSlot(R, i) == {<<n, R[n][i]>> : n \in 1..Len(reps)}

\* There is one per run, and their sum is the trend's but for the one that is off.
LEMMA SpansInSlot ==
  ASSUME SelftestCase, NEW i \in 1..3, NEW k \in Int, drift = 12 * k
  PROVE  /\ IsFiniteSet(InSlot(InSpans, i)) /\ Cardinality(InSlot(InSpans, i)) = Len(reps)
         /\ \A x \in InSlot(InSpans, i) : Ms(x[2]) \in Int
         /\ \E e \in {0, 1} : \A m : (\A x \in InSlot(InSpans, i) : m[x] = Ms(x[2])) =>
              SumOf(m, InSlot(InSpans, i)) = Len(reps) * SpansAt(i, k) + e
<1> DEFINE N == Len(reps)  v == [n \in 1..N |-> InSpans[n][i]]  S == InSlot(InSpans, i)  c == SpansAt(i, k)
<1>1. N \in Nat /\ DOMAIN reps = 1..N /\ c \in Int
  BY SelftestRuns DEF SpansAt
<1>2. S = {<<n, v[n]>> : n \in 1..N}
  BY DEF InSlot
<1>3. PICK one \in 1..N, e \in {0, 1} :
        Extra(reps[one][i]) = e /\ \A n \in 1..N : n # one => Extra(reps[n][i]) = 0
  <2>1. i \in 1..4
    OBVIOUS
  <2> QED
    BY <2>1, OneExtra, Zenon
<1>4. ASSUME NEW n \in 1..N
      PROVE  Ms(v[n]) = c + Extra(reps[n][i]) /\ Extra(reps[n][i]) \in Int
  <2>1. v[n].ms = {c + Extra(reps[n][i])}
    BY <1>1, FixtureSpans
  <2> QED
    BY <2>1 DEF Ms, The, Extra
<1> HIDE DEF v, c, S, N
<1>5. \A x \in S : Ms(x[2]) \in Int
  BY <1>1, <1>2, <1>4
<1>6. ASSUME NEW m, \A x \in S : m[x] = Ms(x[2]) PROVE SumOf(m, S) = N * c + e
  <2>1. ASSUME NEW n \in 1..N PROVE m[<<n, v[n]>>] = c + Extra(reps[n][i])
    <3>1. <<n, v[n]>> \in S /\ <<n, v[n]>>[2] = v[n]
      BY <1>2
    <3> QED
      BY <1>4, <1>6, <3>1
  <2>2. one \in 1..N /\ e \in Int
    BY <1>3
  <2>3. m[<<one, v[one]>>] = c + e /\ \A n \in 1..N : n # one => m[<<n, v[n]>>] = c
    BY <1>1, <1>3, <2>1
  <2>4. AllButOne(m, S, N, v, c, e)
    BY <1>2, <2>2, <2>3, Zenon DEF AllButOne
  <2> QED
    BY <1>1, <2>2, <2>4, SumNumbered
<1>7. IsFiniteSet(S) /\ Cardinality(S) = N
  BY <1>1, <1>2, AsManyNumbered
<1>8. \E f \in {0, 1} : \A m : (\A x \in S : m[x] = Ms(x[2])) => SumOf(m, S) = N * c + f
  BY <1>3, <1>6
<1> QED
  BY <1>5, <1>7, <1>8 DEF S, N, c

\* The kinds of the pooled view are slots.
LEMMA FixtureKinds ==
  ASSUME SelftestCase, NEW k \in Int, drift = 12 * k
  PROVE  /\ PooledKind(InSpans, 100) = InSlot(InSpans, 3)
         /\ PooledKind(InSpans, Off) = InSlot(InSpans, 1) \cup InSlot(InSpans, 2)
         /\ InSlot(InSpans, 1) \cap InSlot(InSpans, 2) = {}
<1> DEFINE R == InSpans  N == Len(reps)
<1>1. DOMAIN R = 1..N /\ DOMAIN reps = 1..N
  <2>1. DOMAIN R = DOMAIN reps
    BY Zenon DEF InSpans
  <2> QED
    BY <2>1, SelftestRuns
<1>2. FixtureArms[1] = Off /\ FixtureArms[2] = Off /\ FixtureArms[3] = 100 /\ Off # 100 /\ Off # 25
  BY DEF FixtureArms, Off
<1>3. ASSUME NEW n \in 1..N
      PROVE  /\ {w \in Measured(Pooled(R[n])) : w.arm = 100} = {R[n][3]}
             /\ {w \in Measured(Pooled(R[n])) : w.arm = Off} = {R[n][1], R[n][2]}
             /\ R[n][1].slot = 1 /\ R[n][2].slot = 2
  <2>1. /\ Measured(Pooled(R[n])) = {R[n][1], R[n][2], R[n][3], R[n][4]}
        /\ \A i \in 1..3 : R[n][i].arm = FixtureArms[i] /\ R[n][i].slot = i
        /\ R[n][4].arm = 25
    <3>1. n \in DOMAIN reps
      BY <1>1
    <3>2. /\ Measured(Pooled(InSpans[n])) = {InSpans[n][1], InSpans[n][2], InSpans[n][3], InSpans[n][4]}
          /\ \A i \in 1..3 : InSpans[n][i].arm = FixtureArms[i] /\ InSpans[n][i].slot = i
                             /\ InSpans[n][i].ms = {SpansAt(i, k) + Extra(reps[n][i])}
          /\ InSpans[n][4].arm = 25
      BY <3>1, FixtureSpans, Zenon
    <3> QED
      BY <3>2, Zenon
  <2>2. R[n][1].arm = Off /\ R[n][2].arm = Off /\ R[n][3].arm = 100 /\ R[n][1].slot = 1 /\ R[n][2].slot = 2
    BY <1>2, <2>1
  <2> HIDE DEF R
  <2> QED
    BY <1>2, <2>1, <2>2
<1> HIDE DEF R, N
<1>4. PooledKind(R, 100) = UNION {{n} \X {R[n][3]} : n \in 1..N}
  BY <1>1, <1>3 DEF PooledKind
<1>5. PooledKind(R, Off) = UNION {{n} \X {R[n][1], R[n][2]} : n \in 1..N}
  BY <1>1, <1>3 DEF PooledKind
<1>6. \A i : InSlot(R, i) = {<<n, R[n][i]>> : n \in 1..N}
  BY DEF InSlot, N
<1>7. ASSUME NEW y PROVE y \in PooledKind(R, 100) <=> y \in InSlot(R, 3)
  <2>1. y \in PooledKind(R, 100) <=> \E n \in 1..N : y \in {n} \X {R[n][3]}
    BY <1>4
  <2>2. \A n \in 1..N : y \in {n} \X {R[n][3]} <=> y = <<n, R[n][3]>>
    OBVIOUS
  <2> QED
    BY <1>6, <2>1, <2>2
<1>8. ASSUME NEW y PROVE y \in PooledKind(R, Off) <=> y \in InSlot(R, 1) \cup InSlot(R, 2)
  <2>1. y \in PooledKind(R, Off) <=> \E n \in 1..N : y \in {n} \X {R[n][1], R[n][2]}
    BY <1>5
  <2>2. \A n \in 1..N : y \in {n} \X {R[n][1], R[n][2]} <=> y = <<n, R[n][1]>> \/ y = <<n, R[n][2]>>
    OBVIOUS
  <2> QED
    BY <1>6, <2>1, <2>2
<1>9. ASSUME NEW y \in InSlot(R, 1), y \in InSlot(R, 2) PROVE FALSE
  <2>1. PICK n \in 1..N : y = <<n, R[n][1]>>
    BY <1>6
  <2>2. PICK m \in 1..N : y = <<m, R[m][2]>>
    BY <1>6, <1>9
  <2>3. y[2].slot = 1 /\ y[2].slot = 2
    BY <1>3, <2>1, <2>2
  <2> QED
    BY <2>3
<1> QED
  BY <1>7, <1>8, <1>9 DEF R

\* With a trend the pooled view misses what was planted.
LEMMA PooledMisses ==
  ASSUME SelftestCase, drift # 0, NEW d \in PooledDelta(InSpans, 100)
  PROVE  d.delta # d.nOn * d.nOff * (Planted(100) \div CSpan)
<1> DEFINE N == Len(reps)  on == InSlot(InSpans, 3)  off1 == InSlot(InSpans, 1)  off2 == InSlot(InSpans, 2)
           off == off1 \cup off2
<1>1. N \in Nat /\ N >= 2
  BY SelftestRuns
<1>2. PICK k \in Int : drift = 12 * k
  <2>1. drift \in Int /\ drift % CSpan = 0
    BY SelftestRuns
  <2>2. drift = 12 * (drift \div 12) /\ drift \div 12 \in Int
    BY <2>1 DEF CSpan
  <2> QED
    BY <2>2
<1>3. k # 0
  BY <1>2
<1>4. PooledDelta(InSpans, 100) = Welch(on, off) /\ off1 \cap off2 = {}
  <2>1. PooledDelta(InSpans, 100) = Welch(PooledKind(InSpans, 100), PooledKind(InSpans, Off))
    BY Zenon DEF PooledDelta, PooledKind
  <2> QED
    BY <1>2, <2>1, FixtureKinds
<1>5. /\ IsFiniteSet(on) /\ Cardinality(on) = N /\ \A x \in on : Ms(x[2]) \in Int
      /\ IsFiniteSet(off1) /\ Cardinality(off1) = N /\ \A x \in off1 : Ms(x[2]) \in Int
      /\ IsFiniteSet(off2) /\ Cardinality(off2) = N /\ \A x \in off2 : Ms(x[2]) \in Int
  BY <1>2, SpansInSlot
<1>6. PICK e3 \in {0, 1} : \A m : (\A x \in on : m[x] = Ms(x[2])) => SumOf(m, on) = N * SpansAt(3, k) + e3
  BY <1>2, SpansInSlot
<1>7. PICK e1 \in {0, 1} : \A m : (\A x \in off1 : m[x] = Ms(x[2])) => SumOf(m, off1) = N * SpansAt(1, k) + e1
  BY <1>2, SpansInSlot
<1>8. PICK e2 \in {0, 1} : \A m : (\A x \in off2 : m[x] = Ms(x[2])) => SumOf(m, off2) = N * SpansAt(2, k) + e2
  BY <1>2, SpansInSlot
<1>9. SpansAt(3, k) = 33 + 3 * k /\ SpansAt(1, k) = 32 + k /\ SpansAt(2, k) = 32 + 2 * k
  BY DEF SpansAt
<1> HIDE DEF on, off1, off2, off, N
<1>10. SumMs(on) = N * (33 + 3 * k) + e3
  <2> DEFINE m == [x \in on |-> Ms(x[2])]
  <2>1. SumMs(on) = SumFunction(m)
    BY Zenon DEF SumMs, Total
  <2>2. DOMAIN m = on /\ \A x \in on : m[x] = Ms(x[2])
    OBVIOUS
  <2> HIDE DEF m
  <2>3. SumFunction(m) = SumOf(m, on)
    BY <2>2, SumFunctionIs
  <2> QED
    BY <1>6, <1>9, <2>1, <2>2, <2>3
<1>11. SumMs(off) = (N * (32 + k) + e1) + (N * (32 + 2 * k) + e2)
  <2> DEFINE m == [x \in off |-> Ms(x[2])]
  <2>1. SumMs(off) = SumFunction(m)
    BY Zenon DEF SumMs, Total
  <2>2. DOMAIN m = off /\ (\A x \in off1 : m[x] = Ms(x[2])) /\ (\A x \in off2 : m[x] = Ms(x[2]))
    BY DEF off
  <2> HIDE DEF m
  <2>3. SumFunction(m) = SumOf(m, off)
    BY <2>2, SumFunctionIs
  <2>4. SumOf(m, off) = SumOf(m, off1) + SumOf(m, off2)
    <3>1. \A x \in off1 \cup off2 : m[x] \in Int
      BY <1>5, <2>2
    <3> QED
      BY <1>4, <1>5, <3>1, SumParts DEF off
  <2>5. SumOf(m, off1) = N * (32 + k) + e1 /\ SumOf(m, off2) = N * (32 + 2 * k) + e2
    BY <1>7, <1>8, <1>9, <2>2
  <2> QED
    BY <2>1, <2>3, <2>4, <2>5
<1>12. Cardinality(off) = 2 * N
  <2>1. Cardinality(off1 \cup off2) = Cardinality(off1) + Cardinality(off2) - Cardinality(off1 \cap off2)
    BY <1>5, FS_Union
  <2>2. Cardinality(off1 \cap off2) = 0
    BY <1>4, FS_EmptySet
  <2> QED
    BY <1>1, <1>5, <2>1, <2>2 DEF off
<1>13. d.nOn = N /\ d.nOff = 2 * N /\ d.delta = SumMs(on) * (2 * N) - SumMs(off) * N
  <2>1. d.nOn = Cardinality(on) /\ d.nOff = Cardinality(off)
        /\ d.delta = SumMs(on) * Cardinality(off) - SumMs(off) * Cardinality(on)
    BY <1>4 DEF Welch
  <2> QED
    BY <1>5, <1>12, <2>1
<1>14. Planted(100) \div CSpan = 1
  BY DEF Planted, CSpan, Spans, Off
<1> DEFINE r == 3 * (k * N) + (2 * e3 - e1 - e2)
<1>15. e1 \in Int /\ e2 \in Int /\ e3 \in Int /\ r \in Int
  BY <1>1
<1>16. d.delta = N * (2 * N) + N * r
  BY <1>1, <1>10, <1>11, <1>13, <1>15
<1>17. r # 0
  <2> DEFINE p == k * N
  <2>1. p >= 2 \/ p <= -2
    BY <1>1, <1>3
  <2>2. p \in Int
    BY <1>1
  <2>3. r = 3 * p + (2 * e3 - e1 - e2)
    OBVIOUS
  <2>4. (e1 = 0 \/ e1 = 1) /\ (e2 = 0 \/ e2 = 1) /\ (e3 = 0 \/ e3 = 1)
    BY <1>6, <1>7, <1>8
  <2> HIDE DEF p, r
  <2> QED
    BY <2>1, <2>2, <2>3, <2>4
<1> HIDE DEF r
<1>18. N * r # 0
  BY <1>1, <1>15, <1>17
<1> DEFINE y == N * r  z == N * (2 * N)
<1>19. y # 0 /\ y \in Int /\ z \in Int /\ d.delta = z + y /\ d.nOn * d.nOff * (Planted(100) \div CSpan) = z
  BY <1>1, <1>13, <1>14, <1>15, <1>16, <1>18
<1> HIDE DEF y, z
<1> QED
  BY <1>19

\* selftest.py passes (selftest.py, scenario): of every complete battery of
\* make_fixture.py's design with at most one window off, any number of repetitions
\* of two or more without one, two or three with one, any trend of whole spans per
\* slot, the paired interval covers what was planted on both arms, an estimate it
\* can resolve lands on it, and with a trend the pooled view does not recover it.
THEOREM SelftestAlwaysPasses == ASSUME SelftestBattery PROVE Spec => []SelftestPasses
<1>1. ASSUME SelftestCase PROVE Scenario = {}
  <2> DEFINE Halfwidth2(e) == TCrit(e.n - 1) * TCrit(e.n - 1) * e.spread
             Off2(e, x) == 100 * (e.sum - e.n * x) * (e.sum - e.n * x) * (e.n - 1)
             Resolvable(e, x) == 100 * e.n * e.n * x * x * (e.n - 1) > Halfwidth2(e)
             Faults(e, want) ==
               IF e.n = 1 THEN {"no interval"}
               ELSE (IF Off2(e, want) > Halfwidth2(e) THEN {"planted outside"} ELSE {})
                    \cup (IF Resolvable(e, want) /\ Abs(e.sum - e.n * want) > e.n * Tol
                          THEN {"not recovered"} ELSE {})
             faults(a) == {Faults(e, Planted(a)) : e \in PairedEntry(reps, a)}
             Failures(a) == {a} \X (IF faults(a) = {} THEN {"no paired delta"} ELSE UNION faults(a))
             recovered == {d \in PooledDelta(InSpans, 100) :
                             d.resolved /\ d.delta = d.nOn * d.nOff * (Planted(100) \div CSpan)}
  <2>1. Scenario = UNION {Failures(a) : a \in {100, 25}}
                   \cup (IF drift # 0 /\ recovered # {} THEN {<<100, "the pooled view recovered">>} ELSE {})
    BY Zenon DEF Scenario
  <2>2. drift # 0 => recovered = {}
    BY <1>1, PooledMisses
  <2>3. ASSUME NEW a \in {100, 25}, NEW e \in PairedEntry(reps, a)
        PROVE  Faults(e, Planted(a)) = {}
    <3>1. PICK k \in Int : PlantedEntry(e, Planted(a), Len(reps), k)
      BY <1>1, SelftestEntry
    <3>2. Len(reps) \in Nat /\ Len(reps) >= 2 /\ Planted(a) \in {12, 6}
      BY <1>1, SelftestRuns DEF Planted, CSpan, Spans, Sampled, Off
    <3> DEFINE x == Planted(a)
    <3>3. x \in {12, 6} /\ PlantedEntry(e, x, Len(reps), k)
      BY <3>1, <3>2
    <3> HIDE DEF x
    <3>4. e.n # 1 /\ Off2(e, x) <= Halfwidth2(e) /\ (Resolvable(e, x) => Abs(e.sum - e.n * x) <= e.n * Tol)
      BY <3>2, <3>3, NoFault
    <3>5. Off2(e, x) \in Int /\ Halfwidth2(e) \in Int /\ Abs(e.sum - e.n * x) \in Int /\ e.n * Tol \in Int
      <4>1. e.n \in Int /\ e.sum \in Int /\ e.spread \in Int /\ e.n - 1 \in Nat /\ e.n - 1 >= 1
        BY <3>2, <3>3 DEF PlantedEntry
      <4>2. TCrit(e.n - 1) \in Nat
        BY <4>1, Quantiles
      <4> DEFINE n == e.n  sum == e.sum  spread == e.spread  T == TCrit(e.n - 1)
      <4>3. /\ Off2(e, x) = 100 * (sum - n * x) * (sum - n * x) * (n - 1)
            /\ Halfwidth2(e) = T * T * spread /\ n \in Int /\ sum \in Int /\ spread \in Int /\ T \in Int /\ x \in Int
        BY <3>3, <4>1, <4>2
      <4>4. e.sum - e.n * x = sum - n * x /\ e.n * Tol = n
        BY <4>1 DEF Tol
      <4> HIDE DEF n, sum, spread, T
      <4>5. Abs(sum - n * x) \in Int
        <5> DEFINE y == sum - n * x
        <5>1. y \in Int
          BY <4>3
        <5> HIDE DEF y
        <5>2. Abs(y) \in Int
          BY <5>1 DEF Abs
        <5> QED
          BY <5>2 DEF y
      <4>6. Off2(e, x) \in Int /\ Halfwidth2(e) \in Int
        <5> HIDE DEF Off2, Halfwidth2
        <5> QED
          BY <4>3
      <4> QED
        BY <4>3, <4>4, <4>5, <4>6
    <3> HIDE DEF Off2, Halfwidth2, Resolvable
    <3>6. ~(Off2(e, x) > Halfwidth2(e)) /\ ~(Resolvable(e, x) /\ Abs(e.sum - e.n * x) > e.n * Tol)
      BY <3>4, <3>5
    <3>7. Faults(e, x) = {}
      BY <3>4, <3>6
    <3> QED
      BY <3>7 DEF x
  <2> HIDE DEF Faults, recovered
  <2>4. ASSUME NEW a \in {100, 25} PROVE Failures(a) = {}
    <3>1. PairedEntry(reps, a) # {}
      BY <1>1, SelftestEntry
    <3>2. faults(a) # {} /\ UNION faults(a) = {}
      BY <2>3, <3>1
    <3> HIDE DEF faults
    <3> QED
      BY <3>2
  <2> HIDE DEF Failures
  <2>5. UNION {Failures(a) : a \in {100, 25}} = {}
    BY <2>4
  <2> QED
    BY <2>1, <2>2, <2>5
<1>2. ShapeInv /\ FixtureInv => SelftestPasses
  BY <1>1 DEF SelftestPasses, SelftestCase
<1> QED
  BY <1>2, ShapeInvariant, FixtureInvariant, PTL
=============================================================================
