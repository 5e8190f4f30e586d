----------------------------- MODULE WindowLog ------------------------------
(***************************************************************************)
(* What bin/run.sh promises whoever reads its results: per cell a log of   *)
(* windows in the order of ARMS, written one cell after the other, that    *)
(* says of each window how it was judged, until the run ends or is cut     *)
(* short.                                                                  *)
(***************************************************************************)
EXTENDS Integers, Sequences

CONSTANTS
  NCells, \* the cells of a run, 1..NCells
  Arms    \* the arms of every cell, in order

VARIABLES
  log,    \* log[c]: the windows of cell c so far
  outcome \* "running", "complete" or "cut short"

Cell == 1..NCells

\* whole: the window lies inside the life of one process.
Init == log = [c \in Cell |-> <<>>] /\ outcome = "running"

\* The cells take turns: those before c have this arm's window, the others not.
Turn(c) ==
  /\ Len(log[c]) < Len(Arms)
  /\ \A d \in Cell : Len(log[d]) = IF d < c THEN Len(log[c]) + 1 ELSE Len(log[c])

Write(c, verdict, whole) ==
  log' = [log EXCEPT ![c] = Append(@, [arm |-> Arms[Len(@) + 1], verdict |-> verdict, whole |-> whole])]

\* A window is judged, and accepted only if it is whole; the last cell's window
\* of the last arm completes the run.
Record(c) ==
  /\ outcome = "running" /\ Turn(c)
  /\ \E verdict \in {"accepted", "rejected", "traceback"}, whole \in BOOLEAN :
       Write(c, verdict, whole) /\ (verdict = "accepted" => whole)
  /\ outcome' = IF c = NCells /\ Len(log[c]) + 1 = Len(Arms) THEN "complete" ELSE "running"

\* The run is cut short, perhaps between a window and its verdict.
CutShort ==
  /\ outcome = "running" /\ outcome' = "cut short"
  /\ \/ UNCHANGED log
     \/ \E c \in Cell, whole \in BOOLEAN : Turn(c) /\ Write(c, "absent", whole)

Next == (\E c \in Cell : Record(c)) \/ CutShort

Spec == Init /\ [][Next]_<<log, outcome>>
=============================================================================
