----------------------------- MODULE RunnerLog ------------------------------
(***************************************************************************)
(* ArmRunner implements WindowLog: forgetting the cluster, the files and   *)
(* what a window really ran, what is left of a run is its log.             *)
(***************************************************************************)
EXTENDS ArmRunner

\* What a reader of the results sees of a row, and whether one process lived
\* through the window.
LogEntry(w) == [arm |-> w.arm, verdict |-> w.gate, whole |-> w.opened = w.closed]
RowLog == [c \in Cell |-> [n \in DOMAIN rows[c] |-> LogEntry(rows[c][n])]]
RunOutcome ==
  CASE pc = "done" -> "complete"
    [] pc \in {"fatal", "killed"} -> "cut short"
    [] OTHER -> "running"

Log == INSTANCE WindowLog WITH log <- RowLog, outcome <- RunOutcome

\* Whatever fails, the runner writes one window per cell and arm, in the order
\* of the arms and in lockstep, accepts only windows that lie inside one process
\* and reports the run complete only when every window was judged (run.sh:365-512).
ImplementsLog == Log!Spec
=============================================================================
