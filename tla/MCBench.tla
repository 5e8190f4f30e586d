------------------------------ MODULE MCBench -------------------------------
(***************************************************************************)
(* TLC instances of Bench: the default bracket of run.sh, the paired       *)
(* battery with an off arm after the agent has attached, and short runs.   *)
(***************************************************************************)
EXTENDS Bench

OffOn == <<Off, 100>>
OffOnOff == <<Off, 100, Off>>
OffOffOnOff == <<Off, Off, 100, Off>>
OffOffOn == <<Off, Off, 100>>
=============================================================================
