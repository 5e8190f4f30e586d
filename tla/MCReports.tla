----------------------------- MODULE MCReports ------------------------------
(* Batteries of up to MaxReps runs of one cell and what is reported of them. *)
EXTENDS Battery

\* The validation battery (run.sh:43), make_fixture.py, a window after the agent is
\* gone, and the sandwiched design.
AllDesigns == {<<Off, Off, 100, 100>>, FixtureArms, <<Off, Off, 100, Off>>, <<Off, 100, Off>>}
TwoBaselines == {FixtureArms}
Trends == {0, 12}
BothSources == {"cgroup_delta", "fixture"}
MeasuredOnes == {"cgroup_delta"}
=============================================================================
