--------------------------- MODULE MeasureWindow ----------------------------
(***************************************************************************)
(* bin/run.sh:409-466 against k6/load.js: when the runner's window opens,  *)
(* is split and closes, and which phase every cell's k6 job is in then.    *)
(*                                                                         *)
(* Time is in whole seconds of one clock.  Each cell's job is a container  *)
(* that starts on its own and, after its setup(), runs its stages: Warm    *)
(* seconds whose requests are not recorded and Dur seconds whose are.  The *)
(* runner only knows the containers' start times.                          *)
(***************************************************************************)
EXTENDS Integers

CONSTANTS
  NCells,        \* $CELLS
  Warm,          \* WARM_S, the ramp included
  Dur,           \* DURATION_S
  StartMargin,   \* START_MARGIN
  EndMargin,     \* END_MARGIN
  StartDeadline, \* the 300 s a job is given to start
  MaxSkew,       \* between the first and the last container that start
  MaxSetup,      \* from a container's start to its first stage
  Latency        \* from a sleep's target to the end of the loop over the cells

\* What the margins have to cover for the windows to be well placed.
ASSUME WindowAssumption ==
  /\ NCells \in Nat \ {0}
  /\ {Warm, Dur, StartMargin, EndMargin, StartDeadline, MaxSkew, MaxSetup, Latency} \subseteq Nat
  /\ MaxSetup <= StartMargin
  /\ Latency <= EndMargin
  /\ MaxSkew <= Warm
  /\ StartMargin + EndMargin + MaxSkew + 2 * (Latency + 1) <= Dur

Cell == 1..NCells
NotYet == -1

VARIABLES
  now,      \* the clock
  pc,       \* the runner's step
  cell,     \* the cell of its loop
  since,    \* when it began to poll that cell's job
  earliest, \* $earliest, 0 when unset
  latest,   \* $latest
  start,    \* start[c]: when the k6 container of the cell started
  begin,    \* begin[c]: when its first stage began
  opened,   \* opened[c], mid[c], closed[c]: when the cell's snapshots were taken
  mid,
  closed

jobVars == <<start, begin>>
snapVars == <<opened, mid, closed>>
vars == <<now, pc, cell, since, earliest, latest, start, begin, opened, mid, closed>>

Init ==
  /\ now = 1 /\ pc = "started" /\ cell = 1 /\ since = 1
  /\ earliest = 0 /\ latest = 0
  /\ start = [c \in Cell |-> NotYet] /\ begin = [c \in Cell |-> NotYet]
  /\ opened = [c \in Cell |-> NotYet]
  /\ mid = [c \in Cell |-> NotYet]
  /\ closed = [c \in Cell |-> NotYet]

-----------------------------------------------------------------------------
\* Mutant: the window opens with respect to the first job.
MutOpenAt == earliest + Warm + StartMargin

\* The targets of the three sleeps.
OpenAt == latest + Warm + StartMargin

\* Mutant: the last job's end.
MutWindowEnd == latest + Warm + Dur - EndMargin

WindowEnd == earliest + Warm + Dur - EndMargin

\* Mutant: a window split where it opens.
MutMidAt == OpenAt

MidAt == (OpenAt + WindowEnd) \div 2

AllStarted == \A c \in Cell : start[c] # NotYet

\* Mutant: one turn too many.
MutNextCell(p) ==
  IF cell <= NCells THEN cell' = cell + 1 /\ pc' = pc ELSE cell' = 1 /\ pc' = p

\* One turn of "for c in $CELLS; do ... done", then the step after the loop.
NextCell(p) ==
  IF cell < NCells THEN cell' = cell + 1 /\ pc' = pc ELSE cell' = 1 /\ pc' = p

\* A job's start time is read once it has one, and the run ends when a job has
\* none after StartDeadline.
AwaitStart ==
  /\ pc = "started" /\ start[cell] # NotYet
  /\ earliest' = IF earliest = 0 \/ start[cell] < earliest THEN start[cell] ELSE earliest
  /\ latest' = IF start[cell] > latest THEN start[cell] ELSE latest
  /\ NextCell("warm")
  /\ since' = now
  /\ UNCHANGED <<now, jobVars, snapVars>>

NotStarted ==
  /\ pc = "started" /\ start[cell] = NotYet /\ now > since + StartDeadline
  /\ pc' = "fatal"
  /\ UNCHANGED <<now, cell, since, earliest, latest, jobVars, snapVars>>

\* sleep_until, three times.  A target in the past is no sleep at all.
SleepUntil ==
  /\ \/ pc = "warm" /\ now >= OpenAt /\ pc' = "open"
     \/ pc = "mid" /\ now >= MidAt /\ pc' = "snapmid"
     \/ pc = "end" /\ now >= WindowEnd /\ pc' = "close"
  /\ UNCHANGED <<now, cell, since, earliest, latest, jobVars, snapVars>>

OpenWindow ==
  /\ pc = "open"
  /\ opened' = [opened EXCEPT ![cell] = now]
  /\ NextCell("mid")
  /\ UNCHANGED <<now, since, earliest, latest, jobVars, mid, closed>>

SnapMid ==
  /\ pc = "snapmid"
  /\ mid' = [mid EXCEPT ![cell] = now]
  /\ NextCell("end")
  /\ UNCHANGED <<now, since, earliest, latest, jobVars, opened, closed>>

CloseWindow ==
  /\ pc = "close"
  /\ closed' = [closed EXCEPT ![cell] = now]
  /\ NextCell("done")
  /\ UNCHANGED <<now, since, earliest, latest, jobVars, opened, mid>>

\* A k6 container starts, then runs setup() before its stages.
JobStart(c) ==
  /\ pc = "started" /\ start[c] = NotYet /\ now <= 1 + MaxSkew
  /\ start' = [start EXCEPT ![c] = now]
  /\ \E d \in 0..MaxSetup : begin' = [begin EXCEPT ![c] = now + d]
  /\ UNCHANGED <<now, pc, cell, since, earliest, latest, snapVars>>

\* The time by which the runner has left its step: its polling and its loops
\* over the cells end within Latency.  A job that never starts is waited for.
MustLeave(t) ==
  \/ pc = "started" /\ AllStarted /\ t > 1 + MaxSkew + Latency
  \/ pc = "started" /\ ~AllStarted /\ t > since + StartDeadline + 1
  \/ pc \in {"warm", "open"} /\ t > OpenAt + Latency
  \/ pc \in {"mid", "snapmid"} /\ t > MidAt + Latency
  \/ pc \in {"end", "close"} /\ t > WindowEnd + Latency

Tick ==
  /\ pc \notin {"done", "fatal"}
  /\ ~MustLeave(now + 1)
  /\ now' = now + 1
  /\ UNCHANGED <<pc, cell, since, earliest, latest, jobVars, snapVars>>

Next ==
  \/ AwaitStart \/ NotStarted \/ SleepUntil \/ OpenWindow \/ SnapMid \/ CloseWindow
  \/ Tick \/ \E c \in Cell : JobStart(c)

Spec == Init /\ [][Next]_vars

-----------------------------------------------------------------------------
\* The phase a cell's job is in at a time (load.js, phase).
Measures(c, t) == /\ start[c] # NotYet
                  /\ begin[c] + Warm <= t /\ t <= begin[c] + Warm + Dur

Time == Nat \cup {NotYet}

TypeOK ==
  /\ now \in Nat \ {0} /\ since \in Nat
  /\ pc \in {"started", "warm", "open", "mid", "snapmid", "end", "close", "done", "fatal"}
  /\ cell \in Cell
  /\ earliest \in Nat /\ latest \in Nat
  /\ start \in [Cell -> Time] /\ begin \in [Cell -> Time]
  /\ opened \in [Cell -> Time] /\ mid \in [Cell -> Time] /\ closed \in [Cell -> Time]

\* "The cgroup window lies strictly inside the measure phase" of its cell
\* (run.sh:425-430): nothing of the warm phase and no idle tail is charged to a
\* request, however the containers' starts and setups are staggered.
InsideMeasurePhase ==
  \A c \in Cell :
    /\ opened[c] # NotYet => Measures(c, opened[c])
    /\ closed[c] # NotYet => Measures(c, closed[c])

\* Lockstep: while the window of one cell is open, every cell is loaded at its
\* measured rate, so the noise the cells make for each other is the same in
\* every window (run.sh:2, :417-431).
LoadedTogether ==
  \A c \in Cell :
    opened[c] # NotYet /\ closed[c] = NotYet => \A d \in Cell : Measures(d, now)

\* Neither half of a window is empty, so h1 and h2 are two measurements
\* (run.sh:448-456).
HalvesNotEmpty ==
  \A c \in Cell :
    /\ mid[c] # NotYet => opened[c] # NotYet /\ opened[c] < mid[c]
    /\ closed[c] # NotYet => mid[c] # NotYet /\ mid[c] < closed[c]
=============================================================================
