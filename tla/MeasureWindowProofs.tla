------------------------- MODULE MeasureWindowProofs ------------------------
(***************************************************************************)
(* The windows of MeasureWindow lie inside every cell's measure phase, for *)
(* any number of cells and any margins that satisfy WindowAssumption.      *)
(***************************************************************************)
EXTENDS MeasureWindow, TLAPS

\* The runner has read the start time of the cell's job.
Polled(c) == pc \notin {"started", "fatal"} \/ (pc = "started" /\ c < cell)

\* The jobs' starts are at most MaxSkew apart, their setups at most MaxSetup long.
Starts ==
  \A c \in Cell : start[c] # NotYet =>
    /\ 1 <= start[c] /\ start[c] <= 1 + MaxSkew
    /\ start[c] <= begin[c] /\ begin[c] <= start[c] + MaxSetup

\* earliest and latest bound every start time that was read.
Bounds ==
  /\ \A c \in Cell : Polled(c) => start[c] # NotYet /\ earliest <= start[c] /\ start[c] <= latest
  /\ \/ earliest = 0 /\ latest = 0 /\ pc \in {"started", "fatal"} /\ (pc = "started" => cell = 1)
     \/ 1 <= earliest /\ earliest <= latest /\ latest <= 1 + MaxSkew
  /\ pc \in {"warm", "mid", "end"} => cell = 1

\* When the runner is where.
Clock ==
  /\ pc = "started" /\ AllStarted => now <= 1 + MaxSkew + Latency
  /\ pc \in {"warm", "open"} => now <= OpenAt + Latency
  /\ pc \in {"mid", "snapmid"} => now <= MidAt + Latency
  /\ pc \in {"end", "close"} => now <= WindowEnd + Latency
  /\ pc \in {"open", "mid", "snapmid", "end", "close", "done"} => OpenAt <= now
  /\ pc \in {"snapmid", "end", "close", "done"} => MidAt <= now
  /\ pc \in {"close", "done"} => WindowEnd <= now

\* The snapshots of one kind exist once their loop is behind the cell, and were
\* taken at most Latency after their target.
TakenIn(snap, loop, after, target) ==
  \A c \in Cell :
    /\ pc \in after \/ (pc = loop /\ c < cell) => snap[c] # NotYet
    /\ snap[c] # NotYet =>
         /\ pc \in after \/ (pc = loop /\ c < cell)
         /\ target <= snap[c] /\ snap[c] <= target + Latency

Opened == TakenIn(opened, "open", {"mid", "snapmid", "end", "close", "done"}, OpenAt)
Halved == TakenIn(mid, "snapmid", {"end", "close", "done"}, MidAt)
Closed == TakenIn(closed, "close", {"done"}, WindowEnd)

Snapshots == Opened /\ Halved /\ Closed

\* The inductive invariant.
IInv == TypeOK /\ Starts /\ Bounds /\ Clock /\ Snapshots

-----------------------------------------------------------------------------
\* A loop over the cells takes them in turn.
LEMMA NextCellStep ==
  ASSUME cell \in Cell, NEW p, NextCell(p)
  PROVE  /\ cell' \in Cell
         /\ \/ cell < NCells /\ cell' = cell + 1 /\ pc' = pc
            \/ cell = NCells /\ cell' = 1 /\ pc' = p
<1>1. cell \in Int /\ 1 <= cell /\ cell <= NCells /\ NCells \in Nat
  BY WindowAssumption DEF Cell
<1>2. CASE cell < NCells
  BY <1>1, <1>2 DEF NextCell, Cell
<1>3. CASE ~(cell < NCells)
  BY <1>1, <1>3 DEF NextCell, Cell
<1> QED
  BY <1>2, <1>3

\* Once earliest and latest are known, the three targets are Latency apart.
LEMMA Targets ==
  ASSUME TypeOK, Bounds, earliest # 0
  PROVE  /\ OpenAt \in Int /\ MidAt \in Int /\ WindowEnd \in Int
         /\ OpenAt + Latency < MidAt
         /\ MidAt + Latency < WindowEnd
<1>1. /\ earliest \in Nat /\ latest \in Nat /\ latest - earliest <= MaxSkew
      /\ {Warm, Dur, StartMargin, EndMargin, MaxSkew, Latency} \subseteq Nat
  BY WindowAssumption DEF TypeOK, Bounds
<1>2. OpenAt \in Int /\ WindowEnd \in Int
  BY <1>1 DEF OpenAt, WindowEnd
<1>3. OpenAt + 2 * (Latency + 1) <= WindowEnd
  BY <1>1, WindowAssumption DEF OpenAt, WindowEnd
<1>4. /\ MidAt \in Int
      /\ 2 * MidAt <= OpenAt + WindowEnd /\ OpenAt + WindowEnd <= 2 * MidAt + 1
  BY <1>2 DEF MidAt
<1> QED
  BY <1>1, <1>2, <1>3, <1>4

\* The invariant holds at first.
LEMMA InitIInv == Init => IInv
  BY WindowAssumption
  DEF Init, IInv, TypeOK, Starts, Bounds, Polled, Clock, Snapshots, Opened, Halved, Closed, TakenIn, AllStarted, Time, Cell, NotYet

\* Every step preserves it.
LEMMA NextIInv == IInv /\ [Next]_vars => IInv'
<1> SUFFICES ASSUME IInv, [Next]_vars
             PROVE  IInv'
  OBVIOUS
<1> USE WindowAssumption DEF IInv, TypeOK, Time, NotYet
<1>1. CASE AwaitStart
  <2>1. TypeOK'
    BY <1>1, NextCellStep DEF AwaitStart, jobVars, snapVars, Cell
  <2>2. Starts'
    BY <1>1 DEF AwaitStart, Starts, jobVars
  <2>3. Bounds'
    <3>1. 1 <= start[cell] /\ start[cell] <= 1 + MaxSkew
      BY <1>1 DEF AwaitStart, Starts
    <3>2. /\ 1 <= earliest' /\ earliest' <= latest' /\ latest' <= 1 + MaxSkew
          /\ earliest' <= start[cell] /\ start[cell] <= latest'
          /\ earliest' <= earliest \/ earliest = 0
          /\ latest <= latest'
      BY <1>1, <3>1 DEF AwaitStart, Bounds
    <3>3. pc = "started" /\ start' = start /\ start[cell] # NotYet
      BY <1>1 DEF AwaitStart, jobVars
    <3>4. /\ \/ pc' = "started" /\ cell' = cell + 1
             \/ pc' = "warm" /\ cell' = 1 /\ cell = NCells
      BY <1>1, NextCellStep DEF AwaitStart
    <3>5. ASSUME NEW c \in Cell, Polled(c)'
          PROVE  start'[c] # NotYet /\ earliest' <= start'[c] /\ start'[c] <= latest'
      <4>1. c = cell \/ (c < cell /\ Polled(c))
        BY <3>3, <3>4, <3>5 DEF Polled, Cell
      <4>2. CASE c = cell
        BY <3>2, <3>3, <4>2
      <4>3. CASE c < cell /\ Polled(c)
        <5>1. start[c] \in Nat /\ earliest # 0 /\ earliest <= start[c] /\ start[c] <= latest
          BY <3>3, <4>3 DEF Bounds, Cell
        <5> QED
          BY <2>1, <3>2, <3>3, <5>1
      <4> QED
        BY <4>1, <4>2, <4>3
    <3> QED
      BY <3>2, <3>4, <3>5 DEF Bounds
  <2>4. pc' = "warm" => AllStarted
    BY <1>1 DEF AwaitStart, Bounds, Polled, NextCell, AllStarted, Cell
  <2>5. Clock'
    <3>1. CASE pc' = "started"
      BY <1>1, <3>1 DEF AwaitStart, Clock, AllStarted, jobVars
    <3>2. CASE pc' = "warm"
      <4>1. now <= 1 + MaxSkew + Latency
        BY <1>1, <2>4, <3>2 DEF AwaitStart, Clock
      <4>2. latest' >= 1
        BY <2>1, <2>3, <3>2 DEF Bounds
      <4> QED
        BY <1>1, <2>1, <3>2, <4>1, <4>2 DEF AwaitStart, Clock, OpenAt
    <3> QED
      BY <1>1, <3>1, <3>2 DEF AwaitStart, NextCell
  <2>6. Snapshots'
    BY <1>1 DEF AwaitStart, Snapshots, Opened, Halved, Closed, TakenIn, NextCell, snapVars
  <2> QED
    BY <2>1, <2>2, <2>3, <2>5, <2>6
<1>2. CASE NotStarted
  BY <1>2 DEF NotStarted, Starts, Bounds, Polled, Clock, Snapshots, Opened, Halved, Closed, TakenIn, jobVars, snapVars
<1>3. CASE SleepUntil
  <2>1. UNCHANGED <<now, cell, since, earliest, latest, start, begin, opened, mid, closed>>
    BY <1>3 DEF SleepUntil, jobVars, snapVars
  <2>2. OpenAt' = OpenAt /\ MidAt' = MidAt /\ WindowEnd' = WindowEnd
    BY <2>1 DEF OpenAt, MidAt, WindowEnd
  <2>3. \/ pc = "warm" /\ now >= OpenAt /\ pc' = "open"
        \/ pc = "mid" /\ now >= MidAt /\ pc' = "snapmid"
        \/ pc = "end" /\ now >= WindowEnd /\ pc' = "close"
    BY <1>3 DEF SleepUntil
  <2>4. TypeOK' /\ Starts'
    BY <2>1, <2>3 DEF Starts
  <2>5. Bounds'
    BY <2>1, <2>3 DEF Bounds, Polled
  <2>6. Clock'
    BY <2>1, <2>2, <2>3 DEF Clock
  <2>7. cell = 1
    BY <2>3 DEF Bounds
  <2>8. Snapshots'
    <3> HIDE WindowAssumption DEF TypeOK, Time, NotYet
    <3>1. Opened'
      BY <2>1, <2>2, <2>3, <2>7 DEF Snapshots, Opened, TakenIn, Cell
    <3>2. Halved'
      BY <2>1, <2>2, <2>3, <2>7 DEF Snapshots, Halved, TakenIn, Cell
    <3>3. Closed'
      BY <2>1, <2>2, <2>3, <2>7 DEF Snapshots, Closed, TakenIn, Cell
    <3> QED
      BY <3>1, <3>2, <3>3 DEF Snapshots
  <2> QED
    BY <2>4, <2>5, <2>6, <2>8
<1>4. ASSUME pc \in {"open", "snapmid", "close"},
             UNCHANGED <<now, since, earliest, latest, start, begin>>,
             NextCell(IF pc = "open" THEN "mid" ELSE IF pc = "snapmid" THEN "end" ELSE "done")
      PROVE  /\ cell' \in Cell /\ pc' \in {pc, "mid", "end", "done"}
                 /\ Starts' /\ Bounds' /\ Clock'
  <2>1. cell' \in Cell /\ pc' \in {pc, "mid", "end", "done"}
    BY <1>4, NextCellStep
  <2>2. Starts' /\ Bounds'
    BY <1>4 DEF Starts, Bounds, Polled, NextCell, Cell
  <2>3. OpenAt' = OpenAt /\ MidAt' = MidAt /\ WindowEnd' = WindowEnd
    BY <1>4 DEF OpenAt, MidAt, WindowEnd
  <2>4. earliest # 0
    BY <1>4 DEF Bounds
  <2>5. Clock'
    BY <1>4, <2>3, <2>4, Targets DEF Clock, NextCell
  <2> QED
    BY <2>1, <2>2, <2>5
<1>5. CASE OpenWindow
  <2>1. /\ pc = "open"
        /\ UNCHANGED <<now, since, earliest, latest, start, begin, mid, closed>>
        /\ opened' = [opened EXCEPT ![cell] = now]
        /\ NextCell("mid")
    BY <1>5 DEF OpenWindow, jobVars
  <2>2. Starts' /\ Bounds' /\ Clock' /\ TypeOK'
    BY <1>4, <2>1
  <2>3. OpenAt' = OpenAt /\ MidAt' = MidAt /\ WindowEnd' = WindowEnd
    BY <2>1 DEF OpenAt, MidAt, WindowEnd
  <2>4. OpenAt <= now /\ now <= OpenAt + Latency
    BY <2>1 DEF Clock
  <2>5. Snapshots'
    <3> HIDE WindowAssumption DEF TypeOK, Time, NotYet
    <3>1. Opened'
      <4>1. /\ opened'[cell] = now /\ now # NotYet
            /\ \A c \in Cell \ {cell} : opened'[c] = opened[c]
        BY <2>1 DEF TypeOK, Time, NotYet
      <4>2. /\ cell \in Cell
            /\ \/ cell < NCells /\ cell' = cell + 1 /\ pc' = "open"
               \/ cell = NCells /\ cell' = 1 /\ pc' = "mid"
        BY <2>1, NextCellStep DEF TypeOK
      <4> QED
        BY <2>1, <2>3, <2>4, <4>1, <4>2 DEF Snapshots, Opened, TakenIn, Cell
    <3>2. Halved'
      BY <2>1, <2>3, <2>4 DEF Snapshots, Halved, TakenIn, NextCell, Cell
    <3>3. Closed'
      BY <2>1, <2>3, <2>4 DEF Snapshots, Closed, TakenIn, NextCell, Cell
    <3> QED
      BY <3>1, <3>2, <3>3 DEF Snapshots
  <2> QED
    BY <2>2, <2>5
<1>6. CASE SnapMid
  <2>1. /\ pc = "snapmid"
        /\ UNCHANGED <<now, since, earliest, latest, start, begin, opened, closed>>
        /\ mid' = [mid EXCEPT ![cell] = now]
        /\ NextCell("end")
    BY <1>6 DEF SnapMid, jobVars
  <2>2. Starts' /\ Bounds' /\ Clock' /\ TypeOK'
    BY <1>4, <2>1
  <2>3. OpenAt' = OpenAt /\ MidAt' = MidAt /\ WindowEnd' = WindowEnd
    BY <2>1 DEF OpenAt, MidAt, WindowEnd
  <2>4. MidAt <= now /\ now <= MidAt + Latency
    BY <2>1 DEF Clock
  <2>5. Snapshots'
    <3> HIDE WindowAssumption DEF TypeOK, Time, NotYet
    <3>1. Opened'
      BY <2>1, <2>3, <2>4 DEF Snapshots, Opened, TakenIn, NextCell, Cell
    <3>2. Halved'
      <4>1. /\ mid'[cell] = now /\ now # NotYet
            /\ \A c \in Cell \ {cell} : mid'[c] = mid[c]
        BY <2>1 DEF TypeOK, Time, NotYet
      <4>2. /\ cell \in Cell
            /\ \/ cell < NCells /\ cell' = cell + 1 /\ pc' = "snapmid"
               \/ cell = NCells /\ cell' = 1 /\ pc' = "end"
        BY <2>1, NextCellStep DEF TypeOK
      <4> QED
        BY <2>1, <2>3, <2>4, <4>1, <4>2 DEF Snapshots, Halved, TakenIn, Cell
    <3>3. Closed'
      BY <2>1, <2>3, <2>4 DEF Snapshots, Closed, TakenIn, NextCell, Cell
    <3> QED
      BY <3>1, <3>2, <3>3 DEF Snapshots
  <2> QED
    BY <2>2, <2>5
<1>7. CASE CloseWindow
  <2>1. /\ pc = "close"
        /\ UNCHANGED <<now, since, earliest, latest, start, begin, opened, mid>>
        /\ closed' = [closed EXCEPT ![cell] = now]
        /\ NextCell("done")
    BY <1>7 DEF CloseWindow, jobVars
  <2>2. Starts' /\ Bounds' /\ Clock' /\ TypeOK'
    BY <1>4, <2>1
  <2>3. OpenAt' = OpenAt /\ MidAt' = MidAt /\ WindowEnd' = WindowEnd
    BY <2>1 DEF OpenAt, MidAt, WindowEnd
  <2>4. WindowEnd <= now /\ now <= WindowEnd + Latency
    BY <2>1 DEF Clock
  <2>5. Snapshots'
    <3> HIDE WindowAssumption DEF TypeOK, Time, NotYet
    <3>1. Opened'
      BY <2>1, <2>3, <2>4 DEF Snapshots, Opened, TakenIn, NextCell, Cell
    <3>2. Halved'
      BY <2>1, <2>3, <2>4 DEF Snapshots, Halved, TakenIn, NextCell, Cell
    <3>3. Closed'
      <4>1. /\ closed'[cell] = now /\ now # NotYet
            /\ \A c \in Cell \ {cell} : closed'[c] = closed[c]
        BY <2>1 DEF TypeOK, Time, NotYet
      <4>2. /\ cell \in Cell
            /\ \/ cell < NCells /\ cell' = cell + 1 /\ pc' = "close"
               \/ cell = NCells /\ cell' = 1 /\ pc' = "done"
        BY <2>1, NextCellStep DEF TypeOK
      <4> QED
        BY <2>1, <2>3, <2>4, <4>1, <4>2 DEF Snapshots, Closed, TakenIn, Cell
    <3> QED
      BY <3>1, <3>2, <3>3 DEF Snapshots
  <2> QED
    BY <2>2, <2>5
<1>8. CASE Tick
  <2>1. /\ UNCHANGED <<pc, cell, since, earliest, latest, start, begin, opened, mid, closed>>
        /\ now' = now + 1 /\ ~MustLeave(now + 1) /\ pc \notin {"done", "fatal"}
    BY <1>8 DEF Tick, jobVars, snapVars
  <2>2. OpenAt' = OpenAt /\ MidAt' = MidAt /\ WindowEnd' = WindowEnd /\ (AllStarted' <=> AllStarted)
    BY <2>1 DEF OpenAt, MidAt, WindowEnd, AllStarted
  <2>3. TypeOK' /\ Starts' /\ Bounds'
    BY <2>1 DEF Starts, Bounds, Polled
  <2>4. Snapshots'
    BY <2>1, <2>2 DEF Snapshots, Opened, Halved, Closed, TakenIn
  <2>5. OpenAt \in Int /\ MidAt \in Int /\ WindowEnd \in Int
    BY DEF OpenAt, MidAt, WindowEnd
  <2>6. Clock'
    BY <2>1, <2>2, <2>5 DEF Clock, MustLeave
  <2> QED
    BY <2>3, <2>4, <2>6
<1>9. ASSUME NEW c \in Cell, JobStart(c)
      PROVE  IInv'
  <2>1. /\ pc = "started" /\ start[c] = NotYet /\ now <= 1 + MaxSkew
        /\ start' = [start EXCEPT ![c] = now]
        /\ UNCHANGED <<now, pc, cell, since, earliest, latest, opened, mid, closed>>
    BY <1>9 DEF JobStart, snapVars
  <2>2. PICK d \in 0..MaxSetup : begin' = [begin EXCEPT ![c] = now + d]
    BY <1>9 DEF JobStart
  <2>3. TypeOK'
    BY <2>1, <2>2
  <2>4. Starts'
    BY <2>1, <2>2 DEF Starts
  <2>5. Bounds'
    BY <2>1 DEF Bounds, Polled
  <2>6. Clock' /\ Snapshots'
    BY <2>1 DEF Clock, Snapshots, Opened, Halved, Closed, TakenIn
  <2> QED
    BY <2>3, <2>4, <2>5, <2>6
<1>10. CASE UNCHANGED vars
  BY <1>10 DEF vars, Starts, Bounds, Polled, Clock, Snapshots, Opened, Halved, Closed, TakenIn, AllStarted, OpenAt, MidAt, WindowEnd
<1> QED
  BY <1>1, <1>2, <1>3, <1>5, <1>6, <1>7, <1>8, <1>9, <1>10 DEF Next

-----------------------------------------------------------------------------
\* The inductive invariant holds in every reachable state: run.sh never takes a
\* snapshot out of turn.
THEOREM SchedInvariant == Spec => []IInv
  BY InitIInv, NextIInv, PTL DEF Spec

\* The schedule's state is well-formed whatever the margins (run.sh:409-466).
THEOREM ScheduleTypeCorrect == Spec => []TypeOK
<1>1. IInv => TypeOK
  BY DEF IInv
<1> QED
  BY <1>1, SchedInvariant, PTL

\* Both ends of every window lie in the measure phase of the cell's own job
\* (run.sh:425-466, load.js:115-118).
THEOREM WindowInsidePhase == Spec => []InsideMeasurePhase
<1>1. IInv => InsideMeasurePhase
  <2> SUFFICES ASSUME IInv, NEW c \in Cell, opened[c] # NotYet
               PROVE  /\ Measures(c, opened[c])
                      /\ closed[c] # NotYet => Measures(c, closed[c])
    BY DEF InsideMeasurePhase, IInv, Snapshots, Opened, Halved, Closed, TakenIn
  <2>1. pc \in {"open", "mid", "snapmid", "end", "close", "done"}
    BY DEF IInv, Snapshots, Opened, Halved, Closed, TakenIn
  <2>2. /\ earliest # 0 /\ start[c] # NotYet
        /\ earliest <= start[c] /\ start[c] <= latest
    BY <2>1 DEF IInv, Bounds, Polled
  <2>3. start[c] <= begin[c] /\ begin[c] <= start[c] + MaxSetup
    BY <2>2 DEF IInv, Starts
  <2>4. begin[c] + Warm <= OpenAt /\ WindowEnd + Latency <= begin[c] + Warm + Dur
    BY <2>2, <2>3, WindowAssumption DEF IInv, TypeOK, Time, NotYet, OpenAt, WindowEnd
  <2> QED
    BY <2>2, <2>4, Targets, WindowAssumption
    DEF IInv, TypeOK, Time, NotYet, Snapshots, Opened, Halved, Closed, TakenIn, Measures
<1> QED
  BY <1>1, SchedInvariant, PTL

\* While one cell's window is open every cell runs at its measured rate
\* (run.sh:417-466).
THEOREM WindowsLoadedTogether == Spec => []LoadedTogether
<1>1. IInv => LoadedTogether
  <2> SUFFICES ASSUME IInv, NEW c \in Cell, opened[c] # NotYet, closed[c] = NotYet,
                      NEW d \in Cell
               PROVE  Measures(d, now)
    BY DEF LoadedTogether
  <2>1. pc \in {"open", "mid", "snapmid", "end", "close"}
    BY DEF IInv, Snapshots, Opened, Halved, Closed, TakenIn
  <2>2. /\ earliest # 0 /\ start[d] # NotYet
        /\ earliest <= start[d] /\ start[d] <= latest
    BY <2>1 DEF IInv, Bounds, Polled
  <2>3. start[d] <= begin[d] /\ begin[d] <= start[d] + MaxSetup
    BY <2>2 DEF IInv, Starts
  <2>4. begin[d] + Warm <= OpenAt /\ WindowEnd + Latency <= begin[d] + Warm + Dur
    BY <2>2, <2>3, WindowAssumption DEF IInv, TypeOK, Time, NotYet, OpenAt, WindowEnd
  <2>5. OpenAt <= now /\ now <= WindowEnd + Latency
    BY <2>1, <2>2, Targets, WindowAssumption DEF IInv, TypeOK, Clock
  <2> QED
    BY <2>2, <2>4, <2>5, Targets, WindowAssumption DEF IInv, TypeOK, Time, NotYet, Measures
<1> QED
  BY <1>1, SchedInvariant, PTL

\* Both halves of every window have a length (run.sh:448-456).
THEOREM HalvesHaveLength == Spec => []HalvesNotEmpty
<1>1. IInv => HalvesNotEmpty
  <2> SUFFICES ASSUME IInv, NEW c \in Cell
               PROVE  /\ mid[c] # NotYet => opened[c] # NotYet /\ opened[c] < mid[c]
                      /\ closed[c] # NotYet => mid[c] # NotYet /\ mid[c] < closed[c]
    BY DEF HalvesNotEmpty
  <2>1. /\ mid[c] # NotYet => opened[c] # NotYet /\ pc # "started" /\ pc # "fatal"
        /\ closed[c] # NotYet => mid[c] # NotYet
    BY DEF IInv, Snapshots, Opened, Halved, Closed, TakenIn
  <2>2. mid[c] # NotYet => earliest # 0
    BY <2>1 DEF IInv, Bounds
  <2> QED
    BY <2>1, <2>2, Targets, WindowAssumption DEF IInv, TypeOK, Time, NotYet, Snapshots, Opened, Halved, Closed, TakenIn
<1> QED
  BY <1>1, SchedInvariant, PTL
=============================================================================
