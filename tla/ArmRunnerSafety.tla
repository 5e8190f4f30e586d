--------------------------- MODULE ArmRunnerSafety --------------------------
(***************************************************************************)
(* Theorems about ArmRunner, for any cells, arms, restart mode and number  *)
(* of failures: its type, and its safety.  A safety property is too weak   *)
(* to be inductive; what has to be added says how far the runner's loop    *)
(* over the cells has come.                                                *)
(***************************************************************************)
EXTENDS RunnerLog, FiniteSetTheorems, TLAPS

-----------------------------------------------------------------------------
(***************************************************************************)
(* Type correctness.                                                       *)
(***************************************************************************)

\* A loop over the cells takes them in turn.
LEMMA NextCellStep ==
  ASSUME cell \in Cell, NEW p, NextCell(p)
  PROVE  /\ cell' \in Cell /\ idx' = idx
         /\ \/ cell < NCells /\ cell' = cell + 1 /\ pc' = pc
            \/ cell = NCells /\ cell' = 1 /\ pc' = p
<1>1. cell \in Int /\ 1 <= cell /\ cell <= NCells /\ NCells \in Nat
  BY RunnerAssumption DEF Cell
<1>2. CASE cell < NCells
  BY <1>1, <1>2 DEF NextCell, Cell
<1>3. CASE ~(cell < NCells)
  BY <1>1, <1>3 DEF NextCell, Goto, Cell
<1> QED
  BY <1>2, <1>3

\* A step that leaves the loop starts the next one at the first cell.
LEMMA GotoStep ==
  ASSUME NEW p, Goto(p)
  PROVE  pc' = p /\ cell' = 1 /\ cell' \in Cell /\ idx' = idx
  BY RunnerAssumption DEF Goto, Cell

\* The arm of the current slot is one of the documented kinds.
LEMMA ArmType == idx \in DOMAIN Arms => arm \in Arm
  BY RunnerAssumption DEF arm

\* The sink counts a natural number of spans per request.
LEMMA SpansType ==
  ASSUME NEW a \in AgentState, NEW b \in AgentState
  PROVE  Observed(a, b) \subseteq Nat
<1>1. SpansOf(a) \in Nat /\ (SpansOf(a) = 0 \/ SpansOf(a) >= 10)
  BY DEF SpansOf, Expect, AgentState, Arm, Off, Woven
<1>2. SpansOf(b) \in Nat /\ (SpansOf(b) = 0 \/ SpansOf(b) >= 10)
  BY DEF SpansOf, Expect, AgentState, Arm, Off, Woven
<1> QED
  BY <1>1, <1>2 DEF Observed

\* A row is a Window.
LEMMA RowType ==
  ASSUME TypeOK, NEW c \in Cell
  PROVE  JudgedRow(c) \in Window
<1>1. GateJson(Evidence(c), arm, Expect) \in GateFile
  BY DEF GateJson, GateFile
<1>2. ev[c] \in Files /\ seen[c] \in Truth /\ arm \in Arm /\ idx \in Nat
  BY ArmType, RunnerAssumption DEF TypeOK
<1> QED
  BY <1>1, <1>2 DEF JudgedRow, Row, Window, Files, Truth, Sight

LEMMA InitTypeOK == Init => TypeOK
<1> SUFFICES ASSUME Init
             PROVE  TypeOK
  OBVIOUS
<1>1. 1 \in Cell /\ 1 \in DOMAIN Arms
  BY RunnerAssumption DEF Cell
<1>2. NoFiles \in Files
  BY DEF NoFiles, Files
<1>3. Unseen \in Truth
  BY DEF Unseen, Truth, Sight, AgentState, Arm, Off
<1>4. source \in [Cell -> BOOLEAN] /\ ic \in [Cell -> Arm] /\ agent \in [Cell -> AgentState]
  BY DEF Init, Arm, AgentState, Off
<1> QED
  BY <1>1, <1>2, <1>3, <1>4 DEF Init, TypeOK

\* The runner's steps that touch the cluster or a job.
LEMMA ClusterWritesTypeOK ==
  TypeOK /\ (SetSampling \/ ResetAndRestart \/ WaitHealthy \/ WaitIc \/ Launch \/ AwaitStart
             \/ SleepUntil \/ WaitAll) => TypeOK'
<1> SUFFICES ASSUME TypeOK
             PROVE  SetSampling \/ ResetAndRestart \/ WaitHealthy \/ WaitIc \/ Launch
                      \/ AwaitStart \/ SleepUntil \/ WaitAll => TypeOK'
  OBVIOUS
<1> USE DEF TypeOK, clusterVars
<1>1. ASSUME SetSampling PROVE TypeOK'
  <2>1. NoFiles \in Files /\ Unseen \in Truth
    BY DEF NoFiles, Files, Unseen, Truth, Sight, AgentState, Arm, Off
  <2>2. pc' \in {"restart", "health"} /\ cell' \in Cell /\ idx' = idx
    BY <1>1, GotoStep DEF SetSampling
  <2>3. source' \in [Cell -> BOOLEAN]
    <3>1. PICK F : source' = [c \in Cell |-> IF c \in F THEN source[c] ELSE arm # Off]
      BY <1>1, Zenon DEF SetSampling
    <3>2. ASSUME NEW c \in Cell
          PROVE  (IF c \in F THEN source[c] ELSE arm # Off) \in BOOLEAN
      BY <3>2
    <3> QED
      BY <3>1, <3>2, Zenon
  <2>4. rule' \in 1..100
    <3>1. PICK F : rule' \in IF 0 \in F THEN {rule, 100}
                            ELSE {IF arm = Off THEN 100 ELSE arm}
      BY <1>1, Zenon DEF SetSampling
    <3>2. CASE 0 \in F
      BY <3>1, <3>2
    <3>3. CASE 0 \notin F
      <4>1. rule' = IF arm = Off THEN 100 ELSE arm
        BY <3>1, <3>3
      <4> QED
        BY <4>1, ArmType DEF Arm, Off
    <3> QED
      BY <3>2, <3>3
  <2> QED
    BY <1>1, <2>1, <2>2, <2>3, <2>4 DEF SetSampling
<1>2. ASSUME ResetAndRestart PROVE TypeOK'
  <2>1. pod' \in [Cell -> Nat] /\ restarts' \in [Cell -> Nat] /\ agent' \in [Cell -> AgentState]
    BY <1>2 DEF ResetAndRestart, AgentState, Arm, Off
  <2> QED
    BY <1>2, <2>1, GotoStep DEF ResetAndRestart
<1>3. ASSUME WaitHealthy PROVE TypeOK'
  BY <1>3, NextCellStep, GotoStep DEF WaitHealthy, Fatal
<1>4. ASSUME WaitIc PROVE TypeOK'
  BY <1>4, NextCellStep DEF WaitIc
<1>5. ASSUME Launch PROVE TypeOK'
  BY <1>5, NextCellStep, GotoStep DEF Launch, Fatal
<1>6. ASSUME AwaitStart PROVE TypeOK'
  BY <1>6, NextCellStep, GotoStep DEF AwaitStart, Fatal
<1>7. ASSUME SleepUntil PROVE TypeOK'
  BY <1>7, GotoStep DEF SleepUntil, Fatal
<1>8. ASSUME WaitAll PROVE TypeOK'
  BY <1>8, GotoStep DEF WaitAll
<1> QED
  BY <1>1, <1>2, <1>3, <1>4, <1>5, <1>6, <1>7, <1>8

\* What one read, or the scripts' reads together, add to a cell's files.
LEMMA FilesWrite ==
  ASSUME NEW e \in Files
  PROVE  /\ \A s \in SUBSET {200, 500} : [e EXCEPT !.reset = s] \in Files
         /\ \A i \in Arm : [e EXCEPT !.ic = {IcText(i)}] \in Files
         /\ [e EXCEPT !.ic = {OtherText}] \in Files
         /\ \A s \in SUBSET {Snap} : [e EXCEPT !.mid = s] \in Files
         /\ \A s \in SUBSET {K6Summary} : [e EXCEPT !.k6 = s] \in Files
         /\ \A s \in SUBSET Nat, b \in BOOLEAN :
              [e EXCEPT !.sink = [spans |-> s, completed |-> b]] \in Files
         /\ \A s \in [pod : SUBSET Nat, rs : SUBSET Nat, cg : SUBSET {Snap}, jvm : SUBSET {0},
                      sink : SUBSET Nat] : [e EXCEPT !.start = s] \in Files
         /\ \A s \in [pod : SUBSET Nat, rs : SUBSET Nat, cg : SUBSET {Snap}, jvm : SUBSET {0}] :
              [e EXCEPT !.end = s] \in Files
<1>1. \A i \in Arm : IcText(i) \in [crd : BOOLEAN, enabled : BOOLEAN, pct : SUBSET (1..100)]
  BY DEF IcText, OtherText, Arm, Off
<1>2. OtherText \in [crd : BOOLEAN, enabled : BOOLEAN, pct : SUBSET (1..100)]
  BY DEF OtherText
<1>3. \A s \in SUBSET Nat, b \in BOOLEAN :
        [spans |-> s, completed |-> b] \in [spans : SUBSET Nat, completed : BOOLEAN]
  OBVIOUS
<1>4. /\ \A s \in SUBSET {200, 500} : [e EXCEPT !.reset = s] \in Files
      /\ \A s \in SUBSET {Snap} : [e EXCEPT !.mid = s] \in Files
      /\ \A s \in SUBSET {K6Summary} : [e EXCEPT !.k6 = s] \in Files
  BY DEF Files
<1>5. \A t \in [crd : BOOLEAN, enabled : BOOLEAN, pct : SUBSET (1..100)] :
        [e EXCEPT !.ic = {t}] \in Files
  BY DEF Files
<1>6. \A t \in [spans : SUBSET Nat, completed : BOOLEAN] : [e EXCEPT !.sink = t] \in Files
  BY DEF Files
<1>7. \A s \in [pod : SUBSET Nat, rs : SUBSET Nat, cg : SUBSET {Snap}, jvm : SUBSET {0},
               sink : SUBSET Nat] : [e EXCEPT !.start = s] \in Files
  BY DEF Files
<1>8. \A s \in [pod : SUBSET Nat, rs : SUBSET Nat, cg : SUBSET {Snap}, jvm : SUBSET {0}] :
        [e EXCEPT !.end = s] \in Files
  BY DEF Files
<1> QED
  BY <1>1, <1>2, <1>3, <1>4, <1>5, <1>6, <1>7, <1>8

\* A cell's files replaced by well-formed ones.
LEMMA PutFiles ==
  ASSUME NEW c \in Cell, ev \in [Cell -> Files], NEW e \in Files, ev' = [ev EXCEPT ![c] = e]
  PROVE  ev' \in [Cell -> Files]
  BY Zenon

\* The same for the truth of a cell's window.
LEMMA PutTruth ==
  ASSUME NEW c \in Cell, seen \in [Cell -> Truth], NEW t \in Truth, seen' = [seen EXCEPT ![c] = t]
  PROVE  seen' \in [Cell -> Truth]
  BY Zenon

\* A read that is lost is one of the reads there are.
LEMMA LoseType ==
  ASSUME cell \in Cell, seen \in [Cell -> Truth], NEW F \in SUBSET Evidences, Lose(F)
  PROVE  seen' \in [Cell -> Truth]
<1>1. seen[cell] \in Truth
  OBVIOUS
<1>2. [seen[cell] EXCEPT !.lost = @ \cup F] \in Truth
  BY <1>1 DEF Truth
<1> QED
  BY <1>2, PutTruth DEF Lose

\* The steps that read evidence.
LEMMA EvidenceTypeOK ==
  TypeOK /\ (AdminReset \/ Capture \/ OpenWindow \/ SnapMid \/ CloseWindow \/ SinkEnd \/ Collect)
    => TypeOK'
<1> SUFFICES ASSUME TypeOK
             PROVE  AdminReset \/ Capture \/ OpenWindow \/ SnapMid \/ CloseWindow \/ SinkEnd
                      \/ Collect => TypeOK'
  OBVIOUS
<1>0. /\ cell \in Cell /\ ev[cell] \in Files /\ seen[cell] \in Truth
      /\ ev \in [Cell -> Files] /\ seen \in [Cell -> Truth]
      /\ ic[cell] \in Arm /\ agent[cell] \in AgentState /\ pod[cell] \in Nat /\ restarts[cell] \in Nat
  BY DEF TypeOK
<1>01. Process(cell) \in Nat \X Nat
  BY <1>0 DEF Process
<1>1. ASSUME AdminReset PROVE TypeOK'
  <2>1. PICK code \in {200, 500} :
          /\ ev' = [ev EXCEPT ![cell].reset = {code}]
          /\ db' = [db EXCEPT ![cell] = IF code = 200 THEN "known" ELSE @]
          /\ IF code = 200 THEN NextCell("capture") ELSE Fatal
    BY <1>1 DEF AdminReset
  <2>2. ev' \in [Cell -> Files]
    <3>1. cell \in Cell /\ ev[cell] \in Files /\ code \in {200, 500}
      BY <1>0
    <3>2. [ev[cell] EXCEPT !.reset = {code}] \in Files
      BY ONLY <3>1 DEF Files
    <3> QED
      BY <1>0, <2>1, <3>2, PutFiles
  <2>3. pc' \in {"reset", "capture", "fatal"} /\ cell' \in Cell /\ idx' = idx
    BY <1>0, <1>1, <2>1, NextCellStep, GotoStep DEF Fatal, AdminReset
  <2> QED
    BY <1>1, <2>1, <2>2, <2>3 DEF AdminReset, TypeOK
<1>2. ASSUME Capture PROVE TypeOK'
  <2>1. PICK F \in Fails("read", {"ic"}) :
          /\ ev' = [ev EXCEPT ![cell].ic = {IF F = {} THEN IcText(ic[cell]) ELSE OtherText}]
          /\ Lose(F)
    BY <1>2 DEF Capture
  <2>2. seen' \in [Cell -> Truth]
    BY <1>0, <2>1, LoseType DEF Fails, Evidences
  <2>3. ev' \in [Cell -> Files]
    <3> DEFINE text == IF F = {} THEN IcText(ic[cell]) ELSE OtherText
    <3>1. [ev[cell] EXCEPT !.ic = {text}] \in Files
      <4>1. text = IcText(ic[cell]) \/ text = OtherText
        BY Zenon
      <4>2. [ev[cell] EXCEPT !.ic = {IcText(ic[cell])}] \in Files
        BY <1>0, FilesWrite, Zenon
      <4>3. [ev[cell] EXCEPT !.ic = {OtherText}] \in Files
        BY <1>0, FilesWrite, Zenon
      <4> QED
        BY <4>1, <4>2, <4>3, Zenon
    <3> QED
      BY <1>0, <2>1, <3>1, PutFiles
  <2> QED
    BY <1>0, <1>2, <2>2, <2>3, NextCellStep DEF Capture, clusterVars, TypeOK
<1>3. ASSUME OpenWindow PROVE TypeOK'
  <2> DEFINE Read(F, f, v) == IF f \in F \/ (f \in {"rs", "cgStart"} /\ "pod" \in F) THEN {} ELSE {v}
             Start(F) == [pod |-> Read(F, "pod", pod[cell]), rs |-> Read(F, "rs", restarts[cell]),
                          cg |-> Read(F, "cgStart", Snap), jvm |-> Read(F, "jvmStart", 0),
                          sink |-> Read(F, "sinkStart", SpansSoFar(cell))]
             busy == job[cell] = "running"
             Seen == [process |-> {Process(cell)}, agent |-> agent[cell], loaded |-> busy,
                      spans |-> SpansSoFar(cell)]
  <2>1. PICK F \in Fails("read", {"pod", "rs", "cgStart", "jvmStart", "sinkStart"}) :
          /\ ev' = [ev EXCEPT ![cell].start = Start(F)]
          /\ seen' = [seen EXCEPT ![cell].open = Seen, ![cell].lost = @ \cup F]
    BY <1>3 DEF OpenWindow
  <2>2. SpansSoFar(cell) \in Nat
    BY DEF SpansSoFar, Expect
  <2>3. ev' \in [Cell -> Files]
    <3>1. Start(F) \in [pod : SUBSET Nat, rs : SUBSET Nat, cg : SUBSET {Snap}, jvm : SUBSET {0},
                        sink : SUBSET Nat]
      BY <1>0, <2>2
    <3> HIDE DEF Start
    <3>2. [ev[cell] EXCEPT !.start = Start(F)] \in Files
      BY <1>0, <3>1, FilesWrite
    <3> QED
      BY <1>0, <2>1, <3>2, PutFiles
  <2>4. seen' \in [Cell -> Truth]
    <3>0. busy \in BOOLEAN
      BY Zenon
    <3> HIDE DEF busy
    <3>1. Seen \in Sight /\ F \subseteq Evidences
      BY <3>0, <1>0, <1>01, <2>1, <2>2 DEF Sight, Fails, Evidences
    <3> HIDE DEF Seen
    <3>2. [seen[cell] EXCEPT !.open = Seen, !.lost = @ \cup F] \in Truth
      BY <1>0, <3>1 DEF Truth
    <3> QED
      BY <1>0, <2>1, <3>2, PutTruth
  <2> QED
    BY <1>0, <1>3, <2>3, <2>4, NextCellStep DEF OpenWindow, clusterVars, TypeOK
<1>4. ASSUME SnapMid PROVE TypeOK'
  <2> DEFINE mid(F) == IF F # {} \/ ev[cell].start.pod # {pod[cell]} THEN {} ELSE {Snap}
  <2>1. PICK F \in Fails("read", {"cgMid"}) :
          ev' = [ev EXCEPT ![cell].mid = mid(F)] /\ Lose(F)
    BY <1>4 DEF SnapMid
  <2>2. seen' \in [Cell -> Truth]
    BY <1>0, <2>1, LoseType DEF Fails, Evidences
  <2>3. ev' \in [Cell -> Files]
    <3>1. mid(F) \in SUBSET {Snap}
      OBVIOUS
    <3> HIDE DEF mid
    <3>2. [ev[cell] EXCEPT !.mid = mid(F)] \in Files
      BY <1>0, <3>1, FilesWrite
    <3> QED
      BY <1>0, <2>1, <3>2, PutFiles
  <2> QED
    BY <1>0, <1>4, <2>2, <2>3, NextCellStep DEF SnapMid, clusterVars, TypeOK
<1>5. ASSUME CloseWindow PROVE TypeOK'
  <2> DEFINE gone == ev[cell].start.pod # {pod[cell]}
             Read(F, f, v) == IF f \in F \/ (gone /\ f \in {"cgEnd", "re"}) THEN {} ELSE {v}
             End(F) == [pod |-> Read(F, "podEnd", pod[cell]), rs |-> Read(F, "re", restarts[cell]),
                        cg |-> Read(F, "cgEnd", Snap), jvm |-> Read(F, "jvmEnd", 0)]
             busy == job[cell] = "running"
             Seen(n) == [process |-> {Process(cell)}, agent |-> agent[cell], loaded |-> busy,
                         spans |-> seen[cell].open.spans + n]
  <2>1. PICK F \in Fails("read", {"cgEnd", "jvmEnd", "re", "podEnd"}),
              n \in Observed(seen[cell].open.agent, agent[cell]) :
          /\ ev' = [ev EXCEPT ![cell].end = End(F)]
          /\ seen' = [seen EXCEPT ![cell].close = Seen(n), ![cell].lost = @ \cup F]
    BY <1>5 DEF CloseWindow
  <2>2. ev' \in [Cell -> Files]
    <3>1. End(F) \in [pod : SUBSET Nat, rs : SUBSET Nat, cg : SUBSET {Snap}, jvm : SUBSET {0}]
      BY <1>0
    <3> HIDE DEF End
    <3>2. [ev[cell] EXCEPT !.end = End(F)] \in Files
      BY <1>0, <3>1, FilesWrite
    <3> QED
      BY <1>0, <2>1, <3>2, PutFiles
  <2>3. seen' \in [Cell -> Truth]
    <3>1. seen[cell].open.agent \in AgentState /\ seen[cell].open.spans \in Nat
      BY <1>0 DEF Truth, Sight
    <3>2. n \in Nat
      BY <1>0, <2>1, <3>1, SpansType
    <3>0. busy \in BOOLEAN
      BY Zenon
    <3> HIDE DEF busy
    <3>3. Seen(n) \in Sight /\ F \subseteq Evidences
      BY <3>0, <1>0, <1>01, <2>1, <3>1, <3>2 DEF Sight, Fails, Evidences
    <3> HIDE DEF Seen
    <3>4. [seen[cell] EXCEPT !.close = Seen(n), !.lost = @ \cup F] \in Truth
      BY <1>0, <3>3 DEF Truth
    <3> QED
      BY <1>0, <2>1, <3>4, PutTruth
  <2> QED
    BY <1>0, <1>5, <2>2, <2>3, NextCellStep DEF CloseWindow, clusterVars, TypeOK
<1>6. ASSUME SinkEnd PROVE TypeOK'
  <2> DEFINE spans(F) == IF "sinkEnd" \in F THEN {} ELSE {seen[cell].close.spans}
             completed(F) == "completed" \notin F /\ job[cell] = "succeeded"
  <2>1. PICK F \in Fails("read", {"sinkEnd", "completed"}) :
          ev' = [ev EXCEPT ![cell].sink = [spans |-> spans(F), completed |-> completed(F)]] /\ Lose(F)
    BY <1>6 DEF SinkEnd
  <2>2. seen' \in [Cell -> Truth]
    BY <1>0, <2>1, LoseType DEF Fails, Evidences
  <2>3. ev' \in [Cell -> Files]
    <3>1. spans(F) \in SUBSET Nat
      BY <1>0 DEF Truth, Sight
    <3>2. completed(F) \in BOOLEAN
      BY Zenon
    <3> HIDE DEF spans, completed
    <3>3. [ev[cell] EXCEPT !.sink = [spans |-> spans(F), completed |-> completed(F)]] \in Files
      BY <1>0, <3>1, <3>2, FilesWrite
    <3> QED
      BY <1>0, <2>1, <3>3, PutFiles
  <2> QED
    BY <1>0, <1>6, <2>2, <2>3, NextCellStep DEF SinkEnd, clusterVars, TypeOK
<1>7. ASSUME Collect PROVE TypeOK'
  <2> DEFINE k6(F) == IF F = {} /\ job[cell] \in {"succeeded", "failedLate"} THEN {K6Summary} ELSE {}
  <2>1. PICK F \in Fails("read", {"k6"}) : ev' = [ev EXCEPT ![cell].k6 = k6(F)] /\ Lose(F)
    BY <1>7 DEF Collect
  <2>2. seen' \in [Cell -> Truth]
    BY <1>0, <2>1, LoseType DEF Fails, Evidences
  <2>3. ev' \in [Cell -> Files]
    <3>1. k6(F) \in SUBSET {K6Summary}
      OBVIOUS
    <3> HIDE DEF k6
    <3>2. [ev[cell] EXCEPT !.k6 = k6(F)] \in Files
      BY <1>0, <3>1, FilesWrite
    <3> QED
      BY <1>0, <2>1, <3>2, PutFiles
  <2> QED
    BY <1>0, <1>7, <2>2, <2>3 DEF Collect, clusterVars, TypeOK
<1> QED
  BY <1>1, <1>2, <1>3, <1>4, <1>5, <1>6, <1>7

\* Judging, being killed, and what the cluster does on its own.
LEMMA RestTypeOK == TypeOK /\ (Judge \/ Kill \/ Cluster) => TypeOK'
<1> SUFFICES ASSUME TypeOK
             PROVE  Judge \/ Kill \/ Cluster => TypeOK'
  OBVIOUS
<1> USE DEF TypeOK, clusterVars, runnerVars
<1>0. JudgedRow(cell) \in Window
  BY RowType
<1>1. ASSUME Judge PROVE TypeOK'
  <2>1. rows' = [rows EXCEPT ![cell] = Append(@, JudgedRow(cell))]
    BY <1>1 DEF Judge
  <2>3. rows' \in [Cell -> Seq(Window)]
    BY <1>0, <2>1
  <2>4. /\ pc' \in {"collect", "sampling", "done"} /\ cell' \in Cell /\ idx' \in DOMAIN Arms
    <3>1. cell \in Int /\ 1 <= cell /\ 1 \in Cell /\ NCells \in Int /\ idx \in 1..Len(Arms)
      BY RunnerAssumption DEF Cell
    <3>2. CASE cell < NCells /\ pc' = "collect" /\ cell' = cell + 1 /\ idx' = idx
      BY <3>1, <3>2 DEF Cell
    <3>3. CASE cell = NCells /\ idx < Len(Arms) /\ pc' = "sampling" /\ cell' = 1 /\ idx' = idx + 1
      BY <3>1, <3>3, RunnerAssumption
    <3>4. CASE Goto("done")
      BY <3>4, GotoStep
    <3> QED
      BY <1>1, <3>2, <3>3, <3>4 DEF Judge
  <2> QED
    BY <1>1, <2>3, <2>4 DEF Judge
<1>2. ASSUME Kill PROVE TypeOK'
  <2>1. rows' \in [Cell -> Seq(Window)]
    <3> DEFINE w == JudgedRow(cell)
    <3>1. [w EXCEPT !.gate = "absent"] \in Window
      <4> HIDE DEF w
      <4>1. w \in Window
        BY <1>0 DEF w
      <4> QED
        BY <4>1 DEF Window
    <3>2. CASE pc # "judge"
      BY <1>2, <3>2 DEF Kill
    <3>3. CASE pc = "judge"
      <4>1. rows' = [rows EXCEPT ![cell] = Append(@, [w EXCEPT !.gate = "absent"])]
        BY <1>2, <3>3 DEF Kill
      <4> HIDE DEF w
      <4> QED
        BY <3>1, <4>1
    <3> QED
      BY <3>2, <3>3
  <2> QED
    BY <1>2, <2>1, GotoStep DEF Kill
<1>3. ASSUME NEW c \in Cell, Deliver(c) \/ Attach(c) \/ Disrupt(c) PROVE TypeOK'
  <2>1. CASE Deliver(c)
    <3>1. Desired(c) \in Arm
      BY DEF Desired, Arm
    <3> QED
      BY <2>1, <3>1 DEF Deliver
  <2>2. CASE Attach(c)
    BY <2>2 DEF Attach, AgentState, Arm, Off, Woven
  <2>3. CASE Disrupt(c)
    <3>1. pod' \in [Cell -> Nat] /\ restarts' \in [Cell -> Nat]
      <4>1. \/ restarts' = [restarts EXCEPT ![c] = @ + 1] /\ pod' = pod
            \/ pod' = [pod EXCEPT ![c] = @ + 1] /\ restarts' = [restarts EXCEPT ![c] = 0]
        BY <2>3 DEF Disrupt
      <4>2. pod[c] + 1 \in Nat /\ restarts[c] + 1 \in Nat
        OBVIOUS
      <4>3. CASE restarts' = [restarts EXCEPT ![c] = @ + 1] /\ pod' = pod
        BY <4>2, <4>3
      <4>4. CASE pod' = [pod EXCEPT ![c] = @ + 1] /\ restarts' = [restarts EXCEPT ![c] = 0]
        BY <4>2, <4>4
      <4> QED
        BY <4>1, <4>3, <4>4
    <3>2. agent' \in [Cell -> AgentState]
      BY <2>3 DEF Disrupt, AgentState, Arm, Off
    <3> QED
      BY <2>3, <3>1, <3>2 DEF Disrupt
  <2> QED
    BY <1>3, <2>1, <2>2, <2>3
<1>4. ASSUME NEW c \in Cell, JobStart(c) \/ JobEnd(c) \/ JobDies(c) PROVE TypeOK'
  BY <1>4 DEF JobStart, JobEnd, JobDies
<1> QED
  BY <1>1, <1>2, <1>3, <1>4 DEF Cluster

\* Every step keeps every variable in its type.
LEMMA NextTypeOK == TypeOK /\ [Next]_vars => TypeOK'
<1>1. TypeOK /\ UNCHANGED vars => TypeOK'
  BY DEF TypeOK, vars
<1> QED
  BY <1>1, ClusterWritesTypeOK, EvidenceTypeOK, RestTypeOK DEF Next, Runner

\* run.sh keeps its state well-formed, however many cells, arms and failures
\* there are.
THEOREM TypeCorrect == Spec => []TypeOK
  BY InitTypeOK, NextTypeOK, PTL DEF Spec

-----------------------------------------------------------------------------
\* The places of the runner from an arm's first job to its last window's close.
Loading == {"started", "warm", "open", "mid", "snapmid", "end", "close", "wait_all", "sink"}

-----------------------------------------------------------------------------
(***************************************************************************)
(* Jobs and data: an arm's jobs are gone before the next arm, and start    *)
(* only on verified data.                                                  *)
(***************************************************************************)

\* Collecting deletes the jobs of the cells in turn.
JobsInv ==
  /\ QuietWhileReconfiguring
  /\ pc = "collect" => \A c \in Cell : c < cell => job[c] = "none"
  /\ pc = "judge" => \A c \in Cell : c <= cell => job[c] = "none"

\* Resetting verifies the cells in turn, and a job uses up its own cell.
Fresh(d) == db[d] = "known" \/ (db[d] = "used" /\ job[d] # "none")

DbInv ==
  /\ LoadedFromKnownState
  /\ pc = "reset" => \A c \in Cell : c < cell => db[c] = "known"
  /\ pc = "capture" => \A c \in Cell : db[c] = "known"
  /\ pc = "launch" => \A c \in Cell : Fresh(c) /\ (c >= cell => job[c] = "none")
  /\ pc = "started" => \A c \in Cell : Fresh(c) /\ (c < cell => job[c] # "pending")
  /\ pc \in (Loading \ {"started"}) \cup {"collect", "judge"} => \A c \in Cell : job[c] # "pending"

PhaseInv == TypeOK /\ JobsInv /\ DbInv

LEMMA InitPhaseInv == Init => PhaseInv
  BY InitTypeOK DEF Init, PhaseInv, JobsInv, DbInv, QuietWhileReconfiguring,
     LoadedFromKnownState, Loading

\* A step that touches neither the jobs nor the data and moves between places
\* where neither part of the invariant says anything new.
LEMMA PhaseStutter ==
  ASSUME PhaseInv, job' = job, db' = db, cell' \in Cell,
         \/ pc' = pc /\ pc \notin {"reset", "launch", "started", "collect", "judge"}
         \/ pc' \in {"health", "ic"} /\ pc \in {"sampling", "restart", "health", "ic"}
         \/ pc' = "restart" /\ pc = "sampling"
         \/ pc' = "reset" /\ cell' = 1 /\ pc = "ic"
         \/ pc' \in {"fatal", "killed", "done"}
         \/ pc' \in Loading \ {"started"} /\ pc \in Loading \ {"started"}
         \/ pc' = "launch" /\ pc = "capture"
         \/ pc' = "collect" /\ cell' = 1 /\ pc = "sink"
  PROVE  JobsInv' /\ DbInv'
<1> USE DEF PhaseInv, Loading
<1>1. JobsInv'
  BY DEF JobsInv, QuietWhileReconfiguring, Cell
<1>2. LoadedFromKnownState'
  BY DEF DbInv, LoadedFromKnownState
<1>3. DbInv'
  BY <1>2 DEF JobsInv, QuietWhileReconfiguring, DbInv, Fresh, Cell
<1> QED
  BY <1>1, <1>3

LEMMA PhaseStep == PhaseInv /\ [Next]_vars => PhaseInv'
<1> SUFFICES ASSUME PhaseInv, [Next]_vars
             PROVE  JobsInv' /\ DbInv'
  BY NextTypeOK DEF PhaseInv
<1>0. /\ cell \in Cell /\ 1 \in Cell /\ \A c \in Cell : c \in Int /\ c <= NCells
      /\ job \in [Cell -> {"none", "pending", "running", "succeeded", "failed", "failedLate"}]
      /\ db \in [Cell -> {"unknown", "known", "used"}]
  BY RunnerAssumption DEF PhaseInv, TypeOK, Cell
<1>1. ASSUME SetSampling PROVE JobsInv' /\ DbInv'
  BY <1>1, GotoStep, PhaseStutter DEF SetSampling
<1>2. ASSUME ResetAndRestart PROVE JobsInv' /\ DbInv'
  BY <1>2, GotoStep DEF ResetAndRestart, PhaseInv, JobsInv, DbInv, QuietWhileReconfiguring,
     LoadedFromKnownState, Loading
<1>3. ASSUME WaitHealthy \/ WaitIc PROVE JobsInv' /\ DbInv'
  BY <1>0, <1>3, NextCellStep, GotoStep, PhaseStutter DEF WaitHealthy, WaitIc, Fatal, clusterVars
<1>4. ASSUME AdminReset PROVE JobsInv' /\ DbInv'
  <2>1. PICK code \in {200, 500} :
          /\ ev' = [ev EXCEPT ![cell].reset = {code}]
          /\ db' = [db EXCEPT ![cell] = IF code = 200 THEN "known" ELSE @]
          /\ IF code = 200 THEN NextCell("capture") ELSE Fatal
    BY <1>4 DEF AdminReset
  <2>2. pc = "reset" /\ job' = job
    BY <1>4 DEF AdminReset
  <2>3. \A c \in Cell : job[c] = "none"
    BY <2>2 DEF PhaseInv, JobsInv, QuietWhileReconfiguring
  <2>4. CASE code = 200
    BY <1>0, <2>1, <2>2, <2>3, <2>4, NextCellStep
       DEF PhaseInv, JobsInv, DbInv, QuietWhileReconfiguring, LoadedFromKnownState, Loading, Cell
  <2>5. CASE code # 200
    BY <1>0, <2>1, <2>2, <2>3, <2>5, GotoStep
       DEF Fatal, PhaseInv, JobsInv, DbInv, QuietWhileReconfiguring, LoadedFromKnownState, Loading
  <2> QED
    BY <2>4, <2>5
<1>5. ASSUME Capture PROVE JobsInv' /\ DbInv'
  BY <1>0, <1>5, NextCellStep, PhaseStutter DEF Capture, clusterVars
<1>6. ASSUME Launch PROVE JobsInv' /\ DbInv'
  <2>1. pc = "launch" /\ db' = db
        /\ \A c \in Cell : Fresh(c) /\ (c >= cell => job[c] = "none")
    BY <1>6 DEF Launch, clusterVars, PhaseInv, DbInv
  <2>2. \/ job' = [job EXCEPT ![cell] = "pending"] /\ NextCell("started")
        \/ job' = [job EXCEPT ![cell] = "none"] /\ pc' = "fatal"
    BY <1>6 DEF Launch, Fatal, Goto
  <2>3. CASE job' = [job EXCEPT ![cell] = "pending"] /\ NextCell("started")
    <3>1. /\ cell' \in Cell
          /\ \/ pc' = "launch" /\ cell' = cell + 1
             \/ pc' = "started" /\ cell' = 1
      BY <1>0, <2>1, <2>3, NextCellStep
    <3>2. \A c \in Cell : Fresh(c)'
      BY <1>0, <2>1, <2>3 DEF Fresh
    <3>3. pc' = "launch" => \A c \in Cell : c >= cell' => job'[c] = "none"
      BY <1>0, <2>1, <2>3, <3>1 DEF Cell
    <3> QED
      BY <1>0, <3>1, <3>2, <3>3
         DEF JobsInv, DbInv, QuietWhileReconfiguring, LoadedFromKnownState, Fresh, Loading, Cell
  <2>4. CASE job' = [job EXCEPT ![cell] = "none"] /\ pc' = "fatal"
    <3>1. job' = job
      BY <1>0, <2>1, <2>4 DEF Cell
    <3> QED
      BY <2>1, <2>4, <3>1
         DEF JobsInv, DbInv, QuietWhileReconfiguring, LoadedFromKnownState, Fresh, Loading
  <2> QED
    BY <2>2, <2>3, <2>4
<1>7. ASSUME AwaitStart PROVE JobsInv' /\ DbInv'
  <2>1. pc = "started" /\ job' = job /\ db' = db
        /\ \A c \in Cell : Fresh(c) /\ (c < cell => job[c] # "pending")
    BY <1>7 DEF AwaitStart, clusterVars, PhaseInv, DbInv
  <2>2. CASE job[cell] = "running" /\ NextCell("warm")
    <3>1. \/ pc' = "started" /\ cell' = cell + 1
          \/ pc' = "warm" /\ cell = NCells
      BY <1>0, <2>1, <2>2, NextCellStep
    <3> QED
      BY <1>0, <2>1, <2>2, <3>1
         DEF JobsInv, DbInv, QuietWhileReconfiguring, LoadedFromKnownState, Fresh, Loading, Cell
  <2>3. CASE Fatal
    BY <2>1, <2>3 DEF Fatal, Goto, PhaseInv, JobsInv, DbInv, QuietWhileReconfiguring,
       LoadedFromKnownState, Loading
  <2> QED
    BY <1>7, <2>2, <2>3 DEF AwaitStart
<1>16. ASSUME SleepUntil PROVE JobsInv' /\ DbInv'
  BY <1>0, <1>16, GotoStep, PhaseStutter DEF SleepUntil, Fatal, clusterVars, Loading
<1>8. ASSUME OpenWindow \/ SnapMid \/ CloseWindow PROVE JobsInv' /\ DbInv'
  BY <1>0, <1>8, NextCellStep, PhaseStutter DEF OpenWindow, SnapMid, CloseWindow, clusterVars, Loading
<1>9. ASSUME WaitAll \/ SinkEnd PROVE JobsInv' /\ DbInv'
  BY <1>0, <1>9, NextCellStep, GotoStep, PhaseStutter DEF WaitAll, SinkEnd, clusterVars, Loading
<1>10. ASSUME Collect PROVE JobsInv' /\ DbInv'
  <2>1. pc = "collect" /\ pc' = "judge" /\ cell' = cell /\ db' = db
        /\ job' = [job EXCEPT ![cell] = "none"]
    BY <1>10 DEF Collect, clusterVars
  <2>2. \A c \in Cell : c <= cell => job'[c] = "none"
    BY <1>0, <2>1 DEF PhaseInv, JobsInv, Cell
  <2>3. \A c \in Cell : job'[c] # "pending"
    BY <1>0, <2>1 DEF PhaseInv, DbInv, Loading
  <2> QED
    BY <2>1, <2>2, <2>3 DEF JobsInv, DbInv, QuietWhileReconfiguring, LoadedFromKnownState, Loading
<1>11. ASSUME Judge PROVE JobsInv' /\ DbInv'
  <2>1. pc = "judge" /\ job' = job /\ db' = db
    BY <1>11 DEF Judge, clusterVars
  <2>2. \/ pc' = "collect" /\ cell' = cell + 1
        \/ pc' \in {"sampling", "done"} /\ cell = NCells
    BY <1>11, GotoStep DEF Judge
  <2> QED
    BY <1>0, <2>1, <2>2
       DEF PhaseInv, JobsInv, DbInv, QuietWhileReconfiguring, LoadedFromKnownState, Loading, Cell
<1>12. ASSUME Kill PROVE JobsInv' /\ DbInv'
  BY <1>12, GotoStep, PhaseStutter DEF Kill, clusterVars
<1>13. ASSUME NEW c \in Cell, Deliver(c) \/ Attach(c) \/ Disrupt(c) PROVE JobsInv' /\ DbInv'
  <2>1. job' = job /\ db' = db /\ pc' = pc /\ cell' = cell
    BY <1>13 DEF Deliver, Attach, Disrupt, runnerVars
  <2> QED
    BY <2>1 DEF PhaseInv, JobsInv, DbInv, QuietWhileReconfiguring, LoadedFromKnownState, Fresh
<1>14. ASSUME NEW c \in Cell, JobStart(c) \/ JobEnd(c) \/ JobDies(c) PROVE JobsInv' /\ DbInv'
  <2>1. /\ pc' = pc /\ cell' = cell
        /\ job[c] # "none" /\ job'[c] \notin {"none", "pending"}
        /\ \A d \in Cell \ {c} : job'[d] = job[d] /\ db'[d] = db[d]
        /\ db'[c] = db[c] \/ (db'[c] = "used" /\ job[c] = "pending")
    BY <1>0, <1>14 DEF JobStart, JobEnd, JobDies, runnerVars
  <2>2. JobsInv'
    BY <2>1 DEF PhaseInv, JobsInv, QuietWhileReconfiguring
  <2>3. \A d \in Cell : Fresh(d) => Fresh(d)'
    BY <2>1 DEF Fresh
  <2>4. LoadedFromKnownState'
    BY <2>1, <2>3 DEF PhaseInv, DbInv, LoadedFromKnownState, Fresh
  <2>5. pc \notin {"reset", "capture"}
    BY <2>1 DEF PhaseInv, JobsInv, QuietWhileReconfiguring
  <2> QED
    BY <1>0, <2>1, <2>2, <2>3, <2>4, <2>5 DEF PhaseInv, DbInv
<1>15. CASE UNCHANGED vars
  BY <1>15 DEF vars, PhaseInv, JobsInv, DbInv, QuietWhileReconfiguring, LoadedFromKnownState, Fresh
<1> QED
  BY <1>1, <1>2, <1>3, <1>4, <1>5, <1>6, <1>7, <1>8, <1>9, <1>10, <1>11, <1>12, <1>13, <1>14,
     <1>15, <1>16 DEF Next, Runner, Cluster

LEMMA PhaseInvariant == Spec => []PhaseInv
  BY InitPhaseInv, PhaseStep, PTL DEF Spec

\* No job of an arm survives into the next arm's reconfiguration, however many
\* cells are loaded and whatever dies.
THEOREM ArmsDoNotOverlap == Spec => []QuietWhileReconfiguring
<1>1. PhaseInv => QuietWhileReconfiguring
  BY DEF PhaseInv, JobsInv
<1> QED
  BY <1>1, PhaseInvariant, PTL

\* No cell is loaded before the data of every cell was verified.
THEOREM LoadFollowsReset == Spec => []LoadedFromKnownState
<1>1. PhaseInv => LoadedFromKnownState
  BY DEF PhaseInv, DbInv
<1> QED
  BY <1>1, PhaseInvariant, PTL

-----------------------------------------------------------------------------
(***************************************************************************)
(* Lockstep: how many windows of each cell have been judged.               *)
(***************************************************************************)

RowsInv ==
  /\ pc \notin {"collect", "judge", "done", "killed"} =>
       \A c \in Cell : Len(rows[c]) = idx - 1
  /\ pc \in {"collect", "judge"} =>
       \A c \in Cell : Len(rows[c]) = IF c < cell THEN idx ELSE idx - 1
  /\ pc \in {"done", "killed"} => \A c \in Cell : Len(rows[c]) \in {idx - 1, idx}

LEMMA InitRowsInv == Init => RowsInv
  BY DEF Init, RowsInv

\* Appending a window to one cell's rows.
LEMMA OneMoreRow ==
  ASSUME TypeOK, NEW w, rows' = [rows EXCEPT ![cell] = Append(@, w)]
  PROVE  /\ Len(rows'[cell]) = Len(rows[cell]) + 1
         /\ \A c \in Cell \ {cell} : rows'[c] = rows[c]
<1>1. cell \in Cell /\ rows \in [Cell -> Seq(Window)] /\ rows[cell] \in Seq(Window)
  BY DEF TypeOK
<1>2. rows'[cell] = Append(rows[cell], w)
  BY <1>1
<1>3. Len(Append(rows[cell], w)) = Len(rows[cell]) + 1
  BY <1>1
<1> QED
  BY <1>1, <1>2, <1>3

LEMMA RowsStep == TypeOK /\ RowsInv /\ [Next]_vars => RowsInv'
<1> SUFFICES ASSUME TypeOK, RowsInv, [Next]_vars
             PROVE  RowsInv'
  OBVIOUS
<1>0. /\ cell \in Cell /\ 1 \in Cell /\ \A c \in Cell : c \in Int /\ 1 <= c /\ c <= NCells
      /\ idx \in Nat /\ NCells \in Nat
  BY RunnerAssumption DEF TypeOK, Cell
<1>1. ASSUME SetSampling \/ ResetAndRestart \/ WaitHealthy \/ WaitIc \/ AdminReset \/ Capture
             \/ Launch \/ AwaitStart \/ SleepUntil \/ OpenWindow \/ SnapMid \/ CloseWindow
             \/ WaitAll \/ SinkEnd
      PROVE  RowsInv'
  <2>1. rows' = rows /\ idx' = idx /\ pc \notin {"collect", "judge", "done", "killed"}
    BY <1>1, NextCellStep, GotoStep, <1>0
       DEF SetSampling, ResetAndRestart, WaitHealthy, WaitIc, AdminReset, Capture, Launch,
           AwaitStart, SleepUntil, OpenWindow, SnapMid, CloseWindow, WaitAll, SinkEnd, Fatal
  <2>2. pc' \notin {"judge", "done", "killed"} /\ (pc' = "collect" => cell' = 1)
    BY <1>1, NextCellStep, GotoStep, <1>0
       DEF SetSampling, ResetAndRestart, WaitHealthy, WaitIc, AdminReset, Capture, Launch,
           AwaitStart, SleepUntil, OpenWindow, SnapMid, CloseWindow, WaitAll, SinkEnd, Fatal
  <2> QED
    BY <1>0, <2>1, <2>2 DEF RowsInv
<1>2. ASSUME Collect PROVE RowsInv'
  BY <1>2 DEF Collect, RowsInv
<1>3. ASSUME Judge PROVE RowsInv'
  <2>1. pc = "judge" /\ rows' = [rows EXCEPT ![cell] = Append(@, JudgedRow(cell))]
    BY <1>3 DEF Judge
  <2>2. \A c \in Cell : Len(rows'[c]) = IF c <= cell THEN idx ELSE idx - 1
    <3>1. /\ Len(rows'[cell]) = Len(rows[cell]) + 1
          /\ \A c \in Cell \ {cell} : rows'[c] = rows[c]
      BY <2>1, OneMoreRow
    <3> QED
      BY <1>0, <2>1, <3>1 DEF RowsInv
  <2>3. CASE cell < NCells /\ pc' = "collect" /\ cell' = cell + 1 /\ idx' = idx
    BY <1>0, <2>2, <2>3 DEF RowsInv
  <2>4. CASE cell = NCells /\ pc' = "sampling" /\ idx' = idx + 1
    BY <1>0, <2>2, <2>4 DEF RowsInv
  <2>5. CASE cell = NCells /\ Goto("done")
    BY <1>0, <2>2, <2>5, GotoStep DEF RowsInv
  <2> QED
    BY <1>3, <2>3, <2>4, <2>5 DEF Judge
<1>4. ASSUME Kill PROVE RowsInv'
  <2>1. pc' = "killed" /\ idx' = idx /\ ~Over
    BY <1>4, GotoStep DEF Kill
  <2>2. CASE pc # "judge"
    BY <1>0, <1>4, <2>1, <2>2 DEF Kill, RowsInv, Over
  <2>3. CASE pc = "judge"
    <3> DEFINE w == [JudgedRow(cell) EXCEPT !.gate = "absent"]
    <3>1. rows' = [rows EXCEPT ![cell] = Append(@, w)]
      BY <1>4, <2>3 DEF Kill
    <3> HIDE DEF w
    <3>2. /\ Len(rows'[cell]) = Len(rows[cell]) + 1
          /\ \A c \in Cell \ {cell} : rows'[c] = rows[c]
      BY <3>1, OneMoreRow
    <3> QED
      BY <1>0, <2>1, <2>3, <3>2 DEF RowsInv
  <2> QED
    BY <2>2, <2>3
<1>5. ASSUME NEW c \in Cell, Deliver(c) \/ Attach(c) \/ Disrupt(c) \/ JobStart(c) \/ JobEnd(c)
                             \/ JobDies(c)
      PROVE  RowsInv'
  BY <1>5 DEF Deliver, Attach, Disrupt, JobStart, JobEnd, JobDies, runnerVars, RowsInv
<1>6. CASE UNCHANGED vars
  BY <1>6 DEF vars, RowsInv
<1> QED
  BY <1>1, <1>2, <1>3, <1>4, <1>5, <1>6 DEF Next, Runner, Cluster

\* However many cells and arms there are and however the run ends, no cell is
\* more than one window ahead of another.
THEOREM CellsInLockstep == Spec => []Lockstep
<1>1. TypeOK /\ RowsInv => Lockstep
  <2> SUFFICES ASSUME TypeOK, RowsInv, NEW c \in Cell, NEW d \in Cell
               PROVE  /\ Len(rows[c]) - Len(rows[d]) \in {-1, 0, 1}
                      /\ pc \notin {"collect", "judge", "done", "killed"} => Len(rows[c]) = idx - 1
    BY DEF Lockstep
  <2>1. idx \in Nat /\ Len(rows[c]) \in {idx - 1, idx} /\ Len(rows[d]) \in {idx - 1, idx}
    <3>1. idx \in Nat
      <4>1. idx \in DOMAIN Arms /\ Arms \in Seq(Arm)
        BY RunnerAssumption DEF TypeOK
      <4> QED
        BY <4>1
    <3>2. \A b \in Cell : Len(rows[b]) \in {idx - 1, idx}
      BY DEF RowsInv
    <3> QED
      BY <3>1, <3>2
  <2> QED
    BY <2>1 DEF RowsInv
<1>2. Spec => [](TypeOK /\ RowsInv)
  BY InitTypeOK, InitRowsInv, NextTypeOK, RowsStep, PTL DEF Spec
<1> QED
  BY <1>1, <1>2, PTL

-----------------------------------------------------------------------------
(***************************************************************************)
(* One process per accepted window.                                        *)
(***************************************************************************)

\* A restart count on file belongs to the process the window opened on, and
\* was read from the pod on file.
OpenRecorded(c) ==
  ev[c].start.rs # {} => seen[c].open.process = ev[c].start.pod \X ev[c].start.rs

\* The count of the end was read from the same pod, or not at all.
CloseRecorded(c) ==
  ev[c].end.rs # {} => seen[c].close.process = ev[c].start.pod \X ev[c].end.rs

\* Until windows close there is no count of the end: a start snapshot never
\* replaces the pod an end snapshot was taken on.
NotClosedYet ==
  pc \in {"restart", "health", "ic", "reset", "capture", "launch", "started", "warm", "open",
          "mid", "snapmid", "end"} =>
    \A c \in Cell : ev[c].end.rs = {}

ProcessInv ==
  /\ \A c \in Cell : OpenRecorded(c) /\ CloseRecorded(c)
  /\ NotClosedYet
  /\ AcceptedOneProcess

\* One pod and one of its restart counts make one process.
LEMMA OneProcess == \A p, r : {<<p, r>>} = {p} \X {r}
  OBVIOUS

\* What an accepting verdict says about meta.json.
LEMMA AcceptedMeta ==
  ASSUME NEW e, NEW a, NEW x, GateJson(e, a, x) = "accepted"
  PROVE  e.garbled = {} /\ ~MetaRules(e.meta).restarted
<1>1. e.garbled = {} /\ e.k6 # {} /\ Reasons(e, a, x) = {}
  BY DEF GateJson
<1>2. PICK k \in e.k6 : TRUE
  BY <1>1
<1>3. StrictReasons(k, e, a, x) = {}
  BY <1>1, <1>2 DEF Reasons
<1>4. Fired(MetaRules(e.meta)) = {}
  BY <1>3 DEF StrictReasons
<1>5. "restarted" \in DOMAIN MetaRules(e.meta)
  BY DEF MetaRules
<1> QED
  BY <1>1, <1>4, <1>5 DEF Fired

\* The verdict and the two records together.
LEMMA JudgedInOneProcess ==
  ASSUME NEW c \in Cell, OpenRecorded(c), CloseRecorded(c), JudgedRow(c).gate = "accepted"
  PROVE  JudgedRow(c).opened = JudgedRow(c).closed
<1> DEFINE e == Evidence(c)
<1>1. GateJson(e, arm, Expect) = "accepted"
  BY DEF JudgedRow, Row
<1>2. e.garbled = {} /\ ~MetaRules(e.meta).restarted
  BY <1>1, AcceptedMeta
<1>3. ev[c].start.rs # {} /\ ev[c].end.rs # {}
  BY <1>2 DEF Evidence
<1>4. \A b \in ev[c].start.rs, d \in ev[c].end.rs : b = d
  BY <1>2 DEF Evidence, MetaRules
<1>5. ev[c].start.rs = ev[c].end.rs
  <2>1. PICK a \in ev[c].start.rs, b \in ev[c].end.rs : TRUE
    BY <1>3
  <2>2. \A x : x \in ev[c].start.rs <=> x \in ev[c].end.rs
    BY <1>4, <2>1
  <2> QED
    BY <2>2
<1>6. seen[c].open.process = seen[c].close.process
  BY <1>3, <1>5 DEF OpenRecorded, CloseRecorded
<1> QED
  BY <1>6 DEF JudgedRow, Row

\* A window nobody accepted adds nothing to what must hold.
LEMMA AppendedRow ==
  ASSUME TypeOK, AcceptedOneProcess, NEW w,
         rows' = [rows EXCEPT ![cell] = Append(@, w)],
         w.gate = "accepted" => w.opened = w.closed
  PROVE  AcceptedOneProcess'
<1> SUFFICES ASSUME NEW c \in Cell, NEW n \in DOMAIN rows'[c], rows'[c][n].gate = "accepted"
             PROVE  rows'[c][n].opened = rows'[c][n].closed
  BY DEF AcceptedOneProcess, Accepted, Windows
<1>1. cell \in Cell /\ rows \in [Cell -> Seq(Window)] /\ rows[cell] \in Seq(Window)
  BY DEF TypeOK
<1>2. \A m \in DOMAIN rows[c] : rows[c][m].gate = "accepted" => rows[c][m].opened = rows[c][m].closed
  BY DEF AcceptedOneProcess, Accepted, Windows
<1>3. CASE c # cell
  BY <1>1, <1>2, <1>3
<1>4. CASE c = cell
  <2>1. rows'[c] = Append(rows[c], w)
    BY <1>1, <1>4
  <2>2. \/ n \in DOMAIN rows[c] /\ rows'[c][n] = rows[c][n]
        \/ rows'[c][n] = w
    BY <1>1, <1>4, <2>1
  <2> QED
    BY <1>2, <2>2
<1> QED
  BY <1>3, <1>4

LEMMA InitProcessInv == Init => ProcessInv
  BY DEF Init, ProcessInv, OpenRecorded, CloseRecorded, NotClosedYet, AcceptedOneProcess,
     Accepted, Windows, NoFiles, Unseen

\* A step that leaves the restart counts, the pod, the processes and the rows
\* alone, and does not come back before the close.
LEMMA ProcessStutter ==
  ASSUME ProcessInv, rows' = rows,
         \A c \in Cell : /\ ev'[c].start = ev[c].start /\ ev'[c].end = ev[c].end
                         /\ seen'[c].open = seen[c].open /\ seen'[c].close = seen[c].close,
         pc' \in {"restart", "health", "ic", "reset", "capture", "launch", "started", "warm",
                  "open", "mid", "snapmid", "end"} =>
           pc \in {"restart", "health", "ic", "reset", "capture", "launch", "started", "warm",
                   "open", "mid", "snapmid", "end"}
  PROVE  ProcessInv'
<1>1. \A c \in Cell : OpenRecorded(c)' /\ CloseRecorded(c)'
  BY DEF ProcessInv, OpenRecorded, CloseRecorded
<1>2. NotClosedYet'
  BY DEF ProcessInv, NotClosedYet
<1>3. AcceptedOneProcess'
  BY DEF ProcessInv, AcceptedOneProcess, Accepted, Windows
<1> QED
  BY <1>1, <1>2, <1>3 DEF ProcessInv

\* The same, read off a step that touches one cell's other files.
LEMMA OtherFiles ==
  ASSUME TypeOK, NEW e, NEW t, ev' = [ev EXCEPT ![cell] = e], seen' = [seen EXCEPT ![cell] = t],
         e.start = ev[cell].start, e.end = ev[cell].end,
         t.open = seen[cell].open, t.close = seen[cell].close
  PROVE  \A c \in Cell : /\ ev'[c].start = ev[c].start /\ ev'[c].end = ev[c].end
                         /\ seen'[c].open = seen[c].open /\ seen'[c].close = seen[c].close
<1>1. cell \in Cell /\ ev \in [Cell -> Files] /\ seen \in [Cell -> Truth]
  BY DEF TypeOK
<1>2. \A c \in Cell : \/ c = cell /\ ev'[c] = e /\ seen'[c] = t
                      \/ c # cell /\ ev'[c] = ev[c] /\ seen'[c] = seen[c]
  BY <1>1
<1> QED
  BY <1>2

LEMMA ProcessStep == TypeOK /\ ProcessInv /\ [Next]_vars => ProcessInv'
<1> SUFFICES ASSUME TypeOK, ProcessInv, [Next]_vars
             PROVE  ProcessInv'
  OBVIOUS
<1>00. 1 \in Cell
  BY RunnerAssumption DEF Cell
<1>0. /\ cell \in Cell /\ 1 \in Cell
      /\ ev \in [Cell -> Files] /\ seen \in [Cell -> Truth]
      /\ ev[cell] \in Files /\ seen[cell] \in Truth
  BY <1>00 DEF TypeOK
<1>1. ASSUME SetSampling PROVE ProcessInv'
  <2>1. rows' = rows /\ \A c \in Cell : ev'[c] = NoFiles /\ seen'[c] = Unseen
    BY <1>1 DEF SetSampling
  <2> QED
    BY <2>1 DEF ProcessInv, OpenRecorded, CloseRecorded, NotClosedYet, AcceptedOneProcess,
       Accepted, Windows, NoFiles, Unseen
<1>2. ASSUME ResetAndRestart \/ WaitHealthy \/ WaitIc \/ Launch \/ AwaitStart \/ SleepUntil \/ WaitAll
      PROVE  ProcessInv'
  <2>1. rows' = rows /\ ev' = ev /\ seen' = seen
    BY <1>2 DEF ResetAndRestart, WaitHealthy, WaitIc, Launch, AwaitStart, SleepUntil, WaitAll
  <2>2. \/ pc \in {"restart", "health", "ic", "launch", "started", "warm", "mid", "end"}
        \/ pc' = "sink"
    BY <1>2, GotoStep
       DEF ResetAndRestart, WaitHealthy, WaitIc, Launch, AwaitStart, SleepUntil, WaitAll
  <2> QED
    BY <2>1, <2>2, ProcessStutter
<1>3. ASSUME AdminReset PROVE ProcessInv'
  <2>1. PICK code \in {200, 500} :
          /\ ev' = [ev EXCEPT ![cell].reset = {code}]
          /\ db' = [db EXCEPT ![cell] = IF code = 200 THEN "known" ELSE @]
          /\ IF code = 200 THEN NextCell("capture") ELSE Fatal
    BY <1>3, Zenon DEF AdminReset
  <2>2. \A c \in Cell : ev'[c].start = ev[c].start /\ ev'[c].end = ev[c].end
    BY <1>0, <2>1 DEF Files
  <2>3. pc = "reset" /\ rows' = rows /\ seen' = seen
    BY <1>3 DEF AdminReset
  <2> QED
    BY <2>2, <2>3, ProcessStutter
<1>4. ASSUME Capture \/ SnapMid \/ SinkEnd \/ Collect PROVE ProcessInv'
  <2>1. rows' = rows
    BY <1>4 DEF Capture, SnapMid, SinkEnd, Collect
  <2>2. PICK F : seen' = [seen EXCEPT ![cell].lost = @ \cup F]
    BY <1>4, Zenon DEF Capture, SnapMid, SinkEnd, Collect, Lose
  <2>3. \A c \in Cell : seen'[c].open = seen[c].open /\ seen'[c].close = seen[c].close
    BY <1>0, <2>2 DEF Truth
  <2>4. PICK v : \/ ev' = [ev EXCEPT ![cell].ic = v]
                 \/ ev' = [ev EXCEPT ![cell].mid = v]
                 \/ ev' = [ev EXCEPT ![cell].sink = v]
                 \/ ev' = [ev EXCEPT ![cell].k6 = v]
    BY <1>4, Zenon DEF Capture, SnapMid, SinkEnd, Collect
  <2>5. \A c \in Cell : ev'[c].start = ev[c].start /\ ev'[c].end = ev[c].end
    <3>1. CASE ev' = [ev EXCEPT ![cell].ic = v]
      BY <1>0, <3>1 DEF Files
    <3>2. CASE ev' = [ev EXCEPT ![cell].mid = v]
      BY <1>0, <3>2 DEF Files
    <3>3. CASE ev' = [ev EXCEPT ![cell].sink = v]
      BY <1>0, <3>3 DEF Files
    <3>4. CASE ev' = [ev EXCEPT ![cell].k6 = v]
      BY <1>0, <3>4 DEF Files
    <3> QED
      BY <2>4, <3>1, <3>2, <3>3, <3>4
  <2>6. pc \in {"capture", "snapmid"} \/ pc' \in {"sink", "collect", "judge"}
    BY <1>0, <1>4, NextCellStep DEF Capture, SnapMid, SinkEnd, Collect
  <2> QED
    BY <2>1, <2>3, <2>5, <2>6, ProcessStutter
<1>5. ASSUME OpenWindow PROVE ProcessInv'
  <2>1. PICK F, v, spans :
          LET Read(f, x) == IF f \in F \/ (f \in {"rs", "cgStart"} /\ "pod" \in F) THEN {} ELSE {x} IN
          /\ ev' = [ev EXCEPT ![cell].start =
                     [pod |-> Read("pod", pod[cell]), rs |-> Read("rs", restarts[cell]),
                      cg |-> Read("cgStart", Snap), jvm |-> Read("jvmStart", 0),
                      sink |-> Read("sinkStart", spans)]]
          /\ seen' = [seen EXCEPT ![cell].open = [process |-> {Process(cell)},
                                                 agent |-> agent[cell],
                                                 loaded |-> job[cell] = "running", spans |-> spans],
                                 ![cell].lost = @ \cup F]
    BY <1>5 DEF OpenWindow
  <2>2. pc = "open" /\ pc' \in {"open", "mid"} /\ rows' = rows
    BY <1>0, <1>5, NextCellStep DEF OpenWindow
  <2>3. /\ ev'[cell].start.rs = IF "rs" \in F \/ "pod" \in F THEN {} ELSE {restarts[cell]}
        /\ ev'[cell].start.pod = IF "pod" \in F THEN {} ELSE {pod[cell]}
        /\ ev'[cell].end = ev[cell].end
        /\ \A c \in Cell \ {cell} : ev'[c] = ev[c]
    BY <1>0, <2>1 DEF Files
  <2>4. /\ seen'[cell].open.process = {<<pod[cell], restarts[cell]>>}
        /\ seen'[cell].close = seen[cell].close
        /\ \A c \in Cell \ {cell} : seen'[c] = seen[c]
    BY <1>0, <2>1 DEF Truth, Process
  <2>5. \A c \in Cell : ev[c].end.rs = {}
    BY <2>2 DEF ProcessInv, NotClosedYet
  <2>6. \A c \in Cell : OpenRecorded(c)'
    <3>1. ASSUME NEW c \in Cell, c = cell PROVE OpenRecorded(c)'
      BY <3>1, <2>3, <2>4, OneProcess DEF OpenRecorded
    <3>2. \A c \in Cell \ {cell} : OpenRecorded(c)'
      BY <2>3, <2>4 DEF ProcessInv, OpenRecorded
    <3> QED
      BY <3>1, <3>2
  <2>7. \A c \in Cell : ev'[c].end.rs = {}
    BY <2>3, <2>5
  <2>8. AcceptedOneProcess'
    BY <2>2 DEF ProcessInv, AcceptedOneProcess, Accepted, Windows
  <2> QED
    BY <2>6, <2>7, <2>8 DEF ProcessInv, CloseRecorded, NotClosedYet
<1>6. ASSUME CloseWindow PROVE ProcessInv'
  <2> DEFINE gone == ev[cell].start.pod # {pod[cell]}
  <2>1. PICK F, spans :
          LET Read(f, v) == IF f \in F \/ (gone /\ f \in {"cgEnd", "re"}) THEN {} ELSE {v} IN
          /\ ev' = [ev EXCEPT ![cell].end =
                     [pod |-> Read("podEnd", pod[cell]), rs |-> Read("re", restarts[cell]),
                      cg |-> Read("cgEnd", Snap), jvm |-> Read("jvmEnd", 0)]]
          /\ seen' = [seen EXCEPT ![cell].close = [process |-> {Process(cell)}, agent |-> agent[cell],
                                                  loaded |-> job[cell] = "running",
                                                  spans |-> spans],
                                 ![cell].lost = @ \cup F]
    BY <1>6 DEF CloseWindow
  <2>2. pc = "close" /\ pc' \in {"close", "wait_all"} /\ rows' = rows
    BY <1>0, <1>6, NextCellStep DEF CloseWindow
  <2>3. /\ ev'[cell].end.rs = IF "re" \in F \/ gone THEN {} ELSE {restarts[cell]}
        /\ ev'[cell].start = ev[cell].start
        /\ \A c \in Cell \ {cell} : ev'[c] = ev[c]
    BY <1>0, <2>1 DEF Files
  <2>4. /\ seen'[cell].close.process = {<<pod[cell], restarts[cell]>>}
        /\ seen'[cell].open = seen[cell].open
        /\ \A c \in Cell \ {cell} : seen'[c] = seen[c]
    BY <1>0, <2>1 DEF Truth, Process
  <2>5. \A c \in Cell : OpenRecorded(c)' /\ CloseRecorded(c)'
    <3>1. ASSUME NEW c \in Cell, c = cell PROVE CloseRecorded(c)'
      BY <3>1, <2>3, <2>4, OneProcess DEF CloseRecorded
    <3>2. ASSUME NEW c \in Cell, c = cell PROVE OpenRecorded(c)'
      BY <1>0, <3>2, <2>3, <2>4 DEF ProcessInv, OpenRecorded
    <3>3. \A c \in Cell \ {cell} : OpenRecorded(c)' /\ CloseRecorded(c)'
      BY <2>3, <2>4 DEF ProcessInv, OpenRecorded, CloseRecorded
    <3> QED
      BY <3>1, <3>2, <3>3
  <2>6. AcceptedOneProcess'
    BY <2>2 DEF ProcessInv, AcceptedOneProcess, Accepted, Windows
  <2> QED
    BY <2>2, <2>5, <2>6 DEF ProcessInv, NotClosedYet
<1>7. ASSUME Judge PROVE ProcessInv'
  <2>1. /\ rows' = [rows EXCEPT ![cell] = Append(@, JudgedRow(cell))]
        /\ ev' = ev /\ seen' = seen /\ pc' \in {"collect", "sampling", "done"}
    BY <1>7, GotoStep DEF Judge
  <2>2. JudgedRow(cell).gate = "accepted" => JudgedRow(cell).opened = JudgedRow(cell).closed
    BY <1>0, JudgedInOneProcess DEF ProcessInv
  <2>3. AcceptedOneProcess'
    BY <2>1, <2>2, AppendedRow DEF ProcessInv
  <2> QED
    BY <2>1, <2>3 DEF ProcessInv, OpenRecorded, CloseRecorded, NotClosedYet
<1>8. ASSUME Kill PROVE ProcessInv'
  <2>1. ev' = ev /\ seen' = seen /\ pc' = "killed"
    BY <1>8, GotoStep DEF Kill
  <2>2. AcceptedOneProcess'
    <3>1. CASE pc # "judge"
      BY <1>8, <3>1 DEF Kill, ProcessInv, AcceptedOneProcess, Accepted, Windows
    <3>2. CASE pc = "judge"
      <4> DEFINE w == [JudgedRow(cell) EXCEPT !.gate = "absent"]
      <4>1. rows' = [rows EXCEPT ![cell] = Append(@, w)]
        BY <1>8, <3>2 DEF Kill
      <4>2. w.gate = "absent"
        BY <1>0, RowType DEF Window
      <4> HIDE DEF w
      <4> QED
        BY <4>1, <4>2, AppendedRow DEF ProcessInv
    <3> QED
      BY <3>1, <3>2
  <2> QED
    BY <2>1, <2>2 DEF ProcessInv, OpenRecorded, CloseRecorded, NotClosedYet
<1>9. ASSUME NEW c \in Cell, Deliver(c) \/ Attach(c) \/ Disrupt(c) \/ JobStart(c) \/ JobEnd(c)
                             \/ JobDies(c)
      PROVE  ProcessInv'
  <2>1. rows' = rows /\ ev' = ev /\ seen' = seen /\ pc' = pc
    BY <1>9 DEF Deliver, Attach, Disrupt, JobStart, JobEnd, JobDies, runnerVars
  <2> QED
    BY <2>1, ProcessStutter
<1>10. CASE UNCHANGED vars
  BY <1>10, ProcessStutter DEF vars
<1> QED
  BY <1>1, <1>2, <1>3, <1>4, <1>5, <1>6, <1>7, <1>8, <1>9, <1>10 DEF Next, Runner, Cluster

\* No accepted window spans a restart or a change of pod, whichever reads were
\* lost around it and however often the cluster disrupts the cell.
THEOREM AcceptedWindowsHaveOneProcess == Spec => []AcceptedOneProcess
<1>1. Spec => [](TypeOK /\ ProcessInv)
  BY InitTypeOK, InitProcessInv, NextTypeOK, ProcessStep, PTL DEF Spec
<1>2. ProcessInv => AcceptedOneProcess
  BY DEF ProcessInv
<1> QED
  BY <1>1, <1>2, PTL

-----------------------------------------------------------------------------
(***************************************************************************)
(* ArmRunner implements WindowLog: the cell being judged is the one whose  *)
(* turn it is, and a window the gate accepts is whole.                     *)
(***************************************************************************)

LogInv == TypeOK /\ RowsInv /\ ProcessInv

LEMMA LogInvariant == Spec => []LogInv
  BY InitTypeOK, NextTypeOK, InitRowsInv, RowsStep, InitProcessInv, ProcessStep, PTL
     DEF Spec, LogInv

\* Forgetting details commutes with appending.
LEMMA EntriesOfAppend ==
  ASSUME NEW s \in Seq(Window), NEW w
  PROVE  [n \in DOMAIN Append(s, w) |-> LogEntry(Append(s, w)[n])]
           = Append([n \in DOMAIN s |-> LogEntry(s[n])], LogEntry(w))
<1> DEFINE t == [n \in DOMAIN s |-> LogEntry(s[n])]
           u == [n \in DOMAIN Append(s, w) |-> LogEntry(Append(s, w)[n])]
           E == {LogEntry(s[n]) : n \in DOMAIN s} \cup {LogEntry(w)}
<1>1. Len(s) \in Nat /\ DOMAIN s = 1..Len(s) /\ DOMAIN Append(s, w) = 1..(Len(s) + 1)
  OBVIOUS
<1>2. t \in [1..Len(s) -> E]
  BY <1>1
<1>3. t \in Seq(E) /\ Len(t) = Len(s)
  BY <1>1, <1>2
<1>4. \A n \in 1..Len(s) : Append(s, w)[n] = s[n]
  BY <1>1
<1>5. Append(s, w)[Len(s) + 1] = w
  BY <1>1
<1>6. \A n \in 1..Len(s) : u[n] = t[n]
  BY <1>1, <1>4
<1>7. u[Len(s) + 1] = LogEntry(w)
  BY <1>1, <1>5
<1>8. u = [n \in 1..(Len(s) + 1) |-> u[n]]
  BY <1>1
<1> DEFINE x == LogEntry(w)
           v == Append(t, x)
<1>9. x \in E
  OBVIOUS
<1> HIDE DEF t, u, E, x
<1>10. v \in Seq(E) /\ Len(v) = Len(t) + 1 /\ v[Len(t) + 1] = x
  BY <1>3, <1>9
<1>11. \A n \in 1..Len(t) : v[n] = t[n]
  BY <1>3, <1>9
<1>12. v = [n \in 1..(Len(s) + 1) |-> v[n]]
  <2> HIDE DEF v
  <2>1. v = [n \in 1..Len(v) |-> v[n]]
    BY <1>10
  <2> QED
    BY <1>3, <1>10, <2>1
<1>13. \A n \in 1..(Len(s) + 1) : u[n] = v[n]
  <2> SUFFICES ASSUME NEW n \in 1..(Len(s) + 1)
               PROVE  u[n] = v[n]
    OBVIOUS
  <2>1. CASE n \in 1..Len(s)
    BY <1>3, <1>6, <1>11, <2>1
  <2>2. CASE n = Len(s) + 1
    BY <1>3, <1>7, <1>10, <2>2 DEF x
  <2>3. n \in 1..Len(s) \/ n = Len(s) + 1
    BY <1>1
  <2> QED
    BY <2>1, <2>2, <2>3
<1>14. u = v
  <2> HIDE DEF v
  <2> QED
    BY <1>8, <1>12, <1>13
<1> QED
  BY <1>14 DEF t, u, x

LEMMA RowAppended ==
  ASSUME TypeOK, NEW w, rows' = [rows EXCEPT ![cell] = Append(@, w)]
  PROVE  RowLog' = [RowLog EXCEPT ![cell] = Append(@, LogEntry(w))]
<1>1. cell \in Cell /\ rows \in [Cell -> Seq(Window)] /\ rows[cell] \in Seq(Window)
  BY DEF TypeOK
<1> DEFINE Entries(s) == [n \in DOMAIN s |-> LogEntry(s[n])]
<1>2. RowLog = [c \in Cell |-> Entries(rows[c])] /\ RowLog' = [c \in Cell |-> Entries(rows'[c])]
  BY DEF RowLog
<1>3. Entries(Append(rows[cell], w)) = Append(Entries(rows[cell]), LogEntry(w))
  BY <1>1, EntriesOfAppend
<1> HIDE DEF Entries
<1>4. rows'[cell] = Append(rows[cell], w) /\ \A c \in Cell \ {cell} : rows'[c] = rows[c]
  BY <1>1
<1> QED
  BY <1>1, <1>2, <1>3, <1>4

\* The log is as long as the rows.
LEMMA LogLength ==
  ASSUME TypeOK, NEW c \in Cell
  PROVE  Len(RowLog[c]) = Len(rows[c])
<1>1. rows[c] \in Seq(Window)
  BY DEF TypeOK
<1>2. RowLog[c] = [n \in 1..Len(rows[c]) |-> LogEntry(rows[c][n])] /\ Len(rows[c]) \in Nat
  BY <1>1 DEF RowLog
<1>3. DOMAIN RowLog[c] = 1..Len(rows[c])
  BY <1>2
<1> DEFINE E == {LogEntry(rows[c][n]) : n \in 1..Len(rows[c])}
<1>4. RowLog[c] \in [1..Len(rows[c]) -> E]
  BY <1>2
<1> HIDE DEF E
<1> QED
  BY <1>2, <1>4

\* The cell that is being judged is the one whose turn it is.
LEMMA JudgedCellsTurn ==
  ASSUME TypeOK, RowsInv, pc = "judge"
  PROVE  /\ Log!Turn(cell) /\ cell \in Log!Cell
         /\ Len(RowLog[cell]) = idx - 1 /\ Len(RowLog[cell]) \in Nat /\ idx \in Int
<1>1. /\ cell \in Cell /\ idx \in 1..Len(Arms) /\ Len(Arms) \in Nat
      /\ \A c \in Cell : c \in Int
  BY RunnerAssumption DEF TypeOK, Cell
<1>2. \A c \in Cell : Len(RowLog[c]) = IF c < cell THEN idx ELSE idx - 1
  BY LogLength DEF RowsInv
<1>3. ~(cell < cell)
  BY <1>1
<1> QED
  BY <1>1, <1>2, <1>3 DEF Log!Turn, Log!Cell, Cell

\* A judged window is recorded, and is whole when it is accepted.
LEMMA JudgeRecords ==
  ASSUME LogInv, Judge
  PROVE  Log!Record(cell) /\ cell \in Log!Cell
<1> DEFINE w == JudgedRow(cell)
<1>1. pc = "judge" /\ cell \in Cell /\ rows' = [rows EXCEPT ![cell] = Append(@, w)]
  BY DEF Judge, LogInv, TypeOK
<1>2. RowLog' = [RowLog EXCEPT ![cell] = Append(@, LogEntry(w))]
  <2> HIDE DEF w
  <2> QED
    BY <1>1, RowAppended DEF LogInv
<1>3. /\ Log!Turn(cell) /\ cell \in Log!Cell
      /\ Len(RowLog[cell]) = idx - 1 /\ Len(RowLog[cell]) \in Nat /\ idx \in Int
  BY <1>1, JudgedCellsTurn DEF LogInv
<1>4. w.arm = Arms[Len(RowLog[cell]) + 1]
  BY <1>3 DEF JudgedRow, Row, arm
<1>5. w.gate \in {"accepted", "rejected", "traceback"}
  BY DEF JudgedRow, Row, GateJson
<1>6. w.gate = "accepted" => w.opened = w.closed
  BY <1>1, JudgedInOneProcess DEF LogInv, ProcessInv
<1> HIDE DEF w
<1> DEFINE whole == w.opened = w.closed
<1>7. LogEntry(w) = [arm |-> Arms[Len(RowLog[cell]) + 1], verdict |-> w.gate, whole |-> whole]
  BY <1>4 DEF LogEntry
<1>8. whole \in BOOLEAN
  BY Zenon
<1>9. w.gate = "accepted" => whole
  BY <1>6
<1> HIDE DEF whole
<1>10. RowLog' = [RowLog EXCEPT ![cell] =
                   Append(@, [arm |-> Arms[Len(@) + 1], verdict |-> w.gate, whole |-> whole])]
  BY <1>2, <1>7
<1>11. Log!Write(cell, w.gate, whole)
  BY <1>10 DEF Log!Write
<1>12. RunOutcome = "running"
  BY <1>1 DEF RunOutcome
<1>13. RunOutcome' = IF cell = NCells /\ Len(RowLog[cell]) + 1 = Len(Arms) THEN "complete" ELSE "running"
  <2>1. Len(RowLog[cell]) + 1 = idx /\ cell \in Int /\ NCells \in Int /\ Len(Arms) \in Int
    BY <1>1, <1>3, RunnerAssumption DEF Cell
  <2>2. \/ cell < NCells /\ pc' = "collect"
        \/ cell = NCells /\ idx < Len(Arms) /\ pc' = "sampling"
        \/ cell = NCells /\ idx = Len(Arms) /\ pc' = "done"
    BY DEF Judge, Goto
  <2>3. CASE cell < NCells /\ pc' = "collect"
    BY <2>1, <2>3 DEF RunOutcome
  <2>4. CASE cell = NCells /\ idx < Len(Arms) /\ pc' = "sampling"
    BY <1>3, <2>1, <2>4 DEF RunOutcome
  <2>5. CASE cell = NCells /\ idx = Len(Arms) /\ pc' = "done"
    BY <2>1, <2>5 DEF RunOutcome
  <2> QED
    BY <2>2, <2>3, <2>4, <2>5
<1> QED
  BY <1>3, <1>5, <1>8, <1>9, <1>11, <1>12, <1>13 DEF Log!Record

\* A kill cuts the run short.
LEMMA KillCutsShort ==
  ASSUME LogInv, Kill
  PROVE  Log!CutShort
<1>1. RunOutcome = "running" /\ RunOutcome' = "cut short"
  BY DEF Kill, Over, Goto, RunOutcome, LogInv, TypeOK
<1>2. CASE pc # "judge"
  <2>1. RowLog' = RowLog
    BY <1>2 DEF Kill, RowLog
  <2> QED
    BY <1>1, <2>1 DEF Log!CutShort
<1>3. CASE pc = "judge"
  <2> DEFINE v == JudgedRow(cell)
             w == [v EXCEPT !.gate = "absent"]
             whole == w.opened = w.closed
  <2>1. rows' = [rows EXCEPT ![cell] = Append(@, w)]
    BY <1>3 DEF Kill
  <2>2. /\ Log!Turn(cell) /\ cell \in Log!Cell
        /\ Len(RowLog[cell]) = idx - 1 /\ Len(RowLog[cell]) \in Nat /\ idx \in Int
    BY <1>3, JudgedCellsTurn DEF LogInv
  <2>3. w.arm = Arms[Len(RowLog[cell]) + 1] /\ w.gate = "absent"
    BY <2>2 DEF JudgedRow, Row, arm
  <2> HIDE DEF w, v
  <2>4. RowLog' = [RowLog EXCEPT ![cell] = Append(@, LogEntry(w))]
    BY <2>1, RowAppended DEF LogInv
  <2>5. LogEntry(w) = [arm |-> Arms[Len(RowLog[cell]) + 1], verdict |-> "absent", whole |-> whole]
    BY <2>3 DEF LogEntry
  <2>6. whole \in BOOLEAN
    BY Zenon
  <2> HIDE DEF whole
  <2>7. RowLog' = [RowLog EXCEPT ![cell] =
                    Append(@, [arm |-> Arms[Len(@) + 1], verdict |-> "absent", whole |-> whole])]
    BY <2>4, <2>5
  <2> QED
    BY <1>1, <2>2, <2>6, <2>7 DEF Log!CutShort, Log!Write
<1> QED
  BY <1>2, <1>3

\* Only a verdict, or a kill in front of one, adds a row.
LEMMA RowsOnlyJudged ==
  ASSUME TypeOK, [Next]_vars, ~Judge, ~Kill
  PROVE  /\ rows' = rows
         /\ \/ pc' = pc
            \/ pc \notin {"done", "fatal", "killed"} /\ pc' \notin {"done", "killed"}
<1>0. cell \in Cell
  BY DEF TypeOK
<1>1. CASE UNCHANGED vars
  BY <1>1 DEF vars
<1>2. CASE Cluster
  BY <1>2 DEF Cluster, Deliver, Attach, Disrupt, JobStart, JobEnd, JobDies, runnerVars
<1>3. CASE SetSampling \/ ResetAndRestart \/ WaitHealthy \/ WaitIc \/ AdminReset \/ Capture
           \/ Launch \/ AwaitStart
  BY <1>0, <1>3, NextCellStep, GotoStep
     DEF SetSampling, ResetAndRestart, WaitHealthy, WaitIc, AdminReset, Capture, Launch,
         AwaitStart, Fatal
<1>4. CASE SleepUntil \/ OpenWindow \/ SnapMid \/ CloseWindow \/ WaitAll \/ SinkEnd \/ Collect
  BY <1>0, <1>4, NextCellStep, GotoStep
     DEF SleepUntil, OpenWindow, SnapMid, CloseWindow, WaitAll, SinkEnd, Collect, Fatal
<1> QED
  BY <1>1, <1>2, <1>3, <1>4 DEF Next, Runner

\* Every other step leaves the log alone; a fatal one cuts the run short.
LEMMA OtherSteps ==
  ASSUME LogInv, [Next]_vars, ~Judge, ~Kill
  PROVE  \/ Log!CutShort
         \/ RowLog' = RowLog /\ RunOutcome' = RunOutcome
<1>1. /\ rows' = rows
      /\ \/ pc' = pc
         \/ pc \notin {"done", "fatal", "killed"} /\ pc' \notin {"done", "killed"}
  BY RowsOnlyJudged DEF LogInv
<1>2. RowLog' = RowLog
  BY <1>1 DEF RowLog
<1>3. CASE pc' = "fatal" /\ pc' # pc
  BY <1>1, <1>2, <1>3 DEF RunOutcome, Log!CutShort
<1>4. CASE pc' # "fatal" \/ pc' = pc
  BY <1>1, <1>2, <1>4 DEF RunOutcome
<1> QED
  BY <1>3, <1>4

LEMMA StepSimulates == LogInv /\ [Next]_vars => [Log!Next]_<<RowLog, RunOutcome>>
<1> SUFFICES ASSUME LogInv, [Next]_vars
             PROVE  Log!Next \/ (RowLog' = RowLog /\ RunOutcome' = RunOutcome)
  OBVIOUS
<1>1. CASE Judge
  BY <1>1, JudgeRecords DEF Log!Next
<1>2. CASE Kill
  BY <1>2, KillCutsShort DEF Log!Next
<1>3. CASE ~Judge /\ ~Kill
  BY <1>3, OtherSteps DEF Log!Next
<1> QED
  BY <1>1, <1>2, <1>3

LEMMA InitSimulates == Init => Log!Init
<1> SUFFICES ASSUME Init
             PROVE  Log!Init
  OBVIOUS
<1>1. \A c \in Cell : rows[c] = <<>>
  BY DEF Init
<1>2. RowLog = [c \in Cell |-> <<>>]
  <2>1. \A c \in Cell : [n \in DOMAIN rows[c] |-> LogEntry(rows[c][n])] = <<>>
    BY <1>1
  <2> QED
    BY <2>1 DEF RowLog
<1> QED
  BY <1>2 DEF Init, RunOutcome, Log!Init, Log!Cell, Cell

\* run.sh implements the log its results promise, however many cells and arms
\* there are, whatever fails and wherever it is cut short.
THEOREM RunnerImplementsLog == Spec => ImplementsLog
<1>1. Spec => []LogInv /\ Init /\ [][Next]_vars
  BY LogInvariant, PTL DEF Spec
<1> QED
  BY <1>1, InitSimulates, StepSimulates, PTL DEF ImplementsLog, Log!Spec

-----------------------------------------------------------------------------
(***************************************************************************)
(* The failures that are left: never more than the run began with.         *)
(***************************************************************************)

Failure == {"read", "apply", "restart", "disrupt", "job", "any"}

BudgetInv ==
  /\ budget \in [Failure -> Nat]
  /\ budget["read"] <= ReadFaults /\ budget["apply"] <= ApplyFaults
  /\ budget["restart"] <= RestartFaults /\ budget["any"] <= AnyFaults

\* Nothing gives a failure back.
BudgetFalls == \A k \in Failure : budget'[k] <= budget[k]

LEMMA InitBudget == Init => BudgetInv
<1> SUFFICES ASSUME Init PROVE BudgetInv
  OBVIOUS
<1>1. budget = [read |-> ReadFaults, apply |-> ApplyFaults, restart |-> RestartFaults,
                disrupt |-> Disruptions, job |-> JobFaults, any |-> AnyFaults]
  BY DEF Init
<1> QED
  BY <1>1, RunnerAssumption DEF BudgetInv, Failure

\* What a choice of failures is, and what spending it leaves.
LEMMA SpendStep ==
  ASSUME BudgetInv, NEW kind \in Failure \ {"any"}, NEW what, IsFiniteSet(what),
         NEW F \in Fails(kind, what)
  PROVE  /\ F \subseteq what /\ Cardinality(F) \in Nat /\ (F # {} => Cardinality(F) >= 1)
         /\ Cardinality(F) <= budget[kind] /\ Cardinality(F) <= budget["any"]
         /\ Spend(kind, F) =>
              /\ BudgetInv'
              /\ budget'[kind] = budget[kind] - Cardinality(F)
              /\ budget'["any"] = budget["any"] - Cardinality(F)
              /\ BudgetFalls
<1>1. F \subseteq what /\ Cardinality(F) <= budget[kind] /\ Cardinality(F) <= budget["any"]
  BY DEF Fails
<1>2. IsFiniteSet(F) /\ Cardinality(F) \in Nat
  BY <1>1, FS_Subset, FS_CardinalityType
<1>3. F # {} => Cardinality(F) >= 1
  BY <1>2, FS_EmptySet
<1> DEFINE n == Cardinality(F)
<1> HIDE DEF n
<1>4. ASSUME Spend(kind, F)
      PROVE  /\ budget' \in [Failure -> Nat]
             /\ budget'[kind] = budget[kind] - n
             /\ budget'["any"] = budget["any"] - n
             /\ \A k \in Failure : budget'[k] <= budget[k]
  <2>1. budget' = [budget EXCEPT ![kind] = @ - n, !["any"] = @ - n]
    BY <1>4 DEF Spend, n
  <2>2. budget \in [Failure -> Nat] /\ n \in Nat /\ n <= budget[kind] /\ n <= budget["any"]
    BY <1>1, <1>2 DEF BudgetInv, n
  <2> QED
    BY <2>1, <2>2 DEF Failure
<1>5. Spend(kind, F) => BudgetInv'
  <2> SUFFICES ASSUME Spend(kind, F) PROVE BudgetInv'
    OBVIOUS
  <2>1. budget \in [Failure -> Nat] /\ budget' \in [Failure -> Nat]
        /\ \A k \in Failure : budget'[k] <= budget[k]
    BY <1>4 DEF BudgetInv
  <2>2. /\ budget'["read"] <= budget["read"] /\ budget'["apply"] <= budget["apply"]
        /\ budget'["restart"] <= budget["restart"] /\ budget'["any"] <= budget["any"]
    BY <2>1 DEF Failure
  <2>3. /\ ReadFaults \in Nat /\ ApplyFaults \in Nat /\ RestartFaults \in Nat /\ AnyFaults \in Nat
    BY RunnerAssumption
  <2>4. \A k \in {"read", "apply", "restart", "any"} : budget[k] \in Nat /\ budget'[k] \in Nat
    BY <2>1 DEF Failure
  <2> QED
    BY <2>1, <2>2, <2>3, <2>4 DEF BudgetInv
<1> QED
  BY <1>1, <1>2, <1>3, <1>4, <1>5 DEF n, BudgetFalls

\* When none are left, nothing fails.
LEMMA NoneLeft ==
  ASSUME BudgetInv, NEW kind \in Failure \ {"any"}, NEW what, IsFiniteSet(what),
         budget["any"] = 0 \/ budget[kind] = 0
  PROVE  \A F \in Fails(kind, what) : F = {}
<1> SUFFICES ASSUME NEW F \in Fails(kind, what) PROVE F = {}
  OBVIOUS
<1> QED
  BY SpendStep

\* A failure of one thing that the budget allows.
LEMMA SpendOne ==
  ASSUME BudgetInv, NEW kind \in Failure \ {"any"}, NEW x, Fails(kind, {x}) # {{}}, Spend(kind, {x})
  PROVE  BudgetInv' /\ BudgetFalls
<1>1. IsFiniteSet({x}) /\ Cardinality({x}) = 1 /\ Cardinality({}) = 0
  BY FS_Singleton, FS_EmptySet
<1>2. budget \in [Failure -> Nat] /\ "any" \in Failure
  BY DEF BudgetInv, Failure
<1>3. {} \in Fails(kind, {x})
  BY <1>1, <1>2 DEF Fails
<1>4. {x} \in Fails(kind, {x})
  <2>1. PICK F \in Fails(kind, {x}) : F # {}
    BY <1>3
  <2>2. F = {x}
    BY <2>1 DEF Fails
  <2> QED
    BY <2>1, <2>2
<1> QED
  BY <1>1, <1>4, SpendStep

LEMMA FiniteCells == IsFiniteSet(Cell) /\ IsFiniteSet(Cell \cup {0})
<1>1. IsFiniteSet(Cell)
  BY RunnerAssumption, FS_Interval DEF Cell
<1> QED
  BY <1>1, FS_AddElement

\* Sets of reads that may fail together.
LEMMA FiniteReads ==
  /\ IsFiniteSet({"ic"}) /\ IsFiniteSet({"cgMid"}) /\ IsFiniteSet({"k6"})
  /\ IsFiniteSet({"pod", "rs", "cgStart", "jvmStart", "sinkStart"})
  /\ IsFiniteSet({"cgEnd", "jvmEnd", "re", "podEnd"})
  /\ IsFiniteSet({"sinkEnd", "completed"})
<1>1. \A a : IsFiniteSet({a})
  BY FS_Singleton
<1>2. ASSUME NEW a, NEW b PROVE IsFiniteSet({a, b})
  <2>1. IsFiniteSet({a} \cup {b})
    BY <1>1, FS_AddElement
  <2>2. {a} \cup {b} = {a, b}
    OBVIOUS
  <2> QED
    BY <2>1, <2>2
<1>3. ASSUME NEW a, NEW b, NEW c, NEW d PROVE IsFiniteSet({a, b, c, d})
  <2>1. IsFiniteSet({a, b} \cup {c, d})
    BY <1>2, FS_Union
  <2>2. {a, b} \cup {c, d} = {a, b, c, d}
    OBVIOUS
  <2> QED
    BY <2>1, <2>2
<1>4. IsFiniteSet({"pod", "rs", "cgStart", "jvmStart", "sinkStart"})
  <2>1. IsFiniteSet({"pod", "rs", "cgStart", "jvmStart"} \cup {"sinkStart"})
    BY <1>3, FS_AddElement
  <2>2. {"pod", "rs", "cgStart", "jvmStart"} \cup {"sinkStart"}
          = {"pod", "rs", "cgStart", "jvmStart", "sinkStart"}
    OBVIOUS
  <2> QED
    BY <2>1, <2>2
<1> QED
  BY <1>1, <1>2, <1>3, <1>4

LEMMA BudgetStep == BudgetInv /\ [Next]_vars => BudgetInv' /\ BudgetFalls
<1> SUFFICES ASSUME BudgetInv, [Next]_vars
             PROVE  BudgetInv' /\ BudgetFalls
  OBVIOUS
<1>0. {"read", "apply", "restart", "disrupt", "job"} \subseteq Failure \ {"any"}
  BY DEF Failure
<1>1. ASSUME budget' = budget PROVE BudgetInv' /\ BudgetFalls
  BY <1>1 DEF BudgetInv, BudgetFalls
<1>2. ASSUME SetSampling PROVE BudgetInv' /\ BudgetFalls
  BY <1>0, <1>2, FiniteCells, SpendStep DEF SetSampling
<1>3. ASSUME ResetAndRestart PROVE BudgetInv' /\ BudgetFalls
  BY <1>0, <1>3, FiniteCells, SpendStep DEF ResetAndRestart
<1>4. ASSUME WaitHealthy \/ WaitIc \/ AdminReset \/ Launch \/ AwaitStart \/ SleepUntil \/ Judge \/ Kill
      PROVE  BudgetInv' /\ BudgetFalls
  BY <1>1, <1>4 DEF WaitHealthy, WaitIc, AdminReset, Launch, AwaitStart, SleepUntil, Judge, Kill
<1>5. ASSUME Capture PROVE BudgetInv' /\ BudgetFalls
  BY <1>0, <1>5, FiniteReads, SpendStep DEF Capture
<1>6. ASSUME OpenWindow PROVE BudgetInv' /\ BudgetFalls
  <2>1. PICK F \in Fails("read", {"pod", "rs", "cgStart", "jvmStart", "sinkStart"}) : Spend("read", F)
    BY <1>6 DEF OpenWindow
  <2> QED
    BY <1>0, <2>1, FiniteReads, SpendStep
<1>7. ASSUME SnapMid PROVE BudgetInv' /\ BudgetFalls
  BY <1>0, <1>7, FiniteReads, SpendStep DEF SnapMid
<1>8. ASSUME CloseWindow PROVE BudgetInv' /\ BudgetFalls
  <2>1. PICK F \in Fails("read", {"cgEnd", "jvmEnd", "re", "podEnd"}) : Spend("read", F)
    BY <1>8 DEF CloseWindow
  <2> QED
    BY <1>0, <2>1, FiniteReads, SpendStep
<1>9. ASSUME WaitAll PROVE BudgetInv' /\ BudgetFalls
  <2> DEFINE alive == {c \in Cell : job[c] = "running"}
  <2>1. (alive # {} => Fails("job", {0}) # {{}}) /\ Spend("job", IF alive = {} THEN {} ELSE {0})
    BY <1>9 DEF WaitAll
  <2>2. CASE alive = {}
    <3>1. {} \in Fails("job", {})
      <4>1. budget["job"] \in Nat /\ budget["any"] \in Nat /\ Cardinality({}) = 0
        BY FS_EmptySet DEF BudgetInv, Failure
      <4> QED
        BY <4>1 DEF Fails
    <3>2. Spend("job", {})
      BY <2>1, <2>2
    <3>3. IsFiniteSet({})
      BY FS_EmptySet
    <3> QED
      BY <1>0, <3>1, <3>2, <3>3, SpendStep
  <2>3. CASE alive # {}
    <3>1. Fails("job", {0}) # {{}} /\ Spend("job", {0})
      BY <2>1, <2>3
    <3> QED
      BY <1>0, <3>1, SpendOne
  <2> QED
    BY <2>2, <2>3
<1>10. ASSUME SinkEnd PROVE BudgetInv' /\ BudgetFalls
  BY <1>0, <1>10, FiniteReads, SpendStep DEF SinkEnd
<1>11. ASSUME Collect PROVE BudgetInv' /\ BudgetFalls
  BY <1>0, <1>11, FiniteReads, SpendStep DEF Collect
<1>12. ASSUME NEW c \in Cell, Deliver(c) \/ Attach(c) \/ JobStart(c) \/ JobEnd(c)
       PROVE  BudgetInv' /\ BudgetFalls
  BY <1>1, <1>12 DEF Deliver, Attach, JobStart, JobEnd
<1>13. ASSUME NEW c \in Cell, Disrupt(c) PROVE BudgetInv' /\ BudgetFalls
  BY <1>0, <1>13, SpendOne DEF Disrupt
<1>14. ASSUME NEW c \in Cell, JobDies(c) PROVE BudgetInv' /\ BudgetFalls
  BY <1>0, <1>14, SpendOne DEF JobDies
<1>15. CASE UNCHANGED vars
  BY <1>1, <1>15 DEF vars
<1> QED
  BY <1>2, <1>3, <1>4, <1>5, <1>6, <1>7, <1>8, <1>9, <1>10, <1>11, <1>12, <1>13, <1>14, <1>15
     DEF Next, Runner, Cluster

-----------------------------------------------------------------------------
(***************************************************************************)
(* The stages of a cell's window, and what a step adds to the rows.        *)
(***************************************************************************)

\* From the arm's restart to its verdicts.
Underway == {"health", "ic", "reset", "capture", "launch", "started", "warm", "open", "mid",
             "snapmid", "end", "close", "wait_all", "sink", "collect", "judge"}

\* The loops over the cells have saved the cell's ic.yaml, opened and closed its
\* window, and scraped the sink again.
Captured(c) ==
  \/ pc \in Underway \ {"health", "ic", "reset", "capture"}
  \/ pc = "capture" /\ c < cell
Opened(c) ==
  \/ pc \in {"mid", "snapmid", "end", "close", "wait_all", "sink", "collect", "judge"}
  \/ pc = "open" /\ c < cell
Shut(c) == Closed \/ (pc = "close" /\ c < cell)
Scraped(c) == pc \in {"collect", "judge"} \/ (pc = "sink" /\ c < cell)

\* Where a loop's turn leads.
LEMMA TurnOfCells ==
  ASSUME TypeOK, NEW p, NextCell(p)
  PROVE  /\ idx' = idx /\ cell' \in Cell
         /\ \/ pc' = pc /\ \A c \in Cell : c < cell' <=> (c < cell \/ c = cell)
            \/ pc' = p /\ cell' = 1 /\ \A c \in Cell : ~(c < cell') /\ (c < cell \/ c = cell)
<1>1. /\ cell \in Cell /\ 1 \in Cell /\ NCells \in Nat \ {0}
      /\ \A c \in Cell : c \in Int /\ 1 <= c /\ c <= NCells
  BY RunnerAssumption DEF TypeOK, Cell
<1>2. CASE cell < NCells
  <2>1. cell' = cell + 1 /\ pc' = pc /\ idx' = idx
    BY <1>2 DEF NextCell
  <2> QED
    BY <1>1, <1>2, <2>1 DEF Cell
<1>3. CASE ~(cell < NCells)
  <2>1. cell' = 1 /\ pc' = p /\ idx' = idx
    BY <1>3 DEF NextCell, Goto
  <2>2. cell = NCells
    BY <1>1, <1>3
  <2> QED
    BY <1>1, <2>1, <2>2
<1> QED
  BY <1>2, <1>3

\* gate.py, or a runner that is killed before it, adds the window the arm's files
\* describe: what it tells of the truth is what was seen of the cell.
LEMMA WindowAdded ==
  ASSUME TypeOK, Judge \/ Kill, NEW c \in Cell, NEW w \in Windows(c)'
  PROVE  \/ w \in Windows(c)
         \/ /\ c = cell /\ pc = "judge"
            /\ w.slot = idx /\ w.arm = arm /\ w.opened = seen[c].open.process
            /\ w.closed = seen[c].close.process
            /\ w.agentOpen = seen[c].open.agent /\ w.agentClose = seen[c].close.agent
            /\ w.meta = ("meta" \notin Evidence(c).garbled)
            /\ w.loaded = (seen[c].open.loaded /\ seen[c].close.loaded)
            /\ w.gate = "accepted" => JudgedRow(c).gate = "accepted"
<1>1. cell \in Cell /\ rows \in [Cell -> Seq(Window)] /\ rows[cell] \in Seq(Window)
  BY DEF TypeOK
<1>2. PICK n \in DOMAIN rows'[c] : w = rows'[c][n]
  BY DEF Windows
<1> DEFINE j == JudgedRow(cell)
           k == [JudgedRow(cell) EXCEPT !.gate = "absent"]
<1>3. rows' = rows \/ (pc = "judge" /\ \E x \in {j, k} : rows' = [rows EXCEPT ![cell] = Append(@, x)])
  BY DEF Judge, Kill
<1>4. CASE rows' = rows
  BY <1>2, <1>4 DEF Windows
<1>5. ASSUME NEW x \in {j, k}, pc = "judge", rows' = [rows EXCEPT ![cell] = Append(@, x)],
             w \notin Windows(c)
      PROVE  c = cell /\ w = x
  <2> HIDE DEF j, k
  <2>1. CASE c # cell
    <3>1. rows'[c] = rows[c]
      BY <1>1, <1>5, <2>1
    <3> QED
      BY <1>2, <1>5, <3>1 DEF Windows
  <2>2. CASE c = cell
    <3>1. rows'[c] = Append(rows[c], x)
      BY <1>1, <1>5, <2>2
    <3>2. \/ n \in DOMAIN rows[c] /\ rows'[c][n] = rows[c][n]
          \/ rows'[c][n] = x
      BY <1>1, <1>2, <2>2, <3>1
    <3> QED
      BY <1>2, <1>5, <2>2, <3>2 DEF Windows
  <2> QED
    BY <2>1, <2>2
<1>6. /\ j.slot = idx /\ j.arm = arm /\ j.opened = seen[cell].open.process
      /\ j.closed = seen[cell].close.process
      /\ j.agentOpen = seen[cell].open.agent /\ j.agentClose = seen[cell].close.agent
      /\ j.loaded = (seen[cell].open.loaded /\ seen[cell].close.loaded)
      /\ j.meta = ("meta" \notin Evidence(cell).garbled)
      /\ k.slot = j.slot /\ k.arm = j.arm /\ k.opened = j.opened /\ k.closed = j.closed
      /\ k.agentOpen = j.agentOpen /\ k.agentClose = j.agentClose /\ k.loaded = j.loaded
      /\ k.meta = j.meta /\ k.gate = "absent"
  BY DEF JudgedRow, Row
<1> QED
  BY <1>3, <1>4, <1>5, <1>6

\* What the two snapshots of a window leave behind: the truth of that moment, and
\* the files read of it.
LEMMA OpenWindowCell ==
  ASSUME TypeOK, OpenWindow
  PROVE  /\ pc = "open" /\ NextCell("mid") /\ job' = job /\ rows' = rows /\ clusterVars' = clusterVars
         /\ seen'[cell].open = [process |-> {Process(cell)}, agent |-> agent[cell],
                                loaded |-> job[cell] = "running", spans |-> SpansSoFar(cell)]
         /\ ev'[cell].start.sink \in {{}, {SpansSoFar(cell)}}
         /\ (\A F \in Fails("read", {"pod", "rs", "cgStart", "jvmStart", "sinkStart"}) : F = {}) =>
              ev'[cell].start.sink = {SpansSoFar(cell)}
         /\ ev'[cell].ic = ev[cell].ic /\ ev'[cell].sink = ev[cell].sink
         /\ \A c \in Cell \ {cell} : ev'[c] = ev[c] /\ seen'[c] = seen[c]
<1>0. /\ cell \in Cell /\ ev \in [Cell -> Files] /\ seen \in [Cell -> Truth]
      /\ ev[cell] \in Files /\ seen[cell] \in Truth
  BY DEF TypeOK
<1> DEFINE spans == SpansSoFar(cell)
<1>1. PICK F \in Fails("read", {"pod", "rs", "cgStart", "jvmStart", "sinkStart"}) :
        LET Read(f, x) == IF f \in F \/ (f \in {"rs", "cgStart"} /\ "pod" \in F) THEN {} ELSE {x} IN
        /\ ev' = [ev EXCEPT ![cell].start =
                   [pod |-> Read("pod", pod[cell]), rs |-> Read("rs", restarts[cell]),
                    cg |-> Read("cgStart", Snap), jvm |-> Read("jvmStart", 0),
                    sink |-> Read("sinkStart", spans)]]
        /\ seen' = [seen EXCEPT ![cell].open = [process |-> {Process(cell)},
                                               agent |-> agent[cell],
                                               loaded |-> job[cell] = "running", spans |-> spans],
                               ![cell].lost = @ \cup F]
  BY DEF OpenWindow
<1> HIDE DEF spans
<1>2. /\ ev'[cell].start.sink \in {{}, {spans}}
      /\ F = {} => ev'[cell].start.sink = {spans}
      /\ ev'[cell].ic = ev[cell].ic /\ ev'[cell].sink = ev[cell].sink
      /\ \A c \in Cell \ {cell} : ev'[c] = ev[c]
  BY <1>0, <1>1 DEF Files
<1>3. /\ seen'[cell].open = [process |-> {Process(cell)}, agent |-> agent[cell],
                             loaded |-> job[cell] = "running", spans |-> spans]
      /\ \A c \in Cell \ {cell} : seen'[c] = seen[c]
  BY <1>0, <1>1 DEF Truth
<1> QED
  BY <1>1, <1>2, <1>3 DEF OpenWindow, spans

LEMMA CloseWindowCell ==
  ASSUME TypeOK, CloseWindow
  PROVE  /\ pc = "close" /\ NextCell("wait_all") /\ job' = job /\ rows' = rows
         /\ clusterVars' = clusterVars
         /\ \E n \in Observed(seen[cell].open.agent, agent[cell]) :
              seen'[cell].close = [process |-> {Process(cell)}, agent |-> agent[cell],
                                   loaded |-> job[cell] = "running",
                                   spans |-> seen[cell].open.spans + n]
         /\ seen'[cell].open = seen[cell].open
         /\ ev'[cell].start = ev[cell].start /\ ev'[cell].ic = ev[cell].ic
         /\ ev'[cell].sink = ev[cell].sink
         /\ \A c \in Cell \ {cell} : ev'[c] = ev[c] /\ seen'[c] = seen[c]
<1>0. /\ cell \in Cell /\ ev \in [Cell -> Files] /\ seen \in [Cell -> Truth]
      /\ ev[cell] \in Files /\ seen[cell] \in Truth
  BY DEF TypeOK
<1>1. PICK F \in Fails("read", {"cgEnd", "jvmEnd", "re", "podEnd"}),
           n \in Observed(seen[cell].open.agent, agent[cell]) :
        LET gone == ev[cell].start.pod # {pod[cell]}
            Read(f, v) == IF f \in F \/ (gone /\ f \in {"cgEnd", "re"}) THEN {} ELSE {v} IN
        /\ Spend("read", F)
        /\ ev' = [ev EXCEPT ![cell].end =
                   [pod |-> Read("podEnd", pod[cell]), rs |-> Read("re", restarts[cell]),
                    cg |-> Read("cgEnd", Snap), jvm |-> Read("jvmEnd", 0)]]
        /\ seen' = [seen EXCEPT ![cell].close = [process |-> {Process(cell)}, agent |-> agent[cell],
                                                loaded |-> job[cell] = "running",
                                                spans |-> seen[cell].open.spans + n],
                               ![cell].lost = @ \cup F]
  BY Zenon DEF CloseWindow
<1>2. /\ ev'[cell].start = ev[cell].start /\ ev'[cell].ic = ev[cell].ic
      /\ ev'[cell].sink = ev[cell].sink
      /\ \A c \in Cell \ {cell} : ev'[c] = ev[c]
  BY <1>0, <1>1 DEF Files
<1> DEFINE m == seen[cell].open.spans + n
<1> HIDE DEF m
<1>3. /\ seen'[cell].close = [process |-> {Process(cell)}, agent |-> agent[cell],
                              loaded |-> job[cell] = "running", spans |-> m]
      /\ seen'[cell].open = seen[cell].open
      /\ \A c \in Cell \ {cell} : seen'[c] = seen[c]
  BY <1>0, <1>1 DEF Truth, m
<1> QED
  BY <1>1, <1>2, <1>3 DEF CloseWindow, m

\* The steps that read something else leave what was seen as it is.
LEMMA OtherReads ==
  ASSUME TypeOK, Capture \/ SnapMid \/ SinkEnd \/ Collect
  PROVE  \A c \in Cell : seen'[c].open = seen[c].open /\ seen'[c].close = seen[c].close
<1>1. seen \in [Cell -> Truth]
  BY DEF TypeOK
<1>2. PICK F : seen' = [seen EXCEPT ![cell].lost = @ \cup F]
  BY Zenon DEF Capture, SnapMid, SinkEnd, Collect, Lose
<1> QED
  BY <1>1, <1>2 DEF Truth


-----------------------------------------------------------------------------
(***************************************************************************)
(* Load: what wakes a job is seen when the window opens and closes, and    *)
(* only a job that lived that long leaves a summary.                       *)
(***************************************************************************)

Lived == {"running", "succeeded", "failedLate"}

\* A job that has not failed was running at the snapshots so far.
SeenLoaded(c) ==
  job[c] \in Lived =>
    /\ Opened(c) => seen[c].open.loaded
    /\ Shut(c) => seen[c].close.loaded
    /\ pc \in Underway /\ ~Closed => job[c] = "running"

LoadInv ==
  /\ \A c \in Cell : SeenLoaded(c)
  /\ pc = "judge" /\ ev[cell].k6 # {} => seen[cell].open.loaded /\ seen[cell].close.loaded
  /\ AcceptedUnderLoad

LEMMA InitLoadInv == Init => LoadInv
  BY DEF Init, LoadInv, SeenLoaded, Lived, AcceptedUnderLoad, Accepted, Windows

\* An accepting verdict was given on a summary.
LEMMA AcceptedSummary ==
  ASSUME NEW c \in Cell, JudgedRow(c).gate = "accepted"
  PROVE  ev[c].k6 # {}
<1> DEFINE e == Evidence(c)
<1>1. GateJson(e, arm, Expect) = "accepted"
  BY DEF JudgedRow, Row
<1>2. e.k6 # {}
  <2> HIDE DEF e
  <2> QED
    BY <1>1 DEF GateJson
<1> QED
  BY <1>2 DEF Evidence

\* A step that leaves the jobs, what was seen and the rows, and opens, closes and
\* judges no window.
LEMMA LoadStutter ==
  ASSUME LoadInv, job' = job, rows' = rows,
         \A c \in Cell : seen'[c].open = seen[c].open /\ seen'[c].close = seen[c].close,
         \A c \in Cell : (Opened(c)' => Opened(c)) /\ (Shut(c)' => Shut(c)),
         pc' \in Underway /\ ~Closed' => pc \in Underway /\ ~Closed,
         pc' # "judge"
  PROVE  LoadInv'
<1>1. \A c \in Cell : SeenLoaded(c)'
  BY DEF LoadInv, SeenLoaded
<1>2. AcceptedUnderLoad'
  BY DEF LoadInv, AcceptedUnderLoad, Accepted, Windows
<1> QED
  BY <1>1, <1>2 DEF LoadInv

LEMMA LoadStep == PhaseInv /\ PhaseInv' /\ LoadInv /\ [Next]_vars => LoadInv'
<1> SUFFICES ASSUME PhaseInv, PhaseInv', LoadInv, [Next]_vars
             PROVE  LoadInv'
  OBVIOUS
<1>0. /\ TypeOK /\ cell \in Cell /\ 1 \in Cell /\ \A c \in Cell : c \in Int /\ 1 <= c
      /\ job \in [Cell -> {"none", "pending", "running", "succeeded", "failed", "failedLate"}]
      /\ ev \in [Cell -> Files]
  BY RunnerAssumption DEF PhaseInv, TypeOK, Cell
<1>1. ASSUME rows' = rows, pc' \in {"sampling", "restart", "health", "ic", "reset", "capture"}
      PROVE  LoadInv'
  <2>1. \A c \in Cell : job'[c] = "none"
    BY <1>1 DEF PhaseInv, JobsInv, QuietWhileReconfiguring
  <2>2. AcceptedUnderLoad'
    BY <1>1 DEF LoadInv, AcceptedUnderLoad, Accepted, Windows
  <2> QED
    BY <1>1, <2>1, <2>2 DEF LoadInv, SeenLoaded, Lived
<1>2. ASSUME rows' = rows, pc' = "fatal"
      PROVE  LoadInv'
  <2>1. AcceptedUnderLoad'
    BY <1>2 DEF LoadInv, AcceptedUnderLoad, Accepted, Windows
  <2> QED
    BY <1>2, <2>1 DEF LoadInv, SeenLoaded, Opened, Shut, Closed, Underway
<1>3. ASSUME SetSampling \/ ResetAndRestart \/ WaitHealthy \/ WaitIc \/ AdminReset PROVE LoadInv'
  <2>1. rows' = rows /\ pc' \in {"restart", "health", "ic", "reset", "capture", "fatal"}
    BY <1>0, <1>3, NextCellStep, GotoStep
       DEF SetSampling, ResetAndRestart, WaitHealthy, WaitIc, AdminReset, Fatal
  <2> QED
    BY <1>1, <1>2, <2>1
<1>4. ASSUME Capture PROVE LoadInv'
  <2>1. rows' = rows /\ job' = job /\ pc = "capture" /\ pc' \in {"capture", "launch"}
    BY <1>0, <1>4, NextCellStep DEF Capture
  <2>2. \A c \in Cell : seen'[c].open = seen[c].open /\ seen'[c].close = seen[c].close
    BY <1>0, <1>4, OtherReads
  <2> QED
    BY <2>1, <2>2, LoadStutter DEF Opened, Shut, Closed, Underway
<1>5. ASSUME Launch PROVE LoadInv'
  <2>1. /\ rows' = rows /\ seen' = seen /\ pc = "launch" /\ pc' \in {"launch", "started", "fatal"}
        /\ \E s \in {"pending", "none"} : job' = [job EXCEPT ![cell] = s]
    BY <1>0, <1>5, NextCellStep, GotoStep DEF Launch, Fatal
  <2>2. \A c \in Cell : job'[c] \in Lived => job'[c] = job[c]
    BY <1>0, <2>1 DEF Lived
  <2>3. \A c \in Cell : SeenLoaded(c)'
    BY <2>1, <2>2 DEF LoadInv, SeenLoaded, Opened, Shut, Closed, Underway
  <2>4. AcceptedUnderLoad'
    BY <2>1 DEF LoadInv, AcceptedUnderLoad, Accepted, Windows
  <2> QED
    BY <2>1, <2>3, <2>4 DEF LoadInv
<1>6. ASSUME AwaitStart \/ SleepUntil PROVE LoadInv'
  <2>1. /\ rows' = rows /\ job' = job /\ seen' = seen
        /\ \/ pc' = "fatal"
           \/ pc = "started" /\ pc' \in {"started", "warm"}
           \/ pc = "warm" /\ pc' = "open" /\ cell' = 1
           \/ pc = "mid" /\ pc' = "snapmid"
           \/ pc = "end" /\ pc' = "close" /\ cell' = 1
    BY <1>0, <1>6, NextCellStep, GotoStep DEF AwaitStart, SleepUntil, Fatal
  <2>2. \A c \in Cell : ~(c < 1)
    BY <1>0
  <2> QED
    BY <1>2, <2>1, <2>2, LoadStutter DEF Opened, Shut, Closed, Underway
<1>7. ASSUME OpenWindow PROVE LoadInv'
  <2>1. /\ pc = "open" /\ NextCell("mid") /\ job' = job /\ rows' = rows
        /\ seen'[cell].open = [process |-> {Process(cell)}, agent |-> agent[cell],
                               loaded |-> job[cell] = "running", spans |-> SpansSoFar(cell)]
        /\ \A c \in Cell \ {cell} : seen'[c] = seen[c]
    BY <1>0, <1>7, OpenWindowCell
  <2>2. /\ cell' \in Cell
        /\ \/ pc' = "open" /\ \A c \in Cell : c < cell' <=> (c < cell \/ c = cell)
           \/ pc' = "mid"  /\ \A c \in Cell : c < cell \/ c = cell
    BY <1>0, <2>1, TurnOfCells
  <2>3. seen'[cell].open.loaded = (job[cell] = "running")
    BY <2>1
  <2>4. ASSUME NEW c \in Cell PROVE SeenLoaded(c)'
    <3>1. ~Shut(c)' /\ ~Closed' /\ ~Closed /\ pc \in Underway
      BY <2>1, <2>2 DEF Shut, Closed, Underway
    <3>2. job'[c] \in Lived => job'[c] = "running"
      BY <2>1, <3>1 DEF LoadInv, SeenLoaded
    <3>3. CASE c = cell
      BY <2>1, <2>3, <3>1, <3>2, <3>3 DEF SeenLoaded
    <3>4. CASE c # cell
      <4>1. Opened(c)' => Opened(c)
        BY <2>1, <2>2, <3>4 DEF Opened
      <4> QED
        BY <2>1, <3>1, <3>2, <3>4, <4>1 DEF LoadInv, SeenLoaded
    <3> QED
      BY <3>3, <3>4
  <2>5. AcceptedUnderLoad'
    BY <2>1 DEF LoadInv, AcceptedUnderLoad, Accepted, Windows
  <2> QED
    BY <2>2, <2>4, <2>5 DEF LoadInv
<1>8. ASSUME SnapMid PROVE LoadInv'
  <2>1. rows' = rows /\ job' = job /\ pc = "snapmid" /\ pc' \in {"snapmid", "end"}
    BY <1>0, <1>8, NextCellStep DEF SnapMid
  <2>2. \A c \in Cell : seen'[c].open = seen[c].open /\ seen'[c].close = seen[c].close
    BY <1>0, <1>8, OtherReads
  <2> QED
    BY <2>1, <2>2, LoadStutter DEF Opened, Shut, Closed, Underway
<1>9. ASSUME CloseWindow PROVE LoadInv'
  <2>1. /\ pc = "close" /\ NextCell("wait_all") /\ job' = job /\ rows' = rows
        /\ seen'[cell].open = seen[cell].open
        /\ \E n : seen'[cell].close = [process |-> {Process(cell)}, agent |-> agent[cell],
                                       loaded |-> job[cell] = "running",
                                       spans |-> seen[cell].open.spans + n]
        /\ \A c \in Cell \ {cell} : seen'[c] = seen[c]
    BY <1>0, <1>9, CloseWindowCell
  <2>2. /\ cell' \in Cell
        /\ \/ pc' = "close" /\ \A c \in Cell : c < cell' <=> (c < cell \/ c = cell)
           \/ pc' = "wait_all" /\ \A c \in Cell : c < cell \/ c = cell
    BY <1>0, <2>1, TurnOfCells
  <2>3. seen'[cell].close.loaded = (job[cell] = "running")
    BY <2>1
  <2>4. ASSUME NEW c \in Cell PROVE SeenLoaded(c)'
    <3>1. Opened(c) /\ ~Closed /\ pc \in Underway
      BY <2>1 DEF Opened, Closed, Underway
    <3>2. job'[c] \in Lived => job'[c] = "running" /\ seen[c].open.loaded
      BY <2>1, <3>1 DEF LoadInv, SeenLoaded
    <3>3. CASE c = cell
      BY <2>1, <2>3, <3>2, <3>3 DEF SeenLoaded
    <3>4. CASE c # cell
      <4>1. Shut(c)' => Shut(c)
        BY <2>1, <2>2, <3>4 DEF Shut, Closed
      <4> QED
        BY <2>1, <3>2, <3>4, <4>1 DEF LoadInv, SeenLoaded
    <3> QED
      BY <3>3, <3>4
  <2>5. AcceptedUnderLoad'
    BY <2>1 DEF LoadInv, AcceptedUnderLoad, Accepted, Windows
  <2> QED
    BY <2>2, <2>4, <2>5 DEF LoadInv
<1>10. ASSUME WaitAll \/ SinkEnd PROVE LoadInv'
  <2>1. rows' = rows /\ job' = job /\ pc \in {"wait_all", "sink"} /\ pc' \in {"sink", "collect"}
    BY <1>0, <1>10, NextCellStep, GotoStep DEF WaitAll, SinkEnd
  <2>2. \A c \in Cell : seen'[c].open = seen[c].open /\ seen'[c].close = seen[c].close
    BY <1>0, <1>10, OtherReads DEF WaitAll
  <2> QED
    BY <2>1, <2>2, LoadStutter DEF Opened, Shut, Closed, Underway
<1>11. ASSUME Collect PROVE LoadInv'
  <2>1. /\ rows' = rows /\ pc = "collect" /\ pc' = "judge" /\ cell' = cell
        /\ job' = [job EXCEPT ![cell] = "none"]
    BY <1>11 DEF Collect
  <2>2. \A c \in Cell : seen'[c].open = seen[c].open /\ seen'[c].close = seen[c].close
    BY <1>0, <1>11, OtherReads
  <2>3. ev'[cell].k6 # {} => job[cell] \in {"succeeded", "failedLate"}
    <3>1. PICK F : ev' = [ev EXCEPT ![cell].k6 = IF F = {} /\ job[cell] \in {"succeeded", "failedLate"}
                                                THEN {K6Summary} ELSE {}]
      BY <1>11, Zenon DEF Collect
    <3> QED
      BY <1>0, <3>1 DEF Files
  <2>4. SeenLoaded(cell) /\ Opened(cell) /\ Shut(cell)
    BY <1>0, <2>1 DEF LoadInv, Opened, Shut, Closed
  <2>5. \A c \in Cell : SeenLoaded(c)'
    BY <1>0, <2>1, <2>2 DEF LoadInv, SeenLoaded, Lived, Opened, Shut, Closed
  <2>6. AcceptedUnderLoad'
    BY <2>1 DEF LoadInv, AcceptedUnderLoad, Accepted, Windows
  <2> QED
    BY <1>0, <2>1, <2>2, <2>3, <2>4, <2>5, <2>6 DEF LoadInv, SeenLoaded, Lived
<1>12. ASSUME Judge \/ Kill PROVE AcceptedUnderLoad'
  <2> SUFFICES ASSUME NEW c \in Cell, NEW w \in Windows(c)', w.gate = "accepted"
               PROVE  w.loaded
    BY DEF AcceptedUnderLoad, Accepted
  <2>1. CASE w \in Windows(c)
    BY <2>1 DEF LoadInv, AcceptedUnderLoad, Accepted
  <2>2. CASE w \notin Windows(c)
    <3>1. /\ c = cell /\ pc = "judge" /\ w.loaded = (seen[c].open.loaded /\ seen[c].close.loaded)
          /\ JudgedRow(c).gate = "accepted"
      BY <1>0, <1>12, <2>2, WindowAdded
    <3>2. ev[c].k6 # {}
      BY <3>1, AcceptedSummary
    <3> QED
      BY <3>1, <3>2 DEF LoadInv
  <2> QED
    BY <2>1, <2>2
<1>13. ASSUME Judge PROVE LoadInv'
  <2>1. job' = job /\ seen' = seen /\ pc = "judge" /\ pc' \in {"collect", "sampling", "done"}
    BY <1>13, GotoStep DEF Judge
  <2>2. \A c \in Cell : SeenLoaded(c)'
    BY <2>1 DEF LoadInv, SeenLoaded, Opened, Shut, Closed, Underway
  <2> QED
    BY <1>12, <1>13, <2>1, <2>2 DEF LoadInv
<1>14. ASSUME Kill PROVE LoadInv'
  <2>1. pc' = "killed"
    BY <1>14, GotoStep DEF Kill
  <2> QED
    BY <1>12, <1>14, <2>1 DEF LoadInv, SeenLoaded, Opened, Shut, Closed, Underway
<1>15. ASSUME NEW c \in Cell,
              Deliver(c) \/ Attach(c) \/ Disrupt(c) \/ JobStart(c) \/ JobEnd(c) \/ JobDies(c)
              \/ UNCHANGED vars
       PROVE  LoadInv'
  <2>1. pc' = pc /\ cell' = cell /\ ev' = ev /\ seen' = seen /\ rows' = rows
    BY <1>15 DEF Deliver, Attach, Disrupt, JobStart, JobEnd, JobDies, runnerVars, vars
  <2>2. \A d \in Cell : (Opened(d)' <=> Opened(d)) /\ (Shut(d)' <=> Shut(d))
    BY <2>1 DEF Opened, Shut, Closed
  <2>3. \A d \in Cell \ {c} : job'[d] = job[d]
    BY <1>0, <1>15 DEF Deliver, Attach, Disrupt, JobStart, JobEnd, JobDies, vars
  <2>4. \/ job'[c] = job[c]
        \/ job[c] = "pending" /\ job'[c] = "running"
        \/ job[c] = "running" /\ Closed /\ job'[c] \in {"succeeded", "failedLate"}
        \/ job'[c] = "failed"
    BY <1>0, <1>15 DEF Deliver, Attach, Disrupt, JobStart, JobEnd, JobDies, vars
  <2>5. job[c] = "pending" => ~Opened(c) /\ ~Shut(c)
    BY DEF PhaseInv, DbInv, Loading, Opened, Shut, Closed
  <2>6. Closed' <=> Closed
    BY <2>1 DEF Closed
  <2>7. SeenLoaded(c)'
    BY <2>1, <2>2, <2>4, <2>5, <2>6 DEF LoadInv, SeenLoaded, Lived
  <2>8. \A d \in Cell : SeenLoaded(d)'
    BY <2>1, <2>2, <2>3, <2>6, <2>7 DEF LoadInv, SeenLoaded
  <2>9. AcceptedUnderLoad'
    BY <2>1 DEF LoadInv, AcceptedUnderLoad, Accepted, Windows
  <2> QED
    BY <2>1, <2>8, <2>9 DEF LoadInv
<1> QED
  BY <1>0, <1>3, <1>4, <1>5, <1>6, <1>7, <1>8, <1>9, <1>10, <1>11, <1>13, <1>14, <1>15
     DEF Next, Runner, Cluster

\* Whatever jobs die and whatever reads are lost, a window is accepted only when
\* its k6 job was loading the cell at both ends: a job that dies before the close
\* leaves no summary, and one that dies after it has loaded the whole window
\* (run.sh:411, :468, :484; gate.py:216-217).
THEOREM AcceptedWindowsWereLoaded == Spec => []AcceptedUnderLoad
<1>1. Spec => [](PhaseInv /\ LoadInv)
  BY InitPhaseInv, InitLoadInv, PhaseStep, LoadStep, PTL DEF Spec
<1>2. LoadInv => AcceptedUnderLoad
  BY DEF LoadInv
<1> QED
  BY <1>1, <1>2, PTL


-----------------------------------------------------------------------------
(***************************************************************************)
(* RESTART=each: every arm is measured on a pod of its own.                *)
(***************************************************************************)

\* Processes of S ran in earlier pods than those of T.
Older(S, T) == \A x \in S, y \in T : x[1] < y[1]

\* The windows of the arms before this one were opened in pods that are gone once
\* this arm has restarted the cell.
PastWindow(c, w) ==
  /\ w.opened # {} /\ w.slot <= idx
  /\ pc \in {"sampling", "restart"} => w.slot < idx
  /\ \A x \in w.opened : x[1] <= pod[c]
  /\ pc \in Underway /\ w.slot < idx =>
       Older(w.opened, {Process(c)}) /\ Older(w.opened, seen[c].open.process)

FreshCell(c) ==
  /\ pc = "restart" => seen[c].open.process = {}
  /\ Opened(c) => seen[c].open.process # {}
  /\ \A y \in seen[c].open.process : y[1] <= pod[c]
  /\ \A w \in Windows(c) : PastWindow(c, w)
  /\ \A v, w \in Windows(c) : v.slot < w.slot => Older(v.opened, w.opened)

FreshInv == \A c \in Cell : FreshCell(c)

LEMMA InitFreshInv == Init => FreshInv
<1> SUFFICES ASSUME Init, NEW c \in Cell PROVE FreshCell(c)
  BY DEF FreshInv
<1>1. Windows(c) = {} /\ seen[c].open.process = {} /\ pc = "sampling"
  BY DEF Init, Windows, Unseen
<1> QED
  BY <1>1 DEF FreshCell, Opened

\* What kind of values a window and the cluster hold.
LEMMA FreshTypes ==
  ASSUME TypeOK, NEW c \in Cell
  PROVE  /\ idx \in Nat /\ pod[c] \in Nat /\ restarts[c] \in Nat
         /\ \A y \in seen[c].open.process : y[1] \in Nat
         /\ \A w \in Windows(c) : w.slot \in Nat /\ \A x \in w.opened : x[1] \in Nat
<1>1. idx \in Nat /\ pod[c] \in Nat /\ restarts[c] \in Nat
  BY RunnerAssumption DEF TypeOK
<1>2. seen[c].open.process \in SUBSET (Nat \X Nat)
  BY DEF TypeOK, Truth, Sight
<1>3. \A w \in Windows(c) : w \in Window
  BY DEF TypeOK, Windows
<1>4. \A w \in Windows(c) : w.slot \in Nat /\ w.opened \in SUBSET (Nat \X Nat)
  BY <1>3 DEF Window
<1> QED
  BY <1>1, <1>2, <1>4

\* A step that leaves what was seen and the rows, opens no window, and at most
\* moves the cell to a later pod.
LEMMA FreshStutter ==
  ASSUME TypeOK, TypeOK', FreshInv, rows' = rows, idx' = idx,
         \A c \in Cell : seen'[c].open = seen[c].open,
         \A c \in Cell : pod'[c] >= pod[c],
         \A c \in Cell : Opened(c)' => Opened(c),
         pc' \in {"sampling", "restart"} => pc' = pc,
         pc' \in Underway => pc \in Underway
  PROVE  FreshInv'
<1> SUFFICES ASSUME NEW c \in Cell PROVE FreshCell(c)'
  BY DEF FreshInv
<1>1. FreshCell(c) /\ Windows(c)' = Windows(c)
  BY DEF FreshInv, Windows
<1>2. /\ idx \in Nat /\ pod[c] \in Nat /\ pod'[c] \in Nat
      /\ \A y \in seen[c].open.process : y[1] \in Nat
      /\ \A w \in Windows(c) : w.slot \in Nat /\ \A x \in w.opened : x[1] \in Nat
  BY FreshTypes DEF TypeOK
<1>3. ASSUME NEW w \in Windows(c) PROVE PastWindow(c, w)'
  <2>1. PastWindow(c, w)
    BY <1>1 DEF FreshCell
  <2>2. \A x \in w.opened : x[1] <= pod'[c]
    BY <1>2, <2>1 DEF PastWindow
  <2>3. pc' \in Underway /\ w.slot < idx => Older(w.opened, {<<pod'[c], restarts'[c]>>})
    BY <1>2, <2>1 DEF PastWindow, Older, Process
  <2> QED
    BY <2>1, <2>2, <2>3 DEF PastWindow, Process
<1>4. \A y \in seen'[c].open.process : y[1] <= pod'[c]
  BY <1>1, <1>2 DEF FreshCell
<1> QED
  BY <1>1, <1>3, <1>4 DEF FreshCell

LEMMA FreshStep ==
  ASSUME RestartEach, RestartFaults = 0
  PROVE  TypeOK /\ TypeOK' /\ BudgetInv /\ FreshInv /\ [Next]_vars => FreshInv'
<1> SUFFICES ASSUME TypeOK, TypeOK', BudgetInv, FreshInv, [Next]_vars
             PROVE  FreshInv'
  OBVIOUS
<1>0. /\ cell \in Cell /\ 1 \in Cell /\ \A c \in Cell : c \in Int /\ 1 <= c
      /\ pod \in [Cell -> Nat] /\ restarts \in [Cell -> Nat]
  <2>1. 1 \in Cell /\ \A c \in Cell : c \in Int /\ 1 <= c
    BY RunnerAssumption DEF Cell
  <2> QED
    BY <2>1 DEF TypeOK
<1>1. ASSUME SetSampling PROVE FreshInv'
  <2>1. /\ pc = "sampling" /\ pc' = "restart" /\ idx' = idx /\ rows' = rows /\ pod' = pod
        /\ \A c \in Cell : seen'[c] = Unseen
    BY <1>1, GotoStep DEF SetSampling
  <2> SUFFICES ASSUME NEW c \in Cell PROVE FreshCell(c)'
    BY DEF FreshInv
  <2>2. seen'[c].open.process = {}
    BY <2>1 DEF Unseen
  <2>3. \A w \in Windows(c) : PastWindow(c, w) /\ w.slot < idx
    BY <2>1 DEF FreshInv, FreshCell, PastWindow
  <2>4. Windows(c)' = Windows(c)
    BY <2>1 DEF Windows
  <2>5. \A w \in Windows(c) : PastWindow(c, w)'
    BY <2>1, <2>3 DEF PastWindow, Underway
  <2> QED
    BY <2>1, <2>2, <2>4, <2>5 DEF FreshInv, FreshCell, Opened
<1>2. ASSUME ResetAndRestart PROVE FreshInv'
  <2>1. PICK F \in Fails("restart", Cell) :
          pod' = [c \in Cell |-> IF c \in F THEN pod[c] ELSE pod[c] + 1]
    BY <1>2 DEF ResetAndRestart
  <2>2. F = {}
    <3>1. "restart" \in Failure \ {"any"}
      BY DEF Failure
    <3>2. F # {} => Cardinality(F) >= 1
      BY <3>1, FiniteCells, SpendStep
    <3>3. Cardinality(F) \in Nat /\ Cardinality(F) <= budget["restart"]
      BY <3>1, FiniteCells, SpendStep
    <3>4. budget["restart"] <= 0 /\ budget["restart"] \in Nat
      BY DEF BudgetInv, Failure
    <3> QED
      BY <3>2, <3>3, <3>4
  <2>3. \A c \in Cell : pod'[c] = pod[c] + 1
    BY <2>1, <2>2
  <2>4. /\ pc = "restart" /\ pc' = "health" /\ idx' = idx /\ rows' = rows /\ seen' = seen
    BY <1>2, GotoStep DEF ResetAndRestart
  <2> SUFFICES ASSUME NEW c \in Cell PROVE FreshCell(c)'
    BY DEF FreshInv
  <2>5. seen'[c].open.process = {} /\ Windows(c)' = Windows(c)
    BY <2>4 DEF FreshInv, FreshCell, Windows
  <2>6. pod[c] \in Nat /\ \A w \in Windows(c) : \A x \in w.opened : x[1] \in Nat
    BY FreshTypes
  <2>7. ASSUME NEW w \in Windows(c) PROVE PastWindow(c, w)'
    <3>1. PastWindow(c, w)
      BY DEF FreshInv, FreshCell
    <3>2. \A x \in w.opened : x[1] <= pod'[c] /\ x[1] < pod'[c]
      BY <2>3, <2>6, <3>1 DEF PastWindow
    <3>3. Older(w.opened, {<<pod'[c], restarts'[c]>>})
      BY <3>2 DEF Older
    <3> QED
      BY <2>4, <2>5, <3>1, <3>2, <3>3 DEF PastWindow, Process, Older
  <2> QED
    BY <2>4, <2>5, <2>7 DEF FreshInv, FreshCell, Opened
<1>3. ASSUME \/ WaitHealthy \/ WaitIc \/ AdminReset \/ Capture \/ Launch \/ AwaitStart \/ SleepUntil
             \/ SnapMid \/ CloseWindow \/ WaitAll \/ SinkEnd \/ Collect
      PROVE  FreshInv'
  <2>1. /\ rows' = rows /\ idx' = idx /\ pod' = pod
        /\ pc \in Underway /\ pc' \notin {"sampling", "restart"}
    BY <1>0, <1>3, NextCellStep, GotoStep
       DEF WaitHealthy, WaitIc, AdminReset, Capture, Launch, AwaitStart, SleepUntil, SnapMid,
           CloseWindow, WaitAll, SinkEnd, Collect, Fatal, Underway, clusterVars
  <2>2. \A c \in Cell : seen'[c].open = seen[c].open
    <3>1. CASE CloseWindow
      BY <3>1, CloseWindowCell
    <3>2. CASE Capture \/ SnapMid \/ SinkEnd \/ Collect
      BY <3>2, OtherReads
    <3>3. CASE WaitHealthy \/ WaitIc \/ AdminReset \/ Launch \/ AwaitStart \/ SleepUntil \/ WaitAll
      BY <3>3 DEF WaitHealthy, WaitIc, AdminReset, Launch, AwaitStart, SleepUntil, WaitAll
    <3> QED
      BY <1>3, <3>1, <3>2, <3>3
  <2>3. ASSUME NEW c \in Cell, Opened(c)' PROVE Opened(c)
    <3>1. \/ pc \in {"mid", "snapmid", "end", "close", "wait_all", "sink", "collect"}
          \/ pc' \notin {"mid", "snapmid", "end", "close", "wait_all", "sink", "collect", "judge"}
             /\ (pc' = "open" => cell' = 1)
      BY <1>0, <1>3, NextCellStep, GotoStep
         DEF WaitHealthy, WaitIc, AdminReset, Capture, Launch, AwaitStart, SleepUntil, SnapMid,
             CloseWindow, WaitAll, SinkEnd, Collect, Fatal
    <3> QED
      BY <1>0, <2>3, <3>1 DEF Opened
  <2>4. \A c \in Cell : pod'[c] >= pod[c]
    BY <1>0, <2>1
  <2> QED
    BY <2>1, <2>2, <2>3, <2>4, FreshStutter
<1>4. ASSUME OpenWindow PROVE FreshInv'
  <2>1. /\ pc = "open" /\ NextCell("mid") /\ rows' = rows /\ clusterVars' = clusterVars
        /\ seen'[cell].open = [process |-> {Process(cell)}, agent |-> agent[cell],
                               loaded |-> job[cell] = "running", spans |-> SpansSoFar(cell)]
        /\ \A c \in Cell \ {cell} : seen'[c] = seen[c]
    BY <1>4, OpenWindowCell
  <2>2. /\ cell' \in Cell /\ idx' = idx
        /\ \/ pc' = "open" /\ \A c \in Cell : c < cell' <=> (c < cell \/ c = cell)
           \/ pc' = "mid"  /\ \A c \in Cell : c < cell \/ c = cell
    BY <2>1, TurnOfCells
  <2>3. pod' = pod /\ restarts' = restarts /\ seen'[cell].open.process = {Process(cell)}
    BY <2>1 DEF clusterVars
  <2> SUFFICES ASSUME NEW c \in Cell PROVE FreshCell(c)'
    BY DEF FreshInv
  <2>4. FreshCell(c) /\ Windows(c)' = Windows(c) /\ Process(c)' = Process(c)
    BY <2>1, <2>3 DEF FreshInv, Windows, Process
  <2>5. Process(cell)[1] = pod[cell] /\ pod[cell] \in Nat
    BY <1>0 DEF Process
  <2>6. CASE c = cell
    <3>1. /\ seen'[c].open.process = {Process(c)}
          /\ \A y \in seen'[c].open.process : y[1] <= pod'[c]
      BY <2>3, <2>5, <2>6
    <3>2. \A w \in Windows(c) : PastWindow(c, w)'
      BY <2>1, <2>2, <2>3, <2>4, <3>1 DEF FreshCell, PastWindow, Underway
    <3> QED
      BY <2>2, <2>4, <3>1, <3>2 DEF FreshCell
  <2>7. CASE c # cell
    <3>1. seen'[c] = seen[c]
      BY <2>1, <2>7
    <3>2. Opened(c)' => Opened(c)
      BY <2>1, <2>2, <2>7 DEF Opened
    <3>3. \A w \in Windows(c) : PastWindow(c, w)'
      BY <2>1, <2>2, <2>3, <2>4, <3>1 DEF FreshCell, PastWindow, Underway
    <3> QED
      BY <2>2, <2>3, <2>4, <3>1, <3>2, <3>3 DEF FreshCell
  <2> QED
    BY <2>6, <2>7
<1>5. ASSUME Judge \/ Kill PROVE FreshInv'
  <2>1. seen' = seen /\ pod' = pod /\ restarts' = restarts
    BY <1>5 DEF Judge, Kill, clusterVars
  <2>2. \/ idx' = idx /\ pc' \in {"collect", "done", "killed"} /\ (pc' = "collect" => pc = "judge")
        \/ idx' = idx + 1 /\ pc' = "sampling" /\ pc = "judge"
    BY <1>5, GotoStep DEF Judge, Kill
  <2> SUFFICES ASSUME NEW c \in Cell PROVE FreshCell(c)'
    BY DEF FreshInv
  <2>3. FreshCell(c)
    BY DEF FreshInv
  <2>4. /\ idx \in Nat /\ pod[c] \in Nat
        /\ \A w \in Windows(c) : w.slot \in Nat
    BY FreshTypes
  <2>5. \A w \in Windows(c)' :
          \/ w \in Windows(c)
          \/ /\ c = cell /\ pc = "judge" /\ w.slot = idx /\ w.opened = seen[c].open.process
    BY <1>5, WindowAdded
  <2>6. pc = "judge" => seen[c].open.process # {}
    BY <2>3 DEF FreshCell, Opened
  <2>7. ASSUME NEW w \in Windows(c)' PROVE PastWindow(c, w)'
    <3>1. CASE w \in Windows(c)
      <4>0. PastWindow(c, w)
        BY <2>3, <3>1 DEF FreshCell
      <4>1. w.slot <= idx'
        BY <2>2, <2>4, <3>1, <4>0 DEF PastWindow
      <4>2. pc' = "sampling" => w.slot < idx'
        BY <2>2, <2>4, <3>1, <4>0 DEF PastWindow
      <4>3. pc' \in Underway => pc \in Underway /\ idx' = idx
        BY <2>2 DEF Underway
      <4> QED
        BY <2>1, <2>2, <4>0, <4>1, <4>2, <4>3 DEF PastWindow, Process
    <3>2. CASE w \notin Windows(c)
      <4>1. pc = "judge" /\ w.slot = idx /\ w.opened = seen[c].open.process /\ w.opened # {}
        BY <2>5, <2>6, <3>2
      <4>2. \A x \in w.opened : x[1] <= pod[c]
        BY <2>3, <4>1 DEF FreshCell
      <4>3. w.slot <= idx' /\ (pc' = "sampling" => w.slot < idx') /\ (pc' \in Underway => ~(w.slot < idx'))
        BY <2>2, <2>4, <4>1 DEF Underway
      <4> QED
        BY <2>1, <2>2, <4>1, <4>2, <4>3 DEF PastWindow
    <3> QED
      BY <3>1, <3>2
  <2>8. ASSUME NEW v \in Windows(c)', NEW w \in Windows(c)', v.slot < w.slot
        PROVE  Older(v.opened, w.opened)
    <3>1. CASE v \in Windows(c) /\ w \in Windows(c)
      BY <2>3, <2>8, <3>1 DEF FreshCell
    <3>2. CASE v \in Windows(c) /\ w \notin Windows(c)
      <4>1. PastWindow(c, v) /\ pc = "judge" /\ v.slot < idx /\ w.opened = seen[c].open.process
        BY <2>3, <2>5, <2>8, <3>2 DEF FreshCell
      <4> QED
        BY <4>1 DEF PastWindow, Underway
    <3>3. CASE v \notin Windows(c)
      <4>1. v.slot = idx
        BY <2>5, <3>3
      <4>2. w.slot <= idx /\ w.slot \in Nat
        BY <2>3, <2>4, <2>5 DEF FreshCell, PastWindow
      <4> QED
        BY <2>4, <2>8, <4>1, <4>2
    <3> QED
      BY <3>1, <3>2, <3>3
  <2>9. Opened(c)' => Opened(c)
    BY <2>2 DEF Opened
  <2> QED
    BY <2>1, <2>2, <2>3, <2>7, <2>8, <2>9 DEF FreshCell
<1>6. ASSUME NEW c \in Cell,
             Deliver(c) \/ Attach(c) \/ Disrupt(c) \/ JobStart(c) \/ JobEnd(c) \/ JobDies(c)
             \/ UNCHANGED vars
      PROVE  FreshInv'
  <2>1. pc' = pc /\ cell' = cell /\ idx' = idx /\ seen' = seen /\ rows' = rows
    BY <1>6 DEF Deliver, Attach, Disrupt, JobStart, JobEnd, JobDies, runnerVars, vars
  <2>2. pod' = pod \/ pod' = [pod EXCEPT ![c] = @ + 1]
    BY <1>6 DEF Deliver, Attach, Disrupt, JobStart, JobEnd, JobDies, vars
  <2>3. \A d \in Cell : pod'[d] >= pod[d]
    BY <1>0, <2>2
  <2>4. \A d \in Cell : Opened(d)' => Opened(d)
    BY <2>1 DEF Opened
  <2> QED
    BY <2>1, <2>3, <2>4, FreshStutter
<1> QED
  BY <1>0, <1>1, <1>2, <1>3, <1>4, <1>5, <1>6 DEF Next, Runner, Cluster

\* When "rollout restart" is not refused, no process is measured in two arms,
\* whatever else fails and however often the cluster restarts containers or
\* replaces pods of its own: each arm's windows open in a later pod than those of
\* the arms before it (run.sh:42, :153-156, :376-377).  The hypothesis is needed:
\* the exit status of the restart is not looked at, and "rollout status" is
\* content with the pod that never left.
THEOREM EveryArmItsOwnPod == ASSUME RestartFaults = 0 PROVE Spec => []FreshJvmPerArm
<1>1. CASE ~RestartEach
  <2>1. FreshJvmPerArm
    BY <1>1 DEF FreshJvmPerArm
  <2> QED
    BY <2>1, PTL
<1>2. CASE RestartEach
  <2>1. TypeOK /\ TypeOK' /\ BudgetInv /\ FreshInv /\ [Next]_vars => FreshInv'
    BY <1>2, FreshStep
  <2>2. Spec => [](TypeOK /\ BudgetInv /\ FreshInv)
    BY <2>1, InitTypeOK, InitBudget, InitFreshInv, NextTypeOK, BudgetStep, PTL DEF Spec
  <2>3. TypeOK /\ FreshInv => FreshJvmPerArm
    <3> SUFFICES ASSUME TypeOK, FreshInv, NEW c \in Cell, NEW v \in Accepted(c), NEW w \in Accepted(c),
                        v.slot # w.slot, v.opened = w.opened
                 PROVE  FALSE
      BY DEF FreshJvmPerArm
    <3>1. FreshCell(c) /\ v \in Windows(c) /\ w \in Windows(c)
      BY DEF FreshInv, Accepted
    <3>2. v.slot \in Nat /\ w.slot \in Nat /\ \A x \in v.opened : x[1] \in Nat
      BY <3>1, FreshTypes
    <3>3. Older(v.opened, w.opened) \/ Older(w.opened, v.opened)
      BY <3>1, <3>2 DEF FreshCell
    <3>4. PICK x \in v.opened : TRUE
      BY <3>1 DEF FreshCell, PastWindow
    <3> QED
      BY <3>2, <3>3, <3>4 DEF Older
  <2> QED
    BY <2>2, <2>3, PTL
<1> QED
  BY <1>1, <1>2
=============================================================================
