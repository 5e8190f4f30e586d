----------------------------- MODULE ArmRunner ------------------------------
(***************************************************************************)
(* bin/run.sh: one bracketed run.  Every cell goes through the same arm in *)
(* lockstep; the runner reconfigures Odigos, restarts, resets, loads,      *)
(* takes snapshots around a window, and has gate.py judge it.              *)
(*                                                                         *)
(* The cluster moves on its own between any two of the runner's commands:  *)
(* Odigos delivers an InstrumentationConfig and its agent attaches late, a *)
(* container restarts, a k6 job starts, ends or dies, and a kubectl call   *)
(* fails.  Failures are bounded by budgets (the CONSTANTS).                *)
(***************************************************************************)
EXTENDS Gate, Deltas, Sequences, FiniteSets

CONSTANTS
  NCells,        \* $CELLS, taken in order
  Arms,          \* $ARMS
  RestartEach,   \* RESTART=each, or once
  ReadFaults,    \* failed evidence reads, over the whole run
  ApplyFaults,   \* failed writes of a Source or a Sampling
  RestartFaults, \* failed "rollout restart deploy/$APP" calls
  Disruptions,   \* containers restarted or pods replaced by the cluster
  JobFaults,     \* k6 jobs that die
  AnyFaults,     \* failures of all these kinds together
  MayBeKilled    \* whether the runner may be killed (incluster.sh stop)

ASSUME RunnerAssumption ==
  /\ NCells \in Nat \ {0}
  /\ Arms \in Seq(Arm) /\ Len(Arms) > 0
  /\ RestartEach \in BOOLEAN /\ MayBeKilled \in BOOLEAN
  /\ {ReadFaults, ApplyFaults, RestartFaults, Disruptions, JobFaults, AnyFaults} \subseteq Nat

Cell == 1..NCells

VARIABLES
  pc,       \* the runner's place in the arm's sequence of steps
  cell,     \* the cell of the for loop it is in
  idx,      \* the arm
  source,   \* source[c]: a Source selects the cell's workload
  rule,     \* the Sampling percentage in the cluster, 100 for none
  ic,       \* ic[c]: what the InstrumentationConfig asks for, Off for none
  pod,      \* pod[c]: which pod of the app is running, counted
  restarts, \* restarts[c]: that pod's restartCount
  agent,    \* agent[c]: what the running process carries
  db,       \* db[c]: the ring, reset and verified, written by a job since, or unknown
  job,      \* job[c]: the k6 job
  ev,       \* ev[c]: the files under $RD for the current arm
  seen,     \* seen[c]: what really happened in the cell's window
  rows,     \* rows[c]: the judged windows, one per finished arm
  budget    \* failures the environment has left

clusterVars == <<source, rule, ic, pod, restarts, agent, db>>
vars == <<pc, cell, idx, source, rule, ic, pod, restarts, agent, db, job, ev, seen, rows, budget>>

-----------------------------------------------------------------------------
\* What a process can carry: Off, the agent at a percentage, or the woven
\* bytecode of an agent that was detached again.
Woven == 0
AgentState == Arm \cup {Woven}

\* Design spans per request, in hundredths, and what the sink counts of them.
Expect == 1000
SpansOf(a) == IF a <= 0 THEN 0 ELSE (Expect * a) \div 100

\* A window in which the configuration changed shows a rate strictly between.
Observed(a, b) ==
  LET lo == IF SpansOf(a) < SpansOf(b) THEN SpansOf(a) ELSE SpansOf(b)
      hi == IF SpansOf(a) < SpansOf(b) THEN SpansOf(b) ELSE SpansOf(a)
  IN IF lo = hi THEN {lo} ELSE {lo + 10, hi - 10}

\* The one process a pod's container runs between two of its restarts.
Process(c) == <<pod[c], restarts[c]>>

Desired(c) == IF source[c] THEN rule ELSE Off

\* ic.yaml, as gate.py reads it.
OtherText == [crd |-> FALSE, enabled |-> FALSE, pct |-> {}]
IcText(i) ==
  IF i = Off THEN OtherText
  ELSE [crd |-> TRUE, enabled |-> TRUE, pct |-> IF i = 100 THEN {} ELSE {i}]

\* The files of one arm, by the step that writes them; the set of what a read
\* printed is empty when it failed.
NoFiles ==
  [ic |-> {}, reset |-> {},
   start |-> [pod |-> {}, rs |-> {}, cg |-> {}, jvm |-> {}, sink |-> {}],
   mid |-> {},
   end |-> [pod |-> {}, rs |-> {}, cg |-> {}, jvm |-> {}],
   sink |-> [spans |-> {}, completed |-> FALSE], k6 |-> {}]

\* The truth behind the files, which the runner cannot see: the process, what
\* it carried, whether k6 loaded it and the spans the sink had counted, when the
\* window opened and closed, and which reads were lost.
Unseen ==
  LET nothing == [process |-> {}, agent |-> Off, loaded |-> FALSE, spans |-> 0]
  IN [open |-> nothing, close |-> nothing, lost |-> {}]

\* What the sink's counters of the cell's service hold when a window opens:
\* nothing until an agent has exported, then the spans of every phase so far.
SpansSoFar(c) ==
  IF agent[c] > 0 \/ \E n \in DOMAIN rows[c] : rows[c][n].agentClose > 0
  THEN 10 * Expect ELSE 0

Snap == [cpuset |-> "2,18", size |-> 2, msPerReq |-> 1000]
K6Summary == [requests |-> 1000, failed |-> 0, maxMs |-> 1, dropped |-> 0,
              rate |-> 1, tps |-> 1, checkFail |-> 0]

\* The cluster is as the last run left it, instrumented or not.
Init ==
  /\ pc = "sampling" /\ cell = 1 /\ idx = 1
  /\ rule = 100
  /\ \E instrumented \in BOOLEAN :
       /\ source = [c \in Cell |-> instrumented]
       /\ ic = [c \in Cell |-> IF instrumented THEN 100 ELSE Off]
       /\ agent = ic
  /\ pod = [c \in Cell |-> 1]
  /\ restarts = [c \in Cell |-> 0]
  /\ db = [c \in Cell |-> "unknown"]
  /\ job = [c \in Cell |-> "none"]
  /\ ev = [c \in Cell |-> NoFiles]
  /\ seen = [c \in Cell |-> Unseen]
  /\ rows = [c \in Cell |-> <<>>]
  /\ budget = [read |-> ReadFaults, apply |-> ApplyFaults, restart |-> RestartFaults,
               disrupt |-> Disruptions, job |-> JobFaults, any |-> AnyFaults]

arm == Arms[idx]

-----------------------------------------------------------------------------
\* The runner's steps.

Goto(p) == pc' = p /\ cell' = 1 /\ UNCHANGED idx

\* One turn of "for c in $CELLS; do ... done", then the step after the loop.
NextCell(p) ==
  IF cell < NCells THEN cell' = cell + 1 /\ UNCHANGED <<pc, idx>> ELSE Goto(p)

Fatal == Goto("fatal")

\* Failures of one kind, at most as many as the budget has left.
Fails(kind, what) ==
  {F \in SUBSET what : Cardinality(F) <= budget[kind] /\ Cardinality(F) <= budget.any}
Spend(kind, F) ==
  budget' = [budget EXCEPT ![kind] = @ - Cardinality(F), !.any = @ - Cardinality(F)]

\* Reads of the cell's evidence that failed.
Lose(F) == seen' = [seen EXCEPT ![cell].lost = @ \cup F]

\* Mutant: every arm after the first keeps its process.
MutSetSampling ==
  /\ pc = "sampling"
  /\ source' = [c \in Cell |-> arm # Off]
  /\ rule' = IF arm = Off THEN 100 ELSE arm
  /\ Goto(IF idx = 1 THEN "restart" ELSE "health")
  /\ ev' = [c \in Cell |-> NoFiles]
  /\ seen' = [c \in Cell |-> Unseen]
  /\ UNCHANGED <<ic, pod, restarts, agent, db, job, rows, budget>>

\* set_sampling: the Sampling is deleted, the Sources deleted or applied, and a
\* new Sampling applied; no exit code is looked at.  F holds the cells whose
\* call fails, and 0 when a call for the Sampling does: the old one stays, or
\* no new one takes its place.
SetSampling ==
  /\ pc = "sampling"
  /\ \E F \in Fails("apply", Cell \cup {0}) :
       /\ Spend("apply", F)
       /\ source' = [c \in Cell |-> IF c \in F THEN source[c] ELSE arm # Off]
       /\ rule' \in IF 0 \in F THEN {rule, 100} ELSE {IF arm = Off THEN 100 ELSE arm}
  /\ Goto(IF RestartEach \/ idx = 1 THEN "restart" ELSE "health")
  /\ ev' = [c \in Cell |-> NoFiles]
  /\ seen' = [c \in Cell |-> Unseen]
  /\ UNCHANGED <<ic, pod, restarts, agent, db, job, rows>>

\* Mutant: the wait for the rollouts is dropped, the old process still runs.
MutResetAndRestart ==
  /\ pc = "restart"
  /\ db' = [c \in Cell |-> "unknown"]
  /\ Goto("health")
  /\ UNCHANGED <<source, rule, ic, pod, restarts, agent, job, ev, seen, rows, budget>>

\* reset_and_restart: the databases lose their emptyDir and every app pod is
\* replaced (Recreate).  A failed restart call leaves the old pod running and
\* "rollout status" then reports success.  Odigos reconciles a Source in
\* seconds and the rollouts take minutes, so by then it has settled.
ResetAndRestart ==
  /\ pc = "restart"
  /\ \A c \in Cell : ic[c] = Desired(c)
  /\ \E F \in Fails("restart", Cell) :
       /\ Spend("restart", F)
       /\ pod' = [c \in Cell |-> IF c \in F THEN pod[c] ELSE pod[c] + 1]
       /\ restarts' = [c \in Cell |-> IF c \in F THEN restarts[c] ELSE 0]
       /\ agent' = [c \in Cell |-> IF c \in F THEN agent[c] ELSE Off]
  /\ db' = [c \in Cell |-> "unknown"]
  /\ Goto("health")
  /\ UNCHANGED <<source, rule, ic, job, ev, seen, rows>>

\* wait_healthy gives up after 300 s.
WaitHealthy ==
  /\ pc = "health"
  /\ NextCell("ic") \/ Fatal
  /\ UNCHANGED <<clusterVars, job, ev, seen, rows, budget>>

\* wait_ic returns 0 when the config reflects the arm, and after 90 s anyway;
\* a poll that fails prints nothing, which for the off arm reflects it.
WaitIc ==
  /\ pc = "ic"
  /\ NextCell("reset")
  /\ UNCHANGED <<clusterVars, job, ev, seen, rows, budget>>

\* Mutant: any answer is good enough.
MutAdminReset ==
  /\ pc = "reset"
  /\ \E code \in {200, 500} :
       /\ ev' = [ev EXCEPT ![cell].reset = {code}]
       /\ db' = [db EXCEPT ![cell] = IF code = 200 THEN "known" ELSE @]
       /\ NextCell("capture")
  /\ UNCHANGED <<source, rule, ic, pod, restarts, agent, job, seen, rows, budget>>

\* admin_reset must answer 200 (the app verified its rows), or the run ends.
AdminReset ==
  /\ pc = "reset"
  /\ \E code \in {200, 500} :
       /\ ev' = [ev EXCEPT ![cell].reset = {code}]
       /\ db' = [db EXCEPT ![cell] = IF code = 200 THEN "known" ELSE @]
       /\ IF code = 200 THEN NextCell("capture") ELSE Fatal
  /\ UNCHANGED <<source, rule, ic, pod, restarts, agent, job, seen, rows, budget>>

\* ic.yaml: "2>&1" saves the error text when the read fails.
Capture ==
  /\ pc = "capture"
  /\ \E F \in Fails("read", {"ic"}) :
       /\ Spend("read", F)
       /\ ev' = [ev EXCEPT ![cell].ic = {IF F = {} THEN IcText(ic[cell]) ELSE OtherText}]
       /\ Lose(F)
  /\ NextCell("launch")
  /\ UNCHANGED <<clusterVars, job, rows>>

\* launch: delete the job of that name, create it, and see that it exists.
Launch ==
  /\ pc = "launch"
  /\ \/ /\ job' = [job EXCEPT ![cell] = "pending"]
        /\ NextCell("started")
     \/ /\ job' = [job EXCEPT ![cell] = "none"]
        /\ Fatal
  /\ UNCHANGED <<clusterVars, ev, seen, rows, budget>>

\* Mutant: the poll has no deadline.
MutAwaitStart ==
  /\ pc = "started"
  /\ job[cell] = "running" /\ NextCell("warm")
  /\ UNCHANGED <<clusterVars, job, ev, seen, rows, budget>>

\* k6_started_at is polled for 300 s; a job that failed is fatal.
AwaitStart ==
  /\ pc = "started"
  /\ \/ job[cell] = "running" /\ NextCell("warm")
     \/ Fatal
  /\ UNCHANGED <<clusterVars, job, ev, seen, rows, budget>>

\* sleep_until looks at the jobs every 15 s while it sleeps: a failed one ends
\* the run, unless it failed after the last look.
SleepUntil ==
  /\ \/ /\ pc = "warm" /\ Goto("open")
     \/ /\ pc = "mid" /\ Goto("snapmid")
     \/ /\ pc = "end" /\ Goto("close")
     \/ /\ pc \in {"warm", "mid", "end"}
        /\ \E c \in Cell : job[c] = "failed"
        /\ Fatal
  /\ UNCHANGED <<clusterVars, job, ev, seen, rows, budget>>

\* The start snapshots.  A pod name that could not be read makes every read
\* that names the pod fail too.
OpenWindow ==
  /\ pc = "open"
  /\ \E F \in Fails("read", {"pod", "rs", "cgStart", "jvmStart", "sinkStart"}) :
       LET Read(f, v) == IF f \in F \/ (f \in {"rs", "cgStart"} /\ "pod" \in F) THEN {} ELSE {v}
           spans == SpansSoFar(cell) IN
       /\ Spend("read", F)
       /\ ev' = [ev EXCEPT ![cell].start =
                   [pod |-> Read("pod", pod[cell]), rs |-> Read("rs", restarts[cell]),
                    cg |-> Read("cgStart", Snap), jvm |-> Read("jvmStart", 0),
                    sink |-> Read("sinkStart", spans)]]
       /\ seen' = [seen EXCEPT ![cell].open = [process |-> {Process(cell)}, agent |-> agent[cell],
                                               loaded |-> job[cell] = "running", spans |-> spans],
                               ![cell].lost = @ \cup F]
  /\ NextCell("mid")
  /\ UNCHANGED <<clusterVars, job, rows>>

\* The snapshot that splits the window in two halves.
SnapMid ==
  /\ pc = "snapmid"
  /\ \E F \in Fails("read", {"cgMid"}) :
       /\ Spend("read", F)
       /\ ev' = [ev EXCEPT ![cell].mid = IF F # {} \/ ev[cell].start.pod # {pod[cell]} THEN {} ELSE {Snap}]
       /\ Lose(F)
  /\ NextCell("end")
  /\ UNCHANGED <<clusterVars, job, rows>>

\* The end snapshots name the pod recorded at the start: if it is gone they
\* fail, and only pod_of names the new one.
CloseWindow ==
  /\ pc = "close"
  /\ \E F \in Fails("read", {"cgEnd", "jvmEnd", "re", "podEnd"}),
        n \in Observed(seen[cell].open.agent, agent[cell]) :
       LET gone == ev[cell].start.pod # {pod[cell]}
           Read(f, v) == IF f \in F \/ (gone /\ f \in {"cgEnd", "re"}) THEN {} ELSE {v} IN
       /\ Spend("read", F)
       /\ ev' = [ev EXCEPT ![cell].end =
                   [pod |-> Read("podEnd", pod[cell]), rs |-> Read("re", restarts[cell]),
                    cg |-> Read("cgEnd", Snap), jvm |-> Read("jvmEnd", 0)]]
       /\ seen' = [seen EXCEPT ![cell].close = [process |-> {Process(cell)}, agent |-> agent[cell],
                                                loaded |-> job[cell] = "running",
                                                spans |-> seen[cell].open.spans + n],
                               ![cell].lost = @ \cup F]
  /\ NextCell("wait_all")
  /\ UNCHANGED <<clusterVars, job, rows>>

\* wait_all polls until every job has ended, or gives up after 5400 s because
\* one outlives it; its return code only reaches meta.json and the log.
WaitAll ==
  /\ pc = "wait_all"
  /\ LET alive == {c \in Cell : job[c] = "running"} IN
       /\ alive # {} => Fails("job", {0}) # {{}}
       /\ Spend("job", IF alive = {} THEN {} ELSE {0})
  /\ Goto("sink")
  /\ UNCHANGED <<clusterVars, job, ev, seen, rows>>

\* The sink is scraped again once the spans have landed.  Its counters are
\* cumulative: a window without a start scrape is charged every span so far.
SinkEnd ==
  /\ pc = "sink"
  /\ \E F \in Fails("read", {"sinkEnd", "completed"}) :
       /\ Spend("read", F)
       /\ ev' = [ev EXCEPT ![cell].sink =
                   [spans     |-> IF "sinkEnd" \in F THEN {} ELSE {seen[cell].close.spans},
                    completed |-> "completed" \notin F /\ job[cell] = "succeeded"]]
       /\ Lose(F)
  /\ NextCell("collect")
  /\ UNCHANGED <<clusterVars, job, rows>>

\* Mutant: restarts_start is taken from the file of the end.
MutEvidence(c) ==
  LET e == ev[c] IN
  [ k6   |-> e.k6,
    cpu  |-> CpuDelta(e.start.cg, e.end.cg),
    h1   |-> HalfDelta(e.start.cg, e.mid),
    h2   |-> HalfDelta(e.mid, e.end.cg),
    sink |-> SinkDelta(e.start.sink, e.sink.spans, e.sink.completed),
    jvm  |-> JvmDelta(e.start.jvm, e.end.jvm),
    ic   |-> e.ic,
    meta |-> {[qos |-> {"Guaranteed"}, pod |-> e.start.pod, podEnd |-> e.end.pod,
               restartsStart |-> e.end.rs, restartsEnd |-> e.end.rs, resetHttp |-> e.reset]},
    garbled |-> IF e.end.rs = {} THEN {"meta"} ELSE {} ]

\* The files gate.py is given.  printf writes meta.json with whatever the
\* restart files hold: an empty one leaves a key without a value.
Evidence(c) ==
  LET e == ev[c] IN
  [ k6   |-> e.k6,
    cpu  |-> CpuDelta(e.start.cg, e.end.cg),
    h1   |-> HalfDelta(e.start.cg, e.mid),
    h2   |-> HalfDelta(e.mid, e.end.cg),
    sink |-> SinkDelta(e.start.sink, e.sink.spans, e.sink.completed),
    jvm  |-> JvmDelta(e.start.jvm, e.end.jvm),
    ic   |-> e.ic,
    meta |-> {[qos |-> {"Guaranteed"}, pod |-> e.start.pod, podEnd |-> e.end.pod,
               restartsStart |-> e.start.rs, restartsEnd |-> e.end.rs, resetHttp |-> e.reset]},
    garbled |-> IF e.start.rs = {} \/ e.end.rs = {} THEN {"meta"} ELSE {} ]

\* A window as analyze.py will find it on disk: what is in gate.json, whether
\* cpu.json has a figure, whether meta.json is JSON; and the truth about it.
Row(c, gate, cpu, meta) ==
  [arm |-> arm, slot |-> idx, k6 |-> ev[c].k6 # {}, gate |-> gate, cpu |-> cpu, meta |-> meta,
   pod |-> ev[c].start.pod, lost |-> seen[c].lost,
   opened |-> seen[c].open.process, closed |-> seen[c].close.process,
   agentOpen |-> seen[c].open.agent, agentClose |-> seen[c].close.agent,
   loaded |-> seen[c].open.loaded /\ seen[c].close.loaded]
JudgedRow(c) ==
  LET e == Evidence(c) IN Row(c, GateJson(e, arm, Expect), e.cpu # {}, "meta" \notin e.garbled)

\* Mutants: the summary is taken whatever became of the job; the finished job is
\* not deleted.
MutAnySummary ==
  /\ pc = "collect"
  /\ ev' = [ev EXCEPT ![cell].k6 = {K6Summary}]
  /\ job' = [job EXCEPT ![cell] = "none"]
  /\ pc' = "judge"
  /\ UNCHANGED <<cell, idx, clusterVars, seen, rows, budget>>
MutCollect ==
  /\ pc = "collect"
  /\ ev' = [ev EXCEPT ![cell].k6 = IF job[cell] = "succeeded" THEN {K6Summary} ELSE {}]
  /\ pc' = "judge"
  /\ UNCHANGED <<cell, idx, clusterVars, job, seen, rows, budget>>

\* The summary is lifted out of the job's log, if the job printed one.
Collect ==
  /\ pc = "collect"
  /\ \E F \in Fails("read", {"k6"}) :
       /\ Spend("read", F)
       /\ ev' = [ev EXCEPT ![cell].k6 = IF F = {} /\ job[cell] \in {"succeeded", "failedLate"}
                                        THEN {K6Summary} ELSE {}]
       /\ Lose(F)
  /\ job' = [job EXCEPT ![cell] = "none"]
  /\ pc' = "judge"
  /\ UNCHANGED <<cell, idx, clusterVars, rows>>

\* Mutants: the loop runs one arm too far; the arm ends with its first cell.
MutJudgeOverrun ==
  /\ pc = "judge"
  /\ rows' = [rows EXCEPT ![cell] = Append(@, JudgedRow(cell))]
  /\ \/ cell < NCells /\ pc' = "collect" /\ cell' = cell + 1 /\ UNCHANGED idx
     \/ cell = NCells /\ idx <= Len(Arms) /\ pc' = "sampling" /\ cell' = 1 /\ idx' = idx + 1
  /\ UNCHANGED <<clusterVars, job, ev, seen, budget>>
MutJudgeFirst ==
  /\ pc = "judge"
  /\ rows' = [rows EXCEPT ![cell] = Append(@, JudgedRow(cell))]
  /\ IF idx < Len(Arms) THEN pc' = "sampling" /\ cell' = 1 /\ idx' = idx + 1 ELSE Goto("done")
  /\ UNCHANGED <<clusterVars, job, ev, seen, budget>>

\* gate.py judges the cell; the last cell ends the arm, the last arm the run.
Judge ==
  /\ pc = "judge"
  /\ rows' = [rows EXCEPT ![cell] = Append(@, JudgedRow(cell))]
  /\ \/ cell < NCells /\ pc' = "collect" /\ cell' = cell + 1 /\ UNCHANGED idx
     \/ cell = NCells /\ idx < Len(Arms) /\ pc' = "sampling" /\ cell' = 1 /\ idx' = idx + 1
     \/ cell = NCells /\ idx = Len(Arms) /\ Goto("done")
  /\ UNCHANGED <<clusterVars, job, ev, seen, budget>>

Runner ==
  \/ SetSampling \/ ResetAndRestart \/ WaitHealthy \/ WaitIc \/ AdminReset
  \/ Capture \/ Launch \/ AwaitStart \/ SleepUntil \/ OpenWindow \/ SnapMid
  \/ CloseWindow \/ WaitAll \/ SinkEnd \/ Collect \/ Judge

-----------------------------------------------------------------------------
\* The cluster's steps.

Over == pc \in {"done", "fatal", "killed"}

\* incluster.sh stop: kill -9 on the runner.  Between a cell's k6.json and its
\* gate.json that leaves a window on disk that nothing judged.
Kill ==
  /\ MayBeKilled /\ ~Over
  /\ rows' = IF pc # "judge" THEN rows
             ELSE LET w == JudgedRow(cell) IN [rows EXCEPT ![cell] = Append(@, [w EXCEPT !.gate = "absent"])]
  /\ Goto("killed")
  /\ UNCHANGED <<clusterVars, job, ev, seen, budget>>

runnerVars == <<pc, cell, idx, source, rule, ev, seen, rows>>

\* Odigos brings the InstrumentationConfig in line with Source and Sampling.
Deliver(c) ==
  /\ ~Over /\ ic[c] # Desired(c)
  /\ ic' = [ic EXCEPT ![c] = Desired(c)]
  /\ UNCHANGED <<runnerVars, pod, restarts, agent, db, job, budget>>

\* The agent of the running process follows the InstrumentationConfig; without
\* one it stops tracing but the bytecode it wove stays.
Attach(c) ==
  /\ ~Over
  /\ agent' = [agent EXCEPT ![c] = IF ic[c] # Off THEN ic[c] ELSE IF @ = Off THEN Off ELSE Woven]
  /\ agent'[c] # agent[c]
  /\ UNCHANGED <<runnerVars, ic, pod, restarts, db, job, budget>>

\* The cluster restarts the app's container, or replaces its pod.
Disrupt(c) ==
  /\ ~Over /\ Fails("disrupt", {c}) # {{}}
  /\ \/ restarts' = [restarts EXCEPT ![c] = @ + 1] /\ UNCHANGED pod
     \/ pod' = [pod EXCEPT ![c] = @ + 1] /\ restarts' = [restarts EXCEPT ![c] = 0]
  /\ agent' = [agent EXCEPT ![c] = Off]
  /\ Spend("disrupt", {c})
  /\ UNCHANGED <<runnerVars, ic, db, job>>

\* The k6 job's container starts running, and its checkouts write the ring.
JobStart(c) ==
  /\ ~Over /\ job[c] = "pending"
  /\ job' = [job EXCEPT ![c] = "running"]
  /\ db' = [db EXCEPT ![c] = "used"]
  /\ UNCHANGED <<runnerVars, ic, pod, restarts, agent, budget>>

\* Its schedule ends after the window has closed (MeasureWindow).
Closed == pc \in {"wait_all", "sink", "collect", "judge"}

JobEnd(c) ==
  /\ ~Over /\ job[c] = "running" /\ Closed
  /\ job' = [job EXCEPT ![c] = "succeeded"]
  /\ UNCHANGED <<runnerVars, ic, pod, restarts, agent, db, budget>>

\* A job that dies prints its summary only if it dies in its last seconds.
JobDies(c) ==
  /\ ~Over /\ job[c] \in {"pending", "running"} /\ Fails("job", {c}) # {{}}
  /\ job' = [job EXCEPT ![c] = IF Closed /\ @ = "running" THEN "failedLate" ELSE "failed"]
  /\ Spend("job", {c})
  /\ UNCHANGED <<runnerVars, ic, pod, restarts, agent, db>>

Cluster ==
  \E c \in Cell : Deliver(c) \/ Attach(c) \/ Disrupt(c) \/ JobStart(c) \/ JobEnd(c) \/ JobDies(c)

Next == Runner \/ Kill \/ Cluster

\* The runner is a process that keeps running, and so is Odigos; the stages of
\* a k6 job that runs are finite.  No job is owed a start, nor an agent its attach.
Fairness ==
  WF_vars(Runner) /\ \A c \in Cell : WF_vars(Deliver(c)) /\ WF_vars(JobEnd(c))

Spec == Init /\ [][Next]_vars /\ Fairness

-----------------------------------------------------------------------------
Evidences == {"ic", "pod", "rs", "cgStart", "jvmStart", "sinkStart", "cgMid", "cgEnd",
              "jvmEnd", "re", "podEnd", "sinkEnd", "completed", "k6"}

Files ==
  [ic : SUBSET [crd : BOOLEAN, enabled : BOOLEAN, pct : SUBSET (1..100)],
   reset : SUBSET {200, 500},
   start : [pod : SUBSET Nat, rs : SUBSET Nat, cg : SUBSET {Snap}, jvm : SUBSET {0},
            sink : SUBSET Nat],
   mid : SUBSET {Snap},
   end : [pod : SUBSET Nat, rs : SUBSET Nat, cg : SUBSET {Snap}, jvm : SUBSET {0}],
   sink : [spans : SUBSET Nat, completed : BOOLEAN],
   k6 : SUBSET {K6Summary}]

Sight == [process : SUBSET (Nat \X Nat), agent : AgentState, loaded : BOOLEAN, spans : Nat]
Truth == [open : Sight, close : Sight, lost : SUBSET Evidences]

Window ==
  [arm : Arm, slot : Nat, k6 : BOOLEAN, gate : GateFile \cup {"absent"}, cpu : BOOLEAN,
   meta : BOOLEAN, pod : SUBSET Nat, lost : SUBSET Evidences, opened : SUBSET (Nat \X Nat),
   closed : SUBSET (Nat \X Nat), agentOpen : AgentState, agentClose : AgentState, loaded : BOOLEAN]

TypeOK ==
  /\ pc \in {"sampling", "restart", "health", "ic", "reset", "capture", "launch", "started",
             "warm", "open", "mid", "snapmid", "end", "close", "wait_all", "sink", "collect",
             "judge", "done", "fatal", "killed"}
  /\ cell \in Cell /\ idx \in DOMAIN Arms
  /\ source \in [Cell -> BOOLEAN] /\ rule \in 1..100
  /\ ic \in [Cell -> Arm] /\ agent \in [Cell -> AgentState]
  /\ pod \in [Cell -> Nat] /\ restarts \in [Cell -> Nat]
  /\ db \in [Cell -> {"unknown", "known", "used"}]
  /\ job \in [Cell -> {"none", "pending", "running", "succeeded", "failed", "failedLate"}]
  /\ ev \in [Cell -> Files] /\ seen \in [Cell -> Truth]
  /\ rows \in [Cell -> Seq(Window)]

Windows(c) == {rows[c][n] : n \in DOMAIN rows[c]}
Accepted(c) == {w \in Windows(c) : w.gate = "accepted"}

\* A window the gate accepts was measured on the configuration its arm asked
\* for: nothing but that agent when it closed, and for an uninstrumented arm a
\* process no agent ever touched.  It takes a late InstrumentationConfig, a lost
\* write or a lost read, and the gate's three kinds of evidence, to decide it
\* (METHODOLOGY.md section 5; gate.py:168-203, run.sh:375-396).
AcceptedRanAsAsked == \A c \in Cell : \A w \in Accepted(c) : w.agentClose = w.arm

\* An accepted window lies inside the life of one process, whatever reads were
\* lost around the restart (METHODOLOGY.md section 5, "no pod restart or pod
\* change during the window"; run.sh:439, :464, :507-509, gate.py:128-132).
AcceptedOneProcess == \A c \in Cell : \A w \in Accepted(c) : w.opened = w.closed

\* Every file the gate reads was read for an accepted window: "a missing
\* evidence file is itself a rejection" (gate.py:46-47).
AcceptedHasAllEvidence == \A c \in Cell : \A w \in Accepted(c) : w.lost = {}

\* "RESTART=each (default): every arm is a fresh JVM" (run.sh:42): no process is
\* measured, and accepted, in two arms.
FreshJvmPerArm ==
  RestartEach =>
    \A c \in Cell : \A v, w \in Accepted(c) : v.slot # w.slot => v.opened # w.opened

\* An accepted window was loaded by its k6 job when it opened and when it closed:
\* a job that dies after the runner's last look at it (run.sh:411, :468) costs
\* the window its summary.
AcceptedUnderLoad == \A c \in Cell : \A w \in Accepted(c) : w.loaded

\* No k6 job of an arm runs while the next arm reconfigures, restarts or resets
\* the cells it loads (run.sh:406-408, :484).
QuietWhileReconfiguring ==
  pc \in {"sampling", "restart", "health", "ic", "reset", "capture"} =>
    \A c \in Cell : job[c] = "none"

\* A job that is about to load its cell finds every cell of the node reset and
\* verified in this arm, or already loaded by this arm's job: no load meets a
\* ring that the last arm's checkouts wrote (run.sh:386-394,
\* METHODOLOGY.md:110-112).
LoadedFromKnownState ==
  \A c \in Cell : job[c] = "pending" =>
    \A d \in Cell : db[d] = "known" \/ (db[d] = "used" /\ job[d] # "none")

\* The cells of a run stay in lockstep: a cell is never more than one judged
\* window ahead, and every window of an arm is judged before the next arm
\* touches the cluster (run.sh:2, "every cell in lockstep, one arm at a time").
Lockstep ==
  \A c, d \in Cell :
    /\ Len(rows[c]) - Len(rows[d]) \in {-1, 0, 1}
    /\ pc \notin {"collect", "judge", "done", "killed"} => Len(rows[c]) = idx - 1

\* Every loop of the runner is bounded by a deadline, so the run ends: all arms
\* judged, or a fatal error (run.sh:128, :187, :411, :260).
Terminates == <>Over
=============================================================================
