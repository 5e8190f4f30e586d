# A verification development for benchmark-app

`benchmark-app` measures what an OpenTelemetry agent costs a Java service. A
shell runner drives several *cells* (an app with its Postgres, Redis, echo
service and load job, on an exclusive core) through a sequence of *arms*
(uninstrumented, or instrumented at a sampling percentage), takes snapshots
around a measurement window, has a gate accept or reject each window, and an
analysis compares the accepted ones. The figures it publishes are only worth
what the acceptance of a window proves, so that is what this development is
about: under which failures and interleavings does an accepted window, or a
published comparison, mean what it says?

The TLA+ modules are translated from the code under `src/`; line numbers in the
comments and in `PROJECT.json` refer to it. TLC checks the configurations
`MC*.cfg`, and TLAPS checks the modules `*Proofs.tla`, `ArmRunnerSafety.tla` and
`FiniteSums.tla`.

## 1. The system

| Part | Code | State it keeps | Operations |
| --- | --- | --- | --- |
| arm runner | `bin/run.sh`, `bin/incluster.sh` | files under `$RD`, per cell and arm; in the cluster: Sources, the Sampling, the jobs | per arm: configure sampling, restart, wait for health and config, reset, capture, launch, wait for starts, window open/mid/close, wait for jobs, scrape the sink, collect and judge; stop (kill -9) |
| window schedule | `bin/run.sh:409-466`, `k6/load.js` | start times of the jobs, three targets on the clock | poll starts, three sleeps, three snapshots per cell |
| gate | `bin/lib/gate.py` | none | one verdict from at most eight evidence files |
| snapshot deltas | `bin/lib/{cgroup,sink,jvm}_delta.py` | none | two snapshots to one figure file |
| node probe | `bin/run.sh` (`node_snap`), `bin/lib/node_delta.py` | two files of counters of the Odigos pod | list the pods, read the pod's counter, read its scopes, ask for their names; two files to cores |
| analysis | `analysis/analyze.py` | none | load, bracket, aggregate, pool, pair, correct drift, fit the cost per span, print |
| validation and reports | `analysis/{validate,export_csv,summarize,validation_figures}.py` | none | the same overhead from three file formats, a verdict, a figure |
| self-test | `analysis/{selftest,make_fixture,make_validation_fixture}.py` | synthetic batteries with a known cost | generate, analyse, compare |
| load script | `k6/load.js` | phase, counters | ramp, warm, measure, summary |
| test application | `src/app` (checkout, reset, admin) | ring of rows in Postgres, static and churn keys in Redis, request counter, in-flight count, ops counters | checkout, start-up, reset, verify, calibrate |
| CPU work | `CpuWork.java` | two latches, threads of a calibration | run, measure |
| calibration script | `bin/calibrate.sh` | a results directory | drives one cell through run.sh, fits a line |
| span capture, cell table | `bin/capture_spans.sh`, `bin/lib/cells.sh` | none | one-shot |
| infrastructure | `infra/`, `k8s/` | nodes, pods | provisioning |

How they meet: the runner talks to the cluster through `kubectl` (whose
failures it mostly ignores) and to the application through `/admin/reset` and
the actuator; the load job talks to the application only; the deltas and the
gate read the files the runner wrote; the analysis reads those and `gate.json`;
`validate.py` reads the analysis's `summary.json`, `summarize.py` a CSV that
`export_csv.py` makes of the files. There is no lock and no transaction
anywhere: the runner assumes a state of the cluster, and the gate decides
afterwards from the evidence.

What is hard:

- **Everything moves between two commands.** Odigos delivers or withdraws a
  configuration late, an agent attaches late or leaves woven bytecode, a
  container restarts, a pod is replaced, a job starts, ends or dies.
- **Partial failure.** Most exit codes are ignored. A read that fails leaves an
  empty file, a delta of an empty file may be a well-formed file of `None`, and
  each rule decides for itself whether `None` passes.
- **Lockstep and time.** One runner samples all cells around one window, while
  each cell's job starts on its own.
- **Counters read one after the other**, of cgroups that come and go meanwhile.
- **Endings.** A run may end in the middle (fatal, `kill -9`) and the analysis
  reads whatever is there.
- **Several readers of one battery**, each with its own idea of what was
  accepted, and statistics on samples of one or two.
- **The application under test** is reset and verified statement by statement
  while threads, stores and the process itself may come and go.

What makes each part correct:

- *runner*: an accepted window ran on the configuration its arm names and in
  one process, under load; arms do not overlap; load meets a known state; what
  is left on disk is at any time the beginning of one and the same log of
  windows; the run ends.
- *window schedule*: the window lies inside every cell's measure phase, all
  cells are loaded while one is measured, the halves are not empty.
- *gate*: one evidence is accepted for one arm only; an accepted window had its
  core; the loss of a file rejects.
- *node probe*: the agent is charged what it used, whatever restarts.
- *analysis*: it rests on accepted windows only; both sides of a comparison
  ran what their label says; one process is one measurement; it gets to an end.
- *reports*: they agree with the analysis and with one another; the synthetic
  cost is recovered.
- *application*: a verified state is ready until its store is lost;
  concurrent upserts are apart; counted operations are the design's; a
  calibration starts alone, measures together, and ends.

## 2. The modules

```
Gate -------.   Deltas                   MeasureWindow      App     NodeProbe
 |    \      \  /                            |              |          |
MCGate Analysis ArmRunner   WindowLog     MCMeasureWindow   MCApp   MCNodeProbe
        |     \   |     \     :               .cfg
     Reports   \  |   RunnerLog
        |      Bench     |
     Battery     |    ArmRunnerSafety
        |     MCBench
    MCReports
```

A line is EXTENDS; the dotted one is the refinement (INSTANCE ... WITH). The proofs:

| Module | Extends | About |
| --- | --- | --- |
| FiniteSums | | sums over a finite set; nothing of the program |
| ArmRunnerSafety | RunnerLog | one run, whatever happens to it |
| BenchProofs | Bench, ArmRunnerSafety, FiniteSums | what the windows of a comparison ran on |
| BatteryProofs | Battery, FiniteSums | the statistics and the reports |
| GateProofs | MCGate | the gate alone |
| MeasureWindowProofs | MeasureWindow | the schedule |
| AppProofs | App | the application |
| NodeProbeProofs | NodeProbe, FiniteSums | the node probe |

**Gate.** `gate.py` as pure operators. A file that is missing or unreadable is
the empty set and one that was read is a singleton, so "`if meta:`" is a
quantifier. Each group of rules is a record from the rule's name to whether it
rejects. `GateJson` is what the file `gate.json` then holds: `"accepted"`,
`"rejected"`, or `"traceback"` when the script raised; a window that was never
judged is `"absent"`.

**Deltas.** Which snapshots make which figures exist, and with which sign. The
content of a scrape is reduced to what a rule can tell apart.

**ArmRunner** (extends Gate and Deltas). The runner is one process whose place
is `pc`, with `cell` and `idx` for its two loops; each action is one iteration
of one loop of the script, with every command in it. The cluster's own steps
are actions of their own and interleave anywhere. `ev[c]` is the directory of
the current arm, `rows[c]` what the analysis will find. `seen[c]` is the truth
the runner cannot see (which process and agent were really there, which reads
were lost, whether the job was loading): properties compare it with the verdict.
Failures are drawn from `budget`, per kind and in total.

| Action | Code |
| --- | --- |
| `SetSampling` | `set_sampling`, run.sh:106-121 |
| `ResetAndRestart` | `reset_and_restart`, run.sh:141-158 |
| `WaitHealthy`, `WaitIc`, `AdminReset`, `Capture`, `Launch` | the first loops of an arm, run.sh:371-408, and `wait_healthy`, `wait_ic`, `launch` |
| `AwaitStart`, `SleepUntil` | run.sh:409-431, and `sleep_until` |
| `OpenWindow`, `SnapMid`, `CloseWindow` | run.sh:432-466 |
| `WaitAll`, `SinkEnd` | run.sh:468-478, and `wait_all` |
| `Collect`, `Judge` | run.sh:480-523 |
| `Kill` | incluster.sh, `do_stop` |
| `Deliver`, `Attach`, `Disrupt`, `JobStart`, `JobEnd`, `JobDies` | the cluster (external) |

Four abstractions are assumptions about the cluster. By the time the rollouts
of a restart are through (minutes) Odigos has reconciled the Sources (seconds),
so the new process starts under the settled configuration. A job that does not
die is still loading when the window closes, which is what MeasureWindow is
about. The run starts with no job left over and with empty result directories.
A cell's cost per request, and its core, are constant: the gate's figures are as
in a clean window unless a modelled failure changes them.

**WindowLog**, **RunnerLog.** WindowLog is what a run promises a reader of its
results, without a cluster, a file or a failure in it: per cell a log of windows
in the order of `ARMS`; the cells take turns; a window is judged, and accepted
only if one process lived through it; a run is complete when every window has
been judged, and until then it may be cut short, once between a window and its
verdict. RunnerLog maps ArmRunner to it: the log is what is left of `rows` when
everything but the arm, the verdict and "one process" is forgotten, and a fatal
error and a kill are both "cut short". Every other step of the runner and the
cluster is a stutter.

**Analysis.** `load_run`, `bracket`, `aggregate`, `pooled` (Welch), `paired`
(Student t on one difference per process, with or without the drift correction),
the fit of the cost per span and the ways the printer raises, as operators on a
battery: a sequence of runs, each a sequence of windows of one cell. Intervals
and fits are compared after multiplication, in integers, so nothing is rounded
but the t table (to a tenth) and averages that divide evenly by construction.

**Bench** composes Analysis with the runner: in every reachable state the rows
on disk are what the analysis may be run on, so its properties hold for a run
that ended in any way, or has not.

**Reports** has what `validate.py`, `export_csv.py`, `summarize.py` and
`validation_figures.py` make of the same battery. **Battery** builds batteries
window by window: runs of the paired design, of the sandwiched one and with an
off window after the agent, with windows rejected, unjudged, without a summary,
without a request, and pods replaced under or between windows; and the synthetic
batteries of the self-test, whose cost is planted. A CPU figure is a multiple of
5 us, and a cell has a level near the edge of its bucket, so that drift decides
between the verdicts.

**NodeProbe.** The Odigos pod of a node (containers that use CPU, restart, are
replaced with their pod) and, interleaved with it, `node_snap` reading counter
after counter, scope after scope, and the names of the scopes last and from the
API. `meter` is the CPU a container of a name has really used. `Cores`, `Charged`
and `ContainersSum` are `node_delta.py`.

**MeasureWindow.** The same loop of the runner as `AwaitStart` .. `CloseWindow`,
in time: one clock in seconds, containers that start up to `MaxSkew` apart, a
`setup()` of up to `MaxSetup`, and a runner that leaves a step at most `Latency`
after it could. It is separate because the schedule is arithmetic and the
failures are not.

**App.** The service. The knobs of a request are resolved as the code does (a
preset, variables over it, query parameters over both if they are allowed). A
checkout is six steps (arrive, reads, upserts, posts,
sets, record) with an exception possible at each; a reset and a start-up are
sequences of statements; a calibration is its threads and its two latches. The
backends may lose their data and the process may die at any point. `fresh` and
`vouched` are history: which stores a verification that has passed speaks for.
One reset and one calibration are in progress at a time.

## 3. What is checked

| Run | Instance | What it shows |
| --- | --- | --- |
| `gate` | every combination of a clean window's evidence with its near misses, one file lost | `OneArmPerEvidence`: no evidence is accepted for two of the documented arms. `AcceptedHadItsCore`: acceptance implies a cpuset of the right size, unmoved, and a quota that cannot bite. `LostEvidenceRejects` |
| `runner` | 2 cells, arms off 100 off, `RESTART=each`, one failure of any kind except a lost restart, and a kill at any moment | `AcceptedRanAsAsked`, `AcceptedOneProcess`, `AcceptedUnderLoad`, `FreshJvmPerArm`, `BracketComparesAgentWithNone`, `QuietWhileReconfiguring`, `LoadedFromKnownState`, `Lockstep`; the refinement `ImplementsLog`; `Terminates` |
| `paired` | 1 cell, off off 100 off in one JVM, two failures among a lost read, a disruption and a dead job | `PairedComparesAgentWithNone` |
| `window` | 2 cells, margins at the limit of `WindowAssumption` | `InsideMeasurePhase`, `LoadedTogether`, `HalvesNotEmpty` |
| `app` | 2 checkout threads, 2 calibration threads, 2 slots, a request per slot with or without query parameters, one store or process lost, one reset or calibration | `VouchedIsReady`, `SlotsApart`, `RecordedAsDesigned`, `MeasuredTogether`, `CalibratesAlone`, `CalibrationEnds` |
| `reports` | batteries of up to 2 runs of 4 designs, up to 2 windows that are lost, rejected, moved to a new pod or (one) a little dearer, with and without a trend, measured or synthetic | `HeadlinesAgree`: on a battery of the published design three programs compute one overhead. `RejectedHasNoSay`: changing what a rejected window cost changes nothing. `OneDeltaPerProcess`, `FailsOnlyWithoutBaseline`, `SelftestPasses`, `FitBetweenCells`, `DfBounded`, `FigureAgreesWithTable` |
| `node_probe` | 2 containers, 2 units of CPU, 2 restarts or replacements, one failed call | `ChargedWhatItUsed`: the agent's figure lies between what it used between the readings and what it used with them. `NeverNegative`, `ScopesAccountForPod` |
| `pod_replaced`, `restarted_between`, `no_baseline`, `lost_evidence`, `drift_uncorrected` | the one failure the finding needs, or none | the findings of section 5 |

Why the bounds are enough. Two cells are what lockstep needs, and the only
coupling between cells is the order of the loop. Three arms are what a bracket
needs, and off 100 off has both orders in which an arm can inherit something (an
agent, a Source, a job) from the last one; four arms in one JVM give a pair two
baselines and an off window, taken in a process the agent has been in, that must
not become a third. In `runner` one failure covers every place where a single
call, read, pod or job can fail, and the theorems of section 4 have no such bound.
They also say how far it could be raised: two failures of any kind never get a
window of another configuration accepted, three can. A lost write leaves the last
arm's configuration, a lost read of `ic.yaml` saves an error text, which proves the
off arm, and a sink scrape that is lost takes the span count with it.

Some properties of the runner hold under a condition that the model makes
visible, because the code goes wrong without it:

- `FreshJvmPerArm` needs `RestartFaults = 0`: a `rollout restart` whose call
  fails is not noticed, and an arm that promises a fresh JVM is measured in the
  old one, which the gate has no rule against.
- `AcceptedRanAsAsked` needs that too, `RESTART=each` (bytecode woven for one arm
  stays for the next) and fewer than three failures, unless all are writes or all
  are reads.
- `BracketComparesAgentWithNone` speaks of windows the gate judged: a traceback
  in `gate.json` counts as accepted (`pod_replaced`).
- `paired` has `ApplyFaults = 0`: a Source whose deletion failed lets an agent in
  before the first off arm, and a later off arm is accepted in the process it wove.

In `reports` two repetitions are the fewest with an interval, and two windows off
plan are enough for one to lose its baseline while another moves to a new
process. The cell's level (1.92 ms, the bucket ends at 2 ms) lets drift, noise and
rejections reach every verdict of `validate.py`. The self-test's 25% arm keeps
half of the planted cost (0.55 in the code), which keeps the figures integers.
`BASELINE_FIT` is on; without a `t0_ns` (every measured window) the correction
falls back to averaging, so both ways are taken. In `node_probe` two restarts let
a container's scope change in each of the two readings, and CPU units are few
because only their attribution matters.

`app` uses a threshold of zero dead tuples, so a single update in the window fails
the check, as more than 1000 would; the autovacuum threshold is scaled with it.

`CHECK_DEADLOCK FALSE` stands where the system stops: a run ends, a battery is
complete, a second snapshot is taken, the application may be out of requests.

**Fairness.** `WF(Runner)`: the script is a process that keeps running, and all
its waits have deadlines. `WF(Deliver(c))`: Odigos keeps reconciling, which a
restart waits for. `WF(JobEnd(c))`: the stages of a k6 job are finite. No fairness
is assumed of a job's start, an attach, or of any failure. `Terminates` holds
because each poll of the runner gives up, not because the cluster is kind. In App,
`WF` on the threads of a calibration and on its caller: they are JVM threads. No
other part of App is fair; a checkout may hang for ever. Battery and NodeProbe
state safety only.

## 4. What is proved

For every value of the constants that satisfies the named assumptions
(`GateAssumption`, `RunnerAssumption`, `WindowAssumption`, `NodeProbeAssumption`,
`AppAssumption`, `BatteryAssumption`), so for any number of cells, any sequence of arms, both restart modes
and any number of failures, except where the statement has a hypothesis of its own:

| Theorem | Statement | Argument |
| --- | --- | --- |
| `TypeCorrect` (ArmRunnerSafety) | `Spec => []TypeOK` | inductive as it stands; the work is that what the deltas and the gate return has the type of a row |
| `ArmsDoNotOverlap`, `LoadFollowsReset` (ArmRunnerSafety) | `QuietWhileReconfiguring`, `LoadedFromKnownState` | `PhaseInv`: the type, which cells can have a job at each `pc` and `cell` (`JobsInv`), and which cells have been reset (`DbInv`). The properties only speak of some `pc`s; the loop indices are what carries them from step to step |
| `CellsInLockstep` | `Lockstep` | `RowsInv`: the exact number of judged windows of each cell as a function of `pc`, `cell` and `idx` |
| `AcceptedWindowsHaveOneProcess` | `AcceptedOneProcess` | `ProcessInv`: pod and restart counts only grow (a new pod starts at zero), each recorded file value is what the cluster had at that moment, and the pod's count cannot have moved if the value recorded at the start is still there at the end. It rests on the lemma that an accepting gate had both pod names and both restart counts and found them equal |
| `AcceptedWindowsWereLoaded` (ArmRunnerSafety) | `AcceptedUnderLoad` | `LoadInv`: a job that has not failed early was loading at every snapshot taken so far, and a summary that is there was written by such a job. The start of every job is waited for, and one that dies before the close leaves no summary |
| `EveryArmItsOwnPod` (ArmRunnerSafety) | `RestartFaults = 0` implies `Spec => []FreshJvmPerArm` | `FreshInv`: every window that is over lies in a pod older than the one that runs, or than the one the current arm opened its window in. A pod's number is never used again, and the restart of an arm takes a new one; the budget (`BudgetInv`) is what makes the restart succeed |
| `AcceptedWindowsRanAsAsked` (BenchProofs) | `RunAsDocumented` implies `Spec => []AcceptedRanAsAsked` | `ConfigInv`: by the restart of an arm the cluster is settled on what the Sources ask, and each file is a function of it, of the process and of its agent, or lost (`Kept`, per stage: captured, opened, closed, scraped). Only an off arm can be asked for wrongly without `ic.yaml` showing it; two failures made it so (`Blind`), and the sink's counters, for which no third is left, have the spans. `RunAsDocumented`: every arm is off, 25 or 100 in a fresh JVM, no restart is refused, and at most two failures happen, or none of them is a write, or none is a read |
| `BracketsCompareAgentWithNone` (BenchProofs) | `RunAsDocumented` implies `Spec => []BracketComparesAgentWithNone` | from `ConfigInv`, and that an accepted window opened on no agent but its own (`OpenedOnItsAgent`): the neighbours that `bracket` picks are the last accepted off window before and the first one after, so windows that these speak of |
| `PairsCompareAgentWithNone` (BenchProofs) | `PairedAsDesigned` implies `Spec => []PairedComparesAgentWithNone` | `PairedInv`, with `RESTART=once` in mind, where a process lives through several arms and the configuration changes under it. An `ic.yaml` that names the arm shows that the new configuration has arrived (`AgentFollows`): from then on the process can only take up the arm's agent, and if it never did, the sink has counted the spans of another arm (`SpansOfAnother`). Up to the first instrumented arm nothing has touched any process (`Clean`), and the windows that lead on a pod are of such arms. `PairedAsDesigned`: the uninstrumented arms are the first or the last, the writes arrive and the restarts are not refused, and the runner is not killed; reads, pods and jobs may fail any number of times |
| `RunnerImplementsLog` (ArmRunnerSafety) | `Spec => ImplementsLog` | initial states map to initial states; every step that leaves `rows` alone and the run going is a stutter; `Judge` is `Record`, `CutShort` is a kill or a fatal error. That the cell judged is the one whose turn it is comes from `RowsInv`, that an accepted window is whole from `ProcessInv`, that the last window completes the run from both loops' bounds |
| `SchedInvariant` (MeasureWindowProofs) | the inductive invariant of the schedule | `earliest` and `latest` bound the starts read so far; each `pc` bounds the clock by its own target and the previous one |
| `WindowInsidePhase`, `WindowsLoadedTogether`, `HalvesHaveLength` | the three properties of the window | from `SchedInvariant` and linear arithmetic on the margins |
| `ScheduleTypeCorrect` | `Spec => []TypeOK` of MeasureWindow | part of the same invariant |
| `AcceptanceNeedsEvidence` (GateProofs) | of any evidence and any arm: acceptance implies the files, and the core | one lemma per group of rules says what the absence of its reasons means |
| `LossRejects`, `AcceptanceHasCore` | `LostEvidenceRejects`, `AcceptedHadItsCore` | from that theorem and two invariants of MCGate: a lost file is empty or garbled; quotas and periods are numbers |
| `EvidenceNamesItsArm` (GateProofs) | `Arms` among off, 25 and 100 implies `Spec => []OneArmPerEvidence` | one lemma says what an `ic.yaml` without a reason proves of each arm, another what a span rate proves: the ranges are apart for every design of more than a twentieth of a span |
| `TypeCorrect` (AppProofs) | `Spec => [](TypeOK /\ InflightCounts)` | `inflight` is the cardinality of the set of checkouts in progress, because the counter is given back however a checkout ends |
| `VerifyVouches` (AppProofs) | `VouchedIsReady` | `ReadyInv`: what each statement of `verify()` has counted (`fresh`) holds until the store is lost, because between the statements checkouts only write rows and keys that are there |
| `NoCalibrationBesideRequests` (AppProofs) | `Spec => CalibratesAlone` | from `InflightCounts`: zero in flight is nobody in progress |
| `NobodyWarmsBesideAMeasurement` (AppProofs) | `MeasuredTogether` | `LatchInv`: what the two latches have counted down to, in terms of which threads are warm |
| `CountedAsDesigned` (AppProofs) | `RecordedAsDesigned` | `CountInv`: at each step of a checkout (`DoneSoFar`) its operations are the design's up to there, and they are added to the counters only with the request |
| `NeighboursKeepApart` (AppProofs) | `SlotsApart` | number theory: the shortest walk that comes back divides the ring, so that a common divisor of ring and stride would be left, which start-up refuses |
| `NoCpuGivenBack` (NodeProbeProofs) | `NeverNegative` | `CounterInv`: what the first file holds of a cgroup that still lives is a counter it has passed; a later cgroup has a number of its own; the second file is written after the first. Without the numbering (a scope looked up by its name) it fails, which is the mutant of `node_delta.py:76` |
| `TypeCorrect` (NodeProbeProofs) | `Spec => []TypeOK` | `Bounded`: a pod and a container never show more than the CPU that was used up, a sum over the containers which a step of theirs raises by one |
| `AgentChargedWhatItUsed` (NodeProbeProofs) | `ChargedWhatItUsed` | `ReadBetween`: an entry of a file tells what its name had used when it was written, for as long as its scope lives, and that lies between the file's marks. `ReadOnce`: a scope has one entry in a file and the second file's map one scope of each name, so a name is charged at most one difference |
| `PodAndScopesAgree` (NodeProbeProofs) | `ScopesAccountForPod` | `CalmInv`: while nothing restarts and no call fails there is a value of the meters at which the pod's counter was read; each scope in the file was read later, and every other one is still to be read. At the end there is one scope for each name (`CalmEntries`), so that the containers' sum is a difference of two sums over the names (`CalmSum`), between those of the marks |
| `RaisesOnlyWithoutBaseline` (BatteryProofs) | `FailsOnlyWithoutBaseline` | a valid entry without figures has no neighbour, although an accepted off window would be before or after it |
| `RejectedWindowsHaveNoSay` | `RejectedHasNoSay` | two runs that differ in what rejected windows cost (`Alike`) have the same accepted windows, brackets, pods, pairs, and therefore reports; each program's own way of leaving a rejected window out is a lemma |
| `ProcessesCountOnce` | `OneDeltaPerProcess` | a pod has at most one row, so the rows of a run are the image of its pods |
| `PublishedHeadlinesAgree` | `HeadlinesAgree` | on a published battery that exports, the accepted rows are the pooled windows and all of one pod (`PublishedPooled`), and its pair is their difference (`PublishedPair`); the ways the programs differ (an unjudged window, a detached one, a pod left out) are excluded one by one |
| `FiguresShowTheTable` | `FigureAgreesWithTable` | the figure is drawn of the verdict's own numbers; its scale is empty only for a single measured pod |
| `FreedomBetween` | `DfBounded` | Welch's degrees of freedom lie between those of the smaller sample and those of both: spreads are not negative, and (p + q)(a²q + b²p) − (a + b)²pq = (aq − bp)² |
| `FitLiesBetween` | `FitBetweenCells` | every cell's point has a positive count, an integer sum and a spread that is no less than zero (`PointOf`: differences of means of finitely many windows, and a line's value, are integers). The fit of two is then a mean of their ratios with weights that are natural numbers (`FitOfTwo`), and so between them (`Mediant`); a weight of zero is no exception, since the statement is in products |
| `SelftestAlwaysPasses` | `SelftestBattery` implies `Spec => []SelftestPasses` | `FixtureInv`: a synthetic battery's windows all went as planned and no more than one is noisy. The paired difference of a run is then what was planted, plus what a noisy window leaves of itself in the line through the two baselines, extrapolated to the arm's time (`FixtureDeltas`): one run of the battery is off by k, the spread is (n - 1)k² (`SelftestEntry`), and t for two or three runs is wide enough to cover what was planted and too wide for an estimate so far off to be resolvable (`NoFault`). The pooled sums keep three slots' trend per run, which one noisy window does not outweigh (`PooledMisses`) |

**Sums.** A pod's figures are sums over its containers, and `MapThenSumSet` is a fold:
a function defined by recursion on the subsets, and chosen. FiniteSums shows of any
finite set that there is exactly one such function, and so what the sum is. The
library's induction rules cannot be used for that, but a set of numbers has a least
one, so that a statement which is false of finite sets is false of a smallest one
(`Least`, `Smallest`). From there: the order makes no difference (`SumWithout`), and
sums are monotone, additive, and the same over other names of the same things
(`SumAtMost`, `SumMinus`, `SumRenamed`). Products are folds too, which the model takes
over one or two cells (`ProductOfOne`, `ProductOfTwo`). A sample's spread, a sum of squared
distances, is one of them and not negative (`SpreadNotNegative`). The invariant
behind the theorems about batteries, `ShapeInv`, only says what a window can be:
they hold of any battery, of any designs and drifts (`BatteryAssumption`), and the
work is in the analysis, not in how a battery comes about. The self-test's is the
exception: what it says depends on how its battery was made.

`WindowAssumption` is what the margins have to cover: `setup()` within
START_MARGIN, the snapshots within END_MARGIN, the skew between the first and
the last start within the warm phase, and both margins, the skew and twice the
loop's latency within DURATION. The code enforces none of this: each job is given
300 s to start and nothing compares the skew with the window. With the default
durations the assumption is met when the containers start within seconds of each
other.

Some of the hypotheses are about failures. `RestartFaults = 0`: the script ignores
the exit code of `rollout restart`, and there is nothing in the evidence that a
refused one would leave. "Fewer than three": with three the statement is false, and
TLC shows it (a Source that is not deleted, then `ic.yaml` and the sink's scrape
lost). No lost write in `PairedAsDesigned`: in one JVM a Source whose deletion
failed lets an agent in that is gone again before the window closes. No kill: a
window that nothing judged is analysed as an accepted one. `Arms` among the three:
2 is a decimal prefix of 25, and gate.py looks for a substring.

`SelftestBattery`: the fit is on, two repetitions or more are made, and one window
is noisy at most, then of two or three repetitions. With four of them and one noisy
window the statement is false, and TLC shows it: three degrees of freedom make the
interval narrow enough for the planted value to be resolvable, and the estimate, off
by a quarter of the noise or more, is further from it than TOL_US. Trends are whole spans
per slot because the pooled view is asked about whole spans (`InSpans`).

**Only model-checked**: liveness (`Terminates`, `CalibrationEnds`), which the prover
does not handle. Every other property of a passing run is stated by a theorem. The
runs that expect a violation are TLC's too: there is nothing to prove of them.

## 5. Findings

Each is a run that TLC refutes, with the line it contradicts quoted in `PROJECT.json`.

1. `pod_replaced`: a pod replaced inside a window makes `meta.json` unreadable,
   the gate raises, and the analysis keeps the window as accepted: its default
   is *accepted* and a `gate.json` that is not JSON leaves it. A kill between
   `k6.json` and `gate.json` has the same effect.
2. `restarted_between`: with `RESTART=once` a container restarted between two
   arms keeps its pod's name, by which the paired analysis identifies a process.
3. `no_baseline`: no accepted off window before an accepted instrumented one on
   one pod makes a valid entry without figures, and printing it raises.
4. `lost_evidence`: a failed scrape becomes a file of `None` that rules skip, where
   the gate says that missing evidence rejects.
5. `drift_uncorrected`: the window's time is read from the cgroup snapshot and then
   overwritten with a field of `cpu.json` that only the fixtures write. On a
   measured battery `BASELINE_FIT` therefore never fits anything, and the paired
   difference keeps the trend that it is there to remove; the self-test passes,
   because its fixtures have the field.

## 6. What is not modelled

- *Analysis*: one metric stands for all of them; the bracketed model's fit, the
  latency tables, the printed layout. *Reports*: the per-span verdicts of
  `validate.py`, SVG layout (`figure.py` is nothing else), the simulation of
  `power.py`, which draws random numbers.
- *Node probe*: throttling counters, quotients per span and per request.
- *Load*: request rates, so the achieved-rate rule cannot fire on its own.
- *Application*: the contents of rows, keys and payloads; the knobs that are no
  operation counts (CPU units, delay, payload); `/healthz` and `/admin/config`; the
  echo service. A calibration's threads start in one step, so a start that throws
  half-way is not covered; nor is a checkout that arrives while one measures.
- *Runner*: the synchronisation of the scripts at start-up, a `RESULTS` directory
  used twice, two runs in a row or beside each other.
- *Scripts*: the calibration script (planned below), the span capture (one-shot, no
  state), the cell table (constants); provisioning.

## 7. Plan

Done: Gate, Deltas, ArmRunner, Analysis, Bench, MeasureWindow, App, in the order
of how much of a published figure rests on them; then the abstract log and its
refinement, the statistics and the reports, the node probe.

Next, extending the model:

1. a chain of runs (`do_chain`): the k6 jobs a FATAL run leaves, the next run's
   restart and reset under that load, and a `RESULTS` directory used twice;
2. an abstract specification of the application's state (ready or not, per
   store), implemented by App's statement-by-statement verification;
3. the calibration script, as another driver of the same application;
4. a second reset in progress, and the calibration's threads started one by one.

Then, proving more: the refinement of 2, once it is stated, and the fit through
three cells and more, whose folds need products of any number of factors.
