---------------------------- MODULE BenchProofs ------------------------------
(***************************************************************************)
(* What the windows behind a comparison were measured on: theorems about   *)
(* the runner and the analysis together, for any number of cells and arms. *)
(* A window is opened, closed and judged in steps of their own, between    *)
(* which the cluster moves; an invariant says what is true of a cell's     *)
(* configuration at each of these stages.                                  *)
(***************************************************************************)
EXTENDS Bench, ArmRunnerSafety, FiniteSums

-----------------------------------------------------------------------------
(***************************************************************************)
(* The configuration an accepted window was measured on.                   *)
(***************************************************************************)

\* The arms gate.py documents, each in a fresh JVM, and at most two failures: or
\* any number of them that are not both lost writes and lost reads.
RunAsDocumented ==
  /\ RestartEach /\ RestartFaults = 0
  /\ \A n \in DOMAIN Arms : Arms[n] \in {Off, 25, 100}
  /\ AnyFaults <= 2 \/ ApplyFaults = 0 \/ ReadFaults = 0

LEMMA DocumentedArm == RunAsDocumented /\ TypeOK => arm \in {Off, 25, 100}
  BY DEF RunAsDocumented, TypeOK, arm

\* What the verdict says of ic.yaml and of the sink's counters.
LEMMA AcceptedRules ==
  ASSUME NEW e, NEW a, NEW x, GateJson(e, a, x) = "accepted"
  PROVE  /\ e.k6 # {}
         /\ Fired(IcRules(e.ic, a)) = {} /\ Fired(SinkRules(e.sink, a, x)) = {}
<1>1. e.garbled = {} /\ e.k6 # {} /\ Reasons(e, a, x) = {}
  BY DEF GateJson
<1>2. PICK k \in e.k6 : TRUE
  BY <1>1
<1>3. StrictReasons(k, e, a, x) = {}
  BY <1>1, <1>2 DEF Reasons
<1> QED
  BY <1>1, <1>3 DEF StrictReasons

LEMMA AcceptedIc ==
  ASSUME NEW t, NEW a, Fired(IcRules({t}, a)) = {}
  PROVE  /\ a = Off => ~t.crd
         /\ a # Off => t.crd
         /\ a = 25 => \E p \in t.pct : Prints(p, 25)
         /\ a = 100 => t.pct = {}
<1>1. {"undelivered", "present", "sampling", "headSampled"} \subseteq DOMAIN IcRules({t}, a)
  BY DEF IcRules
<1>2. /\ ~IcRules({t}, a).undelivered /\ ~IcRules({t}, a).present
      /\ ~IcRules({t}, a).sampling /\ ~IcRules({t}, a).headSampled
  BY <1>1 DEF Fired
<1>3. a # Off => t.crd
  BY <1>2 DEF IcRules
<1>4. a = Off => ~t.crd
  BY <1>2 DEF IcRules
<1>5. a = 25 => \E p \in t.pct : Prints(p, 25)
  BY <1>2 DEF IcRules, Off
<1>6. a = 100 => t.pct = {}
  BY <1>2 DEF IcRules
<1> QED
  BY <1>3, <1>4, <1>5, <1>6

LEMMA AcceptedSink ==
  ASSUME NEW s, NEW a, NEW n \in s.spansPerReq, n \in Int,
         Fired(SinkRules({s}, a, Expect)) = {}
  PROVE  /\ a = Off => n <= 1
         /\ a = 25 => 200 <= n /\ n <= 280
         /\ a = 100 => 900 <= n /\ n <= 1100
<1>1. {"coverage", "keep", "offSpans"} \subseteq DOMAIN SinkRules({s}, a, Expect)
  BY DEF SinkRules
<1>2. /\ ~SinkRules({s}, a, Expect).coverage /\ ~SinkRules({s}, a, Expect).keep
      /\ ~SinkRules({s}, a, Expect).offSpans
  BY <1>1 DEF Fired
<1>3. a = Off => ~(n > 1)
  BY <1>2 DEF SinkRules
<1>4. a = 25 => 20 * Expect <= 100 * n /\ 100 * n <= 28 * Expect
  BY <1>2 DEF SinkRules, Off, Expect
<1>5. a = 100 => ~(10 * Abs(n - Expect) > Expect)
  BY <1>2 DEF SinkRules, Off, Expect
<1>6. a = 100 => 900 <= n /\ n <= 1100
  BY <1>5 DEF Abs, Expect
<1> QED
  BY <1>3, <1>4, <1>6 DEF Expect

\* ic.yaml accepted on an instrumented arm names that arm.
LEMMA TextNamesArm ==
  ASSUME NEW a \in {25, 100}, NEW i \in {Off, 25, 100}, NEW t \in {IcText(i), OtherText},
         Fired(IcRules({t}, a)) = {}
  PROVE  i = a
<1>1. t.crd /\ (a = 25 => \E p \in t.pct : Prints(p, 25)) /\ (a = 100 => t.pct = {})
  BY AcceptedIc DEF Off
<1>2. t = IcText(i) /\ i # Off
  BY <1>1 DEF IcText, OtherText
<1>3. CASE i = 25
  <2>1. t.pct = {25}
    BY <1>2, <1>3 DEF IcText, Off
  <2> QED
    BY <1>1, <1>3, <2>1
<1>4. CASE i = 100
  <2>1. t.pct = {}
    BY <1>2, <1>4 DEF IcText, Off
  <2> QED
    BY <1>1, <1>4, <2>1
<1> QED
  BY <1>2, <1>3, <1>4

\* The spans between two scrapes of the sink, when one of them may be lost.
LEMMA SpansBetween ==
  ASSUME NEW u, NEW v, NEW start, NEW end, u \in Nat, v \in Nat,
         start \in {{}, {u}}, end \in {{}, {v}}
  PROVE  /\ end = {v} => Calls(end) - Calls(start) \in {v, v - u}
         /\ end = {v} /\ start = {u} => Calls(end) - Calls(start) = v - u
<1>1. Calls({}) = 0 /\ Calls({u}) = u /\ Calls({v}) = v
  BY DEF Calls
<1> QED
  BY <1>1

\* The rate the gate judges, and what it accepts of it.
AcceptedRate(m, a, u, v, first, last, done) ==
  /\ m \in {0, v, -v, v - u, u - v}
  /\ first = {u} /\ last = {v} /\ done => m = v - u
  /\ a = Off => m <= 1
  /\ a = 25 => 200 <= m /\ m <= 280
  /\ a = 100 => 900 <= m /\ m <= 1100

LEMMA SpansJudged ==
  ASSUME NEW a, NEW u, NEW v, NEW first, NEW last, NEW done,
         u \in Nat, v \in Nat, first \in {{}, {u}}, last \in {{}, {v}},
         Fired(SinkRules(SinkDelta(first, last, done), a, Expect)) = {}
  PROVE  \E m : AcceptedRate(m, a, u, v, first, last, done)
<1> DEFINE d == IF last = {} THEN 0 ELSE Calls(last) - Calls(first)
           m == IF done THEN d ELSE -d
           s == [refused |-> 0, failed |-> 0, spansPerReq |-> {m}]
<1>1. /\ last = {v} => Calls(last) - Calls(first) \in {v, v - u}
      /\ last = {v} /\ first = {u} => Calls(last) - Calls(first) = v - u
  BY SpansBetween
<1>2. SinkDelta(first, last, done) = {s}
  BY DEF SinkDelta
<1>3. /\ d \in {0, v, v - u} /\ d \in Int
      /\ first = {u} /\ last = {v} => d = v - u
  BY <1>1
<1> HIDE DEF d
<1>4. /\ m \in {0, v, -v, v - u, u - v} /\ m \in Int
      /\ first = {u} /\ last = {v} /\ done => m = v - u
  BY <1>3
<1>5. m \in s.spansPerReq
  OBVIOUS
<1> HIDE DEF m, s
<1>6. /\ a = Off => m <= 1
      /\ a = 25 => 200 <= m /\ m <= 280
      /\ a = 100 => 900 <= m /\ m <= 1100
  <2>1. Fired(SinkRules({s}, a, Expect)) = {}
    BY <1>2, Zenon
  <2>2. m \in Int /\ m \in s.spansPerReq
    BY <1>4, <1>5
  <2> QED
    BY <2>1, <2>2, AcceptedSink
<1> QED
  BY <1>4, <1>6 DEF AcceptedRate

\* An off arm whose Source was not deleted, and the worst of it: ic.yaml, which
\* would show that, could not be read either.
Lingering(c) == arm = Off /\ source[c]
Blind(c) == Lingering(c) /\ Captured(c) /\ ev[c].ic = {OtherText}

\* The cluster settles before the arm's first process starts, and its agent is
\* the arm's or not attached yet.
Settled(c) ==
  /\ pc \in Underway \cup {"restart"} /\ Lingering(c) => budget["any"] <= 1 \/ budget["read"] = 0
  /\ pc \in Underway => ic[c] = Desired(c) /\ agent[c] \in {Off, ic[c]}

TextKept(c) == Captured(c) => ev[c].ic \in {{IcText(ic[c])}, {OtherText}}

\* The process a window opened on is this one or an earlier one, and its agent
\* can only have been attached since.
OpenKept(c) ==
  Opened(c) =>
    /\ seen[c].open.agent \in {Off, ic[c]}
    /\ seen[c].open.spans \in {0, 10 * Expect}
    /\ ev[c].start.sink \in {{}, {seen[c].open.spans}}
    /\ \A y \in seen[c].open.process :
         /\ y[1] < pod[c] \/ (y[1] = pod[c] /\ y[2] <= restarts[c])
         /\ y = Process(c) => seen[c].open.agent \in {Off, agent[c]}

CloseKept(c) ==
  Shut(c) =>
    /\ seen[c].close.agent \in {Off, ic[c]}
    /\ \E n \in Observed(seen[c].open.agent, seen[c].close.agent) :
         seen[c].close.spans = seen[c].open.spans + n
    /\ seen[c].open.process = seen[c].close.process =>
         seen[c].open.agent \in {Off, seen[c].close.agent}

ScrapeKept(c) == Scraped(c) => ev[c].sink.spans \in {{}, {seen[c].close.spans}}

\* Two failures made the off arm blind, and there is no third for the sink.
BlindKept(c) ==
  Blind(c) =>
    /\ budget["any"] = 0 /\ job[c] # "failedLate"
    /\ Opened(c) => ev[c].start.sink = {seen[c].open.spans}
    /\ pc \in {"sink", "collect", "judge"} => job[c] # "running"
    /\ Scraped(c) => /\ ev[c].sink.spans = {seen[c].close.spans}
                     /\ job[c] = "succeeded" => ev[c].sink.completed
    /\ pc = "judge" /\ c = cell /\ ev[c].k6 # {} => ev[c].sink.completed

Kept(c) == TextKept(c) /\ OpenKept(c) /\ CloseKept(c) /\ ScrapeKept(c)

ConfigInv ==
  /\ rule \in {25, 100}
  /\ \A c \in Cell : Settled(c) /\ Kept(c) /\ BlindKept(c)
  /\ AcceptedRanAsAsked

LEMMA InitConfigInv == Init => ConfigInv
<1> SUFFICES ASSUME Init PROVE ConfigInv
  OBVIOUS
<1>1. pc = "sampling" /\ rule = 100 /\ \A c \in Cell : Windows(c) = {}
  BY DEF Init, Windows
<1>2. \A c \in Cell : Settled(c) /\ Kept(c) /\ BlindKept(c)
  BY <1>1 DEF Settled, Kept, TextKept, OpenKept, CloseKept, ScrapeKept, BlindKept, Blind,
     Captured, Opened, Shut, Scraped, Closed, Underway
<1>3. AcceptedRanAsAsked
  BY <1>1 DEF AcceptedRanAsAsked, Accepted
<1> QED
  BY <1>1, <1>2, <1>3 DEF ConfigInv

\* Spans of a window that closed on agent b, and opened on it or on none.
LEMMA SpansObserved ==
  ASSUME NEW b \in {25, 100}, NEW a \in {Off, b}, NEW n \in Observed(a, b)
  PROVE  n \in Nat /\ n > 1
<1>1. SpansOf(Off) = 0 /\ SpansOf(25) = 250 /\ SpansOf(100) = 1000
  BY DEF SpansOf, Expect, Off
<1>2. \/ a = Off /\ b = 25
      \/ a = Off /\ b = 100
      \/ a = b /\ b = 25
      \/ a = b /\ b = 100
  OBVIOUS
<1> QED
  BY <1>1, <1>2 DEF Observed

\* The three kinds of evidence together: ic.yaml, the process and the sink.
LEMMA JudgedRanAsAsked ==
  ASSUME RunAsDocumented, TypeOK, pc = "judge", rule \in {25, 100},
         Settled(cell), Kept(cell), BlindKept(cell), OpenRecorded(cell), CloseRecorded(cell),
         JudgedRow(cell).gate = "accepted"
  PROVE  seen[cell].close.agent = arm
<1>1. /\ cell \in Cell /\ arm \in {Off, 25, 100}
      /\ ev[cell] \in Files /\ seen[cell] \in Truth
      /\ ic[cell] \in Arm /\ source[cell] \in BOOLEAN
  BY DocumentedArm DEF TypeOK
<1>2. /\ Captured(cell) /\ Opened(cell) /\ Shut(cell) /\ Scraped(cell) /\ pc \in Underway
  BY DEF Captured, Opened, Shut, Scraped, Closed, Underway
<1> DEFINE e == Evidence(cell)
           t == ev[cell].ic
           open == seen[cell].open
           close == seen[cell].close
<1>3. /\ e.k6 # {}
      /\ Fired(IcRules(e.ic, arm)) = {} /\ Fired(SinkRules(e.sink, arm, Expect)) = {}
  <2>1. GateJson(e, arm, Expect) = "accepted"
    BY DEF JudgedRow, Row
  <2> HIDE DEF e
  <2> QED
    BY <2>1, AcceptedRules
<1>4. /\ ev[cell].k6 # {} /\ Fired(IcRules(t, arm)) = {}
      /\ Fired(SinkRules(SinkDelta(ev[cell].start.sink, ev[cell].sink.spans, ev[cell].sink.completed),
                         arm, Expect)) = {}
  BY <1>3 DEF Evidence
<1>5. ic[cell] = IF source[cell] THEN rule ELSE Off
  BY <1>2 DEF Settled, Desired
<1>6. PICK text \in {IcText(ic[cell]), OtherText} : t = {text}
  BY <1>2 DEF Kept, TextKept
<1>7. Fired(IcRules({text}, arm)) = {}
  BY <1>4, <1>6
<1>7a. ASSUME arm # Off PROVE ic[cell] = arm
  <2>1. arm \in {25, 100} /\ ic[cell] \in {Off, 25, 100}
    BY <1>1, <1>5, <1>7a
  <2> QED
    BY <1>7, <2>1, TextNamesArm
<1>8. /\ close.agent \in {Off, ic[cell]} /\ open.agent \in {Off, ic[cell]}
      /\ open.spans \in {0, 10 * Expect} /\ ev[cell].start.sink \in {{}, {open.spans}}
      /\ ev[cell].sink.spans \in {{}, {close.spans}}
      /\ \E n \in Observed(open.agent, close.agent) : close.spans = open.spans + n
  BY <1>2 DEF Kept, OpenKept, CloseKept, ScrapeKept
<1>9. PICK n \in Observed(open.agent, close.agent) : close.spans = open.spans + n
  BY <1>8
<1>10. open.spans \in Nat /\ close.spans \in Nat /\ ev[cell].sink.completed \in BOOLEAN
  BY <1>1 DEF Truth, Sight, Files
<1> DEFINE first == ev[cell].start.sink
           last == ev[cell].sink.spans
<1>11. PICK m : AcceptedRate(m, arm, open.spans, close.spans, first, last, ev[cell].sink.completed)
  <2> DEFINE u == open.spans  v == close.spans  done == ev[cell].sink.completed
  <2>1. /\ u \in Nat /\ v \in Nat
        /\ first \in {{}, {u}} /\ last \in {{}, {v}}
        /\ Fired(SinkRules(SinkDelta(first, last, done), arm, Expect)) = {}
    BY <1>4, <1>8, <1>10
  <2> HIDE DEF u, v, done, first, last
  <2>2. \E m : AcceptedRate(m, arm, u, v, first, last, done)
    BY <2>1, SpansJudged
  <2> QED
    BY <2>2 DEF u, v, done, first, last
<1>12. /\ m \in {0, close.spans, -close.spans, close.spans - open.spans, open.spans - close.spans}
       /\ arm = Off => m <= 1
       /\ arm = 25 => 200 <= m /\ m <= 280
       /\ arm = 100 => 900 <= m /\ m <= 1100
       /\ first = {open.spans} /\ last = {close.spans} /\ ev[cell].sink.completed =>
            m = close.spans - open.spans
  BY <1>11 DEF AcceptedRate
<1> HIDE DEF first, last
<1>13. CASE arm = Off
  <2> SUFFICES ASSUME close.agent # Off PROVE FALSE
    BY <1>13
  <2>1. source[cell] /\ ic[cell] = rule /\ rule # Off /\ close.agent = rule
    BY <1>5, <1>8 DEF Off
  <2>2. text = OtherText
    <3>1. ~text.crd
      BY <1>7, <1>13, AcceptedIc
    <3> QED
      BY <2>1, <3>1 DEF IcText
  <2>3. Blind(cell)
    BY <1>2, <1>6, <1>13, <2>1, <2>2 DEF Blind, Lingering
  <2>4. /\ first = {open.spans} /\ last = {close.spans}
        /\ ev[cell].sink.completed
    BY <1>2, <1>4, <2>3 DEF BlindKept, first, last
  <2>5. n \in Nat /\ n > 1
    <3>1. n \in Observed(open.agent, rule) /\ open.agent \in {Off, rule}
      BY <1>8, <1>9, <2>1
    <3> HIDE DEF open
    <3> QED
      BY <3>1, SpansObserved
  <2> HIDE DEF open, close
  <2>6. m = n
    BY <1>9, <1>10, <1>12, <2>4, <2>5
  <2> QED
    BY <1>12, <1>13, <2>5, <2>6
<1>14. CASE arm # Off
  <2>1. ic[cell] = arm
    BY <1>7a, <1>14
  <2> SUFFICES ASSUME close.agent = Off PROVE FALSE
    BY <1>8, <2>1
  <2>2. JudgedRow(cell).opened = JudgedRow(cell).closed
    BY <1>1, JudgedInOneProcess
  <2>3. open.process = close.process
    BY <2>2 DEF JudgedRow, Row
  <2>4. open.agent = Off
    BY <1>2, <2>3 DEF Kept, CloseKept
  <2>5. n = 0
    <3>1. n \in Observed(Off, Off)
      BY <1>9, <2>4
    <3> QED
      BY <3>1 DEF Observed, SpansOf, Off
  <2> HIDE DEF open, close
  <2>6. close.spans = open.spans
    BY <1>9, <1>10, <2>5
  <2>7. m \in {0, 10 * Expect, -(10 * Expect)}
    BY <1>8, <1>10, <1>12, <2>6 DEF Expect
  <2> QED
    BY <1>1, <1>12, <1>14, <2>7 DEF Expect
<1> QED
  BY <1>13, <1>14


\* What a step that has nothing to do with a cell's configuration leaves alone.
Calm == /\ source' = source /\ rule' = rule /\ ic' = ic
        /\ pod' = pod /\ restarts' = restarts /\ agent' = agent

SameFiles(c) == /\ ev'[c].ic = ev[c].ic /\ ev'[c].start = ev[c].start /\ ev'[c].sink = ev[c].sink
                /\ seen'[c].open = seen[c].open /\ seen'[c].close = seen[c].close

SameStage(c) == /\ Captured(c)' => Captured(c)
                /\ Opened(c)' => Opened(c)
                /\ Shut(c)' => Shut(c)
                /\ Scraped(c)' => Scraped(c)

LEMMA SettledStutter ==
  ASSUME BudgetInv, BudgetInv', BudgetFalls, idx' = idx,
         source' = source, rule' = rule, ic' = ic, agent' = agent,
         NEW c \in Cell, Settled(c),
         pc' = "restart" => pc = "restart", pc' \in Underway => pc \in Underway
  PROVE  Settled(c)'
<1>1. /\ budget'["any"] <= budget["any"] /\ budget'["read"] <= budget["read"]
      /\ \A k \in {"any", "read"} : budget[k] \in Nat /\ budget'[k] \in Nat
  BY DEF BudgetInv, BudgetFalls, Failure
<1>2. Lingering(c)' <=> Lingering(c)
  BY DEF Lingering, arm
<1>3. Desired(c)' = Desired(c)
  BY DEF Desired
<1> QED
  BY <1>1, <1>2, <1>3 DEF Settled

LEMMA KeptStutter ==
  ASSUME NEW c \in Cell, Kept(c), Calm, SameFiles(c), SameStage(c)
  PROVE  Kept(c)'
<1>1. TextKept(c)' /\ ScrapeKept(c)'
  BY DEF Kept, TextKept, ScrapeKept, Calm, SameFiles, SameStage
<1>2. OpenKept(c)'
  BY DEF Kept, OpenKept, Calm, SameFiles, SameStage, Process
<1>3. CloseKept(c)'
  BY DEF Kept, CloseKept, Calm, SameFiles, SameStage
<1> QED
  BY <1>1, <1>2, <1>3 DEF Kept

LEMMA BlindStutter ==
  ASSUME BudgetInv, BudgetInv', BudgetFalls, idx' = idx, source' = source,
         NEW c \in Cell, BlindKept(c), SameFiles(c), SameStage(c),
         job'[c] = job[c] \/ job'[c] \in {"none", "pending", "failed"},
         pc' # "judge", pc' \in {"sink", "collect"} => pc \in {"sink", "collect", "judge"}
  PROVE  BlindKept(c)'
<1>1. /\ budget'["any"] <= budget["any"]
      /\ budget["any"] \in Nat /\ budget'["any"] \in Nat
  BY DEF BudgetInv, BudgetFalls, Failure
<1>2. Blind(c)' => Blind(c)
  BY DEF Blind, Lingering, arm, SameFiles, SameStage
<1> QED
  BY <1>1, <1>2 DEF BlindKept, SameFiles, SameStage

\* Between two arms, and after the last, nothing is promised of the files.
LEMMA NotUnderway ==
  ASSUME pc' \notin Underway, NEW c \in Cell
  PROVE  Kept(c)' /\ BlindKept(c)'
<1>1. ~Captured(c)' /\ ~Opened(c)' /\ ~Shut(c)' /\ ~Scraped(c)'
  BY DEF Captured, Opened, Shut, Scraped, Closed, Underway
<1> QED
  BY <1>1 DEF Kept, TextKept, OpenKept, CloseKept, ScrapeKept, BlindKept, Blind

\* The files that say nothing of the configuration.
LEMMA OtherFilesOf ==
  ASSUME TypeOK, NEW v,
         \/ ev' = [ev EXCEPT ![cell].reset = v]
         \/ ev' = [ev EXCEPT ![cell].mid = v]
         \/ ev' = [ev EXCEPT ![cell].k6 = v]
  PROVE  \A c \in Cell : /\ ev'[c].ic = ev[c].ic /\ ev'[c].start = ev[c].start
                         /\ ev'[c].sink = ev[c].sink
<1>0. cell \in Cell /\ ev \in [Cell -> Files]
  BY DEF TypeOK
<1>1. CASE ev' = [ev EXCEPT ![cell].reset = v]
  BY <1>0, <1>1 DEF Files
<1>2. CASE ev' = [ev EXCEPT ![cell].mid = v]
  BY <1>0, <1>2 DEF Files
<1>3. CASE ev' = [ev EXCEPT ![cell].k6 = v]
  BY <1>0, <1>3 DEF Files
<1> QED
  BY <1>1, <1>2, <1>3

\* set_sampling, with however many of its calls failing.
LEMMA SamplingSettles ==
  ASSUME RunAsDocumented, TypeOK, BudgetInv, BudgetInv', rule \in {25, 100}, SetSampling
  PROVE  rule' \in {25, 100} /\ \A c \in Cell : Settled(c)'
<1>1. PICK F \in Fails("apply", Cell \cup {0}) :
        /\ Spend("apply", F)
        /\ source' = [c \in Cell |-> IF c \in F THEN source[c] ELSE arm # Off]
        /\ rule' \in IF 0 \in F THEN {rule, 100} ELSE {IF arm = Off THEN 100 ELSE arm}
  BY Zenon DEF SetSampling
<1>2. pc' = "restart" /\ idx' = idx
  BY GotoStep DEF SetSampling, RunAsDocumented
<1>3. rule' \in {25, 100}
  <2>1. CASE 0 \in F
    BY <1>1, <2>1
  <2>2. CASE 0 \notin F
    <3>1. rule' = IF arm = Off THEN 100 ELSE arm
      BY <1>1, <2>2
    <3> QED
      BY <3>1, DocumentedArm
  <2> QED
    BY <2>1, <2>2
<1>4. "apply" \in Failure \ {"any"} /\ IsFiniteSet(Cell \cup {0})
  BY FiniteCells DEF Failure
<1>5. F # {} => budget'["any"] <= 1 \/ budget'["read"] = 0
  <2> DEFINE n == Cardinality(F)
  <2>1. /\ n \in Nat /\ (F # {} => n >= 1) /\ n <= budget["apply"]
        /\ budget'["any"] = budget["any"] - n
    BY <1>1, <1>4, SpendStep
  <2> HIDE DEF n
  <2>2. /\ budget["apply"] <= ApplyFaults /\ budget["any"] <= AnyFaults
        /\ budget'["read"] <= ReadFaults /\ budget'["read"] \in Nat
        /\ budget["any"] \in Nat /\ budget["apply"] \in Nat
    BY DEF BudgetInv, Failure
  <2>3. AnyFaults \in Nat /\ ApplyFaults \in Nat /\ ReadFaults \in Nat
    BY RunnerAssumption
  <2> QED
    BY <2>1, <2>2, <2>3 DEF RunAsDocumented
<1>6. ASSUME NEW c \in Cell PROVE Settled(c)'
  <2>1. Lingering(c)' => F # {}
    <3>1. arm' = arm
      BY <1>2 DEF arm
    <3>2. ASSUME F = {}, arm = Off PROVE ~source'[c]
      BY <1>1, <3>2
    <3> QED
      BY <3>1, <3>2 DEF Lingering
  <2> QED
    BY <1>2, <1>5, <2>1 DEF Settled, Underway
<1> QED
  BY <1>3, <1>6

\* Every cell's process is new when the arm's configuration has settled.
LEMMA RestartSettles ==
  ASSUME RunAsDocumented, BudgetInv, BudgetInv', BudgetFalls, ResetAndRestart,
         NEW c \in Cell, Settled(c)
  PROVE  Settled(c)'
<1>1. /\ pc = "restart" /\ pc' = "health" /\ idx' = idx /\ source' = source /\ rule' = rule
      /\ ic' = ic /\ ic[c] = Desired(c)
  BY GotoStep DEF ResetAndRestart
<1>2. PICK F \in Fails("restart", Cell) :
        agent' = [d \in Cell |-> IF d \in F THEN agent[d] ELSE Off]
  BY DEF ResetAndRestart
<1>3. F = {}
  <2>1. budget["restart"] = 0
    BY DEF BudgetInv, RunAsDocumented, Failure
  <2>2. "restart" \in Failure \ {"any"}
    BY DEF Failure
  <2> QED
    BY <2>1, <2>2, FiniteCells, NoneLeft
<1>4. agent'[c] = Off
  BY <1>2, <1>3
<1>5. /\ budget'["any"] <= budget["any"] /\ budget'["read"] <= budget["read"]
      /\ \A k \in {"any", "read"} : budget[k] \in Nat /\ budget'[k] \in Nat
  BY DEF BudgetInv, BudgetFalls, Failure
<1>6. (Lingering(c)' <=> Lingering(c)) /\ Desired(c)' = Desired(c)
  BY <1>1 DEF Lingering, arm, Desired
<1> QED
  BY <1>1, <1>4, <1>5, <1>6 DEF Settled


\* Saving ic.yaml: the text of the configuration, or an error.
LEMMA CaptureKept ==
  ASSUME PhaseInv, TypeOK, BudgetInv, BudgetInv', BudgetFalls, rule \in {25, 100}, Capture,
         NEW c \in Cell, Settled(c), Kept(c), BlindKept(c)
  PROVE  Kept(c)' /\ BlindKept(c)'
<1>0. /\ cell \in Cell /\ ev \in [Cell -> Files] /\ seen \in [Cell -> Truth]
      /\ ev[cell] \in Files
  BY DEF TypeOK
<1>1. PICK F \in Fails("read", {"ic"}) :
        /\ Spend("read", F)
        /\ ev' = [ev EXCEPT ![cell].ic = {IF F = {} THEN IcText(ic[cell]) ELSE OtherText}]
  BY Zenon DEF Capture
<1>2. /\ pc = "capture" /\ NextCell("launch") /\ job' = job /\ Calm
  BY DEF Capture, Calm, clusterVars
<1>3. /\ cell' \in Cell /\ idx' = idx
      /\ \/ pc' = "capture" /\ \A d \in Cell : d < cell' <=> (d < cell \/ d = cell)
         \/ pc' = "launch"  /\ \A d \in Cell : d < cell \/ d = cell
  BY <1>2, TurnOfCells
<1>4. seen'[c].open = seen[c].open /\ seen'[c].close = seen[c].close
  BY OtherReads
<1>5. ~Opened(c)' /\ ~Shut(c)' /\ ~Scraped(c)'
  BY <1>3 DEF Opened, Shut, Scraped, Closed
<1>6. CASE c # cell
  <2>1. SameFiles(c) /\ SameStage(c)
    <3>1. ev'[c] = ev[c]
      BY <1>0, <1>1, <1>6
    <3>2. Captured(c)' => Captured(c)
      BY <1>2, <1>3, <1>6 DEF Captured, Underway
    <3> QED
      BY <1>4, <1>5, <3>1, <3>2 DEF SameFiles, SameStage
  <2> QED
    BY <1>2, <1>3, <2>1, KeptStutter, BlindStutter DEF Calm
<1>7. CASE c = cell
  <2>1. ev'[c].ic = {IF F = {} THEN IcText(ic[c]) ELSE OtherText}
    BY <1>0, <1>1, <1>7 DEF Files
  <2>2. TextKept(c)'
    BY <1>2, <2>1 DEF TextKept, Calm
  <2>3. ASSUME Blind(c)' PROVE budget'["any"] = 0
    <3>1. Lingering(c) /\ ev'[c].ic = {OtherText}
      BY <1>2, <1>3, <2>3 DEF Blind, Lingering, arm, Calm
    <3>2. ic[c] = rule
      BY <1>2, <3>1 DEF Settled, Desired, Lingering, Underway
    <3>3. F # {}
      <4>1. IcText(ic[c]).crd /\ ~OtherText.crd
        BY <3>2 DEF IcText, OtherText, Off
      <4>2. F = {} => IcText(ic[c]) = OtherText
        BY <2>1, <3>1
      <4> QED
        BY <4>1, <4>2
    <3>4. budget["any"] <= 1 \/ budget["read"] = 0
      BY <1>2, <3>1 DEF Settled, Underway
    <3>5. "read" \in Failure \ {"any"}
      BY DEF Failure
    <3> DEFINE n == Cardinality(F)
    <3>6. /\ n \in Nat /\ n >= 1 /\ n <= budget["read"] /\ n <= budget["any"]
          /\ budget'["any"] = budget["any"] - n
      BY <1>1, <3>3, <3>5, FiniteReads, SpendStep
    <3>7. budget["any"] \in Nat /\ budget["read"] \in Nat
      BY DEF BudgetInv, Failure
    <3> HIDE DEF n
    <3> QED
      BY <3>4, <3>6, <3>7
  <2>4. job'[c] = "none"
    BY <1>2 DEF PhaseInv, JobsInv, QuietWhileReconfiguring
  <2>5. BlindKept(c)'
    BY <1>3, <1>5, <2>3, <2>4 DEF BlindKept
  <2> QED
    BY <1>5, <2>2, <2>5 DEF Kept, OpenKept, CloseKept, ScrapeKept
<1> QED
  BY <1>6, <1>7

\* The snapshot at the start of the window.
LEMMA OpenKeeps ==
  ASSUME TypeOK, BudgetInv, BudgetInv', BudgetFalls, OpenWindow,
         NEW c \in Cell, Settled(c), Kept(c), BlindKept(c)
  PROVE  Kept(c)' /\ BlindKept(c)'
<1>0. /\ cell \in Cell /\ pod[c] \in Nat /\ restarts[c] \in Nat
  BY DEF TypeOK
<1>1. /\ pc = "open" /\ NextCell("mid") /\ job' = job /\ clusterVars' = clusterVars
      /\ seen'[cell].open = [process |-> {Process(cell)}, agent |-> agent[cell],
                             loaded |-> job[cell] = "running", spans |-> SpansSoFar(cell)]
      /\ ev'[cell].start.sink \in {{}, {SpansSoFar(cell)}}
      /\ (\A F \in Fails("read", {"pod", "rs", "cgStart", "jvmStart", "sinkStart"}) : F = {}) =>
           ev'[cell].start.sink = {SpansSoFar(cell)}
      /\ ev'[cell].ic = ev[cell].ic /\ ev'[cell].sink = ev[cell].sink
      /\ \A d \in Cell \ {cell} : ev'[d] = ev[d] /\ seen'[d] = seen[d]
  BY OpenWindowCell
<1>2. /\ cell' \in Cell /\ idx' = idx
      /\ \/ pc' = "open" /\ \A d \in Cell : d < cell' <=> (d < cell \/ d = cell)
         \/ pc' = "mid"  /\ \A d \in Cell : d < cell \/ d = cell
  BY <1>1, TurnOfCells
<1>3. Calm /\ ~Shut(c)' /\ ~Scraped(c)' /\ Captured(c)
  BY <1>1, <1>2 DEF Calm, clusterVars, Shut, Scraped, Closed, Captured, Underway
<1>4. CASE c # cell
  <2>1. SameFiles(c) /\ SameStage(c)
    BY <1>1, <1>2, <1>3, <1>4 DEF SameFiles, SameStage, Opened
  <2> QED
    BY <1>1, <1>2, <1>3, <2>1, KeptStutter, BlindStutter DEF Calm
<1>5. CASE c = cell
  <2>1. /\ seen'[c].open.agent = agent[c] /\ seen'[c].open.spans = SpansSoFar(c)
        /\ seen'[c].open.process = {Process(c)}
    BY <1>1, <1>5
  <2>2. SpansSoFar(c) \in {0, 10 * Expect}
    BY DEF SpansSoFar
  <2>3. agent[c] \in {Off, ic[c]}
    BY <1>1 DEF Settled, Underway
  <2>4. \A y \in seen'[c].open.process :
          /\ y[1] < pod'[c] \/ (y[1] = pod'[c] /\ y[2] <= restarts'[c])
          /\ y = Process(c)' => seen'[c].open.agent \in {Off, agent'[c]}
    BY <1>0, <1>3, <2>1 DEF Process, Calm
  <2>5. OpenKept(c)'
    BY <1>1, <1>3, <1>5, <2>1, <2>2, <2>3, <2>4 DEF OpenKept, Calm
  <2>6. TextKept(c)'
    BY <1>1, <1>3, <1>5 DEF Kept, TextKept, Calm
  <2>7. ASSUME Blind(c)'
        PROVE  /\ budget'["any"] = 0 /\ job'[c] # "failedLate"
               /\ ev'[c].start.sink = {seen'[c].open.spans}
    <3>1. Blind(c)
      BY <1>1, <1>2, <1>3, <1>5, <2>7 DEF Blind, Lingering, arm, Calm
    <3>2. budget["any"] = 0 /\ job[c] # "failedLate"
      BY <3>1 DEF BlindKept
    <3>3. "read" \in Failure \ {"any"} /\ budget'["any"] \in Nat /\ budget'["any"] <= budget["any"]
      BY DEF Failure, BudgetInv, BudgetFalls
    <3>4. \A F \in Fails("read", {"pod", "rs", "cgStart", "jvmStart", "sinkStart"}) : F = {}
      BY <3>2, <3>3, FiniteReads, NoneLeft
    <3> QED
      BY <1>1, <1>5, <2>1, <3>2, <3>3, <3>4
  <2>8. BlindKept(c)'
    BY <1>2, <1>3, <2>7 DEF BlindKept
  <2> QED
    BY <1>3, <2>5, <2>6, <2>8 DEF Kept, CloseKept, ScrapeKept
<1> QED
  BY <1>4, <1>5

\* The snapshot at its end.
LEMMA CloseKeeps ==
  ASSUME TypeOK, BudgetInv, BudgetInv', BudgetFalls, CloseWindow,
         NEW c \in Cell, Settled(c), Kept(c), BlindKept(c)
  PROVE  Kept(c)' /\ BlindKept(c)'
<1>0. cell \in Cell
  BY DEF TypeOK
<1>1. /\ pc = "close" /\ NextCell("wait_all") /\ job' = job /\ clusterVars' = clusterVars
      /\ \E n \in Observed(seen[cell].open.agent, agent[cell]) :
           seen'[cell].close = [process |-> {Process(cell)}, agent |-> agent[cell],
                                loaded |-> job[cell] = "running",
                                spans |-> seen[cell].open.spans + n]
      /\ seen'[cell].open = seen[cell].open
      /\ ev'[cell].start = ev[cell].start /\ ev'[cell].ic = ev[cell].ic
      /\ ev'[cell].sink = ev[cell].sink
      /\ \A d \in Cell \ {cell} : ev'[d] = ev[d] /\ seen'[d] = seen[d]
  BY CloseWindowCell
<1>2. /\ cell' \in Cell /\ idx' = idx
      /\ \/ pc' = "close" /\ \A d \in Cell : d < cell' <=> (d < cell \/ d = cell)
         \/ pc' = "wait_all" /\ \A d \in Cell : d < cell \/ d = cell
  BY <1>1, TurnOfCells
<1>3. Calm /\ ~Scraped(c)' /\ Captured(c) /\ Opened(c)
  BY <1>1, <1>2 DEF Calm, clusterVars, Opened, Scraped, Captured, Underway
<1>4. CASE c # cell
  <2>1. SameFiles(c) /\ SameStage(c)
    BY <1>1, <1>2, <1>3, <1>4 DEF SameFiles, SameStage, Shut, Closed
  <2> QED
    BY <1>1, <1>2, <1>3, <2>1, KeptStutter, BlindStutter DEF Calm
<1>5. CASE c = cell
  <2>1. PICK n \in Observed(seen[c].open.agent, agent[c]) :
          /\ seen'[c].close.process = {Process(c)} /\ seen'[c].close.agent = agent[c]
          /\ seen'[c].close.spans = seen[c].open.spans + n
    BY <1>1, <1>5
  <2>2. agent[c] \in {Off, ic[c]}
    BY <1>1 DEF Settled, Underway
  <2>3. OpenKept(c) /\ TextKept(c)
    BY DEF Kept
  <2>4. seen[c].open.process = {Process(c)} => seen[c].open.agent \in {Off, agent[c]}
    BY <1>3, <2>3 DEF OpenKept
  <2>5. CloseKept(c)'
    <3>1. seen'[c].close.agent \in {Off, ic'[c]}
      BY <1>3, <2>1, <2>2 DEF Calm
    <3>2. n \in Observed(seen'[c].open.agent, seen'[c].close.agent)
      BY <1>1, <1>5, <2>1
    <3>3. seen'[c].close.spans = seen'[c].open.spans + n
      BY <1>1, <1>5, <2>1
    <3>4. seen'[c].open.process = seen'[c].close.process =>
            seen'[c].open.agent \in {Off, seen'[c].close.agent}
      BY <1>1, <1>5, <2>1, <2>4
    <3> QED
      BY <3>1, <3>2, <3>3, <3>4 DEF CloseKept
  <2>6. OpenKept(c)' /\ TextKept(c)'
    BY <1>1, <1>3, <1>5, <2>3 DEF OpenKept, TextKept, Calm, Process
  <2>7. BlindKept(c)'
    <3>1. Blind(c)' => Blind(c)
      BY <1>1, <1>2, <1>3, <1>5 DEF Blind, Lingering, arm, Calm
    <3>2. budget'["any"] \in Nat /\ budget'["any"] <= budget["any"] /\ budget["any"] \in Nat
      BY DEF Failure, BudgetInv, BudgetFalls
    <3> QED
      BY <1>1, <1>2, <1>3, <1>5, <3>1, <3>2 DEF BlindKept
  <2> QED
    BY <1>3, <2>5, <2>6, <2>7 DEF Kept, ScrapeKept
<1> QED
  BY <1>4, <1>5


\* The steps of the runner that neither touch a cell's configuration nor take
\* evidence of it.
LEMMA CalmSteps ==
  ASSUME TypeOK,
         \/ WaitHealthy \/ WaitIc \/ AdminReset \/ Launch \/ AwaitStart \/ SleepUntil
         \/ SnapMid \/ WaitAll \/ Collect
  PROVE  /\ Calm /\ idx' = idx /\ rows' = rows /\ pc \in Underway /\ pc' \in Underway \cup {"fatal"}
         /\ \A c \in Cell : SameFiles(c)
         /\ pc' \in Underway => \A c \in Cell : SameStage(c)
<1>0. cell \in Cell /\ 1 \in Cell /\ \A c \in Cell : ~(c < 1)
  BY RunnerAssumption DEF TypeOK, Cell
<1>1. Calm /\ idx' = idx /\ rows' = rows /\ pc \in Underway /\ pc' \in Underway \cup {"fatal"}
  BY <1>0, NextCellStep, GotoStep
     DEF WaitHealthy, WaitIc, AdminReset, Launch, AwaitStart, SleepUntil, SnapMid, WaitAll, Collect, Fatal,
         Calm, clusterVars, Underway
<1>2. ASSUME NEW c \in Cell PROVE SameFiles(c)
  <2>1. CASE AdminReset
    <3>1. PICK code \in {200, 500} :
            /\ ev' = [ev EXCEPT ![cell].reset = {code}]
            /\ db' = [db EXCEPT ![cell] = IF code = 200 THEN "known" ELSE @]
            /\ IF code = 200 THEN NextCell("capture") ELSE Fatal
      BY <2>1, Zenon DEF AdminReset
    <3>2. seen' = seen
      BY <2>1 DEF AdminReset
    <3> QED
      BY <1>0, <3>1, <3>2, OtherFilesOf DEF SameFiles
  <2>2. CASE SnapMid
    <3>1. PICK v : ev' = [ev EXCEPT ![cell].mid = v]
      BY <2>2, Zenon DEF SnapMid
    <3> QED
      BY <1>0, <2>2, <3>1, OtherFilesOf, OtherReads DEF SameFiles
  <2>3. CASE Collect
    <3>1. PICK v : ev' = [ev EXCEPT ![cell].k6 = v]
      BY <2>3, Zenon DEF Collect
    <3> QED
      BY <2>3, <3>1, OtherFilesOf, OtherReads DEF SameFiles
  <2>4. CASE WaitHealthy \/ WaitIc \/ Launch \/ AwaitStart \/ SleepUntil \/ WaitAll
    BY <2>4 DEF WaitHealthy, WaitIc, Launch, AwaitStart, SleepUntil, WaitAll, SameFiles
  <2> QED
    BY <2>1, <2>2, <2>3, <2>4
<1>3. ASSUME NEW c \in Cell, pc' \in Underway PROVE SameStage(c)
  <2>1. \/ pc \in {"health", "ic", "reset", "launch", "started", "warm", "mid", "snapmid", "end"}
           /\ pc' \in {"health", "ic", "reset", "launch", "started", "warm", "snapmid", "end"}
           /\ (pc' \in {"launch", "started", "warm"} => pc \in {"launch", "started"})
           /\ (pc' \in {"snapmid", "end"} => pc \in {"mid", "snapmid"})
        \/ pc = "reset" /\ pc' = "capture" /\ cell' = 1
        \/ pc = "warm" /\ pc' = "open" /\ cell' = 1
        \/ pc = "end" /\ pc' = "close" /\ cell' = 1
        \/ pc = "wait_all" /\ pc' = "sink" /\ cell' = 1
        \/ pc = "collect" /\ pc' = "judge"
    BY <1>0, <1>3, NextCellStep, GotoStep
       DEF WaitHealthy, WaitIc, AdminReset, Launch, AwaitStart, SleepUntil, SnapMid, WaitAll, Collect,
           Fatal, Underway
  <2> QED
    BY <1>0, <2>1 DEF SameStage, Captured, Opened, Shut, Scraped, Closed, Underway
<1> QED
  BY <1>1, <1>2, <1>3

\* wait_all: without a failure left to come it waits for the last job.
LEMMA WaitKeeps ==
  ASSUME TypeOK, BudgetInv, BudgetInv', BudgetFalls, WaitAll,
         NEW c \in Cell, Kept(c), BlindKept(c)
  PROVE  Kept(c)' /\ BlindKept(c)'
<1>1. pc = "wait_all" /\ pc' = "sink" /\ cell' = 1 /\ idx' = idx /\ job' = job
  BY GotoStep DEF WaitAll
<1>2. Calm /\ SameFiles(c) /\ SameStage(c)
  BY <1>1, CalmSteps DEF Underway
<1>3. ~Scraped(c)'
  <2>1. ~(c < 1)
    BY RunnerAssumption DEF Cell
  <2> QED
    BY <1>1, <2>1 DEF Scraped
<1>5. BlindKept(c)'
  <2> SUFFICES ASSUME Blind(c)' PROVE BlindKept(c)'
    BY DEF BlindKept
  <2>1. Blind(c)
    BY <1>1, <1>2 DEF Blind, Lingering, arm, Calm, SameFiles, SameStage
  <2>2. budget["any"] = 0
    BY <2>1 DEF BlindKept
  <2>3. \A F \in Fails("job", {0}) : F = {}
    <3>1. "job" \in Failure \ {"any"} /\ IsFiniteSet({0})
      BY FS_Singleton DEF Failure
    <3> QED
      BY <2>2, <3>1, NoneLeft
  <2>4. {} \in Fails("job", {0})
    <3>1. Cardinality({}) = 0 /\ budget["job"] \in Nat /\ budget["any"] \in Nat
      BY FS_EmptySet DEF BudgetInv, Failure
    <3> QED
      BY <3>1 DEF Fails
  <2>5. Fails("job", {0}) = {{}}
    BY <2>3, <2>4
  <2>6. job[c] # "running"
    BY <2>5 DEF WaitAll
  <2>7. budget'["any"] = 0
    <3>1. budget'["any"] \in Nat /\ budget'["any"] <= budget["any"]
      BY DEF Failure, BudgetInv, BudgetFalls
    <3> QED
      BY <2>2, <3>1
  <2> QED
    BY <1>1, <1>2, <1>3, <2>1, <2>6, <2>7 DEF BlindKept, Opened, SameFiles
<1> QED
  BY <1>2, <1>5, KeptStutter

\* What the last scrape, and the job's completion, leave on file.
LEMMA SinkEndCell ==
  ASSUME TypeOK, SinkEnd
  PROVE  /\ pc = "sink" /\ NextCell("collect") /\ job' = job /\ clusterVars' = clusterVars
         /\ ev'[cell].sink.spans \in {{}, {seen[cell].close.spans}}
         /\ (\A F \in Fails("read", {"sinkEnd", "completed"}) : F = {}) =>
              /\ ev'[cell].sink.spans = {seen[cell].close.spans}
              /\ job[cell] = "succeeded" => ev'[cell].sink.completed
         /\ ev'[cell].start = ev[cell].start /\ ev'[cell].ic = ev[cell].ic
         /\ \A c \in Cell \ {cell} : ev'[c] = ev[c]
<1>0. cell \in Cell /\ ev \in [Cell -> Files] /\ ev[cell] \in Files
  BY DEF TypeOK
<1>1. PICK F \in Fails("read", {"sinkEnd", "completed"}) :
        ev' = [ev EXCEPT ![cell].sink =
                 [spans     |-> IF "sinkEnd" \in F THEN {} ELSE {seen[cell].close.spans},
                  completed |-> "completed" \notin F /\ job[cell] = "succeeded"]]
  BY Zenon DEF SinkEnd
<1> DEFINE got == [spans     |-> IF "sinkEnd" \in F THEN {} ELSE {seen[cell].close.spans},
                   completed |-> "completed" \notin F /\ job[cell] = "succeeded"]
<1>2. /\ got.spans \in {{}, {seen[cell].close.spans}}
      /\ F = {} => got.spans = {seen[cell].close.spans} /\ (job[cell] = "succeeded" => got.completed)
  OBVIOUS
<1> HIDE DEF got
<1>3. ev' = [ev EXCEPT ![cell].sink = got]
  BY <1>1 DEF got
<1>4. /\ ev'[cell].sink = got
      /\ ev'[cell].start = ev[cell].start /\ ev'[cell].ic = ev[cell].ic
      /\ \A c \in Cell \ {cell} : ev'[c] = ev[c]
  BY <1>0, <1>3 DEF Files
<1> QED
  BY <1>1, <1>2, <1>4 DEF SinkEnd

LEMMA SinkKeeps ==
  ASSUME TypeOK, BudgetInv, BudgetInv', BudgetFalls, SinkEnd,
         NEW c \in Cell, Kept(c), BlindKept(c)
  PROVE  Kept(c)' /\ BlindKept(c)'
<1>0. cell \in Cell
  BY DEF TypeOK
<1>1. /\ pc = "sink" /\ NextCell("collect") /\ job' = job /\ clusterVars' = clusterVars
      /\ ev'[cell].sink.spans \in {{}, {seen[cell].close.spans}}
      /\ (\A F \in Fails("read", {"sinkEnd", "completed"}) : F = {}) =>
           /\ ev'[cell].sink.spans = {seen[cell].close.spans}
           /\ job[cell] = "succeeded" => ev'[cell].sink.completed
      /\ ev'[cell].start = ev[cell].start /\ ev'[cell].ic = ev[cell].ic
      /\ \A d \in Cell \ {cell} : ev'[d] = ev[d]
  BY SinkEndCell
<1>2. /\ cell' \in Cell /\ idx' = idx
      /\ \/ pc' = "sink" /\ \A d \in Cell : d < cell' <=> (d < cell \/ d = cell)
         \/ pc' = "collect" /\ \A d \in Cell : d < cell \/ d = cell
  BY <1>1, TurnOfCells
<1>3. /\ seen'[c].open = seen[c].open /\ seen'[c].close = seen[c].close
      /\ Calm /\ Captured(c) /\ Opened(c) /\ Shut(c)
  BY <1>1, OtherReads DEF Calm, clusterVars, Opened, Shut, Closed, Captured, Underway
<1>4. CASE c # cell
  <2>1. SameFiles(c) /\ SameStage(c)
    BY <1>1, <1>2, <1>3, <1>4 DEF SameFiles, SameStage, Scraped
  <2> QED
    BY <1>1, <1>2, <1>3, <2>1, KeptStutter, BlindStutter DEF Calm
<1>5. CASE c = cell
  <2>1. OpenKept(c) /\ CloseKept(c) /\ TextKept(c)
    BY DEF Kept
  <2>2. OpenKept(c)' /\ TextKept(c)'
    BY <1>1, <1>3, <1>5, <2>1 DEF OpenKept, TextKept, Calm, Process
  <2>3. CloseKept(c)'
    BY <1>3, <2>1 DEF CloseKept, Calm
  <2>4. ScrapeKept(c)'
    BY <1>1, <1>3, <1>5 DEF ScrapeKept
  <2>5. BlindKept(c)'
    <3> SUFFICES ASSUME Blind(c)' PROVE BlindKept(c)'
      BY DEF BlindKept
    <3>1. Blind(c)
      BY <1>1, <1>2, <1>3, <1>5 DEF Blind, Lingering, arm, Calm
    <3>2. /\ budget["any"] = 0 /\ job[c] # "failedLate" /\ job[c] # "running"
          /\ ev[c].start.sink = {seen[c].open.spans}
      BY <1>1, <1>3, <3>1 DEF BlindKept
    <3>3. "read" \in Failure \ {"any"} /\ budget'["any"] \in Nat /\ budget'["any"] <= budget["any"]
      BY DEF Failure, BudgetInv, BudgetFalls
    <3>4. \A F \in Fails("read", {"sinkEnd", "completed"}) : F = {}
      BY <3>2, <3>3, FiniteReads, NoneLeft
    <3>5. budget'["any"] = 0
      BY <3>2, <3>3
    <3> QED
      BY <1>1, <1>2, <1>3, <1>5, <3>2, <3>4, <3>5 DEF BlindKept
  <2> QED
    BY <2>2, <2>3, <2>4, <2>5 DEF Kept
<1> QED
  BY <1>4, <1>5

\* Lifting the summary out of the job's log.
LEMMA CollectKeeps ==
  ASSUME TypeOK, BudgetInv, BudgetInv', BudgetFalls, Collect,
         NEW c \in Cell, Kept(c), BlindKept(c)
  PROVE  Kept(c)' /\ BlindKept(c)'
<1>0. /\ cell \in Cell /\ ev \in [Cell -> Files] /\ ev[cell] \in Files
      /\ job \in [Cell -> {"none", "pending", "running", "succeeded", "failed", "failedLate"}]
  BY DEF TypeOK
<1>1. /\ pc = "collect" /\ pc' = "judge" /\ cell' = cell /\ idx' = idx
      /\ job' = [job EXCEPT ![cell] = "none"]
  BY DEF Collect
<1>2. PICK k : ev' = [ev EXCEPT ![cell].k6 = k]
               /\ (k # {} => job[cell] \in {"succeeded", "failedLate"})
  <2>1. PICK F : ev' = [ev EXCEPT ![cell].k6 = IF F = {} /\ job[cell] \in {"succeeded", "failedLate"}
                                              THEN {K6Summary} ELSE {}]
    BY Zenon DEF Collect
  <2> QED
    BY <2>1
<1>3. Calm /\ SameFiles(c) /\ SameStage(c)
  BY <1>1, CalmSteps DEF Underway
<1>4. Scraped(c) /\ Opened(c)
  BY <1>1 DEF Opened, Scraped
<1>5. ev'[cell].k6 = k
  BY <1>0, <1>2 DEF Files
<1>6. BlindKept(c)'
  <2> SUFFICES ASSUME Blind(c)' PROVE BlindKept(c)'
    BY DEF BlindKept
  <2>1. Blind(c)
    BY <1>1, <1>3 DEF Blind, Lingering, arm, Calm, SameFiles, SameStage
  <2>2. budget'["any"] = 0
    <3>1. budget["any"] = 0 /\ budget'["any"] \in Nat /\ budget'["any"] <= budget["any"]
      BY <2>1 DEF BlindKept, Failure, BudgetInv, BudgetFalls
    <3> QED
      BY <3>1
  <2>3. job'[c] \in {job[c], "none"}
    BY <1>0, <1>1
  <2>4. c = cell /\ ev'[c].k6 # {} => ev[c].sink.completed
    BY <1>2, <1>4, <1>5, <2>1 DEF BlindKept
  <2> QED
    BY <1>1, <1>3, <1>4, <2>1, <2>2, <2>3, <2>4 DEF BlindKept, SameFiles
<1> QED
  BY <1>3, <1>6, KeptStutter


\* The cluster's moves between two commands of the runner.
LEMMA ClusterKeeps ==
  ASSUME TypeOK, BudgetInv, BudgetInv', BudgetFalls, rule \in {25, 100},
         NEW d \in Cell, Deliver(d) \/ Attach(d) \/ Disrupt(d),
         NEW c \in Cell, Settled(c), Kept(c), BlindKept(c)
  PROVE  Settled(c)' /\ Kept(c)' /\ BlindKept(c)'
<1>0. /\ ic \in [Cell -> Arm] /\ agent \in [Cell -> AgentState]
      /\ pod \in [Cell -> Nat] /\ restarts \in [Cell -> Nat]
  BY DEF TypeOK
<1>1. /\ pc' = pc /\ cell' = cell /\ idx' = idx /\ job' = job /\ ev' = ev /\ seen' = seen
      /\ source' = source /\ rule' = rule
  BY DEF Deliver, Attach, Disrupt, runnerVars
<1>2. SameFiles(c) /\ SameStage(c)
  BY <1>1 DEF SameFiles, SameStage, Captured, Opened, Shut, Scraped, Closed
<1>3. BlindKept(c)'
  <2>1. pc' # "judge" => BlindKept(c)'
    BY <1>1, <1>2, BlindStutter
  <2>2. CASE pc' = "judge"
    <3>1. Blind(c)' => Blind(c)
      BY <1>1, <1>2 DEF Blind, Lingering, arm, SameFiles, SameStage
    <3>2. budget'["any"] \in Nat /\ budget'["any"] <= budget["any"] /\ budget["any"] \in Nat
      BY DEF Failure, BudgetInv, BudgetFalls
    <3> QED
      BY <1>1, <2>2, <3>1, <3>2 DEF BlindKept, Opened, Scraped
  <2> QED
    BY <2>1, <2>2
<1>4. CASE pc \notin Underway
  <2>1. Kept(c)'
    BY <1>1, <1>4, NotUnderway
  <2>2. Settled(c)'
    <3>1. /\ budget'["any"] <= budget["any"] /\ budget'["read"] <= budget["read"]
          /\ \A k \in {"any", "read"} : budget[k] \in Nat /\ budget'[k] \in Nat
      BY DEF BudgetInv, BudgetFalls, Failure
    <3>2. Lingering(c)' <=> Lingering(c)
      BY <1>1 DEF Lingering, arm
    <3> QED
      BY <1>1, <1>4, <3>1, <3>2 DEF Settled
  <2> QED
    BY <1>3, <2>1, <2>2
<1>5. CASE pc \in Underway /\ c # d
  <2>1. ic'[c] = ic[c] /\ agent'[c] = agent[c] /\ pod'[c] = pod[c] /\ restarts'[c] = restarts[c]
    BY <1>0, <1>5 DEF Deliver, Attach, Disrupt
  <2>2. Settled(c)'
    <3>1. /\ budget'["any"] <= budget["any"] /\ budget'["read"] <= budget["read"]
          /\ \A k \in {"any", "read"} : budget[k] \in Nat /\ budget'[k] \in Nat
      BY DEF BudgetInv, BudgetFalls, Failure
    <3>2. (Lingering(c)' <=> Lingering(c)) /\ Desired(c)' = Desired(c)
      BY <1>1 DEF Lingering, arm, Desired
    <3> QED
      BY <1>1, <2>1, <3>1, <3>2 DEF Settled
  <2>3. TextKept(c)' /\ ScrapeKept(c)'
    BY <1>2, <2>1 DEF Kept, TextKept, ScrapeKept, SameFiles, SameStage
  <2>4. OpenKept(c)'
    BY <1>2, <2>1 DEF Kept, OpenKept, SameFiles, SameStage, Process
  <2>5. CloseKept(c)'
    BY <1>2, <2>1 DEF Kept, CloseKept, SameFiles, SameStage
  <2> QED
    BY <1>3, <2>2, <2>3, <2>4, <2>5 DEF Kept
<1>6. CASE pc \in Underway /\ c = d
  <2>1. ic[c] = Desired(c) /\ agent[c] \in {Off, ic[c]} /\ ~Deliver(d)
    BY <1>6 DEF Settled, Deliver
  <2>2. ic'[c] = ic[c]
    BY <2>1 DEF Attach, Disrupt
  <2>3. \/ agent[c] = Off /\ agent'[c] = ic[c] /\ pod'[c] = pod[c] /\ restarts'[c] = restarts[c]
        \/ agent'[c] = Off /\ \/ pod'[c] = pod[c] /\ restarts'[c] = restarts[c] + 1
                              \/ pod'[c] = pod[c] + 1
    <3>1. CASE Attach(d)
      <4>1. /\ agent' = [agent EXCEPT ![c] = IF ic[c] # Off THEN ic[c]
                                            ELSE IF @ = Off THEN Off ELSE Woven]
            /\ agent'[c] # agent[c] /\ pod' = pod /\ restarts' = restarts
        BY <1>6, <3>1 DEF Attach
      <4> QED
        BY <1>0, <2>1, <4>1
    <3>2. CASE Disrupt(d)
      BY <1>0, <1>6, <3>2 DEF Disrupt
    <3> QED
      BY <2>1, <3>1, <3>2
  <2>4. agent'[c] \in {Off, ic'[c]}
    BY <2>2, <2>3
  <2>5. Settled(c)'
    <3>1. /\ budget'["any"] <= budget["any"] /\ budget'["read"] <= budget["read"]
          /\ \A k \in {"any", "read"} : budget[k] \in Nat /\ budget'[k] \in Nat
      BY DEF BudgetInv, BudgetFalls, Failure
    <3>2. (Lingering(c)' <=> Lingering(c)) /\ Desired(c)' = Desired(c)
      BY <1>1 DEF Lingering, arm, Desired
    <3> QED
      BY <1>1, <2>1, <2>2, <2>4, <3>1, <3>2 DEF Settled
  <2>6. TextKept(c)' /\ ScrapeKept(c)'
    BY <1>2, <2>2 DEF Kept, TextKept, ScrapeKept, SameFiles, SameStage
  <2>7. CloseKept(c)'
    BY <1>2, <2>2 DEF Kept, CloseKept, SameFiles, SameStage
  <2>8. OpenKept(c)'
    <3> SUFFICES ASSUME Opened(c) PROVE OpenKept(c)'
      BY <1>2 DEF OpenKept, SameStage
    <3>1. seen[c].open.process \in SUBSET (Nat \X Nat)
      BY DEF TypeOK, Truth, Sight
    <3>2. ASSUME NEW y \in seen[c].open.process
          PROVE  /\ y[1] < pod'[c] \/ (y[1] = pod'[c] /\ y[2] <= restarts'[c])
                 /\ y = Process(c)' => seen[c].open.agent \in {Off, agent'[c]}
      <4>1. /\ y[1] < pod[c] \/ (y[1] = pod[c] /\ y[2] <= restarts[c])
            /\ y = Process(c) => seen[c].open.agent \in {Off, agent[c]}
        BY DEF Kept, OpenKept
      <4>2. y[1] \in Nat /\ y[2] \in Nat /\ pod[c] \in Nat /\ restarts[c] \in Nat
        BY <1>0, <3>1
      <4>3. CASE agent[c] = Off /\ pod'[c] = pod[c] /\ restarts'[c] = restarts[c]
        BY <4>1, <4>3 DEF Process
      <4>4. CASE \/ pod'[c] = pod[c] /\ restarts'[c] = restarts[c] + 1
                 \/ pod'[c] = pod[c] + 1
        <5>1. y[1] < pod'[c] \/ (y[1] = pod'[c] /\ y[2] < restarts'[c])
          BY <4>1, <4>2, <4>4
        <5>2. y # <<pod'[c], restarts'[c]>>
          <6> SUFFICES ASSUME y = <<pod'[c], restarts'[c]>> PROVE FALSE
            OBVIOUS
          <6>1. pod'[c] \in Nat /\ y[1] = pod'[c] /\ y[2] = restarts'[c]
            BY <4>2, <4>4
          <6> QED
            BY <4>2, <5>1, <6>1
        <5> QED
          BY <4>1, <4>2, <4>4, <5>1, <5>2 DEF Process
      <4> QED
        BY <2>3, <4>3, <4>4
    <3> QED
      BY <1>2, <2>2, <3>2 DEF Kept, OpenKept, SameFiles
  <2> QED
    BY <1>3, <2>5, <2>6, <2>7, <2>8 DEF Kept
<1> QED
  BY <1>4, <1>5, <1>6

\* A job starts, ends or dies.
LEMMA JobKeeps ==
  ASSUME PhaseInv, TypeOK, BudgetInv, BudgetInv', BudgetFalls,
         NEW d \in Cell, JobStart(d) \/ JobEnd(d) \/ JobDies(d),
         NEW c \in Cell, Settled(c), Kept(c), BlindKept(c)
  PROVE  Settled(c)' /\ Kept(c)' /\ BlindKept(c)'
<1>0. job \in [Cell -> {"none", "pending", "running", "succeeded", "failed", "failedLate"}]
  BY DEF TypeOK
<1>1. /\ pc' = pc /\ cell' = cell /\ idx' = idx /\ ev' = ev /\ seen' = seen /\ Calm
  BY DEF JobStart, JobEnd, JobDies, runnerVars, Calm
<1>2. SameFiles(c) /\ SameStage(c)
  BY <1>1 DEF SameFiles, SameStage, Captured, Opened, Shut, Scraped, Closed
<1>3. Settled(c)' /\ Kept(c)'
  BY <1>1, <1>2, SettledStutter, KeptStutter DEF Calm
<1>4. BlindKept(c)'
  <2> SUFFICES ASSUME Blind(c)' PROVE BlindKept(c)'
    BY DEF BlindKept
  <2>1. Blind(c)
    BY <1>1, <1>2 DEF Blind, Lingering, arm, Calm, SameFiles, SameStage
  <2>2. budget["any"] = 0 /\ budget'["any"] = 0
    <3>1. budget["any"] = 0 /\ budget'["any"] \in Nat /\ budget'["any"] <= budget["any"]
      BY <2>1 DEF BlindKept, Failure, BudgetInv, BudgetFalls
    <3> QED
      BY <3>1
  <2>3. ~JobDies(d)
    <3>1. "job" \in Failure \ {"any"} /\ IsFiniteSet({d})
      BY FS_Singleton DEF Failure
    <3>2. \A F \in Fails("job", {d}) : F = {}
      BY <2>2, <3>1, NoneLeft
    <3>3. {} \in Fails("job", {d})
      <4>1. Cardinality({}) = 0 /\ budget["job"] \in Nat /\ budget["any"] \in Nat
        BY FS_EmptySet DEF BudgetInv, Failure
      <4> QED
        BY <4>1 DEF Fails
    <3> QED
      BY <3>2, <3>3 DEF JobDies
  <2>4. \/ job'[c] = job[c]
        \/ job[c] = "pending" /\ job'[c] = "running"
        \/ job[c] = "running" /\ job'[c] = "succeeded"
    BY <1>0, <2>3 DEF JobStart, JobEnd
  <2>5. pc \in {"sink", "collect", "judge"} => job[c] # "pending"
    BY DEF PhaseInv, DbInv, Loading
  <2>6. Scraped(c) => pc \in {"sink", "collect", "judge"}
    BY DEF Scraped
  <2>7. job[c] # "failedLate" /\ (pc \in {"sink", "collect", "judge"} => job'[c] = job[c])
    BY <2>1, <2>4, <2>5 DEF BlindKept
  <2>8. job'[c] # "failedLate"
    BY <2>4, <2>7
  <2> QED
    BY <1>1, <1>2, <2>1, <2>2, <2>6, <2>7, <2>8 DEF BlindKept, SameFiles, Opened, Scraped
<1> QED
  BY <1>3, <1>4


LEMMA ConfigStep ==
  ASSUME RunAsDocumented
  PROVE  /\ PhaseInv /\ ProcessInv /\ BudgetInv /\ BudgetInv' /\ BudgetFalls /\ ConfigInv
         /\ [Next]_vars
         => ConfigInv'
<1> SUFFICES ASSUME PhaseInv, ProcessInv, BudgetInv, BudgetInv', BudgetFalls, ConfigInv, [Next]_vars
             PROVE  ConfigInv'
  OBVIOUS
<1>0. /\ TypeOK /\ cell \in Cell /\ 1 \in Cell /\ \A c \in Cell : ~(c < 1)
      /\ rule \in {25, 100} /\ \A c \in Cell : Settled(c) /\ Kept(c) /\ BlindKept(c)
  <2>1. 1 \in Cell /\ \A c \in Cell : ~(c < 1)
    BY RunnerAssumption DEF Cell
  <2>2. TypeOK
    BY DEF PhaseInv
  <2>3. cell \in Cell
    BY <2>2 DEF TypeOK
  <2> QED
    BY <2>1, <2>2, <2>3 DEF ConfigInv
<1>1. ASSUME rows' = rows PROVE AcceptedRanAsAsked'
  BY <1>1 DEF ConfigInv, AcceptedRanAsAsked, Accepted, Windows
<1>2. ASSUME SetSampling PROVE ConfigInv'
  <2>1. rule' \in {25, 100} /\ \A c \in Cell : Settled(c)'
    BY <1>0, <1>2, SamplingSettles
  <2>2. rows' = rows /\ pc' \notin Underway
    BY <1>2, GotoStep DEF SetSampling, RunAsDocumented, Underway
  <2>3. \A c \in Cell : Kept(c)' /\ BlindKept(c)'
    BY <2>2, NotUnderway
  <2> QED
    BY <1>1, <2>1, <2>2, <2>3 DEF ConfigInv
<1>3. ASSUME ResetAndRestart PROVE ConfigInv'
  <2>1. /\ rows' = rows /\ rule' = rule /\ pc' = "health" /\ cell' = 1
    BY <1>3, GotoStep DEF ResetAndRestart
  <2>2. \A c \in Cell : Settled(c)'
    BY <1>0, <1>3, RestartSettles
  <2>3. \A c \in Cell : ~Captured(c)' /\ ~Opened(c)' /\ ~Shut(c)' /\ ~Scraped(c)'
    BY <2>1 DEF Captured, Opened, Shut, Scraped, Closed
  <2>4. \A c \in Cell : Kept(c)' /\ BlindKept(c)'
    BY <2>3 DEF Kept, TextKept, OpenKept, CloseKept, ScrapeKept, BlindKept, Blind
  <2> QED
    BY <1>0, <1>1, <2>1, <2>2, <2>4 DEF ConfigInv
<1>4. ASSUME Calm, idx' = idx, rows' = rows, pc \in Underway, pc' \in Underway \cup {"fatal"},
             pc' \in Underway => \A c \in Cell : Kept(c)' /\ BlindKept(c)'
      PROVE  ConfigInv'
  <2>1. \A c \in Cell : Settled(c)'
    BY <1>0, <1>4, SettledStutter DEF Calm, Underway
  <2>2. \A c \in Cell : Kept(c)' /\ BlindKept(c)'
    BY <1>4, NotUnderway
  <2>3. rule' = rule
    BY <1>4 DEF Calm
  <2> QED
    BY <1>0, <1>1, <1>4, <2>1, <2>2, <2>3 DEF ConfigInv
<1>5. ASSUME WaitHealthy \/ WaitIc \/ AdminReset \/ Launch \/ AwaitStart \/ SleepUntil \/ SnapMid
      PROVE  ConfigInv'
  <2>1. Calm /\ idx' = idx /\ rows' = rows /\ pc \in Underway /\ pc' \in Underway \cup {"fatal"}
    BY <1>0, <1>5, CalmSteps
  <2>2. \A c \in Cell : SameFiles(c)
    BY <1>0, <1>5, CalmSteps
  <2>3. pc' \in Underway => \A c \in Cell : SameStage(c)
    BY <1>0, <1>5, CalmSteps
  <2>4. \A c \in Cell : job'[c] = job[c] \/ job'[c] \in {"none", "pending", "failed"}
    <3>1. job \in [Cell -> {"none", "pending", "running", "succeeded", "failed", "failedLate"}]
      BY <1>0 DEF TypeOK
    <3> QED
      BY <1>0, <1>5, <3>1
         DEF WaitHealthy, WaitIc, AdminReset, Launch, AwaitStart, SleepUntil, SnapMid
  <2>5. pc' \notin {"sink", "collect", "judge"}
    BY <1>0, <1>5, NextCellStep, GotoStep
       DEF WaitHealthy, WaitIc, AdminReset, Launch, AwaitStart, SleepUntil, SnapMid, Fatal
  <2>6. ASSUME pc' \in Underway, NEW c \in Cell PROVE Kept(c)' /\ BlindKept(c)'
    <3>1. SameFiles(c) /\ SameStage(c) /\ Kept(c) /\ BlindKept(c) /\ source' = source
      BY <1>0, <2>1, <2>2, <2>3, <2>6 DEF Calm
    <3> QED
      BY <2>1, <2>4, <2>5, <3>1, KeptStutter, BlindStutter
  <2> QED
    BY <1>4, <2>1, <2>6
<1>6. ASSUME Capture \/ OpenWindow \/ CloseWindow \/ WaitAll \/ SinkEnd \/ Collect PROVE ConfigInv'
  <2>1. Calm /\ idx' = idx /\ rows' = rows /\ pc \in Underway /\ pc' \in Underway
    BY <1>0, <1>6, NextCellStep, GotoStep
       DEF Capture, OpenWindow, CloseWindow, WaitAll, SinkEnd, Collect, Calm, clusterVars, Underway
  <2>2. ASSUME NEW c \in Cell PROVE Kept(c)' /\ BlindKept(c)'
    BY <1>0, <1>6, CaptureKept, OpenKeeps, CloseKeeps, WaitKeeps, SinkKeeps, CollectKeeps
  <2> QED
    BY <1>4, <2>1, <2>2
<1>7. ASSUME Judge \/ Kill PROVE AcceptedRanAsAsked'
  <2> SUFFICES ASSUME NEW c \in Cell, NEW w \in Windows(c)', w.gate = "accepted"
               PROVE  w.agentClose = w.arm
    BY DEF AcceptedRanAsAsked, Accepted
  <2>1. CASE w \in Windows(c)
    BY <2>1 DEF ConfigInv, AcceptedRanAsAsked, Accepted
  <2>2. CASE w \notin Windows(c)
    <3>1. /\ c = cell /\ pc = "judge" /\ w.arm = arm /\ w.agentClose = seen[c].close.agent
          /\ JudgedRow(cell).gate = "accepted"
      BY <1>0, <1>7, <2>2, WindowAdded
    <3>2. OpenRecorded(cell) /\ CloseRecorded(cell)
      BY <1>0 DEF ProcessInv
    <3>3. seen[cell].close.agent = arm
      BY <1>0, <3>1, <3>2, JudgedRanAsAsked
    <3> QED
      BY <3>1, <3>3
  <2> QED
    BY <2>1, <2>2
<1>8. ASSUME Judge PROVE ConfigInv'
  <2>1. Calm /\ ev' = ev /\ seen' = seen /\ job' = job /\ pc = "judge"
    BY <1>8 DEF Judge, Calm, clusterVars
  <2>2. \/ pc' = "collect" /\ idx' = idx
        \/ pc' \in {"sampling", "done"}
    BY <1>8, GotoStep DEF Judge
  <2>3. CASE pc' = "collect" /\ idx' = idx
    <3>1. \A c \in Cell : SameFiles(c) /\ SameStage(c)
      BY <2>1, <2>3 DEF SameFiles, SameStage, Captured, Opened, Shut, Scraped, Closed, Underway
    <3>2. \A c \in Cell : Settled(c)'
      BY <1>0, <2>1, <2>3, SettledStutter DEF Calm, Underway
    <3>3. ASSUME NEW c \in Cell PROVE Kept(c)' /\ BlindKept(c)'
      <4>1. SameFiles(c) /\ SameStage(c) /\ Kept(c) /\ BlindKept(c) /\ source' = source
        BY <1>0, <2>1, <3>1 DEF Calm
      <4> QED
        BY <2>1, <2>3, <4>1, KeptStutter, BlindStutter
    <3> QED
      BY <1>0, <1>7, <1>8, <2>1, <3>2, <3>3 DEF ConfigInv, Calm
  <2>4. CASE pc' \in {"sampling", "done"}
    <3>1. \A c \in Cell : Kept(c)' /\ BlindKept(c)'
      BY <2>4, NotUnderway DEF Underway
    <3>2. \A c \in Cell : Settled(c)'
      BY <2>4 DEF Settled, Underway
    <3> QED
      BY <1>0, <1>7, <1>8, <2>1, <3>1, <3>2 DEF ConfigInv, Calm
  <2> QED
    BY <2>2, <2>3, <2>4
<1>9. ASSUME Kill PROVE ConfigInv'
  <2>1. pc' = "killed" /\ rule' = rule
    BY <1>9, GotoStep DEF Kill, clusterVars
  <2>2. \A c \in Cell : Kept(c)' /\ BlindKept(c)'
    BY <2>1, NotUnderway DEF Underway
  <2>3. \A c \in Cell : Settled(c)'
    BY <2>1 DEF Settled, Underway
  <2> QED
    BY <1>0, <1>7, <1>9, <2>1, <2>2, <2>3 DEF ConfigInv
<1>10. ASSUME NEW d \in Cell, Deliver(d) \/ Attach(d) \/ Disrupt(d) PROVE ConfigInv'
  <2>1. rows' = rows /\ rule' = rule
    BY <1>10 DEF Deliver, Attach, Disrupt, runnerVars
  <2>2. \A c \in Cell : Settled(c)' /\ Kept(c)' /\ BlindKept(c)'
    BY <1>0, <1>10, ClusterKeeps
  <2> QED
    BY <1>0, <1>1, <2>1, <2>2 DEF ConfigInv
<1>11. ASSUME NEW d \in Cell, JobStart(d) \/ JobEnd(d) \/ JobDies(d) PROVE ConfigInv'
  <2>1. rows' = rows /\ rule' = rule
    BY <1>11 DEF JobStart, JobEnd, JobDies, runnerVars
  <2>2. \A c \in Cell : Settled(c)' /\ Kept(c)' /\ BlindKept(c)'
    BY <1>0, <1>11, JobKeeps
  <2> QED
    BY <1>0, <1>1, <2>1, <2>2 DEF ConfigInv
<1>12. CASE UNCHANGED vars
  <2>1. /\ pc' = pc /\ cell' = cell /\ idx' = idx /\ source' = source /\ rule' = rule /\ ic' = ic
        /\ pod' = pod /\ restarts' = restarts /\ agent' = agent /\ job' = job /\ ev' = ev
        /\ seen' = seen /\ rows' = rows /\ budget' = budget
    BY <1>12 DEF vars
  <2>2. ASSUME NEW c \in Cell PROVE Settled(c)' /\ Kept(c)' /\ BlindKept(c)'
    <3>1. /\ Captured(c)' <=> Captured(c)
          /\ Opened(c)' <=> Opened(c)
          /\ Shut(c)' <=> Shut(c)
          /\ Scraped(c)' <=> Scraped(c)
      BY <2>1 DEF Captured, Opened, Shut, Scraped, Closed
    <3>2. SameFiles(c) /\ SameStage(c) /\ Calm
      BY <2>1, <3>1 DEF SameFiles, SameStage, Calm
    <3>3. Blind(c)' <=> Blind(c)
      BY <2>1, <3>1 DEF Blind, Lingering, arm
    <3>4. BlindKept(c)'
      BY <1>0, <2>1, <3>1, <3>3 DEF BlindKept
    <3> QED
      BY <1>0, <2>1, <3>2, <3>4, SettledStutter, KeptStutter
  <2> QED
    BY <1>0, <1>1, <2>1, <2>2 DEF ConfigInv
<1> QED
  BY <1>2, <1>3, <1>5, <1>6, <1>8, <1>9, <1>10, <1>11, <1>12 DEF Next, Runner, Cluster

\* With every arm in a fresh JVM, fewer than three failures never get a window of
\* another configuration past the gate, whichever calls, reads, pods and jobs they
\* hit: ic.yaml, the process and the sink's counters would all have to be wrong.
\* Nor do any number of lost writes, as long as the evidence is read, or of lost
\* reads, as long as the writes arrive (run.sh:106-122, :395-399; gate.py:168-203).
THEOREM AcceptedWindowsRanAsAsked == ASSUME RunAsDocumented PROVE Spec => []AcceptedRanAsAsked
<1>1. /\ PhaseInv /\ ProcessInv /\ BudgetInv /\ BudgetInv' /\ BudgetFalls /\ ConfigInv /\ [Next]_vars
      => ConfigInv'
  BY ConfigStep
<1>2. PhaseInv => TypeOK
  BY DEF PhaseInv
<1>3. Spec => [](PhaseInv /\ ProcessInv /\ BudgetInv /\ ConfigInv)
  BY <1>1, <1>2, InitPhaseInv, InitProcessInv, InitBudget, InitConfigInv, PhaseStep, ProcessStep,
     BudgetStep, PTL DEF Spec
<1>4. ConfigInv => AcceptedRanAsAsked
  BY DEF ConfigInv
<1> QED
  BY <1>3, <1>4, PTL

-----------------------------------------------------------------------------
(***************************************************************************)
(* What the analysis compares.                                             *)
(***************************************************************************)

\* A window the gate accepts opened on what it closed on, or before the agent
\* attached.
OpenedOnItsAgent == \A c \in Cell : \A w \in Accepted(c) : w.agentOpen \in {Off, w.agentClose}

LEMMA OpenedStep ==
  PhaseInv /\ ProcessInv /\ ConfigInv /\ OpenedOnItsAgent /\ [Next]_vars => OpenedOnItsAgent'
<1> SUFFICES ASSUME PhaseInv, ProcessInv, ConfigInv, OpenedOnItsAgent, [Next]_vars
             PROVE  OpenedOnItsAgent'
  OBVIOUS
<1>0. TypeOK /\ cell \in Cell
  BY DEF PhaseInv, TypeOK
<1>1. CASE Judge \/ Kill
  <2> SUFFICES ASSUME NEW c \in Cell, NEW w \in Windows(c)', w.gate = "accepted"
               PROVE  w.agentOpen \in {Off, w.agentClose}
    BY DEF OpenedOnItsAgent, Accepted
  <2>1. CASE w \in Windows(c)
    BY <2>1 DEF OpenedOnItsAgent, Accepted
  <2>2. CASE w \notin Windows(c)
    <3>1. /\ c = cell /\ pc = "judge" /\ JudgedRow(cell).gate = "accepted"
          /\ w.agentOpen = seen[cell].open.agent /\ w.agentClose = seen[cell].close.agent
      BY <1>0, <1>1, <2>2, WindowAdded
    <3>2. JudgedRow(cell).opened = JudgedRow(cell).closed
      BY <1>0, <3>1, JudgedInOneProcess DEF ProcessInv
    <3>3. seen[cell].open.process = seen[cell].close.process
      BY <3>2 DEF JudgedRow, Row
    <3>4. CloseKept(cell) /\ Shut(cell)
      BY <1>0, <3>1 DEF ConfigInv, Kept, Shut, Closed
    <3> QED
      BY <3>1, <3>3, <3>4 DEF CloseKept
  <2> QED
    BY <2>1, <2>2
<1>2. CASE ~Judge /\ ~Kill
  <2>1. rows' = rows
    BY <1>0, <1>2, RowsOnlyJudged
  <2> QED
    BY <2>1 DEF OpenedOnItsAgent, Accepted, Windows
<1> QED
  BY <1>1, <1>2

\* The neighbours of an arm are accepted uninstrumented ones.
LEMMA NeighboursAccepted ==
  ASSUME NEW run, DOMAIN run \subseteq Nat, NEW i \in Nat, NEW j \in Neighbours(run, i)
  PROVE  j \in AcceptedArms(run) /\ run[j].arm = Off
<1> DEFINE offs == {k \in AcceptedArms(run) : run[k].arm = Off}
           before == {k \in offs : k < i}
           after == {k \in offs : k > i}
<1>1. before \in SUBSET Nat /\ after \in SUBSET Nat /\ \A k \in before : k <= i
  BY DEF AcceptedArms, LoadArms
<1>2. \/ before # {} /\ j = Max(before)
      \/ after # {} /\ j = Min(after)
  BY DEF Neighbours
<1> HIDE DEF before, after
<1>3. j \in before \cup after
  BY <1>1, <1>2, Extremes
<1> QED
  BY <1>3 DEF before, after

\* A bracket is made of arms the gate did not reject.
LEMMA BracketArms ==
  ASSUME NEW run, DOMAIN run \subseteq Nat, NEW r \in ValidBrackets(run),
         NEW x \in r.baselines \cup {r.on}
  PROVE  /\ \E j \in AcceptedArms(run) : x = run[j]
         /\ x \in r.baselines => x.arm = Off
<1>1. PICK i \in AcceptedArms(run) : r = Bracket(run, i)
  BY DEF ValidBrackets, Entries
<1>2. r.on = run[i] /\ r.baselines = {run[j] : j \in Neighbours(run, i)}
  BY <1>1 DEF Bracket
<1>3. i \in Nat
  BY DEF AcceptedArms, LoadArms
<1>4. \A j \in Neighbours(run, i) : j \in AcceptedArms(run) /\ run[j].arm = Off
  BY <1>3, NeighboursAccepted
<1> QED
  BY <1>2, <1>4

\* An arm of a cell's directory is a window of the runner's, which keeps its arm,
\* its slot, its meta.json and its gate.json.
WindowOf(x, W) ==
  /\ x.window \in W /\ x.window.gate # "rejected"
  /\ x.arm = x.window.arm /\ x.slot = x.window.slot /\ x.meta = x.window.meta

LEMMA ArmsOfDir ==
  ASSUME TypeOK, NEW c \in Cell
  PROVE  /\ DOMAIN Dir(c) \subseteq Nat
         /\ \A j \in AcceptedArms(Dir(c)) : WindowOf(Dir(c)[j], Windows(c))
<1>1. rows[c] \in Seq(Window) /\ DOMAIN Dir(c) = DOMAIN rows[c]
  BY DEF TypeOK, Dir
<1>2. ASSUME NEW j \in AcceptedArms(Dir(c))
      PROVE  WindowOf(Dir(c)[j], Windows(c))
  <2>1. j \in DOMAIN rows[c] /\ Dir(c)[j] = Loaded(rows[c][j]) /\ Dir(c)[j].gate # "rejected"
    BY DEF AcceptedArms, LoadArms, AcceptsRow, Dir
  <2> QED
    BY <2>1 DEF Loaded, Windows, WindowOf
<1> QED
  BY <1>1, <1>2

\* Both sides of a bracketed comparison ran what they are labelled with, however
\* many cells and arms there are: the instrumented window closed on its agent, and
\* the baselines carried none from opening to closing (analyze.py:170-184,
\* gate.py:168-203).  The failures that would take a window of another
\* configuration past the gate are those AcceptedWindowsRanAsAsked rules out.
THEOREM BracketsCompareAgentWithNone ==
  ASSUME RunAsDocumented PROVE Spec => []BracketComparesAgentWithNone
<1>1. /\ PhaseInv /\ ProcessInv /\ BudgetInv /\ BudgetInv' /\ BudgetFalls /\ ConfigInv /\ [Next]_vars
      => ConfigInv'
  BY ConfigStep
<1>2. PhaseInv => TypeOK
  BY DEF PhaseInv
<1>3. Init => OpenedOnItsAgent
  BY DEF Init, OpenedOnItsAgent, Accepted, Windows
<1>4. Spec => [](PhaseInv /\ ConfigInv /\ OpenedOnItsAgent)
  BY <1>1, <1>2, <1>3, InitPhaseInv, InitProcessInv, InitBudget, InitConfigInv, PhaseStep,
     ProcessStep, BudgetStep, OpenedStep, PTL DEF Spec
<1>5. PhaseInv /\ ConfigInv /\ OpenedOnItsAgent => BracketComparesAgentWithNone
  <2> SUFFICES ASSUME PhaseInv, ConfigInv, OpenedOnItsAgent,
                      NEW c \in Cell, NEW r \in ValidBrackets(Dir(c)),
                      \A w \in Behind(r.baselines \cup {r.on}) : w.gate \in {"accepted", "rejected"}
               PROVE  /\ r.on.window.agentClose = r.on.arm
                      /\ \A w \in Behind(r.baselines) : w.agentOpen = Off /\ w.agentClose = Off
    BY DEF BracketComparesAgentWithNone
  <2>1. ASSUME NEW x \in r.baselines \cup {r.on}
        PROVE  /\ x.window \in Accepted(c) /\ x.window.arm = x.arm
               /\ x \in r.baselines => x.arm = Off
    <3>1. x.window \in Behind(r.baselines \cup {r.on})
      BY DEF Behind
    <3>2. DOMAIN Dir(c) \subseteq Nat
      BY <1>2, ArmsOfDir
    <3>3. PICK j \in AcceptedArms(Dir(c)) : x = Dir(c)[j]
      BY <3>2, BracketArms
    <3>4. x \in r.baselines => x.arm = Off
      BY <3>2, BracketArms
    <3>5. x.window \in Windows(c) /\ x.window.gate # "rejected" /\ x.arm = x.window.arm
      BY <1>2, <3>3, ArmsOfDir DEF WindowOf
    <3> QED
      BY <3>1, <3>4, <3>5 DEF Accepted
  <2>2. \A x \in r.baselines \cup {r.on} :
          x.window.agentClose = x.arm /\ x.window.agentOpen \in {Off, x.arm}
    BY <2>1 DEF ConfigInv, AcceptedRanAsAsked, OpenedOnItsAgent
  <2> QED
    BY <2>1, <2>2 DEF Behind
<1> QED
  BY <1>4, <1>5, PTL

-----------------------------------------------------------------------------
(***************************************************************************)
(* What the paired comparison compares.                                    *)
(***************************************************************************)

Percent == {Off, 25, 100}
Carried == Percent \cup {Woven}

\* The paired design, in one JVM or in several: the uninstrumented arms come first
\* or last.  The Sources arrive and the restarts too; evidence may be lost, the
\* cluster may restart and replace pods, and jobs may die, any number of times.
PairedAsDesigned ==
  /\ ApplyFaults = 0 /\ RestartFaults = 0 /\ ~MayBeKilled
  /\ \A n \in DOMAIN Arms : Arms[n] \in Percent
  /\ \A i, j, k \in DOMAIN Arms : i < j /\ j < k /\ Arms[i] # Off /\ Arms[j] = Off => Arms[k] = Off

\* Every write arrives, so the cluster is asked for the arm and for nothing else;
\* what it has delivered of that is another matter.
Asked(c) ==
  /\ ic[c] \in Percent /\ agent[c] \in Carried
  /\ pc \in Underway \cup {"restart"} => Desired(c) = arm

\* A file holds what was there when it was read, or nothing.
FilesFollow(c) ==
  /\ Captured(c) => \E i \in Percent : ev[c].ic = {IcText(i)}
  /\ Opened(c) =>
       /\ seen[c].open.agent \in Carried /\ seen[c].open.spans \in {0, 10 * Expect}
       /\ ev[c].start.sink \in {{}, {seen[c].open.spans}}
       /\ \A y \in seen[c].open.process : y[1] < pod[c] \/ (y[1] = pod[c] /\ y[2] <= restarts[c])
  /\ Shut(c) =>
       /\ seen[c].close.agent \in Carried
       /\ \E n \in Observed(seen[c].open.agent, seen[c].close.agent) :
            seen[c].close.spans = seen[c].open.spans + n
  /\ ScrapeKept(c)

\* Once ic.yaml names the arm, the agent of a process can only become the arm's.
Names(c) == arm # Off /\ Captured(c) /\ ev[c].ic = {IcText(arm)}
AgentFollows(c) ==
  Names(c) =>
    /\ ic[c] = arm
    /\ Opened(c) /\ Process(c) \in seen[c].open.process => agent[c] \in {seen[c].open.agent, arm}
    /\ Shut(c) /\ seen[c].open.process = seen[c].close.process =>
         seen[c].close.agent \in {seen[c].open.agent, arm}

\* Up to the first instrumented arm no agent has touched a process of the run.
Untouched(i) == \A n \in 1..i : Arms[n] = Off
BeforeAgent ==
  \/ pc \in Underway /\ Untouched(idx)
  \/ idx > 1 /\ pc = "restart" /\ Untouched(idx)
  \/ idx > 1 /\ pc = "sampling" /\ Untouched(idx - 1)
Clean(c) ==
  /\ ~source[c] /\ ic[c] = Off /\ agent[c] = Off
  /\ Opened(c) => seen[c].open.agent = Off
  /\ Shut(c) => seen[c].close.agent = Off

Holds(c) == Asked(c) /\ FilesFollow(c) /\ AgentFollows(c) /\ (BeforeAgent => Clean(c))

RowFollows(w) ==
  /\ w.slot \in DOMAIN Arms /\ w.arm = Arms[w.slot]
  /\ w.arm # Off /\ w.meta /\ w.gate # "rejected" => w.agentClose = w.arm
  /\ Untouched(w.slot) => w.agentOpen = Off /\ w.agentClose = Off

PairedInv ==
  /\ rule \in {25, 100}
  /\ \A c \in Cell : Holds(c) /\ \A w \in Windows(c) : RowFollows(w)

LEMMA InitPairedInv == Init => PairedInv
<1> SUFFICES ASSUME Init PROVE PairedInv
  OBVIOUS
<1>1. pc = "sampling" /\ idx = 1 /\ rule = 100
  BY DEF Init
<1>2. ASSUME NEW c \in Cell PROVE Holds(c) /\ Windows(c) = {}
  <2>1. ic[c] \in Percent /\ agent[c] \in Carried /\ Windows(c) = {}
    BY DEF Init, Percent, Carried, Windows
  <2>2. ~Captured(c) /\ ~Opened(c) /\ ~Shut(c) /\ ~Scraped(c) /\ ~BeforeAgent
    BY <1>1 DEF Captured, Opened, Shut, Scraped, Closed, Underway, BeforeAgent
  <2> QED
    BY <1>1, <2>1, <2>2 DEF Holds, Asked, FilesFollow, ScrapeKept, AgentFollows, Names, Underway
<1> QED
  BY <1>1, <1>2 DEF PairedInv

\* The texts of ic.yaml are apart.
LEMMA TextsApart == ASSUME NEW i \in Percent, NEW j \in Percent, IcText(i) = IcText(j) PROVE i = j
<1>1. /\ ~IcText(Off).crd
      /\ IcText(25).crd /\ IcText(25).pct = {25} /\ IcText(100).crd /\ IcText(100).pct = {}
  BY DEF IcText, OtherText, Off
<1>2. i \in {Off, 25, 100} /\ j \in {Off, 25, 100}
  BY DEF Percent
<1>3. CASE i = Off
  <2>1. j # 25 /\ j # 100
    BY <1>1, <1>3
  <2> QED
    BY <1>2, <1>3, <2>1
<1>4. CASE i = 25
  <2>1. j # Off /\ j # 100
    BY <1>1, <1>4
  <2> QED
    BY <1>2, <1>4, <2>1
<1>5. CASE i = 100
  <2>1. j # Off /\ j # 25
    BY <1>1, <1>5
  <2> QED
    BY <1>2, <1>5, <2>1
<1> QED
  BY <1>2, <1>3, <1>4, <1>5

\* A cell that a step leaves alone, and what is true of it.
Spared(c) == /\ source'[c] = source[c] /\ rule' = rule /\ ic'[c] = ic[c]
             /\ pod'[c] = pod[c] /\ restarts'[c] = restarts[c] /\ agent'[c] = agent[c]

LEMMA HoldsSpared ==
  ASSUME NEW c \in Cell, Holds(c), Spared(c), idx' = idx, SameFiles(c), SameStage(c),
         pc' \in Underway \cup {"restart"} => pc \in Underway \cup {"restart"}, BeforeAgent' => BeforeAgent
  PROVE  Holds(c)'
<1>1. Asked(c)'
  BY DEF Holds, Asked, Spared, Desired, arm
<1>2. FilesFollow(c)'
  BY DEF Holds, FilesFollow, ScrapeKept, Spared, SameFiles, SameStage
<1>3. AgentFollows(c)'
  BY DEF Holds, AgentFollows, Names, Spared, SameFiles, SameStage, Process, arm
<1>4. BeforeAgent' => Clean(c)'
  BY DEF Holds, Clean, Spared, SameFiles, SameStage
<1> QED
  BY <1>1, <1>2, <1>3, <1>4 DEF Holds

LEMMA HoldsStutter ==
  ASSUME NEW c \in Cell, Holds(c), Calm, idx' = idx, SameFiles(c), SameStage(c),
         pc' \in Underway \cup {"restart"} => pc \in Underway \cup {"restart"}, BeforeAgent' => BeforeAgent
  PROVE  Holds(c)'
<1>1. Spared(c)
  BY DEF Calm, Spared
<1> QED
  BY <1>1, HoldsSpared

\* Outside an arm nothing is promised of the files.
LEMMA HoldsOutside ==
  ASSUME NEW c \in Cell, Asked(c)', pc' \notin Underway,
         BeforeAgent' => ~source'[c] /\ ic'[c] = Off /\ agent'[c] = Off
  PROVE  Holds(c)'
<1>1. ~Captured(c)' /\ ~Opened(c)' /\ ~Shut(c)' /\ ~Scraped(c)'
  BY DEF Captured, Opened, Shut, Scraped, Closed, Underway
<1> QED
  BY <1>1 DEF Holds, FilesFollow, ScrapeKept, AgentFollows, Names, Clean

\* Nor in its first steps.
LEMMA HoldsAtStart ==
  ASSUME NEW c \in Cell, Asked(c)', pc' = "health",
         BeforeAgent' => ~source'[c] /\ ic'[c] = Off /\ agent'[c] = Off
  PROVE  Holds(c)'
<1>1. ~Captured(c)' /\ ~Opened(c)' /\ ~Shut(c)' /\ ~Scraped(c)'
  BY DEF Captured, Opened, Shut, Scraped, Closed, Underway
<1> QED
  BY <1>1 DEF Holds, FilesFollow, ScrapeKept, AgentFollows, Names, Clean

\* set_sampling, all of whose calls succeed.
LEMMA SamplingAsked ==
  ASSUME PairedAsDesigned, TypeOK, BudgetInv, SetSampling, rule \in {25, 100},
         \A c \in Cell : Holds(c)
  PROVE  rule' \in {25, 100} /\ \A c \in Cell : Holds(c)'
<1>1. PICK F \in Fails("apply", Cell \cup {0}) :
        /\ source' = [c \in Cell |-> IF c \in F THEN source[c] ELSE arm # Off]
        /\ rule' \in IF 0 \in F THEN {rule, 100} ELSE {IF arm = Off THEN 100 ELSE arm}
  BY Zenon DEF SetSampling
<1>2. F = {}
  <2>1. "apply" \in Failure \ {"any"} /\ budget["apply"] = 0
    BY RunnerAssumption DEF BudgetInv, PairedAsDesigned, Failure
  <2> QED
    BY <2>1, FiniteCells, NoneLeft
<1>3. arm \in Percent
  BY DEF PairedAsDesigned, TypeOK, arm
<1>4. /\ rule' = (IF arm = Off THEN 100 ELSE arm) /\ rule' \in {25, 100}
      /\ \A c \in Cell : source'[c] <=> arm # Off
  BY <1>1, <1>2, <1>3 DEF Percent
<1>5. /\ pc = "sampling" /\ idx' = idx /\ ic' = ic /\ agent' = agent
      /\ \/ pc' = "restart"
         \/ pc' = "health" /\ idx # 1
  BY GotoStep DEF SetSampling
<1>6. ASSUME NEW c \in Cell PROVE Holds(c)'
  <2>1. ic[c] \in Percent /\ agent[c] \in Carried
    BY DEF Holds, Asked
  <2>2. Asked(c)'
    <3>1. arm' = arm
      BY <1>5 DEF arm
    <3>2. Desired(c)' = arm
      BY <1>4 DEF Desired
    <3> QED
      BY <1>5, <2>1, <3>1, <3>2 DEF Asked
  <2>3. ASSUME BeforeAgent' PROVE ~source'[c] /\ ic'[c] = Off /\ agent'[c] = Off
    <3>1. idx \in Nat /\ idx > 1 /\ Untouched(idx)
      BY <1>5, <2>3, RunnerAssumption DEF BeforeAgent, TypeOK, Underway
    <3>2. Untouched(idx - 1) /\ arm = Off
      BY <3>1 DEF Untouched, arm
    <3>3. Clean(c)
      BY <1>5, <3>1, <3>2 DEF Holds, BeforeAgent
    <3> QED
      BY <1>4, <1>5, <3>2, <3>3 DEF Clean
  <2> QED
    BY <1>5, <2>2, <2>3, HoldsOutside, HoldsAtStart DEF Underway
<1> QED
  BY <1>4, <1>6

\* A new process for every cell.
LEMMA RestartAsked ==
  ASSUME PairedAsDesigned, TypeOK, BudgetInv, ResetAndRestart, rule \in {25, 100},
         NEW c \in Cell, Holds(c)
  PROVE  Holds(c)'
<1>1. /\ pc = "restart" /\ pc' = "health" /\ idx' = idx /\ source' = source /\ rule' = rule
      /\ ic' = ic /\ ic[c] = Desired(c)
  BY GotoStep DEF ResetAndRestart
<1>2. PICK F \in Fails("restart", Cell) :
        agent' = [d \in Cell |-> IF d \in F THEN agent[d] ELSE Off]
  BY DEF ResetAndRestart
<1>3. F = {}
  <2>1. "restart" \in Failure \ {"any"} /\ budget["restart"] = 0
    BY RunnerAssumption DEF BudgetInv, PairedAsDesigned, Failure
  <2> QED
    BY <2>1, FiniteCells, NoneLeft
<1>4. agent'[c] = Off /\ Off \in Carried
  BY <1>2, <1>3 DEF Carried, Percent
<1>5. arm' = arm /\ Desired(c)' = Desired(c) /\ Desired(c) = arm /\ ic[c] \in Percent
  BY <1>1 DEF arm, Desired, Holds, Asked
<1>6. Asked(c)'
  BY <1>1, <1>4, <1>5 DEF Asked
<1>7. ASSUME BeforeAgent' PROVE ~source'[c] /\ ic'[c] = Off /\ agent'[c] = Off
  <2>1. Untouched(idx) /\ idx \in Nat \ {0}
    BY <1>1, <1>7, RunnerAssumption DEF BeforeAgent, TypeOK
  <2>2. arm = Off
    BY <2>1 DEF Untouched, arm
  <2>3. ~source[c] /\ ic[c] = Off
    BY <1>1, <1>5, <2>2 DEF Desired, Off
  <2> QED
    BY <1>1, <1>4, <2>3
<1> QED
  BY <1>1, <1>6, <1>7, HoldsAtStart

\* Saving ic.yaml.
LEMMA CaptureFollows ==
  ASSUME PairedAsDesigned, TypeOK, Capture, NEW c \in Cell, Holds(c)
  PROVE  Holds(c)'
<1>0. cell \in Cell /\ ev \in [Cell -> Files] /\ ev[cell] \in Files
  BY DEF TypeOK
<1>1. PICK F \in Fails("read", {"ic"}) :
        ev' = [ev EXCEPT ![cell].ic = {IF F = {} THEN IcText(ic[cell]) ELSE OtherText}]
  BY Zenon DEF Capture
<1>2. pc = "capture" /\ NextCell("launch") /\ Calm
  BY DEF Capture, Calm, clusterVars
<1>3. /\ cell' \in Cell /\ idx' = idx
      /\ \/ pc' = "capture" /\ \A d \in Cell : d < cell' <=> (d < cell \/ d = cell)
         \/ pc' = "launch"  /\ \A d \in Cell : d < cell \/ d = cell
  BY <1>2, TurnOfCells
<1>4. seen'[c].open = seen[c].open /\ seen'[c].close = seen[c].close
  BY OtherReads
<1>5. ~Opened(c)' /\ ~Shut(c)' /\ ~Scraped(c)'
  BY <1>3 DEF Opened, Shut, Scraped, Closed
<1>6. pc \in Underway /\ pc' \in Underway /\ (BeforeAgent' => BeforeAgent)
  BY <1>2, <1>3 DEF Underway, BeforeAgent
<1>7. CASE c # cell
  <2>1. SameFiles(c) /\ SameStage(c)
    <3>1. ev'[c] = ev[c]
      BY <1>0, <1>1, <1>7
    <3>2. Captured(c)' => Captured(c)
      BY <1>2, <1>3, <1>7 DEF Captured, Underway
    <3> QED
      BY <1>4, <1>5, <3>1, <3>2 DEF SameFiles, SameStage
  <2> QED
    BY <1>2, <1>3, <1>6, <2>1, HoldsStutter
<1>8. CASE c = cell
  <2>1. ev'[c].ic = {IF F = {} THEN IcText(ic[c]) ELSE OtherText}
    BY <1>0, <1>1, <1>8 DEF Files
  <2>2. ic[c] \in Percent /\ OtherText = IcText(Off) /\ Off \in Percent
    BY DEF Holds, Asked, IcText, Percent
  <2>3. arm' = arm /\ arm \in Percent
    BY <1>3 DEF arm, PairedAsDesigned, TypeOK
  <2>4. Asked(c)'
    BY <1>2, <1>3, <1>6, <2>3 DEF Holds, Asked, Calm, Desired
  <2>5. \E i \in Percent : ev'[c].ic = {IcText(i)}
    BY <2>1, <2>2
  <2>6. FilesFollow(c)'
    BY <1>5, <2>5 DEF FilesFollow, ScrapeKept
  <2>7. ASSUME Names(c)' PROVE ic'[c] = arm'
    <3>1. arm # Off /\ ev'[c].ic = {IcText(arm)}
      BY <2>3, <2>7 DEF Names
    <3>2. CASE F = {}
      <4>1. IcText(arm) = IcText(ic[c])
        BY <2>1, <3>1, <3>2
      <4> QED
        BY <1>2, <2>2, <2>3, <4>1, TextsApart DEF Calm
    <3>3. CASE F # {}
      <4>1. IcText(arm) = IcText(Off)
        BY <2>1, <2>2, <3>1, <3>3
      <4> QED
        BY <2>2, <2>3, <3>1, <4>1, TextsApart
    <3> QED
      BY <3>2, <3>3
  <2>8. AgentFollows(c)'
    BY <1>5, <2>7 DEF AgentFollows
  <2>9. BeforeAgent' => Clean(c)'
    BY <1>2, <1>5, <1>6 DEF Holds, Clean, Calm
  <2> QED
    BY <2>4, <2>6, <2>8, <2>9 DEF Holds
<1> QED
  BY <1>7, <1>8

\* The snapshot at the start of the window.
LEMMA OpenFollows ==
  ASSUME TypeOK, OpenWindow, NEW c \in Cell, Holds(c)
  PROVE  Holds(c)'
<1>0. /\ cell \in Cell /\ pod[c] \in Nat /\ restarts[c] \in Nat
  BY DEF TypeOK
<1>1. /\ pc = "open" /\ NextCell("mid") /\ clusterVars' = clusterVars
      /\ seen'[cell].open = [process |-> {Process(cell)}, agent |-> agent[cell],
                             loaded |-> job[cell] = "running", spans |-> SpansSoFar(cell)]
      /\ ev'[cell].start.sink \in {{}, {SpansSoFar(cell)}}
      /\ ev'[cell].ic = ev[cell].ic /\ ev'[cell].sink = ev[cell].sink
      /\ \A d \in Cell \ {cell} : ev'[d] = ev[d] /\ seen'[d] = seen[d]
  BY OpenWindowCell
<1>2. /\ cell' \in Cell /\ idx' = idx
      /\ \/ pc' = "open" /\ \A d \in Cell : d < cell' <=> (d < cell \/ d = cell)
         \/ pc' = "mid"  /\ \A d \in Cell : d < cell \/ d = cell
  BY <1>1, TurnOfCells
<1>3. Calm /\ ~Shut(c)' /\ ~Scraped(c)' /\ Captured(c)
  BY <1>1, <1>2 DEF Calm, clusterVars, Shut, Scraped, Closed, Captured, Underway
<1>4. pc \in Underway /\ pc' \in Underway /\ (BeforeAgent' => BeforeAgent)
  BY <1>1, <1>2 DEF Underway, BeforeAgent
<1>5. CASE c # cell
  <2>1. SameFiles(c) /\ SameStage(c)
    BY <1>1, <1>2, <1>3, <1>5 DEF SameFiles, SameStage, Opened
  <2> QED
    BY <1>2, <1>3, <1>4, <2>1, HoldsStutter
<1>6. CASE c = cell
  <2>1. /\ seen'[c].open.agent = agent[c] /\ seen'[c].open.spans = SpansSoFar(c)
        /\ seen'[c].open.process = {Process(c)} /\ ev'[c].ic = ev[c].ic
        /\ ev'[c].start.sink \in {{}, {SpansSoFar(c)}}
    BY <1>1, <1>6
  <2>2. SpansSoFar(c) \in {0, 10 * Expect}
    BY DEF SpansSoFar
  <2>3. Asked(c)' /\ arm' = arm
    BY <1>2, <1>3, <1>4 DEF Holds, Asked, Calm, Desired, arm
  <2>4. \A y \in seen'[c].open.process :
          y[1] < pod'[c] \/ (y[1] = pod'[c] /\ y[2] <= restarts'[c])
    BY <1>0, <1>3, <2>1 DEF Process, Calm
  <2>5. /\ agent[c] \in Carried
        /\ Captured(c)' => \E i \in Percent : ev'[c].ic = {IcText(i)}
    BY <1>3, <2>1 DEF Holds, Asked, FilesFollow
  <2>6. FilesFollow(c)'
    BY <1>3, <2>1, <2>2, <2>4, <2>5 DEF FilesFollow, ScrapeKept
  <2>7. Names(c)' => Names(c)
    BY <1>3, <2>1, <2>3 DEF Names
  <2>8. AgentFollows(c)'
    BY <1>3, <2>1, <2>3, <2>7 DEF Holds, AgentFollows, Calm
  <2>9. BeforeAgent' => Clean(c)'
    BY <1>3, <1>4, <2>1 DEF Holds, Clean, Calm
  <2> QED
    BY <2>3, <2>6, <2>8, <2>9 DEF Holds
<1> QED
  BY <1>5, <1>6

\* The snapshot at its end.
LEMMA CloseFollows ==
  ASSUME TypeOK, CloseWindow, NEW c \in Cell, Holds(c)
  PROVE  Holds(c)'
<1>0. cell \in Cell
  BY DEF TypeOK
<1>1. /\ pc = "close" /\ NextCell("wait_all") /\ clusterVars' = clusterVars
      /\ \E n \in Observed(seen[cell].open.agent, agent[cell]) :
           seen'[cell].close = [process |-> {Process(cell)}, agent |-> agent[cell],
                                loaded |-> job[cell] = "running",
                                spans |-> seen[cell].open.spans + n]
      /\ seen'[cell].open = seen[cell].open
      /\ ev'[cell].start = ev[cell].start /\ ev'[cell].ic = ev[cell].ic
      /\ ev'[cell].sink = ev[cell].sink
      /\ \A d \in Cell \ {cell} : ev'[d] = ev[d] /\ seen'[d] = seen[d]
  BY CloseWindowCell
<1>2. /\ cell' \in Cell /\ idx' = idx
      /\ \/ pc' = "close" /\ \A d \in Cell : d < cell' <=> (d < cell \/ d = cell)
         \/ pc' = "wait_all" /\ \A d \in Cell : d < cell \/ d = cell
  BY <1>1, TurnOfCells
<1>3. Calm /\ ~Scraped(c)' /\ Captured(c) /\ Opened(c)
  BY <1>1, <1>2 DEF Calm, clusterVars, Opened, Scraped, Captured, Underway
<1>4. pc \in Underway /\ pc' \in Underway /\ (BeforeAgent' => BeforeAgent)
  BY <1>1, <1>2 DEF Underway, BeforeAgent
<1>5. CASE c # cell
  <2>1. SameFiles(c) /\ SameStage(c)
    BY <1>1, <1>2, <1>3, <1>5 DEF SameFiles, SameStage, Shut, Closed
  <2> QED
    BY <1>2, <1>3, <1>4, <2>1, HoldsStutter
<1>6. CASE c = cell
  <2>1. /\ seen'[c].close.process = {Process(c)} /\ seen'[c].close.agent = agent[c]
        /\ \E n \in Observed(seen'[c].open.agent, seen'[c].close.agent) :
             seen'[c].close.spans = seen'[c].open.spans + n
        /\ seen'[c].open = seen[c].open
        /\ ev'[c].ic = ev[c].ic /\ ev'[c].start = ev[c].start
    BY <1>1, <1>6
  <2>2. Asked(c)' /\ arm' = arm
    BY <1>2, <1>3, <1>4 DEF Holds, Asked, Calm, Desired, arm
  <2>3. FilesFollow(c)'
    BY <1>3, <2>1 DEF Holds, Asked, FilesFollow, ScrapeKept, Calm
  <2>4. Names(c)' => Names(c)
    BY <1>3, <2>1, <2>2 DEF Names
  <2>5. AgentFollows(c)'
    BY <1>3, <2>1, <2>2, <2>4 DEF Holds, AgentFollows, Calm, Process
  <2>6. BeforeAgent' => Clean(c)'
    BY <1>3, <1>4, <2>1 DEF Holds, Clean, Calm
  <2> QED
    BY <2>2, <2>3, <2>5, <2>6 DEF Holds
<1> QED
  BY <1>5, <1>6

\* The last scrape.
LEMMA SinkFollows ==
  ASSUME TypeOK, SinkEnd, NEW c \in Cell, Holds(c)
  PROVE  Holds(c)'
<1>0. cell \in Cell
  BY DEF TypeOK
<1>1. /\ pc = "sink" /\ NextCell("collect") /\ clusterVars' = clusterVars
      /\ ev'[cell].sink.spans \in {{}, {seen[cell].close.spans}}
      /\ ev'[cell].start = ev[cell].start /\ ev'[cell].ic = ev[cell].ic
      /\ \A d \in Cell \ {cell} : ev'[d] = ev[d]
  BY SinkEndCell
<1>2. /\ cell' \in Cell /\ idx' = idx
      /\ \/ pc' = "sink" /\ \A d \in Cell : d < cell' <=> (d < cell \/ d = cell)
         \/ pc' = "collect" /\ \A d \in Cell : d < cell \/ d = cell
  BY <1>1, TurnOfCells
<1>3. /\ seen'[c].open = seen[c].open /\ seen'[c].close = seen[c].close
      /\ Calm /\ Captured(c) /\ Opened(c) /\ Shut(c)
  BY <1>1, OtherReads DEF Calm, clusterVars, Opened, Shut, Closed, Captured, Underway
<1>4. pc \in Underway /\ pc' \in Underway /\ (BeforeAgent' => BeforeAgent)
  BY <1>1, <1>2 DEF Underway, BeforeAgent
<1>5. CASE c # cell
  <2>1. SameFiles(c) /\ SameStage(c)
    BY <1>1, <1>2, <1>3, <1>5 DEF SameFiles, SameStage, Scraped
  <2> QED
    BY <1>2, <1>3, <1>4, <2>1, HoldsStutter
<1>6. CASE c = cell
  <2>1. /\ ev'[c].ic = ev[c].ic /\ ev'[c].start = ev[c].start
        /\ ev'[c].sink.spans \in {{}, {seen'[c].close.spans}}
    BY <1>1, <1>3, <1>6
  <2>2. Asked(c)' /\ arm' = arm
    BY <1>2, <1>3, <1>4 DEF Holds, Asked, Calm, Desired, arm
  <2>3. FilesFollow(c)'
    BY <1>3, <2>1 DEF Holds, FilesFollow, ScrapeKept, Calm
  <2>4. Names(c)' => Names(c)
    BY <1>3, <2>1, <2>2 DEF Names
  <2>5. AgentFollows(c)'
    BY <1>3, <2>2, <2>4 DEF Holds, AgentFollows, Calm, Process
  <2>6. BeforeAgent' => Clean(c)'
    BY <1>3, <1>4 DEF Holds, Clean, Calm
  <2> QED
    BY <2>2, <2>3, <2>5, <2>6 DEF Holds
<1> QED
  BY <1>5, <1>6

\* The cluster's moves: there is nothing to deliver once ic.yaml names the arm,
\* and an agent can only follow it.
LEMMA ClusterFollows ==
  ASSUME TypeOK, rule \in {25, 100}, NEW d \in Cell, Deliver(d) \/ Attach(d) \/ Disrupt(d),
         NEW c \in Cell, Holds(c)
  PROVE  Holds(c)'
<1>0. /\ ic \in [Cell -> Arm] /\ agent \in [Cell -> AgentState]
      /\ pod \in [Cell -> Nat] /\ restarts \in [Cell -> Nat]
  BY DEF TypeOK
<1>1. /\ pc' = pc /\ cell' = cell /\ idx' = idx /\ ev' = ev /\ seen' = seen
      /\ source' = source /\ rule' = rule
  BY DEF Deliver, Attach, Disrupt, runnerVars
<1>2. /\ SameFiles(c) /\ SameStage(c) /\ arm' = arm /\ (BeforeAgent' <=> BeforeAgent)
      /\ (Names(c)' <=> Names(c)) /\ (Opened(c)' <=> Opened(c)) /\ (Shut(c)' <=> Shut(c))
      /\ Desired(c)' = Desired(c)
  BY <1>1 DEF SameFiles, SameStage, Captured, Opened, Shut, Scraped, Closed, arm, BeforeAgent, Names, Desired
<1>3. CASE c # d
  <2>1. Spared(c)
    BY <1>0, <1>1, <1>3 DEF Spared, Deliver, Attach, Disrupt
  <2> QED
    BY <1>1, <1>2, <2>1, HoldsSpared
<1>4. CASE c = d
  <2>1. Names(c) => ic[c] = arm /\ Desired(c) = arm /\ arm # Off
    BY DEF Holds, AgentFollows, Names, Asked, Captured, Underway
  <2>2. BeforeAgent => ~source[c] /\ ic[c] = Off /\ agent[c] = Off /\ Desired(c) = Off
    BY DEF Holds, Clean, Desired
  <2>3. CASE Deliver(d)
    <3>1. /\ ic'[c] = Desired(c) /\ agent'[c] = agent[c] /\ ~Names(c) /\ ~BeforeAgent
          /\ pod'[c] = pod[c] /\ restarts'[c] = restarts[c]
      BY <1>0, <1>4, <2>1, <2>2, <2>3 DEF Deliver
    <3>2. Asked(c)'
      <4>1. Desired(c) \in Percent
        BY DEF Desired, Percent
      <4> QED
        BY <1>1, <1>2, <3>1, <4>1 DEF Holds, Asked
    <3>3. FilesFollow(c)'
      BY <1>2, <3>1 DEF Holds, FilesFollow, ScrapeKept, SameFiles, SameStage
    <3>4. AgentFollows(c)'
      BY <1>2, <3>1 DEF AgentFollows
    <3> QED
      BY <1>2, <3>1, <3>2, <3>3, <3>4 DEF Holds
  <2>4. CASE Attach(d)
    <3>1. /\ agent'[c] = IF ic[c] # Off THEN ic[c] ELSE IF agent[c] = Off THEN Off ELSE Woven
          /\ agent'[c] # agent[c] /\ ic'[c] = ic[c] /\ pod'[c] = pod[c] /\ restarts'[c] = restarts[c]
      BY <1>0, <1>4, <2>4 DEF Attach
    <3>2. ~BeforeAgent /\ (Names(c) => agent'[c] = arm)
      BY <2>1, <2>2, <3>1
    <3>3. Asked(c)'
      <4>1. agent'[c] \in Carried
        BY <3>1 DEF Holds, Asked, Carried, Percent
      <4> QED
        BY <1>1, <1>2, <3>1, <4>1 DEF Holds, Asked
    <3>4. FilesFollow(c)'
      BY <1>2, <3>1 DEF Holds, FilesFollow, ScrapeKept, SameFiles, SameStage
    <3>5. AgentFollows(c)'
      BY <1>2, <2>1, <3>1, <3>2 DEF Holds, AgentFollows, SameFiles
    <3> QED
      BY <1>2, <3>2, <3>3, <3>4, <3>5 DEF Holds
  <2>5. CASE Disrupt(d)
    <3>1. /\ agent'[c] = Off /\ ic'[c] = ic[c] /\ pod[c] \in Nat /\ restarts[c] \in Nat
          /\ \/ pod'[c] = pod[c] /\ restarts'[c] = restarts[c] + 1
             \/ pod'[c] = pod[c] + 1
      BY <1>0, <1>4, <2>5 DEF Disrupt
    <3>2. ASSUME Opened(c), NEW y \in seen[c].open.process
          PROVE  /\ y[1] < pod'[c] \/ (y[1] = pod'[c] /\ y[2] <= restarts'[c])
                 /\ y # Process(c)'
      <4>1. seen[c].open.process \in SUBSET (Nat \X Nat)
        BY DEF TypeOK, Truth, Sight
      <4>2. y[1] \in Nat /\ y[2] \in Nat
        BY <4>1
      <4>3. y[1] < pod[c] \/ (y[1] = pod[c] /\ y[2] <= restarts[c])
        BY <3>2 DEF Holds, FilesFollow
      <4>4. y[1] < pod'[c] \/ (y[1] = pod'[c] /\ y[2] < restarts'[c])
        BY <3>1, <4>2, <4>3
      <4>5. y # <<pod'[c], restarts'[c]>>
        <5> SUFFICES ASSUME y = <<pod'[c], restarts'[c]>> PROVE FALSE
          OBVIOUS
        <5>1. pod'[c] \in Nat /\ y[1] = pod'[c] /\ y[2] = restarts'[c]
          BY <3>1
        <5> QED
          BY <4>2, <4>4, <5>1
      <4>6. y[1] < pod'[c] \/ (y[1] = pod'[c] /\ y[2] <= restarts'[c])
        BY <3>1, <4>2, <4>3
      <4> QED
        BY <4>5, <4>6 DEF Process
    <3>3. Asked(c)'
      BY <1>1, <1>2, <3>1 DEF Holds, Asked, Carried, Percent
    <3>4. FilesFollow(c)'
      BY <1>2, <3>2 DEF Holds, FilesFollow, ScrapeKept, SameFiles, SameStage
    <3>5. AgentFollows(c)'
      BY <1>2, <3>1, <3>2 DEF Holds, AgentFollows, SameFiles
    <3>6. BeforeAgent' => Clean(c)'
      BY <1>1, <1>2, <3>1 DEF Holds, Clean, SameFiles
    <3> QED
      BY <3>3, <3>4, <3>5, <3>6 DEF Holds
  <2> QED
    BY <2>3, <2>4, <2>5
<1> QED
  BY <1>3, <1>4

\* The window that a verdict adds.
LEMMA JudgedWindow ==
  ASSUME TypeOK, Judge, NEW c \in Cell, NEW w \in Windows(c)'
  PROVE  w \in Windows(c) \/ (c = cell /\ w = JudgedRow(cell))
<1> DEFINE j == JudgedRow(cell)
<1>1. cell \in Cell /\ rows \in [Cell -> Seq(Window)] /\ rows[c] \in Seq(Window)
  BY DEF TypeOK
<1>2. rows' = [rows EXCEPT ![cell] = Append(@, j)]
  BY DEF Judge
<1> HIDE DEF j
<1>3. PICK n \in DOMAIN rows'[c] : w = rows'[c][n]
  BY DEF Windows
<1>4. CASE c # cell
  BY <1>1, <1>2, <1>3, <1>4 DEF Windows
<1>5. CASE c = cell
  <2>1. rows'[c] = Append(rows[c], j)
    BY <1>1, <1>2, <1>5
  <2>2. \/ n \in DOMAIN rows[c] /\ rows'[c][n] = rows[c][n]
        \/ rows'[c][n] = j
    BY <1>1, <1>3, <2>1
  <2> QED
    BY <1>3, <1>5, <2>2 DEF Windows, j
<1> QED
  BY <1>4, <1>5

\* Spans of a window that opened and closed on one agent, which is not the arm's.
Accepts(a, m) == (a = 25 /\ 200 <= m /\ m <= 280) \/ (a = 100 /\ 900 <= m /\ m <= 1100)

LEMMA SpansOfAnother ==
  ASSUME NEW a, NEW x, NEW n, NEW u, NEW v, NEW m,
         a \in {25, 100}, x \in Carried \ {a}, n \in Observed(x, x),
         u \in {0, 10 * Expect}, v = u + n, m \in {0, v, -v, v - u, u - v}
  PROVE  ~Accepts(a, m)
<1>1. /\ SpansOf(Off) = 0 /\ SpansOf(Woven) = 0 /\ SpansOf(25) = 250 /\ SpansOf(100) = 1000
  BY DEF SpansOf, Expect, Off, Woven
<1>2. n = SpansOf(x) /\ x \in {Off, Woven, 25, 100}
  BY DEF Observed, Carried, Percent
<1>3. n \in {0, 250, 1000} /\ (a = 25 => n # 250) /\ (a = 100 => n # 1000)
  BY <1>1, <1>2
<1>4. u \in {0, 10000}
  BY DEF Expect
<1> QED
  BY <1>3, <1>4 DEF Accepts

\* A window that was not rejected, and whose meta.json the analysis can read,
\* closed on its arm's agent.
LEMMA JudgedFollows ==
  ASSUME PairedAsDesigned, TypeOK, pc = "judge", Holds(cell), OpenRecorded(cell), CloseRecorded(cell),
         arm # Off, JudgedRow(cell).meta, JudgedRow(cell).gate # "rejected"
  PROVE  seen[cell].close.agent = arm
<1>1. /\ cell \in Cell /\ arm \in {25, 100}
      /\ ev[cell] \in Files /\ seen[cell] \in Truth
  BY DEF TypeOK, PairedAsDesigned, Percent, arm
<1>2. /\ Captured(cell) /\ Opened(cell) /\ Shut(cell) /\ Scraped(cell) /\ pc \in Underway
  BY DEF Captured, Opened, Shut, Scraped, Closed, Underway
<1> DEFINE e == Evidence(cell)
           t == ev[cell].ic
           open == seen[cell].open
           close == seen[cell].close
<1>3. JudgedRow(cell).gate = "accepted"
  <2>1. JudgedRow(cell).gate = GateJson(e, arm, Expect) /\ "meta" \notin e.garbled
    BY DEF JudgedRow, Row
  <2>2. e.garbled \subseteq {"meta"}
    BY DEF Evidence
  <2>3. e.garbled = {}
    BY <2>1, <2>2
  <2> HIDE DEF e
  <2> QED
    BY <2>1, <2>3 DEF GateJson
<1>4. Fired(IcRules(e.ic, arm)) = {} /\ Fired(SinkRules(e.sink, arm, Expect)) = {}
  <2>1. GateJson(e, arm, Expect) = "accepted"
    BY <1>3 DEF JudgedRow, Row
  <2> HIDE DEF e
  <2> QED
    BY <2>1, AcceptedRules
<1>5. /\ Fired(IcRules(t, arm)) = {}
      /\ Fired(SinkRules(SinkDelta(ev[cell].start.sink, ev[cell].sink.spans, ev[cell].sink.completed),
                         arm, Expect)) = {}
  BY <1>4 DEF Evidence
<1>6. PICK i \in Percent : t = {IcText(i)}
  BY <1>2 DEF Holds, FilesFollow
<1>7. i = arm
  <2>1. Fired(IcRules({IcText(i)}, arm)) = {} /\ i \in {Off, 25, 100}
    BY <1>5, <1>6 DEF Percent
  <2> QED
    BY <1>1, <2>1, TextNamesArm
<1>8. Names(cell)
  BY <1>2, <1>6, <1>7 DEF Names
<1>9. open.process = close.process
  <2>1. JudgedRow(cell).opened = JudgedRow(cell).closed
    BY <1>1, <1>3, JudgedInOneProcess
  <2> QED
    BY <2>1 DEF JudgedRow, Row
<1>10. close.agent \in {open.agent, arm}
  BY <1>2, <1>8, <1>9 DEF Holds, AgentFollows
<1> SUFFICES ASSUME close.agent # arm PROVE FALSE
  OBVIOUS
<1>11. close.agent = open.agent
  BY <1>10
<1>12. /\ open.agent \in Carried \ {arm} /\ open.spans \in {0, 10 * Expect}
       /\ ev[cell].start.sink \in {{}, {open.spans}} /\ ev[cell].sink.spans \in {{}, {close.spans}}
       /\ \E n \in Observed(open.agent, open.agent) : close.spans = open.spans + n
  BY <1>2, <1>11 DEF Holds, FilesFollow, ScrapeKept
<1>13. open.spans \in Nat /\ close.spans \in Nat
  BY <1>1 DEF Truth, Sight
<1> DEFINE u == open.spans
           v == close.spans
           first == ev[cell].start.sink
           last == ev[cell].sink.spans
           done == ev[cell].sink.completed
           x == open.agent
<1>14. /\ u \in Nat /\ v \in Nat /\ u \in {0, 10 * Expect}
       /\ first \in {{}, {u}} /\ last \in {{}, {v}}
       /\ Fired(SinkRules(SinkDelta(first, last, done), arm, Expect)) = {}
       /\ x \in Carried \ {arm} /\ \E n \in Observed(x, x) : v = u + n
  BY <1>5, <1>12, <1>13
<1> HIDE DEF u, v, first, last, done, x
<1>15. \E m : AcceptedRate(m, arm, u, v, first, last, done)
  BY <1>14, SpansJudged
<1>16. PICK m : AcceptedRate(m, arm, u, v, first, last, done)
  BY <1>15
<1>17. PICK n \in Observed(x, x) : v = u + n
  BY <1>14
<1>18. /\ m \in {0, v, -v, v - u, u - v}
       /\ arm = 25 => 200 <= m /\ m <= 280
       /\ arm = 100 => 900 <= m /\ m <= 1100
  BY <1>16 DEF AcceptedRate
<1>19. /\ arm \in {25, 100} /\ x \in Carried \ {arm} /\ n \in Observed(x, x)
       /\ u \in {0, 10 * Expect} /\ v = u + n /\ m \in {0, v, -v, v - u, u - v}
  BY <1>1, <1>14, <1>17, <1>18
<1>20. ~Accepts(arm, m)
  BY <1>19, SpansOfAnother
<1> QED
  BY <1>1, <1>18, <1>20 DEF Accepts

\* A verdict, and what follows it.
LEMMA JudgeFollows ==
  ASSUME PairedAsDesigned, TypeOK, ProcessInv, PairedInv, Judge, NEW c \in Cell
  PROVE  Holds(c)' /\ \A w \in Windows(c)' : RowFollows(w)
<1>0. /\ cell \in Cell /\ idx \in DOMAIN Arms /\ idx \in Nat \ {0} /\ pc = "judge"
      /\ Holds(c) /\ Holds(cell)
  BY RunnerAssumption DEF TypeOK, Judge, PairedInv
<1>1. Calm /\ ev' = ev /\ seen' = seen
  BY DEF Judge, Calm, clusterVars
<1>2. \/ pc' = "collect" /\ idx' = idx
      \/ pc' = "sampling" /\ idx' = idx + 1
      \/ pc' = "done"
  BY GotoStep DEF Judge
<1>3. Untouched(idx) => BeforeAgent
  BY <1>0 DEF BeforeAgent, Underway
<1>4. ASSUME NEW w \in Windows(c)' PROVE RowFollows(w)
  <2>1. CASE w \in Windows(c)
    BY <2>1 DEF PairedInv
  <2>2. CASE w \notin Windows(c)
    <3>1. w = JudgedRow(cell)
      BY <2>2, JudgedWindow
    <3>2. /\ w.slot = idx /\ w.arm = Arms[idx] /\ w.arm = arm
          /\ w.agentOpen = seen[cell].open.agent /\ w.agentClose = seen[cell].close.agent
      BY <3>1 DEF JudgedRow, Row, arm
    <3>3. w.arm # Off /\ w.meta /\ w.gate # "rejected" => seen[cell].close.agent = arm
      BY <1>0, <3>1, <3>2, JudgedFollows DEF ProcessInv
    <3>4. Untouched(idx) => seen[cell].open.agent = Off /\ seen[cell].close.agent = Off
      BY <1>0, <1>3 DEF Holds, Clean, Opened, Shut, Closed
    <3> QED
      BY <1>0, <3>2, <3>3, <3>4 DEF RowFollows
  <2> QED
    BY <2>1, <2>2
<1>5. CASE pc' = "collect" /\ idx' = idx
  <2>1. SameFiles(c) /\ SameStage(c)
    BY <1>0, <1>1, <1>5 DEF SameFiles, SameStage, Captured, Opened, Shut, Scraped, Closed, Underway
  <2>2. BeforeAgent' => BeforeAgent
    BY <1>0, <1>5 DEF BeforeAgent, Underway
  <2>3. Holds(c)'
    BY <1>0, <1>1, <1>5, <2>1, <2>2, HoldsStutter DEF Underway
  <2> QED
    BY <1>4, <2>3
<1>6. CASE (pc' = "sampling" /\ idx' = idx + 1) \/ pc' = "done"
  <2>1. Asked(c)'
    BY <1>0, <1>1, <1>6 DEF Holds, Asked, Calm, Underway
  <2>2. BeforeAgent' => Untouched(idx)
    <3> SUFFICES ASSUME BeforeAgent' PROVE Untouched(idx)
      OBVIOUS
    <3>1. pc' = "sampling" /\ idx' = idx + 1 /\ Untouched(idx' - 1)
      BY <1>6 DEF BeforeAgent, Underway
    <3>2. idx' - 1 = idx
      BY <1>0, <3>1
    <3> QED
      BY <3>1, <3>2
  <2>3. BeforeAgent' => ~source'[c] /\ ic'[c] = Off /\ agent'[c] = Off
    BY <1>0, <1>1, <1>3, <2>2 DEF Holds, Clean, Calm
  <2>4. Holds(c)'
    BY <1>6, <2>1, <2>3, HoldsOutside DEF Underway
  <2> QED
    BY <1>4, <2>4
<1> QED
  BY <1>2, <1>5, <1>6

LEMMA PairedStep ==
  ASSUME PairedAsDesigned
  PROVE  PhaseInv /\ ProcessInv /\ BudgetInv /\ PairedInv /\ [Next]_vars => PairedInv'
<1> SUFFICES ASSUME PhaseInv, ProcessInv, BudgetInv, PairedInv, [Next]_vars PROVE PairedInv'
  OBVIOUS
<1>0. /\ TypeOK /\ rule \in {25, 100} /\ \A c \in Cell : Holds(c)
      /\ \A c \in Cell : \A w \in Windows(c) : RowFollows(w)
  BY DEF PhaseInv, PairedInv
<1>1. ASSUME rows' = rows, rule' \in {25, 100}, \A c \in Cell : Holds(c)' PROVE PairedInv'
  BY <1>0, <1>1 DEF PairedInv, Windows
<1>2. CASE SetSampling
  <2>1. rule' \in {25, 100} /\ \A c \in Cell : Holds(c)'
    BY <1>0, <1>2, SamplingAsked
  <2>2. rows' = rows
    BY <1>2 DEF SetSampling
  <2> QED
    BY <1>1, <2>1, <2>2
<1>3. CASE ResetAndRestart
  <2>1. \A c \in Cell : Holds(c)'
    BY <1>0, <1>3, RestartAsked
  <2>2. rows' = rows /\ rule' = rule
    BY <1>3 DEF ResetAndRestart
  <2> QED
    BY <1>0, <1>1, <2>1, <2>2
<1>4. CASE \/ WaitHealthy \/ WaitIc \/ AdminReset \/ Launch \/ AwaitStart \/ SleepUntil
           \/ SnapMid \/ WaitAll \/ Collect
  <2>1. Calm /\ idx' = idx /\ rows' = rows /\ pc \in Underway /\ pc' \in Underway \cup {"fatal"}
    BY <1>0, <1>4, CalmSteps
  <2>2. \A c \in Cell : SameFiles(c)
    BY <1>0, <1>4, CalmSteps
  <2>3. pc' \in Underway => \A c \in Cell : SameStage(c)
    BY <1>0, <1>4, CalmSteps
  <2>4. rule' = rule /\ (BeforeAgent' => BeforeAgent /\ pc' \in Underway)
    BY <2>1 DEF Calm, BeforeAgent, Underway
  <2>5. ASSUME NEW c \in Cell PROVE Holds(c)'
    <3>1. CASE pc' \in Underway
      BY <1>0, <2>1, <2>2, <2>3, <2>4, <3>1, HoldsStutter
    <3>2. CASE pc' \notin Underway
      <4>1. Asked(c)'
        BY <1>0, <2>1, <3>2 DEF Holds, Asked, Calm
      <4> QED
        BY <2>4, <3>2, <4>1, HoldsOutside
    <3> QED
      BY <3>1, <3>2
  <2> QED
    BY <1>0, <1>1, <2>1, <2>4, <2>5
<1>5. CASE Capture \/ OpenWindow \/ CloseWindow \/ SinkEnd
  <2>1. rows' = rows /\ rule' = rule
    BY <1>5 DEF Capture, OpenWindow, CloseWindow, SinkEnd, clusterVars
  <2>2. ASSUME NEW c \in Cell PROVE Holds(c)'
    BY <1>0, <1>5, CaptureFollows, OpenFollows, CloseFollows, SinkFollows
  <2> QED
    BY <1>0, <1>1, <2>1, <2>2
<1>6. CASE Judge
  <2>1. rule' = rule
    BY <1>6 DEF Judge, clusterVars
  <2>2. \A c \in Cell : Holds(c)' /\ \A w \in Windows(c)' : RowFollows(w)
    BY <1>0, <1>6, JudgeFollows
  <2> QED
    BY <1>0, <2>1, <2>2 DEF PairedInv
<1>7. ~Kill
  BY DEF Kill, PairedAsDesigned
<1>8. ASSUME NEW d \in Cell, Deliver(d) \/ Attach(d) \/ Disrupt(d) PROVE PairedInv'
  <2>1. rows' = rows /\ rule' = rule
    BY <1>8 DEF Deliver, Attach, Disrupt, runnerVars
  <2>2. \A c \in Cell : Holds(c)'
    BY <1>0, <1>8, ClusterFollows
  <2> QED
    BY <1>0, <1>1, <2>1, <2>2
<1>9. ASSUME NEW c \in Cell, pc' = pc, cell' = cell, idx' = idx, ev' = ev, seen' = seen, Calm
      PROVE  Holds(c)'
  <2>1. SameFiles(c) /\ SameStage(c) /\ (BeforeAgent' => BeforeAgent)
    BY <1>9 DEF SameFiles, SameStage, Captured, Opened, Shut, Scraped, Closed, BeforeAgent
  <2> QED
    BY <1>0, <1>9, <2>1, HoldsStutter
<1>10. ASSUME NEW d \in Cell, JobStart(d) \/ JobEnd(d) \/ JobDies(d) PROVE PairedInv'
  <2>1. /\ pc' = pc /\ cell' = cell /\ idx' = idx /\ ev' = ev /\ seen' = seen /\ Calm
        /\ rows' = rows /\ rule' = rule
    BY <1>10 DEF JobStart, JobEnd, JobDies, runnerVars, Calm
  <2> QED
    BY <1>0, <1>1, <1>9, <2>1
<1>11. CASE UNCHANGED vars
  <2>1. /\ pc' = pc /\ cell' = cell /\ idx' = idx /\ ev' = ev /\ seen' = seen /\ Calm
        /\ rows' = rows /\ rule' = rule
    BY <1>11 DEF vars, Calm
  <2> QED
    BY <1>0, <1>1, <1>9, <2>1
<1> QED
  BY <1>2, <1>3, <1>4, <1>5, <1>6, <1>7, <1>8, <1>10, <1>11 DEF Next, Runner, Cluster

\* A pair is one pod's windows of one instrumented arm, which is loaded from that
\* pod, against the uninstrumented windows of the pod that lead them all.
LEMMA PairOfPod ==
  ASSUME NEW c \in Cell, NEW p \in Pairs(c)
  PROVE  \E a, q : /\ a # Off
                   /\ p.windows = {w \in OnPod(Dir(c), q) : w.arm = a} /\ p.windows # {}
                   /\ p.offs = Leading(OnPod(Dir(c), q))
<1>1. PICK a \in Instrumented(Dir(c)) : p \in PairedRows(Dir(c), a)
  BY DEF Pairs
<1>2. PICK q \in PodsOf(Dir(c)) :
        /\ Measured({w \in OnPod(Dir(c), q) : w.arm = a}) # {}
        /\ p = Differ({w \in OnPod(Dir(c), q) : w.arm = a}, Leading(OnPod(Dir(c), q)))
  BY <1>1, Zenon DEF PairedRows
<1> DEFINE W == {w \in OnPod(Dir(c), q) : w.arm = a}
<1>3. W # {}
  BY <1>2 DEF Measured
<1>4. p.windows = W /\ p.offs = Leading(OnPod(Dir(c), q))
  BY <1>2 DEF Differ
<1> QED
  BY <1>1, <1>3, <1>4 DEF Instrumented

LEMMA OnPodWindow ==
  ASSUME TypeOK, NEW c \in Cell, NEW q, NEW x \in OnPod(Dir(c), q)
  PROVE  WindowOf(x, Windows(c)) /\ x.meta
<1>1. PICK j \in AcceptedArms(Dir(c)) : x = Dir(c)[j]
  BY DEF OnPod, Pooled
<1> QED
  BY <1>1, ArmsOfDir DEF OnPod

\* Both sides of a paired comparison ran what they are labelled with, in as many
\* cells and arms as the run has, whatever evidence is lost and whatever restarts
\* under it: the instrumented windows of a pod closed on their agent, and the
\* baselines ran on processes no agent had touched, the pod's windows before its
\* first instrumented one (analyze.py:373-397, METHODOLOGY.md section 5).
THEOREM PairsCompareAgentWithNone ==
  ASSUME PairedAsDesigned PROVE Spec => []PairedComparesAgentWithNone
<1>1. PhaseInv /\ ProcessInv /\ BudgetInv /\ PairedInv /\ [Next]_vars => PairedInv'
  BY PairedStep
<1>2. PhaseInv => TypeOK
  BY DEF PhaseInv
<1>3. Spec => [](PhaseInv /\ PairedInv)
  BY <1>1, <1>2, InitPhaseInv, InitProcessInv, InitBudget, InitPairedInv, PhaseStep, ProcessStep,
     BudgetStep, PTL DEF Spec
<1>4. PhaseInv /\ PairedInv => PairedComparesAgentWithNone
  <2> SUFFICES ASSUME PhaseInv, PairedInv, NEW c \in Cell, NEW p \in Pairs(c)
               PROVE  /\ \A x \in p.windows : x.window.agentClose = x.window.arm
                      /\ \A x \in p.offs : x.window.agentOpen = Off /\ x.window.agentClose = Off
    BY DEF PairedComparesAgentWithNone, Behind
  <2>1. PICK a, q : /\ a # Off
                    /\ p.windows = {w \in OnPod(Dir(c), q) : w.arm = a} /\ p.windows # {}
                    /\ p.offs = Leading(OnPod(Dir(c), q))
    BY PairOfPod
  <2>2. ASSUME NEW x \in OnPod(Dir(c), q)
        PROVE  /\ RowFollows(x.window) /\ x.window.gate # "rejected" /\ x.window.meta
               /\ x.arm = x.window.arm /\ x.slot = x.window.slot
    BY <1>2, OnPodWindow DEF WindowOf, PairedInv
  <2>3. ASSUME NEW x \in p.windows PROVE x.window.agentClose = x.window.arm
    BY <2>1, <2>2 DEF RowFollows
  <2>4. ASSUME NEW v \in p.offs PROVE v.window.agentOpen = Off /\ v.window.agentClose = Off
    <3>1. PICK x \in OnPod(Dir(c), q) : x.arm = a
      BY <2>1
    <3>2. v \in OnPod(Dir(c), q) /\ v.arm = Off /\ v.slot < x.slot
      BY <2>1, <3>1 DEF Leading
    <3>3. /\ v.slot \in DOMAIN Arms /\ Arms[v.slot] = Off
          /\ x.slot \in DOMAIN Arms /\ Arms[x.slot] # Off
      BY <2>1, <2>2, <3>1, <3>2 DEF RowFollows
    <3>4. Untouched(v.slot)
      <4> SUFFICES ASSUME NEW n \in 1..v.slot, Arms[n] # Off PROVE FALSE
        BY DEF Untouched
      <4>1. v.slot \in 1..Len(Arms) /\ Len(Arms) \in Nat /\ DOMAIN Arms = 1..Len(Arms)
        BY <3>3, RunnerAssumption
      <4>2. n \in DOMAIN Arms /\ n # v.slot /\ n < v.slot
        BY <3>3, <4>1
      <4> QED
        BY <3>2, <3>3, <4>2 DEF PairedAsDesigned
    <3>5. RowFollows(v.window) /\ v.slot = v.window.slot
      BY <2>2, <3>2
    <3> QED
      BY <3>4, <3>5 DEF RowFollows
  <2> QED
    BY <2>3, <2>4
<1> QED
  BY <1>3, <1>4, PTL
=============================================================================
