-------------------------------- MODULE Gate --------------------------------
(***************************************************************************)
(* bin/lib/gate.py: the verdict on one measured window of one cell.        *)
(*                                                                         *)
(* An evidence file that is missing or empty is the empty set and a file   *)
(* that was read is a singleton, so the code's "if meta:" is a quantifier  *)
(* over ev.meta, and its "x.get(k)" that may be None is a field that is    *)
(* itself empty or a singleton.  Percentages are compared in integers.     *)
(***************************************************************************)
EXTENDS Integers

CONSTANTS
  ClientTimeoutMs, \* CLIENT_TIMEOUT_MS
  ExpectCpuset     \* EXPECT_CPUSET, the CPUs of one physical core

ASSUME GateAssumption ==
  /\ ClientTimeoutMs \in Nat \ {0}
  /\ ExpectCpuset \in Nat \ {0}

\* An arm is the sampling percentage asked for; Off is the uninstrumented arm.
Off == -1
Arm == {Off} \cup 1..100

\* The files gate.py opens; main() loads every one that is present.
EvidenceFile == {"k6", "cpu", "meta", "h1", "h2", "sink", "jvm", "ic"}

Abs(n) == IF n < 0 THEN -n ELSE n

\* The names of the rules that hold, i.e. the reasons for a rejection.
Fired(rules) == {r \in DOMAIN rules : rules[r]}

-----------------------------------------------------------------------------
\* legacy_rules: k is the k6 summary.  failed_rate is failed / requests.
LegacyRules(k, cpu) ==
  [ errors    |-> k.failed * 1000 > k.requests,
    timeouts  |-> k.maxMs * 100 >= 95 * ClientTimeoutMs,
    dropped   |-> k.dropped * 1000 > 5 * (k.requests + k.dropped),
    throttled |-> \E c \in cpu : /\ c.nrThrottled > 0
                                 /\ c.throttledUs * 1000 > c.windowUs ]

\* Mutant: the quota is compared with one CPU.
MutQuotaBinds(c) == \E m \in c.cpuMax : \E q \in m.quota : q < m.period

\* "cpu.max" is a quota and a period, or "max" (no quota).  A quota that the
\* cpuset cannot reach is harmless.
QuotaBinds(c) ==
  \E m \in c.cpuMax : \E q \in m.quota :
    c.cpusetSize = 0 \/ q < c.cpusetSize * m.period

CpuRules(cpu) ==
  [ noCpu        |-> cpu = {},
    noCpuMax     |-> \E c \in cpu : c.cpuMax = {},
    quota        |-> \E c \in cpu : QuotaBinds(c),
    noCpuset     |-> \E c \in cpu : c.cpuset = {},
    cpusetSize   |-> \E c \in cpu : c.cpuset # {} /\ c.cpusetSize # ExpectCpuset,
    cpusetMoved  |-> \E c \in cpu : /\ c.cpuset # {} /\ c.cpusetSize = ExpectCpuset
                                    /\ c.cpusetStart # {} /\ c.cpusetStart # c.cpuset ]

\* A field that is empty or absent skips its comparison; the restart count is
\* compared whenever both were recorded.
MetaRules(meta) ==
  [ qos       |-> \E m \in meta : m.qos # {} /\ m.qos # {"Guaranteed"},
    pod       |-> \E m \in meta : m.pod # {} /\ m.podEnd # {} /\ m.pod # m.podEnd,
    restarted |-> \E m \in meta : \E a \in m.restartsStart, b \in m.restartsEnd : a # b,
    reset     |-> \E m \in meta : m.resetHttp \notin {{}, {200}} ]

\* Mutant: no else branch.
MutHalfRules(h1, h2) ==
  [ unsettled |-> \E a \in h1, b \in h2 :
                    a > 0 /\ b > 0 /\ 200 * Abs(a - b) > 5 * (a + b) ]

\* |a - b| / mean > 5%, when both halves have a CPU figure.
HalfRules(h1, h2) ==
  [ noHalves  |-> h1 = {} \/ h2 = {},
    unsettled |-> \E a \in h1, b \in h2 :
                    a > 0 /\ b > 0 /\ 200 * Abs(a - b) > 5 * (a + b) ]

\* "percentageAtMost: <arm>" is a substring of "percentageAtMost: <p>" when
\* <arm> is a decimal prefix of <p>.
Prints(p, arm) == arm \in {p, p \div 10, p \div 100}

\* Mutant: a head-sampling rule left over on the 100% arm is not looked for.
MutIcRules(ic, arm) ==
  [ noIc        |-> ic = {},
    undelivered |-> \E t \in ic : arm # Off /\ ~(t.crd /\ t.enabled),
    present     |-> \E t \in ic : arm = Off /\ t.crd,
    sampling    |-> \E t \in ic : arm \notin {Off, 100} /\ ~ \E p \in t.pct : Prints(p, arm) ]

\* The text saved as ic.yaml.  Any text that is not an InstrumentationConfig,
\* an error message included, has crd = FALSE, enabled = FALSE, pct = {}.
IcRules(ic, arm) ==
  LET instrumented == arm # Off IN
  [ noIc        |-> ic = {},
    undelivered |-> \E t \in ic : instrumented /\ ~t.crd,
    disabled    |-> \E t \in ic : instrumented /\ t.crd /\ ~t.enabled,
    present     |-> \E t \in ic : ~instrumented /\ t.crd,
    sampling    |-> \E t \in ic : /\ instrumented /\ arm # 100
                                  /\ ~ \E p \in t.pct : Prints(p, arm),
    headSampled |-> \E t \in ic : arm = 100 /\ t.pct # {} ]

\* Spans per request and the design are in hundredths of a span; a design of 0
\* stands for --expect-spans not given.
SinkRules(sink, arm, expect) ==
  LET instrumented == arm # Off IN
  [ noSink       |-> instrumented /\ sink = {},
    backpressure |-> instrumented /\ \E s \in sink : s.refused > 0 \/ s.failed > 0,
    noSpans      |-> instrumented /\ \E s \in sink : s.spansPerReq = {},
    coverage     |-> /\ arm = 100 /\ expect > 0
                     /\ \E s \in sink : \E n \in s.spansPerReq :
                          10 * Abs(n - expect) > expect,
    keep         |-> /\ instrumented /\ arm # 100 /\ expect > 0
                     /\ \E s \in sink : \E n \in s.spansPerReq :
                          ~(20 * expect <= 100 * n /\ 100 * n <= 28 * expect),
    offSpans     |-> /\ ~instrumented
                     /\ \E s \in sink : \E n \in s.spansPerReq : n > 1 ]

JvmRules(jvm) ==
  [ noJvm |-> jvm = {},
    jit   |-> \E j \in jvm : \E ms \in j.compileMsPerMin : ms > 1000 ]

LoadRules(k) ==
  [ offered |-> k.rate > 0 /\ 100 * k.tps < 99 * k.rate,
    checks  |-> k.checkFail > 0 ]

StrictReasons(k, ev, arm, expect) ==
  UNION { Fired(LoadRules(k)), Fired(MetaRules(ev.meta)), Fired(CpuRules(ev.cpu)),
          Fired(HalfRules(ev.h1, ev.h2)), Fired(IcRules(ev.ic, arm)),
          Fired(SinkRules(ev.sink, arm, expect)), Fired(JvmRules(ev.jvm)) }

Reasons(ev, arm, expect) ==
  UNION { Fired(LegacyRules(k, ev.cpu)) \cup StrictReasons(k, ev, arm, expect) : k \in ev.k6 }

\* gate() and main() as run.sh calls them: what gate.json holds afterwards.
\* ev.garbled names the files that are not empty and not JSON; loading one
\* raises, and the redirected stderr leaves a traceback in gate.json.
GateFile == {"accepted", "rejected", "traceback"}

GateJson(ev, arm, expect) ==
  IF ev.k6 = {} /\ "k6" \notin ev.garbled THEN "rejected"
  ELSE IF ev.garbled # {} THEN "traceback"
  ELSE IF Reasons(ev, arm, expect) = {} THEN "accepted" ELSE "rejected"
=============================================================================
