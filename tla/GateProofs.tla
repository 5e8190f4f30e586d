----------------------------- MODULE GateProofs -----------------------------
(***************************************************************************)
(* What an accepting gate implies, for any percentages, timeouts and core  *)
(* sizes and however many files are lost.  Each rule's lemma says what the *)
(* absence of a reason means; the theorems put them together.              *)
(***************************************************************************)
EXTENDS MCGate, TLAPS

\* Acceptance, read backwards: there is a k6 summary, nothing is garbled, and no
\* rule group has a reason.
LEMMA AcceptedMeansNoReason ==
  ASSUME NEW e, NEW a, NEW x, GateJson(e, a, x) = "accepted"
  PROVE  /\ e.garbled = {}
         /\ e.k6 # {}
         /\ Fired(CpuRules(e.cpu)) = {}
         /\ Fired(HalfRules(e.h1, e.h2)) = {}
         /\ Fired(IcRules(e.ic, a)) = {}
         /\ Fired(SinkRules(e.sink, a, x)) = {}
         /\ Fired(JvmRules(e.jvm)) = {}
<1>1. /\ e.garbled = {} /\ ~(e.k6 = {} /\ "k6" \notin e.garbled) /\ Reasons(e, a, x) = {}
  BY DEF GateJson
<1>2. e.k6 # {}
  BY <1>1
<1>3. PICK k \in e.k6 : TRUE
  BY <1>2
<1>4. StrictReasons(k, e, a, x) = {}
  BY <1>1, <1>3 DEF Reasons
<1> QED
  BY <1>1, <1>2, <1>4 DEF StrictReasons

\* cpu.json: it was read, and its cpuset, quota and movement pass their rules.
LEMMA CpuPasses ==
  ASSUME NEW cpu, Fired(CpuRules(cpu)) = {}
  PROVE  /\ cpu # {}
         /\ \A c \in cpu :
              /\ c.cpuMax # {} /\ ~QuotaBinds(c)
              /\ c.cpuset # {} /\ c.cpusetSize = ExpectCpuset
              /\ c.cpusetStart = {} \/ c.cpusetStart = c.cpuset
<1> DEFINE R == CpuRules(cpu)
<1>1. DOMAIN R = {"noCpu", "noCpuMax", "quota", "noCpuset", "cpusetSize", "cpusetMoved"}
  BY DEF CpuRules
<1>2. \A r \in DOMAIN R : ~R[r]
  BY DEF Fired
<1>3. ~R.noCpu /\ ~R.noCpuMax /\ ~R.quota /\ ~R.noCpuset /\ ~R.cpusetSize /\ ~R.cpusetMoved
  BY <1>1, <1>2
<1> QED
  BY <1>3 DEF CpuRules

\* The other files whose absence is a rule: the halves, the InstrumentationConfig,
\* the JVM's figures and, of an instrumented window, the sink's.
LEMMA FilesPresent ==
  ASSUME NEW h1, NEW h2, NEW ic, NEW jvm, NEW sink, NEW a, NEW x,
         Fired(HalfRules(h1, h2)) = {}, Fired(IcRules(ic, a)) = {},
         Fired(JvmRules(jvm)) = {}, Fired(SinkRules(sink, a, x)) = {}
  PROVE  h1 # {} /\ h2 # {} /\ ic # {} /\ jvm # {} /\ (a # Off => sink # {})
<1>1. h1 # {} /\ h2 # {}
  <2>1. "noHalves" \in DOMAIN HalfRules(h1, h2)
    BY DEF HalfRules
  <2>2. ~HalfRules(h1, h2)["noHalves"]
    BY <2>1 DEF Fired
  <2> QED
    BY <2>2 DEF HalfRules
<1>2. ic # {}
  <2>1. "noIc" \in DOMAIN IcRules(ic, a)
    BY DEF IcRules
  <2>2. ~IcRules(ic, a)["noIc"]
    BY <2>1 DEF Fired
  <2> QED
    BY <2>2 DEF IcRules
<1>3. jvm # {}
  <2>1. "noJvm" \in DOMAIN JvmRules(jvm)
    BY DEF JvmRules
  <2>2. ~JvmRules(jvm)["noJvm"]
    BY <2>1 DEF Fired
  <2> QED
    BY <2>2 DEF JvmRules
<1>4. a # Off => sink # {}
  <2>1. "noSink" \in DOMAIN SinkRules(sink, a, x)
    BY DEF SinkRules
  <2>2. ~SinkRules(sink, a, x)["noSink"]
    BY <2>1 DEF Fired
  <2> QED
    BY <2>2 DEF SinkRules
<1> QED
  BY <1>1, <1>2, <1>3, <1>4

\* What gate.py accepts, of any evidence whatever: every file that proves the core,
\* the settled halves, the delivered configuration, the compiler's rest and, of an
\* instrumented window, the spans was there, and there was one core that no quota
\* binds and that nobody moved (gate.py:128-206).
THEOREM AcceptanceNeedsEvidence ==
  ASSUME NEW e, NEW a, NEW x, GateJson(e, a, x) = "accepted"
  PROVE  /\ e.garbled = {} /\ e.k6 # {}
         /\ e.cpu # {} /\ e.h1 # {} /\ e.h2 # {} /\ e.ic # {} /\ e.jvm # {}
         /\ a # Off => e.sink # {}
         /\ \A c \in e.cpu :
              /\ c.cpuMax # {} /\ ~QuotaBinds(c)
              /\ c.cpuset # {} /\ c.cpusetSize = ExpectCpuset
              /\ c.cpusetStart = {} \/ c.cpusetStart = c.cpuset
<1>1. /\ e.garbled = {} /\ e.k6 # {}
      /\ Fired(CpuRules(e.cpu)) = {} /\ Fired(HalfRules(e.h1, e.h2)) = {}
      /\ Fired(IcRules(e.ic, a)) = {} /\ Fired(JvmRules(e.jvm)) = {}
      /\ Fired(SinkRules(e.sink, a, x)) = {}
  BY AcceptedMeansNoReason
<1>2. e.h1 # {} /\ e.h2 # {} /\ e.ic # {} /\ e.jvm # {} /\ (a # Off => e.sink # {})
  BY <1>1, FilesPresent
<1> QED
  BY <1>1, <1>2, CpuPasses

-----------------------------------------------------------------------------
\* A lost file is empty, or no longer JSON; the figures of cpu.json are numbers.
LostIsGone ==
  /\ DOMAIN ev = EvidenceFile \cup {"garbled"}
  /\ lost \subseteq EvidenceFile
  /\ \A f \in lost : ev[f] = {} \/ (f = "meta" /\ ev.garbled # {})
Numeric(c) == \A m \in c.cpuMax : m.period \in Nat /\ m.quota \subseteq Nat
CpuHasNumbers == \A c \in ev.cpu : Numeric(c)

\* The quotas and periods of every cpu.json of the instance are numbers.
LEMMA CpuVariantsNumeric == \A c \in CpuVariants \cup {Cpu} : Numeric(c)
<1> DEFINE A == {CpuOf(t, Quota({}), {"coreA"}, {"coreA"}, 2) : t \in {1000, 1001}}
           B == {CpuOf(0, Quota({q}), {"coreA"}, {"coreA"}, 2) : q \in {199, 200}}
           C == {CpuOf(0, Quota({}), {"coreA"}, {"coreA"}, n) : n \in {1, 3}}
           D == {CpuOf(0, Quota({}), {"coreB"}, {"coreA"}, 2), CpuOf(0, {}, {"coreA"}, {"coreA"}, 2),
                 CpuOf(0, Quota({}), {}, {}, 0)}
<1>1. \A c \in A : Numeric(c)
  BY DEF Numeric, CpuOf, Quota
<1>2. \A c \in B : Numeric(c)
  BY DEF Numeric, CpuOf, Quota
<1>3. \A c \in C : Numeric(c)
  BY DEF Numeric, CpuOf, Quota
<1>4. \A c \in D \cup {Cpu} : Numeric(c)
  BY DEF Numeric, CpuOf, Quota, Cpu
<1>5. CpuVariants = A \cup B \cup C \cup D
  BY DEF CpuVariants
<1> HIDE DEF A, B, C, D
<1> QED
  BY <1>1, <1>2, <1>3, <1>4, <1>5

\* Both hold of the evidence a behaviour starts from, ...
LEMMA InitEvidence == Init => LostIsGone /\ CpuHasNumbers
<1> SUFFICES ASSUME Init PROVE LostIsGone /\ CpuHasNumbers
  OBVIOUS
<1>1. PICK f \in EvidenceFile, g \in EvidenceFile :
        \E x \in Variants(arm)[f], y \in Variants(arm)[g] :
          ev \in {Clean(arm), [Clean(arm) EXCEPT ![f] = {x}, ![g] = {y}]}
  BY DEF Init
<1>2. PICK x \in Variants(arm)[f], y \in Variants(arm)[g] :
        ev \in {Clean(arm), [Clean(arm) EXCEPT ![f] = {x}, ![g] = {y}]}
  BY <1>1
<1>3. DOMAIN Clean(arm) = EvidenceFile \cup {"garbled"}
  BY DEF Clean, EvidenceFile
<1>4. LostIsGone
  BY <1>2, <1>3 DEF LostIsGone, Init
<1>5. \A c \in CpuVariants \cup {Cpu} : Numeric(c)
  BY CpuVariantsNumeric
<1>6. Variants(arm)["cpu"] = CpuVariants /\ Clean(arm).cpu = {Cpu} /\ "cpu" \in DOMAIN Clean(arm)
  BY DEF Variants, Clean
<1>7. ev.cpu \subseteq CpuVariants \cup {Cpu}
  BY <1>2, <1>6
<1> QED
  BY <1>4, <1>5, <1>7 DEF CpuHasNumbers

\* ... losing a file preserves them, ...
LEMMA NextEvidence == LostIsGone /\ CpuHasNumbers /\ [Next]_vars => LostIsGone' /\ CpuHasNumbers'
<1> SUFFICES ASSUME LostIsGone, CpuHasNumbers, [Next]_vars
             PROVE  LostIsGone' /\ CpuHasNumbers'
  OBVIOUS
<1> USE DEF LostIsGone, CpuHasNumbers, EvidenceFile
<1>1. CASE Garble
  BY <1>1 DEF Garble
<1>2. ASSUME NEW f \in EvidenceFile, Lose(f)
      PROVE  LostIsGone' /\ CpuHasNumbers'
  BY <1>2 DEF Lose
<1>3. CASE UNCHANGED vars
  BY <1>3 DEF vars
<1> QED
  BY <1>1, <1>2, <1>3 DEF Next

\* ... and so they always hold.
LEMMA Evidence == Spec => [](LostIsGone /\ CpuHasNumbers)
  BY InitEvidence, NextEvidence, PTL DEF Spec

-----------------------------------------------------------------------------
\* Whatever files are lost, and however many: a window without its k6 summary,
\* CPU figures, halves, InstrumentationConfig, JVM figures or, instrumented, its
\* sink figures is not accepted (gate.py:46-47, :157, :166, :169, :185, :206).
THEOREM LossRejects == Spec => []LostEvidenceRejects
<1>1. LostIsGone => LostEvidenceRejects
  <2> SUFFICES ASSUME LostIsGone, Accepted,
                      NEW f \in lost,
                      f \in {"k6", "cpu", "h1", "h2", "ic", "jvm"} \/ (f = "sink" /\ arm # Off)
               PROVE  FALSE
    BY DEF LostEvidenceRejects
  <2>1. ev[f] = {}
    BY DEF LostIsGone
  <2>2. /\ ev.k6 # {} /\ ev.cpu # {} /\ ev.h1 # {} /\ ev.h2 # {} /\ ev.ic # {} /\ ev.jvm # {}
        /\ arm # Off => ev.sink # {}
    BY AcceptanceNeedsEvidence DEF Accepted
  <2> QED
    BY <2>1, <2>2
<1> QED
  BY <1>1, Evidence, PTL

\* For every size of a core: an accepted window had exactly that many CPUs on one
\* unmoved cpuset, and no quota below what they can use (gate.py:136-166).
THEOREM AcceptanceHasCore == Spec => []AcceptedHadItsCore
<1>1. CpuHasNumbers => AcceptedHadItsCore
  <2> SUFFICES ASSUME CpuHasNumbers, Accepted
               PROVE  AcceptedHadItsCore
    BY DEF AcceptedHadItsCore
  <2>1. /\ ev.cpu # {} /\ ev.h1 # {} /\ ev.h2 # {}
        /\ \A c \in ev.cpu :
             /\ c.cpuMax # {} /\ ~QuotaBinds(c)
             /\ c.cpuset # {} /\ c.cpusetSize = ExpectCpuset
             /\ c.cpusetStart = {} \/ c.cpusetStart = c.cpuset
    BY AcceptanceNeedsEvidence DEF Accepted
  <2>2. PICK c \in ev.cpu : TRUE
    BY <2>1
  <2>3. ASSUME NEW m \in c.cpuMax, NEW q \in m.quota
        PROVE  q >= ExpectCpuset * m.period
    <3>1. q \in Nat /\ m.period \in Nat /\ ExpectCpuset \in Nat
      BY GateAssumption DEF CpuHasNumbers, Numeric
    <3>2. ~(q < c.cpusetSize * m.period)
      BY <2>1 DEF QuotaBinds
    <3>3. ExpectCpuset * m.period \in Nat
      BY <3>1
    <3> QED
      BY <2>1, <3>1, <3>2, <3>3
  <2> QED
    BY <2>1, <2>2, <2>3 DEF AcceptedHadItsCore
<1> QED
  BY <1>1, Evidence, PTL
-----------------------------------------------------------------------------
\* The span counts of sink.json are numbers.
Counted(sink) == \A s \in sink : s.spansPerReq \subseteq Int
SinkCounts == Counted(ev.sink)

\* A text that proves one documented arm proves no other: it is, or is not, an
\* InstrumentationConfig, and that has, or has not, a head-sampling rule.
LEMMA IcProvesOneArm ==
  ASSUME NEW ic, NEW a \in DocumentedArms, NEW b \in DocumentedArms, a # b,
         Fired(IcRules(ic, a)) = {}
  PROVE  Fired(IcRules(ic, b)) # {}
<1>1. ASSUME NEW arms \in DocumentedArms, Fired(IcRules(ic, arms)) = {}
      PROVE  /\ ic # {}
             /\ arms = Off => \A t \in ic : ~t.crd
             /\ arms # Off => \A t \in ic : t.crd
             /\ arms = 25 => \A t \in ic : t.pct # {}
             /\ arms = 100 => \A t \in ic : t.pct = {}
  <2> DEFINE R == IcRules(ic, arms)
  <2>1. DOMAIN R = {"noIc", "undelivered", "disabled", "present", "sampling", "headSampled"}
    BY DEF IcRules
  <2>2. \A r \in DOMAIN R : ~R[r]
    BY <1>1 DEF Fired
  <2>3. ~R.noIc /\ ~R.undelivered /\ ~R.present /\ ~R.sampling /\ ~R.headSampled
    BY <2>1, <2>2
  <2>4. ic # {}
    BY <2>3 DEF IcRules
  <2>5. arms = Off => \A t \in ic : ~t.crd
    BY <2>3 DEF IcRules
  <2>6. arms # Off => \A t \in ic : t.crd
    BY <2>3 DEF IcRules
  <2>7. arms = 25 => \A t \in ic : t.pct # {}
    BY <2>3 DEF IcRules, Off
  <2>8. arms = 100 => \A t \in ic : t.pct = {}
    BY <2>3 DEF IcRules
  <2> QED
    BY <2>4, <2>5, <2>6, <2>7, <2>8
<1> SUFFICES ASSUME Fired(IcRules(ic, b)) = {} PROVE FALSE
  OBVIOUS
<1>2. PICK t \in ic : TRUE
  BY <1>1
<1> QED
  BY <1>1, <1>2 DEF DocumentedArms, Off

\* A span rate that proves one documented arm proves no other, when the design
\* has more than a twentieth of a span per request.
LEMMA SinkProvesOneArm ==
  ASSUME NEW sink, Counted(sink), NEW x \in Nat, x > 5,
         NEW a \in DocumentedArms, NEW b \in DocumentedArms, a # b,
         Fired(SinkRules(sink, a, x)) = {}
  PROVE  Fired(SinkRules(sink, b, x)) # {}
<1>1. ASSUME NEW arms \in DocumentedArms, Fired(SinkRules(sink, arms, x)) = {}
      PROVE  /\ arms # Off => sink # {} /\ \A s \in sink : s.spansPerReq # {}
             /\ arms = Off => \A s \in sink : \A n \in s.spansPerReq : ~(n > 1)
             /\ arms = 25 => \A s \in sink : \A n \in s.spansPerReq : 20 * x <= 100 * n /\ 100 * n <= 28 * x
             /\ arms = 100 => \A s \in sink : \A n \in s.spansPerReq : ~(10 * Abs(n - x) > x)
  <2> DEFINE R == SinkRules(sink, arms, x)
  <2>1. DOMAIN R = {"noSink", "backpressure", "noSpans", "coverage", "keep", "offSpans"}
    BY DEF SinkRules
  <2>2. \A r \in DOMAIN R : ~R[r]
    BY <1>1 DEF Fired
  <2>3. ~R.noSink /\ ~R.noSpans /\ ~R.coverage /\ ~R.keep /\ ~R.offSpans
    BY <2>1, <2>2
  <2>4. arms # Off => sink # {} /\ \A s \in sink : s.spansPerReq # {}
    BY <2>3 DEF SinkRules
  <2>5. arms = Off => \A s \in sink : \A n \in s.spansPerReq : ~(n > 1)
    BY <2>3 DEF SinkRules
  <2>6. arms = 25 => \A s \in sink : \A n \in s.spansPerReq : 20 * x <= 100 * n /\ 100 * n <= 28 * x
    BY <2>3 DEF SinkRules, Off
  <2>7. arms = 100 => \A s \in sink : \A n \in s.spansPerReq : ~(10 * Abs(n - x) > x)
    BY <2>3 DEF SinkRules
  <2> QED
    BY <2>4, <2>5, <2>6, <2>7
<1> SUFFICES ASSUME Fired(SinkRules(sink, b, x)) = {} PROVE FALSE
  OBVIOUS
<1>2. a # Off \/ b # Off
  OBVIOUS
<1>3. PICK s \in sink : s.spansPerReq # {}
  BY <1>1, <1>2
<1>4. PICK n \in s.spansPerReq : n \in Int
  BY <1>3 DEF Counted
<1>5. a = Off \/ b = Off => n <= 1
  BY <1>1, <1>3, <1>4
<1>6. a = 25 \/ b = 25 => 20 * x <= 100 * n /\ 100 * n <= 28 * x
  BY <1>1, <1>3, <1>4
<1>7. a = 100 \/ b = 100 => 10 * Abs(n - x) <= x
  <2>1. Abs(n - x) \in Int
    BY <1>4 DEF Abs
  <2> QED
    BY <1>1, <1>3, <1>4, <2>1
<1>8. 10 * Abs(n - x) <= x => 90 * x <= 100 * n
  BY <1>4 DEF Abs
<1> QED
  BY <1>4, <1>5, <1>6, <1>7, <1>8 DEF DocumentedArms
\* Losing a file changes no count.
LEMMA CountsInvariant == ASSUME Arms \subseteq DocumentedArms PROVE Spec => []SinkCounts
<1>1. Init => SinkCounts
  <2> SUFFICES ASSUME Init PROVE Counted(ev.sink)
    BY DEF SinkCounts
  <2>1. PICK f \in EvidenceFile, g \in EvidenceFile :
          \E x \in Variants(arm)[f], y \in Variants(arm)[g] :
            ev \in {Clean(arm), [Clean(arm) EXCEPT ![f] = {x}, ![g] = {y}]}
    BY DEF Init
  <2>2. PICK x \in Variants(arm)[f], y \in Variants(arm)[g] :
          ev \in {Clean(arm), [Clean(arm) EXCEPT ![f] = {x}, ![g] = {y}]}
    BY <2>1
  <2>3. Spans(arm) \in Int
    BY DEF Init, Spans, DocumentedArms, Off, Expect
  <2> DEFINE A == {Sink({n}) : n \in {0, 1, 2, 199, 200, 250, 280, 281, 899, 900, 1100, 1101}}
             B == {Sink({}), [Sink({Spans(arm)}) EXCEPT !.refused = 1]}
  <2>4. Counted(A)
    BY DEF Counted, Sink
  <2>5. Counted(B)
    BY <2>3 DEF Counted, Sink
  <2>6. Counted({Sink({Spans(arm)})})
    BY <2>3 DEF Counted, Sink
  <2>7. Variants(arm)["sink"] = A \cup B
    BY DEF Variants
  <2>8. Clean(arm).sink = {Sink({Spans(arm)})} /\ "sink" \in DOMAIN Clean(arm)
    BY DEF Clean
  <2> HIDE DEF A, B
  <2>9. ev.sink \subseteq A \cup B \cup {Sink({Spans(arm)})}
    BY <2>2, <2>7, <2>8
  <2> QED
    BY <2>4, <2>5, <2>6, <2>9 DEF Counted
<1>2. (LostIsGone /\ CpuHasNumbers) /\ SinkCounts /\ [Next]_vars => SinkCounts'
  <2> SUFFICES ASSUME LostIsGone, SinkCounts, [Next]_vars PROVE SinkCounts'
    OBVIOUS
  <2>1. ev'.sink = ev.sink \/ ev'.sink = {}
    <3>1. CASE Garble
      BY <3>1 DEF Garble, LostIsGone
    <3>2. ASSUME NEW f \in EvidenceFile, Lose(f) PROVE ev'.sink = ev.sink \/ ev'.sink = {}
      BY <3>2 DEF Lose, LostIsGone, EvidenceFile
    <3>3. CASE UNCHANGED vars
      BY <3>3 DEF vars
    <3> QED
      BY <3>1, <3>2, <3>3 DEF Next
  <2> QED
    BY <2>1 DEF SinkCounts, Counted
<1> QED
  BY <1>1, <1>2, Evidence, PTL DEF Spec

\* Of the arms gate.py documents, no evidence passes the rules of two: neither what
\* was delivered nor what was received, each of itself and whatever was lost
\* (gate.py:168-203).  Of others it may: the text of 20 passes for 2.
THEOREM EvidenceNamesItsArm ==
  ASSUME Arms \subseteq DocumentedArms PROVE Spec => []OneArmPerEvidence
<1>1. SinkCounts => OneArmPerEvidence
  <2> SUFFICES ASSUME Counted(ev.sink), NEW a \in Arms, NEW b \in Arms, a # b
               PROVE  /\ Fired(IcRules(ev.ic, a)) \cup Fired(IcRules(ev.ic, b)) # {}
                      /\ Fired(SinkRules(ev.sink, a, Expect)) \cup Fired(SinkRules(ev.sink, b, Expect)) # {}
    BY DEF OneArmPerEvidence, SinkCounts
  <2>1. a \in DocumentedArms /\ b \in DocumentedArms
    OBVIOUS
  <2>2. Expect \in Nat /\ Expect > 5
    BY DEF Expect
  <2>3. Fired(IcRules(ev.ic, a)) # {} \/ Fired(IcRules(ev.ic, b)) # {}
    BY <2>1, IcProvesOneArm, Zenon
  <2>4. Fired(SinkRules(ev.sink, a, Expect)) # {} \/ Fired(SinkRules(ev.sink, b, Expect)) # {}
    BY <2>1, <2>2, SinkProvesOneArm, Zenon
  <2> QED
    BY <2>3, <2>4
<1> QED
  BY <1>1, CountsInvariant, PTL
=============================================================================
