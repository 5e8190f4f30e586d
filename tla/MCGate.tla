------------------------------- MODULE MCGate -------------------------------
(***************************************************************************)
(* TLC instance of Gate.  A behaviour starts from the evidence of a clean  *)
(* window with at most two files replaced by a variant (the variants sit   *)
(* on both sides of every threshold) and then loses files, the way a       *)
(* kubectl exec whose stderr goes to /dev/null loses them.                 *)
(***************************************************************************)
EXTENDS Gate, FiniteSets

CONSTANTS
  Arms,     \* the arms judged
  MaxLost   \* how many files a behaviour may lose

VARIABLES arm, ev, lost
vars == <<arm, ev, lost>>

DocumentedArms == {Off, 25, 100}

Expect == 1000  \* ten spans per request

K6 == [requests |-> 2000, failed |-> 2, maxMs |-> 100, dropped |-> 10,
       rate |-> 100, tps |-> 99, checkFail |-> 0]
CpuOf(throttledUs, cpuMax, cpusetStart, cpuset, size) ==
  [nrThrottled |-> 1, throttledUs |-> throttledUs, windowUs |-> 1000000,
   cpuMax |-> cpuMax, cpuset |-> cpuset, cpusetStart |-> cpusetStart, cpusetSize |-> size]
Quota(q) == {[quota |-> q, period |-> 100]}
Cpu == CpuOf(0, Quota({}), {"coreA"}, {"coreA"}, 2)
Meta == [qos |-> {"Guaranteed"}, pod |-> {"a"}, podEnd |-> {"a"},
         restartsStart |-> {0}, restartsEnd |-> {0}, resetHttp |-> {200}]
Spans(a) == IF a = Off THEN 0 ELSE (Expect * a) \div 100
Sink(n) == [refused |-> 0, failed |-> 0, spansPerReq |-> n]
Ic(p) == [crd |-> TRUE, enabled |-> TRUE, pct |-> p]
OtherText == [crd |-> FALSE, enabled |-> FALSE, pct |-> {}]
IcOf(a) == IF a = Off THEN OtherText ELSE Ic(IF a = 100 THEN {} ELSE {a})

Clean(a) ==
  [k6 |-> {K6}, cpu |-> {Cpu}, meta |-> {Meta}, h1 |-> {1000}, h2 |-> {1051},
   sink |-> {Sink({Spans(a)})}, jvm |-> {[compileMsPerMin |-> {1000}]},
   ic |-> {IcOf(a)}, garbled |-> {}]

CpuVariants ==
  {CpuOf(t, Quota({}), {"coreA"}, {"coreA"}, 2) : t \in {1000, 1001}}
  \cup {CpuOf(0, Quota({q}), {"coreA"}, {"coreA"}, 2) : q \in {199, 200}}
  \cup {CpuOf(0, Quota({}), {"coreA"}, {"coreA"}, n) : n \in {1, 3}}
  \cup {CpuOf(0, Quota({}), {"coreB"}, {"coreA"}, 2), CpuOf(0, {}, {"coreA"}, {"coreA"}, 2),
        CpuOf(0, Quota({}), {}, {}, 0)}

\* What else each file can say, around every threshold of gate.py.
Variants(a) ==
  [k6   |-> {[K6 EXCEPT !.failed = 3], [K6 EXCEPT !.maxMs = ClientTimeoutMs],
             [K6 EXCEPT !.dropped = 11], [K6 EXCEPT !.tps = 98], [K6 EXCEPT !.checkFail = 1]},
   cpu  |-> CpuVariants,
   meta |-> {[Meta EXCEPT !.qos = {"Burstable"}], [Meta EXCEPT !.podEnd = {"b"}],
             [Meta EXCEPT !.podEnd = {}], [Meta EXCEPT !.restartsEnd = {1}],
             [Meta EXCEPT !.resetHttp = {500}]},
   h1   |-> {1052, 900, 0},
   h2   |-> {951, 1200, 0},
   sink |-> {Sink({n}) : n \in {0, 1, 2, 199, 200, 250, 280, 281, 899, 900, 1100, 1101}}
            \cup {Sink({}), [Sink({Spans(a)}) EXCEPT !.refused = 1]},
   jvm  |-> {[compileMsPerMin |-> {1001}], [compileMsPerMin |-> {}]},
   ic   |-> {OtherText} \cup {Ic(p) : p \in {{}, {25}, {2}, {50}}} \cup {[Ic({}) EXCEPT !.enabled = FALSE]}]

Init ==
  /\ arm \in Arms
  /\ lost = {}
  /\ \E f, g \in EvidenceFile :
       \E x \in Variants(arm)[f], y \in Variants(arm)[g] :
         ev \in {Clean(arm), [Clean(arm) EXCEPT ![f] = {x}, ![g] = {y}]}

\* A file is created empty because the command that fills it failed.
Lose(f) ==
  /\ Cardinality(lost) < MaxLost
  /\ f \notin lost
  /\ ev' = [ev EXCEPT ![f] = {}]
  /\ lost' = lost \cup {f}
  /\ UNCHANGED arm

\* meta.json is written with an empty restart count: it is no longer JSON.
Garble ==
  /\ Cardinality(lost) < MaxLost
  /\ "meta" \notin lost
  /\ ev' = [ev EXCEPT !.garbled = {"meta"}]
  /\ lost' = lost \cup {"meta"}
  /\ UNCHANGED arm

Next == Garble \/ \E f \in EvidenceFile : Lose(f)
Spec == Init /\ [][Next]_vars

Accepted == GateJson(ev, arm, Expect) = "accepted"

-----------------------------------------------------------------------------
\* What was delivered and what was received prove independently which of the
\* run's arms was measured: no ic.yaml passes its rules for two arms, and no
\* span rate passes for two arms, so a window labelled with the wrong arm needs
\* both to lie (METHODOLOGY.md section 5, "proves what was measured, rather than
\* what was intended"; gate.py:168-203).
OneArmPerEvidence ==
  \A a, b \in Arms :
    a # b =>
      /\ Fired(IcRules(ev.ic, a)) \cup Fired(IcRules(ev.ic, b)) # {}
      /\ Fired(SinkRules(ev.sink, a, Expect)) \cup Fired(SinkRules(ev.sink, b, Expect)) # {}

\* An accepted window had an exclusive core nothing could throttle: either no
\* CFS quota or one that two full CPUs cannot exhaust, on one unmoved cpuset of
\* one physical core, with a measured half on each side (gate.py:136-166).
AcceptedHadItsCore ==
  Accepted =>
    \E c \in ev.cpu :
      /\ c.cpusetSize = ExpectCpuset
      /\ c.cpuset # {} /\ c.cpusetStart \in {{}, c.cpuset}
      /\ c.cpuMax # {}
      /\ \A m \in c.cpuMax : \A q \in m.quota : q >= ExpectCpuset * m.period
      /\ ev.h1 # {} /\ ev.h2 # {}

\* Losing any of these files makes the window unusable: it is rejected, it does
\* not slip through with fewer rules (gate.py:46-47, :157, :166, :169, :185, :206).
LostEvidenceRejects ==
  lost \cap ({"k6", "cpu", "h1", "h2", "ic", "jvm"} \cup (IF arm = Off THEN {} ELSE {"sink"})) # {}
    => ~Accepted
=============================================================================
