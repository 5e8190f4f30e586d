--------------------------- MODULE NodeProbeProofs --------------------------
(***************************************************************************)
(* Theorems about the node probe, for any containers and any number of     *)
(* restarts, replacements and failed calls: no restart makes a container   *)
(* or a pod give CPU back, a name is charged what its containers used, and *)
(* a window in which nothing happens to the pod adds up.                   *)
(***************************************************************************)
EXTENDS NodeProbe, FiniteSums

PodEntry == [pod : Nat, usage : Nat]
CtrEntry == [pod : Nat, id : Nat \X Name, usage : Nat]

\* The part of the type that the argument needs; the bound on the CPU is a sum.
Shape ==
  /\ births \in Nat
  /\ pod \in [name : Nat, usage : Nat]
  /\ ctr \in [Name -> [born : Nat, usage : Nat]]
  /\ step \in Files \X {"list", "time", "pod", "scopes", "map", "over"}
  /\ file \in [Files -> [ts : BOOLEAN, pods : SUBSET PodEntry, ctrs : SUBSET CtrEntry,
                         map : SUBSET [pod : Nat, id : Nat \X Name, name : Name]]]
  /\ listed \subseteq Nat
  /\ pod.name <= births
  /\ \A n \in Name : ctr[n].born <= births

\* What a file holds of a cgroup that still lives is a counter it has passed, and
\* every number in it has been used up: a later cgroup has a number of its own.
Passed(f) ==
  /\ \A y \in file[f].pods : y.pod <= births /\ (y.pod = pod.name => y.usage <= pod.usage)
  /\ \A y \in file[f].ctrs :
       y.id[1] <= births /\ (y.id[1] = ctr[y.id[2]].born => y.usage <= ctr[y.id[2]].usage)

\* The second file is written when the first one is finished, and then no counter
\* in it is below the first file's of the same cgroup.
Ordered ==
  /\ step[1] = "start" => file["end"] = Empty
  /\ \A x \in file["end"].pods, y \in file["start"].pods : x.pod = y.pod => y.usage <= x.usage
  /\ \A x \in file["end"].ctrs, y \in file["start"].ctrs : x.id = y.id => y.usage <= x.usage

\* The inductive invariant.
CounterInv == Shape /\ Passed("start") /\ Ordered

\* It holds at first.
LEMMA InitCounter == Init => CounterInv
  BY DEF Init, CounterInv, Shape, Passed, Ordered, Files, Empty, PodEntry, CtrEntry

\* The node's steps preserve it: a counter grows, or a new cgroup has a new number.
LEMMA NodeStep ==
  ASSUME CounterInv, Node
  PROVE  CounterInv'
<1> USE DEF CounterInv, Shape
<1>1. ASSUME NEW n \in Name, Use(n)
      PROVE  CounterInv'
  <2>1. Shape'
    BY <1>1 DEF Use
  <2>2. Passed("start")'
    BY <1>1 DEF Use, Passed, Files, CtrEntry, PodEntry
  <2>3. Ordered'
    BY <1>1 DEF Use, Ordered, Empty
  <2> QED
    BY <2>1, <2>2, <2>3
<1>2. ASSUME NEW n \in Name, Restart(n)
      PROVE  CounterInv'
  <2>1. Shape'
    BY <1>2 DEF Restart
  <2>2. Passed("start")'
    BY <1>2 DEF Restart, Passed, Files, CtrEntry, PodEntry
  <2>3. Ordered'
    BY <1>2 DEF Restart, Ordered, Empty
  <2> QED
    BY <2>1, <2>2, <2>3
<1>3. CASE Replace
  <2>1. Shape'
    BY <1>3 DEF Replace
  <2>2. Passed("start")'
    BY <1>3 DEF Replace, Passed, Files, CtrEntry, PodEntry
  <2>3. Ordered'
    BY <1>3 DEF Replace, Ordered, Empty
  <2> QED
    BY <2>1, <2>2, <2>3
<1> QED
  BY <1>1, <1>2, <1>3 DEF Node

\* Writing the time of a file keeps its shape.
LEMMA SetTime ==
  ASSUME NEW T, NEW P, NEW C, NEW M, NEW t \in T, NEW r \in [ts : T, pods : P, ctrs : C, map : M]
  PROVE  [r EXCEPT !.ts = t] \in [ts : T, pods : P, ctrs : C, map : M]
  OBVIOUS

\* A step that touches no counter, of a file or of the node, preserves it.
LEMMA SameCounters ==
  ASSUME CounterInv, Shape', UNCHANGED <<births, pod, ctr>>,
         \A g \in Files : file'[g].pods = file[g].pods /\ file'[g].ctrs = file[g].ctrs,
         step'[1] = "start" => file'["end"] = Empty
  PROVE  CounterInv'
  BY DEF CounterInv, Passed, Ordered, Files

\* node_snap's steps preserve it: what it reads is the counter of that moment.
LEMMA SnapStep ==
  ASSUME CounterInv, NEW f \in Files, Snap(f)
  PROVE  CounterInv'
<1> USE DEF CounterInv, Shape, Files
<1>1. CASE List(f)
  BY <1>1 DEF List, At, Goto, Over, node, Passed, Ordered, Empty
<1>2. CASE ReadTime(f)
  <2>1. /\ \A g \in Files : file'[g].pods = file[g].pods /\ file'[g].ctrs = file[g].ctrs
        /\ \A g \in Files \ {f} : file'[g] = file[g]
        /\ UNCHANGED <<births, pod, ctr>> /\ step[1] = f /\ step'[1] = f
    BY <1>2 DEF ReadTime, At, Goto, node
  <2>2. Shape'
    <3>1. /\ UNCHANGED <<births, pod, ctr, listed>> /\ step' = <<f, "pod">>
          /\ file' = [file EXCEPT ![f].ts = TRUE]
      BY <1>2 DEF ReadTime, Goto, node
    <3>2. file' \in [Files -> [ts : BOOLEAN, pods : SUBSET PodEntry, ctrs : SUBSET CtrEntry,
                               map : SUBSET [pod : Nat, id : Nat \X Name, name : Name]]]
      <4> DEFINE R == [ts : BOOLEAN, pods : SUBSET PodEntry, ctrs : SUBSET CtrEntry,
                       map : SUBSET [pod : Nat, id : Nat \X Name, name : Name]]
      <4>1. file \in [Files -> R]
        OBVIOUS
      <4>2. [file[f] EXCEPT !.ts = TRUE] \in R
        <5>1. TRUE \in BOOLEAN /\ file[f] \in R
          BY <4>1
        <5> QED
          BY <5>1, SetTime, Zenon
      <4> HIDE DEF R
      <4>3. file' \in [Files -> R]
        BY <3>1, <4>1, <4>2, Zenon
      <4> QED
        BY <4>3 DEF R
    <3> QED
      BY <3>1, <3>2
  <2> QED
    BY <2>1, <2>2, SameCounters DEF Ordered
<1>3. CASE ReadPod(f)
  <2> DEFINE x == [pod |-> pod.name, usage |-> pod.usage]
  <2>1. Shape'
    BY <1>3 DEF ReadPod, At, Goto, node, PodEntry
  <2>2. file'["start"].ctrs = file["start"].ctrs /\ file'["end"].ctrs = file["end"].ctrs
    BY <1>3 DEF ReadPod
  <2>3. \/ file' = file
        \/ file'[f].pods = {x} /\ \A g \in Files \ {f} : file'[g] = file[g]
    BY <1>3 DEF ReadPod
  <2>4. UNCHANGED <<births, pod, ctr>> /\ step[1] = f /\ step'[1] = f
    BY <1>3 DEF ReadPod, At, Goto, node
  <2>5. Passed("start")'
    BY <2>2, <2>3, <2>4 DEF Passed
  <2>6. CASE f = "start"
    <3>1. file'["end"] = Empty
      BY <2>3, <2>4, <2>6 DEF Ordered
    <3> QED
      BY <2>1, <2>5, <3>1 DEF Ordered, Empty
  <2>7. CASE f = "end"
    <3>1. file'["start"] = file["start"]
      BY <2>3, <2>7
    <3>2. ASSUME NEW z \in file'["end"].pods, NEW y \in file'["start"].pods, z.pod = y.pod
          PROVE  y.usage <= z.usage
      BY <2>3, <2>7, <3>1, <3>2 DEF Ordered, Passed
    <3> QED
      BY <2>1, <2>2, <2>4, <2>5, <2>7, <3>2 DEF Ordered
  <2> QED
    BY <2>6, <2>7
<1>4. ASSUME NEW s \in todo, ReadScope(f, s)
      PROVE  CounterInv'
  <2> DEFINE X == {[pod |-> p, id |-> s, usage |-> ctr[s[2]].usage] : p \in {q \in listed : s \in Scopes}}
  <2>1. s \in Scopes => s \in Nat \X Name /\ s[1] = ctr[s[2]].born
    BY DEF Scopes
  <2>2. ASSUME NEW x \in X
        PROVE  x \in CtrEntry /\ x.id = s /\ x.usage = ctr[s[2]].usage /\ s \in Scopes
    <3>1. PICK p \in listed : s \in Scopes /\ x = [pod |-> p, id |-> s, usage |-> ctr[s[2]].usage]
      OBVIOUS
    <3>2. p \in Nat /\ s \in Nat \X Name /\ ctr[s[2]].usage \in Nat
      BY <2>1, <3>1
    <3> QED
      BY <3>1, <3>2 DEF CtrEntry
  <2>3. /\ file'[f].ctrs = file[f].ctrs \cup X /\ file'[f].pods = file[f].pods
        /\ file'[f].ts = file[f].ts /\ file'[f].map = file[f].map
        /\ \A g \in Files \ {f} : file'[g] = file[g]
        /\ UNCHANGED <<births, pod, ctr, step, listed>> /\ step[1] = f
    BY <1>4 DEF ReadScope, At, node
  <2> HIDE DEF X
  <2>4. Shape'
    BY <1>4, <2>2, <2>3 DEF ReadScope
  <2>5. Passed("start")'
    BY <2>1, <2>2, <2>3 DEF Passed
  <2>6. CASE f = "start"
    <3>1. file'["end"] = Empty
      BY <2>3, <2>6 DEF Ordered
    <3> QED
      BY <2>4, <2>5, <3>1 DEF Ordered, Empty
  <2>7. CASE f = "end"
    <3>1. file'["start"] = file["start"] /\ step'[1] # "start"
      BY <2>3, <2>7
    <3>2. ASSUME NEW z \in file'["end"].ctrs, NEW y \in file'["start"].ctrs, z.id = y.id
          PROVE  y.usage <= z.usage
      <4>1. CASE z \in file["end"].ctrs
        BY <3>1, <3>2, <4>1 DEF Ordered
      <4>2. CASE z \in X
        BY <2>1, <2>2, <3>1, <3>2, <4>2 DEF Passed
      <4> QED
        BY <2>3, <2>7, <3>2, <4>1, <4>2
    <3> QED
      BY <2>3, <2>4, <2>5, <2>7, <3>1, <3>2 DEF Ordered
  <2> QED
    BY <2>6, <2>7
<1>5. CASE EndExec(f)
  BY <1>5 DEF EndExec, At, Goto, node, Passed, Ordered, Empty
<1>6. CASE ReadMap(f)
  <2> DEFINE M == {[pod |-> pod.name, id |-> <<ctr[n].born, n>>, name |-> n] :
                     n \in {m \in Name : pod.name \in listed}}
  <2>1. M \subseteq [pod : Nat, id : Nat \X Name, name : Name]
    OBVIOUS
  <2>2. file' = file \/ file' = [file EXCEPT ![f].map = M]
    BY <1>6 DEF ReadMap
  <2>3. /\ UNCHANGED <<births, pod, ctr, listed>> /\ step = <<f, "map">> /\ step' = <<f, "over">>
    BY <1>6 DEF ReadMap, At, Goto, Over, node
  <2> HIDE DEF M
  <2>4. /\ \A g \in Files : file'[g].pods = file[g].pods /\ file'[g].ctrs = file[g].ctrs
        /\ \A g \in Files \ {f} : file'[g] = file[g]
    BY <2>2
  <2>5. Shape'
    BY <2>1, <2>2, <2>3
  <2> QED
    BY <2>3, <2>4, <2>5, SameCounters DEF Ordered
<1> QED
  BY <1>1, <1>2, <1>3, <1>4, <1>5, <1>6 DEF Snap

\* The counters of the two files never run backwards.
LEMMA CounterInvariant == Spec => []CounterInv
<1>1. CounterInv /\ UNCHANGED vars => CounterInv'
  BY DEF CounterInv, Shape, Passed, Ordered, vars, Scopes
<1>2. CounterInv /\ [Next]_vars => CounterInv'
  BY <1>1, NodeStep, SnapStep DEF Next
<1> QED
  BY InitCounter, <1>2, PTL DEF Spec

-----------------------------------------------------------------------------
\* Whatever restarts, and whenever, node_delta.py never makes a negative figure of
\* a pod or a container (node_delta.py:76-79).
THEOREM NoCpuGivenBack == Spec => []NeverNegative
<1>1. CounterInv => NeverNegative
  <2> SUFFICES ASSUME CounterInv
               PROVE  NeverNegative
    OBVIOUS
  <2> USE DEF CounterInv, Shape, Files
  <2>1. ASSUME NEW x \in file["end"].pods, NEW c \in PodCores(x)
        PROVE  c >= 0
    <3>1. PICK y \in file["start"].pods : y.pod = x.pod /\ c = x.usage - y.usage
      BY <2>1 DEF PodCores, Cores
    <3> QED
      BY <3>1 DEF Ordered, PodEntry
  <2>2. ASSUME NEW x \in file["end"].ctrs, NEW c \in CtrCores(x)
        PROVE  c >= 0
    <3>1. PICK y \in file["start"].ctrs : y.id = x.id /\ c = x.usage - y.usage
      BY <2>2 DEF CtrCores, Cores
    <3> QED
      BY <3>1 DEF Ordered, CtrEntry
  <2> QED
    BY <2>1, <2>2 DEF NeverNegative
<1> QED
  BY <1>1, CounterInvariant, PTL

-----------------------------------------------------------------------------
(***************************************************************************)
(* Type correctness: the containers use up no more CPU than there is.      *)
(***************************************************************************)

\* The CPU that the containers have used is a sum over their names.
LEMMA UsedUpIsSum == ASSUME NEW m PROVE UsedUp(m) = SumOf(m, Name)
  BY Zenon DEF UsedUp, SumOf

\* A pod and a container never show more than their names have used, and that is
\* never more than there is.
Bounded ==
  /\ UsedUp(meter) <= MaxCpu /\ pod.usage <= UsedUp(meter)
  /\ \A n \in Name : ctr[n].usage <= meter[n]

\* It is a number, and no name's share is more.
LEMMA MeterIsKnown ==
  ASSUME NEW m \in [Name -> Nat]
  PROVE  UsedUp(m) \in Nat /\ \A n \in Name : m[n] <= UsedUp(m)
<1>1. IsFiniteSet(Name)
  BY NodeProbeAssumption
<1> QED
  BY <1>1, SumNat, SumHasEach, UsedUpIsSum

\* At first nothing is used.
LEMMA InitType == Init => TypeOK /\ Bounded
<1> SUFFICES ASSUME Init PROVE TypeOK /\ Bounded
  OBVIOUS
<1>1. MaxCpu \in Nat /\ MaxRestarts \in Nat /\ MaxFaults \in Nat
  BY NodeProbeAssumption
<1>2. TypeOK
  <2>1. 0 \in Births /\ 0 \in Cpu
    BY <1>1 DEF Births, Cpu
  <2>2. meter \in [Name -> Cpu] /\ births \in Births
    BY <2>1 DEF Init
  <2>3. marks \in [Files -> [begun : [births : Births, meter : [Name -> Cpu]],
                            over  : [births : Births, meter : [Name -> Cpu]]]]
    BY <2>2 DEF Init, Mark
  <2>4. \A f \in Files : file[f] = Empty
    BY DEF Init
  <2>5. /\ pod \in [name : Births, usage : Cpu] /\ ctr \in [Name -> [born : Births, usage : Cpu]]
        /\ step \in Files \X {"list", "time", "pod", "scopes", "map"}
        /\ listed \subseteq Births /\ todo \subseteq Births \X Name /\ faults \in 0..MaxFaults
    BY <1>1, <2>1 DEF Init, Files
  <2>6. ASSUME NEW f \in Files
        PROVE  /\ file[f].ts \in BOOLEAN /\ file[f].pods = {} /\ file[f].ctrs = {} /\ file[f].map = {}
    <3>1. file[f] = [ts |-> FALSE, pods |-> {}, ctrs |-> {}, map |-> {}]
      BY <2>4, <2>6 DEF Empty
    <3>2. Shape
      BY InitCounter DEF CounterInv
    <3>3. file[f].ts \in BOOLEAN
      BY <2>6, <3>2 DEF Shape
    <3> QED
      BY <3>1, <3>3
  <2> QED
    BY <2>2, <2>3, <2>5, <2>6 DEF TypeOK
<1>3. UsedUp(meter) = 0
  <2>1. \A n \in Name : meter[n] = 0
    BY DEF Init
  <2>2. UsedUp(meter) = SumOf(meter, Name) - SumOf(meter, Name)
    BY <2>1, NodeProbeAssumption, SumMinus, UsedUpIsSum
  <2>3. SumOf(meter, Name) \in Int
    BY <2>1, NodeProbeAssumption, SumType
  <2> QED
    BY <2>2, <2>3
<1> QED
  BY <1>1, <1>2, <1>3 DEF Init, Bounded

\* The CPU that is left is used one unit at a time.
LEMMA UseTypes ==
  ASSUME TypeOK, Bounded, NEW n \in Name, Use(n)
  PROVE  TypeOK' /\ Bounded'
<1>1. MaxCpu \in Nat /\ MaxRestarts \in Nat /\ MaxFaults \in Nat /\ IsFiniteSet(Name)
  BY NodeProbeAssumption
<1>2. meter \in [Name -> Int] /\ meter' = [meter EXCEPT ![n] = @ + 1] /\ meter' \in [Name -> Nat]
  BY <1>1 DEF TypeOK, Use, Cpu
<1>3. UsedUp(meter') = UsedUp(meter) + 1
  BY <1>1, <1>2, SumOneMore, UsedUpIsSum
<1>4. UsedUp(meter) \in Nat /\ UsedUp(meter) < MaxCpu
  BY <1>1, <1>2, MeterIsKnown DEF Use, TypeOK, Cpu
<1>5. \A m \in Name : meter'[m] <= MaxCpu
  <2>1. \A m \in Name : meter'[m] \in Nat /\ meter'[m] <= UsedUp(meter')
    BY <1>2, MeterIsKnown
  <2> QED
    BY <1>1, <1>3, <1>4, <2>1
<1>6. Bounded'
  <2>1. pod'.usage = pod.usage + 1 /\ pod.usage \in Nat
    BY <1>1 DEF Use, TypeOK, Cpu
  <2>2. \A m \in Name : ctr'[m].usage <= meter'[m]
    BY <1>1, <1>2 DEF Use, TypeOK, Bounded, Cpu
  <2> QED
    BY <1>1, <1>3, <1>4, <2>1, <2>2 DEF Bounded
<1>7. meter' \in [Name -> Cpu]
  BY <1>1, <1>2, <1>5 DEF Cpu
<1>8. pod' \in [name : Births, usage : Cpu] /\ ctr' \in [Name -> [born : Births, usage : Cpu]]
  <2>1. pod.usage + 1 \in Cpu /\ ctr[n].usage + 1 \in Cpu
    <3>1. pod.usage \in Nat /\ ctr[n].usage \in Nat /\ meter[n] \in Nat
      BY <1>1 DEF TypeOK, Cpu
    <3>2. pod.usage < MaxCpu /\ ctr[n].usage < MaxCpu
      BY <1>1, <1>2, <1>4, <3>1, MeterIsKnown DEF Bounded
    <3> QED
      BY <1>1, <3>1, <3>2 DEF Cpu
  <2> QED
    BY <2>1 DEF Use, TypeOK
<1> QED
  BY <1>6, <1>7, <1>8 DEF Use, TypeOK

\* A restart takes the next number and gives no CPU back.
LEMMA RestartTypes ==
  ASSUME TypeOK, Bounded, (\E n \in Name : Restart(n)) \/ Replace
  PROVE  TypeOK' /\ Bounded'
<1>1. MaxCpu \in Nat /\ MaxRestarts \in Nat /\ MaxFaults \in Nat
  BY NodeProbeAssumption
<1>2. UNCHANGED <<step, listed, todo, file, meter, marks, faults>> /\ births' \in Births /\ 0 \in Cpu
  BY <1>1 DEF Restart, Replace, TypeOK, Births, Cpu
<1>3. /\ pod' \in [name : Births, usage : Cpu] /\ ctr' \in [Name -> [born : Births, usage : Cpu]]
      /\ pod'.usage \in {0, pod.usage} /\ \A n \in Name : ctr'[n].usage \in {0, ctr[n].usage}
  <2>1. ASSUME NEW n \in Name, Restart(n)
        PROVE  /\ pod' = pod /\ ctr' \in [Name -> [born : Births, usage : Cpu]]
               /\ \A m \in Name : ctr'[m].usage \in {0, ctr[m].usage}
    <3>1. pod' = pod /\ births' = births + 1 /\ ctr' = [ctr EXCEPT ![n] = [born |-> births', usage |-> 0]]
      BY <2>1 DEF Restart
    <3>2. [born |-> births', usage |-> 0] \in [born : Births, usage : Cpu]
      BY <1>2
    <3>3. ctr \in [Name -> [born : Births, usage : Cpu]]
      BY DEF TypeOK
    <3>4. \A m \in Name : ctr'[m] = IF m = n THEN [born |-> births', usage |-> 0] ELSE ctr[m]
      BY <3>1, <3>3
    <3> QED
      BY <3>1, <3>2, <3>3, <3>4
  <2>2. ASSUME Replace
        PROVE  /\ pod' = [name |-> births', usage |-> 0] /\ ctr' \in [Name -> [born : Births, usage : Cpu]]
               /\ \A m \in Name : ctr'[m].usage = 0
    BY <1>2, <2>2 DEF Replace
  <2>3. pod \in [name : Births, usage : Cpu]
    BY DEF TypeOK
  <2> QED
    BY <1>2, <2>1, <2>2, <2>3
<1>4. meter \in [Name -> Nat]
  BY <1>1 DEF TypeOK, Cpu
<1>5. UsedUp(meter) \in Nat
  BY <1>4, MeterIsKnown
<1>6. Bounded'
  BY <1>2, <1>3, <1>4, <1>5 DEF Bounded
<1> QED
  BY <1>2, <1>3, <1>6 DEF TypeOK

\* node_snap writes down what the node shows.
LEMMA SnapTypes ==
  ASSUME TypeOK, Bounded, Shape, Shape', NEW f \in Files, Snap(f)
  PROVE  TypeOK' /\ Bounded'
<1>1. MaxCpu \in Nat /\ MaxRestarts \in Nat /\ MaxFaults \in Nat
  BY NodeProbeAssumption
<1>2. UNCHANGED node
  BY DEF Snap, List, ReadTime, ReadPod, ReadScope, EndExec, ReadMap
<1>3. Bounded'
  BY <1>2 DEF Bounded, node
<1>4. faults' \in 0..MaxFaults
  BY <1>1 DEF Snap, List, ReadTime, ReadPod, ReadScope, EndExec, ReadMap, Fail, TypeOK
<1>5. step' \in Files \X {"list", "time", "pod", "scopes", "map", "over"}
  BY DEF Snap, List, ReadTime, ReadPod, ReadScope, EndExec, ReadMap, Goto, Over, TypeOK, Files
<1>6. listed' \subseteq Births
  BY DEF Snap, List, ReadTime, ReadPod, ReadScope, EndExec, ReadMap, TypeOK
<1>7. todo' \subseteq Births \X Name
  BY DEF Snap, List, ReadTime, ReadPod, ReadScope, EndExec, ReadMap, TypeOK, Scopes
<1>8. marks' \in [Files -> [begun : [births : Births, meter : [Name -> Cpu]],
                            over  : [births : Births, meter : [Name -> Cpu]]]]
  <2>1. Mark \in [births : Births, meter : [Name -> Cpu]]
    BY DEF Mark, TypeOK
  <2>2. \/ marks' = marks
        \/ marks' = [marks EXCEPT ![f].begun = Mark]
        \/ marks' = [marks EXCEPT ![f].over = Mark]
        \/ marks' = [marks EXCEPT ![f] = [begun |-> Mark, over |-> Mark]]
    BY DEF Snap, List, ReadTime, ReadPod, ReadScope, EndExec, ReadMap, Over
  <2>3. marks \in [Files -> [begun : [births : Births, meter : [Name -> Cpu]],
                            over  : [births : Births, meter : [Name -> Cpu]]]]
    BY DEF TypeOK
  <2> DEFINE B == [births : Births, meter : [Name -> Cpu]]
  <2>4. /\ [marks[f] EXCEPT !.begun = Mark] \in [begun : B, over : B]
        /\ [marks[f] EXCEPT !.over = Mark] \in [begun : B, over : B]
        /\ [begun |-> Mark, over |-> Mark] \in [begun : B, over : B]
    BY <2>1, <2>3
  <2> HIDE DEF Mark, B
  <2>5. marks \in [Files -> [begun : B, over : B]]
    BY <2>3 DEF B
  <2>6. marks' \in [Files -> [begun : B, over : B]]
    BY <2>2, <2>4, <2>5
  <2> QED
    BY <2>6 DEF B
<1>9. ASSUME NEW g \in Files
      PROVE  /\ file'[g].ts \in BOOLEAN
             /\ file'[g].pods \subseteq [pod : Births, usage : Cpu]
             /\ file'[g].ctrs \subseteq [pod : Births, id : Births \X Name, usage : Cpu]
             /\ file'[g].map \subseteq [pod : Births, id : Births \X Name, name : Name]
  <2>1. file \in [Files -> [ts : BOOLEAN, pods : SUBSET PodEntry, ctrs : SUBSET CtrEntry,
                           map : SUBSET [pod : Nat, id : Nat \X Name, name : Name]]]
    BY DEF Shape
  <2>2. g # f => file'[g] = file[g]
    BY <2>1 DEF Snap, List, ReadTime, ReadPod, ReadScope, EndExec, ReadMap
  <2>3. CASE g # f
    BY <2>2, <2>3 DEF TypeOK
  <2>4. CASE g = f
    <3>1. file'[f].ts \in BOOLEAN
      BY DEF Shape
    <3>2. file'[f].pods \subseteq [pod : Births, usage : Cpu]
      <4>1. file'[f].pods \in {file[f].pods, {[pod |-> pod.name, usage |-> pod.usage]}}
        BY <2>1 DEF Snap, List, ReadTime, ReadPod, ReadScope, EndExec, ReadMap
      <4> QED
        BY <4>1 DEF TypeOK
    <3>3. file'[f].ctrs \subseteq [pod : Births, id : Births \X Name, usage : Cpu]
      <4>1. ASSUME NEW x \in file'[f].ctrs, x \notin file[f].ctrs
            PROVE  \E s \in todo : \E p \in listed :
                     s \in Scopes /\ x = [pod |-> p, id |-> s, usage |-> ctr[s[2]].usage]
        <5>1. \E s \in todo : ReadScope(f, s)
          BY <2>1, <4>1 DEF Snap, List, ReadTime, ReadPod, EndExec, ReadMap
        <5>2. PICK s \in todo : ReadScope(f, s)
          BY <5>1
        <5> QED
          BY <2>1, <4>1, <5>2 DEF ReadScope
      <4>2. \A s \in todo : s \in Births \X Name /\ ctr[s[2]].usage \in Cpu
        BY DEF TypeOK
      <4> QED
        BY <4>1, <4>2 DEF TypeOK
    <3>4. file'[f].map \subseteq [pod : Births, id : Births \X Name, name : Name]
      <4> DEFINE M == {[pod |-> pod.name, id |-> <<ctr[n].born, n>>, name |-> n] :
                         n \in {m \in Name : pod.name \in listed}}
      <4>1. file'[f].map \in {file[f].map, M}
        BY <2>1 DEF Snap, List, ReadTime, ReadPod, ReadScope, EndExec, ReadMap
      <4>2. M \subseteq [pod : Births, id : Births \X Name, name : Name]
        BY DEF TypeOK
      <4> QED
        BY <4>1, <4>2 DEF TypeOK
    <3> QED
      BY <2>4, <3>1, <3>2, <3>3, <3>4
  <2> QED
    BY <2>3, <2>4
<1>10. UNCHANGED <<births, pod, ctr, meter>>
  BY <1>2 DEF node
<1> QED
  BY <1>3, <1>4, <1>5, <1>6, <1>7, <1>8, <1>9, <1>10 DEF TypeOK, Files

\* The type needs the bound on the CPU, which needs the sum.
LEMMA TypeInvariant == Spec => [](CounterInv /\ TypeOK /\ Bounded)
<1>1. CounterInv => Shape
  BY DEF CounterInv
<1>2. TypeOK /\ Bounded /\ UNCHANGED vars => TypeOK' /\ Bounded'
  BY DEF TypeOK, Bounded, vars
<1>3. CounterInv /\ CounterInv' /\ TypeOK /\ Bounded /\ [Next]_vars => TypeOK' /\ Bounded'
  <2> SUFFICES ASSUME Shape, Shape', TypeOK, Bounded, [Next]_vars PROVE TypeOK' /\ Bounded'
    BY <1>1 DEF CounterInv
  <2>1. CASE Node
    BY <2>1, UseTypes, RestartTypes DEF Node
  <2>2. ASSUME NEW f \in Files, Snap(f) PROVE TypeOK' /\ Bounded'
    BY <2>2, SnapTypes
  <2> QED
    BY <1>2, <2>1, <2>2 DEF Next
<1> QED
  BY <1>3, InitType, CounterInvariant, PTL DEF Spec

\* TypeOK holds of every behaviour of the probe: a file never holds more CPU than
\* the node has to give, whatever restarts (run.sh:322, node_snap).
THEOREM TypeCorrect == Spec => []TypeOK
  BY TypeInvariant, PTL

-----------------------------------------------------------------------------
(***************************************************************************)
(* Each counter is read while its file is written.                         *)
(***************************************************************************)

\* A scope is read once into a file, from the one pod that was listed, and the map
\* of the second file has one scope of each name.
ReadOnce ==
  /\ step # <<"end", "list">>
  /\ step = <<"start", "list">> => file["start"] = Empty
  /\ \A p, q \in listed : p = q
  /\ \A f \in Files : \A x, z \in file[f].ctrs : x.id = z.id => x = z
  /\ step[2] \in {"list", "time", "pod"} => file[step[1]].ctrs = {}
  /\ step[2] # "scopes" => todo = {}
  /\ \A x \in file[step[1]].ctrs : x.id \notin todo
  /\ \A m \in file["end"].map : m.id[2] = m.name
  /\ \A l, m \in file["end"].map : l.name = m.name => l = m

\* At first nothing has been read.
LEMMA InitReadOnce == Init => ReadOnce
  BY DEF Init, ReadOnce, Files, Empty

\* node_snap takes each scope off its list as it reads it.
LEMMA ReadOnceStep ==
  ASSUME CounterInv, ReadOnce, [Next]_vars
  PROVE  ReadOnce'
<1> USE DEF ReadOnce, Files
<1>0. /\ step \in Files \X {"list", "time", "pod", "scopes", "map", "over"}
      /\ file \in [Files -> [ts : BOOLEAN, pods : SUBSET PodEntry, ctrs : SUBSET CtrEntry,
                             map : SUBSET [pod : Nat, id : Nat \X Name, name : Name]]]
      /\ step[1] = "start" => file["end"] = Empty
  BY DEF CounterInv, Shape, Ordered
<1>1. CASE Node \/ UNCHANGED vars
  <2>1. UNCHANGED <<step, listed, todo, file>>
    BY <1>1 DEF Node, Use, Restart, Replace, vars
  <2> QED
    BY <2>1
<1>2. ASSUME NEW f \in Files, List(f) PROVE ReadOnce'
  <2>1. file' = file /\ todo' = todo /\ step' \in {<<f, "time">>, <<f, "over">>} /\ listed' \subseteq {pod.name}
    BY <1>2 DEF List, Goto, Over
  <2>2. file[f].ctrs = {} /\ todo = {}
    <3>1. step = <<f, "list">> \/ (f = "end" /\ step = <<"start", "over">>)
      BY <1>2 DEF List, At
    <3>2. file[f] = Empty /\ todo = {}
      BY <1>0, <3>1
    <3> QED
      BY <3>2 DEF Empty
  <2>3. step'[1] = f
    BY <2>1
  <2> QED
    BY <1>0, <2>1, <2>2, <2>3
<1>3. ASSUME NEW f \in Files, ReadTime(f) PROVE ReadOnce'
  <2>1. /\ todo' = todo /\ listed' = listed /\ step' = <<f, "pod">> /\ step = <<f, "time">>
        /\ file' = [file EXCEPT ![f].ts = TRUE]
    BY <1>3 DEF ReadTime, Goto, At
  <2>2. \A g \in Files : file'[g].ctrs = file[g].ctrs /\ file'[g].map = file[g].map
    BY <1>0, <2>1
  <2> QED
    BY <2>1, <2>2
<1>4. ASSUME NEW f \in Files, ReadPod(f) PROVE ReadOnce'
  <2>1. listed' = listed /\ step' = <<f, "scopes">> /\ step = <<f, "pod">>
    BY <1>4 DEF ReadPod, Goto, At
  <2>2. \A g \in Files : file'[g].ctrs = file[g].ctrs /\ file'[g].map = file[g].map
    BY <1>0, <1>4 DEF ReadPod
  <2> QED
    BY <2>1, <2>2
<1>5. ASSUME NEW f \in Files, NEW s \in todo, ReadScope(f, s) PROVE ReadOnce'
  <2>1. listed' = listed /\ step' = step /\ step = <<f, "scopes">> /\ todo' = todo \ {s}
    BY <1>5 DEF ReadScope, At
  <2>2. /\ \A g \in Files : file'[g].map = file[g].map
        /\ \A g \in Files \ {f} : file'[g] = file[g]
    BY <1>0, <1>5 DEF ReadScope
  <2>3. ASSUME NEW x \in file'[f].ctrs
        PROVE  \/ x \in file[f].ctrs
               \/ \E p \in listed : x = [pod |-> p, id |-> s, usage |-> ctr[s[2]].usage]
    BY <1>0, <1>5, <2>3 DEF ReadScope
  <2>4. \A x, z \in file'[f].ctrs : x.id = z.id => x = z
    BY <2>1, <2>3
  <2> QED
    BY <2>1, <2>2, <2>3, <2>4
<1>6. ASSUME NEW f \in Files, EndExec(f) PROVE ReadOnce'
  <2>1. listed' = listed /\ step' = <<f, "map">> /\ todo' = {} /\ file' = file
    BY <1>6 DEF EndExec, Goto
  <2> QED
    BY <2>1
<1>7. ASSUME NEW f \in Files, ReadMap(f) PROVE ReadOnce'
  <2> DEFINE M == {[pod |-> pod.name, id |-> <<ctr[n].born, n>>, name |-> n] :
                     n \in {m \in Name : pod.name \in listed}}
  <2>1. listed' = listed /\ step' = <<f, "over">> /\ step = <<f, "map">> /\ todo' = todo
    BY <1>7 DEF ReadMap, Goto, Over, At
  <2>2. /\ \A g \in Files : file'[g].ctrs = file[g].ctrs
        /\ file'["end"].map \in {file["end"].map, M}
    BY <1>0, <1>7 DEF ReadMap
  <2>3. (\A m \in M : m.id[2] = m.name) /\ (\A l, m \in M : l.name = m.name => l = m)
    OBVIOUS
  <2> HIDE DEF M
  <2> QED
    BY <2>1, <2>2, <2>3
<1> QED
  BY <1>1, <1>2, <1>3, <1>4, <1>5, <1>6, <1>7 DEF Next, Snap

-----------------------------------------------------------------------------
\* What the containers of a name had used when the entry y was written, told from
\* what its scope has used since.
Lives(y) == y.id[1] = ctr[y.id[2]].born
UsedAt(y) == meter[y.id[2]] - (ctr[y.id[2]].usage - y.usage)
FirstOver == step[1] = "end" \/ step = <<"start", "over">>

\* Every counter was read while its file was being written.
ReadBetween ==
  /\ \A f \in Files : \A n \in Name : marks[f].begun.meter[n] <= meter[n]
  /\ \A y \in file["start"].ctrs : Lives(y) =>
       /\ marks["start"].begun.meter[y.id[2]] <= UsedAt(y)
       /\ FirstOver => UsedAt(y) <= marks["start"].over.meter[y.id[2]]
  /\ \A x \in file["end"].ctrs, y \in file["start"].ctrs : x.id = y.id =>
       /\ x.usage - y.usage <= meter[x.id[2]] - marks["start"].begun.meter[x.id[2]]
       /\ x.usage - y.usage >= marks["end"].begun.meter[x.id[2]] - marks["start"].over.meter[x.id[2]]
  /\ step = <<"end", "over">> => marks["end"].over.meter = meter

\* The part of the type that the argument needs.
Typed ==
  /\ meter \in [Name -> Nat]
  /\ marks \in [Files -> [begun : [births : Nat, meter : [Name -> Nat]],
                          over  : [births : Nat, meter : [Name -> Nat]]]]

\* The type, without its bounds.
LEMMA TypedIs == TypeOK => Typed
<1> SUFFICES ASSUME TypeOK PROVE Typed
  OBVIOUS
<1>1. Cpu \subseteq Nat /\ Births \subseteq Nat
  BY NodeProbeAssumption DEF Cpu, Births
<1>2. meter \in [Name -> Nat]
  BY <1>1 DEF TypeOK
<1> DEFINE B == [births : Births, meter : [Name -> Cpu]]
           N == [births : Nat, meter : [Name -> Nat]]
<1>3. B \subseteq N
  BY <1>1
<1>4. marks \in [Files -> [begun : B, over : B]]
  BY DEF TypeOK
<1> HIDE DEF B, N
<1>5. marks \in [Files -> [begun : N, over : N]]
  BY <1>3, <1>4
<1> QED
  BY <1>2, <1>5 DEF Typed, N

\* At first nothing has been read.
LEMMA InitBetween == Init => ReadBetween
  BY DEF Init, ReadBetween, Files, Empty, Mark

\* What is read of a container comes out of the scope of its name.
LEMMA EntryNames ==
  ASSUME CounterInv, NEW f \in Files, NEW y \in file[f].ctrs
  PROVE  y.id[2] \in Name /\ y.id[1] \in Nat /\ y.usage \in Nat /\ y.pod \in Nat /\ y.id \in Nat \X Name
  BY DEF CounterInv, Shape, CtrEntry, Files

\* The node's steps preserve it: a scope's counter and its name's meter grow together.
LEMMA BetweenNode ==
  ASSUME CounterInv, Typed, Typed', ReadBetween, Node
  PROVE  ReadBetween'
<1>1. UNCHANGED <<step, file, marks>> /\ Measuring
  BY DEF Node, Use, Restart, Replace
<1>2. /\ \A n \in Name : meter[n] \in Nat /\ meter'[n] \in Nat /\ meter[n] <= meter'[n]
      /\ \A n \in Name : /\ marks["start"].begun.meter[n] \in Nat /\ marks["start"].over.meter[n] \in Nat
                         /\ marks["end"].begun.meter[n] \in Nat
  BY DEF Node, Use, Restart, Replace, Typed, Files
<1>3. \A n \in Name : ctr[n].usage \in Nat /\ ctr[n].born \in Nat /\ ctr[n].born <= births
  BY DEF CounterInv, Shape
<1>4. ASSUME NEW y \in file["start"].ctrs, Lives(y)'
      PROVE  Lives(y) /\ UsedAt(y)' = UsedAt(y)
  <2>1. y.id[2] \in Name /\ y.id[1] \in Nat /\ y.usage \in Nat /\ y.id[1] <= births /\ births \in Nat
    BY EntryNames DEF Files, CounterInv, Passed, Shape
  <2>2. CASE \E n \in Name : Use(n)
    <3>1. PICK n \in Name : Use(n)
      BY <2>2
    <3>2. /\ \A m \in Name : meter'[m] = IF m = n THEN meter[m] + 1 ELSE meter[m]
          /\ \A m \in Name : /\ ctr'[m].born = ctr[m].born
                             /\ ctr'[m].usage = IF m = n THEN ctr[m].usage + 1 ELSE ctr[m].usage
      BY <3>1 DEF Use, CounterInv, Shape, Typed
    <3> QED
      BY <1>2, <1>3, <1>4, <2>1, <3>2 DEF Lives, UsedAt
  <2>3. CASE (\E n \in Name : Restart(n)) \/ Replace
    <3>1. meter' = meter /\ \A n \in Name : ctr'[n] = ctr[n] \/ ctr'[n].born = births + 1
      BY <2>3 DEF Restart, Replace, CounterInv, Shape
    <3> QED
      BY <1>3, <1>4, <2>1, <3>1 DEF Lives, UsedAt
  <2> QED
    BY <2>2, <2>3 DEF Node
<1>5. \A x \in file["end"].ctrs : x.id[2] \in Name /\ x.usage \in Nat
  BY EntryNames DEF Files
<1>6. \A y \in file["start"].ctrs : y.id[2] \in Name /\ y.usage \in Nat
  BY EntryNames DEF Files
<1>7. FirstOver' = FirstOver
  BY <1>1 DEF FirstOver
<1>8. \A y \in file["start"].ctrs : Lives(y)' =>
        /\ marks["start"].begun.meter[y.id[2]] <= UsedAt(y)'
        /\ FirstOver => UsedAt(y)' <= marks["start"].over.meter[y.id[2]]
  BY <1>4 DEF ReadBetween
<1>9. \A x \in file["end"].ctrs, y \in file["start"].ctrs : x.id = y.id =>
        /\ x.usage - y.usage <= meter'[x.id[2]] - marks["start"].begun.meter[x.id[2]]
        /\ x.usage - y.usage >= marks["end"].begun.meter[x.id[2]] - marks["start"].over.meter[x.id[2]]
  BY <1>2, <1>5, <1>6 DEF ReadBetween
<1>10. \A f \in Files : \A n \in Name : marks[f].begun.meter[n] <= meter'[n]
  BY <1>2 DEF ReadBetween, Files
<1> QED
  BY <1>1, <1>7, <1>8, <1>9, <1>10 DEF ReadBetween, Measuring

\* node_snap's steps preserve it: what it reads now was used up to now.
LEMMA BetweenSnap ==
  ASSUME CounterInv, Typed, Typed', ReadOnce, ReadOnce', ReadBetween, NEW f \in Files, Snap(f)
  PROVE  ReadBetween'
<1>0. /\ UNCHANGED <<births, pod, ctr, meter>>
      /\ step \in Files \X {"list", "time", "pod", "scopes", "map", "over"}
      /\ file \in [Files -> [ts : BOOLEAN, pods : SUBSET PodEntry, ctrs : SUBSET CtrEntry,
                             map : SUBSET [pod : Nat, id : Nat \X Name, name : Name]]]
      /\ step[1] = "start" => file["end"] = Empty
      /\ f \in {"start", "end"}
  BY DEF Snap, List, ReadTime, ReadPod, ReadScope, EndExec, ReadMap, node, CounterInv, Shape, Ordered, Files
<1>1. /\ \A n \in Name : meter[n] \in Nat
      /\ \A g \in Files : \A n \in Name : marks[g].begun.meter[n] \in Nat /\ marks[g].over.meter[n] \in Nat
      /\ \A n \in Name : ctr[n].usage \in Nat /\ ctr[n].born \in Nat
  BY DEF Typed, CounterInv, Shape
<1>2. /\ \A x \in file["end"].ctrs : x.id[2] \in Name /\ x.usage \in Nat
      /\ \A y \in file["start"].ctrs : y.id[2] \in Name /\ y.usage \in Nat
  BY EntryNames DEF Files
<1>3. \A y : UsedAt(y)' = UsedAt(y) /\ Lives(y)' = Lives(y)
  BY <1>0 DEF UsedAt, Lives
<1>4. CASE List(f)
  <2>1. /\ file' = file /\ step' \in {<<f, "time">>, <<f, "over">>}
        /\ \A g \in Files \ {f} : marks'[g] = marks[g]
        /\ marks'[f].begun = Mark
        /\ step'[2] = "over" => marks'[f].over = Mark
        /\ step'[2] = "time" => marks'[f].over = marks[f].over
    BY <1>4 DEF List, Goto, Over, Typed
  <2>2. \/ step = <<"start", "list">> /\ f = "start"
        \/ step = <<"start", "over">> /\ f = "end"
    <3>1. step = <<f, "list">> \/ (f = "end" /\ step = <<"start", "over">>)
      BY <1>4 DEF List, At
    <3>2. step # <<"end", "list">>
      BY DEF ReadOnce
    <3> QED
      BY <1>0, <3>1, <3>2
  <2>3. file["end"].ctrs = {} /\ (f = "start" => file["start"].ctrs = {})
    BY <1>0, <2>2 DEF ReadOnce, Empty
  <2>4. \A g \in Files : \A n \in Name : marks'[g].begun.meter[n] <= meter'[n]
    BY <1>0, <1>1, <2>1 DEF Mark, ReadBetween
  <2>5. f = "end" => FirstOver /\ marks'["start"] = marks["start"]
    BY <2>1, <2>2 DEF FirstOver, Files
  <2>6. step' = <<"end", "over">> => marks'["end"].over.meter = meter'
    BY <1>0, <2>1 DEF Mark, Files
  <2> QED
    BY <1>0, <1>3, <2>1, <2>3, <2>4, <2>5, <2>6 DEF ReadBetween
<1>5. CASE ReadTime(f) \/ ReadPod(f) \/ EndExec(f)
  <2>1. /\ marks' = marks /\ step[1] = f /\ step'[1] = f /\ step'[2] # "over" /\ step[2] # "over"
        /\ \A g \in Files : file'[g].ctrs = file[g].ctrs
    BY <1>0, <1>5 DEF ReadTime, ReadPod, EndExec, At, Goto
  <2>2. FirstOver' = FirstOver
    BY <2>1 DEF FirstOver
  <2> QED
    BY <1>0, <1>3, <2>1, <2>2 DEF ReadBetween, Files
<1>6. ASSUME NEW s \in todo, ReadScope(f, s) PROVE ReadBetween'
  <2>1. /\ marks' = marks /\ step' = step /\ step = <<f, "scopes">>
        /\ \A g \in Files \ {f} : file'[g].ctrs = file[g].ctrs
    BY <1>0, <1>6 DEF ReadScope, At
  <2>2. ASSUME NEW x \in file'[f].ctrs, x \notin file[f].ctrs
        PROVE  Lives(x) /\ x.id[2] \in Name /\ x.usage = ctr[x.id[2]].usage /\ UsedAt(x) = meter[x.id[2]]
    <3>1. PICK p \in listed : s \in Scopes /\ x = [pod |-> p, id |-> s, usage |-> ctr[s[2]].usage]
      BY <1>0, <1>6, <2>2 DEF ReadScope
    <3>2. PICK n \in Name : s = <<ctr[n].born, n>>
      BY <3>1 DEF Scopes
    <3> QED
      BY <1>1, <3>1, <3>2 DEF Lives, UsedAt
  <2>3. CASE f = "start"
    <3>1. ~FirstOver /\ ~FirstOver' /\ file'["end"].ctrs = {} /\ step' # <<"end", "over">>
      BY <1>0, <2>1, <2>3 DEF FirstOver, Empty, Files
    <3>2. ASSUME NEW y \in file'["start"].ctrs, Lives(y)
          PROVE  marks["start"].begun.meter[y.id[2]] <= UsedAt(y)
      <4>1. CASE y \in file["start"].ctrs
        BY <3>2, <4>1 DEF ReadBetween
      <4>2. CASE y \notin file["start"].ctrs
        BY <2>2, <2>3, <4>2 DEF ReadBetween
      <4> QED
        BY <4>1, <4>2
    <3> QED
      BY <1>0, <1>3, <2>1, <3>1, <3>2 DEF ReadBetween
  <2>4. CASE f = "end"
    <3>1. FirstOver /\ FirstOver' /\ file'["start"].ctrs = file["start"].ctrs /\ step' # <<"end", "over">>
      BY <2>1, <2>4 DEF FirstOver, Files
    <3>2. ASSUME NEW x \in file'["end"].ctrs, NEW y \in file["start"].ctrs, x.id = y.id
          PROVE  /\ x.usage - y.usage <= meter[x.id[2]] - marks["start"].begun.meter[x.id[2]]
                 /\ x.usage - y.usage >= marks["end"].begun.meter[x.id[2]] - marks["start"].over.meter[x.id[2]]
      <4>1. CASE x \in file["end"].ctrs
        BY <3>2, <4>1 DEF ReadBetween
      <4>2. CASE x \notin file["end"].ctrs
        <5>1. Lives(y) /\ x.usage = ctr[x.id[2]].usage /\ y.id[2] = x.id[2] /\ x.id[2] \in Name
          BY <2>2, <2>4, <3>2, <4>2 DEF Lives
        <5>2. /\ marks["start"].begun.meter[y.id[2]] <= UsedAt(y)
              /\ UsedAt(y) <= marks["start"].over.meter[y.id[2]]
              /\ marks["end"].begun.meter[y.id[2]] <= meter[y.id[2]]
          BY <3>1, <5>1 DEF ReadBetween, Files
        <5>3. UsedAt(y) = meter[y.id[2]] - (x.usage - y.usage) /\ x.usage \in Nat /\ y.usage \in Nat
          BY <1>1, <1>2, <5>1 DEF UsedAt
        <5> QED
          BY <1>1, <5>1, <5>2, <5>3 DEF Files
      <4> QED
        BY <4>1, <4>2
    <3> QED
      BY <1>0, <1>3, <2>1, <3>1, <3>2 DEF ReadBetween
  <2> QED
    BY <1>0, <2>3, <2>4
<1>7. CASE ReadMap(f)
  <2>1. /\ step = <<f, "map">> /\ step' = <<f, "over">>
        /\ \A g \in Files : file'[g].ctrs = file[g].ctrs
        /\ \A g \in Files \ {f} : marks'[g] = marks[g]
        /\ marks'[f].begun = marks[f].begun /\ marks'[f].over = Mark
    <3>1. step = <<f, "map">> /\ step' = <<f, "over">> /\ marks' = [marks EXCEPT ![f].over = Mark]
      BY <1>7 DEF ReadMap, At, Goto, Over
    <3>2. \A g \in Files : file'[g].ctrs = file[g].ctrs
      BY <1>0, <1>7 DEF ReadMap
    <3>3. /\ \A g \in Files \ {f} : marks'[g] = marks[g]
          /\ marks'[f] = [marks[f] EXCEPT !.over = Mark]
          /\ marks[f] \in [begun : [births : Nat, meter : [Name -> Nat]],
                           over  : [births : Nat, meter : [Name -> Nat]]]
      BY <3>1 DEF Typed
    <3>4. marks'[f].begun = marks[f].begun /\ marks'[f].over = Mark
      BY <3>3
    <3> QED
      BY <3>1, <3>2, <3>3, <3>4
  <2>2. CASE f = "start"
    <3>1. file["end"].ctrs = {} /\ step' # <<"end", "over">>
      BY <1>0, <2>1, <2>2 DEF Empty
    <3>2. \A y \in file["start"].ctrs : Lives(y) => UsedAt(y) <= meter[y.id[2]]
      <4>1. \A y \in file["start"].ctrs : Lives(y) => y.usage <= ctr[y.id[2]].usage
        BY DEF CounterInv, Passed, Lives
      <4> QED
        BY <1>1, <1>2, <4>1 DEF UsedAt
    <3>3. marks'["start"].over.meter = meter /\ \A g \in Files : marks'[g].begun = marks[g].begun
      <4>1. Mark.meter = meter
        BY DEF Mark
      <4>2. marks'["start"].over = Mark /\ marks'["start"].begun = marks["start"].begun
        BY <2>1, <2>2
      <4>3. marks'["end"] = marks["end"]
        BY <2>1, <2>2 DEF Files
      <4> QED
        BY <4>1, <4>2, <4>3 DEF Files
    <3> QED
      BY <1>0, <1>3, <2>1, <3>1, <3>2, <3>3 DEF ReadBetween, Files
  <2>3. CASE f = "end"
    <3>1. FirstOver /\ FirstOver' /\ marks'["end"].over.meter = meter'
      BY <1>0, <2>1, <2>3 DEF FirstOver, Mark
    <3>2. marks'["start"] = marks["start"] /\ \A g \in Files : marks'[g].begun = marks[g].begun
      BY <2>1, <2>3 DEF Files
    <3> QED
      BY <1>0, <1>3, <2>1, <3>1, <3>2 DEF ReadBetween, Files
  <2> QED
    BY <1>0, <2>2, <2>3
<1> QED
  BY <1>4, <1>5, <1>6, <1>7 DEF Snap

\* Every counter in the files was read in between their marks.
LEMMA BetweenInvariant == Spec => [](CounterInv /\ Typed /\ ReadOnce /\ ReadBetween)
<1>1. CounterInv /\ Typed /\ Typed' /\ ReadOnce /\ ReadOnce' /\ ReadBetween /\ [Next]_vars
      => ReadBetween'
  <2> SUFFICES ASSUME CounterInv, Typed, Typed', ReadOnce, ReadOnce', ReadBetween, [Next]_vars
               PROVE  ReadBetween'
    OBVIOUS
  <2>1. CASE Node
    BY <2>1, BetweenNode
  <2>2. ASSUME NEW f \in Files, Snap(f) PROVE ReadBetween'
    BY <2>2, BetweenSnap
  <2>3. CASE UNCHANGED vars
    BY <2>3 DEF vars, ReadBetween, Lives, UsedAt, FirstOver
  <2> QED
    BY <2>1, <2>2, <2>3 DEF Next
<1> QED
  BY <1>1, InitReadOnce, ReadOnceStep, InitBetween, TypeInvariant, TypedIs, PTL DEF Spec

-----------------------------------------------------------------------------
(***************************************************************************)
(* What node_delta.py makes of the files.                                  *)
(***************************************************************************)

\* node_delta.py's sums, as sums of a function.
ItselfIn(S) == [c \in S |-> c]
Figure(x) == MapThenSumSet(LAMBDA c : c, CtrCores(x))
FigureIn(X) == [x \in X |-> Figure(x)]

\* A container's figure is the sum of the figures it may have.
LEMMA FigureIsSum == ASSUME NEW x PROVE Figure(x) = SumOf(ItselfIn(CtrCores(x)), CtrCores(x))
<1> DEFINE S == CtrCores(x)
           m == ItselfIn(S)
           Own(g) == g = [s \in SUBSET S |-> IF s = {} THEN 0 ELSE Pick(s) + g[s \ {Pick(s)}]]
<1>1. Figure(x) = (CHOOSE g : Own(g))[S]
  BY Zenon DEF Figure, MapThenSumSet, MapThenFoldSet, Pick
<1>2. \A s \in SUBSET S : s # {} => m[Pick(s)] = Pick(s)
  BY PickIsIn DEF ItselfIn
<1> HIDE DEF S, m
<1>3. ASSUME NEW g PROVE Own(g) <=> Iterates(m, S, g)
  <2>1. [s \in SUBSET S |-> IF s = {} THEN 0 ELSE Pick(s) + g[s \ {Pick(s)}]]
       = [s \in SUBSET S |-> IF s = {} THEN 0 ELSE m[Pick(s)] + g[s \ {Pick(s)}]]
    BY <1>2
  <2> QED
    BY <2>1, Zenon DEF Iterates
<1> HIDE DEF Own
<1>4. (CHOOSE g : Own(g)) = Iterate(m, S)
  BY <1>3, Zenon DEF Iterate
<1> QED
  BY <1>1, <1>4, SumIterates DEF S, m

\* node_delta.py adds up the containers' figures.
LEMMA SumIsSum == ASSUME NEW X PROVE Sum(X) = SumOf(FigureIn(X), X)
<1> DEFINE m == FigureIn(X)
           Own(g) == g = [s \in SUBSET X |-> IF s = {} THEN 0 ELSE Figure(Pick(s)) + g[s \ {Pick(s)}]]
<1>1. Sum(X) = (CHOOSE g : Own(g))[X]
  BY Zenon DEF Sum, Figure, MapThenSumSet, MapThenFoldSet, Pick
<1>2. \A s \in SUBSET X : s # {} => m[Pick(s)] = Figure(Pick(s))
  BY PickIsIn DEF FigureIn
<1> HIDE DEF m
<1>3. ASSUME NEW g PROVE Own(g) <=> Iterates(m, X, g)
  <2>1. [s \in SUBSET X |-> IF s = {} THEN 0 ELSE Figure(Pick(s)) + g[s \ {Pick(s)}]]
       = [s \in SUBSET X |-> IF s = {} THEN 0 ELSE m[Pick(s)] + g[s \ {Pick(s)}]]
    BY <1>2
  <2> QED
    BY <2>1, Zenon DEF Iterates
<1> HIDE DEF Own
<1>4. (CHOOSE g : Own(g)) = Iterate(m, X)
  BY <1>3, Zenon DEF Iterate
<1> QED
  BY <1>1, <1>4, SumIterates DEF m

\* A container has at most one figure; none counts as 0.
LEMMA FigureOf ==
  ASSUME CounterInv, ReadOnce, NEW x \in file["end"].ctrs
  PROVE  \/ CtrCores(x) = {} /\ Figure(x) = 0
         \/ \E y \in file["start"].ctrs :
              /\ y.id = x.id /\ y.pod = x.pod /\ Window
              /\ CtrCores(x) = {x.usage - y.usage} /\ Figure(x) = x.usage - y.usage
<1>1. CASE CtrCores(x) = {}
  BY <1>1, FigureIsSum, SumEmpty
<1>2. CASE CtrCores(x) # {}
  <2>1. PICK y \in file["start"].ctrs : y.pod = x.pod /\ y.id = x.id /\ Window
    BY <1>2 DEF CtrCores, Cores
  <2>2. \A z \in file["start"].ctrs : z.id = x.id => z = y
    BY <2>1 DEF ReadOnce, Files
  <2>3. CtrCores(x) = {x.usage - y.usage}
    BY <2>1, <2>2 DEF CtrCores, Cores
  <2>4. x.usage \in Nat /\ y.usage \in Nat
    BY EntryNames DEF Files
  <2> DEFINE c == x.usage - y.usage
  <2>5. c \in Int
    BY <2>4
  <2> HIDE DEF c
  <2>6. ItselfIn({c})[c] = c
    BY DEF ItselfIn
  <2>7. SumOf(ItselfIn({c}), {c}) = c
    BY <2>5, <2>6, SumOne
  <2>8. Figure(x) = c
    BY <2>3, <2>7, FigureIsSum DEF c
  <2> QED
    BY <2>1, <2>3, <2>8 DEF c
<1> QED
  BY <1>1, <1>2

\* At most one scope of the second file has the name.
LEMMA ChargedOnce ==
  ASSUME CounterInv, ReadOnce, NEW n \in Name
  PROVE  \/ Charged(n) = 0 /\ ~Listed(n)
         \/ \E x \in file["end"].ctrs, y \in file["start"].ctrs :
              x.id = y.id /\ x.id[2] = n /\ Charged(n) = x.usage - y.usage
<1> DEFINE X == {x \in file["end"].ctrs : NameOf(x) = {n}}
<1>1. \A x \in X : \E m \in file["end"].map : m.id = x.id /\ m.name = n
  BY DEF NameOf
<1>2. \A x, z \in X : x = z /\ x.id[2] = n
  <2> SUFFICES ASSUME NEW x \in X, NEW z \in X PROVE x = z /\ x.id[2] = n
    OBVIOUS
  <2>1. PICK l \in file["end"].map : l.id = x.id /\ l.name = n
    BY <1>1
  <2>2. PICK m \in file["end"].map : m.id = z.id /\ m.name = n
    BY <1>1
  <2>3. l = m /\ l.id[2] = n
    BY <2>1, <2>2 DEF ReadOnce
  <2>4. x.id = z.id /\ x \in file["end"].ctrs /\ z \in file["end"].ctrs
    BY <2>1, <2>2, <2>3
  <2> QED
    BY <2>1, <2>3, <2>4 DEF ReadOnce, Files
<1>3. Charged(n) = SumOf(FigureIn(X), X)
  BY SumIsSum DEF Charged
<1>4. CASE X = {}
  <2>1. Charged(n) = 0
    BY <1>3, <1>4, SumEmpty
  <2>2. ~Listed(n)
    BY <1>4 DEF Listed
  <2> QED
    BY <2>1, <2>2
<1>5. CASE X # {}
  <2>1. PICK x \in X : TRUE
    BY <1>5
  <2>2. X = {x} /\ x.id[2] = n /\ x \in file["end"].ctrs
    BY <1>2, <2>1
  <2>3. FigureIn(X)[x] = Figure(x)
    BY <2>1 DEF FigureIn
  <2>4. Figure(x) \in Int => Charged(n) = Figure(x)
    <3> HIDE DEF X
    <3>1. Figure(x) \in Int => SumOf(FigureIn(X), {x}) = FigureIn(X)[x]
      BY <2>3, SumOne
    <3> QED
      BY <1>3, <2>2, <2>3, <3>1
  <2>5. CASE CtrCores(x) = {} /\ Figure(x) = 0
    <3>1. Charged(n) = 0
      BY <2>4, <2>5
    <3>2. ~Listed(n)
      BY <2>2, <2>5 DEF Listed
    <3> QED
      BY <3>1, <3>2
  <2>6. CASE \E y \in file["start"].ctrs :
               /\ y.id = x.id /\ y.pod = x.pod /\ Window
               /\ CtrCores(x) = {x.usage - y.usage} /\ Figure(x) = x.usage - y.usage
    <3>1. PICK y \in file["start"].ctrs : y.id = x.id /\ Figure(x) = x.usage - y.usage
      BY <2>6
    <3>2. x.usage \in Nat /\ y.usage \in Nat
      BY <2>2, EntryNames DEF Files
    <3>3. Charged(n) = x.usage - y.usage
      BY <2>4, <3>1, <3>2
    <3> QED
      BY <2>2, <3>1, <3>3
  <2> QED
    BY <2>2, <2>5, <2>6, FigureOf
<1> QED
  BY <1>4, <1>5

\* "The agent's cost is thereby measured where it is paid" (node_delta.py:12): a
\* name is charged no more than its containers used while the two files were written
\* and in between, and no less than what they used in between if it is listed with
\* a figure, whatever restarts, is replaced or fails.
THEOREM AgentChargedWhatItUsed == Spec => []ChargedWhatItUsed
<1>1. CounterInv /\ Typed /\ ReadOnce /\ ReadBetween => ChargedWhatItUsed
  <2> SUFFICES ASSUME CounterInv, Typed, ReadOnce, ReadBetween, Done, NEW n \in Name
               PROVE  /\ Charged(n) <= marks["end"].over.meter[n] - marks["start"].begun.meter[n]
                      /\ Listed(n) => Charged(n) >= marks["end"].begun.meter[n] - marks["start"].over.meter[n]
    BY DEF ChargedWhatItUsed
  <2>1. /\ marks["end"].over.meter = meter /\ marks["start"].begun.meter[n] <= meter[n]
        /\ meter[n] \in Nat /\ marks["start"].begun.meter[n] \in Nat
    BY DEF ReadBetween, Done, Typed, Files
  <2>2. CASE Charged(n) = 0 /\ ~Listed(n)
    BY <2>1, <2>2
  <2>3. ASSUME NEW x \in file["end"].ctrs, NEW y \in file["start"].ctrs, x.id = y.id, x.id[2] = n,
               Charged(n) = x.usage - y.usage
        PROVE  /\ Charged(n) <= meter[n] - marks["start"].begun.meter[n]
               /\ Charged(n) >= marks["end"].begun.meter[n] - marks["start"].over.meter[n]
    BY <2>3 DEF ReadBetween
  <2> QED
    BY <2>1, <2>2, <2>3, ChargedOnce
<1> QED
  BY <1>1, BetweenInvariant, PTL

-----------------------------------------------------------------------------
(***************************************************************************)
(* A calm window: nothing restarts and no call fails.                      *)
(***************************************************************************)

\* A window in which nothing restarted and no call failed, so far.
Calm ==
  marks["start"].begun.births = births /\ faults = 0 /\ step # <<"start", "list">>

\* The pod's counter is in the file f, and the scopes that are still to be read.
WasRead(f) == (f = "start" /\ step[1] = "end") \/ (step[1] = f /\ step[2] \in {"scopes", "map", "over"})
Pending(f) == IF step[1] = f THEN todo ELSE {}
Scope(n) == <<ctr[n].born, n>>

\* v is what the names had used when the pod's counter was read: the counter is
\* theirs, and each scope was read later or is still to be.
PodRead(f, v) ==
  /\ file[f].pods = {[pod |-> pod.name, usage |-> pod.usage - (UsedUp(meter) - UsedUp(v))]}
  /\ \A n \in Name : marks[f].begun.meter[n] <= v[n] /\ v[n] <= meter[n]
  /\ \A y \in file[f].ctrs :
       /\ y.pod = pod.name /\ Lives(y)
       /\ v[y.id[2]] <= UsedAt(y) /\ UsedAt(y) <= meter[y.id[2]]
  /\ \A n \in Name : Scope(n) \in Pending(f) \/ \E y \in file[f].ctrs : y.id = Scope(n)

CalmInv ==
  /\ marks["start"].begun.births <= births
  /\ Calm => /\ listed = {pod.name}
             /\ \A f \in Files : WasRead(f) => \E v \in [Name -> Nat] : PodRead(f, v)

\* At first no pod has been read.
LEMMA InitCalm == Init => CalmInv
  BY DEF Init, CalmInv, Calm, Mark, Files

\* The node's steps preserve it: what a container uses, its pod uses.
LEMMA CalmNode ==
  ASSUME CounterInv, CounterInv', Typed, Typed', CalmInv, Node
  PROVE  CalmInv'
<1>0. UNCHANGED <<step, listed, todo, file, marks, faults>> /\ births \in Nat /\ births' \in {births, births + 1}
      /\ marks["start"].begun.births \in Nat
  BY DEF Node, Use, Restart, Replace, CounterInv, Shape, Typed, Files
<1>1. CASE (\E n \in Name : Restart(n)) \/ Replace
  <2>1. births' = births + 1
    BY <1>1 DEF Restart, Replace
  <2>2. ~Calm'
    BY <1>0, <2>1 DEF CalmInv, Calm
  <2> QED
    BY <1>0, <2>1, <2>2 DEF CalmInv
<1>2. ASSUME NEW n \in Name, Use(n) PROVE CalmInv'
  <2>1. births' = births /\ Calm' = Calm
    BY <1>0, <1>2 DEF Use, Calm
  <2>10. pod'.name = pod.name
    BY <1>2 DEF Use, CounterInv, Shape
  <2>2. SUFFICES ASSUME Calm, NEW f \in Files, WasRead(f)'
                 PROVE  \E v \in [Name -> Nat] : PodRead(f, v)'
    BY <1>0, <2>1, <2>10 DEF CalmInv
  <2>3. PICK v \in [Name -> Nat] : PodRead(f, v)
    BY <1>0, <2>2 DEF CalmInv, WasRead
  <2>4. /\ pod'.name = pod.name /\ pod'.usage = pod.usage + 1 /\ pod.usage \in Nat
        /\ meter' = [meter EXCEPT ![n] = @ + 1] /\ meter \in [Name -> Int] /\ meter \in [Name -> Nat]
        /\ \A m \in Name : meter'[m] = IF m = n THEN meter[m] + 1 ELSE meter[m]
        /\ \A m \in Name : /\ ctr'[m].born = ctr[m].born /\ ctr[m].usage \in Nat
                           /\ ctr'[m].usage = IF m = n THEN ctr[m].usage + 1 ELSE ctr[m].usage
    BY <1>2 DEF Use, CounterInv, Shape, Typed
  <2>5. UsedUp(meter') = UsedUp(meter) + 1 /\ UsedUp(meter) \in Nat /\ UsedUp(v) \in Nat
    BY <2>4, NodeProbeAssumption, SumOneMore, UsedUpIsSum, MeterIsKnown
  <2>6. file'[f].pods = {[pod |-> pod'.name, usage |-> pod'.usage - (UsedUp(meter') - UsedUp(v))]}
    <3>1. pod'.usage - (UsedUp(meter') - UsedUp(v)) = pod.usage - (UsedUp(meter) - UsedUp(v))
      BY <2>4, <2>5
    <3> QED
      BY <1>0, <2>3, <2>4, <3>1 DEF PodRead
  <2>7. ASSUME NEW y \in file[f].ctrs
        PROVE  /\ Lives(y)' /\ UsedAt(y)' = UsedAt(y) /\ UsedAt(y) <= meter'[y.id[2]]
    <3>1. y.id[2] \in Name /\ y.usage \in Nat
      BY EntryNames
    <3>2. Lives(y) /\ UsedAt(y) <= meter[y.id[2]]
      BY <2>3 DEF PodRead
    <3>3. Lives(y)' /\ UsedAt(y)' = UsedAt(y)
      <4>1. meter[y.id[2]] \in Nat /\ ctr[y.id[2]].usage \in Nat
        BY <2>4, <3>1
      <4>2. /\ meter'[y.id[2]] = IF y.id[2] = n THEN meter[y.id[2]] + 1 ELSE meter[y.id[2]]
            /\ ctr'[y.id[2]].usage = IF y.id[2] = n THEN ctr[y.id[2]].usage + 1 ELSE ctr[y.id[2]].usage
            /\ ctr'[y.id[2]].born = ctr[y.id[2]].born
        BY <2>4, <3>1
      <4> QED
        BY <3>1, <3>2, <4>1, <4>2 DEF Lives, UsedAt
    <3>4. UsedAt(y) \in Int
      BY <2>4, <3>1 DEF UsedAt
    <3> QED
      BY <2>4, <3>1, <3>2, <3>3, <3>4
  <2>8. \A m \in Name : Scope(m)' = Scope(m)
    BY <2>4 DEF Scope
  <2>9. PodRead(f, v)'
    <3>1. \A m \in Name : marks'[f].begun.meter[m] <= v[m] /\ v[m] <= meter'[m]
      BY <1>0, <2>3, <2>4 DEF PodRead
    <3>2. \A y \in file'[f].ctrs :
            /\ y.pod = pod'.name /\ Lives(y)'
            /\ v[y.id[2]] <= UsedAt(y)' /\ UsedAt(y)' <= meter'[y.id[2]]
      BY <1>0, <2>3, <2>7, <2>10 DEF PodRead
    <3>3. Pending(f)' = Pending(f)
      BY <1>0 DEF Pending
    <3>4. \A m \in Name : Scope(m)' \in Pending(f)' \/ \E y \in file'[f].ctrs : y.id = Scope(m)'
      BY <1>0, <2>3, <2>8, <3>3 DEF PodRead
    <3> QED
      BY <2>6, <3>1, <3>2, <3>4 DEF PodRead
  <2> QED
    BY <2>9
<1> QED
  BY <1>1, <1>2 DEF Node

\* A step that leaves the file f and the start of it alone.
LEMMA SameRead ==
  ASSUME UNCHANGED <<births, pod, ctr, meter>>, NEW f \in Files, NEW v \in [Name -> Nat], PodRead(f, v),
         file'[f].pods = file[f].pods, file'[f].ctrs = file[f].ctrs,
         marks'[f].begun = marks[f].begun, Pending(f)' = Pending(f)
  PROVE  PodRead(f, v)'
  BY DEF PodRead, Lives, UsedAt, Scope

\* node_snap's steps preserve it: the pod comes first, then the scopes it had then.
LEMMA CalmSnap ==
  ASSUME CounterInv, Typed, TypeOK, ReadOnce, ReadBetween, CalmInv, NEW f \in Files, Snap(f)
  PROVE  CalmInv'
<1>0. /\ UNCHANGED <<births, pod, ctr, meter>>
      /\ step \in Files \X {"list", "time", "pod", "scopes", "map", "over"}
      /\ file \in [Files -> [ts : BOOLEAN, pods : SUBSET PodEntry, ctrs : SUBSET CtrEntry,
                             map : SUBSET [pod : Nat, id : Nat \X Name, name : Name]]]
      /\ births \in Nat /\ Files = {"start", "end"}
  BY DEF Snap, List, ReadTime, ReadPod, ReadScope, EndExec, ReadMap, node, CounterInv, Shape, Files
<1>1. faults \in Nat /\ (faults' = 0 => faults = 0 /\ ~Fail)
  <2>1. faults \in Nat
    BY NodeProbeAssumption DEF TypeOK
  <2>2. faults' = faults \/ Fail
    BY DEF Snap, List, ReadTime, ReadPod, ReadScope, EndExec, ReadMap
  <2> QED
    BY <2>1, <2>2 DEF Fail
<1>2. CASE List(f)
  <2>1. \/ step = <<"start", "list">> /\ f = "start"
        \/ step = <<"start", "over">> /\ f = "end"
    <3>1. step = <<f, "list">> \/ (f = "end" /\ step = <<"start", "over">>)
      BY <1>2 DEF List, At
    <3> QED
      BY <1>0, <3>1 DEF ReadOnce
  <2>2. /\ marks'[f].begun = Mark /\ \A g \in Files \ {f} : marks'[g] = marks[g]
        /\ file' = file /\ todo' = todo
    BY <1>2 DEF List, Over, Typed
  <2>3. marks'["start"].begun.births <= births'
    <3>1. f = "start" => marks'["start"].begun.births = births
      BY <2>2 DEF Mark
    <3> QED
      BY <1>0, <2>2, <3>1 DEF CalmInv
  <2> SUFFICES ASSUME Calm'
               PROVE  /\ listed' = {pod'.name}
                      /\ \A g \in Files : WasRead(g)' => \E v \in [Name -> Nat] : PodRead(g, v)'
    BY <2>3 DEF CalmInv
  <2>4. listed' = {pod.name} /\ step' = <<f, "time">>
    BY <1>1, <1>2 DEF List, Goto, Calm
  <2>5. ASSUME NEW g \in Files, WasRead(g)' PROVE \E v \in [Name -> Nat] : PodRead(g, v)'
    <3>1. f = "end" /\ g = "start" /\ step = <<"start", "over">>
      BY <1>0, <2>1, <2>4, <2>5 DEF WasRead
    <3>2. Calm /\ WasRead(g)
      BY <1>0, <1>1, <2>2, <3>1 DEF Calm, WasRead
    <3>3. PICK v \in [Name -> Nat] : PodRead(g, v)
      BY <3>2 DEF CalmInv
    <3>4. todo = {} /\ Pending(g)' = Pending(g)
      BY <2>4, <3>1 DEF ReadOnce, Pending
    <3> QED
      BY <1>0, <2>2, <3>1, <3>3, <3>4, SameRead
  <2> QED
    BY <1>0, <2>4, <2>5
<1>3. ASSUME ~List(f) PROVE marks'["start"].begun = marks["start"].begun /\ listed' = listed
                            /\ (\A g \in Files : marks'[g].begun = marks[g].begun)
                            /\ step[1] = f /\ step'[1] = f
  <2>1. marks' = marks \/ marks' = [marks EXCEPT ![f].over = Mark]
    BY <1>3 DEF Snap, ReadTime, ReadPod, ReadScope, EndExec, ReadMap, Over
  <2>2. \A g \in Files : marks'[g].begun = marks[g].begun
    BY <2>1 DEF Typed
  <2> QED
    BY <1>0, <1>3, <2>2 DEF Snap, ReadTime, ReadPod, ReadScope, EndExec, ReadMap, At, Goto, Over
<1>4. ASSUME ~List(f), Calm' PROVE Calm
  BY <1>0, <1>1, <1>3, <1>4 DEF Calm, Snap, ReadTime, ReadPod, ReadScope, EndExec, ReadMap, At
<1>5. SUFFICES ASSUME ~List(f), Calm, Calm', NEW g \in Files, WasRead(g)'
               PROVE  \E v \in [Name -> Nat] : PodRead(g, v)'
  BY <1>0, <1>2, <1>3, <1>4 DEF CalmInv
<1>6. listed = {pod.name}
  BY <1>5 DEF CalmInv
<1>7. CASE g # f
  <2>1. WasRead(g)
    BY <1>0, <1>3, <1>5, <1>7 DEF WasRead
  <2>2. PICK v \in [Name -> Nat] : PodRead(g, v)
    BY <1>5, <2>1 DEF CalmInv
  <2>3. Pending(g)' = Pending(g)
    BY <1>3, <1>5, <1>7 DEF Pending
  <2>4. file'[g] = file[g]
    BY <1>0, <1>5, <1>7 DEF Snap, ReadTime, ReadPod, ReadScope, EndExec, ReadMap
  <2> QED
    BY <1>0, <1>3, <1>5, <2>2, <2>3, <2>4, SameRead
<1>8. CASE g = f /\ ReadTime(f)
  BY <1>0, <1>8, <1>3, <1>5 DEF ReadTime, Goto, WasRead
<1>9. CASE g = f /\ ReadPod(f)
  <2>1. /\ file'[f].pods = {[pod |-> pod.name, usage |-> pod.usage]} /\ todo' = Scopes
        /\ file'[f].ctrs = file[f].ctrs /\ step = <<f, "pod">>
    BY <1>0, <1>6, <1>9 DEF ReadPod, At
  <2>2. file[f].ctrs = {}
    BY <2>1 DEF ReadOnce
  <2>3. meter \in [Name -> Nat] /\ UsedUp(meter) \in Nat /\ pod.usage \in Nat
    BY MeterIsKnown DEF Typed, CounterInv, Shape
  <2>4. pod.usage - (UsedUp(meter) - UsedUp(meter)) = pod.usage
    BY <2>3
  <2>5. \A n \in Name : marks'[f].begun.meter[n] <= meter[n] /\ meter[n] <= meter[n]
    BY <1>3, <1>5, <2>3 DEF ReadBetween
  <2>6. Pending(f)' = Scopes
    BY <1>3, <1>5, <2>1 DEF Pending
  <2>7. \A n \in Name : Scope(n) \in Scopes /\ Scope(n)' = Scope(n)
    BY <1>0 DEF Scope, Scopes
  <2>8. PodRead(f, meter)'
    BY <1>0, <2>1, <2>2, <2>4, <2>5, <2>6, <2>7 DEF PodRead
  <2> QED
    BY <1>0, <1>9, <2>3, <2>8
<1>10. ASSUME g = f, NEW s \in todo, ReadScope(f, s) PROVE \E v \in [Name -> Nat] : PodRead(g, v)'
  <2>1. step = <<f, "scopes">> /\ step' = step /\ todo' = todo \ {s} /\ WasRead(f)
    BY <1>10 DEF ReadScope, At, WasRead
  <2>2. PICK v \in [Name -> Nat] : PodRead(f, v)
    BY <1>5, <2>1 DEF CalmInv
  <2>3. Pending(f) = todo /\ Pending(f)' = todo \ {s}
    BY <2>1 DEF Pending
  <2>4. /\ file'[f].pods = file[f].pods
        /\ file'[f].ctrs = file[f].ctrs \cup
             {[pod |-> p, id |-> s, usage |-> ctr[s[2]].usage] : p \in {q \in listed : s \in Scopes}}
    BY <1>0, <1>10 DEF ReadScope
  <2>5. \A n \in Name : v[n] <= meter[n] /\ v[n] \in Nat /\ meter[n] \in Nat
    BY <2>2 DEF PodRead, Typed
  <2>6. ASSUME NEW y \in file'[f].ctrs, y \notin file[f].ctrs
        PROVE  /\ y.pod = pod.name /\ Lives(y) /\ y.id[2] \in Name
               /\ UsedAt(y) = meter[y.id[2]] /\ y.id = s
    <3>1. s \in Scopes /\ y = [pod |-> pod.name, id |-> s, usage |-> ctr[s[2]].usage]
      BY <1>6, <2>4, <2>6
    <3>2. PICK n \in Name : s = <<ctr[n].born, n>>
      BY <3>1 DEF Scopes
    <3>3. meter[n] \in Nat /\ ctr[n].usage \in Nat
      BY <3>2 DEF Typed, CounterInv, Shape
    <3> QED
      BY <3>1, <3>2, <3>3 DEF Lives, UsedAt
  <2>7. ASSUME NEW y \in file'[f].ctrs
        PROVE  /\ y.pod = pod'.name /\ Lives(y)'
               /\ v[y.id[2]] <= UsedAt(y)' /\ UsedAt(y)' <= meter'[y.id[2]]
    <3>1. Lives(y)' = Lives(y) /\ UsedAt(y)' = UsedAt(y)
      BY <1>0 DEF Lives, UsedAt
    <3>2. CASE y \in file[f].ctrs
      BY <1>0, <2>2, <3>1, <3>2 DEF PodRead
    <3>3. CASE y \notin file[f].ctrs
      <4>1. /\ y.pod = pod.name /\ Lives(y) /\ y.id[2] \in Name /\ UsedAt(y) = meter[y.id[2]]
        BY <2>6, <3>3
      <4>2. v[y.id[2]] <= meter[y.id[2]] /\ meter[y.id[2]] \in Nat
        BY <2>5, <4>1
      <4> QED
        BY <1>0, <3>1, <4>1, <4>2
    <3> QED
      BY <3>2, <3>3
  <2>8. ASSUME NEW n \in Name
        PROVE  Scope(n)' \in Pending(f)' \/ \E y \in file'[f].ctrs : y.id = Scope(n)'
    <3>1. Scope(n)' = Scope(n) /\ Scope(n) \in Scopes
      BY <1>0 DEF Scope, Scopes
    <3>2. CASE Scope(n) = s
      <4>1. [pod |-> pod.name, id |-> s, usage |-> ctr[s[2]].usage] \in file'[f].ctrs
        BY <1>6, <2>4, <3>1, <3>2
      <4> QED
        BY <3>1, <3>2, <4>1
    <3>3. CASE Scope(n) # s
      BY <2>2, <2>3, <2>4, <3>1, <3>3 DEF PodRead
    <3> QED
      BY <3>2, <3>3
  <2> QED
    BY <1>0, <1>3, <1>5, <1>10, <2>2, <2>4, <2>7, <2>8 DEF PodRead
<1>11. CASE g = f /\ (EndExec(f) \/ ReadMap(f))
  <2>1. WasRead(f)
    BY <1>1, <1>5, <1>11 DEF EndExec, ReadMap, At, Calm, WasRead
  <2>2. PICK v \in [Name -> Nat] : PodRead(f, v)
    BY <1>5, <2>1 DEF CalmInv
  <2>3. todo = {} /\ todo' = {}
    BY <1>1, <1>5, <1>11 DEF EndExec, ReadMap, At, Calm, ReadOnce
  <2>4. file'[f].pods = file[f].pods /\ file'[f].ctrs = file[f].ctrs
    BY <1>0, <1>11 DEF EndExec, ReadMap
  <2>5. Pending(f)' = Pending(f)
    BY <2>3 DEF Pending
  <2> QED
    BY <1>0, <1>3, <1>5, <1>11, <2>2, <2>4, <2>5, SameRead
<1> QED
  BY <1>5, <1>7, <1>8, <1>9, <1>10, <1>11 DEF Snap

\* In a calm window the pod's counter and its scopes are of the same containers.
LEMMA CalmInvariant == Spec => [](CounterInv /\ Typed /\ ReadOnce /\ ReadBetween /\ CalmInv)
<1>1. /\ CounterInv /\ CounterInv' /\ Typed /\ Typed' /\ TypeOK /\ ReadOnce /\ ReadBetween
      /\ CalmInv /\ [Next]_vars
      => CalmInv'
  <2> SUFFICES ASSUME CounterInv, CounterInv', Typed, Typed', TypeOK, ReadOnce, ReadBetween,
                      CalmInv, [Next]_vars
               PROVE  CalmInv'
    OBVIOUS
  <2>1. CASE Node
    BY <2>1, CalmNode
  <2>2. ASSUME NEW f \in Files, Snap(f) PROVE CalmInv'
    BY <2>2, CalmSnap
  <2>3. CASE UNCHANGED vars
    BY <2>3 DEF vars, CalmInv, Calm, WasRead, PodRead, Pending, Scope, Lives, UsedAt
  <2> QED
    BY <2>1, <2>2, <2>3 DEF Next
<1> QED
  BY <1>1, InitCalm, BetweenInvariant, TypeInvariant, PTL DEF Spec

\* The entry of a file for the scope that a name has now, and what the name had
\* used when it was written.
EntryOf(f, n) == CHOOSE y \in file[f].ctrs : y.id = Scope(n)
UsedWhenRead(f) == [n \in Name |-> UsedAt(EntryOf(f, n))]

\* When a calm window is over each file has exactly one entry for each name.
LEMMA CalmEntries ==
  ASSUME CounterInv, Typed, ReadOnce, NEW f \in Files, NEW v \in [Name -> Nat], PodRead(f, v), Done
  PROVE  /\ \A n \in Name :
              /\ EntryOf(f, n) \in file[f].ctrs /\ EntryOf(f, n).id = Scope(n)
              /\ EntryOf(f, n).usage \in Nat /\ EntryOf(f, n).pod = pod.name
              /\ UsedAt(EntryOf(f, n)) = meter[n] - (ctr[n].usage - EntryOf(f, n).usage)
              /\ UsedAt(EntryOf(f, n)) \in Int
              /\ v[n] <= UsedAt(EntryOf(f, n)) /\ UsedAt(EntryOf(f, n)) <= meter[n]
         /\ file[f].ctrs = {EntryOf(f, n) : n \in Name}
<1>1. ASSUME NEW n \in Name
      PROVE  /\ EntryOf(f, n) \in file[f].ctrs /\ EntryOf(f, n).id = Scope(n)
             /\ EntryOf(f, n).usage \in Nat /\ EntryOf(f, n).pod = pod.name
             /\ UsedAt(EntryOf(f, n)) = meter[n] - (ctr[n].usage - EntryOf(f, n).usage)
             /\ UsedAt(EntryOf(f, n)) \in Int
             /\ v[n] <= UsedAt(EntryOf(f, n)) /\ UsedAt(EntryOf(f, n)) <= meter[n]
  <2>1. Pending(f) = {}
    BY DEF Done, Pending, ReadOnce
  <2>2. \E y \in file[f].ctrs : y.id = Scope(n)
    BY <2>1 DEF PodRead
  <2>3. EntryOf(f, n) \in file[f].ctrs /\ EntryOf(f, n).id = Scope(n)
    BY <2>2 DEF EntryOf
  <2> DEFINE y == EntryOf(f, n)
  <2> HIDE DEF y
  <2>4. y \in file[f].ctrs /\ y.id = Scope(n)
    BY <2>3 DEF y
  <2>5. y.usage \in Nat /\ y.id[2] = n
    BY <2>4, EntryNames DEF Scope
  <2>6. meter[n] \in Nat /\ ctr[n].usage \in Nat
    BY DEF Typed, CounterInv, Shape
  <2>7. UsedAt(y) = meter[n] - (ctr[n].usage - y.usage)
    BY <2>5 DEF UsedAt
  <2>8. y.pod = pod.name /\ v[n] <= UsedAt(y) /\ UsedAt(y) <= meter[n]
    BY <2>4, <2>5 DEF PodRead
  <2>9. UsedAt(y) \in Int
    BY <2>5, <2>6, <2>7
  <2> QED
    BY <2>4, <2>5, <2>7, <2>8, <2>9 DEF y
<1>2. ASSUME NEW y \in file[f].ctrs PROVE y \in {EntryOf(f, n) : n \in Name}
  <2>1. Lives(y) /\ y.id[2] \in Name /\ y.id \in Nat \X Name
    BY EntryNames DEF PodRead
  <2>2. y.id = Scope(y.id[2])
    BY <2>1 DEF Lives, Scope
  <2>3. EntryOf(f, y.id[2]) \in file[f].ctrs /\ EntryOf(f, y.id[2]).id = y.id
    BY <1>1, <2>1, <2>2
  <2>4. EntryOf(f, y.id[2]) = y
    BY <2>3 DEF ReadOnce
  <2> QED
    BY <2>1, <2>4
<1> QED
  BY <1>1, <1>2

\* The containers' sum of a calm window is what the names used from the reading of
\* one file's scopes to the other's.
LEMMA CalmSum ==
  ASSUME CounterInv, Typed, ReadOnce, Done, Window,
         NEW v \in [Name -> Nat], PodRead("start", v), NEW w \in [Name -> Nat], PodRead("end", w)
  PROVE  ContainersSum(pod.name) = UsedUp(UsedWhenRead("end")) - UsedUp(UsedWhenRead("start"))
<1> DEFINE a == UsedWhenRead("start")
           b == UsedWhenRead("end")
           entry == [n \in Name |-> EntryOf("end", n)]
           d == [n \in Name |-> Figure(EntryOf("end", n))]
           X == file["end"].ctrs
<1>1. /\ \A n \in Name :
           /\ EntryOf("start", n) \in file["start"].ctrs /\ EntryOf("start", n).id = Scope(n)
           /\ EntryOf("start", n).usage \in Nat /\ EntryOf("start", n).pod = pod.name
           /\ UsedAt(EntryOf("start", n)) = meter[n] - (ctr[n].usage - EntryOf("start", n).usage)
           /\ UsedAt(EntryOf("start", n)) \in Int
  BY CalmEntries DEF Files
<1>2. /\ \A n \in Name :
           /\ EntryOf("end", n) \in X /\ EntryOf("end", n).id = Scope(n)
           /\ EntryOf("end", n).usage \in Nat /\ EntryOf("end", n).pod = pod.name
           /\ UsedAt(EntryOf("end", n)) = meter[n] - (ctr[n].usage - EntryOf("end", n).usage)
           /\ UsedAt(EntryOf("end", n)) \in Int
      /\ X = {EntryOf("end", n) : n \in Name}
  BY CalmEntries DEF Files
<1>3. ASSUME NEW n \in Name
      PROVE  d[n] = b[n] - a[n] /\ a[n] \in Int /\ b[n] \in Int
  <2> DEFINE x == EntryOf("end", n)
             y == EntryOf("start", n)
  <2>1. x \in X /\ y \in file["start"].ctrs /\ x.id = y.id /\ x.pod = y.pod
    BY <1>1, <1>2
  <2> HIDE DEF x, y
  <2>2. x.usage - y.usage \in CtrCores(x)
    BY <2>1 DEF CtrCores, Cores
  <2>3. PICK z \in file["start"].ctrs : z.id = x.id /\ Figure(x) = x.usage - z.usage
    BY <2>1, <2>2, FigureOf
  <2>4. z = y
    BY <2>1, <2>3 DEF ReadOnce, Files
  <2>5. Figure(x) = x.usage - y.usage
    BY <2>3, <2>4
  <2>6. /\ UsedAt(x) = meter[n] - (ctr[n].usage - x.usage) /\ UsedAt(x) \in Int /\ x.usage \in Nat
        /\ UsedAt(y) = meter[n] - (ctr[n].usage - y.usage) /\ UsedAt(y) \in Int /\ y.usage \in Nat
    BY <1>1, <1>2 DEF x, y
  <2>7. meter[n] \in Nat /\ ctr[n].usage \in Nat
    BY DEF Typed, CounterInv, Shape
  <2>8. Figure(x) = UsedAt(x) - UsedAt(y)
    BY <2>5, <2>6, <2>7
  <2> QED
    BY <2>6, <2>8 DEF x, y, UsedWhenRead
<1>4. entry \in [Name -> X] /\ X = {entry[n] : n \in Name}
  BY <1>2
<1>5. \A m, n \in Name : entry[m] = entry[n] => m = n
  BY <1>2 DEF Scope
<1>6. \A n \in Name : d[n] \in Int /\ FigureIn(X)[entry[n]] = d[n]
  <2>1. \A n \in Name : d[n] \in Int
    <3> HIDE DEF d, a, b
    <3> QED
      BY <1>3
  <2>2. \A n \in Name : FigureIn(X)[entry[n]] = d[n]
    BY <1>2 DEF FigureIn
  <2> QED
    BY <2>1, <2>2
<1>7. IsFiniteSet(Name)
  BY NodeProbeAssumption
<1>8. {x \in X : x.pod = pod.name} = X
  BY DEF PodRead
<1>9. ContainersSum(pod.name) = SumOf(FigureIn(X), X)
  BY <1>8, SumIsSum DEF ContainersSum
<1> HIDE DEF X, entry, d, a, b
<1>10. SumOf(FigureIn(X), X) = SumOf(d, Name)
  <2> DEFINE k == FigureIn(X)
  <2>2. \A x \in Name : d[x] \in Int /\ k[entry[x]] = d[x]
    BY <1>6
  <2> HIDE DEF k
  <2>3. SumOf(k, X) = SumOf(d, Name)
    <3>1. entry \in [Name -> X]
      BY <1>4
    <3>2. \A x, y \in Name : entry[x] = entry[y] => x = y
      BY <1>5
    <3>3. \A u \in X : \E x \in Name : entry[x] = u
      BY <1>4
    <3> QED
      BY <1>7, <2>2, <3>1, <3>2, <3>3, SumRenamed
  <2> QED
    BY <2>3 DEF k
<1>11. SumOf(d, Name) = SumOf(b, Name) - SumOf(a, Name)
  BY <1>3, <1>7, SumMinus
<1> QED
  BY <1>9, <1>10, <1>11, UsedUpIsSum DEF a, b

\* "the pod total stays as a cross-check that the container scopes account for the
\* pod" (node_delta.py:10): when nothing restarted and no call failed, the pod's
\* figure and its containers' sum miss each other by no more than what was used
\* while one of the files was written.
THEOREM PodAndScopesAgree == Spec => []ScopesAccountForPod
<1>1. CounterInv /\ Typed /\ ReadOnce /\ ReadBetween /\ CalmInv => ScopesAccountForPod
  <2> SUFFICES ASSUME CounterInv, Typed, ReadOnce, ReadBetween, CalmInv, Done,
                      marks["start"].begun.births = births, faults = 0,
                      NEW x \in file["end"].pods, NEW c \in PodCores(x)
               PROVE  /\ c <= ContainersSum(x.pod)
                               + (UsedUp(marks["start"].over.meter) - UsedUp(marks["start"].begun.meter))
                      /\ ContainersSum(x.pod)
                           <= c + (UsedUp(marks["end"].over.meter) - UsedUp(marks["end"].begun.meter))
    BY DEF ScopesAccountForPod
  <2>1. Calm /\ WasRead("start") /\ WasRead("end")
    BY DEF Done, Calm, WasRead
  <2>2. PICK v \in [Name -> Nat] : PodRead("start", v)
    BY <2>1 DEF CalmInv, Files
  <2>3. PICK w \in [Name -> Nat] : PodRead("end", w)
    BY <2>1 DEF CalmInv, Files
  <2> DEFINE a == UsedWhenRead("start")
             b == UsedWhenRead("end")
             begun(f) == marks[f].begun.meter
             over(f) == marks[f].over.meter
  <2>4. \A n \in Name : /\ begun("start")[n] <= v[n] /\ v[n] <= a[n] /\ a[n] <= over("start")[n]
                        /\ begun("end")[n] <= w[n] /\ w[n] <= b[n] /\ b[n] <= over("end")[n]
                        /\ a[n] \in Int /\ b[n] \in Int
    <3> SUFFICES ASSUME NEW n \in Name
                 PROVE  /\ begun("start")[n] <= v[n] /\ v[n] <= a[n] /\ a[n] <= over("start")[n]
                        /\ begun("end")[n] <= w[n] /\ w[n] <= b[n] /\ b[n] <= over("end")[n]
                        /\ a[n] \in Int /\ b[n] \in Int
      OBVIOUS
    <3>1. /\ v[n] <= a[n] /\ a[n] \in Int /\ w[n] <= b[n] /\ b[n] \in Int /\ b[n] <= meter[n]
      BY <2>2, <2>3, CalmEntries DEF UsedWhenRead, Files
    <3>2. begun("start")[n] <= v[n] /\ begun("end")[n] <= w[n]
      BY <2>2, <2>3 DEF PodRead
    <3>3. over("end") = meter
      BY DEF ReadBetween, Done
    <3>4. a[n] <= over("start")[n]
      <4> DEFINE y == EntryOf("start", n)
      <4>1. y \in file["start"].ctrs /\ y.id = Scope(n)
        BY <2>2, CalmEntries DEF Files
      <4> HIDE DEF y
      <4>2. y.id[2] = n /\ Lives(y)
        BY <4>1 DEF Scope, Lives
      <4>3. FirstOver
        BY DEF Done, FirstOver
      <4>4. UsedAt(y) <= over("start")[n]
        BY <4>1, <4>2, <4>3 DEF ReadBetween
      <4> QED
        BY <4>4 DEF y, UsedWhenRead
    <3> QED
      BY <3>1, <3>2, <3>3, <3>4
  <2>5. /\ begun("start") \in [Name -> Nat] /\ over("start") \in [Name -> Nat]
        /\ begun("end") \in [Name -> Nat] /\ over("end") \in [Name -> Nat]
    BY DEF Typed, Files
  <2>6. ContainersSum(pod.name) = UsedUp(b) - UsedUp(a)
    <3>1. Window
      BY DEF PodCores, Cores
    <3> QED
      BY <2>2, <2>3, <3>1, CalmSum
  <2>7. x.pod = pod.name /\ c = UsedUp(w) - UsedUp(v)
    <3>1. x = [pod |-> pod.name, usage |-> pod.usage - (UsedUp(meter) - UsedUp(w))]
      BY <2>3 DEF PodRead
    <3>2. PICK y \in file["start"].pods : c = x.usage - y.usage
      BY DEF PodCores, Cores
    <3>3. y = [pod |-> pod.name, usage |-> pod.usage - (UsedUp(meter) - UsedUp(v))]
      BY <2>2, <3>2 DEF PodRead
    <3>4. UsedUp(meter) \in Nat /\ UsedUp(v) \in Nat /\ UsedUp(w) \in Nat /\ pod.usage \in Nat
      BY MeterIsKnown DEF Typed, CounterInv, Shape
    <3> QED
      BY <3>1, <3>2, <3>3, <3>4
  <2> HIDE DEF a, b, begun, over
  <2>8. IsFiniteSet(Name)
    BY NodeProbeAssumption
  <2>9. /\ SumOf(begun("start"), Name) <= SumOf(v, Name) /\ SumOf(a, Name) <= SumOf(over("start"), Name)
        /\ SumOf(v, Name) <= SumOf(a, Name)
    BY <2>4, <2>5, <2>8, SumAtMost
  <2>10. /\ SumOf(begun("end"), Name) <= SumOf(w, Name) /\ SumOf(b, Name) <= SumOf(over("end"), Name)
         /\ SumOf(w, Name) <= SumOf(b, Name)
    BY <2>4, <2>5, <2>8, SumAtMost
  <2>11. /\ SumOf(begun("start"), Name) \in Int /\ SumOf(over("start"), Name) \in Int
         /\ SumOf(begun("end"), Name) \in Int /\ SumOf(over("end"), Name) \in Int
         /\ SumOf(v, Name) \in Int /\ SumOf(w, Name) \in Int /\ SumOf(a, Name) \in Int /\ SumOf(b, Name) \in Int
    BY <2>4, <2>5, <2>8, SumType
  <2>12. \A m : UsedUp(m) = SumOf(m, Name)
    BY UsedUpIsSum
  <2>13. /\ c <= ContainersSum(x.pod) + (UsedUp(over("start")) - UsedUp(begun("start")))
         /\ ContainersSum(x.pod) <= c + (UsedUp(over("end")) - UsedUp(begun("end")))
    BY <2>6, <2>7, <2>9, <2>10, <2>11, <2>12
  <2> QED
    BY <2>13 DEF begun, over
<1> QED
  BY <1>1, CalmInvariant, PTL
=============================================================================
