----------------------------- MODULE NodeProbe ------------------------------
(***************************************************************************)
(* The node probe of one cell: bin/run.sh (node_snap) reads the counters   *)
(* of the Odigos pod on the cell's node one after the other, at the start  *)
(* and at the end of a window, while its containers run, restart and are   *)
(* replaced; bin/lib/node_delta.py makes the agent's CPU of the two files. *)
(*                                                                         *)
(* A value a file may lack is a set with at most one element.  The window  *)
(* has length one, so a difference of counters is a number of cores.       *)
(***************************************************************************)
EXTENDS Integers, FiniteSets, FiniteSetsExt

CONSTANTS
  Name,         \* the containers of the Odigos pod: "odiglet" is the agent
  MaxCpu,       \* CPU the containers use in all
  MaxRestarts,  \* restarts of a container and replacements of the pod
  MaxFaults     \* calls of kubectl that fail

ASSUME NodeProbeAssumption ==
  /\ "odiglet" \in Name /\ IsFiniteSet(Name)
  /\ MaxCpu \in Nat /\ MaxRestarts \in Nat /\ MaxFaults \in Nat

VARIABLES
  births,  \* restarts and replacements so far: it numbers pods and scopes
  pod,     \* the Odigos pod on the node and the CPU in its cgroup
  ctr,     \* of each container, when it was born and the CPU in its scope
  step,    \* where run.sh is
  listed,  \* the pods node_snap was given
  todo,    \* the scopes it has still to read
  file,    \* what the two files hold
  meter,   \* history: the CPU a container of the name has used, over all its scopes
  marks,   \* history: births and meter as node_snap began and ended
  faults   \* calls of kubectl that have failed

node == <<births, pod, ctr, meter>>
vars == <<births, pod, ctr, step, listed, todo, file, meter, marks, faults>>

Files == {"start", "end"}
Births == 0..MaxRestarts
Cpu == 0..MaxCpu
Mark == [births |-> births, meter |-> meter]
Empty == [ts |-> FALSE, pods |-> {}, ctrs |-> {}, map |-> {}]
UsedUp(m) == MapThenSumSet(LAMBDA n : m[n], Name)

TypeOK ==
  /\ births \in Births
  /\ pod \in [name : Births, usage : Cpu]
  /\ ctr \in [Name -> [born : Births, usage : Cpu]]
  /\ step \in (Files \X {"list", "time", "pod", "scopes", "map"}) \cup {<<"start", "over">>, <<"end", "over">>}
  /\ listed \subseteq Births
  /\ todo \subseteq Births \X Name
  /\ \A f \in Files :
       /\ file[f].ts \in BOOLEAN
       /\ file[f].pods \subseteq [pod : Births, usage : Cpu]
       /\ file[f].ctrs \subseteq [pod : Births, id : Births \X Name, usage : Cpu]
       /\ file[f].map \subseteq [pod : Births, id : Births \X Name, name : Name]
  /\ meter \in [Name -> Cpu]
  /\ marks \in [Files -> [begun : [births : Births, meter : [Name -> Cpu]],
                          over  : [births : Births, meter : [Name -> Cpu]]]]
  /\ faults \in 0..MaxFaults

Init ==
  /\ births = 0
  /\ pod = [name |-> 0, usage |-> 0]
  /\ ctr = [n \in Name |-> [born |-> 0, usage |-> 0]]
  /\ step = <<"start", "list">>
  /\ listed = {} /\ todo = {}
  /\ file = [f \in Files |-> Empty]
  /\ meter = [n \in Name |-> 0]
  /\ marks = [f \in Files |-> [begun |-> Mark, over |-> Mark]]
  /\ faults = 0

-----------------------------------------------------------------------------
(* The node. *)

Measuring == step # <<"end", "over">>

Use(n) ==
  /\ Measuring /\ UsedUp(meter) < MaxCpu
  /\ ctr' = [ctr EXCEPT ![n].usage = @ + 1]
  /\ pod' = [pod EXCEPT !.usage = @ + 1]
  /\ meter' = [meter EXCEPT ![n] = @ + 1]
  /\ UNCHANGED <<births, step, listed, todo, file, marks, faults>>

\* A restarted container counts from 0 in a scope of its own; its pod goes on.
Restart(n) ==
  /\ Measuring /\ births < MaxRestarts
  /\ births' = births + 1
  /\ ctr' = [ctr EXCEPT ![n] = [born |-> births', usage |-> 0]]
  /\ UNCHANGED <<pod, step, listed, todo, file, meter, marks, faults>>

\* The DaemonSet's pod is another one: every counter starts again.
Replace ==
  /\ Measuring /\ births < MaxRestarts
  /\ births' = births + 1
  /\ pod' = [name |-> births', usage |-> 0]
  /\ ctr' = [n \in Name |-> [born |-> births', usage |-> 0]]
  /\ UNCHANGED <<step, listed, todo, file, meter, marks, faults>>

Scopes == {<<ctr[n].born, n>> : n \in Name}

-----------------------------------------------------------------------------
(* node_snap, into the file f. *)

At(f, s) == step = <<f, s>>
Goto(f, s) == step' = <<f, s>>
Fail == faults < MaxFaults /\ faults' = faults + 1
Over(f) == Goto(f, "over") /\ marks' = [marks EXCEPT ![f].over = Mark]

\* probe_pod_of, odigos_pods_on: without a probe pod the file stays empty, and
\* without the pods it will hold the node's root alone.
List(f) ==
  /\ \/ At(f, "list")
     \/ f = "end" /\ At("start", "over")
  /\ \/ Goto(f, "time") /\ listed' = {pod.name} /\ UNCHANGED faults
        /\ marks' = [marks EXCEPT ![f].begun = Mark]
     \/ Goto(f, "time") /\ listed' = {} /\ Fail
        /\ marks' = [marks EXCEPT ![f].begun = Mark]
     \/ Goto(f, "over") /\ listed' = {} /\ Fail
        /\ marks' = [marks EXCEPT ![f] = [begun |-> Mark, over |-> Mark]]
  /\ UNCHANGED <<node, todo, file>>

ReadTime(f) ==
  /\ At(f, "time")
  /\ file' = [file EXCEPT ![f].ts = TRUE]
  /\ Goto(f, "pod")
  /\ UNCHANGED <<node, listed, todo, marks, faults>>

\* The pod's own counter, then the names of its scopes; a pod whose cgroup is gone
\* is a section without counters.
ReadPod(f) ==
  /\ At(f, "pod")
  /\ IF pod.name \in listed
     THEN /\ file' = [file EXCEPT ![f].pods = {[pod |-> pod.name, usage |-> pod.usage]}]
          /\ todo' = Scopes
     ELSE UNCHANGED <<file, todo>>
  /\ Goto(f, "scopes")
  /\ UNCHANGED <<node, listed, marks, faults>>

\* A scope that is gone when its turn comes is passed over.
ReadScope(f, s) ==
  /\ At(f, "scopes") /\ s \in todo
  /\ file' = [file EXCEPT ![f].ctrs = @ \cup
                {[pod |-> p, id |-> s, usage |-> ctr[s[2]].usage] : p \in {q \in listed : s \in Scopes}}]
  /\ todo' = todo \ {s}
  /\ UNCHANGED <<node, step, listed, marks, faults>>

\* The shell in the probe pod is through, or the exec breaks off on the way.
EndExec(f) ==
  /\ \/ At(f, "scopes") /\ todo = {} /\ UNCHANGED faults
     \/ step \in {f} \X {"time", "pod", "scopes"} /\ Fail
  /\ Goto(f, "map") /\ todo' = {}
  /\ UNCHANGED <<node, listed, file, marks>>

\* Mutant: the ids keep their "containerd://", which no scope's name has.
MutReadMap(f) ==
  /\ At(f, "map")
  /\ file' = [file EXCEPT ![f].map = {[pod |-> pod.name, id |-> <<-1, n>>, name |-> n] :
                                       n \in {m \in Name : pod.name \in listed}}]
  /\ Over(f)
  /\ UNCHANGED <<node, listed, todo, faults>>

\* The pod's status, asked for last: a pod that is gone has none.
ReadMap(f) ==
  /\ At(f, "map")
  /\ \/ /\ file' = [file EXCEPT ![f].map =
                      {[pod |-> pod.name, id |-> <<ctr[n].born, n>>, name |-> n] :
                         n \in {m \in Name : pod.name \in listed}}]
        /\ UNCHANGED faults
     \/ Fail /\ UNCHANGED file
  /\ Over(f)
  /\ UNCHANGED <<node, listed, todo>>

Node == (\E n \in Name : Use(n) \/ Restart(n)) \/ Replace
Snap(f) == List(f) \/ ReadTime(f) \/ ReadPod(f) \/ (\E s \in todo : ReadScope(f, s)) \/ EndExec(f) \/ ReadMap(f)

Next == Node \/ \E f \in Files : Snap(f)

Spec == Init /\ [][Next]_vars

-----------------------------------------------------------------------------
(* node_delta.py. *)

\* main: no figure without both time stamps.
Window == file["start"].ts /\ file["end"].ts

\* Mutant: what the first file lacks is taken for 0.
MutCores(x, before) ==
  IF Window THEN {x.usage - (IF before = {} THEN 0 ELSE (CHOOSE y \in before : TRUE).usage)} ELSE {}

\* cores: the difference of a counter both files have.
Cores(x, before) == IF Window THEN {x.usage - y.usage : y \in before} ELSE {}

PodCores(x) == Cores(x, {y \in file["start"].pods : y.pod = x.pod})

\* Mutant: a container is looked for in the first file by its name.
MutCtrCores(x) == Cores(x, {y \in file["start"].ctrs : y.pod = x.pod /\ y.id[2] = x.id[2]})
CtrCores(x) == Cores(x, {y \in file["start"].ctrs : y.pod = x.pod /\ y.id = x.id})

\* A scope has the name the second file's map gives it; any other is a sandbox.
NameOf(x) == {m.name : m \in {m \in file["end"].map : m.pod = x.pod /\ m.id = x.id}}

Sum(X) == MapThenSumSet(LAMBDA x : MapThenSumSet(LAMBDA c : c, CtrCores(x)), X)

\* odiglet_cores, and the same of another name; 0 when nothing is known.
Charged(n) == Sum({x \in file["end"].ctrs : NameOf(x) = {n}})

\* Whether node_delta.py lists a container of this name with a figure.
Listed(n) == \E x \in file["end"].ctrs : NameOf(x) = {n} /\ CtrCores(x) # {}

\* Mutant: a later container's figure replaces the sum.
MutContainersSum(p) ==
  LET X == {x \in file["end"].ctrs : x.pod = p} IN IF X = {} THEN 0 ELSE Sum({CHOOSE x \in X : TRUE})

\* containers_sum_cores, whatever the names.
ContainersSum(p) == Sum({x \in file["end"].ctrs : x.pod = p})

-----------------------------------------------------------------------------
Done == step = <<"end", "over">>

\* "The agent's cost is thereby measured where it is paid" (node_delta.py:12): a
\* name is never charged more than its containers used from the beginning of the
\* first reading to the end of the second; and one that is listed with a figure is
\* charged at least what they used from the end of the first to the beginning of
\* the second, whatever restarted meanwhile.  A 0 without a listed figure says
\* nothing.
ChargedWhatItUsed ==
  Done => \A n \in Name :
    /\ Charged(n) <= marks["end"].over.meter[n] - marks["start"].begun.meter[n]
    /\ Listed(n) => Charged(n) >= marks["end"].begun.meter[n] - marks["start"].over.meter[n]

\* A counter only grows while its cgroup lives, and a scope's id is its own: no
\* restart makes a pod or a container give CPU back (node_delta.py:76-79).
NeverNegative ==
  /\ \A x \in file["end"].pods : \A c \in PodCores(x) : c >= 0
  /\ \A x \in file["end"].ctrs : \A c \in CtrCores(x) : c >= 0

\* "the pod total stays as a cross-check that the container scopes account for the
\* pod" (node_delta.py:10): they miss each other by no more than what was used
\* while the files were read, unless a container or the pod restarted, or a
\* reading broke off.
ScopesAccountForPod ==
  Done /\ marks["start"].begun.births = births /\ faults = 0 =>
    LET Reading(f) == UsedUp(marks[f].over.meter) - UsedUp(marks[f].begun.meter)
    IN \A x \in file["end"].pods : \A c \in PodCores(x) :
         /\ c <= ContainersSum(x.pod) + Reading("start")
         /\ ContainersSum(x.pod) <= c + Reading("end")
=============================================================================
