------------------------------- MODULE Deltas -------------------------------
(***************************************************************************)
(* bin/lib/{cgroup,sink,jvm}_delta.py: what two snapshots become.          *)
(*                                                                         *)
(* A snapshot file is created by the redirection whatever the kubectl exec *)
(* does, so a failed read is an empty file, here the empty set.  A delta   *)
(* script that raises leaves an empty .json; one that does not raise       *)
(* leaves a well-formed one, whatever it could read.                       *)
(***************************************************************************)
EXTENDS Integers

\* cgroup_delta.py: b['ts_ns'] - a['ts_ns'] raises KeyError on an empty file.
\* The figures that matter to the gate are those of a window with a fixed
\* cost per request and an exclusive core.
CpuDelta(start, end) ==
  { [nrThrottled |-> 0, throttledUs |-> 0, windowUs |-> 1,
     cpuMax |-> {[quota |-> {}, period |-> 1]}, cpuset |-> {b.cpuset},
     cpusetStart |-> {a.cpuset}, cpusetSize |-> b.size] : a \in start, b \in end }

HalfDelta(start, end) == { b.msPerReq : b \in { x \in end : start # {} } }

\* Sum over the service's counters of one scrape; an empty scrape has none.
Calls(scrape) == IF scrape = {} THEN 0 ELSE CHOOSE n \in scrape : TRUE

\* sink_delta.py: by_kind ranges over the keys of the second scrape only and a
\* missing key counts as 0, so an empty scrape is not an error.  The window of
\* the sink ends when the job completed; without a completion time the length,
\* and so the request count, is negative.
SinkDelta(start, end, completed) ==
  LET spans == IF end = {} THEN 0 ELSE Calls(end) - Calls(start) IN
  { [refused |-> 0, failed |-> 0, spansPerReq |-> {IF completed THEN spans ELSE -spans}] }

\* jvm_delta.py: total() of a family nobody printed is None, and so is a delta
\* with a None in it.
JvmDelta(start, end) ==
  { [compileMsPerMin |-> { b - a : a \in start, b \in end }] }
=============================================================================
