------------------------------- MODULE Bench --------------------------------
(***************************************************************************)
(* bin/run.sh and analysis/analyze.py together: the rows the runner leaves *)
(* on disk are what the analysis reads, at any time and after any ending.  *)
(***************************************************************************)
EXTENDS RunnerLog, Analysis

\* What load_arm makes of a row: a cpu.json with a figure gives the metric, here
\* one cost for every request, and never a t0_ns (cgroup_delta.py writes none).
Loaded(w) ==
  [arm |-> w.arm, slot |-> w.slot, k6 |-> w.k6, gate |-> w.gate, meta |-> w.meta, pod |-> w.pod,
   ms |-> IF w.cpu THEN {Snap.msPerReq} ELSE {}, t0 |-> {}, window |-> w]
Dir(c) == [n \in DOMAIN rows[c] |-> Loaded(rows[c][n])]

\* The windows of the runner behind a set of loaded ones.
Behind(W) == {w.window : w \in W}

Pairs(c) == UNION {PairedRows(Dir(c), a) : a \in Instrumented(Dir(c))}

\* The windows a published figure of the cell rests on.
Analysed(c) ==
  Behind(Pooled(Dir(c))
         \cup UNION {r.baselines \cup {r.on} : r \in ValidBrackets(Dir(c))}
         \cup UNION {p.windows \cup p.offs : p \in Pairs(c)})

-----------------------------------------------------------------------------
\* "Two views of the same accepted arms, never of rejected ones"
\* (analyze.py:4): every analysed window was accepted by the gate.
AnalysedWereAccepted == \A c \in Cell : \A w \in Analysed(c) : w.gate = "accepted"

\* Both sides of a bracketed comparison ran what they are labelled with, unless
\* the gate never judged one of them: the instrumented window on its agent and
\* the baselines on none, from opening to closing (analyze.py:170-184,
\* METHODOLOGY.md section 5).
BracketComparesAgentWithNone ==
  \A c \in Cell : \A r \in ValidBrackets(Dir(c)) :
    (\A w \in Behind(r.baselines \cup {r.on}) : w.gate \in {"accepted", "rejected"}) =>
      /\ r.on.window.agentClose = r.on.arm
      /\ \A w \in Behind(r.baselines) : w.agentOpen = Off /\ w.agentClose = Off

\* The same for a paired comparison (analyze.py:373-397); a baseline of a
\* process that carried the agent before is not a baseline.
PairedComparesAgentWithNone ==
  \A c \in Cell : \A p \in Pairs(c) :
    /\ \A w \in Behind(p.windows) : w.agentClose = w.arm
    /\ \A w \in Behind(p.offs) : w.agentOpen = Off /\ w.agentClose = Off

\* "Every comparison is made inside one process" (METHODOLOGY.md:91).
PairedInOneProcess ==
  \A c \in Cell : \A p \in Pairs(c) : \A v, w \in Behind(p.windows \cup p.offs) : v.opened = w.opened

\* "reported and skipped, never fatal" (analyze.py:26-27): no run directory
\* makes the analysis raise.
AnalysisSucceeds == \A c \in Cell : ~PrintFails(<<Dir(c)>>)
=============================================================================
