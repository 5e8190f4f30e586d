---------------------------- MODULE MCNodeProbe -----------------------------
(* The node probe on an Odigos pod of two containers. *)
EXTENDS NodeProbe

TwoContainers == {"odiglet", "data-collection"}
=============================================================================
