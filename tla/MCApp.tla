------------------------------- MODULE MCApp --------------------------------
(***************************************************************************)
(* TLC instance of App: two Tomcat threads, two calibration threads and a  *)
(* ring of two slots, a request for each.                                  *)
(***************************************************************************)
EXTENDS App

CONSTANTS t1, t2, w1, w2

PresetS == [jdbc |-> 3, redis |-> 2, http |-> 1]
HttpSet == [http |-> 2]
Queries == {[k \in {} |-> 0], [jdbc |-> 0], [redis |-> -1]}
=============================================================================
