---------------------------- MODULE MCEdgeQueue ----------------------------
(* EdgeQueue for TLC: the cfg files give the bounds.                       *)
EXTENDS EdgeQueue
============================================================================
