---------------------------- MODULE MCPollCycle ----------------------------
(* PollCycle for TLC: the cfg files give the bounds.                       *)
EXTENDS PollCycle
============================================================================
