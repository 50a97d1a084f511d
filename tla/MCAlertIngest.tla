-------------------------- MODULE MCAlertIngest --------------------------
(* AlertIngest for TLC: the cfg files give the bounds.                     *)
EXTENDS AlertIngest, TLC

\* Requests, fixes and devices are only compared with each other.
Interchangeable ==
    Permutations(Requests) \cup Permutations(Fixes) \cup Permutations(Devices)
============================================================================
