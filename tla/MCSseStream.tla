---------------------------- MODULE MCSseStream ----------------------------
(* SseStream for TLC: the cfg files give the bounds.                       *)
EXTENDS SseStream, TLC

\* A dashboard that asks for no minor alerts, and the page of a property.
CONSTANTS dashboard, page

MCFilter == (dashboard :> [properties |-> {}, kinds |-> {}, least |-> 2])
                @@ (page :> [properties |-> {"p1"}, kinds |-> {}, least |-> 4])

Opened(p, s) == [kind |-> "alert.opened", property |-> p, severity |-> s]
Changed == [kind |-> "alert.state_changed", property |-> "p1", severity |-> 4]
MCMessages == {Opened("p1", 1), Opened("p2", 3), Changed}

\* Connections and workers are only compared with each other.
Interchangeable == Permutations(Conns) \cup Permutations(Workers)
============================================================================
