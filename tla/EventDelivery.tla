--------------------------- MODULE EventDelivery ---------------------------
(***************************************************************************)
(* What the transactional outbox promises to whoever listens: an event is  *)
(* delivered only if the transaction that recorded it was committed, no    *)
(* event is withdrawn, and every recorded event is delivered in the end.   *)
(* How often, and in which order, is left open: delivery is at least once. *)
(***************************************************************************)
CONSTANT Events

VARIABLES
    recorded,   \* events of committed transactions
    delivered   \* events that listeners have been sent

vars == <<recorded, delivered>>

Init == recorded = {} /\ delivered = {}

Record(e) ==
    /\ e \notin recorded
    /\ recorded' = recorded \cup {e}
    /\ UNCHANGED delivered

Deliver(e) ==
    /\ e \in recorded \ delivered
    /\ delivered' = delivered \cup {e}
    /\ UNCHANGED recorded

Next == \E e \in Events : Record(e) \/ Deliver(e)

SafeSpec == Init /\ [][Next]_vars
Spec == SafeSpec /\ \A e \in Events : WF_vars(Deliver(e))

============================================================================
