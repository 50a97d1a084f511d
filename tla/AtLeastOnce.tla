---------------------------- MODULE AtLeastOnce ----------------------------
(***************************************************************************)
(* What the outbound queue of an edge program promises to whoever puts     *)
(* messages into it.  A message is kept until the backend has answered for *)
(* it or the queue gives it up.  Requests hold the oldest of what is kept, *)
(* and nothing that has left the queue as delivered.  Which messages of a  *)
(* request arrive, how often, and when, the queue cannot promise: one may  *)
(* arrive late, and even after it was sent again and acknowledged.  How    *)
(* much is kept and what makes the queue give a message up is left open.   *)
(***************************************************************************)
EXTENDS Naturals

VARIABLES
    accepted,   \* how many messages were put in; the n-th has number n
    kept,       \* messages the queue still holds
    offered,    \* messages of requests that reached the backend
    arrived,    \* messages the backend has handled, or listed as rejected
    givenUp     \* messages the queue has given up

vars == <<accepted, kept, offered, arrived, givenUp>>

Init == accepted = 0 /\ kept = {} /\ offered = {} /\ arrived = {} /\ givenUp = {}

\* The queue may have to give up others for it, or the new one itself.
Accept ==
    /\ accepted' = accepted + 1
    /\ kept' \subseteq kept \cup {accepted'}
    /\ givenUp' = givenUp \cup ((kept \cup {accepted'}) \ kept')
    /\ UNCHANGED <<offered, arrived>>

\* One request, of the oldest there are, and those of it that arrive at once.
\* A message may be given up while it is on its way.
Offer(batch, handled) ==
    /\ \A n \in batch, older \in kept : older < n => older \in batch
    /\ offered' = offered \cup batch
    /\ arrived' = arrived \cup handled
    /\ UNCHANGED <<accepted, kept, givenUp>>

\* A message of an earlier request.
Arrive(n) ==
    /\ arrived' = arrived \cup {n}
    /\ UNCHANGED <<accepted, kept, offered, givenUp>>

\* Only what has arrived is dropped without being given up.
Leave(batch) ==
    /\ batch \subseteq arrived
    /\ kept' = kept \ batch
    /\ UNCHANGED <<accepted, offered, arrived, givenUp>>

GiveUp(batch) ==
    /\ kept' = kept \ batch
    /\ givenUp' = givenUp \cup batch
    /\ UNCHANGED <<accepted, offered, arrived>>

Next ==
    \/ Accept
    \/ \E batch \in SUBSET (kept \cup givenUp) : \E handled \in SUBSET batch :
          Offer(batch, handled)
    \/ \E n \in offered : Arrive(n)
    \/ \E batch \in SUBSET kept : Leave(batch) \/ GiveUp(batch)

Spec == Init /\ [][Next]_vars

============================================================================
