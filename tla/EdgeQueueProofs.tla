-------------------------- MODULE EdgeQueueProofs --------------------------
(***************************************************************************)
(* What EdgeQueue guarantees for every batch size, every cap and any       *)
(* number of messages, failures and restarts.                              *)
(***************************************************************************)
EXTENDS EdgeQueue, FiniteSetTheorems, WellFoundedInduction, TLAPS

USE LimitAssumption, CapAssumption, ParksAssumption, BoundAssumption

-----------------------------------------------------------------------------
(* The inductive invariant.                                                *)

Ids == 1..Len(made)

\* The typing part of TypeOK.
Types ==
    /\ made \in Seq(Message) /\ Len(made) <= MaxRows
    /\ pending \subseteq Ids /\ parked \subseteq Ids
    /\ trimmed \subseteq Ids /\ discarded \subseteq Ids
    /\ received \subseteq Ids /\ rejected \subseteq Ids
    /\ offered \subseteq Ids /\ late \in Seq(SUBSET (1..MaxRows))
    /\ upc \in {"take", "send", "answer"}
    /\ batch \subseteq Ids
    /\ response \in {"none", "ok", "failed", "refused"}
    /\ \A b \in DOMAIN refusals : b \subseteq Ids /\ refusals[b] \in Nat
    /\ refused \in [1..MaxRows -> 0..MaxRefusals]
    /\ failures \in 0..MaxFailures

\* What the uploader has in its hands: its batch is a head of the queue, and
\* what it knows of the answer is true of every row of the batch.
InHand ==
    /\ upc = "take" => batch = {}
    /\ \A a \in pending, b \in batch : a < b => a \in batch
    /\ upc = "answer" /\ response = "ok" => batch \subseteq received \cup rejected
    /\ upc = "answer" /\ response = "refused" =>
            \A n \in batch : refused[n] = MaxRefusals \/ refused[n] >= Count

\* A refusal that was counted for a batch happened to each of its rows.
Counted ==
    \A b \in DOMAIN refusals : \A n \in b :
        refused[n] = MaxRefusals \/ refused[n] >= refusals[b]

\* What may still be handled has been put before the backend.
LateWasOffered == \A i \in DOMAIN late : late[i] \subseteq offered

IInv == /\ Types /\ InHand /\ Counted /\ LateWasOffered
        /\ Accounted /\ OldestFirst /\ ParkedWasRefused

LEMMA Numbers ==
    ASSUME Types
    PROVE  /\ Len(made) \in Nat /\ failures \in Nat
           /\ \A n \in 1..MaxRows : refused[n] \in Nat /\ refused[n] <= MaxRefusals
           /\ Ids \subseteq 1..MaxRows
           /\ \A n \in Ids : n \in Nat
           /\ Count \in Nat \ {0}
<1>1. failures \in 0..MaxFailures /\ Len(made) \in Nat /\ Len(made) <= MaxRows
  BY DEF Types
<1>2. ASSUME NEW n \in 1..MaxRows
      PROVE  refused[n] \in Nat /\ refused[n] <= MaxRefusals
  <2>1. refused[n] \in 0..MaxRefusals
    BY DEF Types
  <2>2. QED
    BY <2>1
<1>3. Count \in Nat \ {0}
  <2>1. CASE batch \in DOMAIN refusals
    <3>1. refusals[batch] \in Nat
      BY <2>1 DEF Types
    <3>2. Count = 1 + refusals[batch]
      BY <2>1 DEF Count
    <3>3. QED
      BY <3>1, <3>2
  <2>2. CASE batch \notin DOMAIN refusals
    BY <2>2 DEF Count
  <2>3. QED
    BY <2>1, <2>2
<1>4. QED
  BY <1>1, <1>2, <1>3 DEF Ids

\* The first rows of a set are closed downwards in it.
LEMMA OldestIsHead ==
    ASSUME NEW rows \in SUBSET Nat, IsFiniteSet(rows), NEW k \in Nat,
           NEW a \in rows, NEW b \in Oldest(rows, k), a < b
    PROVE  a \in Oldest(rows, k)
<1> DEFINE below(n) == {m \in rows : m < n}
<1>1. b \in rows /\ Cardinality(below(b)) < k
  BY DEF Oldest
<1>2. below(a) \subseteq below(b) /\ below(b) \subseteq rows
  <2>1. a \in Nat /\ b \in Nat
    BY <1>1
  <2>2. ASSUME NEW m \in rows, m < a PROVE m < b
    <3>1. m \in Nat
      OBVIOUS
    <3>2. QED
      BY <2>1, <2>2, <3>1
  <2>3. QED
    BY <2>2
<1>3. IsFiniteSet(below(b))
  BY <1>2, FS_Subset
<1>4. Cardinality(below(a)) <= Cardinality(below(b))
  BY <1>2, <1>3, FS_Subset
<1>5. Cardinality(below(a)) \in Nat /\ Cardinality(below(b)) \in Nat
  BY <1>2, <1>3, FS_Subset, FS_CardinalityType
<1>6. Cardinality(below(a)) < k
  BY <1>1, <1>4, <1>5
<1>7. QED
  BY <1>6 DEF Oldest

\* _trim deletes nothing that it does not account for.
LEMMA TrimKeeps ==
    ASSUME NEW left, NEW leftParked, Trim(left, leftParked)
    PROVE  /\ pending' \subseteq left /\ parked' \subseteq leftParked
           /\ trimmed' = trimmed \cup (left \ pending')
           /\ discarded' = discarded \cup (leftParked \ parked')
BY DEF Trim, Kept, Periodic, Newest

LEMMA InitIInv == Init => IInv
<1> SUFFICES ASSUME Init PROVE IInv
  OBVIOUS
<1>1. made = <<>> /\ Len(made) = 0 /\ DOMAIN refusals = {}
  BY DEF Init
<1>2. Types
  <2>1. refused \in [1..MaxRows -> 0..MaxRefusals]
    BY DEF Init
  <2>2. made \in Seq(Message)
    BY <1>1
  <2>3. late \in Seq(SUBSET (1..MaxRows))
    BY DEF Init
  <2>4. QED
    BY <1>1, <2>1, <2>2, <2>3 DEF Init, Types
<1>3. InHand /\ Counted /\ LateWasOffered /\ OldestFirst /\ ParkedWasRefused
  BY <1>1 DEF Init, InHand, Counted, LateWasOffered, OldestFirst, ParkedWasRefused
<1>4. Accounted
  BY <1>1 DEF Init, Accounted
<1>5. QED
  BY <1>2, <1>3, <1>4 DEF IInv

-----------------------------------------------------------------------------
(* The steps.                                                              *)

LEMMA EnqueueStep == IInv /\ Enqueue => IInv'
<1> SUFFICES ASSUME IInv, Enqueue PROVE IInv'
  OBVIOUS
<1> DEFINE new == Len(made) + 1
<1> USE DEF IInv
<1>1. /\ Len(made) \in Nat /\ Len(made) < MaxRows
      /\ \A n \in Ids : n \in Nat
  BY Numbers DEF Enqueue
<1>2. PICK m \in Message : made' = Append(made, m)
  BY DEF Enqueue
<1>3. made' \in Seq(Message) /\ Len(made') = new
  BY <1>2 DEF Types
<1>4. Ids' = Ids \cup {new}
  BY <1>1, <1>3 DEF Ids
<1>5. /\ pending' \subseteq pending \cup {new} /\ parked' \subseteq parked
      /\ trimmed' = trimmed \cup ((pending \cup {new}) \ pending')
      /\ discarded' = discarded \cup (parked \ parked')
  BY TrimKeeps DEF Enqueue
<1>6. UNCHANGED <<upc, batch, response, refusals, late, offered, received, rejected,
                  refused, failures>>
  BY DEF Enqueue, uploaderVars, cloudVars
<1>7. \A n \in Ids : n < new
  BY <1>1 DEF Ids
<1>8. Types'
  <2>1. Len(made') <= MaxRows
    BY <1>1, <1>3
  <2>2. QED
    BY <1>3, <1>4, <1>5, <1>6, <2>1 DEF Types
<1>9. InHand'
  <2>1. Count' = Count
    BY <1>6 DEF Count
  <2>2. ASSUME NEW a \in pending', NEW b \in batch, a < b PROVE a \in batch
    <3>1. b \in Ids /\ b < new /\ new \in Nat /\ b \in Nat
      BY <1>1, <1>7 DEF Types
    <3>2. a # new
      BY <2>2, <3>1
    <3>3. a \in pending
      BY <1>5, <3>2
    <3>4. QED
      BY <2>2, <3>3 DEF InHand
  <2>3. QED
    BY <1>6, <2>1, <2>2 DEF InHand
<1>10. Counted' /\ LateWasOffered'
  BY <1>6 DEF Counted, LateWasOffered
<1>11. Accounted'
  <2>1. ASSUME NEW n \in Ids'
        PROVE  n \in pending' \cup parked' \cup received' \cup rejected'
                         \cup trimmed' \cup discarded'
    <3>1. CASE n \in Ids
      BY <1>5, <1>6, <3>1 DEF Accounted, Ids
    <3>2. CASE n = new
      BY <1>5, <3>2
    <3>3. QED
      BY <1>4, <3>1, <3>2
  <2>2. QED
    BY <2>1 DEF Accounted, Ids
<1>12. OldestFirst'
  <2>1. ASSUME NEW a \in pending', NEW b \in pending', a < b, b \in offered
        PROVE  a \in offered
    <3>1. b \in Ids /\ b < new /\ new \in Nat /\ b \in Nat
      BY <1>1, <1>7, <2>1 DEF Types
    <3>2. a # new /\ b # new
      BY <2>1, <3>1
    <3>3. QED
      BY <1>5, <2>1, <3>2 DEF OldestFirst
  <2>2. QED
    BY <1>6, <2>1 DEF OldestFirst
<1>13. ParkedWasRefused'
  BY <1>5, <1>6 DEF ParkedWasRefused
<1>14. QED
  BY <1>8, <1>9, <1>10, <1>11, <1>12, <1>13

\* The batch is a head of the queue because a smaller row comes first.
LEMMA TakeStep == IInv /\ Take => IInv'
<1> SUFFICES ASSUME IInv, Take PROVE IInv'
  OBVIOUS
<1> USE DEF IInv
<1>1. /\ batch' = Oldest(pending, Limit) /\ upc' = "send"
      /\ UNCHANGED <<made, pending, parked, trimmed, discarded, response,
                     refusals, late, offered, received, rejected, refused, failures>>
  BY DEF Take, queueVars, cloudVars
<1>2. batch' \subseteq pending /\ pending \subseteq Ids
  BY <1>1 DEF Oldest, Types
<1>3. pending \in SUBSET Nat /\ IsFiniteSet(pending)
  <2>1. Len(made) \in Nat
    BY Numbers
  <2>2. IsFiniteSet(1..Len(made))
    BY <2>1, FS_Interval
  <2>3. QED
    BY <1>2, <2>2, FS_Subset, Numbers DEF Ids
<1>4. Types'
  BY <1>1, <1>2 DEF Types, Ids
<1>5. InHand'
  <2>1. \A a \in pending, b \in batch' : a < b => a \in batch'
    BY <1>1, <1>3, OldestIsHead
  <2>2. QED
    BY <1>1, <2>1 DEF InHand
<1>6. Counted' /\ LateWasOffered' /\ Accounted' /\ OldestFirst' /\ ParkedWasRefused'
  BY <1>1 DEF Counted, LateWasOffered, Accounted, OldestFirst, ParkedWasRefused
<1>7. QED
  BY <1>4, <1>5, <1>6

\* What a request can do: messages are handled or rejected at once only with the
\* whole batch, or remain to be handled; a refusal is counted for every row.
LEMMA Effects ==
    ASSUME IInv, Send
    PROVE  /\ received \subseteq received' /\ rejected \subseteq rejected'
           /\ received' \subseteq received \cup batch
           /\ rejected' \subseteq rejected \cup batch
           /\ \/ offered' = offered /\ UNCHANGED <<late, received, rejected>>
              \/ offered' = offered \cup batch /\ late' \in {late, Append(late, batch)}
           /\ response' = "ok" => batch \subseteq received' \cup rejected'
           /\ response' \in {"ok", "failed", "refused"}
           /\ response' = "refused" \/ refused' = refused
           /\ response' = "refused" =>
                refused' = [n \in DOMAIN refused |->
                              IF n \in batch /\ refused[n] < MaxRefusals
                              THEN refused[n] + 1 ELSE refused[n]]
           /\ failures' \in 0..MaxFailures
<1>1. failures \in 0..MaxFailures /\ MaxFailures \in Nat
  BY DEF IInv, Types
<1>2. failures' \in 0..MaxFailures
  <2>1. failures' = failures \/ (failures < MaxFailures /\ failures' = failures + 1)
    BY DEF Send, CanFail, Refuse
  <2>2. QED
    BY <1>1, <2>1
<1>3. CASE Refuse
  BY <1>2, <1>3 DEF Refuse
<1>4. CASE /\ received' = received \cup batch /\ Offer /\ response' = "ok"
           /\ UNCHANGED <<late, rejected, refused>>
  BY <1>2, <1>4 DEF Offer
<1>5. CASE /\ response' = "failed" /\ UNCHANGED cloudVars
  BY <1>2, <1>5 DEF cloudVars
<1>6. CASE response' = "failed" /\ Unanswered
  BY <1>2, <1>6 DEF Unanswered, Offer
<1>7. CASE \E part \in SUBSET batch :
              /\ rejected' = rejected \cup part /\ response' = "ok" /\ Offer
              /\ received' = received \cup (batch \ part)
              /\ UNCHANGED <<late, refused>>
  BY <1>2, <1>7 DEF Offer
<1>8. QED
  BY <1>3, <1>4, <1>5, <1>6, <1>7 DEF Send

\* A batch that is offered is the head of the queue, so that nothing is overtaken.
LEMMA OfferKeepsOrder ==
    ASSUME IInv, UNCHANGED pending, offered' = offered \cup batch
    PROVE  OldestFirst'
<1>1. ASSUME NEW a \in pending, NEW b \in pending, a < b, b \in offered \cup batch
      PROVE  a \in offered \cup batch
  BY <1>1 DEF IInv, OldestFirst, InHand
<1>2. QED
  BY <1>1 DEF OldestFirst

\* What is given up was offered.
LEMMA GivenUpWasOffered ==
    ASSUME IInv, offered' = offered \cup batch, late' \in {late, Append(late, batch)}
    PROVE  LateWasOffered' /\ late' \in Seq(SUBSET (1..MaxRows))
<1>1. late \in Seq(SUBSET (1..MaxRows)) /\ batch \in SUBSET (1..MaxRows)
  BY Numbers DEF IInv, Types
<1>2. \A i \in DOMAIN late : late[i] \subseteq offered
  BY DEF IInv, LateWasOffered
<1>3. CASE late' = late
  BY <1>1, <1>2, <1>3 DEF LateWasOffered
<1>4. CASE late' = Append(late, batch)
  <2>1. /\ late' \in Seq(SUBSET (1..MaxRows)) /\ DOMAIN late' = 1..(Len(late) + 1)
        /\ \A i \in DOMAIN late' : late'[i] = IF i = Len(late) + 1 THEN batch ELSE late[i]
    BY <1>1, <1>4
  <2>2. \A i \in DOMAIN late' : i # Len(late) + 1 => i \in DOMAIN late
    BY <1>1, <2>1
  <2> QED
    BY <1>2, <2>1, <2>2 DEF LateWasOffered
<1>5. QED
  BY <1>3, <1>4

LEMMA SendStep == IInv /\ Send => IInv'
<1> SUFFICES ASSUME IInv, Send PROVE IInv'
  OBVIOUS
<1> USE DEF IInv
<1>1. /\ upc = "send" /\ upc' = "answer"
      /\ UNCHANGED <<made, pending, parked, trimmed, discarded, batch, refusals>>
  BY DEF Send, queueVars
<1>2. ASSUME NEW n \in 1..MaxRows
      PROVE  /\ refused'[n] \in 0..MaxRefusals /\ refused'[n] >= refused[n]
             /\ response' = "refused" /\ n \in batch =>
                    refused'[n] = MaxRefusals \/ refused'[n] = refused[n] + 1
  <2>1. /\ refused[n] \in Nat /\ refused[n] <= MaxRefusals
        /\ DOMAIN refused = 1..MaxRows
    BY Numbers DEF Types
  <2>2. CASE response' = "refused"
    <3>1. refused'[n] = IF n \in batch /\ refused[n] < MaxRefusals
                        THEN refused[n] + 1 ELSE refused[n]
      BY <2>1, <2>2, Effects
    <3>2. QED
      BY <2>1, <3>1
  <2>3. CASE response' # "refused"
    BY <2>1, <2>3, Effects
  <2>4. QED
    BY <2>2, <2>3
<1>3. refused' \in [1..MaxRows -> 0..MaxRefusals]
  <2>1. DOMAIN refused = 1..MaxRows
    BY DEF Types
  <2>2. CASE response' = "refused"
    <3>1. refused' = [n \in 1..MaxRows |-> refused'[n]]
      BY <2>1, <2>2, Effects
    <3>2. QED
      BY <1>2, <3>1
  <2>3. CASE response' # "refused"
    BY <2>3, Effects DEF Types
  <2>4. QED
    BY <2>2, <2>3
<1>4. Types'
  <2>1. received' \subseteq Ids /\ rejected' \subseteq Ids
    BY Effects DEF Types
  <2>2. failures' \in 0..MaxFailures /\ response' \in {"ok", "failed", "refused"}
    BY Effects
  <2>3. offered' \subseteq Ids
    BY Effects DEF Types
  <2>4. late' \in Seq(SUBSET (1..MaxRows))
    BY Effects, GivenUpWasOffered DEF Types
  <2>5. QED
    BY <1>1, <1>3, <2>1, <2>2, <2>3, <2>4 DEF Types, Ids
<1>5. batch \subseteq 1..MaxRows
  BY Numbers DEF Types
<1>6. \A b \in DOMAIN refusals : refusals[b] \in Nat /\ b \subseteq 1..MaxRows
  BY Numbers DEF Types
<1>7. InHand'
  <2>1. ASSUME response' = "refused", NEW n \in batch
        PROVE  refused'[n] = MaxRefusals \/ refused'[n] >= Count
    <3>1. /\ refused[n] \in Nat /\ refused[n] <= MaxRefusals
          /\ refused'[n] \in 0..MaxRefusals /\ refused'[n] >= refused[n]
          /\ refused'[n] = MaxRefusals \/ refused'[n] = refused[n] + 1
      BY <1>2, <1>5, <2>1, Numbers
    <3>2. CASE batch \in DOMAIN refusals
      <4>1. Count = 1 + refusals[batch] /\ refusals[batch] \in Nat
        BY <1>6, <3>2 DEF Count
      <4>2. refused[n] = MaxRefusals \/ refused[n] >= refusals[batch]
        BY <3>2 DEF Counted
      <4>3. QED
        BY <3>1, <4>1, <4>2
    <3>3. CASE batch \notin DOMAIN refusals
      <4>1. Count = 1
        BY <3>3 DEF Count
      <4>2. QED
        BY <3>1, <4>1
    <3>4. QED
      BY <3>2, <3>3
  <2>2. Count' = Count
    BY <1>1 DEF Count
  <2>3. response' = "ok" => batch \subseteq received' \cup rejected'
    BY Effects
  <2>4. \A a \in pending, b \in batch : a < b => a \in batch
    BY DEF InHand
  <2>5. QED
    BY <1>1, <2>1, <2>2, <2>3, <2>4 DEF InHand
<1>8. Counted'
  <2>1. ASSUME NEW b \in DOMAIN refusals, NEW n \in b
        PROVE  refused'[n] = MaxRefusals \/ refused'[n] >= refusals[b]
    <3>1. /\ refusals[b] \in Nat /\ refused[n] \in Nat
          /\ refused[n] = MaxRefusals \/ refused[n] >= refusals[b]
      BY <1>6, Numbers DEF Counted
    <3>2. refused'[n] \in 0..MaxRefusals /\ refused'[n] >= refused[n]
      BY <1>2, <1>6
    <3>3. QED
      BY <3>1, <3>2
  <2>2. QED
    BY <1>1, <2>1 DEF Counted
<1>9. Accounted'
  BY <1>1, Effects DEF Accounted
<1>10. OldestFirst' /\ LateWasOffered'
  <2>1. CASE offered' = offered /\ late' = late
    BY <1>1, <2>1 DEF OldestFirst, LateWasOffered
  <2>2. CASE offered' = offered \cup batch /\ late' \in {late, Append(late, batch)}
    BY <1>1, <2>2, OfferKeepsOrder, GivenUpWasOffered
  <2>3. QED
    BY <2>1, <2>2, Effects
<1>11. ParkedWasRefused'
  <2>1. ASSUME NEW n \in parked \cup discarded
        PROVE  refused'[n] >= MaxRefusals
    <3>1. n \in 1..MaxRows
      BY Numbers DEF Types
    <3>2. refused[n] >= MaxRefusals /\ refused[n] \in Nat
      BY <3>1, Numbers DEF ParkedWasRefused
    <3>3. QED
      BY <1>2, <3>1, <3>2
  <2>2. QED
    BY <1>1, <2>1 DEF ParkedWasRefused
<1>12. QED
  BY <1>4, <1>7, <1>8, <1>9, <1>10, <1>11

LEMMA AckStep == IInv /\ Ack => IInv'
<1> SUFFICES ASSUME IInv, Ack PROVE IInv'
  OBVIOUS
<1> USE DEF IInv
<1>1. /\ pending' = pending \ batch /\ refusals' = <<>> /\ batch' = {}
      /\ upc' = "take" /\ response' = "none"
      /\ UNCHANGED <<made, parked, trimmed, discarded, late, offered, received,
                     rejected, refused, failures>>
      /\ batch \subseteq received \cup rejected
  BY DEF Ack, Done, cloudVars, InHand
<1>2. DOMAIN refusals' = {}
  BY <1>1
<1>3. Types'
  BY <1>1, <1>2 DEF Types, Ids
<1>4. InHand' /\ Counted'
  BY <1>1, <1>2 DEF InHand, Counted
<1>5. LateWasOffered' /\ Accounted' /\ OldestFirst' /\ ParkedWasRefused'
  BY <1>1 DEF LateWasOffered, Accounted, OldestFirst, ParkedWasRefused
<1>6. QED
  BY <1>3, <1>4, <1>5

LEMMA RetryStep == IInv /\ Retry => IInv'
<1> SUFFICES ASSUME IInv, Retry PROVE IInv'
  OBVIOUS
<1> USE DEF IInv
<1>1. /\ upc = "answer" /\ batch' = {} /\ upc' = "take" /\ response' = "none"
      /\ UNCHANGED <<made, pending, parked, trimmed, discarded, late, offered,
                     received, rejected, refused, failures>>
  BY DEF Retry, Done, queueVars, cloudVars
<1>2. CASE Parks /\ response = "refused"
  <2>1. refusals' = [b \in DOMAIN refusals \cup {batch} |->
                        IF b = batch THEN Count ELSE refusals[b]]
    BY <1>2 DEF Retry
  <2>2. \A n \in batch : refused[n] = MaxRefusals \/ refused[n] >= Count
    BY <1>1, <1>2 DEF InHand
  <2>3. Counted'
    BY <1>1, <2>1, <2>2 DEF Counted
  <2>4. \A b \in DOMAIN refusals' : b \subseteq Ids /\ refusals'[b] \in Nat
    BY <2>1, Numbers DEF Types
  <2>5. QED
    BY <1>1, <2>3, <2>4 DEF Types, Ids, InHand, LateWasOffered, Accounted,
                            OldestFirst, ParkedWasRefused
<1>3. CASE ~(Parks /\ response = "refused")
  <2>1. refusals' = refusals
    BY <1>3 DEF Retry
  <2>2. QED
    BY <1>1, <2>1 DEF Types, Ids, InHand, Counted, LateWasOffered, Accounted,
                      OldestFirst, ParkedWasRefused
<1>4. QED
  BY <1>2, <1>3

\* Count refusals of the batch are refusals of each of its rows.
LEMMA ParkStep == IInv /\ Park => IInv'
<1> SUFFICES ASSUME IInv, Park PROVE IInv'
  OBVIOUS
<1> USE DEF IInv
<1>1. /\ pending' \subseteq pending \ batch
      /\ parked' \subseteq parked \cup (pending \cap batch)
      /\ trimmed' = trimmed \cup ((pending \ batch) \ pending')
      /\ discarded' = discarded \cup ((parked \cup (pending \cap batch)) \ parked')
  BY TrimKeeps DEF Park
<1>2. /\ upc = "answer" /\ batch' = {} /\ upc' = "take" /\ response' = "none"
      /\ response = "refused" /\ Count >= MaxRefusals
      /\ refusals' = [b \in DOMAIN refusals \ {batch} |-> refusals[b]]
      /\ UNCHANGED <<made, late, offered, received, rejected, refused, failures>>
  BY DEF Park, Enough, Done, cloudVars
<1>3. ASSUME NEW n \in batch PROVE refused[n] >= MaxRefusals
  <2>1. refused[n] = MaxRefusals \/ refused[n] >= Count
    BY <1>2 DEF InHand
  <2>2. refused[n] \in Nat /\ Count \in Nat
    BY Numbers DEF Types
  <2>3. QED
    BY <1>2, <2>1, <2>2
<1>4. Types'
  BY <1>1, <1>2 DEF Types, Ids
<1>5. InHand' /\ Counted' /\ LateWasOffered'
  BY <1>2 DEF InHand, Counted, LateWasOffered
<1>6. Accounted'
  BY <1>1, <1>2 DEF Accounted
<1>7. OldestFirst'
  BY <1>1, <1>2 DEF OldestFirst
<1>8. ParkedWasRefused'
  BY <1>1, <1>2, <1>3 DEF ParkedWasRefused
<1>9. QED
  BY <1>4, <1>5, <1>6, <1>7, <1>8

LEMMA RestartStep == IInv /\ Restart => IInv'
<1> SUFFICES ASSUME IInv, Restart PROVE IInv'
  OBVIOUS
<1> USE DEF IInv
<1>1. /\ refusals' = <<>> /\ batch' = {} /\ upc' = "take" /\ response' = "none"
      /\ UNCHANGED <<made, pending, parked, trimmed, discarded, received, rejected,
                     refused>>
      /\ \/ UNCHANGED <<late, offered>>
         \/ offered' = offered \cup batch /\ late' \in {late, Append(late, batch)}
  BY DEF Restart, Done, queueVars, cloudVars, Unanswered, Offer
<1>2. DOMAIN refusals' = {}
  BY <1>1
<1>3. failures' \in 0..MaxFailures
  <2>1. failures \in 0..MaxFailures /\ MaxFailures \in Nat
        /\ failures < MaxFailures /\ failures' = failures + 1
    BY DEF Restart, CanFail, Types
  <2>2. QED
    BY <2>1
<1>4. /\ OldestFirst' /\ LateWasOffered' /\ offered' \subseteq Ids
      /\ late' \in Seq(SUBSET (1..MaxRows))
  <2>1. CASE UNCHANGED <<late, offered>>
    BY <1>1, <2>1 DEF OldestFirst, LateWasOffered, Types
  <2>2. CASE offered' = offered \cup batch /\ late' \in {late, Append(late, batch)}
    <3>1. offered' \subseteq Ids
      BY <2>2 DEF Types
    <3>2. QED
      BY <1>1, <2>2, <3>1, OfferKeepsOrder, GivenUpWasOffered
  <2>3. QED
    BY <1>1, <2>1, <2>2
<1>5. Types'
  BY <1>1, <1>2, <1>3, <1>4 DEF Types, Ids
<1>6. InHand' /\ Counted' /\ Accounted' /\ ParkedWasRefused'
  BY <1>1, <1>2 DEF InHand, Counted, Accounted, ParkedWasRefused
<1>7. QED
  BY <1>4, <1>5, <1>6

\* Only a message that was offered is handled late.
LEMMA LateStep == IInv /\ HandleLate => IInv'
<1> SUFFICES ASSUME IInv, HandleLate PROVE IInv'
  OBVIOUS
<1> USE DEF IInv
<1>1. PICK i \in DOMAIN late : \E n \in late[i] :
         /\ received' = received \cup {n}
         /\ late' = [late EXCEPT ![i] = {m \in @ : m > n}]
  BY DEF HandleLate
<1> PICK n \in late[i] : /\ received' = received \cup {n}
                         /\ late' = [late EXCEPT ![i] = {m \in @ : m > n}]
  BY <1>1
<1>2. UNCHANGED <<made, pending, parked, trimmed, discarded, upc, batch, response,
                  refusals, offered, rejected, refused, failures>>
  BY DEF HandleLate, queueVars, uploaderVars
<1>3. n \in offered /\ n \in Ids
  BY DEF LateWasOffered, Types
<1>4. /\ late' \in Seq(SUBSET (1..MaxRows)) /\ DOMAIN late' = DOMAIN late
      /\ \A j \in DOMAIN late : late'[j] \subseteq late[j]
  <2>1. late \in Seq(SUBSET (1..MaxRows))
    BY DEF Types
  <2>2. {m \in late[i] : m > n} \in SUBSET (1..MaxRows)
    BY <2>1
  <2> QED
    BY <1>1, <2>1, <2>2
<1>5. Types'
  BY <1>1, <1>2, <1>3, <1>4 DEF Types, Ids
<1>6. InHand'
  BY <1>1, <1>2 DEF InHand, Count
<1>7. LateWasOffered'
  BY <1>2, <1>4 DEF LateWasOffered
<1>8. Counted' /\ Accounted' /\ OldestFirst' /\ ParkedWasRefused'
  BY <1>1, <1>2 DEF Counted, Accounted, OldestFirst, ParkedWasRefused
<1>9. QED
  BY <1>5, <1>6, <1>7, <1>8

LEMMA StutterStep == IInv /\ UNCHANGED vars => IInv'
BY DEF IInv, Types, Ids, InHand, Count, Counted, LateWasOffered, Accounted,
       OldestFirst, ParkedWasRefused, vars, queueVars, uploaderVars, cloudVars

-----------------------------------------------------------------------------
(* The theorems.                                                           *)

\* The inductive invariant holds in every reachable state.
THEOREM Invariance == SafeSpec => []IInv
<1>1. IInv /\ [Next]_vars => IInv'
  <2> SUFFICES ASSUME IInv, [Next]_vars PROVE IInv'
    OBVIOUS
  <2>1. CASE Enqueue
    BY <2>1, EnqueueStep
  <2>2. CASE Take
    BY <2>2, TakeStep
  <2>3. CASE Send
    BY <2>3, SendStep
  <2>4. CASE Ack
    BY <2>4, AckStep
  <2>5. CASE Retry
    BY <2>5, RetryStep
  <2>6. CASE Park
    BY <2>6, ParkStep
  <2>7. CASE Restart
    BY <2>7, RestartStep
  <2>8. CASE UNCHANGED vars
    BY <2>8, StutterStep
  <2>9. CASE HandleLate
    BY <2>9, LateStep
  <2>10. QED
    BY <2>1, <2>2, <2>3, <2>4, <2>5, <2>6, <2>7, <2>8, <2>9 DEF Next, Upload, Idle
<1>2. QED
  BY <1>1, InitIInv, PTL DEF SafeSpec

\* No message is lost but in the ways the code provides for, whatever requests,
\* failures, trims and restarts come in between.
THEOREM Accounts == SafeSpec => []Accounted
<1>1. IInv => Accounted
  BY DEF IInv
<1>2. QED
  BY <1>1, Invariance, PTL

\* Messages are put before the backend in the order in which they were enqueued:
\* none that is still in the queue is overtaken by a request without it.
THEOREM InOrder == SafeSpec => []OldestFirst
<1>1. IInv => OldestFirst
  BY DEF IInv
<1>2. QED
  BY <1>1, Invariance, PTL

\* A row is parked only after MAX_4XX_ATTEMPTS refusals of its own, although
\* the code counts refusals of batches.
THEOREM ParkedRightly == SafeSpec => []ParkedWasRefused
<1>1. IInv => ParkedWasRefused
  BY DEF IInv
<1>2. QED
  BY <1>1, Invariance, PTL

-----------------------------------------------------------------------------
(* The queue keeps the promise of AtLeastOnce.                             *)

\* A row on its way is in the queue, or the queue gave it up meanwhile.
OnItsWay == upc = "send" => batch \subseteq pending \cup trimmed \cup parked \cup discarded

\* The head of the queue goes first, and what goes was not acknowledged before.
LEMMA OfferIsPromised ==
    ASSUME IInv, OnItsWay, upc = "send", offered' = offered \cup batch,
           UNCHANGED <<made, pending, parked, trimmed, discarded>>,
           NEW handled \in SUBSET batch,
           received' \cup rejected' = (received \cup rejected) \cup handled
    PROVE  Promise!Next
<1>1. batch \in SUBSET (pending \cup (trimmed \cup parked \cup discarded))
  BY DEF OnItsWay
<1>2. \A a \in pending, b \in batch : a < b => a \in batch
  BY DEF IInv, InHand
<1>3. Promise!Offer(batch, handled)
  BY <1>2 DEF Promise!Offer
<1> QED
  BY <1>1, <1>3 DEF Promise!Next

\* A request offers its batch, or comes to nothing.
LEMMA SendIsPromised == ASSUME IInv, OnItsWay, Send PROVE [Promise!Next]_(Promise!vars)
<1>1. /\ upc = "send"
      /\ UNCHANGED <<made, pending, parked, trimmed, discarded>>
  BY DEF Send, queueVars
<1>2. CASE offered' = offered /\ UNCHANGED <<received, rejected>>
  BY <1>1, <1>2 DEF Promise!vars
<1>3. CASE offered' = offered \cup batch
  <2> DEFINE handled == batch \cap (received' \cup rejected')
  <2>1. received' \cup rejected' = (received \cup rejected) \cup handled
    BY Effects
  <2>2. handled \in SUBSET batch
    OBVIOUS
  <2> HIDE DEF handled
  <2> QED
    BY <1>1, <1>3, <2>1, <2>2, OfferIsPromised
<1> QED
  BY <1>2, <1>3, Effects

\* One step of the queue is one step of the promise, or none.
LEMMA PromiseStep ==
    ASSUME IInv, OnItsWay, [Next]_vars PROVE [Promise!Next]_(Promise!vars) /\ OnItsWay'
<1>1. CASE Enqueue
  <2> DEFINE new == Len(made) + 1
  <2>1. /\ pending' \subseteq pending \cup {new} /\ parked' \subseteq parked
        /\ trimmed' = trimmed \cup ((pending \cup {new}) \ pending')
        /\ discarded' = discarded \cup (parked \ parked')
    BY <1>1, TrimKeeps DEF Enqueue
  <2>2. UNCHANGED <<upc, batch, offered, received, rejected>>
    BY <1>1 DEF Enqueue, uploaderVars, cloudVars
  <2>3. Len(made') = new
    <3>1. PICK m \in Message : made' = Append(made, m)
      BY <1>1 DEF Enqueue
    <3> QED
      BY <3>1 DEF IInv, Types
  <2> HIDE DEF new
  <2>4. trimmed' \cup parked' \cup discarded' =
          (trimmed \cup parked \cup discarded) \cup ((pending \cup {new}) \ pending')
    BY <2>1
  <2>5. Promise!Accept
    BY <2>1, <2>2, <2>3, <2>4 DEF Promise!Accept, new
  <2>6. OnItsWay'
    BY <2>1, <2>2, <2>4 DEF OnItsWay
  <2> QED
    BY <2>5, <2>6 DEF Promise!Next
<1>2. CASE Take
  <2>1. /\ batch' \subseteq pending
        /\ UNCHANGED <<made, pending, parked, trimmed, discarded, offered, received,
                       rejected>>
    BY <1>2 DEF Take, Oldest, queueVars, cloudVars
  <2> QED
    BY <2>1 DEF Promise!vars, OnItsWay
<1>3. CASE Send
  <2>1. upc' = "answer"
    BY <1>3 DEF Send
  <2> QED
    BY <1>3, <2>1, SendIsPromised DEF OnItsWay
<1>4. CASE Ack
  <2>1. /\ upc = "answer" /\ response = "ok" /\ upc' = "take" /\ pending' = pending \ batch
        /\ UNCHANGED <<made, parked, trimmed, discarded, offered, received, rejected>>
    BY <1>4 DEF Ack, Done, cloudVars
  <2>2. batch \subseteq received \cup rejected
    BY <2>1 DEF IInv, InHand
  <2> DEFINE gone == pending \cap batch
  <2>3. Promise!Leave(gone)
    BY <2>1, <2>2 DEF Promise!Leave
  <2>4. gone \in SUBSET pending
    OBVIOUS
  <2> QED
    BY <2>1, <2>3, <2>4 DEF Promise!Next, OnItsWay
<1>5. CASE Retry
  BY <1>5 DEF Retry, Done, queueVars, cloudVars, Promise!vars, OnItsWay
<1>6. CASE Park
  <2>1. /\ pending' \subseteq pending \ batch
        /\ parked' \subseteq parked \cup (pending \cap batch)
        /\ trimmed' = trimmed \cup ((pending \ batch) \ pending')
        /\ discarded' = discarded \cup ((parked \cup (pending \cap batch)) \ parked')
    BY <1>6, TrimKeeps DEF Park
  <2>2. upc' = "take" /\ UNCHANGED <<made, offered, received, rejected>>
    BY <1>6 DEF Park, Done, cloudVars
  <2> DEFINE gone == pending \ pending'
  <2>3. pending' = pending \ gone /\ gone \in SUBSET pending
    BY <2>1
  <2>4. trimmed' \cup parked' \cup discarded' = (trimmed \cup parked \cup discarded) \cup gone
    BY <2>1
  <2>5. Promise!GiveUp(gone)
    BY <2>2, <2>3, <2>4 DEF Promise!GiveUp
  <2> QED
    BY <2>2, <2>3, <2>5 DEF Promise!Next, OnItsWay
<1>7. CASE Restart
  <2>1. /\ upc' = "take"
        /\ UNCHANGED <<made, pending, parked, trimmed, discarded, received, rejected>>
    BY <1>7 DEF Restart, Done, queueVars, cloudVars, Unanswered
  <2>2. CASE UNCHANGED offered
    BY <2>1, <2>2 DEF Promise!vars, OnItsWay
  <2>3. CASE upc = "send" /\ offered' = offered \cup batch
    <3>1. {} \in SUBSET batch /\ received' \cup rejected' = (received \cup rejected) \cup {}
      BY <2>1
    <3> QED
      BY <2>1, <2>3, <3>1, OfferIsPromised DEF OnItsWay
  <2> QED
    BY <1>7, <2>2, <2>3 DEF Restart, cloudVars, Unanswered, Offer
<1>8. CASE UNCHANGED vars
  BY <1>8 DEF vars, queueVars, uploaderVars, cloudVars, Promise!vars, OnItsWay
<1>9. CASE HandleLate
  <2>1. PICK n \in UNION {late[i] : i \in DOMAIN late} : received' = received \cup {n}
    BY <1>9 DEF HandleLate
  <2>2. UNCHANGED <<made, pending, parked, trimmed, discarded, upc, batch, offered, rejected>>
    BY <1>9 DEF HandleLate, queueVars, uploaderVars
  <2>3. n \in offered
    BY DEF IInv, LateWasOffered
  <2>4. Promise!Arrive(n)
    BY <2>1, <2>2 DEF Promise!Arrive
  <2> QED
    BY <2>2, <2>3, <2>4 DEF Promise!Next, OnItsWay
<1> QED
  BY <1>1, <1>2, <1>3, <1>4, <1>5, <1>6, <1>7, <1>8, <1>9 DEF Next, Upload, Idle

\* The queue and its uploader implement at-least-once delivery, oldest first: a
\* message leaves the queue when the backend has answered for it or when it is
\* given up, and what was acknowledged is not sent again, whatever is trimmed,
\* refused, lost or restarted in between.
THEOREM Promised == SafeSpec => ImplementsAtLeastOnce
<1>1. Init => Promise!Init /\ OnItsWay
  <2>1. Init => Len(made) = 0
    BY DEF Init
  <2> QED
    BY <2>1 DEF Init, Promise!Init, OnItsWay
<1>2. IInv /\ OnItsWay /\ [Next]_vars => [Promise!Next]_(Promise!vars) /\ OnItsWay'
  BY PromiseStep
<1> QED
  BY <1>1, <1>2, Invariance, PTL DEF SafeSpec, ImplementsAtLeastOnce, Promise!Spec

-----------------------------------------------------------------------------
(* Caps: facts about counting the newest and the oldest of a set.          *)

\* A set of numbers has a least element.
LEMMA LeastOf ==
    ASSUME NEW T \in SUBSET Nat, T # {}
    PROVE  \E x \in T : \A y \in T : x <= y
<1>1. PICK x \in T : \A y \in T : ~(<<y, x>> \in OpToRel(<, Nat))
  BY NatLessThanWellFounded, WFMin
<1>2. ASSUME NEW y \in T PROVE x <= y
  <2>1. x \in Nat /\ y \in Nat
    OBVIOUS
  <2>2. ~(y < x)
    BY <1>1, <2>1 DEF OpToRel
  <2>3. QED
    BY <2>1, <2>2
<1>3. QED
  BY <1>2

\* Of the k newest there are k at most: the oldest of them has fewer than k
\* above it.
LEMMA NewestAreFew ==
    ASSUME NEW rows \in SUBSET Nat, IsFiniteSet(rows), NEW k \in Nat
    PROVE  /\ IsFiniteSet(Newest(rows, k)) /\ Newest(rows, k) \subseteq rows
           /\ Cardinality(Newest(rows, k)) <= k
<1> DEFINE top == Newest(rows, k)
           above(n) == {m \in rows : m > n}
<1>1. top \subseteq rows /\ IsFiniteSet(top) /\ Cardinality(top) \in Nat
  <2>1. top \subseteq rows
    BY DEF Newest
  <2>2. QED
    BY <2>1, FS_Subset, FS_CardinalityType
<1>2. CASE top = {}
  <2>1. Cardinality(top) = 0
    BY <1>2, FS_EmptySet
  <2>2. QED
    BY <1>1, <2>1
<1>3. CASE top # {}
  <2>1. top \in SUBSET Nat
    BY <1>1
  <2> HIDE DEF top
  <2>2. PICK n \in top : \A m \in top : n <= m
    BY <1>3, <2>1, LeastOf
  <2>3. Cardinality(above(n)) < k
    BY <2>2 DEF top, Newest
  <2>4. above(n) \subseteq rows
    OBVIOUS
  <2>5. IsFiniteSet(above(n)) /\ Cardinality(above(n)) \in Nat
    BY <2>4, FS_Subset, FS_CardinalityType
  <2>6. top \ {n} \subseteq above(n)
    BY <1>1, <2>1, <2>2
  <2> HIDE DEF above
  <2>7. Cardinality(top \ {n}) <= Cardinality(above(n))
    BY <2>5, <2>6, FS_Subset
  <2>8. Cardinality(top \ {n}) = Cardinality(top) - 1
    BY <1>1, <2>2, FS_RemoveElement
  <2>9. QED
    BY <1>1, <2>3, <2>5, <2>7, <2>8 DEF top
<1>4. QED
  BY <1>2, <1>3

\* Of the k oldest too: the newest of them has fewer than k below it.
LEMMA OldestAreFew ==
    ASSUME NEW n \in Nat, NEW rows \in SUBSET (1..n), NEW k \in Nat
    PROVE  Cardinality(Oldest(rows, k)) <= k
<1> DEFINE head == Oldest(rows, k)
           below(x) == {m \in rows : m < x}
<1>1. IsFiniteSet(rows)
  <2>1. IsFiniteSet(1..n)
    BY FS_Interval
  <2>2. QED
    BY <2>1, FS_Subset
<1>2. head \subseteq rows /\ IsFiniteSet(head) /\ Cardinality(head) \in Nat
  <2>1. head \subseteq rows
    BY DEF Oldest
  <2>2. QED
    BY <1>1, <2>1, FS_Subset, FS_CardinalityType
<1>3. CASE head = {}
  <2>1. Cardinality(head) = 0
    BY <1>3, FS_EmptySet
  <2>2. QED
    BY <1>2, <2>1
<1>4. CASE head # {}
  <2> HIDE DEF head
  <2> DEFINE fromEnd == {n - x : x \in head}
  <2>1. fromEnd \in SUBSET Nat /\ fromEnd # {}
    <3>1. ASSUME NEW x \in head PROVE n - x \in Nat
      <4>1. x \in 1..n
        BY <1>2
      <4>2. QED
        BY <4>1
    <3>2. QED
      BY <1>4, <3>1
  <2>2. PICK e \in fromEnd : \A d \in fromEnd : e <= d
    BY <2>1, LeastOf
  <2>3. PICK x \in head : e = n - x
    OBVIOUS
  <2>4. ASSUME NEW y \in head PROVE y <= x
    <3>1. n - y \in fromEnd
      OBVIOUS
    <3>2. n - x <= n - y
      BY <2>2, <2>3, <3>1
    <3>3. x \in 1..n /\ y \in 1..n
      BY <1>2
    <3>4. QED
      BY <3>2, <3>3
  <2>5. Cardinality(below(x)) < k
    BY <2>3 DEF head, Oldest
  <2>6. below(x) \subseteq rows
    OBVIOUS
  <2>7. IsFiniteSet(below(x)) /\ Cardinality(below(x)) \in Nat
    BY <1>1, <2>6, FS_Subset, FS_CardinalityType
  <2>8. head \ {x} \subseteq below(x)
    <3>1. ASSUME NEW y \in head, y # x PROVE y < x
      <4>1. x \in 1..n /\ y \in 1..n /\ y <= x
        BY <1>2, <2>4
      <4>2. QED
        BY <3>1, <4>1
    <3>2. QED
      BY <1>2, <3>1
  <2> HIDE DEF below
  <2>9. Cardinality(head \ {x}) <= Cardinality(below(x))
    BY <2>7, <2>8, FS_Subset
  <2>10. Cardinality(head \ {x}) = Cardinality(head) - 1
    BY <1>2, <2>3, FS_RemoveElement
  <2>11. QED
    BY <1>2, <2>5, <2>7, <2>9, <2>10 DEF head
<1>5. QED
  BY <1>3, <1>4

\* The caps and the counts that TypeOK adds to Types.
Caps ==
    /\ Cardinality(batch) <= Limit
    /\ \A b \in DOMAIN refusals : refusals[b] \in 1..(MaxRefusals - 1)
    /\ Cardinality({n \in pending : made[n].kind = "periodic"}) <= PeriodicCap
    /\ Cardinality({n \in pending : made[n].kind # "periodic"}) <= OtherCap
    /\ Cardinality(parked) <= ParkedCap

\* The ids are finitely many, and so are the rows of every set of them.
LEMMA IdsFinite ==
    ASSUME Types
    PROVE  /\ Ids \subseteq Nat /\ IsFiniteSet(Ids)
           /\ \A rows \in SUBSET Ids : IsFiniteSet(rows) /\ Cardinality(rows) \in Nat
<1>1. Len(made) \in Nat
  BY DEF Types
<1>2. IsFiniteSet(Ids) /\ Ids \subseteq Nat
  BY <1>1, FS_Interval DEF Ids
<1>3. QED
  BY <1>2, FS_Subset, FS_CardinalityType

\* What _trim leaves keeps to the caps.
LEMMA TrimCaps ==
    ASSUME Types', NEW left \in SUBSET Ids', NEW leftParked \in SUBSET Ids',
           Trim(left, leftParked)
    PROVE  /\ Cardinality({n \in pending' : made'[n].kind = "periodic"}) <= PeriodicCap
           /\ Cardinality({n \in pending' : made'[n].kind # "periodic"}) <= OtherCap
           /\ Cardinality(parked') <= ParkedCap
<1> DEFINE others == left \ Periodic(left)
           p == Newest(Periodic(left), PeriodicCap)
           o == Newest(others, OtherCap)
<1>1. /\ Ids' \subseteq Nat
      /\ \A rows \in SUBSET Ids' : IsFiniteSet(rows) /\ Cardinality(rows) \in Nat
  <2>1. Len(made') \in Nat
    BY DEF Types
  <2>2. IsFiniteSet(Ids') /\ Ids' \subseteq Nat
    BY <2>1, FS_Interval DEF Ids
  <2>3. QED
    BY <2>2, FS_Subset, FS_CardinalityType
<1>2. PeriodicCap \in Nat /\ OtherCap \in Nat /\ ParkedCap \in Nat
  OBVIOUS
<1>3. Periodic(left) \subseteq left /\ others \subseteq left
  BY DEF Periodic
<1>4. Cardinality(p) <= PeriodicCap /\ Cardinality(o) <= OtherCap
  BY <1>1, <1>2, <1>3, NewestAreFew
<1>5. Cardinality(parked') <= ParkedCap
  BY <1>1, <1>2, NewestAreFew DEF Trim
<1>6. pending' = p \cup o
  BY DEF Trim, Kept
<1>7. p \subseteq Periodic(left) /\ o \subseteq others
  BY DEF Newest
<1>8. {n \in pending' : made'[n].kind = "periodic"} = p
  BY <1>3, <1>6, <1>7 DEF Periodic
<1>9. {n \in pending' : made'[n].kind # "periodic"} = o
  BY <1>3, <1>6, <1>7 DEF Periodic
<1>10. QED
  BY <1>4, <1>5, <1>8, <1>9

\* What leaves the queue leaves room.
LEMMA FewerKeepCaps ==
    ASSUME Types, Caps, made' = made, pending' \subseteq pending, parked' = parked
    PROVE  /\ Cardinality({n \in pending' : made'[n].kind = "periodic"}) <= PeriodicCap
           /\ Cardinality({n \in pending' : made'[n].kind # "periodic"}) <= OtherCap
           /\ Cardinality(parked') <= ParkedCap
<1> DEFINE p == {n \in pending : made[n].kind = "periodic"}
           o == {n \in pending : made[n].kind # "periodic"}
           p1 == {n \in pending' : made'[n].kind = "periodic"}
           o1 == {n \in pending' : made'[n].kind # "periodic"}
<1>1. p1 \subseteq p /\ o1 \subseteq o
  OBVIOUS
<1>2. p \subseteq Ids /\ o \subseteq Ids
  BY DEF Types
<1>3. Cardinality(p) <= PeriodicCap /\ Cardinality(o) <= OtherCap
  BY DEF Caps
<1> HIDE DEF p, o, p1, o1
<1>4. /\ IsFiniteSet(p) /\ IsFiniteSet(o)
      /\ Cardinality(p) \in Nat /\ Cardinality(o) \in Nat
  BY <1>2, IdsFinite
<1>5. /\ Cardinality(p1) <= Cardinality(p) /\ Cardinality(o1) <= Cardinality(o)
      /\ IsFiniteSet(p1) /\ IsFiniteSet(o1)
  BY <1>1, <1>4, FS_Subset
<1>6. Cardinality(p1) \in Nat /\ Cardinality(o1) \in Nat
  BY <1>5, FS_CardinalityType
<1>7. Cardinality(p1) <= PeriodicCap /\ Cardinality(o1) <= OtherCap
  BY <1>3, <1>4, <1>5, <1>6
<1>8. Cardinality(parked') <= ParkedCap
  BY DEF Caps
<1>9. QED
  BY <1>7, <1>8 DEF p1, o1

\* Every step keeps to the caps.
LEMMA CapsStep == IInv /\ IInv' /\ Caps /\ [Next]_vars => Caps'
<1> SUFFICES ASSUME IInv, IInv', Caps, [Next]_vars PROVE Caps'
  OBVIOUS
<1>1. Types /\ Types'
  BY DEF IInv
<1>2. Cardinality({}) = 0 /\ Limit \in Nat
  BY FS_EmptySet
<1>3. CASE Enqueue
  <2>1. /\ Trim(pending \cup {Len(made) + 1}, parked)
        /\ batch' = batch /\ refusals' = refusals
    BY <1>3 DEF Enqueue, uploaderVars
  <2>2. /\ Len(made) \in Nat /\ Len(made') = Len(made) + 1
    <3>1. PICK m \in Message : made' = Append(made, m)
      BY <1>3 DEF Enqueue
    <3>2. QED
      BY <1>1, <3>1 DEF Types
  <2>3. pending \cup {Len(made) + 1} \subseteq Ids' /\ parked \subseteq Ids'
    <3>1. pending \subseteq 1..Len(made) /\ parked \subseteq 1..Len(made)
      BY <1>1 DEF Types, Ids
    <3>2. Ids' = 1..(Len(made) + 1)
      BY <2>2 DEF Ids
    <3>3. /\ 1..Len(made) \subseteq 1..(Len(made) + 1)
          /\ Len(made) + 1 \in 1..(Len(made) + 1)
      BY <2>2
    <3>4. QED
      BY <3>1, <3>2, <3>3, Zenon
  <2>4. QED
    BY <1>1, <2>1, <2>3, TrimCaps DEF Caps
<1>4. CASE Take
  <2>1. /\ batch' = Oldest(pending, Limit)
        /\ UNCHANGED <<made, pending, parked, refusals>>
    BY <1>4 DEF Take, queueVars
  <2>2. Len(made) \in Nat /\ pending \in SUBSET (1..Len(made))
    BY <1>1 DEF Types, Ids
  <2>3. Cardinality(batch') <= Limit
    BY <1>2, <2>1, <2>2, OldestAreFew
  <2>4. QED
    BY <2>1, <2>3 DEF Caps
<1>5. CASE Send
  BY <1>5 DEF Send, queueVars, Caps
<1>6. CASE Ack
  <2>1. /\ pending' = pending \ batch /\ made' = made /\ parked' = parked
        /\ batch' = {} /\ refusals' = <<>>
    BY <1>6 DEF Ack, Done
  <2>2. DOMAIN refusals' = {}
    BY <2>1
  <2>3. QED
    BY <1>1, <1>2, <2>1, <2>2, FewerKeepCaps DEF Caps
<1>7. CASE Retry
  <2>1. batch' = {} /\ UNCHANGED <<made, pending, parked>> /\ ~Enough
    BY <1>7 DEF Retry, Done, queueVars
  <2>2. \A b \in DOMAIN refusals' : refusals'[b] \in 1..(MaxRefusals - 1)
    <3>1. CASE Parks /\ response = "refused"
      <4>1. refusals' = [b \in DOMAIN refusals \cup {batch} |->
                            IF b = batch THEN Count ELSE refusals[b]]
        BY <1>7, <3>1 DEF Retry
      <4>2. Count \in Nat \ {0} /\ MaxRefusals \in Nat
        BY <1>1, Numbers
      <4>3. Count < MaxRefusals
        BY <2>1, <3>1, <4>2 DEF Enough
      <4>4. Count \in 1..(MaxRefusals - 1)
        BY <4>2, <4>3
      <4>5. QED
        BY <4>1, <4>4 DEF Caps
    <3>2. CASE ~(Parks /\ response = "refused")
      BY <1>7, <3>2 DEF Retry, Caps
    <3>3. QED
      BY <3>1, <3>2
  <2>3. QED
    BY <1>2, <2>1, <2>2 DEF Caps
<1>8. CASE Park
  <2>1. /\ Trim(pending \ batch, parked \cup (pending \cap batch))
        /\ batch' = {} /\ made' = made
        /\ refusals' = [b \in DOMAIN refusals \ {batch} |-> refusals[b]]
    BY <1>8 DEF Park, Done
  <2>2. pending \ batch \subseteq Ids' /\ parked \cup (pending \cap batch) \subseteq Ids'
    BY <1>1, <2>1 DEF Types, Ids
  <2>3. \A b \in DOMAIN refusals' : refusals'[b] \in 1..(MaxRefusals - 1)
    BY <2>1 DEF Caps
  <2>4. /\ Cardinality({n \in pending' : made'[n].kind = "periodic"}) <= PeriodicCap
        /\ Cardinality({n \in pending' : made'[n].kind # "periodic"}) <= OtherCap
        /\ Cardinality(parked') <= ParkedCap
    BY <1>1, <2>1, <2>2, TrimCaps
  <2>5. Cardinality(batch') <= Limit
    BY <1>2, <2>1
  <2>6. QED
    BY <2>3, <2>4, <2>5 DEF Caps
<1>9. CASE Restart
  <2>1. /\ UNCHANGED <<made, pending, parked>> /\ batch' = {} /\ refusals' = <<>>
    BY <1>9 DEF Restart, Done, queueVars
  <2>2. DOMAIN refusals' = {}
    BY <2>1
  <2>3. QED
    BY <1>2, <2>1, <2>2 DEF Caps
<1>10. CASE UNCHANGED vars
  BY <1>10 DEF vars, queueVars, uploaderVars, Caps
<1>11. CASE HandleLate
  BY <1>11 DEF HandleLate, queueVars, uploaderVars, Caps
<1>12. QED
  BY <1>3, <1>4, <1>5, <1>6, <1>7, <1>8, <1>9, <1>10, <1>11 DEF Next, Upload, Idle

\* After every operation the queue keeps to its caps, a batch to its limit and
\* the counts of refusals to theirs.
THEOREM TypeCorrect == SafeSpec => []TypeOK
<1>1. Init => Caps
  <2> SUFFICES ASSUME Init PROVE Caps
    OBVIOUS
  <2>1. /\ pending = {} /\ parked = {} /\ batch = {} /\ refusals = <<>>
    BY DEF Init
  <2>2. Cardinality({}) = 0 /\ DOMAIN refusals = {}
    BY <2>1, FS_EmptySet
  <2>3. QED
    BY <2>1, <2>2 DEF Caps
<1>2. IInv /\ Caps => TypeOK
  BY DEF IInv, Types, Ids, Caps, TypeOK
<1>3. QED
  BY <1>1, <1>2, CapsStep, Invariance, PTL DEF SafeSpec

-----------------------------------------------------------------------------
(* What pushes out what.                                                   *)

Newer(n) == {m \in (n + 1)..Len(made) : made[m].kind = made[n].kind}
Cap(n) == IF made[n].kind = "periodic" THEN PeriodicCap ELSE OtherCap

\* A message that is not among the newest of its class has a full class of
\* newer ones.
LEMMA NotNewest ==
    ASSUME NEW rows \in SUBSET Nat, IsFiniteSet(rows), NEW k \in Nat,
           NEW n \in rows, n \notin Newest(rows, k)
    PROVE  /\ Cardinality({m \in rows : m > n}) >= k
           /\ IsFiniteSet({m \in rows : m > n})
<1> DEFINE above == {m \in rows : m > n}
<1>1. above \subseteq rows
  OBVIOUS
<1>2. IsFiniteSet(above) /\ Cardinality(above) \in Nat
  BY <1>1, FS_Subset, FS_CardinalityType
<1>3. ~(Cardinality(above) < k)
  BY DEF Newest
<1> HIDE DEF above
<1>4. Cardinality(above) >= k
  BY <1>2, <1>3
<1>5. QED
  BY <1>2, <1>4 DEF above

\* What _trim deletes has a full class of newer messages.
LEMMA TrimEvicts ==
    ASSUME Types', NEW left \in SUBSET Ids', NEW leftParked, Trim(left, leftParked),
           NEW n \in left, n \notin pending'
    PROVE  Cardinality(Newer(n)') >= Cap(n)'
<1> DEFINE class == IF made'[n].kind = "periodic" THEN Periodic(left) ELSE left \ Periodic(left)
           cap == IF made'[n].kind = "periodic" THEN PeriodicCap ELSE OtherCap
           above == {m \in class : m > n}
<1>1. Len(made') \in Nat
  BY DEF Types
<1>2. IsFiniteSet(Ids') /\ Ids' \subseteq Nat /\ Ids' = 1..Len(made')
  <2>1. Ids' = 1..Len(made')
    BY DEF Ids
  <2>2. IsFiniteSet(1..Len(made')) /\ 1..Len(made') \subseteq Nat
    BY <1>1, FS_Interval
  <2>3. QED
    BY <2>1, <2>2
<1>3. class \subseteq left /\ n \in class
  BY DEF Periodic
<1>4. class \in SUBSET Nat /\ IsFiniteSet(class)
  BY <1>2, <1>3, FS_Subset
<1>5. n \notin Newest(class, cap) /\ cap \in Nat
  BY DEF Trim, Kept
<1>6. above \subseteq {m \in (n + 1)..Len(made') : made'[m].kind = made'[n].kind}
  <2>1. ASSUME NEW m \in class, m > n
        PROVE  m \in (n + 1)..Len(made') /\ made'[m].kind = made'[n].kind
    <3>1. m \in 1..Len(made') /\ n \in 1..Len(made')
      BY <1>2, <1>3
    <3>2. m \in (n + 1)..Len(made')
      BY <1>1, <2>1, <3>1
    <3>3. made'[m].kind = made'[n].kind
      <4>1. CASE made'[n].kind = "periodic"
        BY <4>1 DEF Periodic
      <4>2. CASE made'[n].kind # "periodic"
        <5>1. made'[m].kind # "periodic"
          BY <4>2 DEF Periodic
        <5>2. made'[m] \in Message /\ made'[n] \in Message
          BY <3>1 DEF Types
        <5>3. QED
          BY <4>2, <5>1, <5>2 DEF Message
      <4>3. QED
        BY <4>1, <4>2
    <3>4. QED
      BY <3>2, <3>3
  <2>2. QED
    BY <2>1
<1> HIDE DEF class
<1>7. Cardinality(above) >= cap
  BY <1>3, <1>4, <1>5, NotNewest
<1>8. IsFiniteSet((n + 1)..Len(made'))
  <2>1. n \in Nat
    BY <1>2
  <2>2. QED
    BY <1>1, <2>1, FS_Interval
<1>9. IsFiniteSet(Newer(n)')
  BY <1>8, FS_Subset DEF Newer
<1> HIDE DEF above
<1>10. above \subseteq Newer(n)'
  BY <1>6 DEF Newer
<1>11. /\ Cardinality(above) <= Cardinality(Newer(n)') /\ Cardinality(above) \in Nat
       /\ Cardinality(Newer(n)') \in Nat
  BY <1>9, <1>10, FS_Subset, FS_CardinalityType
<1>12. Cap(n)' = cap
  BY DEF Cap
<1> HIDE DEF cap
<1>13. QED
  BY <1>5, <1>7, <1>11, <1>12

\* Every step deletes only what newer messages of its class push out.
LEMMA EvictStep == IInv /\ IInv' /\ OnlyOwnClassEvicts /\ [Next]_vars => OnlyOwnClassEvicts'
<1> SUFFICES ASSUME IInv, IInv', OnlyOwnClassEvicts, [Next]_vars
             PROVE  OnlyOwnClassEvicts'
  OBVIOUS
<1>1. Types /\ Types'
  BY DEF IInv
<1>2. \A n \in trimmed : Cardinality(Newer(n)) >= Cap(n)
  BY DEF OnlyOwnClassEvicts, Newer, Cap
<1>3. SUFFICES ASSUME NEW n \in trimmed' PROVE Cardinality(Newer(n)') >= Cap(n)'
  BY DEF OnlyOwnClassEvicts, Newer, Cap
<1>4. CASE trimmed' = trimmed /\ made' = made
  BY <1>2, <1>4 DEF Newer, Cap
<1>5. CASE Park
  <2>1. made' = made /\ Trim(pending \ batch, parked \cup (pending \cap batch))
    BY <1>5 DEF Park
  <2>2. pending \ batch \subseteq Ids'
    BY <1>1, <2>1 DEF Types, Ids
  <2>3. trimmed' = trimmed \cup ((pending \ batch) \ pending')
    BY <2>1, TrimKeeps
  <2>4. CASE n \in trimmed
    BY <1>2, <2>1, <2>4 DEF Newer, Cap
  <2>5. CASE n \notin trimmed
    BY <1>1, <2>1, <2>2, <2>3, <2>5, TrimEvicts
  <2>6. QED
    BY <2>4, <2>5
<1>6. CASE Enqueue
  <2>1. PICK m \in Message : made' = Append(made, m)
    BY <1>6 DEF Enqueue
  <2>2. Trim(pending \cup {Len(made) + 1}, parked)
    BY <1>6 DEF Enqueue
  <2>3. /\ Len(made) \in Nat /\ Len(made') = Len(made) + 1
        /\ \A i \in 1..Len(made) : made'[i] = made[i]
    BY <1>1, <2>1 DEF Types
  <2>4. pending \cup {Len(made) + 1} \subseteq Ids'
    <3>1. pending \subseteq 1..Len(made)
      BY <1>1 DEF Types, Ids
    <3>2. Ids' = 1..(Len(made) + 1)
      BY <2>3 DEF Ids
    <3>3. /\ 1..Len(made) \subseteq 1..(Len(made) + 1)
          /\ Len(made) + 1 \in 1..(Len(made) + 1)
      BY <2>3
    <3>4. QED
      BY <3>1, <3>2, <3>3, Zenon
  <2>5. trimmed' = trimmed \cup ((pending \cup {Len(made) + 1}) \ pending')
    BY <2>2, TrimKeeps
  <2>6. CASE n \in trimmed
    <3>1. n \in 1..Len(made)
      BY <1>1, <2>6 DEF Types, Ids
    <3>2. ASSUME NEW i \in (n + 1)..Len(made)
          PROVE  i \in (n + 1)..Len(made') /\ made'[i] = made[i]
      BY <2>3, <3>1
    <3>3. made'[n] = made[n]
      BY <2>3, <3>1
    <3>4. Newer(n) \subseteq Newer(n)'
      BY <3>2, <3>3 DEF Newer
    <3>5. IsFiniteSet((n + 1)..Len(made'))
      BY <2>3, <3>1, FS_Interval
    <3>6. IsFiniteSet(Newer(n)')
      BY <3>5, FS_Subset DEF Newer
    <3>7. /\ Cardinality(Newer(n)) <= Cardinality(Newer(n)')
          /\ Cardinality(Newer(n)) \in Nat /\ Cardinality(Newer(n)') \in Nat
      BY <3>4, <3>6, FS_Subset, FS_CardinalityType
    <3>8. Cap(n)' = Cap(n) /\ Cap(n) \in Nat
      BY <3>3 DEF Cap
    <3>9. QED
      BY <1>2, <2>6, <3>7, <3>8
  <2>7. CASE n \notin trimmed
    BY <1>1, <2>2, <2>4, <2>5, <2>7, TrimEvicts
  <2>8. QED
    BY <2>6, <2>7
<1>7. QED
  BY <1>4, <1>5, <1>6
     DEF Next, Upload, Idle, Take, Send, Ack, Retry, HandleLate, Restart, vars, queueVars

\* A pending row is deleted only for newer ones of its own class: a flood of
\* summaries pushes out no transition.
THEOREM OwnClassOnly == SafeSpec => []OnlyOwnClassEvicts
<1>1. Init => OnlyOwnClassEvicts
  BY DEF Init, OnlyOwnClassEvicts
<1>2. QED
  BY <1>1, EvictStep, Invariance, PTL DEF SafeSpec
============================================================================
