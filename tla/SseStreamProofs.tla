-------------------------- MODULE SseStreamProofs --------------------------
(***************************************************************************)
(* What SseStream guarantees for any number of clients, connections,       *)
(* workers and events, any filters and any window.                         *)
(***************************************************************************)
EXTENDS SseStream, FiniteSetTheorems, SequenceTheorems, TLAPS

-----------------------------------------------------------------------------
(* The buffer.                                                             *)

\* Entries before a place of the buffer, counted.
LEMMA CountUpTo ==
    ASSUME NEW n \in Nat, NEW S \in SUBSET (1..n)
    PROVE  Cardinality(S) \in 0..n
<1>1. IsFiniteSet(1..n) /\ Cardinality(1..n) = n
  BY FS_Interval
<1>2. IsFiniteSet(S) /\ Cardinality(S) <= Cardinality(1..n)
  BY <1>1, FS_Subset
<1>3. Cardinality(S) \in Nat
  BY <1>2, FS_CardinalityType
<1>4. QED
  BY <1>1, <1>2, <1>3

LEMMA EndOfSeq ==
    ASSUME NEW S, NEW buf \in Seq(S), NEW m \in Nat \ {0}
    PROVE  SubSeq(buf, m, Len(buf)) \in Seq(S)
<1>1. Len(buf) \in Nat
  OBVIOUS
<1>2. m \in Int /\ Len(buf) \in Int /\ \A i \in m..Len(buf) : buf[i] \in S
  BY <1>1
<1>3. QED
  BY <1>2, SubSeqProperties

LEMMA EventsSinceType ==
    ASSUME NEW S, NEW buf \in Seq(S), NEW id
    PROVE  EventsSince(buf, id) \in Seq(S)
<1> DEFINE before == {i \in 1..Len(buf) : \A j \in 1..i : buf[j].id # id}
<1>1. Len(buf) \in Nat /\ Cardinality(before) \in 0..Len(buf)
  BY CountUpTo
<1>2. Cardinality(before) + 2 \in Nat \ {0}
  BY <1>1
<1> HIDE DEF before
<1>3. SubSeq(buf, Cardinality(before) + 2, Len(buf)) \in Seq(S)
  BY <1>2, EndOfSeq
<1>4. QED
  BY <1>3 DEF EventsSince, before

\* events_since returns all that comes after any entry of that id.
LEMMA EventsSinceAll ==
    ASSUME NEW S, NEW buf \in Seq(S), NEW id,
           NEW i \in 1..Len(buf), NEW j \in 1..Len(buf),
           buf[i].id = id, i < j
    PROVE  LET found == EventsSince(buf, id)
           IN  \E r \in 1..Len(found) : found[r] = buf[j]
<1> DEFINE before == {p \in 1..Len(buf) : \A q \in 1..p : buf[q].id # id}
           first == Cardinality(before) + 2
           found == SubSeq(buf, first, Len(buf))
<1>1. before \subseteq 1..(i - 1)
  <2>1. ASSUME NEW p \in before PROVE p < i
    <3>1. CASE i <= p
      BY <3>1
    <3>2. CASE p < i
      BY <3>2
    <3>3. QED
      BY <3>1, <3>2
  <2>2. QED
    BY <2>1
<1>2. i - 1 \in Nat /\ Cardinality(before) \in 0..(i - 1)
  BY <1>1, CountUpTo
<1>3. first \in Int /\ first <= j /\ j <= Len(buf) /\ Len(buf) \in Nat /\ first >= 2
  BY <1>2
<1> HIDE DEF first
<1>4. /\ Len(found) = Len(buf) - first + 1
      /\ \A r \in 1..(Len(buf) - first + 1) : found[r] = buf[first + r - 1]
  BY <1>3, SubSeqProperties
<1> DEFINE r == j - first + 1
<1>5. r \in 1..Len(found) /\ found[r] = buf[j]
  BY <1>3, <1>4
<1>6. EventsSince(buf, id) = found
  BY DEF EventsSince, first
<1>7. QED
  BY <1>5, <1>6

LEMMA AddType ==
    ASSUME NEW S, NEW buf \in Seq(S), NEW e \in S
    PROVE  Add(buf, e) \in Seq(S)
<1> DEFINE old == {i \in 1..Len(buf) : buf[i].id + Window < now}
<1>1. Len(buf) \in Nat /\ Cardinality(old) \in 0..Len(buf)
  BY CountUpTo
<1>2. Cardinality(old) + 1 \in Nat \ {0}
  BY <1>1
<1> HIDE DEF old
<1>3. SubSeq(buf, Cardinality(old) + 1, Len(buf)) \in Seq(S)
  BY <1>2, EndOfSeq
<1>4. QED
  BY <1>3, AppendProperties DEF Add, old

-----------------------------------------------------------------------------
(* The inductive invariant.                                                *)

\* The typing part of TypeOK.
Types ==
    /\ published \in Seq(Messages)
    /\ now \in 0..MaxTime
    /\ buffer \in [Workers -> Seq(Entry)]
    /\ phase \in [Conns -> {"closed", "opened", "streaming"}]
    /\ client \in [Conns -> Clients \cup {None}]
    /\ worker \in [Conns -> Workers \cup {None}]
    /\ since \in [Conns -> 0..Len(published)]
    /\ next \in [Conns -> 0..(Len(published) + 1)]
    /\ replay \in [Conns -> Seq(Entry)]
    /\ listening \in [Clients -> Conns \cup {None}]
    /\ \A k \in Conns : IF phase[k] = "closed"
                        THEN client[k] = None /\ worker[k] = None /\ next[k] = 0
                        ELSE client[k] # None /\ worker[k] # None
    /\ \A c \in Clients : listening[c] # None => client[listening[c]] = c
    /\ last \in [Clients -> Entry \cup {None}]
    /\ got \in [Clients -> SUBSET Events]

IInv == Types /\ OnlyWhatWasAskedFor /\ NoGapWhileConnected

LEMMA InitIInv == Init => IInv
<1> SUFFICES ASSUME Init PROVE IInv
  OBVIOUS
<1>1. Types
  <2>1. published \in Seq(Messages) /\ Len(published) = 0
    BY DEF Init
  <2>2. now \in 0..MaxTime
    BY BoundAssumption DEF Init
  <2>3. buffer \in [Workers -> Seq(Entry)] /\ replay \in [Conns -> Seq(Entry)]
    BY DEF Init
  <2>4. QED
    BY <2>1, <2>2, <2>3 DEF Init, Types
<1>2. OnlyWhatWasAskedFor /\ NoGapWhileConnected
  BY DEF Init, OnlyWhatWasAskedFor, NoGapWhileConnected
<1>3. QED
  BY <1>1, <1>2 DEF IInv

\* Steps that publish nothing leave the meaning of event numbers alone.
LEMMA SameEvents ==
    ASSUME published' = published
    PROVE  /\ Events' = Events /\ Entry' = Entry
           /\ \A c, m : Passes(c, m)' = Passes(c, m)
           /\ \A c, n : Sends(c, n)' = Sends(c, n)
BY DEF Events, Entry, Sends, Hears, Passes

\* An open connection has a client and a worker.
LEMMA AnOpenOne ==
    ASSUME Types, NEW k \in Conns, phase[k] # "closed"
    PROVE  client[k] \in Clients /\ worker[k] \in Workers
BY DEF Types

LEMMA Heads ==
    ASSUME NEW S, NEW s \in Seq(S), s # <<>>
    PROVE  Head(s) \in S /\ Tail(s) \in Seq(S)
OBVIOUS

\* The invariant's last part holds after a step if the events it speaks of then
\* were spoken of before, or are now received, or are not for the client.
LEMMA StillNoGap ==
    ASSUME IInv, published' = published,
           \A d \in Clients : got[d] \subseteq got'[d],
           \A c \in Clients : listening'[c] # None =>
               \A n \in (since'[listening'[c]] + 1)..(next'[listening'[c]] - 1) :
                   \/ /\ listening[c] = listening'[c]
                      /\ n \in (since[listening[c]] + 1)..(next[listening[c]] - 1)
                   \/ n \in got'[c]
                   \/ ~Sends(c, n)
    PROVE  NoGapWhileConnected'
<1> SUFFICES ASSUME NEW c \in Clients, listening'[c] # None,
                    NEW n \in (since'[listening'[c]] + 1)..(next'[listening'[c]] - 1),
                    Sends(c, n)
             PROVE  n \in got'[c]
  BY SameEvents DEF NoGapWhileConnected
<1>1. CASE /\ listening[c] = listening'[c]
           /\ n \in (since[listening[c]] + 1)..(next[listening[c]] - 1)
  BY <1>1 DEF IInv, NoGapWhileConnected
<1>2. QED
  BY <1>1

\* What was received was asked for, if what is new is.
LEMMA StillAskedFor ==
    ASSUME IInv, published' = published,
           \A d \in Clients : \A n \in got'[d] :
               n \in got[d] \/ Passes(d, published[n])
    PROVE  OnlyWhatWasAskedFor'
BY SameEvents DEF IInv, OnlyWhatWasAskedFor

\* What an entry adds to what its client has received.
LEMMA Received ==
    ASSUME Types, NEW k \in Conns, phase[k] # "closed",
           NEW e \in Entry, Receive(k, e)
    PROVE  /\ last' \in [Clients -> Entry \cup {None}]
           /\ got' \in [Clients -> SUBSET Events]
           /\ \A d \in Clients : got[d] \subseteq got'[d]
           /\ \A d \in Clients : \A n \in got'[d] :
                  n \in got[d] \/ (d = client[k] /\ n = e.event)
           /\ listening[client[k]] = k => e.event \in got'[client[k]]
<1>1. client[k] \in Clients /\ e.event \in Events
  BY AnOpenOne DEF Entry
<1>2. last \in [Clients -> Entry \cup {None}] /\ got \in [Clients -> SUBSET Events]
  BY DEF Types
<1>3. CASE listening[client[k]] = k
  <2>1. /\ last' = [last EXCEPT ![client[k]] = e]
        /\ got' = [got EXCEPT ![client[k]] = @ \cup {e.event}]
    BY <1>3 DEF Receive
  <2>2. QED
    BY <1>1, <1>2, <2>1
<1>4. CASE listening[client[k]] # k
  BY <1>1, <1>2, <1>4 DEF Receive
<1>5. QED
  BY <1>3, <1>4

-----------------------------------------------------------------------------
(* The steps of a connection.                                              *)

LEMMA OpenStep ==
    \A c \in Clients, k \in Conns, w \in Workers : IInv /\ Open(c, k, w) => IInv'
<1> SUFFICES ASSUME NEW c \in Clients, NEW k \in Conns, NEW w \in Workers,
                    IInv, Open(c, k, w)
             PROVE  IInv'
  OBVIOUS
<1>1. Types /\ UNCHANGED <<published, now, buffer, since, next, replay, last, got>>
  BY DEF IInv, Open
<1>2. /\ phase[k] = "closed" /\ next[k] = 0 /\ client[k] = None
      /\ listening' = [listening EXCEPT ![c] = k]
      /\ phase' = [phase EXCEPT ![k] = "opened"]
      /\ client' = [client EXCEPT ![k] = c]
      /\ worker' = [worker EXCEPT ![k] = w]
  BY <1>1 DEF Open, Types
<1>3. Types'
  <2>1. Events' = Events /\ Entry' = Entry
    BY <1>1, SameEvents
  <2>2. c # None /\ w # None
    BY NoneAssumption
  <2>3. /\ phase' \in [Conns -> {"closed", "opened", "streaming"}]
        /\ client' \in [Conns -> Clients \cup {None}]
        /\ worker' \in [Conns -> Workers \cup {None}]
        /\ listening' \in [Clients -> Conns \cup {None}]
    BY <1>1, <1>2 DEF Types
  <2>4. \A j \in Conns : IF phase'[j] = "closed"
                         THEN client'[j] = None /\ worker'[j] = None /\ next'[j] = 0
                         ELSE client'[j] # None /\ worker'[j] # None
    BY <1>1, <1>2, <2>2 DEF Types
  <2>5. \A d \in Clients : listening'[d] # None => client'[listening'[d]] = d
    <3> SUFFICES ASSUME NEW d \in Clients, listening'[d] # None
                 PROVE  client'[listening'[d]] = d
      OBVIOUS
    <3>1. CASE d = c
      BY <1>1, <1>2, <3>1 DEF Types
    <3>2. CASE d # c
      <4>1. listening'[d] = listening[d] /\ listening[d] \in Conns
            /\ client[listening[d]] = d
        BY <1>1, <1>2, <3>2 DEF Types
      <4>2. listening[d] # k
        BY <1>2, <4>1, NoneAssumption
      <4>3. QED
        BY <1>1, <1>2, <4>1, <4>2 DEF Types
    <3>3. QED
      BY <3>1, <3>2
  <2>6. QED
    BY <1>1, <2>1, <2>3, <2>4, <2>5 DEF Types
<1>4. OnlyWhatWasAskedFor'
  BY <1>1, StillAskedFor
<1>5. NoGapWhileConnected'
  <2>1. ASSUME NEW d \in Clients, listening'[d] # None,
               NEW n \in (since'[listening'[d]] + 1)..(next'[listening'[d]] - 1)
        PROVE  /\ listening[d] = listening'[d]
               /\ n \in (since[listening[d]] + 1)..(next[listening[d]] - 1)
    <3>1. CASE d = c
      <4>1. since[k] \in Nat /\ listening'[d] = k
        BY <1>1, <1>2, <3>1 DEF Types
      <4>2. n \in (since[k] + 1)..(0 - 1)
        BY <1>1, <1>2, <2>1, <4>1
      <4>3. QED
        BY <4>1, <4>2
    <3>2. CASE d # c
      BY <1>1, <1>2, <3>2 DEF Types
    <3>3. QED
      BY <3>1, <3>2
  <2>2. QED
    BY <1>1, <2>1, StillNoGap
<1>6. QED
  BY <1>3, <1>4, <1>5 DEF IInv

LEMMA SubscribedStep == \A k \in Conns : IInv /\ Subscribed(k) => IInv'
<1> SUFFICES ASSUME NEW k \in Conns, IInv, Subscribed(k) PROVE IInv'
  OBVIOUS
<1>1. /\ Types /\ phase[k] # "closed"
      /\ UNCHANGED <<published, now, buffer, phase, client, worker, replay,
                     listening, last, got>>
      /\ since' = [since EXCEPT ![k] = Len(published)]
      /\ next' = [next EXCEPT ![k] = Len(published) + 1]
  BY DEF IInv, Subscribed, clientVars
<1>2. Len(published) \in Nat
  BY <1>1 DEF Types
<1>3. Types'
  <2>1. Events' = Events /\ Entry' = Entry
    BY <1>1, SameEvents
  <2>2. since' \in [Conns -> 0..Len(published)]
    BY <1>1, <1>2 DEF Types
  <2>3. next' \in [Conns -> 0..(Len(published) + 1)]
    BY <1>1, <1>2 DEF Types
  <2>4. \A j \in Conns : phase[j] = "closed" => next'[j] = 0
    BY <1>1 DEF Types
  <2>5. QED
    BY <1>1, <2>1, <2>2, <2>3, <2>4 DEF Types
<1>4. OnlyWhatWasAskedFor'
  BY <1>1, StillAskedFor
<1>5. NoGapWhileConnected'
  <2>1. ASSUME NEW d \in Clients, listening[d] # None,
               NEW n \in (since'[listening[d]] + 1)..(next'[listening[d]] - 1)
        PROVE  n \in (since[listening[d]] + 1)..(next[listening[d]] - 1)
    <3>1. listening[d] \in Conns
      BY <1>1, <2>1 DEF Types
    <3>2. CASE listening[d] = k
      <4>1. n \in (Len(published) + 1)..(Len(published) + 1 - 1)
        BY <1>1, <2>1, <3>2 DEF Types
      <4>2. QED
        BY <1>2, <4>1
    <3>3. CASE listening[d] # k
      BY <1>1, <2>1, <3>1, <3>3 DEF Types
    <3>4. QED
      BY <3>2, <3>3
  <2>2. QED
    BY <1>1, <2>1, StillNoGap
<1>6. QED
  BY <1>3, <1>4, <1>5 DEF IInv

LEMMA StartReplayStep == \A k \in Conns : IInv /\ StartReplay(k) => IInv'
<1> SUFFICES ASSUME NEW k \in Conns, IInv, StartReplay(k) PROVE IInv'
  OBVIOUS
<1> DEFINE from == last[client[k]]
           read == IF from = None THEN <<>>
                   ELSE EventsSince(buffer[worker[k]], from.id)
<1>1. /\ Types /\ phase[k] = "opened"
      /\ UNCHANGED <<published, now, buffer, client, worker, since, next,
                     listening, last, got>>
      /\ phase' = [phase EXCEPT ![k] = "streaming"]
      /\ replay' = [replay EXCEPT ![k] = read]
  BY DEF IInv, StartReplay, clientVars
<1>2. read \in Seq(Entry)
  <2>1. worker[k] \in Workers
    BY <1>1, AnOpenOne
  <2>2. buffer[worker[k]] \in Seq(Entry)
    BY <1>1, <2>1 DEF Types
  <2>3. EventsSince(buffer[worker[k]], from.id) \in Seq(Entry)
    BY <2>2, EventsSinceType
  <2>4. QED
    BY <2>3
<1> HIDE DEF read
<1>3. Types'
  <2>1. Events' = Events /\ Entry' = Entry
    BY <1>1, SameEvents
  <2>2. /\ replay' \in [Conns -> Seq(Entry)]
        /\ phase' \in [Conns -> {"closed", "opened", "streaming"}]
    BY <1>1, <1>2 DEF Types
  <2>3. \A j \in Conns : (phase'[j] = "closed") = (phase[j] = "closed")
    BY <1>1 DEF Types
  <2>4. QED
    BY <1>1, <2>1, <2>2, <2>3 DEF Types
<1>4. OnlyWhatWasAskedFor'
  BY <1>1, StillAskedFor
<1>5. NoGapWhileConnected'
  BY <1>1, StillNoGap
<1>6. QED
  BY <1>3, <1>4, <1>5 DEF IInv

LEMMA ReplayStep == \A k \in Conns : IInv /\ Replay(k) => IInv'
<1> SUFFICES ASSUME NEW k \in Conns, IInv, Replay(k) PROVE IInv'
  OBVIOUS
<1> DEFINE e == Head(replay[k])
<1>1. /\ Types /\ phase[k] = "streaming" /\ replay[k] # <<>>
      /\ UNCHANGED <<published, now, buffer, phase, client, worker, since, next,
                     listening>>
      /\ replay' = [replay EXCEPT ![k] = Tail(@)]
      /\ IF Passes(client[k], published[e.event])
         THEN Receive(k, e) ELSE UNCHANGED <<last, got>>
  BY DEF IInv, Replay
<1>2. e \in Entry /\ Tail(replay[k]) \in Seq(Entry)
  BY <1>1, Heads DEF Types
<1>3. /\ last' \in [Clients -> Entry \cup {None}]
      /\ got' \in [Clients -> SUBSET Events]
      /\ \A d \in Clients : got[d] \subseteq got'[d]
      /\ \A d \in Clients : \A n \in got'[d] :
             n \in got[d] \/ Passes(d, published[n])
  <2> HIDE DEF e
  <2>1. CASE Passes(client[k], published[e.event])
    BY <1>1, <1>2, <2>1, Received
  <2>2. CASE ~Passes(client[k], published[e.event])
    BY <1>1, <2>2 DEF Types
  <2>3. QED
    BY <2>1, <2>2
<1>4. Types'
  <2>1. Events' = Events /\ Entry' = Entry
    BY <1>1, SameEvents
  <2>2. replay' \in [Conns -> Seq(Entry)]
    BY <1>1, <1>2 DEF Types
  <2>3. QED
    BY <1>1, <1>3, <2>1, <2>2 DEF Types
<1>5. OnlyWhatWasAskedFor'
  BY <1>1, <1>3, StillAskedFor
<1>6. NoGapWhileConnected'
  BY <1>1, <1>3, StillNoGap
<1>7. QED
  BY <1>4, <1>5, <1>6 DEF IInv

\* One event is taken off the subscription: the next one of connection k.
LEMMA NextMoves ==
    ASSUME Types, NEW k \in Conns, Pending(k), published' = published,
           next' = [next EXCEPT ![k] = @ + 1]
    PROVE  /\ next' \in [Conns -> 0..(Len(published) + 1)]
           /\ next[k] \in Events
           /\ \A j \in Conns : phase[j] = "closed" => next'[j] = next[j]
           /\ \A j \in Conns : \A n \in (since[j] + 1)..(next'[j] - 1) :
                  n \in (since[j] + 1)..(next[j] - 1) \/ (j = k /\ n = next[k])
<1>1. /\ Len(published) \in Nat /\ phase[k] = "streaming"
      /\ next[k] \in 1..Len(published)
      /\ next \in [Conns -> 0..(Len(published) + 1)]
      /\ since \in [Conns -> 0..Len(published)]
  BY DEF Types, Pending
<1>2. next' \in [Conns -> 0..(Len(published) + 1)]
  BY <1>1
<1>3. ASSUME NEW j \in Conns, NEW n \in (since[j] + 1)..(next'[j] - 1)
      PROVE  n \in (since[j] + 1)..(next[j] - 1) \/ (j = k /\ n = next[k])
  <2>1. CASE j = k
    BY <1>1, <1>3, <2>1
  <2>2. CASE j # k
    BY <1>1, <1>3, <2>2
  <2>3. QED
    BY <2>1, <2>2
<1>4. QED
  BY <1>1, <1>2, <1>3 DEF Events

LEMMA SkipStep == \A k \in Conns : IInv /\ Skip(k) => IInv'
<1> SUFFICES ASSUME NEW k \in Conns, IInv, Skip(k) PROVE IInv'
  OBVIOUS
<1>1. /\ Types /\ Pending(k) /\ ~Sends(client[k], next[k])
      /\ UNCHANGED <<published, now, buffer, phase, client, worker, since, replay,
                     listening, last, got>>
      /\ next' = [next EXCEPT ![k] = @ + 1]
  BY DEF IInv, Skip, clientVars
<1>2. /\ next' \in [Conns -> 0..(Len(published) + 1)]
      /\ \A j \in Conns : phase[j] = "closed" => next'[j] = next[j]
      /\ \A j \in Conns : \A n \in (since[j] + 1)..(next'[j] - 1) :
             n \in (since[j] + 1)..(next[j] - 1) \/ (j = k /\ n = next[k])
  BY <1>1, NextMoves
<1>3. Types'
  <2>1. Events' = Events /\ Entry' = Entry
    BY <1>1, SameEvents
  <2>2. QED
    BY <1>1, <1>2, <2>1 DEF Types
<1>4. OnlyWhatWasAskedFor'
  BY <1>1, StillAskedFor
<1>5. NoGapWhileConnected'
  <2>1. ASSUME NEW d \in Clients, listening[d] # None,
               NEW n \in (since[listening[d]] + 1)..(next'[listening[d]] - 1)
        PROVE  \/ n \in (since[listening[d]] + 1)..(next[listening[d]] - 1)
               \/ ~Sends(d, n)
    <3>1. listening[d] \in Conns /\ client[listening[d]] = d
      BY <1>1, <2>1 DEF Types
    <3>2. QED
      BY <1>1, <1>2, <2>1, <3>1
  <2>2. QED
    BY <1>1, <2>1, StillNoGap
<1>6. QED
  BY <1>3, <1>4, <1>5 DEF IInv

LEMMA DeliverStep == \A k \in Conns : IInv /\ Deliver(k) => IInv'
<1> SUFFICES ASSUME NEW k \in Conns, IInv, Deliver(k) PROVE IInv'
  OBVIOUS
<1> DEFINE e == [id |-> now, event |-> next[k]]
<1>1. /\ Types /\ Pending(k) /\ Sends(client[k], next[k])
      /\ UNCHANGED <<published, now, phase, client, worker, since, replay, listening>>
      /\ next' = [next EXCEPT ![k] = @ + 1]
      /\ buffer' = [buffer EXCEPT ![worker[k]] = Add(@, e)]
      /\ Receive(k, e)
  BY DEF IInv, Deliver
<1>2. /\ next' \in [Conns -> 0..(Len(published) + 1)]
      /\ next[k] \in Events
      /\ \A j \in Conns : phase[j] = "closed" => next'[j] = next[j]
      /\ \A j \in Conns : \A n \in (since[j] + 1)..(next'[j] - 1) :
             n \in (since[j] + 1)..(next[j] - 1) \/ (j = k /\ n = next[k])
  BY <1>1, NextMoves
<1>3. e \in Entry /\ e.event = next[k]
  BY <1>1, <1>2 DEF Types, Entry
<1> HIDE DEF e
<1>4. phase[k] # "closed" /\ worker[k] \in Workers
  BY <1>1, AnOpenOne DEF Pending
<1>5. /\ last' \in [Clients -> Entry \cup {None}]
      /\ got' \in [Clients -> SUBSET Events]
      /\ \A d \in Clients : got[d] \subseteq got'[d]
      /\ \A d \in Clients : \A n \in got'[d] :
             n \in got[d] \/ (d = client[k] /\ n = next[k])
      /\ listening[client[k]] = k => next[k] \in got'[client[k]]
  BY <1>1, <1>3, <1>4, Received
<1>6. Types'
  <2>1. Events' = Events /\ Entry' = Entry
    BY <1>1, SameEvents
  <2>2. buffer' \in [Workers -> Seq(Entry)]
    <3>1. buffer \in [Workers -> Seq(Entry)]
      BY <1>1 DEF Types
    <3>2. Add(buffer[worker[k]], e) \in Seq(Entry)
      BY <1>3, <1>4, <3>1, AddType
    <3>3. QED
      BY <1>1, <1>4, <3>1, <3>2
  <2>3. QED
    BY <1>1, <1>2, <1>5, <2>1, <2>2 DEF Types
<1>7. OnlyWhatWasAskedFor'
  <2>1. Passes(client[k], published[next[k]])
    BY <1>1 DEF Sends
  <2>2. QED
    BY <1>1, <1>5, <2>1, StillAskedFor
<1>8. NoGapWhileConnected'
  <2>1. ASSUME NEW d \in Clients, listening[d] # None,
               NEW n \in (since[listening[d]] + 1)..(next'[listening[d]] - 1)
        PROVE  \/ n \in (since[listening[d]] + 1)..(next[listening[d]] - 1)
               \/ n \in got'[d]
    <3>1. listening[d] \in Conns /\ client[listening[d]] = d
      BY <1>1, <2>1 DEF Types
    <3>2. QED
      BY <1>2, <1>5, <2>1, <3>1
  <2>2. QED
    BY <1>1, <1>5, <2>1, StillNoGap
<1>9. QED
  BY <1>6, <1>7, <1>8 DEF IInv

\* Connections that nobody listens on any more may be forgotten.
LEMMA Forgotten ==
    ASSUME IInv, NEW gone \in SUBSET Conns, Forget(gone),
           UNCHANGED <<published, now, last, got>>,
           buffer' \in [Workers -> Seq(Entry)],
           \A c \in Clients : listening'[c] = None
                \/ (listening'[c] = listening[c] /\ listening[c] \notin gone),
           listening' \in [Clients -> Conns \cup {None}]
    PROVE  IInv'
<1>1. /\ Types
      /\ phase' = [k \in Conns |-> IF k \in gone THEN "closed" ELSE phase[k]]
      /\ client' = [k \in Conns |-> IF k \in gone THEN None ELSE client[k]]
      /\ worker' = [k \in Conns |-> IF k \in gone THEN None ELSE worker[k]]
      /\ since' = [k \in Conns |-> IF k \in gone THEN 0 ELSE since[k]]
      /\ next' = [k \in Conns |-> IF k \in gone THEN 0 ELSE next[k]]
      /\ replay' = [k \in Conns |-> IF k \in gone THEN <<>> ELSE replay[k]]
  BY DEF IInv, Forget
<1>2. Types'
  <2>1. Events' = Events /\ Entry' = Entry
    BY SameEvents
  <2>2. /\ phase' \in [Conns -> {"closed", "opened", "streaming"}]
        /\ client' \in [Conns -> Clients \cup {None}]
        /\ worker' \in [Conns -> Workers \cup {None}]
    BY <1>1 DEF Types
  <2>3. /\ since' \in [Conns -> 0..Len(published)]
        /\ next' \in [Conns -> 0..(Len(published) + 1)]
    <3>1. Len(published) \in Nat
      BY <1>1 DEF Types
    <3>2. QED
      BY <1>1, <3>1 DEF Types
  <2>4. replay' \in [Conns -> Seq(Entry)]
    BY <1>1 DEF Types
  <2>5. \A j \in Conns : IF phase'[j] = "closed"
                         THEN client'[j] = None /\ worker'[j] = None /\ next'[j] = 0
                         ELSE client'[j] # None /\ worker'[j] # None
    BY <1>1 DEF Types
  <2>6. \A d \in Clients : listening'[d] # None => client'[listening'[d]] = d
    BY <1>1 DEF Types
  <2>7. QED
    BY <1>1, <2>1, <2>2, <2>3, <2>4, <2>5, <2>6 DEF Types
<1>3. OnlyWhatWasAskedFor'
  BY StillAskedFor
<1>4. NoGapWhileConnected'
  <2>1. ASSUME NEW d \in Clients, listening'[d] # None
        PROVE  /\ listening[d] = listening'[d]
               /\ since'[listening'[d]] = since[listening[d]]
               /\ next'[listening'[d]] = next[listening[d]]
    <3>1. listening[d] = listening'[d] /\ listening[d] \in Conns \ gone
      BY <1>1, <2>1 DEF Types
    <3>2. QED
      BY <1>1, <3>1
  <2>2. QED
    BY <2>1, StillNoGap
<1>5. QED
  BY <1>2, <1>3, <1>4 DEF IInv

LEMMA CloseStep == \A k \in Conns : IInv /\ Close(k) => IInv'
<1> SUFFICES ASSUME NEW k \in Conns, IInv, Close(k) PROVE IInv'
  OBVIOUS
<1>1. /\ Forget({k}) /\ \A c \in Clients : listening[c] # k
      /\ UNCHANGED <<published, now, buffer, listening, last, got>>
  BY DEF Close, clientVars
<1>2. /\ buffer' \in [Workers -> Seq(Entry)]
      /\ listening' \in [Clients -> Conns \cup {None}]
  BY <1>1 DEF IInv, Types
<1>3. QED
  BY <1>1, <1>2, Forgotten

LEMMA CrashStep == \A w \in Workers : IInv /\ Crash(w) => IInv'
<1> SUFFICES ASSUME NEW w \in Workers, IInv, Crash(w) PROVE IInv'
  OBVIOUS
<1> DEFINE gone == {k \in Conns : worker[k] = w}
<1>1. /\ Forget(gone)
      /\ listening' = [c \in Clients |->
                          IF listening[c] \in gone THEN None ELSE listening[c]]
      /\ buffer' = [buffer EXCEPT ![w] = <<>>]
      /\ UNCHANGED <<published, now, last, got>>
  BY DEF Crash
<1> HIDE DEF gone
<1>2. buffer' \in [Workers -> Seq(Entry)]
  <2>1. buffer \in [Workers -> Seq(Entry)] /\ <<>> \in Seq(Entry)
    BY DEF IInv, Types
  <2>2. QED
    BY <1>1, <2>1
<1>3. /\ listening' \in [Clients -> Conns \cup {None}]
      /\ \A c \in Clients : listening'[c] = None
             \/ (listening'[c] = listening[c] /\ listening[c] \notin gone)
  BY <1>1 DEF IInv, Types
<1>4. gone \in SUBSET Conns
  BY DEF gone
<1>5. QED
  BY <1>1, <1>2, <1>3, <1>4, Forgotten

-----------------------------------------------------------------------------
(* The steps of the surroundings.                                          *)

LEMMA PublishStep == IInv /\ Publish => IInv'
<1> SUFFICES ASSUME IInv, Publish PROVE IInv'
  OBVIOUS
<1>1. PICK m \in Messages : published' = Append(published, m)
  BY DEF Publish
<1>2. /\ Types
      /\ UNCHANGED <<now, buffer, phase, client, worker, since, next, replay,
                     listening, last, got>>
  BY DEF IInv, Publish, connVars, clientVars
<1>3. /\ published \in Seq(Messages) /\ Len(published) \in Nat
      /\ published' \in Seq(Messages) /\ Len(published') = Len(published) + 1
      /\ \A n \in 1..Len(published) : published'[n] = published[n]
  BY <1>1, <1>2 DEF Types
<1>4. Entry \subseteq Entry' /\ Events \subseteq Events'
  BY <1>3 DEF Entry, Events
<1>5. ASSUME NEW c \in Clients, NEW n \in Events
      PROVE  /\ Passes(c, published'[n]) = Passes(c, published[n])
             /\ Hears(c, published'[n]) = Hears(c, published[n])
  BY <1>3 DEF Events
<1>6. Types'
  <2>1. /\ since' \in [Conns -> 0..Len(published')]
        /\ next' \in [Conns -> 0..(Len(published') + 1)]
    BY <1>2, <1>3 DEF Types
  <2>2. Seq(Entry) \subseteq Seq(Entry')
    BY <1>4
  <2>3. /\ buffer' \in [Workers -> Seq(Entry')]
        /\ replay' \in [Conns -> Seq(Entry')]
    BY <1>2, <2>2 DEF Types
  <2>4. /\ last' \in [Clients -> Entry' \cup {None}]
        /\ got' \in [Clients -> SUBSET Events']
    BY <1>2, <1>4 DEF Types
  <2>5. QED
    BY <1>2, <1>3, <2>1, <2>3, <2>4 DEF Types
<1>7. OnlyWhatWasAskedFor'
  <2>1. ASSUME NEW c \in Clients, NEW n \in got[c]
        PROVE  Passes(c, published'[n])
    <3>1. n \in Events
      BY <1>2 DEF Types
    <3>2. QED
      BY <1>5, <3>1 DEF IInv, OnlyWhatWasAskedFor
  <2>2. QED
    BY <1>2, <2>1 DEF OnlyWhatWasAskedFor, Passes
<1>8. NoGapWhileConnected'
  <2>1. ASSUME NEW c \in Clients, listening[c] # None,
               NEW n \in (since[listening[c]] + 1)..(next[listening[c]] - 1),
               Hears(c, published'[n]), Passes(c, published'[n])
        PROVE  n \in got[c]
    <3>1. listening[c] \in Conns
      BY <1>2, <2>1 DEF Types
    <3>2. since[listening[c]] \in 0..Len(published)
          /\ next[listening[c]] \in 0..(Len(published) + 1)
      BY <1>2, <3>1 DEF Types
    <3>3. n \in Events
      BY <1>3, <2>1, <3>2 DEF Events
    <3>4. Sends(c, n)
      BY <1>5, <2>1, <3>3 DEF Sends
    <3>5. QED
      BY <2>1, <3>4 DEF IInv, NoGapWhileConnected
  <2>2. QED
    BY <1>2, <2>1 DEF NoGapWhileConnected, Sends, Hears, Passes
<1>9. QED
  BY <1>6, <1>7, <1>8 DEF IInv

LEMMA TickStep == IInv /\ Tick => IInv'
<1> SUFFICES ASSUME IInv, Tick PROVE IInv'
  OBVIOUS
<1>1. /\ Types
      /\ UNCHANGED <<published, buffer, phase, client, worker, since, next, replay,
                     listening, last, got>>
  BY DEF IInv, Tick, connVars, clientVars
<1>2. now' \in 0..MaxTime
  BY <1>1, BoundAssumption DEF Tick, Types
<1>3. Types'
  <2>1. Events' = Events /\ Entry' = Entry
    BY <1>1, SameEvents
  <2>2. QED
    BY <1>1, <1>2, <2>1 DEF Types
<1>4. OnlyWhatWasAskedFor'
  BY <1>1, StillAskedFor
<1>5. NoGapWhileConnected'
  BY <1>1, StillNoGap
<1>6. QED
  BY <1>3, <1>4, <1>5 DEF IInv

LEMMA DropStep == \A c \in Clients : IInv /\ Drop(c) => IInv'
<1> SUFFICES ASSUME NEW c \in Clients, IInv, Drop(c) PROVE IInv'
  OBVIOUS
<1>1. /\ Types /\ listening' = [listening EXCEPT ![c] = None]
      /\ UNCHANGED <<published, now, buffer, phase, client, worker, since, next,
                     replay, last, got>>
  BY DEF IInv, Drop, connVars
<1>2. /\ listening' \in [Clients -> Conns \cup {None}]
      /\ \A d \in Clients : listening'[d] # None => listening'[d] = listening[d]
  BY <1>1 DEF Types
<1>3. Types'
  <2>1. Events' = Events /\ Entry' = Entry
    BY <1>1, SameEvents
  <2>2. QED
    BY <1>1, <1>2, <2>1 DEF Types
<1>4. OnlyWhatWasAskedFor'
  BY <1>1, StillAskedFor
<1>5. NoGapWhileConnected'
  BY <1>1, <1>2, StillNoGap
<1>6. QED
  BY <1>3, <1>4, <1>5 DEF IInv

LEMMA StutterStep == IInv /\ UNCHANGED vars => IInv'
<1> SUFFICES ASSUME IInv, UNCHANGED vars PROVE IInv'
  OBVIOUS
<1>1. /\ Types
      /\ UNCHANGED <<published, now, buffer, phase, client, worker, since, next,
                     replay, listening, last, got>>
  BY DEF IInv, vars, connVars, clientVars
<1>2. Types'
  <2>1. Events' = Events /\ Entry' = Entry
    BY <1>1, SameEvents
  <2>2. QED
    BY <1>1, <2>1 DEF Types
<1>3. OnlyWhatWasAskedFor'
  BY <1>1, StillAskedFor
<1>4. NoGapWhileConnected'
  BY <1>1, StillNoGap
<1>5. QED
  BY <1>2, <1>3, <1>4 DEF IInv

-----------------------------------------------------------------------------
(* The theorems.                                                           *)

\* IInv holds throughout: every variable stays in its type, and the two
\* properties below.
THEOREM Invariance == SafeSpec => []IInv
<1>1. Init => IInv
  BY InitIInv
<1>2. IInv /\ [Next]_vars => IInv'
  <2> SUFFICES ASSUME IInv, [Next]_vars PROVE IInv'
    OBVIOUS
  <2>1. ASSUME NEW k \in Conns, Serve(k) \/ Close(k) PROVE IInv'
    BY <2>1, SubscribedStep, StartReplayStep, ReplayStep, SkipStep, DeliverStep,
       CloseStep DEF Serve
  <2>2. ASSUME NEW c \in Clients, NEW k \in Conns, NEW w \in Workers, Open(c, k, w)
        PROVE  IInv'
    BY <2>2, OpenStep
  <2>3. ASSUME NEW w \in Workers, Crash(w) PROVE IInv'
    BY <2>3, CrashStep
  <2>4. ASSUME NEW c \in Clients, Drop(c) PROVE IInv'
    BY <2>4, DropStep
  <2>5. CASE Publish
    BY <2>5, PublishStep
  <2>6. CASE Tick
    BY <2>6, TickStep
  <2>7. CASE UNCHANGED vars
    BY <2>7, StutterStep
  <2>8. QED
    BY <2>1, <2>2, <2>3, <2>4, <2>5, <2>6, <2>7 DEF Next
<1>3. QED
  BY <1>1, <1>2, PTL DEF SafeSpec

\* No client is ever sent what its query parameters exclude (_passes_filter in
\* the replay and in the loop of sse_event_stream).
THEOREM AskedFor == SafeSpec => []OnlyWhatWasAskedFor
<1>1. IInv => OnlyWhatWasAskedFor
  BY DEF IInv
<1>2. QED
  BY <1>1, Invariance, PTL

\* As long as it stays connected, a client misses no event that is for it: the
\* subscription precedes the replay in sse_event_stream, and each round of its
\* loop takes one message.
THEOREM NoGap == SafeSpec => []NoGapWhileConnected
<1>1. IInv => NoGapWhileConnected
  BY DEF IInv
<1>2. QED
  BY <1>1, Invariance, PTL

\* A replay holds all that the buffer has after the entry that the client names,
\* whichever of the entries of that name it means (events_since returns what
\* follows the first).
THEOREM NothingSkipped == SafeSpec => ReplaySkipsNothing
<1> DEFINE Complete(k) ==
        phase[k] = "opened" /\ phase'[k] = "streaming" =>
            LET from == last[client[k]]
                buf == buffer[worker[k]]
            IN  \A i, j \in 1..Len(buf) :
                  from # None /\ from.id = buf[i].id /\ i < j =>
                      \E r \in 1..Len(replay'[k]) : replay'[k][r] = buf[j]
<1>1. ASSUME IInv, Next, NEW k \in Conns, phase[k] = "opened",
             phase'[k] = "streaming"
      PROVE  StartReplay(k)
  <2>0. phase \in [Conns -> {"closed", "opened", "streaming"}]
    BY <1>1 DEF IInv, Types
  <2>1. phase' # phase
    BY <1>1
  <2>2. ASSUME NEW gone, Forget(gone) PROVE phase'[k] \in {"closed", "opened"}
    BY <1>1, <2>2 DEF Forget
  <2>3. ASSUME NEW c \in Clients, NEW j \in Conns, NEW w \in Workers, Open(c, j, w)
        PROVE  phase'[k] \in {"closed", "opened"}
    BY <1>1, <2>0, <2>3 DEF Open
  <2>4. PICK j \in Conns : StartReplay(j)
    BY <1>1, <2>1, <2>2, <2>3 DEF Next, Serve, Subscribed, Replay, Skip, Deliver,
       Close, Crash, Drop, Publish, Tick, connVars
  <2>5. phase' = [phase EXCEPT ![j] = "streaming"]
    BY <2>4 DEF StartReplay
  <2>6. j = k
    BY <1>1, <2>0, <2>5
  <2>7. QED
    BY <2>4, <2>6
<1>2. ASSUME IInv, NEW k \in Conns, StartReplay(k),
             NEW i \in 1..Len(buffer[worker[k]]), NEW j \in 1..Len(buffer[worker[k]]),
             last[client[k]] # None, last[client[k]].id = buffer[worker[k]][i].id,
             i < j
      PROVE  \E r \in 1..Len(replay'[k]) : replay'[k][r] = buffer[worker[k]][j]
  <2> DEFINE buf == buffer[worker[k]]
             id == last[client[k]].id
  <2>1. phase[k] # "closed" /\ Types
    BY <1>2 DEF StartReplay, IInv
  <2>2. worker[k] \in Workers
    BY <2>1, AnOpenOne
  <2>3. buf \in Seq(Entry) /\ replay \in [Conns -> Seq(Entry)]
    BY <2>1, <2>2 DEF Types
  <2>4. replay'[k] = EventsSince(buf, id)
    BY <1>2, <2>3 DEF StartReplay
  <2>5. buf[i].id = id /\ i \in 1..Len(buf) /\ j \in 1..Len(buf) /\ i < j
    BY <1>2
  <2> HIDE DEF buf, id
  <2>6. \E r \in 1..Len(EventsSince(buf, id)) : EventsSince(buf, id)[r] = buf[j]
    BY <2>3, <2>5, EventsSinceAll
  <2>7. QED
    BY <2>4, <2>6 DEF buf
<1>3. IInv /\ [Next]_vars => [\A k \in Conns : Complete(k)]_vars
  <2> SUFFICES ASSUME IInv, Next, NEW k \in Conns, phase[k] = "opened",
                      phase'[k] = "streaming",
                      NEW i \in 1..Len(buffer[worker[k]]),
                      NEW j \in 1..Len(buffer[worker[k]]),
                      last[client[k]] # None,
                      last[client[k]].id = buffer[worker[k]][i].id, i < j
               PROVE  \E r \in 1..Len(replay'[k]) :
                          replay'[k][r] = buffer[worker[k]][j]
    OBVIOUS
  <2>1. StartReplay(k)
    BY <1>1
  <2>2. QED
    BY <1>2, <2>1
<1>4. QED
  BY <1>3, Invariance, PTL DEF ReplaySkipsNothing, SafeSpec
-----------------------------------------------------------------------------
(* The order and the span of the buffers.                                  *)

\* A set that holds with a number all smaller ones is told by its size.
LEMMA FirstOnes ==
    ASSUME NEW n \in Nat, NEW S \in SUBSET (1..n),
           \A i \in S : \A j \in 1..i : j \in S
    PROVE  \A i \in 1..n : i \in S <=> i <= Cardinality(S)
<1>0. IsFiniteSet(1..n)
  BY FS_Interval
<1>1. IsFiniteSet(S)
  BY <1>0, FS_Subset
<1>2. ASSUME NEW i \in 1..n, i \in S PROVE i <= Cardinality(S)
  <2>1. 1..i \subseteq S
    BY <1>2
  <2>2. Cardinality(1..i) = i
    BY FS_Interval
  <2>3. Cardinality(1..i) <= Cardinality(S)
    BY <1>1, <2>1, FS_Subset
  <2>4. QED
    BY <2>2, <2>3
<1>3. ASSUME NEW i \in 1..n, i \notin S PROVE ~(i <= Cardinality(S))
  <2>1. ASSUME NEW j \in S PROVE j < i
    <3>1. CASE i <= j
      BY <1>3, <2>1, <3>1
    <3>2. CASE j < i
      BY <3>2
    <3>3. QED
      BY <3>1, <3>2
  <2>2. S \in SUBSET (1..(i - 1)) /\ i - 1 \in Nat
    BY <2>1
  <2>3. Cardinality(S) \in 0..(i - 1)
    BY <2>2, CountUpTo
  <2>4. QED
    BY <2>3
<1>4. QED
  BY <1>2, <1>3

\* A buffer in the order of time, within the window, with no entry of the future.
IsTimed(buf, t) ==
    /\ \A i \in 1..Len(buf) : buf[i].id <= t
    /\ \A i, j \in 1..Len(buf) :
           i < j => /\ buf[i].id <= buf[j].id
                    /\ buf[j].id <= buf[i].id + Window

Timed == \A w \in Workers : IsTimed(buffer[w], now)

LEMMA EntriesHaveTimes ==
    ASSUME NEW buf \in Seq(Entry)
    PROVE  \A i \in 1..Len(buf) : buf[i] \in Entry /\ buf[i].id \in Nat
<1>1. ASSUME NEW e \in Entry PROVE e.id \in Nat
  <2>1. e.id \in 0..MaxTime /\ MaxTime \in Nat
    BY BoundAssumption DEF Entry
  <2>2. QED
    BY <2>1
<1>2. \A i \in 1..Len(buf) : buf[i] \in Entry
  OBVIOUS
<1>3. QED
  BY <1>1, <1>2

LEMMA AddTimed ==
    ASSUME NEW buf \in Seq(Entry), NEW e \in Entry, now \in Nat, IsTimed(buf, now),
           e.id = now
    PROVE  IsTimed(Add(buf, e), now)
<1> DEFINE old == {i \in 1..Len(buf) : buf[i].id + Window < now}
           c == Cardinality(old)
           rest == SubSeq(buf, c + 1, Len(buf))
           new == Append(rest, e)
<1>1. /\ Len(buf) \in Nat /\ Window \in Nat
      /\ \A i \in 1..Len(buf) : buf[i] \in Entry /\ buf[i].id \in Nat
  BY BoundAssumption, EntriesHaveTimes
<1>2. \A i \in old : \A j \in 1..i : j \in old
  <2> SUFFICES ASSUME NEW i \in old, NEW j \in 1..i PROVE j \in old
    OBVIOUS
  <2>1. i \in 1..Len(buf) /\ j \in 1..Len(buf) /\ buf[i].id + Window < now
    BY <1>1
  <2>2. buf[j].id <= buf[i].id
    <3>1. CASE j = i
      BY <1>1, <2>1, <3>1
    <3>2. CASE j # i
      <4>1. j < i
        BY <1>1, <2>1, <3>2
      <4>2. QED
        BY <2>1, <4>1 DEF IsTimed
    <3>3. QED
      BY <3>1, <3>2
  <2>3. QED
    BY <1>1, <2>1, <2>2
<1>3. \A i \in 1..Len(buf) : i \in old <=> i <= c
  BY <1>1, <1>2, FirstOnes
<1>4. c \in 0..Len(buf)
  BY <1>1, CountUpTo
<1>5. \A i \in 1..Len(buf) : c < i => now <= buf[i].id + Window
  BY <1>1, <1>3, <1>4
<1>6. Add(buf, e) = new
  BY DEF Add
<1> HIDE DEF old, c
<1>7. /\ rest \in Seq(Entry) /\ Len(rest) = Len(buf) - c
      /\ \A i \in 1..(Len(buf) - c) : rest[i] = buf[c + i]
  <2>1. c + 1 \in Int /\ Len(buf) \in Int /\ \A i \in (c + 1)..Len(buf) : buf[i] \in Entry
    BY <1>1, <1>4
  <2>2. /\ rest \in Seq(Entry)
        /\ Len(rest) = IF c + 1 <= Len(buf) THEN Len(buf) - (c + 1) + 1 ELSE 0
        /\ \A i \in 1..(Len(buf) - (c + 1) + 1) : rest[i] = buf[c + 1 + i - 1]
    BY <2>1, SubSeqProperties
  <2>3. ASSUME NEW i \in 1..(Len(buf) - c) PROVE rest[i] = buf[c + i]
    <3>1. i \in 1..(Len(buf) - (c + 1) + 1) /\ c + 1 + i - 1 = c + i
      BY <1>1, <1>4
    <3>2. QED
      BY <2>2, <3>1
  <2>4. QED
    BY <1>1, <1>4, <2>2, <2>3
<1> HIDE DEF rest
<1>8. /\ Len(new) = Len(buf) - c + 1
      /\ \A i \in 1..(Len(buf) - c) : new[i] = buf[c + i]
      /\ new[Len(buf) - c + 1] = e
  BY <1>1, <1>4, <1>7, AppendProperties
<1> HIDE DEF new
<1>9. \A i \in 1..(Len(buf) - c) :
          /\ new[i].id <= now /\ now <= new[i].id + Window
          /\ c + i \in 1..Len(buf)
  BY <1>1, <1>4, <1>5, <1>8 DEF IsTimed
<1>10. ASSUME NEW i \in 1..Len(new) PROVE new[i].id <= now
  <2>1. CASE i = Len(buf) - c + 1
    BY <1>8, <2>1
  <2>2. CASE i # Len(buf) - c + 1
    BY <1>1, <1>4, <1>8, <1>9, <2>2
  <2>3. QED
    BY <2>1, <2>2
<1>11. ASSUME NEW i \in 1..Len(new), NEW j \in 1..Len(new), i < j
       PROVE  new[i].id <= new[j].id /\ new[j].id <= new[i].id + Window
  <2>1. i \in 1..(Len(buf) - c)
    BY <1>1, <1>4, <1>8, <1>11
  <2>2. CASE j = Len(buf) - c + 1
    BY <1>8, <1>9, <2>1, <2>2
  <2>3. CASE j # Len(buf) - c + 1
    <3>0. j \in 1..(Len(buf) - c + 1)
      BY <1>8
    <3>1. j \in 1..(Len(buf) - c)
      <4>1. Len(buf) - c \in Int
        BY <1>1, <1>4
      <4>2. QED
        BY <2>3, <3>0, <4>1
    <3>2. c + i < c + j /\ c + i \in 1..Len(buf) /\ c + j \in 1..Len(buf)
      <4>1. c + i \in 1..Len(buf) /\ c + j \in 1..Len(buf)
        BY <1>9, <2>1, <3>1
      <4>2. c + i < c + j
        BY <1>1, <1>4, <1>11, <2>1, <3>1
      <4>3. QED
        BY <4>1, <4>2
    <3>3. new[i] = buf[c + i] /\ new[j] = buf[c + j]
      BY <1>8, <2>1, <3>1
    <3>4. QED
      BY <3>2, <3>3 DEF IsTimed
  <2>4. QED
    BY <2>2, <2>3
<1>12. QED
  BY <1>6, <1>10, <1>11 DEF IsTimed

\* Only Deliver adds to a buffer; others leave it, or lose it, and time only
\* goes on.
LEMMA TimedStep == IInv /\ Timed /\ [Next]_vars => Timed'
<1> SUFFICES ASSUME IInv, Timed, [Next]_vars PROVE Timed'
  OBVIOUS
<1>1. /\ buffer \in [Workers -> Seq(Entry)] /\ now \in Nat
      /\ \A w \in Workers : \A i \in 1..Len(buffer[w]) : buffer[w][i].id \in Nat
  <2>1. buffer \in [Workers -> Seq(Entry)] /\ now \in Nat
    BY BoundAssumption DEF IInv, Types
  <2>2. QED
    BY <2>1, EntriesHaveTimes
<1>2. CASE buffer' = buffer /\ now' = now
  BY <1>2 DEF Timed, IsTimed
<1>3. ASSUME NEW k \in Conns, Deliver(k) PROVE Timed'
  <2> DEFINE e == [id |-> now, event |-> next[k]]
  <2>1. /\ phase[k] # "closed" /\ next[k] \in Events /\ now' = now
        /\ buffer' = [buffer EXCEPT ![worker[k]] = Add(@, e)]
    BY <1>3 DEF Deliver, Pending, Events
  <2>2. worker[k] \in Workers /\ e \in Entry /\ e.id = now
    BY <2>1, AnOpenOne DEF IInv, Types, Entry
  <2> HIDE DEF e
  <2>3. IsTimed(Add(buffer[worker[k]], e), now)
    BY <1>1, <2>2, AddTimed DEF Timed
  <2>4. ASSUME NEW w \in Workers PROVE IsTimed(buffer'[w], now)
    BY <1>1, <2>1, <2>2, <2>3 DEF Timed
  <2>5. QED
    BY <2>1, <2>4 DEF Timed, IsTimed
<1>4. ASSUME NEW w \in Workers, Crash(w) PROVE Timed'
  <2>1. buffer' = [buffer EXCEPT ![w] = <<>>] /\ now' = now
    BY <1>4 DEF Crash
  <2>2. ASSUME NEW v \in Workers PROVE IsTimed(buffer'[v], now)
    <3>1. CASE v = w
      BY <1>1, <2>1, <3>1 DEF IsTimed
    <3>2. CASE v # w
      BY <1>1, <2>1, <3>2 DEF Timed
    <3>3. QED
      BY <3>1, <3>2
  <2>3. QED
    BY <2>1, <2>2 DEF Timed, IsTimed
<1>5. CASE Tick
  <2>1. buffer' = buffer /\ now' = now + 1
    BY <1>5 DEF Tick
  <2>2. QED
    BY <1>1, <2>1 DEF Timed, IsTimed
<1>6. QED
  BY <1>2, <1>3, <1>4, <1>5 DEF Next, vars, Serve, Open, Subscribed, StartReplay,
     Replay, Skip, Close, Publish, Drop

\* Every variable has its type, and a replay buffer is in the order of time and
\* spans no more than its window (SseReplayBuffer.add).
THEOREM TypeCorrect == SafeSpec => []TypeOK
<1>1. Init => Timed
  BY DEF Init, Timed, IsTimed
<1>2. IInv /\ Timed => TypeOK
  BY DEF IInv, Types, Timed, IsTimed, TypeOK
<1>3. QED
  BY <1>1, <1>2, TimedStep, Invariance, PTL DEF SafeSpec
============================================================================
