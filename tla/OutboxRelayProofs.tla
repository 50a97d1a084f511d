-------------------------- MODULE OutboxRelayProofs --------------------------
(***************************************************************************)
(* What OutboxRelay guarantees for any number of rows, pollers and         *)
(* failures.  The inductive invariant says that the locks give each row at *)
(* most one holder, and counts how often a row can have gone out depending *)
(* on whether its mark is there, pending or rolled back.                   *)
(***************************************************************************)
EXTENDS OutboxRelay, FiniteSetTheorems, TLAPS

USE RowsAssumption, LimitAssumption, FailuresAssumption

-----------------------------------------------------------------------------
(* The inductive invariant.                                                *)

\* A row is held by one poller at most, which is working on it, and only
\* while it is committed and not yet published.
Holding ==
    /\ \A p \in Pollers : /\ ppc[p] \in {"poll", "dead"} => Held(p) = {}
                          /\ ppc[p] = "commit" => batch[p] = {}
                          /\ batch[p] \cap marked[p] = {}
    /\ \A p, q \in Pollers : p # q => Held(p) \cap Held(q) = {}
    /\ \A p \in Pollers : \A r \in Held(p) : r \notin published
    /\ \A r \in Rows : r \in published \/ (\E p \in Pollers : r \in Held(p))
                          => row[r] = "committed"

\* How often a row has gone out.
Counted ==
    /\ \A r \in Rows : times[r] <= 1 + failures
    /\ \A r \in Rows : r \notin published /\ (\A p \in Pollers : r \notin marked[p])
                          => times[r] <= failures
    /\ \A r \in published : times[r] > 0
    /\ \A p \in Pollers : \A r \in marked[p] : times[r] > 0
    /\ \A r \in Rows : times[r] > 0 => row[r] = "committed"

IInv == TypeOK /\ Holding /\ Counted

\* The numbers of TypeOK, for the steps that count.
LEMMA Numbers ==
    ASSUME TypeOK
    PROVE  /\ clock \in Nat /\ failures \in Nat
           /\ enqueuedAt \in [Rows -> Nat] /\ times \in [Rows -> Nat]
<1>1. failures \in 0..MaxFailures
  BY DEF TypeOK
<1>2. failures \in Nat
  BY <1>1
<1>3. QED
  BY <1>2 DEF TypeOK

\* Holding nothing is within the limit.
LEMMA EmptyWithinLimit == Cardinality({}) <= Limit
BY FS_EmptySet

LEMMA InitIInv == Init => IInv
<1> SUFFICES ASSUME Init PROVE IInv
  OBVIOUS
<1>1. \A p \in Pollers : Held(p) = {}
  BY DEF Init, Held
<1>2. TypeOK
  BY <1>1, FS_EmptySet DEF Init, TypeOK
<1>3. Holding
  BY <1>1 DEF Init, Holding
<1>4. Counted
  BY DEF Init, Counted
<1>5. QED
  BY <1>2, <1>3, <1>4 DEF IInv

-----------------------------------------------------------------------------
(* The steps of the writers.                                               *)

LEMMA InsertStep ==
    ASSUME IInv, NEW r \in Rows, Insert(r)
    PROVE  IInv'
<1> USE DEF IInv, Insert, pollerVars
<1>1. PICK now \in {clock, clock + 1} :
        clock' = now /\ enqueuedAt' = [enqueuedAt EXCEPT ![r] = now]
  OBVIOUS
<1>2. TypeOK'
  <2>1. clock' \in Nat /\ enqueuedAt' \in [Rows -> Nat]
    <3>1. now \in Nat
      BY Numbers
    <3>2. QED
      BY <1>1, <3>1, Numbers
  <2>2. \A p \in Pollers : Held(p)' = Held(p)
    BY DEF Held
  <2>3. QED
    BY <2>1, <2>2 DEF TypeOK
<1>3. Holding' /\ Counted'
  BY DEF TypeOK, Holding, Counted, Held
<1>4. QED
  BY <1>2, <1>3

LEMMA EndOfInsertStep ==
    ASSUME IInv, NEW r \in Rows, EndOfInsert(r)
    PROVE  IInv'
<1> USE DEF IInv, EndOfInsert, pollerVars
<1>1. TypeOK'
  BY DEF TypeOK, Held
<1>2. Holding' /\ Counted'
  BY DEF TypeOK, Holding, Counted, Held
<1>3. QED
  BY <1>1, <1>2

-----------------------------------------------------------------------------
(* The steps of a poller.                                                  *)

LEMMA PollStep ==
    ASSUME IInv, NEW p \in Pollers, Poll(p)
    PROVE  IInv'
<1> USE DEF IInv
<1>1. PICK b \in SUBSET Unlocked :
        /\ IsFirst(b)
        /\ batch' = [batch EXCEPT ![p] = b]
        /\ ppc' = [ppc EXCEPT ![p] = IF b = {} THEN "poll" ELSE "publish"]
  BY DEF Poll
<1>2. UNCHANGED <<writerVars, published, marked, times, failures>> /\ ppc[p] = "poll"
  BY DEF Poll
<1>3. b \subseteq Rows /\ Cardinality(b) <= Limit
  BY <1>1 DEF Unlocked, IsFirst
<1>4. Held(p) = {} /\ marked[p] = {} /\ Held(p)' = b
  BY <1>1, <1>2 DEF Holding, Held, TypeOK
<1>5. \A q \in Pollers : q # p => Held(q)' = Held(q)
  BY <1>1, <1>2 DEF Held, TypeOK
<1>6. \A r \in b : /\ row[r] = "committed" /\ r \notin published
                   /\ \A q \in Pollers : r \notin Held(q)
  BY <1>1 DEF Unlocked
<1>7. TypeOK'
  BY <1>1, <1>2, <1>3, <1>4, <1>5 DEF TypeOK, writerVars
<1>8. Holding'
  <2>1. \A q \in Pollers : /\ ppc'[q] \in {"poll", "dead"} => Held(q)' = {}
                           /\ ppc'[q] = "commit" => batch'[q] = {}
                           /\ batch'[q] \cap marked'[q] = {}
    BY <1>1, <1>2, <1>4, <1>5 DEF Holding, TypeOK
  <2>2. \A q, s \in Pollers : q # s => Held(q)' \cap Held(s)' = {}
    BY <1>4, <1>5, <1>6 DEF Holding
  <2>3. \A q \in Pollers : \A r \in Held(q)' : r \notin published'
    BY <1>2, <1>4, <1>5, <1>6 DEF Holding
  <2>4. \A r \in Rows : r \in published' \/ (\E q \in Pollers : r \in Held(q)')
                           => row'[r] = "committed"
    BY <1>2, <1>4, <1>5, <1>6 DEF Holding, writerVars
  <2>5. QED
    BY <2>1, <2>2, <2>3, <2>4 DEF Holding
<1>9. Counted'
  BY <1>2 DEF Counted, writerVars
<1>10. QED
  BY <1>7, <1>8, <1>9

LEMMA PublishStep ==
    ASSUME IInv, NEW p \in Pollers, Publish(p)
    PROVE  IInv'
<1> USE DEF IInv
<1>1. PICK r \in batch[p] :
        /\ times' = [times EXCEPT ![r] = @ + 1]
        /\ batch' = [batch EXCEPT ![p] = @ \ {r}]
        /\ marked' = [marked EXCEPT ![p] = @ \cup {r}]
  BY DEF Publish
<1>2. /\ UNCHANGED <<writerVars, published, failures>> /\ ppc[p] = "publish"
      /\ ppc' = [ppc EXCEPT ![p] = IF batch'[p] = {} THEN "commit" ELSE "publish"]
  BY DEF Publish
<1>3. r \in Rows /\ r \in Held(p)
  BY <1>1 DEF TypeOK, Held
<1>4. \A q \in Pollers : Held(q)' = Held(q)
  BY <1>1 DEF Held, TypeOK
<1>5. TypeOK'
  <2>0. times' \in [Rows -> Nat]
    <3>1. times[r] + 1 \in Nat
      BY <1>3, Numbers
    <3>2. QED
      BY <1>1, <3>1, Numbers
  <2>1. batch' \in [Pollers -> SUBSET Rows]
    BY <1>1, <1>3 DEF TypeOK
  <2>2. marked' \in [Pollers -> SUBSET Rows]
    BY <1>1, <1>3 DEF TypeOK
  <2>3. ppc' \in [Pollers -> {"poll", "publish", "commit", "dead"}]
    BY <1>2 DEF TypeOK
  <2>4. \A q \in Pollers : Cardinality(Held(q))' <= Limit
    BY <1>4 DEF TypeOK
  <2>5. QED
    BY <1>2, <2>0, <2>1, <2>2, <2>3, <2>4 DEF TypeOK, writerVars
<1>6. Holding'
  <2>1. \A q \in Pollers : /\ ppc'[q] \in {"poll", "dead"} => Held(q)' = {}
                           /\ ppc'[q] = "commit" => batch'[q] = {}
                           /\ batch'[q] \cap marked'[q] = {}
    BY <1>1, <1>2, <1>4 DEF Holding, TypeOK
  <2>2. QED
    BY <1>2, <1>4, <2>1 DEF Holding, writerVars
<1>7. Counted'
  <2>1. times[r] <= failures /\ times[r] \in Nat /\ failures \in Nat
    <3>1. r \notin published /\ \A q \in Pollers : r \notin marked[q]
      BY <1>1, <1>3 DEF Holding, Held
    <3>2. times[r] <= failures
      BY <1>3, <3>1 DEF Counted
    <3>3. QED
      BY <1>3, <3>2, Numbers
  <2>2. /\ times'[r] = times[r] + 1 /\ r \in marked'[p]
        /\ \A s \in Rows : s # r => times'[s] = times[s]
        /\ \A q \in Pollers, s \in Rows : s # r => (s \in marked'[q] <=> s \in marked[q])
    BY <1>1, <1>3 DEF TypeOK
  <2>3. row[r] = "committed" /\ row' = row /\ published' = published /\ failures' = failures
    BY <1>2, <1>3 DEF Holding, writerVars
  <2>4. \A q \in Pollers : marked'[q] \subseteq Rows
    BY <1>5 DEF TypeOK
  <2>5. \A s \in Rows : times'[s] <= 1 + failures'
    BY <2>1, <2>2, <2>3 DEF Counted
  <2>6. \A s \in Rows : s \notin published' /\ (\A q \in Pollers : s \notin marked'[q])
                          => times'[s] <= failures'
    BY <2>2, <2>3 DEF Counted
  <2>7. /\ \A s \in published' : times'[s] > 0
        /\ \A q \in Pollers : \A s \in marked'[q] : times'[s] > 0
        /\ \A s \in Rows : times'[s] > 0 => row'[s] = "committed"
    <3>1. times'[r] > 0
      BY <2>1, <2>2
    <3>2. \A s \in Rows : s # r => times'[s] = times[s]
      BY <2>2
    <3>3. \A s \in published' : s \in Rows /\ times'[s] > 0
      BY <2>3, <3>1, <3>2 DEF Counted, TypeOK
    <3>4. \A q \in Pollers : \A s \in marked'[q] : times'[s] > 0
      BY <2>2, <2>4, <3>1, <3>2 DEF Counted
    <3>5. \A s \in Rows : times'[s] > 0 => row'[s] = "committed"
      BY <2>3, <3>2 DEF Counted
    <3>6. QED
      BY <3>3, <3>4, <3>5
  <2>8. QED
    BY <2>5, <2>6, <2>7 DEF Counted
<1>8. QED
  BY <1>5, <1>6, <1>7

LEMMA CommitStep ==
    ASSUME IInv, NEW p \in Pollers, Commit(p)
    PROVE  IInv'
<1> USE DEF IInv
<1>1. /\ UNCHANGED <<writerVars, batch, times, failures>> /\ ppc[p] = "commit"
      /\ published' = published \cup marked[p]
      /\ marked' = [marked EXCEPT ![p] = {}]
      /\ ppc' = [ppc EXCEPT ![p] = "poll"]
  BY DEF Commit
<1>2. /\ Held(p)' = {} /\ Held(p) = marked[p]
      /\ \A q \in Pollers : q # p => Held(q)' = Held(q) /\ marked'[q] = marked[q]
  BY <1>1 DEF Holding, Held, TypeOK
<1>3. TypeOK'
  <2>1. \A q \in Pollers : Cardinality(Held(q))' <= Limit
    BY <1>2, EmptyWithinLimit DEF TypeOK
  <2>2. QED
    BY <1>1, <2>1 DEF TypeOK, writerVars
<1>4. Holding'
  <2>1. \A q \in Pollers : /\ ppc'[q] \in {"poll", "dead"} => Held(q)' = {}
                           /\ ppc'[q] = "commit" => batch'[q] = {}
                           /\ batch'[q] \cap marked'[q] = {}
    BY <1>1, <1>2 DEF Holding, TypeOK
  <2>2. \A q, t \in Pollers : q # t => Held(q)' \cap Held(t)' = {}
    BY <1>2 DEF Holding
  <2>3. \A q \in Pollers : \A r \in Held(q)' : r \notin published'
    BY <1>1, <1>2 DEF Holding
  <2>4. \A r \in Rows : r \in published' \/ (\E q \in Pollers : r \in Held(q)')
                           => row'[r] = "committed"
    BY <1>1, <1>2 DEF Holding, writerVars
  <2>5. QED
    BY <2>1, <2>2, <2>3, <2>4 DEF Holding
<1>5. Counted'
  BY <1>1, <1>2 DEF Counted, TypeOK, writerVars
<1>6. QED
  BY <1>3, <1>4, <1>5

\* A failure releases what the poller held; its rows may go out once more.
LEMMA AbandonStep ==
    ASSUME IInv, NEW p \in Pollers, Abandon(p), UNCHANGED <<writerVars, times>>,
           NEW s \in {"poll", "dead"}, ppc' = [ppc EXCEPT ![p] = s]
    PROVE  IInv'
<1> USE DEF IInv
<1>1. /\ failures' = failures + 1 /\ failures < MaxFailures
      /\ batch' = [batch EXCEPT ![p] = {}]
      /\ marked' = [marked EXCEPT ![p] = {}]
      /\ published' = published \/ published' = published \cup marked[p]
  BY DEF Abandon
<1>2. /\ Held(p)' = {}
      /\ \A q \in Pollers : q # p => Held(q)' = Held(q) /\ marked'[q] = marked[q]
  BY <1>1 DEF Held, TypeOK
<1>3. TypeOK'
  <2>1. \A q \in Pollers : Cardinality(Held(q))' <= Limit
    BY <1>2, EmptyWithinLimit DEF TypeOK
  <2>2. failures' \in 0..MaxFailures
    BY <1>1, Numbers
  <2>3. published' \subseteq Rows
    BY <1>1 DEF TypeOK
  <2>4. ppc' \in [Pollers -> {"poll", "publish", "commit", "dead"}]
    BY DEF TypeOK
  <2>5. QED
    BY <1>1, <2>1, <2>2, <2>3, <2>4 DEF TypeOK, writerVars
<1>4. Holding'
  <2>1. \A q \in Pollers : /\ ppc'[q] \in {"poll", "dead"} => Held(q)' = {}
                           /\ ppc'[q] = "commit" => batch'[q] = {}
                           /\ batch'[q] \cap marked'[q] = {}
    BY <1>1, <1>2 DEF Holding, TypeOK
  <2>2. \A q \in Pollers : \A r \in Held(q)' : r \notin published'
    BY <1>1, <1>2 DEF Holding, Held
  <2>3. QED
    BY <1>1, <1>2, <2>1, <2>2 DEF Holding, Held, TypeOK, writerVars
<1>5. Counted'
  <2>1. \A r \in Rows : times[r] \in Nat /\ times[r] <= 1 + failures /\ failures \in Nat
    BY Numbers DEF Counted
  <2>2. \A r \in Rows : times'[r] <= failures' /\ times'[r] <= 1 + failures'
    BY <1>1, <2>1
  <2>3. \A r \in published' : times'[r] > 0
    BY <1>1 DEF Counted
  <2>4. \A q \in Pollers : \A r \in marked'[q] : times'[r] > 0
    BY <1>1, <1>2 DEF Counted, TypeOK
  <2>5. QED
    BY <2>2, <2>3, <2>4 DEF Counted, writerVars
<1>6. QED
  BY <1>3, <1>4, <1>5

LEMMA RestartStep ==
    ASSUME IInv, NEW p \in Pollers, Restart(p)
    PROVE  IInv'
<1>1. TypeOK' /\ Counted'
  BY DEF IInv, Restart, TypeOK, Counted, Held, writerVars
<1>2. Holding'
  BY DEF IInv, Restart, TypeOK, Holding, Held, writerVars
<1>3. QED
  BY <1>1, <1>2 DEF IInv

LEMMA StutterStep == IInv /\ UNCHANGED vars => IInv'
BY DEF vars, writerVars, pollerVars, IInv, TypeOK, Holding, Counted, Held

THEOREM Invariance == SafeSpec => []IInv
<1>1. IInv /\ [Next]_vars => IInv'
  BY InsertStep, EndOfInsertStep, PollStep, PublishStep, CommitStep, AbandonStep,
     RestartStep, StutterStep DEF Next, Work, Fail, Crash
<1>2. QED
  BY InitIInv, <1>1, PTL DEF SafeSpec

-----------------------------------------------------------------------------
(* The properties.                                                         *)

\* Types, and the bound on what a poller holds.
THEOREM TypeCorrect == SafeSpec => []TypeOK
<1>1. IInv => TypeOK
  BY DEF IInv
<1>2. QED
  BY <1>1, Invariance, PTL

\* A row goes out once, and at most once more for every failure.
THEOREM Once == SafeSpec => []OncePerFailure
<1>1. IInv => OncePerFailure
  BY DEF IInv, Counted, OncePerFailure
<1>2. QED
  BY <1>1, Invariance, PTL

\* What is marked as published has been sent and is left alone.
THEOREM Over == SafeSpec => []PublishedIsOver
<1>1. IInv => PublishedIsOver
  BY DEF IInv, TypeOK, Holding, Counted, PublishedIsOver
<1>2. QED
  BY <1>1, Invariance, PTL

\* The safety part of at-least-once delivery: what is delivered was committed,
\* and nothing that was recorded or delivered is taken back.
THEOREM Refinement == SafeSpec => Delivery!SafeSpec
<1> DEFINE recorded == {r \in Rows : row[r] = "committed"}
           delivered == {r \in Rows : times[r] > 0}
<1>1. Init => Delivery!Init
  BY DEF Init, Delivery!Init
<1>2. ASSUME IInv, IInv', [Next]_vars PROVE [Delivery!Next]_(Delivery!vars)
  <2>1. ASSUME NEW r \in Rows, Insert(r) PROVE UNCHANGED <<recorded, delivered>>
    BY <1>2, <2>1 DEF Insert, pollerVars, IInv, TypeOK
  <2>2. ASSUME NEW r \in Rows, EndOfInsert(r)
        PROVE  Delivery!Record(r) \/ UNCHANGED <<recorded, delivered>>
    <3>1. PICK outcome \in {"committed", "rolled back"} :
              row' = [row EXCEPT ![r] = outcome]
      BY <2>2 DEF EndOfInsert
    <3>2. delivered' = delivered /\ r \notin recorded
      BY <2>2 DEF EndOfInsert, pollerVars
    <3>3. recorded' = IF outcome = "committed" THEN recorded \cup {r} ELSE recorded
      <4>1. row' = [row EXCEPT ![r] = outcome] /\ row \in [Rows -> {"none", "open",
                                                   "committed", "rolled back"}]
        BY <1>2, <3>1 DEF IInv, TypeOK
      <4>2. row'[r] = outcome /\ \A s \in Rows : s # r => row'[s] = row[s]
        BY <4>1
      <4>3. QED
        BY <3>2, <4>2
    <3>4. QED
      BY <3>2, <3>3 DEF Delivery!Record
  <2>3. ASSUME NEW p \in Pollers, Publish(p)
        PROVE  (\E r \in Rows : Delivery!Deliver(r)) \/ UNCHANGED <<recorded, delivered>>
    <3>1. PICK r \in batch[p] : times' = [times EXCEPT ![r] = @ + 1]
      BY <2>3 DEF Publish
    <3>2. r \in Rows /\ row' = row /\ row[r] = "committed" /\ times[r] \in Nat
      BY <1>2, <2>3, <3>1 DEF Publish, writerVars, IInv, TypeOK, Holding, Held
    <3>3. delivered' = delivered \cup {r}
      <4>1. times'[r] > 0 /\ \A s \in Rows : s # r => times'[s] = times[s]
        BY <1>2, <3>1, <3>2, Numbers DEF IInv
      <4>2. QED
        BY <3>2, <4>1
    <3>4. QED
      BY <3>2, <3>3 DEF Delivery!Deliver
  <2>4. ASSUME NEW p \in Pollers,
               Poll(p) \/ Commit(p) \/ Restart(p) \/ Fail(p) \/ Crash(p)
        PROVE  UNCHANGED <<recorded, delivered>>
    BY <2>4 DEF Poll, Commit, Restart, Fail, Crash, writerVars
  <2>5. CASE UNCHANGED vars
    BY <2>5 DEF vars, writerVars, pollerVars, Delivery!vars
  <2>6. QED
    BY <1>2, <2>1, <2>2, <2>3, <2>4, <2>5 DEF Next, Work, Delivery!Next, Delivery!vars
<1>3. QED
  BY <1>1, <1>2, Invariance, PTL DEF SafeSpec, Delivery!SafeSpec

============================================================================
