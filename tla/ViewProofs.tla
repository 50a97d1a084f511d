----------------------------- MODULE ViewProofs -----------------------------
(***************************************************************************)
(* Proofs about what the backend shows: AlertPages, the list of alerts and *)
(* the page of one, and EstateView, the estate and the page of a property. *)
(* For every set of alerts and every limit, the pages of a walk are        *)
(* disjoint and miss nothing that stays in sight, and the stored detail    *)
(* agrees with the row but for what a refresh changes.  For every list of  *)
(* properties and every order of commits, the estate shows each once, in   *)
(* the order asked for, and what is shown of a site is true if nothing was *)
(* committed since its first query.                                        *)
(***************************************************************************)
EXTENDS AlertPages, EstateView, FiniteSetTheorems, SequenceTheorems, WellFoundedInduction,
        TLAPS

-----------------------------------------------------------------------------
(* ALERT PAGES.  Types.                                                    *)

SeverityType == {"none", "p1", "p2", "p3", "p4"}
KeyType == [rank : 1..4, opened : Moments \cup {0}, id : AlertIds]

-----------------------------------------------------------------------------
(* The order of the rows.                                                  *)

\* The rank of a severity is a number.
LEMMA RankType == ASSUME NEW a PROVE SevRank(a) \in 1..4
<1>1. SevRank(a) \in {1, 2, 3, 4}
  BY Zenon DEF SevRank
<1>2. {1, 2, 3, 4} \subseteq 1..4
  OBVIOUS
<1> QED
  BY <1>1, <1>2, Zenon

\* What ORDER BY compares are integers.
LEMMA OpenedType ==
  ASSUME PagesTypeOK, NEW a \in AlertIds PROVE openedAt[a] \in Int /\ a \in Int
<1>1. a \in Int
  BY AlertIdsAssumption, Zenon
<1>2. openedAt[a] \in Moments \cup {0}
  BY DEF PagesTypeOK
<1>3. CASE openedAt[a] \in Moments
  BY <1>1, <1>3, MomentsAssumption, Zenon
<1>4. CASE openedAt[a] = 0
  BY <1>1, <1>4
<1> QED
  BY <1>2, <1>3, <1>4, Zenon

\* The order is total: of two alerts one comes first.
LEMMA OrderTotal ==
  ASSUME PagesTypeOK, NEW a \in AlertIds, NEW b \in AlertIds, a # b
  PROVE ComesBefore(a, b) \/ ComesBefore(b, a)
<1>1. SevRank(a) \in 1..4 /\ SevRank(b) \in 1..4
  BY RankType
<1>2. openedAt[a] \in Int /\ openedAt[b] \in Int /\ a \in Int /\ b \in Int
  BY OpenedType
<1> QED
  BY <1>1, <1>2 DEF ComesBefore

\* The order is transitive.
LEMMA OrderTransitive ==
  ASSUME PagesTypeOK, NEW a \in AlertIds, NEW b \in AlertIds, NEW c \in AlertIds,
         ComesBefore(a, b), ComesBefore(b, c)
  PROVE ComesBefore(a, c)
<1>1. SevRank(a) \in 1..4 /\ SevRank(b) \in 1..4 /\ SevRank(c) \in 1..4
  BY RankType
<1>2. /\ openedAt[a] \in Int /\ openedAt[b] \in Int /\ openedAt[c] \in Int
      /\ a \in Int /\ b \in Int /\ c \in Int
  BY OpenedType
<1> QED
  BY <1>1, <1>2 DEF ComesBefore

\* No row comes before itself.
LEMMA OrderIrreflexive ==
  ASSUME PagesTypeOK, NEW a \in AlertIds PROVE ~ComesBefore(a, a)
<1>1. SevRank(a) \in 1..4 /\ openedAt[a] \in Int /\ a \in Int
  BY RankType, OpenedType
<1> QED
  BY <1>1 DEF ComesBefore

\* The clause of a cursor that was made from a row selects what comes after it.
LEMMA CursorClause ==
  ASSUME PagesTypeOK, NEW last \in AlertIds, NEW a \in AlertIds,
         cursor = EncodeCursor(last), cursor # NoCursor
  PROVE BeyondCursor(a) <=> ComesBefore(last, a)
<1>1. SevRank(a) \in 1..4 /\ SevRank(last) \in 1..4
  BY RankType
<1>2. openedAt[a] \in Int /\ openedAt[last] \in Int /\ a \in Int /\ last \in Int
  BY OpenedType
<1>3. /\ cursor.rank = SevRank(last) /\ cursor.opened = openedAt[last]
      /\ cursor.id = last
  BY DEF EncodeCursor
<1> QED
  BY <1>1, <1>2, <1>3 DEF BeyondCursor, ComesBefore

\* A cursor is never mistaken for none.
LEMMA CursorIsNotNone ==
  ASSUME PagesTypeOK, NEW last \in AlertIds
  PROVE EncodeCursor(last) \in KeyType /\ EncodeCursor(last) # NoCursor
<1>1. SevRank(last) \in 1..4 /\ openedAt[last] \in Moments \cup {0}
  BY RankType DEF PagesTypeOK
<1>2. SevRank(last) \in Int /\ openedAt[last] \in Int /\ last \in Int
  BY <1>1, OpenedType
<1>4. EncodeCursor(last) \in [rank : Int, opened : Int, id : Int]
  BY <1>2 DEF EncodeCursor
<1>3. EncodeCursor(last) \in KeyType
  BY <1>1 DEF EncodeCursor, KeyType
<1> QED
  BY <1>3, <1>4, NoCursorAssumption

-----------------------------------------------------------------------------
(* Types.                                                                  *)

TypeOfTable ==
    /\ alertState \in [AlertIds -> AlertStates \cup {"absent"}]
    /\ alertDevice \in [AlertIds -> PageDevices]
    /\ alertProperty \in [AlertIds -> Properties]
    /\ correlation \in [AlertIds -> {"none", "first"}]
    /\ severity \in [AlertIds -> SeverityType]
    /\ kind \in [AlertIds -> Problems \cup {"none"}]
    /\ openedAt \in [AlertIds -> Moments \cup {0}]

TypeOfWalk ==
    /\ walk \in {"idle", "more", "done"} /\ scope \in Scopes
    /\ cursor \in KeyType \cup {NoCursor}
    /\ page \subseteq AlertIds /\ seen \subseteq AlertIds
    /\ Cardinality(page) <= Limit

\* The two halves make up the type invariant.
LEMMA TypeHalves ==
  PagesTypeOK <=> TypeOfTable /\ TypeOfWalk /\ steady \subseteq AlertIds
BY Zenon DEF PagesTypeOK, TypeOfTable, TypeOfWalk, SeverityType, KeyType

\* What a transition says of its severity.
LEMMA SeverityTyped == ASSUME NEW s PROVE SeverityForTransition(s) \in SeverityType
BY Zenon DEF SeverityForTransition, SeverityType

\* A recovery keeps the table well typed.
LEMMA RecoverTable ==
  ASSUME TypeOfTable, NEW d \in PageDevices, Recover(d) PROVE TypeOfTable'
<1>1. alertState' \in [AlertIds -> AlertStates \cup {"absent"}]
  BY SMT DEF Recover, TypeOfTable, AlertStates
<1> QED
  BY <1>1, Zenon DEF Recover, TypeOfTable, columns

\* A new row is well typed.
LEMMA OpenTable ==
  ASSUME TypeOfTable, NEW d \in PageDevices, NEW p \in Properties, NEW s \in Problems, Open(d, p, s)
  PROVE TypeOfTable'
<1>1. PICK a \in AlertIds \ Present, now \in Moments :
        /\ alertState' = [alertState EXCEPT ![a] = "opened"]
        /\ alertDevice' = [alertDevice EXCEPT ![a] = d]
        /\ alertProperty' = [alertProperty EXCEPT ![a] = p]
        /\ correlation' = [correlation EXCEPT ![a] = "first"]
        /\ severity' = [severity EXCEPT ![a] = SeverityForTransition(s)]
        /\ kind' = [kind EXCEPT ![a] = s]
        /\ openedAt' = [openedAt EXCEPT ![a] = now]
  BY Zenon DEF Open
<1>2. SeverityForTransition(s) \in SeverityType
  BY SeverityTyped
<1>3. alertState' \in [AlertIds -> AlertStates \cup {"absent"}]
  BY <1>1 DEF TypeOfTable, AlertStates, OpenStates
<1>4. /\ alertDevice' \in [AlertIds -> PageDevices]
      /\ alertProperty' \in [AlertIds -> Properties]
      /\ correlation' \in [AlertIds -> {"none", "first"}]
  BY <1>1 DEF TypeOfTable
<1>5. severity' \in [AlertIds -> SeverityType]
  BY <1>1, <1>2 DEF TypeOfTable
<1>6. kind' \in [AlertIds -> Problems \cup {"none"}]
  BY <1>1 DEF TypeOfTable
<1>7. openedAt' \in [AlertIds -> Moments \cup {0}]
  BY <1>1 DEF TypeOfTable
<1> QED
  BY <1>3, <1>4, <1>5, <1>6, <1>7, Zenon DEF TypeOfTable

\* Every writer keeps the table well typed, and steady within the alerts.
LEMMA WriteType ==
  ASSUME PagesTypeOK, Write PROVE PagesTypeOK'
<1> USE TypeHalves
<1>1. ASSUME NEW d \in PageDevices, Recover(d) PROVE PagesTypeOK'
  <2>1. TypeOfTable'
    BY <1>1, RecoverTable
  <2>2. TypeOfWalk' /\ (steady \subseteq AlertIds)'
    BY <1>1, Zenon DEF Recover, walkVars, TypeOfWalk, Unsettle, Scopes
  <2> QED
    BY <2>1, <2>2, TypeHalves, PTL
<1>2. ASSUME NEW d \in PageDevices, NEW p \in Properties, NEW s \in Problems, Refresh(d, p, s)
      PROVE PagesTypeOK'
  BY <1>2, Zenon DEF Refresh, PagesTypeOK, columns, walkVars, Scopes
<1>3. ASSUME NEW d \in PageDevices, NEW p \in Properties, NEW s \in Problems, Open(d, p, s)
      PROVE PagesTypeOK'
  <2>1. TypeOfTable'
    BY <1>3, OpenTable
  <2>2. TypeOfWalk' /\ (steady \subseteq AlertIds)'
    BY <1>3, Zenon DEF Open, walkVars, TypeOfWalk, Scopes
  <2> QED
    BY <2>1, <2>2, TypeHalves, PTL
<1>4. ASSUME NEW a \in AlertIds, ActOn(a) PROVE PagesTypeOK'
  <2>1. alertState' \in [AlertIds -> AlertStates \cup {"absent"}]
    BY <1>4 DEF ActOn, PagesTypeOK, AlertStates, OpenStates
  <2>2. TypeOfTable'
    BY <1>4, <2>1, Zenon DEF ActOn, TypeOfTable, columns
  <2>3. TypeOfWalk' /\ (steady \subseteq AlertIds)'
    BY <1>4, Zenon DEF ActOn, walkVars, TypeOfWalk, Unsettle, Scopes
  <2> QED
    BY <2>2, <2>3, TypeHalves, PTL
<1> QED
  BY <1>1, <1>2, <1>3, <1>4, Zenon DEF Write

\* A subset of the alerts is finite, and without one of its members smaller by one.
LEMMA RowsAreFinite ==
  ASSUME NEW rows, rows \subseteq AlertIds
  PROVE /\ IsFiniteSet(rows) /\ Cardinality(rows) \in Nat
        /\ \A extra \in rows : /\ IsFiniteSet(rows \ {extra})
                               /\ Cardinality(rows \ {extra}) = Cardinality(rows) - 1
<1>1. IsFiniteSet(rows)
  BY AlertIdsAssumption, FS_Subset
<1> QED
  BY <1>1, FS_CardinalityType, FS_RemoveElement

\* What NextPage returns: the two ways in which a page ends.
LEMMA NextPageCases ==
  ASSUME PagesTypeOK, NextPage
  PROVE \E rows \in SUBSET Candidates :
          /\ rows \subseteq AlertIds /\ Cardinality(rows) \in Nat /\ IsFetched(rows)
          /\ \/ /\ rows = Candidates /\ Cardinality(rows) <= Limit
                /\ page' = rows /\ walk' = "done" /\ cursor' = cursor
             \/ \E extra \in rows, last \in rows :
                /\ last # extra
                /\ IsLast(extra, rows) /\ IsLast(last, rows \ {extra})
                /\ page' = rows \ {extra} /\ walk' = "more"
                /\ Cardinality(rows \ {extra}) = Limit
                /\ cursor' = EncodeCursor(last)
<1>1. PICK rows \in SUBSET Candidates :
        /\ IsFetched(rows)
        /\ \/ /\ Cardinality(rows) <= Limit
              /\ page' = rows /\ walk' = "done" /\ UNCHANGED cursor
           \/ \E extra \in rows, last \in rows :
              /\ Cardinality(rows) > Limit
              /\ IsLast(extra, rows) /\ IsLast(last, rows \ {extra})
              /\ page' = rows \ {extra} /\ walk' = "more"
              /\ cursor' = EncodeCursor(last)
  BY Zenon DEF NextPage
<1>2. rows \subseteq AlertIds
  BY DEF Candidates, MatchingIn, Present
<1>3. Cardinality(rows) \in Nat
  BY <1>2, RowsAreFinite
<1>4. /\ Cardinality(rows) = Limit + 1 \/ (rows = Candidates /\ Cardinality(rows) <= Limit)
      /\ Limit \in Nat
  BY <1>1, LimitAssumption DEF IsFetched
<1>5. CASE /\ Cardinality(rows) <= Limit
           /\ page' = rows /\ walk' = "done" /\ UNCHANGED cursor
  <2>1. rows = Candidates
    BY <1>3, <1>4, <1>5
  <2> QED
    BY <1>1, <1>2, <1>3, <1>5, <2>1, Zenon
<1>6. ASSUME NEW extra \in rows, NEW last \in rows,
             /\ Cardinality(rows) > Limit
             /\ IsLast(extra, rows) /\ IsLast(last, rows \ {extra})
             /\ page' = rows \ {extra} /\ walk' = "more"
             /\ cursor' = EncodeCursor(last)
      PROVE /\ last # extra /\ Cardinality(rows \ {extra}) = Limit
  <2>1. Cardinality(rows) = Limit + 1
    BY <1>3, <1>4, <1>6
  <2>2. Cardinality(rows \ {extra}) = Cardinality(rows) - 1
    BY <1>2, RowsAreFinite
  <2>3. last # extra
    BY <1>6, Zenon DEF IsLast
  <2> QED
    BY <2>1, <2>2, <2>3, <1>4
<1> QED
  BY <1>1, <1>2, <1>3, <1>5, <1>6, Zenon

\* A page is never longer than asked for, and its cursor is well typed.
LEMMA NextPageType == ASSUME PagesTypeOK, NextPage PROVE PagesTypeOK'
<1>1. PICK rows \in SUBSET Candidates :
          /\ rows \subseteq AlertIds /\ Cardinality(rows) \in Nat /\ IsFetched(rows)
          /\ \/ /\ rows = Candidates /\ Cardinality(rows) <= Limit
                /\ page' = rows /\ walk' = "done" /\ cursor' = cursor
             \/ \E extra \in rows, last \in rows :
                /\ last # extra
                /\ IsLast(extra, rows) /\ IsLast(last, rows \ {extra})
                /\ page' = rows \ {extra} /\ walk' = "more"
                /\ Cardinality(rows \ {extra}) = Limit
                /\ cursor' = EncodeCursor(last)
  BY NextPageCases, Zenon
<1>2. page' \subseteq AlertIds /\ walk' \in {"idle", "more", "done"}
  BY <1>1, Zenon
<1>3. Limit \in Nat
  BY LimitAssumption
<1>4. Cardinality(page') <= Limit
  <2>1. CASE page' = rows /\ Cardinality(rows) <= Limit
    BY <2>1
  <2>2. CASE Cardinality(page') = Limit
    BY <2>2, <1>3
  <2> QED
    BY <1>1, <2>1, <2>2, Zenon
<1>5. cursor' \in KeyType \cup {NoCursor}
  <2>1. \A last \in AlertIds : EncodeCursor(last) \in KeyType
    BY CursorIsNotNone
  <2>2. cursor \in KeyType \cup {NoCursor}
    BY Zenon DEF PagesTypeOK, KeyType
  <2> QED
    BY <1>1, <2>1, <2>2, Zenon
<1>6. seen' = seen \cup page /\ UNCHANGED <<tableVars, scope, steady>>
  BY Zenon DEF NextPage
<1>7. TypeOfTable' /\ (steady \subseteq AlertIds)'
  BY <1>6, TypeHalves, Zenon DEF TypeOfTable, tableVars, columns
<1>8. scope' \in Scopes' /\ seen' \subseteq AlertIds
  BY <1>6, TypeHalves, Zenon DEF TypeOfWalk, Scopes
<1>9. TypeOfWalk'
  BY <1>2, <1>4, <1>5, <1>8, Zenon DEF TypeOfWalk, KeyType
<1> QED
  BY <1>7, <1>9, TypeHalves, PTL

\* A walk starts well typed.
LEMMA StartWalkType ==
  ASSUME PagesTypeOK, NEW where \in Scopes, StartWalk(where) PROVE PagesTypeOK'
<1>1. Cardinality({}) = 0 /\ Limit \in Nat
  BY FS_EmptySet, LimitAssumption
<1>2. Cardinality(page') <= Limit
  BY <1>1 DEF StartWalk
<1>3. TypeOfTable'
  BY TypeHalves, Zenon DEF StartWalk, TypeOfTable, tableVars, columns
<1>4. TypeOfWalk'
  BY <1>2, Zenon DEF StartWalk, TypeOfWalk, Scopes
<1>5. (steady \subseteq AlertIds)'
  BY Zenon DEF StartWalk, MatchingIn, Present
<1> QED
  BY <1>3, <1>4, <1>5, TypeHalves, PTL

\* The program starts well typed.
LEMMA InitType == ASSUME PagesInit PROVE PagesTypeOK
<1>1. Cardinality({}) = 0 /\ Limit \in Nat
  BY FS_EmptySet, LimitAssumption
<1>2. Cardinality(page) <= Limit
  BY <1>1 DEF PagesInit
<1>3. /\ (CHOOSE d \in PageDevices : TRUE) \in PageDevices
      /\ (CHOOSE p \in Properties : TRUE) \in Properties
  BY DevicesAssumption, Zenon
<1>4. TypeOfTable
  BY <1>3, SMT DEF PagesInit, TypeOfTable, SeverityType
<1>5. TypeOfWalk /\ steady \subseteq AlertIds
  BY <1>2, Zenon DEF PagesInit, TypeOfWalk, Scopes
<1> QED
  BY <1>4, <1>5, TypeHalves

\* The type invariant holds, for every limit: no page is longer.
THEOREM PagesTypeCorrect == PagesSpec => []PagesTypeOK
<1>1. PagesInit => PagesTypeOK
  BY InitType
<1>2. PagesTypeOK /\ [PagesNext]_pageVars => PagesTypeOK'
  <2>1. ASSUME PagesTypeOK, UNCHANGED pageVars PROVE PagesTypeOK'
    BY <2>1, Zenon DEF PagesTypeOK, pageVars, tableVars, columns, walkVars, Scopes
  <2> QED
    BY <2>1, WriteType, NextPageType, StartWalkType, Zenon DEF PagesNext
<1> QED
  BY <1>1, <1>2, PTL DEF PagesSpec

-----------------------------------------------------------------------------
(* The detail and the row.                                                 *)

\* The stored detail of a row says what its columns say, but for the property
\* and the correlation_id, which it has from the last transition.
DetailFits ==
    /\ detail = [a \in AlertIds |-> detail[a]]
    /\ \A a \in Present :
          /\ detail[a] = Materialize(alertDevice[a], detail[a].property, kind[a],
                                     openedAt[a], detail[a].correlation)
          /\ detail[a].property # alertProperty[a] => detail[a].correlation # correlation[a]
          /\ severity[a] = SeverityForTransition(kind[a])
          /\ correlation[a] = "first"

\* The fields of a detail.
LEMMA Fields ==
  ASSUME NEW d, NEW p, NEW s, NEW o, NEW c
  PROVE /\ Materialize(d, p, s, o, c).property = p
        /\ Materialize(d, p, s, o, c).correlation = c
BY DEF Materialize

\* With the live state laid over it, the detail is what GET should answer.
LEMMA FitIsEnough == ASSUME DetailFits PROVE DetailTellsTheAlert
<1>1. ASSUME NEW a \in Present
      PROVE LET r == AlertResponse(a) IN
            /\ r.severity = severity[a] /\ r.kind = kind[a] /\ r.device = alertDevice[a]
            /\ r.state = alertState[a] /\ r.opened = openedAt[a]
            /\ r.property # alertProperty[a] => r.correlation # correlation[a]
  <2> DEFINE p == detail[a].property
             c == detail[a].correlation
  <2>1. /\ detail[a] = Materialize(alertDevice[a], p, kind[a], openedAt[a], c)
        /\ p # alertProperty[a] => c # correlation[a]
        /\ severity[a] = SeverityForTransition(kind[a])
    BY Zenon DEF DetailFits
  <2> HIDE DEF p, c
  <2>2. AlertResponse(a) =
          [severity |-> severity[a], kind |-> kind[a], device |-> alertDevice[a],
           property |-> p, correlation |-> c, state |-> alertState[a],
           opened |-> openedAt[a]]
    BY <2>1 DEF AlertResponse, Materialize
  <2> QED
    BY <2>1, <2>2
<1> QED
  BY <1>1, Zenon DEF DetailTellsTheAlert

\* Opening fills all columns, and refreshing rewrites only what is the same
\* for every transition of that kind, the property and the correlation_id.
LEMMA WriteFits ==
  ASSUME PagesTypeOK, DetailFits, Write PROVE DetailFits'
<1>1. ASSUME NEW d \in PageDevices, Recover(d) PROVE DetailFits'
  <2>1. Present' \subseteq Present
    BY <1>1, Zenon DEF Recover, Present, OpenAlertsOf
  <2> QED
    BY <1>1, <2>1, Zenon DEF Recover, DetailFits, columns
<1>2. ASSUME NEW d \in PageDevices, NEW p \in Properties, NEW s \in Problems,
             Refresh(d, p, s)
      PROVE DetailFits'
  <2>1. PICK a \in FoundOpen(d, s) :
          /\ detail' = [detail EXCEPT ![a] = Materialize(d, p, s, openedAt[a], "later")]
          /\ UNCHANGED <<alertState, columns, walkVars, steady>>
    BY <1>2, Zenon DEF Refresh
  <2>2. a \in Present /\ a \in AlertIds /\ alertDevice[a] = d /\ kind[a] = s
    BY Zenon DEF FoundOpen, OpenAlertsOf, Present
  <2>3. detail'[a] = Materialize(d, p, s, openedAt[a], "later")
    BY <2>1, <2>2 DEF DetailFits
  <2>4. detail'[a].property = p /\ detail'[a].correlation = "later"
    BY <2>3, Fields
  <2>5. Present' = Present /\ UNCHANGED columns
    BY <2>1, Zenon DEF Present
  <2>6. detail' = [b \in AlertIds |-> detail'[b]]
    BY <2>1 DEF DetailFits
  <2>7. \A b \in Present : b # a => detail'[b] = detail[b]
    BY <2>1, <2>2 DEF DetailFits, Present
  <2>8. correlation[a] = "first" /\ severity[a] = SeverityForTransition(kind[a])
    BY <2>2, Zenon DEF DetailFits
  <2>9. "later" # "first"
    OBVIOUS
  <2>10. /\ detail'[a] = Materialize(alertDevice[a], detail'[a].property, kind[a],
                                      openedAt[a], detail'[a].correlation)
         /\ detail'[a].correlation # correlation[a]
    BY <2>2, <2>3, <2>4, <2>8, <2>9, Zenon
  <2> QED
    BY <2>2, <2>5, <2>6, <2>7, <2>8, <2>10, Zenon DEF DetailFits, columns
<1>3. ASSUME NEW d \in PageDevices, NEW p \in Properties, NEW s \in Problems,
             Open(d, p, s)
      PROVE DetailFits'
  <2>1. PICK a \in AlertIds \ Present, now \in Moments :
          /\ alertState' = [alertState EXCEPT ![a] = "opened"]
          /\ alertDevice' = [alertDevice EXCEPT ![a] = d]
          /\ alertProperty' = [alertProperty EXCEPT ![a] = p]
          /\ correlation' = [correlation EXCEPT ![a] = "first"]
          /\ severity' = [severity EXCEPT ![a] = SeverityForTransition(s)]
          /\ kind' = [kind EXCEPT ![a] = s]
          /\ openedAt' = [openedAt EXCEPT ![a] = now]
          /\ detail' = [detail EXCEPT ![a] = Materialize(d, p, s, now, "first")]
    BY <1>3, Zenon DEF Open
  <2>2. a \in AlertIds
    OBVIOUS
  <2>3. /\ severity'[a] = SeverityForTransition(s) /\ kind'[a] = s
        /\ alertDevice'[a] = d /\ alertProperty'[a] = p /\ openedAt'[a] = now
        /\ correlation'[a] = "first"
        /\ detail'[a] = Materialize(d, p, s, now, "first")
    BY <2>1, <2>2 DEF DetailFits, PagesTypeOK
  <2>4. detail'[a].property = p /\ detail'[a].correlation = "first"
    BY <2>3, Fields
  <2>5. ASSUME NEW b \in Present', b # a
        PROVE /\ b \in Present /\ severity'[b] = severity[b] /\ kind'[b] = kind[b]
              /\ alertDevice'[b] = alertDevice[b] /\ openedAt'[b] = openedAt[b]
              /\ alertProperty'[b] = alertProperty[b] /\ correlation'[b] = correlation[b]
              /\ detail'[b] = detail[b]
    <3>1. b \in AlertIds
      BY DEF Present
    <3>2. alertState'[b] = alertState[b]
      BY <2>1, <2>5, <3>1 DEF PagesTypeOK
    <3>3. b \in Present
      BY <3>1, <3>2, Zenon DEF Present
    <3>4. /\ severity'[b] = severity[b] /\ kind'[b] = kind[b]
          /\ alertDevice'[b] = alertDevice[b] /\ openedAt'[b] = openedAt[b]
          /\ alertProperty'[b] = alertProperty[b] /\ correlation'[b] = correlation[b]
          /\ detail'[b] = detail[b]
      BY <2>1, <2>5, <3>1 DEF PagesTypeOK, DetailFits
    <3> QED
      BY <3>3, <3>4
  <2>6. detail' = [b \in AlertIds |-> detail'[b]]
    BY <2>1 DEF DetailFits
  <2>7. /\ detail'[a] = Materialize(alertDevice'[a], detail'[a].property, kind'[a],
                                     openedAt'[a], detail'[a].correlation)
        /\ detail'[a].property = alertProperty'[a]
    BY <2>3, <2>4, Zenon
  <2>8. ASSUME NEW b \in Present'
        PROVE /\ detail'[b] = Materialize(alertDevice'[b], detail'[b].property, kind'[b],
                                          openedAt'[b], detail'[b].correlation)
              /\ detail'[b].property # alertProperty'[b] =>
                    detail'[b].correlation # correlation'[b]
              /\ severity'[b] = SeverityForTransition(kind'[b])
              /\ correlation'[b] = "first"
    <3>1. CASE b = a
      BY <2>3, <2>7, <3>1, Zenon
    <3>2. CASE b # a
      <4>1. /\ detail[b] = Materialize(alertDevice[b], detail[b].property, kind[b],
                                       openedAt[b], detail[b].correlation)
            /\ detail[b].property # alertProperty[b] => detail[b].correlation # correlation[b]
            /\ severity[b] = SeverityForTransition(kind[b])
            /\ correlation[b] = "first"
        BY <2>5, <3>2, Zenon DEF DetailFits
      <4> QED
        BY <2>5, <3>2, <4>1, Zenon
    <3> QED
      BY <3>1, <3>2
  <2> QED
    BY <2>6, <2>8, Zenon DEF DetailFits
<1>4. ASSUME NEW a \in AlertIds, ActOn(a) PROVE DetailFits'
  <2>1. Present' \subseteq Present
    BY <1>4 DEF ActOn, Present, PagesTypeOK
  <2> QED
    BY <1>4, <2>1, Zenon DEF ActOn, DetailFits, columns
<1> QED
  BY <1>1, <1>2, <1>3, <1>4, Zenon DEF Write

\* For every history of transitions, whatever properties they name, and of
\* auto-fix, GET tells the alert, and where it names another property than the
\* row, the correlation_id tells of the refresh that did it.
THEOREM DetailCorrect == PagesSpec => []DetailTellsTheAlert
<1>1. PagesInit => DetailFits
  <2> SUFFICES ASSUME PagesInit PROVE DetailFits
    OBVIOUS
  <2>1. Present = {}
    BY SMT DEF PagesInit, Present
  <2>2. detail = [a \in AlertIds |-> detail[a]]
    BY SMT DEF PagesInit
  <2> QED
    BY <2>1, <2>2, Zenon DEF DetailFits
<1>2. PagesTypeOK /\ DetailFits /\ [PagesNext]_pageVars => DetailFits'
  <2>1. ASSUME DetailFits, UNCHANGED tableVars PROVE DetailFits'
    BY <2>1, Zenon DEF DetailFits, tableVars, columns, Present
  <2>2. NextPage \/ (\E where \in Scopes : StartWalk(where)) => UNCHANGED tableVars
    BY Zenon DEF NextPage, StartWalk, tableVars, columns
  <2>3. UNCHANGED pageVars => UNCHANGED tableVars
    BY Zenon DEF pageVars, tableVars
  <2> QED
    BY <2>1, <2>2, <2>3, WriteFits, Zenon DEF PagesNext
<1>3. DetailFits => DetailTellsTheAlert
  BY FitIsEnough
<1> QED
  BY <1>1, <1>2, <1>3, PagesTypeCorrect, PTL DEF PagesSpec

-----------------------------------------------------------------------------
(* The walk.                                                               *)

\* Rows that are there when the walk asks for the next page.
WalkGoesOn ==
    /\ cursor = NoCursor => page = {} /\ seen = {}
    /\ cursor # NoCursor =>
        /\ \E last \in Present : cursor = EncodeCursor(last)
        /\ \A a \in page \cup seen : a \in Present /\ ~BeyondCursor(a)
    /\ \A a \in steady : BeyondCursor(a) \/ a \in seen \cup page

WalkInv ==
    /\ page \cap seen = {}
    /\ walk = "more" => WalkGoesOn
    /\ walk = "done" => steady \subseteq seen \cup page
    /\ steady \subseteq MatchingIn(scope, alertState)

\* A write moves no row in the order: severity and opened_at are written once.
LEMMA WriteKeepsRows ==
  ASSUME PagesTypeOK, Write
  PROVE /\ UNCHANGED walkVars
        /\ \A a \in Present : /\ a \in Present' /\ severity'[a] = severity[a]
                              /\ openedAt'[a] = openedAt[a]
                              /\ alertProperty'[a] = alertProperty[a]
        /\ \/ Unsettle
           \/ steady' = steady /\ \A a \in Present : alertState'[a] = alertState[a]
<1>1. ASSUME NEW d \in PageDevices, Recover(d)
      PROVE Unsettle /\ UNCHANGED <<columns, walkVars>>
            /\ \A a \in Present : a \in Present'
  BY <1>1, Zenon DEF Recover, Present, OpenAlertsOf
<1>2. ASSUME NEW d \in PageDevices, NEW p \in Properties, NEW s \in Problems, Refresh(d, p, s)
      PROVE UNCHANGED <<alertState, columns, walkVars, steady>>
  BY <1>2, Zenon DEF Refresh
<1>3. ASSUME NEW d \in PageDevices, NEW p \in Properties, NEW s \in Problems, Open(d, p, s)
      PROVE /\ UNCHANGED <<walkVars, steady>>
            /\ \A a \in Present : /\ alertState'[a] = alertState[a]
                                  /\ severity'[a] = severity[a]
                                  /\ openedAt'[a] = openedAt[a]
                                  /\ alertProperty'[a] = alertProperty[a]
  BY <1>3, SMT DEF Open, PagesTypeOK, Present
<1>4. ASSUME NEW b \in AlertIds, ActOn(b)
      PROVE Unsettle /\ UNCHANGED <<columns, walkVars>>
            /\ \A a \in Present : a \in Present'
  BY <1>4 DEF ActOn, PagesTypeOK, Present
<1>5. ASSUME UNCHANGED columns
      PROVE \A a \in Present : /\ severity'[a] = severity[a]
                               /\ openedAt'[a] = openedAt[a]
                               /\ alertProperty'[a] = alertProperty[a]
  BY <1>5, Zenon DEF columns
<1>6. ASSUME \A a \in Present : alertState'[a] = alertState[a]
      PROVE \A a \in Present : a \in Present'
  BY <1>6, Zenon DEF Present
<1>7. CASE \E d \in PageDevices : Recover(d)
  BY <1>1, <1>5, <1>7, Zenon
<1>8. CASE \E d \in PageDevices, p \in Properties, s \in Problems : Refresh(d, p, s)
  <2>1. UNCHANGED <<alertState, columns, walkVars, steady>>
    BY <1>2, <1>8, Zenon
  <2>2. \A a \in Present : alertState'[a] = alertState[a]
    BY <2>1, Zenon
  <2> QED
    BY <2>1, <2>2, <1>5, <1>6, Zenon
<1>9. CASE \E d \in PageDevices, p \in Properties, s \in Problems : Open(d, p, s)
  BY <1>3, <1>6, <1>9, Zenon
<1>10. CASE \E b \in AlertIds : ActOn(b)
  BY <1>4, <1>5, <1>10, Zenon
<1> QED
  BY <1>7, <1>8, <1>9, <1>10, Zenon DEF Write

\* So neither the clause of the cursor nor the steady alerts are disturbed.
LEMMA WriteWalk ==
  ASSUME PagesTypeOK, WalkInv, Write PROVE WalkInv'
<1>1. /\ walk' = walk /\ scope' = scope /\ cursor' = cursor
      /\ page' = page /\ seen' = seen
  BY WriteKeepsRows, Zenon DEF walkVars
<1>2. ASSUME NEW a \in Present
      PROVE /\ a \in Present' /\ EncodeCursor(a)' = EncodeCursor(a)
            /\ BeyondCursor(a)' <=> BeyondCursor(a)
            /\ alertProperty'[a] = alertProperty[a]
  <2>1. a \in Present' /\ severity'[a] = severity[a] /\ openedAt'[a] = openedAt[a]
        /\ alertProperty'[a] = alertProperty[a]
    BY WriteKeepsRows, Zenon
  <2>2. SevRank(a)' = SevRank(a)
    BY <2>1, Zenon DEF SevRank
  <2> QED
    BY <2>1, <2>2, <1>1, Zenon DEF EncodeCursor, BeyondCursor
<1>3. steady \subseteq Present
  BY Zenon DEF WalkInv, MatchingIn
<1>4. ASSUME NEW a \in steady' PROVE a \in steady /\ alertState'[a] \in Wanted
  BY <1>3, WriteKeepsRows, Zenon DEF Unsettle, WalkInv, MatchingIn
<1>5. steady' \subseteq MatchingIn(scope, alertState)'
  BY <1>1, <1>2, <1>3, <1>4, Zenon DEF WalkInv, MatchingIn
<1>6. WalkGoesOn => WalkGoesOn'
  <2> SUFFICES ASSUME WalkGoesOn PROVE WalkGoesOn'
    OBVIOUS
  <2>1. (cursor = NoCursor => page = {} /\ seen = {})'
    BY <1>1, Zenon DEF WalkGoesOn
  <2>2. (cursor # NoCursor => \E last \in Present : cursor = EncodeCursor(last))'
    BY <1>1, <1>2, Zenon DEF WalkGoesOn
  <2>3. (cursor # NoCursor => \A a \in page \cup seen : a \in Present /\ ~BeyondCursor(a))'
    BY <1>1, <1>2, Zenon DEF WalkGoesOn
  <2>4. (\A a \in steady : BeyondCursor(a) \/ a \in seen \cup page)'
    BY <1>1, <1>2, <1>3, <1>4, Zenon DEF WalkGoesOn
  <2> QED
    BY <2>1, <2>2, <2>3, <2>4, Zenon DEF WalkGoesOn
<1> QED
  BY <1>1, <1>4, <1>5, <1>6, Zenon DEF WalkInv

\* What is not beyond the cursor does not come after it, and a row that comes
\* after one beyond the cursor is beyond it too.
LEMMA BeyondIsUpward ==
  ASSUME PagesTypeOK, WalkGoesOn, NEW a \in AlertIds, NEW b \in AlertIds,
         BeyondCursor(a), ComesBefore(a, b)
  PROVE BeyondCursor(b)
<1>1. CASE cursor = NoCursor
  BY <1>1, Zenon DEF BeyondCursor
<1>2. CASE cursor # NoCursor
  <2>1. PICK last \in Present : cursor = EncodeCursor(last)
    BY <1>2, Zenon DEF WalkGoesOn
  <2>2. last \in AlertIds
    BY Zenon DEF Present
  <2>3. ComesBefore(last, a)
    BY <2>1, <2>2, <1>2, CursorClause, Zenon
  <2>4. ComesBefore(last, b)
    BY <2>2, <2>3, OrderTransitive, Zenon
  <2> QED
    BY <2>1, <2>2, <2>4, <1>2, CursorClause, Zenon
<1> QED
  BY <1>1, <1>2

\* The table, the scope and so the order are the same before and after a page.
LEMMA PageKeepsOrder ==
  ASSUME NextPage
  PROVE /\ Present' = Present
        /\ \A a : EncodeCursor(a)' = EncodeCursor(a)
        /\ \A a, b : ComesBefore(a, b)' <=> ComesBefore(a, b)
        /\ MatchingIn(scope, alertState)' = MatchingIn(scope, alertState)
        /\ steady' = steady /\ seen' = seen \cup page
<1>1. UNCHANGED <<tableVars, scope, steady>> /\ seen' = seen \cup page
  BY Zenon DEF NextPage
<1>2. /\ alertState' = alertState /\ alertProperty' = alertProperty
      /\ severity' = severity /\ openedAt' = openedAt /\ scope' = scope
  BY <1>1, Zenon DEF tableVars, columns
<1>3. Present' = Present
  BY <1>2, Zenon DEF Present
<1>4. \A a : SevRank(a)' = SevRank(a)
  BY <1>2, Zenon DEF SevRank
<1>5. MatchingIn(scope, alertState)' = MatchingIn(scope, alertState)
  BY <1>2, <1>3, Zenon DEF MatchingIn
<1> QED
  BY <1>1, <1>2, <1>3, <1>4, <1>5, Zenon DEF EncodeCursor, ComesBefore

\* What was shown before is not among the candidates of the next page.
LEMMA CandidatesAreNew ==
  ASSUME PagesTypeOK, WalkInv, walk = "more"
  PROVE /\ Candidates \cap (seen \cup page) = {}
        /\ \A a \in steady : a \in Candidates \/ a \in seen \cup page
        /\ Candidates \subseteq Present /\ Candidates \subseteq AlertIds
<1>1. WalkGoesOn /\ steady \subseteq MatchingIn(scope, alertState)
  BY Zenon DEF WalkInv
<1>2. Candidates \cap (seen \cup page) = {}
  <2>1. CASE cursor = NoCursor
    BY <2>1, <1>1, Zenon DEF WalkGoesOn
  <2>2. CASE cursor # NoCursor
    BY <2>2, <1>1, Zenon DEF WalkGoesOn, Candidates
  <2> QED
    BY <2>1, <2>2
<1>3. \A a \in steady : a \in Candidates \/ a \in seen \cup page
  BY <1>1, Zenon DEF WalkGoesOn, Candidates
<1>4. Candidates \subseteq Present /\ Candidates \subseteq AlertIds
  BY Zenon DEF Candidates, MatchingIn, Present
<1> QED
  BY <1>2, <1>3, <1>4, Zenon

\* When there is more: the page is cut between last and extra, and everything
\* that was not on it comes after last.
LEMMA CutPage ==
  ASSUME PagesTypeOK, WalkInv, walk = "more",
         NEW rows \in SUBSET Candidates, IsFetched(rows),
         NEW extra \in rows, NEW last \in rows, last # extra,
         IsLast(extra, rows), IsLast(last, rows \ {extra})
  PROVE /\ \A a \in Candidates \ (rows \ {extra}) : ComesBefore(last, a)
        /\ \A a \in rows \ {extra} : ~ComesBefore(last, a)
        /\ \A a \in seen \cup page : a \in AlertIds => ~ComesBefore(last, a)
        /\ last \in Present /\ last \in AlertIds
<1>1. /\ Candidates \cap (seen \cup page) = {}
      /\ Candidates \subseteq Present /\ Candidates \subseteq AlertIds
  BY CandidatesAreNew, Zenon
<1>2. extra \in AlertIds /\ last \in AlertIds /\ last \in Present
  BY <1>1, Zenon
<1>3. ComesBefore(last, extra)
  BY Zenon DEF IsLast
<1>4. ASSUME NEW a \in Candidates \ (rows \ {extra}) PROVE ComesBefore(last, a)
  <2>1. CASE a = extra
    BY <2>1, <1>3
  <2>2. CASE a # extra
    <3>1. a \notin rows /\ a \in AlertIds
      BY <2>2, <1>1, Zenon
    <3>2. ~ComesBefore(a, extra)
      BY <3>1, Zenon DEF IsFetched
    <3>3. ComesBefore(extra, a)
      BY <3>1, <3>2, <2>2, <1>2, OrderTotal, Zenon
    <3> QED
      BY <3>1, <3>3, <1>2, <1>3, OrderTransitive, Zenon
  <2> QED
    BY <2>1, <2>2
<1>5. ASSUME NEW a \in rows \ {extra}, ComesBefore(last, a) PROVE FALSE
  <2>1. a \in AlertIds
    BY <1>1, Zenon
  <2>2. a = last \/ ComesBefore(a, last)
    BY Zenon DEF IsLast
  <2>3. ComesBefore(last, last)
    BY <1>5, <1>2, <2>1, <2>2, OrderTransitive, Zenon
  <2> QED
    BY <2>3, <1>2, OrderIrreflexive, Zenon
<1>6. ASSUME NEW a \in seen \cup page, a \in AlertIds, ComesBefore(last, a)
      PROVE FALSE
  <2>1. BeyondCursor(last) /\ WalkGoesOn
    BY Zenon DEF Candidates, WalkInv
  <2>2. BeyondCursor(a)
    BY <2>1, <1>2, <1>6, BeyondIsUpward, Zenon
  <2>3. cursor # NoCursor
    BY <2>1, Zenon DEF WalkGoesOn
  <2> QED
    BY <2>1, <2>2, <2>3, Zenon DEF WalkGoesOn
<1> QED
  BY <1>2, <1>4, <1>5, <1>6, Zenon

\* The clause of the cursor that a page returns.
LEMMA NextClause ==
  ASSUME PagesTypeOK, NextPage, NEW last \in AlertIds,
         cursor' = EncodeCursor(last), NEW a \in AlertIds
  PROVE BeyondCursor(a)' <=> ComesBefore(last, a)
<1>1. SevRank(a)' = SevRank(a) /\ openedAt' = openedAt
  BY Zenon DEF NextPage, SevRank, tableVars, columns
<1>2. cursor' # NoCursor
  BY CursorIsNotNone, Zenon
<1>3. /\ cursor'.rank = SevRank(last) /\ cursor'.opened = openedAt[last]
      /\ cursor'.id = last
  BY DEF EncodeCursor
<1>4. /\ SevRank(a) \in 1..4 /\ SevRank(last) \in 1..4
      /\ openedAt[a] \in Int /\ openedAt[last] \in Int /\ a \in Int /\ last \in Int
  BY RankType, OpenedType
<1> QED
  BY <1>1, <1>2, <1>3, <1>4, SMT DEF BeyondCursor, ComesBefore

\* A page adds only what was not seen, and leaves all that is owed beyond it.
LEMMA NextPageWalk ==
  ASSUME PagesTypeOK, WalkInv, NextPage PROVE WalkInv'
<1>1. PICK rows \in SUBSET Candidates :
          /\ rows \subseteq AlertIds /\ Cardinality(rows) \in Nat /\ IsFetched(rows)
          /\ \/ /\ rows = Candidates /\ Cardinality(rows) <= Limit
                /\ page' = rows /\ walk' = "done" /\ cursor' = cursor
             \/ \E extra \in rows, last \in rows :
                /\ last # extra
                /\ IsLast(extra, rows) /\ IsLast(last, rows \ {extra})
                /\ page' = rows \ {extra} /\ walk' = "more"
                /\ Cardinality(rows \ {extra}) = Limit
                /\ cursor' = EncodeCursor(last)
  BY NextPageCases, Zenon
<1>2. walk = "more"
  BY Zenon DEF NextPage
<1>3. /\ Candidates \cap (seen \cup page) = {}
      /\ \A a \in steady : a \in Candidates \/ a \in seen \cup page
      /\ Candidates \subseteq Present /\ Candidates \subseteq AlertIds
  BY <1>2, CandidatesAreNew, Zenon
<1>4. /\ Present' = Present
      /\ \A a : EncodeCursor(a)' = EncodeCursor(a)
      /\ MatchingIn(scope, alertState)' = MatchingIn(scope, alertState)
      /\ steady' = steady /\ seen' = seen \cup page
  BY PageKeepsOrder, Zenon
<1>5. page' \cap seen' = {}
  BY <1>1, <1>3, <1>4, Zenon
<1>6. steady' \subseteq MatchingIn(scope, alertState)'
  BY <1>4, Zenon DEF WalkInv
<1>7. CASE rows = Candidates /\ page' = rows /\ walk' = "done"
  <2>1. steady' \subseteq seen' \cup page'
    BY <1>3, <1>4, <1>7, Zenon
  <2>2. walk' # "more"
    BY <1>7
  <2> QED
    BY <1>5, <1>6, <2>1, <2>2, Zenon DEF WalkInv
<1>8. ASSUME NEW extra \in rows, NEW last \in rows, last # extra,
             IsLast(extra, rows), IsLast(last, rows \ {extra}),
             page' = rows \ {extra}, walk' = "more", cursor' = EncodeCursor(last)
      PROVE WalkInv'
  <2>1. /\ \A a \in Candidates \ (rows \ {extra}) : ComesBefore(last, a)
        /\ \A a \in rows \ {extra} : ~ComesBefore(last, a)
        /\ \A a \in seen \cup page : a \in AlertIds => ~ComesBefore(last, a)
        /\ last \in Present /\ last \in AlertIds
    BY <1>1, <1>2, <1>8, CutPage, Zenon
  <2>2. \A a \in AlertIds : BeyondCursor(a)' <=> ComesBefore(last, a)
    BY <1>8, <2>1, NextClause, Zenon
  <2>3. cursor' # NoCursor
    BY <1>8, <2>1, CursorIsNotNone, Zenon
  <2>4. seen \cup page \subseteq Present
    BY <1>2, Zenon DEF WalkInv, WalkGoesOn
  <2>5. \A a \in page' \cup seen' : a \in Present' /\ ~BeyondCursor(a)'
    <3>1. ASSUME NEW a \in page' PROVE a \in Present' /\ ~BeyondCursor(a)'
      BY <1>3, <1>4, <1>8, <2>1, <2>2, Zenon
    <3>2. ASSUME NEW a \in seen' PROVE a \in Present' /\ ~BeyondCursor(a)'
      <4>1. a \in seen \cup page /\ a \in Present /\ a \in AlertIds
        BY <1>4, <2>4, Zenon DEF Present
      <4> QED
        BY <4>1, <1>4, <2>1, <2>2, Zenon
    <3> QED
      BY <3>1, <3>2, Zenon
  <2>6. \A a \in steady' : BeyondCursor(a)' \/ a \in seen' \cup page'
    BY <1>3, <1>4, <1>8, <2>1, <2>2, Zenon
  <2>7. \E l \in Present' : cursor' = EncodeCursor(l)'
    BY <1>4, <1>8, <2>1, Zenon
  <2>8. WalkGoesOn'
    BY <2>3, <2>5, <2>6, <2>7, Zenon DEF WalkGoesOn
  <2>9. walk' # "done"
    BY <1>8
  <2> QED
    BY <1>5, <1>6, <2>8, <2>9, Zenon DEF WalkInv
<1> QED
  BY <1>1, <1>7, <1>8, Zenon

\* A walk owes every row that matches when it starts.
LEMMA StartWalkWalk ==
  ASSUME NEW where \in Scopes, StartWalk(where) PROVE WalkInv'
<1>1. /\ scope' = where /\ walk' = "more" /\ cursor' = NoCursor
      /\ page' = {} /\ seen' = {}
      /\ steady' = MatchingIn(where, alertState) /\ UNCHANGED tableVars
  BY Zenon DEF StartWalk
<1>2. alertState' = alertState /\ alertProperty' = alertProperty
  BY <1>1, Zenon DEF tableVars, columns
<1>3. MatchingIn(scope, alertState)' = MatchingIn(where, alertState)
  BY <1>1, <1>2, Zenon DEF MatchingIn, Present
<1>4. WalkGoesOn'
  BY <1>1, Zenon DEF WalkGoesOn, BeyondCursor
<1>5. walk' # "done" /\ page' \cap seen' = {}
  BY <1>1
<1> QED
  BY <1>1, <1>3, <1>4, <1>5, Zenon DEF WalkInv

\* The invariant of the walk.
LEMMA WalkIsInvariant == PagesSpec => []WalkInv
<1>1. PagesInit => WalkInv
  BY SMT DEF PagesInit, WalkInv
<1>2. PagesTypeOK /\ WalkInv /\ [PagesNext]_pageVars => WalkInv'
  <2>1. ASSUME WalkInv, UNCHANGED pageVars PROVE WalkInv'
    <3>1. UNCHANGED <<alertState, alertProperty, severity, openedAt, walk, scope,
                      cursor, page, seen, steady>>
      BY <2>1, Zenon DEF pageVars, tableVars, columns, walkVars
    <3>2. Present' = Present /\ \A a : SevRank(a)' = SevRank(a)
      BY <3>1, Zenon DEF Present, SevRank
    <3>3. \A a : /\ BeyondCursor(a)' <=> BeyondCursor(a)
                 /\ EncodeCursor(a)' = EncodeCursor(a)
      BY <3>1, <3>2, Zenon DEF BeyondCursor, EncodeCursor
    <3>4. WalkGoesOn => WalkGoesOn'
      BY <3>1, <3>2, <3>3, Zenon DEF WalkGoesOn
    <3>5. MatchingIn(scope, alertState)' = MatchingIn(scope, alertState)
      BY <3>1, <3>2, Zenon DEF MatchingIn
    <3> QED
      BY <2>1, <3>1, <3>4, <3>5, Zenon DEF WalkInv
  <2> QED
    BY <2>1, WriteWalk, NextPageWalk, StartWalkWalk, Zenon DEF PagesNext
<1> QED
  BY <1>1, <1>2, PagesTypeCorrect, PTL DEF PagesSpec

\* For every limit and every set of alerts, no alert that keeps matching falls
\* between the pages of a walk.
THEOREM PagesSkipNothingCorrect == PagesSpec => []PagesSkipNothing
<1>1. WalkInv => PagesSkipNothing
  BY Zenon DEF WalkInv, PagesSkipNothing
<1> QED
  BY <1>1, WalkIsInvariant, PTL

\* And none is on two of them.
THEOREM PagesRepeatNothingCorrect == PagesSpec => []PagesRepeatNothing
<1>1. WalkInv => PagesRepeatNothing
  BY Zenon DEF WalkInv, PagesRepeatNothing
<1> QED
  BY <1>1, WalkIsInvariant, PTL

-----------------------------------------------------------------------------
(* ESTATE VIEW.  Sums over finite sets.  The library defines them by a     *)
(* recursive function on the subsets of a set.                             *)

Total(f, S) == MapThenSumSet(LAMBDA x : f[x], S)

OneOf(S) == CHOOSE x \in S : TRUE
IsSumming(it, f, S) ==
    it = [s \in SUBSET S |-> IF s = {} THEN 0 ELSE f[OneOf(s)] + it[s \ {OneOf(s)}]]
Summing(f, S) == CHOOSE it : IsSumming(it, f, S)

LEMMA TotalIs == \A f, S : Total(f, S) = Summing(f, S)[S]
<1> SUFFICES ASSUME NEW f, NEW S PROVE Total(f, S) = Summing(f, S)[S]
  OBVIOUS
<1> QED
  BY Zenon DEF Total, Summing, IsSumming, OneOf, MapThenSumSet, MapThenFoldSet

\* A property of finite sets that fails fails for a least set.
LEMMA LeastSet ==
  ASSUME NEW S, IsFiniteSet(S), NEW B \in SUBSET SUBSET S, B # {}
  PROVE  \E T \in B : \A U \in B : U \subseteq T => U = T
<1>1. IsWellFoundedOn(StrictSubsetOrdering(S), SUBSET S)
  BY FS_StrictSubsetOrderingWellFounded, FS_FiniteSubsetsOfFinite, Zenon
<1>2. PICK T \in B : \A U \in B : ~(<<U, T>> \in StrictSubsetOrdering(S))
  BY <1>1, WFMin, Zenon
<1>3. ASSUME NEW U \in B, U \subseteq T PROVE U = T
  BY <1>2, <1>3 DEF StrictSubsetOrdering
<1> QED
  BY <1>3

LEMMA OneOfIs == ASSUME NEW S, S # {} PROVE OneOf(S) \in S
BY DEF OneOf

\* Two of those functions agree where both are defined.
LEMMA SummingUnique ==
  ASSUME NEW S, NEW T, IsFiniteSet(T), T \subseteq S, NEW f, NEW a, NEW b,
         IsSumming(a, f, S), IsSumming(b, f, T)
  PROVE  a[T] = b[T]
<1> DEFINE bad == {u \in SUBSET T : a[u] # b[u]}
<1> SUFFICES ASSUME bad # {} PROVE FALSE
  OBVIOUS
<1>1. PICK u \in bad : \A v \in bad : v \subseteq u => v = u
  <2>1. bad \in SUBSET SUBSET T
    OBVIOUS
  <2> HIDE DEF bad
  <2> QED
    BY <2>1, LeastSet
<1>2. u \in SUBSET T /\ u \in SUBSET S /\ a[u] # b[u]
  OBVIOUS
<1> DEFINE x == OneOf(u)
           v == u \ {x}
<1>3. /\ a[u] = IF u = {} THEN 0 ELSE f[x] + a[v]
      /\ b[u] = IF u = {} THEN 0 ELSE f[x] + b[v]
  BY <1>2, Zenon DEF IsSumming
<1>4. u # {}
  BY <1>2, <1>3
<1>5. x \in u
  BY <1>4, OneOfIs
<1>6. v \in SUBSET T /\ v # u /\ v \subseteq u
  BY <1>2, <1>5
<1>7. a[v] = b[v]
  BY <1>1, <1>6
<1> QED
  BY <1>2, <1>3, <1>4, <1>7, Zenon

\* There is one for every finite set.
LEMMA SummingExists ==
  ASSUME NEW S, IsFiniteSet(S), NEW f
  PROVE  IsSumming(Summing(f, S), f, S)
<1> DEFINE bad == {T \in SUBSET S : ~ \E it : IsSumming(it, f, T)}
<1>1. bad = {}
  <2> SUFFICES ASSUME bad # {} PROVE FALSE
    OBVIOUS
  <2>1. PICK T \in bad : \A U \in bad : U \subseteq T => U = T
    <3>1. bad \in SUBSET SUBSET S
      OBVIOUS
    <3> HIDE DEF bad
    <3> QED
      BY <3>1, LeastSet
  <2>2. T \in SUBSET S /\ ~ \E it : IsSumming(it, f, T)
    OBVIOUS
  <2> DEFINE sum(u) == Summing(f, u)[u]
             it == [s \in SUBSET T |->
                      IF s = {} THEN 0 ELSE f[OneOf(s)] + sum(s \ {OneOf(s)})]
  <2>3. ASSUME NEW u \in SUBSET T, u # T PROVE IsSumming(Summing(f, u), f, u)
    <3>1. u \notin bad /\ u \in SUBSET S
      BY <2>1, <2>2, <2>3
    <3>2. \E i : IsSumming(i, f, u)
      BY <3>1
    <3> QED
      BY <3>2, Zenon DEF Summing
  <2>4. ASSUME NEW s \in SUBSET T, s # {}
        PROVE it[s \ {OneOf(s)}] = sum(s \ {OneOf(s)})
    <3> DEFINE u == s \ {OneOf(s)}
               w == u \ {OneOf(u)}
    <3>1. OneOf(s) \in s
      BY <2>4, OneOfIs
    <3>2. u \in SUBSET T /\ u # T
      BY <3>1
    <3>3. it[u] = IF u = {} THEN 0 ELSE f[OneOf(u)] + sum(w)
      BY <3>2
    <3>4. IsSumming(Summing(f, u), f, u)
      BY <2>3, <3>2
    <3>5. sum(u) = IF u = {} THEN 0 ELSE f[OneOf(u)] + Summing(f, u)[w]
      <4>1. u \in SUBSET u
        OBVIOUS
      <4> QED
        BY <3>4, <4>1, Zenon DEF IsSumming
    <3>6. CASE u = {}
      BY <3>3, <3>5, <3>6
    <3>7. CASE u # {}
      <4>1. OneOf(u) \in u
        BY <3>7, OneOfIs
      <4>2. w \in SUBSET T /\ w # T /\ w \subseteq u
        BY <3>2, <4>1
      <4>3. IsSumming(Summing(f, w), f, w)
        BY <2>3, <4>2
      <4>4. IsFiniteSet(w)
        BY <2>2, <4>2, FS_Subset
      <4>5. Summing(f, u)[w] = Summing(f, w)[w]
        <5> HIDE DEF u, w
        <5> QED
          BY <3>4, <4>2, <4>3, <4>4, SummingUnique
      <4> QED
        BY <3>3, <3>5, <3>7, <4>5, Zenon
    <3> QED
      BY <3>6, <3>7
  <2>5. it = [s \in SUBSET T |-> IF s = {} THEN 0 ELSE f[OneOf(s)] + it[s \ {OneOf(s)}]]
    <3> DEFINE other == [s \in SUBSET T |->
                           IF s = {} THEN 0 ELSE f[OneOf(s)] + it[s \ {OneOf(s)}]]
    <3>1. ASSUME NEW s \in SUBSET T PROVE it[s] = other[s]
      BY <2>4, Zenon
    <3>2. it = [s \in SUBSET T |-> it[s]] /\ other = [s \in SUBSET T |-> other[s]]
      OBVIOUS
    <3> HIDE DEF it, other
    <3>3. it = other
      BY <3>1, <3>2
    <3> QED
      BY <3>3 DEF other
  <2> HIDE DEF it
  <2>6. IsSumming(it, f, T)
    BY <2>5, Zenon DEF IsSumming
  <2> QED
    BY <2>2, <2>6
<1>2. \E it : IsSumming(it, f, S)
  <2>1. S \in SUBSET S /\ S \notin bad
    BY <1>1
  <2> QED
    BY <2>1
<1> QED
  BY <1>2, Zenon DEF Summing

\* A sum is that of one element and of the others.
LEMMA TotalStep ==
  ASSUME NEW S, IsFiniteSet(S), NEW f
  PROVE  /\ S = {} => Total(f, S) = 0
         /\ S # {} => OneOf(S) \in S /\ Total(f, S) = f[OneOf(S)] + Total(f, S \ {OneOf(S)})
<1> DEFINE rest == S \ {OneOf(S)}
<1>1. IsSumming(Summing(f, S), f, S)
  BY SummingExists
<1>2. Total(f, S) = IF S = {} THEN 0 ELSE f[OneOf(S)] + Summing(f, S)[rest]
  <2> DEFINE it == Summing(f, S)
  <2>1. S \in SUBSET S
    OBVIOUS
  <2>2. it = [s \in SUBSET S |-> IF s = {} THEN 0 ELSE f[OneOf(s)] + it[s \ {OneOf(s)}]]
    BY <1>1, Zenon DEF IsSumming
  <2> HIDE DEF it
  <2>3. it[S] = IF S = {} THEN 0 ELSE f[OneOf(S)] + it[rest]
    BY <2>1, <2>2, Zenon
  <2> QED
    BY <2>3, TotalIs, Zenon DEF it
<1>3. IsFiniteSet(rest) /\ rest \subseteq S
  BY FS_RemoveElement
<1>4. IsSumming(Summing(f, rest), f, rest)
  BY <1>3, SummingExists
<1>5. Summing(f, S)[rest] = Summing(f, rest)[rest]
  <2> HIDE DEF rest
  <2> QED
    BY <1>1, <1>3, <1>4, SummingUnique
<1>6. Summing(f, S)[rest] = Total(f, rest)
  BY <1>5, TotalIs, Zenon
<1> QED
  BY <1>2, <1>6, OneOfIs, Zenon

\* Shares of at most 100 add up to at most 100 for each.
LEMMA TotalBound ==
  ASSUME NEW S, IsFiniteSet(S), NEW f, \A x \in S : f[x] \in 0..100
  PROVE  Total(f, S) \in Nat /\ Total(f, S) <= 100 * Cardinality(S)
<1> DEFINE fits(T) == Total(f, T) \in Nat /\ Total(f, T) <= 100 * Cardinality(T)
           bad == {T \in SUBSET S : ~fits(T)}
<1>1. bad = {}
  <2> SUFFICES ASSUME bad # {} PROVE FALSE
    OBVIOUS
  <2>1. PICK T \in bad : \A U \in bad : U \subseteq T => U = T
    <3>1. bad \in SUBSET SUBSET S
      OBVIOUS
    <3> HIDE DEF bad
    <3> QED
      BY <3>1, LeastSet
  <2>2. T \in SUBSET S /\ ~fits(T)
    OBVIOUS
  <2>3. IsFiniteSet(T)
    BY <2>2, FS_Subset
  <2> DEFINE x == OneOf(T)
             U == T \ {x}
  <2>4. CASE T = {}
    <3>1. Total(f, T) = 0 /\ Cardinality(T) = 0
      BY <2>3, <2>4, TotalStep, FS_EmptySet
    <3> QED
      BY <2>2, <3>1
  <2>5. CASE T # {}
    <3>1. x \in T /\ Total(f, T) = f[x] + Total(f, U)
      BY <2>3, <2>5, TotalStep
    <3>2. U \in SUBSET S /\ U # T /\ U \subseteq T
      BY <2>2, <3>1
    <3>3. fits(U)
      BY <2>1, <3>2
    <3>4. /\ Cardinality(U) = Cardinality(T) - 1
          /\ Cardinality(T) \in Nat
      BY <2>3, <3>1, FS_RemoveElement, FS_CardinalityType
    <3>5. f[x] \in 0..100
      BY <2>2, <3>1
    <3> HIDE DEF x, U
    <3> QED
      BY <2>2, <3>1, <3>3, <3>4, <3>5
  <2> QED
    BY <2>4, <2>5
<1>2. S \in SUBSET S /\ S \notin bad
  BY <1>1
<1> QED
  BY <1>2

\* The members of disjoint sets are as many as the sets have together.
LEMMA TotalOfDisjoint ==
  ASSUME NEW S, IsFiniteSet(S), NEW f, NEW A,
         \A x \in S : IsFiniteSet(A[x]) /\ f[x] = Cardinality(A[x]),
         \A x, y \in S : x # y => A[x] \cap A[y] = {}
  PROVE  Total(f, S) = Cardinality(UNION {A[x] : x \in S})
<1> DEFINE all(T) == UNION {A[x] : x \in T}
           fits(T) == IsFiniteSet(all(T)) /\ Total(f, T) = Cardinality(all(T))
           bad == {T \in SUBSET S : ~fits(T)}
<1>1. bad = {}
  <2> SUFFICES ASSUME bad # {} PROVE FALSE
    OBVIOUS
  <2>1. PICK T \in bad : \A U \in bad : U \subseteq T => U = T
    <3>1. bad \in SUBSET SUBSET S
      OBVIOUS
    <3> HIDE DEF bad
    <3> QED
      BY <3>1, LeastSet
  <2>2. T \in SUBSET S /\ ~fits(T)
    OBVIOUS
  <2>3. IsFiniteSet(T)
    BY <2>2, FS_Subset
  <2> DEFINE x == OneOf(T)
             U == T \ {x}
  <2>4. CASE T = {}
    <3>1. Total(f, T) = 0
      BY <2>3, <2>4, TotalStep
    <3>2. all(T) = {}
      BY <2>4
    <3> QED
      BY <2>2, <3>1, <3>2, FS_EmptySet
  <2>5. CASE T # {}
    <3>1. x \in T /\ Total(f, T) = f[x] + Total(f, U)
      BY <2>3, <2>5, TotalStep
    <3>2. U \in SUBSET S /\ U # T /\ U \subseteq T
      BY <2>2, <3>1
    <3>3. fits(U)
      BY <2>1, <3>2
    <3>4. x \in S /\ IsFiniteSet(A[x]) /\ f[x] = Cardinality(A[x])
      BY <2>2, <3>1
    <3> HIDE DEF x
    <3>5. all(T) = A[x] \cup all(U)
      BY <3>1
    <3>6. A[x] \cap all(U) = {}
      <4> SUFFICES ASSUME NEW e \in A[x], NEW y \in U, e \in A[y] PROVE FALSE
        OBVIOUS
      <4>1. y \in S /\ y # x
        BY <3>2
      <4> QED
        BY <3>4, <4>1
    <3> HIDE DEF U, all
    <3>7. /\ IsFiniteSet(all(T))
          /\ Cardinality(all(T)) =
                Cardinality(A[x]) + Cardinality(all(U)) - Cardinality(A[x] \cap all(U))
      BY <3>3, <3>4, <3>5, FS_Union
    <3>8. /\ Cardinality(A[x] \cap all(U)) = 0
          /\ Cardinality(A[x]) \in Nat /\ Cardinality(all(U)) \in Nat
      BY <3>3, <3>4, <3>6, FS_EmptySet, FS_CardinalityType
    <3>9. Total(f, T) = Cardinality(all(T))
      BY <3>1, <3>3, <3>4, <3>7, <3>8
    <3> QED
      BY <2>2, <3>7, <3>9
  <2> QED
    BY <2>4, <2>5
<1>2. S \in SUBSET S /\ S \notin bad
  BY <1>1
<1> QED
  BY <1>2

-----------------------------------------------------------------------------
(* Scores.                                                                 *)

LEMMA CeilingIs ==
  ASSUME NEW status
  PROVE  /\ Ceiling(status) \in {40, 60, 70, 100} /\ Ceiling(status) \in Nat
         /\ Ceiling(status) <= 100
<1>1. Ceiling(status) \in {40, 60, 70, 100}
  BY Zenon DEF Ceiling
<1> QED
  BY <1>1

LEMMA SeverityForIs == ASSUME NEW status PROVE SeverityFor(status) \in Severities
BY Zenon DEF SeverityFor, Severities

\* Every value of the database has its type.
DataOK ==
    /\ deviceHealth \in [SiteDevices -> Reports \cup {NotThere}]
    /\ openAlerts \in SUBSET (SiteDevices \X Severities \X AlertRows)
    /\ lag \in [EdgeBoxes -> Lags \cup {0, NotThere}]

\* property_health_score does not exceed the ceiling of the status.
LEMMA ScoreIs ==
  ASSUME DataOK, NEW site
  PROVE  PropertyScore(DevicesOf(site)) \in 0..Ceiling(PropertyStatus(DevicesOf(site)))
<1> DEFINE devices == DevicesOf(site)
           scored == {d \in devices : deviceHealth[d].score # NoScore}
           ceiling == Ceiling(PropertyStatus(devices))
           f == [d \in scored |-> deviceHealth[d].score]
           sum == MapThenSumSet(LAMBDA d : deviceHealth[d].score, scored)
           n == Cardinality(scored)
<1>1. PropertyScore(devices) =
         IF devices = {} THEN 0
         ELSE IF scored = {} \/ sum \div n > ceiling THEN ceiling
         ELSE sum \div n
  BY Zenon DEF PropertyScore
<1>2. ceiling \in Nat
  BY CeilingIs
<1>3. scored \in SUBSET SiteDevices /\ IsFiniteSet(scored)
  <2>1. scored \in SUBSET SiteDevices
    BY Zenon DEF DevicesOf
  <2> HIDE DEF scored
  <2> QED
    BY <2>1, SitesAssumption, FS_Subset
<1>4. \A d \in scored : f[d] \in 0..100
  <2> SUFFICES ASSUME NEW d \in scored PROVE f[d] \in 0..100
    OBVIOUS
  <2>1. d \in SiteDevices /\ deviceHealth[d] # NotThere /\ deviceHealth[d].score # NoScore
    BY Zenon DEF DevicesOf
  <2>2. deviceHealth[d] \in Reports
    BY <2>1 DEF DataOK
  <2>3. deviceHealth[d].score \in 0..100 \cup {NoScore}
    BY <2>2, ReportsAssumption
  <2> QED
    BY <2>1, <2>3
<1>5. sum = Total(f, scored)
  BY Zenon DEF Total, MapThenSumSet, MapThenFoldSet
<1> HIDE DEF sum, f
<1>6. sum \in Nat /\ n \in Nat
  BY <1>3, <1>4, <1>5, TotalBound, FS_CardinalityType
<1>7. scored # {} => n > 0
  BY <1>3, <1>6, FS_EmptySet
<1> HIDE DEF n, scored, ceiling, devices
<1>8. scored # {} => sum \div n \in Nat
  BY <1>6, <1>7
<1>9. PropertyScore(devices) \in 0..ceiling
  BY <1>1, <1>2, <1>8
<1> QED
  BY <1>9 DEF devices, ceiling

LEMMA StatusIs == ASSUME NEW devices PROVE PropertyStatus(devices) \in HealthStatus
BY Zenon DEF PropertyStatus, HealthStatus

-----------------------------------------------------------------------------
(* The order of the tiles.                                                 *)

\* The positions before i: those of smaller keys, and of the same key to the left.
Before(K, i) == {j \in DOMAIN K : K[j] < K[i] \/ (K[j] = K[i] /\ j < i)}

\* Each number of predecessors belongs to one position, and the keys grow with it.
LEMMA Ranking ==
  ASSUME NEW n \in Nat, NEW K \in [1..n -> Int]
  PROVE  /\ \A m \in 1..n : \E i \in 1..n : Cardinality(Before(K, i)) = m - 1
         /\ \A i \in 1..n : Cardinality(Before(K, i)) \in 0..(n - 1)
         /\ \A i, j \in 1..n : Cardinality(Before(K, i)) = Cardinality(Before(K, j)) => i = j
         /\ \A i, j \in 1..n :
               Cardinality(Before(K, i)) < Cardinality(Before(K, j)) => K[i] <= K[j]
<1> DEFINE D == 1..n
           rank == [i \in D |-> Cardinality(Before(K, i))]
<1>1. IsFiniteSet(D) /\ Cardinality(D) = n
  BY FS_Interval
<1>2. \A i \in D : K[i] \in Int /\ i \in Int
  OBVIOUS
<1>3. \A i \in D : Before(K, i) = {j \in D : K[j] < K[i] \/ (K[j] = K[i] /\ j < i)}
  BY DEF Before
<1>4. ASSUME NEW i \in D
      PROVE  /\ Before(K, i) \subseteq D \ {i} /\ IsFiniteSet(Before(K, i))
             /\ Cardinality(Before(K, i)) \in 0..(n - 1)
  <2>1. Before(K, i) \subseteq D \ {i}
    BY <1>2, <1>3
  <2> HIDE DEF D
  <2>2. IsFiniteSet(D \ {i}) /\ Cardinality(D \ {i}) = n - 1
    BY <1>1, FS_RemoveElement
  <2>3. /\ IsFiniteSet(Before(K, i)) /\ Cardinality(Before(K, i)) <= n - 1
        /\ Cardinality(Before(K, i)) \in Nat
    BY <2>1, <2>2, FS_Subset, FS_CardinalityType
  <2> QED
    BY <2>1, <2>3
<1>5. ASSUME NEW i \in D, NEW j \in D, i \in Before(K, j)
      PROVE  Cardinality(Before(K, i)) < Cardinality(Before(K, j))
  <2>1. Before(K, i) \subseteq Before(K, j)
    <3> SUFFICES ASSUME NEW k \in Before(K, i) PROVE k \in Before(K, j)
      OBVIOUS
    <3>1. k \in D /\ (K[k] < K[i] \/ (K[k] = K[i] /\ k < i))
      BY <1>3
    <3>2. K[i] < K[j] \/ (K[i] = K[j] /\ i < j)
      BY <1>3, <1>5
    <3>3. K[k] < K[j] \/ (K[k] = K[j] /\ k < j)
      BY <1>2, <3>1, <3>2
    <3> QED
      BY <1>3, <3>1, <3>3
  <2>2. i \notin Before(K, i)
    BY <1>4
  <2>3. /\ IsFiniteSet(Before(K, i) \cup {i})
        /\ Cardinality(Before(K, i) \cup {i}) = Cardinality(Before(K, i)) + 1
    BY <1>4, <2>2, FS_AddElement
  <2>4. Cardinality(Before(K, i) \cup {i}) <= Cardinality(Before(K, j))
    BY <1>4, <1>5, <2>1, FS_Subset
  <2> QED
    BY <1>4, <2>3, <2>4
<1>6. ASSUME NEW i \in D, NEW j \in D, i # j
      PROVE  i \in Before(K, j) \/ j \in Before(K, i)
  <2>1. i \in Int /\ j \in Int /\ K[i] \in Int /\ K[j] \in Int
    BY <1>2
  <2>2. \/ K[i] < K[j] \/ (K[i] = K[j] /\ i < j)
        \/ K[j] < K[i] \/ (K[j] = K[i] /\ j < i)
    BY <1>6, <2>1
  <2> QED
    BY <1>3, <2>2
<1>7. \A i, j \in D : Cardinality(Before(K, i)) \in Int
  BY <1>4
<1>8. ASSUME NEW i \in D, NEW j \in D, Cardinality(Before(K, i)) = Cardinality(Before(K, j))
      PROVE  i = j
  <2> DEFINE x == Cardinality(Before(K, i))
             y == Cardinality(Before(K, j))
  <2>1. x \in Int /\ y \in Int /\ x = y
    BY <1>7, <1>8
  <2>2. i # j => x < y \/ y < x
    BY <1>5, <1>6, Zenon
  <2> HIDE DEF x, y
  <2> QED
    BY <2>1, <2>2
<1>9. ASSUME NEW i \in D, NEW j \in D, Cardinality(Before(K, i)) < Cardinality(Before(K, j))
      PROVE  K[i] <= K[j]
  <2> DEFINE x == Cardinality(Before(K, i))
             y == Cardinality(Before(K, j))
  <2>1. x \in Int /\ y \in Int /\ x < y
    BY <1>7, <1>9
  <2>2. i # j => i \in Before(K, j) \/ y < x
    BY <1>5, <1>6, Zenon
  <2> HIDE DEF x, y
  <2>3. i # j /\ i \in Before(K, j)
    BY <1>9, <2>1, <2>2 DEF x, y
  <2>4. K[i] < K[j] \/ (K[i] = K[j] /\ i < j)
    BY <1>3, <2>3, Zenon
  <2> QED
    BY <1>2, <2>4
<1>10. ASSUME NEW m \in D PROVE \E i \in D : Cardinality(Before(K, i)) = m - 1
  <2>1. rank \in [D -> 0..(n - 1)]
    BY <1>4
  <2>2. rank \in Injection(D, 0..(n - 1))
    <3>1. \A i, j \in D : rank[i] = rank[j] => i = j
      BY <1>8
    <3> HIDE DEF rank, D
    <3>2. DOMAIN rank = D
      BY <2>1
    <3> QED
      BY <2>1, <3>1, <3>2 DEF Injection, IsInjective
  <2>3. IsFiniteSet(0..(n - 1)) /\ Cardinality(0..(n - 1)) = n
    BY FS_Interval
  <2> HIDE DEF rank, D
  <2>4. rank \in Surjection(D, 0..(n - 1))
    BY <1>1, <2>2, <2>3, FS_Injection
  <2>5. m - 1 \in 0..(n - 1)
    BY DEF D
  <2>6. PICK i \in D : rank[i] = m - 1
    BY <2>4, <2>5 DEF Surjection
  <2> QED
    BY <2>6 DEF rank
<1> HIDE DEF rank
<1> QED
  BY <1>4, <1>8, <1>9, <1>10

TileType ==
    [site : Sites \cup {NotThere}, status : HealthStatus, score : 0..100,
     counts : [Severities -> Nat], worst : (SiteDevices \X Severities \X AlertRows) \cup {NotThere},
     boxes : SUBSET EdgeBoxes, online : SUBSET EdgeBoxes, began : Nat, ended : Nat]

\* A tile that is ready is one of a site.
ShownType == {t \in TileType : t.site \in Sites}

LEMMA KeyIs ==
  ASSUME NEW t \in ShownType, NEW sort PROVE TileKey(t, sort) \in Int
<1>1. t.score \in 0..100 /\ t.site \in Sites
  BY DEF ShownType, TileType
<1>2. NameRank[t.site] \in Nat
  BY <1>1, NamesAssumption
<1> QED
  BY <1>1, <1>2 DEF TileKey

\* p is the order in which the tiles of ts are shown.
IsSorting(p, ts, sort) ==
    /\ p \in [1..Len(ts) -> 1..Len(ts)]
    /\ Sorted(ts, sort) = [m \in 1..Len(ts) |-> ts[p[m]]]
    /\ \A i \in 1..Len(ts) : \E m \in 1..Len(ts) : p[m] = i
    /\ \A i, j \in 1..Len(ts) : p[i] = p[j] => i = j
    /\ \A i, j \in 1..Len(ts) : i < j => TileKey(ts[p[i]], sort) <= TileKey(ts[p[j]], sort)

\* tiles.sort loses no tile, shows none twice, and puts none before one of a smaller key.
LEMMA SortedIs ==
  ASSUME NEW ts \in Seq(ShownType), NEW sort PROVE \E p : IsSorting(p, ts, sort)
<1> DEFINE n == Len(ts)
           K == [i \in 1..n |-> TileKey(ts[i], sort)]
           before(i) == {j \in DOMAIN ts : \/ TileKey(ts[j], sort) < TileKey(ts[i], sort)
                                           \/ TileKey(ts[j], sort) = TileKey(ts[i], sort) /\ j < i}
           p == [m \in 1..n |-> CHOOSE i \in DOMAIN ts : Cardinality(before(i)) = m - 1]
<1>1. n \in Nat /\ DOMAIN ts = 1..n /\ \A i \in 1..n : ts[i] \in ShownType
  BY LenProperties, ElementOfSeq
<1>2. K \in [1..n -> Int] /\ \A i \in 1..n : K[i] = TileKey(ts[i], sort)
  BY <1>1, KeyIs
<1>3. Sorted(ts, sort) =
         [m \in 1..n |-> ts[CHOOSE i \in DOMAIN ts : Cardinality(before(i)) = m - 1]]
  BY <1>1, Zenon DEF Sorted
<1> HIDE DEF n, K
<1>4. ASSUME NEW i \in 1..n PROVE before(i) = Before(K, i)
  <2>1. DOMAIN K = 1..n
    BY <1>2
  <2> QED
    BY <1>1, <1>2, <2>1, Zenon DEF Before
<1>5. /\ \A m \in 1..n : \E i \in 1..n : Cardinality(Before(K, i)) = m - 1
      /\ \A i, j \in 1..n : Cardinality(Before(K, i)) = Cardinality(Before(K, j)) => i = j
      /\ \A i \in 1..n : Cardinality(Before(K, i)) \in 0..(n - 1)
      /\ \A i, j \in 1..n : Cardinality(Before(K, i)) < Cardinality(Before(K, j)) => K[i] <= K[j]
  BY <1>1, <1>2, Ranking
<1> HIDE DEF before
<1>6. ASSUME NEW m \in 1..n
      PROVE  p[m] \in 1..n /\ Cardinality(Before(K, p[m])) = m - 1
  <2>1. \E i \in DOMAIN ts : Cardinality(before(i)) = m - 1
    BY <1>1, <1>4, <1>5, Zenon
  <2>2. p[m] = CHOOSE i \in DOMAIN ts : Cardinality(before(i)) = m - 1
    OBVIOUS
  <2> HIDE DEF p
  <2>3. p[m] \in DOMAIN ts /\ Cardinality(before(p[m])) = m - 1
    BY <2>1, <2>2, Zenon
  <2> QED
    BY <1>1, <1>4, <2>3, Zenon
<1>7. Sorted(ts, sort) = [m \in 1..n |-> ts[p[m]]]
  BY <1>3
<1>8. p \in [1..n -> 1..n]
  <2>1. p = [m \in 1..n |-> p[m]]
    OBVIOUS
  <2> HIDE DEF p
  <2> QED
    BY <1>6, <2>1
<1> HIDE DEF p
<1>9. ASSUME NEW i \in 1..n PROVE \E m \in 1..n : p[m] = i
  <2> DEFINE c == Cardinality(Before(K, i))
  <2>1. c \in 0..(n - 1)
    BY <1>5
  <2> HIDE DEF c
  <2>2. c + 1 \in 1..n /\ (c + 1) - 1 = c
    BY <1>1, <2>1
  <2>3. p[c + 1] \in 1..n /\ Cardinality(Before(K, p[c + 1])) = c
    BY <1>6, <2>2
  <2>4. p[c + 1] = i
    BY <1>5, <2>3, Zenon DEF c
  <2> QED
    BY <2>2, <2>4
<1>10. ASSUME NEW i \in 1..n, NEW j \in 1..n, i < j
       PROVE  TileKey(ts[p[i]], sort) <= TileKey(ts[p[j]], sort)
  <2>1. /\ p[i] \in 1..n /\ Cardinality(Before(K, p[i])) = i - 1
        /\ p[j] \in 1..n /\ Cardinality(Before(K, p[j])) = j - 1
    BY <1>6
  <2>2. i - 1 < j - 1
    BY <1>10
  <2>3. K[p[i]] <= K[p[j]]
    BY <1>5, <2>1, <2>2, Zenon
  <2> QED
    BY <1>2, <2>1, <2>3
<1>11. ASSUME NEW i \in 1..n, NEW j \in 1..n, p[i] = p[j] PROVE i = j
  <2>1. i - 1 = j - 1
    BY <1>6, <1>11
  <2> QED
    BY <2>1
<1> QED
  BY <1>7, <1>8, <1>9, <1>10, <1>11, Zenon DEF IsSorting, n

-----------------------------------------------------------------------------
(* Types.                                                                  *)

\* Every value has its type, and no tile was read in the future.
ViewTypes ==
    /\ DataOK
    /\ view \in {"none", "estate", "property"} /\ order \in Orders
    /\ stage \in {"devices", "counts", "worst", "boxes"}
    /\ pending \in Seq(Sites) /\ draft \in TileType /\ tiles \in Seq(ShownType)
    /\ stage # "devices" => draft.site \in Sites
    /\ view # "none" => response = NotThere
    /\ writes \in Nat /\ draft.began <= writes
    /\ \A i \in 1..Len(tiles) : tiles[i].began <= tiles[i].ended /\ tiles[i].ended <= writes

LEMMA EmptyDraftIs == EmptyDraft \in TileType /\ EmptyDraft.began = 0
BY DEF EmptyDraft, TileType, HealthStatus

LEMMA FiniteAlerts ==
  ASSUME DataOK, NEW some \in SUBSET openAlerts
  PROVE  IsFiniteSet(some) /\ Cardinality(some) \in Nat
<1>1. IsFiniteSet(Severities)
  <2>1. Severities = {"p1"} \cup {"p2"} \cup {"p3"} \cup {"p4"}
    BY DEF Severities
  <2> QED
    BY <2>1, FS_Singleton, FS_Union
<1> DEFINE all == SiteDevices \X Severities \X AlertRows
           nested == (SiteDevices \X Severities) \X AlertRows
           flat == [x \in nested |-> <<x[1][1], x[1][2], x[2]>>]
<1>2. IsFiniteSet(nested)
  BY <1>1, SitesAssumption, FS_Product
<1>3. some \in SUBSET all
  BY DEF DataOK
<1>4. flat \in Surjection(nested, all)
  <2>1. ASSUME NEW x \in nested PROVE flat[x] \in all
    OBVIOUS
  <2>2. ASSUME NEW a \in all PROVE \E x \in nested : flat[x] = a
    <3>1. <<<<a[1], a[2]>>, a[3]>> \in nested
      OBVIOUS
    <3>2. flat[<<<<a[1], a[2]>>, a[3]>>] = a
      BY <3>1
    <3> QED
      BY <3>1, <3>2
  <2>3. flat \in [nested -> all]
    BY <2>1
  <2> HIDE DEF flat, nested, all
  <2> QED
    BY <2>2, <2>3 DEF Surjection
<1>5. IsFiniteSet(all)
  <2> HIDE DEF flat, nested, all
  <2> QED
    BY <1>2, <1>4, FS_Surjection
<1> QED
  BY <1>3, <1>5, FS_Subset, FS_CardinalityType

LEMMA CountIs == ASSUME DataOK, NEW site PROVE CountBySeverity(site) \in [Severities -> Nat]
<1>1. ASSUME NEW s \in Severities PROVE Cardinality({a \in AlertsAt(site) : a[2] = s}) \in Nat
  <2>1. {a \in AlertsAt(site) : a[2] = s} \in SUBSET openAlerts
    BY Zenon DEF AlertsAt
  <2> QED
    BY <2>1, FiniteAlerts
<1> QED
  BY <1>1 DEF CountBySeverity

LEMMA ViewTypesInit == EstateInit => ViewTypes
<1> SUFFICES ASSUME EstateInit PROVE ViewTypes
  OBVIOUS
<1>1. deviceHealth \in [SiteDevices -> Reports \cup {NotThere}]
  BY DEF EstateInit
<1>2. openAlerts \in SUBSET (SiteDevices \X Severities \X AlertRows)
  <2>1. \A d \in Problematic : d \in SiteDevices
    BY Zenon DEF Problematic
  <2>2. \A d \in Problematic, n \in AlertRows :
           <<d, SeverityFor(deviceHealth[d].status), n>> \in SiteDevices \X Severities \X AlertRows
    BY <2>1, SeverityForIs
  <2>3. openAlerts \subseteq {<<d, SeverityFor(deviceHealth[d].status), n>> :
                              d \in Problematic, n \in AlertRows}
    BY DEF EstateInit
  <2> QED
    BY <2>2, <2>3
<1>3. lag \in [EdgeBoxes -> Lags \cup {0, NotThere}]
  BY DEF EstateInit
<1>4. /\ view = "none" /\ order = "worst_first" /\ stage = "devices" /\ pending = <<>>
      /\ draft = EmptyDraft /\ tiles = <<>> /\ response = NotThere /\ writes = 0
  BY DEF EstateInit
<1>5. Len(tiles) = 0 /\ tiles \in Seq(ShownType) /\ order \in Orders
  BY <1>4 DEF Orders
<1> QED
  BY <1>1, <1>2, <1>3, <1>4, <1>5, EmptyDraftIs DEF ViewTypes, DataOK

\* The writers change the database within its types, and no request.
LEMMA WritersFit ==
  ASSUME ViewTypes,
         \/ \E d \in SiteDevices, report \in Reports : HealthReport(d, report)
         \/ \E b \in EdgeBoxes : Heartbeat(b)
         \/ \E d \in SiteDevices, report \in Reports, n \in AlertRows :
               Reopen(<<d, SeverityFor(report.status), n>>)
  PROVE  ViewTypes' /\ writes' = writes + 1 /\ UNCHANGED requestVars
<1>1. writes' = writes + 1 /\ UNCHANGED requestVars
  BY Zenon DEF HealthReport, Heartbeat, Reopen, Committed
<1>2. DataOK'
  <2>0. DataOK
    BY DEF ViewTypes
  <2>1. ASSUME NEW d \in SiteDevices, NEW report \in Reports, HealthReport(d, report)
        PROVE  DataOK'
    <3>1. /\ deviceHealth' = [deviceHealth EXCEPT ![d] = report]
          /\ \/ UNCHANGED openAlerts
             \/ openAlerts' = {a \in openAlerts : a[1] # d}
             \/ \E n \in AlertRows :
                   openAlerts' = openAlerts \cup {<<d, SeverityFor(report.status), n>>}
          /\ UNCHANGED lag
      BY <2>1, Zenon DEF HealthReport
    <3>2. \A n \in AlertRows :
             <<d, SeverityFor(report.status), n>> \in SiteDevices \X Severities \X AlertRows
      BY SeverityForIs
    <3>3. openAlerts' \in SUBSET (SiteDevices \X Severities \X AlertRows)
      BY <2>0, <3>1, <3>2 DEF DataOK
    <3> QED
      BY <2>0, <3>1, <3>3 DEF DataOK
  <2>2. ASSUME NEW b \in EdgeBoxes, Heartbeat(b) PROVE DataOK'
    <3>1. /\ \E age \in Lags \cup {0} : lag' = [lag EXCEPT ![b] = age]
          /\ UNCHANGED <<deviceHealth, openAlerts>>
      BY <2>2, Zenon DEF Heartbeat
    <3> QED
      BY <2>0, <3>1 DEF DataOK
  <2>3. ASSUME NEW d \in SiteDevices, NEW report \in Reports, NEW n \in AlertRows,
               Reopen(<<d, SeverityFor(report.status), n>>)
        PROVE  DataOK'
    <3>1. /\ openAlerts' = openAlerts \cup {<<d, SeverityFor(report.status), n>>}
          /\ UNCHANGED <<deviceHealth, lag>>
      BY <2>3, Zenon DEF Reopen
    <3>2. <<d, SeverityFor(report.status), n>> \in SiteDevices \X Severities \X AlertRows
      BY SeverityForIs
    <3> QED
      BY <2>0, <3>1, <3>2 DEF DataOK
  <2> QED
    BY <2>1, <2>2, <2>3
<1>3. /\ writes' \in Nat /\ draft'.began <= writes'
      /\ \A i \in 1..Len(tiles') : tiles'[i].began <= tiles'[i].ended /\ tiles'[i].ended <= writes'
  <2>1. draft' = draft /\ tiles' = tiles /\ writes \in Nat
    BY <1>1 DEF requestVars, ViewTypes
  <2>2. draft.began \in Nat /\ draft.began <= writes
    BY DEF ViewTypes, TileType
  <2>3. ASSUME NEW i \in 1..Len(tiles)
        PROVE  tiles[i].began <= tiles[i].ended /\ tiles[i].ended <= writes + 1
    <3>1. tiles[i] \in TileType
      BY ElementOfSeq DEF ViewTypes, ShownType
    <3>2. tiles[i].ended \in Nat
      BY <3>1 DEF TileType
    <3>3. tiles[i].began <= tiles[i].ended /\ tiles[i].ended <= writes
      BY DEF ViewTypes
    <3> QED
      BY <2>1, <3>2, <3>3
  <2> QED
    BY <1>1, <2>1, <2>2, <2>3
<1> QED
  BY <1>1, <1>2, <1>3 DEF ViewTypes, requestVars

\* The query of the devices begins a tile.
LEMMA ReadDevicesFits ==
  ASSUME ViewTypes, ReadDevices
  PROVE  ViewTypes' /\ UNCHANGED <<dataVars, view, order, response, writes>>
<1> DEFINE devices == DevicesOf(Head(pending))
<1>1. /\ pending # <<>> /\ UNCHANGED <<dataVars, view, order, response, writes>>
      /\ draft' = [EmptyDraft EXCEPT !.site = Head(pending), !.status = PropertyStatus(devices),
                                     !.score = PropertyScore(devices), !.began = writes]
      /\ stage' = "counts" /\ UNCHANGED <<pending, tiles>>
  BY Zenon DEF ReadDevices, Reading
<1>2. DataOK /\ pending \in Seq(Sites) /\ writes \in Nat
  BY DEF ViewTypes
<1>3. Head(pending) \in Sites
  BY <1>1, <1>2, HeadTailProperties
<1>4. PropertyStatus(devices) \in HealthStatus /\ PropertyScore(devices) \in 0..100
  <2>1. PropertyScore(devices) \in 0..Ceiling(PropertyStatus(devices))
    BY <1>2, ScoreIs
  <2> HIDE DEF devices
  <2>2. Ceiling(PropertyStatus(devices)) \in Nat /\ Ceiling(PropertyStatus(devices)) <= 100
    BY CeilingIs
  <2> QED
    BY <2>1, <2>2, StatusIs
<1> HIDE DEF devices
<1>5. draft' \in TileType /\ draft'.site \in Sites /\ draft'.began = writes
  BY <1>1, <1>2, <1>3, <1>4 DEF EmptyDraft, TileType
<1>6. draft'.began <= writes'
  BY <1>1, <1>2, <1>5
<1> QED
  BY <1>1, <1>5, <1>6 DEF ViewTypes, DataOK, dataVars

\* The queries of the alerts fill in a field of it.
LEMMA ReadAlertsFits ==
  ASSUME ViewTypes, CountAlerts \/ ReadWorst
  PROVE  ViewTypes' /\ UNCHANGED <<dataVars, view, order, response, writes>>
<1>1. /\ UNCHANGED <<dataVars, view, order, response, writes>> /\ UNCHANGED <<pending, tiles>>
      /\ stage # "devices" /\ stage' \in {"worst", "boxes"}
      /\ \/ draft' = [draft EXCEPT !.counts = CountBySeverity(Head(pending))]
         \/ UNCHANGED draft
         \/ \E a \in WorstOpen(Head(pending)) : draft' = [draft EXCEPT !.worst = a]
  BY DEF CountAlerts, ReadWorst, Reading
<1>2. CountBySeverity(Head(pending)) \in [Severities -> Nat]
  BY CountIs DEF ViewTypes
<1>3. \A a \in WorstOpen(Head(pending)) : a \in SiteDevices \X Severities \X AlertRows
  <2>1. \A a \in WorstOpen(Head(pending)) : a \in openAlerts
    BY Zenon DEF WorstOpen, AlertsAt
  <2> QED
    BY <2>1 DEF ViewTypes, DataOK
<1>4. draft \in TileType /\ draft.site \in Sites /\ draft.began <= writes
  BY <1>1 DEF ViewTypes
<1>5. draft' \in TileType /\ draft'.site = draft.site /\ draft'.began = draft.began
  <2>1. CASE draft' = [draft EXCEPT !.counts = CountBySeverity(Head(pending))]
    BY <1>2, <1>4, <2>1 DEF TileType
  <2>2. CASE \E a \in WorstOpen(Head(pending)) : draft' = [draft EXCEPT !.worst = a]
    BY <1>3, <1>4, <2>2 DEF TileType
  <2> QED
    BY <1>1, <1>4, <2>1, <2>2
<1> QED
  BY <1>1, <1>4, <1>5 DEF ViewTypes, DataOK, dataVars

\* The query of the boxes makes a tile of the draft.
LEMMA ReadBoxesFits ==
  ASSUME ViewTypes, ReadBoxes
  PROVE  ViewTypes' /\ UNCHANGED <<dataVars, view, order, response, writes>>
<1>1. /\ pending # <<>> /\ UNCHANGED <<dataVars, view, order, response, writes>>
      /\ stage = "boxes" /\ stage' = "devices" /\ pending' = Tail(pending) /\ draft' = EmptyDraft
  BY Zenon DEF ReadBoxes, Reading
<1>2. PICK boxes \in SUBSET EdgeBoxes :
         tiles' = Append(tiles, [draft EXCEPT !.boxes = boxes,
                                              !.online = {b \in boxes : IsOnline(b)},
                                              !.ended = writes])
  <2>1. \A b \in BoxesOf(Head(pending)) : b \in EdgeBoxes
    BY Zenon DEF BoxesOf
  <2>2. NewestBoxes(Head(pending)) \subseteq BoxesOf(Head(pending))
    BY Zenon DEF NewestBoxes
  <2>3. PICK boxes \in IF view = "property" THEN {BoxesOf(Head(pending))}
                       ELSE IF BoxesOf(Head(pending)) = {} THEN {{}}
                       ELSE {{b} : b \in NewestBoxes(Head(pending))} :
           tiles' = Append(tiles, [draft EXCEPT !.boxes = boxes,
                                                !.online = {b \in boxes : IsOnline(b)},
                                                !.ended = writes])
    BY Zenon DEF ReadBoxes
  <2>4. \/ boxes = BoxesOf(Head(pending)) \/ boxes = {}
        \/ \E b \in NewestBoxes(Head(pending)) : boxes = {b}
    BY <2>3, Zenon
  <2>5. boxes \in SUBSET EdgeBoxes
    BY <2>1, <2>2, <2>4
  <2> QED
    BY <2>3, <2>5, Zenon
<1> DEFINE online == {b \in boxes : IsOnline(b)}
           tile == [draft EXCEPT !.boxes = boxes, !.online = online, !.ended = writes]
<1>3. /\ draft \in TileType /\ draft.site \in Sites /\ draft.began <= writes /\ writes \in Nat
      /\ tiles \in Seq(ShownType) /\ pending \in Seq(Sites)
  BY <1>1 DEF ViewTypes
<1>4. online \in SUBSET EdgeBoxes
  OBVIOUS
<1> HIDE DEF online
<1>5. /\ tile \in ShownType /\ tile.began <= tile.ended /\ tile.ended <= writes
  <2>1. tile \in TileType
    BY <1>3, <1>4 DEF TileType
  <2>2. tile.site = draft.site /\ tile.began = draft.began /\ tile.ended = writes
    BY <1>3 DEF TileType
  <2> HIDE DEF tile
  <2> QED
    BY <1>3, <2>1, <2>2 DEF ShownType
<1>6. tiles' = Append(tiles, tile)
  BY <1>2 DEF online
<1> HIDE DEF tile
<1>7. /\ tiles' \in Seq(ShownType)
      /\ \A i \in 1..Len(tiles') :
            tiles'[i] = tile \/ (i \in 1..Len(tiles) /\ tiles'[i] = tiles[i])
  BY <1>3, <1>5, <1>6, AppendProperties
<1>8. \A i \in 1..Len(tiles') :
         tiles'[i].began <= tiles'[i].ended /\ tiles'[i].ended <= writes
  BY <1>5, <1>7, Zenon DEF ViewTypes
<1>9. Tail(pending) \in Seq(Sites)
  BY <1>1, <1>3, HeadTailProperties
<1>10. draft'.began <= writes'
  BY <1>1, <1>3, EmptyDraftIs
<1> QED
  BY <1>1, <1>3, <1>7, <1>8, <1>9, <1>10, EmptyDraftIs DEF ViewTypes, DataOK, dataVars

LEMMA ReadersFit ==
  ASSUME ViewTypes, ReadDevices \/ CountAlerts \/ ReadWorst \/ ReadBoxes
  PROVE  ViewTypes' /\ UNCHANGED <<dataVars, view, order, response, writes>>
BY ReadDevicesFits, ReadAlertsFits, ReadBoxesFits, Zenon

\* A request begins and ends with nothing read.
LEMMA AskFits ==
  ASSUME ViewTypes, NEW what \in {"estate", "property"}, NEW sites \in Seq(Sites),
         NEW sort \in Orders, Ask(what, sites, sort)
  PROVE  ViewTypes' /\ response' = NotThere
<1>1. /\ view' = what /\ order' = sort /\ stage' = "devices" /\ pending' = sites
      /\ draft' = EmptyDraft /\ tiles' = <<>> /\ response' = NotThere /\ writes' = 0
      /\ UNCHANGED dataVars
  BY Zenon DEF Ask
<1>2. Len(tiles') = 0 /\ tiles' \in Seq(ShownType)
  BY <1>1
<1> QED
  BY <1>1, <1>2, EmptyDraftIs DEF ViewTypes, DataOK, dataVars

LEMMA RespondFits == ASSUME ViewTypes, Respond PROVE ViewTypes'
<1>1. /\ view' = "none" /\ order' = "worst_first" /\ tiles' = <<>> /\ draft' = EmptyDraft
      /\ stage' = "devices" /\ UNCHANGED <<dataVars, pending, writes>>
  BY Zenon DEF Respond
<1>2. Len(tiles') = 0 /\ tiles' \in Seq(ShownType) /\ order' \in Orders
  BY <1>1 DEF Orders
<1>3. draft'.began <= writes'
  BY <1>1, EmptyDraftIs DEF ViewTypes
<1> QED
  BY <1>1, <1>2, <1>3, EmptyDraftIs DEF ViewTypes, DataOK, dataVars

-----------------------------------------------------------------------------
(* What a request has read so far.                                         *)

StatusTrue(t) ==
    /\ (t.status = "unhealthy") = HasUnhealthy(t.site)
    /\ (t.status = "healthy") = (DevicesOf(t.site) # {} /\ AllHealthy(t.site))
    /\ (t.status = "unknown") = (DevicesOf(t.site) = {})

CountsTrue(t) == t.counts = CountBySeverity(t.site)

WorstTrue(t, what) ==
    /\ what = "property" => t.worst = NotThere
    /\ what = "estate" => \/ t.worst = NotThere /\ AlertsAt(t.site) = {}
                          \/ t.worst \in WorstOpen(t.site)

BoxesTrue(t) ==
    /\ t.boxes \subseteq BoxesOf(t.site) /\ t.online = {b \in t.boxes : IsOnline(b)}
    /\ \A b \in BoxesOf(t.site) : \E c \in t.boxes : lag[c] <= lag[b]

\* A tile of the view that is asked for shows what the database holds.
TileTrue(t, what) == StatusTrue(t) /\ CountsTrue(t) /\ WorstTrue(t, what) /\ BoxesTrue(t)

\* The draft is of the site that is read.
DraftPlaced ==
    /\ stage \in {"counts", "worst", "boxes"} => pending # <<>> /\ draft.site = Head(pending)
    /\ stage \in {"counts", "worst"} => draft.worst = NotThere
    /\ stage = "worst" => view = "estate"

\* With no commit since it was begun, the draft holds what the database does.
DraftTrue ==
    draft.began = writes =>
        /\ stage \in {"counts", "worst", "boxes"} => StatusTrue(draft)
        /\ stage \in {"worst", "boxes"} => CountsTrue(draft)
        /\ stage = "boxes" => WorstTrue(draft, view)

\* The sites of an estate are taken in the order of their names; a property is one.
SitesInOrder ==
    /\ view = "estate" =>
          /\ Len(tiles) + Len(pending) = Len(SitesByName)
          /\ \A i \in 1..Len(tiles) : tiles[i].site = SitesByName[i]
          /\ \A i \in 1..Len(pending) : pending[i] = SitesByName[Len(tiles) + i]
    /\ view = "property" => Len(tiles) + Len(pending) = 1

\* A tile that nothing was committed in agrees with itself, and one that nothing
\* was committed after with the database.
TileSound(t) ==
    /\ view = "estate" /\ t.began = t.ended => WorstAgrees(t)
    /\ t.began = writes => TileTrue(t, view)

\* The inductive invariant of both properties.
ReadSoFar ==
    view # "none" =>
        SitesInOrder /\ DraftPlaced /\ DraftTrue /\ \A i \in 1..Len(tiles) : TileSound(tiles[i])

LEMMA StatusTells ==
  ASSUME NEW t, t.status = PropertyStatus(DevicesOf(t.site)) PROVE StatusTrue(t)
<1> DEFINE devices == DevicesOf(t.site)
           statuses == {deviceHealth[d].status : d \in devices}
<1>1. t.status = IF devices = {} THEN "unknown"
                 ELSE IF "unhealthy" \in statuses THEN "unhealthy"
                 ELSE IF "degraded" \in statuses THEN "degraded"
                 ELSE IF statuses = {"healthy"} THEN "healthy"
                 ELSE "degraded"
  BY Zenon DEF PropertyStatus
<1>2. HasUnhealthy(t.site) <=> "unhealthy" \in statuses
  <2>1. "unhealthy" \in statuses <=> \E d \in devices : deviceHealth[d].status = "unhealthy"
    OBVIOUS
  <2> QED
    BY <2>1, Zenon DEF HasUnhealthy
<1>3. AllHealthy(t.site) <=> \A s \in statuses : s = "healthy"
  <2>1. (\A s \in statuses : s = "healthy") <=> \A d \in devices : deviceHealth[d].status = "healthy"
    OBVIOUS
  <2> QED
    BY <2>1, Zenon DEF AllHealthy
<1>4. devices = {} <=> statuses = {}
  OBVIOUS
<1> HIDE DEF statuses, devices
<1>5. statuses # {} => (statuses = {"healthy"} <=> \A s \in statuses : s = "healthy")
  OBVIOUS
<1>6. (\A s \in statuses : s = "healthy") => ~("unhealthy" \in statuses \/ "degraded" \in statuses)
  OBVIOUS
<1>7. /\ t.status = "unhealthy" <=> "unhealthy" \in statuses
      /\ t.status = "healthy" <=> devices # {} /\ \A s \in statuses : s = "healthy"
      /\ t.status = "unknown" <=> devices = {}
  BY <1>1, <1>4, <1>5, <1>6
<1> QED
  BY <1>2, <1>3, <1>7 DEF StatusTrue, devices, HasUnhealthy, AllHealthy

LEMMA RankIs == \A s : SeverityRank(s) \in 1..4
<1>1. ASSUME NEW s PROVE SeverityRank(s) \in {1, 2, 3, 4}
  BY Zenon DEF SeverityRank
<1> QED
  BY <1>1

\* The counts of a site are zero for the severities that no open alert of it has.
LEMMA CountTells ==
  ASSUME DataOK, NEW site, NEW s \in Severities
  PROVE  CountBySeverity(site)[s] > 0 <=> \E a \in AlertsAt(site) : a[2] = s
<1> DEFINE some == {a \in AlertsAt(site) : a[2] = s}
<1>1. CountBySeverity(site)[s] = Cardinality(some)
  BY DEF CountBySeverity
<1>2. some \in SUBSET openAlerts
  BY Zenon DEF AlertsAt
<1>3. some = {} <=> ~ \E a \in AlertsAt(site) : a[2] = s
  OBVIOUS
<1> HIDE DEF some
<1>4. IsFiniteSet(some) /\ Cardinality(some) \in Nat
  BY <1>2, FiniteAlerts
<1> QED
  BY <1>1, <1>3, <1>4, FS_EmptySet

\* Where the numbers and the alert named are true, they agree.
LEMMA TrueAgrees ==
  ASSUME DataOK, NEW t, CountsTrue(t), WorstTrue(t, "estate")
  PROVE  WorstAgrees(t)
<1>1. t.counts \in [Severities -> Nat] /\ t.counts = CountBySeverity(t.site)
  BY CountIs DEF CountsTrue
<1>2. \A s \in Severities : t.counts[s] > 0 <=> \E a \in AlertsAt(t.site) : a[2] = s
  BY <1>1, CountTells
<1>3. \A a \in AlertsAt(t.site) : a[2] \in Severities /\ a # NotThere
  <2>1. \A a \in AlertsAt(t.site) : a \in openAlerts
    BY Zenon DEF AlertsAt
  <2>2. \A a \in openAlerts : a \in SiteDevices \X Severities \X AlertRows
    BY DEF DataOK
  <2>3. \A a \in SiteDevices \X Severities \X AlertRows : a[2] \in Severities /\ a # NotThere
    BY NoRowAssumption
  <2> QED
    BY <2>1, <2>2, <2>3
<1>4. (\A s \in Severities : t.counts[s] = 0) <=> AlertsAt(t.site) = {}
  <2>1. \A s \in Severities : t.counts[s] = 0 <=> ~(t.counts[s] > 0)
    BY <1>1
  <2> QED
    BY <1>2, <1>3, <2>1
<1>5. \A a \in WorstOpen(t.site) :
         /\ a \in AlertsAt(t.site)
         /\ \A b \in AlertsAt(t.site) : SeverityRank(a[2]) <= SeverityRank(b[2])
  BY Zenon DEF WorstOpen
<1>6. \/ t.worst = NotThere /\ AlertsAt(t.site) = {}
      \/ t.worst \in WorstOpen(t.site)
  BY Zenon DEF WorstTrue
<1>7. (t.worst = NotThere) = (\A s \in Severities : t.counts[s] = 0)
  <2>1. CASE t.worst = NotThere /\ AlertsAt(t.site) = {}
    BY <1>4, <2>1
  <2>2. CASE t.worst \in WorstOpen(t.site)
    <3>1. t.worst \in AlertsAt(t.site) /\ t.worst # NotThere
      BY <1>3, <1>5, <2>2
    <3> QED
      BY <1>4, <3>1
  <2> QED
    BY <1>6, <2>1, <2>2
<1>8. ASSUME t.worst # NotThere
      PROVE  /\ t.counts[t.worst[2]] > 0
             /\ \A s \in Severities : t.counts[s] > 0 => SeverityRank(t.worst[2]) <= SeverityRank(s)
  <2>1. t.worst \in WorstOpen(t.site)
    BY <1>6, <1>8
  <2>2. t.worst \in AlertsAt(t.site) /\ t.worst[2] \in Severities
    BY <1>3, <1>5, <2>1
  <2>3. t.counts[t.worst[2]] > 0
    BY <1>2, <2>2
  <2>4. ASSUME NEW s \in Severities, t.counts[s] > 0
        PROVE  SeverityRank(t.worst[2]) <= SeverityRank(s)
    <3>1. PICK a \in AlertsAt(t.site) : a[2] = s
      BY <1>2, <2>4
    <3>2. SeverityRank(t.worst[2]) <= SeverityRank(a[2])
      BY <1>5, <2>1
    <3> QED
      BY <3>1, <3>2
  <2> QED
    BY <2>3, <2>4
<1> QED
  BY <1>7, <1>8, Zenon DEF WorstAgrees

LEMMA LeastOf ==
    ASSUME NEW T \in SUBSET Nat, T # {}
    PROVE  \E x \in T : \A y \in T : x <= y
<1>1. PICK x \in T : \A y \in T : ~(<<y, x>> \in OpToRel(<, Nat))
  BY NatLessThanWellFounded, WFMin
<1>2. ASSUME NEW y \in T PROVE x <= y
  <2>1. x \in Nat /\ y \in Nat
    OBVIOUS
  <2>2. ~(y < x)
    BY <1>1, <2>1 DEF OpToRel
  <2>3. QED
    BY <2>1, <2>2
<1>3. QED
  BY <1>2

\* A query leaves what is true of a tile as it is.
LEMMA DataKept ==
  ASSUME UNCHANGED <<dataVars, view, writes>>
  PROVE  /\ \A t : StatusTrue(t)' = StatusTrue(t)
         /\ \A t : CountsTrue(t)' = CountsTrue(t)
         /\ \A t, what : WorstTrue(t, what)' = WorstTrue(t, what)
         /\ \A t : TileSound(t)' = TileSound(t)
<1>1. /\ deviceHealth' = deviceHealth /\ openAlerts' = openAlerts /\ lag' = lag
      /\ view' = view /\ writes' = writes
  BY DEF dataVars
<1>2. ASSUME NEW t PROVE StatusTrue(t)' = StatusTrue(t)
  BY <1>1 DEF StatusTrue, HasUnhealthy, AllHealthy, DevicesOf
<1>3. ASSUME NEW t PROVE CountsTrue(t)' = CountsTrue(t)
  BY <1>1 DEF CountsTrue, CountBySeverity, AlertsAt
<1>4. ASSUME NEW t, NEW what PROVE WorstTrue(t, what)' = WorstTrue(t, what)
  BY <1>1 DEF WorstTrue, WorstOpen, AlertsAt
<1>5. ASSUME NEW t PROVE BoxesTrue(t)' = BoxesTrue(t)
  BY <1>1 DEF BoxesTrue, BoxesOf, IsOnline
<1>6. ASSUME NEW t PROVE TileSound(t)' = TileSound(t)
  <2>1. TileTrue(t, view)' = TileTrue(t, view)
    BY <1>1, <1>2, <1>3, <1>4, <1>5, Zenon DEF TileTrue
  <2> QED
    BY <1>1, <2>1, Zenon DEF TileSound
<1> QED
  BY <1>2, <1>3, <1>4, <1>6

\* A box that is shown has been heard from.
LEMMA BoxLag == ASSUME DataOK, NEW site, NEW b \in BoxesOf(site) PROVE lag[b] \in Nat
<1>1. b \in EdgeBoxes /\ lag[b] # NotThere
  BY Zenon DEF BoxesOf
<1>2. lag[b] \in Lags \cup {0, NotThere}
  BY <1>1 DEF DataOK
<1>3. lag[b] \in Lags \/ lag[b] = 0
  BY <1>1, <1>2, Zenon
<1>4. \A x \in Lags : x \in Nat
  BY BeatsAssumption
<1>5. CASE lag[b] = 0
  BY <1>5
<1> QED
  BY <1>3, <1>4, <1>5, Zenon

\* Of some boxes one has been heard from last.
LEMMA NewestIs ==
  ASSUME DataOK, NEW site, BoxesOf(site) # {}
  PROVE  /\ NewestBoxes(site) # {} /\ NewestBoxes(site) \subseteq BoxesOf(site)
         /\ \A b \in NewestBoxes(site), c \in BoxesOf(site) : lag[b] <= lag[c]
<1>1. \A b \in BoxesOf(site) : lag[b] \in Nat
  BY BoxLag
<1> DEFINE lags == {lag[b] : b \in BoxesOf(site)}
<1>2. PICK least \in lags : \A n \in lags : least <= n
  <2>1. lags # {} /\ lags \in SUBSET Nat
    BY <1>1
  <2> HIDE DEF lags
  <2> QED
    BY <2>1, LeastOf
<1>3. PICK b \in BoxesOf(site) : lag[b] = least
  OBVIOUS
<1>4. \A c \in BoxesOf(site) : lag[b] <= lag[c]
  BY <1>2, <1>3
<1>5. b \in NewestBoxes(site)
  BY <1>4, Zenon DEF NewestBoxes
<1> QED
  BY <1>5, Zenon DEF NewestBoxes

\* Of some alerts one is the worst.
LEMMA WorstIsThere ==
  ASSUME NEW site, AlertsAt(site) # {} PROVE WorstOpen(site) # {}
<1> DEFINE ranks == {SeverityRank(a[2]) : a \in AlertsAt(site)}
<1>1. PICK least \in ranks : \A n \in ranks : least <= n
  <2>1. ranks # {} /\ ranks \in SUBSET Nat
    BY RankIs
  <2> HIDE DEF ranks
  <2> QED
    BY <2>1, LeastOf
<1>2. PICK a \in AlertsAt(site) : SeverityRank(a[2]) = least
  OBVIOUS
<1>3. \A b \in AlertsAt(site) : SeverityRank(a[2]) <= SeverityRank(b[2])
  BY <1>1, <1>2
<1> QED
  BY <1>3, Zenon DEF WorstOpen

\* The first three queries of a site leave the tiles and the list of sites alone.
LEMMA TilesOn ==
  ASSUME ReadSoFar, view # "none", UNCHANGED <<dataVars, view, writes, pending, tiles>>
  PROVE  SitesInOrder' /\ \A i \in 1..Len(tiles') : TileSound(tiles[i])'
<1>1. SitesInOrder /\ \A i \in 1..Len(tiles) : TileSound(tiles[i])
  BY DEF ReadSoFar
<1> QED
  BY <1>1, DataKept DEF SitesInOrder

\* The query of the devices.
LEMMA ReadDevicesOn == ASSUME ViewTypes, ReadSoFar, ReadDevices PROVE ReadSoFar'
<1>1. /\ view # "none" /\ view' = view /\ writes' = writes
      /\ UNCHANGED dataVars /\ pending # <<>> /\ pending' = pending /\ tiles' = tiles
      /\ stage' = "counts"
  BY DEF ReadDevices, Reading
<1>2. /\ draft'.site = Head(pending) /\ draft'.status = PropertyStatus(DevicesOf(Head(pending)))
      /\ draft'.worst = NotThere
  <2>1. draft' = [EmptyDraft EXCEPT !.site = Head(pending),
                     !.status = PropertyStatus(DevicesOf(Head(pending))),
                     !.score = PropertyScore(DevicesOf(Head(pending))), !.began = writes]
    BY Zenon DEF ReadDevices
  <2> QED
    BY <2>1 DEF EmptyDraft
<1>3. StatusTrue(draft)'
  <2>1. StatusTrue(draft')
    BY <1>2, StatusTells
  <2> QED
    BY <1>1, <2>1, DataKept
<1>4. DraftPlaced' /\ DraftTrue'
  BY <1>1, <1>2, <1>3 DEF DraftPlaced, DraftTrue
<1> QED
  BY <1>1, <1>4, TilesOn DEF ReadSoFar

\* The query of the open alerts by severity.
LEMMA CountAlertsOn == ASSUME ViewTypes, ReadSoFar, CountAlerts PROVE ReadSoFar'
<1>1. /\ view \in {"estate", "property"} /\ view' = view /\ writes' = writes
      /\ UNCHANGED dataVars /\ pending # <<>> /\ pending' = pending /\ tiles' = tiles
      /\ stage = "counts" /\ stage' = IF view = "estate" THEN "worst" ELSE "boxes"
  BY DEF CountAlerts, Reading, ViewTypes
<1>2. /\ draft'.site = draft.site /\ draft'.status = draft.status /\ draft'.worst = draft.worst
      /\ draft'.counts = CountBySeverity(Head(pending)) /\ draft'.began = draft.began
  <2>1. draft' = [draft EXCEPT !.counts = CountBySeverity(Head(pending))]
    BY Zenon DEF CountAlerts
  <2> QED
    BY <2>1 DEF ViewTypes, TileType
<1>3. draft.site = Head(pending) /\ draft.worst = NotThere /\ DraftTrue
  BY <1>1 DEF ReadSoFar, DraftPlaced
<1>4. DraftPlaced'
  BY <1>1, <1>2, <1>3 DEF DraftPlaced
<1>5. DraftTrue'
  <2> SUFFICES ASSUME draft.began = writes
               PROVE  /\ StatusTrue(draft)' /\ CountsTrue(draft)'
                      /\ stage' = "boxes" => WorstTrue(draft, view)'
    BY <1>1, <1>2 DEF DraftTrue
  <2>1. StatusTrue(draft)
    BY <1>1, <1>3 DEF DraftTrue
  <2>2. StatusTrue(draft')
    BY <1>2, <2>1 DEF StatusTrue
  <2>3. CountsTrue(draft')
    BY <1>2, <1>3 DEF CountsTrue
  <2>4. StatusTrue(draft)' /\ CountsTrue(draft)'
    BY <1>1, <2>2, <2>3, DataKept
  <2>5. stage' = "boxes" => WorstTrue(draft, view)'
    BY <1>1, <1>2, <1>3 DEF WorstTrue
  <2> QED
    BY <2>4, <2>5
<1> QED
  BY <1>1, <1>4, <1>5, TilesOn DEF ReadSoFar

\* The query of the worst alert.
LEMMA ReadWorstOn == ASSUME ViewTypes, ReadSoFar, ReadWorst PROVE ReadSoFar'
<1>1. /\ view # "none" /\ view' = view /\ writes' = writes
      /\ UNCHANGED dataVars /\ pending # <<>> /\ pending' = pending /\ tiles' = tiles
      /\ stage = "worst" /\ stage' = "boxes"
  BY DEF ReadWorst, Reading
<1>2. /\ draft'.site = draft.site /\ draft'.status = draft.status /\ draft'.counts = draft.counts
      /\ draft'.began = draft.began
      /\ \/ WorstOpen(Head(pending)) = {} /\ draft'.worst = draft.worst
         \/ draft'.worst \in WorstOpen(Head(pending))
  <2>1. \/ WorstOpen(Head(pending)) = {} /\ draft' = draft
        \/ \E a \in WorstOpen(Head(pending)) : draft' = [draft EXCEPT !.worst = a]
    BY Zenon DEF ReadWorst
  <2> QED
    BY <2>1 DEF ViewTypes, TileType
<1>3. draft.site = Head(pending) /\ draft.worst = NotThere /\ view = "estate" /\ DraftTrue
  BY <1>1 DEF ReadSoFar, DraftPlaced
<1>4. DraftPlaced'
  BY <1>1, <1>2, <1>3 DEF DraftPlaced
<1>5. DraftTrue'
  <2> SUFFICES ASSUME draft.began = writes
               PROVE  StatusTrue(draft)' /\ CountsTrue(draft)' /\ WorstTrue(draft, view)'
    BY <1>1, <1>2 DEF DraftTrue
  <2>1. StatusTrue(draft) /\ CountsTrue(draft)
    BY <1>1, <1>3 DEF DraftTrue
  <2>2. StatusTrue(draft')
    BY <1>2, <2>1 DEF StatusTrue
  <2>3. CountsTrue(draft')
    BY <1>2, <2>1 DEF CountsTrue
  <2>4. WorstTrue(draft', view)
    <3>1. WorstOpen(Head(pending)) = {} => AlertsAt(Head(pending)) = {}
      BY WorstIsThere
    <3> QED
      BY <1>1, <1>2, <1>3, <3>1 DEF WorstTrue
  <2> QED
    BY <1>1, <2>2, <2>3, <2>4, DataKept
<1> QED
  BY <1>1, <1>4, <1>5, TilesOn DEF ReadSoFar

\* The boxes that the estate or a property shows.
LEMMA ShownBoxes ==
  ASSUME DataOK, NEW site, NEW boxes,
         boxes \in IF view = "property" THEN {BoxesOf(site)}
                   ELSE IF BoxesOf(site) = {} THEN {{}}
                   ELSE {{b} : b \in NewestBoxes(site)}
  PROVE  /\ boxes \subseteq BoxesOf(site)
         /\ \A b \in BoxesOf(site) : \E c \in boxes : lag[c] <= lag[b]
<1>1. ASSUME NEW b \in BoxesOf(site) PROVE lag[b] \in Nat
  BY BoxLag
<1>2. CASE boxes = BoxesOf(site)
  <2>1. \A b \in BoxesOf(site) : b \in boxes /\ lag[b] <= lag[b]
    BY <1>1, <1>2
  <2> QED
    BY <1>2, <2>1
<1>3. CASE BoxesOf(site) = {} /\ boxes = {}
  BY <1>3
<1>4. CASE BoxesOf(site) # {} /\ \E b \in NewestBoxes(site) : boxes = {b}
  BY <1>4, NewestIs
<1> QED
  BY <1>2, <1>3, <1>4

\* The query of the edge boxes, which makes a tile of the draft.
LEMMA ReadBoxesOn == ASSUME ViewTypes, ReadSoFar, ReadBoxes PROVE ReadSoFar'
<1>1. /\ view \in {"estate", "property"} /\ view' = view /\ writes' = writes
      /\ UNCHANGED dataVars /\ pending # <<>> /\ pending' = Tail(pending)
      /\ stage = "boxes" /\ stage' = "devices"
  BY DEF ReadBoxes, Reading, ViewTypes
<1>2. PICK boxes \in IF view = "property" THEN {BoxesOf(Head(pending))}
                     ELSE IF BoxesOf(Head(pending)) = {} THEN {{}}
                     ELSE {{b} : b \in NewestBoxes(Head(pending))} :
         tiles' = Append(tiles, [draft EXCEPT !.boxes = boxes,
                                              !.online = {b \in boxes : IsOnline(b)},
                                              !.ended = writes])
  BY Zenon DEF ReadBoxes
<1> DEFINE tile == [draft EXCEPT !.boxes = boxes, !.online = {b \in boxes : IsOnline(b)},
                                 !.ended = writes]
<1>3. /\ SitesInOrder /\ \A i \in 1..Len(tiles) : TileSound(tiles[i])
      /\ draft.site = Head(pending)
      /\ draft.began = writes => StatusTrue(draft) /\ CountsTrue(draft) /\ WorstTrue(draft, view)
  BY <1>1 DEF ReadSoFar, DraftPlaced, DraftTrue
<1>4. /\ tile.site = Head(pending) /\ tile.status = draft.status /\ tile.counts = draft.counts
      /\ tile.worst = draft.worst /\ tile.boxes = boxes
      /\ tile.online = {b \in boxes : IsOnline(b)}
      /\ tile.began = draft.began /\ tile.ended = writes
  BY <1>3 DEF ViewTypes, TileType
<1>5. pending \in Seq(Sites) /\ tiles \in Seq(ShownType)
  BY DEF ViewTypes
<1>6. /\ Head(pending) = pending[1] /\ Head(pending) \in Sites
      /\ Len(pending') = Len(pending) - 1 /\ Len(pending) \in Nat \ {0}
      /\ \A i \in 1..Len(pending') : pending'[i] = pending[i + 1]
  BY <1>1, <1>5, HeadTailProperties, EmptySeq, LenProperties
<1>7. TileSound(tile)
  <2> HIDE DEF tile
  <2>1. ASSUME tile.began = writes PROVE TileTrue(tile, view)
    <3>1. StatusTrue(tile) /\ CountsTrue(tile) /\ WorstTrue(tile, view)
      BY <1>3, <1>4, <2>1 DEF StatusTrue, CountsTrue, WorstTrue
    <3>2. /\ boxes \subseteq BoxesOf(Head(pending))
          /\ \A b \in BoxesOf(Head(pending)) : \E c \in boxes : lag[c] <= lag[b]
      BY <1>2, ShownBoxes DEF ViewTypes
    <3>3. BoxesTrue(tile)
      BY <1>4, <3>2 DEF BoxesTrue
    <3> QED
      BY <3>1, <3>3 DEF TileTrue
  <2>2. ASSUME view = "estate", tile.began = tile.ended PROVE WorstAgrees(tile)
    <3>1. CountsTrue(tile) /\ WorstTrue(tile, "estate")
      BY <1>4, <2>1, <2>2 DEF TileTrue
    <3> QED
      BY <3>1, TrueAgrees DEF ViewTypes
  <2> QED
    BY <2>1, <2>2 DEF TileSound
<1> HIDE DEF tile
<1>8. /\ Len(tiles') = Len(tiles) + 1 /\ Len(tiles) \in Nat
      /\ \A i \in 1..Len(tiles) : tiles'[i] = tiles[i]
      /\ tiles'[Len(tiles) + 1] = tile
  <2>1. tiles' = Append(tiles, tile)
    BY <1>2 DEF tile
  <2> QED
    BY <1>5, <2>1
<1>9. ASSUME NEW i \in 1..Len(tiles') PROVE TileSound(tiles[i])'
  <2>1. i \in 1..Len(tiles) \/ i = Len(tiles) + 1
    BY <1>8
  <2>2. TileSound(tiles'[i])
    BY <1>3, <1>7, <1>8, <2>1
  <2> QED
    BY <1>1, <2>2, DataKept
<1>10. SitesInOrder'
  <2>1. CASE view = "estate"
    <3>1. /\ Len(tiles) + Len(pending) = Len(SitesByName)
          /\ \A i \in 1..Len(tiles) : tiles[i].site = SitesByName[i]
          /\ \A i \in 1..Len(pending) : pending[i] = SitesByName[Len(tiles) + i]
      BY <1>3, <2>1 DEF SitesInOrder
    <3>2. tile.site = SitesByName[Len(tiles) + 1]
      BY <1>4, <1>6, <3>1
    <3>3. \A i \in 1..Len(tiles') : tiles'[i].site = SitesByName[i]
      BY <1>8, <3>1, <3>2
    <3>4. \A i \in 1..Len(pending') : pending'[i] = SitesByName[Len(tiles') + i]
      <4> SUFFICES ASSUME NEW i \in 1..Len(pending')
                   PROVE  pending'[i] = SitesByName[Len(tiles') + i]
        OBVIOUS
      <4>1. i + 1 \in 1..Len(pending) /\ Len(tiles) + (i + 1) = Len(tiles') + i
        BY <1>6, <1>8
      <4>2. pending[i + 1] = SitesByName[Len(tiles) + (i + 1)]
        BY <3>1, <4>1
      <4> QED
        BY <1>6, <4>1, <4>2
    <3>5. Len(tiles') + Len(pending') = Len(SitesByName)
      <4>1. Len(tiles') + Len(pending') = Len(tiles) + Len(pending)
        BY <1>6, <1>8
      <4> QED
        BY <3>1, <4>1, Zenon
    <3> QED
      BY <1>1, <2>1, <3>3, <3>4, <3>5 DEF SitesInOrder
  <2>2. CASE view = "property"
    <3>1. Len(tiles) + Len(pending) = 1
      BY <1>3, <2>2 DEF SitesInOrder
    <3>2. Len(tiles') + Len(pending') = 1
      BY <1>6, <1>8, <3>1
    <3> QED
      BY <1>1, <2>2, <3>2 DEF SitesInOrder
  <2> QED
    BY <1>1, <2>1, <2>2
<1>11. DraftPlaced' /\ DraftTrue'
  BY <1>1 DEF DraftPlaced, DraftTrue
<1> QED
  BY <1>9, <1>10, <1>11 DEF ReadSoFar

\* A request begins with nothing read.
LEMMA AskBegins ==
  ASSUME NEW what, NEW sites \in Seq(Sites), NEW sort,
         \/ what = "estate" /\ sites = SitesByName
         \/ what = "property" /\ \E site \in Sites : sites = <<site>>,
         Ask(what, sites, sort)
  PROVE  ReadSoFar'
<1>1. /\ view' = what /\ stage' = "devices" /\ pending' = sites /\ draft' = EmptyDraft
      /\ tiles' = <<>>
  BY Zenon DEF Ask
<1>2. Len(tiles') = 0 /\ 1..Len(tiles') = {} /\ Len(sites) \in Nat
  BY <1>1
<1>3. SitesInOrder'
  BY <1>1, <1>2 DEF SitesInOrder
<1>4. DraftPlaced' /\ DraftTrue'
  BY <1>1 DEF DraftPlaced, DraftTrue
<1> QED
  BY <1>2, <1>3, <1>4 DEF ReadSoFar

\* After a commit, nothing was begun with the database as it is.
LEMMA WritersOn ==
  ASSUME ViewTypes, ReadSoFar, writes' = writes + 1, UNCHANGED requestVars
  PROVE  ReadSoFar'
<1>1. /\ view' = view /\ stage' = stage /\ pending' = pending /\ draft' = draft
      /\ tiles' = tiles /\ writes \in Nat
  BY DEF requestVars, ViewTypes
<1> SUFFICES ASSUME view # "none" PROVE ReadSoFar'
  BY <1>1 DEF ReadSoFar
<1>2. SitesInOrder /\ DraftPlaced /\ \A i \in 1..Len(tiles) : TileSound(tiles[i])
  BY DEF ReadSoFar
<1>3. SitesInOrder' /\ DraftPlaced'
  BY <1>1, <1>2 DEF SitesInOrder, DraftPlaced
<1>4. DraftTrue'
  <2>1. draft.began \in Nat /\ draft.began <= writes
    BY DEF ViewTypes, TileType
  <2>2. draft'.began # writes'
    BY <1>1, <2>1
  <2> QED
    BY <2>2 DEF DraftTrue
<1>5. ASSUME NEW i \in 1..Len(tiles') PROVE TileSound(tiles[i])'
  <2>1. i \in 1..Len(tiles) /\ TileSound(tiles[i])
    BY <1>1, <1>2
  <2>2. tiles[i] \in TileType /\ tiles[i].began <= tiles[i].ended /\ tiles[i].ended <= writes
    BY <2>1, ElementOfSeq DEF ViewTypes, ShownType
  <2>3. tiles[i].began \in Nat /\ tiles[i].ended \in Nat
    BY <2>2 DEF TileType
  <2>4. tiles'[i].began # writes'
    BY <1>1, <2>2, <2>3
  <2>5. WorstAgrees(tiles[i])' = WorstAgrees(tiles[i])
    BY <1>1 DEF WorstAgrees
  <2> QED
    BY <1>1, <2>1, <2>4, <2>5 DEF TileSound
<1> QED
  BY <1>3, <1>4, <1>5 DEF ReadSoFar

\* The sites of an estate are as many as their list is long.
LEMMA SitesCounted ==
  Len(SitesByName) \in Nat /\ DOMAIN SitesByName = 1..Len(SitesByName)
    /\ IsFiniteSet(Sites) /\ Cardinality(Sites) = Len(SitesByName)
<1> DEFINE n == Len(SitesByName)
<1>1. n \in Nat /\ DOMAIN SitesByName = 1..n /\ SitesByName \in [1..n -> Sites]
  BY SitesAssumption, LenProperties
<1>2. \A i, j \in 1..n : SitesByName[i] = SitesByName[j] => i = j
  BY <1>1, SitesAssumption, Zenon
<1>3. Sites = {SitesByName[i] : i \in 1..n}
  BY <1>1, Zenon DEF Sites
<1> HIDE DEF n
<1>4. SitesByName \in Injection(1..n, Sites) /\ SitesByName \in Surjection(1..n, Sites)
  BY <1>1, <1>2, <1>3 DEF Injection, Surjection, IsInjective
<1>5. IsFiniteSet(1..n) /\ Cardinality(1..n) = n
  BY <1>1, FS_Interval
<1>6. IsFiniteSet(Sites) /\ Cardinality(Sites) = n
  BY <1>4, <1>5, FS_Surjection
<1> QED
  BY <1>1, <1>6 DEF n

\* When the last site is read, no site is shown twice, and an estate shows all.
LEMMA SitesShown ==
  ASSUME ViewTypes, view # "none", SitesInOrder, pending = <<>>
  PROVE  /\ Len(tiles) \in Nat /\ DOMAIN tiles = 1..Len(tiles)
         /\ \A i, j \in 1..Len(tiles) : tiles[i].site = tiles[j].site => i = j
         /\ view = "estate" => /\ {tiles[i].site : i \in 1..Len(tiles)} = Sites
                               /\ Len(tiles) = Cardinality(Sites)
<1>0. Len(tiles) \in Nat
  BY LenProperties DEF ViewTypes
<1>1. Len(tiles) \in Nat /\ DOMAIN tiles = 1..Len(tiles) /\ Len(pending) = 0
  BY LenProperties, EmptySeq DEF ViewTypes
<1>2. CASE view = "estate"
  <2>1. /\ Len(tiles) + Len(pending) = Len(SitesByName)
        /\ \A i \in 1..Len(tiles) : tiles[i].site = SitesByName[i]
    BY <1>2 DEF SitesInOrder
  <2>2. Len(tiles) = Len(SitesByName)
    BY <1>1, <2>1
  <2>3. \A i \in DOMAIN SitesByName : tiles[i].site = SitesByName[i]
    BY <2>1, <2>2, SitesCounted
  <2>4. {tiles[i].site : i \in 1..Len(tiles)} = Sites
    BY <2>2, <2>3, SitesCounted DEF Sites
  <2>5. ASSUME NEW i \in 1..Len(tiles), NEW j \in 1..Len(tiles), tiles[i].site = tiles[j].site
        PROVE  i = j
    <3>1. i \in DOMAIN SitesByName /\ j \in DOMAIN SitesByName
      BY <2>2, SitesCounted
    <3>2. SitesByName[i] = SitesByName[j]
      BY <2>3, <2>5, <3>1
    <3> QED
      BY <3>1, <3>2, SitesAssumption
  <2> QED
    BY <1>1, <2>2, <2>4, <2>5, SitesCounted
<1>3. CASE view = "property"
  <2>1. Len(tiles) + Len(pending) = 1
    BY <1>3, Zenon DEF SitesInOrder
  <2>2. Len(tiles) + 0 = 1
    BY <1>1, <2>1, Zenon
  <2>3. Len(tiles) = 1
    BY <1>0, <2>2
  <2> QED
    BY <1>1, <1>3, <2>3
<1> QED
  BY <1>2, <1>3 DEF ViewTypes

\* The strip adds up the open alerts of the sites that are shown.
LEMMA StripCounts ==
  ASSUME ViewTypes, view # "none", SitesInOrder, pending = <<>>,
         \A i \in 1..Len(tiles) : CountsTrue(tiles[i]),
         NEW s \in Severities
  PROVE  KpiStrip(tiles).alerts[s] =
           Cardinality({a \in openAlerts :
                          SiteOf[a[1]] \in {tiles[i].site : i \in 1..Len(tiles)} /\ a[2] = s})
<1> DEFINE n == Len(tiles)
           A == [i \in 1..n |-> {a \in AlertsAt(tiles[i].site) : a[2] = s}]
           f == [i \in DOMAIN tiles |-> tiles[i].counts[s]]
           sum == MapThenSumSet(LAMBDA i : tiles[i].counts[s], DOMAIN tiles)
           all == UNION {A[i] : i \in 1..n}
<1>1. KpiStrip(tiles).alerts[s] = sum
  BY DEF KpiStrip
<1>2. sum = Total(f, DOMAIN tiles)
  BY Zenon DEF Total, MapThenSumSet, MapThenFoldSet
<1>3. /\ n \in Nat /\ DOMAIN tiles = 1..n
      /\ \A i, j \in 1..n : tiles[i].site = tiles[j].site => i = j
  BY SitesShown
<1>4. ASSUME NEW i \in 1..n PROVE IsFiniteSet(A[i]) /\ f[i] = Cardinality(A[i])
  <2>1. A[i] \in SUBSET openAlerts
    BY DEF AlertsAt
  <2>2. f[i] = CountBySeverity(tiles[i].site)[s]
    BY <1>3 DEF CountsTrue
  <2>3. CountBySeverity(tiles[i].site)[s] = Cardinality(A[i])
    BY DEF CountBySeverity
  <2> HIDE DEF A, f
  <2> QED
    BY <2>1, <2>2, <2>3, FiniteAlerts DEF ViewTypes
<1>5. ASSUME NEW i \in 1..n, NEW j \in 1..n, i # j PROVE A[i] \cap A[j] = {}
  <2>1. tiles[i].site # tiles[j].site
    BY <1>3, <1>5
  <2>2. \A k \in 1..n : \A a \in A[k] : SiteOf[a[1]] = tiles[k].site
    BY DEF AlertsAt
  <2> HIDE DEF A
  <2> QED
    BY <2>1, <2>2
<1>6. all = {a \in openAlerts : SiteOf[a[1]] \in {tiles[i].site : i \in 1..n} /\ a[2] = s}
  <2>1. \A i \in 1..n : A[i] = {a \in openAlerts : SiteOf[a[1]] = tiles[i].site /\ a[2] = s}
    BY DEF AlertsAt
  <2> HIDE DEF A, n
  <2> QED
    BY <2>1
<1> HIDE DEF sum, f, A, n, all
<1>7. IsFiniteSet(1..n)
  BY <1>3, FS_Interval
<1>8. Total(f, 1..n) = Cardinality(all)
  <2> DEFINE D == 1..n
  <2>1. \A i \in D : IsFiniteSet(A[i]) /\ f[i] = Cardinality(A[i])
    BY <1>4
  <2>2. \A i, j \in D : i # j => A[i] \cap A[j] = {}
    BY <1>5
  <2>3. IsFiniteSet(D) /\ all = UNION {A[i] : i \in D}
    BY <1>7 DEF all
  <2> HIDE DEF D
  <2>4. Total(f, D) = Cardinality(UNION {A[i] : i \in D})
    BY <2>1, <2>2, <2>3, TotalOfDisjoint
  <2> QED
    BY <2>3, <2>4 DEF D
<1> QED
  BY <1>1, <1>2, <1>3, <1>6, <1>8 DEF n

-----------------------------------------------------------------------------
(* The answer.                                                             *)

\* What QuietAnswerIsTrue says of one tile.
TileTells(t) ==
    /\ (t.status = "unhealthy") = HasUnhealthy(t.site)
    /\ (t.status = "healthy") = (DevicesOf(t.site) # {} /\ AllHealthy(t.site))
    /\ (t.status = "unknown") = (DevicesOf(t.site) = {})
    /\ \A s \in Severities :
         t.counts[s] = Cardinality({a \in openAlerts : SiteOf[a[1]] \in {t.site} /\ a[2] = s})
    /\ t.worst # NotThere =>
         t.worst \in {a \in openAlerts : SiteOf[a[1]] \in {t.site} /\ a[2] = t.worst[2]}
    /\ (t.online # {}) = (\E b \in t.boxes : lag[b] <= 2 * BoxInterval[b])
    /\ \A b \in EdgeBoxes : SiteOf[b] = t.site /\ lag[b] # NotThere =>
         \E c \in t.boxes : lag[c] <= lag[b]

LEMMA TrueTileTells ==
  ASSUME DataOK, NEW t, NEW what \in {"estate", "property"}, TileTrue(t, what)
  PROVE  TileTells(t)
<1>1. StatusTrue(t) /\ CountsTrue(t) /\ WorstTrue(t, what) /\ BoxesTrue(t)
  BY DEF TileTrue
<1>2. (t.online # {}) = (\E b \in t.boxes : lag[b] <= 2 * BoxInterval[b])
  <2>1. t.online = {b \in t.boxes : lag[b] <= 2 * BoxInterval[b]}
    BY <1>1, Zenon DEF BoxesTrue, IsOnline
  <2> QED
    BY <2>1
<1>3. \A b \in EdgeBoxes : SiteOf[b] = t.site /\ lag[b] # NotThere =>
         \E c \in t.boxes : lag[c] <= lag[b]
  BY <1>1, Zenon DEF BoxesTrue, BoxesOf
<1>4. ASSUME NEW s \in Severities
      PROVE  t.counts[s] = Cardinality({a \in openAlerts : SiteOf[a[1]] \in {t.site} /\ a[2] = s})
  <2>1. t.counts[s] = Cardinality({a \in AlertsAt(t.site) : a[2] = s})
    BY <1>1 DEF CountsTrue, CountBySeverity
  <2>2. {a \in AlertsAt(t.site) : a[2] = s}
           = {a \in openAlerts : SiteOf[a[1]] \in {t.site} /\ a[2] = s}
    BY DEF AlertsAt
  <2> QED
    BY <2>1, <2>2, Zenon
<1>5. ASSUME t.worst # NotThere
      PROVE  t.worst \in {a \in openAlerts : SiteOf[a[1]] \in {t.site} /\ a[2] = t.worst[2]}
  <2>1. t.worst \in WorstOpen(t.site)
    BY <1>1, <1>5 DEF WorstTrue
  <2> QED
    BY <2>1 DEF WorstOpen, AlertsAt
<1> QED
  BY <1>1, <1>2, <1>3, <1>4, <1>5, Zenon DEF TileTells, StatusTrue

LEMMA TellsKept ==
  ASSUME UNCHANGED dataVars
  PROVE  \A t : TileTells(t)' = TileTells(t)
<1>1. deviceHealth' = deviceHealth /\ lag' = lag /\ openAlerts' = openAlerts
  BY DEF dataVars
<1> SUFFICES ASSUME NEW t PROVE TileTells(t)' = TileTells(t)
  OBVIOUS
<1> QED
  BY <1>1 DEF TileTells, HasUnhealthy, AllHealthy, DevicesOf

\* What the answer is made of.
LEMMA RespondIs ==
  ASSUME ViewTypes, ReadSoFar, Respond
  PROVE  /\ view \in {"estate", "property"} /\ pending = <<>> /\ UNCHANGED dataVars
         /\ writes' = writes /\ response'.of = view /\ response'.sort = order
         /\ response'.tiles = Sorted(tiles, order) /\ response'.strip = KpiStrip(tiles)
         /\ SitesInOrder /\ \A i \in 1..Len(tiles) : TileSound(tiles[i])
<1>1. /\ view \in {"estate", "property"} /\ pending = <<>> /\ UNCHANGED dataVars
      /\ writes' = writes
      /\ response' = [of |-> view, sort |-> order, tiles |-> Sorted(tiles, order),
                      strip |-> KpiStrip(tiles)]
  BY DEF Respond, ViewTypes
<1>2. SitesInOrder /\ \A i \in 1..Len(tiles) : TileSound(tiles[i])
  BY <1>1 DEF ReadSoFar
<1> QED
  BY <1>1, <1>2

SitesIn(ts) == {ts[i].site : i \in DOMAIN ts}

\* The sites shown are those that were read.
LEMMA SameSites ==
  ASSUME NEW p, NEW ts, DOMAIN ts = 1..Len(ts), NEW sort, IsSorting(p, ts, sort)
  PROVE  /\ DOMAIN Sorted(ts, sort) = 1..Len(ts)
         /\ \A i \in 1..Len(ts) : p[i] \in 1..Len(ts) /\ Sorted(ts, sort)[i] = ts[p[i]]
         /\ SitesIn(Sorted(ts, sort)) = SitesIn(ts)
<1> DEFINE n == Len(ts)
           t == Sorted(ts, sort)
<1>1. /\ p \in [1..n -> 1..n] /\ t = [m \in 1..n |-> ts[p[m]]]
      /\ \A i \in 1..n : \E m \in 1..n : p[m] = i
  BY Zenon DEF IsSorting
<1> HIDE DEF n, t
<1>2. DOMAIN t = 1..n /\ \A i \in 1..n : p[i] \in 1..n /\ t[i] = ts[p[i]]
  BY <1>1
<1>3. ASSUME NEW i \in 1..n PROVE ts[i].site \in {t[m].site : m \in 1..n}
  <2>1. PICK m \in 1..n : p[m] = i
    BY <1>1
  <2> QED
    BY <1>2, <2>1
<1>4. ASSUME NEW i \in 1..n PROVE t[i].site \in {ts[m].site : m \in 1..n}
  BY <1>2
<1>5. {t[i].site : i \in 1..n} = {ts[i].site : i \in 1..n}
  BY <1>3, <1>4
<1>6. SitesIn(t) = SitesIn(ts)
  BY <1>2, <1>5 DEF SitesIn, n
<1> QED
  BY <1>2, <1>6 DEF n, t

\* The order of two tiles by their keys, in terms of what they show.
LEMMA KeysTell ==
  ASSUME NEW a \in ShownType, NEW b \in ShownType, NEW sort \in Orders,
         TileKey(a, sort) <= TileKey(b, sort)
  PROVE  \/ sort = "name_asc" /\ NameRank[a.site] <= NameRank[b.site]
         \/ /\ sort = "worst_first"
            /\ b.counts["p1"] > 0 => a.counts["p1"] > 0
            /\ (a.counts["p1"] > 0) = (b.counts["p1"] > 0) => a.score <= b.score
<1> DEFINE x == a.counts["p1"]
           y == b.counts["p1"]
           u == a.score
           v == b.score
<1>1. x \in Nat /\ y \in Nat /\ u \in 0..100 /\ v \in 0..100
  BY DEF ShownType, TileType, Severities
<1>2. CASE sort = "name_asc"
  BY <1>2 DEF TileKey
<1>3. CASE sort = "worst_first"
  <2>1. (IF x = 0 THEN 1000 + u ELSE u) <= (IF y = 0 THEN 1000 + v ELSE v)
    BY <1>3 DEF TileKey
  <2> HIDE DEF x, y, u, v
  <2>2. (y > 0 => x > 0) /\ ((x > 0) = (y > 0) => u <= v)
    BY <1>1, <2>1
  <2> QED
    BY <1>3, <2>2 DEF x, y, u, v
<1> QED
  BY <1>2, <1>3 DEF Orders

LEMMA RespondCoherent ==
  ASSUME ViewTypes, ReadSoFar, Respond PROVE AnswerIsCoherent'
<1>1. /\ view \in {"estate", "property"} /\ pending = <<>>
      /\ response'.of = view /\ response'.sort = order /\ response'.tiles = Sorted(tiles, order)
      /\ SitesInOrder /\ \A i \in 1..Len(tiles) : TileSound(tiles[i])
  BY RespondIs
<1> SUFFICES ASSUME view = "estate" PROVE AnswerIsCoherent'
  BY <1>1 DEF AnswerIsCoherent
<1>2. tiles \in Seq(ShownType) /\ order \in Orders
  BY DEF ViewTypes
<1>3. PICK p : IsSorting(p, tiles, order)
  BY <1>2, SortedIs
<1> DEFINE n == Len(tiles)
           t == Sorted(tiles, order)
<1>4. /\ DOMAIN t = 1..n /\ \A i \in 1..n : p[i] \in 1..n /\ t[i] = tiles[p[i]]
      /\ SitesIn(t) = SitesIn(tiles)
  BY <1>2, <1>3, SameSites, LenProperties
<1>5. /\ SitesIn(tiles) = Sites /\ n = Cardinality(Sites) /\ n \in Nat
  BY <1>1, SitesShown DEF SitesIn
<1>6. Len(t) = n
  <2>1. t \in Seq(ShownType)
    <3>1. \A i \in 1..n : t[i] \in ShownType
      BY <1>2, <1>4, ElementOfSeq
    <3>2. t = [m \in 1..n |-> tiles[p[m]]]
      BY <1>3, Zenon DEF IsSorting
    <3> HIDE DEF t, n
    <3>3. t = [m \in 1..n |-> t[m]]
      BY <3>2
    <3> QED
      BY <1>5, <3>1, <3>3
  <2> QED
    BY <1>4, <1>5, <2>1, LenProperties
<1>7. /\ p \in [1..n -> 1..n]
       /\ \A i, j \in 1..n : i < j => TileKey(tiles[p[i]], order) <= TileKey(tiles[p[j]], order)
  BY <1>3, Zenon DEF IsSorting
<1> HIDE DEF n, t
<1>8. ASSUME NEW i \in 1..n, t[i].began = t[i].ended PROVE WorstAgrees(t[i])
  <2>1. TileSound(tiles[p[i]])
    BY <1>1, <1>4 DEF n
  <2> QED
    BY <1>4, <1>8, <2>1 DEF TileSound
<1>9. ASSUME NEW i \in 1..n, NEW j \in 1..n, i < j
      PROVE  \/ order = "name_asc" /\ NameRank[t[i].site] <= NameRank[t[j].site]
             \/ /\ order = "worst_first"
                /\ t[j].counts["p1"] > 0 => t[i].counts["p1"] > 0
                /\ (t[i].counts["p1"] > 0) = (t[j].counts["p1"] > 0) => t[i].score <= t[j].score
  <2>1. t[i] \in ShownType /\ t[j] \in ShownType
    BY <1>2, <1>4, ElementOfSeq DEF n
  <2>2. TileKey(t[i], order) <= TileKey(t[j], order)
    BY <1>4, <1>7, <1>9
  <2> QED
    BY <1>2, <2>1, <2>2, KeysTell
<1>10. response'.tiles = t /\ response'.sort = order
  BY <1>1 DEF t
<1>11. \A x : WorstAgrees(x)' = WorstAgrees(x)
  BY DEF WorstAgrees
<1>12. /\ {t[i].site : i \in DOMAIN t} = Sites /\ Len(t) = Cardinality(Sites)
       /\ \A i \in DOMAIN t : t[i].began = t[i].ended => WorstAgrees(t[i])
       /\ \A i, j \in DOMAIN t : i < j =>
             \/ order = "name_asc" /\ NameRank[t[i].site] <= NameRank[t[j].site]
             \/ /\ order = "worst_first"
                /\ t[j].counts["p1"] > 0 => t[i].counts["p1"] > 0
                /\ (t[i].counts["p1"] > 0) = (t[j].counts["p1"] > 0) => t[i].score <= t[j].score
  BY <1>4, <1>5, <1>6, <1>8, <1>9 DEF SitesIn
<1>13. \A i \in DOMAIN t : t[i].began = t[i].ended => WorstAgrees(response.tiles[i])'
  BY <1>10, <1>12 DEF WorstAgrees
<1> QED
  BY <1>10, <1>12, <1>13, Zenon DEF AnswerIsCoherent

LEMMA RespondTrue ==
  ASSUME ViewTypes, ReadSoFar, Respond PROVE QuietAnswerIsTrue'
<1>1. /\ view \in {"estate", "property"} /\ pending = <<>> /\ UNCHANGED dataVars
      /\ writes' = writes /\ response'.tiles = Sorted(tiles, order)
      /\ response'.strip = KpiStrip(tiles)
      /\ SitesInOrder /\ \A i \in 1..Len(tiles) : TileSound(tiles[i])
  BY RespondIs
<1>2. tiles \in Seq(ShownType) /\ DataOK /\ writes \in Nat /\ openAlerts' = openAlerts
  BY <1>1 DEF ViewTypes, dataVars
<1>3. PICK p : IsSorting(p, tiles, order)
  BY <1>2, SortedIs
<1> DEFINE n == Len(tiles)
           t == Sorted(tiles, order)
           covered == SitesIn(t)
<1>4. /\ DOMAIN t = 1..n /\ \A i \in 1..n : p[i] \in 1..n /\ t[i] = tiles[p[i]]
      /\ covered = SitesIn(tiles)
  BY <1>2, <1>3, SameSites, LenProperties
<1>5. covered = {tiles[i].site : i \in 1..n}
  BY <1>2, <1>4, LenProperties DEF SitesIn
<1> HIDE DEF t, n, covered
<1>6. ASSUME NEW i \in DOMAIN t, t[i].began = writes PROVE TileTells(t[i])
  <2>1. t[i] = tiles[p[i]] /\ TileSound(tiles[p[i]])
    BY <1>1, <1>4 DEF n
  <2>2. TileTrue(t[i], view)
    BY <1>6, <2>1 DEF TileSound
  <2> QED
    BY <1>1, <1>2, <2>2, TrueTileTells
<1>7. ASSUME writes = 0, NEW s \in Severities
      PROVE  KpiStrip(tiles).alerts[s] =
               Cardinality({a \in openAlerts : SiteOf[a[1]] \in covered /\ a[2] = s})
  <2>1. ASSUME NEW i \in 1..Len(tiles) PROVE CountsTrue(tiles[i])
    <3>1. /\ tiles[i] \in TileType /\ TileSound(tiles[i])
          /\ tiles[i].began <= tiles[i].ended /\ tiles[i].ended <= writes
      BY <1>1, <1>2, ElementOfSeq DEF ViewTypes, ShownType
    <3>2. tiles[i].began \in Nat /\ tiles[i].ended \in Nat
      BY <3>1 DEF TileType
    <3>3. tiles[i].began = writes
      BY <1>7, <3>1, <3>2
    <3> QED
      BY <3>1, <3>3 DEF TileSound, TileTrue
  <2> QED
    BY <1>1, <1>5, <2>1, StripCounts DEF n
<1>8. response'.tiles = t /\ response'.strip = KpiStrip(tiles) /\ writes' = writes
  BY <1>1 DEF t
<1>9. \A i \in DOMAIN response'.tiles :
         response'.tiles[i].began = writes' => TileTells(response.tiles[i])'
  BY <1>1, <1>6, <1>8, TellsKept
<1>10. covered = {response'.tiles[i].site : i \in DOMAIN response'.tiles}
  BY <1>8 DEF covered, SitesIn
<1>11. writes' = 0 => \A s \in Severities :
          response'.strip.alerts[s] =
            Cardinality({a \in openAlerts' : SiteOf[a[1]] \in covered /\ a[2] = s})
  BY <1>2, <1>7, <1>8
<1> QED
  BY <1>9, <1>10, <1>11, Zenon DEF QuietAnswerIsTrue, TileTells

\* The inductive step of both properties.
EstateInv == ViewTypes /\ ReadSoFar /\ QuietAnswerIsTrue /\ AnswerIsCoherent

LEMMA EstateStep == EstateInv /\ [EstateNext]_estateVars => EstateInv'
<1> SUFFICES ASSUME EstateInv, [EstateNext]_estateVars PROVE EstateInv'
  OBVIOUS
<1>1. ViewTypes /\ ReadSoFar /\ QuietAnswerIsTrue /\ AnswerIsCoherent
  BY DEF EstateInv
<1>2. ASSUME response' = response PROVE AnswerIsCoherent'
  <2>1. \A t : WorstAgrees(t)' = WorstAgrees(t)
    BY DEF WorstAgrees
  <2> QED
    BY <1>1, <1>2, <2>1 DEF AnswerIsCoherent
<1>3. ASSUME UNCHANGED <<dataVars, response, writes>> PROVE QuietAnswerIsTrue'
  <2>1. /\ openAlerts' = openAlerts /\ response' = response /\ writes' = writes
    BY <1>3 DEF dataVars
  <2> SUFFICES ASSUME response # NotThere PROVE QuietAnswerIsTrue'
    BY <2>1 DEF QuietAnswerIsTrue
  <2> DEFINE covered == {response.tiles[i].site : i \in DOMAIN response.tiles}
  <2>2. /\ writes = 0 => \A s \in Severities : response.strip.alerts[s] =
             Cardinality({a \in openAlerts : SiteOf[a[1]] \in covered /\ a[2] = s})
        /\ \A i \in DOMAIN response.tiles :
             response.tiles[i].began = writes => TileTells(response.tiles[i])
    BY <1>1, Zenon DEF QuietAnswerIsTrue, TileTells
  <2>3. covered' = covered
    BY <2>1
  <2> HIDE DEF covered
  <2>4. /\ writes' = 0 => \A s \in Severities : response'.strip.alerts[s] =
             Cardinality({a \in openAlerts' : SiteOf[a[1]] \in covered' /\ a[2] = s})
        /\ \A i \in DOMAIN response'.tiles :
             response'.tiles[i].began = writes' => TileTells(response.tiles[i])'
    BY <1>3, <2>1, <2>2, <2>3, TellsKept
  <2> QED
    BY <2>4, Zenon DEF QuietAnswerIsTrue, TileTells, covered
<1>4. CASE \/ \E d \in SiteDevices, report \in Reports : HealthReport(d, report)
           \/ \E b \in EdgeBoxes : Heartbeat(b)
           \/ \E d \in SiteDevices, report \in Reports, n \in AlertRows :
                report.status # "healthy" /\ Reopen(<<d, SeverityFor(report.status), n>>)
  <2>1. /\ \/ \E d \in SiteDevices, report \in Reports : HealthReport(d, report)
           \/ \E b \in EdgeBoxes : Heartbeat(b)
           \/ \E d \in SiteDevices, report \in Reports, n \in AlertRows :
                Reopen(<<d, SeverityFor(report.status), n>>)
    BY <1>4, Zenon
  <2>2. ViewTypes' /\ writes' = writes + 1 /\ UNCHANGED requestVars
    BY <1>1, <2>1, WritersFit
  <2>3. view # "none"
    BY <2>1, Zenon DEF HealthReport, Heartbeat, Reopen, Committed
  <2>4. ReadSoFar'
    BY <1>1, <2>2, WritersOn
  <2>5. response' = response /\ response = NotThere
    BY <1>1, <2>2, <2>3 DEF requestVars, ViewTypes
  <2> QED
    BY <1>2, <2>2, <2>4, <2>5 DEF EstateInv, QuietAnswerIsTrue
<1>5. ASSUME NEW what, NEW sites, NEW sort, Ask(what, sites, sort)
      PROVE QuietAnswerIsTrue' /\ AnswerIsCoherent'
  <2>1. response' = NotThere
    BY <1>5, Zenon DEF Ask
  <2> QED
    BY <2>1 DEF QuietAnswerIsTrue, AnswerIsCoherent
<1>6. ASSUME NEW sort \in Orders, Ask("estate", SitesByName, sort) PROVE EstateInv'
  BY <1>1, <1>5, <1>6, AskFits, AskBegins, SitesAssumption DEF EstateInv
<1>7. ASSUME NEW site \in Sites, Ask("property", <<site>>, "worst_first") PROVE EstateInv'
  <2>1. <<site>> \in Seq(Sites) /\ "worst_first" \in Orders
    BY DEF Orders
  <2>2. ViewTypes' /\ ReadSoFar'
    BY <1>1, <1>7, <2>1, AskFits, AskBegins
  <2> QED
    BY <1>5, <1>7, <2>2 DEF EstateInv
<1>8. CASE ReadDevices \/ CountAlerts \/ ReadWorst \/ ReadBoxes
  <2>1. ViewTypes' /\ UNCHANGED <<dataVars, response, writes>>
    BY <1>1, <1>8, ReadersFit
  <2>2. ReadSoFar'
    BY <1>1, <1>8, ReadDevicesOn, CountAlertsOn, ReadWorstOn, ReadBoxesOn
  <2> QED
    BY <1>2, <1>3, <2>1, <2>2 DEF EstateInv
<1>9. CASE Respond
  <2>1. view' = "none"
    BY <1>9, Zenon DEF Respond
  <2> QED
    BY <1>1, <1>9, <2>1, RespondFits, RespondTrue, RespondCoherent DEF ReadSoFar, EstateInv
<1>10. CASE UNCHANGED estateVars
  <2>1. /\ UNCHANGED <<dataVars, response, writes>>
        /\ UNCHANGED <<view, order, stage, pending, draft, tiles>>
    BY <1>10 DEF estateVars, requestVars
  <2>2. ViewTypes'
    BY <1>1, <2>1 DEF ViewTypes, DataOK, dataVars
  <2>3. ReadSoFar'
    BY <1>1, <2>1, DataKept DEF ReadSoFar, SitesInOrder, DraftPlaced, DraftTrue
  <2> QED
    BY <1>2, <1>3, <2>1, <2>2, <2>3 DEF EstateInv
<1> QED
  BY <1>4, <1>6, <1>7, <1>8, <1>9, <1>10, Zenon DEF EstateNext

LEMMA EstateBegins == EstateInit => EstateInv
<1>1. EstateInit => view = "none" /\ response = NotThere
  BY DEF EstateInit
<1> QED
  BY <1>1, ViewTypesInit DEF EstateInv, ReadSoFar, QuietAnswerIsTrue, AnswerIsCoherent

\* Whatever is committed between two queries of get_estate(), the answer shows
\* every site once, in the order asked for; and a tile between whose own queries
\* nothing was committed names an alert as bad as any it counts.
THEOREM AnswerCoherent == EstateSpec => []AnswerIsCoherent
<1>1. EstateInv => AnswerIsCoherent
  BY DEF EstateInv
<1> QED
  BY <1>1, EstateBegins, EstateStep, PTL DEF EstateSpec

\* What get_estate() or get_property() shows of a site is one picture of the
\* database, unless something was committed since the site's first query: its
\* status, the numbers of its open alerts, the alert named and its boxes.
THEOREM QuietAnswerTrue == EstateSpec => []QuietAnswerIsTrue
<1>1. EstateInv => QuietAnswerIsTrue
  BY DEF EstateInv
<1> QED
  BY <1>1, EstateBegins, EstateStep, PTL DEF EstateSpec
=============================================================================
