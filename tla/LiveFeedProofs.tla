--------------------------- MODULE LiveFeedProofs ---------------------------
(***************************************************************************)
(* Proofs about LiveFeed, for every number of writers, viewers, rows per    *)
(* answer and faults: an answer repeats nothing, and what a viewer lacks    *)
(* before its cursor came to light too late.                                *)
(***************************************************************************)
EXTENDS LiveFeed, FiniteSetTheorems, TLAPS

\* The cursor is the last row shown, and there is one from the first row on.
PlaceKnown(v) ==
    /\ from[v] = 0 <=> cursor[v] = 0
    /\ cursor[v] # 0 => cursor[v] \in shown[v]
    /\ \A k \in shown[v] : k <= cursor[v]

\* An answer holds committed rows beyond the cursor.
AnswerAhead(v) == \A k \in answer[v] : k \in rows /\ cursor[v] < k

\* An answer leaves no gap after the cursor, or among its own rows without one.
AnswerWhole(v) ==
    \A k \in rows, j \in answer[v] :
        /\ k < j
        /\ IF cursor[v] = 0 THEN \E i \in answer[v] : i < k ELSE cursor[v] < k
        => k \in answer[v] \cup late[v]

LocalInv == \A v \in Viewers : PlaceKnown(v) /\ AnswerAhead(v) /\ AnswerWhole(v)

\* The inductive strengthening of both promises.
IInv == TypeOK /\ LocalInv /\ MissedOnlyIfLate

-----------------------------------------------------------------------------
\* Rows are numbered from 1, in ticks, within bounds.
LEMMA KeysAreNumbers ==
    /\ \A k \in Keys : k \in Nat /\ k > 0
    /\ \A t \in 0..MaxTick : RowsOf(t) \subseteq Keys
    /\ IsFiniteSet(Keys)
<1>1. /\ MaxTick \in Nat
      /\ IdsPerTick \in Nat
      /\ MaxTick * IdsPerTick \in Nat
  BY FeedAssumption
<1>2. \A k \in Keys : k \in Nat /\ k > 0
  BY <1>1 DEF Keys
<1>3. ASSUME NEW t \in 0..MaxTick PROVE RowsOf(t) \subseteq Keys
  <2>1. /\ t * IdsPerTick \in Nat
        /\ t * IdsPerTick <= MaxTick * IdsPerTick
    <3>1. PICK d \in Nat : MaxTick = t + d
      BY <1>1
    <3>2. /\ MaxTick * IdsPerTick = t * IdsPerTick + d * IdsPerTick
          /\ t * IdsPerTick \in Nat
          /\ d * IdsPerTick \in Nat
      BY <3>1, <1>1
    <3> QED
      BY <3>2, <1>1
  <2> QED
    BY <2>1, <1>1 DEF RowsOf, Keys
<1>4. IsFiniteSet(Keys)
  <2>1. IsFiniteSet(1..(MaxTick * IdsPerTick + IdsPerTick))
    BY FS_Interval, <1>1
  <2> QED
    BY <2>1 DEF Keys
<1> QED
  BY <1>2, <1>3, <1>4

\* With a row among the oldest, so is every earlier one.
LEMMA OldestIsAPrefix ==
    ASSUME NEW S \in SUBSET Keys,
           NEW j \in Oldest(S), NEW k \in S, k < j
    PROVE  k \in Oldest(S)
<1> DEFINE below(x) == {i \in S : i < x}
<1>1. j \in S /\ Cardinality(below(j)) < Limit
  BY DEF Oldest
<1>2. below(k) \in SUBSET below(j)
  BY <1>1, KeysAreNumbers
<1>3. IsFiniteSet(S) /\ IsFiniteSet(below(j))
  <2>1. below(j) \in SUBSET Keys /\ S \in SUBSET Keys
    OBVIOUS
  <2> HIDE DEF below
  <2> QED
    BY <2>1, KeysAreNumbers, FS_Subset
<1>4. Cardinality(below(k)) <= Cardinality(below(j)) /\ IsFiniteSet(below(k))
  <2> HIDE DEF below
  <2> QED
    BY <1>2, <1>3, FS_Subset
<1>5. Cardinality(below(k)) \in Nat /\ Cardinality(below(j)) \in Nat
  <2> HIDE DEF below
  <2> QED
    BY <1>3, <1>4, FS_CardinalityType
<1>6. Cardinality(below(k)) < Limit
  <2> HIDE DEF below
  <2> QED
    BY <1>1, <1>4, <1>5, FeedAssumption
<1> QED
  BY <1>6 DEF Oldest

\* With a row among the newest, so is every later one.
LEMMA NewestIsASuffix ==
    ASSUME NEW S \in SUBSET Keys,
           NEW i \in Newest(S), NEW k \in S, i < k
    PROVE  k \in Newest(S)
<1> DEFINE above(x) == {j \in S : x < j}
<1>1. i \in S /\ Cardinality(above(i)) < Limit
  BY DEF Newest
<1>2. above(k) \in SUBSET above(i)
  BY <1>1, KeysAreNumbers
<1>3. IsFiniteSet(above(i))
  <2>1. above(i) \in SUBSET Keys
    OBVIOUS
  <2> HIDE DEF above
  <2> QED
    BY <2>1, KeysAreNumbers, FS_Subset
<1>4. Cardinality(above(k)) <= Cardinality(above(i)) /\ IsFiniteSet(above(k))
  <2> HIDE DEF above
  <2> QED
    BY <1>2, <1>3, FS_Subset
<1>5. Cardinality(above(k)) \in Nat /\ Cardinality(above(i)) \in Nat
  <2> HIDE DEF above
  <2> QED
    BY <1>3, <1>4, FS_CardinalityType
<1>6. Cardinality(above(k)) < Limit
  <2> HIDE DEF above
  <2> QED
    BY <1>1, <1>4, <1>5, FeedAssumption
<1> QED
  BY <1>6 DEF Newest

\* What one poll reads: committed rows beyond the cursor, without a gap.
LEMMA ReadIsWhole ==
    ASSUME TypeOK, NEW v \in Viewers
    PROVE  /\ \A k \in Read(v) : k \in rows /\ cursor[v] < k
           /\ \A k \in rows, j \in Read(v) :
                /\ k < j
                /\ IF cursor[v] = 0 THEN \E i \in Read(v) : i < k ELSE cursor[v] < k
                => k \in Read(v)
<1> DEFINE ahead == {k \in rows : cursor[v] < k}
<1>1. rows \in SUBSET Keys /\ ahead \in SUBSET Keys
  BY DEF TypeOK
<1>2. CASE cursor[v] = 0
  <2>1. Read(v) = Newest(rows)
    BY <1>2 DEF Read
  <2>2. \A k \in Newest(rows) : k \in rows /\ cursor[v] < k
    BY <1>1, <1>2, KeysAreNumbers DEF Newest
  <2>3. \A k \in rows : (\E i \in Newest(rows) : i < k) => k \in Newest(rows)
    BY <1>1, NewestIsASuffix
  <2> QED
    BY <2>1, <2>2, <2>3, <1>2
<1>3. CASE cursor[v] # 0
  <2>1. Read(v) = Oldest(ahead)
    BY <1>3 DEF Read
  <2>2. \A k \in Oldest(ahead) : k \in ahead
    BY DEF Oldest
  <2>3. \A k \in ahead : (\E j \in Oldest(ahead) : k < j) => k \in Oldest(ahead)
    <3> HIDE DEF ahead
    <3> QED
      BY <1>1, OldestIsAPrefix
  <2> QED
    BY <2>1, <2>2, <2>3, <1>3
<1> QED
  BY <1>2, <1>3

-----------------------------------------------------------------------------
LEMMA TypeInit == Init => TypeOK
  BY FeedAssumption DEF Init, TypeOK

LEMMA ReadType ==
    ASSUME TypeOK, NEW v \in Viewers
    PROVE  Read(v) \in SUBSET Keys
<1>1. rows \in SUBSET Keys
  BY DEF TypeOK
<1> QED
  BY <1>1 DEF Read, Newest, Oldest

LEMMA TypeNext == TypeOK /\ [Next]_vars => TypeOK'
<1> SUFFICES ASSUME TypeOK, [Next]_vars PROVE TypeOK'
  OBVIOUS
<1>1. CASE Tick
  BY <1>1, FeedAssumption DEF Tick, TypeOK, viewing
<1>2. ASSUME NEW w \in Writers, Stamp(w) PROVE TypeOK'
  <2>1. PICK k \in RowsOf(tick) : stamped' = [stamped EXCEPT ![w] = k]
    BY <1>2 DEF Stamp
  <2>2. k \in Keys
    BY <2>1, KeysAreNumbers DEF TypeOK
  <2>3. stamped' \in [Writers -> Keys \cup {0}]
    BY <2>1, <2>2 DEF TypeOK
  <2> QED
    BY <1>2, <2>3 DEF Stamp, TypeOK, viewing
<1>3. ASSUME NEW w \in Writers, Commit(w) PROVE TypeOK'
  <2>1. stamped[w] \in Keys
    BY <1>3 DEF Commit, TypeOK
  <2>2. rows' \in SUBSET Keys /\ stamped' \in [Writers -> Keys \cup {0}]
    BY <1>3, <2>1 DEF Commit, TypeOK
  <2>3. \A v \in Viewers :
            late[v] \cup {k \in {stamped[w]} : Behind(v, k)} \in SUBSET Keys
    BY <2>1 DEF TypeOK
  <2>4. late' \in [Viewers -> SUBSET Keys]
    BY <1>3, <2>3 DEF Commit
  <2> QED
    BY <1>3, <2>2, <2>4 DEF Commit, TypeOK, viewing
<1>4. ASSUME NEW v \in Viewers, ReadRows(v) PROVE TypeOK'
  <2>1. answer' \in [Viewers -> SUBSET Keys]
    BY <1>4, ReadType DEF ReadRows, TypeOK
  <2>2. faults' \in 0..MaxFaults
    BY <1>4, FeedAssumption DEF ReadRows, Fault, TypeOK
  <2>3. pc' \in [Viewers -> {"idle", "window", "reply"}]
    BY <1>4 DEF ReadRows, TypeOK
  <2> QED
    BY <1>4, <2>1, <2>2, <2>3 DEF ReadRows, TypeOK
<1>5. ASSUME NEW v \in Viewers, ReadWindow(v) PROVE TypeOK'
  <2>1. answer' \in [Viewers -> SUBSET Keys] /\ invented' \in SUBSET Viewers
    BY <1>5 DEF ReadWindow, TypeOK
  <2>2. faults' \in 0..MaxFaults
    BY <1>5, FeedAssumption DEF ReadWindow, Fault, TypeOK
  <2>3. pc' \in [Viewers -> {"idle", "window", "reply"}]
    BY <1>5 DEF ReadWindow, TypeOK
  <2> QED
    BY <1>5, <2>1, <2>2, <2>3 DEF ReadWindow, TypeOK
<1>6. ASSUME NEW v \in Viewers, Receive(v) PROVE TypeOK'
  <2>1. answer[v] \in SUBSET Keys
    BY DEF TypeOK
  <2>2. shown' \in [Viewers -> SUBSET Keys] /\ answer' \in [Viewers -> SUBSET Keys]
    BY <1>6, <2>1 DEF Receive, TypeOK
  <2>3. cursor' \in [Viewers -> Keys \cup {0}] /\ from' \in [Viewers -> Keys \cup {0}]
    BY <1>6, <2>1 DEF Receive, KeepPlace, MovePlace, CursorAt, TypeOK
  <2>4. pc' \in [Viewers -> {"idle", "window", "reply"}]
    BY <1>6 DEF Receive, TypeOK
  <2> QED
    BY <1>6, <2>2, <2>3, <2>4 DEF Receive, TypeOK
<1>7. ASSUME NEW v \in Viewers, LoseAnswer(v) PROVE TypeOK'
  <2>1. faults' \in 0..MaxFaults
    BY <1>7, FeedAssumption DEF LoseAnswer, Fault, TypeOK
  <2> QED
    BY <1>7, <2>1 DEF LoseAnswer, TypeOK
<1>8. CASE UNCHANGED vars
  BY <1>8 DEF vars, viewing, TypeOK
<1> QED
  BY <1>1, <1>2, <1>3, <1>4, <1>5, <1>6, <1>7, <1>8 DEF Next, View

\* Every variable keeps its type in any instance.
THEOREM TypeCorrect == Spec => []TypeOK
  BY TypeInit, TypeNext, PTL DEF Spec

-----------------------------------------------------------------------------
\* What is true of one viewer.
Reads(v) ==
    /\ PlaceKnown(v) /\ AnswerAhead(v) /\ AnswerWhole(v)
    /\ \A k \in rows : from[v] <= k /\ k <= cursor[v] => k \in shown[v] \cup late[v]

LEMMA ReadsIsIInv == IInv <=> TypeOK /\ \A v \in Viewers : Reads(v)
  BY DEF IInv, LocalInv, MissedOnlyIfLate, Reads

\* A viewer that stands still, with the table and what is late unchanged.
LEMMA ViewerKept ==
    ASSUME NEW v \in Viewers, Reads(v),
           cursor'[v] = cursor[v], shown'[v] = shown[v], from'[v] = from[v],
           answer'[v] = answer[v] \/ answer'[v] = {},
           rows' = rows, late' = late
    PROVE  Reads(v)'
<1>1. PlaceKnown(v)'
  BY DEF Reads, PlaceKnown
<1>2. AnswerAhead(v)'
  BY DEF Reads, AnswerAhead
<1>3. AnswerWhole(v)'
  BY DEF Reads, AnswerWhole
<1> QED
  BY <1>1, <1>2, <1>3 DEF Reads

\* A commit behind what a viewer has read is late, any other is still ahead.
LEMMA CommitKept ==
    ASSUME TypeOK, NEW w \in Writers, Commit(w), NEW v \in Viewers, Reads(v)
    PROVE  Reads(v)'
<1> DEFINE new == stamped[w]
<1>1. /\ rows' = rows \cup {new}
      /\ late'[v] = late[v] \cup {k \in {new} : Behind(v, k)}
      /\ cursor'[v] = cursor[v] /\ shown'[v] = shown[v]
      /\ from'[v] = from[v] /\ answer'[v] = answer[v]
  BY DEF Commit, viewing
<1>2. new \in Nat /\ cursor[v] \in Nat
  BY KeysAreNumbers DEF Commit, TypeOK
<1>3. new < cursor[v] => new \in late'[v]
  BY <1>1 DEF Behind
<1>4. (\E j \in answer[v] : new < j) => new \in late'[v]
  BY <1>1 DEF Behind
<1>5. PlaceKnown(v)'
  BY <1>1 DEF Reads, PlaceKnown
<1>6. AnswerAhead(v)'
  BY <1>1 DEF Reads, AnswerAhead
<1>7. AnswerWhole(v)'
  <2> SUFFICES ASSUME NEW k \in rows', NEW j \in answer[v], k < j,
                      IF cursor[v] = 0 THEN \E i \in answer[v] : i < k ELSE cursor[v] < k
               PROVE  k \in answer[v] \cup late'[v]
    BY <1>1 DEF AnswerWhole
  <2>1. CASE k \in rows
    BY <2>1, <1>1 DEF Reads, AnswerWhole
  <2>2. CASE k = new
    BY <2>2, <1>4
  <2> QED
    BY <2>1, <2>2, <1>1
<1>8. ASSUME NEW k \in rows', from[v] <= k, k <= cursor[v]
      PROVE  k \in shown[v] \cup late'[v]
  <2>1. CASE k \in rows
    BY <2>1, <1>1, <1>8 DEF Reads
  <2>2. CASE k = new /\ k = cursor[v]
    BY <2>2, KeysAreNumbers DEF Reads, PlaceKnown, Commit
  <2>3. CASE k = new /\ k # cursor[v]
    BY <2>3, <1>2, <1>3, <1>8
  <2> QED
    BY <2>1, <2>2, <2>3, <1>1
<1> QED
  BY <1>1, <1>5, <1>6, <1>7, <1>8 DEF Reads

\* The answer that arrives is what the cursor passes.
LEMMA ReceiveKept ==
    ASSUME TypeOK, NEW v \in Viewers, Receive(v), Reads(v)
    PROVE  Reads(v)'
<1>1. /\ shown'[v] = shown[v] \cup answer[v]
      /\ answer'[v] = {}
      /\ rows' = rows /\ late' = late
  BY DEF Receive, TypeOK
<1>2. AnswerAhead(v)' /\ AnswerWhole(v)'
  BY <1>1 DEF AnswerAhead, AnswerWhole
<1>3. CASE KeepPlace(v)
  <2>1. shown'[v] = shown[v] /\ cursor' = cursor /\ from' = from
    BY <1>1, <1>3 DEF KeepPlace
  <2>2. PlaceKnown(v)'
    BY <2>1 DEF Reads, PlaceKnown
  <2> QED
    BY <1>1, <1>2, <2>1, <2>2 DEF Reads
<1>4. CASE MovePlace(v)
  <2>1. PICK first, last \in answer[v] :
            /\ IsFirst(first, answer[v]) /\ IsLast(last, answer[v])
            /\ cursor'[v] = last
            /\ from'[v] = IF cursor[v] = 0 THEN first ELSE from[v]
    BY <1>4 DEF MovePlace, CursorAt, TypeOK
  <2>2. \A k \in answer[v] : k \in Nat /\ k > 0 /\ first <= k /\ k <= last
    BY <2>1, KeysAreNumbers DEF IsFirst, IsLast, TypeOK
  <2>3. \A k \in shown[v] : k \in Nat /\ k <= cursor[v]
    BY KeysAreNumbers DEF Reads, PlaceKnown, TypeOK
  <2>4. cursor[v] < last /\ cursor[v] \in Nat /\ from[v] \in Nat
    BY KeysAreNumbers DEF Reads, AnswerAhead, TypeOK
  <2>5. PlaceKnown(v)'
    BY <1>1, <2>1, <2>2, <2>3, <2>4 DEF Reads, PlaceKnown
  <2>6. ASSUME NEW k \in rows, from'[v] <= k, k <= last
        PROVE  k \in shown[v] \cup answer[v] \cup late[v]
    <3>1. k \in Nat /\ k > 0
      BY KeysAreNumbers DEF TypeOK
    <3>2. CASE k = first \/ k = last
      BY <3>2
    <3>3. CASE cursor[v] = 0 /\ first < k /\ k < last
      BY <3>3 DEF Reads, AnswerWhole
    <3>4. CASE cursor[v] # 0 /\ k <= cursor[v]
      BY <3>4, <2>1, <2>6 DEF Reads
    <3>5. CASE cursor[v] # 0 /\ cursor[v] < k /\ k < last
      BY <3>5 DEF Reads, AnswerWhole
    <3> QED
      BY <3>1, <3>2, <3>3, <3>4, <3>5, <2>1, <2>2, <2>4, <2>6
  <2> QED
    BY <1>1, <1>2, <2>1, <2>5, <2>6 DEF Reads
<1> QED
  BY <1>3, <1>4 DEF Receive

LEMMA ReadsInit == Init => IInv
<1> SUFFICES ASSUME Init PROVE IInv
  OBVIOUS
<1>1. ASSUME NEW v \in Viewers PROVE Reads(v)
  BY DEF Init, Reads, PlaceKnown, AnswerAhead, AnswerWhole
<1> QED
  BY <1>1, TypeInit, ReadsIsIInv

LEMMA ReadsNext == IInv /\ [Next]_vars => IInv'
<1> SUFFICES ASSUME IInv, [Next]_vars PROVE IInv'
  OBVIOUS
<1>1. TypeOK /\ TypeOK' /\ \A v \in Viewers : Reads(v)
  BY TypeNext, ReadsIsIInv
<1> SUFFICES ASSUME NEW v \in Viewers PROVE Reads(v)'
  BY <1>1 DEF IInv, LocalInv, MissedOnlyIfLate, Reads
<1>2. Reads(v)
  BY <1>1
<1>3. CASE Tick
  BY <1>2, <1>3, ViewerKept DEF Tick, viewing
<1>4. ASSUME NEW w \in Writers, Stamp(w) PROVE Reads(v)'
  BY <1>2, <1>4, ViewerKept DEF Stamp, viewing
<1>5. ASSUME NEW w \in Writers, Commit(w) PROVE Reads(v)'
  BY <1>1, <1>2, <1>5, CommitKept
<1>6. ASSUME NEW u \in Viewers, ReadRows(u) PROVE Reads(v)'
  <2>1. CASE answer'[v] = answer[v] \/ answer'[v] = {}
    BY <1>2, <1>6, <2>1, ViewerKept DEF ReadRows
  <2>2. CASE u = v /\ answer'[v] = Read(v)
    <3>1. /\ cursor' = cursor /\ shown' = shown /\ from' = from
          /\ rows' = rows /\ late' = late
      BY <1>6 DEF ReadRows
    <3>2. PlaceKnown(v)'
      BY <1>2, <3>1 DEF Reads, PlaceKnown
    <3>3. AnswerAhead(v)' /\ AnswerWhole(v)'
      BY <1>1, <2>2, <3>1, ReadIsWhole DEF AnswerAhead, AnswerWhole
    <3> QED
      BY <1>2, <3>1, <3>2, <3>3 DEF Reads
  <2> QED
    BY <1>1, <1>6, <2>1, <2>2 DEF ReadRows, TypeOK
<1>7. ASSUME NEW u \in Viewers, ReadWindow(u) PROVE Reads(v)'
  <2>1. answer'[v] = answer[v] \/ answer'[v] = {}
    BY <1>1, <1>7 DEF ReadWindow, TypeOK
  <2> QED
    BY <1>2, <1>7, <2>1, ViewerKept DEF ReadWindow
<1>8. ASSUME NEW u \in Viewers, Receive(u) PROVE Reads(v)'
  <2>1. CASE u = v
    BY <1>1, <1>2, <1>8, <2>1, ReceiveKept
  <2>2. CASE u # v
    <3>1. /\ cursor'[v] = cursor[v] /\ from'[v] = from[v]
          /\ shown'[v] = shown[v] /\ answer'[v] = answer[v]
      BY <1>1, <1>8, <2>2 DEF Receive, KeepPlace, MovePlace, TypeOK
    <3> QED
      BY <1>2, <1>8, <3>1, ViewerKept DEF Receive
  <2> QED
    BY <2>1, <2>2
<1>9. ASSUME NEW u \in Viewers, LoseAnswer(u) PROVE Reads(v)'
  <2>1. answer'[v] = answer[v] \/ answer'[v] = {}
    BY <1>1, <1>9 DEF LoseAnswer, TypeOK
  <2> QED
    BY <1>2, <1>9, <2>1, ViewerKept DEF LoseAnswer
<1>10. CASE UNCHANGED vars
  BY <1>2, <1>10, ViewerKept DEF vars, viewing
<1> QED
  BY <1>3, <1>4, <1>5, <1>6, <1>7, <1>8, <1>9, <1>10 DEF Next, View

-----------------------------------------------------------------------------
\* Whatever fails, and however many write at once, an answer of the live feed
\* never holds a row that the viewer already has.
THEOREM NeverRepeats == Spec => []NothingRepeated
<1>1. IInv => NothingRepeated
  <2> SUFFICES ASSUME IInv, NEW v \in Viewers, NEW k \in answer[v], k \in shown[v]
               PROVE  FALSE
    BY DEF NothingRepeated
  <2>1. cursor[v] < k /\ k <= cursor[v]
    BY DEF IInv, LocalInv, AnswerAhead, PlaceKnown
  <2>2. k \in Nat /\ cursor[v] \in Nat
    BY KeysAreNumbers DEF IInv, TypeOK
  <2> QED
    BY <2>1, <2>2
<1> QED
  BY <1>1, ReadsInit, ReadsNext, PTL DEF Spec

\* Between the first row a viewer got and its cursor nothing is missing but
\* what committed after the viewer had read past it.
THEOREM MissesOnlyLate == Spec => []MissedOnlyIfLate
<1>1. IInv => MissedOnlyIfLate
  BY DEF IInv
<1> QED
  BY <1>1, ReadsInit, ReadsNext, PTL DEF Spec
=============================================================================
