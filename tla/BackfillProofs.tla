--------------------------- MODULE BackfillProofs ---------------------------
(***************************************************************************)
(* Proofs about Backfill, for every number of invocations, page size and   *)
(* bound: what the cursor has passed is covered, and so is what a finished  *)
(* walk calls complete.                                                     *)
(***************************************************************************)
EXTENDS Backfill, TLAPS

Covered == held \cup lost

\* What an invocation knows of the walk at each point of its step.
Knows(i) ==
    /\ seen[i] \subseteq Covered
    /\ Reached(page[i] * PageSize) \subseteq Covered
    /\ pc[i] = "store" =>
        /\ Reached((page[i] + 1) * PageSize) \subseteq Covered \cup records[i]
        /\ ~more[i] => (1..base) \subseteq Covered \cup records[i]
    /\ pc[i] = "advance" =>
        /\ Reached((page[i] + 1) * PageSize) \subseteq Covered
        /\ ~more[i] => (1..base) \subseteq Covered
    /\ pc[i] = "finish" => (1..base) \subseteq Covered

LocalInv == \A i \in Invocations : Knows(i)

\* The inductive strengthening of both promises.
IInv == TypeOK /\ WalkCovers /\ DoneMeansCovered /\ LocalInv

-----------------------------------------------------------------------------
\* Positions are counted page by page.
LEMMA PageStep ==
    ASSUME NEW k \in Nat
    PROVE  /\ k * PageSize \in Nat
           /\ (k + 1) * PageSize = k * PageSize + PageSize
  BY PageSizeAssumption

\* A fetched page continues what the pages before it reached; an empty one
\* shows that they reached everything, and so does an answer of hasMore FALSE.
LEMMA PageReaches ==
    ASSUME TypeOK, NEW k \in Nat
    PROVE  /\ Page(k, feed) \in SUBSET (1..feed)
           /\ Reached((k + 1) * PageSize)
                \subseteq Reached(k * PageSize) \cup Page(k, feed)
           /\ Page(k, feed) = {} => (1..base) \subseteq Reached(k * PageSize)
           /\ FALSE \in HasMore(k, feed) =>
                (1..base) \subseteq Reached(k * PageSize) \cup Page(k, feed)
<1> DEFINE first == k * PageSize
<1>1. /\ first \in Nat
      /\ (k + 1) * PageSize = first + PageSize
      /\ PageSize \in Nat \ {0}
  BY PageStep, PageSizeAssumption
<1>2. /\ feed \in Nat
      /\ base \in 0..feed
  BY DEF TypeOK
<1>3. \A r \in 1..base : r \in 1..feed /\ feed - r \in Nat
  BY <1>2
<1>4. Page(k, feed) = {r \in 1..feed : first <= feed - r /\ feed - r < first + PageSize}
  BY <1>1 DEF Page
<1>5. Reached((k + 1) * PageSize) = {r \in 1..base : feed - r < first + PageSize}
  BY <1>1 DEF Reached
<1>6. Reached(k * PageSize) = {r \in 1..base : feed - r < first}
  BY DEF Reached
<1> HIDE DEF first
<1>7. Reached((k + 1) * PageSize) \subseteq Reached(k * PageSize) \cup Page(k, feed)
  BY <1>1, <1>2, <1>3, <1>4, <1>5, <1>6
<1>8. ASSUME Page(k, feed) = {}
      PROVE  (1..base) \subseteq Reached(k * PageSize)
  <2>1. CASE feed > first
    <3>1. feed - first \in Page(k, feed)
      BY <2>1, <1>1, <1>2, <1>4
    <3> QED BY <3>1, <1>8
  <2>2. CASE feed <= first
    BY <2>2, <1>1, <1>2, <1>3, <1>6
  <2> QED BY <2>1, <2>2, <1>1, <1>2
<1>9. ASSUME FALSE \in HasMore(k, feed)
      PROVE  (1..base) \subseteq Reached(k * PageSize) \cup Page(k, feed)
  <2>1. feed <= first + PageSize
    BY <1>9, <1>1 DEF HasMore
  <2>2. (1..base) \subseteq Reached((k + 1) * PageSize)
    BY <2>1, <1>1, <1>2, <1>3, <1>5
  <2> QED BY <2>2, <1>7
<1> QED BY <1>4, <1>7, <1>8, <1>9

\* What is covered stays covered: the list only moves older payments further
\* down, and nothing stored is ever removed.
LEMMA CoverageKept ==
    ASSUME TypeOK, [Next]_vars
    PROVE  /\ base' = base
           /\ feed \in Nat /\ feed' \in Nat /\ feed <= feed'
           /\ Covered \subseteq Covered'
<1> USE DEF Covered, cursor, invocation, bounds
<1>1. feed \in Nat
  BY DEF TypeOK
<1>2. CASE NewPayment
  BY <1>1, <1>2 DEF NewPayment
<1>3. CASE ClaimAges
  BY <1>1, <1>3 DEF ClaimAges
<1>4. ASSUME NEW i \in Invocations, Step(i)
      PROVE  base' = base /\ feed' = feed /\ Covered \subseteq Covered'
  BY <1>4 DEF Step, Declined, vars, Open, OpenUnread, OpenForReset, ResetCursor,
     ClaimCursor, Stop, FetchPage, FetchEmpty, FetchRepeated, FetchFails,
     StorePage, StoreSwallowed, AdvanceCursor, MoveTo, CursorWriteFails, Finish,
     Release, Killed
<1>5. CASE UNCHANGED vars
  BY <1>1, <1>5 DEF vars
<1> QED BY <1>1, <1>2, <1>3, <1>4, <1>5 DEF Next

-----------------------------------------------------------------------------
\* Every variable keeps its type.
LEMMA TypeInit == Init => TypeOK
<1> SUFFICES ASSUME Init PROVE TypeOK
  OBVIOUS
<1>1. /\ feed \in 0..MaxFeed
      /\ base \in 0..feed
      /\ held \in SUBSET (1..feed)
  BY BoundsAssumption DEF Init
<1>2. /\ pc \in [Invocations -> Walking \cup {"idle", "reset", "claim"}]
      /\ page \in [Invocations -> Nat]
      /\ more \in [Invocations -> BOOLEAN]
  BY DEF Init, Walking
<1>3. /\ records \in [Invocations -> SUBSET (1..feed)]
      /\ seen \in [Invocations -> SUBSET (1..feed)]
  BY DEF Init
<1>4. /\ lost \in SUBSET (1..feed)
      /\ nextPage \in Nat
      /\ faults \in 0..MaxFaults
      /\ storeFailures \in 0..MaxStoreFailures
      /\ resets \in 0..MaxResets
  BY BoundsAssumption DEF Init
<1>5. /\ done \in BOOLEAN
      /\ claim \in {"none", "fresh", "stale"}
  BY DEF Init
<1> QED BY <1>1, <1>2, <1>3, <1>4, <1>5 DEF TypeOK

LEMMA TypeNext == TypeOK /\ [Next]_vars => TypeOK'
<1> SUFFICES ASSUME TypeOK, [Next]_vars PROVE TypeOK'
  OBVIOUS
<1> USE DEF TypeOK, Walking, cursor, invocation, bounds, Goto, Fault, Leave
<1>1. CASE NewPayment
  BY <1>1, BoundsAssumption DEF NewPayment
<1>2. CASE ClaimAges
  BY <1>2 DEF ClaimAges
<1>3. ASSUME NEW i \in Invocations, Step(i) PROVE TypeOK'
  <2>1. CASE Declined(i)
    BY <2>1 DEF Declined, vars
  <2>2. CASE Open(i)
    BY <2>2 DEF Open
  <2>3. CASE OpenUnread(i)
    BY <2>3, BoundsAssumption DEF OpenUnread
  <2>4. CASE OpenForReset(i)
    BY <2>4, BoundsAssumption DEF OpenForReset
  <2>5. CASE ResetCursor(i)
    BY <2>5 DEF ResetCursor
  <2>6. CASE ClaimCursor(i)
    BY <2>6 DEF ClaimCursor
  <2>7. CASE Stop(i)
    BY <2>7 DEF Stop
  <2>8. CASE FetchPage(i)
    <3>1. Page(page[i], feed) \in SUBSET (1..feed)
      BY PageReaches
    <3>2. PICK m \in BOOLEAN : more' = [more EXCEPT ![i] = m]
      BY <2>8 DEF FetchPage, HasMore
    <3>3. records' = [records EXCEPT ![i] = Page(page[i], feed)]
      BY <2>8 DEF FetchPage
    <3>4. more' \in [Invocations -> BOOLEAN]
      BY <3>2
    <3>5. records' \in [Invocations -> SUBSET (1..feed)]
      BY <3>1, <3>3
    <3>6. /\ pc' = [pc EXCEPT ![i] = "store"]
          /\ UNCHANGED <<feed, base, held, lost, cursor, page, seen, bounds>>
      BY <2>8 DEF FetchPage
    <3> QED BY <3>4, <3>5, <3>6
  <2>9. CASE FetchEmpty(i)
    BY <2>9 DEF FetchEmpty
  <2>10. CASE FetchRepeated(i)
    BY <2>10 DEF FetchRepeated
  <2>11. CASE FetchFails(i)
    BY <2>11, BoundsAssumption DEF FetchFails
  <2>12. CASE StorePage(i)
    BY <2>12 DEF StorePage
  <2>13. CASE StoreSwallowed(i)
    <3>1. lost' \in SUBSET (1..feed)
      BY <2>13 DEF StoreSwallowed
    <3>2. seen' \in [Invocations -> SUBSET (1..feed)]
      BY <2>13 DEF StoreSwallowed
    <3>3. storeFailures' \in 0..MaxStoreFailures
      BY <2>13, BoundsAssumption DEF StoreSwallowed
    <3> QED BY <2>13, <3>1, <3>2, <3>3 DEF StoreSwallowed
  <2>14. CASE AdvanceCursor(i)
    BY <2>14 DEF AdvanceCursor, MoveTo
  <2>15. CASE CursorWriteFails(i)
    BY <2>15, BoundsAssumption DEF CursorWriteFails
  <2>16. CASE Finish(i)
    BY <2>16 DEF Finish
  <2>17. CASE Release(i)
    BY <2>17 DEF Release
  <2>18. CASE Killed(i)
    BY <2>18, BoundsAssumption DEF Killed
  <2> QED BY <1>3, <2>1, <2>2, <2>3, <2>4, <2>5, <2>6, <2>7, <2>8, <2>9, <2>10,
             <2>11, <2>12, <2>13, <2>14, <2>15, <2>16, <2>17, <2>18 DEF Step
<1>4. CASE UNCHANGED vars
  BY <1>4 DEF vars
<1> QED BY <1>1, <1>2, <1>3, <1>4 DEF Next

\* The cursor, the stored rows and every invocation's locals stay in range.
THEOREM TypeCorrect == Spec => []TypeOK
  BY TypeInit, TypeNext, PTL DEF Spec

-----------------------------------------------------------------------------
LEMMA CoverInit == Init => IInv
<1> SUFFICES ASSUME Init PROVE IInv
  OBVIOUS
<1>1. TypeOK
  BY TypeInit
<1>2. Reached(0) = {}
  BY <1>1 DEF Reached, TypeOK
<1>3. 0 * PageSize = 0
  BY PageSizeAssumption
<1>4. WalkCovers /\ DoneMeansCovered
  BY <1>2, <1>3 DEF Init, WalkCovers, DoneMeansCovered
<1>5. LocalInv
  BY <1>2, <1>3 DEF Init, LocalInv, Knows
<1> QED BY <1>1, <1>4, <1>5 DEF IInv

\* An invocation that stands still keeps what it knows: what the others and
\* the provider do only adds to what is covered.
LEMMA KnowsKept ==
    ASSUME TypeOK, TypeOK', [Next]_vars, NEW i \in Invocations, Knows(i),
           pc'[i] = pc[i], page'[i] = page[i], records'[i] = records[i],
           seen'[i] = seen[i], more'[i] = more[i]
    PROVE  Knows(i)'
<1>1. /\ base' = base
      /\ feed \in Nat /\ feed' \in Nat /\ feed <= feed'
      /\ Covered \subseteq Covered'
  BY CoverageKept
<1>2. page[i] * PageSize \in Nat /\ (page[i] + 1) * PageSize \in Nat
  BY PageStep DEF TypeOK
<1>3. /\ Reached(page[i] * PageSize)' \subseteq Reached(page[i] * PageSize)
      /\ Reached((page[i] + 1) * PageSize)' \subseteq Reached((page[i] + 1) * PageSize)
  BY <1>1, <1>2 DEF Reached, TypeOK
<1> QED BY <1>1, <1>3 DEF Knows

\* The same of the saved cursor.
LEMMA CursorKept ==
    ASSUME TypeOK, TypeOK', [Next]_vars, WalkCovers, DoneMeansCovered
    PROVE  /\ nextPage' = nextPage => WalkCovers'
           /\ done' = done => DoneMeansCovered'
<1>1. /\ base' = base
      /\ feed \in Nat /\ feed' \in Nat /\ feed <= feed'
      /\ Covered \subseteq Covered'
  BY CoverageKept
<1>2. nextPage * PageSize \in Nat
  BY PageStep DEF TypeOK
<1>3. ASSUME nextPage' = nextPage PROVE WalkCovers'
  BY <1>1, <1>2, <1>3 DEF Reached, TypeOK, WalkCovers, Covered
<1> QED BY <1>1, <1>3 DEF DoneMeansCovered, Covered

\* One step of one invocation preserves the invariant.
LEMMA CoverStep ==
    ASSUME IInv, [Next]_vars, NEW i \in Invocations, Step(i)
    PROVE  WalkCovers' /\ DoneMeansCovered' /\ LocalInv'
<1> USE DEF cursor, invocation, bounds, Goto
<1>1. TypeOK /\ TypeOK' /\ WalkCovers /\ DoneMeansCovered /\ LocalInv
  BY TypeNext DEF IInv
<1>2. /\ base' = base
      /\ feed \in Nat /\ feed' \in Nat /\ feed <= feed'
      /\ Covered \subseteq Covered'
  BY <1>1, CoverageKept
<1>3. /\ Knows(i)
      /\ page[i] \in Nat
      /\ page[i] * PageSize \in Nat
      /\ (page[i] + 1) * PageSize \in Nat
  BY <1>1, PageStep DEF LocalInv, TypeOK
\* The other invocations stand still.
<1>4. ASSUME NEW j \in Invocations, j # i PROVE Knows(j)'
  <2>1. /\ pc'[j] = pc[j] /\ page'[j] = page[j] /\ records'[j] = records[j]
        /\ seen'[j] = seen[j] /\ more'[j] = more[j]
    BY <1>1, <1>4 DEF TypeOK, Step, Declined, vars, Open, OpenUnread,
       OpenForReset, ResetCursor, ClaimCursor, Stop, FetchPage, FetchEmpty,
       FetchRepeated, FetchFails, StorePage, StoreSwallowed, AdvanceCursor,
       MoveTo, CursorWriteFails, Finish, Release, Killed, Fault, Leave
  <2> QED BY <1>1, <2>1, KnowsKept DEF LocalInv
<1>5. SUFFICES WalkCovers' /\ DoneMeansCovered' /\ Knows(i)'
  BY <1>4 DEF LocalInv
\* Moving on to a point where nothing more has to be known.
<1>6. ASSUME page'[i] = page[i], seen'[i] = seen[i],
             pc'[i] \notin {"store", "advance", "finish"}
      PROVE  Knows(i)'
  <2>1. Reached(page[i] * PageSize)' \subseteq Reached(page[i] * PageSize)
    BY <1>1, <1>2, <1>3, <1>6 DEF Reached, TypeOK
  <2> QED BY <1>2, <1>3, <1>6, <2>1 DEF Knows
<1>7. nextPage' = nextPage /\ done' = done => WalkCovers' /\ DoneMeansCovered'
  BY <1>1, CursorKept
<1>8. Reached(0)' = {}
  BY <1>1, <1>2 DEF Reached, TypeOK
<1>9. 0 * PageSize = 0
  BY PageSizeAssumption
<1>10. /\ pc \in [Invocations -> Walking \cup {"idle", "reset", "claim"}]
       /\ more[i] \in BOOLEAN
  BY <1>1 DEF TypeOK
<1>11. CASE Declined(i)
  BY <1>1, <1>3, <1>7, <1>11, KnowsKept DEF Declined, vars
<1>12. CASE Open(i) \/ OpenUnread(i) \/ OpenForReset(i)
  BY <1>6, <1>7, <1>10, <1>12 DEF Open, OpenUnread, OpenForReset
<1>13. CASE ResetCursor(i)
  <2>1. Knows(i)'
    BY <1>6, <1>10, <1>13 DEF ResetCursor
  <2>2. WalkCovers' /\ DoneMeansCovered'
    BY <1>8, <1>9, <1>13 DEF ResetCursor, WalkCovers, DoneMeansCovered
  <2> QED BY <2>1, <2>2
<1>14. CASE ClaimCursor(i)
  <2>1. WalkCovers' /\ DoneMeansCovered'
    BY <1>7, <1>14 DEF ClaimCursor
  <2>2. /\ page'[i] = nextPage' /\ pc'[i] = "fetch" /\ seen'[i] = seen[i]
    BY <1>1, <1>10, <1>14 DEF ClaimCursor, TypeOK
  <2> QED BY <1>2, <1>3, <2>1, <2>2 DEF Knows, WalkCovers, Covered
<1>15. CASE Stop(i) \/ FetchRepeated(i) \/ FetchFails(i) \/ CursorWriteFails(i)
  BY <1>6, <1>7, <1>10, <1>15 DEF Stop, FetchRepeated, FetchFails, CursorWriteFails
<1>16. CASE FetchPage(i)
  <2>1. PICK m \in HasMore(page[i], feed) : more' = [more EXCEPT ![i] = m]
    BY <1>16 DEF FetchPage
  <2>2. /\ more'[i] = m
        /\ records'[i] = Page(page[i], feed)
        /\ pc'[i] = "store"
        /\ UNCHANGED <<feed, base, held, lost, nextPage, done, page, seen>>
    BY <1>1, <1>10, <1>16, <2>1 DEF FetchPage, TypeOK
  <2>3. /\ Reached((page[i] + 1) * PageSize) \subseteq Covered \cup records'[i]
        /\ ~more'[i] => (1..base) \subseteq Covered \cup records'[i]
    <3>1. m \in BOOLEAN
      BY <2>1 DEF HasMore
    <3>2. /\ Reached((page[i] + 1) * PageSize)
               \subseteq Reached(page[i] * PageSize) \cup Page(page[i], feed)
          /\ FALSE \in HasMore(page[i], feed) =>
               (1..base) \subseteq Reached(page[i] * PageSize) \cup Page(page[i], feed)
      BY <1>1, <1>3, PageReaches
    <3>3. Reached(page[i] * PageSize) \subseteq Covered
      BY <1>3 DEF Knows
    <3>4. ~m => FALSE \in HasMore(page[i], feed)
      BY <2>1, <3>1
    <3> QED BY <2>2, <3>2, <3>3, <3>4
  <2>4. Knows(i)'
    BY <1>3, <2>2, <2>3 DEF Knows, Reached, Covered
  <2> QED BY <1>7, <2>2, <2>4
<1>17. CASE FetchEmpty(i)
  <2>1. /\ pc'[i] = "finish"
        /\ UNCHANGED <<feed, base, held, lost, nextPage, done, page, seen>>
    BY <1>10, <1>17 DEF FetchEmpty
  <2>2. (1..base) \subseteq Covered
    BY <1>1, <1>3, <1>17, PageReaches DEF FetchEmpty, Knows
  <2>3. Knows(i)'
    BY <1>3, <2>1, <2>2 DEF Knows, Reached, Covered
  <2> QED BY <1>7, <2>1, <2>3
<1>18. CASE StorePage(i) \/ StoreSwallowed(i)
  <2>1. /\ pc[i] = "store" /\ pc'[i] = "advance"
        /\ Covered' = Covered \cup (records[i] \ seen[i])
        /\ seen'[i] = seen[i] \cup records[i]
        /\ UNCHANGED <<feed, base, nextPage, done, page, records, more>>
    BY <1>1, <1>10, <1>18 DEF StorePage, StoreSwallowed, Covered, TypeOK
  <2>2. records[i] \cup seen[i] \subseteq Covered'
    BY <1>2, <1>3, <2>1 DEF Knows
  <2>3. Knows(i)'
    BY <1>2, <1>3, <2>1, <2>2 DEF Knows, Reached
  <2> QED BY <1>7, <2>1, <2>3
<1>19. CASE AdvanceCursor(i)
  <2>1. /\ pc[i] = "advance"
        /\ page'[i] = page[i] + 1 /\ nextPage' = page[i] + 1
        /\ pc'[i] = (IF more[i] THEN "fetch" ELSE "finish")
        /\ UNCHANGED <<feed, base, held, lost, done, seen>>
    BY <1>1, <1>10, <1>19 DEF AdvanceCursor, MoveTo, TypeOK
  <2>2. WalkCovers'
    BY <1>3, <2>1 DEF Knows, WalkCovers, Reached, Covered
  <2>3. DoneMeansCovered'
    BY <1>1, <2>1 DEF DoneMeansCovered
  <2>4. Knows(i)'
    BY <1>3, <1>10, <2>1 DEF Knows, Reached, Covered
  <2> QED BY <2>2, <2>3, <2>4
<1>20. CASE Finish(i)
  <2>1. /\ pc[i] = "finish" /\ pc'[i] = "release" /\ page'[i] = page[i]
        /\ seen'[i] = seen[i]
        /\ UNCHANGED <<feed, base, held, lost, nextPage>>
    BY <1>10, <1>20 DEF Finish
  <2>2. WalkCovers'
    BY <1>1, <2>1, CursorKept
  <2>3. DoneMeansCovered'
    BY <1>3, <2>1 DEF Knows, DoneMeansCovered, Covered
  <2> QED BY <1>6, <2>1, <2>2, <2>3
<1>21. CASE Release(i) \/ Killed(i)
  <2>1. /\ pc'[i] = "idle" /\ page'[i] = 0 /\ seen'[i] = {}
        /\ UNCHANGED <<nextPage, done>>
    BY <1>1, <1>10, <1>21 DEF Release, Killed, Leave, TypeOK
  <2>2. Knows(i)'
    BY <1>8, <1>9, <2>1 DEF Knows
  <2> QED BY <1>7, <2>1, <2>2
<1> QED BY <1>11, <1>12, <1>13, <1>14, <1>15, <1>16, <1>17, <1>18, <1>19,
           <1>20, <1>21 DEF Step

LEMMA CoverNext == IInv /\ [Next]_vars => IInv'
<1> SUFFICES ASSUME IInv, [Next]_vars PROVE IInv'
  OBVIOUS
<1>1. TypeOK /\ TypeOK' /\ WalkCovers /\ DoneMeansCovered /\ LocalInv
  BY TypeNext DEF IInv
<1>2. CASE \E i \in Invocations : Step(i)
  BY <1>1, <1>2, CoverStep DEF IInv
<1>3. ASSUME UNCHANGED <<nextPage, done, invocation>>
      PROVE  IInv'
  BY <1>1, <1>3, CursorKept, KnowsKept DEF IInv, LocalInv, invocation
<1>4. CASE NewPayment
  BY <1>3, <1>4 DEF NewPayment, cursor
<1>5. CASE ClaimAges
  BY <1>3, <1>5 DEF ClaimAges
<1>6. CASE UNCHANGED vars
  BY <1>3, <1>6 DEF vars, cursor
<1> QED BY <1>2, <1>4, <1>5, <1>6 DEF Next

\* However invocations race, die, fail or reset, and however the pages shift
\* under them: the cursor never passes a payment of the walk's history that
\* is neither stored nor dropped by a swallowed write.
THEOREM CursorNeverSkips == Spec => []WalkCovers
<1>1. IInv => WalkCovers
  BY DEF IInv
<1> QED BY <1>1, CoverInit, CoverNext, PTL DEF Spec

\* And a cursor marked done has covered all of it.
THEOREM DoneIsWhole == Spec => []DoneMeansCovered
<1>1. IInv => DoneMeansCovered
  BY DEF IInv
<1> QED BY <1>1, CoverInit, CoverNext, PTL DEF Spec

-----------------------------------------------------------------------------
\* What a step may do to the promise: account for more, conclude, or restart.
LEMMA ImportStep ==
    ASSUME IInv, NEW i \in Invocations, Step(i)
    PROVE  [Import!ImportNext]_(Import!importVars)
<1> USE DEF Import!ImportNext, Import!importVars
<1>1. CASE StorePage(i) \/ StoreSwallowed(i)
  BY <1>1 DEF StorePage, StoreSwallowed, cursor, Import!Learn
<1>2. CASE Finish(i)
  <2>1. Knows(i)
    BY DEF IInv, LocalInv
  <2>2. (1..base) \subseteq held \cup lost
    BY <1>2, <2>1 DEF Knows, Covered, Finish
  <2> QED BY <1>2, <2>2 DEF Finish, Import!Conclude
<1>3. CASE ResetCursor(i)
  BY <1>3 DEF ResetCursor, Import!Restart
<1>4. CASE \/ Declined(i) \/ Open(i) \/ OpenUnread(i) \/ OpenForReset(i)
           \/ ClaimCursor(i) \/ Stop(i) \/ FetchPage(i) \/ FetchEmpty(i)
           \/ FetchRepeated(i) \/ FetchFails(i) \/ AdvanceCursor(i)
           \/ CursorWriteFails(i) \/ Release(i) \/ Killed(i)
  <2>1. UNCHANGED <<base, held, lost, done>>
    BY <1>4 DEF Declined, vars, Open, OpenUnread, OpenForReset, ClaimCursor, Stop,
                FetchPage, FetchEmpty, FetchRepeated, FetchFails, AdvanceCursor,
                MoveTo, CursorWriteFails, Release, Killed, cursor
  <2> QED BY <2>1
<1> QED BY <1>1, <1>2, <1>3, <1>4 DEF Step

\* The walk is an import of its history: what the page-by-page code does, for
\* every number of invocations, page size and bound, an observer of the stored
\* payments and of the cursor's done cannot tell from the abstract import.
THEOREM BackfillImportsHistory == Spec => IsHistoryImport
<1>1. Init => Import!ImportInit
  BY DEF Init, Import!ImportInit
<1>2. IInv /\ [Next]_vars => [Import!ImportNext]_(Import!importVars)
  <2> SUFFICES ASSUME IInv, [Next]_vars
               PROVE  [Import!ImportNext]_(Import!importVars)
    OBVIOUS
  <2>1. CASE \E i \in Invocations : Step(i)
    BY <2>1, ImportStep
  <2>2. CASE NewPayment
    BY <2>2 DEF NewPayment, cursor, Import!ImportNext, Import!importVars, Import!Learn
  <2>3. CASE ClaimAges
    BY <2>3 DEF ClaimAges, Import!importVars
  <2>4. CASE UNCHANGED vars
    BY <2>4 DEF vars, cursor, Import!importVars
  <2> QED BY <2>1, <2>2, <2>3, <2>4 DEF Next
<1> QED BY <1>1, <1>2, CoverInit, CoverNext, PTL DEF Spec, IsHistoryImport, Import!ImportSpec
=============================================================================
