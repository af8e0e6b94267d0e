------------------------------ MODULE LiveFeed ------------------------------
(***************************************************************************)
(* The pull transport of the live feed: DashboardService.liveFeed over the  *)
(* committed PaymentEvent rows, and the browser's useLiveFeed polling it    *)
(* with the cursor of the previous answer.                                  *)
(*                                                                          *)
(* A row's cursor receivedAt|id is modelled by one number, receivedAt in    *)
(* the high digits: the rows of one millisecond are IdsPerTick consecutive  *)
(* numbers.  A row is stamped when its INSERT starts and is seen by others  *)
(* when it commits, in any order.                                           *)
(***************************************************************************)
EXTENDS Naturals, FiniteSets

CONSTANTS
    Writers,      \* transactions inserting a row
    Viewers,      \* open dashboards
    Limit,        \* rows per answer
    IdsPerTick,   \* ids that can share a millisecond
    MaxTick,      \* bound: milliseconds in which rows are stamped
    MaxFaults     \* bound: failed queries and lost answers

ASSUME FeedAssumption ==
    /\ Limit \in Nat \ {0}
    /\ IdsPerTick \in Nat \ {0}
    /\ MaxTick \in Nat
    /\ MaxFaults \in Nat

VARIABLES
    tick,      \* the current millisecond
    stamped,   \* the row each writer has stamped and not committed, 0 when none
    rows,      \* committed rows
    cursor,    \* each viewer's cursor, 0 for none
    shown,     \* rows pushed to each viewer's list
    answer,    \* rows its request has read
    pc,        \* where its request is
    invented,  \* ghost: viewers pushed a simulated tick while real rows existed
    from,      \* ghost: the first row of its first non-empty answer, 0 before
    late,      \* ghost: rows that committed behind what it had already read
    faults

viewing == <<cursor, shown, answer, pc, invented, from>>
vars == <<tick, stamped, rows, viewing, late, faults>>

\* Row numbers start at 1, so that 0 can stand for "none".
RowsOf(t) == (t * IdsPerTick + 1)..(t * IdsPerTick + IdsPerTick)
Keys == 1..(MaxTick * IdsPerTick + IdsPerTick)

TypeOK ==
    /\ tick \in 0..MaxTick
    /\ stamped \in [Writers -> Keys \cup {0}]
    /\ rows \in SUBSET Keys
    /\ cursor \in [Viewers -> Keys \cup {0}]
    /\ shown \in [Viewers -> SUBSET Keys]
    /\ answer \in [Viewers -> SUBSET Keys]
    /\ pc \in [Viewers -> {"idle", "window", "reply"}]
    /\ invented \in SUBSET Viewers
    /\ from \in [Viewers -> Keys \cup {0}]
    /\ late \in [Viewers -> SUBSET Keys]
    /\ faults \in 0..MaxFaults

Fault == faults < MaxFaults /\ faults' = faults + 1

-----------------------------------------------------------------------------
(* The writers.                                                             *)

Tick ==
    /\ tick < MaxTick
    /\ tick' = tick + 1
    /\ UNCHANGED <<stamped, rows, viewing, late, faults>>

Stamp(w) ==
    /\ stamped[w] = 0
    /\ \E k \in RowsOf(tick) :
        /\ k \notin rows
        /\ \A u \in Writers : stamped[u] # k
        /\ stamped' = [stamped EXCEPT ![w] = k]
    /\ UNCHANGED <<tick, rows, viewing, late, faults>>

\* The largest row a viewer has read, in its cursor or in an answer under way.
Behind(v, k) == k < cursor[v] \/ \E j \in answer[v] : k < j

Commit(w) ==
    /\ stamped[w] # 0
    /\ rows' = rows \cup {stamped[w]}
    /\ stamped' = [stamped EXCEPT ![w] = 0]
    /\ late' = [v \in Viewers |->
                    late[v] \cup {k \in {stamped[w]} : Behind(v, k)}]
    /\ UNCHANGED <<tick, viewing, faults>>

-----------------------------------------------------------------------------
(* One poll: two queries on the server, then the answer at the browser.     *)

\* The first, or the last, Limit members of a set of rows.
Oldest(S) == {k \in S : Cardinality({j \in S : j < k}) < Limit}
Newest(S) == {k \in S : Cardinality({j \in S : k < j}) < Limit}

\* Seeded fault: newest first, with a cursor as without one.
ReadNewest(v) == Newest({k \in rows : cursor[v] < k})

\* Seeded fault: a cursor of receivedAt alone, compared with gte.
ReadSameTick(v) ==
    IF cursor[v] = 0 THEN Newest(rows)
    ELSE Oldest({k \in rows : (cursor[v] - 1) \div IdsPerTick <= (k - 1) \div IdsPerTick})

\* Without a cursor the newest rows, with one the oldest beyond it.
Read(v) ==
    IF cursor[v] = 0 THEN Newest(rows) ELSE Oldest({k \in rows : cursor[v] < k})

ReadRows(v) ==
    /\ pc[v] = "idle"
    /\ pc' = [pc EXCEPT ![v] = "window"]
    /\ \/ answer' = [answer EXCEPT ![v] = Read(v)] /\ UNCHANGED faults
       \/ answer' = [answer EXCEPT ![v] = {}] /\ Fault   \* safeQuery: []
    /\ UNCHANGED <<tick, stamped, rows, cursor, shown, invented, from, late>>

\* The success-rate window.  Empty, it means that nothing was ever ingested:
\* the answer is a simulated tick and the old cursor.
ReadWindow(v) ==
    /\ pc[v] = "window"
    /\ \/ rows # {}
          /\ pc' = [pc EXCEPT ![v] = "reply"]
          /\ UNCHANGED <<answer, invented, faults>>
       \/ rows = {}
          /\ pc' = [pc EXCEPT ![v] = "idle"]
          /\ answer' = [answer EXCEPT ![v] = {}]
          /\ UNCHANGED <<invented, faults>>
       \/ rows # {} /\ Fault                             \* safeQuery: []
          /\ pc' = [pc EXCEPT ![v] = "idle"]
          /\ answer' = [answer EXCEPT ![v] = {}]
          /\ invented' = invented \cup {v}
    /\ UNCHANGED <<tick, stamped, rows, cursor, shown, from, late>>

IsFirst(k, S) == k \in S /\ \A j \in S : k <= j
IsLast(k, S) == k \in S /\ \A j \in S : j <= k

CursorAt(last) == last

\* Seeded fault: an empty answer carries no cursor.
ForgetPlace(v) ==
    /\ answer[v] = {}
    /\ cursor' = [cursor EXCEPT ![v] = 0]
    /\ UNCHANGED from

\* An empty answer echoes the cursor it was asked with.
KeepPlace(v) == answer[v] = {} /\ UNCHANGED <<cursor, from>>

MovePlace(v) ==
    \E first, last \in answer[v] :
        /\ IsFirst(first, answer[v]) /\ IsLast(last, answer[v])
        /\ cursor' = [cursor EXCEPT ![v] = CursorAt(last)]
        /\ from' = [from EXCEPT ![v] = IF cursor[v] = 0 THEN first ELSE @]

\* Every event is pushed, and the cursor moves to the last one, if any.
Receive(v) ==
    /\ pc[v] = "reply"
    /\ shown' = [shown EXCEPT ![v] = @ \cup answer[v]]
    /\ KeepPlace(v) \/ MovePlace(v)
    /\ answer' = [answer EXCEPT ![v] = {}]
    /\ pc' = [pc EXCEPT ![v] = "idle"]
    /\ UNCHANGED <<tick, stamped, rows, invented, late, faults>>

\* The answer never arrives; the next poll asks from the same cursor.
LoseAnswer(v) ==
    /\ pc[v] = "reply"
    /\ Fault
    /\ answer' = [answer EXCEPT ![v] = {}]
    /\ pc' = [pc EXCEPT ![v] = "idle"]
    /\ UNCHANGED <<tick, stamped, rows, cursor, shown, invented, from, late>>

-----------------------------------------------------------------------------
Init ==
    /\ tick = 0
    /\ stamped = [w \in Writers |-> 0]
    /\ rows = {}
    /\ cursor = [v \in Viewers |-> 0]
    /\ shown = [v \in Viewers |-> {}]
    /\ answer = [v \in Viewers |-> {}]
    /\ pc = [v \in Viewers |-> "idle"]
    /\ invented = {}
    /\ from = [v \in Viewers |-> 0]
    /\ late = [v \in Viewers |-> {}]
    /\ faults = 0

View(v) == ReadRows(v) \/ ReadWindow(v) \/ Receive(v)

Next ==
    \/ Tick
    \/ \E w \in Writers : Stamp(w) \/ Commit(w)
    \/ \E v \in Viewers : View(v) \/ LoseAnswer(v)

Spec == Init /\ [][Next]_vars

\* The browser schedules its next poll when the last one has ended.
FairSpec == Spec /\ \A v \in Viewers : WF_vars(View(v))

-----------------------------------------------------------------------------
(* What the feed promises.                                                  *)

\* use-live-feed.ts:70, "cursor-based so nothing is ... repeated": an answer
\* never holds a row the viewer already has.
NothingRepeated ==
    \A v \in Viewers : answer[v] \cap shown[v] = {}

\* use-live-feed.ts:70, "cursor-based so nothing is missed", as far as it is so:
\* between the first row a viewer got and its cursor, a row is missing only if
\* it committed when the viewer had already read past it.
MissedOnlyIfLate ==
    \A v \in Viewers : \A k \in rows :
        from[v] <= k /\ k <= cursor[v] => k \in shown[v] \cup late[v]

\* A row beyond the cursor is shown, unless it commits behind an answer.
NewRowsShown ==
    \A v \in Viewers, k \in Keys :
        (k \in rows /\ 0 < cursor[v] /\ cursor[v] < k)
            ~> k \in shown[v] \cup late[v]

\* dashboard.service.ts:664, "a live dashboard must never mix invented rows
\* into real operational data".
NothingInvented == invented = {}
=============================================================================
