------------------------- MODULE PaymentIngestProofs -------------------------
(***************************************************************************)
(* What the poll announces is stored, and only a race announces it twice:    *)
(* for any number of pollers, pages, payments and events.                    *)
(***************************************************************************)
EXTENDS PaymentIngest, SetLemmas

-----------------------------------------------------------------------------
(* Types.                                                                    *)

LEMMA RowTyped ==
    ASSUME TypeOK, NEW r \in 1..feed
    PROVE  RowOf(r) \in Rows /\ RowOf(r)[1] = r
<1>1. feed \in Nat /\ feed <= MaxFeed /\ MaxFeed \in Nat
  BY SizesAssumption DEF TypeOK
<1>2. r \in 1..MaxFeed
  BY <1>1
<1> QED BY <1>2 DEF RowOf, Rows, States

LEMMA PageTyped ==
    ASSUME TypeOK, NEW n
    PROVE  Page(n) \subseteq Rows /\ \A k \in Page(n) : k[1] \in 1..feed
BY RowTyped DEF Page

\* The newest time seen is a payment's, or the one the poll began with.
LEMMA NewestTyped ==
    ASSUME TypeOK, NEW p \in Pollers, NEW n
    PROVE  Max({newest[p]} \cup {k[1] : k \in Page(n) \ seen[p]}) \in 0..feed
<1> DEFINE T == {newest[p]} \cup {k[1] : k \in Page(n) \ seen[p]}
<1>1. feed \in Nat /\ newest[p] \in 0..feed
  BY SizesAssumption DEF TypeOK
<1>2. T \subseteq 0..feed /\ T # {}
  BY <1>1, PageTyped
<1> HIDE DEF T
<1>3. T \in SUBSET Nat /\ IsFiniteSet(T)
  <2>1. IsFiniteSet(0..feed) /\ 0..feed \subseteq Nat
    BY <1>1, FS_Interval
  <2> QED BY <1>2, <2>1, FS_Subset
<1>4. Max(T) \in T
  BY <1>2, <1>3, MaxIsGreatest
<1> QED BY <1>2, <1>4 DEF T

LEMMA TypeStart == Init => TypeOK
<1> SUFFICES ASSUME Init PROVE TypeOK
  OBVIOUS
<1>1. feed \in 0..MaxFeed /\ 0 \in 0..feed /\ 0 \in 0..(MaxPages - 1)
  BY SizesAssumption DEF Init
<1>2. settled \in SUBSET (1..feed) /\ since \in 0..feed /\ memory \in [Pollers -> 0..feed]
  BY <1>1 DEF Init
<1>3. page \in [Pollers -> 0..(MaxPages - 1)] /\ newest \in [Pollers -> 0..feed]
  BY <1>1 DEF Init
<1>4. /\ pc \in [Pollers -> {"idle", "fetch", "read", "store", "publish", "next", "save"}]
      /\ batch \in [Pollers -> SUBSET Rows] /\ incoming \in [Pollers -> SUBSET Rows]
      /\ stored \in [Pollers -> BOOLEAN] /\ more \in [Pollers -> BOOLEAN]
      /\ seen \in [Pollers -> SUBSET Rows]
  BY DEF Init
<1>5. /\ held \in SUBSET Rows /\ repeated \in SUBSET Rows /\ callback \in SUBSET Rows
      /\ announced \in SUBSET (Rows \X {"poll", "callback"})
      /\ {tells, overlapped, misread, outrun} \subseteq BOOLEAN
  BY DEF Init
<1>6. {callbacks, faults, imports} \subseteq Nat
  BY DEF Init
<1> QED BY <1>1, <1>2, <1>3, <1>4, <1>5, <1>6 DEF TypeOK

LEMMA LeaveTyped ==
    ASSUME TypeOK, NEW p \in Pollers, Leave(p)
    PROVE  /\ pc' \in [Pollers -> {"idle", "fetch", "read", "store", "publish", "next", "save"}]
           /\ page' \in [Pollers -> 0..(MaxPages - 1)]
           /\ batch' \in [Pollers -> SUBSET Rows]
           /\ incoming' \in [Pollers -> SUBSET Rows]
           /\ stored' \in [Pollers -> BOOLEAN]
           /\ more' \in [Pollers -> BOOLEAN]
           /\ seen' \in [Pollers -> SUBSET Rows]
           /\ newest' \in [Pollers -> 0..feed]
<1>1. 0 \in 0..feed /\ 0 \in 0..(MaxPages - 1)
  BY SizesAssumption DEF TypeOK
<1> QED BY <1>1 DEF Leave, Goto, TypeOK

LEMMA PublishTyped ==
    ASSUME TypeOK, NEW rows \in SUBSET Rows, NEW by \in {"poll", "callback"}, Publish(rows, by)
    PROVE  announced' \in SUBSET (Rows \X {"poll", "callback"}) /\ repeated' \in SUBSET Rows
BY DEF Publish, TypeOK

LEMMA TypeStep ==
    ASSUME TypeOK, [Next]_vars
    PROVE  TypeOK'
<1>1. CASE UNCHANGED vars
  BY <1>1 DEF vars, provider, ghosts, live, watermark, locals, bounds, TypeOK
<1>2. CASE NewPayment
  <2>1. feed \in Nat /\ feed' = feed + 1 /\ feed' \in 0..MaxFeed
    BY <1>2, SizesAssumption DEF NewPayment, TypeOK
  <2>2. 0..feed \subseteq 0..feed' /\ 1..feed \subseteq 1..feed'
    BY <2>1
  <2>3. settled' \in SUBSET (1..feed') /\ since' \in 0..feed'
    BY <1>2, <2>2 DEF NewPayment, watermark, TypeOK
  <2>4. memory' \in [Pollers -> 0..feed'] /\ newest' \in [Pollers -> 0..feed']
    BY <1>2, <2>2 DEF NewPayment, watermark, locals, TypeOK
  <2> QED BY <1>2, <2>1, <2>3, <2>4
          DEF NewPayment, ghosts, live, watermark, locals, bounds, TypeOK
<1>3. CASE Settle
  BY <1>3 DEF Settle, ghosts, live, watermark, locals, bounds, TypeOK
<1>4. CASE CallbackStores
  <2>1. PICK k \in {<<r, "pending">> : r \in 1..feed} \cup {<<r, "settled">> : r \in settled} :
          /\ callback' = callback \cup {k}
          /\ held' = held \cup {k} \/ held' = held
          /\ faults' = faults + 1 \/ faults' = faults
    BY <1>4 DEF CallbackStores
  <2>2. 1..feed \subseteq 1..MaxFeed /\ settled \subseteq 1..MaxFeed
    BY SizesAssumption DEF TypeOK
  <2>3. k \in Rows
    BY <2>2 DEF Rows, States
  <2> QED BY <1>4, <2>1, <2>3
          DEF CallbackStores, provider, ghosts, live, watermark, locals, TypeOK
<1>5. CASE CallbackPublishes
  <2>1. PICK k \in callback : callback' = callback \ {k} /\ Publish({k}, "callback")
    BY <1>5 DEF CallbackPublishes
  <2>2. {k} \in SUBSET Rows
    BY DEF TypeOK
  <2>3. announced' \in SUBSET (Rows \X {"poll", "callback"}) /\ repeated' \in SUBSET Rows
    BY <2>1, <2>2, PublishTyped
  <2> QED BY <1>5, <2>1, <2>3
          DEF CallbackPublishes, provider, ghosts, watermark, locals, bounds, TypeOK
<1>6. CASE ImportStores
  <2>1. PICK n : held' = held \cup Page(n)
    BY <1>6 DEF ImportStores
  <2> QED BY <1>6, <2>1, PageTyped
          DEF ImportStores, provider, ghosts, live, watermark, locals, TypeOK
<1>7. ASSUME NEW p \in Pollers, BeginPoll(p) PROVE TypeOK'
  <2>1. newest' \in [Pollers -> 0..feed]
    BY <1>7 DEF BeginPoll, TypeOK
  <2> QED BY <1>7, <2>1 DEF BeginPoll, Goto, provider, ghosts, live, watermark, bounds, TypeOK
<1>8. ASSUME NEW p \in Pollers, FetchPage(p) PROVE TypeOK'
  <2>1. CASE Page(page[p]) = {}
    BY <1>8, <2>1 DEF FetchPage, Goto, provider, ghosts, live, watermark, bounds, TypeOK
  <2>2. CASE Page(page[p]) # {}
    <3> DEFINE records == Page(page[p])
               last == Max({newest[p]} \cup {k[1] : k \in records \ seen[p]})
    <3>1. last \in 0..feed /\ records \subseteq Rows
      BY NewestTyped, PageTyped
    <3>2. newest' = [newest EXCEPT ![p] = last]
      BY <1>8, <2>2 DEF FetchPage
    <3>3. newest' \in [Pollers -> 0..feed]
      <4> HIDE DEF last
      <4> QED BY <3>1, <3>2 DEF TypeOK
    <3>4. /\ batch' = [batch EXCEPT ![p] = records \ seen[p]]
          /\ seen' = [seen EXCEPT ![p] = seen[p] \cup records]
          /\ more' = [more EXCEPT ![p] = HasMore(page[p])]
          /\ pc' = [pc EXCEPT ![p] = "read"]
      BY <1>8, <2>2 DEF FetchPage, Goto
    <3>6. HasMore(page[p]) \in BOOLEAN
      BY DEF HasMore
    <3> HIDE DEF records, last
    <3>5. batch' \in [Pollers -> SUBSET Rows] /\ seen' \in [Pollers -> SUBSET Rows]
      BY <3>1, <3>4 DEF TypeOK
    <3> QED BY <1>8, <3>3, <3>4, <3>5, <3>6
            DEF FetchPage, provider, ghosts, live, watermark, bounds, TypeOK
  <2> QED BY <2>1, <2>2
<1>9. ASSUME NEW p \in Pollers, FetchFails(p) PROVE TypeOK'
  BY <1>9, LeaveTyped DEF FetchFails, Fault, provider, ghosts, live, watermark, TypeOK
<1>10. ASSUME NEW p \in Pollers, ReadKnown(p) \/ ReadFails(p) PROVE TypeOK'
  <2>1. PICK rows \in SUBSET Rows : Incoming(p, rows)
    BY <1>10 DEF ReadKnown, ReadFails, TypeOK
  <2>2. incoming' \in [Pollers -> SUBSET Rows]
        /\ pc' \in [Pollers -> {"idle", "fetch", "read", "store", "publish", "next", "save"}]
    BY <2>1 DEF Incoming, Goto, TypeOK
  <2>3. {callbacks', faults', imports'} \subseteq Nat
    BY <1>10 DEF ReadKnown, ReadFails, Fault, bounds, TypeOK
  <2>4. {tells', overlapped', misread', outrun'} \subseteq BOOLEAN
    BY <1>10 DEF ReadKnown, ReadFails, provider, ghosts, TypeOK
  <2> QED BY <1>10, <2>2, <2>3, <2>4
          DEF ReadKnown, ReadFails, provider, live, watermark, TypeOK
<1>11. ASSUME NEW p \in Pollers, StoreIncoming(p) \/ StoreFails(p) PROVE TypeOK'
  <2>1. incoming[p] \in SUBSET Rows
    BY DEF TypeOK
  <2>2. held' \in SUBSET Rows
    BY <1>11, <2>1 DEF StoreIncoming, StoreFails, TypeOK
  <2>3. stored' \in [Pollers -> BOOLEAN]
        /\ pc' \in [Pollers -> {"idle", "fetch", "read", "store", "publish", "next", "save"}]
    BY <1>11 DEF StoreIncoming, StoreFails, Goto, locals, TypeOK
  <2>4. {callbacks', faults', imports'} \subseteq Nat
    BY <1>11 DEF StoreIncoming, StoreFails, Fault, bounds, TypeOK
  <2> QED BY <1>11, <2>2, <2>3, <2>4
          DEF StoreIncoming, StoreFails, provider, ghosts, live, watermark, locals, TypeOK
<1>12. ASSUME NEW p \in Pollers, PublishIncoming(p) PROVE TypeOK'
  <2>1. incoming[p] \in SUBSET Rows /\ Publish(incoming[p], "poll")
    BY <1>12 DEF PublishIncoming, TypeOK
  <2>2. announced' \in SUBSET (Rows \X {"poll", "callback"}) /\ repeated' \in SUBSET Rows
    BY <2>1, PublishTyped
  <2> QED BY <1>12, <2>2
          DEF PublishIncoming, Goto, provider, ghosts, watermark, locals, bounds, TypeOK
<1>13. ASSUME NEW p \in Pollers, NextPage(p) PROVE TypeOK'
  <2>1. page' \in [Pollers -> 0..(MaxPages - 1)] /\ pc' = [pc EXCEPT ![p] = pc'[p]]
        /\ pc'[p] \in {"save", "fetch"}
    <3>1. CASE StopsHere(p)
      BY <1>13, <3>1 DEF NextPage, Goto, TypeOK
    <3>2. CASE ~StopsHere(p)
      <4>1. page[p] + 1 # MaxPages /\ page[p] \in 0..(MaxPages - 1) /\ MaxPages \in Nat
        BY <3>2, SizesAssumption DEF StopsHere, LastPage, TypeOK
      <4>2. page[p] + 1 \in 0..(MaxPages - 1)
        BY <4>1
      <4> QED BY <1>13, <3>2, <4>2 DEF NextPage, Goto, TypeOK
    <3> QED BY <3>1, <3>2
  <2> QED BY <1>13, <2>1 DEF NextPage, provider, ghosts, live, watermark, bounds, TypeOK
<1>14. ASSUME NEW p \in Pollers, SaveSince(p) PROVE TypeOK'
  <2>1. memory' \in [Pollers -> 0..feed] /\ since' \in 0..feed /\ faults' \in Nat
    BY <1>14 DEF SaveSince, TypeOK
  <2> QED BY <1>14, <2>1, LeaveTyped DEF SaveSince, provider, ghosts, live, TypeOK
<1>15. ASSUME NEW p \in Pollers, Killed(p) PROVE TypeOK'
  <2>1. memory' \in [Pollers -> 0..feed]
    <3>1. 0 \in 0..feed
      BY SizesAssumption DEF TypeOK
    <3> QED BY <1>15, <3>1 DEF Killed, TypeOK
  <2> QED BY <1>15, <2>1, LeaveTyped DEF Killed, Fault, provider, ghosts, live, TypeOK
<1> QED BY <1>1, <1>2, <1>3, <1>4, <1>5, <1>6, <1>7, <1>8, <1>9, <1>10, <1>11, <1>12,
           <1>13, <1>14, <1>15
        DEF Next, Poll, PollFails

\* The table, the feed and every poller's locals keep their types; the
\* watermark is never the time of a payment the provider does not have.
THEOREM IngestTyped == Spec => []TypeOK
BY TypeStart, TypeStep, PTL DEF Spec

-----------------------------------------------------------------------------
(* What is announced.                                                        *)

LEMMA PollStart == Init => PollInv
BY DEF Init, PollInv, PollAnnouncesStored

\* A step that publishes nothing and reads nothing new leaves it so.
LEMMA Unpublished ==
    ASSUME TypeOK, PollInv, announced' = announced, repeated' = repeated,
           held \subseteq held', Alone' => Alone /\ callback' = callback,
           \A p \in Pollers :
                /\ pc'[p] \in {"store", "publish"} =>
                     /\ pc[p] \in {"store", "publish"}
                     /\ incoming'[p] = incoming[p]
                /\ pc'[p] = "publish" => incoming'[p] \subseteq held'
                /\ pc'[p] # "idle" => pc[p] # "idle"
    PROVE  PollInv'
<1>1. PollAnnouncesStored'
  BY DEF PollInv, PollAnnouncesStored
<1>2. ASSUME Alone'
      PROVE  /\ repeated' = {} /\ callback' = {}
             /\ \A p \in Pollers, q \in Pollers : pc'[p] # "idle" /\ pc'[q] # "idle" => p = q
             /\ \A a \in announced' : a[1] \in held'
             /\ \A p \in Pollers : pc'[p] \in {"store", "publish"} =>
                  \A a \in announced' : a[1] \notin incoming'[p]
  <2>1. Alone /\ callback' = callback
    BY <1>2
  <2> QED BY <2>1 DEF PollInv
<1> QED BY <1>1, <1>2 DEF PollInv

\* A poll that is over is at none of those points.
LEMMA LeftAlone ==
    ASSUME TypeOK, NEW p \in Pollers, Leave(p)
    PROVE  \A q \in Pollers :
             /\ q = p => pc'[q] = "idle"
             /\ q # p => /\ pc'[q] = pc[q] /\ incoming'[q] = incoming[q]
                         /\ stored'[q] = stored[q]
BY DEF Leave, Goto, TypeOK

LEMMA PollStep ==
    ASSUME TypeOK, PollInv, [Next]_vars
    PROVE  PollInv'
<1>1. CASE UNCHANGED vars
  BY <1>1, Unpublished DEF vars, ghosts, live, locals, bounds, Alone, PollInv
<1>2. CASE NewPayment \/ Settle \/ ImportStores
  BY <1>2, Unpublished DEF NewPayment, Settle, ImportStores, ghosts, live, locals, bounds, Alone, PollInv
<1>3. CASE CallbackStores
  <2>1. ~Alone' /\ held \subseteq held'
    BY <1>3 DEF CallbackStores, Alone, TypeOK
  <2> QED BY <1>3, <2>1, Unpublished DEF CallbackStores, live, locals, PollInv
<1>4. CASE CallbackPublishes
  <2>1. PICK k \in callback : Publish({k}, "callback")
    BY <1>4 DEF CallbackPublishes
  <2>2. ~Alone
    BY <2>1 DEF PollInv
  <2>3. ~Alone'
    BY <1>4, <2>2 DEF CallbackPublishes, ghosts, bounds, Alone
  <2>4. \A r \in Rows : <<r, "poll">> \in announced' => <<r, "poll">> \in announced
    BY <2>1 DEF Publish
  <2> QED BY <1>4, <2>3, <2>4 DEF CallbackPublishes, locals, PollInv, PollAnnouncesStored
<1>5. ASSUME NEW p \in Pollers, BeginPoll(p) PROVE PollInv'
  <2>1. \A q \in Pollers : /\ q # p => pc'[q] = pc[q]
                           /\ q = p => pc[q] = "idle" /\ pc'[q] = "fetch"
    BY <1>5 DEF BeginPoll, Goto, TypeOK
  <2>2. /\ announced' = announced /\ repeated' = repeated /\ held' = held
        /\ callback' = callback /\ incoming' = incoming /\ stored' = stored
        /\ misread' = misread /\ callbacks' = callbacks
    BY <1>5 DEF BeginPoll, live, bounds
  <2>3. overlapped' = (overlapped \/ \E q \in Pollers : pc[q] # "idle")
    BY <1>5 DEF BeginPoll
  <2>4. ASSUME Alone' PROVE Alone /\ \A q \in Pollers : pc[q] = "idle"
    <3>1. ~overlapped /\ \A q \in Pollers : pc[q] = "idle"
      BY Zenon, <2>3, <2>4 DEF Alone
    <3> QED BY <2>2, <2>4, <3>1 DEF Alone
  <2>5. PollAnnouncesStored' /\
        \A q \in Pollers : pc'[q] = "publish" => incoming'[q] \subseteq held'
    BY <2>1, <2>2 DEF PollInv, PollAnnouncesStored
  <2>6. ASSUME Alone'
        PROVE  /\ repeated' = {} /\ callback' = {}
               /\ \A q \in Pollers, r \in Pollers : pc'[q] # "idle" /\ pc'[r] # "idle" => q = r
               /\ \A a \in announced' : a[1] \in held'
               /\ \A q \in Pollers : pc'[q] \notin {"store", "publish"}
    BY <2>1, <2>2, <2>4, <2>6 DEF PollInv
  <2> QED BY <2>5, <2>6 DEF PollInv
<1>6. ASSUME NEW p \in Pollers, FetchFails(p) \/ SaveSince(p) \/ Killed(p) PROVE PollInv'
  <2>1. Leave(p) /\ announced' = announced /\ repeated' = repeated /\ held' = held
        /\ callback' = callback /\ pc[p] # "idle"
    BY <1>6 DEF FetchFails, SaveSince, Killed, live
  <2>2. Alone' => Alone
    BY <1>6 DEF FetchFails, SaveSince, Killed, Fault, ghosts, Alone
  <2> QED BY <2>1, <2>2, LeftAlone, Unpublished DEF PollInv
<1>7. ASSUME NEW p \in Pollers, FetchPage(p) \/ NextPage(p) PROVE PollInv'
  <2>1. /\ announced' = announced /\ repeated' = repeated /\ held' = held
        /\ callback' = callback /\ Alone' = Alone /\ pc[p] # "idle"
    BY <1>7 DEF FetchPage, NextPage, live, bounds, Alone
  <2>2. \A q \in Pollers :
          /\ q = p => pc'[q] \notin {"store", "publish"}
          /\ q # p => /\ pc'[q] = pc[q] /\ incoming'[q] = incoming[q]
                      /\ stored'[q] = stored[q]
    BY <1>7 DEF FetchPage, NextPage, Goto, TypeOK
  <2> QED BY <2>1, <2>2, Unpublished DEF PollInv
<1>8. ASSUME NEW p \in Pollers, ReadFails(p) PROVE PollInv'
  <2>1. ~Alone'
    BY <1>8 DEF ReadFails, Alone
  <2>2. announced' = announced /\ held' = held
    BY <1>8 DEF ReadFails, live
  <2>3. \A q \in Pollers : pc'[q] = "publish" =>
          pc[q] = "publish" /\ incoming'[q] = incoming[q]
    BY <1>8 DEF ReadFails, Incoming, Goto, TypeOK
  <2> QED BY <2>1, <2>2, <2>3 DEF PollInv, PollAnnouncesStored
<1>9. ASSUME NEW p \in Pollers, ReadKnown(p) PROVE PollInv'
  <2>1. \A q \in Pollers :
          /\ q = p => /\ pc[q] = "read" /\ pc'[q] \in {"store", "next"}
                      /\ incoming'[q] = batch[q] \ held
          /\ q # p => pc'[q] = pc[q] /\ incoming'[q] = incoming[q]
    BY <1>9 DEF ReadKnown, Incoming, Goto, TypeOK
  <2>2. /\ announced' = announced /\ repeated' = repeated /\ held' = held
        /\ callback' = callback /\ Alone' = Alone
    BY <1>9 DEF ReadKnown, ghosts, live, bounds, Alone
  <2>3. PollAnnouncesStored' /\
        \A q \in Pollers : pc'[q] = "publish" => incoming'[q] \subseteq held'
    BY <2>1, <2>2 DEF PollInv, PollAnnouncesStored
  <2>4. ASSUME Alone'
        PROVE  /\ repeated' = {} /\ callback' = {}
               /\ \A q \in Pollers, r \in Pollers : pc'[q] # "idle" /\ pc'[r] # "idle" => q = r
               /\ \A a \in announced' : a[1] \in held'
    BY <2>1, <2>2, <2>4 DEF PollInv
  <2>5. ASSUME Alone', NEW q \in Pollers, pc'[q] \in {"store", "publish"}, NEW a \in announced'
        PROVE  a[1] \notin incoming'[q]
    BY <2>1, <2>2, <2>5 DEF PollInv
  <2> QED BY <2>3, <2>4, <2>5 DEF PollInv
<1>10. ASSUME NEW p \in Pollers, StoreIncoming(p) PROVE PollInv'
  <2>1. \A q \in Pollers :
          /\ q = p => /\ pc[q] = "store" /\ pc'[q] \in {"publish", "next"}
                      /\ incoming[q] \subseteq held'
          /\ q # p => pc'[q] = pc[q]
          /\ incoming'[q] = incoming[q]
    BY <1>10 DEF StoreIncoming, Goto, TypeOK
  <2>2. /\ announced' = announced /\ repeated' = repeated /\ held \subseteq held'
        /\ callback' = callback /\ Alone' = Alone
    BY <1>10 DEF StoreIncoming, ghosts, live, bounds, Alone
  <2>3. \A q \in Pollers : pc'[q] = "publish" => incoming'[q] \subseteq held'
    BY <2>1, <2>2 DEF PollInv
  <2> QED BY <2>1, <2>2, <2>3, Unpublished
<1>11. ASSUME NEW p \in Pollers, StoreFails(p) PROVE PollInv'
  <2>1. \A q \in Pollers :
          /\ q = p => pc[q] = "store" /\ pc'[q] = "next"
          /\ q # p => pc'[q] = pc[q]
          /\ incoming'[q] = incoming[q]
    BY <1>11 DEF StoreFails, Goto, locals, TypeOK
  <2>2. /\ announced' = announced /\ repeated' = repeated /\ held \subseteq held'
        /\ callback' = callback /\ Alone' = Alone
    BY <1>11 DEF StoreFails, Fault, ghosts, live, Alone
  <2>3. \A q \in Pollers : pc'[q] = "publish" => incoming'[q] \subseteq held'
    BY <2>1, <2>2 DEF PollInv
  <2> QED BY <2>1, <2>2, <2>3, Unpublished
<1>12. ASSUME NEW p \in Pollers, PublishIncoming(p) PROVE PollInv'
  <2>1. \A q \in Pollers : /\ q = p => pc[q] = "publish" /\ pc'[q] = "next"
                           /\ q # p => pc'[q] = pc[q]
    BY <1>12 DEF PublishIncoming, Goto, TypeOK
  <2>2. /\ held' = held /\ callback' = callback /\ Alone' = Alone /\ incoming' = incoming
    BY <1>12 DEF PublishIncoming, ghosts, locals, bounds, Alone
  <2>3. Publish(incoming[p], "poll") /\ incoming[p] \subseteq held
    BY <1>12, <2>1 DEF PublishIncoming, PollInv
  <2>4. PollAnnouncesStored'
    BY <2>2, <2>3 DEF Publish, PollInv, PollAnnouncesStored
  <2>5. \A q \in Pollers : pc'[q] = "publish" => incoming'[q] \subseteq held'
    BY <2>1, <2>2 DEF PollInv
  <2>6. ASSUME Alone
        PROVE  /\ repeated' = {} /\ callback' = {}
               /\ \A q \in Pollers, r \in Pollers : pc'[q] # "idle" /\ pc'[r] # "idle" => q = r
               /\ \A a \in announced' : a[1] \in held'
               /\ \A q \in Pollers : pc'[q] \notin {"store", "publish"}
    <3>1. \A a \in announced : a[1] \notin incoming[p]
      BY <2>1, <2>6 DEF PollInv
    <3>2. repeated' = repeated
      BY <2>3, <3>1 DEF Publish
    <3>3. \A a \in announced' : a[1] \in held
      BY <2>3, <2>6 DEF Publish, PollInv
    <3>4. \A q \in Pollers : q # p => pc[q] = "idle"
      BY <2>1, <2>6 DEF PollInv
    <3> QED BY <2>1, <2>2, <2>6, <3>2, <3>3, <3>4 DEF PollInv
  <2> QED BY <2>2, <2>4, <2>5, <2>6 DEF PollInv
<1> QED BY <1>1, <1>2, <1>3, <1>4, <1>5, <1>6, <1>7, <1>8, <1>9, <1>10, <1>11, <1>12
        DEF Next, Poll, PollFails

\* What the poll announces is in the table, whichever writers race it and
\* whichever of its reads and writes fail (storePage, paymaxis.service.ts:501).
THEOREM AnnouncedIsStored == Spec => []PollAnnouncesStored
<1>1. PollInv => PollAnnouncesStored
  BY DEF PollInv
<1> QED BY <1>1, TypeStart, TypeStep, PollStart, PollStep, PTL DEF Spec

\* The poll announces no row twice unless another poll or a callback raced it,
\* or a read of what is known failed, whatever else failed or was killed
\* (storePage, paymaxis.service.ts:501).
THEOREM NoRepeatAlone == Spec => []RepeatsOnlyWhenRaced
<1>1. TypeOK /\ PollInv => RepeatsOnlyWhenRaced
  BY DEF TypeOK, PollInv, RepeatsOnlyWhenRaced, Alone
<1> QED BY <1>1, TypeStart, TypeStep, PollStart, PollStep, PTL DEF Spec
=============================================================================
