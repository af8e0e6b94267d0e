--------------------------- MODULE PaymentIngest ----------------------------
(***************************************************************************)
(* How a Paymaxis payment reaches PaymentEvent and the live feed:           *)
(* the poll (PaymaxisService.syncShop and storePage), the callbacks         *)
(* (WebhooksService.handlePaymaxis) and, as a third writer that announces   *)
(* nothing, a page of the historical import (module Backfill).              *)
(*                                                                          *)
(* A stored row is keyed by payment AND state (dedupeKey provider:id:STATE),*)
(* so a payment that settles is a second event of the same payment, shown   *)
(* at the payment's old place in the provider's newest-first list.          *)
(***************************************************************************)
EXTENDS Naturals, FiniteSets, FiniteSetsExt

CONSTANTS
    Pollers,        \* invocations that may run syncShop for this shop
    PageSize,       \* records per page
    MaxPages,       \* PAYMAXIS_MAX_PAGES
    Backlog,        \* bound: payments the provider has before the first poll
    MaxFeed,        \* bound: payments the provider ever has
    MaxEvents       \* bound: settlements, callbacks (duplicates included),
                    \* failed calls, reads and writes, kills, imported pages

ASSUME SizesAssumption ==
    /\ PageSize \in Nat \ {0} /\ MaxPages \in Nat \ {0}
    /\ MaxFeed \in Nat /\ Backlog \in 0..MaxFeed

VARIABLES
    feed,       \* number of payments the provider has
    settled,    \* those that have changed state
    tells,      \* its answers say whether there is more
    held,       \* rows of PaymentEvent
    announced,  \* <<row, by>>: published on the live bus, by the poll or a callback
    repeated,   \* ghost: rows published more than once
    overlapped, \* ghost: two polls have been under way at once
    misread,    \* ghost: a poll's findMany has failed
    outrun,     \* ghost: a page's worth arrived between two fetches of a poll,
                \* or more than it reads
    since,      \* PollWatermark row (a payment number stands for its time)
    memory,     \* this.since on each poller's instance, 0 when unset
    pc,         \* where each poller is
    page,       \* the page it is on
    batch,      \* normalised rows of that page not seen in this poll
    incoming,   \* those its findMany did not return
    stored,     \* whether its createMany wrote any
    more,       \* hasMore of that page
    seen,       \* identities handled in this poll
    newest,     \* newest time seen in this poll
    callback,   \* rows a callback has handled but not yet published
    callbacks, faults, imports   \* how many of each there have been

provider == <<feed, settled, tells>>
watermark == <<since, memory>>
live == <<announced, repeated>>
ghosts == <<overlapped, misread, outrun>>
locals == <<page, batch, incoming, stored, more, seen, newest>>
bounds == <<callbacks, faults, imports>>
vars == <<provider, held, live, ghosts, watermark, pc, locals, callback, bounds>>

States == {"pending", "settled"}
Rows == (1..MaxFeed) \X States

TypeOK ==
    /\ feed \in 0..MaxFeed
    /\ settled \in SUBSET (1..feed)
    /\ held \in SUBSET Rows
    /\ announced \in SUBSET (Rows \X {"poll", "callback"})
    /\ repeated \in SUBSET Rows
    /\ {tells, overlapped, misread, outrun} \subseteq BOOLEAN
    /\ since \in 0..feed
    /\ memory \in [Pollers -> 0..feed]
    /\ pc \in [Pollers -> {"idle", "fetch", "read", "store", "publish", "next", "save"}]
    /\ page \in [Pollers -> 0..(MaxPages - 1)]
    /\ batch \in [Pollers -> SUBSET Rows]
    /\ incoming \in [Pollers -> SUBSET Rows]
    /\ stored \in [Pollers -> BOOLEAN]
    /\ more \in [Pollers -> BOOLEAN]
    /\ seen \in [Pollers -> SUBSET Rows]
    /\ newest \in [Pollers -> 0..feed]
    /\ callback \in SUBSET Rows
    /\ {callbacks, faults, imports} \subseteq Nat

\* The events that are bounded together.
Events == Cardinality(settled) + callbacks + faults + imports
Room == Events < MaxEvents

-----------------------------------------------------------------------------
(* The provider.                                                            *)

RowOf(r) == <<r, IF r \in settled THEN "settled" ELSE "pending">>

\* Page k of the list as it is now.
Page(k) ==
    {RowOf(r) : r \in {q \in 1..feed : /\ k * PageSize <= feed - q
                                       /\ feed - q < (k + 1) * PageSize}}

\* Seeded fault: off by one at the end of a page.
BeyondNext(k) == {RowOf(r) : r \in {q \in 1..feed : (k + 1) * PageSize < feed - q}}

\* Everything the list has after page k.
Beyond(k) == {RowOf(r) : r \in {q \in 1..feed : (k + 1) * PageSize <= feed - q}}

\* What the provider says of it, or else "a full page implies more".
HasMore(k) ==
    \/ tells /\ Beyond(k) # {}
    \/ ~tells /\ Cardinality(Page(k)) >= PageSize

NewPayment ==
    /\ feed < MaxFeed
    /\ feed' = feed + 1
    /\ UNCHANGED <<settled, tells, ghosts, held, live, watermark, pc, locals, callback, bounds>>

Settle ==
    /\ Room
    /\ \E r \in (1..feed) \ settled : settled' = settled \cup {r}
    /\ UNCHANGED <<feed, tells, ghosts, held, live, watermark, pc, locals, callback, bounds>>

-----------------------------------------------------------------------------
(* The poll: syncShop, one await to an action.                              *)

Goto(p, label) == pc' = [pc EXCEPT ![p] = label]

\* The poll is over, and its locals with it.
Leave(p) ==
    /\ Goto(p, "idle")
    /\ page' = [page EXCEPT ![p] = 0]
    /\ batch' = [batch EXCEPT ![p] = {}]
    /\ incoming' = [incoming EXCEPT ![p] = {}]
    /\ stored' = [stored EXCEPT ![p] = FALSE]
    /\ more' = [more EXCEPT ![p] = FALSE]
    /\ seen' = [seen EXCEPT ![p] = {}]
    /\ newest' = [newest EXCEPT ![p] = 0]

Fault ==
    /\ Room
    /\ faults' = faults + 1
    /\ UNCHANGED <<callbacks, imports>>

Publish(rows, by) ==
    /\ announced' = announced \cup {<<k, by>> : k \in rows}
    /\ repeated' =
         repeated \cup {k \in rows : \E b \in {"poll", "callback"} : <<k, b>> \in announced}

\* loadSince: the instance's memory first, then the table.
BeginPoll(p) ==
    /\ pc[p] = "idle"
    /\ newest' = [newest EXCEPT ![p] = IF memory[p] > 0 THEN memory[p] ELSE since]
    /\ Goto(p, "fetch")
    /\ overlapped' = (overlapped \/ \E q \in Pollers : pc[q] # "idle")
    /\ UNCHANGED <<provider, misread, outrun, held, live, watermark, page, batch, incoming,
                   stored, more, seen, callback, bounds>>

FetchPage(p) ==
    LET records == Page(page[p]) IN
    /\ pc[p] = "fetch"
    /\ outrun' = (outrun \/ (records # {} /\ records \subseteq seen[p]))
    /\ IF records = {}
       THEN /\ Goto(p, "save")
            /\ UNCHANGED <<batch, more, seen, newest>>
       ELSE /\ batch' = [batch EXCEPT ![p] = records \ seen[p]]
            /\ seen' = [seen EXCEPT ![p] = @ \cup records]
            /\ more' = [more EXCEPT ![p] = HasMore(page[p])]
            /\ newest' = [newest EXCEPT ![p] = Max({@} \cup {k[1] : k \in records \ seen[p]})]
            /\ Goto(p, "read")
    /\ UNCHANGED <<provider, overlapped, misread, held, live, watermark, page, incoming,
                   stored, callback, bounds>>

\* The poll ends with an error and the watermark stays.
FetchFails(p) ==
    /\ pc[p] = "fetch"
    /\ Fault
    /\ Leave(p)
    /\ UNCHANGED <<provider, ghosts, held, live, watermark, callback>>

\* What is not known is stored, if there is any.
Incoming(p, rows) ==
    /\ incoming' = [incoming EXCEPT ![p] = rows]
    /\ Goto(p, IF rows = {} THEN "next" ELSE "store")

\* Seeded fault: a payment is known once any state of it is held.
ReadKnownPayments(p) ==
    /\ pc[p] = "read"
    /\ Incoming(p, {k \in batch[p] : \A h \in held : h[1] # k[1]})
    /\ UNCHANGED <<provider, ghosts, held, live, watermark, page, batch, stored, more,
                   seen, newest, callback, bounds>>

\* Seeded fault: rows are not compared with what the table holds.
ReadAnything(p) ==
    /\ pc[p] = "read"
    /\ Incoming(p, batch[p])
    /\ UNCHANGED <<provider, ghosts, held, live, watermark, page, batch, stored, more,
                   seen, newest, callback, bounds>>

ReadKnown(p) ==
    /\ pc[p] = "read"
    /\ Incoming(p, batch[p] \ held)
    /\ UNCHANGED <<provider, ghosts, held, live, watermark, page, batch, stored, more,
                   seen, newest, callback, bounds>>

\* findMany failed: nothing is known, so all of it is incoming.
ReadFails(p) ==
    /\ pc[p] = "read"
    /\ Fault
    /\ misread' = TRUE
    /\ Incoming(p, batch[p])
    /\ UNCHANGED <<provider, overlapped, outrun, held, live, watermark, page, batch, stored, more,
                   seen, newest, callback>>

\* createMany with skipDuplicates: written.count > 0 iff one was really new.
StoreIncoming(p) ==
    LET new == incoming[p] \ held IN
    /\ pc[p] = "store"
    /\ held' = held \cup new
    /\ stored' = [stored EXCEPT ![p] = new # {}]
    /\ Goto(p, IF new = {} THEN "next" ELSE "publish")
    /\ UNCHANGED <<provider, ghosts, live, watermark, page, batch, incoming, more,
                   seen, newest, callback, bounds>>

\* Seeded fault: what was sent to the table is announced, written or not.
StoreFailsUnseen(p) ==
    /\ pc[p] = "store"
    /\ Fault
    /\ Goto(p, "publish")
    /\ UNCHANGED <<provider, ghosts, held, live, watermark, locals, callback>>

\* createMany failed, or its answer was lost; storePage logs it and reports
\* nothing stored.
StoreFails(p) ==
    /\ pc[p] = "store"
    /\ Fault
    /\ held' \in {held, held \cup incoming[p]}
    /\ Goto(p, "next")
    /\ UNCHANGED <<provider, ghosts, live, watermark, locals, callback>>

\* Seeded fault: only the newest row of a page is announced.
PublishNewest(p) ==
    /\ pc[p] = "publish"
    /\ Publish({k \in incoming[p] : \A j \in incoming[p] : j[1] <= k[1]}, "poll")
    /\ Goto(p, "next")
    /\ UNCHANGED <<provider, ghosts, held, watermark, locals, callback, bounds>>

\* When the count is above 0, ALL of incoming is announced.
PublishIncoming(p) ==
    /\ pc[p] = "publish"
    /\ Publish(incoming[p], "poll")
    /\ Goto(p, "next")
    /\ UNCHANGED <<provider, ghosts, held, watermark, locals, callback, bounds>>

\* A page of which nothing was written ends the poll.
CaughtUp(p) == ~stored[p]

LastPage(p) == page[p] + 1 = MaxPages

\* No more, a page that stored nothing, one that repeated another, or the limit.
StopsHere(p) == ~more[p] \/ CaughtUp(p) \/ batch[p] = {} \/ LastPage(p)

NextPage(p) ==
    /\ pc[p] = "next"
    /\ outrun' = (outrun \/ (LastPage(p) /\ ~CaughtUp(p) /\ ~(Beyond(page[p]) \subseteq held)))
    /\ IF StopsHere(p)
       THEN Goto(p, "save") /\ UNCHANGED page
       ELSE Goto(p, "fetch") /\ page' = [page EXCEPT ![p] = @ + 1]
    /\ batch' = [batch EXCEPT ![p] = {}]
    /\ incoming' = [incoming EXCEPT ![p] = {}]
    /\ stored' = [stored EXCEPT ![p] = FALSE]
    /\ more' = [more EXCEPT ![p] = FALSE]
    /\ UNCHANGED <<provider, overlapped, misread, held, live, watermark, seen, newest, callback,
                   bounds>>

\* saveSince; a table write that fails leaves the memory advanced.
SaveSince(p) ==
    /\ pc[p] = "save"
    /\ memory' = [memory EXCEPT ![p] = newest[p]]
    /\ \/ since' = newest[p] /\ UNCHANGED faults
       \/ /\ Room
          /\ faults' = faults + 1
          /\ UNCHANGED since
    /\ Leave(p)
    /\ UNCHANGED <<provider, ghosts, held, live, callback, callbacks, imports>>

\* The host ends the invocation; a cold start has no memory.
Killed(p) ==
    /\ pc[p] # "idle"
    /\ Fault
    /\ Leave(p)
    /\ memory' = [memory EXCEPT ![p] = 0]
    /\ UNCHANGED <<provider, ghosts, held, live, since, callback>>

-----------------------------------------------------------------------------
(* The other writers.                                                       *)

\* handlePaymaxis: create the row; a duplicate or any other failure is logged.
\* A callback may be late: it can report a state the payment has left.
CallbackStores ==
    /\ Room
    /\ callbacks' = callbacks + 1
    /\ \E k \in {<<r, "pending">> : r \in 1..feed} \cup {<<r, "settled">> : r \in settled} :
        /\ k \notin callback
        /\ callback' = callback \cup {k}
        /\ \/ held' = held \cup {k} /\ UNCHANGED faults
           \/ faults' = faults + 1 /\ UNCHANGED held
    /\ UNCHANGED <<provider, ghosts, live, watermark, pc, locals, imports>>

\* The event is published whatever became of the row.
CallbackPublishes ==
    /\ \E k \in callback :
        /\ callback' = callback \ {k}
        /\ Publish({k}, "callback")
    /\ UNCHANGED <<provider, ghosts, held, watermark, pc, locals, bounds>>

\* storePage with broadcast off.
ImportStores ==
    /\ Room
    /\ imports' = imports + 1
    /\ \E n \in 0..(MaxFeed - 1) : Page(n) # {} /\ held' = held \cup Page(n)
    /\ UNCHANGED <<provider, ghosts, live, watermark, pc, locals, callback, callbacks, faults>>

-----------------------------------------------------------------------------
Init ==
    /\ feed \in 0..Backlog
    /\ settled = {} /\ tells \in BOOLEAN
    /\ held = {} /\ announced = {} /\ repeated = {} /\ overlapped = FALSE
    /\ misread = FALSE /\ outrun = FALSE
    /\ since = 0
    /\ memory = [p \in Pollers |-> 0]
    /\ pc = [p \in Pollers |-> "idle"]
    /\ page = [p \in Pollers |-> 0]
    /\ batch = [p \in Pollers |-> {}]
    /\ incoming = [p \in Pollers |-> {}]
    /\ stored = [p \in Pollers |-> FALSE]
    /\ more = [p \in Pollers |-> FALSE]
    /\ seen = [p \in Pollers |-> {}]
    /\ newest = [p \in Pollers |-> 0]
    /\ callback = {}
    /\ callbacks = 0 /\ faults = 0 /\ imports = 0

Poll(p) ==
    \/ FetchPage(p) \/ ReadKnown(p) \/ StoreIncoming(p)
    \/ PublishIncoming(p) \/ NextPage(p) \/ SaveSince(p)

PollFails(p) == FetchFails(p) \/ ReadFails(p) \/ StoreFails(p) \/ Killed(p)

Next ==
    \/ NewPayment \/ Settle
    \/ CallbackStores \/ CallbackPublishes \/ ImportStores
    \/ \E p \in Pollers : BeginPoll(p) \/ Poll(p) \/ PollFails(p)

Spec == Init /\ [][Next]_vars

\* Polls keep being started (timer, scheduler, an open dashboard) and run on.
Fairness ==
    /\ \A p \in Pollers : WF_vars(BeginPoll(p)) /\ WF_vars(Poll(p))
    /\ WF_vars(CallbackPublishes)

FairSpec == Spec /\ Fairness

-----------------------------------------------------------------------------
(* What the ingest promises.                                                *)

\* What the poll announces is in the table, whichever writers race and
\* whichever of its reads and writes fail.
PollAnnouncesStored == \A k \in Rows : <<k, "poll">> \in announced => k \in held

\* storePage, paymaxis.service.ts:501: "the feed must announce exactly the new
\* ones or it repeats itself every cycle".  Polls that do not overlap announce
\* no row twice, whatever was killed or swallowed on the way; it takes another
\* poll, a callback or a failed read.
RepeatsOnlyWhenRaced ==
    repeated # {} => overlapped \/ callbacks > 0 \/ misread

\* The state a payment on the newest page is in gets stored unless the payment
\* leaves that page first, however many polls fail or are killed on the way.
FirstPageStored ==
    \A r \in 1..MaxFeed :
        RowOf(r) \in Page(0) ~> (RowOf(r) \in held \/ RowOf(r) \notin Page(0))

\* paymaxis.service.ts:601: a burst longer than a page is stored whole, each
\* poll going on until a page stores nothing, even when polls overlap and
\* payments arrive while they page.  It takes that no poll fails, nobody else
\* stores a page's payments before it, and no poll is outrun: a page's worth
\* that arrives between two fetches makes the second repeat the first, where the
\* poll stops (:618), and the next one stops at what this one stored.
BurstStored ==
    [](faults = 0 /\ callbacks = 0 /\ imports = 0 /\ ~outrun)
        => []<>(1..feed \subseteq {k[1] : k \in held})

\* Whoever writes a row announces it, even when two polls overlap.
StoredIsAnnounced ==
    [](faults = 0 /\ imports = 0) => []<>(held \subseteq {a[1] : a \in announced})

-----------------------------------------------------------------------------
(* Why nothing is announced that is not stored, or twice.                    *)

\* Nobody has raced a poll, and each knew what was held when it read.
Alone == ~overlapped /\ callbacks = 0 /\ ~misread

\* What a poll is about to announce is stored.  And while nobody races it, what
\* has been announced is held, so what a poll has read as new, and is about to
\* store or to announce, has not been announced yet: no other poll is under way
\* to announce it meanwhile, and the import announces nothing.
PollInv ==
    /\ PollAnnouncesStored
    /\ \A p \in Pollers : pc[p] = "publish" => incoming[p] \subseteq held
    /\ Alone =>
        /\ repeated = {} /\ callback = {}
        /\ \A p \in Pollers, q \in Pollers : pc[p] # "idle" /\ pc[q] # "idle" => p = q
        /\ \A a \in announced : a[1] \in held
        /\ \A p \in Pollers : pc[p] \in {"store", "publish"} =>
             \A a \in announced : a[1] \notin incoming[p]
=============================================================================
