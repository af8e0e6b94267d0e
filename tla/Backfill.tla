------------------------------ MODULE Backfill ------------------------------
(***************************************************************************)
(* The historical import of one Paymaxis shop: PaymaxisService.backfillStep *)
(* and the backfillShop it runs, over the PaymaxisBackfill cursor row.      *)
(*                                                                          *)
(* Several invocations (browser tabs looping POST /paymaxis/backfill, the   *)
(* scheduler's GET /paymaxis/backfill/run) share one cursor row.  Each      *)
(* await of the code is a boundary between two actions, because another     *)
(* invocation, a crash or a new payment can come in there.                  *)
(*                                                                          *)
(* Payments are numbered in the order the provider created them; its list   *)
(* is newest first, so payment r is at position feed - r and page k is the  *)
(* positions k*PageSize .. (k+1)*PageSize-1 AT THE MOMENT it is fetched.    *)
(***************************************************************************)
EXTENDS Naturals

CONSTANTS
    Invocations,       \* requests that may be running a step
    PageSize,          \* PAYMAXIS_LIMIT, records per page
    MaxFeed,           \* bound: payments the provider ever has
    MaxFaults,         \* bound: failed reads, fetches, cursor writes, kills
    MaxStoreFailures,  \* bound: page writes that fail and are swallowed
    MaxResets          \* bound: "Start again from the newest"

ASSUME PageSizeAssumption == PageSize \in Nat \ {0}
ASSUME BoundsAssumption ==
    /\ MaxFeed \in Nat
    /\ MaxFaults \in Nat
    /\ MaxStoreFailures \in Nat
    /\ MaxResets \in Nat

VARIABLES
    feed,       \* number of payments the provider has
    base,       \* ghost: feed when the cursor row was first created
    held,       \* payments stored in PaymentEvent
    lost,       \* ghost: payments of a page whose createMany failed silently
    nextPage,   \* cursor row: the next page to read
    done,       \* cursor row: the walk reached the end
    claim,      \* cursor row: claimedAt is null, younger or older than the TTL
    pc,         \* where each invocation is
    page,       \* its local cursor.nextPage
    records,    \* the page it fetched last (previousPage: its fingerprint)
    seen,       \* identities it has handled in this step
    more,       \* the hasMore it was answered
    faults, storeFailures, resets   \* how much of each bound is used

cursor == <<nextPage, done, claim>>
invocation == <<pc, page, records, seen, more>>
bounds == <<faults, storeFailures, resets>>
vars == <<feed, base, held, lost, cursor, invocation, bounds>>

Payments == 1..MaxFeed

\* Invocations that hold, or believe they hold, the claim.
Walking == {"fetch", "store", "advance", "finish", "release"}

TypeOK ==
    /\ feed \in 0..MaxFeed
    /\ base \in 0..feed
    /\ held \in SUBSET (1..feed)
    /\ lost \in SUBSET (1..feed)
    /\ nextPage \in Nat
    /\ done \in BOOLEAN
    /\ claim \in {"none", "fresh", "stale"}
    /\ pc \in [Invocations -> Walking \cup {"idle", "reset", "claim"}]
    /\ page \in [Invocations -> Nat]
    /\ records \in [Invocations -> SUBSET (1..feed)]
    /\ seen \in [Invocations -> SUBSET (1..feed)]
    /\ more \in [Invocations -> BOOLEAN]
    /\ faults \in 0..MaxFaults
    /\ storeFailures \in 0..MaxStoreFailures
    /\ resets \in 0..MaxResets

-----------------------------------------------------------------------------
(* The provider's list, as PaymaxisClient.listPayments sees it.             *)

Page(k, f) == {r \in 1..f : k * PageSize <= f - r /\ f - r < (k + 1) * PageSize}

\* The provider's own answer, or the client's guess "a full page implies more".
\* When exactly the full page ends the list, the two differ.
HasMore(k, f) ==
    {m \in BOOLEAN :
        /\ m => (k + 1) * PageSize <= f
        /\ ~m => f <= (k + 1) * PageSize}

\* A payment reaches the provider; a webhook or the poll may store it at once.
NewPayment ==
    /\ feed < MaxFeed
    /\ feed' = feed + 1
    /\ held' \in {held, held \cup {feed + 1}}
    /\ UNCHANGED <<base, lost, cursor, invocation, bounds>>

-----------------------------------------------------------------------------
(* Opening a step: read the cursor, maybe reset it, decide, claim.          *)

Goto(i, label) == pc' = [pc EXCEPT ![i] = label]

\* The request is over, and its locals with it.
Leave(i) ==
    /\ Goto(i, "idle")
    /\ page' = [page EXCEPT ![i] = 0]
    /\ records' = [records EXCEPT ![i] = {}]
    /\ seen' = [seen EXCEPT ![i] = {}]
    /\ more' = [more EXCEPT ![i] = FALSE]

Fault ==
    /\ faults < MaxFaults
    /\ faults' = faults + 1
    /\ UNCHANGED <<storeFailures, resets>>

\* Seeded fault: a claim is only ever ended by its holder.
BusyForever(c) == c # "none"

\* A claim younger than CLAIM_TTL_MS is taken to be a live one.
Busy(c) == c = "fresh"

\* A walk that is done, or busy elsewhere, is reported and left alone.
Declined(i) ==
    /\ pc[i] = "idle"
    /\ done \/ Busy(claim)
    /\ UNCHANGED vars

Open(i) ==
    /\ pc[i] = "idle"
    /\ ~done /\ ~Busy(claim)
    /\ Goto(i, "claim")
    /\ UNCHANGED <<feed, base, held, lost, cursor, page, records, seen, more,
                   bounds>>

\* The upsert failed: the step goes on with a blank cursor, neither done nor
\* claimed, and the claim that follows reads the real one.
OpenUnread(i) ==
    /\ pc[i] = "idle"
    /\ Fault
    /\ Goto(i, "claim")
    /\ UNCHANGED <<feed, base, held, lost, cursor, page, records, seen, more>>

OpenForReset(i) ==
    /\ pc[i] = "idle"
    /\ resets < MaxResets
    /\ resets' = resets + 1
    /\ Goto(i, "reset")
    /\ UNCHANGED <<feed, base, held, lost, cursor, page, records, seen, more,
                   faults, storeFailures>>

\* Blanks the row, another invocation's live claim included.
ResetCursor(i) ==
    /\ pc[i] = "reset"
    /\ nextPage' = 0
    /\ done' = FALSE
    /\ claim' = "none"
    /\ Goto(i, "claim")
    /\ UNCHANGED <<feed, base, held, lost, page, records, seen, more, bounds>>

\* The claim is a write of its own, not conditional on what the read returned.
ClaimCursor(i) ==
    /\ pc[i] = "claim"
    /\ claim' = "fresh"
    /\ page' = [page EXCEPT ![i] = nextPage]
    /\ Goto(i, "fetch")
    /\ UNCHANGED <<feed, base, held, lost, nextPage, done, records, seen, more,
                   bounds>>

-----------------------------------------------------------------------------
(* One turn of the walk: fetch a page, store it, move the cursor.           *)

\* maxPages or the wall-clock budget is spent.
Stop(i) ==
    /\ pc[i] = "fetch"
    /\ Goto(i, "release")
    /\ UNCHANGED <<feed, base, held, lost, cursor, page, records, seen, more,
                   bounds>>

FetchPage(i) ==
    LET fetched == Page(page[i], feed) IN
    /\ pc[i] = "fetch"
    /\ fetched # {}
    /\ fetched # records[i]
    /\ records' = [records EXCEPT ![i] = fetched]
    /\ \E m \in HasMore(page[i], feed) : more' = [more EXCEPT ![i] = m]
    /\ Goto(i, "store")
    /\ UNCHANGED <<feed, base, held, lost, cursor, page, seen, bounds>>

FetchEmpty(i) ==
    /\ pc[i] = "fetch"
    /\ Page(page[i], feed) = {}
    /\ Goto(i, "finish")
    /\ UNCHANGED <<feed, base, held, lost, cursor, page, records, seen, more,
                   bounds>>

\* The same records as the page before: the code throws.  Exactly PageSize new
\* payments between two fetches look the same.
FetchRepeated(i) ==
    LET fetched == Page(page[i], feed) IN
    /\ pc[i] = "fetch"
    /\ fetched # {}
    /\ fetched = records[i]
    /\ Goto(i, "release")
    /\ UNCHANGED <<feed, base, held, lost, cursor, page, records, seen, more,
                   bounds>>

\* Seeded fault: a failed call is answered like an empty page.
FetchAnsweredEmpty(i) ==
    /\ pc[i] = "fetch"
    /\ Fault
    /\ Goto(i, "finish")
    /\ UNCHANGED <<feed, base, held, lost, cursor, page, records, seen, more>>

FetchFails(i) ==
    /\ pc[i] = "fetch"
    /\ Fault
    /\ Goto(i, "release")
    /\ UNCHANGED <<feed, base, held, lost, cursor, page, records, seen, more>>

StorePage(i) ==
    /\ pc[i] = "store"
    /\ held' = held \cup (records[i] \ seen[i])
    /\ seen' = [seen EXCEPT ![i] = @ \cup records[i]]
    /\ Goto(i, "advance")
    /\ UNCHANGED <<feed, base, lost, cursor, page, records, more, bounds>>

\* createMany failed; storePage logs it, reports stored: 0, and returns.
StoreSwallowed(i) ==
    /\ pc[i] = "store"
    /\ storeFailures < MaxStoreFailures
    /\ storeFailures' = storeFailures + 1
    /\ lost' = lost \cup ((records[i] \ seen[i]) \ held)
    /\ seen' = [seen EXCEPT ![i] = @ \cup records[i]]
    /\ Goto(i, "advance")
    /\ UNCHANGED <<feed, base, held, cursor, page, records, more, faults,
                   resets>>

\* Whether the walk goes on is the hasMore of the page just stored.
MoveTo(i, k) ==
    /\ pc[i] = "advance"
    /\ nextPage' = k
    /\ claim' = "fresh"
    /\ page' = [page EXCEPT ![i] = k]
    /\ more' = [more EXCEPT ![i] = FALSE]
    /\ Goto(i, IF more[i] THEN "fetch" ELSE "finish")
    /\ UNCHANGED <<feed, base, held, lost, done, records, seen, bounds>>

\* Seeded fault: increment the column, as the counters beside it do.
IncrementCursor(i) == MoveTo(i, nextPage + 1)

AdvanceCursor(i) == MoveTo(i, page[i] + 1)

\* The write that moves the cursor throws, or the one that finishes it: the
\* catch gives the claim up, and the next step starts where the cursor is.
CursorWriteFails(i) ==
    /\ pc[i] \in {"advance", "finish"}
    /\ Fault
    /\ Goto(i, "release")
    /\ UNCHANGED <<feed, base, held, lost, cursor, page, records, seen, more>>

-----------------------------------------------------------------------------
(* Leaving a step.                                                          *)

Finish(i) ==
    /\ pc[i] = "finish"
    /\ done' = TRUE
    /\ claim' = "none"
    /\ Goto(i, "release")
    /\ UNCHANGED <<feed, base, held, lost, nextPage, page, records, seen, more,
                   bounds>>

\* With or without lastError, the claim is given up.
Release(i) ==
    /\ pc[i] = "release"
    /\ claim' = "none"
    /\ Leave(i)
    /\ UNCHANGED <<feed, base, held, lost, nextPage, done, bounds>>

\* The platform kills the request, or a write outside the try throws.
Killed(i) ==
    /\ pc[i] # "idle"
    /\ Fault
    /\ Leave(i)
    /\ UNCHANGED <<feed, base, held, lost, cursor>>

\* CLAIM_TTL_MS passes.  A step is over (45s of budget, one 20s fetch) before
\* the claim it last wrote is 90s old, so a claim ages only when nobody walks.
ClaimAges ==
    /\ claim = "fresh"
    /\ \A i \in Invocations : pc[i] \notin Walking
    /\ claim' = "stale"
    /\ UNCHANGED <<feed, base, held, lost, nextPage, done, invocation, bounds>>

-----------------------------------------------------------------------------
\* Whatever the poll and the webhooks stored before the first step.
Init ==
    /\ feed \in 0..MaxFeed
    /\ base = feed
    /\ \E k \in 0..feed : held = (k + 1)..feed
    /\ lost = {}
    /\ nextPage = 0
    /\ done = FALSE
    /\ claim = "none"
    /\ pc = [i \in Invocations |-> "idle"]
    /\ page = [i \in Invocations |-> 0]
    /\ records = [i \in Invocations |-> {}]
    /\ seen = [i \in Invocations |-> {}]
    /\ more = [i \in Invocations |-> FALSE]
    /\ faults = 0
    /\ storeFailures = 0
    /\ resets = 0

Step(i) ==
    \/ Declined(i) \/ Open(i) \/ OpenUnread(i)
    \/ OpenForReset(i) \/ ResetCursor(i) \/ ClaimCursor(i) \/ Stop(i)
    \/ FetchPage(i) \/ FetchEmpty(i) \/ FetchRepeated(i) \/ FetchFails(i)
    \/ StorePage(i) \/ StoreSwallowed(i) \/ AdvanceCursor(i) \/ CursorWriteFails(i)
    \/ Finish(i) \/ Release(i) \/ Killed(i)

Next == NewPayment \/ ClaimAges \/ \E i \in Invocations : Step(i)

Spec == Init /\ [][Next]_vars

\* What a request does when nothing is refused, fails or is reset.
Proceed(i) ==
    \/ Open(i) \/ ResetCursor(i) \/ ClaimCursor(i)
    \/ Stop(i) \/ FetchPage(i) \/ FetchEmpty(i) \/ FetchRepeated(i)
    \/ StorePage(i) \/ AdvanceCursor(i) \/ Finish(i) \/ Release(i)

\* Somebody keeps calling (the browser loop, the scheduler), a running request
\* keeps running, and time passes.  A step may spend its budget before its
\* first page, so only a page being fetched again and again can be promised.
Fairness ==
    /\ WF_vars(ClaimAges)
    /\ SF_vars(\E i \in Invocations : FetchPage(i) \/ FetchEmpty(i))
    /\ \A i \in Invocations : WF_vars(Proceed(i))

FairSpec == Spec /\ Fairness

-----------------------------------------------------------------------------
(* What the walk promises.                                                  *)

\* Payments of the walk's own history at the first n positions of the list.
Reached(n) == {r \in 1..base : feed - r < n}

\* Every payment that existed when the walk began and that the saved cursor
\* has passed is stored, or was dropped by a page write the code swallowed:
\* neither a kill between two awaits, nor a failed call, nor a second
\* invocation walking the same pages, nor pages shifting under the walk as
\* payments arrive, nor a reset, makes the cursor skip a page.
WalkCovers == Reached(nextPage * PageSize) \subseteq held \cup lost

\* A cursor marked done has read the whole of that history.
DoneMeansCovered == done => (1..base) \subseteq held \cup lost

\* The walk implements that promise: a payment once accounted for stays so,
\* through kills, resets and overlapping invocations, and only a step that
\* finds the whole of the walk's history accounted for marks the cursor done.
Import == INSTANCE HistoryImport
            WITH history <- 1..base, known <- held \cup lost, complete <- done

IsHistoryImport == Import!ImportSpec

\* The walk ends for good once the resets do, whatever kills it on the way: a
\* claim left behind by a killed invocation never blocks it for ever.
WalkCompletes == <>[]done
=============================================================================
