----------------------------- MODULE PspLedger ------------------------------
(***************************************************************************)
(* One connection's stored ledger, PspTransaction, kept up to date by       *)
(* PspSyncService.sync and importRows.  Runs overlap: the scheduler, the    *)
(* Sync button and every open ledger page (usePspAutoSync) start them.      *)
(*                                                                          *)
(* Payments are numbered in the order the provider got them; its list is    *)
(* newest first and is paged by offset, so a payment that arrives shifts    *)
(* every page.  Records without an id, which are never stored, are left out.*)
(***************************************************************************)
EXTENDS Naturals, FiniteSets, FiniteSetsExt

CONSTANTS
    Runs,        \* syncs and imports that may be under way at once
    Modes,       \* values of opts.full they are started with
    PageSize,    \* endpoint.pagination.pageSize
    MaxPages,    \* MAX_PAGES
    Backlog,     \* bound: payments it has before the first sync
    MaxFeed,     \* bound: payments it ever has
    MaxEvents    \* bound on settlements, on files imported, and on runs that
                 \* fail, are killed or are out of time

ASSUME LedgerAssumption ==
    /\ PageSize \in Nat \ {0}
    /\ MaxPages \in Nat \ {0}
    /\ MaxFeed \in Nat
    /\ Backlog \in 0..MaxFeed
    /\ Modes \subseteq BOOLEAN
    /\ MaxEvents \in Nat

VARIABLES
    feed,     \* number of payments the provider has
    final,    \* those that have settled
    ignores,  \* whether it ignores the offset parameter
    cap,      \* the most it returns when PageSize is asked for
    status,   \* stored status of each payment, "none" when it has no row
    run,      \* what each run is doing
    health,   \* lastOkAt and lastError: how the last run to end had gone
    files, faults

provider == <<feed, final, ignores, cap>>
bounds == <<files, faults>>
vars == <<provider, status, run, health, bounds>>

Payments == 1..MaxFeed
Statuses == {"waiting", "confirmed"}

Idle == [pc |-> "idle", full |-> FALSE, file |-> FALSE, pages |-> 0, todo |-> {},
         found |-> FALSE, seen |-> {}, fresh |-> FALSE, again |-> FALSE,
         short |-> FALSE, stop |-> "none", base |-> 0]

Run == [pc : {"idle", "fetch", "find", "write", "finish"},
        full : BOOLEAN, file : BOOLEAN,
        pages : 0..MaxPages,
        todo : SUBSET (Payments \X Statuses),
        found : BOOLEAN,
        seen : SUBSET Payments,      \* seenThisRun
        fresh : BOOLEAN,             \* newOnThisPage > 0
        again : BOOLEAN,             \* every id of the page is a repeat
        short : BOOLEAN,             \* rows.length < pageSize
        stop : {"none", "end", "limit", "time", "ignored", "current", "file"},
        base : Payments \cup {0}]    \* ghost: feed when the run began

TypeOK ==
    /\ feed \in 0..MaxFeed
    /\ final \in SUBSET (1..feed)
    /\ ignores \in BOOLEAN /\ cap \in 1..PageSize
    /\ status \in [Payments -> Statuses \cup {"none"}]
    /\ run \in [Runs -> Run]
    /\ \A r \in Runs : run[r].base <= feed
    /\ health \in {"untried", "ok", "error"}
    /\ files \in 0..MaxEvents /\ faults \in 0..MaxEvents

Fault == faults < MaxEvents /\ faults' = faults + 1 /\ UNCHANGED files
Become(r, state) == run' = [run EXCEPT ![r] = state]

-----------------------------------------------------------------------------
(* The provider.                                                            *)

Listed(p) == IF p \in final THEN "confirmed" ELSE "waiting"

\* The page that starts after the offset newest payments.
Page(offset) ==
    {p \in 1..feed : offset <= feed - p /\ feed - p < offset + cap}

Answer(r) == Page(IF ignores THEN 0 ELSE run[r].pages * PageSize)

NewPayment ==
    /\ feed < MaxFeed
    /\ feed' = feed + 1
    /\ UNCHANGED <<final, ignores, cap, status, run, health, bounds>>

Settle ==
    /\ Cardinality(final) < MaxEvents
    /\ \E p \in (1..feed) \ final : final' = final \cup {p}
    /\ UNCHANGED <<feed, ignores, cap, status, run, health, bounds>>

-----------------------------------------------------------------------------
(* sync.                                                                    *)

Begin(r) ==
    /\ run[r].pc = "idle"
    /\ \E full \in Modes :
        Become(r, [Idle EXCEPT !.pc = "fetch", !.full = full, !.base = feed])
    /\ UNCHANGED <<provider, status, health, bounds>>

Stop(r, why) ==
    Become(r, [run[r] EXCEPT !.pc = "finish", !.stop = why])

AtLimit(r) == run[r].pages >= MaxPages

\* Both limits are looked at before each call.
StopAtLimit(r) ==
    /\ run[r].pc = "fetch"
    /\ AtLimit(r)
    /\ Stop(r, "limit")
    /\ UNCHANGED <<provider, status, health, bounds>>

OutOfTime(r) ==
    /\ run[r].pc = "fetch"
    /\ run[r].pages > 0 /\ ~AtLimit(r)
    /\ Fault
    /\ Stop(r, "time")
    /\ UNCHANGED <<provider, status, health>>

\* Seeded fault: a page that is exactly full counts as the last one.
ShortPageOrFull(records) == Cardinality(records) <= PageSize

ShortPage(records) == Cardinality(records) < PageSize

Remember(r, records) == run[r].seen \cup records

\* callPsp, then the rows of the page that this run has not handled.
FetchPage(r) ==
    LET records == Answer(r)
        new == records \ run[r].seen
    IN
    /\ run[r].pc = "fetch"
    /\ ~AtLimit(r)
    /\ IF records = {}
       THEN Become(r, [run[r] EXCEPT !.pc = "finish", !.stop = "end", !.pages = @ + 1])
       ELSE Become(r, [run[r] EXCEPT
                !.pc = "find",
                !.pages = @ + 1,
                !.todo = {<<p, Listed(p)>> : p \in new},
                !.seen = Remember(r, records),
                !.fresh = FALSE,
                !.again = (new = {}),
                !.short = ShortPage(records)])
    /\ UNCHANGED <<provider, status, health, bounds>>

\* A page of HTML, a stated refusal, no answer: fail() keeps what is stored.
FetchFails(r) ==
    /\ run[r].pc = "fetch"
    /\ ~AtLimit(r)
    /\ Fault
    /\ Become(r, Idle)
    /\ health' = "error"
    /\ UNCHANGED <<provider, status>>

-----------------------------------------------------------------------------
(* store: findUnique, then update or create.                                *)

\* Rows are stored in the order of the list.
IsNext(r, t) == t \in run[r].todo /\ \A u \in run[r].todo : u[1] <= t[1]

Find(r) ==
    /\ run[r].pc = "find"
    /\ \E t \in run[r].todo :
        /\ IsNext(r, t)
        /\ Become(r, [run[r] EXCEPT !.pc = "write", !.found = status[t[1]] # "none"])
    /\ UNCHANGED <<provider, status, health, bounds>>

\* Seeded fault: a row that exists is left as it is.
UpdatedStatus(old, new) == old

RefreshedStatus(old, new) == new

Update(r, t) ==
    /\ run[r].found
    /\ status' = [status EXCEPT ![t[1]] = RefreshedStatus(@, t[2])]
    /\ Become(r, [run[r] EXCEPT !.pc = "find", !.todo = @ \ {t}])

Create(r, t) ==
    /\ ~run[r].found /\ status[t[1]] = "none"
    /\ status' = [status EXCEPT ![t[1]] = t[2]]
    /\ Become(r, [run[r] EXCEPT !.pc = "find", !.todo = @ \ {t}, !.fresh = TRUE])

\* Another run has created it since: the unique index refuses, sync throws.
Collide(r, t) ==
    /\ ~run[r].found /\ status[t[1]] # "none"
    /\ Become(r, Idle)
    /\ UNCHANGED status

Write(r) ==
    /\ run[r].pc = "write"
    /\ \E t \in run[r].todo :
        IsNext(r, t) /\ (Update(r, t) \/ Create(r, t) \/ Collide(r, t))
    /\ UNCHANGED <<provider, health, bounds>>

UpToDate(r) == ~run[r].fresh

\* The tests after a page, in their order.
EndPage(r) ==
    /\ run[r].pc = "find"
    /\ run[r].todo = {}
    /\ CASE run[r].file -> Stop(r, "file")
         [] ~run[r].file /\ run[r].again -> Stop(r, "ignored")
         [] ~run[r].file /\ ~run[r].again /\ ~run[r].full /\ UpToDate(r) -> Stop(r, "current")
         [] /\ ~run[r].file /\ ~run[r].again
            /\ run[r].full \/ ~UpToDate(r)
            /\ run[r].short -> Stop(r, "end")
         [] OTHER -> Become(r, [run[r] EXCEPT !.pc = "fetch"])
    /\ UNCHANGED <<provider, status, health, bounds>>

Finish(r) ==
    /\ run[r].pc = "finish"
    /\ Become(r, Idle)
    /\ health' = "ok"
    /\ UNCHANGED <<provider, status, bounds>>

\* The host kills the function, or a read or write of the database throws.
Killed(r) ==
    /\ run[r].pc # "idle"
    /\ Fault
    /\ Become(r, Idle)
    /\ UNCHANGED <<provider, status, health>>

-----------------------------------------------------------------------------
\* importRows: a file somebody downloaded, perhaps a while ago.
Import(r) ==
    /\ run[r].pc = "idle"
    /\ files < MaxEvents
    /\ files' = files + 1
    /\ \E S \in SUBSET (1..feed) \ {{}}, old \in SUBSET final :
        Become(r, [Idle EXCEPT
            !.pc = "find", !.file = TRUE, !.base = feed,
            !.todo = {<<p, IF p \in old THEN "confirmed" ELSE "waiting">> : p \in S}])
    /\ UNCHANGED <<provider, status, health, faults>>

-----------------------------------------------------------------------------
Init ==
    /\ feed \in 0..Backlog
    /\ final = {}
    /\ ignores \in BOOLEAN /\ cap \in 1..PageSize
    /\ status = [p \in Payments |-> "none"]
    /\ run = [r \in Runs |-> Idle]
    /\ health = "untried"
    /\ files = 0 /\ faults = 0

Sync(r) ==
    \/ StopAtLimit(r) \/ FetchPage(r) \/ Find(r) \/ Write(r)
    \/ EndPage(r) \/ Finish(r)

Next ==
    \/ NewPayment \/ Settle
    \/ \E r \in Runs : Begin(r) \/ Import(r) \/ Sync(r)
    \/ \E r \in Runs : FetchFails(r) \/ OutOfTime(r) \/ Killed(r)

Spec == Init /\ [][Next]_vars

\* Runs keep being started (scheduler, open pages) and go on once started.
Fairness == \A r \in Runs : WF_vars(Begin(r)) /\ WF_vars(Sync(r))

-----------------------------------------------------------------------------
(* What the ledger promises.                                                *)

\* At a provider that returns as many records as are asked for, a sync that says
\* it reached the end of the list (psp-sync.service.ts:320) has a row for every
\* payment the provider had when it began, however the pages shifted under it
\* and whatever else was writing, or was cut off.
EndIsWhole ==
    \A r \in Runs : run[r].stop = "end" /\ cap = PageSize =>
        \A p \in 1..run[r].base : status[p] # "none"

\* psp-sync.service.ts:361: the ledger catches up, again and again, with every
\* payment on the newest page that has settled, although runs overlap, abandon
\* each other, die, and files put old statuses back.
FirstPageCurrent == []<>(\A p \in Page(0) \cap final : status[p] = "confirmed")

\* psp-sync.service.ts:231: "run it again to continue".  Runs that are repeated
\* store the whole list in the end.
RunAgainContinues ==
    \A p \in Payments : (p <= feed /\ ~ignores) ~> status[p] # "none"

-----------------------------------------------------------------------------
(* Why the end of the list is the end.                                       *)

\* Offsets only ever fall behind, for payments that arrive push the list down:
\* what lies above the next page, of the payments there were when the run
\* began, has been seen; when a page is short, and not because of a cap, nothing
\* lies below it.  And what a run has seen is stored, or still to be.
Keeps(state) ==
    /\ state.stop = "end" /\ cap = PageSize => \A p \in 1..state.base : status[p] # "none"
    /\ \A p \in state.seen : status[p] # "none" \/ \E t \in state.todo : t[1] = p
    /\ state.pc = "fetch" => state.todo = {}
    /\ ~ignores /\ cap = PageSize =>
           \A p \in 1..state.base : p + state.pages * PageSize > feed => p \in state.seen
    /\ state.short /\ cap = PageSize => 1..state.base \subseteq state.seen

LedgerInv == \A r \in Runs : Keeps(run[r])
=============================================================================
