# OpsOS: verification project

TLA+ models of the parts of OpsOS (the Ops-Dashboard repository) in which
several requests, a scheduler, a payment provider and its callbacks change the
same rows without a transaction around them, and of the figures that are derived
from those rows, with TLC runs that check them on small instances and TLAPS
proofs of every safety and action property those runs hold to.

1. [The system](#1-the-system): its components, their state and operations
2. [The modules](#2-the-modules): what each models and how it corresponds to the code
3. [The runs](#3-the-runs): what each checks, its bounds, what it shows
4. [Fairness](#4-fairness)
5. [The proofs](#5-the-proofs)
6. [Where the code and its words differ](#6-where-the-code-and-its-words-differ)
7. [What is not modelled](#7-what-is-not-modelled)
8. [The plan](#8-the-plan)

Paths without a prefix are under `src/apps/api/src/`.

## 1. The system

OpsOS is a Next.js front end and a NestJS API over PostgreSQL. It is deployed as
serverless functions: there is no long-running process, several invocations of
the same handler run at once on different instances, memory is not shared, and
the host may end any of them after 60 seconds. Almost no handler opens a
transaction. So what one handler reads before an `await` another may have changed
after it, and a handler may stop between any two of its writes. That is where its
difficulty lies, and what most modules are about. The others are about order:
computations whose result depends on which row is looked at first.

| Component | State it keeps | Operations | Interacts with |
|---|---|---|---|
| Historical import (`paymaxis/paymaxis.service.ts` `backfillStep`, `backfillShop`) | `PaymaxisBackfill`: next page, done, claim; rows of `PaymentEvent` | a step: claim, walk pages, release; reset | driven by browser tabs' loop (`data-coverage.tsx`) and by the scheduler; races the poll and the callbacks |
| Import of exported files (`importExportRows`) | rows of `PaymentEvent` with source `import` | upload a batch: look, replace, insert | the poll, the callbacks, other uploads |
| Payment poll (`syncShop`, `storePage`) | `PaymentEvent`, `PollWatermark`, an in-memory watermark | poll: page until caught up, store what is new, announce it | timer, `refresh`; publishes on the live bus |
| Callbacks (`webhooks/webhooks.service.ts`) | `PaymentEvent` | a callback: store, announce | provider (late, duplicated) |
| Refresh gate (`refresh`) | three marks in `PollWatermark` | ask; claim; sync; mark | every open dashboard |
| Live feed (`dashboard/dashboard.service.ts` `liveFeed`, web `use-live-feed.ts`) | a cursor per browser; what it has shown | ask for what is after the cursor | reads `PaymentEvent` rows as they commit |
| PSP ledger (`psps/psp-sync.service.ts` `sync`, `store`, `importRows`) | `PspTransaction`, `PspConnection` health | full or incremental sync, import of a file | scheduler, button, open ledger pages; a provider that pages by offset and may ignore it |
| PSP rotation (`syncAll`) | `PspConnection.lastSyncAt` | one pass over all connections within 40 s | PSP ledger |
| PSP balance (`psps/psp-balance.service.ts`) | anchors with a baseline | enter a figure read off the portal; estimate = figure + movement since | PSP ledger, `PaymentEvent` |
| PSP reconciliation (`psps/psp-reconcile.service.ts`, `payment-events.ts`) | none | compare a provider's statement with a ledger | `PaymentEvent`, `PspTransaction` |
| Notifications (`notifications/notifications.service.ts` `record`) | `Notification` | a pass over what the detectors find: row, mail, record of the mail | scheduler and every open dashboard; mail provider |
| Shift desk (`shifts/shifts.service.ts`, `ops-day.ts`) | `Shift`, `ShiftTask` | start, end, add task, update task | several people at once |
| Incidents (`modules/modules.service.ts`) | `Incident`, its timeline, tags, `IncidentCategory` | declare, update, tag; create, retire, seed a category | detectors, several people |
| KYC (`kyc/kyc.service.ts`) | `KycCase`, `Client.kycStatus` | read a day per account, refresh a client's standing, enrich | provider; a nightly run, the Compliance screen |
| Reconciliation cases (`recon/recon.service.ts`, web `lib/recon/cases.ts`) | `ReconCase`; a page's state and `localStorage` | load, edit, save | several operators |
| Reconciliation engine (web `lib/recon/v15`) | none | two layers and a master over three kinds of file | an operator's files |
| Accounts (`admin/admin-users.service.ts`, `auth/google.service.ts`) | `User` | create, update, first sign-in | administrators, Google |

What is hard in each, and at which line, is the list of hazards in
`PROJECT.json`; the properties below are written against that list. One of them has no
property that holds: a ledger longer than one run reads (`psp-sync.service.ts:229`,
section 6).

Properties that make each component correct:

- *import*: the cursor never passes a payment nobody holds; done means the history
  has been read; the walk ends.
- *files*: an upload repairs what a file brought and never touches what the provider sent.
- *poll and callbacks*: what is announced is stored; what is stored is announced,
  once; whatever reaches the newest page is stored.
- *gate*: the age shown is never younger than the data; runs keep their distance;
  polling never stops.
- *live feed*: no row twice, no gap.
- *PSP ledger and rotation*: "reached the end" means everything is there; settlements on the
  newest page arrive; no connection starves.
- *balance*: the estimate is the provider's balance once the ledger has caught up.
- *statement*: the net difference is that of the payments it names, to the cent for each of the others.
- *notifications*: one row for a condition within the cool-off; what goes on is told.
- *shift desk*: one shift open; consecutive numbers; true receipts; nobody closes over
  their own open work unawares.
- *incidents*: no line of the timeline is lost; a time of resolution exactly when resolved;
  tags are somebody's choice; what was retired stays retired.
- *KYC*: no day is skipped; a client's standing is that of the latest verification; every
  verification is enriched.
- *cases*: what is stored is what was last asked for; a resolved case stays resolved.
- *engine*: a settled attempt goes before a declined one, a certain match before a guess;
  reconciled means all agree; nothing that succeeded is folded away; a conflict is reported.
- *accounts*: there is always an active administrator.

## 2. The modules

In each module one action is the code between two awaits; the awaits are where
anything else may happen. A `pc` per request says which await it is at. Ghost
variables (named as such) record history the properties need and are never read by
an action's guard. Definitions marked *Seeded fault* are plausible
mistakes: substituted for the definition below them they break a property, which is how
each property is known to depend on the code it is about.

### Rows that others write at the same time

**`Backfill`**: `backfillStep` and `backfillShop` over one cursor row. Payments are
numbered in the order the provider got them and its list is newest first, so page `k` is
a set of positions in a list that grows at its head. `Open`/`OpenUnread`/
`OpenForReset` are the read of the cursor (and its failure), `ClaimCursor` the
unconditional write of the claim, `FetchPage`/`FetchEmpty`/`FetchRepeated`/`FetchFails`
the four answers, `StorePage`/`StoreSwallowed` the `createMany` that works or fails
silently, `AdvanceCursor` the write of the next page, `CursorWriteFails` one of the last two that
throws and so lands in the catch, `Finish`, `Release` and `Killed` the ends. A claim's age has two values, younger or older than its time to live.

**`HistoryImport`** is the abstract specification of an import: a history, what is known of it, and
whether it is said to be complete. `Learn` only adds, `Conclude` needs the whole history, `Restart` loses nothing.
`Backfill` implements it with the walk's history, the payments stored or dropped with a line in the log, and the cursor's `done`.

**`FileImport`**: `importExportRows`. A row of `PaymentEvent` is a key and who sent it: the provider, or the upload with that number.
The read of what is held (`FindHeldBy`), the start of the transaction (`BeginReplace`) and its commit (`CommitUpload`) are
separate. The `deleteMany` sees the rows as they are when it starts, and deletes of them those still there when
another transaction that holds them has committed (PostgreSQL's read committed).

**`PaymentIngest`**: three writers of `PaymentEvent`. The poll (`BeginPoll` … `Poll`) reads its
watermark, fetches pages, asks which rows are known, writes the others and announces
those it believed new; a callback stores and then announces; an import stores
without announcing. A row is a payment and a state, as in `dedupeKey`. The provider `tells` whether there is more behind a page or leaves it to the
client, which then takes a full page for a sign that there is. The ghosts: `misread`, the read of what is known failed; `outrun`, a page's worth arrived between
two fetches of a poll.

**`RefreshGate`**: `refresh`. Instants are ages in ticks, capped where they stop
mattering. The read of the marks, the claim, the sync and the three marks after it are
separate actions; an error path writes the error instead. A sync may store everything, end in an error, or lose payments in a `createMany` whose failure is only
logged, after which the code writes `lastOkAt` all the same: `arrived` is the age of the newest run of the first kind, `swallowed` of the last (both ghosts).

**`LiveFeed`**: `liveFeed` and the browser hook that calls it. A row is stamped when its
insert starts and visible when it commits, in any order; the cursor is
`receivedAt|id`, one number here, with several rows to a millisecond.

**`PspLedger`**: one connection's `sync`, `store` and `importRows`. A run pages a list that
grows and settles under it, at a provider that may ignore the offset and may return fewer records than it is asked for (`cap`, anything up to `PageSize`); find, then
update or create, are separate, with the unique index deciding a collision. Records
without an id are never stored and are left out.

**`PspRotation`**: `syncAll` over an order of connections. A sync is an outcome and a cost, up to `FailCost` for one that gets no answer and up to `Slowest`, more than the pass's
own budget, for one that succeeds. One that outlasts the function takes the pass with it (`Outlasts`). Which providers do not answer (`down`) is fixed for a behaviour.

**`Notifications`**: `record`. Each detection is looked up, created or refreshed, mailed
and marked, with a failure possible in each statement. Marking as read is left out: it
changes a column nothing here reads. No tick falls within a pass: a tick is hours.

**`ShiftDesk`**: `start`, `end`, `addTask`, `updateTask`, `previous`, and `ops-day.ts` as
operators (`OpsDay`, `SlotFromClock`, `NextSlot`). The shift `end` and `addTask` find is
any open one: `findFirst` has no order there. The last ended shift is by `endedAt`.

**`Accounts`**: `create`, `update` and `findOrCreate`. An update is read, count of the other administrators,
write; its guards (own role, own account) are those of the code. `adminRaced` becomes true when an update that ends an administrator's
rights is written over another it did not see.

**`Incidents`**: `declareIncident` as one upsert by signature, `updateIncident` as a read and a write of the columns
and the whole timeline. A line is what it says: a status or a note.

**`IncidentTags`**: `tagIncident` as its chain of upserts, delete and inserts, and the list of categories:
`createIncidentCategory`, `setIncidentCategoryActive`, and `seedStarterCategories` as count and write.

**`ReconCases`**: `loadCases`, `saveCase`, `getCases`, `saveCases` and the page's `updateCase`. A page edits what it shows;
saves are under way together and arrive in any order or not at all.

### Figures derived from rows

**`KycImport`**: `syncRecent`, `syncFromProvider`, `importVerifications`, `refreshClientStatus` and the two readers of the
Compliance screen (`useCatchUp`, `syncUntilDone`). A run reads a day of one account at a time, writes it, and refreshes the
clients in it by a read and a write. No day passes within a run. The night starts at the newest day held (`HeldDay`), `LookBack` days ago when there is none (7 in the code), and,
since a verification without a date is stamped with the day of its import, possibly at any day since (`StartDays`, where `Undated`; more than the code allows, as which rows have no date is not kept).

**`KycEnrich`**: `enrich`. A pass takes the newest rows still pending, a limited number of them, and fills two columns of each.

**`PspBalance`**: `setAnchor` and the estimate of `view`. A payment begins, its money moves, it may be reversed, and its row reaches the
ledger at any time later. Reading the portal, measuring the baseline and entering the figure are three actions, between which all of that may
happen and the field a fee is read from may be mapped. `Arrived` is the top-up by rows first seen since the entry.

**`PspReconcile`**: `latestPerPayment`, `ledger` and `reconcile` for a connection whose ledger is the Paymaxis event log. `CompareRow`
is the body of the loop; `net` is what it sums, and `agreed` the lines it leaves out because the two figures differ by a cent at most. At a cent exactly either may happen: 0.01 is
not a binary number.

**`ReconEngine`**: `reconcileCrmVsCashier` (Layer 1), `reconcileCashierVsPsps` (Layer 2) and `buildReconOne` with `chainRow` and `combine` (the master), one action per row of each pass, over files of rows
that keep only what the passes read; any of them may be empty. `Family` is the set of attempts linked by an identifier. `LayerClass` and `MasterClass` are the two readings of one status: AWAITING WEBHOOK is a failure to the
layers and PROCESSING a success, and both are in flight to the master. A dropped cashier row is reported by what it `says`: a provider's fault before any word of its state, and a decline only by a word that is also a failure's.

### How they meet

`Backfill`, `PaymentIngest` and `FileImport` meet in `PaymentEvent`: in the first, the other writers are
`NewPayment`'s choice whether a new payment is stored at once; in the second, imports
are one action; in the third, the poll and the callbacks are `ProviderStores`. `LiveFeed` takes rows as committing on their own,
whoever writes them. `PspReconcile` reads a log in which the states of a payment arrived in any order. `PspBalance` takes from `PspLedger` that a
row is stored some time after its payment moved. `PspRotation` uses of `PspLedger` that a sync ends, with an outcome. `RefreshGate` uses of
`PaymentIngest` that a sync succeeds, fails or is killed. `KycEnrich` uses of `KycImport` that rows arrive at the top.

The `MC*` modules give each module's constants the members TLC needs. Three of them put modules side by side that share no state,
so that one run explores each of them: `MCSchedules` (`RefreshGate`, `PspRotation`, `KycEnrich`), `MCRecords` (`Accounts`, `Incidents`,
`IncidentTags`, `ReconCases`, `FileImport`) and `MCFigures` (`PspBalance`, `KycImport`, `ReconEngine`, `PspReconcile`). A behaviour is of one
module, chosen in the initial state; the variables of the others stay at a fixed initial value, so that nothing is multiplied.
The theorems are in modules of their own: `BackfillProofs`, `PaymentIngestProofs`, `LiveFeedProofs`, `ShiftDeskProofs`, `LedgerProofs` (`PspLedger`, `PspReconcile`, `ReconEngine`),
`FiguresProofs` (`RefreshGate`, `KycImport`, `PspBalance`) and `RecordsProofs` (`Accounts`, `FileImport`, `IncidentTags`, `Incidents`, `ReconCases`, `Notifications`), over the lemmas of
`SetLemmas`. What keeps a property, where it is more than the property, is defined at the end of the component's own module.

## 3. The runs

Every passing run explores the whole state space of its bounds, in less than three minutes each. Runs with liveness properties use no symmetry.

| Run | Instance | Properties |
|---|---|---|
| `backfill` | 2 invocations, page of 1, 2 payments, 2 faults, 1 swallowed write, 1 reset | `WalkCovers`, `IsHistoryImport`, `WalkCompletes` |
| `ingest` | 2 polls, page of 2, 2 pages; 2 payments and a third, 1 adverse event; or 3 payments and two more, a provider that does not tell whether there is more | `PollAnnouncesStored`, `RepeatsOnlyWhenRaced`, `FirstPageStored`, `BurstStored`, `StoredIsAnnounced` |
| `feed` | 2 writers, 1 viewer, 2 rows an answer, 2 rows a millisecond, 3 milliseconds, 1 fault | `NothingRepeated`, `MissedOnlyIfLate`, `NewRowsShown` |
| `notify` | 2 passes, 2 conditions (1 mailed), cool-off 1, 1 fault | `OncePerCoolOff`, `FiringIsTold` |
| `psp_ledger` | 2 runs, page of 2, 3 pages, full and incremental, offset heeded or not; a list of 3 that grows, 1 fault; 2 payments, 1 settlement, 1 old file, 1 fault; 2 that grow, 1 settlement, 1 fault, a cap of 1; 6 payments | `EndIsWhole`, `FirstPageCurrent` |
| `shifts` | an agent and a manager, 2 shifts, 1 task, 2 ends, 2 task requests, 6 ticks of 4 hours | `OneShiftOpen`, `NumbersFollow`, `ReceiptIsTrue`, `ClosedOverNothing`, `DoneIsSigned` |
| `schedules` | gate: 2 tabs, floor 4, forced floor 2, 2 faults; rotation, in ticks of 15 s: 4 connections, 0 to 3 down, budget 2, failure 1, slowest 4, kill at 4, 1 failure or kill besides; enrichment: 4 rows, 1 nameless, 1 unanswered, limit 3 | `NeverFresherThanData`, `RunsSpaced`, `GateKeepsPolling`, `RotationStarvesNone`, `EnrichReachesAll` |
| `records` | accounts: 3 people, 2 administrators, 2 requests, 2 writes; incidents: 1 signature, 4 statuses, 2 editors, 2 lines; tags: 2 categories, 1 a starter, 2 taggers; cases: 2 browsers, 3 edits; files: 2 keys, 2 uploaders, 3 uploads | `AdministratorLeft`, `TimelineWhole`, `ResolvedAtIsTrue`, `TagsAsAsked`, `RetiredStays`, `StoredIsLastEdit`, `ImportRepairsOnly` |
| `figures` | balance: a deposit and a payout, 1 figure, fees mapped or not, dates that move or not; standing: 2 runs, 2 accounts, 2 days, 2 verifications of 1 client, undated ones too, 1 cut; engine: up to 2 rows of each kind of file in the combinations of classes and words that matter, linked or not, routed or not, files missing; statement: 3 lines against 3 or 4 events of 2 or 3 payments, reading 3, figures one and two cents apart | `EstimateIsTrue`, `NoDaySkipped`, `StandingIsLatest`, `SettledFirst`, `ExactFirst`, `ReconciledIsAgreed`, `FoldedIsHarmless`, `DriftIsItemised` |
| `recon_reopens` | 2 browsers, 3 edits | `NeverReopened` is violated (section 6) |
| `kyc_downtime` | 2 runs, 3 days | `DowntimeCaughtUp` is violated |
| `engine_conflict` | the files of `figures` | `ConflictIsReported` is violated |

Deadlock is not checked in `MCRecords` and `MCFigures`: their bounds on edits and uploads are used up, and a computation over files ends.

Why the bounds are enough. Two actors, because every hazard listed is between two requests: a third
adds no new pair. Pages are of one or two
records and lists of two or three, because what matters is whether an arrival pushes a
record over a page's end, and whether there is a page before and after the one it happens on. Two runs take their bounds from a few *plans* (`MCPaymentIngest`,
`MCPspLedger`), one of which a behaviour is of: in `ingest` the second lets a page's worth arrive between two fetches, while every fault is in the first; in `psp_ledger` each
hazard meets the one it could combine with: a list read to a partial last page while it grows under a run that is cut off, a settlement crossed by an old file *and* a fault, a
provider that returns less than a page, a list longer than a run reads. The budgets of failures are small because a failure's
effect is what it leaves behind, which the rest of the run then meets in every order;
two faults in `backfill` let an invocation be killed while it holds the claim and the one
that comes next fail too. Two rows of each kind of file are the fewest with which a row can be taken from another. What the proofs of section 5 establish
does not depend on any bound.

Several properties hold only while requests do not overlap in a certain way, and say so with a ghost
(`raced`, `adminRaced`, `muddled`, `jumped`, `torn`, `crossed`, `starting`, `ending`): the code takes no lock there, and the
hazards name the comments that claim more. The property then says that this race is the *only* way to lose what it promises: failures, kills, late answers and
other writers stay.

- `WalkCovers`: every payment of the walk's history that the saved cursor has passed is stored
  or was in a page whose write failed and was swallowed. Arrivals only push older payments
  further down the list, so a stale cursor re-reads and never skips.
- `IsHistoryImport`: the refinement. `WalkCompletes`: with two racing invocations; a claim left by a
  killed one ages and stops blocking.
- `PollAnnouncesStored`: whatever the poll announces is in the table, whichever writers race or fail.
- `RepeatsOnlyWhenRaced`: without overlapping polls, callbacks and failed reads of what is known no row is announced twice, whatever else fails: fetches, writes, watermarks, kills.
- `FirstPageStored`: the state of a payment on the newest page is stored, unless the payment leaves that page first.
- `BurstStored`: a burst longer than a page is stored whole, given no failure, callback or import, and no poll that is `outrun`: when a page's worth arrives between two
  fetches the second page repeats the first, the batch has nothing new, the poll stops (:618) and so does the next, at what this one stored. The run contains that case, and TLC refutes the formula without the condition (section 6).
- `StoredIsAnnounced`: whoever writes a row announces it, while nothing is killed, fails or is imported.
- `NeverFresherThanData`: the age shown is less than that of the newest run whose payments are all stored only when a later run lost some without saying so, and then it is at least that run's. `RunsSpaced`: runs keep the forced
  floor apart, unless one is decided on between another's reading of the marks and its writing of them. `GateKeepsPolling`: whatever failed, a run comes again.
- `OncePerCoolOff`: two rows for one condition within a cool-off need two passes that both found it untold. `FiringIsTold`: a condition that goes on gets a row.
- `MissedOnlyIfLate`: behind its cursor a viewer lacks only rows that committed after it had
  read past them. The page limit never causes a gap.
- `EndIsWhole`: a sync that says it reached the end has every payment that existed when it
  began, at a provider that returns as many records as are asked for. With one that caps its answers the first page looks like the last (section 6).
  `FirstPageCurrent`: settlements on the newest page reach the ledger, although a run dies or is abandoned or a file puts the status back.
- `RotationStarvesNone`: every connection that works is synced again and again as long as those that do not answer can be paid for (`Affordable`: two of them, at 15 s of 40). The
  run has none, one, two and three down; with three the formula claims nothing, because the code does not keep it (section 6). A sync that succeeds may take longer than the pass's budget, and a pass may be killed.
- `EnrichReachesAll`: while fewer rows than the limit can never be completed, all others are. Rows without an applicant id stay pending for ever and hold
  their place in every pass: with as many of them as the limit, older rows would never be asked about.
- `NumbersFollow`: handovers of a day, ends not overlapping, are numbered without gap or repetition across a rollover.
- `ReceiptIsTrue`: a recorded handover is that of the last shift to end before the opening,
  starts not overlapping. `ClosedOverNothing`: a task closed over was the manager's decision or changed
  during the close. `DoneIsSigned`: however two updates cross, a done task names who did it.
- `AdministratorLeft`: the last administrator goes only when one demotion is written over another it did not see.
- `TimelineWhole`: every line an update was answered for is there, and the last status told is the status, unless one update was written over another.
  `ResolvedAtIsTrue`: set exactly while resolved, in every interleaving, and to the time it became so.
- `TagsAsAsked`, `RetiredStays`: a category nobody asked for never appears, an undisturbed request leaves exactly its list, and no seeding brings back what was retired.
- `StoredIsLastEdit`: with nothing under way, each field of the stored case is as it was last asked to be, unless an edit began from another case than the stored one, or saves
  overlapped or were lost.
- `ImportRepairsOnly`: whoever else writes between an upload's look and its commit, the provider's rows stay, no key loses its row, and after
  the commit each key of the batch is held by the provider or from this file, but for one that another upload stored meanwhile.
- `EstimateIsTrue`: once the ledger has caught up the estimate is the provider's balance, to the fees not read. Its condition `Movable` says for which
  figures: see the limits below.
- `NoDaySkipped`: from the first day ever read up to the newest held every day is held whole, unless somebody reads past it. `StandingIsLatest`: a client's standing is that of their latest
  verification when the runs that touched them have refreshed it without one crossing another.
- `SettledFirst`, `ExactFirst`: for every order of the rows. To the layers PROCESSING is settled too (`status.ts:21`), so a PROCESSING retry can take the row before the attempt that succeeded:
  "settled successes are matched first" (`families.ts`) is true of what the layers call settled. `ReconciledIsAgreed`: also says that no leg a layer *claimed* and the master does not look at has failed.
  `FoldedIsHarmless`: what is put away as a decline or an abandoned attempt has no leg that succeeded.
- `DriftIsItemised`: whatever is paired with what, `net` is the sum over the lines missing, uncounted or of another figure of what we count of their payments, each once and for its latest state, less what the
  lines say; every line left out of it is within a cent of what we count; and where every line is nearest its own payment, and no two lines near any are of one, it is paired with that one.

Limits of what these say:

- `EstimateIsTrue` excludes figures for which the code cannot be right: a payment whose money moved after the portal was read and whose row was in the ledger before the entry; a
  row that came late and was reversed before it was stored; rows stored between the measure and the entry. For a connection whose ledger is Paymaxis no row has a
  first-seen date that is looked for (`PspTransaction` only), and `LateRowsDoNotMove`, stated in the module, fails there.
- `DriftIsItemised` says nothing of payments only *we* count: `net` leaves them out (`psp-reconcile.service.ts:381`), although :295 calls it "the drift,
  itemised". Nor does it bound the differences of a cent or less, which `net` leaves out (:427) and which may add up over a long statement. And the log decides which state of a payment is the latest by arrival when two carry the same instant (`payment-events.ts:64`): a
  row of an older state imported later wins.
- Two simultaneous uploads of one new key: the first to commit keeps it, and the second reports it as held.

## 4. Fairness

Weak fairness on what a request does next once it runs: the event loop runs it, and the budgets
and timeouts in the code end every wait. Weak fairness on beginning a poll, a step or
a pass: a timer or an open page calls each again and again. Failures, kills,
arrivals and people's actions are never fair. Three cases are special.

- `Backfill` assumes strong fairness of fetching a page: a step may spend its budget before its
  first page (`Stop`), and nothing in the code promises otherwise; that some step among infinitely
  many gets to a page is assumed. It also assumes that time passes (`ClaimAges`).
- `PspRotation` assumes that passes begin and proceed; which connections answer is fixed.
- `KycEnrich` assumes that passes begin and ask their next row; passes cut short and requests that fail are bounded.

`MCSchedules` states each of these for the component alone (`OnGate`, `OnRotation`, `OnEnrich`): the action is disabled for ever in a behaviour of another one.
`ShiftDesk`, `MCRecords` and `MCFigures` state no liveness: nothing obliges anybody to end a shift or save a case.

## 5. The proofs

`tlapm` checks them for every value of the constants that satisfies the `ASSUME`s of the modules, which are named after them. They say that a page or an answer holds at
least one record, that bounds are natural numbers, that a floor for a forced poll is not above the other, that there is an administrator to begin with and a slot in a day, that a marker
(`Nobody`, `NoStatus`) is none of what it marks, that payments and signatures are finite sets, and which fields a row of a file has. No assumption is made on the sets of invocations,
polls, writers, viewers, runs, people and requests, which may be infinite, nor on the order or the number of rows in a file.

Every safety and action property of a passing run is a theorem, most of them not inductive. Each strengthening below was an invariant of a run first; a
module's `TypeOK` is in each. The general argument is the same throughout: a property of rows several requests write is kept by what each request
*knows* between its awaits, and a proof is that no other request can make it wrong, or that the ghost of the property records that one did.

`BackfillProofs`: `TypeCorrect`, `CursorNeverSkips`, `DoneIsWhole`, and the refinement `BackfillImportsHistory`, which follows from them: a step that sets `done` finds the history
covered, a reset is a `Restart`, every other step a `Learn` or a stutter, because what is accounted for only grows. `IInv` adds `LocalInv`, what each invocation knows at each
point of its walk: everything before its page is covered, after a store its page too, before `finish` all. It survives the other invocations because coverage only grows
(`CoverageKept`) and an arrival moves older payments down, never up; `PageReaches` is the arithmetic of pages.

`LiveFeedProofs`: `TypeCorrect`, `NeverRepeats`, `MissesOnlyLate`. A viewer's cursor is the newest row it was shown (`PlaceKnown`), an answer under way is ahead of it
(`AnswerAhead`) and is a whole prefix of what is ahead, or on the first request a suffix of all there is (`AnswerWhole`). A commit behind what a viewer has read becomes late; one
ahead stays ahead (`CommitKept`).

`PaymentIngestProofs`: `IngestTyped`, `AnnouncedIsStored`, `NoRepeatAlone`. `PollInv` says that what a poll is about to announce is held, and that while it is `Alone` (nobody overlaps
or calls back, and no read of what is known failed) whatever was announced is held and nothing it has in hand was announced: so what it finds new, it has not told.

`ShiftDeskProofs`: `DeskTyped`, `OneShiftAtATime`, `ReceiptStaysTrue`, `DoneStaysSigned`, `ClosesOverNothing`, `HandoversFollow`. `StartInv`: while starts do not overlap there is one of them at most,
while it runs no shift is open, an open shift is the last, and shifts lie one after the other. `EndInv`: while ends do not overlap there is one, of an open shift, later than all
that ended, and the slot it is about to write is the next; `StartInv` is not needed for it, since two shifts may be open. `SignedInv` is about an update whose read is stale: what
it will write is open or signed whatever has happened since, because it fills both columns. `ClosingInv`: a closer who may not force it has no open task but those changed meanwhile.

`LedgerProofs`:

- *A sync*: `LedgerTyped`, `EndStaysWhole`. `Keeps` says of a run that what it has seen is stored or on its list to store, and that, if the provider heeds the offset, it
  and returns whole pages, has seen all that has slid beyond the pages read (`p + pages * PageSize > feed`): the list only grows at its head, so arrivals make it re-read and never skip. It does not
  depend on other runs, which only add rows.
- *A statement*: `DriftStaysItemised`. `ItemisedSoFar`: `net` is the sum over the payments of faulted lines (`Faulted`) less that over the lines compared that do not agree, a line that agrees is within the tolerance, and where lines can be told apart each is paired with its own.
  It rests on `LatestIsNewest` (what `latestPerPayment` returns), `CountsBooked` (a pairing is injective, so a sum over pairs is one over payments) and `OwnIsFree` (nobody takes a
  payment from the line it belongs to). The attempt showed that `ToldApart` lacked a condition: of two lines of *one* payment in the statement the first takes it.
- *The engine*: `SettledGoFirst`, `CertainGoFirst`, `ReconciledStaysAgreed`, `FoldedStaysHarmless`, for every set of files. A pass picks the first eligible row of an order, so that it exists is a fact about finite sets
  (`FirstInOrder`). `EngineInv` says a row is claimed once (`ClaimedOnce`), that deposits were seen settled ones first and paired as themselves (`InOrder`), that a pass leaves no partner free for a
  row it has been through (`NothingFree`), and of the two "first" properties how far they are established midway (`SettledFirstSoFar`, `CertainFirst`). `ClassesAreRead` is the one fact about the two readings of a status: what the master takes for settled the layers do too. `CombineSays`, `ChainIsJudged` and `DroppedIsJudged` are
  the master's verdict tables, once, for both of the properties about it.

`FiguresProofs`:

- *The gate*: `NeverFlattered`, `RunsStaySpaced`. `GateInv` adds that every age the marks or a run in hand hold is that of a run that `EndedWell`, with all its payments stored or with some lost unreported, and, while no two decisions cross, that the mark
  is the newest run's, or about to be.
- *Standing*: `NoDayIsSkipped`, `StandingStaysLatest`. `BehindHeld`: behind a run everything is held but today's. `BatchRead`: its batch is the whole of the day it read. `StandingKept`: a
  client's standing is right, or somebody has the client in hand, or it was torn. `SawLatest` is what an update about to be written saw.
- *Balance*: `EstimateStaysTrue`, `LateRowsStayPut`. `IsOfItsReading`: a figure is of what had settled when it was read, and nothing else settled by then. `IsMeasured`: its baseline is what the ledger held, and what
  of the figure it lacked is recognisable by its dates. So the rows counted as late are the ones the figure had and the ledger did not (`ArrivedAreLate`), and the sums telescope. Both are
  for `LedgerSource = "provider"`. For Paymaxis no row is taken for a late one, TLC refutes `LateRowsDoNotMove`, and nothing is claimed of the estimate.

`RecordsProofs`:

- *Accounts*: `AdministratorStays`. `Counted`: if nothing was written since an update counted, another administrator than its target is there still.
- *Files*: `UploadsRepairOnly`. `UploadKnows`, what an upload between its look and its commit relies on for the keys no other upload touched: what it replaces is still a file's, the rest at most
  the provider's.
- *Tags*: `TagsStayAsAsked`, `SeedingRevivesNothing`. `AddsWhatIsAsked`: a request that runs alone has the tags it added, and of the others only what it found of its list.
- *Incidents*: `TimelineStaysWhole`, `ResolvedAtStaysTrue`. Lines are appended, so `LastTold` of the longer timeline is that of the new line, or of the old timeline if it tells nothing.
- *Cases*: `CaseIsStored`. `CasesInv`: until something crosses, the last edit is stored, or is the one save under way.
- *Notifications*: `ToldOncePerCoolOff`. `FoundUntold`: a pass about to create a row found none within the cool-off and none came since, unless two looked at once.

`SetLemmas` has what the others keep needing: least and greatest elements, and sums over a finite set (`SumFunctionOnSet`): that they exist and are unique, may be taken in any order, add over
disjoint sets. The prover cannot instantiate an induction rule. Its place is taken by one first-order fact, that among subsets of a finite set there is a
minimal one: a least counterexample, from which one element is removed.

Only model-checked: the ten liveness properties of passing runs (`WalkCompletes`, `FirstPageStored`, `BurstStored`, `StoredIsAnnounced`, `NewRowsShown`, `FiringIsTold`, `FirstPageCurrent`, `GateKeepsPolling`,
`RotationStarvesNone`, `EnrichReachesAll`), since the prover has no rule for fairness and ENABLED, and with them the two modules that promise nothing else, `PspRotation` and `KycEnrich`; what
section 6 refutes; the seeded faults. No module uses a RECURSIVE operator, so each can be proved about.

## 6. Where the code and its words differ

Three runs end in a counterexample to a sentence of the repository; `PROJECT.json` quotes each.

- `recon_reopens`: a note saved from a page that was loaded before a colleague resolved the case sends the case whole, and the server writes `Open` where the page has no resolution: the
  case is open again (`recon/recon.service.ts:143` against :115).
- `kyc_downtime`: the nightly catch-up starts from the newest day held, and the Compliance screen moves that day by reading yesterday and today: days nobody read in
  a longer gap are never read (`kyc/kyc.service.ts:1090` against :1075).
- `engine_conflict`: a cashier row awaiting its webhook is a failure to Layer 1 and in flight to the master. Paired with a CRM decline it is dropped as an agreed decline, and a provider's success for the same
  row is then judged without it: Needs Review and not a Status Mismatch (web `lib/recon/v15/layer1.ts:95` against `master.ts:117`).

Others are stated in the modules with no run of their own; TLC refutes each under the module's own specification, the last four in the form without their condition.

- `NothingInvented` (`LiveFeed`): a failed query of a full database is answered like an empty one, and the dashboard gets a
  simulated tick unless `LIVE_SIMULATE` is false (`dashboard/dashboard.service.ts:790` against :665).
- `StillBrokenSaysSo` (`Notifications`): a condition seen by pass after pass keeps renewing its own cool-off, so it is never told again (`notifications/notifications.service.ts:95` against :38).
- `RunAgainContinues` (`PspLedger`): a run that stops at its page limit starts from page one when run again (`psps/psp-sync.service.ts:229` against :231).
- `NoneStarves` (`PspRotation`) without `down \in Affordable`, with three of four connections down: they use up every pass, and the fourth is never reached (`psps/psp-sync.service.ts:402` against :136).
- `EndIsWhole` (`PspLedger`) without `cap = PageSize`: a provider that caps its answers below the configured page size (:23) returns a first page that is shorter than asked for, which is reported as the
  end of the list (:321). The 50 of :24 keeps clear of it; a connection may configure more (:213).
- `BurstStored` (`PaymentIngest`) without `~outrun`: see section 3 (`paymaxis/paymaxis.service.ts:618` against :603).
- `NeverFresherThanData` (`RefreshGate`) as `lastOk >= arrived`: a page whose `createMany` failed is logged and counted as empty (`paymaxis/paymaxis.service.ts:529`), no shop reports an error, and
  `lastOkAt` is written, which :118 calls the time data "last actually arrived".

Others are hazards in `PROJECT.json`, and what they do is in the models, where it limits
the property beside it. The claim of an import does not keep two invocations apart (`paymaxis/paymaxis.service.ts:666`); a swallowed page write lets the
walk end as done (`data-coverage.tsx:745`); an incremental sync after one that died says "up to date" over what it had not stored (`psp-sync.service.ts:29`); a poll can repeat an announcement (`:501`) and be caught up with
something missing behind (`:602`); two refreshes can run at once (`:281`, `:316`); a live feed can miss a row that commits late (`use-live-feed.ts:70`);
two passes can both mail (`notifications.controller.ts:49`); what is behind a known page need not be known (`psp-sync.service.ts:29`); two shifts can be open
(`shifts.service.ts:322`); a line of a timeline can be lost (`modules.service.ts:2653`); a save that failed is not merged by the next load, which replaces what the browser holds (`cases.ts:105`).

## 7. What is not modelled

`PROJECT.json` lists each part with the reason. The map covers the code whose state several actors change and the computations whose order matters, which is a small
share of the repository's lines; the rest is, by size: screens (`apps/web/src/app`, `components`), read models that query and lay out (`modules/modules.service.ts` but for incidents,
the lists of `kyc.service.ts`, most of `psp-balance.service.ts`), scripts run by hand (`apps/api/scripts`), the reading of provider formats and files, and vendored documentation. None of these keeps
state between requests, and their content is data a property here does not tell apart.

Of the components that are modelled, left out are:

- `Accounts`: passwords, reset links, the audit trail; the admin lock and sessions, which are access control.
- `KycImport`: the upload of a file, which runs the same upsert; a day that passes within a run; pages within a day.
- `PspBalance`: rounding, which does nothing to sums of whole cents; drift, providers that tell their balance, modelled fees, anchors from before baselines.
- `PspReconcile`: connections with a ledger of their own, which skip the collapse and share the loop; undated events; the reading of columns.
- `ReconEngine`: `exceptions.ts`, parents of refunds at one provider, the time windows and the exposure, the customer's and time's share of a score, provider files uploaded empty.
- `ReconCases`: stored runs and the registry of providers (single upserts).
- `FileImport`: the mapping of an exported row (`import-export.ts`).
- `Notifications`: marking as read; the detectors, whose findings are nondeterministic.
- Success rate and retry recovery are aggregates of one read. In the latter one success can recover two declines of the same instant (`modules/retry-recovery.ts`), which its
  comment that it under-counts does not cover; no state is involved.

## 8. The plan

Written: every module of section 2, and a proof of every safety property of section 3. What is left, in order:

1. Refinement: a reader with a cursor (each row at most once, in order), which `LiveFeed` implements for rows that are
   not late; an outbox for `PaymentIngest` (what is announced is stored, and announced once while nobody races).
2. Safety behind the liveness properties: what a pass of `PspRotation` leaves (the order of `lastSyncAt` it starts from) and what `KycEnrich` never unfills.
3. Type correctness of the remaining modules as theorems of their own; so far it is in the invariants.
4. Drift and modelled fees in `PspBalance`; `exceptions.ts` after the master in `ReconEngine`; file uploads in `KycImport`; each with its proof.
