------------------------------ MODULE KycImport ------------------------------
(***************************************************************************)
(* Verifications read from the KYC provider a day at a time, for every       *)
(* account, and the standing of each client derived from them (KycService).  *)
(* The nightly run starts from the newest day held and stops when its budget *)
(* is spent; the Compliance screen reads the last two days on a timer, and   *)
(* any range somebody asks for, call after call until it is done.  All of    *)
(* them may overlap and each may be cut short.                               *)
(*                                                                          *)
(* A verification is numbered in the order of its created_at.  Pages of a    *)
(* day and chunks of a write are one step; a status is told apart only as    *)
(* undecided or decided; TEST rows, names and prices are left out.  A client *)
(* modelled has dated verifications; those without a date are others'.       *)
(***************************************************************************)
EXTENDS Naturals, Sequences, FiniteSets, SequencesExt

CONSTANTS
    KycRuns,      \* invocations of syncFromProvider that may be under way at once
    Nightly,      \* the one of the scheduler
    KycAccounts,  \* the provider's accounts, in the order they are read
    Clients,      \* external_applicant_id
    LookBack,     \* days the nightly run reads when nothing is held
    Undated,      \* whether the provider reports verifications without a date
    LastDay,      \* bound: days
    MaxVerified,  \* bound: verifications ever made
    MaxCuts       \* bound: calls that fail or are killed

ASSUME KycAssumption ==
    /\ Nightly \in KycRuns
    /\ KycAccounts \in Seq(STRING) /\ KycAccounts # <<>>
    /\ {LookBack, LastDay, MaxVerified, MaxCuts} \subseteq Nat
    /\ Undated \in BOOLEAN

VARIABLES
    today,
    reported,   \* what the provider has, by number
    cases,      \* the KycCase table: the status held of each, "absent" if none
    standing,   \* Client.kycStatus
    kyc,        \* where each run is, and its locals
    since,      \* ghost: the first day anything was read for
    jumped,     \* ghost: a read began past the newest day held
    torn,       \* ghost: clients whose refresh was cut off or overtaken
    cuts

kycVars == <<today, reported, cases, standing, kyc, since, jumped, torn, cuts>>

Days == 0..LastDay
Outcomes == {"PENDING", "DECIDED"}
Numbers == 1..MaxVerified

NotRunning == [pc |-> "idle", from |-> 0, day |-> 0, to |-> 0, account |-> 1,
               batch |-> {}, statuses |-> <<>>, updates |-> {}, seen |-> <<>>]

Absent == "absent"
Update == [client : Clients, status : Outcomes]

\* The locals of a run: what it read of a day and account, and what its
\* statement that refreshes the clients saw and found to change.
KycRun ==
    [pc : {"idle", "read", "write", "refresh", "update"},
     from : 0..(LastDay + 1), day : 0..(LastDay + 1), to : 0..(LastDay + 1),
     account : DOMAIN KycAccounts, batch : SUBSET Numbers,
     statuses : UNION {[B -> Outcomes] : B \in SUBSET Numbers},
     updates : SUBSET Update,
     seen : [{} -> {}] \cup [Numbers -> Outcomes \cup {Absent}]]

KycTypeOK ==
    /\ today \in Days
    /\ reported \in Seq([client : Clients, account : ToSet(KycAccounts), day : Days,
                         status : Outcomes])
    /\ Len(reported) <= MaxVerified
    /\ cases \in [Numbers -> Outcomes \cup {Absent}]
    /\ standing \in [Clients -> Outcomes \cup {"NOT_STARTED"}]
    /\ kyc \in [KycRuns -> KycRun]
    /\ since \in 0..(LastDay + 1)
    /\ jumped \in BOOLEAN
    /\ torn \subseteq Clients
    /\ cuts \in 0..MaxCuts

KycInit ==
    /\ today = 0
    /\ reported = <<>>
    /\ cases = [n \in Numbers |-> Absent]
    /\ standing = [c \in Clients |-> "NOT_STARTED"]
    /\ kyc = [r \in KycRuns |-> NotRunning]
    /\ since = LastDay + 1
    /\ jumped = FALSE
    /\ torn = {}
    /\ cuts = 0

-----------------------------------------------------------------------------
(* The provider: verifications are made, and decided.  A run lasts a minute  *)
(* and reads up to the day it began on: no day passes within one.            *)
DayPasses ==
    /\ \A r \in KycRuns : kyc[r].pc = "idle"
    /\ today < LastDay
    /\ today' = today + 1
    /\ UNCHANGED <<reported, cases, standing, kyc, since, jumped, torn, cuts>>

Submitted(c, account) ==
    /\ Len(reported) < MaxVerified
    /\ reported' = Append(reported, [client |-> c, account |-> account,
                                     day |-> today, status |-> "PENDING"])
    /\ UNCHANGED <<today, cases, standing, kyc, since, jumped, torn, cuts>>

Decide(n) ==
    /\ n \in DOMAIN reported
    /\ reported[n].status = "PENDING"
    /\ reported' = [reported EXCEPT ![n].status = "DECIDED"]
    /\ UNCHANGED <<today, cases, standing, kyc, since, jumped, torn, cuts>>

-----------------------------------------------------------------------------
Held == {n \in DOMAIN reported : cases[n] # Absent}

(* The day of the newest verification held, of those with a date.            *)
HeldDay == reported[CHOOSE n \in Held : \A m \in Held : m <= n].day

(* syncRecent: the newest submittedAt held, its own day included; or, of a   *)
(* verification without a date, the day it was imported, submittedAt being   *)
(* row.at ?? new Date(): some day since, if anything was read at all.        *)
NewestDay ==
    IF Held = {} THEN IF today < LookBack THEN 0 ELSE today - LookBack ELSE HeldDay

StartDays ==
    {NewestDay} \cup {d \in NewestDay..today : Undated /\ since <= LastDay}

Walks(r, locals) == kyc' = [kyc EXCEPT ![r] = locals]

(* A walk over the days from..today.                                         *)
KycBegins(r, from) ==
    /\ kyc[r].pc = "idle"
    /\ Walks(r, [NotRunning EXCEPT !.pc = "read", !.from = from, !.day = from, !.to = today])
    /\ since' = IF since > LastDay THEN from ELSE since
    /\ jumped' = (jumped \/ /\ since <= LastDay
                            /\ from > IF Held = {} THEN since ELSE HeldDay)
    /\ UNCHANGED <<today, reported, cases, standing, torn, cuts>>

NightlyRun == \E from \in StartDays : KycBegins(Nightly, from)

(* useCatchUp, and the range somebody asks for.                              *)
ScreenReads(r) == r # Nightly /\ \E from \in 0..today : KycBegins(r, from)

(* One account's report of the day.                                          *)
Listed(run) ==
    {n \in DOMAIN reported : /\ reported[n].day = run.day
                             /\ reported[n].account = KycAccounts[run.account]}

Emptied(run) ==
    [run EXCEPT !.pc = "read", !.batch = {}, !.statuses = <<>>, !.updates = {}, !.seen = <<>>]

\* Seeded fault: one account is read for the whole range before the next.
NextReadByAccount(run) ==
    IF run.day < run.to
    THEN [Emptied(run) EXCEPT !.day = @ + 1]
    ELSE IF run.account < Len(KycAccounts)
    THEN [Emptied(run) EXCEPT !.day = run.from, !.account = @ + 1]
    ELSE [Emptied(run) EXCEPT !.day = run.to + 1, !.account = 1]

(* On to the next account, and when the day is whole to the next day.        *)
NextRead(run) ==
    IF run.account < Len(KycAccounts)
    THEN [Emptied(run) EXCEPT !.account = @ + 1]
    ELSE [Emptied(run) EXCEPT !.account = 1, !.day = @ + 1]

ReadDay(r) ==
    LET run == kyc[r] IN
    /\ run.pc = "read"
    /\ run.day <= run.to
    /\ Walks(r, IF Listed(run) = {} THEN NextRead(run)
                ELSE [run EXCEPT !.pc = "write", !.batch = Listed(run),
                        !.statuses = [n \in Listed(run) |-> reported[n].status]])
    /\ UNCHANGED <<today, reported, cases, standing, since, jumped, torn, cuts>>

(* importVerifications: the upserts.                                         *)
WriteBatch(r) ==
    LET run == kyc[r] IN
    /\ run.pc = "write"
    /\ cases' = [n \in Numbers |-> IF n \in run.batch THEN run.statuses[n] ELSE cases[n]]
    /\ Walks(r, [run EXCEPT !.pc = "refresh"])
    /\ UNCHANGED <<today, reported, standing, since, jumped, torn, cuts>>

ClientsOf(batch) == {reported[n].client : n \in batch}

\* Seeded fault: the earliest verification of a client decides.
FirstOf(c) ==
    LET own == {n \in Held : reported[n].client = c}
    IN  CHOOSE n \in own : \A m \in own : n <= m

(* DISTINCT ON ... ORDER BY submittedAt DESC.                                *)
Latest(c) ==
    LET own == {n \in Held : reported[n].client = c}
    IN  CHOOSE n \in own : \A m \in own : m <= n

(* refreshClientStatus: one statement, which sees the table as it was when   *)
(* it began ...                                                              *)
RefreshBegins(r) ==
    LET run == kyc[r] IN
    /\ run.pc = "refresh"
    /\ Walks(r, [run EXCEPT !.pc = "update", !.seen = cases,
          !.updates = {u \in Update :
                         /\ u.client \in ClientsOf(run.batch)
                         /\ u.status = cases[Latest(u.client)]
                         /\ standing[u.client] # u.status}])
    /\ torn' = torn \ ClientsOf(run.batch)
    /\ UNCHANGED <<today, reported, cases, standing, since, jumped, cuts>>

(* ... and updates the clients it then found to differ.                      *)
Overtaken(run) ==
    {c \in ClientsOf(run.batch) : \E n \in Held :
        reported[n].client = c /\ run.seen[n] # cases[n]}

RefreshEnds(r) ==
    LET run == kyc[r] IN
    /\ run.pc = "update"
    /\ standing' = [c \in Clients |->
          IF \E u \in run.updates : u.client = c
          THEN (CHOOSE u \in run.updates : u.client = c).status ELSE standing[c]]
    /\ torn' = torn \cup Overtaken(run)
    /\ Walks(r, NextRead(run))
    /\ UNCHANGED <<today, reported, cases, since, jumped, cuts>>

(* The range is read, or the nightly run's budget is spent after a day or    *)
(* more.  The screen asks again with the day it was handed.                  *)
WalkEnds(r) ==
    LET run == kyc[r] IN
    /\ run.pc = "read"
    /\ run.account = 1
    /\ run.day > run.to \/ (r = Nightly /\ run.day > run.from)
    /\ Walks(r, NotRunning)
    /\ UNCHANGED <<today, reported, cases, standing, since, jumped, torn, cuts>>

Refreshing == {r \in KycRuns : kyc[r].pc \in {"refresh", "update"}}

(* The provider refuses, the database fails, or the host ends the call.      *)
CutShort(r) ==
    LET run == kyc[r] IN
    /\ run.pc # "idle"
    /\ cuts < MaxCuts
    /\ cuts' = cuts + 1
    /\ torn' = torn \cup IF r \in Refreshing THEN ClientsOf(run.batch) ELSE {}
    /\ Walks(r, NotRunning)
    /\ UNCHANGED <<today, reported, cases, standing, since, jumped>>

KycNext ==
    \/ DayPasses
    \/ \E c \in Clients, account \in ToSet(KycAccounts) : Submitted(c, account)
    \/ \E n \in Numbers : Decide(n)
    \/ NightlyRun
    \/ \E r \in KycRuns :
        \/ ScreenReads(r)
        \/ ReadDay(r)
        \/ WriteBatch(r)
        \/ RefreshBegins(r)
        \/ RefreshEnds(r)
        \/ WalkEnds(r)
        \/ CutShort(r)

KycSpec == KycInit /\ [][KycNext]_kycVars

-----------------------------------------------------------------------------
(* A day before the newest one held is held whole, from the first day ever   *)
(* read on and for every account, whatever is cut short and whoever else     *)
(* reads, unless somebody reads past the newest day held, as the nightly run *)
(* itself does once a verification without a date is stamped                 *)
(* (kyc.service.ts:1068-1078).                                               *)
Missing ==
    {n \in DOMAIN reported \ Held :
        since <= reported[n].day /\ \E m \in Held : reported[n].day < reported[m].day}

NoDaySkipped == ~jumped => Missing = {}

(* kyc.service.ts:1075: "Self-healing across runs", and :1077, "A week of    *)
(* downtime catches up over a few nights without anybody deciding anything". *)
(* A night that reads up to today, with nobody else still reading, leaves    *)
(* nothing behind it unread.                                                 *)
DowntimeCaughtUp ==
    [][/\ kyc[Nightly].pc = "read" /\ kyc[Nightly].day > kyc[Nightly].to
       /\ kyc'[Nightly].pc = "idle"
       /\ \A r \in KycRuns \ {Nightly} : kyc[r].pc = "idle"
       => Missing = {}]_kycVars

(* A client's standing is the status of their latest verification held, not  *)
(* the best and not the last written, once every run that touched them has   *)
(* refreshed it undisturbed (kyc.service.ts:1511-1518).                      *)
InHand == UNION {ClientsOf(kyc[r].batch) : r \in Refreshing}

StandingIsLatest ==
    \A n \in Held :
        \/ reported[n].client \in torn \cup InHand
        \/ \E m \in Held : m > n /\ reported[m].client = reported[n].client
        \/ standing[reported[n].client] = cases[n]

-----------------------------------------------------------------------------
(* What keeps both.  Behind a run, up to the account it is about to read,    *)
(* everything is held that no longer grows, which is all but today's.        *)
BehindHeld(run) ==
    \A n \in DOMAIN reported :
        /\ since <= reported[n].day
        /\ reported[n].day < today
        /\ \/ reported[n].day < run.day
           \/ /\ reported[n].day = run.day
              /\ \E k \in 1..(run.account - 1) : reported[n].account = KycAccounts[k]
        => n \in Held

(* What a run has in hand is what it read, and once written it is held.      *)
BatchRead(run) ==
    /\ run.day <= today
    /\ run.batch \subseteq Listed(run)
    /\ run.day < today => run.batch = Listed(run)
    /\ run.pc = "write" => run.statuses \in [run.batch -> Outcomes]
    /\ run.pc # "write" => run.batch \subseteq Held

(* An update carries the status of the latest verification its statement saw. *)
SawLatest(u, seen) ==
    \E n \in DOMAIN reported :
        /\ reported[n].client = u.client
        /\ u.status = seen[n]
        /\ \A m \in DOMAIN reported :
              reported[m].client = u.client /\ seen[m] # Absent => m <= n

UpdatesSeen(run) ==
    /\ run.seen \in [Numbers -> Outcomes \cup {Absent}]
    /\ \A n \in Numbers : run.seen[n] # Absent => cases[n] # Absent
    /\ \A u \in run.updates : u.client \in ClientsOf(run.batch) /\ SawLatest(u, run.seen)
    /\ \A u, v \in run.updates : u.client = v.client => u = v

(* A client's standing is that of their latest verification held, or a run    *)
(* that wrote one has still to look, or one that looked is about to correct   *)
(* it, or it was left torn.                                                   *)
BeingCorrected(c) ==
    \E r \in KycRuns :
        \/ kyc[r].pc = "refresh" /\ c \in ClientsOf(kyc[r].batch)
        \/ kyc[r].pc = "update" /\ \E u \in kyc[r].updates : u.client = c

StandingKept ==
    \A n \in Held :
        \/ reported[n].client \in torn
        \/ BeingCorrected(reported[n].client)
        \/ \E m \in Held : m > n /\ reported[m].client = reported[n].client
        \/ standing[reported[n].client] = cases[n]

RunKept(run) ==
    run.pc # "idle" =>
        /\ run.to = today
        /\ run.day <= today + 1
        /\ ~jumped => BehindHeld(run)
        /\ run.pc # "read" => BatchRead(run)
        /\ run.pc = "update" => UpdatesSeen(run)

(* Nothing is of a day to come, held before it was reported, or held before   *)
(* anybody read.                                                              *)
OnlyPast ==
    /\ \A n \in DOMAIN reported : reported[n].day <= today
    /\ \A n \in Numbers \ DOMAIN reported : cases[n] = Absent
    /\ since > LastDay => Held = {} /\ \A r \in KycRuns : kyc[r].pc = "idle"

KycInv ==
    /\ KycTypeOK
    /\ OnlyPast
    /\ \A r \in KycRuns : RunKept(kyc[r])
    /\ NoDaySkipped
    /\ StandingKept
=============================================================================
