---------------------------- MODULE PspRotation -----------------------------
(***************************************************************************)
(* PspSyncService.syncAll: one scheduled pass over every connection, the    *)
(* least recently synced first, which stops starting new ones when its time *)
(* is spent.  One connection's sync is module PspLedger; here it has an     *)
(* outcome and a cost.                                                      *)
(*                                                                          *)
(* lastSyncAt is modelled by the order of the connections, oldest first: a  *)
(* sync that succeeds moves its connection to the end.                      *)
(***************************************************************************)
EXTENDS Naturals, Sequences, FiniteSets, SequencesExt

CONSTANTS
    Connections,  \* enabled, with a transactions endpoint
    Budget,       \* ALL_BUDGET_MS
    FailCost,     \* TIMEOUT_MS, which a sync that gets no answer takes
    Slowest,      \* BUDGET_MS and a call, the longest one that succeeds takes
    KillAt,       \* maxDuration of the function a pass runs in
    MaxFailures   \* bound: syncs that fail, or outlast the function, though the
                  \* provider is up

ASSUME RotationAssumption ==
    /\ IsFiniteSet(Connections)
    /\ Budget \in Nat /\ FailCost \in Nat /\ Slowest \in Nat
    /\ KillAt \in Nat /\ MaxFailures \in Nat

VARIABLES
    down,     \* connections whose provider does not answer, now or ever
    order,    \* connections by lastSyncAt, nulls and oldest first
    pass,     \* those the pass has still to look at, <<>> between passes
    elapsed,  \* time the pass has taken
    synced,   \* connections this pass synced
    skipped,  \* connections it named as skipped
    moved,    \* ghost: those synced by hand or by a file since it began
    failures

rotationVars == <<down, order, pass, elapsed, synced, skipped, moved, failures>>

RotationTypeOK ==
    /\ down \subseteq Connections
    /\ order \in SetToSeqs(Connections)
    /\ ToSet(pass) \subseteq Connections
    /\ elapsed \in 0..KillAt
    /\ synced \subseteq Connections
    /\ skipped \subseteq Connections
    /\ moved \subseteq Connections
    /\ failures \in 0..MaxFailures

ToTheEnd(c) == SelectSeq(order, LAMBDA d : d # c) \o <<c>>

\* Seeded fault: the most recently synced come first.
NewestFirst(s) == Reverse(s)

OldestFirst(s) == s

StartPass ==
    /\ pass = <<>>
    /\ pass' = OldestFirst(order)
    /\ elapsed' = 0
    /\ synced' = {} /\ skipped' = {} /\ moved' = {}
    /\ UNCHANGED <<down, order, failures>>

Spent(t) == t > Budget

\* A pass starts the sync of its next connection.
Starting == pass # <<>> /\ ~Spent(elapsed)

\* The longest a sync takes.
Longest(c) == IF c \in down THEN FailCost ELSE Slowest

Skip ==
    /\ pass # <<>>
    /\ Spent(elapsed)
    /\ skipped' = skipped \cup {Head(pass)}
    /\ pass' = Tail(pass)
    /\ UNCHANGED <<down, order, elapsed, synced, moved, failures>>

Succeeds ==
    LET c == Head(pass) IN
    /\ Starting
    /\ c \notin down
    /\ \E cost \in 0..Slowest : elapsed' = elapsed + cost /\ elapsed' <= KillAt
    /\ order' = ToTheEnd(c)
    /\ synced' = synced \cup {c}
    /\ pass' = Tail(pass)
    /\ UNCHANGED <<down, skipped, moved, failures>>

OneMoreFailure == failures < MaxFailures /\ failures' = failures + 1

\* No answer, a refusal, or an exception such as that of a row somebody else
\* stored first: lastSyncAt stays as it was.
Fails ==
    /\ Starting
    /\ \/ Head(pass) \in down /\ UNCHANGED failures
       \/ Head(pass) \notin down /\ OneMoreFailure
    /\ \E cost \in 0..Longest(Head(pass)) : elapsed' = elapsed + cost /\ elapsed' <= KillAt
    /\ pass' = Tail(pass)
    /\ UNCHANGED <<down, order, synced, skipped, moved>>

\* A sync begun within the budget can outlast the function, which is killed: the
\* pass is over, and lastSyncAt stays as it was.  What the sync had stored stays,
\* and the next one stops there, so it is no failure that repeats for ever.
Outlasts ==
    /\ Starting
    /\ \E cost \in 0..Longest(Head(pass)) : elapsed + cost > KillAt
    /\ OneMoreFailure
    /\ pass' = <<>>
    /\ UNCHANGED <<down, order, elapsed, synced, skipped, moved>>

\* A sync by hand, from an open page, or an imported file.
OtherSync(c) ==
    /\ c \notin down
    /\ order' = ToTheEnd(c)
    /\ moved' = moved \cup {c}
    /\ UNCHANGED <<down, pass, elapsed, synced, skipped, failures>>

RotationInit ==
    /\ down \in SUBSET Connections
    /\ order \in SetToSeqs(Connections)
    /\ pass = <<>>
    /\ elapsed = 0
    /\ synced = {} /\ skipped = {} /\ moved = {}
    /\ failures = 0

SyncAll == Skip \/ Succeeds \/ Fails \/ Outlasts

RotationNext ==
    \/ StartPass \/ SyncAll
    \/ \E c \in Connections : OtherSync(c)

RotationSpec == RotationInit /\ [][RotationNext]_rotationVars

\* The scheduler starts passes and a pass goes on.
RotationFairSpec == RotationSpec /\ WF_rotationVars(StartPass) /\ WF_rotationVars(SyncAll)

-----------------------------------------------------------------------------
(* What the rotation promises.                                              *)

\* What may be down for good and still leave time in a pass.
Affordable == {D \in SUBSET Connections : Cardinality(D) * FailCost <= Budget}

\* psp-sync.service.ts:136: a run that runs out of time "picks up the rest next
\* time rather than starving the same one for ever".  A connection that works
\* is synced again and again, by a pass or by hand, provided that those that do
\* not answer leave time for it: they keep the front of the rotation.
NoneStarves ==
    down \in Affordable => \A c \in Connections : []<>(c \in down \cup synced \cup moved)
=============================================================================
