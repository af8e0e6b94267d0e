---------------------------- MODULE PspReconcile ----------------------------
(***************************************************************************)
(* A provider's statement checked against the ledger payment by payment      *)
(* (PspReconcileService.reconcile), for a connection whose ledger is the     *)
(* Paymaxis event log, collapsed to one row per payment (latestPerPayment).  *)
(* The two share no identifier: rows are paired by the moment a payment was  *)
(* raised, in the order of the statement, nearest first.                     *)
(*                                                                          *)
(* An event keeps when its payment was raised according to its reference (0  *)
(* without one), when it occurred, which way its money goes, how much, and   *)
(* whether the rules in force count its state; its place in the log is when  *)
(* it arrived.  Every event is dated; the columns of a file are read.        *)
(***************************************************************************)
EXTENDS Integers, Sequences, FiniteSets, Functions

CONSTANTS
    EventLogs,   \* the logs considered
    Statements,  \* the statements
    MaxScanned,  \* MAX_EVENTS
    Early,       \* -EARLY_S: how long before us the provider may record a payment
    Late,        \* LATE_S: and how long after
    Tolerance    \* a cent: figures that differ by less are the same

LogEvent == [payment : STRING, raised : Nat, occurred : Nat, direction : {"in", "out"},
             amount : Int, counts : BOOLEAN]

StatementLine == [of : STRING, at : Nat, direction : {"in", "out"}, amount : Int, settled : BOOLEAN]

ASSUME ReconcileAssumption ==
    /\ EventLogs \subseteq Seq(LogEvent)
    /\ Statements \subseteq Seq(StatementLine)
    /\ MaxScanned \in Nat /\ Early \in Nat /\ Late \in Nat
    /\ Tolerance \in Nat

VARIABLES
    events, statement,  \* the inputs
    step,    \* "read", then "compare"
    ours,    \* payment |-> its row
    rest,    \* statement rows not compared yet
    paired,  \* statement row |-> the payment it was paired with
    agreed,  \* statement rows paired with a payment we count for the same figure
    net      \* what the differences found do to the estimate

reconcileVars == <<events, statement, step, ours, rest, paired, agreed, net>>

ReconcileInit ==
    /\ events \in EventLogs
    /\ statement \in Statements
    /\ step = "read"
    /\ ours = <<>>
    /\ rest = {}
    /\ paired = <<>>
    /\ agreed = {}
    /\ net = 0

-----------------------------------------------------------------------------
\* Later in time, and of two at one instant the later to arrive.
Newer(m, n) ==
    \/ events[m].occurred > events[n].occurred
    \/ events[m].occurred = events[n].occurred /\ m > n

\* The newest events, as many as one read takes.
Scanned ==
    {n \in DOMAIN events : Cardinality({m \in DOMAIN events : Newer(m, n)}) < MaxScanned}

LatestOf(p) ==
    CHOOSE n \in {m \in Scanned : events[m].payment = p} :
        \A m \in Scanned \ {n} : events[m].payment = p => Newer(n, m)

RaisedAt(event) == IF event.raised > 0 THEN event.raised ELSE event.occurred

OurRow(p) ==
    LET latest == events[LatestOf(p)]
    IN  [at |-> RaisedAt(latest), direction |-> latest.direction,
         amount |-> latest.amount, counts |-> latest.counts, arrived |-> LatestOf(p)]

\* Rows beyond the last one we hold are left out.
InWindow(rows) ==
    {s \in DOMAIN statement :
        /\ statement[s].settled
        /\ \E p \in DOMAIN rows : statement[s].at <= rows[p].at}

ReadLedger ==
    /\ step = "read"
    /\ step' = "compare"
    /\ ours' = [p \in {events[n].payment : n \in Scanned} |-> OurRow(p)]
    /\ rest' = InWindow(ours')
    /\ UNCHANGED <<events, statement, paired, agreed, net>>

-----------------------------------------------------------------------------
\* Money in counts for us, money out against.
Signed(direction, amount) == IF direction = "in" THEN amount ELSE -amount

Lag(s, p) == statement[s].at - ours[p].at
Distance(s, p) == IF Lag(s, p) < 0 THEN -Lag(s, p) ELSE Lag(s, p)

\* Seeded fault: a payment can be paired more than once.
CandidatesAgain(s) ==
    {p \in DOMAIN ours : /\ ours[p].direction = statement[s].direction
                         /\ -Early <= Lag(s, p) /\ Lag(s, p) <= Late}

Candidates(s) ==
    {p \in DOMAIN ours \ Range(paired) :
        /\ ours[p].direction = statement[s].direction
        /\ -Early <= Lag(s, p) /\ Lag(s, p) <= Late}

\* The nearest, and of two as near the one whose event is newer.
Nearest(s) ==
    CHOOSE p \in Candidates(s) : \A q \in Candidates(s) \ {p} :
        \/ Distance(s, p) < Distance(s, q)
        \/ Distance(s, p) = Distance(s, q) /\ Newer(ours[p].arrived, ours[q].arrived)

\* What we count of the payment, if we do.
Booked(p) == IF ours[p].counts THEN Signed(ours[p].direction, ours[p].amount) ELSE 0

\* We count the payment, for what the row says but for less than a cent.  The
\* figures are doubles: a difference of exactly a cent may fall on either side.
SameFigure(s, p, limit) ==
    /\ ours[p].counts
    /\ LET difference == statement[s].amount - ours[p].amount
       IN  -limit <= difference /\ difference <= limit

\* Missing, uncounted, counted for another figure, or right: net takes the first
\* three, each as it is booked against what the row says.
CompareRow ==
    /\ step = "compare"
    /\ rest # {}
    /\ LET s == CHOOSE r \in rest : \A q \in rest \ {r} :
                    \/ statement[r].at < statement[q].at
                    \/ statement[r].at = statement[q].at /\ r < q
           theirs == Signed(statement[s].direction, statement[s].amount)
       IN  /\ rest' = rest \ {s}
           /\ IF Candidates(s) = {}
              THEN net' = net - theirs /\ UNCHANGED <<paired, agreed>>
              ELSE /\ paired' = [r \in DOMAIN paired \cup {s} |->
                                    IF r = s THEN Nearest(s) ELSE paired[r]]
                   /\ \/ /\ SameFigure(s, Nearest(s), Tolerance)
                         /\ agreed' = agreed \cup {s}
                         /\ UNCHANGED net
                      \/ /\ ~SameFigure(s, Nearest(s), Tolerance - 1)
                         /\ net' = net + Booked(Nearest(s)) - theirs
                         /\ UNCHANGED agreed
    /\ UNCHANGED <<events, statement, step, ours>>

ReconcileNext == ReadLedger \/ CompareRow

ReconcileSpec == ReconcileInit /\ [][ReconcileNext]_reconcileVars

-----------------------------------------------------------------------------
\* What the rules count of a payment by the newest thing we heard of it.
Counts(p) ==
    LET own == {n \in DOMAIN events : events[n].payment = p}
    IN  SumFunction([n \in own |->
            IF events[n].counts /\ \A m \in own \ {n} : Newer(n, m)
            THEN Signed(events[n].direction, events[n].amount) ELSE 0])

Theirs(S) == SumFunction([s \in S |-> Signed(statement[s].direction, statement[s].amount)])

\* The payments of the rows that do not agree.
Faulted == {paired[s] : s \in DOMAIN paired \ agreed}

\* Every row is nearest its own payment, or near none, and no two near any are
\* of one payment.
InReach(s) ==
    {p \in DOMAIN ours : /\ ours[p].direction = statement[s].direction
                         /\ Lag(s, p) \in (-Early)..Late}

ToldApart ==
    \A s \in InWindow(ours) :
        \/ InReach(s) = {}
        \/ /\ statement[s].of \in InReach(s)
           /\ \A p \in InReach(s) \ {statement[s].of} :
                Distance(s, statement[s].of) < Distance(s, p)
           /\ \A r \in InWindow(ours) \ {s} :
                statement[r].of = statement[s].of => InReach(r) = {}

\* psp-reconcile.service.ts:291: net is "what all of that does to the estimate",
\* of the rows of the statement that are missing, uncounted or of another figure:
\* what we count of the payments they were paired with, each once and for its
\* latest state, whichever of two it took for which, over what they say.  The
\* other rows are each within a cent of what we count, and are no part of it.
\* And where every row is nearest its own payment it is paired with that one, so
\* that the payment named is the one that is wrong.
DriftIsItemised ==
    step = "compare" /\ rest = {} =>
        /\ net = SumFunction([p \in Faulted |-> Counts(p)])
                   - Theirs(InWindow(ours) \ agreed)
        /\ \A s \in agreed :
                /\ s \in DOMAIN paired
                /\ LET row == Signed(statement[s].direction, statement[s].amount)
                   IN  Counts(paired[s]) - row \in (-Tolerance)..Tolerance
        /\ ToldApart => \A s \in InWindow(ours) :
                IF InReach(s) = {} THEN s \notin DOMAIN paired
                ELSE s \in DOMAIN paired /\ paired[s] = statement[s].of

-----------------------------------------------------------------------------
(* Why: no payment is paired twice, and the rows compared so far are itemised *)
(* so far.                                                                    *)
Compared == InWindow(ours) \ rest

ItemisedSoFar ==
    /\ net = SumFunction([p \in Faulted |-> Booked(p)]) - Theirs(Compared \ agreed)
    /\ \A s \in agreed :
            /\ SameFigure(s, paired[s], Tolerance)
            /\ ours[paired[s]].direction = statement[s].direction
    /\ ToldApart => \A s \in Compared :
            IF InReach(s) = {} THEN s \notin DOMAIN paired
            ELSE s \in DOMAIN paired /\ paired[s] = statement[s].of

ReconcileInv ==
    /\ events \in EventLogs
    /\ statement \in Statements
    /\ step \in {"read", "compare"}
    /\ step = "read" => paired = <<>> /\ agreed = {} /\ net = 0
    /\ step = "compare" =>
        /\ ours = [p \in {events[n].payment : n \in Scanned} |-> OurRow(p)]
        /\ rest \subseteq InWindow(ours)
        /\ paired \in [DOMAIN paired -> DOMAIN ours]
        /\ DOMAIN paired \subseteq Compared /\ agreed \subseteq DOMAIN paired
        /\ \A s, r \in DOMAIN paired : paired[s] = paired[r] => s = r
        /\ ItemisedSoFar
=============================================================================
