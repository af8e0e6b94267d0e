---------------------------- MODULE MCFigures -----------------------------
(* What is derived from rows that others import, for TLC: the balance of a    *)
(* payment provider, the standing of a client, the reconciliation of a        *)
(* period's files, and that of a provider's statement.  They share no state,  *)
(* so a behaviour is that of one of them, chosen at the start, and the others *)
(* stay as they are.                                                          *)
EXTENDS PspBalance, KycImport, ReconEngine, PspReconcile, TLC

CONSTANTS
    deposit, payout, cron, page, CU1,
    Figures  \* what a behaviour may be of

VARIABLE figure  \* the one this behaviour is of

figuresVars == <<figure, balanceVars, kycVars, engineVars, reconcileVars>>

(* The inputs of the figures not chosen are one and the same.                 *)
OneCrmFile == CHOOSE f \in CrmFiles : TRUE
OneCashierFile == CHOOSE f \in CashierFiles : TRUE
OneProviderFile == CHOOSE f \in ProviderFiles : TRUE
OneLog == CHOOSE log \in EventLogs : TRUE
OneStatement == CHOOSE rows \in Statements : TRUE

FiguresInit ==
    /\ figure \in Figures
    /\ figure = "balance" \/ (datesMove = TRUE /\ feeMapped = TRUE)
    /\ figure = "files"
          \/ (crm = OneCrmFile /\ cashier = OneCashierFile /\ psp = OneProviderFile)
    /\ figure = "statement" \/ (events = OneLog /\ statement = OneStatement)
    /\ BalanceInit /\ KycInit /\ EngineInit /\ ReconcileInit

FiguresNext ==
    /\ UNCHANGED figure
    /\ \/ /\ figure = "balance" /\ BalanceNext
          /\ UNCHANGED <<kycVars, engineVars, reconcileVars>>
       \/ /\ figure = "standing" /\ KycNext
          /\ UNCHANGED <<balanceVars, engineVars, reconcileVars>>
       \/ /\ figure = "files" /\ EngineNext
          /\ UNCHANGED <<balanceVars, kycVars, reconcileVars>>
       \/ /\ figure = "statement" /\ ReconcileNext
          /\ UNCHANGED <<balanceVars, kycVars, engineVars>>

FiguresSpec == FiguresInit /\ [][FiguresNext]_figuresVars

TwoRuns == {cron, page}
TwoAccounts == <<"MU", "SL">>
TwoPayments == {deposit, payout}
Values == (deposit :> 3) @@ (payout :> -5)
Charges == (deposit :> 1) @@ (payout :> 2)

(* The files to reconcile: two deposits, linked or not, or a withdrawal in    *)
(* two legs, or no CRM file; two cashier rows, the first routed north and     *)
(* known there, routed north or routed south, the second of either entity or  *)
(* never routed; two rows of providers, where both files, only the north one  *)
(* or none may be there.                                                      *)

Crm(keys, type, class, amount) ==
    [keys |-> keys, type |-> type, class |-> class, amount |-> amount, entity |-> "SL"]

SomeCrmFiles ==
    {<<Crm({"a"}, "DEPOSIT", x, 2), Crm(k, "DEPOSIT", y, 2)>> :
        k \in {{"b"}, {"a", "b"}}, x \in Settlements \cup {"PROCESSING"}, y \in Settlements}
    \cup {<<Crm({"a"}, "WITHDRAWAL", x, 1), Crm({"a"}, "WITHDRAWAL", y, 1)>> :
        x \in Settlements, y \in Settlements}
    \cup {<<>>}

\* The word most rows of a class say; others say another, or tell of a fault.
Saying(class, says) ==
    IF says # "" THEN says
    ELSE CASE class = "ACTIVE" -> "completed" [] class = "PENDING" -> "reconciling"
           [] class = "FAILED" -> "declined" [] class = "AWAITING" -> "awaiting"
           [] class = "PROCESSING" -> "other"

Cash(ref, id, type, class, names, place, says) ==
    [ref |-> ref, keys |-> {ref, id}, type |-> type, class |-> class, amount |-> 2,
     entity |-> place[1], route |-> place[2], names |-> names, customer |-> "jo",
     says |-> Saying(class, says)]

\* The first row's identifiers, route and word, the second's entity and route.
Shapes ==
    {<<<<"p1">>, "north", "", <<"SL", "north">>>>, <<<<"p1">>, "north", "", <<"SL", "none">>>>,
     <<<<>>, "north", "fault", <<"SL", "north">>>>, <<<<>>, "north", "other", <<"MU", "north">>>>,
     <<<<>>, "south", "", <<"SL", "north">>>>}

SomeCashierFiles ==
    {<<Cash("a", "c1", t, x, s[1], <<"SL", s[2]>>, s[3]),
       Cash("b", "c2", "DEPOSIT", y, <<"p2">>, s[4], "")>> :
        t \in {"DEPOSIT", "WITHDRAWAL"}, x \in Classes, y \in {"ACTIVE", "FAILED", "AWAITING"},
        s \in Shapes}

Psp(config, id, class, customer) ==
    [config |-> config, ids |-> <<id>>, type |-> "", class |-> class,
     amount |-> IF config = "north" THEN 2 ELSE 3, customer |-> customer]

SomeProviderFiles ==
    {<<Psp(f, "p1", x, ""), Psp("north", "p2", "ACTIVE", "jo")>> :
        f \in {"north", "south"}, x \in Settlements \cup {"PROCESSING"}}
    \cup {<<>>}

Providers == <<"north", "south">>

(* The event log and the statement: two payments, the first of which is heard *)
(* of twice, in either order and for two figures; two rows for them and one   *)
(* of no payment of ours, before, between, after or far from the payments,    *)
(* for what we count, a cent off it or more; to some logs an old payment is   *)
(* added, which one read then does not reach.                                 *)
Event(payment, raised, occurred, direction, amount, counts) ==
    [payment |-> payment, raised |-> raised, occurred |-> occurred,
     direction |-> direction, amount |-> amount, counts |-> counts]

ShortLogs ==
    {<<Event("a", r, x, "in", 2, c), Event("b", s, 6, d, 2, TRUE),
       Event("a", r, 5, "in", 5, TRUE)>> :
        r \in {0, 2}, s \in {3, 4, 9}, x \in {4, 5, 7}, d \in {"in", "out"}, c \in BOOLEAN}

SomeEventLogs ==
    ShortLogs \cup
    {Append(log, Event("c", 0, 1, "in", 2, TRUE)) :
        log \in {l \in ShortLogs : l[1].raised = 0 /\ l[2].raised = 3}}

Line(of, at, direction, amount, settled) ==
    [of |-> of, at |-> at, direction |-> direction, amount |-> amount, settled |-> settled]

SomeStatements ==
    {<<Line("b", t, d, 2, TRUE), Line("a", u, "in", 3, s), Line("none", v, "in", 4, TRUE)>> :
        t \in {3, 5, 9}, u \in {2, 4, 6, 9}, v \in {1, 5, 8}, d \in {"in", "out"},
        s \in BOOLEAN}
=============================================================================
