---------------------------- MODULE MCPspLedger -----------------------------
(* PspLedger for TLC: the scheduled sync and that of an open ledger page.     *)
(* The bounds are those of a plan, one of which a behaviour is of.            *)
EXTENDS PspLedger

CONSTANTS cron, page

RunSet == {cron, page}

VARIABLE plan  \* payments at first and at last, settlements, files, faults, cap

\* The list is read to its end while it grows and a run is cut off; payments
\* settle while a run is cut off and an old file is imported; both with a
\* provider that returns less than a page; and a list is too long to be read.
Plans ==
    {[first |-> 3, last |-> 4, settled |-> 0, files |-> 0, faults |-> 1, cap |-> 2],
     [first |-> 2, last |-> 2, settled |-> 1, files |-> 1, faults |-> 1, cap |-> 2],
     [first |-> 2, last |-> 3, settled |-> 1, files |-> 0, faults |-> 1, cap |-> 1],
     [first |-> 6, last |-> 6, settled |-> 0, files |-> 0, faults |-> 0, cap |-> 2]}

LedgerInit ==
    /\ plan \in Plans
    /\ Init
    /\ feed = plan.first /\ cap = plan.cap

LedgerNext ==
    /\ Next
    /\ UNCHANGED plan
    /\ feed' <= plan.last /\ Cardinality(final') <= plan.settled
    /\ files' <= plan.files /\ faults' <= plan.faults

\* No fair action is one the plan forbids.
LedgerSpec == LedgerInit /\ [][LedgerNext]_<<vars, plan>> /\ Fairness
=============================================================================
