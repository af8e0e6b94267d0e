-------------------------- MODULE MCPaymentIngest ---------------------------
(* PaymentIngest for TLC: the server's timer and an open dashboard both poll. *)
(* The bounds are those of a plan, one of which a behaviour is of.            *)
EXTENDS PaymentIngest

CONSTANTS timer, viewer

TwoPollers == {timer, viewer}

VARIABLE plan  \* the payments at first and at last, the events, hasMore

\* One payment arrives and there is one event; or a page's worth arrives in a
\* longer list, of a provider that does not say whether there is more.
Plans ==
    {[first |-> 2, last |-> 3, events |-> 1, tells |-> TRUE],
     [first |-> 3, last |-> 5, events |-> 0, tells |-> FALSE]}

IngestInit ==
    /\ plan \in Plans
    /\ Init
    /\ feed = plan.first /\ tells = plan.tells

IngestNext ==
    /\ Next
    /\ UNCHANGED plan
    /\ feed' <= plan.last
    /\ (Events <= plan.events)'

\* No fair action is one the plan forbids.
IngestSpec == IngestInit /\ [][IngestNext]_<<vars, plan>> /\ Fairness
=============================================================================
