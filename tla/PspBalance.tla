----------------------------- MODULE PspBalance -----------------------------
(***************************************************************************)
(* The balance of a provider that does not tell it (PspBalanceService): a    *)
(* person reads a figure off the portal and enters it as an anchor, and the  *)
(* transactions stored since move it.  Movement is the difference of two     *)
(* totals: what counts now, and what counted when the figure was entered,    *)
(* topped up with the rows first seen since whose money had moved before.    *)
(* Between the reading and the entry payments move, rows arrive and the      *)
(* field the fee is read from may change.                                    *)
(*                                                                          *)
(* The rules are abstracted to what they decide: a settled payment counts,   *)
(* with its sign; every provider takes a charge and gives it back with a     *)
(* reversal.  Anchors from before baselines existed are left out.            *)
(***************************************************************************)
EXTENDS Integers, FiniteSets, Functions

CONSTANTS
    Payments,
    Value,         \* what each payment adds to the balance, or takes from it
    Charge,        \* and what the provider takes for it
    LedgerSource,  \* PspConnection.ledgerSource: "provider" or "paymaxis"
    MaxAnchors     \* bound: figures read off the portal

ASSUME BalanceAssumption ==
    /\ IsFiniteSet(Payments)
    /\ Value \in [Payments -> Int]
    /\ Charge \in [Payments -> Nat]
    /\ LedgerSource \in {"provider", "paymaxis"}
    /\ MaxAnchors \in Nat

VARIABLES
    time,       \* moves on when a figure is read and when one is entered
    datesMove,  \* does the provider say when money moved, or only when a payment began?
    provider,   \* every payment, as the provider has it
    ledger,     \* and as it is stored
    feeMapped,  \* the transactions endpoint has a fee field (feePathOf)
    anchor,     \* the connection's newest anchor
    entering    \* where a setAnchor is, and its locals

balanceVars == <<time, datesMove, provider, ledger, feeMapped, anchor, entering>>

Times == 0..(2 * MaxAnchors)

Unborn == [status |-> "none", began |-> 0, moved |-> 0]

NotHeld == [held |-> FALSE, status |-> "none", at |-> 0, fee |-> 0, firstSeen |-> 0]

NoAnchor == [entered |-> FALSE, amount |-> 0, takenAt |-> 0, enteredAt |-> 0,
             baseline |-> 0, baselineFees |-> 0, feeMapped |-> FALSE,
             inAmount |-> {}, fees |-> 0, held |-> {}, sound |-> TRUE]

NotEntering == [pc |-> "idle", figure |-> NoAnchor]

Counting(p) == ledger[p].status = "settled"

ValueOf(S) == SumFunctionOnSet(Value, S)
FeesIn(S) == SumFunctionOnSet([p \in Payments |-> ledger[p].fee], S)

(* groupsFromStore and groupsFromPaymaxis with applyRules: the net of a set  *)
(* of rows, fees apart.                                                      *)
Counted == {p \in Payments : Counting(p)}

(* The provider's own books.                                                 *)
Settled == {p \in Payments : provider[p].status = "settled"}
ChargesOf(S) == SumFunctionOnSet(Charge, S)
Truth == ValueOf(Settled) - ChargesOf(Settled)

Statuses == {"none", "pending", "settled", "reversed"}

Figure ==
    [entered : BOOLEAN, amount : Int, takenAt : Times, enteredAt : Times,
     baseline : Int, baselineFees : Nat, feeMapped : BOOLEAN,
     inAmount : SUBSET Payments, fees : Nat, held : SUBSET Payments, sound : BOOLEAN]

BalanceTypeOK ==
    /\ time \in Times
    /\ datesMove \in BOOLEAN
    /\ feeMapped \in BOOLEAN
    /\ provider \in [Payments -> [status : Statuses, began : Times, moved : Times]]
    /\ ledger \in [Payments -> [held : BOOLEAN, status : Statuses,
                                at : Times, fee : Nat, firstSeen : Times]]
    /\ anchor \in Figure
    /\ entering \in [pc : {"idle", "read", "measured"}, figure : Figure]

BalanceInit ==
    /\ time = 0
    /\ datesMove \in BOOLEAN
    /\ provider = [p \in Payments |-> Unborn]
    /\ ledger = [p \in Payments |-> NotHeld]
    /\ feeMapped \in BOOLEAN
    /\ anchor = NoAnchor
    /\ entering = NotEntering

-----------------------------------------------------------------------------
(* The provider: a payment begins, and its money moves or comes back.        *)
BecomesAt(p, state) ==
    /\ provider' = [provider EXCEPT ![p] = state]
    /\ UNCHANGED <<time, datesMove, ledger, feeMapped, anchor, entering>>

PaymentBegins(p) ==
    /\ provider[p].status = "none"
    /\ BecomesAt(p, [status |-> "pending", began |-> time, moved |-> time])

PaymentMoves(p) ==
    /\ provider[p].status \in {"none", "pending"}
    /\ BecomesAt(p, [status |-> "settled",
                     began |-> IF provider[p].status = "none" THEN time ELSE provider[p].began,
                     moved |-> time])

PaymentReversed(p) ==
    /\ provider[p].status = "settled"
    /\ BecomesAt(p, [provider[p] EXCEPT !.status = "reversed"])

(* A sync, an imported file or the Paymaxis poll stores a payment as it is   *)
(* now.  Only the first write gives a row its firstSeenAt.                   *)
RowOf(p) ==
    [held |-> TRUE, status |-> provider[p].status,
     at |-> IF datesMove THEN provider[p].moved ELSE provider[p].began,
     fee |-> IF feeMapped THEN Charge[p] ELSE 0,
     firstSeen |-> IF ledger[p].held THEN ledger[p].firstSeen ELSE time]

StoreRow(p) ==
    /\ provider[p].status # "none"
    /\ ledger' = [ledger EXCEPT ![p] = RowOf(p)]
    /\ UNCHANGED <<time, datesMove, provider, feeMapped, anchor, entering>>

(* The endpoint's fee field is set, or cleared.                              *)
MapFee ==
    /\ feeMapped' = ~feeMapped
    /\ UNCHANGED <<time, datesMove, provider, ledger, anchor, entering>>

-----------------------------------------------------------------------------

\* Seeded fault: every row dated before the reading is taken for a late one.
ArrivedByDate == {p \in Counted : ledger[p].at <= anchor.takenAt}

(* view: the rows the snapshot is topped up with.  They are always looked    *)
(* for in the provider's table, where a connection that reads Paymaxis has   *)
(* none.                                                                     *)
Arrived ==
    IF LedgerSource = "paymaxis" THEN {}
    ELSE {p \in Counted : /\ ledger[p].firstSeen > anchor.enteredAt
                          /\ ledger[p].at <= anchor.takenAt}

FeeMappingChanged == anchor.feeMapped # feeMapped

(* Held out of both sides once the two were measured differently.            *)
FeesSince ==
    IF FeeMappingChanged THEN 0
    ELSE FeesIn(Counted) - (anchor.baselineFees + FeesIn(Arrived))

Estimate ==
    anchor.amount + ValueOf(Counted) - (anchor.baseline + ValueOf(Arrived)) - FeesSince

(* setAnchor: somebody reads the portal, ...                                 *)
ReadPortal ==
    /\ entering.pc = "idle"
    /\ time + 2 <= 2 * MaxAnchors
    /\ entering' = [pc |-> "read",
                    figure |-> [NoAnchor EXCEPT !.amount = Truth, !.takenAt = time,
                                                !.inAmount = Settled,
                                                !.fees = ChargesOf(Settled)]]
    /\ time' = time + 1
    /\ UNCHANGED <<datesMove, provider, ledger, feeMapped, anchor>>

(* ... enters it, and the baseline is measured ...                           *)
(* (ghost: of the rows held, it counts those that are in the figure, each    *)
(* with the fee its field now gives), ...                                    *)
StoredFee(p) == IF feeMapped THEN Charge[p] ELSE 0

Agrees(figure) ==
    \A p \in Payments : ledger[p].held =>
        /\ Counting(p) <=> p \in figure.inAmount
        /\ Counting(p) => ledger[p].fee = StoredFee(p)

Measured(figure) ==
    [figure EXCEPT !.entered = TRUE,
                   !.baseline = ValueOf(Counted),
                   !.baselineFees = FeesIn(Counted),
                   !.feeMapped = feeMapped,
                   !.held = {p \in Payments : ledger[p].held},
                   !.sound = Agrees(figure)]

Measure ==
    /\ entering.pc = "read"
    /\ entering' = [pc |-> "measured", figure |-> Measured(entering.figure)]
    /\ UNCHANGED <<time, datesMove, provider, ledger, feeMapped, anchor>>

(* ... and the anchor is created.                                            *)
CreateAnchor ==
    /\ entering.pc = "measured"
    /\ anchor' = [entering.figure EXCEPT !.enteredAt = time]
    /\ entering' = NotEntering
    /\ time' = time + 1
    /\ UNCHANGED <<datesMove, provider, ledger, feeMapped>>

AnchorFails ==
    /\ entering.pc # "idle"
    /\ entering' = NotEntering
    /\ UNCHANGED <<time, datesMove, provider, ledger, feeMapped, anchor>>

BalanceNext ==
    \/ \E p \in Payments :
        \/ PaymentBegins(p)
        \/ PaymentMoves(p)
        \/ PaymentReversed(p)
        \/ StoreRow(p)
    \/ MapFee
    \/ ReadPortal
    \/ Measure
    \/ CreateAnchor
    \/ AnchorFails

BalanceSpec == BalanceInit /\ [][BalanceNext]_balanceVars

-----------------------------------------------------------------------------
(* What is stored of a payment is what the provider has, fee included.       *)
UpToDate(p) == ledger[p].held => ledger[p] = RowOf(p)
Complete == \A p \in Payments :
    UpToDate(p) /\ (provider[p].status # "none" => ledger[p].held)

(* The newest figure can be moved faithfully: the baseline agreed with it;   *)
(* no row it holds already was stored between the measure and the entry, or  *)
(* was reversed before anybody stored it; and a payment that began before    *)
(* the reading and moved after it is told apart by its date or by its row.   *)
Movable ==
    /\ anchor.entered /\ anchor.sound
    /\ \A p \in Payments \ anchor.held :
         IF p \in anchor.inAmount
         THEN /\ provider[p].status = "settled"
              /\ ledger[p].held => ledger[p].firstSeen > anchor.enteredAt
         ELSE datesMove \/ provider[p].began > anchor.takenAt

(* Once the ledger has caught up, the estimate is the provider's balance to  *)
(* the cent, whatever began, moved, was reversed or arrived late in between, *)
(* and if the fee is not read, or is read from elsewhere since, it is over   *)
(* by the charges since and no more (psp-balance.service.ts:1337-1383).      *)
EstimateIsTrue ==
    Movable /\ Complete =>
        Estimate = Truth + IF feeMapped /\ anchor.feeMapped THEN 0
                           ELSE ChargesOf(Settled) - anchor.fees

(* A row that reaches us long after its money moved is inside the figure     *)
(* somebody copied off the portal: storing it leaves the estimate where it   *)
(* was (psp-balance.service.ts:1340-1354).                                   *)
LateRowsDoNotMove ==
    [][\A p \in Payments :
         /\ anchor.entered /\ ~ledger[p].held /\ ledger'[p].held
         /\ time > anchor.enteredAt
         /\ provider[p].moved <= anchor.takenAt /\ datesMove
         => Estimate' = Estimate]_balanceVars

-----------------------------------------------------------------------------
(* Why the estimate is true.  A figure read off the portal is the payments    *)
(* settled then and nothing of what settled since; ...                        *)
IsOfItsReading(figure) ==
    /\ figure.amount = ValueOf(figure.inAmount) - ChargesOf(figure.inAmount)
    /\ figure.fees = ChargesOf(figure.inAmount)
    /\ figure.takenAt < time
    /\ \A p \in Payments :
        IF p \in figure.inAmount
        THEN provider[p].status \in {"settled", "reversed"} /\ provider[p].moved <= figure.takenAt
        ELSE provider[p].status = "settled" => provider[p].moved > figure.takenAt

(* ... and its baseline, if it agreed, the rows of those that were held.      *)
IsMeasured(figure) ==
    /\ \A p \in figure.held : ledger[p].held
    /\ figure.sound =>
        /\ figure.baseline = ValueOf(figure.inAmount \cap figure.held)
        /\ figure.baselineFees = IF figure.feeMapped
                                 THEN ChargesOf(figure.inAmount \cap figure.held) ELSE 0

BalanceInv ==
    /\ BalanceTypeOK
    /\ \A p \in Payments :
        /\ provider[p].began <= provider[p].moved /\ provider[p].moved <= time
        /\ provider[p].status \in {"none", "pending"} => provider[p].began = provider[p].moved
        /\ ledger[p].firstSeen <= time
        /\ ~ledger[p].held => ledger[p] = NotHeld
        /\ ledger[p].held => provider[p].status # "none"
    /\ entering.pc # "idle" => time < 2 * MaxAnchors /\ IsOfItsReading(entering.figure)
    /\ entering.pc = "measured" => entering.figure.entered /\ IsMeasured(entering.figure)
    /\ anchor.entered =>
        /\ IsOfItsReading(anchor) /\ IsMeasured(anchor)
        /\ \A p \in anchor.held : ledger[p].firstSeen <= anchor.enteredAt
=============================================================================
