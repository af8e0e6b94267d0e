---------------------------- MODULE ReconEngine ----------------------------
(***************************************************************************)
(* The reconciliation of one period (web/src/lib/recon/v15): Layer 1 pairs *)
(* CRM rows with cashier rows, Layer 2 pairs cashier rows with provider    *)
(* rows, and the master joins both on the cashier row and judges all       *)
(* three legs together.  One action per row of each pass.                  *)
(*                                                                         *)
(* A row keeps what the passes read: identifiers, direction, entity,       *)
(* amount, and its status as a class.  Two statuses are classes of their   *)
(* own, as the layers and the master read them differently (status.ts):    *)
(* AWAITING WEBHOOK and PROCESSING.  A cashier row's ID is its place in    *)
(* the file; "says" is the word a dropped one is reported by, a provider's *)
(* fault (isUncertain) before any.                                         *)
(***************************************************************************)
EXTENDS Integers, Sequences, FiniteSets, FiniteSetsExt, Functions

CONSTANTS
    CrmFiles,      \* the CRM files considered: sequences of rows
    CashierFiles,  \* the cashier files
    ProviderFiles, \* the providers' rows, all connections' in one sequence
    Configs,       \* the configured providers, in order
    Guarded        \* those whose rows are never matched without a customer

Settlements == {"ACTIVE", "PENDING", "FAILED"}

Classes == Settlements \cup {"AWAITING", "PROCESSING"}

Sayings == {"fault", "completed", "awaiting", "reconciling", "declined", "other"}

\* A provider's rows are read under its configuration, and each has an ID.  The
\* words that say a decline are all among those of a failure.
ASSUME EngineAssumption ==
    /\ Configs \in Seq(STRING)
    /\ CrmFiles \subseteq
         Seq([keys : SUBSET STRING, type : STRING, class : Classes,
              amount : Int, entity : STRING])
    /\ CashierFiles \subseteq
         Seq([ref : STRING, keys : SUBSET STRING, type : STRING,
              class : Classes, amount : Int, entity : STRING, route : STRING,
              names : Seq(STRING), customer : STRING, says : Sayings])
    /\ \A file \in CashierFiles : \A c \in DOMAIN file :
          file[c].says = "declined" => file[c].class = "FAILED"
    /\ ProviderFiles \subseteq
         Seq([config : Range(Configs), ids : Seq(STRING) \ {<<>>}, type : STRING,
              class : Classes, amount : Int, customer : STRING])

VARIABLES
    crm, cashier, psp, \* the three inputs
    stage,    \* the pass being run
    todo,     \* rows the pass has still to see
    pairs,    \* Layer 1: legs of the CRM and the cashier row they claimed
    matches,  \* Layer 2: cashier row |-> its provider row and how it matched
    one       \* the master's rows

engineVars == <<crm, cashier, psp, stage, todo, pairs, matches, one>>

----------------------------------------------------------------------------
(* Statuses and families. *)

\* What a status is to the two layers, by the keywords it contains, and to the
\* master, for which both of these are in flight.
LayerClass(class) ==
    CASE class = "AWAITING" -> "FAILED"
      [] class = "PROCESSING" -> "ACTIVE"
      [] OTHER -> class

MasterClass(class) == IF class \in {"AWAITING", "PROCESSING"} THEN "PENDING" ELSE class

\* Seeded fault: declined rows are matched first.
DeclinesFirst(class) ==
    CASE LayerClass(class) = "ACTIVE" -> 3
      [] LayerClass(class) = "PENDING" -> 2
      [] LayerClass(class) = "FAILED" -> 1

\* Settled successes are matched first, settled failures last.
Priority(class) ==
    CASE LayerClass(class) = "ACTIVE" -> 1
      [] LayerClass(class) = "PENDING" -> 2
      [] LayerClass(class) = "FAILED" -> 3

CrmOf(type) == {i \in DOMAIN crm : crm[i].type = type}
CashierOf(type) == {c \in DOMAIN cashier : cashier[c].type = type}

\* Every identifier linked to these through groups that hold both.
Linked(groups, keys) ==
    LET grown[n \in 0..Cardinality(groups)] ==
            IF n = 0 THEN keys
            ELSE grown[n - 1]
                   \cup UNION {g \in groups : g \cap grown[n - 1] # {}}
    IN  grown[Cardinality(groups)]

Family(keys) ==
    Linked({crm[i].keys : i \in CrmOf("DEPOSIT")}
             \cup {cashier[c].keys : c \in CashierOf("DEPOSIT")}, keys)

Used == {p.cash : p \in pairs}

\* A filter that is dropped when it would leave nothing.
Preferring(S, Good(_)) == IF \E c \in S : Good(c) THEN {c \in S : Good(c)} ELSE S

Gap(a, b) == IF a < b THEN b - a ELSE a - b

\* The weights of pickBestCashierForCrm, for what the rows keep.
Score(i, c) ==
    LET own == LayerClass(crm[i].class)
        same == own = LayerClass(cashier[c].class)
        apart == {own, LayerClass(cashier[c].class)} = {"ACTIVE", "FAILED"}
    IN  (IF crm[i].keys \cap cashier[c].keys # {} THEN 5000 ELSE 0)
          + (CASE own = "ACTIVE" /\ same -> 3000
               [] own = "FAILED" /\ same -> 2800
               [] apart -> -1500
               [] OTHER -> 0)
          + (IF crm[i].amount = cashier[c].amount THEN 1200 ELSE 600)

\* Which cashier row of the family is this CRM deposit: the entity decides
\* before the status does, then the score, then the ID.  0 is none.
PickForDeposit(i) ==
    LET free == {c \in CashierOf("DEPOSIT") \ Used :
                    cashier[c].keys \cap Family(crm[i].keys) # {}}
        sameEntity == Preferring(free, LAMBDA c : cashier[c].entity = crm[i].entity)
        available == Preferring(sameEntity, LAMBDA c :
                        /\ LayerClass(crm[i].class) # "PENDING"
                        /\ LayerClass(cashier[c].class) = LayerClass(crm[i].class))
    IN  IF free = {} THEN 0
        ELSE CHOOSE c \in available : \A d \in available :
                \/ Score(i, c) > Score(i, d)
                \/ Score(i, c) = Score(i, d) /\ c <= d

\* The withdrawal's key is exact; entity and direction only disambiguate.
PickForWithdrawal(legs, primary) ==
    LET free == {c \in DOMAIN cashier \ Used :
                    cashier[c].ref \in crm[primary].keys}
        sameType == Preferring(free, LAMBDA c : cashier[c].type = "WITHDRAWAL")
        available == Preferring(sameType, LAMBDA c :
                        /\ cashier[c].type = "WITHDRAWAL"
                        /\ cashier[c].entity = crm[primary].entity)
    IN  IF free = {} THEN 0 ELSE Min(available)

----------------------------------------------------------------------------
(* Layer 1. *)

\* Seeded fault: Layer 2 guesses before it looks for certain matches.
GuessesFirst(s) ==
    CASE s = "deposits" -> "withdrawals" [] s = "withdrawals" -> "fuzzy"
      [] s = "fuzzy" -> "exact" [] s = "exact" -> "master"
      [] s = "master" -> "done"

StageAfter(s) ==
    CASE s = "deposits" -> "withdrawals" [] s = "withdrawals" -> "exact"
      [] s = "exact" -> "fuzzy" [] s = "fuzzy" -> "master"
      [] s = "master" -> "done"

\* The rows a pass visits.
RowsOf(s) ==
    CASE s = "deposits" -> CrmOf("DEPOSIT")
      [] s = "withdrawals" -> {i \in CrmOf("WITHDRAWAL") : crm[i].keys # {}}
      [] s \in {"exact", "fuzzy"} -> DOMAIN cashier
      [] OTHER -> {}

EngineInit ==
    /\ crm \in CrmFiles
    /\ cashier \in CashierFiles
    /\ psp \in ProviderFiles
    /\ stage = "deposits"
    /\ todo = CrmOf("DEPOSIT")
    /\ pairs = {}
    /\ matches = <<>>
    /\ one = {}

\* A pass has seen all its rows.
PassEnds ==
    /\ stage \notin {"master", "done"}
    /\ todo = {}
    /\ stage' = StageAfter(stage)
    /\ todo' = RowsOf(stage')
    /\ UNCHANGED <<crm, cashier, psp, pairs, matches, one>>

FirstBy(S, Rank(_)) ==
    CHOOSE i \in S : \A j \in S :
        Rank(i) < Rank(j) \/ (Rank(i) = Rank(j) /\ i <= j)

MatchDeposit ==
    /\ stage = "deposits"
    /\ todo # {}
    /\ LET i == FirstBy(todo, LAMBDA r : Priority(crm[r].class)) IN
       /\ pairs' = pairs \cup
            {[legs |-> {i}, primary |-> i, cash |-> c] :
                c \in {PickForDeposit(i)} \ {0}}
       /\ todo' = todo \ {i}
    /\ UNCHANGED <<crm, cashier, psp, stage, matches, one>>

\* The leg a withdrawal's row is made from; any other CRM row is its own.
Speaker(i) ==
    IF i \in RowsOf("withdrawals")
    THEN FirstBy({j \in RowsOf("withdrawals") : crm[j].keys = crm[i].keys},
                 LAMBDA r : Priority(crm[r].class))
    ELSE i

\* The legs the CRM books for one withdrawal meet the cashier's gross row
\* together; the settled leg speaks for them.
MatchWithdrawal ==
    /\ stage = "withdrawals"
    /\ todo # {}
    /\ LET legs == {j \in todo : crm[j].keys = crm[Min(todo)].keys}
           primary == Speaker(Min(todo))
       IN
       /\ pairs' = pairs \cup
            {[legs |-> legs, primary |-> primary, cash |-> c] :
                c \in {PickForWithdrawal(legs, primary)} \ {0}}
       /\ todo' = todo \ legs
    /\ UNCHANGED <<crm, cashier, psp, stage, matches, one>>

\* Seeded fault: one side's decline is enough to drop the pair.
EitherFailed(p) ==
    "FAILED" \in {LayerClass(crm[p.primary].class), LayerClass(cashier[p.cash].class)}

\* Both sides declined: the pair is dropped from Layer 1's rows.
BothFailed(p) ==
    LayerClass(crm[p.primary].class) = "FAILED" /\ LayerClass(cashier[p.cash].class) = "FAILED"

Shown == {p \in pairs : ~BothFailed(p)}

----------------------------------------------------------------------------
(* Layer 2. *)

Uploaded == {psp[k].config : k \in DOMAIN psp}

ProviderId(k) == <<psp[k].config, psp[k].ids[1]>>
Claimed == {ProviderId(matches[c].row) : c \in DOMAIN matches}
Unclaimed == {k \in DOMAIN psp : ProviderId(k) \notin Claimed}

\* Unknown on either side is permissive, not a rejection.
TypesMatch(c, k) == psp[k].type \in {"", cashier[c].type}

\* A cashier row tries its own connection first, then the others in order.
Turn(c, m) == IF Configs[m] = cashier[c].route THEN 0 ELSE m

\* Provider rows this cashier row names: at its nth identifier, in the mth
\* connection.
Named(c, m, n) ==
    {k \in Unclaimed :
        /\ psp[k].config = Configs[m]
        /\ cashier[c].names[n] \in Range(psp[k].ids)}

ExactPick(c) ==
    LET tries == {t \in (DOMAIN Configs) \X (DOMAIN cashier[c].names) :
                    Named(c, t[1], t[2]) # {}}
        first == CHOOSE t \in tries : \A u \in tries :
                    \/ Turn(c, t[1]) < Turn(c, u[1])
                    \/ Turn(c, t[1]) = Turn(c, u[1]) /\ t[2] <= u[2]
    IN  IF tries = {} THEN 0
        ELSE Min(Preferring(Named(c, first[1], first[2]),
                            LAMBDA k : TypesMatch(c, k)))

MatchExact ==
    /\ stage = "exact"
    /\ todo # {}
    /\ LET c == Min(todo)
           k == ExactPick(c)
       IN
       /\ matches' = IF k = 0 THEN matches
                     ELSE [d \in DOMAIN matches \cup {c} |->
                             IF d = c THEN [row |-> k, how |-> "exact"] ELSE matches[d]]
       /\ todo' = todo \ {c}
    /\ UNCHANGED <<crm, cashier, psp, stage, pairs, one>>

\* Both files carry the customer, and it is the same one.
Identified(c, k) ==
    cashier[c].customer # "" /\ cashier[c].customer = psp[k].customer

\* Only rows of the connection the cashier row was routed to are guessed at:
\* the same customer, or, where guessing is allowed, the same amount alone.
FuzzyPick(c) ==
    LET near == {k \in Unclaimed :
                    /\ psp[k].config = cashier[c].route
                    /\ TypesMatch(c, k)
                    /\ psp[k].amount = cashier[c].amount
                    /\ Identified(c, k) \/ psp[k].config \notin Guarded}
    IN  IF near = {} THEN 0
        ELSE Min(Preferring(near, LAMBDA k : Identified(c, k)))

MatchFuzzy ==
    /\ stage = "fuzzy"
    /\ todo # {}
    /\ LET c == Min(todo)
           k == IF c \in DOMAIN matches THEN 0 ELSE FuzzyPick(c)
       IN
       /\ matches' = IF k = 0 THEN matches
                     ELSE [d \in DOMAIN matches \cup {c} |->
                             IF d = c THEN [row |-> k, how |-> "fuzzy"] ELSE matches[d]]
       /\ todo' = todo \ {c}
    /\ UNCHANGED <<crm, cashier, psp, stage, pairs, one>>

----------------------------------------------------------------------------
(* The master: one row per cashier row the layers show, then what only one *)
(* side has, then the cashier rows neither layer shows.                    *)

NoLeg == [class |-> "MISSING", gap |-> 0]

\* What the legs come to together.
Total(rows, legs) == MapThenSumSet(LAMBDA i : rows[i].amount, legs)

\* Layer 1's leg of a cashier row.  A dropped pair shows none.
CrmLeg(c) ==
    IF \E p \in Shown : p.cash = c
    THEN LET p == CHOOSE q \in Shown : q.cash = c
         IN  [class |-> MasterClass(crm[p.primary].class),
              gap |-> Gap(Total(crm, p.legs), cashier[c].amount)]
    ELSE NoLeg

ProviderLeg(c) ==
    IF c \in DOMAIN matches
    THEN LET k == matches[c].row
         IN  [class |-> MasterClass(psp[k].class),
              gap |-> Gap(cashier[c].amount, psp[k].amount)]
    ELSE NoLeg

\* Layer 2 says the provider's file is not there, so no leg can be expected.
FileMissing(c) ==
    /\ Uploaded # {}
    /\ c \notin DOMAIN matches
    /\ cashier[c].route \in Range(Configs) \ Uploaded

\* Layer 2 leaves an unmatched row out when it is declined and its file is there.
ShownByLayer2(c) ==
    /\ Uploaded # {}
    /\ \/ c \in DOMAIN matches
       \/ cashier[c].route = "none"
       \/ FileMissing(c)
       \/ LayerClass(cashier[c].class) # "FAILED"

\* Layer 1 shows the pairs, and what is left of the cashier's file unless it
\* is declined or was never routed; without a CRM file it does not run.
ShownByLayer1(c) ==
    \/ \E p \in Shown : p.cash = c
    \/ /\ crm # <<>>
       /\ c \notin Used
       /\ LayerClass(cashier[c].class) # "FAILED"
       /\ cashier[c].route # "none"

\* Seeded fault: a provider is expected to hold only what was found there.
ExpectedIfFound(c) == c \in DOMAIN matches

ProviderExpected(c) ==
    ShownByLayer2(c) /\ ~FileMissing(c)
        /\ (c \in DOMAIN matches \/ cashier[c].route \in Range(Configs))

Verdict(status, priority) == [status |-> status, priority |-> priority]

\* The CRM and the provider are sources of truth, the cashier the router: the
\* order of the branches is the logic.
Combine(a, cash, b, expected) ==
    LET legs == <<a.class, cash, b.class>>
        active == {n \in 1..3 : legs[n] = "ACTIVE"}
        failed == {n \in 1..3 : legs[n] = "FAILED"}
        agreed == IF a.gap = 0 /\ b.gap = 0 THEN Verdict("Reconciled", 5)
                  ELSE Verdict("Amount Mismatch", 2)
    IN  CASE active # {} /\ failed # {} -> Verdict("Status Mismatch", 1)
          [] active = {} /\ failed # {} /\ "PENDING" \in Range(legs) ->
                Verdict("Needs Review", 3)
          [] active = {} /\ failed # {} /\ "PENDING" \notin Range(legs) ->
                Verdict("Agreed Decline", 6)
          [] active = {} /\ failed = {} ->
                IF a.class = "MISSING" THEN Verdict("Incomplete", 7)
                ELSE Verdict("Needs Review", 3)
          [] OTHER ->
                IF cash # "ACTIVE"
                THEN IF Cardinality(active) >= 2 THEN agreed ELSE Verdict("Needs Review", 3)
                ELSE IF a.class = "MISSING" THEN Verdict("Missing in CRM", 1)
                ELSE IF expected /\ b.class = "MISSING" THEN Verdict("Missing in PSP", 2)
                ELSE IF a.class = "PENDING" THEN Verdict("Needs Review", 2)
                ELSE IF b.class = "PENDING" THEN Verdict("Needs Review", 3)
                ELSE agreed

Row(kind, of, verdict) ==
    [kind |-> kind, of |-> of, status |-> verdict.status, priority |-> verdict.priority]

\* A chain whose provider's file is missing is never called reconciled.
ChainRow(c) ==
    LET v == Combine(CrmLeg(c), MasterClass(cashier[c].class), ProviderLeg(c),
                     ProviderExpected(c))
    IN  Row("chain", c, IF FileMissing(c) /\ v.status = "Reconciled"
                        THEN Verdict("Not Reconciled", 7) ELSE v)

\* What became of a cashier row in neither layer, by what it says.
DroppedRow(c) ==
    Row("dropped", c,
        CASE cashier[c].says = "fault" -> Verdict("Provider Error", 1)
          [] cashier[c].says = "completed" -> Verdict("Completed but Not Reconciled", 1)
          [] cashier[c].says = "awaiting" -> Verdict("Awaiting Webhook", 2)
          [] cashier[c].says = "reconciling" -> Verdict("In Reconciliation", 2)
          [] cashier[c].says = "declined" -> Verdict("Agreed Decline", 6)
          [] OTHER -> IF cashier[c].route = "none"
                      THEN Verdict("Never Routed", 3) ELSE Verdict("Unclassified", 3))

\* What only the CRM or a provider has is reported by its layer, and neither
\* layer runs without a cashier's file.
Master ==
    /\ stage = "master"
    /\ LET shown == {c \in DOMAIN cashier : ShownByLayer1(c) \/ ShownByLayer2(c)}
           alone == {i \in DOMAIN crm : i = Speaker(i) /\ \A p \in pairs : i \notin p.legs}
       IN  one' = {ChainRow(c) : c \in shown}
              \cup {Row("crm", i, Verdict("Missing in Cashier", 1)) :
                       i \in {j \in alone : cashier # <<>> /\ LayerClass(crm[j].class) # "FAILED"}}
              \cup {Row("psp", k, Verdict("Unmatched PSP", 2)) :
                       k \in {j \in Unclaimed : cashier # <<>> /\ LayerClass(psp[j].class) # "FAILED"}}
              \cup {DroppedRow(c) : c \in DOMAIN cashier \ shown}
    /\ stage' = StageAfter(stage)
    /\ UNCHANGED <<crm, cashier, psp, todo, pairs, matches>>

EngineNext == MatchDeposit \/ MatchWithdrawal \/ MatchExact \/ MatchFuzzy \/ PassEnds \/ Master

EngineSpec == EngineInit /\ [][EngineNext]_engineVars

----------------------------------------------------------------------------
(* What the layers promise one another. *)

\* A declined retry never holds a cashier row while a settled CRM deposit of
\* its family is left without one (families.ts, crmProcessingPriority: a failed
\* retry must not claim the row first), whatever order the files are in.  To the
\* layers PROCESSING is settled too, and takes its turn among the settled.
SettledFirst ==
    stage \notin {"deposits"} =>
        \A i \in CrmOf("DEPOSIT") :
            LayerClass(crm[i].class) = "ACTIVE" /\ (\A p \in pairs : i \notin p.legs) =>
                \A p \in pairs :
                    crm[p.primary].type = "DEPOSIT"
                        /\ Family(crm[p.primary].keys) = Family(crm[i].keys) =>
                    LayerClass(crm[p.primary].class) = "ACTIVE"

\* A guess never holds a provider row that a cashier row names and still lacks
\* a certain match for (layer2.ts: exact first, because it is certain).
ExactFirst ==
    stage \in {"master", "done"} =>
        \A c \in DOMAIN matches : matches[c].how = "fuzzy" =>
            \A d \in DOMAIN cashier :
                (d \in DOMAIN matches => matches[d].how = "fuzzy") =>
                    Range(cashier[d].names)
                        \cap Range(psp[matches[c].row].ids) = {}

\* The legs the two layers claimed for a cashier row, dropped pairs included.
LegsOf(c) ==
    {MasterClass(cashier[c].class)}
        \cup {MasterClass(crm[p.primary].class) : p \in {q \in pairs : q.cash = c}}
        \cup {MasterClass(psp[matches[d].row].class) : d \in DOMAIN matches \cap {c}}

\* A chain called reconciled is settled by the CRM and, where the provider's
\* file is there, by the provider; and no layer claimed a leg that failed
\* (master.ts: successes must be corroborated).
ReconciledIsAgreed ==
    \A r \in one : r.status = "Reconciled" =>
        /\ CrmLeg(r.of) = [class |-> "ACTIVE", gap |-> 0]
        /\ cashier[r.of].route \in Uploaded =>
              ProviderLeg(r.of) = [class |-> "ACTIVE", gap |-> 0]
        /\ "FAILED" \notin LegsOf(r.of)

\* What is folded out of the queue as a decline or an abandoned attempt has
\* no leg, in either layer, that succeeded.
FoldedIsHarmless ==
    \A r \in one : r.kind \in {"chain", "dropped"}
                      /\ r.status \in {"Agreed Decline", "Incomplete"} =>
        "ACTIVE" \notin LegsOf(r.of)

\* master.ts, "something succeeded AND something failed: a genuine conflict":
\* whatever the cashier row says, such a chain is reported as one.
ConflictIsReported ==
    stage = "done" =>
        \A c \in DOMAIN cashier :
            {"ACTIVE", "FAILED"} \subseteq LegsOf(c) =>
                \E r \in one : r.kind = "chain" /\ r.of = c /\ r.status = "Status Mismatch"

----------------------------------------------------------------------------
(* What keeps them. *)

EngineTypeOK ==
    /\ crm \in CrmFiles /\ cashier \in CashierFiles /\ psp \in ProviderFiles
    /\ stage \in {"deposits", "withdrawals", "exact", "fuzzy", "master", "done"}
    /\ todo \subseteq RowsOf(stage)
    /\ pairs \subseteq [legs : SUBSET DOMAIN crm, primary : DOMAIN crm, cash : DOMAIN cashier]
    /\ DOMAIN matches \subseteq DOMAIN cashier
    /\ matches \in [DOMAIN matches -> [row : DOMAIN psp, how : {"exact", "fuzzy"}]]
    /\ stage \in {"deposits", "withdrawals"} => matches = <<>>
    /\ stage # "done" => one = {}

\* A cashier row is claimed by one pair at most.
ClaimedOnce == \A p, q \in pairs : p.cash = q.cash => p = q

\* The deposits the first pass has seen.
Seen == IF stage = "deposits" THEN CrmOf("DEPOSIT") \ todo ELSE CrmOf("DEPOSIT")

\* The pass sees them in order, and a deposit is paired as itself.
InOrder ==
    /\ \A i \in Seen, j \in CrmOf("DEPOSIT") \ Seen :
          Priority(crm[i].class) <= Priority(crm[j].class)
    /\ \A p \in pairs : crm[p.primary].type = "DEPOSIT" =>
          p.legs = {p.primary} /\ p.primary \in Seen

\* A deposit seen and left alone left no cashier row of its family free.
NothingFree ==
    \A i \in Seen : (\A p \in pairs : i \notin p.legs) =>
        \A c \in CashierOf("DEPOSIT") :
            cashier[c].keys \cap Family(crm[i].keys) # {} => c \in Used

SettledFirstSoFar ==
    \A i \in Seen : LayerClass(crm[i].class) = "ACTIVE" /\ (\A p \in pairs : i \notin p.legs) =>
        \A p \in pairs :
            crm[p.primary].type = "DEPOSIT"
                /\ Family(crm[p.primary].keys) = Family(crm[i].keys) =>
            LayerClass(crm[p.primary].class) = "ACTIVE"

\* The provider rows whose match is certain, ...
Certain == {c \in DOMAIN matches : matches[c].how = "exact"}
ClaimedForCertain == {ProviderId(matches[c].row) : c \in Certain}

\* ... and the cashier rows that were tried for one.
Tried ==
    IF stage = "exact" THEN DOMAIN cashier \ todo
    ELSE IF stage \in {"fuzzy", "master", "done"} THEN DOMAIN cashier ELSE {}

CertainFirst ==
    /\ stage = "exact" => Certain = DOMAIN matches /\ todo \cap DOMAIN matches = {}
    /\ \A d \in Tried \ Certain, k \in DOMAIN psp :
          Range(cashier[d].names) \cap Range(psp[k].ids) # {} =>
              ProviderId(k) \in ClaimedForCertain
    /\ \A c \in DOMAIN matches \ Certain :
          ProviderId(matches[c].row) \notin ClaimedForCertain

EngineInv ==
    /\ EngineTypeOK
    /\ ClaimedOnce
    /\ InOrder
    /\ NothingFree
    /\ SettledFirstSoFar
    /\ CertainFirst
    /\ ReconciledIsAgreed
    /\ FoldedIsHarmless
=============================================================================
