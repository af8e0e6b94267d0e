------------------------------ MODULE KycEnrich ------------------------------
(***************************************************************************)
(* KycService.enrich: for every verification the report gave, one request    *)
(* for its checks and one for its applicant.  A pass takes the newest rows   *)
(* still pending, a limited number of them, and stops when its time is spent *)
(* (the nightly pass and the walk of the Compliance screen).                 *)
(*                                                                          *)
(* A row is its number, in the order of submittedAt.  What the requests      *)
(* answer is left out, but for whether they do.                              *)
(***************************************************************************)
EXTENDS Naturals, FiniteSets, FiniteSetsExt

CONSTANTS
    MaxVerifications,  \* bound: rows
    Nameless,          \* those without an applicant id
    Unanswered,        \* those the provider never answers for
    EnrichLimit,       \* EnrichResult.considered is at most this
    MaxSlow            \* bound: passes out of time, requests that fail once

ASSUME EnrichAssumption ==
    /\ {MaxVerifications, EnrichLimit, MaxSlow} \subseteq Nat
    /\ Nameless \cup Unanswered \subseteq 1..MaxVerifications

VARIABLES
    stored,     \* rows 1..stored are in the table
    checks,     \* rows with a checksFetchedAt
    applicants, \* rows with an applicantFetchedAt
    queue,      \* rows this pass has still to ask about
    slow

enrichVars == <<stored, checks, applicants, queue, slow>>

Rows == 1..MaxVerifications

EnrichTypeOK ==
    /\ stored \in 0..MaxVerifications
    /\ checks \cup applicants \cup queue \subseteq 1..stored
    /\ Cardinality(queue) <= EnrichLimit
    /\ slow \in 0..MaxSlow

EnrichInit ==
    /\ stored = 0
    /\ checks = {} /\ applicants = {} /\ queue = {}
    /\ slow = 0

RowArrives ==
    /\ stored < MaxVerifications
    /\ stored' = stored + 1
    /\ UNCHANGED <<checks, applicants, queue, slow>>

\* Seeded fault: a row asked about once, in part, is done with.
PendingBoth == {n \in 1..stored : n \notin checks /\ n \notin applicants}

Pending == {n \in 1..stored : n \notin checks \/ n \notin applicants}

(* The newest first, as many as the limit.                                   *)
Newest(S) == {n \in S : Cardinality({m \in S : m > n}) < EnrichLimit}

PassBegins ==
    /\ queue = {}
    /\ Pending # {}
    /\ queue' = Newest(Pending)
    /\ UNCHANGED <<stored, checks, applicants, slow>>

Slow == slow < MaxSlow /\ slow' = slow + 1

(* A request that fails leaves its column null, and the next pass asks       *)
(* again.                                                                    *)
Asked(n) ==
    \/ /\ n \notin Unanswered
       /\ checks' = checks \cup {n}
       /\ applicants' = applicants \cup ({n} \ Nameless)
       /\ UNCHANGED slow
    \/ /\ n \in Unanswered
       /\ UNCHANGED <<checks, applicants, slow>>
    \/ /\ n \notin Unanswered
       /\ Slow
       /\ \/ checks' = checks \cup {n} /\ UNCHANGED applicants
          \/ applicants' = applicants \cup ({n} \ Nameless) /\ UNCHANGED checks

AskRow ==
    /\ queue # {}
    /\ LET n == Max(queue) IN Asked(n) /\ queue' = queue \ {n}
    /\ UNCHANGED stored

(* The budget is spent, or the host ends the pass.                           *)
PassCutShort ==
    /\ queue # {}
    /\ Slow
    /\ queue' = {}
    /\ UNCHANGED <<stored, checks, applicants>>

EnrichNext == RowArrives \/ PassBegins \/ AskRow \/ PassCutShort

EnrichSpec == EnrichInit /\ [][EnrichNext]_enrichVars

(* kyc.service.ts:1119: "So it walks: newest first, never-asked only, a      *)
(* budget at a time, resumable".  As long as fewer rows than the limit can   *)
(* never be completed, every row that can be is, whatever arrives above it   *)
(* and whatever fails.  A row without an applicant stays pending for ever    *)
(* and holds its place in every pass.                                        *)
Answerable(n) == n \notin Nameless \cup Unanswered

EnrichReachesAll ==
    \A n \in Rows : Answerable(n) =>
        (n <= stored ~> n \in checks /\ n \in applicants)
=============================================================================
