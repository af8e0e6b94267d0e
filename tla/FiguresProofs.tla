--------------------------- MODULE FiguresProofs ---------------------------
(***************************************************************************)
(* What a dashboard shows of rows that others import, for every number of    *)
(* tabs, clients, imports and payments: how fresh the payments are           *)
(* (RefreshGate), where a client stands (KycImport), and the balance of a    *)
(* provider that does not tell it (PspBalance).                              *)
(***************************************************************************)
EXTENDS RefreshGate, KycImport, PspBalance, SetLemmas, SequenceTheorems

----------------------------------------------------------------------------
(* The refresh gate. *)

LEMMA GateStart == GateInit => GateInv
<1> SUFFICES ASSUME GateInit PROVE GateInv
  OBVIOUS
<1> USE GateAssumption DEF GateInit
<1>1. Floor \in Age /\ 0 \in 0..MaxFaults
  BY DEF Age
<1>2. pc \in [Tabs -> {"idle", "claim", "sync", "ok", "clear", "error"}] /\ mine \in [Tabs -> Age]
  BY <1>1
<1>3. GateTypeOK
  BY <1>1, <1>2 DEF GateTypeOK
<1> QED BY <1>3 DEF GateInv, EndedWell

\* Ages only grow older together, and stay in order.
LEMMA OlderKeepsOrder ==
    /\ \A a \in Age : Older(a) \in Age
    /\ \A a, b \in Age : a <= b => Older(a) <= Older(b)
BY GateAssumption DEF Older, Age

LEMMA GateStep == GateInv /\ [GateNext]_gateVars => GateInv'
<1> SUFFICES ASSUME GateInv, [GateNext]_gateVars PROVE GateInv'
  OBVIOUS
<1> USE GateAssumption DEF EndedWell
<1>0. GateTypeOK /\ 0 \in Age /\ (\A a \in Age : a \in Nat /\ a <= Floor)
  BY DEF GateInv, Age
<1>1. CASE Tick
  <2>1. GateTypeOK'
    BY <1>0, <1>1, OlderKeepsOrder DEF Tick, GateTypeOK
  <2>2. EndedWell(lastOk)'
    BY <1>0, <1>1, OlderKeepsOrder DEF Tick, GateInv, GateTypeOK
  <2>3. \A t \in Tabs : pc'[t] = "ok" => EndedWell(mine[t])'
    BY <1>0, <1>1, OlderKeepsOrder DEF Tick, GateInv, GateTypeOK
  <2>4. faults' = 0 /\ ~raced' =>
          /\ \A t \in Tabs : pc'[t] = "claim" => mine'[t] = newest'
          /\ (\A t \in Tabs : pc'[t] # "claim") => lastRun' = newest'
    BY <1>1 DEF Tick, GateInv
  <2> QED BY <2>1, <2>2, <2>3, <2>4 DEF GateInv
<1>2. ASSUME NEW t \in Tabs, Ask(t) PROVE GateInv'
  <2>1. GateTypeOK'
    BY <1>0, <1>2 DEF Ask, Goto, Fault, marks, GateTypeOK
  <2>2. EndedWell(lastOk)'
    BY <1>2 DEF Ask, marks, GateInv
  <2>3. \A u \in Tabs : pc'[u] = "ok" => EndedWell(mine[u])'
    BY <1>0, <1>2 DEF Ask, Goto, GateInv, GateTypeOK
  <2>4. faults' = 0 /\ ~raced' =>
          /\ \A u \in Tabs : pc'[u] = "claim" => mine'[u] = newest'
          /\ (\A u \in Tabs : pc'[u] # "claim") => lastRun' = newest'
    BY <1>0, <1>2 DEF Ask, Goto, GateTypeOK
  <2> QED BY <2>1, <2>2, <2>3, <2>4 DEF GateInv
<1>3. ASSUME NEW t \in Tabs, Refresh(t) PROVE GateInv'
  <2> USE DEF Goto, Fault, Younger
  <2>0. failing' \in BOOLEAN /\ raced' \in BOOLEAN
    BY <1>0, <1>3 DEF Refresh, Claim, SyncEnds, MarkOk, ClearError, MarkError,
      marks, ghosts, GateTypeOK
  <2>a. lastRun' \in Age /\ lastOk' \in Age /\ mine' = mine /\ newest' = newest
          /\ arrived' \in Age /\ swallowed' \in Age /\ faults' \in 0..MaxFaults
    BY <1>0, <1>3 DEF Refresh, Claim, SyncEnds, MarkOk, ClearError, MarkError,
      marks, ghosts, GateTypeOK
  <2>b. pc' \in [Tabs -> {"idle", "claim", "sync", "ok", "clear", "error"}]
    BY <1>0, <1>3 DEF Refresh, Claim, SyncEnds, MarkOk, ClearError, MarkError, GateTypeOK
  <2>1. GateTypeOK'
    BY <1>0, <2>0, <2>a, <2>b DEF GateTypeOK
  <2>2. EndedWell(lastOk)'
    BY <1>0, <1>3 DEF Refresh, Claim, SyncEnds, MarkOk, ClearError, MarkError,
      marks, ghosts, GateTypeOK, GateInv
  <2>3. \A u \in Tabs : pc'[u] = "ok" => EndedWell(mine[u])'
    BY <1>0, <1>3 DEF Refresh, Claim, SyncEnds, MarkOk, ClearError, MarkError,
      marks, ghosts, GateTypeOK, GateInv
  <2>4. faults' = 0 /\ ~raced' =>
          /\ \A u \in Tabs : pc'[u] = "claim" => mine'[u] = newest'
          /\ (\A u \in Tabs : pc'[u] # "claim") => lastRun' = newest'
    BY <1>0, <1>3 DEF Refresh, Claim, SyncEnds, MarkOk, ClearError, MarkError,
      marks, ghosts, GateTypeOK, GateInv
  <2> QED BY <2>1, <2>2, <2>3, <2>4 DEF GateInv
<1>4. ASSUME NEW t \in Tabs, Killed(t) PROVE GateInv'
  <2>1. GateTypeOK' /\ faults' # 0
    BY <1>0, <1>4 DEF Killed, Goto, Fault, marks, ghosts, GateTypeOK
  <2>2. \A u \in Tabs : pc'[u] = "ok" => EndedWell(mine[u])'
    BY <1>0, <1>4 DEF Killed, Goto, ghosts, GateTypeOK, GateInv
  <2> QED BY <1>4, <2>1, <2>2 DEF Killed, marks, ghosts, GateInv
<1>5. CASE UNCHANGED gateVars
  BY <1>5 DEF gateVars, marks, ghosts, GateInv, GateTypeOK
<1> QED BY <1>1, <1>2, <1>3, <1>4, <1>5 DEF GateNext

\* A run decided on, with no fault and no other run about to write the mark,
\* begins at least the forced floor after the newest before it.
LEMMA AskSpaced ==
    ASSUME GateInv, [GateNext]_gateVars
    PROVE  [\A t \in Tabs :
              pc[t] = "idle" /\ pc'[t] = "claim" /\ faults' = 0 /\ ~raced' =>
                  ForcedFloor <= newest]_gateVars
<1> USE GateAssumption
<1>0. GateTypeOK
  BY DEF GateInv
<1> SUFFICES ASSUME GateNext, NEW t \in Tabs,
                    pc[t] = "idle", pc'[t] = "claim", faults' = 0, ~raced'
             PROVE  ForcedFloor <= newest
  BY DEF gateVars, marks, ghosts
<1>1. ~ Tick
  BY DEF Tick
<1>2. \A u \in Tabs : ~ Refresh(u) /\ ~ Killed(u)
  BY <1>0 DEF Refresh, Claim, SyncEnds, MarkOk, ClearError, MarkError, Killed, Goto, GateTypeOK
<1>3. PICK u \in Tabs : Ask(u)
  BY <1>1, <1>2 DEF GateNext
<1>4. PICK forced \in BOOLEAN : DueAfter(forced) <= lastRun /\ UNCHANGED faults
  BY <1>0, <1>3 DEF Ask, Fault, GateTypeOK
<1>5. lastRun = newest
  BY <1>3, <1>4 DEF Ask, GateInv
<1> QED BY <1>0, <1>4, <1>5 DEF DueAfter, GateTypeOK, Age

\* The age of the data shown to a person (PaymaxisService.refresh) is less than
\* that of the newest run whose payments are all stored only when a younger run
\* lost some in a write that failed unreported, and then it is no less than that
\* run's, for any number of tabs, floors and faults.
THEOREM NeverFlattered == GateSpec => []NeverFresherThanData
<1>1. GateInv => NeverFresherThanData
  BY DEF GateInv, GateTypeOK, Age, EndedWell, NeverFresherThanData
<1> QED BY <1>1, GateStart, GateStep, PTL DEF GateSpec

\* Two runs of the poll are a forced floor apart while nothing fails and none
\* is decided on between another's reading of the marks and its writing of
\* them (paymaxis.service.ts:281).
THEOREM RunsStaySpaced == GateSpec => RunsSpaced
<1>1. GateInv /\ [GateNext]_gateVars =>
        [\A t \in Tabs :
              pc[t] = "idle" /\ pc'[t] = "claim" /\ faults' = 0 /\ ~raced' =>
                  ForcedFloor <= newest]_gateVars
  BY AskSpaced
<1> QED BY <1>1, GateStart, GateStep, PTL DEF GateSpec, RunsSpaced

----------------------------------------------------------------------------
(* The standing of a client. *)

\* What is reported, by number, and what is held of it.
LEMMA ReportedTyped ==
    ASSUME KycTypeOK
    PROVE  /\ DOMAIN reported = 1..Len(reported) /\ Len(reported) \in 0..MaxVerified
           /\ DOMAIN reported \subseteq Numbers /\ Numbers \subseteq Nat
           /\ \A n \in DOMAIN reported :
                /\ reported[n].client \in Clients /\ reported[n].account \in ToSet(KycAccounts)
                /\ reported[n].day \in Nat /\ reported[n].status \in Outcomes
           /\ Held \subseteq DOMAIN reported /\ IsFiniteSet(Held) /\ Held \in SUBSET Nat
           /\ today \in Nat /\ LastDay \in Nat /\ today <= LastDay /\ since \in Nat
           /\ Absent \notin Outcomes
<1> USE KycAssumption
<1>1. /\ DOMAIN reported = 1..Len(reported) /\ Len(reported) \in 0..MaxVerified
      /\ DOMAIN reported \subseteq Numbers /\ Numbers \subseteq Nat
  BY DEF KycTypeOK, Numbers
<1>2. \A n \in DOMAIN reported :
        reported[n] \in [client : Clients, account : ToSet(KycAccounts), day : Days,
                         status : Outcomes]
  <2> DEFINE S == [client : Clients, account : ToSet(KycAccounts), day : Days,
                   status : Outcomes]
  <2>1. reported \in Seq(S)
    BY DEF KycTypeOK
  <2> HIDE DEF S
  <2>2. \A n \in DOMAIN reported : reported[n] \in S
    BY <2>1
  <2> QED BY <2>2 DEF S
<1>3. Days \subseteq Nat /\ LastDay \in Nat
  BY DEF Days
<1>4. Held \subseteq DOMAIN reported /\ IsFiniteSet(DOMAIN reported)
  BY <1>1, FS_Interval DEF Held
<1>5. IsFiniteSet(Held) /\ Held \in SUBSET Nat
  BY <1>1, <1>4, FS_Subset
<1>6. today \in Nat /\ today <= LastDay /\ since \in Nat
  BY DEF KycTypeOK, Days
<1>7. Absent \notin Outcomes
  BY DEF Absent, Outcomes
<1> QED BY <1>1, <1>2, <1>3, <1>4, <1>5, <1>6, <1>7

\* The newest day held is that of a row held.
LEMMA NewestHeld ==
    ASSUME KycTypeOK, Held # {}
    PROVE  \E m \in Held : HeldDay = reported[m].day
<1>1. \E n \in Held : \A m \in Held : m <= n
  BY ReportedTyped, GreatestNatural
<1> DEFINE newestHeld == CHOOSE n \in Held : \A m \in Held : m <= n
<1>2. newestHeld \in Held
  BY <1>1
<1>3. HeldDay = reported[newestHeld].day
  BY DEF HeldDay
<1> QED BY <1>2, <1>3

\* The nightly run starts at a day already begun.
LEMMA NewestIsPast ==
    ASSUME KycTypeOK, OnlyPast
    PROVE  NewestDay \in 0..today
<1>1. CASE Held = {}
  BY <1>1, ReportedTyped, KycAssumption DEF NewestDay
<1>2. CASE Held # {}
  BY <1>2, NewestHeld, ReportedTyped DEF NewestDay, OnlyPast
<1> QED BY <1>1, <1>2

\* The latest verification held of a client who has one.
LEMMA LatestHeld ==
    ASSUME KycTypeOK, NEW c, \E n \in Held : reported[n].client = c
    PROVE  /\ Latest(c) \in Held /\ reported[Latest(c)].client = c
           /\ \A m \in Held : reported[m].client = c => m <= Latest(c)
<1> DEFINE own == {n \in Held : reported[n].client = c}
<1>1. own # {} /\ own \in SUBSET Nat /\ IsFiniteSet(own)
  BY ReportedTyped, FS_Subset
<1>2. \E n \in own : \A m \in own : m <= n
  <2> HIDE DEF own
  <2> QED BY <1>1, GreatestNatural
<1>3. Latest(c) \in own /\ \A m \in own : m <= Latest(c)
  BY <1>2 DEF Latest
<1> QED BY <1>3

\* What is known of a run that has ended is nothing.
LEMMA IdleKept == NotRunning \in KycRun /\ RunKept(NotRunning)
<1>1. NotRunning \in KycRun
  <2>1. NotRunning.batch = {} /\ NotRunning.statuses \in [{} -> Outcomes]
          /\ NotRunning.seen \in [{} -> {}] /\ 1 \in DOMAIN KycAccounts
    BY KycAssumption DEF NotRunning
  <2>2. {} \in SUBSET Numbers /\ {} \in SUBSET Update /\ 0 \in 0..(LastDay + 1)
    BY KycAssumption
  <2>3. NotRunning.statuses \in UNION {[B -> Outcomes] : B \in SUBSET Numbers}
    BY <2>1, <2>2
  <2> QED BY <2>1, <2>2, <2>3 DEF NotRunning, KycRun
<1> QED BY <1>1 DEF RunKept, NotRunning

LEMMA KycStart == KycInit => KycInv
<1> SUFFICES ASSUME KycInit PROVE KycInv
  OBVIOUS
<1> USE KycAssumption DEF KycInit
<1>1. Held = {} /\ DOMAIN reported = {} /\ Len(reported) = 0
  BY DEF Held
<1>2. NotRunning \in KycRun
  BY IdleKept
<1>3. KycTypeOK
  <2>1. reported \in Seq([client : Clients, account : ToSet(KycAccounts), day : Days,
                          status : Outcomes])
    OBVIOUS
  <2>2. cases \in [Numbers -> Outcomes \cup {Absent}]
          /\ standing \in [Clients -> Outcomes \cup {"NOT_STARTED"}]
    OBVIOUS
  <2>3. today \in Days /\ since \in 0..(LastDay + 1) /\ cuts \in 0..MaxCuts
    BY DEF Days
  <2>4. kyc \in [KycRuns -> KycRun] /\ jumped \in BOOLEAN /\ torn \in SUBSET Clients
    BY <1>2
  <2>5. Len(reported) <= MaxVerified
    BY <1>1
  <2> HIDE DEF KycInit
  <2> QED BY <2>1, <2>2, <2>3, <2>4, <2>5 DEF KycTypeOK
<1>4. OnlyPast
  BY <1>1 DEF OnlyPast, NotRunning
<1>5. \A r \in KycRuns : RunKept(kyc[r])
  BY DEF RunKept, NotRunning
<1>6. NoDaySkipped /\ StandingKept
  BY <1>1 DEF NoDaySkipped, Missing, StandingKept
<1> QED BY <1>3, <1>4, <1>5, <1>6 DEF KycInv

\* A step that lets the tables only grow, and by nothing but today's rows.
TablesGrow ==
    /\ DOMAIN reported \subseteq DOMAIN reported' /\ DOMAIN reported' \subseteq Numbers
    /\ \A n \in DOMAIN reported :
         /\ reported'[n].client = reported[n].client
         /\ reported'[n].account = reported[n].account
         /\ reported'[n].day = reported[n].day
    /\ \A n \in DOMAIN reported' \ DOMAIN reported :
         reported'[n].day = today /\ cases'[n] = Absent
    /\ \A n \in Numbers : cases[n] # Absent => cases'[n] # Absent
    /\ UNCHANGED <<today, since>>
    /\ jumped => jumped'

LEMMA HeldGrows ==
    ASSUME TablesGrow, KycTypeOK
    PROVE  Held \subseteq Held'
BY ReportedTyped DEF TablesGrow, Held

\* What is known of a run it does not touch, such a step leaves true.
LEMMA RunFrame ==
    ASSUME KycTypeOK, OnlyPast, TablesGrow, NEW run \in KycRun, RunKept(run)
    PROVE  RunKept(run)'
<1> SUFFICES ASSUME run.pc # "idle" PROVE RunKept(run)'
  BY DEF RunKept
<1>1. Held \subseteq Held'
  BY HeldGrows
<1>2. Listed(run) \subseteq Listed(run)' /\ (run.day # today => Listed(run)' = Listed(run))
  BY DEF TablesGrow, Listed
<1>3. ~jumped' => BehindHeld(run)'
  BY <1>1, ReportedTyped DEF TablesGrow, RunKept, BehindHeld
<1>4. run.pc # "read" => BatchRead(run)'
  BY <1>1, <1>2, ReportedTyped DEF TablesGrow, RunKept, BatchRead, KycRun
<1>5. run.pc = "update" => UpdatesSeen(run)'
  <2> SUFFICES ASSUME run.pc = "update" PROVE UpdatesSeen(run)'
    OBVIOUS
  <2>0. UpdatesSeen(run) /\ run.batch \subseteq DOMAIN reported
    BY DEF RunKept, BatchRead, Listed
  <2>1. run.seen \in [Numbers -> Outcomes \cup {Absent}]
    BY <2>0 DEF UpdatesSeen
  <2>2. \A n \in Numbers : run.seen[n] # Absent => cases'[n] # Absent
    BY <2>0 DEF UpdatesSeen, TablesGrow
  <2>3. ClientsOf(run.batch)' = ClientsOf(run.batch)
    BY <2>0 DEF ClientsOf, TablesGrow
  <2>4. ASSUME NEW u \in run.updates PROVE SawLatest(u, run.seen)'
    <3>1. PICK n \in DOMAIN reported :
            /\ reported[n].client = u.client
            /\ u.status = run.seen[n]
            /\ \A m \in DOMAIN reported :
                  reported[m].client = u.client /\ run.seen[m] # Absent => m <= n
      BY <2>0 DEF UpdatesSeen, SawLatest
    <3>2. ASSUME NEW m \in DOMAIN reported', reported'[m].client = u.client,
                 run.seen[m] # Absent
          PROVE  m <= n
      <4>1. CASE m \in DOMAIN reported
        BY <3>1, <3>2, <4>1 DEF TablesGrow
      <4>2. CASE m \notin DOMAIN reported
        BY <2>0, <3>2, <4>2 DEF TablesGrow, OnlyPast, UpdatesSeen
      <4> QED BY <4>1, <4>2
    <3>3. n \in DOMAIN reported' /\ reported'[n].client = u.client
      BY <3>1 DEF TablesGrow
    <3> QED BY <3>1, <3>2, <3>3 DEF SawLatest
  <2> QED BY <2>0, <2>1, <2>2, <2>3, <2>4 DEF UpdatesSeen
<1> QED BY <1>3, <1>4, <1>5 DEF RunKept, TablesGrow

\* A run that goes on to the next account, or day, leaves nothing behind.
LEMMA NextReadKept ==
    ASSUME KycTypeOK, NEW run \in KycRun, run.pc # "idle", RunKept(run),
           run.day <= today, run.day < today => Listed(run) \subseteq Held
    PROVE  NextRead(run) \in KycRun /\ RunKept(NextRead(run)) /\ NextRead(run).pc = "read"
<1> USE KycAssumption, ReportedTyped
<1>0. /\ run.day \in 0..(LastDay + 1) /\ run.account \in 1..Len(KycAccounts)
      /\ Len(KycAccounts) \in Nat /\ run.day \in Nat
  BY DEF KycRun
<1> DEFINE empty == Emptied(run)
<1>1. empty \in KycRun /\ empty.pc = "read" /\ empty.day = run.day /\ empty.to = run.to
        /\ empty.account = run.account
  <2>1. /\ {} \in SUBSET Numbers /\ {} \in SUBSET Update
        /\ <<>> \in [{} -> Outcomes] /\ <<>> \in [{} -> {}]
    OBVIOUS
  <2>2. <<>> \in UNION {[B -> Outcomes] : B \in SUBSET Numbers}
    BY <2>1
  <2> QED BY <2>1, <2>2 DEF Emptied, KycRun
<1> HIDE DEF empty
<1>2. CASE run.account < Len(KycAccounts)
  <2> DEFINE next == [empty EXCEPT !.account = @ + 1]
  <2>1. NextRead(run) = next
    BY <1>2 DEF NextRead, empty
  <2>2. next \in KycRun
    <3>1. empty.account + 1 \in DOMAIN KycAccounts
      BY <1>0, <1>1, <1>2
    <3> QED BY <1>1, <3>1 DEF KycRun
  <2>3. next.pc = "read" /\ next.day = run.day /\ next.to = run.to
          /\ next.account = run.account + 1
    BY <1>1 DEF KycRun
  <2> HIDE DEF next
  <2>4. ASSUME ~jumped PROVE BehindHeld(next)
    <3>1. BehindHeld(run)
      BY <2>4 DEF RunKept
    <3>2. ASSUME NEW n \in DOMAIN reported, since <= reported[n].day,
                 reported[n].day < today, reported[n].day = run.day,
                 NEW k \in 1..run.account, reported[n].account = KycAccounts[k]
          PROVE  n \in Held
      <4>1. CASE k = run.account
        BY <3>2, <4>1 DEF Listed
      <4>2. CASE k # run.account
        <5>1. k \in 1..(run.account - 1)
          BY <1>0, <4>2
        <5> QED BY <3>1, <3>2, <5>1 DEF BehindHeld
      <4> QED BY <4>1, <4>2
    <3>3. 1..(next.account - 1) = 1..run.account
      BY <1>0, <2>3
    <3> QED BY <2>3, <3>1, <3>2, <3>3 DEF BehindHeld
  <2> QED BY <1>0, <2>1, <2>2, <2>3, <2>4 DEF RunKept
<1>3. CASE ~ (run.account < Len(KycAccounts))
  <2> DEFINE next == [empty EXCEPT !.account = 1, !.day = @ + 1]
  <2>1. NextRead(run) = next
    BY <1>3 DEF NextRead, empty
  <2>2. next \in KycRun
    <3>1. empty.day + 1 \in 0..(LastDay + 1) /\ 1 \in DOMAIN KycAccounts
      BY <1>0, <1>1
    <3> QED BY <1>1, <3>1 DEF KycRun
  <2>3. next.pc = "read" /\ next.day = run.day + 1 /\ next.to = run.to /\ next.account = 1
    BY <1>1 DEF KycRun
  <2> HIDE DEF next
  <2>4. ASSUME ~jumped PROVE BehindHeld(next)
    <3>1. BehindHeld(run)
      BY <2>4 DEF RunKept
    <3>2. ASSUME NEW n \in DOMAIN reported, since <= reported[n].day,
                 reported[n].day < today, reported[n].day = run.day
          PROVE  n \in Held
      <4>1. PICK k \in 1..Len(KycAccounts) : reported[n].account = KycAccounts[k]
        BY DEF ToSet
      <4>2. CASE k = run.account
        BY <3>2, <4>1, <4>2 DEF Listed
      <4>3. CASE k # run.account
        <5>1. k \in 1..(run.account - 1)
          BY <1>0, <1>3, <4>1, <4>3
        <5> QED BY <3>1, <3>2, <4>1, <5>1 DEF BehindHeld
      <4> QED BY <4>2, <4>3
    <3>3. 1..(next.account - 1) = {}
      BY <2>3
    <3>4. \A n \in DOMAIN reported : reported[n].day < next.day =>
            reported[n].day < run.day \/ reported[n].day = run.day
      BY <1>0, <2>3
    <3> QED BY <2>3, <3>1, <3>2, <3>3, <3>4 DEF BehindHeld
  <2> QED BY <1>0, <2>1, <2>2, <2>3, <2>4 DEF RunKept
<1> QED BY <1>2, <1>3

\* A step of one run, which only lets the tables grow, keeps what is known of
\* every run if it keeps that of its own.
LEMMA OneRunSteps ==
    ASSUME KycInv, TablesGrow, NEW r \in KycRuns, NEW next \in KycRun, RunKept(next)',
           kyc' = [kyc EXCEPT ![r] = next]
    PROVE  kyc' \in [KycRuns -> KycRun] /\ \A q \in KycRuns : RunKept(kyc[q])'
<1>0. KycTypeOK /\ OnlyPast /\ kyc \in [KycRuns -> KycRun]
  BY DEF KycInv, KycTypeOK
<1>1. ASSUME NEW q \in KycRuns PROVE RunKept(kyc[q])'
  <2>1. CASE q = r
    <3>1. PICK run : run = kyc'[q] /\ run = next
      BY <1>0, <2>1
    <3> QED BY <3>1 DEF RunKept
  <2>2. CASE q # r
    <3>1. PICK run : run = kyc'[q] /\ run = kyc[q]
      BY <1>0, <2>2
    <3>2. RunKept(run) /\ run \in KycRun
      BY <1>0, <3>1 DEF KycInv
    <3>3. RunKept(run)'
      BY <1>0, <3>2, RunFrame
    <3> QED BY <3>1, <3>3
  <2> QED BY <2>1, <2>2
<1> QED BY <1>0, <1>1

\* A run under way has read from some day on.
LEMMA SinceRead ==
    ASSUME KycInv, NEW r \in KycRuns, kyc[r].pc # "idle"
    PROVE  since <= LastDay
BY ReportedTyped DEF KycInv, OnlyPast

\* A step of a run that leaves the tables alone.
LEMMA TablesStay ==
    ASSUME KycInv, NEW r \in KycRuns, kyc[r].pc # "idle",
           UNCHANGED <<today, reported, cases, since, jumped>>
    PROVE  TablesGrow /\ Held' = Held /\ OnlyPast' /\ NoDaySkipped'
<1>0. KycTypeOK /\ OnlyPast /\ NoDaySkipped /\ since <= LastDay
  BY SinceRead DEF KycInv
<1>1. Held' = Held
  BY DEF Held
<1>2. Missing' = Missing
  BY <1>1 DEF Missing
<1>3. TablesGrow
  BY <1>0, ReportedTyped DEF TablesGrow
<1>4. OnlyPast'
  BY <1>0, <1>1, ReportedTyped DEF OnlyPast
<1>5. NoDaySkipped'
  BY <1>0, <1>2 DEF NoDaySkipped
<1> QED BY <1>1, <1>3, <1>4, <1>5

LEMMA WalkEndsKeeps ==
    ASSUME KycInv, NEW r \in KycRuns, WalkEnds(r)
    PROVE  KycInv'
<1> USE DEF WalkEnds, Walks
<1>0. KycTypeOK /\ kyc \in [KycRuns -> KycRun]
  BY DEF KycInv, KycTypeOK
<1>1. TablesGrow /\ Held' = Held /\ OnlyPast' /\ NoDaySkipped'
  BY TablesStay
<1>2. kyc' \in [KycRuns -> KycRun] /\ \A q \in KycRuns : RunKept(kyc[q])'
  <2>1. RunKept(NotRunning)'
    BY DEF RunKept, NotRunning
  <2> QED BY <1>1, <2>1, IdleKept, OneRunSteps
<1>3. KycTypeOK'
  BY <1>0, <1>2 DEF KycTypeOK
<1>4. \A c : BeingCorrected(c) => BeingCorrected(c)'
  BY <1>0 DEF BeingCorrected, ClientsOf
<1>5. StandingKept'
  BY <1>1, <1>4 DEF KycInv, StandingKept
<1> QED BY <1>1, <1>2, <1>3, <1>5 DEF KycInv

LEMMA CutShortKeeps ==
    ASSUME KycInv, NEW r \in KycRuns, CutShort(r)
    PROVE  KycInv'
<1> USE DEF CutShort, Walks
<1>0. KycTypeOK /\ kyc \in [KycRuns -> KycRun] /\ RunKept(kyc[r])
  BY DEF KycInv, KycTypeOK
<1>1. TablesGrow /\ Held' = Held /\ OnlyPast' /\ NoDaySkipped'
  BY TablesStay
<1>2. kyc' \in [KycRuns -> KycRun] /\ \A q \in KycRuns : RunKept(kyc[q])'
  <2>1. RunKept(NotRunning)'
    BY DEF RunKept, NotRunning
  <2> QED BY <1>1, <2>1, IdleKept, OneRunSteps
<1>3. KycTypeOK'
  <2>1. kyc[r].pc # "read" => ClientsOf(kyc[r].batch) \subseteq Clients
    BY <1>0, ReportedTyped DEF RunKept, BatchRead, Listed, ClientsOf
  <2>2. torn' \subseteq Clients
    BY <1>0, <2>1 DEF KycTypeOK, Refreshing
  <2>3. cuts' \in 0..MaxCuts
    BY <1>0, KycAssumption DEF KycTypeOK
  <2> QED BY <1>0, <1>2, <2>2, <2>3 DEF KycTypeOK
<1>4. ASSUME NEW c, BeingCorrected(c) PROVE BeingCorrected(c)' \/ c \in torn'
  <2>1. PICK q \in KycRuns :
          \/ kyc[q].pc = "refresh" /\ c \in ClientsOf(kyc[q].batch)
          \/ kyc[q].pc = "update" /\ \E u \in kyc[q].updates : u.client = c
    BY <1>4 DEF BeingCorrected
  <2>2. CASE q = r
    BY <1>0, <2>1, <2>2 DEF Refreshing, RunKept, UpdatesSeen
  <2>3. CASE q # r
    BY <1>0, <2>1, <2>3 DEF BeingCorrected, ClientsOf
  <2> QED BY <2>2, <2>3
<1>5. StandingKept'
  <2>1. torn \subseteq torn'
    OBVIOUS
  <2> HIDE DEF CutShort, Walks
  <2>2. reported' = reported /\ standing' = standing /\ cases' = cases
    BY DEF CutShort
  <2> QED BY <1>1, <1>4, <2>1, <2>2 DEF KycInv, StandingKept
<1> QED BY <1>1, <1>2, <1>3, <1>5 DEF KycInv

LEMMA ReadDayKeeps ==
    ASSUME KycInv, NEW r \in KycRuns, ReadDay(r)
    PROVE  KycInv'
<1> DEFINE run == kyc[r]
           read == [n \in Listed(run) |-> reported[n].status]
           next == IF Listed(run) = {} THEN NextRead(run)
                   ELSE [run EXCEPT !.pc = "write", !.batch = Listed(run), !.statuses = read]
<1> USE DEF ReadDay, Walks
<1>0. /\ KycTypeOK /\ kyc \in [KycRuns -> KycRun] /\ RunKept(run) /\ run \in KycRun
      /\ run.pc = "read" /\ run.day <= today /\ run.to = today
  BY DEF KycInv, KycTypeOK, RunKept
<1>1. TablesGrow /\ Held' = Held /\ OnlyPast' /\ NoDaySkipped'
  BY TablesStay
<1>2. next \in KycRun /\ RunKept(next)
  <2>1. CASE Listed(run) = {}
    <3>1. NextRead(run) \in KycRun /\ RunKept(NextRead(run))
      BY <1>0, <2>1, NextReadKept DEF KycRun
    <3> QED BY <2>1, <3>1
  <2>2. CASE Listed(run) # {}
    <3>1. Listed(run) \in SUBSET Numbers /\ read \in [Listed(run) -> Outcomes]
      BY <1>0, ReportedTyped DEF Listed
    <3>2. read \in UNION {[B -> Outcomes] : B \in SUBSET Numbers}
      BY <3>1
    <3> HIDE DEF read
    <3> DEFINE written == [run EXCEPT !.pc = "write", !.batch = Listed(run), !.statuses = read]
    <3>3. written \in KycRun
      BY <1>0, <3>1, <3>2 DEF KycRun
    <3>4. /\ written.pc = "write" /\ written.batch = Listed(run) /\ written.statuses = read
          /\ written.day = run.day /\ written.to = run.to /\ written.account = run.account
      BY <1>0 DEF KycRun
    <3>5. next = written
      BY <2>2
    <3> HIDE DEF written, next, run
    <3>6. BehindHeld(written) = BehindHeld(run) /\ Listed(written) = Listed(run)
      BY <3>4 DEF BehindHeld, Listed
    <3>7. BatchRead(written)
      BY <1>0, <3>1, <3>4, <3>6 DEF BatchRead
    <3>8. RunKept(written)
      BY <1>0, <3>4, <3>6, <3>7 DEF RunKept
    <3> QED BY <3>3, <3>5, <3>8
  <2> QED BY <2>1, <2>2
<1>3. kyc' = [kyc EXCEPT ![r] = next]
  OBVIOUS
<1> HIDE DEF next
<1>4. kyc' \in [KycRuns -> KycRun] /\ \A q \in KycRuns : RunKept(kyc[q])'
  <2>1. PICK locals : locals = next
    OBVIOUS
  <2>2. RunKept(locals)'
    BY <1>0, <1>1, <1>2, <2>1, RunFrame DEF KycInv
  <2> QED BY <1>1, <1>2, <1>3, <2>1, <2>2, OneRunSteps
<1>5. KycTypeOK'
  BY <1>0, <1>4 DEF KycTypeOK
<1>6. \A c : BeingCorrected(c) => BeingCorrected(c)'
  BY <1>0, <1>3 DEF BeingCorrected, ClientsOf
<1>7. StandingKept'
  BY <1>1, <1>6 DEF KycInv, StandingKept
<1> QED BY <1>1, <1>4, <1>5, <1>7 DEF KycInv

LEMMA WriteBatchKeeps ==
    ASSUME KycInv, NEW r \in KycRuns, WriteBatch(r)
    PROVE  KycInv'
<1> DEFINE run == kyc[r]
           next == [run EXCEPT !.pc = "refresh"]
<1>0. /\ KycTypeOK /\ kyc \in [KycRuns -> KycRun] /\ RunKept(run) /\ run \in KycRun
      /\ run.pc = "write" /\ BatchRead(run) /\ OnlyPast
  BY DEF KycInv, KycTypeOK, RunKept, WriteBatch
<1>1. /\ kyc' = [kyc EXCEPT ![r] = next]
      /\ cases' = [n \in Numbers |-> IF n \in run.batch THEN run.statuses[n] ELSE cases[n]]
      /\ UNCHANGED <<today, reported, standing, since, jumped, torn, cuts>>
  BY DEF WriteBatch, Walks
<1>2. /\ next \in KycRun /\ next.pc = "refresh" /\ next.batch = run.batch
      /\ next.day = run.day /\ next.to = run.to /\ next.account = run.account
  BY <1>0 DEF KycRun
<1>3. run.batch \subseteq DOMAIN reported /\ run.statuses \in [run.batch -> Outcomes]
        /\ cases \in [Numbers -> Outcomes \cup {Absent}]
  BY <1>0 DEF BatchRead, Listed, KycTypeOK
<1> HIDE DEF run, next
<1>4. /\ cases' \in [Numbers -> Outcomes \cup {Absent}]
      /\ \A n \in Numbers : cases'[n] # Absent <=> n \in run.batch \/ cases[n] # Absent
      /\ \A n \in Numbers \ run.batch : cases'[n] = cases[n]
  BY <1>0, <1>1, <1>3, ReportedTyped
<1>5. Held' = Held \cup run.batch
  BY <1>0, <1>1, <1>3, <1>4, ReportedTyped DEF Held
<1>6. TablesGrow
  BY <1>0, <1>1, <1>4, ReportedTyped DEF TablesGrow
<1>7. kyc' \in [KycRuns -> KycRun] /\ \A q \in KycRuns : RunKept(kyc[q])'
  <2>1. PICK locals \in KycRun : locals = next
    BY <1>2
  <2>2. PICK mine0 : mine0 = run
    OBVIOUS
  <2>3. RunKept(mine0)' /\ BatchRead(mine0)'
    BY <1>0, <1>6, <2>2, RunFrame DEF RunKept
  <2>4. BehindHeld(locals)' = BehindHeld(mine0)' /\ Listed(locals)' = Listed(mine0)'
    BY <1>2, <2>1, <2>2 DEF BehindHeld, Listed
  <2>5. BatchRead(locals)'
    BY <1>2, <1>5, <2>1, <2>2, <2>3, <2>4 DEF BatchRead
  <2>6. RunKept(locals)'
    BY <1>0, <1>2, <2>1, <2>2, <2>3, <2>4, <2>5 DEF RunKept
  <2> QED BY <1>1, <1>6, <2>1, <2>6, OneRunSteps
<1>8. KycTypeOK'
  BY <1>0, <1>1, <1>4, <1>7 DEF KycTypeOK
<1>9. OnlyPast'
  BY <1>0, <1>1, <1>3, <1>4, ReportedTyped, SinceRead DEF OnlyPast, run
<1>10. NoDaySkipped'
  <2> SUFFICES ASSUME ~jumped, NEW n \in DOMAIN reported, n \notin Held', since <= reported[n].day,
                      NEW m \in Held', reported[n].day < reported[m].day
               PROVE  FALSE
    BY <1>1 DEF NoDaySkipped, Missing
  <2>1. n \notin Held
    BY <1>5
  <2>2. CASE m \in Held
    BY <2>1, <2>2 DEF KycInv, NoDaySkipped, Missing
  <2>3. CASE m \in run.batch
    <3>1. reported[m].day = run.day /\ run.day <= today /\ BehindHeld(run)
      BY <1>0, <2>3 DEF BatchRead, Listed, RunKept
    <3>2. reported[n].day < today
      BY <1>0, <3>1, ReportedTyped DEF KycRun
    <3> QED BY <2>1, <3>1, <3>2 DEF BehindHeld
  <2> QED BY <1>5, <2>2, <2>3
<1>11. StandingKept'
  <2> SUFFICES ASSUME NEW n \in Held'
               PROVE  \/ reported[n].client \in torn
                      \/ BeingCorrected(reported[n].client)'
                      \/ \E m \in Held' : m > n /\ reported[m].client = reported[n].client
                      \/ standing[reported[n].client] = cases'[n]
    BY <1>1 DEF StandingKept
  <2>1. kyc'[r].pc = "refresh" /\ kyc'[r].batch = run.batch
    BY <1>0, <1>1, <1>2
  <2>2. CASE reported[n].client \in ClientsOf(run.batch)
    BY <1>1, <2>1, <2>2 DEF BeingCorrected, ClientsOf
  <2>3. CASE reported[n].client \notin ClientsOf(run.batch)
    <3>1. n \notin run.batch /\ n \in Held
      BY <1>5, <2>3 DEF ClientsOf
    <3>2. cases'[n] = cases[n]
      BY <1>0, <1>4, <3>1, ReportedTyped
    <3>3. BeingCorrected(reported[n].client) => BeingCorrected(reported[n].client)'
      BY <1>0, <1>1 DEF BeingCorrected, ClientsOf, run
    <3> QED BY <1>5, <3>1, <3>2, <3>3 DEF KycInv, StandingKept
  <2> QED BY <2>2, <2>3
<1> QED BY <1>7, <1>8, <1>9, <1>10, <1>11 DEF KycInv

LEMMA RefreshBeginsKeeps ==
    ASSUME KycInv, NEW r \in KycRuns, RefreshBegins(r)
    PROVE  KycInv'
<1> DEFINE run == kyc[r]
           found == {u \in Update : /\ u.client \in ClientsOf(run.batch)
                                    /\ u.status = cases[Latest(u.client)]
                                    /\ standing[u.client] # u.status}
           next == [run EXCEPT !.pc = "update", !.seen = cases, !.updates = found]
<1>0. /\ KycTypeOK /\ kyc \in [KycRuns -> KycRun] /\ RunKept(run) /\ run \in KycRun
      /\ run.pc = "refresh" /\ BatchRead(run) /\ cases \in [Numbers -> Outcomes \cup {Absent}]
  BY DEF KycInv, KycTypeOK, RunKept, RefreshBegins
<1>1. /\ kyc' = [kyc EXCEPT ![r] = next]
      /\ torn' = torn \ ClientsOf(run.batch)
      /\ UNCHANGED <<today, reported, cases, standing, since, jumped, cuts>>
  BY DEF RefreshBegins, Walks
<1>2. TablesGrow /\ Held' = Held /\ OnlyPast' /\ NoDaySkipped'
  BY <1>0, <1>1, TablesStay
<1>3. found \in SUBSET Update
  OBVIOUS
<1>4. ASSUME NEW c \in ClientsOf(run.batch)
      PROVE  /\ c \in Clients /\ Latest(c) \in Held /\ reported[Latest(c)].client = c
             /\ \A m \in Held : reported[m].client = c => m <= Latest(c)
             /\ cases[Latest(c)] \in Outcomes
  <2>1. PICK n \in run.batch : reported[n].client = c
    BY DEF ClientsOf
  <2>2. n \in Held /\ c \in Clients
    BY <1>0, <2>1, ReportedTyped DEF BatchRead
  <2>3. /\ Latest(c) \in Held /\ reported[Latest(c)].client = c
        /\ \A m \in Held : reported[m].client = c => m <= Latest(c)
    BY <1>0, <2>1, <2>2, LatestHeld
  <2>4. cases[Latest(c)] \in Outcomes
    BY <1>0, <2>3, ReportedTyped DEF Held
  <2> QED BY <2>2, <2>3, <2>4
<1> HIDE DEF run
<1>5. \A u \in found : /\ u.client \in ClientsOf(run.batch) /\ u.client \in Clients
                       /\ u.status \in Outcomes /\ u.status = cases[Latest(u.client)]
  BY DEF Update
<1>6. \A c \in ClientsOf(run.batch) :
        standing[c] = cases[Latest(c)] \/ \E u \in found : u.client = c
  <2> TAKE c \in ClientsOf(run.batch)
  <2>1. CASE standing[c] # cases[Latest(c)]
    <3> DEFINE u == [client |-> c, status |-> cases[Latest(c)]]
    <3>1. u \in found
      BY <1>4, <2>1 DEF Update
    <3> QED BY <3>1
  <2> QED BY <2>1
<1>7. \A u, v \in found : u.client = v.client => u = v
  BY <1>5 DEF Update
<1> HIDE DEF found
<1>8. /\ next \in KycRun /\ next.pc = "update" /\ next.batch = run.batch
      /\ next.day = run.day /\ next.to = run.to /\ next.account = run.account
      /\ next.seen = cases /\ next.updates = found
  BY <1>0, <1>3 DEF KycRun
<1> HIDE DEF next
<1>9. RunKept(next)
  <2>1. BehindHeld(next) = BehindHeld(run) /\ Listed(next) = Listed(run)
    BY <1>8 DEF BehindHeld, Listed
  <2>2. BatchRead(next)
    BY <1>0, <1>8, <2>1 DEF BatchRead
  <2>3. ASSUME NEW u \in found PROVE SawLatest(u, cases)
    <3>1. \A m \in DOMAIN reported : cases[m] # Absent => m \in Held
      BY DEF Held
    <3>2. Latest(u.client) \in DOMAIN reported
      BY <1>0, <1>4, <1>5, ReportedTyped
    <3> QED BY <1>4, <1>5, <3>1, <3>2 DEF SawLatest
  <2>4. UpdatesSeen(next)
    BY <1>0, <1>5, <1>7, <1>8, <2>3 DEF UpdatesSeen
  <2> QED BY <1>0, <1>8, <2>1, <2>2, <2>4 DEF RunKept
<1>10. kyc' \in [KycRuns -> KycRun] /\ \A q \in KycRuns : RunKept(kyc[q])'
  <2>1. PICK locals \in KycRun : locals = next
    BY <1>8
  <2>2. RunKept(locals)'
    BY <1>0, <1>2, <1>9, <2>1, RunFrame DEF KycInv
  <2> QED BY <1>1, <1>2, <2>1, <2>2, OneRunSteps
<1>11. KycTypeOK'
  BY <1>0, <1>1, <1>10 DEF KycTypeOK
<1>12. StandingKept'
  <2> SUFFICES ASSUME NEW n \in Held
               PROVE  \/ reported[n].client \in torn'
                      \/ BeingCorrected(reported[n].client)'
                      \/ \E m \in Held : m > n /\ reported[m].client = reported[n].client
                      \/ standing[reported[n].client] = cases[n]
    BY <1>1, <1>2 DEF StandingKept
  <2>1. kyc'[r] = next
    BY <1>0, <1>1
  <2>2. CASE reported[n].client \in ClientsOf(run.batch)
    <3> DEFINE latest == Latest(reported[n].client)
    <3>1. latest \in Held /\ reported[latest].client = reported[n].client /\ n <= latest
      BY <1>4, <2>2
    <3>2. CASE latest = n
      <4>1. CASE \E u \in found : u.client = reported[n].client
        BY <1>1, <1>8, <2>1, <4>1 DEF BeingCorrected
      <4>2. CASE standing[reported[n].client] = cases[latest]
        BY <3>2, <4>2
      <4> QED BY <1>6, <2>2, <4>1, <4>2
    <3>3. CASE latest # n
      <4>1. n \in Nat /\ latest \in Nat
        BY <1>0, <3>1, ReportedTyped
      <4>2. latest > n
        BY <3>1, <3>3, <4>1
      <4> QED BY <3>1, <4>2
    <3> QED BY <3>2, <3>3
  <2>3. CASE reported[n].client \notin ClientsOf(run.batch)
    <3>1. BeingCorrected(reported[n].client) => BeingCorrected(reported[n].client)'
      BY <1>0, <1>1, <2>3 DEF BeingCorrected, ClientsOf, run
    <3> QED BY <1>1, <2>3, <3>1 DEF KycInv, StandingKept
  <2> QED BY <2>2, <2>3
<1> QED BY <1>2, <1>10, <1>11, <1>12 DEF KycInv

LEMMA RefreshEndsKeeps ==
    ASSUME KycInv, NEW r \in KycRuns, RefreshEnds(r)
    PROVE  KycInv'
<1> DEFINE run == kyc[r]
<1>0. /\ KycTypeOK /\ kyc \in [KycRuns -> KycRun] /\ RunKept(run) /\ run \in KycRun
      /\ run.pc = "update" /\ BatchRead(run) /\ UpdatesSeen(run) /\ StandingKept
      /\ cases \in [Numbers -> Outcomes \cup {Absent}]
  BY DEF KycInv, KycTypeOK, RunKept, RefreshEnds
<1>1. /\ kyc' = [kyc EXCEPT ![r] = NextRead(run)]
      /\ standing' = [c \in Clients |->
            IF \E u \in run.updates : u.client = c
            THEN (CHOOSE u \in run.updates : u.client = c).status ELSE standing[c]]
      /\ torn' = torn \cup Overtaken(run)
      /\ UNCHANGED <<today, reported, cases, since, jumped, cuts>>
  BY DEF RefreshEnds, Walks
<1>2. TablesGrow /\ Held' = Held /\ OnlyPast' /\ NoDaySkipped'
  BY <1>0, <1>1, TablesStay
<1>3. NextRead(run) \in KycRun /\ RunKept(NextRead(run)) /\ NextRead(run).pc = "read"
  BY <1>0, NextReadKept DEF BatchRead
<1> HIDE DEF run
<1>4. kyc' \in [KycRuns -> KycRun] /\ \A q \in KycRuns : RunKept(kyc[q])'
  <2>1. PICK locals \in KycRun : locals = NextRead(run)
    BY <1>3
  <2>2. RunKept(locals)'
    BY <1>0, <1>2, <1>3, <2>1, RunFrame DEF KycInv
  <2> QED BY <1>1, <1>2, <2>1, <2>2, OneRunSteps
<1>5. \A u \in run.updates : u.client \in Clients /\ u.status \in Outcomes
  BY <1>0 DEF KycRun, Update
<1>6. ASSUME NEW u \in run.updates PROVE standing'[u.client] = u.status
  <2>1. \A v \in run.updates : v.client = u.client => v = u
    BY <1>0 DEF UpdatesSeen
  <2>2. (CHOOSE v \in run.updates : v.client = u.client) = u
    BY <2>1
  <2> QED BY <1>1, <1>5, <2>2
<1>7. \A c \in Clients : (\A u \in run.updates : u.client # c) => standing'[c] = standing[c]
  BY <1>1
<1>8. KycTypeOK'
  <2>1. ASSUME NEW c \in Clients PROVE standing'[c] \in Outcomes \cup {"NOT_STARTED"}
    BY <1>0, <1>5, <1>6, <1>7 DEF KycTypeOK
  <2>2. standing' = [c \in Clients |-> standing'[c]]
    BY <1>1
  <2>3. standing' \in [Clients -> Outcomes \cup {"NOT_STARTED"}]
    BY <2>1, <2>2
  <2>4. Overtaken(run) \subseteq Clients
    BY <1>0, ReportedTyped DEF Overtaken, ClientsOf, BatchRead, Listed
  <2> QED BY <1>0, <1>1, <1>4, <2>3, <2>4 DEF KycTypeOK
<1>9. StandingKept'
  <2> SUFFICES ASSUME NEW n \in Held, reported[n].client \notin torn',
                      \A m \in Held : ~ (m > n /\ reported[m].client = reported[n].client),
                      ~ BeingCorrected(reported[n].client)'
               PROVE  standing'[reported[n].client] = cases[n]
    BY <1>1, <1>2 DEF StandingKept
  <2> DEFINE c == reported[n].client
  <2>0. c \in Clients /\ n \in DOMAIN reported /\ n \in Numbers /\ n \in Nat /\ cases[n] # Absent
    BY <1>0, ReportedTyped DEF Held
  <2>1. CASE \E u \in run.updates : u.client = c
    <3>1. PICK u \in run.updates : u.client = c
      BY <2>1
    <3>2. c \in ClientsOf(run.batch)
      BY <1>0, <3>1 DEF UpdatesSeen
    <3>3. \A m \in Held : reported[m].client = c => run.seen[m] = cases[m]
      BY <1>1, <3>2 DEF Overtaken
    <3>4. PICK k \in DOMAIN reported :
            /\ reported[k].client = c
            /\ u.status = run.seen[k]
            /\ \A m \in DOMAIN reported :
                  reported[m].client = c /\ run.seen[m] # Absent => m <= k
      BY <1>0, <3>1 DEF UpdatesSeen, SawLatest
    <3>5. k \in Held /\ k \in Nat
      BY <1>0, <1>5, <3>4, ReportedTyped DEF UpdatesSeen, Held
    <3>6. n <= k
      BY <2>0, <3>3, <3>4
    <3>7. n = k
      BY <2>0, <3>4, <3>5, <3>6
    <3> QED BY <1>6, <3>1, <3>3, <3>4, <3>5, <3>7
  <2>2. CASE \A u \in run.updates : u.client # c
    <3>1. ~ BeingCorrected(c)
      BY <1>0, <1>1, <1>4, <2>2 DEF BeingCorrected, ClientsOf, run
    <3>2. standing[c] = cases[n]
      BY <1>0, <1>1, <3>1 DEF StandingKept
    <3> QED BY <1>7, <2>0, <2>2, <3>2
  <2> QED BY <2>1, <2>2
<1> QED BY <1>2, <1>4, <1>8, <1>9 DEF KycInv

LEMMA KycBeginsKeeps ==
    ASSUME KycInv, NEW r \in KycRuns, NEW from \in 0..today, KycBegins(r, from)
    PROVE  KycInv'
<1> DEFINE next == [NotRunning EXCEPT !.pc = "read", !.from = from, !.day = from, !.to = today]
<1>0. /\ KycTypeOK /\ OnlyPast /\ kyc \in [KycRuns -> KycRun] /\ kyc[r].pc = "idle"
      /\ from \in Nat /\ from <= today /\ today <= LastDay /\ NoDaySkipped
  BY ReportedTyped DEF KycInv, KycTypeOK, KycBegins
<1>1. /\ kyc' = [kyc EXCEPT ![r] = next]
      /\ since' = IF since > LastDay THEN from ELSE since
      /\ jumped' = (jumped \/ /\ since <= LastDay
                              /\ from > IF Held = {} THEN since ELSE HeldDay)
      /\ UNCHANGED <<today, reported, cases, standing, torn, cuts>>
  BY DEF KycBegins, Walks
<1>2. /\ next \in KycRun /\ next.pc = "read" /\ next.day = from /\ next.to = today
      /\ next.account = 1
  <2>1. from \in 0..(LastDay + 1) /\ today \in 0..(LastDay + 1)
    BY <1>0, ReportedTyped
  <2>2. next \in KycRun
    BY <2>1, IdleKept DEF KycRun
  <2> QED BY <2>2 DEF NotRunning
<1> HIDE DEF next
<1>3. Held' = Held
  BY <1>1 DEF Held
<1>4. ASSUME ~ jumped', NEW n \in DOMAIN reported, since' <= reported[n].day, reported[n].day < from
      PROVE  n \in Held
  <2>0. ~ jumped /\ ~ (since <= LastDay /\ from > IF Held = {} THEN since ELSE HeldDay)
    BY <1>1, <1>4, Zenon
  <2>1. since <= LastDay /\ since' = since /\ ~ jumped
    <3>1. ~ (since > LastDay)
      BY <1>0, <1>1, <1>4, ReportedTyped
    <3> QED BY <1>0, <1>1, <2>0, <3>1, ReportedTyped
  <2>2. Held # {} /\ from <= HeldDay
    <3>1. ~ (from > IF Held = {} THEN since ELSE HeldDay)
      BY <2>0, <2>1
    <3>2. CASE Held = {}
      BY <1>0, <1>4, <2>1, <3>1, <3>2, ReportedTyped
    <3>3. CASE Held # {}
      <4>1. HeldDay \in Nat
        BY <1>0, <3>3, NewestHeld, ReportedTyped
      <4> QED BY <1>0, <3>1, <3>3, <4>1
    <3> QED BY <3>2, <3>3
  <2>3. PICK m \in Held : HeldDay = reported[m].day
    BY <1>0, <2>2, NewestHeld
  <2>4. reported[n].day < reported[m].day
    BY <1>0, <1>4, <2>2, <2>3, ReportedTyped
  <2> QED BY <1>0, <1>4, <2>1, <2>3, <2>4 DEF NoDaySkipped, Missing
<1>5. ASSUME NEW q \in KycRuns PROVE RunKept(kyc[q])'
  <2>1. CASE q = r
    <3>1. PICK run : run = kyc'[q] /\ run = next
      BY <1>0, <1>1, <2>1
    <3>2. ~ jumped' => BehindHeld(run)'
      <4>1. 1..(run.account - 1) = {}
        BY <1>2, <3>1
      <4> QED BY <1>1, <1>2, <1>3, <1>4, <3>1, <4>1 DEF BehindHeld
    <3>3. run.pc = "read" /\ run.to = today' /\ run.day <= today' + 1
      <4>1. today' = today
        BY <1>1
      <4>2. from <= today + 1
        BY <1>0, ReportedTyped
      <4> QED BY <1>2, <3>1, <4>1, <4>2
    <3>4. RunKept(run)'
      BY <3>2, <3>3 DEF RunKept
    <3> QED BY <3>1, <3>4
  <2>2. CASE q # r /\ kyc[q].pc = "idle"
    BY <1>0, <1>1, <2>2 DEF RunKept
  <2>3. CASE q # r /\ kyc[q].pc # "idle"
    <3>1. PICK run : run = kyc'[q] /\ run = kyc[q]
      BY <1>0, <1>1, <2>3
    <3>2. since <= LastDay
      BY <2>3, SinceRead
    <3>3. TablesGrow
      <4>1. since' = since
        BY <1>0, <1>1, <3>2, ReportedTyped
      <4>2. jumped => jumped'
        BY <1>1, Zenon
      <4> QED BY <1>0, <1>1, <4>1, <4>2, ReportedTyped DEF TablesGrow
    <3>4. run \in KycRun /\ RunKept(run)
      BY <1>0, <3>1 DEF KycInv
    <3>5. RunKept(run)'
      BY <1>0, <3>3, <3>4, RunFrame
    <3> QED BY <3>1, <3>5
  <2> QED BY <2>1, <2>2, <2>3
<1>6. KycTypeOK'
  <2>1. kyc' \in [KycRuns -> KycRun]
    BY <1>0, <1>1, <1>2
  <2>2. since' \in 0..(LastDay + 1) /\ jumped' \in BOOLEAN
    BY <1>0, <1>1, ReportedTyped DEF KycTypeOK
  <2> QED BY <1>0, <1>1, <2>1, <2>2 DEF KycTypeOK
<1>7. OnlyPast'
  <2>1. since' \in Nat /\ since' <= LastDay /\ LastDay \in Nat
    BY <1>0, <1>1, ReportedTyped
  <2>2. ~ (since' > LastDay')
    BY <2>1
  <2> QED BY <1>0, <1>1, <2>2 DEF OnlyPast
<1>8. NoDaySkipped'
  <2>1. Held = {} \/ since' = since
    BY <1>0, <1>1 DEF OnlyPast
  <2> QED BY <1>0, <1>1, <1>3, <2>1 DEF NoDaySkipped, Missing
<1>9. \A c : BeingCorrected(c) => BeingCorrected(c)'
  BY <1>0, <1>1 DEF BeingCorrected, ClientsOf
<1>10. StandingKept'
  BY <1>1, <1>3, <1>9 DEF KycInv, StandingKept
<1> QED BY <1>5, <1>6, <1>7, <1>8, <1>10 DEF KycInv

LEMMA DayPassesKeeps ==
    ASSUME KycInv, DayPasses
    PROVE  KycInv'
<1>0. KycTypeOK /\ OnlyPast /\ NoDaySkipped /\ StandingKept
  BY DEF KycInv
<1>1. KycTypeOK'
  BY <1>0, ReportedTyped DEF DayPasses, KycTypeOK, Days
<1>2. Held' = Held
  BY DEF DayPasses, Held
<1>3. OnlyPast'
  BY <1>0, <1>2, ReportedTyped DEF DayPasses, OnlyPast
<1>4. \A r \in KycRuns : RunKept(kyc[r])'
  BY DEF DayPasses, RunKept
<1>5. NoDaySkipped'
  BY <1>0, <1>2 DEF DayPasses, NoDaySkipped, Missing
<1>6. StandingKept'
  BY <1>0, <1>2 DEF DayPasses, StandingKept, BeingCorrected, ClientsOf
<1> QED BY <1>1, <1>3, <1>4, <1>5, <1>6 DEF KycInv

\* A step of the provider, which says nothing of what is held.
LEMMA ProviderStep ==
    ASSUME KycInv, KycTypeOK', TablesGrow, Held' = Held, OnlyPast',
           UNCHANGED <<today, cases, standing, kyc, since, jumped, torn, cuts>>
    PROVE  KycInv'
<1>0. KycTypeOK /\ OnlyPast /\ NoDaySkipped /\ StandingKept /\ kyc \in [KycRuns -> KycRun]
  BY DEF KycInv, KycTypeOK
<1>1. ASSUME NEW r \in KycRuns PROVE RunKept(kyc[r])'
  <2>1. PICK run : run = kyc'[r] /\ run = kyc[r]
    OBVIOUS
  <2>2. run \in KycRun /\ RunKept(run)
    BY <1>0, <2>1 DEF KycInv
  <2> QED BY <1>0, <2>1, <2>2, RunFrame
<1>2. \A n \in Held : reported'[n].client = reported[n].client /\ reported'[n].day = reported[n].day
  BY <1>0, ReportedTyped DEF TablesGrow
<1>3. NoDaySkipped'
  <2> SUFFICES ASSUME ~ jumped, NEW n \in DOMAIN reported', n \notin Held,
                      since <= reported'[n].day,
                      NEW m \in Held, reported'[n].day < reported'[m].day
               PROVE  FALSE
    BY DEF NoDaySkipped, Missing
  <2>1. CASE n \in DOMAIN reported
    BY <1>0, <1>2, <2>1 DEF NoDaySkipped, Missing, TablesGrow
  <2>2. CASE n \notin DOMAIN reported
    <3>1. reported'[n].day = today /\ reported[m].day <= today
      BY <1>0, <2>2, ReportedTyped DEF TablesGrow, OnlyPast
    <3> QED BY <1>0, <1>2, <3>1, ReportedTyped
  <2> QED BY <2>1, <2>2
<1>4. \A r \in KycRuns : kyc[r].pc \in {"refresh", "update"} =>
        kyc[r].batch \subseteq DOMAIN reported
  BY <1>0 DEF KycInv, RunKept, BatchRead, Listed
<1>5. \A c : BeingCorrected(c) => BeingCorrected(c)'
  BY <1>4 DEF BeingCorrected, ClientsOf, TablesGrow
<1>6. StandingKept'
  BY <1>0, <1>2, <1>5 DEF StandingKept
<1> QED BY <1>1, <1>3, <1>6 DEF KycInv

LEMMA SubmittedKeeps ==
    ASSUME KycInv, NEW c \in Clients, NEW account \in ToSet(KycAccounts), Submitted(c, account)
    PROVE  KycInv'
<1> DEFINE S == [client : Clients, account : ToSet(KycAccounts), day : Days, status : Outcomes]
           row == [client |-> c, account |-> account, day |-> today, status |-> "PENDING"]
           last == Len(reported) + 1
<1>0. KycTypeOK /\ OnlyPast /\ reported \in Seq(S) /\ row \in S /\ Len(reported) < MaxVerified
        /\ Len(reported) \in Nat /\ MaxVerified \in Nat
  BY KycAssumption DEF KycInv, KycTypeOK, Submitted, Outcomes
<1>1. /\ reported' = Append(reported, row)
      /\ UNCHANGED <<today, cases, standing, kyc, since, jumped, torn, cuts>>
  BY DEF Submitted
<1>2. row.day = today
  OBVIOUS
<1> HIDE DEF S, row
<1>3. /\ reported' \in Seq(S) /\ Len(reported') = last /\ DOMAIN reported' = 1..last
      /\ reported'[last] = row /\ \A n \in DOMAIN reported : reported'[n] = reported[n]
  BY <1>0, <1>1
<1>4. /\ DOMAIN reported = 1..Len(reported) /\ last \in Numbers /\ last \notin DOMAIN reported
      /\ \A n \in DOMAIN reported' : n \in DOMAIN reported \/ n = last
      /\ DOMAIN reported' \subseteq Numbers /\ DOMAIN reported \subseteq DOMAIN reported'
  BY <1>0, <1>3 DEF Numbers
<1> HIDE DEF last
<1>5. cases[last] = Absent
  BY <1>0, <1>4 DEF OnlyPast
<1>6. TablesGrow
  BY <1>1, <1>2, <1>3, <1>4, <1>5 DEF TablesGrow
<1>7. Held' = Held
  BY <1>1, <1>4, <1>5 DEF Held
<1>8. KycTypeOK'
  <2>1. Len(reported') <= MaxVerified
    BY <1>0, <1>3 DEF last
  <2> QED BY <1>0, <1>1, <1>3, <2>1 DEF KycTypeOK, S
<1>9. OnlyPast'
  BY <1>0, <1>1, <1>2, <1>3, <1>4, <1>7, ReportedTyped DEF OnlyPast
<1> QED BY <1>1, <1>6, <1>7, <1>8, <1>9, ProviderStep

LEMMA DecideKeeps ==
    ASSUME KycInv, NEW n \in Numbers, Decide(n)
    PROVE  KycInv'
<1> DEFINE S == [client : Clients, account : ToSet(KycAccounts), day : Days, status : Outcomes]
           row == [reported[n] EXCEPT !.status = "DECIDED"]
<1>0. KycTypeOK /\ OnlyPast /\ reported \in Seq(S) /\ n \in DOMAIN reported
  BY DEF KycInv, KycTypeOK, Decide
<1>1. /\ reported' = [reported EXCEPT ![n] = row]
      /\ UNCHANGED <<today, cases, standing, kyc, since, jumped, torn, cuts>>
  BY DEF Decide
<1>2. reported[n] \in S
  <2> HIDE DEF S
  <2> QED BY <1>0
<1>3. /\ row \in S /\ row.client = reported[n].client /\ row.account = reported[n].account
      /\ row.day = reported[n].day
  BY <1>2 DEF Outcomes
<1> HIDE DEF S, row
<1>4. /\ reported' \in Seq(S) /\ Len(reported') = Len(reported)
      /\ DOMAIN reported' = DOMAIN reported
      /\ \A m \in DOMAIN reported : reported'[m] = IF m = n THEN row ELSE reported[m]
  BY <1>0, <1>1, <1>3, ExceptSeq
<1>5. Held' = Held
  BY <1>1, <1>4 DEF Held
<1>6. TablesGrow
  BY <1>0, <1>1, <1>3, <1>4, ReportedTyped DEF TablesGrow
<1>7. KycTypeOK'
  BY <1>0, <1>1, <1>4 DEF KycTypeOK, S
<1>8. OnlyPast'
  BY <1>0, <1>1, <1>3, <1>4, <1>5, ReportedTyped DEF OnlyPast
<1> QED BY <1>1, <1>5, <1>6, <1>7, <1>8, ProviderStep

LEMMA KycStep == KycInv /\ [KycNext]_kycVars => KycInv'
<1> SUFFICES ASSUME KycInv, [KycNext]_kycVars PROVE KycInv'
  OBVIOUS
<1>0. KycTypeOK
  BY DEF KycInv
<1>1. CASE DayPasses
  BY <1>1, DayPassesKeeps
<1>2. ASSUME NEW c \in Clients, NEW account \in ToSet(KycAccounts), Submitted(c, account)
      PROVE  KycInv'
  BY <1>2, SubmittedKeeps
<1>3. ASSUME NEW n \in Numbers, Decide(n) PROVE KycInv'
  BY <1>3, DecideKeeps
<1>4. CASE NightlyRun
  <2>1. PICK from \in StartDays : KycBegins(Nightly, from)
    BY <1>4 DEF NightlyRun
  <2>2. from \in 0..today /\ Nightly \in KycRuns
    BY <1>0, NewestIsPast, ReportedTyped, KycAssumption DEF KycInv, StartDays
  <2> QED BY <2>1, <2>2, KycBeginsKeeps
<1>5. ASSUME NEW r \in KycRuns,
             \/ ScreenReads(r) \/ ReadDay(r) \/ WriteBatch(r)
             \/ RefreshBegins(r) \/ RefreshEnds(r) \/ WalkEnds(r) \/ CutShort(r)
      PROVE  KycInv'
  <2>1. CASE ScreenReads(r)
    <3>1. PICK from \in 0..today : KycBegins(r, from)
      BY <2>1 DEF ScreenReads
    <3> QED BY <3>1, KycBeginsKeeps
  <2> QED BY <1>5, <2>1, ReadDayKeeps, WriteBatchKeeps, RefreshBeginsKeeps,
             RefreshEndsKeeps, WalkEndsKeeps, CutShortKeeps
<1>6. CASE UNCHANGED kycVars
  <2>1. KycTypeOK'
    BY <1>0, <1>6 DEF kycVars, KycTypeOK
  <2>2. Held' = Held
    BY <1>6 DEF kycVars, Held
  <2>3. TablesGrow
    BY <1>0, <1>6, ReportedTyped DEF kycVars, TablesGrow
  <2>4. OnlyPast'
    BY <1>6, <2>2 DEF kycVars, KycInv, OnlyPast
  <2> QED BY <1>6, <2>1, <2>2, <2>3, <2>4, ProviderStep DEF kycVars
<1> QED BY <1>1, <1>2, <1>3, <1>4, <1>5, <1>6 DEF KycNext

\* A day before the newest held is held whole, for every account and from the
\* first day ever read, unless somebody read past the newest day held
\* (kyc.service.ts:1068-1078): for any number of runs that overlap or are cut
\* short, of accounts, and of days.
THEOREM NoDayIsSkipped == KycSpec => []NoDaySkipped
<1>1. KycInv => NoDaySkipped
  BY DEF KycInv
<1> QED BY <1>1, KycStart, KycStep, PTL DEF KycSpec

\* A client whom no run has in hand and whose refresh was not cut off or
\* overtaken stands where their latest verification held does
\* (kyc.service.ts:1511-1518).
THEOREM StandingStaysLatest == KycSpec => []StandingIsLatest
<1>1. ASSUME KycInv PROVE StandingIsLatest
  <2>1. ASSUME NEW c, BeingCorrected(c) PROVE c \in InHand
    <3>1. PICK r \in KycRuns :
            \/ kyc[r].pc = "refresh" /\ c \in ClientsOf(kyc[r].batch)
            \/ kyc[r].pc = "update" /\ \E u \in kyc[r].updates : u.client = c
      BY <2>1 DEF BeingCorrected
    <3>2. RunKept(kyc[r])
      BY <1>1 DEF KycInv
    <3>3. r \in Refreshing /\ c \in ClientsOf(kyc[r].batch)
      BY <3>1, <3>2 DEF Refreshing, RunKept, UpdatesSeen
    <3> QED BY <3>3 DEF InHand
  <2> QED BY <1>1, <2>1 DEF KycInv, StandingKept, StandingIsLatest
<1> QED BY <1>1, KycStart, KycStep, PTL DEF KycSpec

----------------------------------------------------------------------------
(* The balance: totals. *)

LEMMA TotalsTyped ==
    ASSUME NEW S \in SUBSET Payments
    PROVE  IsFiniteSet(S) /\ ValueOf(S) \in Int /\ ChargesOf(S) \in Nat
<1> USE BalanceAssumption
<1>1. IsFiniteSet(S)
  BY FS_Subset
<1>2. SumFunctionOnSet(Value, S) \in Int
  BY <1>1, SumOfInt
<1>3. SumFunctionOnSet(Charge, S) \in Nat
  BY <1>1, SumOfNat
<1> QED BY <1>1, <1>2, <1>3 DEF ValueOf, ChargesOf

LEMMA TotalsAdd ==
    ASSUME NEW A \in SUBSET Payments, NEW B \in SUBSET Payments, A \cap B = {}
    PROVE  /\ ValueOf(A \cup B) = ValueOf(A) + ValueOf(B)
           /\ ChargesOf(A \cup B) = ChargesOf(A) + ChargesOf(B)
<1> USE BalanceAssumption
<1>1. IsFiniteSet(A) /\ IsFiniteSet(B)
  BY FS_Subset
<1>2. SumFunctionOnSet(Value, A \cup B) = SumFunctionOnSet(Value, A) + SumFunctionOnSet(Value, B)
  BY <1>1, SumOfUnion
<1>3. SumFunctionOnSet(Charge, A \cup B) = SumFunctionOnSet(Charge, A) + SumFunctionOnSet(Charge, B)
  BY <1>1, SumOfUnion
<1> QED BY <1>2, <1>3 DEF ValueOf, ChargesOf

LEMMA FeesTyped ==
    ASSUME BalanceTypeOK, NEW S \in SUBSET Payments
    PROVE  FeesIn(S) \in Nat
<1> DEFINE w == [p \in Payments |-> ledger[p].fee]
<1>1. IsFiniteSet(S)
  BY TotalsTyped
<1>2. \A p \in S : w[p] \in Nat
  BY DEF BalanceTypeOK
<1> HIDE DEF w
<1>3. SumFunctionOnSet(w, S) \in Nat
  BY <1>1, <1>2, SumOfNat
<1> QED BY <1>3 DEF FeesIn, w

\* The fees of rows stored with the fee the field gives are their charges, or
\* nothing.
LEMMA FeesAreCharges ==
    ASSUME BalanceTypeOK, NEW S \in SUBSET Payments,
           \A p \in S : ledger[p].fee = StoredFee(p)
    PROVE  FeesIn(S) = IF feeMapped THEN ChargesOf(S) ELSE 0
<1> DEFINE w == [p \in Payments |-> ledger[p].fee]
<1>1. IsFiniteSet(S)
  BY TotalsTyped
<1>2. \A p \in S : w[p] = IF feeMapped THEN Charge[p] ELSE 0
  BY DEF StoredFee
<1>3. FeesIn(S) = SumFunctionOnSet(w, S)
  BY DEF FeesIn
<1> HIDE DEF w
<1>4. CASE feeMapped
  BY <1>1, <1>2, <1>3, <1>4, SumOfSame DEF ChargesOf
<1>5. CASE ~feeMapped
  BY <1>1, <1>2, <1>3, <1>5, SumOfZeros
<1> QED BY <1>4, <1>5

----------------------------------------------------------------------------
(* The balance: its invariant. *)

LEMMA BalanceStart == BalanceInit => BalanceInv
<1> SUFFICES ASSUME BalanceInit PROVE BalanceInv
  OBVIOUS
<1> USE BalanceAssumption DEF BalanceInit
<1>1. 0 \in Times
  BY DEF Times
<1>2. NoAnchor \in Figure
  BY <1>1 DEF NoAnchor, Figure
<1>3. BalanceTypeOK
  BY <1>1, <1>2 DEF BalanceTypeOK, Unborn, NotHeld, NotEntering, Statuses
<1> QED BY <1>1, <1>3 DEF BalanceInv, Unborn, NotHeld, NotEntering, NoAnchor

LEMMA ReadingTyped ==
    ASSUME BalanceTypeOK
    PROVE  /\ Settled \in SUBSET Payments /\ Counted \in SUBSET Payments
           /\ Truth \in Int
<1>1. Settled \in SUBSET Payments /\ Counted \in SUBSET Payments
  BY DEF Settled, Counted
<1>2. ValueOf(Settled) \in Int /\ ChargesOf(Settled) \in Nat
  BY <1>1, TotalsTyped
<1> QED BY <1>1, <1>2 DEF Truth

\* The provider moves a payment on: what settled stays settled or is reversed,
\* and what settles now settles after every reading.
LEMMA PaymentChanges ==
    ASSUME BalanceInv, NEW p \in Payments,
           NEW state \in [status : Statuses \ {"none"}, began : Times, moved : Times],
           BecomesAt(p, state),
           state.began <= state.moved, state.moved <= time,
           state.status = "pending" => state.began = state.moved,
           IF provider[p].status \in {"settled", "reversed"}
           THEN state.status = "reversed" /\ state.moved = provider[p].moved
           ELSE state.status \in {"pending", "settled"} /\ state.moved = time
    PROVE  BalanceInv'
<1> USE BalanceAssumption DEF BecomesAt
<1>0. BalanceTypeOK
  BY DEF BalanceInv
<1>1. BalanceTypeOK'
  BY <1>0 DEF BalanceTypeOK
<1>2. \A q \in Payments : provider'[q] = IF q = p THEN state ELSE provider[q]
  BY <1>0 DEF BalanceTypeOK
<1>3. ASSUME NEW q \in Payments
      PROVE  /\ provider'[q].began <= provider'[q].moved /\ provider'[q].moved <= time'
             /\ provider'[q].status \in {"none", "pending"} => provider'[q].began = provider'[q].moved
             /\ ledger'[q].firstSeen <= time'
             /\ ~ledger'[q].held => ledger'[q] = NotHeld
             /\ ledger'[q].held => provider'[q].status # "none"
  BY <1>2 DEF BalanceInv
<1>4. ASSUME NEW figure \in Figure, IsOfItsReading(figure)
      PROVE  IsOfItsReading(figure)'
  <2>1. figure.takenAt < time'
    BY <1>4 DEF IsOfItsReading
  <2>2. ASSUME NEW q \in Payments
        PROVE  IF q \in figure.inAmount
               THEN provider'[q].status \in {"settled", "reversed"}
                    /\ provider'[q].moved <= figure.takenAt
               ELSE provider'[q].status = "settled" => provider'[q].moved > figure.takenAt
    BY <1>0, <1>2, <1>4 DEF IsOfItsReading, Figure, Times, BalanceTypeOK
  <2> QED BY <1>4, <2>1, <2>2 DEF IsOfItsReading
<1>5. \A figure \in Figure : IsMeasured(figure) => IsMeasured(figure)'
  BY DEF IsMeasured
<1>6. anchor' = anchor /\ entering' = entering /\ anchor \in Figure /\ entering.figure \in Figure
  BY <1>0 DEF BalanceTypeOK
<1> QED BY <1>1, <1>3, <1>4, <1>5, <1>6 DEF BalanceInv, IsOfItsReading, IsMeasured

\* A row is stored as its payment is; it keeps when it was first seen.
LEMMA StoreRowKeeps ==
    ASSUME BalanceInv, NEW p \in Payments, StoreRow(p)
    PROVE  BalanceInv'
<1> USE BalanceAssumption DEF StoreRow
<1>0. BalanceTypeOK
  BY DEF BalanceInv
<1> DEFINE row == RowOf(p)
<1>1. /\ row \in [held : BOOLEAN, status : Statuses, at : Times, fee : Nat, firstSeen : Times]
      /\ row.held /\ row.firstSeen <= time
      /\ ledger[p].held => row.firstSeen = ledger[p].firstSeen
  <2>1. /\ provider[p].status \in Statuses /\ provider[p].moved \in Times
        /\ provider[p].began \in Times /\ time \in Times /\ ledger[p].firstSeen \in Times
        /\ Charge[p] \in Nat /\ time <= time
    BY <1>0 DEF BalanceTypeOK, Times
  <2>2. ledger[p].firstSeen <= time
    BY DEF BalanceInv
  <2> QED BY <2>1, <2>2 DEF RowOf
<1>2. ledger' = [ledger EXCEPT ![p] = row]
  OBVIOUS
<1> HIDE DEF row
<1>3. BalanceTypeOK'
  BY <1>0, <1>1, <1>2 DEF BalanceTypeOK
<1>4. \A q \in Payments : ledger'[q] = IF q = p THEN row ELSE ledger[q]
  BY <1>0, <1>2 DEF BalanceTypeOK
<1>5. ASSUME NEW q \in Payments
      PROVE  /\ provider'[q].began <= provider'[q].moved /\ provider'[q].moved <= time'
             /\ provider'[q].status \in {"none", "pending"} => provider'[q].began = provider'[q].moved
             /\ ledger'[q].firstSeen <= time'
             /\ ~ledger'[q].held => ledger'[q] = NotHeld
             /\ ledger'[q].held => provider'[q].status # "none"
  BY <1>1, <1>4 DEF BalanceInv
<1>6. ASSUME NEW figure \in Figure, IsMeasured(figure)
      PROVE  IsMeasured(figure)'
  <2>1. \A q \in figure.held : ledger'[q].held
    BY <1>1, <1>4, <1>6 DEF IsMeasured, Figure
  <2> QED BY <1>6, <2>1 DEF IsMeasured
<1>7. \A q \in anchor.held :
        anchor.entered /\ IsMeasured(anchor) => ledger'[q].firstSeen <= anchor.enteredAt
  BY <1>0, <1>1, <1>4 DEF IsMeasured, BalanceInv, BalanceTypeOK, Figure
<1>8. \A figure \in Figure : IsOfItsReading(figure) => IsOfItsReading(figure)'
  BY DEF IsOfItsReading
<1>9. anchor' = anchor /\ entering' = entering /\ anchor \in Figure /\ entering.figure \in Figure
  BY <1>0 DEF BalanceTypeOK
<1> QED BY <1>3, <1>5, <1>6, <1>7, <1>8, <1>9 DEF BalanceInv, IsOfItsReading, IsMeasured

\* What is on the portal when it is read is what has settled by then.
LEMMA ReadPortalKeeps ==
    ASSUME BalanceInv, ReadPortal
    PROVE  BalanceInv'
<1> USE BalanceAssumption DEF ReadPortal
<1>0. BalanceTypeOK
  BY DEF BalanceInv
<1>1. /\ time \in Nat /\ time' = time + 1 /\ time + 2 <= 2 * MaxAnchors
      /\ time \in Times /\ time' \in Times /\ time' < 2 * MaxAnchors
  BY <1>0 DEF BalanceTypeOK, Times
<1>2. PICK read \in Figure :
        /\ entering' = [pc |-> "read", figure |-> read]
        /\ read.amount = Truth /\ read.takenAt = time /\ read.inAmount = Settled
        /\ read.fees = ChargesOf(Settled)
  <2>1. Truth \in Int /\ Settled \in SUBSET Payments /\ ChargesOf(Settled) \in Nat
    BY <1>0, ReadingTyped, TotalsTyped
  <2>2. NoAnchor \in Figure
    <3>1. 0 \in Times
      BY DEF Times
    <3> QED BY <3>1 DEF NoAnchor, Figure
  <2> DEFINE figure == [NoAnchor EXCEPT !.amount = Truth, !.takenAt = time,
                                        !.inAmount = Settled, !.fees = ChargesOf(Settled)]
  <2>3. figure \in Figure
    BY <1>1, <2>1, <2>2 DEF Figure
  <2>4. /\ figure.amount = Truth /\ figure.takenAt = time /\ figure.inAmount = Settled
        /\ figure.fees = ChargesOf(Settled)
    BY <2>2 DEF Figure
  <2> QED BY <2>3, <2>4
<1>5. BalanceTypeOK'
  BY <1>0, <1>1, <1>2 DEF BalanceTypeOK
<1>6. ASSUME NEW p \in Payments
      PROVE  /\ provider[p].began <= provider[p].moved /\ provider[p].moved <= time'
             /\ provider[p].status \in {"none", "pending"} => provider[p].began = provider[p].moved
             /\ ledger[p].firstSeen <= time'
             /\ ~ledger[p].held => ledger[p] = NotHeld
             /\ ledger[p].held => provider[p].status # "none"
  BY <1>0, <1>1 DEF BalanceInv, BalanceTypeOK, Times
<1>7. IsOfItsReading(read)'
  <2>1. read.amount = ValueOf(read.inAmount) - ChargesOf(read.inAmount)
    BY <1>2 DEF Truth
  <2>2. read.fees = ChargesOf(read.inAmount) /\ read.takenAt < time'
    BY <1>1, <1>2
  <2>3. ASSUME NEW p \in Payments
        PROVE  IF p \in read.inAmount
               THEN provider[p].status \in {"settled", "reversed"}
                    /\ provider[p].moved <= read.takenAt
               ELSE provider[p].status = "settled" => provider[p].moved > read.takenAt
    BY <1>2 DEF Settled, BalanceInv
  <2> QED BY <2>1, <2>2, <2>3 DEF IsOfItsReading
<1>8. anchor.entered => IsOfItsReading(anchor)' /\ IsMeasured(anchor)'
  <2>1. anchor.entered => IsOfItsReading(anchor) /\ IsMeasured(anchor)
    BY DEF BalanceInv
  <2>2. anchor.takenAt < time => anchor.takenAt < time'
    BY <1>0, <1>1 DEF BalanceTypeOK, Figure, Times
  <2> QED BY <2>1, <2>2 DEF IsOfItsReading, IsMeasured
<1>9. anchor.entered => \A p \in anchor.held : ledger'[p].firstSeen <= anchor.enteredAt
  BY DEF BalanceInv
<1>10. IsOfItsReading(entering.figure)'
  <2>1. entering'.figure = read
    BY <1>2
  <2> QED BY <1>7, <2>1 DEF IsOfItsReading
<1> QED BY <1>1, <1>2, <1>5, <1>6, <1>8, <1>9, <1>10 DEF BalanceInv

\* A baseline that agrees with its figure is the rows of it that are held.
LEMMA MeasureKeeps ==
    ASSUME BalanceInv, Measure
    PROVE  BalanceInv'
<1> USE BalanceAssumption DEF Measure
<1>0. BalanceTypeOK
  BY DEF BalanceInv
<1>1. PICK read \in Figure : read = entering.figure
  BY <1>0 DEF BalanceTypeOK
<1>2. PICK figure \in Figure :
        /\ entering' = [pc |-> "measured", figure |-> figure]
        /\ figure.amount = read.amount /\ figure.takenAt = read.takenAt
        /\ figure.inAmount = read.inAmount /\ figure.fees = read.fees
        /\ figure.entered
        /\ figure.baseline = ValueOf(Counted) /\ figure.baselineFees = FeesIn(Counted)
        /\ figure.feeMapped = feeMapped /\ figure.held = {p \in Payments : ledger[p].held}
        /\ figure.sound = Agrees(read)
  <2>1. /\ ValueOf(Counted) \in Int /\ FeesIn(Counted) \in Nat /\ feeMapped \in BOOLEAN
        /\ {p \in Payments : ledger[p].held} \in SUBSET Payments
    BY <1>0, ReadingTyped, TotalsTyped, FeesTyped DEF BalanceTypeOK
  <2>2. Agrees(read) \in BOOLEAN
    BY DEF Agrees
  <2> DEFINE figure == Measured(read)
  <2>3. figure \in Figure
    BY <2>1, <2>2 DEF Measured, Figure
  <2>4. /\ figure.amount = read.amount /\ figure.takenAt = read.takenAt
        /\ figure.inAmount = read.inAmount /\ figure.fees = read.fees
        /\ figure.entered
        /\ figure.baseline = ValueOf(Counted) /\ figure.baselineFees = FeesIn(Counted)
        /\ figure.feeMapped = feeMapped /\ figure.held = {p \in Payments : ledger[p].held}
        /\ figure.sound = Agrees(read)
    BY DEF Measured, Figure
  <2> QED BY <1>1, <2>3, <2>4
<1>3. BalanceTypeOK'
  BY <1>0, <1>2 DEF BalanceTypeOK
<1>4. IsOfItsReading(figure) /\ time < 2 * MaxAnchors
  BY <1>1, <1>2 DEF BalanceInv, IsOfItsReading
<1>5. IsMeasured(figure)
  <2>1. \A p \in figure.held : ledger[p].held
    BY <1>2
  <2>2. ASSUME figure.sound
        PROVE  /\ figure.baseline = ValueOf(figure.inAmount \cap figure.held)
               /\ figure.baselineFees = IF figure.feeMapped
                                        THEN ChargesOf(figure.inAmount \cap figure.held) ELSE 0
    <3>1. Agrees(read)
      BY <1>2, <2>2
    <3>2. \A p \in Payments : ~ledger[p].held => ~Counting(p)
      BY DEF BalanceInv, NotHeld, Counting
    <3>3. Counted = figure.inAmount \cap figure.held
      BY <1>2, <3>1, <3>2 DEF Agrees, Counted, Figure
    <3>4. \A p \in Counted : ledger[p].fee = StoredFee(p)
      BY <3>1, <3>2 DEF Agrees, Counted
    <3>5. FeesIn(Counted) = IF feeMapped THEN ChargesOf(Counted) ELSE 0
      BY <1>0, <3>4, ReadingTyped, FeesAreCharges
    <3> QED BY <1>2, <3>3, <3>5
  <2> QED BY <2>1, <2>2 DEF IsMeasured
<1>6. IsOfItsReading(entering.figure)' /\ IsMeasured(entering.figure)' /\ entering'.figure.entered
  <2>1. entering'.figure = figure
    BY <1>2
  <2> QED BY <1>2, <1>4, <1>5, <2>1 DEF IsOfItsReading, IsMeasured
<1>7. anchor.entered => IsOfItsReading(anchor)' /\ IsMeasured(anchor)'
  BY DEF BalanceInv, IsOfItsReading, IsMeasured
<1> QED BY <1>3, <1>4, <1>6, <1>7 DEF BalanceInv

\* The anchor created is the figure measured, entered after every row it holds.
LEMMA CreateAnchorKeeps ==
    ASSUME BalanceInv, CreateAnchor
    PROVE  BalanceInv'
<1> USE BalanceAssumption DEF CreateAnchor
<1>0. BalanceTypeOK
  BY DEF BalanceInv
<1>1. /\ time \in Nat /\ time' = time + 1 /\ time \in Times /\ time' \in Times
  BY <1>0 DEF BalanceTypeOK, BalanceInv, Times
<1>2. PICK measured \in Figure : measured = entering.figure
  BY <1>0 DEF BalanceTypeOK
<1>3. PICK figure \in Figure :
        /\ anchor' = figure
        /\ figure.enteredAt = time
        /\ figure.amount = measured.amount /\ figure.takenAt = measured.takenAt
        /\ figure.inAmount = measured.inAmount /\ figure.fees = measured.fees
        /\ figure.baseline = measured.baseline /\ figure.baselineFees = measured.baselineFees
        /\ figure.feeMapped = measured.feeMapped /\ figure.held = measured.held
        /\ figure.sound = measured.sound
  BY <1>1, <1>2 DEF Figure
<1>4. BalanceTypeOK'
  <2>1. NotEntering \in [pc : {"idle", "read", "measured"}, figure : Figure]
    <3>1. 0 \in Times
      BY DEF Times
    <3> QED BY <3>1 DEF NotEntering, NoAnchor, Figure
  <2> QED BY <1>0, <1>1, <1>3, <2>1 DEF BalanceTypeOK
<1>5. ASSUME NEW p \in Payments
      PROVE  /\ provider[p].began <= provider[p].moved /\ provider[p].moved <= time'
             /\ provider[p].status \in {"none", "pending"} => provider[p].began = provider[p].moved
             /\ ledger[p].firstSeen <= time'
             /\ ~ledger[p].held => ledger[p] = NotHeld
             /\ ledger[p].held => provider[p].status # "none"
  BY <1>0, <1>1 DEF BalanceInv, BalanceTypeOK, Times
<1>6. IsOfItsReading(figure) /\ IsMeasured(figure)
  BY <1>2, <1>3 DEF BalanceInv, IsOfItsReading, IsMeasured
<1>7. figure.takenAt < time'
  BY <1>1, <1>6 DEF IsOfItsReading, Figure, Times
<1>8. \A p \in figure.held : ledger[p].firstSeen <= figure.enteredAt
  BY <1>3 DEF BalanceInv, Figure
<1>9. IsOfItsReading(anchor)' /\ IsMeasured(anchor)'
  BY <1>3, <1>6, <1>7 DEF IsOfItsReading, IsMeasured
<1>10. entering'.pc = "idle"
  BY DEF NotEntering
<1> QED BY <1>3, <1>4, <1>5, <1>8, <1>9, <1>10 DEF BalanceInv

LEMMA BalanceStep == BalanceInv /\ [BalanceNext]_balanceVars => BalanceInv'
<1> SUFFICES ASSUME BalanceInv, [BalanceNext]_balanceVars PROVE BalanceInv'
  OBVIOUS
<1> USE BalanceAssumption
<1>0. BalanceTypeOK
  BY DEF BalanceInv
<1>1. ASSUME NEW p \in Payments, PaymentBegins(p) \/ PaymentMoves(p) \/ PaymentReversed(p)
      PROVE  BalanceInv'
  <2>1. /\ provider[p].began \in Times /\ provider[p].moved \in Times /\ time \in Times
        /\ provider[p].began <= provider[p].moved /\ provider[p].moved <= time
        /\ time <= time /\ provider[p].began <= time
        /\ provider[p] \in [status : Statuses, began : Times, moved : Times]
    BY <1>0 DEF BalanceInv, BalanceTypeOK, Times
  <2>2. CASE PaymentBegins(p)
    <3> DEFINE state == [status |-> "pending", began |-> time, moved |-> time]
    <3>1. state \in [status : Statuses \ {"none"}, began : Times, moved : Times]
      BY <2>1 DEF Statuses
    <3> QED BY <2>1, <2>2, <3>1, PaymentChanges DEF PaymentBegins
  <2>3. CASE PaymentMoves(p)
    <3> DEFINE state == [status |-> "settled",
                         began |-> IF provider[p].status = "none" THEN time
                                   ELSE provider[p].began,
                         moved |-> time]
    <3>1. state \in [status : Statuses \ {"none"}, began : Times, moved : Times]
      BY <2>1 DEF Statuses
    <3> QED BY <2>1, <2>3, <3>1, PaymentChanges DEF PaymentMoves
  <2>4. CASE PaymentReversed(p)
    <3> DEFINE state == [provider[p] EXCEPT !.status = "reversed"]
    <3>1. /\ state \in [status : Statuses \ {"none"}, began : Times, moved : Times]
          /\ state.status = "reversed" /\ state.began = provider[p].began
          /\ state.moved = provider[p].moved
      BY <2>1 DEF Statuses
    <3>2. provider[p].status = "settled" /\ BecomesAt(p, state)
      BY <2>4 DEF PaymentReversed
    <3> HIDE DEF state
    <3> QED BY <2>1, <3>1, <3>2, PaymentChanges
  <2> QED BY <1>1, <2>2, <2>3, <2>4
<1>2. ASSUME NEW p \in Payments, StoreRow(p) PROVE BalanceInv'
  BY <1>2, StoreRowKeeps
<1>3. CASE MapFee
  <2>1. BalanceTypeOK'
    BY <1>0, <1>3 DEF MapFee, BalanceTypeOK
  <2> QED BY <1>3, <2>1 DEF MapFee, BalanceInv, IsOfItsReading, IsMeasured
<1>4. CASE ReadPortal
  BY <1>4, ReadPortalKeeps
<1>5. CASE Measure
  BY <1>5, MeasureKeeps
<1>6. CASE CreateAnchor
  BY <1>6, CreateAnchorKeeps
<1>7. CASE AnchorFails
  <2>1. NotEntering \in [pc : {"idle", "read", "measured"}, figure : Figure]
    <3>1. 0 \in Times
      BY DEF Times
    <3> QED BY <3>1 DEF NotEntering, NoAnchor, Figure
  <2>2. BalanceTypeOK'
    BY <1>0, <1>7, <2>1 DEF AnchorFails, BalanceTypeOK
  <2>3. entering'.pc = "idle"
    BY <1>7 DEF AnchorFails, NotEntering
  <2> QED BY <1>7, <2>2, <2>3 DEF AnchorFails, BalanceInv, IsOfItsReading, IsMeasured
<1>8. CASE UNCHANGED balanceVars
  <2>1. BalanceTypeOK'
    BY <1>0, <1>8 DEF balanceVars, BalanceTypeOK
  <2> QED BY <1>8, <2>1 DEF balanceVars, BalanceInv, IsOfItsReading, IsMeasured
<1> QED BY <1>1, <1>2, <1>3, <1>4, <1>5, <1>6, <1>7, <1>8 DEF BalanceNext

LEMMA BalanceHolds == BalanceSpec => []BalanceInv
BY BalanceStart, BalanceStep, PTL DEF BalanceSpec

----------------------------------------------------------------------------
(* The balance: what follows. *)

\* Once the ledger has caught up it counts what has settled, each payment with
\* the fee its field now gives.
LEMMA CaughtUp ==
    ASSUME BalanceInv, Complete
    PROVE  /\ Counted = Settled
           /\ \A p \in Payments : provider[p].status # "none" => ledger[p] = RowOf(p)
           /\ \A p \in Counted : ledger[p].fee = StoredFee(p)
<1>1. \A p \in Payments : provider[p].status # "none" => ledger[p] = RowOf(p)
  BY DEF Complete, UpToDate
<1>2. \A p \in Payments : provider[p].status = "none" => ledger[p] = NotHeld
  BY DEF BalanceInv
<1>3. \A p \in Payments : RowOf(p).status = provider[p].status /\ RowOf(p).fee = StoredFee(p)
  BY DEF RowOf, StoredFee
<1>4. \A p \in Payments : ledger[p].status = provider[p].status
  BY <1>1, <1>2, <1>3 DEF NotHeld
<1>5. Counted = Settled
  BY <1>4 DEF Counted, Counting, Settled
<1>6. \A p \in Counted : ledger[p].fee = StoredFee(p)
  BY <1>1, <1>3, <1>5 DEF Settled
<1> QED BY <1>1, <1>5, <1>6

\* The rows taken for late ones are those of the figure it did not hold.
LEMMA ArrivedAreLate ==
    ASSUME BalanceInv, Complete, Movable, LedgerSource = "provider"
    PROVE  Arrived = anchor.inAmount \ anchor.held
<1>1. \A p \in Payments : provider[p].status # "none" => ledger[p] = RowOf(p)
  BY CaughtUp
<1>2. Counted = Settled
  BY CaughtUp
<1>3. /\ IsOfItsReading(anchor) /\ anchor \in Figure /\ time \in Times
      /\ \A p \in anchor.held : ledger[p].firstSeen <= anchor.enteredAt
      /\ ledger \in [Payments -> [held : BOOLEAN, status : Statuses,
                                  at : Times, fee : Nat, firstSeen : Times]]
      /\ provider \in [Payments -> [status : Statuses, began : Times, moved : Times]]
  BY DEF Movable, BalanceInv, BalanceTypeOK
<1>4. Arrived = {p \in Settled : /\ ledger[p].firstSeen > anchor.enteredAt
                                 /\ ledger[p].at <= anchor.takenAt}
  BY <1>2 DEF Arrived
<1>5. \A p \in Settled :
        p \in Payments /\ provider[p].status = "settled" /\ ledger[p].held
        /\ ledger[p].at = IF datesMove THEN provider[p].moved ELSE provider[p].began
  <2>1. \A p \in Payments :
          /\ RowOf(p).held
          /\ RowOf(p).at = IF datesMove THEN provider[p].moved ELSE provider[p].began
    BY DEF RowOf
  <2> QED BY <1>1, <2>1 DEF Settled
<1>6. ASSUME NEW p \in anchor.inAmount \ anchor.held PROVE p \in Arrived
  <2>1. p \in Payments /\ provider[p].status = "settled" /\ provider[p].moved <= anchor.takenAt
    BY <1>3, <1>6 DEF Movable, IsOfItsReading, Figure
  <2>2. p \in Settled
    BY <2>1 DEF Settled
  <2>3. ledger[p].firstSeen > anchor.enteredAt
    BY <1>5, <1>6, <2>1, <2>2 DEF Movable
  <2>4. provider[p].began <= provider[p].moved
    BY <2>1 DEF BalanceInv
  <2>5. ledger[p].at <= anchor.takenAt
    BY <1>3, <1>5, <2>1, <2>2, <2>4 DEF Figure, Times
  <2> QED BY <1>4, <2>2, <2>3, <2>5
<1>7. ASSUME NEW p \in Arrived PROVE p \in anchor.inAmount \ anchor.held
  <2>1. /\ p \in Settled /\ p \in Payments
        /\ ledger[p].firstSeen > anchor.enteredAt /\ ledger[p].at <= anchor.takenAt
    BY <1>4, <1>5, <1>7
  <2>2. ledger[p].firstSeen \in Times /\ anchor.enteredAt \in Times
    BY <1>3, <2>1 DEF Figure
  <2>3. p \notin anchor.held
    BY <1>3, <2>1, <2>2 DEF Times
  <2>4. ASSUME p \notin anchor.inAmount PROVE FALSE
    <3>1. provider[p].moved > anchor.takenAt
      BY <1>3, <1>5, <2>1, <2>4 DEF IsOfItsReading
    <3>2. datesMove \/ provider[p].began > anchor.takenAt
      BY <2>1, <2>3, <2>4 DEF Movable
    <3>3. /\ provider[p].moved \in Times /\ provider[p].began \in Times
          /\ anchor.takenAt \in Times
      BY <1>3, <2>1 DEF Figure
    <3> QED BY <1>5, <2>1, <3>1, <3>2, <3>3 DEF Times
  <2> QED BY <2>3, <2>4
<1> QED BY <1>6, <1>7

\* Once the ledger has caught up, the estimate is the provider's balance to the
\* cent, and over it by the charges since where the fee is not read: for any
\* number of payments and whatever they are worth, of rows that arrive late, of
\* figures entered, and of changes of the fee field, where the rows are a
\* provider's own (psp-balance.service.ts:1337-1383).  Where they are those of
\* Paymaxis no row is taken for a late one, and the estimate may count it twice.
THEOREM EstimateStaysTrue ==
    ASSUME LedgerSource = "provider"
    PROVE  BalanceSpec => []EstimateIsTrue
<1>1. ASSUME BalanceInv, Movable, Complete
      PROVE  Estimate = Truth + IF feeMapped /\ anchor.feeMapped THEN 0
                                ELSE ChargesOf(Settled) - anchor.fees
  <2> DEFINE known == anchor.inAmount \cap anchor.held
             late == anchor.inAmount \ anchor.held
  <2>1. anchor \in Figure /\ IsOfItsReading(anchor) /\ IsMeasured(anchor) /\ anchor.sound
        /\ feeMapped \in BOOLEAN /\ BalanceTypeOK
    BY <1>1 DEF Movable, BalanceInv, BalanceTypeOK
  <2>2. known \in SUBSET Payments /\ late \in SUBSET Payments /\ known \cap late = {}
        /\ known \cup late = anchor.inAmount /\ anchor.inAmount \in SUBSET Payments
    BY <2>1 DEF Figure
  <2>3. Arrived = late /\ Counted = Settled
    BY <1>1, ArrivedAreLate, CaughtUp
  <2>4. Settled \in SUBSET Payments
    BY DEF Settled
  <2>5. /\ anchor.amount = ValueOf(anchor.inAmount) - ChargesOf(anchor.inAmount)
        /\ anchor.fees = ChargesOf(anchor.inAmount)
        /\ anchor.baseline = ValueOf(known)
        /\ anchor.baselineFees = IF anchor.feeMapped THEN ChargesOf(known) ELSE 0
    BY <2>1 DEF IsOfItsReading, IsMeasured
  <2>6. /\ FeesIn(Settled) = IF feeMapped THEN ChargesOf(Settled) ELSE 0
        /\ FeesIn(late) = IF feeMapped THEN ChargesOf(late) ELSE 0
    <3>1. \A p \in Settled : ledger[p].fee = StoredFee(p)
      BY <1>1, CaughtUp
    <3>2. late \subseteq Settled
      BY <2>3 DEF Arrived
    <3> HIDE DEF late
    <3> QED BY <2>1, <2>2, <2>4, <3>1, <3>2, FeesAreCharges
  <2> HIDE DEF known, late
  <2>7. /\ ValueOf(anchor.inAmount) = ValueOf(known) + ValueOf(late)
        /\ ChargesOf(anchor.inAmount) = ChargesOf(known) + ChargesOf(late)
    BY <2>2, TotalsAdd
  <2>8. PICK vs \in Int, vk \in Int, vl \in Int, cs \in Nat, ck \in Nat, cl \in Nat :
          /\ vs = ValueOf(Settled) /\ vk = ValueOf(known) /\ vl = ValueOf(late)
          /\ cs = ChargesOf(Settled) /\ ck = ChargesOf(known) /\ cl = ChargesOf(late)
    BY <2>2, <2>4, TotalsTyped
  <2>9. Estimate = ((vk + vl) - (ck + cl)) + vs - (vk + vl) - FeesSince
    BY <2>3, <2>5, <2>7, <2>8 DEF Estimate
  <2>10. FeesSince = IF feeMapped /\ anchor.feeMapped THEN cs - (ck + cl) ELSE 0
    BY <2>1, <2>3, <2>5, <2>6, <2>8 DEF FeesSince, FeeMappingChanged, Figure
  <2>11. Truth = vs - cs /\ ChargesOf(Settled) - anchor.fees = cs - (ck + cl)
    BY <2>5, <2>7, <2>8 DEF Truth
  <2>12. CASE feeMapped /\ anchor.feeMapped
    BY <2>8, <2>9, <2>10, <2>11, <2>12
  <2>13. CASE ~(feeMapped /\ anchor.feeMapped)
    BY <2>8, <2>9, <2>10, <2>11, <2>13
  <2> QED BY <2>12, <2>13
<1>2. BalanceInv => EstimateIsTrue
  BY <1>1 DEF EstimateIsTrue
<1> QED BY <1>2, BalanceHolds, PTL

\* Storing a row changes the fees of no others.
LEMMA FeesGrow ==
    ASSUME BalanceTypeOK, BalanceTypeOK', NEW S \in SUBSET Payments, NEW p \in Payments \ S,
           \A q \in Payments \ {p} : ledger'[q] = ledger[q]
    PROVE  /\ FeesIn(S)' = FeesIn(S)
           /\ FeesIn(S \cup {p})' = FeesIn(S) + ledger'[p].fee
<1> DEFINE v == [q \in Payments |-> ledger[q].fee]
           w == [q \in Payments |-> ledger'[q].fee]
           T == S \cup {p}
<1>1. /\ IsFiniteSet(S) /\ IsFiniteSet(T)
  BY TotalsTyped, FS_AddElement
<1>2. \A q \in S : w[q] = v[q]
  OBVIOUS
<1>3. \A q \in T : w[q] \in Nat
  BY DEF BalanceTypeOK
<1>4. T \ {p} = S /\ p \in T /\ w[p] = ledger'[p].fee
  OBVIOUS
<1>5. FeesIn(S) = SumFunctionOnSet(v, S) /\ FeesIn(S)' = SumFunctionOnSet(w, S)
      /\ FeesIn(T)' = SumFunctionOnSet(w, T)
  BY DEF FeesIn
<1> HIDE DEF v, w
<1>6. SumFunctionOnSet(w, S) = SumFunctionOnSet(v, S)
  BY <1>1, <1>2, SumOfSame
<1> HIDE DEF T
<1>7. SumFunctionOnSet(w, T) = w[p] + SumFunctionOnSet(w, S)
  BY <1>1, <1>3, <1>4, SumOfAny
<1>8. SumFunctionOnSet(w, S) \in Nat
  BY <1>5, <1>6, FeesTyped
<1>9. FeesIn(T)' = FeesIn(S) + ledger'[p].fee
  BY <1>3, <1>4, <1>5, <1>6, <1>7, <1>8
<1> QED BY <1>5, <1>6, <1>9 DEF T

\* A payment that was in the figure already leaves the estimate where it was
\* when its row arrives at last: what it adds to what counts it adds to what
\* arrived late (psp-balance.service.ts:1340-1354).
THEOREM LateRowsStayPut ==
    ASSUME LedgerSource = "provider"
    PROVE  BalanceSpec => LateRowsDoNotMove
<1>1. ASSUME BalanceInv, BalanceInv', [BalanceNext]_balanceVars, NEW p \in Payments,
             anchor.entered, ~ledger[p].held, ledger'[p].held, time > anchor.enteredAt,
             provider[p].moved <= anchor.takenAt, datesMove
      PROVE  Estimate' = Estimate
  <2>1. BalanceTypeOK /\ BalanceTypeOK'
    BY <1>1 DEF BalanceInv
  <2>2. StoreRow(p)
    BY <1>1, <2>1 DEF BalanceNext, BalanceTypeOK, BecomesAt, PaymentBegins, PaymentMoves,
          PaymentReversed, StoreRow, MapFee, ReadPortal, Measure, CreateAnchor, AnchorFails,
          balanceVars
  <2>3. /\ anchor' = anchor /\ feeMapped' = feeMapped
        /\ \A q \in Payments \ {p} : ledger'[q] = ledger[q]
        /\ ledger'[p].status = provider[p].status
        /\ ledger'[p].firstSeen = time /\ ledger'[p].at = provider[p].moved
    BY <1>1, <2>1, <2>2 DEF StoreRow, RowOf, BalanceTypeOK
  <2>4. p \notin Counted /\ Counted \subseteq Payments /\ Arrived \subseteq Counted
    BY <1>1 DEF BalanceInv, Counted, Counting, NotHeld, Arrived
  <2>5. CASE provider[p].status # "settled"
    <3>1. Counted' = Counted
      BY <2>3, <2>4, <2>5 DEF Counted, Counting
    <3>2. Arrived' = Arrived
      BY <2>3, <2>4, <3>1 DEF Arrived
    <3>3. FeesIn(Counted)' = FeesIn(Counted) /\ FeesIn(Arrived)' = FeesIn(Arrived)
      <4>1. PICK c \in SUBSET Payments, a \in SUBSET Payments :
              c = Counted /\ a = Arrived /\ p \notin c /\ p \notin a
        BY <2>4
      <4>2. FeesIn(c)' = FeesIn(c) /\ FeesIn(a)' = FeesIn(a)
        BY <2>1, <2>3, <4>1, FeesGrow
      <4> QED BY <3>1, <3>2, <4>1, <4>2 DEF FeesIn
    <3> QED BY <2>3, <3>1, <3>2, <3>3 DEF Estimate, FeesSince, FeeMappingChanged, ValueOf
  <2>6. CASE provider[p].status = "settled"
    <3>1. PICK c \in SUBSET Payments, a \in SUBSET Payments :
            c = Counted /\ a = Arrived /\ p \notin c /\ p \notin a
      BY <2>4
    <3>2. Counted' = c \cup {p}
      BY <2>3, <2>6, <3>1 DEF Counted, Counting
    <3>3. Arrived' = a \cup {p}
      BY <1>1, <2>3, <2>4, <3>1, <3>2 DEF Arrived
    <3>4. /\ FeesIn(c \cup {p})' = FeesIn(c) + ledger'[p].fee
          /\ FeesIn(a \cup {p})' = FeesIn(a) + ledger'[p].fee
      BY <2>1, <2>3, <3>1, FeesGrow
    <3>5. FeesIn(Counted)' = FeesIn(c) + ledger'[p].fee
      BY <3>2, <3>4 DEF FeesIn
    <3>6. FeesIn(Arrived)' = FeesIn(a) + ledger'[p].fee
      BY <3>3, <3>4 DEF FeesIn
    <3>7. /\ ValueOf(c \cup {p}) = ValueOf(c) + ValueOf({p})
          /\ ValueOf(a \cup {p}) = ValueOf(a) + ValueOf({p})
      BY <3>1, TotalsAdd
    <3>8. PICK vc \in Int, va \in Int, vp \in Int, fc \in Nat, fa \in Nat, fp \in Nat :
            /\ vc = ValueOf(c) /\ va = ValueOf(a) /\ vp = ValueOf({p})
            /\ fc = FeesIn(c) /\ fa = FeesIn(a) /\ fp = ledger'[p].fee
      <4>1. ledger'[p].fee \in Nat /\ {p} \in SUBSET Payments
        BY <2>1 DEF BalanceTypeOK
      <4> QED BY <2>1, <4>1, TotalsTyped, FeesTyped
    <3>9. PICK m \in Int, b \in Int, bf \in Nat, changed \in BOOLEAN :
            m = anchor.amount /\ b = anchor.baseline /\ bf = anchor.baselineFees
            /\ changed = FeeMappingChanged
      BY <2>1 DEF BalanceTypeOK, Figure, FeeMappingChanged
    <3>10. FeeMappingChanged' <=> FeeMappingChanged
      BY <2>3 DEF FeeMappingChanged
    <3>11. FeesSince = IF changed THEN 0 ELSE fc - (bf + fa)
      BY <3>1, <3>8, <3>9 DEF FeesSince
    <3>12. FeesSince' = IF changed THEN 0 ELSE (fc + fp) - (bf + (fa + fp))
      BY <2>3, <3>5, <3>6, <3>8, <3>9, <3>10 DEF FeesSince
    <3>13. Estimate = m + vc - (b + va) - FeesSince
      BY <3>1, <3>8, <3>9 DEF Estimate
    <3>14. Estimate' = m + (vc + vp) - (b + (va + vp)) - FeesSince'
      BY <2>3, <3>2, <3>3, <3>7, <3>8, <3>9 DEF Estimate
    <3>15. FeesSince' = FeesSince /\ FeesSince \in Int
      BY <3>8, <3>9, <3>11, <3>12
    <3> QED BY <3>8, <3>9, <3>13, <3>14, <3>15
  <2> QED BY <2>5, <2>6
<1>2. BalanceInv /\ BalanceInv' /\ [BalanceNext]_balanceVars =>
        [\A p \in Payments :
           /\ anchor.entered /\ ~ledger[p].held /\ ledger'[p].held
           /\ time > anchor.enteredAt
           /\ provider[p].moved <= anchor.takenAt /\ datesMove
           => Estimate' = Estimate]_balanceVars
  BY <1>1
<1> QED BY <1>2, BalanceHolds, PTL DEF BalanceSpec, LateRowsDoNotMove
=============================================================================
