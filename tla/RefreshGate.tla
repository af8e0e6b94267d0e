---------------------------- MODULE RefreshGate -----------------------------
(***************************************************************************)
(* PaymaxisService.refresh: open dashboards drive the poll, and three rows  *)
(* of PollWatermark keep them from running it too often and tell how fresh  *)
(* the data is.  A call inside the floor returns and changes nothing, so it *)
(* is no action here.                                                       *)
(*                                                                          *)
(* A stored instant is modelled by its age in ticks, which stops counting   *)
(* at Floor, where it no longer matters and where "never" starts.           *)
(***************************************************************************)
EXTENDS Naturals, FiniteSets

CONSTANTS
    Tabs,         \* open dashboards, each with one request under way at most
    Floor,        \* REFRESH_MIN_SECONDS, in ticks
    ForcedFloor,  \* FORCED_REFRESH_MIN_SECONDS, in ticks
    MaxFaults     \* bound: failed reads and writes, invocations killed

ASSUME GateAssumption ==
    /\ Floor \in Nat
    /\ ForcedFloor \in 1..Floor
    /\ MaxFaults \in Nat

VARIABLES
    lastRun,   \* age of the stored LAST_RUN_KEY
    lastOk,    \* age of the stored LAST_OK_KEY
    failing,   \* LAST_ERROR_KEY is not empty
    pc,        \* where each request is
    mine,      \* age of its own `now`
    newest,    \* ghost: age of the newest `now` any run took
    arrived,   \* ghost: age of the newest run whose payments are all stored
    swallowed, \* ghost: age of the newest run that lost some and did not say so
    raced,     \* ghost: a run was decided on before another's mark was written
    faults

marks == <<lastRun, lastOk, failing>>
ghosts == <<newest, arrived, swallowed, raced>>
gateVars == <<marks, pc, mine, ghosts, faults>>

Age == 0..Floor

GateTypeOK ==
    /\ lastRun \in Age /\ lastOk \in Age /\ failing \in BOOLEAN
    /\ pc \in [Tabs -> {"idle", "claim", "sync", "ok", "clear", "error"}]
    /\ mine \in [Tabs -> Age]
    /\ newest \in Age /\ arrived \in Age /\ swallowed \in Age
    /\ raced \in BOOLEAN
    /\ faults \in 0..MaxFaults

Fault == faults < MaxFaults /\ faults' = faults + 1
Goto(t, label) == pc' = [pc EXCEPT ![t] = label]
Older(age) == IF age = Floor THEN age ELSE age + 1
Younger(a, b) == IF a < b THEN a ELSE b

Tick ==
    /\ lastRun' = Older(lastRun)
    /\ lastOk' = Older(lastOk)
    /\ mine' = [t \in Tabs |-> Older(mine[t])]
    /\ newest' = Older(newest)
    /\ arrived' = Older(arrived)
    /\ swallowed' = Older(swallowed)
    /\ UNCHANGED <<failing, pc, raced, faults>>

\* The floor of the poll, or of a person pressing the button.
DueAfter(forced) == IF forced THEN ForcedFloor ELSE Floor

\* Seeded fault: every call writes the mark, the ones it declines included.
AskMarks(t) ==
    /\ pc[t] = "idle"
    /\ newest' = 0
    /\ \/ /\ Floor <= lastRun
          /\ Goto(t, "claim")
          /\ mine' = [mine EXCEPT ![t] = 0]
          /\ UNCHANGED lastRun
       \/ /\ lastRun < Floor
          /\ lastRun' = 0
          /\ UNCHANGED <<pc, mine>>
    /\ UNCHANGED <<lastOk, failing, arrived, swallowed, raced, faults>>

\* The marks are read, and when a run is due its instant is taken.  A read that
\* fails finds no marks at all.
Ask(t) ==
    /\ pc[t] = "idle"
    /\ \/ \E forced \in BOOLEAN : DueAfter(forced) <= lastRun /\ UNCHANGED faults
       \/ Fault
    /\ Goto(t, "claim")
    /\ mine' = [mine EXCEPT ![t] = 0]
    /\ newest' = 0
    /\ raced' = (raced \/ \E u \in Tabs : pc[u] = "claim")
    /\ UNCHANGED <<marks, arrived, swallowed>>

\* Seeded fault: the mark is not written before the sync.
ClaimNothing(t) ==
    /\ pc[t] = "claim"
    /\ Goto(t, "sync")
    /\ UNCHANGED <<marks, mine, ghosts, faults>>

\* Seeded fault: data counts as fresh from the moment it is asked for.
ClaimFresh(t) ==
    /\ pc[t] = "claim"
    /\ lastRun' = mine[t]
    /\ lastOk' = mine[t]
    /\ Goto(t, "sync")
    /\ UNCHANGED <<failing, mine, ghosts, faults>>

\* mark() logs a write that fails, and the run goes on.
Claim(t) ==
    /\ pc[t] = "claim"
    /\ \/ lastRun' = mine[t] /\ UNCHANGED faults
       \/ Fault /\ UNCHANGED lastRun
    /\ Goto(t, "sync")
    /\ UNCHANGED <<lastOk, failing, mine, ghosts>>

\* syncAll (module PaymentIngest): some shop reports an error, or none does.
\* storePage logs a page it could not store, and no shop reports that.
SyncEnds(t) ==
    /\ pc[t] = "sync"
    /\ \/ /\ Goto(t, "ok")
          /\ arrived' = Younger(arrived, mine[t])
          /\ UNCHANGED <<swallowed, faults>>
       \/ /\ Goto(t, "ok")
          /\ Fault
          /\ swallowed' = Younger(swallowed, mine[t])
          /\ UNCHANGED arrived
       \/ Goto(t, "error") /\ UNCHANGED <<arrived, swallowed, faults>>
    /\ UNCHANGED <<marks, mine, newest, raced>>

MarkOk(t) ==
    /\ pc[t] = "ok"
    /\ \/ lastOk' = mine[t] /\ UNCHANGED faults
       \/ Fault /\ UNCHANGED lastOk
    /\ Goto(t, "clear")
    /\ UNCHANGED <<lastRun, failing, mine, ghosts>>

ClearError(t) ==
    /\ pc[t] = "clear"
    /\ \/ failing' = FALSE /\ UNCHANGED faults
       \/ Fault /\ UNCHANGED failing
    /\ Goto(t, "idle")
    /\ UNCHANGED <<lastRun, lastOk, mine, ghosts>>

MarkError(t) ==
    /\ pc[t] = "error"
    /\ \/ failing' = TRUE /\ UNCHANGED faults
       \/ Fault /\ UNCHANGED failing
    /\ Goto(t, "idle")
    /\ UNCHANGED <<lastRun, lastOk, mine, ghosts>>

Killed(t) ==
    /\ pc[t] # "idle"
    /\ Fault
    /\ Goto(t, "idle")
    /\ UNCHANGED <<marks, mine, ghosts>>

-----------------------------------------------------------------------------
GateInit ==
    /\ lastRun = Floor /\ lastOk = Floor /\ failing = FALSE
    /\ pc = [t \in Tabs |-> "idle"]
    /\ mine = [t \in Tabs |-> Floor]
    /\ newest = Floor /\ arrived = Floor /\ swallowed = Floor
    /\ raced = FALSE
    /\ faults = 0

Refresh(t) ==
    Claim(t) \/ SyncEnds(t) \/ MarkOk(t) \/ ClearError(t) \/ MarkError(t)

GateNext ==
    \/ Tick
    \/ \E t \in Tabs : Ask(t) \/ Refresh(t) \/ Killed(t)

GateSpec == GateInit /\ [][GateNext]_gateVars

\* Time passes, a tab asks every minute, and a request under way ends.
GateFairSpec ==
    /\ GateSpec
    /\ WF_gateVars(Tick)
    /\ \A t \in Tabs : WF_gateVars(Ask(t)) /\ WF_gateVars(Refresh(t))

-----------------------------------------------------------------------------
(* What the gate promises.                                                  *)

\* paymaxis.service.ts:281: the mark is written before the sync, so that racing
\* invocations "cannot both decide they are the one to run".  While no read or
\* write fails, and no run is decided on between another's reading of the marks
\* and its writing of them, two runs are at least the forced floor apart,
\* however long either takes and in whatever order they end.
RunsSpaced ==
    [][\A t \in Tabs :
        pc[t] = "idle" /\ pc'[t] = "claim" /\ faults' = 0 /\ ~raced' => ForcedFloor <= newest]_gateVars

\* paymaxis.service.ts:118: the age shown is "when data last actually arrived".
\* It is never less than that of the newest run whose payments are all stored,
\* whatever is killed, fails or overlaps in between, unless a younger run lost
\* some in a write that failed unreported: then it is at least that run's.
NeverFresherThanData == lastOk < arrived => swallowed <= lastOk

\* While tabs are open the provider is asked again and again, however often a
\* run fails, is killed or declines in favour of another tab's.
KeepsPolling == []<>(\E t \in Tabs : pc[t] = "sync")

-----------------------------------------------------------------------------
(* What keeps both: a run about to mark its success is one of those that    *)
(* ended without an error, and the newest instant taken is in the mark, or  *)
(* in the hands of whoever is about to write it there.                      *)
EndedWell(age) == arrived <= age \/ swallowed <= age

GateInv ==
    /\ GateTypeOK
    /\ EndedWell(lastOk)
    /\ \A t \in Tabs : pc[t] = "ok" => EndedWell(mine[t])
    /\ faults = 0 /\ ~raced =>
          /\ \A t \in Tabs : pc[t] = "claim" => mine[t] = newest
          /\ (\A t \in Tabs : pc[t] # "claim") => lastRun = newest
=============================================================================
