---------------------------- MODULE MCSchedules -----------------------------
(* What runs again and again and must get round to everything, for TLC: the   *)
(* poll behind the refresh gate, the rotation of the providers' ledgers, and  *)
(* the enrichment of verifications.  They share no state, so a behaviour is   *)
(* that of one of them, chosen at the start, and the others stay as they are. *)
EXTENDS RefreshGate, PspRotation, KycEnrich

CONSTANTS timer, viewer, forumpay, match2pay, beem, other

VARIABLE schedule  \* the one this behaviour is of

schedulesVars == <<schedule, gateVars, rotationVars, enrichVars>>

\* None, one, as many as leave time in a pass, or one more, are down; any order
\* may be the first, so that which they are is all the same.
DownSets == {{}, {forumpay}, {forumpay, match2pay}, {forumpay, match2pay, beem}}

SchedulesInit ==
    /\ schedule \in {"gate", "rotation", "enrich"}
    /\ GateInit /\ RotationInit /\ EnrichInit
    /\ down \in DownSets
    /\ schedule # "rotation" => order = <<forumpay, match2pay, beem, other>> /\ down = {}

OnGate(A) == schedule = "gate" /\ A /\ UNCHANGED <<schedule, rotationVars, enrichVars>>
OnRotation(A) == schedule = "rotation" /\ A /\ UNCHANGED <<schedule, gateVars, enrichVars>>
OnEnrich(A) == schedule = "enrich" /\ A /\ UNCHANGED <<schedule, gateVars, rotationVars>>

SchedulesNext ==
    \/ OnGate(GateNext)
    \/ OnRotation(RotationNext)
    \/ OnEnrich(EnrichNext)

(* The fairness each module states of itself, and for the enrichment that     *)
(* passes are begun and go on.                                                *)
SchedulesSpec ==
    /\ SchedulesInit /\ [][SchedulesNext]_schedulesVars
    /\ WF_schedulesVars(OnGate(Tick))
    /\ \A t \in Tabs : /\ WF_schedulesVars(OnGate(Ask(t)))
                       /\ WF_schedulesVars(OnGate(Refresh(t)))
    /\ WF_schedulesVars(OnRotation(StartPass)) /\ WF_schedulesVars(OnRotation(SyncAll))
    /\ WF_schedulesVars(OnEnrich(PassBegins)) /\ WF_schedulesVars(OnEnrich(AskRow))

SchedulesTypeOK == GateTypeOK /\ RotationTypeOK /\ EnrichTypeOK

(* While tabs are open the provider is asked again and again, however often a *)
(* run fails, is killed or declines in favour of another tab's.               *)
GateKeepsPolling == schedule = "gate" => KeepsPolling

(* A connection that works is synced again and again, by a pass or by hand    *)
(* (psp-sync.service.ts:136), if those that do not answer leave time for it.  *)
RotationStarvesNone == schedule = "rotation" => NoneStarves

TwoTabs == {timer, viewer}
Four == {forumpay, match2pay, beem, other}
=============================================================================
