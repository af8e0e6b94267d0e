--------------------------- MODULE Notifications ----------------------------
(***************************************************************************)
(* NotificationsService.record: what the detectors find becomes a row of    *)
(* the feed and, when it is serious, an email.  Every open dashboard and    *)
(* the scheduled sync run it, so passes overlap.                            *)
(*                                                                          *)
(* A stored instant is modelled by its age in ticks, which stops counting   *)
(* at CoolOff + 1.  The host ends a pass after a minute and a tick is hours, *)
(* so none falls within a pass.                                             *)
(***************************************************************************)
EXTENDS Naturals, Sequences, FiniteSets, SequencesExt

CONSTANTS
    Passes,      \* invocations that may run record
    Signatures,  \* conditions the detectors can find
    Serious,     \* those whose severity is in the mail floor
    CoolOff,     \* NOTIFY_COOLOFF_HOURS, in ticks
    MaxRows,     \* bound: notifications ever created
    MaxFaults    \* bound: failed statements, refused mails, killed passes

ASSUME NotifyAssumption ==
    /\ IsFiniteSet(Signatures) /\ Serious \subseteq Signatures
    /\ CoolOff \in Nat \ {0}
    /\ MaxRows \in Nat /\ MaxFaults \in Nat

VARIABLES
    firing,   \* conditions that are true
    rows,     \* the Notification table
    pc,       \* where each pass is, and on which condition
    todo,     \* detections it has still to look at
    found,    \* index of the row it found or created
    raced,    \* ghost: conditions two passes have both found untold
    faults,
    kills     \* passes the host ended

passes == <<pc, todo, found>>
bounds == <<faults, kills>>
vars == <<firing, rows, passes, raced, bounds>>

Age == 0..(CoolOff + 1)
None == "none"
Emails == {"never", "sent", "failed"}   \* emailedAt and emailError

Notification == [signature : Signatures, created : Age, seen : Age, email : Emails]

TypeOK ==
    /\ firing \subseteq Signatures
    /\ rows \in Seq(Notification) /\ Len(rows) <= MaxRows
    /\ pc \in [Passes -> {"idle", "find", "refresh", "create", "mail", "sent", "refused"}]
    /\ todo \in [Passes -> Seq(Signatures)]
    /\ \A p \in Passes : pc[p] # "idle" => todo[p] # <<>>
    /\ found \in [Passes -> 0..MaxRows]
    /\ raced \subseteq Signatures
    /\ faults \in 0..MaxFaults /\ kills \in 0..MaxFaults

Fault == faults + kills < MaxFaults /\ faults' = faults + 1 /\ UNCHANGED kills
Goto(p, label) == pc' = [pc EXCEPT ![p] = label]
Older(age) == IF age = CoolOff + 1 THEN age ELSE age + 1

\* The condition a pass is handling.
Current(p) == Head(todo[p])

-----------------------------------------------------------------------------
Tick ==
    /\ \A p \in Passes : pc[p] = "idle"
    /\ rows' = [i \in 1..Len(rows) |->
                    [rows[i] EXCEPT !.created = Older(@), !.seen = Older(@)]]
    /\ UNCHANGED <<firing, pc, todo, found, raced, bounds>>

Breaks(s) ==
    /\ s \notin firing
    /\ firing' = firing \cup {s}
    /\ UNCHANGED <<rows, passes, raced, bounds>>

Recovers(s) ==
    /\ s \in firing
    /\ firing' = firing \ {s}
    /\ UNCHANGED <<rows, passes, raced, bounds>>

\* The detections are handed over.
Begin(p) ==
    /\ pc[p] = "idle"
    /\ firing # {}
    /\ \E order \in SetToSeqs(firing) : todo' = [todo EXCEPT ![p] = order]
    /\ Goto(p, "find")
    /\ UNCHANGED <<firing, rows, found, raced, bounds>>

\* The detection is done with: on to the next one, or the pass is over.
NextDetection(p) ==
    /\ todo' = [todo EXCEPT ![p] = Tail(@)]
    /\ found' = [found EXCEPT ![p] = 0]
    /\ Goto(p, IF Len(todo[p]) = 1 THEN "idle" ELSE "find")

\* Seeded fault: the boundary of the cool-off is left out.
SeenWithin(i) == rows[i].seen < CoolOff

\* lastSeenAt >= now - coolOff.
SeenRecently(i) == rows[i].seen <= CoolOff

\* Seeded fault: any notification counts, whatever it is about.
RecentAny(p) == {i \in 1..Len(rows) : SeenRecently(i)}

Recent(p) == {i \in 1..Len(rows) : rows[i].signature = Current(p) /\ SeenRecently(i)}

\* findFirst, the most recently seen first.
Find(p) ==
    /\ pc[p] = "find"
    /\ \/ /\ Recent(p) = {}
          /\ Goto(p, "create")
          /\ raced' = raced \cup
                {s \in {Current(p)} :
                    \E q \in Passes \ {p} : pc[q] = "create" /\ Current(q) = s}
          /\ UNCHANGED found
       \/ \E i \in Recent(p) :
          /\ \A j \in Recent(p) : rows[i].seen <= rows[j].seen
          /\ found' = [found EXCEPT ![p] = i]
          /\ Goto(p, "refresh")
          /\ UNCHANGED raced
    /\ UNCHANGED <<firing, rows, todo, bounds>>

\* Still true, already told: move the clock, say nothing.
Refresh(p) ==
    /\ pc[p] = "refresh"
    /\ rows' = [rows EXCEPT ![found[p]].seen = 0]
    /\ NextDetection(p)
    /\ UNCHANGED <<firing, raced, bounds>>

NewRow(s) == [signature |-> s, created |-> 0, seen |-> 0, email |-> "never"]

Create(p) ==
    /\ pc[p] = "create"
    /\ Len(rows) < MaxRows
    /\ rows' = Append(rows, NewRow(Current(p)))
    /\ IF Current(p) \in Serious
       THEN /\ found' = [found EXCEPT ![p] = Len(rows) + 1]
            /\ Goto(p, "mail")
            /\ UNCHANGED todo
       ELSE NextDetection(p)
    /\ UNCHANGED <<firing, raced, bounds>>

\* sendMail never throws: it says whether it sent.
Mail(p) ==
    /\ pc[p] = "mail"
    /\ \/ Goto(p, "sent") /\ UNCHANGED bounds
       \/ Goto(p, "refused") /\ Fault
    /\ UNCHANGED <<firing, rows, todo, found, raced>>

RecordMail(p) ==
    /\ pc[p] \in {"sent", "refused"}
    /\ rows' = [rows EXCEPT ![found[p]].email = IF pc[p] = "sent" THEN "sent" ELSE "failed"]
    /\ NextDetection(p)
    /\ UNCHANGED <<firing, raced, bounds>>

\* A statement throws: logged, and the next detection is looked at.
Throw(p) ==
    /\ pc[p] \notin {"idle", "mail"}
    /\ Fault
    /\ NextDetection(p)
    /\ UNCHANGED <<firing, rows, raced>>

\* The host ends the invocation.
Killed(p) ==
    /\ pc[p] # "idle"
    /\ faults + kills < MaxFaults
    /\ kills' = kills + 1
    /\ Goto(p, "idle")
    /\ todo' = [todo EXCEPT ![p] = <<>>]
    /\ found' = [found EXCEPT ![p] = 0]
    /\ UNCHANGED <<firing, rows, raced, faults>>

-----------------------------------------------------------------------------
Init ==
    /\ firing = {} /\ rows = <<>>
    /\ pc = [p \in Passes |-> "idle"]
    /\ todo = [p \in Passes |-> <<>>]
    /\ found = [p \in Passes |-> 0]
    /\ raced = {}
    /\ faults = 0 /\ kills = 0

Record(p) == Find(p) \/ Refresh(p) \/ Create(p) \/ Mail(p) \/ RecordMail(p)

Next ==
    \/ Tick
    \/ \E s \in Signatures : Breaks(s) \/ Recovers(s)
    \/ \E p \in Passes : Begin(p) \/ Record(p) \/ Throw(p) \/ Killed(p)

Spec == Init /\ [][Next]_vars

\* Dashboards keep asking for a pass, and one under way goes on.
FairSpec == Spec /\ \A p \in Passes : WF_vars(Begin(p)) /\ WF_vars(Record(p))

-----------------------------------------------------------------------------
(* What the feed promises.                                                  *)

Told(s) == {i \in 1..Len(rows) : rows[i].signature = s}

\* notifications.controller.ts:48: "a condition already reported inside the
\* cool-off moves a timestamp and sends nothing".  No condition gets a row
\* within one cool-off of another, unless two passes looked before either had
\* created one.
OncePerCoolOff ==
    [][\A s \in Signatures \ raced :
        Cardinality(Told(s)') > Cardinality(Told(s)) =>
            \A i \in Told(s) : rows[i].created > CoolOff]_vars

\* A condition that stays true gets a row, whatever else has one and however
\* often its handling failed (while the bound on rows is not reached).
FiringIsTold ==
    \A s \in Signatures :
        s \in firing ~> (s \notin firing \/ Told(s) # {} \/ Len(rows) = MaxRows)

\* notifications.service.ts:38: the cool-off is "short enough that something
\* still broken tomorrow morning says so".  A condition is passed over only
\* when the desk was told of it within the cool-off.
StillBrokenSaysSo ==
    [][\A p \in Passes :
        pc[p] = "refresh" /\ pc'[p] # "refresh" /\ faults' = faults =>
            \E i \in Told(Current(p)) : rows[i].created <= CoolOff]_vars

-----------------------------------------------------------------------------
(* What keeps OncePerCoolOff.                                               *)

\* A pass about to create a row found none of the condition's within the
\* cool-off, and none was created since, unless two looked.
FoundUntold(p) ==
    pc[p] = "create" /\ Current(p) \notin raced =>
        \A i \in Told(Current(p)) : rows[i].created > CoolOff

NotifyInv ==
    /\ TypeOK
    /\ \A i \in 1..Len(rows) : rows[i].seen <= rows[i].created
    /\ \A p \in Passes : FoundUntold(p)
    /\ \A p, q \in Passes :
          p # q /\ pc[p] = "create" /\ pc[q] = "create" /\ Current(p) = Current(q) =>
              Current(p) \in raced
=============================================================================
