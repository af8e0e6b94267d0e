------------------------------ MODULE Incidents ------------------------------
(***************************************************************************)
(* Declaring an incident and moving it on (ModulesService).  A declaration   *)
(* from a live detection is an upsert by signature, so the same condition    *)
(* declared again reopens the incident; an update reads the row and writes   *)
(* its columns and the whole timeline back, without a transaction.           *)
(*                                                                          *)
(* A note and a resolution each add a line to the timeline: one kind of      *)
(* line here.  Severity, impact, root cause and evidence decide nothing.     *)
(***************************************************************************)
EXTENDS Naturals, Sequences, SequencesExt

CONSTANTS
    Conditions,   \* signatures; an incident declared without one is never declared again
    Statuses,     \* IncidentStatus
    Editors,      \* requests under way at one time
    MaxLines      \* bound: updates that get as far as the write

Done == {"RESOLVED", "CLOSED"}

NoStatus == "none"

ASSUME StatusAssumption ==
    /\ Done \cup {"OPEN"} \subseteq Statuses
    /\ {NoStatus, "declared", "note"} \cap Statuses = {}
    /\ MaxLines \in Nat

VARIABLES
    incidents,   \* the Incident table, by signature
    editing,     \* where each update is, and its locals
    clock,       \* the time: every update that is answered took one of its own
    answered,    \* ghost: the lines each incident's updates were told are in
    doneSince    \* ghost: when each incident last became resolved or closed

incidentVars == <<incidents, editing, clock, answered, doneSince>>

Undeclared == [declared |-> FALSE, status |-> "OPEN", resolvedAt |-> 0,
               timeline |-> <<>>, raced |-> FALSE, reopened |-> FALSE]

(* What an update reads of a row. *)
Columns(row) == [status |-> row.status, resolvedAt |-> row.resolvedAt,
                 timeline |-> row.timeline]

NotEditing == [pc |-> "idle", incident |-> NoStatus, status |-> NoStatus, note |-> FALSE,
               seen |-> Columns(Undeclared)]

Line == [at : 0..MaxLines, says : Statuses \cup {"declared", "note"}]

Incident == [declared : BOOLEAN, status : Statuses, resolvedAt : 0..MaxLines,
             timeline : Seq(Line), raced : BOOLEAN, reopened : BOOLEAN]

IncidentsTypeOK ==
    /\ incidents \in [Conditions -> Incident]
    /\ editing \in [Editors ->
         [pc : {"idle", "write"}, incident : Conditions \cup {NoStatus},
          status : Statuses \cup {NoStatus}, note : BOOLEAN,
          seen : [status : Statuses, resolvedAt : 0..MaxLines, timeline : Seq(Line)]]]
    /\ clock \in 0..MaxLines
    /\ answered \in [Conditions -> SUBSET Line]
    /\ doneSince \in [Conditions -> 0..MaxLines]

IncidentsInit ==
    /\ incidents = [i \in Conditions |-> Undeclared]
    /\ editing = [e \in Editors |-> NotEditing]
    /\ clock = 0
    /\ answered = [i \in Conditions |-> {}]
    /\ doneSince = [i \in Conditions |-> 0]

EditGoes(e, locals) == editing' = [editing EXCEPT ![e] = locals]

(* declareIncident: the upsert is one statement.  Its update part touches    *)
(* the status and resolvedAt only: the evidence and the timeline stay.       *)
Created == [Undeclared EXCEPT !.declared = TRUE,
                              !.timeline = <<[at |-> clock, says |-> "declared"]>>]

\* Seeded fault: a declaration writes the whole row anew.
ReopenedAfresh(row) == Created

Reopened(row) == [row EXCEPT !.status = "OPEN", !.resolvedAt = 0,
                             !.reopened = @ \/ row.status # "OPEN"]

Declare(i) ==
    /\ incidents' = [incidents EXCEPT ![i] =
                       IF @.declared THEN Reopened(@) ELSE Created]
    /\ UNCHANGED <<editing, clock, answered, doneSince>>

(* updateIncident: a body with a status, a line to add, or both ...          *)
ReadIncident(e, i, status, note) ==
    /\ editing[e].pc = "idle"
    /\ incidents[i].declared
    /\ status # NoStatus \/ note
    /\ EditGoes(e, [pc |-> "write", incident |-> i, status |-> status, note |-> note,
                    seen |-> Columns(incidents[i])])
    /\ UNCHANGED <<incidents, clock, answered, doneSince>>

(* ... adds a line for a status that differs from the one it read, and one   *)
(* for the note, ...                                                         *)
Added(edit, at) ==
    (IF edit.status \notin {NoStatus, edit.seen.status}
     THEN <<[at |-> at, says |-> edit.status]>> ELSE <<>>)
    \o (IF edit.note THEN <<[at |-> at, says |-> "note"]>> ELSE <<>>)

\* Seeded fault: every edit of a resolved incident moves the time.
ResolvedAtEachTime(edit, row, at) ==
    IF edit.status \in Done THEN at
    ELSE IF edit.status # NoStatus THEN 0 ELSE row.resolvedAt

(* ... keeps the time an incident was first resolved, ...                    *)
ResolvedAt(edit, row, at) ==
    IF edit.status \in Done
    THEN IF edit.seen.resolvedAt # 0 THEN edit.seen.resolvedAt ELSE at
    ELSE IF edit.status # NoStatus THEN 0 ELSE row.resolvedAt

(* ... and writes the timeline it read, extended.                            *)
WrittenBack(edit, row, at) ==
    [row EXCEPT !.status = IF edit.status = NoStatus THEN @ ELSE edit.status,
                !.resolvedAt = ResolvedAt(edit, row, at),
                !.timeline = edit.seen.timeline \o Added(edit, at),
                !.raced = @ \/ Columns(row) # edit.seen,
                !.reopened = @ /\ edit.status \in {NoStatus, edit.seen.status}]

WriteIncident(e) ==
    LET edit == editing[e]
        i    == edit.incident
        at   == clock + 1
        next == WrittenBack(edit, incidents[i], at)
    IN  /\ edit.pc = "write"
        /\ clock < MaxLines
        /\ clock' = at
        /\ incidents' = [incidents EXCEPT ![i] = next]
        /\ answered' = [answered EXCEPT ![i] = @ \cup ToSet(Added(edit, at))]
        /\ doneSince' = [doneSince EXCEPT ![i] =
             IF next.status \in Done
             THEN IF incidents[i].status \in Done THEN @ ELSE at
             ELSE @]
        /\ EditGoes(e, NotEditing)

(* The write fails, or the host is stopped before it.                        *)
EditFails(e) ==
    /\ editing[e].pc # "idle"
    /\ EditGoes(e, NotEditing)
    /\ UNCHANGED <<incidents, clock, answered, doneSince>>

IncidentsNext ==
    \/ \E i \in Conditions : Declare(i)
    \/ \E e \in Editors :
        \/ \E i \in Conditions, status \in Statuses \cup {NoStatus}, note \in BOOLEAN :
              ReadIncident(e, i, status, note)
        \/ WriteIncident(e)
        \/ EditFails(e)

IncidentsSpec == IncidentsInit /\ [][IncidentsNext]_incidentVars

-----------------------------------------------------------------------------
(* The lines of a timeline that tell a status, and the last status told:     *)
(* an incident is open until a line says otherwise.                          *)
Tells(timeline) == {k \in DOMAIN timeline : timeline[k].says \in Statuses}

LastTold(timeline, status) ==
    IF Tells(timeline) = {} THEN status = "OPEN"
    ELSE \E k \in Tells(timeline) :
            /\ \A j \in Tells(timeline) : j <= k
            /\ timeline[k].says = status

(* The timeline is the incident's story (schema.prisma:637): as long as no   *)
(* update was written over another one, every line an update was answered    *)
(* for is in it, and the last status it tells is the one the incident has,   *)
(* but for a reopening, which tells nothing (modules.service.ts:2712).       *)
TimelineWhole ==
    \A i \in Conditions :
        LET row == incidents[i]
        IN  row.declared /\ ~row.raced =>
              /\ answered[i] \subseteq ToSet(row.timeline)
              /\ ~row.reopened => LastTold(row.timeline, row.status)

(* An incident has a time of resolution exactly when it is resolved or       *)
(* closed, however updates and reopenings overlap; and if none was written   *)
(* over another, it is the time it became so, not that of a later edit       *)
(* (modules.service.ts:2707).                                                *)
ResolvedAtIsTrue ==
    \A i \in Conditions :
        LET row == incidents[i]
        IN  /\ row.resolvedAt # 0 <=> row.status \in Done
            /\ row.status \in Done /\ ~row.raced => row.resolvedAt = doneSince[i]

(* Besides the two: nothing is answered for an incident that is not          *)
(* declared, and what is about to be written was read of one that is.        *)
IncidentsInv ==
    /\ IncidentsTypeOK
    /\ TimelineWhole
    /\ ResolvedAtIsTrue
    /\ \A i \in Conditions : ~incidents[i].declared => answered[i] = {}
    /\ \A e \in Editors : editing[e].pc = "write" =>
         editing[e].incident \in Conditions /\ incidents[editing[e].incident].declared
=============================================================================
