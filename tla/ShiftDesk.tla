------------------------------ MODULE ShiftDesk ------------------------------
(***************************************************************************)
(* ShiftsService: one shift at a time is opened, worked and handed over, and *)
(* each handover is filed under an ops day with a number (ops-day.ts).       *)
(* Several people's requests run at once, and none of them holds a           *)
(* transaction: each await is a boundary between two actions.                *)
(*                                                                          *)
(* Time is counted in ticks since an ops-day rollover; a tick is hours, so   *)
(* none falls within a request.  The three statuses a task is open in        *)
(* (Pending, In Progress, Blocked) are one here.                             *)
(***************************************************************************)
EXTENDS Naturals, Sequences, FiniteSets, FiniteSetsExt

CONSTANTS
    Agents,         \* people signed in, each with one request at a time
    Managers,       \* those whose role may close over open tasks
    Nobody,         \* no assignee, not signed
    TicksPerDay,    \* length of an ops day
    HandoverSlots,  \* HANDOVER_SLOTS, in ticks into the ops day
    Templates,      \* number of library tasks copied into a shift
    MaxTime,        \* bound: ticks
    MaxShifts,      \* bound: shifts opened
    MaxTasks,       \* bound: tasks there are when one is added
    MaxEnds,        \* bound: requests that get as far as ending a shift
    MaxTaskRequests \* bound: requests that get as far as adding or changing a task

ASSUME DeskAssumption ==
    /\ Managers \subseteq Agents
    /\ Nobody \notin Agents
    /\ TicksPerDay \in Nat \ {0}
    /\ HandoverSlots \in Seq(0..(TicksPerDay - 1)) \ {<<>>}
    /\ {Templates, MaxTime} \subseteq Nat

VARIABLES
    now,      \* the time
    shifts,   \* the Shift table, in the order of startedAt
    tasks,    \* the ShiftTask table
    request,  \* where each person's request is, and its locals
    stamps,   \* endedAt values taken so far, in order
    taskRequests, \* requests about tasks so far
    starting, \* ghost: two requests to start were under way at once
    ending    \* ghost: two requests to end were

desk == <<shifts, tasks>>
counts == <<stamps, taskRequests>>
ghosts == <<starting, ending>>
vars == <<now, desk, request, counts, ghosts>>

NoTask == [shift |-> 0, assignee |-> Nobody, open |-> FALSE, by |-> Nobody]

Idle == [pc |-> "idle", shift |-> 0, read |-> 0, stamp |-> 0, slot |-> 0,
         task |-> 0, next |-> NoTask, changed |-> {}]

Shift == [open : BOOLEAN, day : Nat, slot : Nat, endedAt : Nat,
          endedBy : Agents \cup {Nobody}, readHandoverOf : Nat]

Job == [shift : Nat, assignee : Agents \cup {Nobody}, open : BOOLEAN,
        by : Agents \cup {Nobody}]

Request == [pc : {"idle", "previous", "create", "slots", "write", "add", "update"},
            shift : Nat, read : Nat, stamp : Nat, slot : Nat, task : Nat,
            next : Job, changed : SUBSET Nat]

TypeOK ==
    /\ now \in 0..MaxTime
    /\ shifts \in Seq(Shift)
    /\ tasks \in Seq(Job)
    /\ request \in [Agents -> Request]
    /\ stamps \in Nat
    /\ taskRequests \in Nat
    /\ \A a \in Agents :
        /\ request[a].pc \in {"slots", "write", "add"} => request[a].shift \in 1..Len(shifts)
        /\ request[a].pc = "update" => request[a].task \in 1..Len(tasks)

Begin(a, locals) == request' = [request EXCEPT ![a] = locals]
Leave(a) == request' = [request EXCEPT ![a] = Idle]

Tick ==
    /\ now < MaxTime
    /\ \A a \in Agents : request[a].pc = "idle"
    /\ now' = now + 1
    /\ UNCHANGED <<desk, request, counts, ghosts>>

-----------------------------------------------------------------------------
(* ops-day.ts.                                                              *)

\* The day breaks at the rollover hour, not at midnight.
OpsDay(t) == t \div TicksPerDay

\* Circular distance: ten to midnight is ten minutes from a midnight handover.
Distance(t, slot) ==
    LET rel == t % TicksPerDay
        raw == IF rel < slot THEN slot - rel ELSE rel - slot
    IN Min({raw, TicksPerDay - raw})

\* The first of the nearest configured handovers, numbered from 1.
SlotFromClock(t) ==
    Min({i \in DOMAIN HandoverSlots :
            \A j \in DOMAIN HandoverSlots :
                Distance(t, HandoverSlots[i]) <= Distance(t, HandoverSlots[j])})

\* Seeded fault: every handover is numbered from the clock.
ClockSlot(t, used) == SlotFromClock(t)

\* Only the first handover of a day looks at the clock.
NextSlot(t, used) == IF used = {} THEN SlotFromClock(t) ELSE Max(used) + 1

-----------------------------------------------------------------------------
(* Starting a shift.                                                        *)

Open == {s \in 1..Len(shifts) : shifts[s].open}
Ended == {s \in 1..Len(shifts) : ~shifts[s].open}

\* The last shift to have ended, 0 when there is none.
Previous ==
    IF Ended = {} THEN 0
    ELSE Max({s \in Ended : \A e \in Ended : shifts[e].endedAt <= shifts[s].endedAt})

\* Seeded fault: nothing is looked at before a shift is opened.
StartBlind(a) ==
    /\ request[a].pc = "idle"
    /\ Len(shifts) < MaxShifts
    /\ Begin(a, [Idle EXCEPT !.pc = "previous"])
    /\ starting' = (starting \/ \E b \in Agents : request[b].pc \in {"previous", "create"})
    /\ UNCHANGED <<now, desk, counts, ending>>

\* Nothing happens while a shift is open.
StartLooks(a) ==
    /\ request[a].pc = "idle"
    /\ Len(shifts) < MaxShifts
    /\ Open = {}
    /\ Begin(a, [Idle EXCEPT !.pc = "previous"])
    /\ starting' = (starting \/ \E b \in Agents : request[b].pc \in {"previous", "create"})
    /\ UNCHANGED <<now, desk, counts, ending>>

\* Seeded fault: the receipt is taken at the caller's word.
StartBelieves(a) ==
    /\ request[a].pc = "previous"
    /\ \E claimed \in 0..(Len(shifts) + 1) :
        Begin(a, [request[a] EXCEPT !.pc = "create", !.read = claimed])
    /\ UNCHANGED <<now, desk, counts, ghosts>>

\* The handover the opener claims to have read counts only if it is the last.
StartReadsPrevious(a) ==
    /\ request[a].pc = "previous"
    /\ \E claimed \in 0..(Len(shifts) + 1) :
        Begin(a, [request[a] EXCEPT
            !.pc = "create", !.read = IF claimed = Previous THEN claimed ELSE 0])
    /\ UNCHANGED <<now, desk, counts, ghosts>>

NewShift(read) ==
    [open |-> TRUE, day |-> 0, slot |-> 0, endedAt |-> 0, endedBy |-> Nobody,
     readHandoverOf |-> read]

\* The shift, its first participant and a copy of the library's tasks.
StartCreates(a) ==
    /\ request[a].pc = "create"
    /\ Len(shifts) < MaxShifts
    /\ shifts' = Append(shifts, NewShift(request[a].read))
    /\ \E n \in 0..Templates :
        /\ Len(tasks) + n <= MaxTasks
        /\ tasks' = tasks \o [i \in 1..n |->
                        [NoTask EXCEPT !.shift = Len(shifts) + 1, !.open = TRUE]]
    /\ Leave(a)
    /\ UNCHANGED <<now, counts, ghosts>>

-----------------------------------------------------------------------------
(* Ending it.                                                               *)

Mine(a, s) == {t \in 1..Len(tasks) :
                   tasks[t].shift = s /\ tasks[t].assignee = a /\ tasks[t].open}

\* Seeded fault: whoever forces it may close over open tasks.
MayEndForced(a, s) == \E force \in BOOLEAN : Mine(a, s) = {} \/ force

\* Own tasks still open: a manager may force it, nobody else.
MayEnd(a, s) == \E force \in BOOLEAN : Mine(a, s) = {} \/ (force /\ a \in Managers)

\* The shift is any that is open.
EndLooks(a) ==
    /\ request[a].pc = "idle"
    /\ stamps < MaxEnds
    /\ stamps' = stamps + 1
    /\ \E s \in Open :
        /\ MayEnd(a, s)
        /\ Begin(a, [Idle EXCEPT !.pc = "slots", !.shift = s, !.stamp = stamps + 1])
    /\ ending' = (ending \/ \E b \in Agents : request[b].pc \in {"slots", "write"})
    /\ UNCHANGED <<now, desk, taskRequests, starting>>

\* Positions this ops day has used.
UsedSlots(day) == {shifts[s].slot : s \in {e \in Ended : shifts[e].day = day}}

EndReadsSlots(a) ==
    /\ request[a].pc = "slots"
    /\ Begin(a, [request[a] EXCEPT
            !.pc = "write", !.slot = NextSlot(now, UsedSlots(OpsDay(now)))])
    /\ UNCHANGED <<now, desk, counts, ghosts>>

\* By id, whatever has become of the shift since.
EndWrites(a) ==
    /\ request[a].pc = "write"
    /\ shifts' = [shifts EXCEPT ![request[a].shift] =
            [@ EXCEPT !.open = FALSE, !.day = OpsDay(now), !.slot = request[a].slot,
                      !.endedAt = request[a].stamp, !.endedBy = a]]
    /\ Leave(a)
    /\ UNCHANGED <<now, tasks, counts, ghosts>>

-----------------------------------------------------------------------------
(* Its tasks.                                                               *)

\* The task changes, and requests that have looked at it go on regardless.
Touch(a, t) ==
    request' = [b \in Agents |->
        CASE b = a -> Idle
          [] b # a /\ request[b].pc \in {"slots", "write"} ->
                [request[b] EXCEPT !.changed = @ \cup {t}]
          [] OTHER -> request[b]]

\* Each request about a task spends one of MaxTaskRequests.
AboutTasks ==
    /\ taskRequests < MaxTaskRequests
    /\ taskRequests' = taskRequests + 1
    /\ UNCHANGED <<now, desk, stamps, ghosts>>

AddTaskLooks(a) ==
    /\ request[a].pc = "idle"
    /\ AboutTasks
    /\ Len(tasks) < MaxTasks
    /\ \E s \in Open : Begin(a, [Idle EXCEPT !.pc = "add", !.shift = s])

AddTaskCreates(a) ==
    /\ request[a].pc = "add"
    /\ Len(tasks) < MaxTasks
    /\ \E to \in Agents :
        tasks' = Append(tasks, [shift |-> request[a].shift, assignee |-> to,
                                open |-> TRUE, by |-> Nobody])
    /\ Touch(a, Len(tasks) + 1)
    /\ UNCHANGED <<now, shifts, counts, ghosts>>

\* Seeded fault: the signature is only read from the task.
Unsigned(task, a, done) == task.by

Signed(task, a, done) == IF done THEN a ELSE task.by

\* The task is read, on whichever shift it is, and what the body leaves out is
\* taken from it.
UpdateTaskReads(a) ==
    /\ request[a].pc = "idle"
    /\ AboutTasks
    /\ \E t \in 1..Len(tasks), body \in {"keep", "open", "done"} :
       \E to \in {tasks[t].assignee, a, Nobody} :
        Begin(a, [Idle EXCEPT
            !.pc = "update", !.task = t,
            !.next = [tasks[t] EXCEPT
                !.open = (body = "open" \/ (body = "keep" /\ @)),
                !.assignee = to,
                !.by = Signed(tasks[t], a, body = "done")]])

UpdateTaskWrites(a) ==
    /\ request[a].pc = "update"
    /\ tasks' = [tasks EXCEPT ![request[a].task] = request[a].next]
    /\ Touch(a, request[a].task)
    /\ UNCHANGED <<now, shifts, counts, ghosts>>

\* Some request always is: a start while a shift is open, an end or a new task
\* while none is.
Refused(a) ==
    /\ request[a].pc = "idle"
    /\ UNCHANGED vars

\* A statement fails or the host ends the request: nothing is undone.
Abandon(a) ==
    /\ request[a].pc # "idle"
    /\ Leave(a)
    /\ UNCHANGED <<now, desk, counts, ghosts>>

-----------------------------------------------------------------------------
Init ==
    /\ now = 0
    /\ shifts = <<>> /\ tasks = <<>>
    /\ request = [a \in Agents |-> Idle]
    /\ stamps = 0 /\ taskRequests = 0
    /\ starting = FALSE /\ ending = FALSE

Start(a) == StartLooks(a) \/ StartReadsPrevious(a) \/ StartCreates(a)
End(a) == EndLooks(a) \/ EndReadsSlots(a) \/ EndWrites(a)
Task(a) ==
    \/ AddTaskLooks(a) \/ AddTaskCreates(a)
    \/ UpdateTaskReads(a) \/ UpdateTaskWrites(a)

Next == Tick \/ \E a \in Agents : Start(a) \/ End(a) \/ Task(a)
                            \/ Refused(a) \/ Abandon(a)

Spec == Init /\ [][Next]_vars

-----------------------------------------------------------------------------
(* What the desk promises.                                                  *)

\* shifts.service.ts:316, "there is one desk, so there is one shift": while
\* requests to start do not overlap, whatever ends, dies or lingers in between,
\* two shifts are never open.
OneShiftOpen == ~starting => Cardinality(Open) <= 1

\* ops-day.ts:20, "every handover after the first is the previous number plus
\* one": in the order of their handovers the shifts of an ops day have numbers
\* that follow each other, while requests to end do not overlap.
NumbersFollow ==
    ~ending => \A s \in Ended : \A e \in Ended \ {s} :
        /\ shifts[s].day = shifts[e].day /\ shifts[s].endedAt < shifts[e].endedAt
        /\ \A m \in Ended : shifts[m].day = shifts[s].day =>
                ~(shifts[s].endedAt < shifts[m].endedAt
                    /\ shifts[m].endedAt < shifts[e].endedAt)
        => shifts[e].slot = shifts[s].slot + 1

\* shifts.service.ts:327, "the acknowledgement is only recorded if it is true":
\* the handover a shift's opener has read is that of the last shift to end
\* before it was opened, while requests to start do not overlap.
ReceiptIsTrue ==
    [][\A s \in 1..Len(shifts') :
        s > Len(shifts) /\ ~starting /\ shifts'[s].readHandoverOf # 0
            => shifts'[s].readHandoverOf = Previous]_vars

\* shifts.service.ts:396: a shift is closed over its closer's own open tasks
\* only by a manager, or when the task was changed while it was being closed.
ClosedOverNothing ==
    [][\A a \in Agents \ Managers :
        request[a].pc = "write" /\ shifts' # shifts =>
            \A t \in 1..Len(tasks) :
                tasks[t].shift = request[a].shift /\ tasks[t].assignee = a /\ tasks[t].open
                    => t \in request[a].changed \/ request'[a].pc = "write"]_vars

\* shifts.service.ts:881, "who ticked this?": a task that is done names who did
\* it, however the reads and writes of its updates cross.
DoneIsSigned == \A t \in 1..Len(tasks) : tasks[t].open \/ tasks[t].by # Nobody

-----------------------------------------------------------------------------
(* Why it keeps them: what holds between the steps of a request.             *)

IsStarting(a) == request[a].pc \in {"previous", "create"}
IsEnding(a) == request[a].pc \in {"slots", "write"}

\* The stamps a shift has, or may still get.
StampsOf(s) ==
    (IF s \in Ended THEN {shifts[s].endedAt} ELSE {})
        \cup {request[a].stamp : a \in {b \in Agents : IsEnding(b) /\ request[b].shift = s}}

\* Every stamp has been taken; and while requests to start do not overlap there
\* is at most one of them, it finds no shift open, only the newest shift ever
\* is, and a shift is stamped after all those before it: so the last to have
\* ended is the newest, whichever request ends it again.
StartInv ==
    /\ \A s \in 1..Len(shifts) : \A x \in StampsOf(s) : x <= stamps
    /\ ~starting =>
        /\ \A a \in Agents, b \in Agents : IsStarting(a) /\ IsStarting(b) => a = b
        /\ \A a \in Agents : IsStarting(a) => Open = {}
        /\ \A s \in Open : s = Len(shifts)
        /\ \A s \in 1..Len(shifts), t \in 1..Len(shifts) : s < t =>
             \A x \in StampsOf(s), y \in StampsOf(t) : x < y
        /\ \A a \in Agents : request[a].pc = "create" =>
             request[a].read \in {0, Len(shifts)}

\* While requests to end do not overlap there is at most one of them, for an
\* open shift, with the latest stamp; and on each ops day the numbers rise with
\* the stamps.
EndInv ==
    /\ \A s \in Ended : shifts[s].endedAt <= stamps
    /\ \A a \in Agents : IsEnding(a) => request[a].stamp <= stamps
    /\ NumbersFollow
    /\ ~ending =>
        /\ \A a \in Agents, b \in Agents : IsEnding(a) /\ IsEnding(b) => a = b
        /\ \A a \in Agents : IsEnding(a) =>
             /\ request[a].shift \in Open
             /\ \A s \in Ended : shifts[s].endedAt < request[a].stamp
        /\ \A a \in Agents : request[a].pc = "write" =>
             request[a].slot = NextSlot(now, UsedSlots(OpsDay(now)))
        /\ \A s \in Ended, e \in Ended :
             /\ shifts[s].endedAt = shifts[e].endedAt => s = e
             /\ shifts[s].day = shifts[e].day /\ shifts[s].endedAt < shifts[e].endedAt
                  => shifts[s].slot < shifts[e].slot

\* What an update is about to write is signed if it is done.
SignedInv ==
    /\ DoneIsSigned
    /\ \A a \in Agents : request[a].pc = "update" =>
         request[a].next.open \/ request[a].next.by # Nobody

\* A closer who may not force it has no open task of the shift, but those that
\* changed since it was read.
ClosingInv ==
    \A a \in Agents \ Managers : IsEnding(a) =>
        Mine(a, request[a].shift) \subseteq request[a].changed
=============================================================================
