--------------------------- MODULE ShiftDeskProofs ---------------------------
(***************************************************************************)
(* Proofs about ShiftDesk, for any number of people, shifts and tasks.       *)
(*                                                                          *)
(* The invariant has a part for each thing the desk promises: StartInv for   *)
(* who opens a shift and what was read before, EndInv for the numbers of the *)
(* handovers, SignedInv and ClosingInv for the tasks.  Each part is disturbed *)
(* by a few steps only; a lemma says once that the others leave it alone.    *)
(***************************************************************************)
EXTENDS ShiftDesk, SetLemmas, SequenceTheorems

-----------------------------------------------------------------------------
(* What the steps do to the tables.                                          *)

LEMMA IdleTyped == Idle \in Request /\ Idle.pc = "idle"
BY DEF Idle, NoTask, Request, Job

LEMMA RequestMoves ==
    ASSUME TypeOK, NEW a \in Agents, NEW r \in Request,
           request' = [request EXCEPT ![a] = r]
    PROVE  /\ request' \in [Agents -> Request]
           /\ \A b \in Agents : request'[b] = IF b = a THEN r ELSE request[b]
BY DEF TypeOK

LEMMA TablesTyped ==
    ASSUME TypeOK
    PROVE  /\ shifts \in Seq(Shift) /\ Len(shifts) \in Nat
           /\ \A s \in 1..Len(shifts) : shifts[s] \in Shift
           /\ tasks \in Seq(Job) /\ Len(tasks) \in Nat
           /\ \A t \in 1..Len(tasks) : tasks[t] \in Job
           /\ request \in [Agents -> Request]
           /\ now \in Nat /\ stamps \in Nat
BY DeskAssumption, LenProperties, ElementOfSeq DEF TypeOK

LEMMA ShiftCreated ==
    ASSUME TypeOK, NEW a \in Agents, StartCreates(a)
    PROVE  /\ shifts' \in Seq(Shift) /\ Len(shifts') = Len(shifts) + 1
           /\ \A s \in 1..Len(shifts) : shifts'[s] = shifts[s]
           /\ shifts'[Len(shifts) + 1] = NewShift(request[a].read)
           /\ tasks' \in Seq(Job) /\ Len(tasks') \in Nat /\ Len(tasks') >= Len(tasks)
           /\ \A t \in 1..Len(tasks) : tasks'[t] = tasks[t]
           /\ \A t \in 1..Len(tasks') : t > Len(tasks) =>
                tasks'[t].open /\ tasks'[t].assignee = Nobody
<1>1. NewShift(request[a].read) \in Shift
  BY TablesTyped DEF NewShift, Shift, Request
<1>2. /\ shifts' \in Seq(Shift) /\ Len(shifts') = Len(shifts) + 1
      /\ \A s \in 1..Len(shifts) : shifts'[s] = shifts[s]
      /\ shifts'[Len(shifts) + 1] = NewShift(request[a].read)
  BY <1>1, TablesTyped, AppendProperties DEF StartCreates
<1> DEFINE job == [NoTask EXCEPT !.shift = Len(shifts) + 1, !.open = TRUE]
           more(n) == [i \in 1..n |-> job]
<1>3. PICK n \in 0..Templates : tasks' = tasks \o more(n)
  BY DEF StartCreates
<1>4. job \in Job /\ job.open /\ job.assignee = Nobody
  <2> DEFINE new == Len(shifts) + 1
  <2>1. new \in Nat
    BY TablesTyped
  <2>2. NoTask \in Job /\ NoTask.assignee = Nobody
    BY DEF NoTask, Job
  <2>3. job = [NoTask EXCEPT !.shift = new, !.open = TRUE]
    OBVIOUS
  <2> HIDE DEF new, job
  <2> QED BY <2>1, <2>2, <2>3 DEF Job
<1> HIDE DEF job
<1>5. more(n) \in Seq(Job) /\ Len(more(n)) = n /\ n \in Nat
  BY <1>4, DeskAssumption
<1>6. \A i \in 1..n : more(n)[i] = job
  OBVIOUS
<1> HIDE DEF more
<1>7. /\ tasks' \in Seq(Job) /\ Len(tasks') = Len(tasks) + n
      /\ \A t \in 1..Len(tasks) + n :
           tasks'[t] = IF t <= Len(tasks) THEN tasks[t] ELSE more(n)[t - Len(tasks)]
  BY <1>3, <1>5, TablesTyped, ConcatProperties
<1>8. \A t \in 1..Len(tasks') : t > Len(tasks) => t - Len(tasks) \in 1..n
  BY <1>5, <1>7, TablesTyped
<1> QED BY <1>2, <1>4, <1>5, <1>6, <1>7, <1>8, TablesTyped

LEMMA ShiftEnded ==
    ASSUME TypeOK, NEW a \in Agents, EndWrites(a)
    PROVE  /\ request[a].pc = "write" /\ request[a].shift \in 1..Len(shifts)
           /\ shifts' \in Seq(Shift) /\ Len(shifts') = Len(shifts)
           /\ \A s \in 1..Len(shifts) : s # request[a].shift => shifts'[s] = shifts[s]
           /\ LET ended == shifts'[request[a].shift]
              IN  /\ ~ended.open /\ ended.day = OpsDay(now)
                  /\ ended.slot = request[a].slot /\ ended.endedAt = request[a].stamp
<1> DEFINE i == request[a].shift
           row == [shifts[i] EXCEPT !.open = FALSE, !.day = OpsDay(now),
                     !.slot = request[a].slot, !.endedAt = request[a].stamp, !.endedBy = a]
<1>1. request[a].pc = "write" /\ i \in 1..Len(shifts) /\ shifts[i] \in Shift
  BY TablesTyped DEF EndWrites, TypeOK
<1>2. OpsDay(now) \in Nat
  <2>1. TicksPerDay \in Nat /\ TicksPerDay > 0
    BY DeskAssumption
  <2> QED BY <2>1, TablesTyped DEF OpsDay
<1>3. request[a].slot \in Nat /\ request[a].stamp \in Nat
  BY TablesTyped DEF Request
<1>4. /\ row \in Shift /\ ~row.open /\ row.day = OpsDay(now)
      /\ row.slot = request[a].slot /\ row.endedAt = request[a].stamp
  BY <1>1, <1>2, <1>3 DEF Shift
<1>5. shifts' = [shifts EXCEPT ![i] = row]
  BY DEF EndWrites
<1> HIDE DEF row, i
<1>6. /\ shifts' \in Seq(Shift) /\ Len(shifts') = Len(shifts)
      /\ \A s \in 1..Len(shifts) : shifts'[s] = IF s = i THEN row ELSE shifts[s]
  BY <1>1, <1>4, <1>5, TablesTyped, ExceptSeq
<1>7. shifts'[i] = row
  BY <1>1, <1>6
<1> QED BY <1>1, <1>4, <1>6, <1>7 DEF i

\* A task is added, or changed, and everybody who is ending a shift has it
\* among the changed ones.
LEMMA TaskTouched ==
    ASSUME TypeOK, NEW a \in Agents, NEW t \in Nat, Touch(a, t)
    PROVE  /\ request' \in [Agents -> Request]
           /\ request'[a] = Idle
           /\ \A b \in Agents \ {a} :
                /\ request'[b] = [request[b] EXCEPT !.changed = request'[b].changed]
                /\ request[b].changed \subseteq request'[b].changed
                /\ IsEnding(b) => t \in request'[b].changed
<1> DEFINE touched(b) == [request[b] EXCEPT !.changed = @ \cup {t}]
<1>1. ASSUME NEW b \in Agents, b # a
      PROVE  request'[b] = IF IsEnding(b) THEN touched(b) ELSE request[b]
  BY <1>1 DEF Touch, IsEnding
<1>2. request'[a] = Idle
  BY DEF Touch
<1>3. ASSUME NEW b \in Agents
      PROVE  touched(b) \in Request /\ touched(b).changed = request[b].changed \cup {t}
  BY TablesTyped DEF Request
<1>4. ASSUME NEW b \in Agents, b # a
      PROVE  /\ request'[b] \in Request
             /\ request'[b] = [request[b] EXCEPT !.changed = request'[b].changed]
             /\ request[b].changed \subseteq request'[b].changed
             /\ IsEnding(b) => t \in request'[b].changed
  <2>1. CASE IsEnding(b)
    <3>1. request'[b] = touched(b)
      BY <1>1, <1>4, <2>1
    <3> QED BY <1>3, <3>1
  <2>2. CASE ~IsEnding(b)
    <3>1. request'[b] = request[b] /\ request[b] \in Request
      BY <1>1, <1>4, <2>2, TablesTyped
    <3> QED BY <2>2, <3>1 DEF Request
  <2> QED BY <2>1, <2>2
<1>5. request' \in [Agents -> Request]
  <2>1. request' = [b \in Agents |-> request'[b]]
    BY DEF Touch
  <2>2. \A b \in Agents : request'[b] \in Request
    BY <1>2, <1>4, IdleTyped
  <2> QED BY <2>1, <2>2
<1> QED BY <1>2, <1>4, <1>5

LEMMA TaskAdded ==
    ASSUME TypeOK, NEW a \in Agents, AddTaskCreates(a)
    PROVE  /\ tasks' \in Seq(Job) /\ Len(tasks') = Len(tasks) + 1
           /\ \A t \in 1..Len(tasks) : tasks'[t] = tasks[t]
           /\ tasks'[Len(tasks) + 1].open
           /\ Touch(a, Len(tasks) + 1) /\ Len(tasks) + 1 \in Nat
           /\ UNCHANGED <<now, shifts, counts, ghosts>>
<1>1. PICK to \in Agents :
        tasks' = Append(tasks, [shift |-> request[a].shift, assignee |-> to,
                                open |-> TRUE, by |-> Nobody])
  BY DEF AddTaskCreates
<1> DEFINE job == [shift |-> request[a].shift, assignee |-> to, open |-> TRUE, by |-> Nobody]
<1>2. job \in Job /\ job.open
  BY TablesTyped DEF Job, Request
<1> HIDE DEF job
<1>3. tasks' = Append(tasks, job)
  BY <1>1 DEF job
<1> QED BY <1>2, <1>3, TablesTyped, AppendProperties DEF AddTaskCreates

LEMMA TaskUpdated ==
    ASSUME TypeOK, NEW a \in Agents, UpdateTaskWrites(a)
    PROVE  /\ request[a].pc = "update" /\ request[a].task \in 1..Len(tasks)
           /\ tasks' \in Seq(Job) /\ Len(tasks') = Len(tasks)
           /\ \A t \in 1..Len(tasks) :
                tasks'[t] = IF t = request[a].task THEN request[a].next ELSE tasks[t]
           /\ Touch(a, request[a].task) /\ request[a].task \in Nat
           /\ UNCHANGED <<now, shifts, counts, ghosts>>
<1>1. request[a].pc = "update" /\ request[a].task \in 1..Len(tasks)
  BY DEF UpdateTaskWrites, TypeOK
<1>2. request[a].next \in Job /\ request[a].task \in Nat
  BY TablesTyped DEF Request
<1> QED BY <1>1, <1>2, TablesTyped, ExceptSeq DEF UpdateTaskWrites

-----------------------------------------------------------------------------
(* Types, and the shift or task each request is about.                       *)

\* A request is about a shift and a task there are, for tables of some length.
RefersTo(r, manyShifts, manyTasks) ==
    /\ r.pc \in {"slots", "write", "add"} => r.shift \in 1..manyShifts
    /\ r.pc = "update" => r.task \in 1..manyTasks

LEMMA Refers ==
    ASSUME TypeOK, NEW a \in Agents
    PROVE  RefersTo(request[a], Len(shifts), Len(tasks))
BY DEF TypeOK, RefersTo

\* A step of one request that leaves the tables alone.
LEMMA TypesKept ==
    ASSUME TypeOK, NEW a \in Agents, NEW r \in Request, Begin(a, r),
           RefersTo(r, Len(shifts), Len(tasks)), desk' = desk,
           now' \in 0..MaxTime, stamps' \in Nat, taskRequests' \in Nat
    PROVE  TypeOK'
<1>1. shifts' = shifts /\ tasks' = tasks
  BY DEF desk
<1>2. /\ request' \in [Agents -> Request]
      /\ \A b \in Agents : request'[b] = IF b = a THEN r ELSE request[b]
  BY RequestMoves DEF Begin
<1>3. \A b \in Agents : RefersTo(request'[b], Len(shifts), Len(tasks))
  BY <1>2, Refers
<1> QED BY <1>1, <1>2, <1>3 DEF TypeOK, RefersTo

LEMMA RequestParts ==
    ASSUME TypeOK, NEW a \in Agents
    PROVE  request[a] \in Request
BY DEF TypeOK

LEMMA StartLooksTyped ==
    ASSUME TypeOK, NEW a \in Agents, StartLooks(a)
    PROVE  TypeOK'
<1> DEFINE r == [Idle EXCEPT !.pc = "previous"]
<1>1. r \in Request /\ RefersTo(r, Len(shifts), Len(tasks))
  BY DEF Idle, NoTask, Request, Job, RefersTo
<1> HIDE DEF r
<1>2. Begin(a, r) /\ desk' = desk
  BY DEF StartLooks, r, desk
<1> QED BY <1>1, <1>2, TypesKept DEF StartLooks, counts, TypeOK

LEMMA StartReadsTyped ==
    ASSUME TypeOK, NEW a \in Agents, StartReadsPrevious(a)
    PROVE  TypeOK'
<1>1. PICK claimed \in 0..(Len(shifts) + 1) :
        Begin(a, [request[a] EXCEPT !.pc = "create",
                     !.read = IF claimed = Previous THEN claimed ELSE 0])
  BY DEF StartReadsPrevious
<1> DEFINE read == IF claimed = Previous THEN claimed ELSE 0
           r == [request[a] EXCEPT !.pc = "create", !.read = read]
<1>2. read \in Nat
  BY TablesTyped
<1> HIDE DEF read
<1>3. r \in Request /\ RefersTo(r, Len(shifts), Len(tasks))
  BY <1>2, RequestParts DEF Request, RefersTo
<1>4. Begin(a, r)
  BY <1>1 DEF read
<1> HIDE DEF r
<1>5. desk' = desk
  BY DEF StartReadsPrevious, desk
<1> QED BY <1>3, <1>4, <1>5, TypesKept DEF StartReadsPrevious, counts, TypeOK

LEMMA StartCreatesTyped ==
    ASSUME TypeOK, NEW a \in Agents, StartCreates(a)
    PROVE  TypeOK'
<1>1. /\ request' \in [Agents -> Request]
      /\ \A b \in Agents : request'[b] = IF b = a THEN Idle ELSE request[b]
  BY IdleTyped, RequestMoves DEF StartCreates, Leave
<1>2. ASSUME NEW b \in Agents PROVE RefersTo(request'[b], Len(shifts'), Len(tasks'))
  <2>1. /\ Len(shifts') = Len(shifts) + 1 /\ Len(tasks') >= Len(tasks)
        /\ Len(shifts) \in Nat /\ Len(tasks) \in Nat /\ Len(tasks') \in Nat
    BY ShiftCreated, TablesTyped
  <2>2. RefersTo(request'[b], Len(shifts), Len(tasks))
    BY <1>1, Refers, IdleTyped DEF RefersTo
  <2> QED BY <2>1, <2>2 DEF RefersTo
<1> QED BY <1>1, <1>2, ShiftCreated DEF StartCreates, counts, TypeOK, RefersTo

LEMMA EndLooksTyped ==
    ASSUME TypeOK, NEW a \in Agents, EndLooks(a)
    PROVE  TypeOK'
<1>1. PICK s \in Open : Begin(a, [Idle EXCEPT !.pc = "slots", !.shift = s, !.stamp = stamps + 1])
  BY DEF EndLooks
<1> DEFINE stamp == stamps + 1
           r == [Idle EXCEPT !.pc = "slots", !.shift = s, !.stamp = stamp]
<1>2. stamp \in Nat /\ s \in 1..Len(shifts) /\ s \in Nat
  BY TablesTyped DEF Open
<1>3. desk' = desk /\ stamps' = stamp /\ now' = now /\ taskRequests' = taskRequests
  BY DEF EndLooks, desk
<1> HIDE DEF stamp
<1>4. r \in Request /\ RefersTo(r, Len(shifts), Len(tasks))
  BY <1>2 DEF Idle, NoTask, Request, Job, RefersTo
<1>5. Begin(a, r)
  BY <1>1 DEF stamp
<1> HIDE DEF r
<1> QED BY <1>2, <1>3, <1>4, <1>5, TypesKept DEF TypeOK

\* The numbers an ops day has used are finitely many naturals.
LEMMA UsedTyped ==
    ASSUME TypeOK, NEW day
    PROVE  UsedSlots(day) \in SUBSET Nat /\ IsFiniteSet(UsedSlots(day))
<1> DEFINE S == {e \in Ended : shifts[e].day = day}
           slot == [s \in S |-> shifts[s].slot]
<1>1. UsedSlots(day) = {slot[s] : s \in S}
  BY DEF UsedSlots
<1>2. S \subseteq 1..Len(shifts) /\ IsFiniteSet(1..Len(shifts))
  BY TablesTyped, FS_Interval DEF Ended
<1>3. \A s \in S : slot[s] \in Nat
  BY <1>2, TablesTyped DEF Shift
<1>4. IsFiniteSet(S)
  <2> HIDE DEF S
  <2> QED BY <1>2, FS_Subset
<1>5. slot = [s \in S |-> slot[s]]
  OBVIOUS
<1> HIDE DEF S, slot
<1>6. IsFiniteSet({slot[s] : s \in S})
  BY <1>4, <1>5, ValuesFinite
<1> QED BY <1>1, <1>3, <1>6

\* The clock always says which handover is nearest.
LEMMA NearestSlot ==
    ASSUME TypeOK
    PROVE  SlotFromClock(now) \in Nat
<1> DEFINE D == DOMAIN HandoverSlots
           away == [i \in D |-> Distance(now, HandoverSlots[i])]
           Near == {i \in D : \A j \in D : away[i] <= away[j]}
<1>1. D = 1..Len(HandoverSlots) /\ 1 \in D
  <2>1. HandoverSlots \in Seq(0..(TicksPerDay - 1)) /\ HandoverSlots # <<>>
    BY DeskAssumption
  <2> QED BY <2>1, LenProperties, EmptySeq
<1>2. ASSUME NEW i \in D PROVE away[i] \in Nat
  <2> DEFINE rel == now % TicksPerDay
             slot == HandoverSlots[i]
             raw == IF rel < slot THEN slot - rel ELSE rel - slot
  <2>1. TicksPerDay \in Nat /\ TicksPerDay > 0 /\ slot \in 0..(TicksPerDay - 1)
    BY DeskAssumption, <1>1, LenProperties, ElementOfSeq
  <2>2. rel \in 0..(TicksPerDay - 1)
    BY <2>1, TablesTyped
  <2> HIDE DEF rel, slot
  <2>3. raw \in Nat /\ TicksPerDay - raw \in Nat
    BY <2>1, <2>2
  <2> HIDE DEF raw
  <2>4. Min({raw, TicksPerDay - raw}) \in {raw, TicksPerDay - raw}
    BY <2>3, MinIsLeast
  <2> QED BY <2>3, <2>4 DEF Distance, rel, slot, raw
<1>3. SlotFromClock(now) = Min(Near)
  BY DEF SlotFromClock
<1> HIDE DEF D, away
<1>4. PICK d \in {away[i] : i \in D} : \A e \in {away[i] : i \in D} : d <= e
  <2>1. {away[i] : i \in D} \in SUBSET Nat /\ {away[i] : i \in D} # {}
    BY <1>1, <1>2
  <2> QED BY <2>1, LeastNatural
<1>5. Near \in SUBSET Nat /\ Near # {}
  BY <1>1, <1>4
<1> HIDE DEF Near
<1>6. Min(Near) \in Near
  BY <1>5, MinIsLeast
<1> QED BY <1>3, <1>5, <1>6

LEMMA NextSlotTyped ==
    ASSUME TypeOK
    PROVE  NextSlot(now, UsedSlots(OpsDay(now))) \in Nat
<1> DEFINE used == UsedSlots(OpsDay(now))
<1>1. used \in SUBSET Nat /\ IsFiniteSet(used)
  BY UsedTyped
<1> HIDE DEF used
<1>2. used # {} => Max(used) \in Nat
  BY <1>1, MaxIsGreatest
<1>3. NextSlot(now, used) \in Nat
  BY <1>2, NearestSlot DEF NextSlot
<1> QED BY <1>3 DEF used

LEMMA EndReadsTyped ==
    ASSUME TypeOK, NEW a \in Agents, EndReadsSlots(a)
    PROVE  TypeOK'
<1> DEFINE slot == NextSlot(now, UsedSlots(OpsDay(now)))
           r == [request[a] EXCEPT !.pc = "write", !.slot = slot]
<1>1. slot \in Nat
  BY NextSlotTyped
<1>2. Begin(a, r) /\ desk' = desk /\ request[a].pc = "slots"
  BY DEF EndReadsSlots, desk
<1> HIDE DEF slot
<1>3. r \in Request /\ RefersTo(r, Len(shifts), Len(tasks))
  BY <1>1, <1>2, RequestParts, Refers DEF Request, RefersTo
<1> HIDE DEF r
<1> QED BY <1>2, <1>3, TypesKept DEF EndReadsSlots, counts, TypeOK

LEMMA EndWritesTyped ==
    ASSUME TypeOK, NEW a \in Agents, EndWrites(a)
    PROVE  TypeOK'
<1>1. /\ request' \in [Agents -> Request]
      /\ \A b \in Agents : request'[b] = IF b = a THEN Idle ELSE request[b]
  BY IdleTyped, RequestMoves DEF EndWrites, Leave
<1>2. \A b \in Agents : RefersTo(request'[b], Len(shifts), Len(tasks))
  BY <1>1, Refers, IdleTyped DEF RefersTo
<1>3. shifts' \in Seq(Shift) /\ Len(shifts') = Len(shifts) /\ tasks' = tasks
  BY ShiftEnded DEF EndWrites
<1> QED BY <1>1, <1>2, <1>3 DEF EndWrites, counts, TypeOK, RefersTo

LEMMA AddLooksTyped ==
    ASSUME TypeOK, NEW a \in Agents, AddTaskLooks(a)
    PROVE  TypeOK'
<1>1. PICK s \in Open : Begin(a, [Idle EXCEPT !.pc = "add", !.shift = s])
  BY DEF AddTaskLooks
<1> DEFINE r == [Idle EXCEPT !.pc = "add", !.shift = s]
<1>2. s \in 1..Len(shifts) /\ s \in Nat
  BY TablesTyped DEF Open
<1>3. r \in Request /\ RefersTo(r, Len(shifts), Len(tasks))
  BY <1>2 DEF Idle, NoTask, Request, Job, RefersTo
<1> HIDE DEF r
<1>4. Begin(a, r)
  BY <1>1 DEF r
<1>5. desk' = desk /\ now' = now /\ stamps' = stamps /\ taskRequests' = taskRequests + 1
  BY DEF AddTaskLooks, AboutTasks, desk
<1> QED BY <1>3, <1>4, <1>5, TypesKept DEF TypeOK

\* What an update is about to write is signed, if what it read was.
LEMMA UpdateRead ==
    ASSUME TypeOK, NEW a \in Agents, UpdateTaskReads(a)
    PROVE  \E t \in 1..Len(tasks), r \in Request :
             /\ Begin(a, r) /\ r.pc = "update" /\ r.task = t
             /\ tasks[t].open \/ tasks[t].by # Nobody => r.next.open \/ r.next.by # Nobody
<1>1. PICK t \in 1..Len(tasks), body \in {"keep", "open", "done"} :
        \E to \in {tasks[t].assignee, a, Nobody} :
            Begin(a, [Idle EXCEPT !.pc = "update", !.task = t,
                        !.next = [tasks[t] EXCEPT
                          !.open = (body = "open" \/ (body = "keep" /\ @)),
                          !.assignee = to, !.by = Signed(tasks[t], a, body = "done")]])
  BY DEF UpdateTaskReads
<1>2. PICK to \in {tasks[t].assignee, a, Nobody} :
            Begin(a, [Idle EXCEPT !.pc = "update", !.task = t,
                        !.next = [tasks[t] EXCEPT
                          !.open = (body = "open" \/ (body = "keep" /\ @)),
                          !.assignee = to, !.by = Signed(tasks[t], a, body = "done")]])
  BY <1>1
<1> DEFINE open == body = "open" \/ (body = "keep" /\ tasks[t].open)
           by == Signed(tasks[t], a, body = "done")
           next == [tasks[t] EXCEPT !.open = open, !.assignee = to, !.by = by]
           r == [Idle EXCEPT !.pc = "update", !.task = t, !.next = next]
<1>3. tasks[t] \in Job /\ t \in Nat
  BY TablesTyped
<1>4. open \in BOOLEAN
  OBVIOUS
<1>5. by \in Agents \cup {Nobody} /\ to \in Agents \cup {Nobody}
  BY <1>3 DEF Signed, Job
<1>6. Begin(a, r)
  BY <1>2
<1>7. tasks[t].open \/ tasks[t].by # Nobody => open \/ by # Nobody
  <2>1. body = "done" => by # Nobody
    BY DeskAssumption DEF Signed
  <2>2. body # "done" => by = tasks[t].by
    BY DEF Signed
  <2>3. body = "open" => open
    OBVIOUS
  <2>4. body = "keep" /\ tasks[t].open => open
    OBVIOUS
  <2> HIDE DEF open, by
  <2> QED BY <1>1, <2>1, <2>2, <2>3, <2>4
<1> HIDE DEF open, by
<1>8. next \in Job /\ next.open = open /\ next.by = by
  BY <1>3, <1>4, <1>5 DEF Job
<1>9. tasks[t].open \/ tasks[t].by # Nobody => next.open \/ next.by # Nobody
  BY Zenon, <1>7, <1>8
<1> HIDE DEF next
<1>10. r \in Request /\ r.pc = "update" /\ r.task = t /\ r.next = next
  BY <1>3, <1>8 DEF Idle, NoTask, Request
<1> HIDE DEF r
<1> QED BY <1>6, <1>9, <1>10

LEMMA UpdateReadsTyped ==
    ASSUME TypeOK, NEW a \in Agents, UpdateTaskReads(a)
    PROVE  TypeOK'
<1>1. PICK t \in 1..Len(tasks), r \in Request :
        Begin(a, r) /\ r.pc = "update" /\ r.task = t
  BY UpdateRead
<1>2. RefersTo(r, Len(shifts), Len(tasks))
  BY <1>1 DEF RefersTo
<1>3. desk' = desk /\ now' = now /\ stamps' = stamps /\ taskRequests' = taskRequests + 1
  BY DEF UpdateTaskReads, AboutTasks, desk
<1> QED BY <1>1, <1>2, <1>3, TypesKept DEF TypeOK

\* A touched request is about what it was about.
LEMMA TouchRefers ==
    ASSUME TypeOK, NEW a \in Agents, NEW t \in Nat, Touch(a, t), NEW b \in Agents
    PROVE  RefersTo(request'[b], Len(shifts), Len(tasks))
<1>1. CASE b = a
  BY <1>1, TaskTouched, IdleTyped DEF RefersTo
<1>2. CASE b # a
  <2>1. request'[b] = [request[b] EXCEPT !.changed = request'[b].changed]
    BY <1>2, TaskTouched
  <2>2. request'[b].pc = request[b].pc /\ request'[b].shift = request[b].shift
        /\ request'[b].task = request[b].task
    BY <2>1, RequestParts DEF Request
  <2> QED BY <2>2, Refers DEF RefersTo
<1> QED BY <1>1, <1>2

LEMMA TaskWritesTyped ==
    ASSUME TypeOK, NEW a \in Agents, AddTaskCreates(a) \/ UpdateTaskWrites(a)
    PROVE  TypeOK'
<1>1. PICK t \in Nat : Touch(a, t)
  BY TaskAdded, TaskUpdated
<1>2. /\ tasks' \in Seq(Job) /\ Len(tasks') \in Nat /\ Len(tasks') >= Len(tasks)
      /\ UNCHANGED <<now, shifts, counts, ghosts>>
  BY TaskAdded, TaskUpdated, TablesTyped
<1>3. ASSUME NEW b \in Agents PROVE RefersTo(request'[b], Len(shifts'), Len(tasks'))
  <2>1. RefersTo(request'[b], Len(shifts), Len(tasks))
    BY <1>1, TouchRefers
  <2> QED BY <1>2, <2>1, TablesTyped DEF RefersTo
<1> QED BY <1>1, <1>2, <1>3, TaskTouched DEF counts, TypeOK, RefersTo

LEMMA AbandonTyped ==
    ASSUME TypeOK, NEW a \in Agents, Abandon(a)
    PROVE  TypeOK'
<1>1. RefersTo(Idle, Len(shifts), Len(tasks)) /\ Begin(a, Idle) /\ desk' = desk
  BY IdleTyped DEF RefersTo, Abandon, Leave, Begin, desk
<1> QED BY <1>1, IdleTyped, TypesKept DEF Abandon, counts, TypeOK

LEMMA TypeStart == Init => TypeOK
<1> SUFFICES ASSUME Init PROVE TypeOK
  OBVIOUS
<1>1. <<>> \in Seq(Shift) /\ <<>> \in Seq(Job)
  BY EmptySeq
<1>2. 0 \in 0..MaxTime
  BY DeskAssumption
<1> QED BY <1>1, <1>2, IdleTyped DEF Init, TypeOK

LEMMA TypeStep ==
    ASSUME TypeOK, [Next]_vars
    PROVE  TypeOK'
<1>1. CASE UNCHANGED vars
  BY <1>1 DEF vars, desk, counts, TypeOK
<1>2. CASE Tick
  <2>1. now' \in 0..MaxTime
    BY <1>2, DeskAssumption DEF Tick, TypeOK
  <2> QED BY <1>2, <2>1 DEF Tick, desk, counts, TypeOK
<1> QED BY <1>1, <1>2, StartLooksTyped, StartReadsTyped, StartCreatesTyped, EndLooksTyped,
           EndReadsTyped, EndWritesTyped, AddLooksTyped, UpdateReadsTyped, TaskWritesTyped,
           AbandonTyped
        DEF Next, Start, End, Task, Refused

\* The tables hold what their columns may hold, and a request under way is
\* about a shift or a task there is.
THEOREM DeskTyped == Spec => []TypeOK
BY TypeStart, TypeStep, PTL DEF Spec

-----------------------------------------------------------------------------
(* Who opens a shift.                                                        *)

\* A step begins no request to start or to end, and leaves those there are
\* with what they read.
StartsQuiet ==
    \A b \in Agents :
        /\ IsStarting(b)' => IsStarting(b)
        /\ request'[b].pc = "create" =>
             request[b].pc = "create" /\ request'[b].read = request[b].read
        /\ IsEnding(b)' =>
             /\ IsEnding(b) /\ request'[b].shift = request[b].shift
             /\ request'[b].stamp = request[b].stamp
             /\ request[b].changed \subseteq request'[b].changed

LEMMA StampsKept ==
    ASSUME TypeOK, StartsQuiet, shifts' = shifts, NEW s
    PROVE  StampsOf(s)' \subseteq StampsOf(s)
BY DEF StampsOf, StartsQuiet, Ended

LEMMA QuietStart ==
    ASSUME TypeOK, StartInv, StartsQuiet, shifts' = shifts, stamps' = stamps,
           starting' = starting
    PROVE  StartInv'
<1>1. Open' = Open /\ Len(shifts') = Len(shifts)
  BY DEF Open
<1>2. \A s \in 1..Len(shifts) : \A x \in StampsOf(s)' : x <= stamps
  BY StampsKept DEF StartInv
<1>3. ASSUME ~starting
      PROVE  /\ \A a \in Agents, b \in Agents : IsStarting(a)' /\ IsStarting(b)' => a = b
             /\ \A a \in Agents : IsStarting(a)' => Open = {}
             /\ \A s \in Open : s = Len(shifts)
             /\ \A a \in Agents : request'[a].pc = "create" =>
                  request'[a].read \in {0, Len(shifts)}
  BY <1>3 DEF StartInv, StartsQuiet
<1>4. ASSUME ~starting, NEW s \in 1..Len(shifts), NEW t \in 1..Len(shifts), s < t,
             NEW x \in StampsOf(s)', NEW y \in StampsOf(t)'
      PROVE  x < y
  <2>1. x \in StampsOf(s) /\ y \in StampsOf(t)
    BY <1>4, StampsKept
  <2> QED BY <1>4, <2>1 DEF StartInv
<1> QED BY <1>1, <1>2, <1>3, <1>4 DEF StartInv

\* What a step does to the other requests, when it replaces one.
LEMMA OneQuiet ==
    ASSUME TypeOK, NEW a \in Agents, NEW r,
           \A b \in Agents : request'[b] = IF b = a THEN r ELSE request[b],
           r.pc \notin {"previous", "create", "slots", "write"}
    PROVE  StartsQuiet
BY DEF StartsQuiet, IsStarting, IsEnding

LEMMA TouchQuiet ==
    ASSUME TypeOK, NEW a \in Agents, NEW t \in Nat, Touch(a, t)
    PROVE  StartsQuiet
<1>1. ASSUME NEW b \in Agents, b # a
      PROVE  /\ request'[b].pc = request[b].pc /\ request'[b].read = request[b].read
             /\ request'[b].shift = request[b].shift /\ request'[b].stamp = request[b].stamp
             /\ request[b].changed \subseteq request'[b].changed
  <2>1. request'[b] = [request[b] EXCEPT !.changed = request'[b].changed]
    BY <1>1, TaskTouched
  <2>2. request[b].changed \subseteq request'[b].changed
    BY <1>1, TaskTouched
  <2> QED BY <2>1, <2>2, RequestParts DEF Request
<1>2. request'[a].pc = "idle"
  BY TaskTouched, IdleTyped
<1> QED BY <1>1, <1>2 DEF StartsQuiet, IsStarting, IsEnding

\* The steps that concern neither.
LEMMA TaskStepsQuiet ==
    ASSUME TypeOK, NEW a \in Agents,
           Task(a) \/ Abandon(a) \/ EndReadsSlots(a)
    PROVE  /\ StartsQuiet
           /\ UNCHANGED <<shifts, stamps, starting, ending>>
<1>1. CASE AddTaskLooks(a)
  <2>1. PICK s \in Open : Begin(a, [Idle EXCEPT !.pc = "add", !.shift = s])
    BY <1>1 DEF AddTaskLooks
  <2>2. [Idle EXCEPT !.pc = "add", !.shift = s].pc = "add"
    BY DEF Idle
  <2>3. \A b \in Agents : request'[b] = IF b = a THEN [Idle EXCEPT !.pc = "add", !.shift = s]
                                        ELSE request[b]
    BY <2>1 DEF Begin, TypeOK
  <2> QED BY <1>1, <2>2, <2>3, OneQuiet DEF AddTaskLooks, AboutTasks, desk, ghosts
<1>2. CASE AddTaskCreates(a)
  BY <1>2, TaskAdded, TouchQuiet DEF counts, ghosts
<1>3. CASE UpdateTaskReads(a)
  <2>1. PICK r : Begin(a, r) /\ r.pc = "update"
    BY <1>3, UpdateRead
  <2>2. \A b \in Agents : request'[b] = IF b = a THEN r ELSE request[b]
    BY <2>1 DEF Begin, TypeOK
  <2> QED BY <1>3, <2>1, <2>2, OneQuiet DEF UpdateTaskReads, AboutTasks, desk, ghosts
<1>4. CASE UpdateTaskWrites(a)
  BY <1>4, TaskUpdated, TouchQuiet DEF counts, ghosts
<1>5. CASE Abandon(a)
  <2>1. \A b \in Agents : request'[b] = IF b = a THEN Idle ELSE request[b]
    BY <1>5 DEF Abandon, Leave, TypeOK
  <2> QED BY <1>5, <2>1, IdleTyped, OneQuiet DEF Abandon, desk, counts, ghosts
<1>6. CASE EndReadsSlots(a)
  <2> DEFINE slot == NextSlot(now, UsedSlots(OpsDay(now)))
  <2>1. \A b \in Agents : request'[b] = IF b = a
          THEN [request[a] EXCEPT !.pc = "write", !.slot = slot] ELSE request[b]
    BY <1>6 DEF EndReadsSlots, Begin, TypeOK
  <2> HIDE DEF slot
  <2>2. /\ request[a].pc = "slots" /\ request'[a].pc = "write"
        /\ request'[a].shift = request[a].shift /\ request'[a].stamp = request[a].stamp
        /\ request'[a].changed = request[a].changed
    BY <1>6, <2>1, RequestParts DEF EndReadsSlots, Request
  <2> QED BY <1>6, <2>1, <2>2
          DEF EndReadsSlots, desk, counts, ghosts, StartsQuiet, IsStarting, IsEnding
<1> QED BY <1>1, <1>2, <1>3, <1>4, <1>5, <1>6 DEF Task

\* While requests to start do not overlap and no shift is open, the last to
\* have ended is the newest.
LEMMA PreviousIsNewest ==
    ASSUME TypeOK, StartInv, ~starting, Open = {}
    PROVE  Previous = Len(shifts)
<1> DEFINE n == Len(shifts)
           Last == {s \in Ended : \A e \in Ended : shifts[e].endedAt <= shifts[s].endedAt}
<1>1. n \in Nat /\ Ended = 1..n
  BY TablesTyped DEF Open, Ended
<1>2. CASE n = 0
  BY <1>1, <1>2 DEF Previous
<1>3. CASE n # 0
  <2>1. n \in Ended
    BY <1>1, <1>3
  <2>2. \A s \in Ended : shifts[s].endedAt \in StampsOf(s) /\ shifts[s].endedAt \in Nat
    BY <1>1, TablesTyped DEF StampsOf, Shift
  <2>3. \A s \in Ended : s < n => shifts[s].endedAt < shifts[n].endedAt
    BY <1>1, <2>1, <2>2 DEF StartInv
  <2>4. Last = {n}
    <3>1. \A s \in Ended : s = n \/ s < n
      BY <1>1
    <3>2. n \in Last
      BY <2>1, <2>2, <2>3, <3>1
    <3>3. \A s \in Last : s = n
      BY <2>1, <2>2, <2>3, <3>1
    <3> HIDE DEF Last
    <3> QED BY <3>2, <3>3
  <2>5. Previous = Max(Last) /\ Ended # {}
    BY <2>1 DEF Previous
  <2> HIDE DEF Last, n
  <2>6. Max({n}) = n
    BY <1>1 DEF Max
  <2> QED BY <2>4, <2>5, <2>6 DEF n
<1> QED BY <1>2, <1>3

LEMMA StartLooksOK ==
    ASSUME TypeOK, StartInv, NEW a \in Agents, StartLooks(a)
    PROVE  StartInv'
<1>1. \A b \in Agents : request'[b] = IF b = a THEN [Idle EXCEPT !.pc = "previous"]
                                      ELSE request[b]
  BY DEF StartLooks, Begin, TypeOK
<1>2. request'[a].pc = "previous"
  BY <1>1 DEF Idle
<1>3. shifts' = shifts /\ stamps' = stamps /\ Open' = Open /\ Open = {} /\ Ended' = Ended
  BY DEF StartLooks, desk, counts, Open, Ended
<1>4. \A s : StampsOf(s)' \subseteq StampsOf(s)
  BY <1>1, <1>2, <1>3 DEF StampsOf, IsEnding
<1>5. starting' = (starting \/ \E b \in Agents : IsStarting(b))
  BY DEF StartLooks, IsStarting
<1>6. ASSUME ~starting'
      PROVE  /\ ~starting
             /\ \A b \in Agents : IsStarting(b)' => b = a
             /\ \A b \in Agents : request'[b].pc # "create"
  <2>1. ~starting /\ \A b \in Agents : ~IsStarting(b)
    BY Zenon, <1>5, <1>6
  <2> QED BY <1>1, <1>2, <2>1 DEF IsStarting
<1>7. \A s \in 1..Len(shifts) : \A x \in StampsOf(s)' : x <= stamps
  BY <1>4 DEF StartInv
<1>8. ASSUME ~starting'
      PROVE  \A s \in 1..Len(shifts), t \in 1..Len(shifts) : s < t =>
               \A x \in StampsOf(s)', y \in StampsOf(t)' : x < y
  BY <1>4, <1>6, <1>8 DEF StartInv
<1>9. ASSUME ~starting'
      PROVE  /\ \A b \in Agents, c \in Agents : IsStarting(b)' /\ IsStarting(c)' => b = c
             /\ \A b \in Agents : IsStarting(b)' => Open = {}
             /\ \A s \in Open : s = Len(shifts)
             /\ \A b \in Agents : request'[b].pc = "create" =>
                  request'[b].read \in {0, Len(shifts)}
  BY <1>3, <1>6, <1>9
<1> QED BY <1>3, <1>7, <1>8, <1>9 DEF StartInv

LEMMA StartReadsOK ==
    ASSUME TypeOK, StartInv, NEW a \in Agents, StartReadsPrevious(a)
    PROVE  StartInv'
<1>1. PICK read \in {0, Previous} :
        Begin(a, [request[a] EXCEPT !.pc = "create", !.read = read])
  BY DEF StartReadsPrevious
<1>2. \A b \in Agents : request'[b] = IF b = a
        THEN [request[a] EXCEPT !.pc = "create", !.read = read] ELSE request[b]
  BY <1>1 DEF Begin, TypeOK
<1>3. request'[a].pc = "create" /\ request'[a].read = read /\ request[a].pc = "previous"
  BY <1>2, RequestParts DEF StartReadsPrevious, Request
<1>4. /\ shifts' = shifts /\ stamps' = stamps /\ starting' = starting
      /\ Open' = Open /\ Ended' = Ended
  BY DEF StartReadsPrevious, desk, counts, ghosts, Open, Ended
<1>5. \A s : StampsOf(s)' \subseteq StampsOf(s)
  BY <1>2, <1>3, <1>4 DEF StampsOf, IsEnding
<1>6. \A b \in Agents : IsStarting(b)' <=> IsStarting(b)
  BY <1>2, <1>3 DEF IsStarting
<1>7. ~starting => Previous = Len(shifts)
  BY <1>3, PreviousIsNewest DEF StartInv, IsStarting
<1>8. ASSUME ~starting, NEW b \in Agents, request'[b].pc = "create"
      PROVE  request'[b].read \in {0, Len(shifts)}
  BY <1>1, <1>2, <1>3, <1>7, <1>8 DEF StartInv
<1>9. \A s \in 1..Len(shifts) : \A x \in StampsOf(s)' : x <= stamps
  BY <1>5 DEF StartInv
<1>10. ~starting =>
         \A s \in 1..Len(shifts), t \in 1..Len(shifts) : s < t =>
            \A x \in StampsOf(s)', y \in StampsOf(t)' : x < y
  BY <1>5 DEF StartInv
<1>11. ~starting =>
         /\ \A b \in Agents, c \in Agents : IsStarting(b)' /\ IsStarting(c)' => b = c
         /\ \A b \in Agents : IsStarting(b)' => Open = {}
         /\ \A s \in Open : s = Len(shifts)
  BY <1>6 DEF StartInv
<1> QED BY <1>4, <1>8, <1>9, <1>10, <1>11 DEF StartInv

\* The shift that is created is the newest, and the only one open.
LEMMA StartCreatesOK ==
    ASSUME TypeOK, StartInv, NEW a \in Agents, StartCreates(a)
    PROVE  StartInv'
<1> DEFINE n == Len(shifts)
<1>1. \A b \in Agents : request'[b] = IF b = a THEN Idle ELSE request[b]
  BY DEF StartCreates, Leave, TypeOK
<1>2. /\ n \in Nat /\ Len(shifts') = n + 1 /\ stamps' = stamps /\ starting' = starting
      /\ \A s \in 1..n : shifts'[s] = shifts[s]
      /\ shifts'[n + 1].open
  BY ShiftCreated, TablesTyped DEF StartCreates, counts, ghosts, NewShift
<1> HIDE DEF n
<1>3. Ended' = Ended /\ Open' = Open \cup {n + 1} /\ n + 1 \notin Ended
  BY <1>2 DEF Ended, Open, n
<1>4. \A s \in 1..n : StampsOf(s)' \subseteq StampsOf(s)
  BY <1>1, <1>2, <1>3, IdleTyped DEF StampsOf, IsEnding, Ended, n
<1>5. ASSUME NEW s, s = n + 1 PROVE StampsOf(s)' = {}
  <2>1. \A b \in Agents : IsEnding(b)' => request'[b].shift \in 1..n
    BY <1>1, Refers, IdleTyped DEF IsEnding, RefersTo, n
  <2>2. {b \in Agents : IsEnding(b)' /\ request'[b].shift = s} = {}
    BY <1>2, <1>5, <2>1
  <2>3. s \notin Ended'
    BY <1>3, <1>5
  <2> QED BY <2>2, <2>3 DEF StampsOf, IsEnding
<1>6. ASSUME ~starting
      PROVE  Open = {} /\ \A b \in Agents : ~IsStarting(b)'
  BY <1>1, <1>6, IdleTyped DEF StartInv, IsStarting, StartCreates
<1>7. ASSUME NEW s \in 1..(n + 1), NEW x \in StampsOf(s)' PROVE x <= stamps
  <2>1. s # n + 1
    BY <1>5, <1>7
  <2>2. s \in 1..n
    BY <1>2, <2>1
  <2>3. x \in StampsOf(s)
    BY <1>4, <1>7, <2>2
  <2> QED BY <2>2, <2>3 DEF StartInv, n
<1>8. ASSUME ~starting, NEW s \in 1..(n + 1), NEW t \in 1..(n + 1), s < t,
             NEW x \in StampsOf(s)', NEW y \in StampsOf(t)'
      PROVE  x < y
  <2>0. s # n + 1 /\ t # n + 1
    BY <1>5, <1>8
  <2>1. s \in 1..n /\ t \in 1..n
    BY <1>2, <2>0
  <2>2. x \in StampsOf(s) /\ y \in StampsOf(t)
    BY <1>4, <1>8, <2>1
  <2> QED BY <1>8, <2>1, <2>2 DEF StartInv, n
<1>9. ASSUME ~starting
      PROVE  /\ \A b \in Agents, c \in Agents : IsStarting(b)' /\ IsStarting(c)' => b = c
             /\ \A b \in Agents : IsStarting(b)' => Open' = {}
             /\ \A s \in Open' : s = n + 1
             /\ \A b \in Agents : request'[b].pc = "create" =>
                  request'[b].read \in {0, n + 1}
  BY <1>3, <1>6, <1>9 DEF IsStarting
<1> QED BY <1>2, <1>7, <1>8, <1>9 DEF StartInv

\* A request to end takes the latest stamp, for the newest shift.
LEMMA EndLooksOK ==
    ASSUME TypeOK, StartInv, NEW a \in Agents, EndLooks(a)
    PROVE  StartInv'
<1>1. PICK i \in Open : Begin(a, [Idle EXCEPT !.pc = "slots", !.shift = i, !.stamp = stamps + 1])
  BY DEF EndLooks
<1>2. \A b \in Agents : request'[b] = IF b = a
        THEN [Idle EXCEPT !.pc = "slots", !.shift = i, !.stamp = stamps + 1] ELSE request[b]
  BY <1>1 DEF Begin, TypeOK
<1>3. request'[a].pc = "slots" /\ request'[a].shift = i /\ request'[a].stamp = stamps + 1
  BY <1>2 DEF Idle
<1>4. /\ shifts' = shifts /\ stamps' = stamps + 1 /\ starting' = starting
      /\ Open' = Open /\ Ended' = Ended /\ stamps \in Nat
  BY TablesTyped DEF EndLooks, desk, Open, Ended
<1>5. \A s : StampsOf(s)' \subseteq StampsOf(s) \cup {stamps + 1}
  BY <1>2, <1>3, <1>4 DEF StampsOf, IsEnding
<1>6. \A s : s # i => StampsOf(s)' \subseteq StampsOf(s)
  BY <1>2, <1>3, <1>4 DEF StampsOf, IsEnding
<1>7. \A b \in Agents : /\ IsStarting(b)' => IsStarting(b) /\ request'[b] = request[b]
                        /\ request'[b].pc = "create" => IsStarting(b)'
  BY <1>2, <1>3 DEF IsStarting
<1>8. \A s : \A x \in StampsOf(s) : x \in Nat
  <2>1. \A s \in Ended : shifts[s].endedAt \in Nat
    BY TablesTyped DEF Ended, Shift
  <2>2. \A b \in Agents : request[b].stamp \in Nat
    BY RequestParts DEF Request
  <2> QED BY <2>1, <2>2 DEF StampsOf
<1>9. ASSUME NEW s \in 1..Len(shifts), NEW x \in StampsOf(s)' PROVE x <= stamps + 1
  BY <1>4, <1>5, <1>8, <1>9 DEF StartInv
<1>10. ASSUME ~starting, NEW s \in 1..Len(shifts), NEW t \in 1..Len(shifts), s < t,
              NEW x \in StampsOf(s)', NEW y \in StampsOf(t)'
       PROVE  x < y
  <2>1. i = Len(shifts) /\ s # i
    BY <1>1, <1>10, TablesTyped DEF StartInv
  <2>2. x \in StampsOf(s)
    BY <1>6, <1>10, <2>1
  <2>3. CASE y = stamps + 1
    BY <1>4, <1>8, <2>2, <2>3 DEF StartInv
  <2>4. CASE y # stamps + 1
    <3>1. y \in StampsOf(t)
      BY <1>5, <1>10, <2>4
    <3> QED BY <1>10, <2>2, <3>1 DEF StartInv
  <2> QED BY <2>3, <2>4
<1>11. ASSUME ~starting
       PROVE  /\ \A b \in Agents, c \in Agents : IsStarting(b)' /\ IsStarting(c)' => b = c
              /\ \A b \in Agents : IsStarting(b)' => Open = {}
              /\ \A s \in Open : s = Len(shifts)
              /\ \A b \in Agents : request'[b].pc = "create" =>
                   request'[b].read \in {0, Len(shifts)}
  BY <1>7, <1>11 DEF StartInv
<1> QED BY <1>4, <1>9, <1>10, <1>11 DEF StartInv

\* A shift that is ended, again perhaps, gets a stamp that was taken for it.
LEMMA EndWritesOK ==
    ASSUME TypeOK, StartInv, NEW a \in Agents, EndWrites(a)
    PROVE  StartInv'
<1> DEFINE i == request[a].shift
           n == Len(shifts)
<1>1. \A b \in Agents : request'[b] = IF b = a THEN Idle ELSE request[b]
  BY DEF EndWrites, Leave, TypeOK
<1>2. /\ n \in Nat /\ i \in 1..n /\ Len(shifts') = n /\ stamps' = stamps /\ starting' = starting
      /\ request[a].pc = "write"
      /\ \A s \in 1..n : s # i => shifts'[s] = shifts[s]
      /\ ~shifts'[i].open /\ shifts'[i].endedAt = request[a].stamp
  BY ShiftEnded, TablesTyped DEF EndWrites, counts, ghosts
<1> HIDE DEF i, n
<1>3. Ended' = Ended \cup {i} /\ Open' = Open \ {i}
  BY <1>2 DEF Ended, Open, n
<1>4. ASSUME NEW s \in 1..n PROVE StampsOf(s)' \subseteq StampsOf(s)
  <2>1. \A b \in Agents : IsEnding(b)' => IsEnding(b) /\ request'[b] = request[b]
    BY <1>1, IdleTyped DEF IsEnding
  <2>2. CASE s = i
    <3>1. request[a].stamp \in StampsOf(s)
      BY <1>2, <2>2 DEF StampsOf, IsEnding, i
    <3> QED BY <1>2, <2>1, <2>2, <3>1 DEF StampsOf
  <2>3. CASE s # i
    <3>1. shifts'[s] = shifts[s] /\ (s \in Ended' <=> s \in Ended)
      BY <1>2, <1>3, <2>3
    <3> QED BY <2>1, <3>1 DEF StampsOf
  <2> QED BY <2>2, <2>3
<1>5. \A b \in Agents : /\ IsStarting(b)' => IsStarting(b) /\ request'[b] = request[b]
                        /\ request'[b].pc = "create" => IsStarting(b)'
  BY <1>1, IdleTyped DEF IsStarting
<1>6. \A s \in 1..n : \A x \in StampsOf(s)' : x <= stamps
  BY <1>4 DEF StartInv, n
<1>7. ASSUME ~starting, NEW s \in 1..n, NEW t \in 1..n, s < t,
             NEW x \in StampsOf(s)', NEW y \in StampsOf(t)'
      PROVE  x < y
  <2>1. x \in StampsOf(s) /\ y \in StampsOf(t)
    BY <1>4, <1>7
  <2> QED BY <1>7, <2>1 DEF StartInv, n
<1>8. ASSUME ~starting
      PROVE  /\ \A b \in Agents, c \in Agents : IsStarting(b)' /\ IsStarting(c)' => b = c
             /\ \A b \in Agents : IsStarting(b)' => Open' = {}
             /\ \A s \in Open' : s = n
             /\ \A b \in Agents : request'[b].pc = "create" =>
                  request'[b].read \in {0, n}
  BY <1>3, <1>5, <1>8 DEF StartInv, n
<1> QED BY <1>2, <1>6, <1>7, <1>8 DEF StartInv

LEMMA StartStep ==
    ASSUME TypeOK, StartInv, [Next]_vars
    PROVE  StartInv'
<1>1. CASE UNCHANGED vars
  BY <1>1 DEF vars, desk, counts, ghosts, StartInv, StampsOf, Ended, Open, IsStarting, IsEnding
<1>2. CASE Tick
  <2>1. StartsQuiet
    BY <1>2 DEF Tick, StartsQuiet, IsStarting, IsEnding
  <2> QED BY <1>2, <2>1, QuietStart DEF Tick, desk, counts, ghosts
<1>3. ASSUME NEW a \in Agents, Task(a) \/ Abandon(a) \/ EndReadsSlots(a) PROVE StartInv'
  BY <1>3, TaskStepsQuiet, QuietStart
<1> QED BY <1>1, <1>2, <1>3, StartLooksOK, StartReadsOK, StartCreatesOK, EndLooksOK, EndWritesOK
        DEF Next, Start, End, Refused

LEMMA StartStart == Init => StartInv
BY IdleTyped DEF Init, StartInv, StampsOf, Ended, Open, IsStarting, IsEnding

\* There is one desk, so there is one shift (shifts.service.ts:316): while
\* requests to start do not overlap two shifts are never open, whoever ends
\* them, however late.
THEOREM OneShiftAtATime == Spec => []OneShiftOpen
<1>1. TypeOK /\ StartInv => OneShiftOpen
  <2> SUFFICES ASSUME TypeOK, StartInv, ~starting PROVE Cardinality(Open) <= 1
    BY DEF OneShiftOpen
  <2>1. Open \subseteq {Len(shifts)}
    BY DEF StartInv
  <2>2. IsFiniteSet({Len(shifts)}) /\ Cardinality({Len(shifts)}) = 1
    BY FS_Singleton
  <2> QED BY <2>1, <2>2, FS_Subset
<1> QED BY <1>1, TypeStart, TypeStep, StartStart, StartStep, PTL DEF Spec

\* A receipt names the handover of the last shift to have ended, while
\* requests to start do not overlap (shifts.service.ts:327).
THEOREM ReceiptStaysTrue == Spec => ReceiptIsTrue
<1> DEFINE Receipt ==
        \A s \in 1..Len(shifts') :
            s > Len(shifts) /\ ~starting /\ shifts'[s].readHandoverOf # 0
                => shifts'[s].readHandoverOf = Previous
<1>1. ASSUME TypeOK, StartInv, [Next]_vars PROVE [Receipt]_vars
  <2>1. ASSUME NEW a \in Agents, StartCreates(a) PROVE Receipt
    <3> SUFFICES ASSUME ~starting PROVE NewShift(request[a].read).readHandoverOf \in {0, Previous}
      BY <1>1, <2>1, ShiftCreated, TablesTyped
    <3>1. request[a].read \in {0, Len(shifts)} /\ Open = {}
      BY <1>1, <2>1 DEF StartCreates, StartInv, IsStarting
    <3>2. Previous = Len(shifts)
      BY <1>1, <3>1, PreviousIsNewest
    <3> QED BY <3>1, <3>2 DEF NewShift
  <2>2. CASE Len(shifts') = Len(shifts)
    BY <1>1, <2>2, TablesTyped
  <2>3. ASSUME NEW a \in Agents, EndWrites(a) PROVE Len(shifts') = Len(shifts)
    BY <1>1, <2>3, ShiftEnded
  <2>4. ASSUME NEW a \in Agents, Task(a) \/ Abandon(a) \/ EndReadsSlots(a)
        PROVE  shifts' = shifts
    BY <1>1, <2>4, TaskStepsQuiet
  <2>5. ASSUME NEW a \in Agents, StartLooks(a) \/ StartReadsPrevious(a) \/ EndLooks(a)
        PROVE  shifts' = shifts
    BY <2>5 DEF StartLooks, StartReadsPrevious, EndLooks, desk
  <2>6. CASE Tick
    BY <2>2, <2>6 DEF Tick, desk
  <2> QED BY <1>1, <2>1, <2>2, <2>3, <2>4, <2>5, <2>6 DEF Next, Start, End, Refused
<1> QED BY <1>1, TypeStart, TypeStep, StartStart, StartStep, PTL DEF Spec, ReceiptIsTrue

-----------------------------------------------------------------------------
(* Who ticked a task.                                                        *)

\* Every step moves one request, but for the steps that touch a task; and only
\* the reading of a task for its update begins an update.
LEMMA OneMoves ==
    ASSUME TypeOK, NEW a \in Agents,
           Start(a) \/ End(a) \/ AddTaskLooks(a) \/ Abandon(a)
    PROVE  \E r : Begin(a, r) /\ r.pc # "update"
<1>1. CASE StartLooks(a)
  BY <1>1 DEF StartLooks, Idle
<1>2. CASE StartReadsPrevious(a)
  <2>1. PICK read : Begin(a, [request[a] EXCEPT !.pc = "create", !.read = read])
    BY <1>2 DEF StartReadsPrevious
  <2>2. [request[a] EXCEPT !.pc = "create", !.read = read].pc = "create"
    BY RequestParts DEF Request
  <2> QED BY <2>1, <2>2
<1>3. CASE StartCreates(a) \/ EndWrites(a) \/ Abandon(a)
  <2>1. Begin(a, Idle)
    BY <1>3 DEF StartCreates, EndWrites, Abandon, Leave, Begin
  <2> QED BY <2>1, IdleTyped
<1>4. CASE EndLooks(a)
  <2>1. PICK s \in Open : Begin(a, [Idle EXCEPT !.pc = "slots", !.shift = s, !.stamp = stamps + 1])
    BY <1>4 DEF EndLooks
  <2>2. [Idle EXCEPT !.pc = "slots", !.shift = s, !.stamp = stamps + 1].pc = "slots"
    BY DEF Idle
  <2> QED BY <2>1, <2>2
<1>5. CASE EndReadsSlots(a)
  <2> DEFINE slot == NextSlot(now, UsedSlots(OpsDay(now)))
  <2>1. Begin(a, [request[a] EXCEPT !.pc = "write", !.slot = slot])
    BY <1>5 DEF EndReadsSlots
  <2> HIDE DEF slot
  <2>2. [request[a] EXCEPT !.pc = "write", !.slot = slot].pc = "write"
    BY RequestParts DEF Request
  <2> QED BY <2>1, <2>2
<1>6. CASE AddTaskLooks(a)
  <2>1. PICK s \in Open : Begin(a, [Idle EXCEPT !.pc = "add", !.shift = s])
    BY <1>6 DEF AddTaskLooks
  <2>2. [Idle EXCEPT !.pc = "add", !.shift = s].pc = "add"
    BY DEF Idle
  <2> QED BY <2>1, <2>2
<1> QED BY <1>1, <1>2, <1>3, <1>4, <1>5, <1>6 DEF Start, End

LEMMA TasksKept ==
    ASSUME TypeOK, NEW a \in Agents,
           Start(a) \/ End(a) \/ AddTaskLooks(a) \/ UpdateTaskReads(a) \/ Abandon(a),
           ~StartCreates(a)
    PROVE  tasks' = tasks
BY DEF Start, End, StartLooks, StartReadsPrevious, EndLooks, EndReadsSlots, EndWrites,
       AddTaskLooks, UpdateTaskReads, AboutTasks, Abandon, desk

LEMMA SignedStart == Init => SignedInv
BY IdleTyped DEF Init, SignedInv, DoneIsSigned

LEMMA SignedStep ==
    ASSUME TypeOK, SignedInv, [Next]_vars
    PROVE  SignedInv'
<1> DEFINE Quiet == \A b \in Agents : request'[b].pc = "update" =>
                        request[b].pc = "update" /\ request'[b].next = request[b].next
           Done == DoneIsSigned'
<1>1. Quiet => \A b \in Agents : request'[b].pc = "update" =>
                  request'[b].next.open \/ request'[b].next.by # Nobody
  BY DEF SignedInv
<1>2. tasks' = tasks => Done
  BY DEF SignedInv, DoneIsSigned
<1>3. CASE UNCHANGED vars \/ Tick
  BY <1>3 DEF vars, Tick, desk, SignedInv, DoneIsSigned
<1>4. ASSUME NEW a \in Agents, Start(a) \/ End(a) \/ AddTaskLooks(a) \/ Abandon(a)
      PROVE  SignedInv'
  <2>1. Quiet
    <3>1. PICK r : Begin(a, r) /\ r.pc # "update"
      BY <1>4, OneMoves
    <3> QED BY <3>1 DEF Begin, TypeOK
  <2>2. Done
    <3>1. CASE StartCreates(a)
      <4>1. ASSUME NEW t \in 1..Len(tasks') PROVE tasks'[t].open \/ tasks'[t].by # Nobody
        <5>1. t \in 1..Len(tasks) \/ t > Len(tasks)
          BY <3>1, ShiftCreated, TablesTyped
        <5> QED BY <3>1, <5>1, ShiftCreated DEF SignedInv, DoneIsSigned
      <4> QED BY <4>1 DEF DoneIsSigned
    <3>2. CASE ~StartCreates(a)
      BY <1>2, <1>4, <3>2, TasksKept
    <3> QED BY <3>1, <3>2
  <2> QED BY <1>1, <2>1, <2>2 DEF SignedInv
<1>5. ASSUME NEW a \in Agents, UpdateTaskReads(a) PROVE SignedInv'
  <2>1. PICK t \in 1..Len(tasks), r \in Request :
          /\ Begin(a, r)
          /\ tasks[t].open \/ tasks[t].by # Nobody => r.next.open \/ r.next.by # Nobody
    BY <1>5, UpdateRead
  <2>2. r.next.open \/ r.next.by # Nobody
    BY <2>1 DEF SignedInv, DoneIsSigned
  <2>3. \A b \in Agents : request'[b] = IF b = a THEN r ELSE request[b]
    BY <2>1 DEF Begin, TypeOK
  <2>4. Done
    BY <1>2, <1>5 DEF UpdateTaskReads, AboutTasks, desk
  <2> QED BY <2>2, <2>3, <2>4 DEF SignedInv
<1>6. ASSUME NEW a \in Agents, AddTaskCreates(a) \/ UpdateTaskWrites(a) PROVE SignedInv'
  <2>1. PICK t \in Nat : Touch(a, t)
    BY <1>6, TaskAdded, TaskUpdated
  <2>2. Quiet
    <3>1. ASSUME NEW b \in Agents, b # a
          PROVE  request'[b].pc = request[b].pc /\ request'[b].next = request[b].next
      <4>1. request'[b] = [request[b] EXCEPT !.changed = request'[b].changed]
        BY <2>1, <3>1, TaskTouched
      <4> QED BY <4>1, RequestParts DEF Request
    <3>2. request'[a].pc = "idle"
      BY <2>1, TaskTouched, IdleTyped
    <3> QED BY <3>1, <3>2
  <2>3. CASE AddTaskCreates(a)
    <3>1. ASSUME NEW u \in 1..Len(tasks') PROVE tasks'[u].open \/ tasks'[u].by # Nobody
      <4>1. u \in 1..Len(tasks) \/ u = Len(tasks) + 1
        BY <2>3, TaskAdded, TablesTyped
      <4> QED BY <2>3, <4>1, TaskAdded DEF SignedInv, DoneIsSigned
    <3>2. Done
      BY <3>1 DEF DoneIsSigned
    <3> QED BY <1>1, <2>2, <3>2 DEF SignedInv
  <2>4. CASE UpdateTaskWrites(a)
    <3>1. Done
      BY <2>4, TaskUpdated DEF SignedInv, DoneIsSigned
    <3> QED BY <1>1, <2>2, <3>1 DEF SignedInv
  <2> QED BY <1>6, <2>3, <2>4
<1> QED BY <1>3, <1>4, <1>5, <1>6 DEF Next, Task, Refused, vars

\* Who ticked this (shifts.service.ts:881): a task that is done names somebody,
\* however the reads and the writes of its updates cross.
THEOREM DoneStaysSigned == Spec => []DoneIsSigned
<1>1. SignedInv => DoneIsSigned
  BY DEF SignedInv
<1> QED BY <1>1, TypeStart, TypeStep, SignedStart, SignedStep, PTL DEF Spec

-----------------------------------------------------------------------------
(* What a shift is closed over.                                              *)

\* A step that leaves the closers of a shift with what they read gives them no
\* task but those it tells them of.
LEMMA QuietClosing ==
    ASSUME TypeOK, ClosingInv, StartsQuiet,
           \A a \in Agents, t \in 1..Len(tasks') : IsEnding(a)' =>
                \/ t \in 1..Len(tasks) /\ tasks'[t] = tasks[t]
                \/ tasks'[t].assignee = Nobody
                \/ t \in request'[a].changed
    PROVE  ClosingInv'
<1> SUFFICES ASSUME NEW a \in Agents \ Managers, IsEnding(a)',
                    NEW t \in 1..Len(tasks'),
                    tasks'[t].shift = request'[a].shift, tasks'[t].assignee = a, tasks'[t].open
             PROVE  t \in request'[a].changed
  BY DEF ClosingInv, Mine
<1>1. /\ IsEnding(a) /\ request'[a].shift = request[a].shift
      /\ request[a].changed \subseteq request'[a].changed
  BY DEF StartsQuiet
<1>2. CASE t \in 1..Len(tasks) /\ tasks'[t] = tasks[t]
  <2>1. t \in Mine(a, request[a].shift)
    BY <1>1, <1>2 DEF Mine
  <2> QED BY <1>1, <2>1 DEF ClosingInv
<1>3. a # Nobody
  BY DeskAssumption
<1> QED BY <1>2, <1>3

LEMMA OthersQuiet ==
    ASSUME TypeOK, NEW a \in Agents, Start(a) \/ EndWrites(a)
    PROVE  \A b \in Agents : IsEnding(b)' => IsEnding(b) /\ request'[b] = request[b]
<1>1. CASE StartLooks(a)
  <2>1. Begin(a, [Idle EXCEPT !.pc = "previous"])
    BY <1>1 DEF StartLooks
  <2> QED BY <2>1 DEF Begin, TypeOK, IsEnding, Idle
<1>2. CASE StartReadsPrevious(a)
  <2>1. PICK read : Begin(a, [request[a] EXCEPT !.pc = "create", !.read = read])
    BY <1>2 DEF StartReadsPrevious
  <2>2. [request[a] EXCEPT !.pc = "create", !.read = read].pc = "create"
    BY RequestParts DEF Request
  <2> QED BY <2>1, <2>2 DEF Begin, TypeOK, IsEnding
<1>3. CASE StartCreates(a) \/ EndWrites(a)
  <2>1. Begin(a, Idle)
    BY <1>3 DEF StartCreates, EndWrites, Leave, Begin
  <2> QED BY <2>1, IdleTyped DEF Begin, TypeOK, IsEnding
<1> QED BY <1>1, <1>2, <1>3 DEF Start

LEMMA ClosingStart == Init => ClosingInv
BY IdleTyped DEF Init, ClosingInv, IsEnding

LEMMA ClosingStep ==
    ASSUME TypeOK, ClosingInv, [Next]_vars
    PROVE  ClosingInv'
<1>1. CASE UNCHANGED vars \/ Tick
  BY <1>1 DEF vars, Tick, desk, ClosingInv, IsEnding, Mine
<1>2. ASSUME NEW a \in Agents, Task(a) \/ Abandon(a) \/ EndReadsSlots(a) PROVE ClosingInv'
  <2>1. StartsQuiet
    BY <1>2, TaskStepsQuiet
  <2>2. CASE AddTaskCreates(a) \/ UpdateTaskWrites(a)
    <3>1. PICK t \in Nat : /\ Touch(a, t)
                          /\ \A u \in 1..Len(tasks') : u # t =>
                               u \in 1..Len(tasks) /\ tasks'[u] = tasks[u]
      <4>1. CASE AddTaskCreates(a)
        BY <4>1, TaskAdded, TablesTyped
      <4>2. CASE UpdateTaskWrites(a)
        BY <4>2, TaskUpdated, TablesTyped
      <4> QED BY <2>2, <4>1, <4>2
    <3>2. \A b \in Agents : IsEnding(b)' => b # a /\ t \in request'[b].changed
      <4>1. \A b \in Agents : IsEnding(b)' => IsEnding(b)
        BY <2>1 DEF StartsQuiet
      <4>2. ~IsEnding(a)'
        BY <3>1, TaskTouched, IdleTyped DEF IsEnding
      <4> QED BY <3>1, <4>1, <4>2, TaskTouched
    <3> QED BY <2>1, <3>1, <3>2, QuietClosing
  <2>3. CASE ~(AddTaskCreates(a) \/ UpdateTaskWrites(a))
    <3>1. tasks' = tasks
      BY <1>2, <2>3
         DEF Task, AddTaskLooks, UpdateTaskReads, AboutTasks, Abandon, EndReadsSlots, desk
    <3> QED BY <2>1, <3>1, QuietClosing
  <2> QED BY <2>2, <2>3
<1>3. ASSUME NEW a \in Agents, Start(a) \/ EndWrites(a) PROVE ClosingInv'
  <2>1. \A b \in Agents : IsEnding(b)' => IsEnding(b) /\ request'[b] = request[b]
    BY <1>3, OthersQuiet
  <2>2. \A t \in 1..Len(tasks') : \/ t \in 1..Len(tasks) /\ tasks'[t] = tasks[t]
                                  \/ tasks'[t].assignee = Nobody
    <3>1. CASE StartCreates(a)
      BY <3>1, ShiftCreated, TablesTyped
    <3>2. CASE ~StartCreates(a)
      BY <1>3, <3>2, TasksKept DEF End
    <3> QED BY <3>1, <3>2
  <2> SUFFICES ASSUME NEW b \in Agents \ Managers, IsEnding(b)',
                      NEW t \in 1..Len(tasks'), tasks'[t].shift = request'[b].shift,
                      tasks'[t].assignee = b, tasks'[t].open
               PROVE  t \in request'[b].changed
    BY DEF ClosingInv, Mine
  <2>3. b # Nobody
    BY DeskAssumption
  <2>4. t \in Mine(b, request[b].shift)
    BY <2>1, <2>2, <2>3 DEF Mine
  <2> QED BY <2>1, <2>4 DEF ClosingInv
<1>4. ASSUME NEW a \in Agents, EndLooks(a) PROVE ClosingInv'
  <2>1. PICK s \in Open : /\ MayEnd(a, s)
                         /\ Begin(a, [Idle EXCEPT !.pc = "slots", !.shift = s,
                                                  !.stamp = stamps + 1])
    BY <1>4 DEF EndLooks
  <2>2. \A b \in Agents : request'[b] = IF b = a
          THEN [Idle EXCEPT !.pc = "slots", !.shift = s, !.stamp = stamps + 1] ELSE request[b]
    BY <2>1 DEF Begin, TypeOK
  <2>3. request'[a].shift = s
    BY <2>2 DEF Idle
  <2>4. tasks' = tasks
    BY <1>4 DEF EndLooks, desk
  <2>5. a \notin Managers => Mine(a, s) = {}
    BY <2>1 DEF MayEnd
  <2>6. ASSUME NEW b \in Agents \ Managers, IsEnding(b)'
        PROVE  Mine(b, request[b].shift)' \subseteq request'[b].changed
    <3>1. CASE b = a
      <4>1. Mine(b, request[b].shift)' = {}
        BY <2>3, <2>4, <2>5, <3>1 DEF Mine
      <4> QED BY <4>1
    <3>2. CASE b # a
      <4>1. request'[b] = request[b]
        BY <2>2, <3>2
      <4> QED BY <2>4, <2>6, <4>1 DEF ClosingInv, IsEnding, Mine
    <3> QED BY <3>1, <3>2
  <2> QED BY <2>6 DEF ClosingInv
<1> QED BY <1>1, <1>2, <1>3, <1>4 DEF Next, Start, End, Refused

\* Only a manager closes a shift over own open tasks, but for those that
\* changed while it was being closed (shifts.service.ts:396).
THEOREM ClosesOverNothing == Spec => ClosedOverNothing
<1> DEFINE Closes ==
        \A a \in Agents \ Managers :
            request[a].pc = "write" /\ shifts' # shifts =>
                \A t \in 1..Len(tasks) :
                    tasks[t].shift = request[a].shift /\ tasks[t].assignee = a /\ tasks[t].open
                        => t \in request[a].changed \/ request'[a].pc = "write"
<1>1. ClosingInv => Closes
  BY DEF ClosingInv, IsEnding, Mine
<1> QED BY <1>1, ClosingStart, ClosingStep, TypeStart, TypeStep, PTL DEF Spec, ClosedOverNothing

-----------------------------------------------------------------------------
(* How handovers are numbered.                                               *)

\* A step begins no request to end, and leaves the numbering alone.
EndsQuiet ==
    /\ UNCHANGED <<shifts, stamps, ending>>
    /\ \A b \in Agents :
        /\ IsEnding(b)' =>
             /\ IsEnding(b) /\ request'[b].shift = request[b].shift
             /\ request'[b].stamp = request[b].stamp
        /\ request'[b].pc = "write" =>
             now' = now /\ request[b].pc = "write" /\ request'[b].slot = request[b].slot

LEMMA QuietEnd ==
    ASSUME TypeOK, EndInv, EndsQuiet
    PROVE  EndInv'
<1>1. /\ Ended' = Ended /\ Open' = Open /\ NumbersFollow'
      /\ shifts' = shifts /\ stamps' = stamps /\ ending' = ending
  BY DEF EndsQuiet, EndInv, Ended, Open, NumbersFollow
<1>2. ASSUME ~ending, NEW b \in Agents, request'[b].pc = "write"
      PROVE  request'[b].slot = NextSlot(now, UsedSlots(OpsDay(now)))'
  <2>1. now' = now /\ request[b].pc = "write" /\ request'[b].slot = request[b].slot
    BY <1>2 DEF EndsQuiet
  <2>2. request[b].slot = NextSlot(now, UsedSlots(OpsDay(now)))
    BY <1>2, <2>1 DEF EndInv
  <2>3. NextSlot(now, UsedSlots(OpsDay(now)))' = NextSlot(now, UsedSlots(OpsDay(now)))
    BY <1>1, <2>1 DEF NextSlot, UsedSlots, OpsDay, SlotFromClock, Distance
  <2> QED BY <2>1, <2>2, <2>3
<1>3. \A b \in Agents : IsEnding(b)' => request'[b].stamp <= stamps
  BY DEF EndsQuiet, EndInv
<1>4. ASSUME ~ending
      PROVE  /\ \A b \in Agents, c \in Agents : IsEnding(b)' /\ IsEnding(c)' => b = c
             /\ \A b \in Agents : IsEnding(b)' =>
                  /\ request'[b].shift \in Open
                  /\ \A s \in Ended : shifts[s].endedAt < request'[b].stamp
  BY <1>4 DEF EndsQuiet, EndInv
<1>5. ASSUME ~ending
      PROVE  \A s \in Ended, e \in Ended :
               /\ shifts[s].endedAt = shifts[e].endedAt => s = e
               /\ shifts[s].day = shifts[e].day /\ shifts[s].endedAt < shifts[e].endedAt
                    => shifts[s].slot < shifts[e].slot
  BY <1>5 DEF EndInv
<1>6. \A s \in Ended : shifts[s].endedAt <= stamps
  BY DEF EndInv
<1> QED BY <1>1, <1>2, <1>3, <1>4, <1>5, <1>6 DEF EndInv

LEMMA EndedTyped ==
    ASSUME TypeOK, NEW s \in Ended
    PROVE  /\ s \in 1..Len(shifts) /\ shifts[s].day \in Nat
           /\ shifts[s].slot \in Nat /\ shifts[s].endedAt \in Nat
BY TablesTyped DEF Ended, Shift

\* The steps that concern no handover.
LEMMA OthersEndQuiet ==
    ASSUME TypeOK, NEW a \in Agents,
           Task(a) \/ Abandon(a) \/ StartLooks(a) \/ StartReadsPrevious(a)
    PROVE  EndsQuiet
<1>1. CASE AddTaskLooks(a) \/ UpdateTaskReads(a) \/ Abandon(a)
  <2>1. PICK r : Begin(a, r) /\ r.pc # "write"
    <3>1. CASE AddTaskLooks(a)
      <4>1. PICK s \in Open : Begin(a, [Idle EXCEPT !.pc = "add", !.shift = s])
        BY <3>1 DEF AddTaskLooks
      <4>2. [Idle EXCEPT !.pc = "add", !.shift = s].pc = "add"
        BY DEF Idle
      <4> QED BY <4>1, <4>2
    <3>2. CASE UpdateTaskReads(a)
      BY <3>2, UpdateRead
    <3>3. CASE Abandon(a)
      BY <3>3, IdleTyped DEF Abandon, Leave, Begin
    <3> QED BY <1>1, <3>1, <3>2, <3>3
  <2>2. now' = now
    BY <1>1 DEF AddTaskLooks, UpdateTaskReads, AboutTasks, Abandon
  <2>3. \A b \in Agents : request'[b].pc = "write" =>
          request[b].pc = "write" /\ request'[b].slot = request[b].slot
    BY <2>1 DEF Begin, TypeOK
  <2> QED BY <1>1, <2>2, <2>3, TaskStepsQuiet DEF Task, EndsQuiet, StartsQuiet
<1>2. CASE AddTaskCreates(a) \/ UpdateTaskWrites(a)
  <2>1. PICK t \in Nat : Touch(a, t)
    BY <1>2, TaskAdded, TaskUpdated
  <2>2. now' = now
    BY <1>2, TaskAdded, TaskUpdated
  <2>3. ASSUME NEW b \in Agents, request'[b].pc = "write"
        PROVE  request[b].pc = "write" /\ request'[b].slot = request[b].slot
    <3>1. b # a
      BY <2>1, <2>3, TaskTouched, IdleTyped
    <3>2. request'[b] = [request[b] EXCEPT !.changed = request'[b].changed]
      BY <2>1, <3>1, TaskTouched
    <3> QED BY <2>3, <3>2, RequestParts DEF Request
  <2> QED BY <1>2, <2>2, <2>3, TaskStepsQuiet DEF Task, EndsQuiet, StartsQuiet
<1>3. CASE StartLooks(a) \/ StartReadsPrevious(a)
  <2>1. \A b \in Agents : IsEnding(b)' => IsEnding(b) /\ request'[b] = request[b]
    BY <1>3, OthersQuiet DEF Start
  <2>2. UNCHANGED <<now, shifts, stamps, ending>>
    BY <1>3 DEF StartLooks, StartReadsPrevious, desk, counts, ghosts
  <2>3. \A b \in Agents : request'[b].pc = "write" => IsEnding(b)'
    BY DEF IsEnding
  <2> QED BY <2>1, <2>2, <2>3 DEF EndsQuiet
<1> QED BY <1>1, <1>2, <1>3 DEF Task

\* A shift that is created is not an ended one.
LEMMA CreatedEnd ==
    ASSUME TypeOK, EndInv, NEW a \in Agents, StartCreates(a)
    PROVE  EndInv'
<1>1. \A b \in Agents : IsEnding(b)' => IsEnding(b) /\ request'[b] = request[b]
  BY OthersQuiet DEF Start
<1>2. now' = now /\ stamps' = stamps /\ ending' = ending
  BY DEF StartCreates, counts, ghosts
<1>3. /\ Ended' = Ended /\ Open \subseteq Open'
      /\ \A s \in Ended : shifts'[s] = shifts[s]
  <2>1. /\ Len(shifts) \in Nat /\ Len(shifts') = Len(shifts) + 1
        /\ \A s \in 1..Len(shifts) : shifts'[s] = shifts[s]
        /\ shifts'[Len(shifts) + 1] = NewShift(request[a].read)
    BY ShiftCreated, TablesTyped
  <2>2. NewShift(request[a].read).open
    BY DEF NewShift
  <2> QED BY <2>1, <2>2 DEF Ended, Open
<1>4. \A day : UsedSlots(day)' = UsedSlots(day)
  BY <1>3 DEF UsedSlots
<1>5. NextSlot(now, UsedSlots(OpsDay(now)))' = NextSlot(now, UsedSlots(OpsDay(now)))
  BY <1>2, <1>4 DEF NextSlot, OpsDay, SlotFromClock, Distance
<1>6. NumbersFollow'
  BY <1>2, <1>3 DEF EndInv, NumbersFollow
<1>7. ASSUME ~ending, NEW b \in Agents, request'[b].pc = "write"
      PROVE  request'[b].slot = NextSlot(now, UsedSlots(OpsDay(now)))'
  <2>1. request'[b] = request[b]
    BY <1>1, <1>7 DEF IsEnding
  <2> QED BY <1>5, <1>7, <2>1 DEF EndInv
<1>8. /\ \A s \in Ended : shifts'[s].endedAt <= stamps
      /\ \A b \in Agents : IsEnding(b)' => request'[b].stamp <= stamps
  BY <1>1, <1>3 DEF EndInv
<1>9. ASSUME ~ending
      PROVE  /\ \A b \in Agents, c \in Agents : IsEnding(b)' /\ IsEnding(c)' => b = c
             /\ \A b \in Agents : IsEnding(b)' =>
                  /\ request'[b].shift \in Open'
                  /\ \A s \in Ended : shifts'[s].endedAt < request'[b].stamp
             /\ \A s \in Ended, e \in Ended :
                  /\ shifts'[s].endedAt = shifts'[e].endedAt => s = e
                  /\ shifts'[s].day = shifts'[e].day /\ shifts'[s].endedAt < shifts'[e].endedAt
                       => shifts'[s].slot < shifts'[e].slot
  BY <1>1, <1>3, <1>9 DEF EndInv
<1> QED BY <1>2, <1>3, <1>6, <1>7, <1>8, <1>9 DEF EndInv

LEMMA EndLooksEnd ==
    ASSUME TypeOK, EndInv, NEW a \in Agents, EndLooks(a)
    PROVE  EndInv'
<1>1. PICK i \in Open : Begin(a, [Idle EXCEPT !.pc = "slots", !.shift = i, !.stamp = stamps + 1])
  BY DEF EndLooks
<1>2. \A b \in Agents : request'[b] = IF b = a
        THEN [Idle EXCEPT !.pc = "slots", !.shift = i, !.stamp = stamps + 1] ELSE request[b]
  BY <1>1 DEF Begin, TypeOK
<1>3. request'[a].pc = "slots" /\ request'[a].shift = i /\ request'[a].stamp = stamps + 1
  BY <1>2 DEF Idle
<1>4. /\ shifts' = shifts /\ stamps' = stamps + 1 /\ stamps \in Nat
      /\ Open' = Open /\ Ended' = Ended
  BY TablesTyped DEF EndLooks, desk, Open, Ended
<1>5. ending' = (ending \/ \E b \in Agents : IsEnding(b))
  BY DEF EndLooks, IsEnding
<1>6. ASSUME ~ending'
      PROVE  ~ending /\ (\A b \in Agents : IsEnding(b)' => b = a)
  <2>1. ~ending /\ \A b \in Agents : ~IsEnding(b)
    BY Zenon, <1>5, <1>6
  <2> QED BY <1>2, <2>1 DEF IsEnding
<1>7. \A s \in Ended : shifts[s].endedAt \in Nat /\ shifts[s].endedAt <= stamps
  BY EndedTyped DEF EndInv
<1>8. \A s \in Ended : shifts[s].endedAt <= stamps + 1 /\ shifts[s].endedAt < stamps + 1
  BY <1>4, <1>7
<1>9. ASSUME NEW b \in Agents, IsEnding(b)' PROVE request'[b].stamp <= stamps + 1
  <2>1. CASE b = a
    BY <1>3, <1>4, <2>1
  <2>2. CASE b # a
    <3>1. request[b].stamp <= stamps /\ request[b].stamp \in Nat /\ request'[b] = request[b]
      BY <1>2, <1>9, <2>2, RequestParts DEF EndInv, IsEnding, Request
    <3> QED BY <1>4, <3>1
  <2> QED BY <2>1, <2>2
<1>10. NumbersFollow'
  <2>1. ~ending' => ~ending
    BY <1>6
  <2> QED BY <1>4, <2>1 DEF EndInv, NumbersFollow
<1>11. ASSUME ~ending'
       PROVE  /\ \A b \in Agents, c \in Agents : IsEnding(b)' /\ IsEnding(c)' => b = c
              /\ \A b \in Agents : IsEnding(b)' =>
                   /\ request'[b].shift \in Open
                   /\ \A s \in Ended : shifts[s].endedAt < request'[b].stamp
              /\ \A b \in Agents : request'[b].pc # "write"
  BY <1>3, <1>6, <1>8, <1>11 DEF IsEnding
<1>12. ASSUME ~ending'
       PROVE  \A s \in Ended, e \in Ended :
                /\ shifts[s].endedAt = shifts[e].endedAt => s = e
                /\ shifts[s].day = shifts[e].day /\ shifts[s].endedAt < shifts[e].endedAt
                     => shifts[s].slot < shifts[e].slot
  BY <1>6, <1>12 DEF EndInv
<1> QED BY <1>4, <1>8, <1>9, <1>10, <1>11, <1>12 DEF EndInv

LEMMA EndReadsEnd ==
    ASSUME TypeOK, EndInv, NEW a \in Agents, EndReadsSlots(a)
    PROVE  EndInv'
<1> DEFINE next == NextSlot(now, UsedSlots(OpsDay(now)))
<1>1. /\ StartsQuiet
      /\ UNCHANGED <<shifts, stamps, ending>>
  BY TaskStepsQuiet
<1>2. now' = now /\ next' = next
  BY <1>1 DEF EndReadsSlots, NextSlot, UsedSlots, OpsDay, SlotFromClock, Distance, Ended
<1>3. ASSUME ~ending, NEW b \in Agents, request'[b].pc = "write"
      PROVE  request'[b].slot = next
  <2>1. request' = [request EXCEPT ![a] = [request[a] EXCEPT !.pc = "write", !.slot = next]]
    BY DEF EndReadsSlots, Begin
  <2>2. request[b].pc = "write" => request[b].slot = next
    BY <1>3 DEF EndInv
  <2> HIDE DEF next
  <2> QED BY <1>3, <2>1, <2>2, RequestParts DEF Request, TypeOK
<1> HIDE DEF next
<1>4. /\ Ended' = Ended /\ Open' = Open /\ NumbersFollow'
      /\ \A b \in Agents : IsEnding(b)' => request'[b].stamp <= stamps
  BY <1>1 DEF StartsQuiet, EndInv, Ended, Open, NumbersFollow
<1>5. ASSUME ~ending
      PROVE  /\ \A b \in Agents, c \in Agents : IsEnding(b)' /\ IsEnding(c)' => b = c
             /\ \A b \in Agents : IsEnding(b)' =>
                  /\ request'[b].shift \in Open
                  /\ \A s \in Ended : shifts[s].endedAt < request'[b].stamp
  BY <1>1, <1>5 DEF StartsQuiet, EndInv
<1>6. ASSUME ~ending
      PROVE  \A s \in Ended, e \in Ended :
               /\ shifts[s].endedAt = shifts[e].endedAt => s = e
               /\ shifts[s].day = shifts[e].day /\ shifts[s].endedAt < shifts[e].endedAt
                    => shifts[s].slot < shifts[e].slot
  BY <1>6 DEF EndInv
<1>7. \A s \in Ended : shifts[s].endedAt <= stamps
  BY DEF EndInv
<1> QED BY <1>1, <1>2, <1>3, <1>4, <1>5, <1>6, <1>7 DEF EndInv, next

\* The handover that is written is the last of its day, and its number is one
\* more than the greatest, which is that of the last before it.
LEMMA EndWritesEnd ==
    ASSUME TypeOK, EndInv, NEW a \in Agents, EndWrites(a)
    PROVE  EndInv'
<1> DEFINE i == request[a].shift
           x == request[a].stamp
           day == OpsDay(now)
           used == UsedSlots(day)
<1>1. /\ \A b \in Agents : IsEnding(b)' => IsEnding(b) /\ request'[b] = request[b]
      /\ ~IsEnding(a)' /\ IsEnding(a)
  <2>1. \A b \in Agents : request'[b] = IF b = a THEN Idle ELSE request[b]
    BY DEF EndWrites, Leave, TypeOK
  <2> QED BY <2>1, IdleTyped DEF IsEnding, EndWrites
<1>2. /\ i \in 1..Len(shifts) /\ Len(shifts') = Len(shifts)
      /\ \A s \in 1..Len(shifts) : s # i => shifts'[s] = shifts[s]
      /\ ~shifts'[i].open /\ shifts'[i].day = day /\ shifts'[i].endedAt = x
      /\ shifts'[i].slot = request[a].slot /\ request[a].pc = "write"
      /\ UNCHANGED <<now, stamps, ending>>
  BY ShiftEnded DEF EndWrites, counts, ghosts
<1>3. x \in Nat /\ x <= stamps /\ \A s \in Ended : shifts[s].endedAt <= stamps
  BY <1>1, RequestParts DEF EndInv, Request
<1>4. used \in SUBSET Nat /\ IsFiniteSet(used)
  BY UsedTyped
<1>5. \A s \in Ended : shifts[s].day = day => shifts[s].slot \in used
  BY DEF UsedSlots
<1>6. \A u \in used : \E s \in Ended : shifts[s].day = day /\ shifts[s].slot = u
  BY DEF UsedSlots
<1>7. ~ending => request[a].slot = NextSlot(now, used)
  BY <1>2 DEF EndInv
<1> HIDE DEF i, x, day, used
<1>8. Ended' = Ended \cup {i} /\ Open' = Open \ {i}
  BY <1>2 DEF Ended, Open
<1>9. /\ \A s \in Ended' : shifts'[s].endedAt <= stamps
      /\ \A b \in Agents : IsEnding(b)' => request'[b].stamp <= stamps
  <2>1. \A s \in Ended : s \in 1..Len(shifts)
    BY EndedTyped
  <2> QED BY <1>1, <1>2, <1>3, <1>8, <2>1 DEF EndInv
<1>10. ASSUME ~ending
       PROVE  /\ i \in Open /\ i \notin Ended
              /\ \A s \in Ended : shifts[s].endedAt < x /\ shifts'[s] = shifts[s]
              /\ \A b \in Agents : ~IsEnding(b)'
  <2>1. i \in Open /\ \A s \in Ended : shifts[s].endedAt < x
    BY <1>1, <1>10 DEF EndInv, i, x
  <2>2. i \notin Ended
    BY <2>1 DEF Open, Ended
  <2>3. \A s \in Ended : shifts'[s] = shifts[s]
    BY <1>2, <2>2, EndedTyped
  <2>4. \A b \in Agents : ~IsEnding(b)'
    BY <1>1, <1>10 DEF EndInv
  <2> QED BY <2>1, <2>2, <2>3, <2>4
<1>11. ASSUME ~ending, NEW s \in Ended, shifts[s].day = day
       PROVE  request[a].slot = Max(used) + 1 /\ shifts[s].slot <= Max(used)
              /\ Max(used) \in Nat /\ Max(used) \in used
  <2>1. used # {}
    BY <1>5, <1>11
  <2> QED BY <1>4, <1>5, <1>7, <1>11, <2>1, MaxIsGreatest DEF NextSlot
<1>12. ASSUME ~ending, NEW s \in Ended', NEW e \in Ended'
       PROVE  /\ shifts'[s].endedAt = shifts'[e].endedAt => s = e
              /\ shifts'[s].day = shifts'[e].day /\ shifts'[s].endedAt < shifts'[e].endedAt
                   => shifts'[s].slot < shifts'[e].slot
  <2>1. CASE s \in Ended /\ e \in Ended
    BY <1>10, <1>12, <2>1 DEF EndInv
  <2>2. CASE s \in Ended /\ e = i
    <3>1. shifts[s].endedAt \in Nat /\ shifts[s].slot \in Nat
      BY <2>2, EndedTyped
    <3>2. shifts'[s] = shifts[s] /\ shifts[s].endedAt < x /\ shifts'[e].endedAt = x
          /\ shifts'[e].slot = request[a].slot /\ shifts'[e].day = day
      BY <1>2, <1>10, <1>12, <2>2
    <3>3. shifts[s].day = day => shifts[s].slot < request[a].slot
      BY <1>11, <1>12, <2>2, <3>1
    <3> QED BY <1>3, <3>1, <3>2, <3>3
  <2>3. CASE s = i /\ e \in Ended
    <3>1. shifts[e].endedAt \in Nat /\ shifts'[e] = shifts[e] /\ shifts[e].endedAt < x
      BY <1>10, <1>12, <2>3, EndedTyped
    <3> QED BY <1>2, <1>3, <2>3, <3>1
  <2>4. CASE s = i /\ e = i
    BY <1>2, <1>3, <2>4
  <2> QED BY <1>8, <2>1, <2>2, <2>3, <2>4
<1>13. ASSUME ~ending, NEW s \in Ended', NEW e \in Ended' \ {s},
              shifts'[s].day = shifts'[e].day, shifts'[s].endedAt < shifts'[e].endedAt,
              \A m \in Ended' : shifts'[m].day = shifts'[s].day =>
                  ~(shifts'[s].endedAt < shifts'[m].endedAt
                      /\ shifts'[m].endedAt < shifts'[e].endedAt)
       PROVE  shifts'[e].slot = shifts'[s].slot + 1
  <2>1. CASE s \in Ended /\ e \in Ended
    <3>1. \A m \in Ended : shifts[m].day = shifts[s].day =>
            ~(shifts[s].endedAt < shifts[m].endedAt /\ shifts[m].endedAt < shifts[e].endedAt)
      BY <1>8, <1>10, <1>13, <2>1
    <3>2. NumbersFollow /\ shifts'[s] = shifts[s] /\ shifts'[e] = shifts[e]
      BY <1>10, <1>13, <2>1 DEF EndInv
    <3> QED BY <1>13, <2>1, <3>1, <3>2 DEF NumbersFollow
  <2>2. CASE s \in Ended /\ e = i
    <3>1. shifts'[s] = shifts[s] /\ shifts[s].day = day
      BY <1>2, <1>10, <1>13, <2>2
    <3>2. PICK m \in Ended : shifts[m].day = day /\ shifts[m].slot = Max(used)
      BY <1>6, <1>11, <1>13, <2>2, <3>1
    <3>3. shifts'[m] = shifts[m] /\ shifts[m].endedAt < x /\ shifts'[e].endedAt = x
      BY <1>2, <1>10, <1>13, <2>2
    <3>4. ~(shifts[s].endedAt < shifts[m].endedAt)
      BY <1>8, <1>13, <3>1, <3>2, <3>3
    <3>5. CASE shifts[m].endedAt = shifts[s].endedAt
      <4>1. m = s
        BY <1>13, <2>2, <3>5 DEF EndInv
      <4> QED BY <1>2, <1>11, <1>13, <2>2, <3>1, <3>2, <4>1
    <3>6. CASE shifts[m].endedAt < shifts[s].endedAt
      <4>1. shifts[m].slot < shifts[s].slot
        BY <1>13, <2>2, <3>1, <3>2, <3>6 DEF EndInv
      <4>2. shifts[s].slot <= shifts[m].slot
        BY <1>11, <1>13, <2>2, <3>1, <3>2
      <4> QED BY <2>2, <4>1, <4>2, EndedTyped
    <3>7. shifts[m].endedAt \in Nat /\ shifts[s].endedAt \in Nat
      BY <2>2, EndedTyped
    <3> QED BY <3>4, <3>5, <3>6, <3>7
  <2>3. CASE s = i /\ e \in Ended
    <3>1. shifts[e].endedAt \in Nat /\ shifts'[e] = shifts[e] /\ shifts[e].endedAt < x
      BY <1>10, <1>13, <2>3, EndedTyped
    <3> QED BY <1>2, <1>3, <1>13, <2>3, <3>1
  <2> QED BY <1>8, <1>13, <2>1, <2>2, <2>3
<1>14. NumbersFollow'
  BY <1>2, <1>13 DEF NumbersFollow
<1>15. ASSUME ~ending
       PROVE  /\ \A b \in Agents : request'[b].pc # "write"
              /\ \A b \in Agents : ~IsEnding(b)'
  BY <1>10, <1>15 DEF IsEnding
<1> QED BY <1>2, <1>9, <1>12, <1>14, <1>15 DEF EndInv

LEMMA EndStep ==
    ASSUME TypeOK, EndInv, [Next]_vars
    PROVE  EndInv'
<1>1. CASE UNCHANGED vars
  <2>1. EndsQuiet
    BY <1>1 DEF vars, desk, counts, ghosts, EndsQuiet, IsEnding
  <2> QED BY <2>1, QuietEnd
<1>2. CASE Tick
  <2>1. EndsQuiet
    BY <1>2 DEF Tick, desk, counts, ghosts, EndsQuiet, IsEnding
  <2> QED BY <2>1, QuietEnd
<1>3. ASSUME NEW a \in Agents,
             Task(a) \/ Abandon(a) \/ StartLooks(a) \/ StartReadsPrevious(a)
      PROVE  EndInv'
  BY <1>3, OthersEndQuiet, QuietEnd
<1> QED BY <1>1, <1>2, <1>3, CreatedEnd, EndLooksEnd, EndReadsEnd, EndWritesEnd
        DEF Next, Start, End, Refused

LEMMA EndStart == Init => EndInv
BY IdleTyped DEF Init, EndInv, NumbersFollow, Ended, Open, IsEnding

\* Every handover after the first of its day is the previous number plus one
\* (ops-day.ts:20), while requests to end do not overlap.
THEOREM HandoversFollow == Spec => []NumbersFollow
<1>1. EndInv => NumbersFollow
  BY DEF EndInv
<1> QED BY <1>1, TypeStart, TypeStep, EndStart, EndStep, PTL DEF Spec
=============================================================================
