---------------------------- MODULE LedgerProofs ----------------------------
(***************************************************************************)
(* The ledger of a payment provider and what is reconciled: that what was    *)
(* read is the ledger as it is (PspLedger), what a statement differs from it *)
(* by (PspReconcile), and what the verdicts on a period's files rest on      *)
(* (ReconEngine), for every ledger, statement and set of files.              *)
(***************************************************************************)
EXTENDS PspLedger, PspReconcile, ReconEngine, SetLemmas, SequenceTheorems

-----------------------------------------------------------------------------
(* A sync of the ledger: types. *)

LEMMA IdleTyped == Idle \in Run
<1>1. 0 \in 0..MaxPages
  BY LedgerAssumption
<1> QED BY <1>1 DEF Idle, Run

LEMMA Typed ==
    ASSUME TypeOK
    PROVE  /\ feed \in Nat /\ feed <= MaxFeed /\ MaxFeed \in Nat /\ PageSize \in Nat \ {0}
           /\ MaxPages \in Nat \ {0} /\ Idle \in Run /\ Payments \cup {0} = 0..MaxFeed
           /\ \A r \in Runs : /\ run[r] \in Run /\ run[r].pages \in Nat
                              /\ run[r].base \in Nat /\ run[r].base <= feed
<1>1. /\ feed \in Nat /\ feed <= MaxFeed /\ MaxFeed \in Nat /\ PageSize \in Nat \ {0}
      /\ MaxPages \in Nat \ {0}
  BY LedgerAssumption DEF TypeOK
<1>2. Payments \cup {0} = 0..MaxFeed
  BY <1>1 DEF Payments
<1>3. 0 \in 0..MaxPages /\ 0..MaxPages \subseteq Nat
  BY <1>1
<1>4. Idle \in Run
  BY IdleTyped
<1>5. \A r \in Runs : run[r] \in Run
  BY DEF TypeOK
<1> QED BY <1>1, <1>2, <1>3, <1>4, <1>5 DEF Run, TypeOK

LEMMA Moves ==
    ASSUME TypeOK, NEW r \in Runs, NEW s \in Run, Become(r, s)
    PROVE  /\ run' \in [Runs -> Run]
           /\ \A q \in Runs : run'[q] = IF q = r THEN s ELSE run[q]
BY DEF TypeOK, Become

LEMMA OneMoves ==
    ASSUME TypeOK, NEW r \in Runs, NEW s \in Run, Become(r, s), s.base <= feed,
           provider' = provider, status' \in [Payments -> Statuses \cup {"none"}],
           health' \in {"untried", "ok", "error"},
           files' \in 0..MaxEvents, faults' \in 0..MaxEvents
    PROVE  TypeOK'
BY Moves DEF TypeOK, provider

LEMMA PageTyped ==
    ASSUME TypeOK, NEW offset
    PROVE  Page(offset) \subseteq 1..feed /\ Page(offset) \subseteq Payments
BY Typed DEF Page, Payments

\* What one step of a run makes of it, and what it leaves alone.
LEMMA Fetched ==
    ASSUME TypeOK, NEW r \in Runs, FetchPage(r)
    PROVE  \E s \in Run :
             /\ Become(r, s) /\ s.base = run[r].base /\ s.pages = run[r].pages + 1
             /\ s.file = run[r].file /\ s.pc # "fetch"
             /\ \/ /\ Answer(r) = {} /\ s.stop = "end" /\ s.todo = run[r].todo
                   /\ s.seen = run[r].seen /\ s.short = run[r].short
                \/ /\ Answer(r) # {} /\ s.stop = run[r].stop
                   /\ s.todo = {<<p, Listed(p)>> : p \in Answer(r) \ run[r].seen}
                   /\ s.seen = run[r].seen \cup Answer(r) /\ s.short = ShortPage(Answer(r))
<1> DEFINE records == Answer(r)
           due == {<<p, Listed(p)>> : p \in records \ run[r].seen}
           short == ShortPage(records)
           seen == run[r].seen \cup records
           again == records \ run[r].seen = {}
<1>1. run[r] \in Run /\ run[r].pages + 1 \in 0..MaxPages
  BY Typed DEF FetchPage, AtLimit, Run
<1>2. records \subseteq Payments
  BY PageTyped DEF Answer
<1>3. \A p : Listed(p) \in Statuses
  BY DEF Listed, Statuses
<1>4. due \in SUBSET (Payments \X Statuses) /\ seen \in SUBSET Payments
  BY <1>1, <1>2, <1>3 DEF Run
<1>5. short \in BOOLEAN /\ again \in BOOLEAN
  BY DEF ShortPage
<1>6. CASE records = {}
  <2> DEFINE s == [run[r] EXCEPT !.pc = "finish", !.stop = "end", !.pages = @ + 1]
  <2>1. Become(r, s)
    BY <1>6 DEF FetchPage
  <2>2. /\ s \in Run /\ s.base = run[r].base /\ s.pages = run[r].pages + 1
        /\ s.file = run[r].file /\ s.pc # "fetch" /\ s.stop = "end"
        /\ s.todo = run[r].todo /\ s.seen = run[r].seen /\ s.short = run[r].short
    BY <1>1 DEF Run
  <2> HIDE DEF s, records
  <2> QED BY <1>6, <2>1, <2>2 DEF records
<1>7. CASE records # {}
  <2> DEFINE s == [run[r] EXCEPT !.pc = "find", !.pages = @ + 1, !.todo = due,
                     !.seen = seen, !.fresh = FALSE, !.again = again, !.short = short]
  <2>1. Become(r, s)
    BY <1>7 DEF FetchPage, Remember
  <2> HIDE DEF due, seen, again, short, records
  <2>2. /\ s \in Run /\ s.base = run[r].base /\ s.pages = run[r].pages + 1
        /\ s.file = run[r].file /\ s.pc # "fetch" /\ s.stop = run[r].stop
        /\ s.todo = due /\ s.seen = seen /\ s.short = short
    BY <1>1, <1>4, <1>5 DEF Run
  <2> HIDE DEF s
  <2> QED BY <1>7, <2>1, <2>2 DEF records, due, seen, short
<1> QED BY <1>6, <1>7

LEMMA Stopped ==
    ASSUME TypeOK, NEW r \in Runs,
           NEW why \in {"end", "limit", "time", "ignored", "current", "file"}, Stop(r, why)
    PROVE  \E s \in Run :
             /\ Become(r, s) /\ s.base = run[r].base /\ s.pages = run[r].pages
             /\ s.pc = "finish" /\ s.stop = why /\ s.todo = run[r].todo
             /\ s.seen = run[r].seen /\ s.short = run[r].short
<1> DEFINE s == [run[r] EXCEPT !.pc = "finish", !.stop = why]
<1>1. run[r] \in Run
  BY Typed
<1>2. Become(r, s)
  BY DEF Stop
<1>3. /\ s \in Run /\ s.base = run[r].base /\ s.pages = run[r].pages
      /\ s.pc = "finish" /\ s.stop = why /\ s.todo = run[r].todo
      /\ s.seen = run[r].seen /\ s.short = run[r].short
  BY <1>1 DEF Run
<1> HIDE DEF s
<1> QED BY <1>2, <1>3

LEMMA Found ==
    ASSUME TypeOK, NEW r \in Runs, Find(r)
    PROVE  \E s \in Run :
             /\ Become(r, s) /\ s.base = run[r].base /\ s.pages = run[r].pages
             /\ s.pc = "write" /\ s.stop = run[r].stop /\ s.todo = run[r].todo
             /\ s.seen = run[r].seen /\ s.short = run[r].short
<1>1. PICK t : Become(r, [run[r] EXCEPT !.pc = "write", !.found = status[t[1]] # "none"])
  BY DEF Find
<1> DEFINE found == status[t[1]] # "none"
           s == [run[r] EXCEPT !.pc = "write", !.found = found]
<1>2. Become(r, s)
  BY <1>1
<1>3. found \in BOOLEAN /\ run[r] \in Run
  BY Typed
<1> HIDE DEF found
<1>4. /\ s \in Run /\ s.base = run[r].base /\ s.pages = run[r].pages
      /\ s.pc = "write" /\ s.stop = run[r].stop /\ s.todo = run[r].todo
      /\ s.seen = run[r].seen /\ s.short = run[r].short
  BY <1>3 DEF Run
<1> HIDE DEF s
<1> QED BY <1>2, <1>4

\* A row is written, whether it was there or not, or the run ends.
LEMMA Written ==
    ASSUME TypeOK, NEW r \in Runs, Write(r)
    PROVE  \/ Become(r, Idle) /\ status' = status
           \/ \E s \in Run, t \in run[r].todo :
                /\ Become(r, s) /\ s.base = run[r].base /\ s.pages = run[r].pages
                /\ s.pc = "find" /\ s.stop = run[r].stop /\ s.todo = run[r].todo \ {t}
                /\ s.seen = run[r].seen /\ s.short = run[r].short
                /\ status' \in [Payments -> Statuses \cup {"none"}]
                /\ \A p \in Payments :
                     status'[p] # "none" <=> (p = t[1] \/ status[p] # "none")
<1>1. PICK t \in run[r].todo : Update(r, t) \/ Create(r, t) \/ Collide(r, t)
  BY DEF Write
<1>2. CASE Collide(r, t)
  BY <1>2 DEF Collide
<1>3. CASE Update(r, t) \/ Create(r, t)
  <2>1. run[r] \in Run /\ t[1] \in Payments /\ t[2] \in Statuses
    BY Typed DEF Run
  <2>2. status' = [status EXCEPT ![t[1]] = t[2]]
    BY <1>3 DEF Update, Create, RefreshedStatus
  <2>3. /\ status' \in [Payments -> Statuses \cup {"none"}]
        /\ \A p \in Payments : status'[p] # "none" <=> (p = t[1] \/ status[p] # "none")
    BY <2>1, <2>2 DEF TypeOK, Statuses
  <2>4. PICK fresh \in BOOLEAN :
          Become(r, [run[r] EXCEPT !.pc = "find", !.todo = @ \ {t}, !.fresh = fresh])
    <3>1. CASE Update(r, t)
      <4>1. [run[r] EXCEPT !.pc = "find", !.todo = @ \ {t}] =
            [run[r] EXCEPT !.pc = "find", !.todo = @ \ {t}, !.fresh = run[r].fresh]
        BY <2>1 DEF Run
      <4>2. run[r].fresh \in BOOLEAN
        BY <2>1 DEF Run
      <4> QED BY <3>1, <4>1, <4>2 DEF Update
    <3>2. CASE Create(r, t)
      BY <3>2 DEF Create
    <3> QED BY <1>3, <3>1, <3>2
  <2> DEFINE s == [run[r] EXCEPT !.pc = "find", !.todo = run[r].todo \ {t}, !.fresh = fresh]
  <2>5. Become(r, s)
    BY <2>4
  <2>6. /\ s \in Run /\ s.base = run[r].base /\ s.pages = run[r].pages
        /\ s.pc = "find" /\ s.stop = run[r].stop /\ s.todo = run[r].todo \ {t}
        /\ s.seen = run[r].seen /\ s.short = run[r].short
    BY <2>1 DEF Run
  <2> HIDE DEF s
  <2> QED BY <2>3, <2>5, <2>6
<1> QED BY <1>1, <1>2, <1>3

\* After a page the run stops, at the end only when the page was short, or
\* goes on to the next.
LEMMA PageEnded ==
    ASSUME TypeOK, NEW r \in Runs, EndPage(r)
    PROVE  \E s \in Run :
             /\ Become(r, s) /\ s.base = run[r].base /\ s.pages = run[r].pages
             /\ s.stop \in {run[r].stop, "file", "ignored", "current"}
                  \/ (s.stop = "end" /\ run[r].short)
             /\ s.todo = run[r].todo /\ run[r].todo = {}
             /\ s.seen = run[r].seen /\ s.short = run[r].short
<1>1. \/ \E why \in {"file", "ignored", "current"} : Stop(r, why)
      \/ run[r].short /\ Stop(r, "end")
      \/ Become(r, [run[r] EXCEPT !.pc = "fetch"])
  BY DEF EndPage
<1>2. CASE Become(r, [run[r] EXCEPT !.pc = "fetch"])
  <2> DEFINE s == [run[r] EXCEPT !.pc = "fetch"]
  <2>1. /\ s \in Run /\ s.base = run[r].base /\ s.pages = run[r].pages
        /\ s.stop = run[r].stop /\ s.todo = run[r].todo
        /\ s.seen = run[r].seen /\ s.short = run[r].short
    BY Typed DEF Run
  <2> HIDE DEF s
  <2> QED BY <1>2, <2>1 DEF EndPage, s
<1>3. CASE \E why \in {"file", "ignored", "current"} : Stop(r, why)
  <2>1. PICK why \in {"file", "ignored", "current"} : Stop(r, why)
    BY <1>3
  <2> QED BY <2>1, Stopped DEF EndPage
<1>4. CASE run[r].short /\ Stop(r, "end")
  BY <1>4, Stopped DEF EndPage
<1> QED BY <1>1, <1>2, <1>3, <1>4

LEMMA Begun ==
    ASSUME TypeOK, NEW r \in Runs, Begin(r)
    PROVE  \E s \in Run :
             /\ Become(r, s) /\ s.base = feed /\ s.pages = 0 /\ s.stop = "none"
             /\ s.todo = {} /\ s.seen = {} /\ ~s.short
<1>1. PICK full \in Modes : Become(r, [Idle EXCEPT !.pc = "fetch", !.full = full, !.base = feed])
  BY DEF Begin
<1> DEFINE s == [Idle EXCEPT !.pc = "fetch", !.full = full, !.base = feed]
<1>2. full \in BOOLEAN /\ feed \in Payments \cup {0}
  BY LedgerAssumption, Typed
<1>3. /\ s \in Run /\ s.base = feed /\ s.pages = 0 /\ s.stop = "none"
      /\ s.todo = {} /\ s.seen = {} /\ ~s.short
  <2>1. s.pages = 0 /\ s.stop = "none" /\ s.todo = {} /\ s.seen = {} /\ ~s.short
    BY DEF Idle
  <2>2. s \in Run /\ s.base = feed
    BY <1>2, IdleTyped DEF Run
  <2> QED BY <2>1, <2>2
<1>4. Become(r, s)
  BY <1>1
<1> HIDE DEF s
<1> QED BY <1>3, <1>4

LEMMA Imported ==
    ASSUME TypeOK, NEW r \in Runs, Import(r)
    PROVE  \E s \in Run :
             /\ Become(r, s) /\ s.base = feed /\ s.pages = 0 /\ s.stop = "none"
             /\ s.pc = "find" /\ s.seen = {} /\ ~s.short
<1>1. PICK S \in SUBSET (1..feed), old \in SUBSET final :
        Become(r, [Idle EXCEPT
            !.pc = "find", !.file = TRUE, !.base = feed,
            !.todo = {<<p, IF p \in old THEN "confirmed" ELSE "waiting">> : p \in S}])
  BY DEF Import
<1> DEFINE due == {<<p, IF p \in old THEN "confirmed" ELSE "waiting">> : p \in S}
           s == [Idle EXCEPT !.pc = "find", !.file = TRUE, !.base = feed, !.todo = due]
<1>2. Become(r, s)
  BY <1>1
<1>3. due \in SUBSET (Payments \X Statuses) /\ feed \in Payments \cup {0}
  BY Typed DEF Payments, Statuses
<1> HIDE DEF due
<1>4. /\ s \in Run /\ s.base = feed /\ s.pages = 0 /\ s.stop = "none"
      /\ s.pc = "find" /\ s.seen = {} /\ ~s.short
  <2>1. s.pages = 0 /\ s.stop = "none" /\ s.seen = {} /\ ~s.short
    BY DEF Idle
  <2>2. s \in Run /\ s.base = feed /\ s.pc = "find"
    BY <1>3, IdleTyped DEF Run
  <2> QED BY <2>1, <2>2
<1> HIDE DEF s
<1> QED BY <1>2, <1>4

LEMMA FaultTyped ==
    ASSUME TypeOK, Fault
    PROVE  files' \in 0..MaxEvents /\ faults' \in 0..MaxEvents
BY LedgerAssumption DEF Fault, TypeOK

LEMMA TypeStart == Init => TypeOK
<1> SUFFICES ASSUME Init PROVE TypeOK
  OBVIOUS
<1>1. /\ feed \in 0..MaxFeed /\ final \in SUBSET (1..feed)
      /\ ignores \in BOOLEAN /\ cap \in 1..PageSize
      /\ health \in {"untried", "ok", "error"}
      /\ files \in 0..MaxEvents /\ faults \in 0..MaxEvents
  BY LedgerAssumption DEF Init
<1>2. status \in [Payments -> Statuses \cup {"none"}]
  BY DEF Init
<1>3. run \in [Runs -> Run] /\ \A r \in Runs : run[r].base = 0
  BY IdleTyped DEF Init, Idle
<1>4. 0 <= feed
  BY <1>1
<1> QED BY <1>1, <1>2, <1>3, <1>4 DEF TypeOK

LEMMA TypeStep ==
    ASSUME TypeOK, [Next]_vars
    PROVE  TypeOK'
<1>1. CASE UNCHANGED vars
  BY <1>1 DEF vars, provider, bounds, TypeOK
<1>2. CASE NewPayment
  <2>1. feed' \in 0..MaxFeed /\ 1..feed \subseteq 1..feed' /\ \A r \in Runs : run[r].base <= feed'
    BY <1>2, Typed DEF NewPayment
  <2> QED BY <1>2, <2>1 DEF NewPayment, bounds, TypeOK
<1>3. CASE Settle
  BY <1>3 DEF Settle, bounds, TypeOK
<1>4. ASSUME NEW r \in Runs, FetchPage(r) \/ Find(r) \/ EndPage(r) \/ StopAtLimit(r)
      PROVE  TypeOK'
  <2>1. PICK s \in Run : Become(r, s) /\ s.base = run[r].base
    BY <1>4, Fetched, Found, PageEnded, Stopped DEF StopAtLimit
  <2>2. /\ provider' = provider /\ status' = status /\ health' = health
        /\ files' = files /\ faults' = faults
    BY <1>4 DEF FetchPage, Find, EndPage, StopAtLimit, bounds
  <2> QED BY <2>1, <2>2, Typed, OneMoves DEF TypeOK
<1>5. ASSUME NEW r \in Runs, Write(r) PROVE TypeOK'
  <2>1. PICK s \in Run : /\ Become(r, s) /\ s.base <= feed
                        /\ status' \in [Payments -> Statuses \cup {"none"}]
    BY <1>5, Written, Typed DEF Idle, TypeOK
  <2>2. /\ provider' = provider /\ health' = health
        /\ files' = files /\ faults' = faults
    BY <1>5 DEF Write, bounds
  <2> QED BY <2>1, <2>2, OneMoves DEF TypeOK
<1>6. ASSUME NEW r \in Runs, Finish(r) \/ FetchFails(r) \/ Killed(r) PROVE TypeOK'
  <2>1. /\ Become(r, Idle) /\ provider' = provider /\ status' = status
        /\ health' \in {"untried", "ok", "error"}
    BY <1>6 DEF Finish, FetchFails, Killed, TypeOK
  <2>2. files' \in 0..MaxEvents /\ faults' \in 0..MaxEvents
    BY <1>6, FaultTyped DEF Finish, FetchFails, Killed, bounds, TypeOK
  <2>3. Idle.base <= feed
    BY Typed DEF Idle
  <2> QED BY <2>1, <2>2, <2>3, IdleTyped, OneMoves DEF TypeOK
<1>7. ASSUME NEW r \in Runs, OutOfTime(r) PROVE TypeOK'
  <2>1. PICK s \in Run : Become(r, s) /\ s.base = run[r].base
    BY <1>7, Stopped DEF OutOfTime
  <2>2. /\ provider' = provider /\ status' = status /\ health' = health
        /\ files' \in 0..MaxEvents /\ faults' \in 0..MaxEvents
    BY <1>7, FaultTyped DEF OutOfTime
  <2> QED BY <2>1, <2>2, Typed, OneMoves DEF TypeOK
<1>8. ASSUME NEW r \in Runs, Begin(r) PROVE TypeOK'
  <2>1. PICK s \in Run : Become(r, s) /\ s.base = feed
    BY <1>8, Begun
  <2>2. /\ provider' = provider /\ status' = status /\ health' = health
        /\ files' = files /\ faults' = faults
    BY <1>8 DEF Begin, bounds
  <2> QED BY <2>1, <2>2, Typed, OneMoves DEF TypeOK
<1>9. ASSUME NEW r \in Runs, Import(r) PROVE TypeOK'
  <2>1. PICK s \in Run : Become(r, s) /\ s.base = feed
    BY <1>9, Imported
  <2>2. /\ provider' = provider /\ status' = status /\ health' = health
        /\ files' = files + 1 /\ faults' = faults /\ files < MaxEvents
    BY <1>9 DEF Import
  <2>3. files' \in 0..MaxEvents
    BY <2>2, LedgerAssumption DEF TypeOK
  <2> QED BY <2>1, <2>2, <2>3, Typed, OneMoves DEF TypeOK
<1> QED BY <1>1, <1>2, <1>3, <1>4, <1>5, <1>6, <1>7, <1>8, <1>9 DEF Next, Sync

\* No run is about a payment the provider never had, and none writes a status
\* that is not one.
THEOREM LedgerTyped == Spec => []TypeOK
BY TypeStart, TypeStep, PTL DEF Spec

-----------------------------------------------------------------------------
(* A sync of the ledger: what a page covers. *)

LEMMA PageCovers ==
    ASSUME TypeOK, cap = PageSize, NEW offset \in Nat
    PROVE  /\ Page(offset) = {} => feed <= offset
           /\ ShortPage(Page(offset)) => feed < offset + PageSize
           /\ \A p \in 1..feed :
                p + offset <= feed /\ p + offset + PageSize > feed => p \in Page(offset)
<1>1. feed \in Nat /\ PageSize \in Nat /\ PageSize > 0
  BY Typed
<1>2. \A p \in 1..feed :
        p + offset <= feed /\ p + offset + PageSize > feed => p \in Page(offset)
  BY <1>1 DEF Page
<1>3. ASSUME feed > offset PROVE Page(offset) # {}
  <2>1. PICK p \in 1..feed : p = feed - offset
    BY <1>1, <1>3
  <2>2. p + offset <= feed /\ p + offset + PageSize > feed
    BY <1>1, <2>1
  <2> QED BY <1>2, <2>2
<1>4. ASSUME feed >= offset + PageSize PROVE ~ShortPage(Page(offset))
  <2> DEFINE first == feed - offset - PageSize + 1
             last == feed - offset
  <2>1. first \in Nat /\ last \in Nat /\ first <= last /\ last - first + 1 = PageSize
    BY <1>1, <1>4
  <2>2. Page(offset) = first..last
    BY <1>1, <1>4 DEF Page
  <2> HIDE DEF first, last
  <2>3. Cardinality(first..last) = last - first + 1
    BY <2>1, FS_Interval
  <2> QED BY <1>1, <2>1, <2>2, <2>3 DEF ShortPage
<1> QED BY <1>1, <1>2, <1>3, <1>4

\* The page a run gets next joins what it has seen.
LEMMA FetchCovers ==
    ASSUME TypeOK, cap = PageSize, NEW r \in Runs, Keeps(run[r])
    PROVE  /\ Answer(r) = {} => 1..run[r].base \subseteq run[r].seen
           /\ ShortPage(Answer(r)) => 1..run[r].base \subseteq run[r].seen \cup Answer(r)
           /\ ~ignores => \A p \in 1..run[r].base :
                p + (run[r].pages + 1) * PageSize > feed => p \in run[r].seen \cup Answer(r)
<1> DEFINE pages == run[r].pages
           base == run[r].base
           far == pages * PageSize
           offset == IF ignores THEN 0 ELSE far
<1>1. /\ pages \in Nat /\ PageSize \in Nat /\ PageSize > 0 /\ feed \in Nat
      /\ base \in Nat /\ base <= feed
  BY Typed
<1>2. far \in Nat /\ (pages + 1) * PageSize = far + PageSize
  BY <1>1
<1>3. ~ignores => \A p \in 1..base : p + far > feed => p \in run[r].seen
  BY DEF Keeps
<1>4. Answer(r) = Page(offset)
  BY DEF Answer
<1> HIDE DEF pages, base, far
<1>5. /\ Answer(r) = {} => feed <= offset
      /\ ShortPage(Answer(r)) => feed < offset + PageSize
      /\ \A p \in 1..feed :
           p + offset <= feed /\ p + offset + PageSize > feed => p \in Answer(r)
  BY <1>2, <1>4, PageCovers
<1>6. ASSUME ~ignores, NEW p \in 1..base, p + far + PageSize > feed
      PROVE  p \in run[r].seen \cup Answer(r)
  <2>1. CASE p + far > feed
    BY <1>3, <1>6, <2>1
  <2>2. CASE p + far <= feed
    <3>1. p \in 1..feed /\ offset = far
      BY <1>1, <1>6
    <3> QED BY <1>5, <1>6, <2>2, <3>1
  <2> QED BY <1>1, <1>2, <1>6, <2>1, <2>2
<1>7. ASSUME Answer(r) = {} PROVE 1..base \subseteq run[r].seen
  <2>1. CASE ignores
    BY <1>1, <1>5, <1>7, <2>1
  <2>2. CASE ~ignores
    BY <1>1, <1>2, <1>3, <1>5, <1>7, <2>2
  <2> QED BY <2>1, <2>2
<1>8. ASSUME ShortPage(Answer(r)) PROVE 1..base \subseteq run[r].seen \cup Answer(r)
  <2>1. CASE ignores
    BY <1>1, <1>5, <1>8, <2>1
  <2>2. CASE ~ignores
    BY <1>1, <1>2, <1>5, <1>6, <1>8, <2>2
  <2> QED BY <2>1, <2>2
<1>9. ASSUME ~ignores, NEW p \in 1..base, p + (pages + 1) * PageSize > feed
      PROVE  p \in run[r].seen \cup Answer(r)
  <2>1. p + far + PageSize > feed
    BY <1>1, <1>2, <1>9
  <2> QED BY <1>6, <1>9, <2>1
<1> QED BY <1>7, <1>8, <1>9 DEF pages, base

-----------------------------------------------------------------------------
(* A sync of the ledger: the end of the list. *)

\* What one run knows, the others leave true.
LEMMA OthersKeep ==
    ASSUME TypeOK, NEW s \in Run, Keeps(s), ignores' = ignores, cap' = cap,
           feed' \in Nat, feed <= feed',
           \A p \in Payments : status[p] # "none" => status'[p] # "none"
    PROVE  Keeps(s)'
<1>1. s.base \in Nat /\ s.pages \in Nat /\ s.seen \subseteq Payments
      /\ 1..s.base \subseteq Payments
  BY Typed DEF Run, Payments
<1> DEFINE far == s.pages * PageSize
<1>2. far \in Nat /\ feed \in Nat
  BY <1>1, Typed
<1>3. ~ignores /\ cap = PageSize => \A p \in 1..s.base : p + far > feed => p \in s.seen
  BY DEF Keeps
<1> HIDE DEF far
<1>4. ~ignores' /\ cap' = PageSize => \A p \in 1..s.base : p + far > feed' => p \in s.seen
  BY <1>1, <1>2, <1>3
<1> QED BY <1>1, <1>4 DEF Keeps, far

LEMMA OneKeeps ==
    ASSUME TypeOK, LedgerInv, NEW r \in Runs, NEW s \in Run, Become(r, s),
           ignores' = ignores, cap' = cap, feed' = feed,
           \A p \in Payments : status[p] # "none" => status'[p] # "none",
           Keeps(s)'
    PROVE  LedgerInv'
<1>1. ASSUME NEW q \in Runs PROVE Keeps(run[q])'
  <2>1. CASE q = r
    <3>1. run'[q] = s
      BY <2>1, Moves
    <3> QED BY <3>1 DEF Keeps
  <2>2. CASE q # r
    <3>1. PICK t \in Run : t = run[q]
      BY Typed
    <3>2. run'[q] = t
      BY <2>2, <3>1, Moves
    <3>3. Keeps(t)
      BY <3>1 DEF LedgerInv
    <3>4. Keeps(t)'
      BY <3>3, Typed, OthersKeep
    <3> QED BY <3>2, <3>4 DEF Keeps
  <2> QED BY <2>1, <2>2
<1> QED BY <1>1 DEF LedgerInv

\* A run that is over knows nothing.
LEMMA IdleKeeps ==
    ASSUME TypeOK, LedgerInv, NEW r \in Runs, Become(r, Idle),
           ignores' = ignores, cap' = cap, feed' = feed, status' = status
    PROVE  LedgerInv'
<1>1. Keeps(Idle)'
  BY DEF Keeps, Idle
<1> QED BY <1>1, IdleTyped, OneKeeps

LEMMA FetchKeeps ==
    ASSUME TypeOK, LedgerInv, NEW r \in Runs, FetchPage(r)
    PROVE  LedgerInv'
<1>1. PICK s \in Run :
        /\ Become(r, s) /\ s.base = run[r].base /\ s.pages = run[r].pages + 1
        /\ s.pc # "fetch"
        /\ \/ /\ Answer(r) = {} /\ s.stop = "end" /\ s.todo = run[r].todo
              /\ s.seen = run[r].seen /\ s.short = run[r].short
           \/ /\ Answer(r) # {} /\ s.stop = run[r].stop
              /\ s.todo = {<<p, Listed(p)>> : p \in Answer(r) \ run[r].seen}
              /\ s.seen = run[r].seen \cup Answer(r) /\ s.short = ShortPage(Answer(r))
  BY Fetched
<1>2. /\ Keeps(run[r]) /\ run[r].todo = {} /\ ignores' = ignores /\ cap' = cap /\ feed' = feed
      /\ status' = status
  BY DEF LedgerInv, Keeps, FetchPage, provider
<1>3. /\ cap = PageSize /\ Answer(r) = {} => 1..run[r].base \subseteq run[r].seen
      /\ cap = PageSize /\ ShortPage(Answer(r)) =>
           1..run[r].base \subseteq run[r].seen \cup Answer(r)
      /\ ~ignores /\ cap = PageSize => \A p \in 1..run[r].base :
           p + (run[r].pages + 1) * PageSize > feed => p \in run[r].seen \cup Answer(r)
  BY <1>2, FetchCovers
<1>4. \A p \in run[r].seen : status[p] # "none"
  BY <1>2 DEF Keeps
<1>5. \A p \in s.seen : status'[p] # "none" \/ \E t \in s.todo : t[1] = p
  <2>1. ASSUME NEW p \in s.seen, p \notin run[r].seen PROVE \E t \in s.todo : t[1] = p
    <3>1. <<p, Listed(p)>> \in s.todo
      BY <1>1, <2>1
    <3> QED BY <3>1
  <2> QED BY <1>2, <1>4, <2>1
<1>6. s.stop = "end" /\ cap = PageSize => \A p \in 1..s.base : status'[p] # "none"
  <2>1. CASE Answer(r) = {}
    BY <1>1, <1>2, <1>3, <1>4, <2>1
  <2>2. CASE Answer(r) # {}
    BY <1>1, <1>2, <2>2 DEF Keeps
  <2> QED BY <2>1, <2>2
<1>7. ~ignores' /\ cap' = PageSize => \A p \in 1..s.base : p + s.pages * PageSize > feed' => p \in s.seen
  BY <1>1, <1>2, <1>3
<1>8. s.short /\ cap = PageSize => 1..s.base \subseteq s.seen
  BY <1>1, <1>2, <1>3 DEF Keeps
<1>9. s.pc # "fetch" /\ cap' = cap
  BY <1>1, <1>2
<1>10. Keeps(s)'
  BY <1>5, <1>6, <1>7, <1>8, <1>9 DEF Keeps
<1> QED BY <1>1, <1>2, <1>10, OneKeeps

LEMMA WriteKeeps ==
    ASSUME TypeOK, LedgerInv, NEW r \in Runs, Write(r)
    PROVE  LedgerInv'
<1>1. ignores' = ignores /\ cap' = cap /\ feed' = feed /\ Keeps(run[r])
  BY DEF Write, provider, LedgerInv
<1>2. CASE Become(r, Idle) /\ status' = status
  BY <1>1, <1>2, IdleKeeps
<1>3. ASSUME NEW s \in Run, NEW t \in run[r].todo,
             /\ Become(r, s) /\ s.base = run[r].base /\ s.pages = run[r].pages
             /\ s.pc = "find" /\ s.stop = run[r].stop /\ s.todo = run[r].todo \ {t}
             /\ s.seen = run[r].seen /\ s.short = run[r].short
             /\ \A p \in Payments : status'[p] # "none" <=> (p = t[1] \/ status[p] # "none")
      PROVE  LedgerInv'
  <2>1. s.seen \subseteq Payments /\ 1..s.base \subseteq Payments
    BY Typed DEF Run, Payments
  <2>2. \A p \in s.seen : status'[p] # "none" \/ \E u \in s.todo : u[1] = p
    BY <1>1, <1>3, <2>1 DEF Keeps
  <2>3. Keeps(s)'
    BY <1>1, <1>3, <2>1, <2>2 DEF Keeps
  <2> QED BY <1>1, <1>3, <2>3, OneKeeps
<1> QED BY <1>2, <1>3, Written

LEMMA LedgerStart == Init => LedgerInv
BY DEF Init, LedgerInv, Keeps, Idle

LEMMA LedgerStep ==
    ASSUME TypeOK, LedgerInv, [Next]_vars
    PROVE  LedgerInv'
<1>1. CASE UNCHANGED vars \/ NewPayment \/ Settle
  <2>1. /\ run' = run /\ ignores' = ignores /\ cap' = cap /\ status' = status
        /\ feed' \in Nat /\ feed <= feed'
    BY <1>1, Typed DEF vars, NewPayment, Settle, provider
  <2>2. ASSUME NEW q \in Runs PROVE Keeps(run[q])'
    <3>1. PICK t \in Run : t = run[q]
      BY Typed
    <3>2. Keeps(t)'
      BY <2>1, <3>1, OthersKeep DEF LedgerInv
    <3> QED BY <2>1, <3>1, <3>2 DEF Keeps
  <2> QED BY <2>2 DEF LedgerInv
<1>2. ASSUME NEW r \in Runs, Find(r) PROVE LedgerInv'
  <2>1. PICK s \in Run :
          /\ Become(r, s) /\ s.base = run[r].base /\ s.pages = run[r].pages
          /\ s.pc = "write" /\ s.stop = run[r].stop /\ s.todo = run[r].todo
          /\ s.seen = run[r].seen /\ s.short = run[r].short
    BY <1>2, Found
  <2>2. /\ ignores' = ignores /\ cap' = cap /\ feed' = feed /\ status' = status /\ Keeps(run[r])
    BY <1>2 DEF Find, provider, LedgerInv
  <2>3. Keeps(s)'
    BY <2>1, <2>2 DEF Keeps
  <2> QED BY <2>1, <2>2, <2>3, OneKeeps
<1>3. ASSUME NEW r \in Runs, EndPage(r) PROVE LedgerInv'
  <2>1. PICK s \in Run :
          /\ Become(r, s) /\ s.base = run[r].base /\ s.pages = run[r].pages
          /\ s.stop \in {run[r].stop, "file", "ignored", "current"}
               \/ (s.stop = "end" /\ run[r].short)
          /\ s.todo = run[r].todo /\ run[r].todo = {}
          /\ s.seen = run[r].seen /\ s.short = run[r].short
    BY <1>3, PageEnded
  <2>2. /\ ignores' = ignores /\ cap' = cap /\ feed' = feed /\ status' = status /\ Keeps(run[r])
    BY <1>3 DEF EndPage, provider, LedgerInv
  <2>3. s.stop = "end" /\ cap = PageSize => \A p \in 1..s.base : status[p] # "none"
    BY <2>1, <2>2 DEF Keeps
  <2>4. Keeps(s)'
    BY <2>1, <2>2, <2>3 DEF Keeps
  <2> QED BY <2>1, <2>2, <2>4, OneKeeps
<1>4. ASSUME NEW r \in Runs, StopAtLimit(r) \/ OutOfTime(r) PROVE LedgerInv'
  <2>1. PICK s \in Run :
          /\ Become(r, s) /\ s.base = run[r].base /\ s.pages = run[r].pages
          /\ s.pc = "finish" /\ s.stop \in {"limit", "time"} /\ s.todo = run[r].todo
          /\ s.seen = run[r].seen /\ s.short = run[r].short
    BY <1>4, Stopped DEF StopAtLimit, OutOfTime
  <2>2. /\ ignores' = ignores /\ cap' = cap /\ feed' = feed /\ status' = status /\ Keeps(run[r])
    BY <1>4 DEF StopAtLimit, OutOfTime, provider, LedgerInv
  <2>3. Keeps(s)'
    BY <2>1, <2>2 DEF Keeps
  <2> QED BY <2>1, <2>2, <2>3, OneKeeps
<1>5. ASSUME NEW r \in Runs, Finish(r) \/ FetchFails(r) \/ Killed(r) PROVE LedgerInv'
  <2>1. /\ Become(r, Idle) /\ ignores' = ignores /\ cap' = cap /\ feed' = feed /\ status' = status
    BY <1>5 DEF Finish, FetchFails, Killed, provider
  <2> QED BY <2>1, IdleKeeps
<1>6. ASSUME NEW r \in Runs, Begin(r) \/ Import(r) PROVE LedgerInv'
  <2>1. PICK s \in Run :
          /\ Become(r, s) /\ s.base = feed /\ s.pages = 0 /\ s.stop = "none"
          /\ s.pc = "find" \/ s.todo = {}
          /\ s.seen = {} /\ ~s.short
    BY <1>6, Begun, Imported
  <2>2. /\ ignores' = ignores /\ cap' = cap /\ feed' = feed /\ status' = status /\ feed \in Nat
    BY <1>6, Typed DEF Begin, Import, provider
  <2>3. 0 * PageSize = 0
    BY LedgerAssumption
  <2>4. Keeps(s)'
    BY <2>1, <2>2, <2>3 DEF Keeps
  <2> QED BY <2>1, <2>2, <2>4, OneKeeps
<1> QED BY <1>1, <1>2, <1>3, <1>4, <1>5, <1>6, FetchKeeps, WriteKeeps DEF Next, Sync

\* At a provider that returns as many records as are asked for, a sync that says
\* it reached the end of the list has a row for every payment the provider had
\* when it began (PspSyncService.sync): whatever the page size and the limits, however the pages shift and whatever else writes.
THEOREM EndStaysWhole == Spec => []EndIsWhole
<1>1. LedgerInv => EndIsWhole
  BY DEF LedgerInv, Keeps, EndIsWhole
<1> QED BY <1>1, TypeStart, TypeStep, LedgerStart, LedgerStep, PTL DEF Spec

----------------------------------------------------------------------------
(* A statement against the ledger. *)

LEMMA LogTyped ==
    ASSUME events \in EventLogs, statement \in Statements
    PROVE  /\ IsFiniteSet(DOMAIN events) /\ DOMAIN events \subseteq Nat
           /\ \A n \in DOMAIN events : events[n] \in LogEvent
           /\ IsFiniteSet(DOMAIN statement) /\ DOMAIN statement \subseteq Nat
           /\ \A s \in DOMAIN statement : statement[s] \in StatementLine
<1>1. events \in Seq(LogEvent) /\ statement \in Seq(StatementLine)
  BY ReconcileAssumption
<1>2. /\ DOMAIN events = 1..Len(events) /\ Len(events) \in Nat
      /\ DOMAIN statement = 1..Len(statement) /\ Len(statement) \in Nat
  BY <1>1
<1>3. IsFiniteSet(1..Len(events)) /\ IsFiniteSet(1..Len(statement))
  BY <1>2, FS_Interval
<1> QED BY <1>1, <1>2, <1>3

\* Of some events one is newer than the others.
LEMMA NewerOrders ==
    ASSUME events \in EventLogs, statement \in Statements
    PROVE  /\ \A n \in DOMAIN events : ~Newer(n, n)
           /\ \A m, n \in DOMAIN events : m # n => Newer(m, n) \/ Newer(n, m)
           /\ \A k, m, n \in DOMAIN events : Newer(k, m) /\ Newer(m, n) => Newer(k, n)
<1>1. \A n \in DOMAIN events : n \in Nat /\ events[n].occurred \in Nat
  BY LogTyped DEF LogEvent
<1> QED BY <1>1 DEF Newer

LEMMA OneIsNewest ==
    ASSUME events \in EventLogs, statement \in Statements,
           NEW T \in SUBSET DOMAIN events, T # {}
    PROVE  \E n \in T : \A m \in T \ {n} : Newer(n, m)
<1> DEFINE R == {k \in T \X T : Newer(k[1], k[2])}
<1>1. IsFiniteSet(T)
  BY LogTyped, FS_Subset
<1>2. \A m, n \in T : <<m, n>> \in R <=> Newer(m, n)
  OBVIOUS
<1> HIDE DEF R
<1>3. /\ \A n \in T : <<n, n>> \notin R
      /\ \A m, n \in T : m # n => <<m, n>> \in R \/ <<n, m>> \in R
      /\ \A k, m, n \in T : <<k, m>> \in R /\ <<m, n>> \in R => <<k, n>> \in R
  BY <1>2, NewerOrders
<1>4. \E n \in T : \A m \in T \ {n} : <<n, m>> \in R
  BY <1>1, <1>3, FirstInOrder
<1> QED BY <1>2, <1>4

\* The latest event read of a payment is the latest there is of it.
LEMMA LatestIsNewest ==
    ASSUME events \in EventLogs, statement \in Statements,
           NEW k \in Scanned, NEW p, events[k].payment = p
    PROVE  /\ LatestOf(p) \in Scanned /\ LatestOf(p) \in DOMAIN events
           /\ events[LatestOf(p)].payment = p
           /\ \A m \in DOMAIN events \ {LatestOf(p)} :
                events[m].payment = p => Newer(LatestOf(p), m)
<1> DEFINE own == {n \in DOMAIN events : events[n].payment = p}
<1>1. k \in own
  BY DEF Scanned
<1>2. PICK n \in own : \A m \in own \ {n} : Newer(n, m)
  <2>1. own \in SUBSET DOMAIN events /\ own # {}
    BY <1>1
  <2> HIDE DEF own
  <2> QED BY <2>1, OneIsNewest
<1>3. n \in Scanned
  <2>1. CASE n = k
    BY <2>1
  <2>2. CASE n # k
    <3> DEFINE A == {m \in DOMAIN events : Newer(m, n)}
               B == {m \in DOMAIN events : Newer(m, k)}
    <3>1. A \subseteq B
      BY <1>1, <1>2, <2>2, NewerOrders
    <3>2. IsFiniteSet(B)
      BY LogTyped, FS_Subset
    <3>3. Cardinality(B) < MaxScanned
      BY DEF Scanned
    <3> HIDE DEF A, B
    <3>4. Cardinality(A) <= Cardinality(B) /\ Cardinality(A) \in Nat /\ Cardinality(B) \in Nat
      BY <3>1, <3>2, FS_Subset, FS_CardinalityType
    <3>5. Cardinality(A) < MaxScanned
      BY <3>3, <3>4, ReconcileAssumption
    <3> QED BY <1>2, <3>5 DEF A, Scanned
  <2> QED BY <2>1, <2>2
<1> DEFINE read == {m \in Scanned : events[m].payment = p}
           IsLatest(l) == \A m \in Scanned \ {l} : events[m].payment = p => Newer(l, m)
<1>4. n \in read /\ IsLatest(n)
  BY <1>2, <1>3 DEF Scanned
<1> DEFINE l == LatestOf(p)
<1>5. l \in read /\ IsLatest(l)
  <2>1. \E m \in read : IsLatest(m)
    BY <1>4
  <2>2. l = CHOOSE m \in read : IsLatest(m)
    BY DEF LatestOf
  <2> HIDE DEF l, read, IsLatest
  <2> QED BY <2>1, <2>2
<1> HIDE DEF l
<1>6. l = n
  BY <1>2, <1>3, <1>4, <1>5, NewerOrders DEF Scanned
<1>7. /\ l \in Scanned /\ l \in DOMAIN events /\ events[l].payment = p
      /\ \A m \in DOMAIN events \ {l} : events[m].payment = p => Newer(l, m)
  BY <1>2, <1>3, <1>6
<1> QED BY <1>7 DEF l

ReadRows == ours = [p \in {events[n].payment : n \in Scanned} |-> OurRow(p)]

LEMMA RowsTyped ==
    ASSUME events \in EventLogs, statement \in Statements, ReadRows,
           NEW p \in DOMAIN ours
    PROVE  /\ ours[p] = OurRow(p) /\ ours[p].arrived = LatestOf(p)
           /\ ours[p].at \in Nat /\ ours[p].direction \in {"in", "out"}
           /\ ours[p].amount \in Int /\ ours[p].counts \in BOOLEAN
           /\ LatestOf(p) \in DOMAIN events /\ events[LatestOf(p)].payment = p
           /\ Booked(p) \in Int
<1>1. ours[p] = OurRow(p)
  BY DEF ReadRows
<1>2. PICK k \in Scanned : events[k].payment = p
  BY DEF ReadRows
<1> DEFINE l == LatestOf(p)
<1>3. l \in DOMAIN events /\ events[l].payment = p
  BY <1>2, LatestIsNewest
<1>4. events[l] \in LogEvent
  BY <1>3, LogTyped
<1> HIDE DEF l
<1>5. /\ RaisedAt(events[l]) \in Nat /\ events[l].direction \in {"in", "out"}
      /\ events[l].amount \in Int /\ events[l].counts \in BOOLEAN
  BY <1>4 DEF LogEvent, RaisedAt
<1>6. OurRow(p) = [at |-> RaisedAt(events[l]), direction |-> events[l].direction,
                   amount |-> events[l].amount, counts |-> events[l].counts, arrived |-> l]
  BY DEF OurRow, l
<1>7. /\ ours[p].arrived = l /\ ours[p].at \in Nat /\ ours[p].direction \in {"in", "out"}
      /\ ours[p].amount \in Int /\ ours[p].counts \in BOOLEAN
  BY <1>1, <1>5, <1>6
<1>8. Booked(p) \in Int
  BY <1>7 DEF Booked, Signed
<1> QED BY <1>1, <1>3, <1>7, <1>8 DEF l

\* What a payment is booked for is what the rules count of it.
LEMMA CountsBooked ==
    ASSUME events \in EventLogs, statement \in Statements, ReadRows,
           NEW p \in DOMAIN ours
    PROVE  Counts(p) = Booked(p)
<1> DEFINE own == {n \in DOMAIN events : events[n].payment = p}
           w == [n \in own |->
                   IF events[n].counts /\ \A m \in own \ {n} : Newer(n, m)
                   THEN Signed(events[n].direction, events[n].amount) ELSE 0]
           l == LatestOf(p)
<1>1. Counts(p) = SumFunctionOnSet(w, own)
  <2>1. DOMAIN w = own
    OBVIOUS
  <2>2. Counts(p) = SumFunction(w)
    BY DEF Counts
  <2> HIDE DEF w, own
  <2> QED BY <2>1, <2>2 DEF SumFunction
<1>2. PICK k \in Scanned : events[k].payment = p
  BY DEF ReadRows
<1>3. l \in own /\ \A m \in own \ {l} : Newer(l, m)
  BY <1>2, LatestIsNewest
<1>4. IsFiniteSet(own) /\ IsFiniteSet(own \ {l})
  BY LogTyped, FS_Subset
<1>5. w[l] = Booked(p)
  <2>1. w[l] = IF events[l].counts THEN Signed(events[l].direction, events[l].amount) ELSE 0
    BY <1>3
  <2>2. /\ ours[p].counts = events[l].counts /\ ours[p].amount = events[l].amount
        /\ ours[p].direction = events[l].direction
    BY RowsTyped DEF OurRow
  <2> HIDE DEF w, own, l
  <2> QED BY <2>1, <2>2 DEF Booked
<1>6. \A n \in own \ {l} : w[n] = 0
  <2>1. \A n \in own \ {l} : ~Newer(n, l)
    BY <1>3, NewerOrders
  <2> QED BY <1>3, <2>1
<1>7. w[l] \in Int /\ \A n \in own : w[n] \in Int
  <2>1. w[l] \in Int
    BY <1>5, RowsTyped
  <2> QED BY <1>6, <2>1
<1> HIDE DEF w, own, l
<1>8. SumFunctionOnSet(w, own) = w[l] + SumFunctionOnSet(w, own \ {l})
  BY <1>3, <1>4, <1>7, SumOfAny
<1>9. SumFunctionOnSet(w, own \ {l}) = 0
  BY <1>4, <1>6, SumOfZeros
<1> QED BY <1>1, <1>5, <1>7, <1>8, <1>9

LEMMA WindowTyped ==
    ASSUME events \in EventLogs, statement \in Statements, ReadRows,
           NEW S \in SUBSET InWindow(ours)
    PROVE  /\ IsFiniteSet(S) /\ S \subseteq DOMAIN statement
           /\ \A s \in S : /\ s \in Nat /\ statement[s].at \in Nat
                           /\ Signed(statement[s].direction, statement[s].amount) \in Int
           /\ IsFiniteSet(DOMAIN ours)
<1>1. S \subseteq DOMAIN statement /\ IsFiniteSet(S)
  BY LogTyped, FS_Subset DEF InWindow
<1>2. \A s \in S : /\ s \in Nat /\ statement[s].at \in Nat
                   /\ Signed(statement[s].direction, statement[s].amount) \in Int
  BY <1>1, LogTyped DEF StatementLine, Signed
<1>3. IsFiniteSet(DOMAIN ours)
  <2> DEFINE f == [n \in Scanned |-> events[n].payment]
  <2>1. DOMAIN ours = {f[n] : n \in Scanned}
    BY DEF ReadRows
  <2>2. Scanned \subseteq DOMAIN events
    BY DEF Scanned
  <2>3. IsFiniteSet(Scanned)
    BY <2>2, LogTyped, FS_Subset
  <2>4. f = [n \in Scanned |-> f[n]]
    OBVIOUS
  <2> HIDE DEF f
  <2>5. IsFiniteSet({f[n] : n \in Scanned})
    BY <2>3, <2>4, ValuesFinite
  <2> QED BY <2>1, <2>5
<1> QED BY <1>1, <1>2, <1>3

\* The payment taken for a row is one it may be, and none that it may be is nearer.
LEMMA NearestIsNear ==
    ASSUME events \in EventLogs, statement \in Statements, ReadRows,
           NEW s \in InWindow(ours), Candidates(s) # {}
    PROVE  /\ Nearest(s) \in Candidates(s)
           /\ \A q \in Candidates(s) : ~(Distance(s, q) < Distance(s, Nearest(s)))
<1> DEFINE C == Candidates(s)
           Nearer(p, q) ==
               \/ Distance(s, p) < Distance(s, q)
               \/ Distance(s, p) = Distance(s, q) /\ Newer(ours[p].arrived, ours[q].arrived)
           R == {k \in C \X C : Nearer(k[1], k[2])}
<1>1. C \subseteq DOMAIN ours
  BY DEF Candidates
<1>2. IsFiniteSet(C)
  <2>1. {} \in SUBSET InWindow(ours)
    OBVIOUS
  <2> QED BY <1>1, <2>1, WindowTyped, FS_Subset
<1>3. \A p \in C : Distance(s, p) \in Int
  <2>1. statement[s].at \in Nat
    BY WindowTyped
  <2>2. \A p \in C : ours[p].at \in Nat
    BY <1>1, RowsTyped
  <2> QED BY <2>1, <2>2 DEF Distance, Lag
<1>4. \A p \in C : ours[p].arrived \in DOMAIN events /\ events[ours[p].arrived].payment = p
  BY <1>1, RowsTyped
<1>5. \A p, q \in C : <<p, q>> \in R <=> Nearer(p, q)
  OBVIOUS
<1> HIDE DEF R, C
<1>6. /\ \A p \in C : ~Nearer(p, p)
      /\ \A p, q \in C : p # q => Nearer(p, q) \/ Nearer(q, p)
      /\ \A p, q, r \in C : Nearer(p, q) /\ Nearer(q, r) => Nearer(p, r)
  <2>1. \A p \in C : ~Nearer(p, p)
    BY <1>3, <1>4, NewerOrders
  <2>2. \A p, q \in C : p # q => Nearer(p, q) \/ Nearer(q, p)
    BY <1>3, <1>4, NewerOrders
  <2>3. ASSUME NEW p \in C, NEW q \in C, NEW r \in C, Nearer(p, q), Nearer(q, r)
        PROVE  Nearer(p, r)
    <3>1. Distance(s, p) \in Int /\ Distance(s, q) \in Int /\ Distance(s, r) \in Int
      BY <1>3
    <3>2. Newer(ours[p].arrived, ours[q].arrived) /\ Newer(ours[q].arrived, ours[r].arrived)
            => Newer(ours[p].arrived, ours[r].arrived)
      BY <1>4, NewerOrders
    <3> QED BY <2>3, <3>1, <3>2
  <2> QED BY <2>1, <2>2, <2>3
<1>7. \E p \in C : \A q \in C \ {p} : Nearer(p, q)
  <2>1. /\ \A p \in C : <<p, p>> \notin R
        /\ \A p, q \in C : p # q => <<p, q>> \in R \/ <<q, p>> \in R
        /\ \A p, q, r \in C : <<p, q>> \in R /\ <<q, r>> \in R => <<p, r>> \in R
    <3> HIDE DEF Nearer
    <3> QED BY <1>5, <1>6
  <2>2. C # {}
    BY DEF C
  <2>3. \E p \in C : \A q \in C \ {p} : <<p, q>> \in R
    BY <1>2, <2>1, <2>2, FirstInOrder
  <2> QED BY <1>5, <2>3
<1> DEFINE n == Nearest(s)
<1>8. n \in C /\ \A q \in C \ {n} : Nearer(n, q)
  <2>1. n = CHOOSE p \in C : \A q \in C \ {p} : Nearer(p, q)
    BY DEF Nearest, C
  <2> HIDE DEF n, Nearer
  <2> QED BY <1>7, <2>1
<1>9. \A q \in C : ~(Distance(s, q) < Distance(s, n))
  BY <1>3, <1>8
<1> QED BY <1>8, <1>9 DEF C

\* The row compared is one of the rest.
EarliestOf(S) ==
    CHOOSE r \in S : \A q \in S \ {r} :
        \/ statement[r].at < statement[q].at
        \/ statement[r].at = statement[q].at /\ r < q

LEMMA EarliestIsOne ==
    ASSUME events \in EventLogs, statement \in Statements, ReadRows,
           NEW S \in SUBSET InWindow(ours), S # {}
    PROVE  EarliestOf(S) \in S
<1> DEFINE Earlier(r, q) == \/ statement[r].at < statement[q].at
                            \/ statement[r].at = statement[q].at /\ r < q
           R == {k \in S \X S : Earlier(k[1], k[2])}
<1>1. IsFiniteSet(S) /\ \A r \in S : r \in Nat /\ statement[r].at \in Nat
  BY WindowTyped
<1>2. \A r, q \in S : <<r, q>> \in R <=> Earlier(r, q)
  OBVIOUS
<1> HIDE DEF R
<1>3. /\ \A r \in S : <<r, r>> \notin R
      /\ \A r, q \in S : r # q => <<r, q>> \in R \/ <<q, r>> \in R
      /\ \A r, q, p \in S : <<r, q>> \in R /\ <<q, p>> \in R => <<r, p>> \in R
  BY <1>1, <1>2
<1>4. \E r \in S : \A q \in S \ {r} : <<r, q>> \in R
  BY <1>1, <1>3, FirstInOrder
<1>5. \E r \in S : \A q \in S \ {r} : Earlier(r, q)
  BY <1>2, <1>4
<1> QED BY <1>5 DEF EarliestOf

BookedIn(S) == SumFunction([p \in S |-> Booked(p)])

LEMMA BookedAdds ==
    ASSUME events \in EventLogs, statement \in Statements, ReadRows,
           NEW S \in SUBSET DOMAIN ours, NEW p \in DOMAIN ours \ S
    PROVE  BookedIn(S) \in Int /\ BookedIn(S \cup {p}) = BookedIn(S) + Booked(p)
<1> DEFINE v == [q \in S |-> Booked(q)]
           w == [q \in S \cup {p} |-> Booked(q)]
<1>1. IsFiniteSet(S)
  <2>1. {} \in SUBSET InWindow(ours)
    OBVIOUS
  <2> QED BY <2>1, WindowTyped, FS_Subset
<1>2. /\ DOMAIN v = S /\ DOMAIN w = S \cup {p} /\ \A q \in S : v[q] = w[q]
      /\ \A q \in S \cup {p} : w[q] \in Int
      /\ w[p] = Booked(p) /\ p \notin S
  BY RowsTyped
<1> HIDE DEF v, w
<1>3. SumFunction(w) = SumFunction(v) + w[p] /\ SumFunction(v) \in Int
  BY <1>1, <1>2, SumGrows
<1> QED BY <1>2, <1>3 DEF BookedIn, v, w

LEMMA TheirsAdd ==
    ASSUME events \in EventLogs, statement \in Statements, ReadRows,
           NEW S \in SUBSET InWindow(ours), NEW s \in InWindow(ours) \ S
    PROVE  /\ Theirs(S) \in Int
           /\ Theirs(S \cup {s}) =
                Theirs(S) + Signed(statement[s].direction, statement[s].amount)
<1> DEFINE v == [q \in S |-> Signed(statement[q].direction, statement[q].amount)]
           w == [q \in S \cup {s} |-> Signed(statement[q].direction, statement[q].amount)]
<1>1. IsFiniteSet(S)
  BY WindowTyped
<1>2. \A q \in InWindow(ours) : Signed(statement[q].direction, statement[q].amount) \in Int
  <2>1. InWindow(ours) \in SUBSET InWindow(ours)
    OBVIOUS
  <2> QED BY <2>1, WindowTyped
<1>3. /\ DOMAIN v = S /\ DOMAIN w = S \cup {s} /\ \A q \in S : v[q] = w[q]
      /\ \A q \in S \cup {s} : w[q] \in Int
  BY <1>2
<1>4. w[s] = Signed(statement[s].direction, statement[s].amount) /\ s \notin S
  OBVIOUS
<1> HIDE DEF v, w
<1>5. SumFunction(w) = SumFunction(v) + w[s] /\ SumFunction(v) \in Int
  <2>1. ASSUME NEW x, x \notin S, DOMAIN w = S \cup {x}, \A q \in S \cup {x} : w[q] \in Int
        PROVE  SumFunction(w) = SumFunction(v) + w[x] /\ SumFunction(v) \in Int
    BY <1>1, <1>3, <2>1, SumGrows
  <2> QED BY <1>3, <1>4, <2>1
<1> QED BY <1>4, <1>5 DEF Theirs, v, w

LEMMA BookedTyped ==
    ASSUME events \in EventLogs, statement \in Statements, ReadRows,
           NEW S \in SUBSET DOMAIN ours
    PROVE  BookedIn(S) \in Int
<1>1. CASE \E p : p \in DOMAIN ours \ S
  BY <1>1, BookedAdds
<1>2. CASE S = DOMAIN ours
  <2> DEFINE w == [p \in DOMAIN ours |-> Booked(p)]
  <2>1. IsFiniteSet(DOMAIN ours)
    <3>1. {} \in SUBSET InWindow(ours)
      OBVIOUS
    <3> QED BY <3>1, WindowTyped
  <2>2. DOMAIN w = DOMAIN ours /\ \A p \in DOMAIN ours : w[p] \in Int
    BY RowsTyped
  <2> HIDE DEF w
  <2>3. SumFunctionOnSet(w, DOMAIN ours) \in Int
    BY <2>1, <2>2, SumOfInt
  <2>4. SumFunction(w) \in Int
    BY <2>2, <2>3 DEF SumFunction
  <2> QED BY <1>2, <2>4 DEF BookedIn, w
<1> QED BY <1>1, <1>2

\* The log is not written while it is compared.
LEMMA LogStays ==
    ASSUME events' = events, NEW p
    PROVE  Scanned' = Scanned /\ LatestOf(p)' = LatestOf(p) /\ OurRow(p)' = OurRow(p)
<1>1. Scanned' = Scanned
  BY DEF Scanned, Newer
<1>2. LatestOf(p)' = LatestOf(p)
  BY <1>1 DEF LatestOf, Newer
<1> QED BY <1>1, <1>2 DEF OurRow

LEMMA ReconcileStart == ReconcileInit => ReconcileInv
BY DEF ReconcileInit, ReconcileInv

LEMMA ReadLedgerKeeps ==
    ASSUME ReconcileInv, ReadLedger
    PROVE  ReconcileInv'
<1> USE DEF ReadLedger
<1>1. /\ events \in EventLogs /\ statement \in Statements
      /\ paired = <<>> /\ agreed = {} /\ net = 0
  BY DEF ReconcileInv
<1>2. ours' = [p \in {events'[n].payment : n \in Scanned'} |-> OurRow(p)']
  BY LogStays
<1>3. rest' = InWindow(ours)'
  BY DEF InWindow
<1>4. Compared' = {}
  BY <1>3 DEF Compared
<1>5. DOMAIN paired' = {} /\ agreed' = {} /\ Faulted' = {}
  BY <1>1 DEF Faulted
<1>6. net' = BookedIn({})' - Theirs({})'
  <2>1. BookedIn({})' = 0
    BY SumOfEmpty DEF BookedIn
  <2>2. Theirs({})' = 0
    BY SumOfEmpty DEF Theirs
  <2> QED BY <1>1, <2>1, <2>2
<1>7. ItemisedSoFar'
  <2>1. net' = BookedIn(Faulted)' - Theirs(Compared \ agreed)'
    BY <1>4, <1>5, <1>6
  <2> QED BY <1>4, <1>5, <2>1 DEF ItemisedSoFar, BookedIn
<1>8. paired' \in [DOMAIN paired' -> DOMAIN ours']
  <2>1. <<>> \in [{} -> DOMAIN ours']
    OBVIOUS
  <2> QED BY <1>1, <1>5, <2>1
<1>9. /\ DOMAIN paired' \subseteq Compared' /\ agreed' \subseteq DOMAIN paired'
      /\ \A s, r \in DOMAIN paired' : paired'[s] = paired'[r] => s = r
  BY <1>5
<1> HIDE DEF ReadLedger
<1>10. step' = "compare" /\ events' = events /\ statement' = statement
  BY DEF ReadLedger
<1> QED BY <1>1, <1>2, <1>3, <1>7, <1>8, <1>9, <1>10 DEF ReconcileInv

\* What depends on the rows alone stays as they do.
LEMMA RowsStay ==
    ASSUME statement' = statement, ours' = ours
    PROVE  /\ InWindow(ours)' = InWindow(ours) /\ (ToldApart' <=> ToldApart)
           /\ \A s : InReach(s)' = InReach(s)
           /\ \A p : Booked(p)' = Booked(p)
           /\ \A S : BookedIn(S)' = BookedIn(S) /\ Theirs(S)' = Theirs(S)
           /\ \A s, p : SameFigure(s, p, Tolerance)' <=> SameFigure(s, p, Tolerance)
<1>1. InWindow(ours)' = InWindow(ours)
  BY DEF InWindow
<1>2. \A s : InReach(s)' = InReach(s)
  BY DEF InReach, Lag
<1>3. ToldApart' <=> ToldApart
  BY <1>1, <1>2 DEF ToldApart, Distance, Lag
<1>4. \A p : Booked(p)' = Booked(p)
  BY DEF Booked
<1>5. ASSUME NEW S PROVE BookedIn(S)' = BookedIn(S) /\ Theirs(S)' = Theirs(S)
  BY <1>4 DEF BookedIn, Theirs
<1>6. \A s, p : SameFigure(s, p, Tolerance)' <=> SameFigure(s, p, Tolerance)
  BY DEF SameFigure
<1> QED BY <1>1, <1>2, <1>3, <1>4, <1>5, <1>6

\* Told apart, a row near any payment finds its own one free.
LEMMA OwnIsFree ==
    ASSUME ReconcileInv, step = "compare", ToldApart, NEW s \in rest, InReach(s) # {}
    PROVE  statement[s].of \in Candidates(s)
<1> DEFINE own == statement[s].of
<1>1. s \in InWindow(ours) /\ s \notin Compared
  BY DEF ReconcileInv, Compared
<1>2. own \in InReach(s)
  BY <1>1 DEF ToldApart
<1>3. ASSUME own \in Range(paired) PROVE FALSE
  <2>1. PICK r \in DOMAIN paired : paired[r] = own
    BY <1>3 DEF Range
  <2>2. r \in Compared
    BY <2>1 DEF ReconcileInv
  <2>3. InReach(r) # {} /\ statement[r].of = own
    BY <2>1, <2>2 DEF ReconcileInv, ItemisedSoFar
  <2>4. r \in InWindow(ours) \ {s}
    BY <1>1, <2>2 DEF Compared
  <2> QED BY <1>1, <2>3, <2>4 DEF ToldApart
<1>4. own \in DOMAIN ours \ Range(paired)
  BY <1>2, <1>3 DEF InReach
<1>5. /\ ours[own].direction = statement[s].direction
      /\ Lag(s, own) \in (-Early)..Late
  BY <1>2 DEF InReach
<1> QED BY <1>4, <1>5 DEF Candidates

LEMMA CompareRowKeeps ==
    ASSUME ReconcileInv, CompareRow
    PROVE  ReconcileInv'
<1> DEFINE Worth(r) == Signed(statement[r].direction, statement[r].amount)
           open == Compared \ agreed
           Right(r) == /\ SameFigure(r, paired[r], Tolerance)
                       /\ ours[paired[r]].direction = statement[r].direction
           Own(r) == IF InReach(r) = {} THEN r \notin DOMAIN paired
                     ELSE r \in DOMAIN paired /\ paired[r] = statement[r].of
<1>1. /\ events \in EventLogs /\ statement \in Statements /\ step = "compare" /\ ReadRows
      /\ rest \subseteq InWindow(ours) /\ rest # {}
      /\ paired \in [DOMAIN paired -> DOMAIN ours] /\ DOMAIN paired \subseteq Compared
      /\ agreed \subseteq DOMAIN paired
      /\ \A s, r \in DOMAIN paired : paired[s] = paired[r] => s = r
      /\ net = BookedIn(Faulted) - Theirs(open)
      /\ \A r \in agreed : Right(r)
      /\ ToldApart => \A r \in Compared : Own(r)
  BY DEF CompareRow, ReconcileInv, ReadRows, ItemisedSoFar, BookedIn
<1>2. PICK s \in rest :
        /\ rest' = rest \ {s}
        /\ IF Candidates(s) = {}
           THEN net' = net - Worth(s) /\ paired' = paired /\ agreed' = agreed
           ELSE /\ paired' = [r \in DOMAIN paired \cup {s} |->
                                IF r = s THEN Nearest(s) ELSE paired[r]]
                /\ \/ /\ SameFigure(s, Nearest(s), Tolerance)
                      /\ agreed' = agreed \cup {s} /\ net' = net
                   \/ /\ agreed' = agreed
                      /\ net' = net + Booked(Nearest(s)) - Worth(s)
  <2>1. EarliestOf(rest) \in rest
    BY <1>1, EarliestIsOne
  <2> QED BY <2>1 DEF CompareRow, EarliestOf
<1>3. events' = events /\ statement' = statement /\ step' = step /\ ours' = ours
  BY DEF CompareRow
<1>4. s \in InWindow(ours) /\ s \notin Compared /\ Compared \subseteq InWindow(ours)
  BY <1>1 DEF Compared
<1>5. Compared' = Compared \cup {s}
  BY <1>1, <1>2, <1>3, RowsStay DEF Compared
<1>6. /\ Theirs(open) \in Int /\ Worth(s) \in Int
      /\ Theirs(open \cup {s}) = Theirs(open) + Worth(s)
  <2>1. {s} \in SUBSET InWindow(ours)
    BY <1>4
  <2>2. Worth(s) \in Int
    BY <1>1, <2>1, WindowTyped
  <2>3. open \in SUBSET InWindow(ours) /\ s \in InWindow(ours) \ open
    BY <1>4
  <2> HIDE DEF open
  <2> QED BY <1>1, <2>2, <2>3, TheirsAdd
<1>7. Faulted \subseteq DOMAIN ours /\ BookedIn(Faulted) \in Int
  <2>1. Faulted \subseteq DOMAIN ours
    BY <1>1 DEF Faulted
  <2> QED BY <1>1, <2>1, BookedTyped
<1> DEFINE Kept == /\ paired' \in [DOMAIN paired' -> DOMAIN ours]
                   /\ DOMAIN paired' \subseteq Compared \cup {s}
                   /\ agreed' \subseteq DOMAIN paired'
                   /\ \A r, q \in DOMAIN paired' : paired'[r] = paired'[q] => r = q
                   /\ net' = BookedIn(Faulted') - Theirs((Compared \cup {s}) \ agreed')
                   /\ \A r \in agreed' : /\ SameFigure(r, paired'[r], Tolerance)
                                         /\ ours[paired'[r]].direction = statement[r].direction
                   /\ ToldApart => \A r \in Compared \cup {s} :
                         IF InReach(r) = {} THEN r \notin DOMAIN paired'
                         ELSE r \in DOMAIN paired' /\ paired'[r] = statement[r].of
<1> HIDE DEF Worth
<1>8. ASSUME Candidates(s) = {} PROVE Kept
  <2>1. paired' = paired /\ agreed' = agreed /\ net' = net - Worth(s)
    BY <1>2, <1>8
  <2>2. Faulted' = Faulted
    BY <2>1 DEF Faulted
  <2>3. (Compared \cup {s}) \ agreed' = open \cup {s}
    BY <1>1, <1>4, <2>1
  <2> DEFINE after == (Compared \cup {s}) \ agreed'
  <2>4. net' = BookedIn(Faulted') - Theirs(after)
    <3> HIDE DEF after, open
    <3>1. PICK b \in Int, t \in Int, w \in Int :
            b = BookedIn(Faulted) /\ t = Theirs(open) /\ w = Worth(s)
      BY <1>6, <1>7
    <3>2. net' = (b - t) - w /\ Theirs(after) = t + w /\ BookedIn(Faulted') = b
      BY <1>1, <1>6, <2>1, <2>2, <2>3, <3>1 DEF after
    <3> QED BY <3>1, <3>2 DEF after
  <2>5. ToldApart => InReach(s) = {} /\ s \notin DOMAIN paired'
    BY <1>1, <1>4, <1>8, <2>1, OwnIsFree
  <2> QED BY <1>1, <2>1, <2>4, <2>5
<1>9. ASSUME Candidates(s) # {} PROVE Kept
  <2> DEFINE p == Nearest(s)
  <2>1. /\ p \in Candidates(s)
        /\ \A q \in Candidates(s) : ~(Distance(s, q) < Distance(s, p))
    BY <1>1, <1>4, <1>9, NearestIsNear
  <2>2. /\ paired' = [r \in DOMAIN paired \cup {s} |-> IF r = s THEN p ELSE paired[r]]
        /\ \/ /\ SameFigure(s, p, Tolerance)
              /\ agreed' = agreed \cup {s} /\ net' = net
           \/ agreed' = agreed /\ net' = net + Booked(p) - Worth(s)
    BY <1>2, <1>9
  <2> HIDE DEF p
  <2>3. /\ p \in DOMAIN ours /\ p \notin Range(paired) /\ p \in InReach(s)
        /\ ours[p].direction = statement[s].direction
    <3>1. /\ p \in DOMAIN ours /\ p \notin Range(paired)
          /\ ours[p].direction = statement[s].direction
          /\ -Early <= Lag(s, p) /\ Lag(s, p) <= Late
      BY <2>1 DEF Candidates
    <3>2. Lag(s, p) \in Int /\ Early \in Nat /\ Late \in Nat
      <4>1. {s} \in SUBSET InWindow(ours)
        BY <1>4
      <4>2. statement[s].at \in Nat
        BY <1>1, <4>1, WindowTyped
      <4>3. ours[p].at \in Nat
        BY <1>1, <3>1, RowsTyped
      <4> QED BY <4>2, <4>3, ReconcileAssumption DEF Lag
    <3> QED BY <3>1, <3>2 DEF InReach
  <2>4. /\ DOMAIN paired' = DOMAIN paired \cup {s} /\ paired'[s] = p
        /\ \A r \in DOMAIN paired : r # s /\ paired'[r] = paired[r]
        /\ s \notin DOMAIN paired /\ s \notin agreed
    BY <1>1, <1>4, <2>2
  <2>5. net' = BookedIn(Faulted') - Theirs((Compared \cup {s}) \ agreed')
    <3> DEFINE after == (Compared \cup {s}) \ agreed'
    <3>1. CASE agreed' = agreed \cup {s} /\ net' = net
      <4>1. DOMAIN paired' \ agreed' = DOMAIN paired \ agreed
        BY <2>4, <3>1
      <4>2. Faulted' = Faulted
        BY <2>4, <4>1 DEF Faulted
      <4>3. after = open
        BY <1>4, <3>1
      <4> HIDE DEF after, open
      <4> QED BY <1>1, <3>1, <4>2, <4>3 DEF after
    <3>2. CASE agreed' = agreed /\ net' = net + Booked(p) - Worth(s)
      <4>1. DOMAIN paired' \ agreed' = (DOMAIN paired \ agreed) \cup {s}
        BY <2>4, <3>2
      <4>2. Faulted' = Faulted \cup {p}
        BY <2>4, <4>1 DEF Faulted
      <4>3. after = open \cup {s}
        BY <1>4, <2>4, <3>2
      <4>4. p \notin Faulted
        BY <2>3 DEF Faulted, Range
      <4>5. Booked(p) \in Int /\ BookedIn(Faulted \cup {p}) = BookedIn(Faulted) + Booked(p)
        BY <1>1, <1>7, <2>3, <4>4, BookedAdds, RowsTyped
      <4> HIDE DEF after, open
      <4>6. PICK b \in Int, c \in Int, t \in Int, w \in Int :
              /\ b = BookedIn(Faulted) /\ c = Booked(p)
              /\ t = Theirs(open) /\ w = Worth(s)
        BY <1>6, <1>7, <4>5
      <4>7. net' = (b - t) + c - w /\ Theirs(after) = t + w /\ BookedIn(Faulted') = b + c
        BY <1>1, <1>6, <3>2, <4>2, <4>3, <4>5, <4>6
      <4> QED BY <4>6, <4>7 DEF after
    <3> QED BY <2>2, <3>1, <3>2
  <2>6. agreed' \subseteq DOMAIN paired'
    BY <1>1, <2>2, <2>4
  <2>7. \A r \in agreed' : /\ SameFigure(r, paired'[r], Tolerance)
                           /\ ours[paired'[r]].direction = statement[r].direction
    <3>1. \A r \in agreed : /\ r \in DOMAIN paired /\ paired'[r] = paired[r]
                            /\ SameFigure(r, paired[r], Tolerance)
                            /\ ours[paired[r]].direction = statement[r].direction
      BY <1>1, <2>4
    <3>2. \A r \in agreed : /\ SameFigure(r, paired'[r], Tolerance)
                            /\ ours[paired'[r]].direction = statement[r].direction
      BY <3>1
    <3> QED BY <2>2, <2>3, <2>4, <3>2
  <2>8. \A r, q \in DOMAIN paired' : paired'[r] = paired'[q] => r = q
    <3>1. \A r \in DOMAIN paired : paired[r] # p
      BY <2>3 DEF Range
    <3> QED BY <1>1, <2>4, <3>1
  <2>9. paired' \in [DOMAIN paired' -> DOMAIN ours]
    BY <1>1, <2>2, <2>3, <2>4
  <2>10. ASSUME ToldApart PROVE p = statement[s].of
    <3>1. statement[s].of \in Candidates(s)
      BY <1>1, <2>3, <2>10, OwnIsFree
    <3> QED BY <1>4, <2>1, <2>3, <2>10, <3>1 DEF ToldApart
  <2>11. ASSUME ToldApart, NEW r \in Compared \cup {s}
         PROVE  IF InReach(r) = {} THEN r \notin DOMAIN paired'
                ELSE r \in DOMAIN paired' /\ paired'[r] = statement[r].of
    <3>1. CASE r = s
      BY <2>3, <2>4, <2>10, <2>11, <3>1
    <3>2. CASE r \in Compared
      BY <1>1, <1>4, <2>4, <2>11, <3>2
    <3> QED BY <2>11, <3>1, <3>2
  <2> QED BY <1>1, <2>4, <2>5, <2>6, <2>7, <2>8, <2>9, <2>11
<1>10. Kept
  BY <1>8, <1>9
<1>11. ItemisedSoFar'
  <2>1. net' = BookedIn(Faulted)' - Theirs(Compared \ agreed)'
    BY <1>3, <1>5, <1>10, RowsStay
  <2>2. \A r \in agreed' : /\ SameFigure(r, paired[r], Tolerance)'
                           /\ ours'[paired'[r]].direction = statement'[r].direction
    BY <1>3, <1>10 DEF SameFigure
  <2>3. ToldApart' => \A r \in Compared' :
          IF InReach(r)' = {} THEN r \notin DOMAIN paired'
          ELSE r \in DOMAIN paired' /\ paired'[r] = statement'[r].of
    BY <1>3, <1>5, <1>10, RowsStay
  <2> QED BY <2>1, <2>2, <2>3 DEF ItemisedSoFar, BookedIn
<1>12. ours' = [p \in {events'[n].payment : n \in Scanned'} |-> OurRow(p)']
  BY <1>1, <1>3, LogStays DEF ReadRows
<1>13. rest' \subseteq InWindow(ours)'
  BY <1>1, <1>2, <1>3, RowsStay
<1> QED BY <1>1, <1>3, <1>5, <1>10, <1>11, <1>12, <1>13 DEF ReconcileInv

LEMMA ReconcileStep == ReconcileInv /\ [ReconcileNext]_reconcileVars => ReconcileInv'
<1> SUFFICES ASSUME ReconcileInv, [ReconcileNext]_reconcileVars PROVE ReconcileInv'
  OBVIOUS
<1>1. CASE ReadLedger
  BY <1>1, ReadLedgerKeeps
<1>2. CASE CompareRow
  BY <1>2, CompareRowKeeps
<1>3. CASE UNCHANGED reconcileVars
  <2>1. /\ events' = events /\ statement' = statement /\ step' = step /\ ours' = ours
        /\ rest' = rest /\ paired' = paired /\ agreed' = agreed /\ net' = net
    BY <1>3 DEF reconcileVars
  <2>2. InWindow(ours)' = InWindow(ours)
    BY <2>1, RowsStay
  <2>3. Compared' = Compared
    BY <2>1, <2>2 DEF Compared
  <2>4. step = "compare" => ItemisedSoFar'
    <3>1. step = "compare" => ItemisedSoFar
      BY DEF ReconcileInv
    <3>2. Faulted' = Faulted /\ (Compared \ agreed)' = Compared \ agreed
      BY <2>1, <2>3 DEF Faulted
    <3>3. /\ BookedIn(Faulted)' = BookedIn(Faulted)
          /\ Theirs(Compared \ agreed)' = Theirs(Compared \ agreed)
      BY <2>1, <3>2, RowsStay
    <3>4. /\ ToldApart' <=> ToldApart
          /\ \A s : InReach(s)' = InReach(s)
          /\ \A s, p : SameFigure(s, p, Tolerance)' <=> SameFigure(s, p, Tolerance)
      BY <2>1, RowsStay
    <3> QED BY <2>1, <2>3, <3>1, <3>3, <3>4 DEF ItemisedSoFar, BookedIn
  <2>5. step = "compare" =>
          ours' = [p \in {events'[n].payment : n \in Scanned'} |-> OurRow(p)']
    BY <2>1, LogStays DEF ReconcileInv
  <2> QED BY <2>1, <2>2, <2>3, <2>4, <2>5 DEF ReconcileInv
<1> QED BY <1>1, <1>2, <1>3 DEF ReconcileNext

\* When every row of the statement has been compared, net is what we count of
\* the payments of the rows that do not agree, each once and for its latest
\* state, over what those rows say (psp-reconcile.service.ts:291); the other rows
\* are each within a cent of what we count; and where rows can be told apart each
\* is paired with its own payment: for any log, any statement, any window and
\* however much of the log one read takes.
THEOREM DriftStaysItemised == ReconcileSpec => []DriftIsItemised
<1>1. ASSUME ReconcileInv, step = "compare", rest = {}
      PROVE  /\ net = SumFunction([p \in Faulted |-> Counts(p)])
                        - Theirs(InWindow(ours) \ agreed)
             /\ \A s \in agreed :
                  /\ s \in DOMAIN paired
                  /\ Counts(paired[s]) - Signed(statement[s].direction, statement[s].amount)
                       \in (-Tolerance)..Tolerance
             /\ ToldApart => \A s \in InWindow(ours) :
                     IF InReach(s) = {} THEN s \notin DOMAIN paired
                     ELSE s \in DOMAIN paired /\ paired[s] = statement[s].of
  <2>1. /\ events \in EventLogs /\ statement \in Statements /\ ReadRows /\ ItemisedSoFar
        /\ paired \in [DOMAIN paired -> DOMAIN ours] /\ agreed \subseteq DOMAIN paired
        /\ DOMAIN paired \subseteq InWindow(ours)
    BY <1>1 DEF ReconcileInv, ReadRows, Compared
  <2>2. Compared = InWindow(ours)
    BY <1>1 DEF Compared
  <2>3. Faulted \subseteq DOMAIN ours
    BY <2>1 DEF Faulted
  <2>4. \A p \in DOMAIN ours : Counts(p) = Booked(p)
    BY <2>1, CountsBooked
  <2>5. [p \in Faulted |-> Counts(p)] = [p \in Faulted |-> Booked(p)]
    BY <2>3, <2>4
  <2>6. ASSUME NEW s \in agreed
        PROVE  Counts(paired[s]) - Signed(statement[s].direction, statement[s].amount)
                 \in (-Tolerance)..Tolerance
    <3>1. PICK p \in DOMAIN ours : p = paired[s]
      BY <2>1
    <3>2. /\ SameFigure(s, p, Tolerance) /\ ours[p].direction = statement[s].direction
          /\ Counts(p) = Booked(p)
      BY <2>1, <2>4, <3>1 DEF ItemisedSoFar
    <3>3. ours[p].amount \in Int /\ statement[s].amount \in Int /\ Tolerance \in Nat
      <4>1. s \in DOMAIN statement
        BY <2>1 DEF InWindow
      <4>2. statement[s].amount \in Int
        BY <2>1, <4>1, LogTyped DEF StatementLine
      <4> QED BY <2>1, <4>2, RowsTyped, ReconcileAssumption
    <3> QED BY <3>1, <3>2, <3>3 DEF SameFigure, Booked, Signed
  <2> QED BY <2>1, <2>2, <2>5, <2>6 DEF ItemisedSoFar
<1>2. ReconcileInv => DriftIsItemised
  BY <1>1 DEF DriftIsItemised
<1> QED BY <1>2, ReconcileStart, ReconcileStep, PTL DEF ReconcileSpec

----------------------------------------------------------------------------
(* The reconciliation engine: what its passes pick. *)

LEMMA FilesTyped ==
    ASSUME EngineTypeOK
    PROVE  /\ DOMAIN crm \in SUBSET (Nat \ {0}) /\ IsFiniteSet(DOMAIN crm)
           /\ DOMAIN cashier \in SUBSET (Nat \ {0}) /\ IsFiniteSet(DOMAIN cashier)
           /\ DOMAIN psp \in SUBSET (Nat \ {0}) /\ IsFiniteSet(DOMAIN psp)
           /\ \A i \in DOMAIN crm : crm[i].class \in Classes
           /\ \A c \in DOMAIN cashier :
                /\ cashier[c].class \in Classes
                /\ cashier[c].names \in Seq(STRING)
                /\ cashier[c].says = "declined" => cashier[c].class = "FAILED"
           /\ \A k \in DOMAIN psp :
                psp[k].class \in Classes /\ psp[k].config \in Range(Configs)
<1> DEFINE CrmRow == [keys : SUBSET STRING, type : STRING, class : Classes,
                      amount : Int, entity : STRING]
           CashierRow == [ref : STRING, keys : SUBSET STRING, type : STRING,
                          class : Classes, amount : Int, entity : STRING, route : STRING,
                          names : Seq(STRING), customer : STRING, says : Sayings]
           PspRow == [config : Range(Configs), ids : Seq(STRING) \ {<<>>}, type : STRING,
                      class : Classes, amount : Int, customer : STRING]
<1>1. crm \in Seq(CrmRow) /\ cashier \in Seq(CashierRow) /\ psp \in Seq(PspRow)
  BY EngineAssumption DEF EngineTypeOK
<1>2. \A r \in CrmRow : r.class \in Classes
  OBVIOUS
<1>3. \A r \in CashierRow : r.class \in Classes /\ r.names \in Seq(STRING)
  OBVIOUS
<1>4. \A r \in PspRow : r.class \in Classes /\ r.config \in Range(Configs)
  OBVIOUS
<1> HIDE DEF CrmRow, CashierRow, PspRow
<1>5. /\ DOMAIN crm = 1..Len(crm) /\ Len(crm) \in Nat
      /\ DOMAIN cashier = 1..Len(cashier) /\ Len(cashier) \in Nat
      /\ DOMAIN psp = 1..Len(psp) /\ Len(psp) \in Nat
  BY <1>1
<1>6. /\ \A i \in DOMAIN crm : crm[i] \in CrmRow
      /\ \A c \in DOMAIN cashier : cashier[c] \in CashierRow
      /\ \A k \in DOMAIN psp : psp[k] \in PspRow
  BY <1>1
<1>7. \A n \in Nat : 1..n \in SUBSET (Nat \ {0}) /\ IsFiniteSet(1..n)
  BY FS_Interval
<1>8. \A c \in DOMAIN cashier : cashier[c].says = "declined" => cashier[c].class = "FAILED"
  BY EngineAssumption DEF EngineTypeOK
<1> QED BY <1>2, <1>3, <1>4, <1>5, <1>6, <1>7, <1>8

\* What the layers and the master make of a class is one of the three.
LEMMA ClassesAreRead ==
    ASSUME NEW x \in Classes
    PROVE  /\ LayerClass(x) \in Settlements
           /\ MasterClass(x) \in Settlements
           /\ MasterClass(x) = "ACTIVE" => LayerClass(x) = "ACTIVE"
BY DEF LayerClass, MasterClass, Classes, Settlements

\* Of some CRM rows there is one that no other goes before.
LEMMA FirstOfRows ==
    ASSUME EngineTypeOK, NEW S \in SUBSET DOMAIN crm, S # {}
    PROVE  \E i \in S : \A j \in S :
              \/ Priority(crm[i].class) < Priority(crm[j].class)
              \/ Priority(crm[i].class) = Priority(crm[j].class) /\ i <= j
<1> DEFINE f == [i \in S |-> Priority(crm[i].class)]
           g == [i \in S |-> i]
<1>1. \A i \in S : Priority(crm[i].class) \in 1..3
  BY FilesTyped, ClassesAreRead DEF Priority, Settlements
<1>2. f \in [S -> Nat] /\ g \in [S -> Nat]
  BY <1>1, FilesTyped
<1>3. \A i \in S : f[i] = Priority(crm[i].class) /\ g[i] = i
  OBVIOUS
<1> HIDE DEF f, g
<1>4. \E x \in S : \A y \in S : f[x] < f[y] \/ (f[x] = f[y] /\ g[x] <= g[y])
  BY <1>2, FirstOfRanked
<1> QED BY <1>3, <1>4

\* What a deposit is given is a free row of its family, if there is one.
LEMMA DepositPick ==
    ASSUME EngineTypeOK, NEW i \in DOMAIN crm
    PROVE  LET free == {c \in CashierOf("DEPOSIT") \ Used :
                          cashier[c].keys \cap Family(crm[i].keys) # {}}
           IN  IF free = {} THEN PickForDeposit(i) = 0 ELSE PickForDeposit(i) \in free
<1> DEFINE free == {c \in CashierOf("DEPOSIT") \ Used :
                      cashier[c].keys \cap Family(crm[i].keys) # {}}
           same == Preferring(free, LAMBDA c : cashier[c].entity = crm[i].entity)
           available == Preferring(same, LAMBDA c :
                          /\ LayerClass(crm[i].class) # "PENDING"
                          /\ LayerClass(cashier[c].class) = LayerClass(crm[i].class))
<1>1. CASE free = {}
  BY <1>1 DEF PickForDeposit
<1>2. CASE free # {}
  <2>1. PickForDeposit(i) =
          CHOOSE c \in available : \A d \in available :
              \/ Score(i, c) > Score(i, d)
              \/ Score(i, c) = Score(i, d) /\ c <= d
    BY <1>2 DEF PickForDeposit
  <2>2. same \subseteq free /\ same # {}
    BY <1>2 DEF Preferring
  <2>3. available \subseteq same /\ available # {}
    <3> HIDE DEF same
    <3> QED BY <2>2 DEF Preferring
  <2>4. available \subseteq Nat /\ available \subseteq DOMAIN cashier
    BY <2>2, <2>3, FilesTyped DEF CashierOf
  <2> HIDE DEF available
  <2> DEFINE f == [c \in available |-> 20000 - Score(i, c)]
             g == [c \in available |-> c]
  <2>5. \A c \in available : Score(i, c) \in Int /\ Score(i, c) <= 20000
    BY DEF Score
  <2>6. f \in [available -> Nat] /\ g \in [available -> Nat]
    BY <2>4, <2>5
  <2>7. \A c \in available : f[c] = 20000 - Score(i, c) /\ g[c] = c
    OBVIOUS
  <2> HIDE DEF f, g
  <2>8. \E x \in available : \A y \in available :
          f[x] < f[y] \/ (f[x] = f[y] /\ g[x] <= g[y])
    BY <2>3, <2>6, FirstOfRanked
  <2>9. \E c \in available : \A d \in available :
          \/ Score(i, c) > Score(i, d)
          \/ Score(i, c) = Score(i, d) /\ c <= d
    BY <2>5, <2>7, <2>8
  <2>10. PickForDeposit(i) \in available
    BY <2>1, <2>9
  <2> QED BY <1>2, <2>2, <2>3, <2>10
<1> QED BY <1>1, <1>2

\* What a withdrawal is given is a free row.
LEMMA WithdrawalPick ==
    ASSUME EngineTypeOK, NEW legs, NEW primary
    PROVE  PickForWithdrawal(legs, primary) \in {0} \cup (DOMAIN cashier \ Used)
<1> DEFINE free == {c \in DOMAIN cashier \ Used : cashier[c].ref \in crm[primary].keys}
           same == Preferring(free, LAMBDA c : cashier[c].type = "WITHDRAWAL")
           available == Preferring(same, LAMBDA c :
                          /\ cashier[c].type = "WITHDRAWAL"
                          /\ cashier[c].entity = crm[primary].entity)
<1>1. CASE free = {}
  BY <1>1 DEF PickForWithdrawal
<1>2. CASE free # {}
  <2>1. PickForWithdrawal(legs, primary) = Min(available)
    BY <1>2 DEF PickForWithdrawal
  <2>2. same \subseteq free /\ same # {}
    BY <1>2 DEF Preferring
  <2>3. available \subseteq same /\ available # {}
    <3> HIDE DEF same
    <3> QED BY <2>2 DEF Preferring
  <2>4. available \in SUBSET Nat
    BY <2>2, <2>3, FilesTyped
  <2> HIDE DEF available
  <2>5. Min(available) \in available
    BY <2>3, <2>4, MinIsLeast
  <2> QED BY <2>1, <2>2, <2>3, <2>5
<1> QED BY <1>1, <1>2

\* A certain match is an unclaimed row; where there is none, every row the
\* cashier row names is claimed already.
LEMMA CertainPick ==
    ASSUME EngineTypeOK, NEW c \in DOMAIN cashier
    PROVE  \/ ExactPick(c) \in Unclaimed
           \/ /\ ExactPick(c) = 0
              /\ \A k \in Unclaimed : Range(cashier[c].names) \cap Range(psp[k].ids) = {}
<1> DEFINE tries == {t \in (DOMAIN Configs) \X (DOMAIN cashier[c].names) :
                       Named(c, t[1], t[2]) # {}}
           Before(t, u) == \/ Turn(c, t[1]) < Turn(c, u[1])
                           \/ Turn(c, t[1]) = Turn(c, u[1]) /\ t[2] <= u[2]
           first == CHOOSE t \in tries : \A u \in tries : Before(t, u)
<1>0. /\ DOMAIN Configs \subseteq Nat /\ DOMAIN cashier[c].names \subseteq Nat
      /\ Configs \in Seq(STRING) /\ cashier[c].names \in Seq(STRING)
  BY EngineAssumption, FilesTyped
<1>1. CASE tries = {}
  <2>1. ASSUME NEW k \in Unclaimed, NEW id \in Range(cashier[c].names), id \in Range(psp[k].ids)
        PROVE  FALSE
    <3>1. k \in DOMAIN psp /\ psp[k].config \in Range(Configs)
      BY FilesTyped DEF Unclaimed
    <3>2. PICK m \in DOMAIN Configs : Configs[m] = psp[k].config
      BY <3>1 DEF Range
    <3>3. PICK n \in DOMAIN cashier[c].names : cashier[c].names[n] = id
      BY <2>1 DEF Range
    <3>4. k \in Named(c, m, n)
      BY <2>1, <3>1, <3>2, <3>3 DEF Named
    <3>5. <<m, n>> \in tries
      BY <3>4
    <3> QED BY <1>1, <3>5
  <2>2. ExactPick(c) = 0
    BY <1>1 DEF ExactPick
  <2> QED BY <2>1, <2>2
<1>2. CASE tries # {}
  <2>1. ExactPick(c) =
          Min(Preferring(Named(c, first[1], first[2]), LAMBDA k : TypesMatch(c, k)))
    BY <1>2 DEF ExactPick
  <2>2. \A t \in tries : t[1] \in Nat /\ t[2] \in Nat /\ Turn(c, t[1]) \in Nat
                           /\ Named(c, t[1], t[2]) # {}
    BY <1>0 DEF Turn
  <2> HIDE DEF tries
  <2> DEFINE f == [t \in tries |-> Turn(c, t[1])]
             g == [t \in tries |-> t[2]]
  <2>3. f \in [tries -> Nat] /\ g \in [tries -> Nat]
    BY <2>2
  <2>4. \A t \in tries : f[t] = Turn(c, t[1]) /\ g[t] = t[2]
    OBVIOUS
  <2> HIDE DEF f, g
  <2>5. \E x \in tries : \A y \in tries : f[x] < f[y] \/ (f[x] = f[y] /\ g[x] <= g[y])
    BY <1>2, <2>3, FirstOfRanked
  <2>6. \E t \in tries : \A u \in tries : Before(t, u)
    BY <2>4, <2>5
  <2>7. first \in tries
    <3> HIDE DEF Before
    <3> QED BY <2>6
  <2> HIDE DEF first
  <2> DEFINE named == Named(c, first[1], first[2])
             good == Preferring(named, LAMBDA k : TypesMatch(c, k))
  <2>8. named # {} /\ named \subseteq Unclaimed
    BY <2>2, <2>7 DEF Named
  <2>9. good # {} /\ good \subseteq named
    <3> HIDE DEF named
    <3> QED BY <2>8 DEF Preferring
  <2>10. good \in SUBSET Nat
    BY <2>8, <2>9, FilesTyped DEF Unclaimed
  <2> HIDE DEF good
  <2>11. Min(good) \in good
    BY <2>9, <2>10, MinIsLeast
  <2>12. ExactPick(c) = Min(good)
    BY <2>1 DEF good
  <2> QED BY <2>8, <2>9, <2>11, <2>12
<1> QED BY <1>1, <1>2

\* A guess is an unclaimed row too.
LEMMA GuessPick ==
    ASSUME EngineTypeOK, NEW c \in DOMAIN cashier
    PROVE  FuzzyPick(c) \in {0} \cup Unclaimed
<1> DEFINE near == {k \in Unclaimed :
                     /\ psp[k].config = cashier[c].route
                     /\ TypesMatch(c, k)
                     /\ psp[k].amount = cashier[c].amount
                     /\ Identified(c, k) \/ psp[k].config \notin Guarded}
           best == Preferring(near, LAMBDA k : Identified(c, k))
<1>1. CASE near = {}
  BY <1>1 DEF FuzzyPick
<1>2. CASE near # {}
  <2>1. FuzzyPick(c) = Min(best)
    BY <1>2 DEF FuzzyPick
  <2>2. best # {} /\ best \subseteq near
    <3>1. near # {}
      BY <1>2
    <3> HIDE DEF near
    <3> QED BY <3>1 DEF Preferring
  <2>3. best \in SUBSET Nat
    BY <2>2, FilesTyped DEF Unclaimed
  <2> HIDE DEF best
  <2>4. Min(best) \in best
    BY <2>2, <2>3, MinIsLeast
  <2> QED BY <2>1, <2>2, <2>4
<1> QED BY <1>1, <1>2

----------------------------------------------------------------------------
(* The reconciliation engine: what its passes keep. *)

LEMMA EngineStart == EngineInit => EngineInv
<1> SUFFICES ASSUME EngineInit PROVE EngineInv
  OBVIOUS
<1> USE DEF EngineInit
<1>1. DOMAIN matches = {} /\ matches \in [{} -> [row : DOMAIN psp, how : {"exact", "fuzzy"}]]
  OBVIOUS
<1>2. EngineTypeOK
  BY <1>1 DEF EngineTypeOK, RowsOf
<1>3. ClaimedOnce /\ Seen = {} /\ Tried = {} /\ Certain = {}
  BY <1>1 DEF ClaimedOnce, Seen, Tried, Certain
<1>4. InOrder /\ NothingFree /\ SettledFirstSoFar /\ CertainFirst
  BY <1>1, <1>3 DEF InOrder, NothingFree, SettledFirstSoFar, CertainFirst
<1>5. ReconciledIsAgreed /\ FoldedIsHarmless
  BY DEF ReconciledIsAgreed, FoldedIsHarmless
<1> QED BY <1>2, <1>3, <1>4, <1>5 DEF EngineInv

LEMMA FamilyStays ==
    ASSUME UNCHANGED <<crm, cashier>>
    PROVE  \A keys : Family(keys)' = Family(keys)
BY DEF Family, CrmOf, CashierOf

LEMMA MatchDepositKeeps ==
    ASSUME EngineInv, MatchDeposit
    PROVE  EngineInv'
<1>0. /\ EngineTypeOK /\ stage = "deposits" /\ todo # {} /\ todo \subseteq CrmOf("DEPOSIT")
      /\ todo \in SUBSET DOMAIN crm /\ matches = <<>> /\ one = {}
  BY DEF EngineInv, EngineTypeOK, MatchDeposit, RowsOf, CrmOf
<1>1. PICK i \in todo :
        /\ \A j \in todo : Priority(crm[i].class) <= Priority(crm[j].class)
        /\ pairs' = pairs \cup {[legs |-> {i}, primary |-> i, cash |-> c] :
                                   c \in {PickForDeposit(i)} \ {0}}
        /\ todo' = todo \ {i}
  <2> DEFINE i == FirstBy(todo, LAMBDA r : Priority(crm[r].class))
  <2>1. /\ i \in todo
        /\ \A j \in todo : \/ Priority(crm[i].class) < Priority(crm[j].class)
                           \/ Priority(crm[i].class) = Priority(crm[j].class) /\ i <= j
    BY <1>0, FirstOfRows DEF FirstBy
  <2>2. /\ pairs' = pairs \cup {[legs |-> {i}, primary |-> i, cash |-> c] :
                                   c \in {PickForDeposit(i)} \ {0}}
        /\ todo' = todo \ {i}
    BY DEF MatchDeposit
  <2> HIDE DEF i
  <2>3. \A j \in todo : Priority(crm[j].class) \in 1..3
    BY <1>0, FilesTyped, ClassesAreRead DEF Priority, Settlements
  <2>4. \A j \in todo : Priority(crm[i].class) <= Priority(crm[j].class)
    BY <2>1, <2>3
  <2> QED BY <2>1, <2>2, <2>4
<1>2. UNCHANGED <<crm, cashier, psp, stage, matches, one>>
  BY DEF MatchDeposit
<1> DEFINE free == {c \in CashierOf("DEPOSIT") \ Used :
                      cashier[c].keys \cap Family(crm[i].keys) # {}}
           Paired(c) == [legs |-> {i}, primary |-> i, cash |-> c]
<1>3. \/ free = {} /\ pairs' = pairs
      \/ \E c \in free : pairs' = pairs \cup {Paired(c)}
  <2>1. i \in DOMAIN crm
    BY <1>0
  <2>2. IF free = {} THEN PickForDeposit(i) = 0 ELSE PickForDeposit(i) \in free
    BY <1>0, <2>1, DepositPick
  <2>3. 0 \notin free
    BY <1>0, FilesTyped DEF CashierOf
  <2> HIDE DEF free
  <2> QED BY <1>1, <2>2, <2>3
<1>4. /\ free \subseteq DOMAIN cashier /\ free \cap Used = {} /\ free \subseteq CashierOf("DEPOSIT")
      /\ \A c \in free : cashier[c].keys \cap Family(crm[i].keys) # {}
      /\ \A c \in CashierOf("DEPOSIT") : cashier[c].keys \cap Family(crm[i].keys) # {} =>
            c \in free \/ c \in Used
  BY DEF CashierOf
<1> HIDE DEF free
<1>5. /\ pairs \subseteq pairs' /\ Used \subseteq Used'
      /\ \A p \in pairs' : p \in pairs \/ \E c \in free : p = Paired(c) /\ p.cash \in Used'
      /\ free # {} => \E p \in pairs' : p = Paired(p.cash)
  BY <1>3 DEF Used
<1>6. /\ Seen' = Seen \cup {i} /\ i \notin Seen /\ i \in CrmOf("DEPOSIT")
      /\ Seen \subseteq CrmOf("DEPOSIT") /\ CrmOf("DEPOSIT")' = CrmOf("DEPOSIT")
      /\ CrmOf("DEPOSIT") \ Seen = todo
  BY <1>0, <1>1, <1>2 DEF Seen, CrmOf
<1>7. EngineTypeOK'
  <2>1. \A c \in free : Paired(c) \in [legs : SUBSET DOMAIN crm, primary : DOMAIN crm,
                                        cash : DOMAIN cashier]
    BY <1>0, <1>4
  <2>2. pairs' \subseteq [legs : SUBSET DOMAIN crm, primary : DOMAIN crm, cash : DOMAIN cashier]
    BY <1>0, <1>5, <2>1 DEF EngineTypeOK
  <2>3. todo' \subseteq RowsOf(stage)'
    BY <1>0, <1>1, <1>2 DEF RowsOf, CrmOf
  <2> QED BY <1>0, <1>2, <2>2, <2>3 DEF EngineTypeOK
<1>8. ClaimedOnce'
  <2>1. \A p \in pairs, c \in free : p.cash # c
    BY <1>4 DEF Used
  <2>2. CASE pairs' = pairs
    BY <2>2 DEF EngineInv, ClaimedOnce
  <2>3. ASSUME NEW c \in free, pairs' = pairs \cup {Paired(c)} PROVE ClaimedOnce'
    <3>1. Paired(c).cash = c
      OBVIOUS
    <3> QED BY <2>1, <2>3, <3>1 DEF EngineInv, ClaimedOnce
  <2> QED BY <1>3, <2>2, <2>3
<1>9. InOrder'
  <2>1. \A j \in Seen', k \in CrmOf("DEPOSIT") \ Seen' :
          Priority(crm[j].class) <= Priority(crm[k].class)
    BY <1>1, <1>6 DEF EngineInv, InOrder
  <2>2. \A p \in pairs' : crm[p.primary].type = "DEPOSIT" =>
          p.legs = {p.primary} /\ p.primary \in Seen'
    BY <1>5, <1>6 DEF EngineInv, InOrder
  <2> QED BY <1>2, <1>6, <2>1, <2>2 DEF InOrder
<1>10. \A p \in pairs' : p \in pairs \/ (p.legs = {i} /\ p.primary = i /\ p.cash \in free)
  BY <1>5
<1>11. NothingFree'
  <2> SUFFICES ASSUME NEW j \in Seen', \A p \in pairs' : j \notin p.legs,
                      NEW c \in CashierOf("DEPOSIT"),
                      cashier[c].keys \cap Family(crm[j].keys) # {}
               PROVE  c \in Used'
    BY <1>2, FamilyStays DEF NothingFree, CashierOf
  <2>1. CASE j \in Seen
    BY <1>5, <2>1 DEF EngineInv, NothingFree
  <2>2. CASE j = i
    <3>1. free = {}
      <4>1. \A c0 : i \in Paired(c0).legs
        OBVIOUS
      <4> HIDE DEF Paired
      <4> QED BY <1>3, <2>2, <4>1
    <3> QED BY <1>4, <1>5, <2>2, <3>1
  <2> QED BY <1>6, <2>1, <2>2
<1>12. SettledFirstSoFar'
  <2> SUFFICES ASSUME NEW j \in Seen', LayerClass(crm[j].class) = "ACTIVE",
                      \A p \in pairs' : j \notin p.legs,
                      NEW p \in pairs', crm[p.primary].type = "DEPOSIT",
                      Family(crm[p.primary].keys) = Family(crm[j].keys)
               PROVE  LayerClass(crm[p.primary].class) = "ACTIVE"
    BY <1>2, FamilyStays DEF SettledFirstSoFar
  <2>1. CASE j \in Seen /\ p \in pairs
    BY <1>5, <2>1 DEF EngineInv, SettledFirstSoFar
  <2>2. CASE j \in Seen /\ p \notin pairs
    <3>1. p.primary = i /\ p.cash \in free
      BY <1>10, <2>2
    <3>2. p.cash \in Used
      BY <1>4, <1>5, <2>2, <3>1 DEF EngineInv, NothingFree
    <3> QED BY <1>4, <3>1, <3>2
  <2>3. CASE j = i /\ p \in pairs
    <3>1. p.primary \in Seen
      BY <2>3 DEF EngineInv, InOrder
    <3>2. Priority(crm[p.primary].class) <= Priority(crm[i].class)
      BY <1>6, <3>1 DEF EngineInv, InOrder
    <3>3. LayerClass(crm[p.primary].class) \in Settlements
      BY <1>0, <1>6, <3>1, FilesTyped, ClassesAreRead DEF CrmOf
    <3> QED BY <2>3, <3>2, <3>3 DEF Priority, Settlements
  <2>4. CASE j = i /\ p \notin pairs
    BY <1>10, <2>4
  <2> QED BY <1>6, <2>1, <2>2, <2>3, <2>4
<1>13. CertainFirst' /\ ReconciledIsAgreed' /\ FoldedIsHarmless'
  <2>1. DOMAIN matches' = {} /\ Certain' = {} /\ Tried' = {} /\ stage' # "exact" /\ one' = {}
    BY <1>0, <1>2 DEF Certain, Tried
  <2> QED BY <2>1 DEF CertainFirst, ReconciledIsAgreed, FoldedIsHarmless
<1> QED BY <1>7, <1>8, <1>9, <1>11, <1>12, <1>13 DEF EngineInv

\* The leg that speaks for a withdrawal is a withdrawal.
LEMMA SpeakerIsWithdrawal ==
    ASSUME EngineTypeOK, NEW i \in RowsOf("withdrawals")
    PROVE  Speaker(i) \in CrmOf("WITHDRAWAL")
<1> DEFINE S == {j \in RowsOf("withdrawals") : crm[j].keys = crm[i].keys}
<1>1. S \in SUBSET DOMAIN crm /\ S # {} /\ S \subseteq CrmOf("WITHDRAWAL")
  BY DEF RowsOf, CrmOf
<1>2. Speaker(i) = FirstBy(S, LAMBDA r : Priority(crm[r].class))
  BY DEF Speaker
<1> HIDE DEF S
<1>3. \E x \in S : \A j \in S :
        \/ Priority(crm[x].class) < Priority(crm[j].class)
        \/ Priority(crm[x].class) = Priority(crm[j].class) /\ x <= j
  BY <1>1, FirstOfRows
<1>4. Speaker(i) \in S
  BY <1>2, <1>3 DEF FirstBy
<1> QED BY <1>1, <1>4

LEMMA MatchWithdrawalKeeps ==
    ASSUME EngineInv, MatchWithdrawal
    PROVE  EngineInv'
<1>0. /\ EngineTypeOK /\ stage = "withdrawals" /\ todo # {} /\ todo \subseteq RowsOf("withdrawals")
      /\ RowsOf("withdrawals") \subseteq CrmOf("WITHDRAWAL") /\ todo \in SUBSET DOMAIN crm
      /\ matches = <<>> /\ one = {}
  BY DEF EngineInv, EngineTypeOK, MatchWithdrawal, RowsOf, CrmOf
<1>1. PICK legs \in SUBSET todo, primary \in CrmOf("WITHDRAWAL") :
        /\ pairs' = pairs \cup {[legs |-> legs, primary |-> primary, cash |-> c] :
                                   c \in {PickForWithdrawal(legs, primary)} \ {0}}
        /\ todo' = todo \ legs
  <2> DEFINE legs == {j \in todo : crm[j].keys = crm[Min(todo)].keys}
  <2>1. Min(todo) \in todo
    BY <1>0, FilesTyped, MinIsLeast
  <2>2. Speaker(Min(todo)) \in CrmOf("WITHDRAWAL")
    BY <1>0, <2>1, SpeakerIsWithdrawal
  <2>3. /\ pairs' = pairs \cup
              {[legs |-> legs, primary |-> Speaker(Min(todo)), cash |-> c] :
                  c \in {PickForWithdrawal(legs, Speaker(Min(todo)))} \ {0}}
        /\ todo' = todo \ legs
    BY DEF MatchWithdrawal
  <2>4. legs \in SUBSET todo
    OBVIOUS
  <2> HIDE DEF legs
  <2> QED BY <2>2, <2>3, <2>4
<1>2. UNCHANGED <<crm, cashier, psp, stage, matches, one>>
  BY DEF MatchWithdrawal
<1> DEFINE Paired(c) == [legs |-> legs, primary |-> primary, cash |-> c]
<1>3. \/ pairs' = pairs
      \/ \E c \in DOMAIN cashier \ Used : pairs' = pairs \cup {Paired(c)}
  <2>1. PickForWithdrawal(legs, primary) \in {0} \cup (DOMAIN cashier \ Used)
    BY <1>0, WithdrawalPick
  <2> QED BY <1>1, <2>1
<1>4. /\ pairs \subseteq pairs' /\ Used \subseteq Used'
      /\ \A p \in pairs' : p \in pairs \/ \E c \in DOMAIN cashier \ Used : p = Paired(c)
  BY <1>3 DEF Used
<1>5. /\ Seen' = Seen /\ Seen = CrmOf("DEPOSIT") /\ CrmOf("DEPOSIT")' = CrmOf("DEPOSIT")
      /\ crm[primary].type = "WITHDRAWAL" /\ primary \in DOMAIN crm
      /\ \A j \in CrmOf("DEPOSIT") : j \notin legs
  BY <1>0, <1>1, <1>2 DEF Seen, CrmOf
<1>6. \A p \in pairs' : crm[p.primary].type = "DEPOSIT" => p \in pairs
  BY <1>4, <1>5
<1>7. EngineTypeOK'
  <2>1. \A c \in DOMAIN cashier : Paired(c) \in [legs : SUBSET DOMAIN crm, primary : DOMAIN crm,
                                        cash : DOMAIN cashier]
    BY <1>0, <1>1, <1>5
  <2>2. pairs' \subseteq [legs : SUBSET DOMAIN crm, primary : DOMAIN crm, cash : DOMAIN cashier]
    BY <1>0, <1>4, <2>1 DEF EngineTypeOK
  <2>3. todo' \subseteq RowsOf(stage)'
    BY <1>0, <1>1, <1>2 DEF RowsOf, CrmOf
  <2> QED BY <1>0, <1>2, <2>2, <2>3 DEF EngineTypeOK
<1>8. ClaimedOnce'
  <2>1. \A p \in pairs, c \in DOMAIN cashier \ Used : p.cash # c
    BY DEF Used
  <2>2. CASE pairs' = pairs
    BY <2>2 DEF EngineInv, ClaimedOnce
  <2>3. ASSUME NEW c \in DOMAIN cashier \ Used, pairs' = pairs \cup {Paired(c)} PROVE ClaimedOnce'
    <3>1. Paired(c).cash = c
      OBVIOUS
    <3> QED BY <2>1, <2>3, <3>1 DEF EngineInv, ClaimedOnce
  <2> QED BY <1>3, <2>2, <2>3
<1>9. InOrder'
  <2>1. \A p \in pairs' : crm[p.primary].type = "DEPOSIT" =>
          p.legs = {p.primary} /\ p.primary \in Seen
    BY <1>6 DEF EngineInv, InOrder
  <2> QED BY <1>2, <1>5, <2>1 DEF InOrder
<1>10. NothingFree'
  <2> SUFFICES ASSUME NEW j \in Seen, \A p \in pairs' : j \notin p.legs,
                      NEW c \in CashierOf("DEPOSIT"),
                      cashier[c].keys \cap Family(crm[j].keys) # {}
               PROVE  c \in Used'
    BY <1>2, <1>5, FamilyStays DEF NothingFree, CashierOf
  <2> QED BY <1>4 DEF EngineInv, NothingFree
<1>11. SettledFirstSoFar'
  <2> SUFFICES ASSUME NEW j \in Seen, LayerClass(crm[j].class) = "ACTIVE",
                      \A p \in pairs' : j \notin p.legs,
                      NEW p \in pairs', crm[p.primary].type = "DEPOSIT",
                      Family(crm[p.primary].keys) = Family(crm[j].keys)
               PROVE  LayerClass(crm[p.primary].class) = "ACTIVE"
    BY <1>2, <1>5, FamilyStays DEF SettledFirstSoFar
  <2> QED BY <1>4, <1>6 DEF EngineInv, SettledFirstSoFar
<1>12. CertainFirst' /\ ReconciledIsAgreed' /\ FoldedIsHarmless'
  <2>1. DOMAIN matches' = {} /\ Certain' = {} /\ Tried' = {} /\ stage' # "exact" /\ one' = {}
    BY <1>0, <1>2 DEF Certain, Tried
  <2> QED BY <2>1 DEF CertainFirst, ReconciledIsAgreed, FoldedIsHarmless
<1> QED BY <1>7, <1>8, <1>9, <1>10, <1>11, <1>12 DEF EngineInv

\* What Layer 1 left stays as it is for whoever comes after it.
LEMMA LayerOneStays ==
    ASSUME EngineInv, UNCHANGED <<crm, cashier, pairs>>, Seen' = Seen
    PROVE  ClaimedOnce' /\ InOrder' /\ NothingFree' /\ SettledFirstSoFar'
<1>1. ClaimedOnce'
  BY DEF EngineInv, ClaimedOnce
<1>2. InOrder'
  BY DEF EngineInv, InOrder, CrmOf
<1>3. NothingFree'
  <2>1. Used' = Used
    BY DEF Used
  <2> QED BY <2>1, FamilyStays DEF EngineInv, NothingFree, CashierOf
<1>4. SettledFirstSoFar'
  BY FamilyStays DEF EngineInv, SettledFirstSoFar
<1> QED BY <1>1, <1>2, <1>3, <1>4

LEMMA MatchExactKeeps ==
    ASSUME EngineInv, MatchExact
    PROVE  EngineInv'
<1>0. /\ EngineTypeOK /\ stage = "exact" /\ todo # {} /\ todo \subseteq DOMAIN cashier /\ one = {}
      /\ CertainFirst /\ Certain = DOMAIN matches /\ todo \cap DOMAIN matches = {}
      /\ DOMAIN matches \subseteq DOMAIN cashier
      /\ matches \in [DOMAIN matches -> [row : DOMAIN psp, how : {"exact", "fuzzy"}]]
  BY DEF EngineInv, EngineTypeOK, MatchExact, RowsOf, CertainFirst
<1>1. PICK c \in todo :
        /\ matches' = IF ExactPick(c) = 0 THEN matches
                      ELSE [d \in DOMAIN matches \cup {c} |->
                              IF d = c THEN [row |-> ExactPick(c), how |-> "exact"]
                              ELSE matches[d]]
        /\ todo' = todo \ {c}
  <2>1. Min(todo) \in todo
    BY <1>0, FilesTyped, MinIsLeast
  <2> QED BY <2>1 DEF MatchExact
<1>2. UNCHANGED <<crm, cashier, psp, stage, pairs, one>>
  BY DEF MatchExact
<1>3. /\ \A k : ProviderId(k)' = ProviderId(k)
      /\ Claimed = ClaimedForCertain
      /\ Unclaimed \subseteq DOMAIN psp /\ 0 \notin Unclaimed
      /\ \A k \in DOMAIN psp : k \in Unclaimed <=> ProviderId(k) \notin ClaimedForCertain
  BY <1>0, <1>2, FilesTyped DEF ProviderId, Claimed, ClaimedForCertain, Unclaimed
<1>4. \/ /\ matches' = matches
         /\ \A k \in Unclaimed : Range(cashier[c].names) \cap Range(psp[k].ids) = {}
      \/ \E k \in Unclaimed :
           matches' = [d \in DOMAIN matches \cup {c} |->
                         IF d = c THEN [row |-> k, how |-> "exact"] ELSE matches[d]]
  <2>1. c \in DOMAIN cashier
    BY <1>0
  <2>2. \/ ExactPick(c) \in Unclaimed
        \/ /\ ExactPick(c) = 0
           /\ \A k \in Unclaimed : Range(cashier[c].names) \cap Range(psp[k].ids) = {}
    BY <1>0, <2>1, CertainPick
  <2> QED BY <1>1, <1>3, <2>2
<1>5. /\ DOMAIN matches \subseteq DOMAIN matches' /\ DOMAIN matches' \subseteq DOMAIN matches \cup {c}
      /\ \A d \in DOMAIN matches : matches'[d] = matches[d]
      /\ matches' \in [DOMAIN matches' -> [row : DOMAIN psp, how : {"exact", "fuzzy"}]]
      /\ \A d \in DOMAIN matches' : matches'[d].how = "exact"
      /\ \/ c \in DOMAIN matches'
         \/ \A k \in Unclaimed : Range(cashier[c].names) \cap Range(psp[k].ids) = {}
  <2>1. \A d \in DOMAIN matches : matches[d].how = "exact"
    BY <1>0 DEF Certain
  <2>2. CASE matches' = matches
    BY <1>0, <1>4, <2>1, <2>2
  <2>3. ASSUME NEW k \in Unclaimed,
               matches' = [d \in DOMAIN matches \cup {c} |->
                             IF d = c THEN [row |-> k, how |-> "exact"] ELSE matches[d]]
        PROVE  /\ DOMAIN matches \subseteq DOMAIN matches'
               /\ DOMAIN matches' \subseteq DOMAIN matches \cup {c}
               /\ \A d \in DOMAIN matches : matches'[d] = matches[d]
               /\ matches' \in [DOMAIN matches' -> [row : DOMAIN psp, how : {"exact", "fuzzy"}]]
               /\ \A d \in DOMAIN matches' : matches'[d].how = "exact"
               /\ c \in DOMAIN matches'
    <3>1. k \in DOMAIN psp /\ c \notin DOMAIN matches
      BY <1>0, <1>3
    <3> QED BY <1>0, <2>1, <2>3, <3>1
  <2> QED BY <1>4, <2>2, <2>3
<1>6. EngineTypeOK'
  <2>1. todo' \subseteq RowsOf(stage)'
    BY <1>0, <1>1, <1>2 DEF RowsOf
  <2>2. DOMAIN matches' \subseteq DOMAIN cashier
    BY <1>0, <1>1, <1>5
  <2> QED BY <1>0, <1>2, <1>5, <2>1, <2>2 DEF EngineTypeOK
<1>7. ClaimedOnce' /\ InOrder' /\ NothingFree' /\ SettledFirstSoFar'
  <2>1. Seen' = Seen
    BY <1>0, <1>2 DEF Seen, CrmOf
  <2> QED BY <1>2, <2>1, LayerOneStays
<1>8. Certain' = DOMAIN matches' /\ ClaimedForCertain \subseteq ClaimedForCertain'
  <2>1. Certain' = DOMAIN matches'
    BY <1>5 DEF Certain
  <2>2. ClaimedForCertain' = {ProviderId(matches'[d].row) : d \in Certain'}
    BY <1>2 DEF ClaimedForCertain, ProviderId
  <2>3. ClaimedForCertain = {ProviderId(matches[d].row) : d \in Certain}
    BY DEF ClaimedForCertain
  <2> QED BY <1>0, <1>5, <2>1, <2>2, <2>3
<1>9. CertainFirst'
  <2>1. Tried' = Tried \cup {c}
    BY <1>0, <1>1, <1>2 DEF Tried
  <2>2. ASSUME NEW d \in Tried' \ Certain', NEW k \in DOMAIN psp,
               Range(cashier[d].names) \cap Range(psp[k].ids) # {}
        PROVE  ProviderId(k) \in ClaimedForCertain'
    <3>1. CASE d = c
      <4>1. k \notin Unclaimed
        BY <1>5, <1>8, <2>2, <3>1
      <4> QED BY <1>3, <1>8, <4>1
    <3>2. CASE d # c
      <4>1. d \in Tried \ Certain
        BY <1>0, <1>5, <1>8, <2>1, <2>2, <3>2
      <4> QED BY <1>0, <1>8, <2>2, <4>1 DEF CertainFirst
    <3> QED BY <3>1, <3>2
  <2>3. todo' \cap DOMAIN matches' = {}
    BY <1>0, <1>1, <1>5
  <2>4. DOMAIN matches' \ Certain' = {}
    BY <1>8
  <2> QED BY <1>2, <1>3, <1>8, <2>2, <2>3, <2>4 DEF CertainFirst
<1>10. ReconciledIsAgreed' /\ FoldedIsHarmless'
  BY <1>0, <1>2 DEF ReconciledIsAgreed, FoldedIsHarmless
<1> QED BY <1>6, <1>7, <1>9, <1>10 DEF EngineInv

LEMMA MatchFuzzyKeeps ==
    ASSUME EngineInv, MatchFuzzy
    PROVE  EngineInv'
<1>0. /\ EngineTypeOK /\ stage = "fuzzy" /\ todo # {} /\ todo \subseteq DOMAIN cashier /\ one = {}
      /\ CertainFirst /\ DOMAIN matches \subseteq DOMAIN cashier
      /\ matches \in [DOMAIN matches -> [row : DOMAIN psp, how : {"exact", "fuzzy"}]]
  BY DEF EngineInv, EngineTypeOK, MatchFuzzy, RowsOf
<1>1. PICK c \in todo :
        /\ matches' = IF (IF c \in DOMAIN matches THEN 0 ELSE FuzzyPick(c)) = 0 THEN matches
                      ELSE [d \in DOMAIN matches \cup {c} |->
                              IF d = c THEN [row |-> IF c \in DOMAIN matches THEN 0
                                                     ELSE FuzzyPick(c), how |-> "fuzzy"]
                              ELSE matches[d]]
        /\ todo' = todo \ {c}
  <2>1. Min(todo) \in todo
    BY <1>0, FilesTyped, MinIsLeast
  <2> QED BY <2>1 DEF MatchFuzzy
<1>2. UNCHANGED <<crm, cashier, psp, stage, pairs, one>>
  BY DEF MatchFuzzy
<1>3. /\ \A k : ProviderId(k)' = ProviderId(k)
      /\ ClaimedForCertain \subseteq Claimed
      /\ Unclaimed \subseteq DOMAIN psp /\ 0 \notin Unclaimed
      /\ \A k \in Unclaimed : ProviderId(k) \notin ClaimedForCertain
  BY <1>0, <1>2, FilesTyped DEF ProviderId, Claimed, ClaimedForCertain, Certain, Unclaimed
<1>4. \/ matches' = matches
      \/ /\ c \notin DOMAIN matches
         /\ \E k \in Unclaimed :
              matches' = [d \in DOMAIN matches \cup {c} |->
                            IF d = c THEN [row |-> k, how |-> "fuzzy"] ELSE matches[d]]
  <2>1. c \in DOMAIN cashier
    BY <1>0
  <2>2. FuzzyPick(c) \in {0} \cup Unclaimed
    BY <1>0, <2>1, GuessPick
  <2> QED BY <1>1, <2>2
<1>5. /\ DOMAIN matches \subseteq DOMAIN matches' /\ DOMAIN matches' \subseteq DOMAIN matches \cup {c}
      /\ \A d \in DOMAIN matches : matches'[d] = matches[d]
      /\ matches' \in [DOMAIN matches' -> [row : DOMAIN psp, how : {"exact", "fuzzy"}]]
      /\ \A d \in DOMAIN matches' \ DOMAIN matches :
            matches'[d].how = "fuzzy" /\ matches'[d].row \in Unclaimed
  <2>1. CASE matches' = matches
    BY <1>0, <2>1
  <2>2. ASSUME NEW k \in Unclaimed, c \notin DOMAIN matches,
               matches' = [d \in DOMAIN matches \cup {c} |->
                             IF d = c THEN [row |-> k, how |-> "fuzzy"] ELSE matches[d]]
        PROVE  /\ DOMAIN matches \subseteq DOMAIN matches'
               /\ DOMAIN matches' \subseteq DOMAIN matches \cup {c}
               /\ \A d \in DOMAIN matches : matches'[d] = matches[d]
               /\ matches' \in [DOMAIN matches' -> [row : DOMAIN psp, how : {"exact", "fuzzy"}]]
               /\ \A d \in DOMAIN matches' \ DOMAIN matches :
                     matches'[d].how = "fuzzy" /\ matches'[d].row \in Unclaimed
    BY <1>0, <1>3, <2>2
  <2> QED BY <1>4, <2>1, <2>2
<1>6. EngineTypeOK'
  <2>1. todo' \subseteq RowsOf(stage)'
    BY <1>0, <1>1, <1>2 DEF RowsOf
  <2>2. DOMAIN matches' \subseteq DOMAIN cashier
    BY <1>0, <1>1, <1>5
  <2> QED BY <1>0, <1>2, <1>5, <2>1, <2>2 DEF EngineTypeOK
<1>7. ClaimedOnce' /\ InOrder' /\ NothingFree' /\ SettledFirstSoFar'
  <2>1. Seen' = Seen
    BY <1>0, <1>2 DEF Seen, CrmOf
  <2> QED BY <1>2, <2>1, LayerOneStays
<1>8. Certain' = Certain /\ ClaimedForCertain' = ClaimedForCertain
  <2>1. Certain' = Certain
    BY <1>5 DEF Certain
  <2>2. ClaimedForCertain' = {ProviderId(matches'[d].row) : d \in Certain'}
    BY <1>2 DEF ClaimedForCertain, ProviderId
  <2>3. ClaimedForCertain = {ProviderId(matches[d].row) : d \in Certain}
    BY DEF ClaimedForCertain
  <2>4. \A d \in Certain : matches'[d] = matches[d]
    BY <1>5 DEF Certain
  <2> QED BY <2>1, <2>2, <2>3, <2>4
<1>9. CertainFirst'
  <2>1. Tried' = Tried
    BY <1>0, <1>2 DEF Tried
  <2>2. ASSUME NEW d \in DOMAIN matches' \ Certain
        PROVE  ProviderId(matches'[d].row) \notin ClaimedForCertain
    <3>1. CASE d \in DOMAIN matches
      BY <1>0, <1>5, <2>2, <3>1 DEF CertainFirst
    <3>2. CASE d \notin DOMAIN matches
      BY <1>3, <1>5, <2>2, <3>2
    <3> QED BY <3>1, <3>2
  <2>3. \A d \in DOMAIN matches' \ Certain' :
          ProviderId(matches[d].row)' \notin ClaimedForCertain'
    BY <1>2, <1>8, <2>2 DEF ProviderId
  <2> QED BY <1>0, <1>2, <1>3, <1>8, <2>1, <2>3 DEF CertainFirst
<1>10. ReconciledIsAgreed' /\ FoldedIsHarmless'
  BY <1>0, <1>2 DEF ReconciledIsAgreed, FoldedIsHarmless
<1> QED BY <1>6, <1>7, <1>9, <1>10 DEF EngineInv

\* What Layer 2 left stays as it is for the master.
LEMMA LayerTwoStays ==
    ASSUME EngineInv, UNCHANGED <<cashier, psp, matches>>, Tried' = Tried, stage' # "exact"
    PROVE  CertainFirst'
<1>1. Certain' = Certain
  BY DEF Certain
<1>2. ClaimedForCertain' = ClaimedForCertain
  BY <1>1 DEF ClaimedForCertain, ProviderId
<1> QED BY <1>1, <1>2 DEF EngineInv, CertainFirst, ProviderId

LEMMA PassEndsKeeps ==
    ASSUME EngineInv, PassEnds
    PROVE  EngineInv'
<1>0. /\ EngineTypeOK /\ stage \in {"deposits", "withdrawals", "exact", "fuzzy"} /\ todo = {}
      /\ UNCHANGED <<crm, cashier, psp, pairs, matches, one>> /\ one = {}
      /\ stage' = StageAfter(stage) /\ todo' = RowsOf(stage')
  BY DEF EngineInv, EngineTypeOK, PassEnds
<1>1. /\ stage = "deposits" => stage' = "withdrawals"
      /\ stage = "withdrawals" => stage' = "exact"
      /\ stage = "exact" => stage' = "fuzzy"
      /\ stage = "fuzzy" => stage' = "master"
  BY <1>0 DEF StageAfter
<1>2. EngineTypeOK'
  <2>1. todo' \subseteq RowsOf(stage)'
    BY <1>0 DEF RowsOf, CrmOf
  <2> QED BY <1>0, <1>1, <2>1 DEF EngineTypeOK
<1>3. Seen' = Seen
  BY <1>0, <1>1 DEF Seen, CrmOf
<1>4. ClaimedOnce' /\ InOrder' /\ NothingFree' /\ SettledFirstSoFar'
  BY <1>0, <1>3, LayerOneStays
<1>5. CertainFirst'
  <2>1. CASE stage = "withdrawals"
    <3>1. DOMAIN matches' = {} /\ Certain' = {} /\ Tried' = {}
      BY <1>0, <1>1, <2>1 DEF EngineTypeOK, Certain, Tried, RowsOf
    <3> QED BY <3>1 DEF CertainFirst
  <2>2. CASE stage # "withdrawals"
    <3>1. Tried' = Tried
      BY <1>0, <1>1, <2>2 DEF Tried
    <3> QED BY <1>0, <1>1, <2>2, <3>1, LayerTwoStays
  <2> QED BY <2>1, <2>2
<1>6. ReconciledIsAgreed' /\ FoldedIsHarmless'
  BY <1>0 DEF ReconciledIsAgreed, FoldedIsHarmless
<1> QED BY <1>2, <1>4, <1>5, <1>6 DEF EngineInv

----------------------------------------------------------------------------
(* The reconciliation engine: what the master says. *)

LegClass == Settlements \cup {"MISSING"}

\* The verdicts that close a chain, and what they ask of the three legs.
LEMMA CombineSays ==
    ASSUME NEW a, NEW b, a.class \in LegClass, b.class \in LegClass,
           NEW cash \in Settlements, NEW expected \in BOOLEAN
    PROVE  /\ Combine(a, cash, b, expected).status = "Reconciled" =>
                /\ a.gap = 0 /\ b.gap = 0 /\ a.class = "ACTIVE"
                /\ cash # "FAILED"
                /\ \/ b.class = "ACTIVE"
                   \/ b.class = "MISSING" /\ cash = "ACTIVE" /\ ~ expected
           /\ Combine(a, cash, b, expected).status \in {"Agreed Decline", "Incomplete"} =>
                "ACTIVE" \notin {a.class, cash, b.class}
<1> DEFINE v == Combine(a, cash, b, expected)
<1> SUFFICES /\ v.status = "Reconciled" =>
                  /\ a.gap = 0 /\ b.gap = 0 /\ a.class = "ACTIVE"
                  /\ cash # "FAILED"
                  /\ \/ b.class = "ACTIVE"
                     \/ b.class = "MISSING" /\ cash = "ACTIVE" /\ ~ expected
             /\ v.status \in {"Agreed Decline", "Incomplete"} =>
                  "ACTIVE" \notin {a.class, cash, b.class}
  OBVIOUS
<1> DEFINE legs == <<a.class, cash, b.class>>
           active == {n \in 1..3 : legs[n] = "ACTIVE"}
           failed == {n \in 1..3 : legs[n] = "FAILED"}
           pending == "PENDING" \in Range(legs)
           many == Cardinality(active) >= 2
           bothRight == IF a.gap = 0 /\ b.gap = 0 THEN Verdict("Reconciled", 5)
                     ELSE Verdict("Amount Mismatch", 2)
<1>0. 1..3 = {1, 2, 3} /\ legs[1] = a.class /\ legs[2] = cash /\ legs[3] = b.class
  OBVIOUS
<1>1. active # {} <=> "ACTIVE" \in {a.class, cash, b.class}
  BY <1>0
<1>2. failed # {} <=> "FAILED" \in {a.class, cash, b.class}
  BY <1>0
<1>3. cash # "ACTIVE" /\ many => a.class = "ACTIVE" /\ b.class = "ACTIVE"
  <2> SUFFICES ASSUME cash # "ACTIVE", many, a.class # "ACTIVE" \/ b.class # "ACTIVE"
               PROVE  FALSE
    OBVIOUS
  <2>1. \E n \in {1, 3} : active \subseteq {n}
    BY <1>0
  <2>2. PICK n \in {1, 3} : active \subseteq {n}
    BY <2>1
  <2> DEFINE single == {n}
  <2>3. IsFiniteSet(single) /\ Cardinality(single) = 1 /\ active \in SUBSET single
    BY <2>2, FS_Singleton
  <2> HIDE DEF active, single
  <2>4. IsFiniteSet(active) /\ Cardinality(active) <= Cardinality(single)
    BY <2>3, FS_Subset
  <2>5. Cardinality(active) \in Nat
    BY <2>4, FS_CardinalityType
  <2> QED BY <2>3, <2>4, <2>5
<1>4. v = CASE active # {} /\ failed # {} -> Verdict("Status Mismatch", 1)
            [] active = {} /\ failed # {} /\ pending -> Verdict("Needs Review", 3)
            [] active = {} /\ failed # {} /\ ~ pending -> Verdict("Agreed Decline", 6)
            [] active = {} /\ failed = {} ->
                  IF a.class = "MISSING" THEN Verdict("Incomplete", 7)
                  ELSE Verdict("Needs Review", 3)
            [] OTHER ->
                  IF cash # "ACTIVE"
                  THEN IF many THEN bothRight ELSE Verdict("Needs Review", 3)
                  ELSE IF a.class = "MISSING" THEN Verdict("Missing in CRM", 1)
                  ELSE IF expected /\ b.class = "MISSING" THEN Verdict("Missing in PSP", 2)
                  ELSE IF a.class = "PENDING" THEN Verdict("Needs Review", 2)
                  ELSE IF b.class = "PENDING" THEN Verdict("Needs Review", 3)
                  ELSE bothRight
  BY DEF Combine
<1> HIDE DEF active, failed, pending, many, v
<1>5. bothRight.status \in {"Reconciled", "Amount Mismatch"}
        /\ (bothRight.status = "Reconciled" => a.gap = 0 /\ b.gap = 0)
  BY DEF Verdict
<1> HIDE DEF bothRight
<1>6. CASE active # {} /\ failed # {}
  <2>1. v = Verdict("Status Mismatch", 1)
    BY <1>4, <1>6
  <2> QED BY <2>1 DEF Verdict
<1>7. CASE active = {}
  <2>1. CASE failed # {} /\ pending
    <3>1. v = Verdict("Needs Review", 3)
      BY <1>4, <1>7, <2>1
    <3> QED BY <3>1 DEF Verdict
  <2>2. CASE failed # {} /\ ~ pending
    <3>1. v = Verdict("Agreed Decline", 6)
      BY <1>4, <1>7, <2>2
    <3>2. v.status = "Agreed Decline"
      BY <3>1 DEF Verdict
    <3> QED BY <1>1, <1>7, <3>2
  <2>3. CASE failed = {} /\ a.class = "MISSING"
    <3>1. v = Verdict("Incomplete", 7)
      BY <1>4, <1>7, <2>3
    <3>2. v.status = "Incomplete"
      BY <3>1 DEF Verdict
    <3> QED BY <1>1, <1>7, <3>2
  <2>4. CASE failed = {} /\ a.class # "MISSING"
    <3>1. v = Verdict("Needs Review", 3)
      BY <1>4, <1>7, <2>4
    <3> QED BY <3>1 DEF Verdict
  <2> QED BY <2>1, <2>2, <2>3, <2>4
<1>8. CASE active # {} /\ failed = {}
  <2>1. v = IF cash # "ACTIVE"
            THEN IF many THEN bothRight ELSE Verdict("Needs Review", 3)
            ELSE IF a.class = "MISSING" THEN Verdict("Missing in CRM", 1)
            ELSE IF expected /\ b.class = "MISSING" THEN Verdict("Missing in PSP", 2)
            ELSE IF a.class = "PENDING" THEN Verdict("Needs Review", 2)
            ELSE IF b.class = "PENDING" THEN Verdict("Needs Review", 3)
            ELSE bothRight
    BY <1>4, <1>8
  <2>2. CASE cash # "ACTIVE" /\ many
    <3>1. v = bothRight
      BY <2>1, <2>2
    <3> QED BY <1>2, <1>3, <1>5, <1>8, <2>2, <3>1
  <2>3. CASE cash # "ACTIVE" /\ ~ many
    <3>1. v = Verdict("Needs Review", 3)
      BY <2>1, <2>3
    <3> QED BY <3>1 DEF Verdict
  <2>4. CASE cash = "ACTIVE" /\ a.class = "MISSING"
    <3>1. v = Verdict("Missing in CRM", 1)
      BY <2>1, <2>4
    <3> QED BY <3>1 DEF Verdict
  <2>5. CASE cash = "ACTIVE" /\ a.class # "MISSING" /\ expected /\ b.class = "MISSING"
    <3>1. v = Verdict("Missing in PSP", 2)
      BY <2>1, <2>5
    <3> QED BY <3>1 DEF Verdict
  <2>6. CASE /\ cash = "ACTIVE" /\ a.class = "PENDING"
             /\ ~ (expected /\ b.class = "MISSING")
    <3>1. v = Verdict("Needs Review", 2)
      BY <2>1, <2>6
    <3> QED BY <3>1 DEF Verdict
  <2>7. CASE /\ cash = "ACTIVE" /\ a.class \notin {"MISSING", "PENDING"}
             /\ b.class = "PENDING"
    <3>1. v = Verdict("Needs Review", 3)
      BY <2>1, <2>7
    <3> QED BY <3>1 DEF Verdict
  <2>8. CASE /\ cash = "ACTIVE" /\ a.class \notin {"MISSING", "PENDING"}
             /\ b.class # "PENDING" /\ ~ (expected /\ b.class = "MISSING")
    <3>1. v = bothRight
      BY <2>1, <2>8
    <3>2. a.class = "ACTIVE" /\ b.class \in {"ACTIVE", "MISSING"}
      BY <1>2, <1>8, <2>8 DEF LegClass, Settlements
    <3> QED BY <1>5, <2>8, <3>1, <3>2
  <2> QED BY <2>2, <2>3, <2>4, <2>5, <2>6, <2>7, <2>8
<1> QED BY <1>6, <1>7, <1>8

\* The master's legs of a cashier row, in terms of what the layers claimed.
LEMMA LegsAre ==
    ASSUME EngineTypeOK, ClaimedOnce, NEW c \in DOMAIN cashier
    PROVE  /\ \A p \in Shown : p.cash = c =>
                /\ CrmLeg(c) = [class |-> MasterClass(crm[p.primary].class),
                                gap |-> Gap(Total(crm, p.legs), cashier[c].amount)]
                /\ MasterClass(crm[p.primary].class) \in Settlements
           /\ (\A p \in Shown : p.cash # c) => CrmLeg(c) = NoLeg
           /\ c \in DOMAIN matches =>
                /\ ProviderLeg(c) = [class |-> MasterClass(psp[matches[c].row].class),
                                     gap |-> Gap(cashier[c].amount, psp[matches[c].row].amount)]
                /\ MasterClass(psp[matches[c].row].class) \in Settlements /\ Uploaded # {}
           /\ c \notin DOMAIN matches => ProviderLeg(c) = NoLeg
           /\ \A p \in pairs : p.cash = c => \A q \in pairs : q.cash = c => q = p
           /\ MasterClass(cashier[c].class) \in Settlements
<1>1. \A p, q \in pairs : p.cash = q.cash => p = q
  BY DEF ClaimedOnce
<1>2. ASSUME NEW p \in Shown, p.cash = c
      PROVE  /\ CrmLeg(c) = [class |-> MasterClass(crm[p.primary].class),
                             gap |-> Gap(Total(crm, p.legs), cashier[c].amount)]
             /\ MasterClass(crm[p.primary].class) \in Settlements
  <2>1. \A q \in Shown : q.cash = c => q = p
    BY <1>1, <1>2 DEF Shown
  <2>2. (CHOOSE q \in Shown : q.cash = c) = p
    BY <1>2, <2>1
  <2>3. CrmLeg(c) = [class |-> MasterClass(crm[p.primary].class),
                     gap |-> Gap(Total(crm, p.legs), cashier[c].amount)]
    BY <1>2, <2>2 DEF CrmLeg
  <2>4. p.primary \in DOMAIN crm
    BY <1>2 DEF Shown, EngineTypeOK
  <2> QED BY <2>3, <2>4, FilesTyped, ClassesAreRead
<1>3. (\A p \in Shown : p.cash # c) => CrmLeg(c) = NoLeg
  BY DEF CrmLeg
<1>4. ASSUME c \in DOMAIN matches
      PROVE  /\ ProviderLeg(c) = [class |-> MasterClass(psp[matches[c].row].class),
                                  gap |-> Gap(cashier[c].amount, psp[matches[c].row].amount)]
             /\ MasterClass(psp[matches[c].row].class) \in Settlements /\ Uploaded # {}
  <2>1. matches[c].row \in DOMAIN psp
    BY <1>4 DEF EngineTypeOK
  <2> QED BY <1>4, <2>1, FilesTyped, ClassesAreRead DEF ProviderLeg, Uploaded
<1>5. c \notin DOMAIN matches => ProviderLeg(c) = NoLeg
  BY DEF ProviderLeg
<1>6. MasterClass(cashier[c].class) \in Settlements
  BY FilesTyped, ClassesAreRead
<1> QED BY <1>1, <1>2, <1>3, <1>4, <1>5, <1>6

\* The legs a chain's verdict was reached on are all the layers claimed.
LEMMA ChainIsJudged ==
    ASSUME EngineTypeOK, ClaimedOnce, NEW c \in DOMAIN cashier
    PROVE  /\ ChainRow(c).status = "Reconciled" =>
                /\ CrmLeg(c) = [class |-> "ACTIVE", gap |-> 0]
                /\ cashier[c].route \in Uploaded =>
                      ProviderLeg(c) = [class |-> "ACTIVE", gap |-> 0]
                /\ "FAILED" \notin LegsOf(c)
           /\ ChainRow(c).status \in {"Agreed Decline", "Incomplete"} =>
                "ACTIVE" \notin LegsOf(c)
<1> DEFINE a == CrmLeg(c)
           b == ProviderLeg(c)
           cash == MasterClass(cashier[c].class)
           expected == ProviderExpected(c)
           verdict == Combine(a, cash, b, expected).status
<1>1. a.class \in LegClass /\ b.class \in LegClass /\ cash \in Settlements
  <2>1. NoLeg.class = "MISSING"
    BY DEF NoLeg
  <2>2. a.class \in LegClass
    <3>1. CASE \E p \in Shown : p.cash = c
      <4>1. PICK p \in Shown : p.cash = c
        BY <3>1
      <4>2. a.class = MasterClass(crm[p.primary].class)
              /\ MasterClass(crm[p.primary].class) \in Settlements
        BY <4>1, LegsAre
      <4> QED BY <4>2 DEF LegClass
    <3>2. CASE \A p \in Shown : p.cash # c
      BY <2>1, <3>2, LegsAre DEF LegClass
    <3> QED BY <3>1, <3>2
  <2>3. b.class \in LegClass
    <3>1. CASE c \in DOMAIN matches
      <4>1. b.class = MasterClass(psp[matches[c].row].class)
              /\ MasterClass(psp[matches[c].row].class) \in Settlements
        BY <3>1, LegsAre
      <4> QED BY <4>1 DEF LegClass
    <3>2. CASE c \notin DOMAIN matches
      BY <2>1, <3>2, LegsAre DEF LegClass
    <3> QED BY <3>1, <3>2
  <2> QED BY <2>2, <2>3, LegsAre
<1>2. expected \in BOOLEAN
  BY DEF ProviderExpected
<1>3. ASSUME NEW p \in pairs, p.cash = c
      PROVE  /\ MasterClass(crm[p.primary].class) \in {a.class, "FAILED", "PENDING"}
             /\ a.class # "MISSING" => MasterClass(crm[p.primary].class) = a.class
  <2>1. CASE p \in Shown
    <3>1. a.class = MasterClass(crm[p.primary].class)
      BY <1>3, <2>1, LegsAre
    <3> QED BY <3>1
  <2>2. CASE p \notin Shown
    <3>1. LayerClass(crm[p.primary].class) = "FAILED"
      BY <1>3, <2>2 DEF Shown, BothFailed
    <3>4. crm[p.primary].class \in Classes
      BY <1>3, FilesTyped DEF EngineTypeOK
    <3>5. MasterClass(crm[p.primary].class) \in {"FAILED", "PENDING"}
      BY <3>1, <3>4, ClassesAreRead DEF Settlements
    <3>2. \A q \in Shown : q.cash # c
      BY <1>3, <2>2, LegsAre DEF Shown
    <3>3. a.class = "MISSING"
      BY <3>2, LegsAre DEF NoLeg
    <3> QED BY <3>3, <3>5
  <2> QED BY <2>1, <2>2
<1>4. c \in DOMAIN matches =>
        MasterClass(psp[matches[c].row].class) = b.class /\ b.class # "MISSING"
  <2> SUFFICES ASSUME c \in DOMAIN matches
               PROVE  MasterClass(psp[matches[c].row].class) = b.class /\ b.class # "MISSING"
    OBVIOUS
  <2>1. b.class = MasterClass(psp[matches[c].row].class)
          /\ MasterClass(psp[matches[c].row].class) \in Settlements
    BY LegsAre
  <2> QED BY <2>1 DEF Settlements
<1> HIDE DEF a, b, cash, expected
<1>5. verdict = "Reconciled" =>
        /\ a.gap = 0 /\ b.gap = 0 /\ a.class = "ACTIVE"
        /\ cash # "FAILED"
        /\ \/ b.class = "ACTIVE"
           \/ b.class = "MISSING" /\ cash = "ACTIVE" /\ ~ expected
  <2>1. PICK k \in Settlements, e \in BOOLEAN : k = cash /\ e = expected
    BY <1>1, <1>2
  <2>2. Combine(a, k, b, e).status = "Reconciled" =>
          /\ a.gap = 0 /\ b.gap = 0 /\ a.class = "ACTIVE"
          /\ k # "FAILED"
          /\ \/ b.class = "ACTIVE"
             \/ b.class = "MISSING" /\ k = "ACTIVE" /\ ~ e
    BY <1>1, CombineSays
  <2> QED BY <2>1, <2>2
<1>6. verdict \in {"Agreed Decline", "Incomplete"} => "ACTIVE" \notin {a.class, cash, b.class}
  BY <1>1, <1>2, CombineSays
<1>7. ChainRow(c).status \in {verdict, "Not Reconciled"}
  BY DEF ChainRow, Row, Verdict, a, b, cash, expected
<1>8. a = [class |-> a.class, gap |-> a.gap] /\ b = [class |-> b.class, gap |-> b.gap]
  BY DEF CrmLeg, ProviderLeg, NoLeg, a, b
<1>9. b.class = "MISSING" /\ cash = "ACTIVE" /\ cashier[c].route \in Uploaded => expected
  <2> SUFFICES ASSUME b.class = "MISSING", cash = "ACTIVE", cashier[c].route \in Uploaded
               PROVE  expected
    OBVIOUS
  <2>1. c \notin DOMAIN matches /\ Uploaded # {} /\ ~ FileMissing(c)
    BY <1>4 DEF FileMissing
  <2>2. LayerClass(cashier[c].class) # "FAILED"
    BY FilesTyped, ClassesAreRead DEF cash
  <2>3. cashier[c].route \in Range(Configs)
    BY FilesTyped DEF Uploaded, EngineTypeOK
  <2> QED BY <2>1, <2>2, <2>3 DEF ProviderExpected, ShownByLayer2, expected
<1> HIDE DEF verdict
<1>10. \A s : s \in LegsOf(c) =>
         \/ s = cash
         \/ \E p \in pairs : p.cash = c /\ s = MasterClass(crm[p.primary].class)
         \/ c \in DOMAIN matches /\ s = MasterClass(psp[matches[c].row].class)
  BY DEF LegsOf, cash
<1>11. ASSUME verdict = "Reconciled"
       PROVE  /\ a = [class |-> "ACTIVE", gap |-> 0]
              /\ cashier[c].route \in Uploaded => b = [class |-> "ACTIVE", gap |-> 0]
              /\ "FAILED" \notin LegsOf(c)
  <2>1. a = [class |-> "ACTIVE", gap |-> 0]
    BY <1>5, <1>8, <1>11
  <2>2. cashier[c].route \in Uploaded => b = [class |-> "ACTIVE", gap |-> 0]
    BY <1>5, <1>8, <1>9, <1>11
  <2>3. "FAILED" \notin LegsOf(c)
    BY <1>3, <1>4, <1>5, <1>10, <1>11
  <2> QED BY <2>1, <2>2, <2>3
<1>12. ASSUME verdict \in {"Agreed Decline", "Incomplete"}
       PROVE  "ACTIVE" \notin LegsOf(c)
  BY <1>3, <1>4, <1>6, <1>10, <1>12
<1> QED BY <1>7, <1>11, <1>12 DEF a, b

\* A cashier row neither layer shows was matched with nothing that succeeded.
LEMMA DroppedIsJudged ==
    ASSUME EngineTypeOK, NEW c \in DOMAIN cashier, ~ ShownByLayer1(c), ~ ShownByLayer2(c)
    PROVE  /\ DroppedRow(c).status # "Reconciled"
           /\ DroppedRow(c).status \in {"Agreed Decline", "Incomplete"} =>
                "ACTIVE" \notin LegsOf(c)
<1>1. DroppedRow(c).status # "Reconciled"
        /\ DroppedRow(c).status # "Incomplete"
        /\ (DroppedRow(c).status = "Agreed Decline" => cashier[c].class = "FAILED")
  <2>1. \/ DroppedRow(c).status \in {"Provider Error", "Completed but Not Reconciled",
                                   "Awaiting Webhook", "In Reconciliation",
                                   "Never Routed", "Unclassified"}
        \/ cashier[c].says = "declined" /\ DroppedRow(c).status = "Agreed Decline"
    BY DEF DroppedRow, Row, Verdict
  <2> QED BY <2>1, FilesTyped
<1>2. \A p \in pairs : p.cash = c => MasterClass(crm[p.primary].class) # "ACTIVE"
  <2> SUFFICES ASSUME NEW p \in pairs, p.cash = c
               PROVE  MasterClass(crm[p.primary].class) # "ACTIVE"
    OBVIOUS
  <2>1. LayerClass(crm[p.primary].class) = "FAILED"
    BY DEF ShownByLayer1, Shown, BothFailed
  <2>2. crm[p.primary].class \in Classes
    BY FilesTyped DEF EngineTypeOK
  <2> QED BY <2>1, <2>2, ClassesAreRead
<1>3. c \notin DOMAIN matches
  <2> SUFFICES ASSUME c \in DOMAIN matches PROVE FALSE
    OBVIOUS
  <2>1. matches[c].row \in DOMAIN psp
    BY DEF EngineTypeOK
  <2>2. Uploaded # {}
    BY <2>1 DEF Uploaded
  <2> QED BY <2>2 DEF ShownByLayer2
<1>4. cashier[c].class = "FAILED" => "ACTIVE" \notin LegsOf(c)
  BY <1>2, <1>3 DEF LegsOf, MasterClass
<1> QED BY <1>1, <1>4

\* The master writes its rows and nothing they are judged by.
LEMMA LegsStay ==
    ASSUME UNCHANGED <<crm, cashier, psp, pairs, matches>>, NEW c
    PROVE  /\ Uploaded' = Uploaded
           /\ CrmLeg(c)' = CrmLeg(c)
           /\ ProviderLeg(c)' = ProviderLeg(c)
           /\ LegsOf(c)' = LegsOf(c)
<1>1. Uploaded' = Uploaded
  BY DEF Uploaded
<1>2. Shown' = Shown
  BY DEF Shown, BothFailed
<1>3. CrmLeg(c)' = CrmLeg(c)
  <2>1. (CHOOSE q \in Shown : q.cash = c)' = CHOOSE q \in Shown : q.cash = c
    BY <1>2
  <2> QED BY <1>2, <2>1 DEF CrmLeg
<1>4. ProviderLeg(c)' = ProviderLeg(c)
  BY DEF ProviderLeg, NoLeg
<1>5. LegsOf(c)' = LegsOf(c)
  BY DEF LegsOf
<1> QED BY <1>1, <1>3, <1>4, <1>5

LEMMA MasterKeeps ==
    ASSUME EngineInv, Master
    PROVE  EngineInv'
<1> DEFINE shown == {c \in DOMAIN cashier : ShownByLayer1(c) \/ ShownByLayer2(c)}
<1>0. /\ EngineTypeOK /\ ClaimedOnce /\ stage = "master" /\ stage' = "done"
      /\ UNCHANGED <<crm, cashier, psp, todo, pairs, matches>>
      /\ todo = {}
  BY DEF EngineInv, EngineTypeOK, Master, StageAfter, RowsOf
<1>1. \A r \in one' :
        \/ \E c \in shown : r = ChainRow(c)
        \/ \E i \in DOMAIN crm : r = Row("crm", i, Verdict("Missing in Cashier", 1))
        \/ \E k \in DOMAIN psp : r = Row("psp", k, Verdict("Unmatched PSP", 2))
        \/ \E c \in DOMAIN cashier \ shown : r = DroppedRow(c)
  BY DEF Master, Unclaimed
<1>2. EngineTypeOK'
  BY <1>0 DEF EngineTypeOK
<1>3. Seen' = Seen /\ Tried' = Tried
  BY <1>0 DEF Seen, Tried, CrmOf
<1>4. ClaimedOnce' /\ InOrder' /\ NothingFree' /\ SettledFirstSoFar'
  BY <1>0, <1>3, LayerOneStays
<1>5. CertainFirst'
  BY <1>0, <1>3, LayerTwoStays
<1> HIDE DEF shown
<1>6. ASSUME NEW r \in one'
      PROVE  /\ r.status = "Reconciled" =>
                  /\ CrmLeg(r.of) = [class |-> "ACTIVE", gap |-> 0]
                  /\ cashier[r.of].route \in Uploaded =>
                        ProviderLeg(r.of) = [class |-> "ACTIVE", gap |-> 0]
                  /\ "FAILED" \notin LegsOf(r.of)
             /\ r.status \in {"Agreed Decline", "Incomplete"} => "ACTIVE" \notin LegsOf(r.of)
  <2>1. ASSUME NEW c \in shown, r = ChainRow(c)
        PROVE  /\ r.status = "Reconciled" =>
                    /\ CrmLeg(r.of) = [class |-> "ACTIVE", gap |-> 0]
                    /\ cashier[r.of].route \in Uploaded =>
                          ProviderLeg(r.of) = [class |-> "ACTIVE", gap |-> 0]
                    /\ "FAILED" \notin LegsOf(r.of)
               /\ r.status \in {"Agreed Decline", "Incomplete"} => "ACTIVE" \notin LegsOf(r.of)
    <3>1. r.of = c /\ c \in DOMAIN cashier
      BY <2>1 DEF ChainRow, Row, shown
    <3> QED BY <1>0, <2>1, <3>1, ChainIsJudged
  <2>2. ASSUME NEW i \in DOMAIN crm, r = Row("crm", i, Verdict("Missing in Cashier", 1))
        PROVE  r.status = "Missing in Cashier"
    BY <2>2 DEF Row, Verdict
  <2>3. ASSUME NEW k \in DOMAIN psp, r = Row("psp", k, Verdict("Unmatched PSP", 2))
        PROVE  r.status = "Unmatched PSP"
    BY <2>3 DEF Row, Verdict
  <2>4. ASSUME NEW c \in DOMAIN cashier \ shown, r = DroppedRow(c)
        PROVE  /\ r.status # "Reconciled"
               /\ r.status \in {"Agreed Decline", "Incomplete"} => "ACTIVE" \notin LegsOf(r.of)
    <3>1. r.of = c
      BY <2>4 DEF DroppedRow, Row
    <3>2. ~ ShownByLayer1(c) /\ ~ ShownByLayer2(c)
      BY <2>4 DEF shown
    <3> QED BY <1>0, <2>4, <3>1, <3>2, DroppedIsJudged
  <2> QED BY <1>1, <2>1, <2>2, <2>3, <2>4
<1>7. ReconciledIsAgreed' /\ FoldedIsHarmless'
  BY <1>0, <1>6, LegsStay DEF ReconciledIsAgreed, FoldedIsHarmless
<1> QED BY <1>2, <1>4, <1>5, <1>7 DEF EngineInv

LEMMA EngineStep == EngineInv /\ [EngineNext]_engineVars => EngineInv'
<1> SUFFICES ASSUME EngineInv, [EngineNext]_engineVars PROVE EngineInv'
  OBVIOUS
<1>1. CASE MatchDeposit
  BY <1>1, MatchDepositKeeps
<1>2. CASE MatchWithdrawal
  BY <1>2, MatchWithdrawalKeeps
<1>3. CASE MatchExact
  BY <1>3, MatchExactKeeps
<1>4. CASE MatchFuzzy
  BY <1>4, MatchFuzzyKeeps
<1>5. CASE PassEnds
  BY <1>5, PassEndsKeeps
<1>6. CASE Master
  BY <1>6, MasterKeeps
<1>7. CASE UNCHANGED engineVars
  <2>0. UNCHANGED <<crm, cashier, psp, stage, todo, pairs, matches, one>>
    BY <1>7 DEF engineVars
  <2>1. EngineTypeOK'
    BY <2>0 DEF EngineInv, EngineTypeOK, RowsOf, CrmOf
  <2>2. Seen' = Seen /\ Tried' = Tried /\ Certain' = Certain
    BY <2>0 DEF Seen, Tried, CrmOf, Certain
  <2>3. ClaimedForCertain' = ClaimedForCertain
    BY <2>0, <2>2 DEF ClaimedForCertain, ProviderId
  <2>4. ClaimedOnce' /\ InOrder' /\ NothingFree' /\ SettledFirstSoFar'
    BY <2>0, <2>2, LayerOneStays
  <2>5. CertainFirst'
    BY <2>0, <2>2, <2>3 DEF EngineInv, CertainFirst, ProviderId
  <2>6. ReconciledIsAgreed' /\ FoldedIsHarmless'
    BY <2>0, LegsStay DEF EngineInv, ReconciledIsAgreed, FoldedIsHarmless
  <2> QED BY <2>1, <2>4, <2>5, <2>6 DEF EngineInv
<1> QED BY <1>1, <1>2, <1>3, <1>4, <1>5, <1>6, <1>7 DEF EngineNext

LEMMA EngineHolds == EngineSpec => []EngineInv
BY EngineStart, EngineStep, PTL DEF EngineSpec

\* Whatever order the files are in, a declined retry never takes the cashier
\* row a settled CRM deposit of its family is left without (MatchDeposit,
\* PickForDeposit).
THEOREM SettledGoFirst == EngineSpec => []SettledFirst
<1>1. EngineInv => SettledFirst
  BY DEF EngineInv, SettledFirstSoFar, SettledFirst, Seen
<1> QED BY <1>1, EngineHolds, PTL

\* A guess never holds a provider row that a cashier row names and still lacks
\* a certain match for (MatchExact before MatchFuzzy).
THEOREM CertainGoFirst == EngineSpec => []ExactFirst
<1>1. EngineInv => ExactFirst
  <2> SUFFICES ASSUME EngineInv, stage \in {"master", "done"},
                      NEW c \in DOMAIN matches, matches[c].how = "fuzzy",
                      NEW d \in DOMAIN cashier,
                      d \in DOMAIN matches => matches[d].how = "fuzzy"
               PROVE  Range(cashier[d].names) \cap Range(psp[matches[c].row].ids) = {}
    BY DEF ExactFirst
  <2>1. c \notin Certain /\ d \notin Certain /\ d \in Tried
    BY DEF Certain, Tried
  <2>2. matches[c].row \in DOMAIN psp
    BY DEF EngineInv, EngineTypeOK
  <2>3. ProviderId(matches[c].row) \notin ClaimedForCertain
    BY <2>1 DEF EngineInv, CertainFirst
  <2> QED BY <2>1, <2>2, <2>3 DEF EngineInv, CertainFirst
<1> QED BY <1>1, EngineHolds, PTL

\* A chain the master calls reconciled is settled by the CRM and, where the
\* provider's file is there, by the provider, and no leg claimed for it failed
\* (Combine, ChainRow).
THEOREM ReconciledStaysAgreed == EngineSpec => []ReconciledIsAgreed
<1>1. EngineInv => ReconciledIsAgreed
  BY DEF EngineInv
<1> QED BY <1>1, EngineHolds, PTL

\* What the master folds out of the queue has no leg that succeeded (Combine,
\* DroppedRow).
THEOREM FoldedStaysHarmless == EngineSpec => []FoldedIsHarmless
<1>1. EngineInv => FoldedIsHarmless
  BY DEF EngineInv
<1> QED BY <1>1, EngineHolds, PTL
=============================================================================
