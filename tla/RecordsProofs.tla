---------------------------- MODULE RecordsProofs ----------------------------
(***************************************************************************)
(* Proofs about the tables several write at once, for any number of writers: *)
(* accounts, payments read out of a file, the categories of an incident,     *)
(* incidents with their timelines, reconciliation cases, and notifications.  *)
(***************************************************************************)
EXTENDS Accounts, FileImport, IncidentTags, Incidents, ReconCases, Notifications,
        SequenceTheorems, FiniteSetTheorems, TLAPS

-----------------------------------------------------------------------------
(* Accounts.  AdministratorLeft is not inductive: the write does not look.   *)
(* What it relies on is that the count taken before it still holds if nothing *)
(* was written since (Counted), which needs that an insert leaves the target *)
(* of every call alone and that no call dates from a later write.            *)

\* What the invariant says of one call, for what it compares it with.
CallInv(call) ==
    /\ call.pc # "idle" => call.target \in People
    /\ call.pc = "create" => call.role \in Roles
    /\ call.pc \in {"count", "write"} => accounts[call.target].exists
    /\ call.since <= accountWrites
    /\ Counted(call)

LEMMA InvParts ==
    AccountsInv <=> /\ AccountsTypeOK
                    /\ AdministratorLeft
                    /\ \A r \in AccountSlots : CallInv(calls[r])
BY DEF AccountsInv, CallInv

LEMMA NoCallIsCall == NoCall \in Call
<1>1. Unsent \in BOOLEAN \cup {Unsent}
  OBVIOUS
<1> QED BY <1>1, FoundersAssumption DEF NoCall, Call

LEMMA AccountsStart == AccountsInit => AccountsInv
<1> SUFFICES ASSUME AccountsInit PROVE AccountsInv
  OBVIOUS
<1> USE FoundersAssumption DEF AccountsInit
<1>1. AccountsTypeOK
  <2>1. accounts \in [People -> Account]
    BY DEF Account, NoAccount
  <2>2. calls \in [AccountSlots -> Call]
    BY NoCallIsCall
  <2>3. accountWrites \in 0..MaxAccountWrites
    OBVIOUS
  <2>4. adminRaced \in BOOLEAN
    BY Zenon
  <2> QED BY <2>1, <2>2, <2>3, <2>4 DEF AccountsTypeOK
<1>2. AdministratorLeft
  BY DEF AdministratorLeft, IsAdmin
<1>3. \A r \in AccountSlots : CallInv(calls[r])
  BY DEF CallInv, Counted, NoCall
<1> QED BY <1>1, <1>2, <1>3, InvParts

\* A step that leaves the accounts alone and replaces one call by another
\* that is all right keeps the invariant.
LEMMA OneCallMoves ==
    ASSUME AccountsInv, NEW r \in AccountSlots, NEW call \in Call, CallInv(call),
           CallGoes(r, call), UNCHANGED <<accounts, accountWrites, adminRaced>>
    PROVE  AccountsInv'
<1> USE DEF CallGoes
<1>1. AccountsTypeOK'
  BY DEF AccountsInv, AccountsTypeOK
<1>2. AdministratorLeft'
  BY DEF AccountsInv, AdministratorLeft, IsAdmin
<1>3. ASSUME NEW q \in AccountSlots PROVE CallInv(calls[q])'
  <2>1. calls'[q] = IF q = r THEN call ELSE calls[q]
    BY DEF AccountsInv, AccountsTypeOK
  <2>2. CallInv(calls'[q])
    BY <2>1, InvParts
  <2> QED BY <2>2 DEF CallInv, Counted, LosingAdmin, OtherAdmins, IsAdmin
<1>4. (\A q \in AccountSlots : CallInv(calls[q]))'
  BY <1>3
<1> QED BY <1>1, <1>2, <1>4 DEF AccountsInv, CallInv

LEMMA IdleIsFine == AccountsInv => CallInv(NoCall)
BY DEF AccountsInv, AccountsTypeOK, CallInv, NoCall, Counted

LEMMA UpdateOK ==
    ASSUME AccountsInv, NEW r \in AccountSlots, NEW actor \in People,
           NEW target \in People, NEW role \in Roles \cup {Unsent},
           NEW active \in BOOLEAN \cup {Unsent},
           UpdateAccount(r, actor, target, role, active)
    PROVE  AccountsInv'
<1> DEFINE call == [NoCall EXCEPT !.pc = "read", !.own = target = actor,
                        !.target = target, !.role = role, !.active = active]
<1>1. call \in Call
  <2>1. (target = actor) \in BOOLEAN
    OBVIOUS
  <2>2. 0 \in 0..MaxAccountWrites
    BY FoundersAssumption
  <2> QED BY <2>1, <2>2 DEF NoCall, Call
<1>2. CallInv(call)
  BY DEF NoCall, CallInv, Counted, AccountsInv, AccountsTypeOK
<1> QED BY <1>1, <1>2, OneCallMoves DEF UpdateAccount

LEMMA ReadOK ==
    ASSUME AccountsInv, NEW r \in AccountSlots, ReadTarget(r)
    PROVE  AccountsInv'
<1> DEFINE call == calls[r]
           seen == accounts[call.target]
           next == [call EXCEPT !.pc = IF LosingAdmin(call, seen) THEN "count" ELSE "write",
                                !.own = FALSE, !.since = accountWrites]
<1>1. call \in Call /\ call.target \in People /\ accountWrites \in 0..MaxAccountWrites
  BY DEF ReadTarget, AccountsInv, AccountsTypeOK
<1>2. CASE ~seen.exists \/ OwnMistake(call, seen)
  <2>1. CallGoes(r, NoCall) /\ UNCHANGED <<accounts, accountWrites, adminRaced>>
    BY <1>2 DEF ReadTarget
  <2> QED BY <2>1, IdleIsFine, OneCallMoves, NoCallIsCall
<1>3. CASE seen.exists /\ ~OwnMistake(call, seen)
  <2>1. next \in Call
    BY <1>1 DEF Call
  <2>2. CallInv(next)
    BY <1>1, <1>3 DEF CallInv, Counted, LosingAdmin, Call
  <2>3. CallGoes(r, next) /\ UNCHANGED <<accounts, accountWrites, adminRaced>>
    BY <1>3 DEF ReadTarget
  <2> QED BY <2>1, <2>2, <2>3, OneCallMoves
<1> QED BY <1>2, <1>3

LEMMA CountOK ==
    ASSUME AccountsInv, NEW r \in AccountSlots, CountOthers(r)
    PROVE  AccountsInv'
<1> DEFINE call == calls[r]
           next == [call EXCEPT !.pc = "write"]
<1>1. call \in Call /\ CallInv(call) /\ call.pc = "count"
  BY InvParts DEF CountOthers, AccountsTypeOK
<1>2. CASE OtherAdmins(call.target) = {}
  <2>1. CallGoes(r, NoCall) /\ UNCHANGED <<accounts, accountWrites, adminRaced>>
    BY <1>2 DEF CountOthers
  <2> QED BY <2>1, IdleIsFine, OneCallMoves, NoCallIsCall
<1>3. CASE OtherAdmins(call.target) # {}
  <2>1. next \in Call
    BY <1>1 DEF Call
  <2>2. CallInv(next)
    BY <1>1, <1>3 DEF CallInv, Counted, LosingAdmin, Call
  <2>3. CallGoes(r, next) /\ UNCHANGED <<accounts, accountWrites, adminRaced>>
    BY <1>3 DEF CountOthers
  <2> QED BY <2>1, <2>2, <2>3, OneCallMoves
<1> QED BY <1>2, <1>3

\* A request for a new account, by an administrator or a first sign-in.
LEMMA NewAccountOK ==
    ASSUME AccountsInv, NEW r \in AccountSlots, NEW target \in People, NEW role \in Roles,
           CallGoes(r, [NoCall EXCEPT !.pc = "create", !.target = target, !.role = role]),
           UNCHANGED <<accounts, accountWrites, adminRaced>>
    PROVE  AccountsInv'
<1> DEFINE call == [NoCall EXCEPT !.pc = "create", !.target = target, !.role = role]
<1>1. call \in Call
  <2>1. 0 \in 0..MaxAccountWrites
    BY FoundersAssumption
  <2>2. Unsent \in BOOLEAN \cup {Unsent}
    OBVIOUS
  <2> QED BY <2>1, <2>2 DEF NoCall, Call
<1>2. CallInv(call)
  BY DEF NoCall, CallInv, Counted, AccountsInv, AccountsTypeOK
<1> QED BY <1>1, <1>2, OneCallMoves

LEMMA FailOK ==
    ASSUME AccountsInv, NEW r \in AccountSlots, CallFails(r)
    PROVE  AccountsInv'
BY IdleIsFine, OneCallMoves, NoCallIsCall DEF CallFails

\* An insert leaves the target of every other call alone, and takes no
\* administrator away.
LEMMA InsertOK ==
    ASSUME AccountsInv, NEW r \in AccountSlots, InsertAccount(r)
    PROVE  AccountsInv'
<1> DEFINE target == calls[r].target
           made == [exists |-> TRUE, role |-> calls[r].role, active |-> TRUE]
<1>1. AccountsTypeOK /\ CallInv(calls[r]) /\ target \in People /\ calls[r].role \in Roles
  BY InvParts DEF InsertAccount, CallInv
<1>2. CASE accounts[target].exists
  <2>1. CallGoes(r, NoCall) /\ UNCHANGED <<accounts, accountWrites, adminRaced>>
    BY <1>2 DEF InsertAccount
  <2> QED BY <2>1, IdleIsFine, OneCallMoves, NoCallIsCall
<1>3. CASE ~accounts[target].exists
  <2>1. accounts' = [accounts EXCEPT ![target] = made]
    BY <1>3 DEF InsertAccount
  <2>2. \A p \in People : accounts'[p] = IF p = target THEN made ELSE accounts[p]
    BY <1>1, <2>1 DEF AccountsTypeOK
  <2>3. accounts' \in [People -> Account]
    BY <1>1, <2>1 DEF AccountsTypeOK, Account
  <2>4. AccountsTypeOK'
    BY <1>1, <2>3, NoCallIsCall DEF AccountsTypeOK, InsertAccount, CallGoes
  <2>5. \A p \in People : IsAdmin(accounts[p]) => IsAdmin(accounts'[p])
    BY <1>3, <2>2 DEF IsAdmin
  <2>6. AdministratorLeft'
    BY <2>5 DEF AccountsInv, AdministratorLeft, InsertAccount, IsAdmin
  <2>7. ASSUME NEW q \in AccountSlots PROVE CallInv(calls[q])'
    <3>1. CASE q = r
      BY <3>1, <1>1 DEF InsertAccount, CallGoes, CallInv, Counted, NoCall, AccountsTypeOK
    <3>2. CASE q # r
      <4>1. calls'[q] = calls[q] /\ CallInv(calls[q])
        BY <3>2, <1>1, InvParts DEF InsertAccount, CallGoes, AccountsTypeOK
      <4>2. calls[q].pc \in {"count", "write"} =>
              accounts'[calls[q].target] = accounts[calls[q].target]
        BY <4>1, <1>3, <2>2 DEF CallInv
      <4>3. OtherAdmins(calls[q].target) # {} => OtherAdmins(calls[q].target)' # {}
        <5> SUFFICES ASSUME NEW p \in OtherAdmins(calls[q].target)
                     PROVE  OtherAdmins(calls[q].target)' # {}
          OBVIOUS
        <5>1. p \in People /\ p # calls[q].target /\ IsAdmin(accounts'[p])
          BY <2>5 DEF OtherAdmins
        <5> QED BY <5>1, <4>1 DEF OtherAdmins, IsAdmin
      <4> QED BY <4>1, <4>2, <4>3 DEF CallInv, Counted, LosingAdmin, InsertAccount
    <3> QED BY <3>1, <3>2
  <2> QED BY <2>4, <2>6, <2>7 DEF AccountsInv, CallInv
<1> QED BY <1>2, <1>3

\* The write: what was counted before it, if nothing was written since, is
\* the administrator it leaves; every other count is now out of date.
LEMMA WriteOK ==
    ASSUME AccountsInv, NEW r \in AccountSlots, WriteTarget(r)
    PROVE  AccountsInv'
<1> DEFINE call == calls[r]
           target == call.target
           next == Updated(accounts[target], call)
<1>1. AccountsTypeOK /\ CallInv(call) /\ call \in Call /\ target \in People
      /\ accounts[target] \in Account
  BY InvParts DEF WriteTarget, CallInv, AccountsTypeOK
<1>2. next \in Account /\ next.exists = accounts[target].exists
  <2>1. call.role \in Roles \cup {Unsent} /\ call.active \in BOOLEAN \cup {Unsent}
    BY <1>1 DEF Call
  <2> QED BY <1>1, <2>1 DEF Updated, Account
<1>3. \A p \in People : accounts'[p] = IF p = target THEN next ELSE accounts[p]
  BY <1>1 DEF WriteTarget, AccountsTypeOK
<1>4. AccountsTypeOK'
  <2>1. accounts' \in [People -> Account]
    BY <1>1, <1>2 DEF WriteTarget, AccountsTypeOK
  <2>2. accountWrites' \in 0..MaxAccountWrites
    BY <1>1, FoundersAssumption DEF WriteTarget, AccountsTypeOK
  <2>3. calls' \in [AccountSlots -> Call]
    BY <1>1, NoCallIsCall DEF WriteTarget, CallGoes, AccountsTypeOK
  <2>4. adminRaced' \in BOOLEAN
    BY Zenon DEF WriteTarget
  <2> QED BY <2>1, <2>2, <2>3, <2>4 DEF AccountsTypeOK
<1>5. IsAdmin(accounts[target]) /\ ~IsAdmin(next) => LosingAdmin(call, accounts[target])
  BY <1>1 DEF IsAdmin, LosingAdmin, Updated, Account, Call
<1>6. AdministratorLeft'
  <2> SUFFICES ASSUME ~adminRaced' PROVE \E p \in People : IsAdmin(accounts'[p])
    BY DEF AdministratorLeft, IsAdmin
  <2>1. ~adminRaced
        /\ ~(IsAdmin(accounts[target]) /\ ~IsAdmin(next) /\ call.since # accountWrites)
    BY Zenon DEF WriteTarget
  <2>2. PICK p \in People : IsAdmin(accounts[p])
    BY <2>1 DEF AccountsInv, AdministratorLeft
  <2>3. CASE p # target \/ IsAdmin(next)
    BY <1>1, <1>3, <2>2, <2>3
  <2>4. CASE p = target /\ ~IsAdmin(next)
    <3>1. OtherAdmins(target) # {}
      BY <1>1, <1>5, <2>1, <2>2, <2>4 DEF CallInv, Counted, WriteTarget
    <3> QED BY <1>3, <3>1 DEF OtherAdmins
  <2> QED BY <2>3, <2>4
<1>7. ASSUME NEW q \in AccountSlots PROVE CallInv(calls[q])'
  <2>1. CASE q = r
    BY <2>1, <1>1, <1>4 DEF WriteTarget, CallGoes, CallInv, Counted, NoCall, AccountsTypeOK
  <2>2. CASE q # r
    <3>1. calls'[q] = calls[q] /\ CallInv(calls[q])
      BY <2>2, <1>1, InvParts DEF WriteTarget, CallGoes, AccountsTypeOK
    <3>2. accountWrites \in Nat /\ accountWrites' = accountWrites + 1
          /\ calls[q].since \in Nat
      BY <1>1, FoundersAssumption DEF WriteTarget, AccountsTypeOK, Call
    <3>3. calls[q].pc \in {"count", "write"} => accounts'[calls[q].target].exists
      BY <3>1, <1>2, <1>3 DEF CallInv
    <3> QED BY <3>1, <3>2, <3>3 DEF CallInv, Counted
  <2> QED BY <2>1, <2>2
<1> QED BY <1>4, <1>6, <1>7 DEF AccountsInv, CallInv

LEMMA AccountsStep ==
    ASSUME AccountsInv, [AccountsNext]_accountVars
    PROVE  AccountsInv'
<1>1. CASE UNCHANGED accountVars
  BY <1>1 DEF accountVars, AccountsInv, AccountsTypeOK, AdministratorLeft, Counted,
              IsAdmin, LosingAdmin, OtherAdmins
<1>2. ASSUME NEW r \in AccountSlots, NEW actor \in People, NEW target \in People,
             NEW role \in Roles, CreateAccount(r, actor, target, role)
      PROVE  AccountsInv'
  BY <1>2, NewAccountOK DEF CreateAccount
<1>3. ASSUME NEW r \in AccountSlots, NEW target \in People, FirstSignIn(r, target)
      PROVE  AccountsInv'
  BY <1>3, NewAccountOK, FoundersAssumption DEF FirstSignIn
<1> QED BY <1>1, <1>2, <1>3, UpdateOK, ReadOK, CountOK, WriteOK, InsertOK, FailOK
        DEF AccountsNext

\* However administrators demote, disable and create one another, and whoever
\* signs in meanwhile: unless an update that ends an administrator's rights is
\* written after another one it did not see, somebody is left who can undo it.
THEOREM AdministratorStays == AccountsSpec => []AdministratorLeft
<1>1. AccountsInv => AdministratorLeft
  BY DEF AccountsInv
<1> QED BY <1>1, AccountsStart, AccountsStep, PTL DEF AccountsSpec

-----------------------------------------------------------------------------
(* Payments read out of a file.                                              *)

\* What UploadKnows says of the locals of an upload, for a state of the rows
\* and the keys that have been crossed.
Knows(own, held, gone) ==
    /\ own.pc # "idle" => own.number > 0
    /\ own.pc \in {"replace", "insert"} =>
         /\ own.stale \subseteq own.writable
         /\ own.writable \subseteq own.batch
         /\ \A k \in own.stale \ gone : FromFile(held[k])
         /\ \A k \in own.batch \ (own.stale \cup gone) :
              held[k] = FromProvider \/ (held[k] = Nobody /\ k \in own.writable)
    /\ own.pc = "insert" => \A k \in own.stale \ gone : own.sees[k] = held[k]

Upload == [pc : {"idle", "read", "replace", "insert"}, number : 0..MaxUploads,
           batch : SUBSET Keys, stale : SUBSET Keys, writable : SUBSET Keys,
           sees : [Keys -> -1..MaxUploads]]

LEMMA NoUploadKnows ==
    NoUpload \in Upload /\ \A held, gone : Knows(NoUpload, held, gone)
<1>1. [k \in Keys |-> Nobody] \in [Keys -> -1..MaxUploads]
  BY UploadsAssumption DEF Nobody
<1> QED BY <1>1, UploadsAssumption DEF NoUpload, Upload, Knows, Nobody

LEMMA ImportStart == ImportInit => ImportInv
<1> SUFFICES ASSUME ImportInit PROVE ImportInv
  OBVIOUS
<1>1. ImportTypeOK
  BY NoUploadKnows, UploadsAssumption DEF ImportInit, ImportTypeOK, Upload, Nobody
<1>2. \A u \in Uploaders : UploadKnows(u)
  BY DEF ImportInit, UploadKnows, NoUpload
<1> QED BY <1>1, <1>2 DEF ImportInv

\* A step of one upload that stores nothing: its new locals have to be right,
\* and the keys crossed by others are untouched.
LEMMA OneUploadMoves ==
    ASSUME ImportInv, NEW u \in Uploaders, NEW own \in Upload, NEW gone \in SUBSET Keys,
           Proceed(u, own), Knows(own, sent, gone),
           crossed' = [crossed EXCEPT ![u] = gone], sent' = sent,
           uploads' \in 0..MaxUploads
    PROVE  ImportInv'
<1>1. ImportTypeOK'
  BY DEF ImportInv, ImportTypeOK, Proceed, Upload
<1>2. ASSUME NEW v \in Uploaders PROVE UploadKnows(v)'
  <2>1. /\ upload'[v] = IF v = u THEN own ELSE upload[v]
        /\ crossed'[v] = IF v = u THEN gone ELSE crossed[v]
    BY DEF ImportInv, ImportTypeOK, Proceed
  <2>2. Knows(upload'[v], sent, crossed'[v])
    BY <2>1 DEF ImportInv, UploadKnows, Knows
  <2> QED BY <2>2 DEF UploadKnows, Knows
<1> QED BY <1>1, <1>2 DEF ImportInv

LEMMA UploadTyped ==
    ASSUME ImportInv, NEW u \in Uploaders
    PROVE  /\ upload[u] \in Upload /\ Knows(upload[u], sent, crossed[u])
           /\ sent \in [Keys -> -1..MaxUploads] /\ crossed[u] \in SUBSET Keys
           /\ crossed = [crossed EXCEPT ![u] = crossed[u]]
           /\ uploads \in 0..MaxUploads
BY DEF ImportInv, ImportTypeOK, UploadKnows, Knows, Upload

LEMMA BeginUploadOK ==
    ASSUME ImportInv, NEW u \in Uploaders, NEW batch \in SUBSET Keys, BeginUpload(u, batch)
    PROVE  ImportInv'
<1> DEFINE own == [NoUpload EXCEPT !.pc = "read", !.number = uploads + 1, !.batch = batch]
<1>1. uploads + 1 \in 0..MaxUploads /\ uploads + 1 > 0
  BY UploadTyped, UploadsAssumption DEF BeginUpload
<1>2. own \in Upload
  <2>1. [k \in Keys |-> Nobody] \in [Keys -> -1..MaxUploads]
    BY UploadsAssumption DEF Nobody
  <2> QED BY <1>1, <2>1 DEF NoUpload, Upload
<1>3. Knows(own, sent, crossed[u])
  BY <1>1 DEF Knows, NoUpload
<1> HIDE DEF own
<1>4. Proceed(u, own) /\ sent' = sent /\ crossed' = crossed /\ uploads' = uploads + 1
  BY DEF BeginUpload, own
<1> QED BY <1>1, <1>2, <1>3, <1>4, UploadTyped, OneUploadMoves

LEMMA FindHeldByOK ==
    ASSUME ImportInv, NEW u \in Uploaders, FindHeldBy(u)
    PROVE  ImportInv'
<1> DEFINE stale == {k \in upload[u].batch : Replaceable(sent[k])}
           own == [upload[u] EXCEPT !.pc = "replace", !.stale = stale,
                     !.writable = stale \cup {k \in upload[u].batch : sent[k] = Nobody}]
<1>1. upload[u] \in Upload /\ Knows(upload[u], sent, crossed[u]) /\ upload[u].pc = "read"
  BY UploadTyped DEF FindHeldBy
<1>2. own \in Upload
  BY <1>1 DEF Upload
<1>3. Knows(own, sent, {})
  <2>1. \A k \in upload[u].batch : sent[k] \in -1..MaxUploads
    BY <1>1, UploadTyped DEF Upload
  <2>2. /\ own.pc = "replace" /\ own.number = upload[u].number /\ own.number > 0
        /\ own.batch = upload[u].batch /\ own.stale = stale
        /\ own.writable = stale \cup {k \in upload[u].batch : sent[k] = Nobody}
    BY <1>1 DEF Upload, Knows
  <2> HIDE DEF own
  <2>3. own.stale \subseteq own.writable /\ own.writable \subseteq own.batch
    BY <2>2
  <2>4. \A k \in own.stale \ {} : FromFile(sent[k])
    BY <2>2 DEF Replaceable
  <2>5. \A k \in own.batch \ (own.stale \cup {}) :
          sent[k] = FromProvider \/ (sent[k] = Nobody /\ k \in own.writable)
    BY <2>1, <2>2, UploadsAssumption DEF Replaceable, FromFile, FromProvider, Nobody
  <2> QED BY <2>2, <2>3, <2>4, <2>5 DEF Knows
<1> HIDE DEF own
<1>4. Proceed(u, own) /\ sent' = sent /\ crossed' = [crossed EXCEPT ![u] = {}]
      /\ uploads' = uploads
  BY DEF FindHeldBy, own
<1> QED BY <1>2, <1>3, <1>4, UploadTyped, OneUploadMoves

LEMMA BeginReplaceOK ==
    ASSUME ImportInv, NEW u \in Uploaders, BeginReplace(u)
    PROVE  ImportInv'
<1> DEFINE own == [upload[u] EXCEPT !.pc = "insert", !.sees = sent]
<1>1. upload[u] \in Upload /\ Knows(upload[u], sent, crossed[u]) /\ upload[u].pc = "replace"
  BY UploadTyped DEF BeginReplace
<1>2. own \in Upload
  BY <1>1, UploadTyped DEF Upload
<1>3. Knows(own, sent, crossed[u])
  BY <1>1 DEF Knows, Upload
<1> HIDE DEF own
<1>4. Proceed(u, own) /\ sent' = sent /\ crossed' = crossed /\ uploads' = uploads
  BY DEF BeginReplace, own
<1> QED BY <1>2, <1>3, <1>4, UploadTyped, OneUploadMoves

LEMMA UploadFailsOK ==
    ASSUME ImportInv, NEW u \in Uploaders, UploadFails(u)
    PROVE  ImportInv'
BY UploadTyped, NoUploadKnows, OneUploadMoves DEF UploadFails

\* The provider stores a row nobody holds: no upload counts it among the rows
\* of a file.
LEMMA ProviderStoresOK ==
    ASSUME ImportInv, NEW k \in Keys, ProviderStores(k)
    PROVE  ImportInv'
<1>1. \A j \in Keys : sent'[j] = IF j = k THEN FromProvider ELSE sent[j]
  BY DEF ImportInv, ImportTypeOK, ProviderStores
<1>2. ImportTypeOK'
  BY UploadsAssumption DEF ImportInv, ImportTypeOK, ProviderStores, FromProvider
<1>3. ASSUME NEW u \in Uploaders PROVE UploadKnows(u)'
  <2>1. Knows(upload[u], sent, crossed[u]) /\ upload[u] \in Upload
    BY UploadTyped
  <2>2. Knows(upload[u], sent', crossed[u])
    BY <1>1, <2>1 DEF Knows, Upload, ProviderStores, FromFile, Nobody, FromProvider
  <2> QED BY <2>2 DEF UploadKnows, Knows, ProviderStores
<1> QED BY <1>2, <1>3 DEF ImportInv

\* Another upload stores: whatever it wrote counts as crossed from then on.
LEMMA CommitUploadOK ==
    ASSUME ImportInv, NEW u \in Uploaders, CommitUpload(u)
    PROVE  ImportInv'
<1>1. upload[u] \in Upload /\ upload[u].number \in 0..MaxUploads
  BY UploadTyped DEF Upload
<1>2. \A j \in Keys : sent'[j] = IF j \in Inserted(u) THEN upload[u].number ELSE sent[j]
  BY DEF CommitUpload
<1>3. Inserted(u) \subseteq Keys
  BY <1>1, UploadTyped DEF Inserted, Upload
<1>4. ImportTypeOK'
  <2>1. sent' \in [Keys -> -1..MaxUploads]
    BY <1>1, <1>3, UploadTyped, UploadsAssumption DEF CommitUpload
  <2>2. upload' \in [Uploaders -> Upload]
    BY NoUploadKnows DEF ImportInv, ImportTypeOK, CommitUpload, Proceed, Upload
  <2>3. crossed' \in [Uploaders -> SUBSET Keys]
    BY <1>3 DEF ImportInv, ImportTypeOK, CommitUpload
  <2> QED BY <2>1, <2>2, <2>3 DEF ImportInv, ImportTypeOK, CommitUpload, Upload
<1>5. ASSUME NEW v \in Uploaders PROVE UploadKnows(v)'
  <2>1. CASE v = u
    <3>1. upload'[v] = NoUpload
      BY <2>1 DEF ImportInv, ImportTypeOK, CommitUpload, Proceed
    <3> QED BY <3>1 DEF UploadKnows, NoUpload
  <2>2. CASE v # u
    <3>1. upload'[v] = upload[v] /\ crossed'[v] = crossed[v] \cup Inserted(u)
      BY <2>2 DEF ImportInv, ImportTypeOK, CommitUpload, Proceed
    <3>2. Knows(upload[v], sent, crossed[v]) /\ upload[v] \in Upload
      BY UploadTyped
    <3>3. Knows(upload[v], sent', crossed[v] \cup Inserted(u))
      BY <1>2, <3>2 DEF Knows, Upload
    <3> QED BY <3>1, <3>3 DEF UploadKnows, Knows
  <2> QED BY <2>1, <2>2
<1> QED BY <1>4, <1>5 DEF ImportInv

LEMMA ImportStep ==
    ASSUME ImportInv, [ImportNext]_importVars
    PROVE  ImportInv'
<1>1. CASE UNCHANGED importVars
  BY <1>1 DEF importVars, ImportInv, ImportTypeOK, UploadKnows
<1> QED BY <1>1, BeginUploadOK, FindHeldByOK, BeginReplaceOK, UploadFailsOK,
           ProviderStoresOK, CommitUploadOK DEF ImportNext

\* What an upload stores, by what it knows.
LEMMA StoredByUpload ==
    ASSUME ImportInv, NEW u \in Uploaders, CommitUpload(u)
    PROVE  /\ \A k \in Keys : sent[k] = FromProvider => sent'[k] = FromProvider
           /\ \A k \in Keys : sent[k] # Nobody => sent'[k] # Nobody
           /\ \A k \in upload[u].batch \ crossed[u] :
                sent'[k] \in {FromProvider, upload[u].number}
<1> DEFINE own == upload[u]
<1>1. own \in Upload /\ Knows(own, sent, crossed[u]) /\ own.pc = "insert"
  BY UploadTyped DEF CommitUpload
<1>2. own.number > 0
  BY <1>1 DEF Knows
<1>3. \A k \in Keys : sent'[k] = IF k \in Inserted(u) THEN own.number ELSE sent[k]
  BY DEF CommitUpload
<1>4. \A k \in Inserted(u) : sent[k] # FromProvider
  BY DEF Inserted, Deleted, Replaceable, FromFile, FromProvider, Nobody
<1>5. ASSUME NEW k \in own.batch \ crossed[u] PROVE sent'[k] \in {FromProvider, own.number}
  <2>1. k \in Keys
    BY <1>1 DEF Upload
  <2>2. CASE k \in own.stale
    <3>1. own.sees[k] = sent[k] /\ FromFile(sent[k]) /\ k \in own.writable
      BY <1>1, <2>2, <1>5 DEF Knows
    <3>2. k \in Inserted(u)
      BY <2>2, <3>1 DEF Inserted, Deleted, Replaceable
    <3> QED BY <1>3, <2>1, <3>2
  <2>3. CASE k \notin own.stale
    <3>1. sent[k] = FromProvider \/ (sent[k] = Nobody /\ k \in own.writable)
      BY <1>1, <2>3, <1>5 DEF Knows
    <3>2. CASE sent[k] = FromProvider
      BY <1>3, <1>4, <2>1, <3>2
    <3>3. CASE sent[k] = Nobody /\ k \in own.writable
      BY <1>3, <2>1, <3>3 DEF Inserted
    <3> QED BY <3>1, <3>2, <3>3
  <2> QED BY <2>2, <2>3
<1>6. \A k \in Keys : sent[k] # Nobody => sent'[k] # Nobody
  BY <1>2, <1>3 DEF Nobody
<1> QED BY <1>3, <1>4, <1>5, <1>6

\* However uploads overlap one another, the poll and the callbacks: none
\* overwrites what the provider sent, none leaves a row unheld, and each that
\* is stored leaves every key of its batch held, but for those another upload
\* stored since it looked (paymaxis.service.ts:1184).
THEOREM UploadsRepairOnly == ImportSpec => ImportRepairsOnly
<1> DEFINE Repairs ==
        /\ \A k \in Keys : sent[k] = FromProvider => sent'[k] = FromProvider
        /\ \A k \in Keys : sent[k] # Nobody => sent'[k] # Nobody
        /\ \A u \in Uploaders :
             upload[u].pc = "insert" /\ sent' # sent /\ upload'[u].pc = "idle" =>
                 \A k \in upload[u].batch \ crossed[u] :
                     sent'[k] \in {FromProvider, upload[u].number}
<1>1. ASSUME ImportInv, [ImportNext]_importVars PROVE [Repairs]_importVars
  <2>1. CASE sent' = sent
    BY <2>1
  <2>2. ASSUME NEW k \in Keys, ProviderStores(k) PROVE Repairs
    <3>1. \A j \in Keys : sent'[j] = IF j = k THEN FromProvider ELSE sent[j]
      BY <1>1, <2>2 DEF ImportInv, ImportTypeOK, ProviderStores
    <3>2. upload' = upload
      BY <2>2 DEF ProviderStores
    <3> QED BY <3>1, <3>2 DEF Nobody, FromProvider
  <2>3. ASSUME NEW u \in Uploaders, CommitUpload(u) PROVE Repairs
    <3>1. \A v \in Uploaders : v # u => upload'[v] = upload[v]
      BY <1>1, <2>3 DEF ImportInv, ImportTypeOK, CommitUpload, Proceed
    <3> QED BY <1>1, <2>3, <3>1, StoredByUpload
  <2> QED BY <1>1, <2>1, <2>2, <2>3
          DEF ImportNext, importVars, BeginUpload, FindHeldBy, BeginReplace, UploadFails
<1> QED BY <1>1, ImportStart, ImportStep, PTL DEF ImportSpec, ImportRepairsOnly

-----------------------------------------------------------------------------
(* The categories of an incident.                                            *)

TagRequest == [pc : {"idle", "find", "create", "upsert", "delete", "put", "seed"},
               only : BOOLEAN, wanted : SUBSET Slugs, left : SUBSET Slugs,
               missing : SUBSET Slugs, alone : BOOLEAN]

LEMMA NotTaggingTyped == NotTagging \in TagRequest /\ NotTagging.pc = "idle"
BY DEF NotTagging, TagRequest

LEMMA TaggerTyped ==
    ASSUME TagsInv, NEW t \in Taggers
    PROVE  /\ tagging[t] \in TagRequest /\ AddsWhatIsAsked(t)
           /\ categories \in [Slugs -> {"absent", "active", "retired"}]
           /\ tags \subseteq asked /\ (settled => tags = asked)
BY DEF TagsInv, TagsTypeOK, TagsAsAsked, TagRequest

LEMMA TagsStart == TagsInit => TagsInv
<1> SUFFICES ASSUME TagsInit PROVE TagsInv
  OBVIOUS
<1> USE DEF TagsInit
<1>1. TagsTypeOK
  BY NotTaggingTyped DEF TagsTypeOK, TagRequest
<1>2. TagsAsAsked
  BY DEF TagsAsAsked
<1>3. \A t \in Taggers : AddsWhatIsAsked(t)
  BY NotTaggingTyped DEF AddsWhatIsAsked, Writing
<1> QED BY <1>1, <1>2, <1>3 DEF TagsInv

\* A request that goes anywhere but to adding tags disturbs nobody.
LEMMA OneTaggerMoves ==
    ASSUME TagsInv, NEW t \in Taggers, NEW own \in TagRequest, own.pc # "put",
           TagGoes(t, own), categories' \in [Slugs -> {"absent", "active", "retired"}],
           UNCHANGED <<tags, asked, settled>>
    PROVE  TagsInv'
<1>1. TagsTypeOK'
  BY DEF TagsInv, TagsTypeOK, TagGoes, TagRequest
<1>2. \A u \in Taggers : tagging'[u] = IF u = t THEN own ELSE tagging[u]
  BY DEF TagsInv, TagsTypeOK, TagGoes
<1>3. \A u \in Taggers : Writing(u)' => Writing(u) /\ u # t
  BY <1>2 DEF Writing
<1>4. ASSUME NEW u \in Taggers PROVE AddsWhatIsAsked(u)'
  BY <1>2, <1>3 DEF TagsInv, AddsWhatIsAsked
<1> QED BY <1>1, <1>4 DEF TagsInv, TagsAsAsked

LEMMA AfterTyped ==
    ASSUME NEW request \in TagRequest, NEW s
    PROVE  After(request, s) \in TagRequest /\ After(request, s).pc # "put"
BY NotTaggingTyped DEF After, TagRequest

LEMMA AskForTagsOK ==
    ASSUME TagsInv, NEW t \in Taggers, NEW wanted \in SUBSET Slugs, NEW only \in BOOLEAN,
           AskForTags(t, wanted, only)
    PROVE  TagsInv'
<1> DEFINE own == [NotTagging EXCEPT !.pc = IF wanted = {} THEN "delete" ELSE "find",
                                     !.only = only, !.wanted = wanted, !.left = wanted]
<1>1. own \in TagRequest /\ own.pc # "put"
  BY DEF NotTagging, TagRequest
<1> QED BY <1>1, TaggerTyped, OneTaggerMoves DEF AskForTags

LEMMA FindCategoryOK ==
    ASSUME TagsInv, NEW t \in Taggers, NEW s \in Slugs, FindCategory(t, s)
    PROVE  TagsInv'
<1> DEFINE own == [tagging[t] EXCEPT !.missing = {s}, !.pc =
                     IF tagging[t].only /\ categories[s] = "absent"
                     THEN "create" ELSE "upsert"]
<1>1. own \in TagRequest /\ own.pc # "put"
  BY TaggerTyped DEF TagRequest
<1> HIDE DEF own
<1>2. CASE categories[s] = "active"
  BY <1>2, TaggerTyped, AfterTyped, OneTaggerMoves DEF FindCategory
<1>3. CASE categories[s] # "active"
  <2>1. TagGoes(t, own)
    BY <1>3 DEF FindCategory, own
  <2> QED BY <1>1, <2>1, TaggerTyped, OneTaggerMoves DEF FindCategory
<1> QED BY <1>2, <1>3

LEMMA CreateCategoryOK ==
    ASSUME TagsInv, NEW t \in Taggers, NEW s \in Slugs, CreateCategory(t, s)
    PROVE  TagsInv'
BY TaggerTyped, NotTaggingTyped, OneTaggerMoves DEF CreateCategory

LEMMA UpsertCategoryOK ==
    ASSUME TagsInv, NEW t \in Taggers, NEW s \in Slugs, UpsertCategory(t, s)
    PROVE  TagsInv'
BY TaggerTyped, AfterTyped, OneTaggerMoves DEF UpsertCategory

LEMMA OtherTagStepsOK ==
    ASSUME TagsInv, NEW t \in Taggers, TagFails(t) \/ CountCategories(t) \/ Seed(t)
    PROVE  TagsInv'
<1>1. CASE TagFails(t)
  BY <1>1, TaggerTyped, NotTaggingTyped, OneTaggerMoves DEF TagFails
<1>2. CASE CountCategories(t)
  <2>1. [NotTagging EXCEPT !.pc = "seed"] \in TagRequest
        /\ [NotTagging EXCEPT !.pc = "seed"].pc # "put"
    BY DEF NotTagging, TagRequest
  <2> QED BY <1>2, <2>1, TaggerTyped, OneTaggerMoves DEF CountCategories
<1>3. CASE Seed(t)
  BY <1>3, TaggerTyped, NotTaggingTyped, OneTaggerMoves DEF Seed, Seeded
<1> QED BY <1>1, <1>2, <1>3

\* The tags begin to be written: nobody runs alone but this request, if it does.
LEMMA DeleteOthersOK ==
    ASSUME TagsInv, NEW t \in Taggers, DeleteOthers(t)
    PROVE  TagsInv'
<1> DEFINE wanted == tagging[t].wanted
           alone  == \A u \in Taggers \ {t} : ~Writing(u)
           own == [tagging[t] EXCEPT !.pc = "put", !.left = wanted, !.alone = alone]
<1>1. /\ tagging[t] \in TagRequest /\ wanted \in SUBSET Slugs
      /\ tags' = tags \cap wanted /\ asked' = asked \cup wanted /\ settled' = FALSE
      /\ categories' = categories
  BY TaggerTyped DEF DeleteOthers, Kept, TagRequest
<1>2. /\ own \in TagRequest /\ own.pc = "put" /\ own.wanted = wanted
      /\ own.left = wanted /\ own.alone = alone
  <2>1. alone \in BOOLEAN
    BY Zenon
  <2> HIDE DEF alone
  <2> QED BY <1>1, <2>1 DEF TagRequest
<1> HIDE DEF own, alone
<1>3. ASSUME NEW u \in Taggers
      PROVE  /\ tagging'[u] \in TagRequest
             /\ tagging'[u].pc = IF u = t THEN "put" ELSE tagging[u].pc
             /\ tagging'[u].wanted = tagging[u].wanted
             /\ u # t => tagging'[u].left = tagging[u].left
             /\ u = t => tagging'[u].left = wanted /\ tagging'[u].alone = alone
             /\ u # t /\ tagging'[u].pc = "put" => tagging'[u].alone = FALSE
  <2>1. tagging'[u] = IF u = t THEN own
                      ELSE IF Writing(u) THEN [tagging[u] EXCEPT !.alone = FALSE]
                      ELSE tagging[u]
    BY DEF DeleteOthers, own, alone
  <2>2. tagging[u] \in TagRequest
    BY TaggerTyped
  <2>3. CASE u = t
    BY <1>2, <2>1, <2>3
  <2>4. CASE u # t /\ Writing(u)
    <3>1. tagging'[u] = [tagging[u] EXCEPT !.alone = FALSE]
      BY <2>1, <2>4
    <3> QED BY <2>2, <2>4, <3>1 DEF TagRequest
  <2>5. CASE u # t /\ ~Writing(u)
    BY <2>1, <2>2, <2>5 DEF Writing
  <2> QED BY <2>3, <2>4, <2>5
<1>4. TagsTypeOK'
  <2>1. tagging' \in [Taggers -> TagRequest]
    <3>1. tagging' = [u \in Taggers |-> tagging'[u]]
      BY DEF DeleteOthers
    <3> QED BY <1>3, <3>1
  <2> QED BY <1>1, <2>1 DEF TagsInv, TagsTypeOK, TagRequest
<1>5. TagsAsAsked'
  BY <1>1, TaggerTyped DEF TagsAsAsked
<1>6. ASSUME NEW u \in Taggers PROVE AddsWhatIsAsked(u)'
  <2>1. CASE u = t
    <3>1. alone => \A v \in Taggers \ {t} : ~Writing(v)'
      BY <1>3 DEF alone, Writing
    <3> QED BY <1>1, <1>3, <2>1, <3>1 DEF AddsWhatIsAsked, Writing
  <2>2. CASE u # t
    <3>1. Writing(u) => tagging[u].wanted \subseteq asked /\ tagging[u].left \subseteq tagging[u].wanted
      BY TaggerTyped DEF AddsWhatIsAsked
    <3> QED BY <1>1, <1>3, <2>2, <3>1 DEF AddsWhatIsAsked, Writing
  <2> QED BY <2>1, <2>2
<1> QED BY <1>4, <1>5, <1>6 DEF TagsInv

LEMMA PutTagOK ==
    ASSUME TagsInv, NEW t \in Taggers, NEW s \in Slugs, PutTag(t, s)
    PROVE  TagsInv'
<1> DEFINE own == [tagging[t] EXCEPT !.left = @ \ {s}]
<1>1. /\ tagging[t] \in TagRequest /\ AddsWhatIsAsked(t) /\ Writing(t)
      /\ s \in tagging[t].left /\ tags' = tags \cup {s}
      /\ UNCHANGED <<categories, asked, settled>>
  BY TaggerTyped DEF PutTag
<1>2. /\ own \in TagRequest /\ own.pc = "put" /\ own.wanted = tagging[t].wanted
      /\ own.left = tagging[t].left \ {s} /\ own.alone = tagging[t].alone
  BY <1>1 DEF TagRequest, Writing
<1> HIDE DEF own
<1>3. \A u \in Taggers : tagging'[u] = IF u = t THEN own ELSE tagging[u]
  BY DEF TagsInv, TagsTypeOK, PutTag, TagGoes, own
<1>4. TagsTypeOK'
  <2>1. tagging' \in [Taggers -> TagRequest]
    BY <1>2 DEF TagsInv, TagsTypeOK, PutTag, TagGoes, own, TagRequest
  <2> QED BY <1>1, <2>1 DEF TagsInv, TagsTypeOK, TagRequest
<1>5. ~settled /\ s \in asked
  BY <1>1 DEF AddsWhatIsAsked
<1>6. TagsAsAsked'
  BY <1>1, <1>5, TaggerTyped DEF TagsAsAsked
<1>7. \A u \in Taggers : Writing(u)' <=> Writing(u)
  BY <1>1, <1>2, <1>3 DEF Writing
<1>8. ASSUME NEW u \in Taggers PROVE AddsWhatIsAsked(u)'
  <2>1. CASE u = t
    BY <1>1, <1>2, <1>3, <1>7, <2>1 DEF AddsWhatIsAsked
  <2>2. CASE u # t
    <3>1. Writing(u) => ~tagging[u].alone
      BY <1>1, <2>2, TaggerTyped DEF AddsWhatIsAsked
    <3> QED BY <1>1, <1>3, <1>7, <2>2, <3>1, TaggerTyped DEF AddsWhatIsAsked
  <2> QED BY <2>1, <2>2
<1> QED BY <1>4, <1>6, <1>8 DEF TagsInv

\* Answered: if it ran alone the tags are its list, and nobody else is adding.
LEMMA TagAnsweredOK ==
    ASSUME TagsInv, NEW t \in Taggers, TagAnswered(t)
    PROVE  TagsInv'
<1>1. /\ tagging[t] \in TagRequest /\ AddsWhatIsAsked(t) /\ Writing(t)
      /\ tagging[t].left = {} /\ tags \subseteq asked
      /\ UNCHANGED <<categories, tags>>
  BY TaggerTyped DEF TagAnswered
<1>2. \A u \in Taggers : tagging'[u] = IF u = t THEN NotTagging ELSE tagging[u]
  BY DEF TagsInv, TagsTypeOK, TagAnswered, TagGoes
<1>3. \A u \in Taggers : Writing(u)' => Writing(u) /\ u # t
  BY <1>2, NotTaggingTyped DEF Writing
<1>4. tagging' \in [Taggers -> TagRequest]
  BY NotTaggingTyped DEF TagsInv, TagsTypeOK, TagAnswered, TagGoes, TagRequest
<1>5. tagging[t].alone \in BOOLEAN /\ tagging[t].wanted \in SUBSET Slugs
  BY <1>1 DEF TagRequest
<1>6. CASE tagging[t].alone
  <2>1. asked' = tagging[t].wanted /\ settled' = tagging[t].alone
    BY <1>6 DEF TagAnswered
  <2>2. tags = tagging[t].wanted
    BY <1>1, <1>6 DEF AddsWhatIsAsked
  <2>3. \A u \in Taggers : ~Writing(u)'
    BY <1>1, <1>3, <1>6 DEF AddsWhatIsAsked
  <2>4. TagsTypeOK'
    BY <1>1, <1>4, <1>5, <2>1 DEF TagsInv, TagsTypeOK, TagRequest
  <2>5. TagsAsAsked' /\ \A u \in Taggers : AddsWhatIsAsked(u)'
    BY <1>1, <2>1, <2>2, <2>3 DEF TagsAsAsked, AddsWhatIsAsked
  <2> QED BY <2>4, <2>5 DEF TagsInv
<1>7. CASE ~tagging[t].alone
  <2>1. asked' = asked /\ settled' = FALSE
    BY <1>5, <1>7 DEF TagAnswered
  <2>2. TagsTypeOK'
    BY <1>1, <1>4, <2>1 DEF TagsInv, TagsTypeOK, TagRequest
  <2>3. ASSUME NEW u \in Taggers PROVE AddsWhatIsAsked(u)'
    BY <1>1, <1>2, <1>3, <2>1, TaggerTyped DEF AddsWhatIsAsked
  <2> QED BY <1>1, <2>1, <2>2, <2>3 DEF TagsInv, TagsAsAsked
<1> QED BY <1>6, <1>7

LEMMA SetActiveOK ==
    ASSUME TagsInv, NEW s \in Slugs, NEW active \in BOOLEAN, SetActive(s, active)
    PROVE  TagsInv'
BY DEF TagsInv, TagsTypeOK, TagsAsAsked, AddsWhatIsAsked, Writing, SetActive

LEMMA TagsStep ==
    ASSUME TagsInv, [TagsNext]_tagVars
    PROVE  TagsInv'
<1>1. CASE UNCHANGED tagVars
  BY <1>1 DEF tagVars, TagsInv, TagsTypeOK, TagsAsAsked, AddsWhatIsAsked, Writing
<1> QED BY <1>1, AskForTagsOK, FindCategoryOK, CreateCategoryOK, UpsertCategoryOK,
           OtherTagStepsOK, DeleteOthersOK, PutTagOK, TagAnsweredOK, SetActiveOK
        DEF TagsNext

\* However many set the categories of an incident at once, and wherever one of
\* them fails: it has no category nobody asked for, and exactly the last list
\* once a request that ran alone is answered (modules.service.ts:2587, :2632).
THEOREM TagsStayAsAsked == TagsSpec => []TagsAsAsked
<1>1. TagsInv => TagsAsAsked
  BY DEF TagsInv
<1> QED BY <1>1, TagsStart, TagsStep, PTL DEF TagsSpec

\* Seeding the starter list, however many read the empty table, brings back
\* nothing that was retired: only a name or a restore does
\* (modules.service.ts:2450).
THEOREM SeedingRevivesNothing == TagsSpec => RetiredStays
<1> DEFINE Stays ==
        \A s \in Slugs :
            categories[s] = "retired" /\ categories'[s] = "active" =>
                SetActive(s, TRUE) \/ \E t \in Taggers : Names(t, s)
<1>1. ASSUME TagsInv, [TagsNext]_tagVars PROVE [Stays]_tagVars
  <2> SUFFICES ASSUME NEW s \in Slugs, categories[s] = "retired", categories'[s] = "active"
               PROVE  SetActive(s, TRUE) \/ \E t \in Taggers : Names(t, s)
    OBVIOUS
  <2>1. categories \in [Slugs -> {"absent", "active", "retired"}]
    BY <1>1 DEF TagsInv, TagsTypeOK
  <2>2. categories' # categories
    OBVIOUS
  <2>3. ASSUME NEW t \in Taggers, NEW r \in Slugs, CreateCategory(t, r) PROVE FALSE
    BY <2>1, <2>3 DEF CreateCategory
  <2>4. ASSUME NEW t \in Taggers, NEW r \in Slugs, UpsertCategory(t, r) PROVE Names(t, s)
    BY <2>1, <2>4 DEF UpsertCategory, Names
  <2>5. ASSUME NEW t \in Taggers, Seed(t) PROVE FALSE
    BY <2>5 DEF Seed, Seeded
  <2>6. ASSUME NEW r \in Slugs, NEW active \in BOOLEAN, SetActive(r, active)
        PROVE  SetActive(s, TRUE)
    <3>1. r = s
      BY <2>1, <2>6 DEF SetActive
    <3>2. active = TRUE
      BY <2>1, <2>6 DEF SetActive
    <3> QED BY <2>6, <3>1, <3>2
  <2> QED BY <1>1, <2>2, <2>3, <2>4, <2>5, <2>6
          DEF TagsNext, tagVars, AskForTags, FindCategory, PutTag, DeleteOthers,
              TagAnswered, TagFails, CountCategories
<1> QED BY <1>1, TagsStart, TagsStep, PTL DEF TagsSpec, RetiredStays

-----------------------------------------------------------------------------
(* Incidents and their timelines.                                            *)

EditColumns == [status : Statuses, resolvedAt : 0..MaxLines, timeline : Seq(Line)]

EditRequest == [pc : {"idle", "write"}, incident : Conditions \cup {NoStatus},
                status : Statuses \cup {NoStatus}, note : BOOLEAN, seen : EditColumns]

\* What the invariant says of one row, for the lines answered for and the time
\* it became resolved.
RowOK(row, lines, since) ==
    /\ row.declared /\ ~row.raced =>
         /\ lines \subseteq ToSet(row.timeline)
         /\ ~row.reopened => LastTold(row.timeline, row.status)
    /\ row.resolvedAt # 0 <=> row.status \in Done
    /\ row.status \in Done /\ ~row.raced => row.resolvedAt = since
    /\ ~row.declared => lines = {}

EditOK(edit) ==
    edit.pc = "write" => edit.incident \in Conditions /\ incidents[edit.incident].declared

LEMMA IncidentsParts ==
    IncidentsInv <=>
        /\ incidents \in [Conditions -> Incident]
        /\ editing \in [Editors -> EditRequest]
        /\ clock \in 0..MaxLines
        /\ answered \in [Conditions -> SUBSET Line]
        /\ doneSince \in [Conditions -> 0..MaxLines]
        /\ \A i \in Conditions : RowOK(incidents[i], answered[i], doneSince[i])
        /\ \A e \in Editors : EditOK(editing[e])
BY DEF IncidentsInv, IncidentsTypeOK, EditColumns, EditRequest, RowOK, EditOK,
       TimelineWhole, ResolvedAtIsTrue

\* The statuses a timeline tells, when lines are added behind it.
LEMMA ToldBehind ==
    ASSUME NEW timeline \in Seq(Line), NEW more \in Seq(Line)
    PROVE  /\ timeline \o more \in Seq(Line)
           /\ ToSet(timeline) \cup ToSet(more) \subseteq ToSet(timeline \o more)
           /\ \A k \in DOMAIN (timeline \o more) :
                k \in Tells(timeline \o more) <=>
                  \/ k \in Tells(timeline)
                  \/ k > Len(timeline) /\ k - Len(timeline) \in Tells(more)
<1> DEFINE both == timeline \o more
           n == Len(timeline)
           m == Len(more)
<1>1. /\ n \in Nat /\ DOMAIN timeline = 1..n
      /\ m \in Nat /\ DOMAIN more = 1..m
  BY LenProperties
<1>2. /\ both \in Seq(Line) /\ DOMAIN both = 1..n + m
      /\ \A k \in 1..n + m : both[k] = IF k <= n THEN timeline[k] ELSE more[k - n]
  BY ConcatProperties, LenProperties
<1> HIDE DEF both, n, m
<1>3. ToSet(timeline) \subseteq ToSet(both)
  BY <1>1, <1>2 DEF ToSet
<1>4. ToSet(more) \subseteq ToSet(both)
  <2> SUFFICES ASSUME NEW j \in 1..m PROVE more[j] \in ToSet(both)
    BY <1>1 DEF ToSet
  <2>1. n + j \in 1..n + m /\ both[n + j] = more[j]
    BY <1>1, <1>2
  <2> QED BY <1>2, <2>1 DEF ToSet
<1>5. ASSUME NEW k \in DOMAIN both
      PROVE  k \in Tells(both) <=>
               \/ k \in Tells(timeline)
               \/ k > n /\ k - n \in Tells(more)
  <2>1. CASE k <= n
    BY <1>1, <1>2, <2>1 DEF Tells
  <2>2. CASE k > n
    <3>1. k - n \in 1..m /\ k \notin 1..n
      BY <1>1, <1>2, <2>2
    <3> QED BY <1>1, <1>2, <2>2, <3>1 DEF Tells
  <2> QED BY <1>1, <1>2, <2>1, <2>2
<1> QED BY <1>2, <1>3, <1>4, <1>5 DEF both, n

LEMMA NothingTold ==
    ASSUME NEW timeline \in Seq(Line), NEW more \in Seq(Line), NEW status,
           Tells(more) = {}, LastTold(timeline, status)
    PROVE  LastTold(timeline \o more, status)
<1> DEFINE both == timeline \o more
<1>1. /\ Len(timeline) \in Nat /\ DOMAIN timeline = 1..Len(timeline)
      /\ DOMAIN both = 1..Len(timeline) + Len(more) /\ Len(more) \in Nat
      /\ \A k \in 1..Len(timeline) : both[k] = timeline[k]
  BY ConcatProperties, LenProperties
<1> HIDE DEF both
<1>2. Tells(both) = Tells(timeline)
  <2>1. Tells(timeline) \subseteq DOMAIN timeline /\ Tells(both) \subseteq DOMAIN both
    BY DEF Tells
  <2>2. \A k \in DOMAIN both : k \in Tells(both) <=> k \in Tells(timeline)
    BY ToldBehind DEF both
  <2>3. DOMAIN timeline \subseteq DOMAIN both
    BY <1>1
  <2> QED BY <2>1, <2>2, <2>3
<1>3. \A k \in Tells(timeline) : both[k] = timeline[k]
  BY <1>1 DEF Tells
<1>4. LastTold(both, status)
  BY <1>2, <1>3 DEF LastTold
<1> QED BY <1>4 DEF both

LEMMA StatusToldLast ==
    ASSUME NEW timeline \in Seq(Line), NEW more \in Seq(Line),
           Tells(more) = {1}
    PROVE  LastTold(timeline \o more, more[1].says)
<1> DEFINE both == timeline \o more
           n == Len(timeline)
<1>1. /\ n \in Nat /\ DOMAIN timeline = 1..n /\ Len(more) \in Nat
      /\ DOMAIN more = 1..Len(more)
      /\ DOMAIN both = 1..n + Len(more)
      /\ \A k \in 1..n + Len(more) : both[k] = IF k <= n THEN timeline[k] ELSE more[k - n]
  BY ConcatProperties, LenProperties
<1>2. \A k \in DOMAIN both : k \in Tells(both) <=>
         k \in Tells(timeline) \/ (k > n /\ k - n \in Tells(more))
  BY ToldBehind
<1> HIDE DEF both, n
<1>3. 1 \in 1..Len(more)
  BY <1>1 DEF Tells
<1>4. n + 1 \in DOMAIN both /\ both[n + 1] = more[1]
  BY <1>1, <1>3
<1>5. n + 1 \in Tells(both)
  BY <1>1, <1>2, <1>4
<1>6. \A j \in Tells(both) : j <= n + 1
  <2>1. \A j \in Tells(both) : j \in DOMAIN both
    BY DEF Tells
  <2>2. \A j \in Tells(timeline) : j \in 1..n
    BY <1>1 DEF Tells
  <2> QED BY <1>1, <1>2, <2>1, <2>2
<1>7. LastTold(both, more[1].says)
  BY <1>4, <1>5, <1>6 DEF LastTold
<1> QED BY <1>7 DEF both

\* What an update adds: its status, if it changes one, then its note.
LEMMA AddedLines ==
    ASSUME NEW edit \in EditRequest, NEW at \in 0..MaxLines
    PROVE  /\ Added(edit, at) \in Seq(Line)
           /\ edit.status \in {NoStatus, edit.seen.status} => Tells(Added(edit, at)) = {}
           /\ edit.status \notin {NoStatus, edit.seen.status} =>
                /\ Tells(Added(edit, at)) = {1}
                /\ Added(edit, at)[1].says = edit.status
<1> DEFINE move == [at |-> at, says |-> edit.status]
           note == [at |-> at, says |-> "note"]
<1>1. /\ edit.note \in BOOLEAN /\ "note" \notin Statuses /\ NoStatus \notin Statuses
      /\ edit.status \in Statuses \cup {NoStatus}
  BY StatusAssumption DEF EditRequest
<1>2. note \in Line /\ note.says = "note"
  BY DEF Line
<1>3. edit.status # NoStatus => move \in Line /\ move.says = edit.status
  BY <1>1 DEF Line
<1> HIDE DEF move, note
<1>4. CASE edit.status \in {NoStatus, edit.seen.status}
  <2>1. CASE edit.note
    <3>1. Added(edit, at) = <<note>>
      <4>1. Added(edit, at) = <<>> \o <<note>>
        BY <1>4, <2>1 DEF Added, note
      <4>2. <<note>> \in Seq(Line)
        BY <1>2
      <4> QED BY <4>1, <4>2, ConcatEmptySeq
    <3>2. <<note>> \in Seq(Line) /\ DOMAIN <<note>> = 1..1 /\ <<note>>[1] = note
      BY <1>2
    <3> QED BY <1>1, <1>2, <1>4, <3>1, <3>2 DEF Tells
  <2>2. CASE ~edit.note
    <3>1. Added(edit, at) = <<>>
      BY <1>4, <2>2 DEF Added
    <3> QED BY <1>4, <3>1 DEF Tells
  <2> QED BY <1>1, <2>1, <2>2
<1>5. CASE edit.status \notin {NoStatus, edit.seen.status}
  <2>1. CASE edit.note
    <3>1. Added(edit, at) = <<move>> \o <<note>>
      BY <1>5, <2>1 DEF Added, move, note
    <3>2. /\ <<move>> \in Seq(Line) /\ Len(<<move>>) = 1 /\ <<move>>[1] = move
          /\ <<note>> \in Seq(Line) /\ Len(<<note>>) = 1 /\ <<note>>[1] = note
      BY <1>2, <1>3, <1>5
    <3>3. /\ Added(edit, at) \in Seq(Line) /\ Len(Added(edit, at)) = 2
          /\ Added(edit, at)[1] = move /\ Added(edit, at)[2] = note
      BY <3>1, <3>2, ConcatProperties
    <3>4. DOMAIN Added(edit, at) = 1..2
      BY <3>3, LenProperties
    <3> QED BY <1>1, <1>2, <1>3, <1>5, <3>3, <3>4 DEF Tells
  <2>2. CASE ~edit.note
    <3>1. Added(edit, at) = <<move>>
      <4>1. Added(edit, at) = <<move>> \o <<>>
        BY <1>5, <2>2 DEF Added, move
      <4>2. <<move>> \in Seq(Line)
        BY <1>3, <1>5
      <4> QED BY <4>1, <4>2, ConcatEmptySeq
    <3>2. <<move>> \in Seq(Line) /\ DOMAIN <<move>> = 1..1 /\ <<move>>[1] = move
      BY <1>3, <1>5
    <3> QED BY <1>1, <1>3, <1>5, <3>1, <3>2 DEF Tells
  <2> QED BY <1>1, <2>1, <2>2
<1> QED BY <1>4, <1>5

LEMMA UndeclaredOK == Undeclared \in Incident /\ RowOK(Undeclared, {}, 0)
<1>1. <<>> \in Seq(Line)
  BY EmptySeq
<1> QED BY <1>1, StatusAssumption DEF Undeclared, Incident, RowOK, Done

LEMMA CreatedOK ==
    ASSUME IncidentsInv, NEW since
    PROVE  Created \in Incident /\ Created.declared /\ RowOK(Created, {}, since)
<1> DEFINE line == [at |-> clock, says |-> "declared"]
<1>1. clock \in 0..MaxLines /\ "declared" \notin Statuses /\ "OPEN" \in Statuses
      /\ "OPEN" \notin Done /\ MaxLines \in Nat
  BY IncidentsParts, StatusAssumption DEF Done
<1>2. line \in Line /\ line.says \notin Statuses
  BY <1>1 DEF Line
<1> HIDE DEF line
<1>3. <<line>> \in Seq(Line) /\ DOMAIN <<line>> = 1..1 /\ <<line>>[1] = line
  BY <1>2
<1>4. Tells(<<line>>) = {}
  BY <1>2, <1>3 DEF Tells
<1>5. Created = [Undeclared EXCEPT !.declared = TRUE, !.timeline = <<line>>]
  BY DEF Created, line
<1>6. Created \in Incident
  BY <1>3, <1>5, UndeclaredOK DEF Incident
<1>7. /\ Created.declared /\ Created.status = "OPEN" /\ Created.resolvedAt = 0
      /\ Created.timeline = <<line>>
  BY <1>5 DEF Undeclared
<1>8. RowOK(Created, {}, since)
  BY <1>1, <1>4, <1>7 DEF RowOK, LastTold
<1> QED BY <1>6, <1>7, <1>8

LEMMA ReopenedOK ==
    ASSUME NEW row \in Incident, NEW lines, NEW since, RowOK(row, lines, since),
           row.declared
    PROVE  /\ Reopened(row) \in Incident /\ Reopened(row).declared
           /\ RowOK(Reopened(row), lines, since)
<1> DEFINE next == Reopened(row)
           again == row.reopened \/ row.status # "OPEN"
           open == "OPEN"
           unset == 0
<1>1. "OPEN" \in Statuses /\ "OPEN" \notin Done /\ MaxLines \in Nat
  BY StatusAssumption DEF Done
<1>2. /\ next.declared = row.declared /\ next.status = "OPEN" /\ next.resolvedAt = 0
      /\ next.timeline = row.timeline /\ next.raced = row.raced
      /\ next.reopened = again
  BY DEF Reopened, Incident
<1>3. next \in Incident
  <2>1. again \in BOOLEAN
    BY Zenon
  <2>2. next = [row EXCEPT !.status = open, !.resolvedAt = unset, !.reopened = again]
    BY Zenon DEF Reopened
  <2>3. open \in Statuses /\ unset \in 0..MaxLines
    BY <1>1
  <2> HIDE DEF next, again, open, unset
  <2> QED BY <2>1, <2>2, <2>3 DEF Incident
<1>4. ~next.reopened => ~row.reopened /\ row.status = next.status
  <2> HIDE DEF next
  <2> QED BY Zenon, <1>2
<1> HIDE DEF next
<1>5. /\ next.declared /\ next.status = "OPEN" /\ next.resolvedAt = 0
      /\ next.timeline = row.timeline /\ next.raced = row.raced
  BY <1>2
<1>6. RowOK(next, lines, since)
  BY <1>1, <1>4, <1>5 DEF RowOK
<1> QED BY <1>3, <1>5, <1>6 DEF next

\* An update written over the row it read tells the row's status last, and
\* takes the time of a resolution only from the row, or the clock.
LEMMA WrittenOK ==
    ASSUME NEW row \in Incident, NEW lines, NEW since, RowOK(row, lines, since),
           row.declared, NEW edit \in EditRequest, NEW at \in 0..MaxLines, at > 0
    PROVE  LET next == WrittenBack(edit, row, at)
           IN  /\ next \in Incident /\ next.declared
               /\ RowOK(next, lines \cup ToSet(Added(edit, at)),
                        IF next.status \in Done /\ row.status \notin Done THEN at ELSE since)
<1> DEFINE next == WrittenBack(edit, row, at)
           added == Added(edit, at)
<1>1. /\ edit.seen \in EditColumns /\ edit.status \in Statuses \cup {NoStatus}
      /\ edit.seen.timeline \in Seq(Line) /\ edit.seen.resolvedAt \in 0..MaxLines
      /\ NoStatus \notin Statuses /\ Done \subseteq Statuses /\ MaxLines \in Nat
  BY StatusAssumption DEF EditRequest, EditColumns
<1>2. added \in Seq(Line)
  BY AddedLines
<1>3. /\ next.declared = row.declared
      /\ next.status = IF edit.status = NoStatus THEN row.status ELSE edit.status
      /\ next.resolvedAt = ResolvedAt(edit, row, at)
      /\ next.timeline = edit.seen.timeline \o added
      /\ next.raced = (row.raced \/ Columns(row) # edit.seen)
      /\ next.reopened = (row.reopened /\ edit.status \in {NoStatus, edit.seen.status})
  BY DEF WrittenBack, Incident
<1>4. next \in Incident
  <2>1. (row.raced \/ Columns(row) # edit.seen) \in BOOLEAN
    OBVIOUS
  <2>2. (row.reopened /\ edit.status \in {NoStatus, edit.seen.status}) \in BOOLEAN
    OBVIOUS
  <2>3. ResolvedAt(edit, row, at) \in 0..MaxLines
    BY <1>1 DEF ResolvedAt, Incident
  <2>4. edit.seen.timeline \o added \in Seq(Line)
    BY <1>1, <1>2, ToldBehind
  <2>5. (IF edit.status = NoStatus THEN row.status ELSE edit.status) \in Statuses
    BY <1>1 DEF Incident
  <2> HIDE DEF added
  <2> QED BY <2>1, <2>2, <2>3, <2>4, <2>5 DEF WrittenBack, Incident, added
<1> HIDE DEF next, added
<1>5. next.resolvedAt # 0 <=> next.status \in Done
  BY <1>1, <1>3 DEF ResolvedAt, RowOK, Incident
<1>6. ~next.raced => /\ ~row.raced /\ row.timeline = edit.seen.timeline
                     /\ row.status = edit.seen.status
                     /\ row.resolvedAt = edit.seen.resolvedAt
  <2>1. ~next.raced => ~row.raced /\ Columns(row) = edit.seen
    BY Zenon, <1>3
  <2> QED BY <2>1 DEF Columns
<1>7. ASSUME ~next.raced, next.status \in Done
      PROVE  next.resolvedAt =
               IF next.status \in Done /\ row.status \notin Done THEN at ELSE since
  BY <1>1, <1>3, <1>6, <1>7 DEF ResolvedAt, RowOK
<1>8. ASSUME ~next.raced
      PROVE  lines \cup ToSet(added) \subseteq ToSet(next.timeline)
  <2>1. lines \subseteq ToSet(row.timeline)
    BY <1>6, <1>8 DEF RowOK
  <2> QED BY <1>1, <1>2, <1>3, <1>6, <1>8, <2>1, ToldBehind
<1>9. ASSUME ~next.raced, ~next.reopened PROVE LastTold(next.timeline, next.status)
  <2>1. CASE edit.status \in {NoStatus, edit.seen.status}
    <3>1. LastTold(row.timeline, row.status)
      BY <1>3, <1>6, <1>9, <2>1 DEF RowOK
    <3>2. Tells(added) = {}
      BY <2>1, AddedLines DEF added
    <3>3. next.status = row.status
      BY <1>3, <1>6, <1>9, <2>1
    <3>4. row.timeline \in Seq(Line)
      BY DEF Incident
    <3> QED BY <1>2, <1>3, <1>6, <1>9, <3>1, <3>2, <3>3, <3>4, NothingTold
  <2>2. CASE edit.status \notin {NoStatus, edit.seen.status}
    <3>1. Tells(added) = {1} /\ added[1].says = edit.status
      BY <2>2, AddedLines DEF added
    <3>2. next.status = edit.status
      BY <1>3, <2>2
    <3>3. LastTold(edit.seen.timeline \o added, added[1].says)
      BY <1>1, <1>2, <3>1, StatusToldLast
    <3> QED BY <1>3, <3>1, <3>2, <3>3
  <2> QED BY <2>1, <2>2
<1>10. next.declared
  BY <1>3
<1>11. RowOK(next, lines \cup ToSet(added),
             IF next.status \in Done /\ row.status \notin Done THEN at ELSE since)
  BY <1>5, <1>7, <1>8, <1>9, <1>10 DEF RowOK
<1> QED BY <1>4, <1>10, <1>11 DEF next, added

LEMMA NotEditingTyped == NotEditing \in EditRequest /\ NotEditing.pc = "idle"
<1>1. Columns(Undeclared) \in EditColumns
  <2>1. <<>> \in Seq(Line)
    BY EmptySeq
  <2> QED BY <2>1, StatusAssumption DEF Columns, Undeclared, EditColumns
<1> QED BY <1>1 DEF NotEditing, EditRequest

LEMMA IncidentsStart == IncidentsInit => IncidentsInv
<1> SUFFICES ASSUME IncidentsInit PROVE IncidentsInv
  OBVIOUS
<1> USE DEF IncidentsInit
<1>1. \A e \in Editors : EditOK(editing[e])
  BY NotEditingTyped DEF EditOK
<1> QED BY <1>1, UndeclaredOK, NotEditingTyped, StatusAssumption, IncidentsParts

\* A step of one update that leaves the incidents alone.
LEMMA OneEditMoves ==
    ASSUME IncidentsInv, NEW e \in Editors, NEW edit \in EditRequest, EditGoes(e, edit),
           EditOK(edit), UNCHANGED <<incidents, clock, answered, doneSince>>
    PROVE  IncidentsInv'
<1>1. editing' \in [Editors -> EditRequest]
      /\ \A f \in Editors : editing'[f] = IF f = e THEN edit ELSE editing[f]
  BY IncidentsParts DEF EditGoes
<1>2. \A f \in Editors : EditOK(editing[f])'
  BY <1>1, IncidentsParts DEF EditOK
<1>3. \A i \in Conditions : RowOK(incidents[i], answered[i], doneSince[i])'
  BY IncidentsParts DEF RowOK
<1> QED BY <1>1, <1>2, <1>3, IncidentsParts DEF RowOK, EditOK, IncidentsInv, IncidentsTypeOK,
           TimelineWhole, ResolvedAtIsTrue, EditRequest, EditColumns

\* A step that replaces one row by another that is right keeps every row right.
LEMMA OneRowMoves ==
    ASSUME IncidentsInv, NEW i \in Conditions, NEW row \in Incident,
           NEW lines \in SUBSET Line, NEW since \in 0..MaxLines,
           RowOK(row, lines, since), row.declared,
           incidents' = [incidents EXCEPT ![i] = row],
           answered' = [answered EXCEPT ![i] = lines],
           doneSince' = [doneSince EXCEPT ![i] = since]
    PROVE  /\ incidents' \in [Conditions -> Incident]
           /\ answered' \in [Conditions -> SUBSET Line]
           /\ doneSince' \in [Conditions -> 0..MaxLines]
           /\ \A j \in Conditions : RowOK(incidents'[j], answered'[j], doneSince'[j])
           /\ \A j \in Conditions : incidents[j].declared => incidents'[j].declared
<1>1. /\ incidents \in [Conditions -> Incident] /\ answered \in [Conditions -> SUBSET Line]
      /\ doneSince \in [Conditions -> 0..MaxLines]
      /\ \A j \in Conditions : RowOK(incidents[j], answered[j], doneSince[j])
  BY IncidentsParts
<1>2. ASSUME NEW j \in Conditions
      PROVE  /\ incidents'[j] = IF j = i THEN row ELSE incidents[j]
             /\ answered'[j] = IF j = i THEN lines ELSE answered[j]
             /\ doneSince'[j] = IF j = i THEN since ELSE doneSince[j]
  BY <1>1
<1> QED BY <1>1, <1>2

LEMMA DeclareOK ==
    ASSUME IncidentsInv, NEW i \in Conditions, Declare(i)
    PROVE  IncidentsInv'
<1> DEFINE row == IF incidents[i].declared THEN Reopened(incidents[i]) ELSE Created
<1>1. /\ incidents \in [Conditions -> Incident] /\ answered \in [Conditions -> SUBSET Line]
      /\ doneSince \in [Conditions -> 0..MaxLines]
      /\ RowOK(incidents[i], answered[i], doneSince[i])
  BY IncidentsParts
<1>2. row \in Incident /\ row.declared /\ RowOK(row, answered[i], doneSince[i])
  <2>1. CASE incidents[i].declared
    BY <1>1, <2>1, ReopenedOK
  <2>2. CASE ~incidents[i].declared
    <3>1. answered[i] = {}
      BY <1>1, <2>2 DEF RowOK
    <3> QED BY <2>2, <3>1, CreatedOK
  <2> QED BY <2>1, <2>2
<1>3. /\ incidents' = [incidents EXCEPT ![i] = row]
      /\ answered' = [answered EXCEPT ![i] = answered[i]]
      /\ doneSince' = [doneSince EXCEPT ![i] = doneSince[i]]
      /\ UNCHANGED <<editing, clock>>
  BY <1>1 DEF Declare
<1> HIDE DEF row
<1>4. /\ incidents' \in [Conditions -> Incident]
      /\ answered' \in [Conditions -> SUBSET Line]
      /\ doneSince' \in [Conditions -> 0..MaxLines]
      /\ \A j \in Conditions : RowOK(incidents'[j], answered'[j], doneSince'[j])
      /\ \A j \in Conditions : incidents[j].declared => incidents'[j].declared
  BY <1>1, <1>2, <1>3, OneRowMoves
<1>5. \A e \in Editors : EditOK(editing[e])'
  BY <1>3, <1>4, IncidentsParts DEF EditOK
<1> QED BY <1>3, <1>4, <1>5, IncidentsParts DEF RowOK, EditOK, IncidentsInv, IncidentsTypeOK,
           TimelineWhole, ResolvedAtIsTrue, EditRequest, EditColumns

LEMMA ReadIncidentOK ==
    ASSUME IncidentsInv, NEW e \in Editors, NEW i \in Conditions,
           NEW status \in Statuses \cup {NoStatus}, NEW note \in BOOLEAN,
           ReadIncident(e, i, status, note)
    PROVE  IncidentsInv'
<1> DEFINE edit == [pc |-> "write", incident |-> i, status |-> status, note |-> note,
                    seen |-> Columns(incidents[i])]
<1>1. incidents[i] \in Incident /\ incidents[i].declared
  BY IncidentsParts DEF ReadIncident
<1>2. Columns(incidents[i]) \in EditColumns
  BY <1>1 DEF Columns, Incident, EditColumns
<1>3. edit \in EditRequest
  BY <1>2 DEF EditRequest
<1>4. EditOK(edit)
  BY <1>1 DEF EditOK
<1> QED BY <1>3, <1>4, OneEditMoves DEF ReadIncident

LEMMA EditFailsOK ==
    ASSUME IncidentsInv, NEW e \in Editors, EditFails(e)
    PROVE  IncidentsInv'
<1>1. EditOK(NotEditing)
  BY NotEditingTyped DEF EditOK
<1> QED BY <1>1, NotEditingTyped, OneEditMoves DEF EditFails

LEMMA WriteIncidentOK ==
    ASSUME IncidentsInv, NEW e \in Editors, WriteIncident(e)
    PROVE  IncidentsInv'
<1> DEFINE edit == editing[e]
           i == edit.incident
           row == incidents[i]
           at == clock + 1
           next == WrittenBack(edit, row, at)
           lines == answered[i] \cup ToSet(Added(edit, at))
           since == IF next.status \in Done /\ row.status \notin Done THEN at ELSE doneSince[i]
<1>1. /\ incidents \in [Conditions -> Incident] /\ answered \in [Conditions -> SUBSET Line]
      /\ doneSince \in [Conditions -> 0..MaxLines] /\ clock \in 0..MaxLines
      /\ editing \in [Editors -> EditRequest] /\ edit \in EditRequest
      /\ i \in Conditions /\ row.declared
      /\ RowOK(row, answered[i], doneSince[i])
  BY IncidentsParts DEF WriteIncident, EditOK
<1>2. at \in 0..MaxLines /\ at > 0
  BY <1>1, StatusAssumption DEF WriteIncident
<1>3. row \in Incident /\ answered[i] \in SUBSET Line /\ doneSince[i] \in 0..MaxLines
  BY <1>1
<1>4. next \in Incident /\ next.declared /\ RowOK(next, lines, since)
  BY <1>1, <1>2, <1>3, WrittenOK
<1>5. lines \in SUBSET Line
  <2>1. Added(edit, at) \in Seq(Line)
    BY <1>1, <1>2, AddedLines
  <2>2. \A k \in DOMAIN Added(edit, at) : Added(edit, at)[k] \in Line
    BY <2>1, LenProperties, ElementOfSeq
  <2> QED BY <1>3, <2>2 DEF ToSet
<1>6. /\ incidents' = [incidents EXCEPT ![i] = next]
      /\ answered' = [answered EXCEPT ![i] = lines]
      /\ doneSince' = [doneSince EXCEPT ![i] = since]
      /\ clock' = at /\ EditGoes(e, NotEditing)
  BY <1>1 DEF WriteIncident
<1>7. since \in 0..MaxLines
  BY <1>2, <1>3
<1> HIDE DEF next, lines, since, at, i
<1>8. /\ incidents' \in [Conditions -> Incident]
      /\ answered' \in [Conditions -> SUBSET Line]
      /\ doneSince' \in [Conditions -> 0..MaxLines]
      /\ \A j \in Conditions : RowOK(incidents'[j], answered'[j], doneSince'[j])
      /\ \A j \in Conditions : incidents[j].declared => incidents'[j].declared
  BY <1>1, <1>4, <1>5, <1>6, <1>7, OneRowMoves
<1>9. /\ editing' \in [Editors -> EditRequest]
      /\ \A f \in Editors : editing'[f] = IF f = e THEN NotEditing ELSE editing[f]
  BY <1>1, <1>6, NotEditingTyped DEF EditGoes
<1>10. \A f \in Editors : EditOK(editing[f])'
  BY <1>8, <1>9, NotEditingTyped, IncidentsParts DEF EditOK
<1> QED BY <1>2, <1>6, <1>8, <1>9, <1>10 DEF RowOK, EditOK, IncidentsInv, IncidentsTypeOK,
           TimelineWhole, ResolvedAtIsTrue, EditRequest, EditColumns

LEMMA IncidentsStep ==
    ASSUME IncidentsInv, [IncidentsNext]_incidentVars
    PROVE  IncidentsInv'
<1>1. CASE UNCHANGED incidentVars
  BY <1>1 DEF incidentVars, IncidentsInv, IncidentsTypeOK, TimelineWhole, ResolvedAtIsTrue
<1> QED BY <1>1, DeclareOK, ReadIncidentOK, WriteIncidentOK, EditFailsOK DEF IncidentsNext

\* As long as no update is written over one it did not read, a timeline keeps
\* every line somebody was answered for, and tells the incident's status last
\* unless it was reopened (schema.prisma:637).
THEOREM TimelineStaysWhole == IncidentsSpec => []TimelineWhole
<1>1. IncidentsInv => TimelineWhole
  BY DEF IncidentsInv
<1> QED BY <1>1, IncidentsStart, IncidentsStep, PTL DEF IncidentsSpec

\* However updates and reopenings overlap, an incident has a time of resolution
\* exactly while it is resolved or closed, and it is the time it became so
\* unless an update was written over another (modules.service.ts:2707).
THEOREM ResolvedAtStaysTrue == IncidentsSpec => []ResolvedAtIsTrue
<1>1. IncidentsInv => ResolvedAtIsTrue
  BY DEF IncidentsInv
<1> QED BY <1>1, IncidentsStart, IncidentsStep, PTL DEF IncidentsSpec

-----------------------------------------------------------------------------
(* Reconciliation cases.                                                     *)

\* An edit of the case as it is stored, with no save under way, is the last
\* edit, and its save the only one.
LEMMA EditOfStored ==
    ASSUME CasesInv, NEW b \in Browsers, NEW chosen \in Resolutions \cup {"none"},
           Edit(b, chosen)
    PROVE  CasesInv'
<1> SUFFICES ASSUME ~muddled' PROVE CasesInv'
  BY DEF CasesInv
<1> DEFINE case == Edited(shown[b], chosen, edits + 1)
           save == [case |-> case, chosen |-> chosen, number |-> edits + 1]
<1>1. ~muddled /\ shown[b] = stored /\ saves = {}
  BY Zenon DEF Edit
<1>2. stored = lastEdit
  BY <1>1 DEF CasesInv
<1>3. case = lastEdit'
  BY <1>1, <1>2 DEF Edit, Edited
<1>4. saves' = {save}
  BY <1>1 DEF Edit
<1>5. save.case = lastEdit'
  BY <1>3
<1> QED BY <1>4, <1>5 DEF CasesInv

LEMMA SaveArrivesOK ==
    ASSUME CasesInv, NEW save \in saves, SaveArrives(save)
    PROVE  CasesInv'
<1> SUFFICES ASSUME ~muddled' PROVE saves' = {} /\ stored' = lastEdit'
  BY DEF CasesInv
<1>1. ~muddled /\ lastEdit' = lastEdit /\ stored' = save.case /\ saves' = saves \ {save}
  BY DEF SaveArrives
<1>2. PICK only \in saves : saves = {only} /\ only.case = lastEdit
  BY <1>1 DEF CasesInv
<1> QED BY <1>1, <1>2

LEMMA CasesStep ==
    ASSUME CasesInv, [CasesNext]_caseVars
    PROVE  CasesInv'
<1>1. CASE UNCHANGED <<stored, saves, lastEdit, muddled>>
  BY <1>1 DEF CasesInv
<1>2. ASSUME NEW save \in saves, SaveLost(save) PROVE CasesInv'
  BY <1>2 DEF SaveLost, CasesInv
<1> QED BY <1>1, <1>2, EditOfStored, SaveArrivesOK
        DEF CasesNext, caseVars, OpenPage, LoadAnswered, LoadArrives

\* A case is stored as it was last asked to be, once no save is under way,
\* until somebody edits it other than as it is stored, two saves cross, or one
\* is lost (recon.service.ts:118).
THEOREM CaseIsStored == CasesSpec => []StoredIsLastEdit
<1>1. CasesInit => CasesInv
  BY DEF CasesInit, CasesInv
<1>2. CasesInv => StoredIsLastEdit
  BY DEF CasesInv, StoredIsLastEdit
<1> QED BY <1>1, <1>2, CasesStep, PTL DEF CasesSpec

-----------------------------------------------------------------------------
(* Notifications.  OncePerCoolOff is not inductive: a pass creates without   *)
(* looking.  What it found when it looked (FoundUntold) stays true because a *)
(* refresh moves when a row was last seen and not when it was created, and   *)
(* because of two passes that look before either creates the second to look  *)
(* is noted (raced).                                                         *)

LEMMA NotifyStart == Init => NotifyInv
<1> SUFFICES ASSUME Init PROVE NotifyInv
  OBVIOUS
<1>1. <<>> \in Seq(Notification) /\ <<>> \in Seq(Signatures) /\ Len(<<>>) = 0
  OBVIOUS
<1>2. TypeOK
  BY <1>1, NotifyAssumption DEF Init, TypeOK
<1>3. 1..Len(rows) = {} /\ \A p \in Passes : pc[p] = "idle"
  BY <1>1 DEF Init
<1> QED BY <1>2, <1>3 DEF NotifyInv, FoundUntold

\* A write to one row, if it is there, leaves a table of as many rows.
LEMMA OneNotificationMoves ==
    ASSUME TypeOK, NEW n, NEW row, n \in 1..Len(rows) => row \in Notification,
           rows' = [rows EXCEPT ![n] = row]
    PROVE  /\ rows' \in Seq(Notification) /\ Len(rows') = Len(rows)
           /\ \A i \in 1..Len(rows) : rows'[i] = IF i = n THEN row ELSE rows[i]
<1>1. rows \in [1..Len(rows) -> Notification] /\ Len(rows) \in Nat
  BY DEF TypeOK
<1>2. rows' \in [1..Len(rows) -> Notification]
  BY <1>1
<1> QED BY <1>1, <1>2

\* What a pass does once it is done with a detection.
LEMMA DetectionDone ==
    ASSUME TypeOK, NEW p \in Passes, pc[p] # "idle", NextDetection(p)
    PROVE  /\ pc' \in [Passes -> {"idle", "find", "refresh", "create", "mail", "sent", "refused"}]
           /\ todo' \in [Passes -> Seq(Signatures)]
           /\ \A q \in Passes : pc'[q] # "idle" => todo'[q] # <<>>
           /\ found' \in [Passes -> 0..MaxRows]
           /\ \A q \in Passes \ {p} : pc'[q] = pc[q] /\ todo'[q] = todo[q]
           /\ pc'[p] # "create"
<1>1. todo[p] \in Seq(Signatures) /\ todo[p] # <<>>
  BY DEF TypeOK
<1>2. Tail(todo[p]) \in Seq(Signatures) /\ Len(Tail(todo[p])) = Len(todo[p]) - 1
        /\ Len(todo[p]) \in Nat \ {0}
  BY <1>1
<1>3. Len(todo[p]) # 1 => Tail(todo[p]) # <<>>
  <2>1. PICK others \in Seq(Signatures) :
          others = Tail(todo[p]) /\ Len(others) = Len(todo[p]) - 1
    BY <1>2
  <2>2. others = <<>> => Len(others) = 0
    OBVIOUS
  <2> QED BY <1>2, <2>1, <2>2
<1>4. 0 \in 0..MaxRows
  BY NotifyAssumption
<1> QED BY <1>2, <1>3, <1>4 DEF TypeOK, NextDetection, Goto

\* A step of one pass that creates no row, and does not set out to.
LEMMA OnePassMoves ==
    ASSUME NotifyInv, NEW p \in Passes,
           \A q \in Passes \ {p} : pc'[q] = pc[q] /\ todo'[q] = todo[q],
           pc'[p] # "create", raced' = raced, Len(rows') = Len(rows),
           \A i \in 1..Len(rows) : /\ rows'[i].signature = rows[i].signature
                                   /\ rows'[i].created = rows[i].created
    PROVE  /\ \A q \in Passes : FoundUntold(q)'
           /\ (\A q, r \in Passes :
                 q # r /\ pc[q] = "create" /\ pc[r] = "create" /\ Current(q) = Current(r) =>
                     Current(q) \in raced)'
BY DEF NotifyInv, FoundUntold, Told, Current

LEMMA TickOK == NotifyInv /\ Tick => NotifyInv'
<1> SUFFICES ASSUME NotifyInv, Tick PROVE NotifyInv'
  OBVIOUS
<1> DEFINE Aged(i) == [rows[i] EXCEPT !.created = Older(@), !.seen = Older(@)]
           aged == [i \in 1..Len(rows) |-> Aged(i)]
<1>1. rows \in Seq(Notification) /\ Len(rows) \in Nat
  BY DEF NotifyInv, TypeOK
<1>2. \A a \in Age : Older(a) \in Age
  BY NotifyAssumption DEF Age, Older
<1>3. \A a, b \in Age : a <= b => Older(a) <= Older(b)
  BY NotifyAssumption DEF Age, Older
<1>4. ASSUME NEW i \in 1..Len(rows)
      PROVE  Aged(i) \in Notification /\ Aged(i).seen <= Aged(i).created
  <2>1. PICK row \in Notification : row = rows[i] /\ row.seen <= row.created
    BY <1>1 DEF NotifyInv
  <2>2. row.created \in Age /\ row.seen \in Age
    BY DEF Notification
  <2>3. PICK x \in Age, y \in Age : x = Older(row.created) /\ y = Older(row.seen) /\ y <= x
    BY <1>2, <1>3, <2>1, <2>2
  <2>4. Aged(i) = [row EXCEPT !.created = x, !.seen = y]
    BY <2>1, <2>3
  <2>5. [row EXCEPT !.created = x, !.seen = y] \in Notification
    BY DEF Notification
  <2>6. /\ [row EXCEPT !.created = x, !.seen = y].created = x
        /\ [row EXCEPT !.created = x, !.seen = y].seen = y
    BY DEF Notification
  <2> QED BY <2>3, <2>4, <2>5, <2>6
<1> HIDE DEF Aged
<1>5. aged \in Seq(Notification) /\ Len(aged) = Len(rows)
        /\ \A i \in 1..Len(rows) : aged[i] = Aged(i)
  <2>1. aged \in [1..Len(rows) -> Notification]
    BY <1>4
  <2> QED BY <1>1, <2>1
<1> HIDE DEF aged
<1>6. rows' = aged /\ (\A p \in Passes : pc'[p] = "idle")
        /\ UNCHANGED <<firing, pc, todo, found, raced, faults, kills>>
  BY DEF Tick, aged, Aged, bounds
<1>7. TypeOK'
  BY <1>5, <1>6 DEF NotifyInv, TypeOK
<1>8. \A i \in 1..Len(rows') : rows'[i].seen <= rows'[i].created
  BY <1>4, <1>5, <1>6
<1>9. \A p \in Passes : FoundUntold(p)'
  BY <1>6 DEF FoundUntold
<1> QED BY <1>6, <1>7, <1>8, <1>9 DEF NotifyInv

LEMMA BeginOK == ASSUME NotifyInv, NEW p \in Passes, Begin(p) PROVE NotifyInv'
<1>1. PICK order \in SetToSeqs(firing) : todo' = [todo EXCEPT ![p] = order]
  BY DEF Begin
<1>2. IsFiniteSet(firing) /\ Cardinality(firing) \in Nat \ {0}
  BY NotifyAssumption, FS_Subset, FS_EmptySet, FS_CardinalityType DEF NotifyInv, TypeOK, Begin
<1>3. order \in Seq(Signatures) /\ order # <<>>
  <2>1. order \in [1..Cardinality(firing) -> firing]
    BY DEF SetToSeqs
  <2>2. order \in Seq(firing) /\ Len(order) = Cardinality(firing)
    BY <1>2, <2>1
  <2>3. firing \subseteq Signatures
    BY DEF NotifyInv, TypeOK
  <2> QED BY <1>2, <2>2, <2>3
<1>4. TypeOK'
  BY <1>1, <1>3 DEF NotifyInv, TypeOK, Begin, Goto, bounds
<1>5. /\ \A q \in Passes \ {p} : pc'[q] = pc[q] /\ todo'[q] = todo[q]
      /\ pc'[p] # "create" /\ raced' = raced /\ rows' = rows
  BY <1>1 DEF NotifyInv, TypeOK, Begin, Goto
<1> QED BY <1>4, <1>5, OnePassMoves DEF NotifyInv

LEMMA FindOK == ASSUME NotifyInv, NEW p \in Passes, Find(p) PROVE NotifyInv'
<1>0. pc[p] = "find" /\ UNCHANGED <<firing, rows, todo, faults, kills>>
  BY DEF Find, bounds
<1>1. CASE /\ Recent(p) = {}
           /\ Goto(p, "create")
           /\ raced' = raced \cup
                 {s \in {Current(p)} :
                     \E q \in Passes \ {p} : pc[q] = "create" /\ Current(q) = s}
           /\ UNCHANGED found
  <2>1. Current(p) \in Signatures
    BY <1>0 DEF NotifyInv, TypeOK, Current
  <2>2. TypeOK'
    BY <1>0, <1>1, <2>1 DEF NotifyInv, TypeOK, Goto
  <2>3. /\ pc'[p] = "create" /\ \A q \in Passes \ {p} : pc'[q] = pc[q]
        /\ \A q \in Passes : Current(q)' = Current(q)
    BY <1>0, <1>1 DEF NotifyInv, TypeOK, Goto, Current
  <2>4. \A i \in Told(Current(p)) : rows[i].created > CoolOff
    <3> SUFFICES ASSUME NEW i \in 1..Len(rows), rows[i].signature = Current(p)
                 PROVE  rows[i].created > CoolOff
      BY DEF Told
    <3>1. rows[i] \in Notification /\ rows[i].seen <= rows[i].created
      BY DEF NotifyInv, TypeOK
    <3>2. ~ (rows[i].seen <= CoolOff)
      BY <1>1 DEF Recent, SeenRecently
    <3> QED BY <3>1, <3>2, NotifyAssumption DEF Notification, Age
  <2>5. \A q \in Passes : FoundUntold(q)'
    <3> SUFFICES ASSUME NEW q \in Passes, pc'[q] = "create", Current(q)' \notin raced'
                 PROVE  (\A i \in Told(Current(q)) : rows[i].created > CoolOff)'
      BY DEF FoundUntold
    <3>1. \A i \in Told(Current(q)) : rows[i].created > CoolOff
      BY <1>1, <2>3, <2>4 DEF NotifyInv, FoundUntold
    <3> QED BY <1>0, <2>3, <3>1 DEF Told
  <2>6. \A q \in Passes \ {p} : pc[q] = "create" /\ Current(q) = Current(p) => Current(p) \in raced'
    BY <1>1
  <2>7. ASSUME NEW q \in Passes, NEW r \in Passes, q # r,
               pc'[q] = "create", pc'[r] = "create", Current(q)' = Current(r)'
        PROVE  Current(q)' \in raced'
    <3>1. Current(q) = Current(r)
      BY <2>3, <2>7
    <3>2. CASE q = p
      BY <2>3, <2>6, <2>7, <3>1, <3>2
    <3>3. CASE r = p
      BY <2>3, <2>6, <2>7, <3>1, <3>3
    <3>4. CASE q # p /\ r # p
      BY <1>1, <2>3, <2>7, <3>1, <3>4 DEF NotifyInv
    <3> QED BY <3>2, <3>3, <3>4
  <2> QED BY <1>0, <2>2, <2>5, <2>7 DEF NotifyInv
<1>2. ASSUME NEW i \in Recent(p),
             found' = [found EXCEPT ![p] = i], Goto(p, "refresh"), UNCHANGED raced
      PROVE  NotifyInv'
  <2>1. i \in 0..MaxRows
    BY NotifyAssumption DEF Recent, NotifyInv, TypeOK
  <2>2. TypeOK'
    BY <1>0, <1>2, <2>1 DEF NotifyInv, TypeOK, Goto
  <2>3. /\ \A q \in Passes \ {p} : pc'[q] = pc[q] /\ todo'[q] = todo[q]
        /\ pc'[p] # "create" /\ raced' = raced /\ rows' = rows
    BY <1>0, <1>2 DEF NotifyInv, TypeOK, Goto
  <2> QED BY <1>0, <2>2, <2>3, OnePassMoves DEF NotifyInv
<1> QED BY <1>1, <1>2 DEF Find

LEMMA RefreshOK == ASSUME NotifyInv, NEW p \in Passes, Refresh(p) PROVE NotifyInv'
<1> DEFINE n == found[p]
           row == [rows[n] EXCEPT !.seen = 0]
<1>1. TypeOK /\ pc[p] # "idle" /\ NextDetection(p) /\ rows' = [rows EXCEPT ![n] = row]
        /\ UNCHANGED <<firing, raced, faults, kills>>
  BY DEF NotifyInv, Refresh, bounds
<1>2. ASSUME n \in 1..Len(rows)
      PROVE  /\ row \in Notification /\ row.seen <= row.created
             /\ row.signature = rows[n].signature /\ row.created = rows[n].created
  <2>1. rows[n] \in Notification
    BY <1>1, <1>2 DEF TypeOK
  <2>2. row = [signature |-> rows[n].signature, created |-> rows[n].created,
               seen |-> 0, email |-> rows[n].email]
    BY <2>1 DEF Notification
  <2> QED BY <2>1, <2>2, NotifyAssumption DEF Notification, Age
<1> HIDE DEF n, row
<1>3. /\ rows' \in Seq(Notification) /\ Len(rows') = Len(rows)
      /\ \A i \in 1..Len(rows) : rows'[i] = IF i = n THEN row ELSE rows[i]
  <2>1. n \in 1..Len(rows) => row \in Notification
    BY <1>2
  <2> QED BY <1>1, <2>1, OneNotificationMoves
<1>4. TypeOK'
  BY <1>1, <1>3, DetectionDone DEF TypeOK
<1>5. \A i \in 1..Len(rows) : rows'[i].signature = rows[i].signature
                                /\ rows'[i].created = rows[i].created
                                /\ rows'[i].seen <= rows'[i].created
  BY <1>2, <1>3 DEF NotifyInv
<1> QED BY <1>1, <1>3, <1>4, <1>5, DetectionDone, OnePassMoves DEF NotifyInv

LEMMA RecordMailOK == ASSUME NotifyInv, NEW p \in Passes, RecordMail(p) PROVE NotifyInv'
<1> DEFINE n == found[p]
           told == IF pc[p] = "sent" THEN "sent" ELSE "failed"
           row == [rows[n] EXCEPT !.email = told]
<1>1. TypeOK /\ pc[p] # "idle" /\ NextDetection(p) /\ rows' = [rows EXCEPT ![n] = row]
        /\ UNCHANGED <<firing, raced, faults, kills>>
  BY DEF NotifyInv, RecordMail, bounds
<1>2. ASSUME n \in 1..Len(rows)
      PROVE  /\ row \in Notification /\ row.seen <= row.created
             /\ row.signature = rows[n].signature /\ row.created = rows[n].created
  <2>1. rows[n] \in Notification /\ rows[n].seen <= rows[n].created
    BY <1>1, <1>2 DEF NotifyInv, TypeOK
  <2>2. row = [signature |-> rows[n].signature, created |-> rows[n].created,
               seen |-> rows[n].seen, email |-> told]
    BY <2>1 DEF Notification
  <2> QED BY <2>1, <2>2 DEF Notification, Emails
<1> HIDE DEF n, row
<1>3. /\ rows' \in Seq(Notification) /\ Len(rows') = Len(rows)
      /\ \A i \in 1..Len(rows) : rows'[i] = IF i = n THEN row ELSE rows[i]
  <2>1. n \in 1..Len(rows) => row \in Notification
    BY <1>2
  <2> QED BY <1>1, <2>1, OneNotificationMoves
<1>4. TypeOK'
  BY <1>1, <1>3, DetectionDone DEF TypeOK
<1>5. \A i \in 1..Len(rows) : rows'[i].signature = rows[i].signature
                                /\ rows'[i].created = rows[i].created
                                /\ rows'[i].seen <= rows'[i].created
  BY <1>2, <1>3 DEF NotifyInv
<1> QED BY <1>1, <1>3, <1>4, <1>5, DetectionDone, OnePassMoves DEF NotifyInv

LEMMA CreateOK == ASSUME NotifyInv, NEW p \in Passes, Create(p) PROVE NotifyInv'
<1> DEFINE s == Current(p)
           row == NewRow(s)
<1>1. /\ TypeOK /\ pc[p] = "create" /\ Len(rows) < MaxRows
      /\ rows' = Append(rows, row) /\ UNCHANGED <<firing, raced, faults, kills>>
  BY DEF NotifyInv, Create, bounds
<1>2. row \in Notification /\ row.signature = s /\ row.seen <= row.created
  BY <1>1, NotifyAssumption DEF TypeOK, Current, NewRow, Notification, Age, Emails
<1> HIDE DEF row
<1>3. /\ rows' \in Seq(Notification) /\ Len(rows') = Len(rows) + 1 /\ Len(rows) \in Nat
      /\ \A i \in 1..Len(rows) : rows'[i] = rows[i]
      /\ rows'[Len(rows) + 1] = row
  BY <1>1, <1>2 DEF TypeOK
<1>4. /\ pc' \in [Passes -> {"idle", "find", "refresh", "create", "mail", "sent", "refused"}]
      /\ todo' \in [Passes -> Seq(Signatures)]
      /\ \A q \in Passes : pc'[q] # "idle" => todo'[q] # <<>>
      /\ found' \in [Passes -> 0..MaxRows]
      /\ \A q \in Passes \ {p} : pc'[q] = pc[q] /\ todo'[q] = todo[q]
      /\ pc'[p] # "create"
  <2>1. CASE s \in Serious
    <3>1. Len(rows) + 1 \in 0..MaxRows
      BY <1>1, <1>3, NotifyAssumption
    <3> QED BY <1>1, <2>1, <3>1 DEF Create, Goto, TypeOK
  <2>2. CASE s \notin Serious
    BY <1>1, <2>2, DetectionDone DEF Create
  <2> QED BY <2>1, <2>2
<1>5. TypeOK'
  <2>1. Len(rows') <= MaxRows
    BY <1>1, <1>3, NotifyAssumption
  <2> QED BY <1>1, <1>3, <1>4, <2>1 DEF TypeOK
<1>6. \A i \in 1..Len(rows') : rows'[i].seen <= rows'[i].created
  BY <1>2, <1>3 DEF NotifyInv
<1>7. ASSUME NEW q \in Passes, pc'[q] = "create", Current(q)' \notin raced'
      PROVE  (\A i \in Told(Current(q)) : rows[i].created > CoolOff)'
  <2>1. q # p /\ pc[q] = "create" /\ Current(q)' = Current(q) /\ Current(q) \notin raced
    BY <1>1, <1>4, <1>7 DEF Current
  <2>2. Current(q) # s
    BY <1>1, <2>1 DEF NotifyInv
  <2>3. \A i \in 1..Len(rows') : rows'[i].signature = Current(q) =>
          i \in 1..Len(rows) /\ rows[i].signature = Current(q) /\ rows'[i] = rows[i]
    BY <1>2, <1>3, <2>2
  <2>4. \A i \in 1..Len(rows) : rows[i].signature = Current(q) => rows[i].created > CoolOff
    BY <2>1 DEF NotifyInv, FoundUntold, Told
  <2> QED BY <2>1, <2>3, <2>4 DEF Told
<1>8. \A q \in Passes : FoundUntold(q)'
  BY <1>7 DEF FoundUntold
<1>9. ASSUME NEW q \in Passes, NEW r \in Passes, q # r,
             pc'[q] = "create", pc'[r] = "create", Current(q)' = Current(r)'
      PROVE  Current(q)' \in raced'
  BY <1>1, <1>4, <1>9 DEF NotifyInv, Current
<1> QED BY <1>5, <1>6, <1>8, <1>9 DEF NotifyInv

LEMMA NotifyStep == NotifyInv /\ [Next]_vars => NotifyInv'
<1> SUFFICES ASSUME NotifyInv, [Next]_vars PROVE NotifyInv'
  OBVIOUS
<1>1. CASE Tick
  BY <1>1, TickOK
<1>2. ASSUME NEW s \in Signatures, Breaks(s) \/ Recovers(s) PROVE NotifyInv'
  <2>1. firing' \subseteq Signatures /\ UNCHANGED <<rows, pc, todo, found, raced, faults, kills>>
    BY <1>2 DEF Breaks, Recovers, passes, bounds, NotifyInv, TypeOK
  <2> QED BY <2>1 DEF NotifyInv, TypeOK, FoundUntold, Told, Current
<1>3. ASSUME NEW p \in Passes, Mail(p) PROVE NotifyInv'
  <2>0. TypeOK /\ pc[p] = "mail" /\ UNCHANGED <<firing, rows, todo, found, raced>>
    BY <1>3 DEF NotifyInv, Mail
  <2>1. TypeOK'
    <3>1. faults' \in 0..MaxFaults /\ kills' \in 0..MaxFaults
      BY <1>3, NotifyAssumption DEF NotifyInv, TypeOK, Mail, Fault, bounds
    <3>2. \E label \in {"sent", "refused"} : pc' = [pc EXCEPT ![p] = label]
      BY <1>3 DEF Mail, Goto
    <3> QED BY <2>0, <3>1, <3>2 DEF TypeOK
  <2>2. /\ \A q \in Passes \ {p} : pc'[q] = pc[q] /\ todo'[q] = todo[q]
        /\ pc'[p] # "create" /\ raced' = raced /\ rows' = rows
    BY <1>3 DEF NotifyInv, TypeOK, Mail, Goto
  <2> QED BY <2>1, <2>2, OnePassMoves DEF NotifyInv
<1>4. ASSUME NEW p \in Passes, Throw(p) PROVE NotifyInv'
  <2>0. TypeOK /\ pc[p] # "idle" /\ NextDetection(p) /\ UNCHANGED <<firing, rows, raced>>
    BY <1>4 DEF NotifyInv, Throw
  <2>1. faults' \in 0..MaxFaults /\ kills' \in 0..MaxFaults
    BY <1>4, NotifyAssumption DEF NotifyInv, TypeOK, Throw, Fault
  <2>2. TypeOK'
    BY <2>0, <2>1, DetectionDone DEF TypeOK
  <2> QED BY <2>0, <2>2, DetectionDone, OnePassMoves DEF NotifyInv
<1>5. ASSUME NEW p \in Passes, Killed(p) PROVE NotifyInv'
  <2>1. TypeOK'
    <3>1. <<>> \in Seq(Signatures) /\ 0 \in 0..MaxRows
      BY NotifyAssumption
    <3>2. kills' \in 0..MaxFaults
      BY <1>5, NotifyAssumption DEF NotifyInv, TypeOK, Killed
    <3> QED BY <1>5, <3>1, <3>2 DEF NotifyInv, TypeOK, Killed, Goto
  <2>2. /\ \A q \in Passes \ {p} : pc'[q] = pc[q] /\ todo'[q] = todo[q]
        /\ pc'[p] # "create" /\ raced' = raced /\ rows' = rows
    BY <1>5 DEF NotifyInv, TypeOK, Killed, Goto
  <2> QED BY <2>1, <2>2, OnePassMoves DEF NotifyInv
<1>6. CASE UNCHANGED vars
  BY <1>6 DEF vars, passes, bounds, NotifyInv, TypeOK, FoundUntold, Told, Current
<1> QED BY <1>1, <1>2, <1>3, <1>4, <1>5, <1>6, BeginOK, FindOK, RefreshOK, CreateOK, RecordMailOK
        DEF Next, Record

\* Every step but a Create leaves as many rows of each condition.
LEMMA OnlyCreateTells ==
    ASSUME NotifyInv, Next, NEW s, Told(s)' # Told(s)
    PROVE  \E p \in Passes : Create(p) /\ (s \notin raced => FoundUntold(p)) /\ Current(p) = s
<1>0. rows \in Seq(Notification) /\ Len(rows) \in Nat
  BY DEF NotifyInv, TypeOK
<1>1. ASSUME Len(rows') = Len(rows),
             \A i \in 1..Len(rows) : rows'[i].signature = rows[i].signature
      PROVE  FALSE
  BY <1>1 DEF Told
<1>2. CASE Tick
  <2> DEFINE aged == [i \in 1..Len(rows) |->
                        [rows[i] EXCEPT !.created = Older(@), !.seen = Older(@)]]
  <2>1. \A i \in 1..Len(rows) : aged[i].signature = rows[i].signature
    <3> SUFFICES ASSUME NEW i \in 1..Len(rows) PROVE aged[i].signature = rows[i].signature
      OBVIOUS
    <3>1. rows[i] \in Notification
      BY <1>0
    <3> QED BY <3>1 DEF Notification
  <2>2. Len(aged) = Len(rows)
    BY <1>0
  <2> HIDE DEF aged
  <2>3. rows' = aged
    BY <1>2 DEF Tick, aged
  <2> QED BY <1>1, <2>1, <2>2, <2>3
<1>3. CASE UNCHANGED rows
  BY <1>1, <1>3
<1>4. ASSUME NEW p \in Passes, Refresh(p) \/ RecordMail(p) PROVE FALSE
  <2>1. PICK f \in {[rows[found[p]] EXCEPT !.seen = 0],
                    [rows[found[p]] EXCEPT !.email = IF pc[p] = "sent" THEN "sent" ELSE "failed"]} :
          rows' = [rows EXCEPT ![found[p]] = f]
    BY <1>4 DEF Refresh, RecordMail
  <2>2. found[p] \in 1..Len(rows) => f.signature = rows[found[p]].signature
    <3> SUFFICES ASSUME found[p] \in 1..Len(rows) PROVE f.signature = rows[found[p]].signature
      OBVIOUS
    <3>1. rows[found[p]] \in Notification
      BY <1>0
    <3> QED BY <2>1, <3>1 DEF Notification
  <2>3. Len(rows') = Len(rows)
    BY <1>0, <2>1
  <2> QED BY <1>0, <1>1, <2>1, <2>2, <2>3
<1>5. ASSUME NEW p \in Passes, Create(p), Current(p) # s PROVE FALSE
  <2>1. rows' = Append(rows, NewRow(Current(p))) /\ NewRow(Current(p)).signature # s
    BY <1>5 DEF Create, NewRow
  <2> DEFINE row == NewRow(Current(p))
  <2>2. row.signature # s /\ rows' = Append(rows, row)
    BY <2>1
  <2> HIDE DEF row
  <2>3. /\ Len(rows') = Len(rows) + 1 /\ rows'[Len(rows) + 1] = row
        /\ \A i \in 1..Len(rows) : rows'[i] = rows[i]
    BY <1>0, <2>2
  <2> QED BY <1>0, <2>2, <2>3 DEF Told
<1>6. \A p \in Passes : FoundUntold(p)
  BY DEF NotifyInv
<1>7. ASSUME NEW p \in Passes, Begin(p) \/ Find(p) \/ Mail(p) \/ Throw(p) \/ Killed(p)
      PROVE  UNCHANGED rows
  BY <1>7 DEF Begin, Find, Mail, Throw, Killed
<1>8. ASSUME NEW t \in Signatures, Breaks(t) \/ Recovers(t)
      PROVE  UNCHANGED rows
  BY <1>8 DEF Breaks, Recovers
<1> QED BY <1>2, <1>3, <1>4, <1>5, <1>6, <1>7, <1>8 DEF Next, Record

\* A condition that was told within the cool-off is not told again, unless two
\* passes looked for it before either had created its row (record,
\* notifications.controller.ts:48): for any number of passes and conditions,
\* whatever fails and whichever are killed.
THEOREM ToldOncePerCoolOff == Spec => OncePerCoolOff
<1>1. ASSUME NotifyInv, [Next]_vars
      PROVE  [\A s \in Signatures \ raced :
                 Cardinality(Told(s)') > Cardinality(Told(s)) =>
                     \A i \in Told(s) : rows[i].created > CoolOff]_vars
  <2> SUFFICES ASSUME Next, NEW s \in Signatures \ raced,
                      Cardinality(Told(s)') > Cardinality(Told(s))
               PROVE  \A i \in Told(s) : rows[i].created > CoolOff
    BY <1>1
  <2>1. Cardinality(Told(s)) \in Nat
    <3>1. IsFiniteSet(1..Len(rows))
      BY <1>1, FS_Interval DEF NotifyInv, TypeOK
    <3>2. IsFiniteSet(Told(s))
      BY <3>1, FS_Subset DEF Told
    <3> QED BY <3>2, FS_CardinalityType
  <2>2. Told(s)' # Told(s)
    BY <2>1
  <2> QED BY <1>1, <2>2, OnlyCreateTells DEF Create, FoundUntold
<1> QED BY <1>1, NotifyStart, NotifyStep, PTL DEF Spec, OncePerCoolOff
=============================================================================
