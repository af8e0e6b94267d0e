------------------------------ MODULE Accounts ------------------------------
(***************************************************************************)
(* AdminUsersService and the account side of Google sign-in: who exists,    *)
(* with which role, and whether the account works.  An account is never     *)
(* deleted.  Every request is a chain of awaits without a transaction: the  *)
(* guard, the target, the number of other administrators, the write.        *)
(*                                                                          *)
(* Names, passwords and the audit trail are left out: no guard reads them.  *)
(***************************************************************************)
EXTENDS Naturals

CONSTANTS
    People,       \* e-mail addresses
    AccountSlots, \* requests under way at one time
    Roles,        \* ROLES
    Admin,        \* the role ADMIN
    DefaultRole,  \* GOOGLE_DEFAULT_ROLE, that of whoever signs in first
    Unsent,       \* a field the body leaves out
    Founders,     \* accounts there are at the start, active administrators
    MaxAccountWrites \* bound: updates that get as far as the write

ASSUME FoundersAssumption ==
    /\ Founders \subseteq People /\ Founders # {}
    /\ {Admin, DefaultRole} \subseteq Roles
    /\ Unsent \notin Roles /\ Unsent \notin People /\ Unsent \notin BOOLEAN
    /\ MaxAccountWrites \in Nat

VARIABLES
    accounts,  \* the User table, by address
    calls,     \* where each request is, and its locals
    accountWrites, \* updates written so far
    adminRaced \* ghost: an update ended some administrator's rights, and another
               \* had been written since it began to look

accountVars == <<accounts, calls, accountWrites, adminRaced>>

NoAccount == [exists |-> FALSE, role |-> DefaultRole, active |-> FALSE]

IsAdmin(account) == account.exists /\ account.active /\ account.role = Admin

NoCall == [pc |-> "idle", own |-> FALSE, target |-> Unsent, role |-> Unsent,
           active |-> Unsent, since |-> 0]

Account == [exists : BOOLEAN, role : Roles, active : BOOLEAN]

Call == [pc : {"idle", "read", "count", "write", "create"},
         own : BOOLEAN, target : People \cup {Unsent},
         role : Roles \cup {Unsent}, active : BOOLEAN \cup {Unsent},
         since : 0..MaxAccountWrites]

AccountsTypeOK ==
    /\ accounts \in [People -> Account]
    /\ calls \in [AccountSlots -> Call]
    /\ accountWrites \in 0..MaxAccountWrites
    /\ adminRaced \in BOOLEAN

AccountsInit ==
    /\ accounts = [p \in People |->
         IF p \in Founders THEN [exists |-> TRUE, role |-> Admin, active |-> TRUE]
                           ELSE NoAccount]
    /\ calls = [r \in AccountSlots |-> NoCall]
    /\ accountWrites = 0
    /\ adminRaced = FALSE

CallGoes(r, call) == calls' = [calls EXCEPT ![r] = call]

(* update: JwtAuthGuard and AdminUnlockGuard read the actor's account ...    *)
UpdateAccount(r, actor, target, role, active) ==
    /\ calls[r].pc = "idle"
    /\ IsAdmin(accounts[actor])
    /\ role # Unsent \/ active # Unsent
    /\ CallGoes(r, [NoCall EXCEPT !.pc = "read", !.own = target = actor, !.target = target,
                              !.role = role, !.active = active])
    /\ UNCHANGED <<accounts, accountWrites, adminRaced>>

(* ... and the handler reads the target's.                                   *)
LosingAdmin(call, seen) ==
    /\ seen.role = Admin
    /\ call.role \notin {Unsent, Admin} \/ call.active = FALSE

OwnMistake(call, seen) ==
    /\ call.own
    /\ call.role \notin {Unsent, seen.role} \/ call.active = FALSE

ReadTarget(r) ==
    LET call == calls[r]
        seen == accounts[call.target]
    IN  /\ call.pc = "read"
        /\ CallGoes(r, IF ~seen.exists \/ OwnMistake(call, seen)
                   THEN NoCall
                   ELSE [call EXCEPT !.pc = IF LosingAdmin(call, seen) THEN "count"
                                                                       ELSE "write",
                                     !.own = FALSE, !.since = accountWrites])
        /\ UNCHANGED <<accounts, accountWrites, adminRaced>>

\* Seeded fault: the one who loses the role counts too.
OtherAdminsWithSelf(target) == {p \in People : IsAdmin(accounts[p])}

OtherAdmins(target) == {p \in People \ {target} : IsAdmin(accounts[p])}

CountOthers(r) ==
    LET call == calls[r]
    IN  /\ call.pc = "count"
        /\ CallGoes(r, IF OtherAdmins(call.target) = {} THEN NoCall
                                                    ELSE [call EXCEPT !.pc = "write"])
        /\ UNCHANGED <<accounts, accountWrites, adminRaced>>

Updated(account, call) ==
    [account EXCEPT !.role = IF call.role = Unsent THEN @ ELSE call.role,
                    !.active = IF call.active = Unsent THEN @ ELSE call.active]

WriteTarget(r) ==
    LET call == calls[r]
        next == Updated(accounts[call.target], call)
    IN  /\ call.pc = "write"
        /\ accountWrites < MaxAccountWrites
        /\ accounts' = [accounts EXCEPT ![call.target] = next]
        /\ accountWrites' = accountWrites + 1
        /\ adminRaced' =
             (adminRaced \/ (/\ IsAdmin(accounts[call.target]) /\ ~IsAdmin(next)
                             /\ call.since # accountWrites))
        /\ CallGoes(r, NoCall)

(* create, by an administrator, and findOrCreate, at a first Google sign-in: *)
(* both look for the address, and insert if it is not there.                 *)
CreateAccount(r, actor, target, role) ==
    /\ calls[r].pc = "idle"
    /\ IsAdmin(accounts[actor])
    /\ ~accounts[target].exists
    /\ CallGoes(r, [NoCall EXCEPT !.pc = "create", !.target = target, !.role = role])
    /\ UNCHANGED <<accounts, accountWrites, adminRaced>>

FirstSignIn(r, target) ==
    /\ calls[r].pc = "idle"
    /\ ~accounts[target].exists
    /\ CallGoes(r, [NoCall EXCEPT !.pc = "create", !.target = target, !.role = DefaultRole])
    /\ UNCHANGED <<accounts, accountWrites, adminRaced>>

(* The address is unique: of two inserts the second one fails.               *)
InsertAccount(r) ==
    LET call == calls[r]
    IN  /\ call.pc = "create"
        /\ accounts' = IF accounts[call.target].exists THEN accounts
                       ELSE [accounts EXCEPT ![call.target] =
                               [exists |-> TRUE, role |-> call.role, active |-> TRUE]]
        /\ CallGoes(r, NoCall)
        /\ UNCHANGED <<accountWrites, adminRaced>>

(* A statement fails, or the host is stopped.                                *)
CallFails(r) ==
    /\ calls[r].pc # "idle"
    /\ CallGoes(r, NoCall)
    /\ UNCHANGED <<accounts, accountWrites, adminRaced>>

AccountsNext ==
    \E r \in AccountSlots :
        \/ \E actor, target \in People, role \in Roles \cup {Unsent},
              active \in BOOLEAN \cup {Unsent} : UpdateAccount(r, actor, target, role, active)
        \/ ReadTarget(r)
        \/ CountOthers(r)
        \/ WriteTarget(r)
        \/ \E actor, target \in People, role \in Roles : CreateAccount(r, actor, target, role)
        \/ \E target \in People : FirstSignIn(r, target)
        \/ InsertAccount(r)
        \/ CallFails(r)

AccountsSpec == AccountsInit /\ [][AccountsNext]_accountVars

(* Somebody can administer the desk, as long as no update that ends an       *)
(* administrator's rights is written after another update it did not see:    *)
(* the count of the others, taken before the write, protects the last one    *)
(* from everything but that (admin-users.service.ts:209).                    *)
AdministratorLeft == ~adminRaced => \E p \in People : IsAdmin(accounts[p])

(* AdministratorLeft, and why the write keeps it: what an update that is     *)
(* about to be written has counted still holds if nothing was written since. *)
Counted(call) ==
    call.pc = "write" /\ call.since = accountWrites =>
        (LosingAdmin(call, accounts[call.target]) => OtherAdmins(call.target) # {})

AccountsInv ==
    /\ AccountsTypeOK
    /\ AdministratorLeft
    /\ \A r \in AccountSlots :
        /\ calls[r].pc # "idle" => calls[r].target \in People
        /\ calls[r].pc = "create" => calls[r].role \in Roles
        /\ calls[r].pc \in {"count", "write"} => accounts[calls[r].target].exists
        /\ calls[r].since <= accountWrites
        /\ Counted(calls[r])
=============================================================================
