----------------------------- MODULE MCRecords ------------------------------
(* The tables several write at once, for TLC: accounts, incidents, the        *)
(* categories of an incident, reconciliation cases, and the payments a file   *)
(* is read into.  They share no state, so a behaviour works on one of them,   *)
(* chosen at the start, and the others stay as they are.                      *)
EXTENDS Accounts, Incidents, IncidentTags, ReconCases, FileImport, TLC

CONSTANTS p1, p2, p3, slot1, slot2, editor1, editor2, tag1, tag2,
          request1, request2, browser1, browser2,
          loader1, loader2, key1, key2,
          Tables  \* what a behaviour may work on

VARIABLE table  \* the one this behaviour works on

recordVars == <<table, accountVars, incidentVars, tagVars, caseVars, importVars>>

RecordsInit ==
    /\ table \in Tables
    /\ AccountsInit /\ IncidentsInit /\ TagsInit /\ CasesInit /\ ImportInit

RecordsNext ==
    /\ UNCHANGED table
    /\ \/ /\ table = "accounts" /\ AccountsNext
          /\ UNCHANGED <<incidentVars, tagVars, caseVars, importVars>>
       \/ /\ table = "incidents" /\ IncidentsNext
          /\ UNCHANGED <<accountVars, tagVars, caseVars, importVars>>
       \/ /\ table = "tags" /\ TagsNext
          /\ UNCHANGED <<accountVars, incidentVars, caseVars, importVars>>
       \/ /\ table = "cases" /\ CasesNext
          /\ UNCHANGED <<accountVars, incidentVars, tagVars, importVars>>
       \/ /\ table = "payments" /\ ImportNext
          /\ UNCHANGED <<accountVars, incidentVars, tagVars, caseVars>>

RecordsSpec == RecordsInit /\ [][RecordsNext]_recordVars

RecordsTypeOK == AccountsTypeOK /\ IncidentsTypeOK /\ TagsTypeOK /\ CasesTypeOK /\ ImportTypeOK

AllPeople == {p1, p2, p3}
FirstPeople == {p1, p2}
SomeRoles == {"ADMIN", "READ_ONLY"}
AllStatuses == {"OPEN", "INVESTIGATING", "RESOLVED", "CLOSED"}
AccountRequests == {slot1, slot2}
UpdateRequests == {editor1, editor2}
TagRequests == {request1, request2}
TagNames == {tag1, tag2}
Starting == {tag1}
Operators == {browser1, browser2}
Loaders == {loader1, loader2}
PaymentKeys == {key1, key2}

Interchangeable == Permutations(FirstPeople) \cup Permutations(AccountRequests)

=============================================================================
