----------------------------- MODULE ReconCases -----------------------------
(***************************************************************************)
(* The workflow state of a reconciliation case: lib/recon/cases.ts and the   *)
(* reconciliation page in each operator's browser, ReconService on the       *)
(* server.  A browser opens with no case, asks for the stored ones and goes  *)
(* on working; an edit is shown, written to localStorage, and sent whole in  *)
(* a request nobody waits for.                                               *)
(*                                                                          *)
(* One case: cases do not touch each other.  Owner and notes are one field,  *)
(* and every resolution that is not Open is "Resolved".                      *)
(***************************************************************************)
EXTENDS Naturals, FiniteSets

CONSTANTS
    Browsers,   \* operators with the page open
    MaxEdits    \* bound: edits made

ASSUME EditsAssumption == MaxEdits \in Nat

VARIABLES
    stored,     \* the row on the server
    shown,      \* what each page holds
    kept,       \* what each browser's localStorage holds
    loading,    \* where each page's load is, and the answer to it
    saves,      \* saves under way
    edits,      \* edits made so far
    lastEdit,   \* ghost: each field as it was last asked to be, by anyone
    muddled     \* ghost: an edit began from something other than the stored case, while
                \* a save was under way, or a save was lost

caseVars == <<stored, shown, kept, loading, saves, edits, lastEdit, muddled>>

Resolutions == {"Open", "Resolved"}

CaseState == [resolution : Resolutions, notes : 0..MaxEdits]

(* A case nobody has touched, for the server and for emptyCase alike.        *)
EmptyCase == [resolution |-> "Open", notes |-> 0]

Save == [case : CaseState, chosen : Resolutions \cup {"none"}, number : 1..MaxEdits]

CasesTypeOK ==
    /\ stored \in CaseState
    /\ {shown, kept} \subseteq [Browsers -> CaseState]
    /\ loading \in [Browsers ->
         [pc : {"asking", "answered", "done"}, answer : CaseState]]
    /\ saves \in SUBSET Save
    /\ edits \in 0..MaxEdits
    /\ lastEdit \in CaseState
    /\ muddled \in BOOLEAN

Asking == [pc |-> "asking", answer |-> EmptyCase]

CasesInit ==
    /\ stored = EmptyCase
    /\ shown = [b \in Browsers |-> EmptyCase]
    /\ kept = [b \in Browsers |-> EmptyCase]
    /\ loading = [b \in Browsers |-> Asking]
    /\ saves = {}
    /\ edits = 0
    /\ lastEdit = EmptyCase
    /\ muddled = FALSE

(* The page is opened, again: its state is new, localStorage is not.         *)
OpenPage(b) ==
    /\ loading[b].pc = "done"
    /\ shown' = [shown EXCEPT ![b] = EmptyCase]
    /\ loading' = [loading EXCEPT ![b] = Asking]
    /\ UNCHANGED <<stored, kept, saves, edits, lastEdit, muddled>>

(* getCases answers with what is stored, or with nothing if the database     *)
(* fails; if the server cannot be reached, localStorage answers.             *)
Answers(b) == {stored, EmptyCase, kept[b]}

LoadAnswered(b) ==
    /\ loading[b].pc = "asking"
    /\ \E answer \in Answers(b) :
          loading' = [loading EXCEPT ![b] = [pc |-> "answered", answer |-> answer]]
    /\ UNCHANGED <<stored, shown, kept, saves, edits, lastEdit, muddled>>

(* The answer replaces what the page holds.                                  *)
LoadArrives(b) ==
    /\ loading[b].pc = "answered"
    /\ shown' = [shown EXCEPT ![b] = loading[b].answer]
    /\ loading' = [loading EXCEPT ![b] = [Asking EXCEPT !.pc = "done"]]
    /\ UNCHANGED <<stored, kept, saves, edits, lastEdit, muddled>>

\* Seeded fault: an edit starts a case of its own.
EditedFromEmpty(case, chosen, number) ==
    IF chosen = "none" THEN [EmptyCase EXCEPT !.notes = number]
                       ELSE [EmptyCase EXCEPT !.resolution = chosen]

(* updateCase and saveCase: the page's case with one field changed.          *)
Edited(case, chosen, number) ==
    IF chosen = "none" THEN [case EXCEPT !.notes = number]
                       ELSE [case EXCEPT !.resolution = chosen]

Edit(b, chosen) ==
    LET number == edits + 1
        case   == Edited(shown[b], chosen, number)
    IN  /\ edits < MaxEdits
        /\ chosen # shown[b].resolution
        /\ edits' = number
        /\ shown' = [shown EXCEPT ![b] = case]
        /\ kept' = [kept EXCEPT ![b] = case]
        /\ saves' = saves \cup {[case |-> case, chosen |-> chosen, number |-> number]}
        /\ lastEdit' = IF chosen = "none" THEN [lastEdit EXCEPT !.notes = number]
                                          ELSE [lastEdit EXCEPT !.resolution = chosen]
        /\ muddled' = (muddled \/ shown[b] # stored \/ saves # {})
        /\ UNCHANGED <<stored, loading>>

(* saveCases: the upsert overwrites what the body names, and this page's     *)
(* body names the three fields the operator owns.                            *)
SaveArrives(save) ==
    /\ save \in saves
    /\ stored' = save.case
    /\ saves' = saves \ {save}
    /\ UNCHANGED <<shown, kept, loading, edits, lastEdit, muddled>>

(* The request or its transaction fails: nobody is told.                     *)
SaveLost(save) ==
    /\ save \in saves
    /\ saves' = saves \ {save}
    /\ muddled' = TRUE
    /\ UNCHANGED <<stored, shown, kept, loading, edits, lastEdit>>

CasesNext ==
    \/ \E b \in Browsers :
        \/ OpenPage(b)
        \/ LoadAnswered(b)
        \/ LoadArrives(b)
        \/ \E chosen \in Resolutions \cup {"none"} : Edit(b, chosen)
    \/ \E save \in saves : SaveArrives(save) \/ SaveLost(save)

CasesSpec == CasesInit /\ [][CasesNext]_caseVars

-----------------------------------------------------------------------------
(* Each field is stored as it was last asked to be, whoever asked, once no   *)
(* save is under way: a save carries the whole case and undoes no other      *)
(* field, until somebody edits a case other than as it is stored, two saves  *)
(* cross, or one is lost (recon.service.ts:118, cases.ts:86).                *)
StoredIsLastEdit == ~muddled /\ saves = {} => stored = lastEdit

(* Why: until then the last edit is stored, or is the one save under way.    *)
CasesInv ==
    ~muddled =>
        \/ saves = {} /\ stored = lastEdit
        \/ \E save \in saves : saves = {save} /\ save.case = lastEdit

(* "A case is never re-created as Open once it has been resolved"            *)
(* (recon.service.ts:113): only an operator who chooses Open reopens one.    *)
NeverReopened ==
    [][stored.resolution = "Resolved" /\ stored'.resolution = "Open" =>
          \E save \in saves \ saves' : save.chosen = "Open"]_caseVars
=============================================================================
