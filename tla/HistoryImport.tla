--------------------------- MODULE HistoryImport ----------------------------
(***************************************************************************)
(* What an import of a provider's history promises, whatever it does page  *)
(* by page: what is accounted for stays accounted for, and the import is   *)
(* called complete only when nothing of the history is left.               *)
(***************************************************************************)

VARIABLES
    history,   \* the records the provider had when the import began
    known,     \* records stored, or given up with a line in the log
    complete   \* what the import says of itself

importVars == <<history, known, complete>>

ImportInit == complete = FALSE

\* Records are accounted for, by the import or by anything else that stores.
Learn ==
    /\ known \subseteq known'
    /\ UNCHANGED <<history, complete>>

\* Nothing is left of the history before this is said.
Conclude ==
    /\ history \subseteq known
    /\ complete' = TRUE
    /\ UNCHANGED <<history, known>>

\* An operator asks for the whole of it again; nothing already known is lost.
Restart ==
    /\ complete' = FALSE
    /\ UNCHANGED <<history, known>>

ImportNext == Learn \/ Conclude \/ Restart

ImportSpec == ImportInit /\ [][ImportNext]_importVars
=============================================================================
