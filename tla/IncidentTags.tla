---------------------------- MODULE IncidentTags ----------------------------
(***************************************************************************)
(* The categories of an incident (ModulesService and incident-categories.ts) *)
(* and the list of categories itself.  Setting an incident's categories      *)
(* looks each one up, or brings it back, or adds it, then deletes the tags   *)
(* that are not wanted and adds the others one by one, without a             *)
(* transaction.  A category is retired, never deleted.                       *)
(*                                                                          *)
(* A category is its slug: two spellings of one name are one slug.           *)
(***************************************************************************)
EXTENDS Naturals, FiniteSets

CONSTANTS
    Slugs,     \* categories somebody may name
    Starters,  \* STARTER_CATEGORIES
    Taggers    \* requests under way at one time

ASSUME StartersAssumption == Starters \subseteq Slugs

VARIABLES
    categories, \* the IncidentCategory table, by slug
    tags,       \* the categories of an incident
    tagging,    \* where each request is, and its locals
    asked,      \* ghost: what was asked for since the tags were last settled
    settled     \* ghost: the last request that set the tags ended, and ran alone

tagVars == <<categories, tags, tagging, asked, settled>>

NotTagging == [pc |-> "idle", only |-> FALSE, wanted |-> {}, left |-> {}, missing |-> {},
               alone |-> TRUE]

TagsTypeOK ==
    /\ categories \in [Slugs -> {"absent", "active", "retired"}]
    /\ tags \in SUBSET Slugs
    /\ tagging \in [Taggers -> [pc : {"idle", "find", "create", "upsert", "delete", "put", "seed"},
                                only : BOOLEAN, wanted : SUBSET Slugs,
                                left : SUBSET Slugs, missing : SUBSET Slugs,
                                alone : BOOLEAN]]
    /\ asked \in SUBSET Slugs
    /\ settled \in BOOLEAN

TagsInit ==
    /\ categories = [s \in Slugs |-> "absent"]
    /\ tags = {}
    /\ tagging = [t \in Taggers |-> NotTagging]
    /\ asked = {}
    /\ settled = TRUE

TagGoes(t, locals) == tagging' = [tagging EXCEPT ![t] = locals]

(* tagIncident, on its own or at the end of a declaration; and, with only    *)
(* one name and no incident, createIncidentCategory.                         *)
AskForTags(t, wanted, only) ==
    /\ tagging[t].pc = "idle"
    /\ only => Cardinality(wanted) = 1
    /\ TagGoes(t, [NotTagging EXCEPT !.pc = IF wanted = {} THEN "delete" ELSE "find",
                                     !.only = only, !.wanted = wanted, !.left = wanted])
    /\ UNCHANGED <<categories, tags, asked, settled>>

(* One category of the list has been dealt with.                             *)
After(request, s) ==
    LET left == request.left \ {s}
    IN  IF left # {} THEN [request EXCEPT !.pc = "find", !.left = left, !.missing = {}]
        ELSE IF request.only THEN NotTagging
        ELSE [request EXCEPT !.pc = "delete", !.left = {}, !.missing = {}]

FindCategory(t, s) ==
    /\ tagging[t].pc = "find"
    /\ s \in tagging[t].left
    /\ TagGoes(t, IF categories[s] = "active" THEN After(tagging[t], s)
                  ELSE [tagging[t] EXCEPT !.missing = {s}, !.pc =
                          IF tagging[t].only /\ categories[s] = "absent"
                          THEN "create" ELSE "upsert"])
    /\ UNCHANGED <<categories, tags, asked, settled>>

(* createIncidentCategory adds a category that was not there: the slug is    *)
(* unique, so if it is there by now the insert fails (TagFails).             *)
CreateCategory(t, s) ==
    /\ tagging[t].pc = "create"
    /\ s \in tagging[t].missing
    /\ categories[s] = "absent"
    /\ categories' = [categories EXCEPT ![s] = "active"]
    /\ TagGoes(t, NotTagging)
    /\ UNCHANGED <<tags, asked, settled>>

(* Adds the category, or makes it active again.                              *)
UpsertCategory(t, s) ==
    /\ tagging[t].pc = "upsert"
    /\ s \in tagging[t].missing
    /\ categories' = [categories EXCEPT ![s] = "active"]
    /\ TagGoes(t, After(tagging[t], s))
    /\ UNCHANGED <<tags, asked, settled>>

Writing(t) == tagging[t].pc = "put"

\* Seeded fault: tags are only added.
KeptAll(wanted) == tags

(* deleteMany: what the list does not name goes.                             *)
Kept(wanted) == tags \cap wanted

DeleteOthers(t) ==
    LET wanted == tagging[t].wanted
        alone  == \A u \in Taggers \ {t} : ~Writing(u)
    IN  /\ tagging[t].pc = "delete"
        /\ tags' = Kept(wanted)
        /\ asked' = asked \cup wanted
        /\ settled' = FALSE
        /\ tagging' = [u \in Taggers |->
             IF u = t THEN [tagging[t] EXCEPT !.pc = "put", !.left = wanted, !.alone = alone]
             ELSE IF Writing(u) THEN [tagging[u] EXCEPT !.alone = FALSE]
             ELSE tagging[u]]
        /\ UNCHANGED categories

PutTag(t, s) ==
    /\ Writing(t)
    /\ s \in tagging[t].left
    /\ tags' = tags \cup {s}
    /\ TagGoes(t, [tagging[t] EXCEPT !.left = @ \ {s}])
    /\ UNCHANGED <<categories, asked, settled>>

TagAnswered(t) ==
    /\ Writing(t)
    /\ tagging[t].left = {}
    /\ asked' = IF tagging[t].alone THEN tagging[t].wanted ELSE asked
    /\ settled' = tagging[t].alone
    /\ TagGoes(t, NotTagging)
    /\ UNCHANGED <<categories, tags>>

(* A statement fails, or the host is stopped: what was written stays.        *)
TagFails(t) ==
    /\ tagging[t].pc # "idle"
    /\ TagGoes(t, NotTagging)
    /\ UNCHANGED <<categories, tags, asked, settled>>

(* setIncidentCategoryActive.                                                *)
SetActive(s, active) ==
    /\ categories[s] # "absent"
    /\ categories' = [categories EXCEPT ![s] = IF active THEN "active" ELSE "retired"]
    /\ UNCHANGED <<tags, tagging, asked, settled>>

(* seedStarterCategories, whenever the list is read: counts, then inserts    *)
(* what is not there.                                                        *)
CountCategories(t) ==
    /\ tagging[t].pc = "idle"
    /\ \A s \in Slugs : categories[s] = "absent"
    /\ TagGoes(t, [NotTagging EXCEPT !.pc = "seed"])
    /\ UNCHANGED <<categories, tags, asked, settled>>

\* Seeded fault: the starters are written again.
SeededAgain == [s \in Slugs |-> IF s \in Starters THEN "active" ELSE categories[s]]

Seeded == [s \in Slugs |-> IF s \in Starters /\ categories[s] = "absent"
                           THEN "active" ELSE categories[s]]

Seed(t) ==
    /\ tagging[t].pc = "seed"
    /\ categories' = Seeded
    /\ TagGoes(t, NotTagging)
    /\ UNCHANGED <<tags, asked, settled>>

TagsNext ==
    \/ \E t \in Taggers :
        \/ \E wanted \in SUBSET Slugs, only \in BOOLEAN : AskForTags(t, wanted, only)
        \/ \E s \in Slugs : FindCategory(t, s) \/ CreateCategory(t, s)
                           \/ UpsertCategory(t, s) \/ PutTag(t, s)
        \/ DeleteOthers(t)
        \/ TagAnswered(t)
        \/ TagFails(t)
        \/ CountCategories(t)
        \/ Seed(t)
    \/ \E s \in Slugs, active \in BOOLEAN : SetActive(s, active)

TagsSpec == TagsInit /\ [][TagsNext]_tagVars

-----------------------------------------------------------------------------
(* An incident never has a category nobody asked for since its tags were     *)
(* last settled, whatever fails or overlaps; and once a request that ran     *)
(* alone is answered it has exactly the list that was sent                   *)
(* (modules.service.ts:2587, :2632).                                         *)
TagsAsAsked ==
    /\ tags \subseteq asked
    /\ settled => tags = asked

(* A retired category comes back only because somebody names it again or     *)
(* restores it: the starter list, offered by two readers of an empty table,  *)
(* never brings back what was retired in between (modules.service.ts:2450).  *)
Names(t, s) == tagging[t].pc = "upsert" /\ s \in tagging[t].missing

RetiredStays ==
    [][\A s \in Slugs :
          categories[s] = "retired" /\ categories'[s] = "active" =>
              SetActive(s, TRUE) \/ \E t \in Taggers : Names(t, s)]_tagVars

(* What a request that is adding tags relies on: they are not settled, it    *)
(* adds what was asked for, and if it runs alone the tags are what it has    *)
(* added and what it found of its list.                                      *)
AddsWhatIsAsked(t) ==
    LET own == tagging[t] IN
    Writing(t) =>
        /\ ~settled
        /\ own.wanted \subseteq asked
        /\ own.left \subseteq own.wanted
        /\ own.alone =>
             /\ \A u \in Taggers \ {t} : ~Writing(u)
             /\ tags \subseteq own.wanted
             /\ own.wanted \ own.left \subseteq tags

TagsInv == TagsTypeOK /\ TagsAsAsked /\ \A t \in Taggers : AddsWhatIsAsked(t)
=============================================================================
