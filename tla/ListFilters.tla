----------------------------- MODULE ListFilters -----------------------------
(***************************************************************************)
(* The filters of a list of the console and the queries its user has saved *)
(* (filter-form.tsx, saved-queries.tsx): what is shown, what is in force,  *)
(* the menu under the filter button and its two dialogs.  Which query is   *)
(* the current one is for the address bar to say, so the browser's back    *)
(* button changes it under an open dialog.  The saved queries are in the   *)
(* browser's localStorage, which all its tabs share: another tab changes   *)
(* them under an open dialog too.                                          *)
(*                                                                         *)
(* There is one input that is always on, the search "q", and one that is   *)
(* shown on demand, "title".  Values are abstracted to "has one"; sort and *)
(* page size, which a saved query keeps too, are left out.                 *)
(***************************************************************************)
EXTENDS Naturals, Sequences, SequencesExt

CONSTANT MaxSaved   \* bound on the saved queries

ASSUME MaxSavedAssumption == MaxSaved \in Nat

VARIABLES
    lfQuery,    \* the current query: the filters in force, the inputs shown
    lfBack,     \* the query the back button leads to
    lfSaved,    \* the saved queries, kept in the browser's store
    lfDialog    \* what is open: nothing, the menu or one of the dialogs

lfVars == <<lfQuery, lfBack, lfSaved, lfDialog>>

-----------------------------------------------------------------------------
AlwaysOn == {"q"}
OnDemand == {"title"}
Sources == AlwaysOn \cup OnDemand

Queries == [filter : SUBSET Sources, displayed : SUBSET OnDemand]
Empty == [filter |-> {}, displayed |-> {}]

(* The inputs the form shows. *)
Shown(q) == AlwaysOn \cup q.displayed \cup (q.filter \cap OnDemand)

(* An entry of the menu is checked, and then hides its input.  An input    *)
(* that is not always there has a button to hide it beside it.             *)
Checked(source) == source \in lfQuery.displayed
HideButton(source) == source \in Shown(lfQuery) \ AlwaysOn

IsSaved(q) == q \in ToSet(lfSaved)

(* The filter button is there unless its menu were empty. *)
ButtonThere == OnDemand # {} \/ lfSaved # <<>> \/ lfQuery.filter # {}

(* Where the saved queries have it first, 0 for nowhere.                   *)
QueryPlace(saved, q) == SelectInSeq(saved, LAMBDA s : s = q)

(* The list of saved queries without the first that is the current one.    *)
(* When none is (index -1) slice(0, -1) drops the last one, and slice(0)   *)
(* adds all of them again.                                                 *)
WithoutIndex(saved, q) ==
    IF \E i \in DOMAIN saved : saved[i] = q
    THEN LET i == QueryPlace(saved, q)
         IN  SubSeq(saved, 1, i - 1) \o SubSeq(saved, i, Len(saved))
    ELSE saved
Without(saved, q) ==
    LET i == QueryPlace(saved, q)
    IN  IF i > 0 THEN SubSeq(saved, 1, i - 1) \o SubSeq(saved, i + 1, Len(saved))
        ELSE IF saved = <<>> THEN <<>>
        ELSE SubSeq(saved, 1, Len(saved) - 1) \o saved

-----------------------------------------------------------------------------
LFInit == /\ lfQuery = Empty
          /\ lfBack = Empty
          /\ lfSaved = <<>>
          /\ lfDialog = "closed"

Navigate(q) == /\ lfQuery' = q
               /\ lfBack' = lfQuery

(* An input that is shown is filled in or emptied. *)
TypeFilter(source) ==
    /\ lfDialog = "closed"
    /\ source \in Shown(lfQuery)
    /\ Navigate([lfQuery EXCEPT !.filter = IF source \in @ THEN @ \ {source} ELSE @ \cup {source}])
    /\ UNCHANGED <<lfSaved, lfDialog>>

(* The back button, with or without a dialog over the list. *)
GoBack ==
    /\ lfBack # lfQuery
    /\ Navigate(lfBack)
    /\ UNCHANGED <<lfSaved, lfDialog>>

OpenMenu ==
    /\ lfDialog = "closed"
    /\ ButtonThere
    /\ lfDialog' = "menu"
    /\ UNCHANGED <<lfQuery, lfBack, lfSaved>>

(* Both items are one entry of the menu, checked when the input is shown;  *)
(* the input of the principals' title starts with a value of its own.      *)
ShowFilter(source) ==
    /\ lfDialog = "menu"
    /\ source \in OnDemand /\ ~ Checked(source)
    /\ Navigate([filter |-> lfQuery.filter \cup {source},
                 displayed |-> lfQuery.displayed \cup {source}])
    /\ lfDialog' = "closed"
    /\ UNCHANGED lfSaved

(* From the menu, or by the button beside the input. *)
Hidden(q, source) == [filter |-> q.filter \ {source}, displayed |-> q.displayed \ {source}]

HideFilter(source) ==
    /\ \/ lfDialog = "menu" /\ Checked(source)
       \/ lfDialog = "closed" /\ HideButton(source)
    /\ Navigate(Hidden(lfQuery, source))
    /\ lfDialog' = "closed"
    /\ UNCHANGED lfSaved

RemoveAllFilters ==
    /\ lfDialog = "menu"
    /\ lfQuery.filter # {}
    /\ Navigate(Empty)
    /\ lfDialog' = "closed"
    /\ UNCHANGED lfSaved

ApplySaved(q) ==
    /\ lfDialog = "menu"
    /\ IsSaved(q) /\ q # lfQuery
    /\ Navigate(q)
    /\ lfDialog' = "closed"
    /\ UNCHANGED lfSaved

OpenDialog ==
    /\ lfDialog = "menu"
    /\ \/ IsSaved(lfQuery) /\ lfDialog' = "remove"
       \/ lfQuery.filter # {} /\ ~ IsSaved(lfQuery) /\ lfDialog' = "add"
    /\ UNCHANGED <<lfQuery, lfBack, lfSaved>>

CloseDialog ==
    /\ lfDialog # "closed"
    /\ lfDialog' = "closed"
    /\ UNCHANGED <<lfQuery, lfBack, lfSaved>>

(* What is saved is the query that is current by now.  An entry without a  *)
(* name is dropped with the next change of the list: names are left out.   *)
AddQuery ==
    /\ lfDialog = "add"
    /\ Len(lfSaved) < MaxSaved
    /\ lfSaved' = Append(lfSaved, lfQuery)
    /\ lfDialog' = "closed"
    /\ UNCHANGED <<lfQuery, lfBack>>

RemoveQuery ==
    /\ lfDialog = "remove"
    /\ Len(Without(lfSaved, lfQuery)) <= MaxSaved
    /\ lfSaved' = Without(lfSaved, lfQuery)
    /\ lfDialog' = "closed"
    /\ UNCHANGED <<lfQuery, lfBack>>

(* Another tab saves a query or removes one, with a dialog of its own.     *)
ListsItsInputs(q) == q.filter \cap OnDemand \subseteq q.displayed

OtherTabChanges(q) ==
    /\ ListsItsInputs(q)
    /\ lfSaved' \in {Append(lfSaved, q), Without(lfSaved, q)}
    /\ Len(lfSaved') <= MaxSaved
    /\ UNCHANGED <<lfQuery, lfBack, lfDialog>>

LFNext == \/ \E source \in Sources : TypeFilter(source) \/ ShowFilter(source) \/ HideFilter(source)
          \/ GoBack \/ OpenMenu \/ RemoveAllFilters \/ OpenDialog \/ CloseDialog
          \/ \E q \in ToSet(lfSaved) : ApplySaved(q)
          \/ AddQuery \/ RemoveQuery
          \/ \E q \in Queries : OtherTabChanges(q)

LFSpec == LFInit /\ [][LFNext]_lfVars

-----------------------------------------------------------------------------
(* Properties *)

(* Queries and dialog are of their kinds.  The menu marks an entry as      *)
(* shown by the query's list of inputs (filter-form.tsx:349), the form     *)
(* shows an input for a value in force too (filter-form.tsx:89): the two   *)
(* agree, wherever the query came from.                                    *)
LFTypeOK == /\ {lfQuery, lfBack} \subseteq Queries
            /\ lfSaved \in BoundedSeq(Queries, MaxSaved)
            /\ lfDialog \in {"closed", "menu", "add", "remove"}
            /\ Shown(lfQuery) \ AlwaysOn = lfQuery.displayed

(* Confirming the removal of a saved query loses no other one and brings   *)
(* none back, whatever the back button and other tabs did under the open   *)
(* dialog.  If the current query is saved still, one entry of it goes and  *)
(* the rest stays as it is; if it is not, entries may have been doubled    *)
(* (saved-queries.tsx:133-139), but the list is of the same queries.       *)
RemovalSparesOthers ==
    [][RemoveQuery =>
          /\ ToSet(lfSaved') \subseteq ToSet(lfSaved)
          /\ ToSet(lfSaved) \ {lfQuery} \subseteq ToSet(lfSaved')
          /\ IsSaved(lfQuery) => \E i \in DOMAIN lfSaved :
                lfSaved[i] = lfQuery /\ lfSaved' = RemoveAt(lfSaved, i)]_lfVars

-----------------------------------------------------------------------------
(* The inductive invariant: every query there is lists the inputs whose    *)
(* values are in force.                                                    *)
LFInv == /\ LFTypeOK
         /\ \A q \in {lfQuery, lfBack} \cup ToSet(lfSaved) : ListsItsInputs(q)
=============================================================================
