----------------------------- MODULE ChoiceInputs -----------------------------
(***************************************************************************)
(* The inputs that offer choices: autocomplete-input.tsx,                  *)
(* autocomplete-array-input.tsx, select-input.tsx and                      *)
(* radio-button-group-input.tsx, with useSupportCreateSuggestion.tsx for   *)
(* a choice that is made on the spot.  Choices that come from a reference  *)
(* are searched by the server: the text the user types is one state, the   *)
(* query of the choices context another, which the array input sets only   *)
(* after a pause.                                                          *)
(*                                                                         *)
(* The choices context, useInput and the user's onCreate are external.     *)
(***************************************************************************)
EXTENDS Naturals, Sequences, SequencesExt

CONSTANT Offered   \* the choices there are

Inputs == {"autocomplete", "array", "select", "radio"}
Texts == {"empty", "typed"}
NoText == "none"
Made == "made"               \* the choice onCreate makes
MadeRecord == "record"       \* its whole record
CreateValue == "@@ra-create"

VARIABLES
    chInput,     \* which of the inputs this is
    chFrom,      \* its choices are from a reference
    chRequired,  \* it may not be empty
    chOpen,      \* the choices are shown
    chText,      \* what is typed in the search
    chQuery,     \* the text the choices are searched by
    chPending,   \* a debounced query that is still to be set
    chValue,     \* the values chosen: at most one, but for the array
    chMaking,    \* a new choice is being made: by onCreate, in a form
    chSeen,      \* the values when onCreate was called
    chDrift      \* history: the choices were closed over a text, or a
                 \* debounced query was set after a choice

chVars == <<chInput, chFrom, chRequired, chOpen, chText, chQuery, chPending,
            chValue, chMaking, chSeen, chDrift>>
chKind == <<chInput, chFrom, chRequired>>
chSearch == <<chOpen, chText, chQuery, chPending, chDrift>>
chCreation == <<chMaking, chSeen>>

CHInit ==
    /\ chInput \in Inputs
    /\ chFrom \in BOOLEAN /\ chRequired \in BOOLEAN
    /\ chOpen = FALSE /\ chText = "empty" /\ chQuery = "empty" /\ chPending = NoText
    /\ chValue \in {<<>>} \cup {<<o>> : o \in Offered}
    /\ chMaking = "none" /\ chSeen = <<>> /\ chDrift = FALSE

Searches == chInput \in {"autocomplete", "array"}

-----------------------------------------------------------------------------
(* The search *)

OpenChoices ==
    /\ Searches /\ ~ chOpen
    /\ chOpen' = TRUE
    /\ UNCHANGED <<chKind, chText, chQuery, chPending, chValue, chCreation, chDrift>>

(* handleOpenChange: closing takes the query back, and leaves the text.    *)
ClosePopover ==
    /\ chInput = "autocomplete" /\ chOpen
    /\ chOpen' = FALSE
    /\ chQuery' = "empty"
    /\ chDrift' = (chDrift \/ chText # "empty")
    /\ UNCHANGED <<chKind, chText, chPending, chValue, chCreation>>

LeaveSearch ==
    /\ chInput = "array" /\ chOpen
    /\ chOpen' = FALSE
    /\ UNCHANGED <<chKind, chText, chQuery, chPending, chValue, chCreation, chDrift>>

TypeText(text) ==
    /\ Searches /\ chOpen /\ text # chText
    /\ chText' = text
    /\ IF ~ chFrom THEN UNCHANGED <<chQuery, chPending, chDrift>>
       ELSE IF chInput = "array" THEN chPending' = text /\ UNCHANGED <<chQuery, chDrift>>
       ELSE chQuery' = text /\ chDrift' = FALSE /\ UNCHANGED chPending
    /\ UNCHANGED <<chKind, chOpen, chValue, chCreation>>

DebounceEnds ==
    /\ chPending # NoText
    /\ chQuery' = chPending
    /\ chPending' = NoText
    /\ chDrift' = (chPending # chText)
    /\ UNCHANGED <<chKind, chOpen, chText, chValue, chCreation>>

-----------------------------------------------------------------------------
(* Choosing *)

(* Plausible bug: a choice empties the text alone.                         *)
EmptySearchText ==
    /\ chText' = "empty"
    /\ UNCHANGED <<chQuery, chPending, chDrift>>

(* The text and, of a reference, the query are emptied at once; a query    *)
(* that is still to come is not taken back.                                *)
EmptySearch ==
    /\ chText' = "empty"
    /\ chQuery' = IF chFrom THEN "empty" ELSE chQuery
    /\ chDrift' = FALSE
    /\ UNCHANGED chPending

(* handleChange of the autocomplete, with the values it knows: the choice  *)
(* that is chosen already is given up, if it may be.                       *)
Pick(known, choice) ==
    /\ IF known = <<choice>> /\ ~ chRequired
       THEN chValue' = <<>> /\ EmptySearch
       ELSE chValue' = <<choice>> /\ UNCHANGED <<chText, chQuery, chPending, chDrift>>
    /\ chOpen' = FALSE

PickOne(choice) ==
    /\ chInput = "autocomplete" /\ chOpen
    /\ Pick(chValue, choice)
    /\ UNCHANGED <<chKind, chCreation>>

PickAnother(choice) ==
    /\ chInput = "array" /\ chOpen /\ choice \notin ToSet(chValue)
    /\ chValue' = Append(chValue, choice)
    /\ EmptySearch
    /\ UNCHANGED <<chKind, chOpen, chCreation>>

(* The values without the choice; each is among them once. *)
Unselect(choice) ==
    /\ chInput = "array"
    /\ \E i \in DOMAIN chValue : chValue[i] = choice /\ chValue' = RemoveAt(chValue, i)
    /\ UNCHANGED <<chKind, chSearch, chCreation>>

(* Backspace in an empty search. *)
EraseLast ==
    /\ chInput = "array" /\ chOpen /\ chText = "empty" /\ chValue # <<>>
    /\ chValue' = Front(chValue)
    /\ UNCHANGED <<chKind, chSearch, chCreation>>

SelectOne(choice) ==
    /\ chInput = "select"
    /\ chValue' = <<choice>>
    /\ UNCHANGED <<chKind, chSearch, chCreation>>

ResetSelect ==
    /\ chInput = "select" /\ chValue # <<>>
    /\ chValue' = <<>>
    /\ UNCHANGED <<chKind, chSearch, chCreation>>

RadioPick(choice) ==
    /\ chInput = "radio"
    /\ chValue' = <<choice>>
    /\ UNCHANGED <<chKind, chSearch, chCreation>>

-----------------------------------------------------------------------------
(* Making a choice; one at a time is looked at. *)

MayCreate == chInput = "select" \/ (chInput = "autocomplete" /\ chOpen /\ chText # "empty")

AskCreate(by) ==
    /\ MayCreate /\ chMaking = "none"
    /\ chMaking' = by
    /\ chSeen' = chValue
    /\ UNCHANGED <<chKind, chSearch, chValue>>

EndCreate == chMaking' = "none" /\ chSeen' = <<>> /\ UNCHANGED chKind

(* The handler is that of the drawing in which onCreate was called, but    *)
(* the form's is the last.  A select knows the new choice by no value of   *)
(* its choices, and keeps the record it was given.                         *)
CreatedChoice(choice) ==
    /\ chMaking # "none"
    /\ IF chInput = "select"
       THEN chValue' = <<MadeRecord>> /\ UNCHANGED chSearch
       ELSE Pick(IF chMaking = "onCreate" THEN chSeen ELSE chValue, choice)
    /\ EndCreate

(* onCreate answers nothing: the item that was picked is taken for a       *)
(* choice like the others.                                                 *)
CreatedNothing ==
    /\ chMaking = "onCreate"
    /\ IF chInput = "select"
       THEN chValue' = <<CreateValue>> /\ UNCHANGED chSearch
       ELSE Pick(chSeen, CreateValue)
    /\ EndCreate

(* The form is cancelled, or onCreate fails. *)
CreateEnds ==
    /\ chMaking # "none"
    /\ EndCreate
    /\ UNCHANGED <<chSearch, chValue>>

CHNext ==
    \/ OpenChoices \/ ClosePopover \/ LeaveSearch \/ DebounceEnds
    \/ \E t \in Texts : TypeText(t)
    \/ \E o \in Offered : PickOne(o) \/ PickAnother(o) \/ Unselect(o) \/ SelectOne(o) \/ RadioPick(o)
    \/ EraseLast \/ ResetSelect
    \/ \E by \in {"onCreate", "form"} : AskCreate(by)
    \/ \E o \in Offered \cup {Made} : CreatedChoice(o)
    \/ CreatedNothing \/ CreateEnds

CHSpec == CHInit /\ [][CHNext]_chVars

-----------------------------------------------------------------------------
(* Everything is of its kind; only the array has several values, each once.*)
(* The choices shown are those of the text shown, unless the popover was   *)
(* closed over a text, or a debounced query came after a choice, and       *)
(* nothing was typed since; while such a query is still to come they may   *)
(* lag behind.                                                             *)
CHTypeOK ==
    /\ chInput \in Inputs /\ chText \in Texts /\ chQuery \in Texts
    /\ {chFrom, chRequired, chOpen, chDrift} \subseteq BOOLEAN
    /\ chPending \in Texts \cup {NoText}
    /\ IsInjective(chValue)
    /\ ToSet(chValue) \subseteq Offered \cup
          (CASE chInput = "autocomplete" -> {Made, CreateValue}
             [] chInput = "select" -> {MadeRecord, CreateValue}
             [] OTHER -> {})
    /\ chInput # "array" => Len(chValue) <= 1 /\ chPending = NoText
    /\ chMaking \in {"none", "onCreate", "form"}
    /\ chFrom /\ ~ chDrift /\ chPending = NoText => chQuery = chText

(* The inductive invariant: beside that, the values form a sequence, and   *)
(* only a select or an autocomplete makes a choice.                        *)
CHInv ==
    /\ CHTypeOK
    /\ chValue \in Seq(Offered \cup {Made, MadeRecord, CreateValue})
    /\ chMaking # "none" => chInput \in {"select", "autocomplete"}
=============================================================================
