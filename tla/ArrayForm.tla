------------------------------ MODULE ArrayForm ------------------------------
(***************************************************************************)
(* The list of items in a form (array-input.tsx, simple-form-iterator.tsx, *)
(* with the dialog of confirm.tsx): items are added, moved, removed and    *)
(* cleared.  Each item is drawn in the context of a record, and a rule may *)
(* hide its remove button by that record.  The record is the one the       *)
(* stored list has at the item's place, whichever item is there now.       *)
(***************************************************************************)
EXTENDS Naturals, Sequences, SequencesExt

CONSTANTS
    StoredItems,   \* items of the record the form starts with
    MaxItems       \* bound on the items, those stored included

ASSUME ArrayFormAssumption ==
    StoredItems \in Nat /\ MaxItems \in Nat /\ StoredItems <= MaxItems

VARIABLES
    aiItems,     \* the items of the form
    aiStored,    \* the items of the stored record
    aiRule,      \* disableRemove: "never", "always", or by the "record"
    aiKept,      \* the stored items whose record the rule protects
    aiMade,      \* the items there have been
    aiConfirm    \* the dialog of the clear button is open

aiVars == <<aiItems, aiStored, aiRule, aiKept, aiMade, aiConfirm>>

PlaceIn(items, item) == IF item \in ToSet(items) THEN CHOOSE i \in DOMAIN items : items[i] = item
                        ELSE 0

-----------------------------------------------------------------------------
(* The record in whose context the item at a place is drawn; 0 is the      *)
(* empty record.                                                           *)
RecordAtShifted(place) == IF place + 1 \in DOMAIN aiStored THEN aiStored[place + 1] ELSE 0
RecordAt(place) == IF place \in DOMAIN aiStored THEN aiStored[place] ELSE 0

DisableRemoveField(place) ==
    \/ aiRule = "always"
    \/ aiRule = "record" /\ RecordAt(place) \in aiKept

(* A rule that is a function hides the clear button, whatever it says.     *)
ClearOffered == aiItems # <<>> /\ aiRule = "never"

Swapped(i, j) == [aiItems EXCEPT ![i] = aiItems[j], ![j] = aiItems[i]]

AIInit ==
    /\ aiItems = [i \in 1..StoredItems |-> i]
    /\ aiStored = aiItems
    /\ aiRule \in {"never", "always", "record"}
    /\ aiKept \in IF aiRule = "record" THEN {{i} : i \in 1..StoredItems} ELSE {{}}
    /\ aiMade = StoredItems
    /\ aiConfirm = FALSE

AddItem ==
    /\ ~ aiConfirm /\ aiMade < MaxItems
    /\ aiMade' = aiMade + 1
    /\ aiItems' = Append(aiItems, aiMade')
    /\ UNCHANGED <<aiStored, aiRule, aiKept, aiConfirm>>

RemoveItem(place) ==
    /\ ~ aiConfirm /\ ~ DisableRemoveField(place)
    /\ aiItems' = RemoveAt(aiItems, place)
    /\ UNCHANGED <<aiStored, aiRule, aiKept, aiMade, aiConfirm>>

(* The arrows: up is not offered to the first, nor down to the last.       *)
ReOrder(place, target) ==
    /\ ~ aiConfirm /\ target \in {place - 1, place + 1} \cap DOMAIN aiItems
    /\ aiItems' = Swapped(place, target)
    /\ UNCHANGED <<aiStored, aiRule, aiKept, aiMade, aiConfirm>>

AskClear ==
    /\ ~ aiConfirm /\ ClearOffered
    /\ aiConfirm' = TRUE
    /\ UNCHANGED <<aiItems, aiStored, aiRule, aiKept, aiMade>>

ConfirmClear ==
    /\ aiConfirm
    /\ aiItems' = <<>>
    /\ aiConfirm' = FALSE
    /\ UNCHANGED <<aiStored, aiRule, aiKept, aiMade>>

CloseConfirm ==
    /\ aiConfirm
    /\ aiConfirm' = FALSE
    /\ UNCHANGED <<aiItems, aiStored, aiRule, aiKept, aiMade>>

(* The form is saved, and its record is what it holds.                     *)
SaveItems ==
    /\ ~ aiConfirm
    /\ aiStored' = aiItems
    /\ UNCHANGED <<aiItems, aiRule, aiKept, aiMade, aiConfirm>>

(* The form is reset to its record; with no item left, the clear button    *)
(* and its dialog go.                                                      *)
ResetItems ==
    /\ aiItems' = aiStored
    /\ aiConfirm' = (aiConfirm /\ aiStored # <<>>)
    /\ UNCHANGED <<aiStored, aiRule, aiKept, aiMade>>

AINext ==
    \/ AddItem \/ AskClear \/ ConfirmClear \/ CloseConfirm \/ SaveItems \/ ResetItems
    \/ \E i \in DOMAIN aiItems : RemoveItem(i)
    \/ \E i, j \in DOMAIN aiItems : ReOrder(i, j)

AISpec == AIInit /\ [][AINext]_aiVars

-----------------------------------------------------------------------------
(* The items are distinct; the dialog is open over a list that could be    *)
(* cleared.                                                                *)
AITypeOK ==
    /\ aiMade \in StoredItems..MaxItems
    /\ \A items \in {aiItems, aiStored} : IsInjective(items) /\ ToSet(items) \subseteq 1..aiMade
    /\ aiRule \in {"never", "always", "record"}
    /\ aiKept \subseteq 1..StoredItems
    /\ aiConfirm \in BOOLEAN /\ (aiConfirm => ClearOffered)

(* The inductive invariant: only a rule by the record protects any.        *)
AIInv ==
    /\ AITypeOK
    /\ aiItems \in Seq(1..aiMade) /\ aiStored \in Seq(1..aiMade)
    /\ aiRule # "record" => aiKept = {}

(* An item whose record the rule protects is taken out only from a place   *)
(* other than that of its record: the rule looks at the stored list, so    *)
(* what protects an item in its place does not follow it to another one.   *)
ProtectedInPlace ==
    [][\A item \in (aiKept \cap ToSet(aiItems)) \ ToSet(aiItems') :
          PlaceIn(aiItems, item) # PlaceIn(aiStored, item)]_aiVars
=============================================================================
