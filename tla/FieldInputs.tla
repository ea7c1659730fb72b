----------------------------- MODULE FieldInputs -----------------------------
(***************************************************************************)
(* The typed inputs of the console's forms: date-input.tsx,                *)
(* date-time-input.tsx, number-input.tsx and boolean-input.tsx.  Each has  *)
(* two values, the text the browser shows and the value of the form, and   *)
(* keeps them in step with its own handlers: a date may be left half typed *)
(* and taken up again, a number may be empty while the user is in the      *)
(* field, and the form may be set from outside at any time.                *)
(*                                                                         *)
(* "half" is a date that is not complete, for which the browser gives the  *)
(* empty string.  useInput of ra-core is external: it applies format to    *)
(* the value of the form and parse to what the input hands over, and makes *)
(* null of the empty string where no parse is given.                       *)
(***************************************************************************)
EXTENDS Naturals

CONSTANT Entries   \* the dates, or numbers, that are typed

ASSUME EntriesAssumption == Entries \cap {"empty", "half", "null", "zero", "on"} = {}

Kinds == {"date", "datetime", "number", "boolean"}
IsDate(kind) == kind \in {"date", "datetime"}

VARIABLES
    fiKind,    \* which of the inputs this is
    fiShown,   \* what the browser shows
    fiValue,   \* the value of the form: "null", "zero", "on" or an entry
    fiOwn,     \* wasLastChangedByInput
    fiFocus,   \* the user is in the field
    fiWhy      \* history: why the two differ, once the input has had a
               \* chance to make them agree

fiVars == <<fiKind, fiShown, fiValue, fiOwn, fiFocus, fiWhy>>

ValuesOf(kind) == IF kind = "boolean" THEN {"null", "on"}
                  ELSE Entries \cup (IF kind = "number" THEN {"null", "zero"} ELSE {"null"})

-----------------------------------------------------------------------------
(* What the element says its value is. *)
Element(shown) == IF shown = "half" THEN "empty" ELSE shown

(* The text a value of the form is formatted to. *)
Format(value) == IF value = "null" THEN "empty" ELSE value

(* The element and the form agree. *)
Agree(shown, value) == Element(shown) = Format(value)

(* What the input hands over becomes in the form: an emptied number is 0.  *)
Parsed(kind, text) ==
    IF text # "empty" THEN text ELSE IF kind = "number" THEN "zero" ELSE "null"

(* convertDateStringToISO throws for the empty string.                     *)
ParseFails(kind, text) == kind = "datetime" /\ text = "empty"

(* On leaving a date the element's value is submitted when it differs.     *)
BlurSubmitsTyped(text) == text # "empty" /\ text # Format(fiValue)
BlurSubmits(text) == text # Format(fiValue)

(* What is shown after the effect that follows a new value of the form: a  *)
(* date is remounted unless the change is taken for the input's own; a     *)
(* number follows while the user is elsewhere.                             *)
ShownAfter(shown, value, own) ==
    IF IsDate(fiKind) THEN IF own \/ Agree(shown, value) THEN shown ELSE Format(value)
    ELSE IF fiKind = "number" /\ fiFocus THEN shown ELSE Format(value)

(* The reason is kept as long as they differ. *)
Excuse(shown, value, reason) ==
    IF Agree(shown, value) THEN "none" ELSE IF reason = "none" THEN fiWhy ELSE reason

-----------------------------------------------------------------------------
FIInit ==
    /\ fiKind \in Kinds
    /\ fiValue \in ValuesOf(fiKind)
    /\ fiShown = Format(fiValue)
    /\ fiOwn = FALSE /\ fiFocus = FALSE /\ fiWhy = "none"

EnterField ==
    /\ ~ fiFocus
    /\ fiFocus' = TRUE
    /\ UNCHANGED <<fiKind, fiShown, fiValue, fiOwn, fiWhy>>

(* A complete date goes to the form at once and marks the change as the    *)
(* input's own; the effect takes the mark away if the value is a new one.  *)
TypeDate(text) ==
    /\ IsDate(fiKind) /\ fiFocus
    /\ fiShown' = text
    /\ IF text \in Entries
       THEN fiValue' = text /\ fiOwn' = (text = fiValue)
       ELSE UNCHANGED <<fiValue, fiOwn>>
    /\ fiWhy' = Excuse(fiShown', fiValue', "none")
    /\ UNCHANGED <<fiKind, fiFocus>>

TypeNumber(text) ==
    /\ fiKind = "number" /\ fiFocus
    /\ fiShown' = text
    /\ fiValue' = Parsed(fiKind, text)
    /\ fiWhy' = Excuse(fiShown', fiValue', "none")
    /\ UNCHANGED <<fiKind, fiOwn, fiFocus>>

Switch ==
    /\ fiKind = "boolean"
    /\ fiValue' = IF fiValue = "on" THEN "null" ELSE "on"
    /\ fiShown' = Format(fiValue')
    /\ UNCHANGED <<fiKind, fiOwn, fiFocus, fiWhy>>

LeaveDate ==
    /\ IsDate(fiKind) /\ fiFocus
    /\ fiFocus' = FALSE
    /\ LET text == Element(fiShown)
           fails == BlurSubmits(text) /\ ParseFails(fiKind, text)
       IN  /\ fiValue' = IF BlurSubmits(text) /\ ~ fails
                         THEN Parsed(fiKind, text) ELSE fiValue
           /\ fiOwn' = (fiOwn /\ fiValue' = fiValue)
           /\ fiWhy' = Excuse(fiShown, fiValue', IF fails THEN "refused" ELSE "none")
    /\ UNCHANGED <<fiKind, fiShown>>

LeaveNumber ==
    /\ fiKind = "number" /\ fiFocus
    /\ fiFocus' = FALSE
    /\ fiShown' = Format(fiValue)
    /\ fiWhy' = "none"
    /\ UNCHANGED <<fiKind, fiValue, fiOwn>>

(* reset or setValue of the form, or another record.                       *)
SetOutside(value) ==
    /\ value \in ValuesOf(fiKind) \ {fiValue}
    /\ fiValue' = value
    /\ fiShown' = ShownAfter(fiShown, value, fiOwn)
    /\ fiOwn' = FALSE
    /\ fiWhy' = Excuse(fiShown', value, IF fiOwn THEN "missed" ELSE "none")
    /\ UNCHANGED <<fiKind, fiFocus>>

FINext ==
    \/ EnterField \/ LeaveDate \/ LeaveNumber \/ Switch
    \/ \E t \in Entries \cup {"empty", "half"} : TypeDate(t)
    \/ \E t \in Entries \cup {"empty", "zero"} : TypeNumber(t)
    \/ \E v \in Entries \cup {"null", "zero", "on"} : SetOutside(v)

FISpec == FIInit /\ [][FINext]_fiVars

-----------------------------------------------------------------------------
(* Text and value are of the input's kind; only a date has the mark, and   *)
(* only a date is half typed.                                              *)
FITypeOK ==
    /\ fiKind \in Kinds
    /\ fiValue \in ValuesOf(fiKind)
    /\ fiShown \in Entries \cup {"empty", "zero", "on"} \cup (IF IsDate(fiKind) THEN {"half"} ELSE {})
    /\ fiOwn \in BOOLEAN /\ (fiOwn => IsDate(fiKind))
    /\ fiFocus \in BOOLEAN
    /\ fiWhy \in {"none", "missed", "refused"}

(* Once the user has left a field, it shows what the form will submit,     *)
(* save in two cases: a date typed anew with the value it already had      *)
(* leaves the mark set, and the next change from outside is missed; and a  *)
(* date and time that is emptied cannot be parsed, so the form keeps it.   *)
FieldTellsValue ==
    ~ fiFocus /\ ~ Agree(fiShown, fiValue) => fiWhy # "none"

-----------------------------------------------------------------------------
(* The inductive invariant: zero and on are shown by their inputs only, so *)
(* that leaving a date submits none of them.                               *)
ShownOfKind ==
    /\ fiShown = "zero" => fiKind = "number"
    /\ fiShown = "on" => fiKind = "boolean"

FIInv == FITypeOK /\ ShownOfKind /\ FieldTellsValue
=============================================================================
