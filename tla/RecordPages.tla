----------------------------- MODULE RecordPages -----------------------------
(***************************************************************************)
(* The pages of one record (create.tsx, edit.tsx, show.tsx) and the form   *)
(* on them (simple-form.tsx, form.tsx): when a page is drawn, when its     *)
(* save button can be pressed, and what becomes of saves and of edits made *)
(* beside them.                                                            *)
(*                                                                         *)
(* External are react-hook-form, whose handleSubmit takes the values at    *)
(* the press and tells isSubmitting, and ra-core, which fetches, saves and *)
(* leaves the page of a save that was accepted.  A save that is under way  *)
(* when the user leaves goes on at the API, and its page is gone.          *)
(***************************************************************************)
EXTENDS Naturals, FiniteSets

CONSTANTS
    Fields,     \* the inputs of the form
    MaxSaves    \* bound on the saves of one page that are under way

ASSUME FieldsAssumption == IsFiniteSet(Fields)
ASSUME MaxSavesAssumption == MaxSaves \in Nat \ {0}

Saves == 1..MaxSaves

VARIABLES
    rpPage,        \* the page; how its form was set up: prefilled by the
                   \* location, a save button that is always enabled, and
                   \* updates that can be undone
    rpRecord,      \* the record of an edit or show page
    rpDirty,       \* fields that differ from the record
    rpErrors,      \* fields with an error
    rpSubmitting,  \* what useFormState tells the save button
    rpSubmitted,   \* the form has been submitted
    rpSaves        \* each save: idle, checked or sent; fields edited since

rpVars == <<rpPage, rpRecord, rpDirty, rpErrors, rpSubmitting, rpSubmitted, rpSaves>>

Pages == [view : {"away", "create", "edit", "show"},
          prefilled : BOOLEAN, always : BOOLEAN, undoable : BOOLEAN]
Away == [view |-> "away", prefilled |-> FALSE, always |-> FALSE, undoable |-> FALSE]
IdleSave == [stage |-> "idle", since |-> {}]
Under == {s \in Saves : rpSaves[s].stage # "idle"}   \* the saves under way

(* A form as it is mounted. *)
FreshForm ==
    /\ rpDirty' = {} /\ rpErrors' = {} /\ rpSubmitting' = FALSE
    /\ rpSubmitted' = FALSE /\ rpSaves' = [s \in Saves |-> IdleSave]

RPInit ==
    /\ rpPage = Away /\ rpRecord = "none" /\ rpDirty = {} /\ rpErrors = {}
    /\ rpSubmitting = FALSE /\ rpSubmitted = FALSE
    /\ rpSaves = [s \in Saves |-> IdleSave]

-----------------------------------------------------------------------------
(* The form of a new record is there at once, an edit or show page only    *)
(* with its record.                                                        *)
CreateDrawn == rpPage.view = "create"
EditDrawn == rpPage.view = "edit" /\ rpRecord = "here"
ShowDrawn == rpPage.view = "show" /\ rpRecord = "here"
FormDrawn == CreateDrawn \/ EditDrawn

(* A record is always fetched for an edit or show page; only an update can *)
(* be undone.                                                              *)
OpenPage(page) ==
    /\ rpPage = Away /\ page.view # "away"
    /\ page.undoable => page.view = "edit"
    /\ rpPage' = page
    /\ rpRecord' = IF page.view = "create" THEN "none" ELSE "loading"
    /\ FreshForm

RecordFetched(answer) ==
    /\ rpRecord = "loading"
    /\ rpRecord' = answer
    /\ UNCHANGED <<rpPage, rpDirty, rpErrors, rpSubmitting, rpSubmitted, rpSaves>>

LeaveForm ==
    /\ rpPage' = Away /\ rpRecord' = "none"
    /\ FreshForm

TurnTo(view) ==
    /\ rpPage' = [Away EXCEPT !.view = view]
    /\ rpRecord' = "loading"
    /\ FreshForm

(* The buttons of a drawn page: edit on the show page, show on the edit    *)
(* page.  Edits are gone without a question, as with the cancel button.    *)
PressShow == EditDrawn /\ TurnTo("show")
PressEdit == ShowDrawn /\ TurnTo("edit")

PressCancel ==
    /\ FormDrawn
    /\ LeaveForm

-----------------------------------------------------------------------------
(* An edit is one of the saves under way too late.  Once the form has been *)
(* submitted, a field is checked again with every edit.                    *)
EditField(f, back) ==
    /\ FormDrawn
    /\ rpDirty' = IF back THEN rpDirty \ {f} ELSE rpDirty \union {f}
    /\ rpErrors' \in IF rpSubmitted THEN {rpErrors \ {f}, rpErrors \union {f}}
                                    ELSE {rpErrors}
    /\ rpSaves' = [s \in Saves |-> IF s \in Under
                                   THEN [rpSaves[s] EXCEPT !.since = @ \union {f}]
                                   ELSE IdleSave]
    /\ UNCHANGED <<rpPage, rpRecord, rpSubmitting, rpSubmitted>>

(* Plausible bug: the button does not wait for a save that is under way.   *)
SaveDisabledUnedited == ~ rpPage.always /\ rpDirty = {} /\ ~ rpPage.prefilled

(* What the save button makes of its properties and the form's state. *)
SaveDisabled ==
    /\ ~ rpPage.always
    /\ \/ rpDirty = {} /\ ~ rpPage.prefilled
       \/ rpSubmitting

(* Clicked, or Enter in a field, which a disabled button stops as well. *)
PressSave(s) ==
    /\ FormDrawn /\ ~ SaveDisabled
    /\ s \notin Under
    /\ rpSaves' = [rpSaves EXCEPT ![s] = [stage |-> "checked", since |-> {}]]
    /\ rpSubmitting' = TRUE
    /\ UNCHANGED <<rpPage, rpRecord, rpDirty, rpErrors, rpSubmitted>>

(* The first of several submits that ends takes isSubmitting back. *)
EndSave(s, errors) ==
    /\ rpErrors' = errors
    /\ rpSubmitting' = FALSE /\ rpSubmitted' = TRUE
    /\ rpSaves' = [rpSaves EXCEPT ![s] = IdleSave]
    /\ UNCHANGED <<rpPage, rpRecord, rpDirty>>

FindInvalid(s, bad) ==
    /\ rpSaves[s].stage = "checked" /\ bad # {}
    /\ EndSave(s, bad)

(* An update that can be undone is taken as done at once. *)
AcceptSave(s) ==
    /\ rpSaves[s].stage = IF rpPage.undoable THEN "checked" ELSE "sent"
    /\ LeaveForm

SendSave(s) ==
    /\ rpSaves[s].stage = "checked" /\ ~ rpPage.undoable
    /\ rpSaves' = [rpSaves EXCEPT ![s].stage = "sent"]
    /\ rpErrors' = {}
    /\ UNCHANGED <<rpPage, rpRecord, rpDirty, rpSubmitting, rpSubmitted>>

(* The API names fields, and setSubmissionErrors marks them; or the save   *)
(* fails without.                                                          *)
RefuseSave(s, named) ==
    /\ rpSaves[s].stage = "sent"
    /\ EndSave(s, rpErrors \union named)

RPNext ==
    \/ \E p \in Pages : OpenPage(p)
    \/ \E answer \in {"here", "failed"} : RecordFetched(answer)
    \/ PressShow \/ PressEdit \/ PressCancel
    \/ \E f \in Fields, back \in BOOLEAN : EditField(f, back)
    \/ \E s \in Saves : PressSave(s) \/ SendSave(s) \/ AcceptSave(s)
    \/ \E s \in Saves, fs \in SUBSET Fields : FindInvalid(s, fs) \/ RefuseSave(s, fs)

RPSpec == RPInit /\ [][RPNext]_rpVars

-----------------------------------------------------------------------------
(* A field is marked, and described by its message, while it has an error. *)
FieldMarked(f) == FormDrawn /\ f \in rpErrors

(* Everything is of its kind.  Unless the save button is always enabled, a *)
(* form has one save under way at the most, the button says so as long as  *)
(* it is, and no form is saved that has neither edits nor a prefilled      *)
(* record, but for edits that were taken back since.  A field is marked    *)
(* only after a submit, and a save under way has its form still drawn.     *)
RPTypeOK ==
    /\ rpPage \in Pages /\ rpRecord \in {"none", "loading", "here", "failed"}
    /\ {rpDirty, rpErrors} \subseteq SUBSET Fields
    /\ {rpSubmitting, rpSubmitted} \subseteq BOOLEAN
    /\ rpSaves \in [Saves -> [stage : {"idle", "checked", "sent"}, since : SUBSET Fields]]
    /\ Under # {} => FormDrawn
    /\ ~ rpPage.always =>
         /\ Cardinality(Under) <= 1
         /\ rpSubmitting <=> Under # {}
         /\ \A s \in Under : rpDirty = {} /\ ~ rpPage.prefilled => rpSaves[s].since # {}
    /\ (\E f \in Fields : FieldMarked(f)) => rpSubmitted

(* The inductive invariant: errors come with a submit.                     *)
RPInv == RPTypeOK /\ (rpErrors # {} => rpSubmitted)
=============================================================================
