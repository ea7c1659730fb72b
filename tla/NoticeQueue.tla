----------------------------- MODULE NoticeQueue -----------------------------
(***************************************************************************)
(* Deletions that can be undone, and the notices they are undone from      *)
(* (delete-button.tsx, bulk-delete-button.tsx, the selection of            *)
(* data-table.tsx and bulk-actions-toolbar.tsx, notification.tsx).  A      *)
(* deletion takes its rows off the screen and waits in a queue; its notice *)
(* is raised a moment later and waits in another; for every notice that is *)
(* shown, one waiting deletion is taken, and the toast carries it out when *)
(* it goes or gives it up when the user says so.                           *)
(*                                                                         *)
(* The two queues, the selection and the delete controllers are those of   *)
(* ra-core, the toasts those of sonner: external.  A plain notice is one   *)
(* that nothing can be undone from: an export that failed, a copied text.  *)
(***************************************************************************)
EXTENDS Naturals, Sequences, SequencesExt

CONSTANTS
    TableRows,     \* the rows of the page shown
    MaxNotices,    \* bound on the plain notices
    MaxDeletions   \* bound on the deletions

ASSUME NoticesAssumption == MaxNotices \in Nat /\ MaxDeletions \in Nat

VARIABLES
    nqShown,      \* the rows on the screen
    nqSelected,   \* the rows selected; their order does not matter
    nqMutations,  \* the deletions that wait, each the set of its rows
    nqRaising,    \* the deletions whose notice is still to be raised
    nqNotices,    \* the notices that wait, {} for a plain one
    nqToasts,     \* the toasts on the screen
    nqPlain,      \* plain notices raised
    nqMade,       \* deletions made
    nqDone,       \* rows whose deletion was sent
    nqMixed       \* history: a plain notice was shown between a deletion and
                  \* its own notice

nqVars == <<nqShown, nqSelected, nqMutations, nqRaising, nqNotices, nqToasts,
            nqPlain, nqMade, nqDone, nqMixed>>

NQInit ==
    /\ nqShown = TableRows /\ nqSelected = {}
    /\ nqMutations = <<>> /\ nqRaising = <<>> /\ nqNotices = <<>>
    /\ nqToasts = {} /\ nqPlain = 0 /\ nqMade = 0 /\ nqDone = {} /\ nqMixed = FALSE

-----------------------------------------------------------------------------
(* The selection *)

(* handleToggleItem: in or out. *)
ToggleRow(row) ==
    /\ row \in nqShown
    /\ nqSelected' = IF row \in nqSelected THEN nqSelected \ {row} ELSE nqSelected \cup {row}
    /\ UNCHANGED <<nqShown, nqMutations, nqRaising, nqNotices, nqToasts, nqPlain, nqMade, nqDone, nqMixed>>

(* The box in the heading is checked when every row shown is selected.     *)
AllSelected == nqSelected # {} /\ nqShown # {} /\ nqShown \subseteq nqSelected

ToggleAll ==
    /\ nqSelected' = IF AllSelected THEN {} ELSE nqSelected \cup nqShown
    /\ UNCHANGED <<nqShown, nqMutations, nqRaising, nqNotices, nqToasts, nqPlain, nqMade, nqDone, nqMixed>>

(* The toolbar, which is there while something is selected. *)
UnselectAll ==
    /\ nqSelected # {}
    /\ nqSelected' = {}
    /\ UNCHANGED <<nqShown, nqMutations, nqRaising, nqNotices, nqToasts, nqPlain, nqMade, nqDone, nqMixed>>

-----------------------------------------------------------------------------
(* Deletions *)

Deletion(rows) ==
    /\ nqMade < MaxDeletions
    /\ nqMade' = nqMade + 1
    /\ nqShown' = nqShown \ rows
    /\ nqMutations' = Append(nqMutations, rows)
    /\ nqRaising' = Append(nqRaising, rows)
    /\ UNCHANGED <<nqSelected, nqNotices, nqToasts, nqPlain, nqDone, nqMixed>>

(* DeleteButton: one record that is on the screen.                         *)
DeleteOne(row) == row \in nqShown /\ Deletion({row})

(* BulkDeleteButton: all that is selected.                                 *)
DeleteSelected == nqSelected # {} /\ Deletion(nqSelected)

(* A moment later: the rows leave the selection, the notice is raised.     *)
RaiseUndoable ==
    /\ nqRaising # <<>>
    /\ nqRaising' = Tail(nqRaising)
    /\ nqNotices' = Append(nqNotices, Head(nqRaising))
    /\ nqSelected' = nqSelected \ Head(nqRaising)
    /\ UNCHANGED <<nqShown, nqMutations, nqToasts, nqPlain, nqMade, nqDone, nqMixed>>

RaisePlain ==
    /\ nqPlain < MaxNotices
    /\ nqPlain' = nqPlain + 1
    /\ nqNotices' = Append(nqNotices, {})
    /\ UNCHANGED <<nqShown, nqSelected, nqMutations, nqRaising, nqToasts, nqMade, nqDone, nqMixed>>

-----------------------------------------------------------------------------
(* The effect of Notification *)

(* The deletion a notice takes along: the first that waits, whatever the   *)
(* notice is.                                                              *)
NextDeletionLast == IF nqMutations = <<>> THEN {} ELSE Last(nqMutations)
NextDeletion == IF nqMutations = <<>> THEN {} ELSE Head(nqMutations)

ShowNotice ==
    /\ nqNotices # <<>>
    /\ LET notice == Head(nqNotices)
       IN  /\ nqToasts' = IF notice = {} THEN nqToasts
                          ELSE nqToasts \cup {[tells |-> notice, holds |-> NextDeletion]}
           /\ nqMixed' = (nqMixed \/ (notice = {} /\ nqMutations # <<>>))
    /\ nqNotices' = Tail(nqNotices)
    /\ nqMutations' = IF nqMutations = <<>> THEN <<>> ELSE Tail(nqMutations)
    /\ UNCHANGED <<nqShown, nqSelected, nqRaising, nqPlain, nqMade, nqDone>>

(* handleExited: the toast is dismissed or has had its time. *)
ToastGoes(toast) ==
    /\ nqToasts' = nqToasts \ {toast}
    /\ nqDone' = nqDone \cup toast.holds
    /\ nqShown' = nqShown \ toast.holds
    /\ UNCHANGED <<nqSelected, nqMutations, nqRaising, nqNotices, nqPlain, nqMade, nqMixed>>

(* handleUndo: the rows are fetched again.  A toast that holds nothing     *)
(* undoes nothing.                                                         *)
Undo(toast) ==
    /\ nqToasts' = nqToasts \ {toast}
    /\ nqShown' = nqShown \cup (toast.holds \ nqDone)
    /\ UNCHANGED <<nqSelected, nqMutations, nqRaising, nqNotices, nqPlain, nqMade, nqDone, nqMixed>>

(* The list is fetched again: what the server still has is back.           *)
RefetchRows ==
    /\ nqShown' = TableRows \ nqDone
    /\ UNCHANGED <<nqSelected, nqMutations, nqRaising, nqNotices, nqToasts, nqPlain, nqMade, nqDone, nqMixed>>

NQNext ==
    \/ \E r \in TableRows : ToggleRow(r) \/ DeleteOne(r)
    \/ ToggleAll \/ UnselectAll \/ DeleteSelected
    \/ RaiseUndoable \/ RaisePlain \/ ShowNotice \/ RefetchRows
    \/ \E t \in nqToasts : ToastGoes(t) \/ Undo(t)

NQSpec == NQInit /\ [][NQNext]_nqVars

-----------------------------------------------------------------------------
(* Rows, queues and toasts are well formed; a row is not sent for deletion *)
(* while it is on the screen.                                              *)
NQTypeOK ==
    /\ nqShown \subseteq TableRows /\ nqDone \subseteq TableRows \ nqShown
    /\ nqSelected \subseteq TableRows
    /\ \A queue \in {nqMutations, nqRaising, nqNotices} : ToSet(queue) \subseteq SUBSET TableRows
    /\ \A t \in nqToasts : t.tells \in SUBSET TableRows /\ t.holds \in SUBSET TableRows
    /\ nqPlain \in 0..MaxNotices /\ nqMade \in 0..MaxDeletions
    /\ nqMixed \in BOOLEAN

(* A toast undoes, or carries out, the deletion it tells of, unless a      *)
(* plain notice was shown while a deletion was waiting for its own: that   *)
(* one takes the deletion along and drops it, and every toast from then on *)
(* may hold another's or none.                                             *)
ToastHoldsItsOwn == \A t \in nqToasts : nqMixed \/ t.holds = t.tells
-----------------------------------------------------------------------------
(* The inductive invariant                                                 *)

(* The two queues agree: a notice is that of the deletion it will take, or *)
(* a plain one behind the last of them; the deletions without a notice are *)
(* those whose notice is still to be raised.                               *)
QueuesAgree ==
    /\ Len(nqRaising) = IF Len(nqMutations) > Len(nqNotices)
                        THEN Len(nqMutations) - Len(nqNotices) ELSE 0
    /\ \A i \in 1..Len(nqNotices) :
           nqNotices[i] = IF i <= Len(nqMutations) THEN nqMutations[i] ELSE {}
    /\ \A i \in 1..Len(nqRaising) : nqRaising[i] = nqMutations[Len(nqNotices) + i]

(* A plain notice will take a deletion along, and those before it are the  *)
(* notices of theirs.                                                      *)
PlainTakesOne ==
    \E k \in 1..Len(nqNotices) :
        /\ k <= Len(nqMutations) /\ nqNotices[k] = {}
        /\ \A i \in 1..(k - 1) : nqNotices[i] = nqMutations[i]

NQInv == /\ NQTypeOK
         /\ \A queue \in {nqMutations, nqRaising, nqNotices} : queue \in Seq(SUBSET TableRows)
         /\ \A i \in 1..Len(nqMutations) : nqMutations[i] # {}
         /\ nqMixed \/ QueuesAgree \/ PlainTakesOne
         /\ ToastHoldsItsOwn
=============================================================================
