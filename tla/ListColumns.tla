----------------------------- MODULE ListColumns -----------------------------
(***************************************************************************)
(* The columns of a table of the console: the user drags them into another *)
(* order and hides them (columns-button.tsx, field-toggle.tsx), the store  *)
(* of the browser keeps both, and the table puts its columns into that     *)
(* order (data-table.tsx).  The store outlives a release of the console,   *)
(* so what it keeps may be of a table with fewer or with more columns.     *)
(*                                                                         *)
(* Columns are numbered from 0 in the order they are written; ranks[i + 1] *)
(* is the column at place i.                                               *)
(***************************************************************************)
EXTENDS Integers, Sequences, SequencesExt

CONSTANT MaxColumns   \* bound on the columns of a table

ASSUME ColumnsAssumption == MaxColumns \in Nat \ {0}

VARIABLES
    lkColumns,   \* the number of columns of the table as released
    lkRanks,     \* the stored order, <<>> if there is none
    lkHidden,    \* the stored set of hidden columns
    lkDrag,      \* the column that is being dragged, -1 if none
    lkDrop       \* per column, the column it was dragged over last, -1 if none

lkVars == <<lkColumns, lkRanks, lkHidden, lkDrag, lkDrop>>

Columns == 0..(lkColumns - 1)
NoColumn == -1

-----------------------------------------------------------------------------
PadRanks(ranks, length) ==
    ranks \o [i \in 1..(IF length < Len(ranks) THEN 0 ELSE length - Len(ranks))
                 |-> Len(ranks) + i - 1]

PlaceOf(ranks, column) == CHOOSE i \in DOMAIN ranks : ranks[i] = column

(* Plausible bug: dragged towards the end, a column stays where it was too.*)
ReorderKept(ranks, i, j) ==
    IF i > j
    THEN SubSeq(ranks, 1, j - 1) \o <<ranks[i]>>
            \o SubSeq(ranks, j, i - 1) \o SubSeq(ranks, i + 1, Len(ranks))
    ELSE SubSeq(ranks, 1, j) \o <<ranks[i]>> \o SubSeq(ranks, j + 1, Len(ranks))

(* The order after `from' is dropped on `onto'.  A drop on nothing counts  *)
(* as one on column 0, for so null reads as a number.                      *)
Reorder(ranks, i, j) ==
    IF i > j
    THEN SubSeq(ranks, 1, j - 1) \o <<ranks[i]>>
            \o SubSeq(ranks, j, i - 1) \o SubSeq(ranks, i + 1, Len(ranks))
    ELSE SubSeq(ranks, 1, i - 1) \o SubSeq(ranks, i + 1, j)
            \o <<ranks[i]>> \o SubSeq(ranks, j + 1, Len(ranks))

Moved(from, target) ==
    LET onto  == IF target = NoColumn THEN 0 ELSE target
        ranks == PadRanks(lkRanks, Max({from, onto}) + 1)
    IN  Reorder(ranks, PlaceOf(ranks, from), PlaceOf(ranks, onto))

(* The places of the table as it is drawn: a ranked column at its rank,    *)
(* any other where it is written; of two at one place the later stays.     *)
PlaceDrawn(column) == IF column \in ToSet(lkRanks) THEN PlaceOf(lkRanks, column) - 1 ELSE column
Drawn == {c \in Columns : \A d \in Columns : PlaceDrawn(d) = PlaceDrawn(c) => d <= c}

(* A column is kept out of header and body by its name. *)
Visible == Drawn \ lkHidden

-----------------------------------------------------------------------------
LKInit == /\ lkColumns = 1
          /\ lkRanks = <<>>
          /\ lkHidden = {}
          /\ lkDrag = NoColumn
          /\ lkDrop = [c \in 0..(MaxColumns - 1) |-> NoColumn]

(* Another release of the console has more or fewer columns.  Loading the  *)
(* page anew forgets the drop targets, not what is stored.                 *)
Release ==
    /\ lkColumns' \in 1..MaxColumns
    /\ lkDrag' = NoColumn
    /\ lkDrop' = [c \in 0..(MaxColumns - 1) |-> NoColumn]
    /\ UNCHANGED <<lkRanks, lkHidden>>

DragStart(c) ==
    /\ lkDrag = NoColumn
    /\ lkDrag' = c
    /\ UNCHANGED <<lkColumns, lkRanks, lkHidden, lkDrop>>

DragOver(d) ==
    /\ lkDrag \notin {NoColumn, d}
    /\ lkDrop' = [lkDrop EXCEPT ![lkDrag] = d]
    /\ UNCHANGED <<lkColumns, lkRanks, lkHidden, lkDrag>>

(* Dropped in the list, on whatever it was dragged over last, now or in an *)
(* earlier drag of the same column.                                        *)
DragEnd ==
    /\ lkDrag # NoColumn
    /\ lkRanks' = Moved(lkDrag, lkDrop[lkDrag])
    /\ lkDrag' = NoColumn
    /\ UNCHANGED <<lkColumns, lkHidden, lkDrop>>

DragAway ==
    /\ lkDrag # NoColumn
    /\ lkDrag' = NoColumn
    /\ UNCHANGED <<lkColumns, lkRanks, lkHidden, lkDrop>>

Toggle(c) ==
    /\ lkHidden' = IF c \in lkHidden THEN lkHidden \ {c} ELSE lkHidden \cup {c}
    /\ UNCHANGED <<lkColumns, lkRanks, lkDrag, lkDrop>>

Reset ==
    /\ lkRanks' = <<>>
    /\ lkHidden' = {}
    /\ UNCHANGED <<lkColumns, lkDrag, lkDrop>>

LKNext == \/ Release
          \/ \E c \in Columns : DragStart(c) \/ DragOver(c) \/ Toggle(c)
          \/ DragEnd \/ DragAway \/ Reset

LKSpec == LKInit /\ [][LKNext]_lkVars

-----------------------------------------------------------------------------
(* Properties *)

(* Order and hidden columns are of their kinds, and no order the store may *)
(* hold, of whatever release of the table, makes two columns fall on one   *)
(* place: every column that is not hidden is drawn.                        *)
LKTypeOK == /\ lkColumns \in 1..MaxColumns
            /\ ToSet(lkRanks) = 0..(Len(lkRanks) - 1)
            /\ lkHidden \subseteq 0..(MaxColumns - 1)
            /\ lkDrag \in Columns \cup {NoColumn}
            /\ Visible = Columns \ lkHidden

(* The inductive invariant: the order that is stored ranks the columns     *)
(* from 0 on without a gap.                                                *)
LKInv == /\ lkColumns \in 1..MaxColumns
         /\ lkRanks \in Seq(Nat) /\ ToSet(lkRanks) = 0..(Len(lkRanks) - 1)
         /\ lkHidden \subseteq 0..(MaxColumns - 1)
         /\ lkDrag \in Columns \cup {NoColumn}
         /\ lkDrop \in [0..(MaxColumns - 1) -> 0..(MaxColumns - 1) \cup {NoColumn}]
=============================================================================
