----------------------------- MODULE GuessedViews ----------------------------
(***************************************************************************)
(* The pages that guess their columns, inputs or fields from the records   *)
(* they show (list-guesser.tsx, edit-guesser.tsx, show-guesser.tsx).  A    *)
(* page guesses once and keeps what it has guessed until the resource      *)
(* changes.  A list goes on drawing the rows it has when its parameters    *)
(* change, which it must not do when the resource does.                    *)
(*                                                                         *)
(* The query and its last rows are react-query's, the types of fields are  *)
(* inferred by ra-core: a type the page has no element for is a string.    *)
(***************************************************************************)

CONSTANT GuessedResources   \* each with one field, which tells them apart

VARIABLES
    gvKind,     \* the page: list, edit or show
    gvField,    \* the type of each resource's field
    gvShown,    \* the resource of the page
    gvCache,    \* per resource what the query has: nothing, no rows, some
    gvSame,     \* the list was drawn since its resource was another's
    gvLast,     \* the last answer the query has shown
    gvChild,    \* what has been guessed
    gvLagged    \* history: drawn once more before the resource's own rows came

gvVars == <<gvKind, gvField, gvShown, gvCache, gvSame, gvLast, gvChild, gvLagged>>

Guessers == {"list", "edit", "show"}

(* The types of fields each page has an element for, without those that    *)
(* every page has one for; a number goes the way of a date.                *)
ListElements == {"array", "string"}
EditElements == {"boolean", "string"}
ShowElements == {"array", "boolean", "date", "string"}
ElementsOf(kind) == CASE kind = "list" -> ListElements
                      [] kind = "edit" -> EditElements
                      [] kind = "show" -> ShowElements

NoAnswer == [of |-> "none", some |-> FALSE]
NoGuess == [of |-> "none", as |-> "none"]
Guess(resource) ==
    [of |-> resource,
     as |-> IF gvField[resource] \in ElementsOf(gvKind) THEN gvField[resource] ELSE "string"]

GVInit ==
    /\ gvKind \in Guessers
    /\ gvField \in [GuessedResources -> {"array", "boolean", "date", "string"}]
    /\ gvShown \in GuessedResources
    /\ gvCache = [r \in GuessedResources |-> "nothing"]
    /\ gvSame = FALSE /\ gvLast = NoAnswer /\ gvChild = NoGuess /\ gvLagged = FALSE

-----------------------------------------------------------------------------
(* Plausible bug: the last answer whatever the resource was.               *)
GivenToOther(shown, cache, same) ==
    IF cache[shown] # "nothing" THEN [of |-> shown, some |-> cache[shown] = "rows"]
    ELSE IF gvKind = "list" THEN gvLast ELSE NoAnswer

(* What a page is given: what the query has, else, in a list that keeps    *)
(* previous data, the last answer.                                         *)
GivenTo(shown, cache, same) ==
    IF cache[shown] # "nothing" THEN [of |-> shown, some |-> cache[shown] = "rows"]
    ELSE IF gvKind = "list" /\ same THEN gvLast ELSE NoAnswer

(* The page is drawn: it guesses unless it has, given a record.            *)
Draws(shown, cache, same, child) ==
    LET answer == GivenTo(shown, cache, same)
    IN /\ gvShown' = shown /\ gvCache' = cache /\ gvSame' = same
       /\ gvLast' = IF cache[shown] # "nothing" THEN answer ELSE gvLast
       /\ gvChild' = IF child = NoGuess /\ answer.some THEN Guess(answer.of) ELSE child
       /\ UNCHANGED <<gvKind, gvField>>

(* The effect on [resource] takes the guess back. *)
OpenResource(r) ==
    /\ r # gvShown
    /\ Draws(r, gvCache, FALSE, NoGuess)
    /\ gvLagged' = FALSE

(* The location has changed: other parameters are another query, which may *)
(* not have been made yet.                                                 *)
DrawAgain(known) ==
    LET cache == IF known THEN gvCache ELSE [gvCache EXCEPT ![gvShown] = "nothing"]
    IN /\ Draws(gvShown, cache, TRUE, gvChild)
       /\ gvLagged' = (gvLagged \/ (cache[gvShown] = "nothing" /\ gvLast.of # gvShown))

(* An answer, the first or a later one.  A record that is missing is an    *)
(* error, and no answer.                                                   *)
RowsArrive(rows) ==
    /\ gvCache[gvShown] # rows
    /\ rows = "empty" => gvKind = "list"
    /\ Draws(gvShown, [gvCache EXCEPT ![gvShown] = rows], gvSame, gvChild)
    /\ UNCHANGED gvLagged

GVNext ==
    \/ \E r \in GuessedResources : OpenResource(r)
    \/ \E known \in BOOLEAN : DrawAgain(known)
    \/ \E rows \in {"empty", "rows"} : RowsArrive(rows)

GVSpec == GVInit /\ [][GVNext]_gvVars

-----------------------------------------------------------------------------
(* Everything is of its kind.  A page that has rows has guessed, and what  *)
(* it has guessed is of its own resource, except in a list that was drawn  *)
(* once more before the rows of the new resource had come: that one keeps  *)
(* the rows of the resource before as its own previous data and guesses    *)
(* its columns from those, for as long as the resource is shown.           *)
GVTypeOK ==
    /\ gvKind \in Guessers /\ gvShown \in GuessedResources
    /\ gvCache \in [GuessedResources -> {"nothing", "empty", "rows"}]
    /\ {gvSame, gvLagged, gvLast.some} \subseteq BOOLEAN
    /\ gvLast.of \in GuessedResources \union {"none"}
    /\ gvChild = NoGuess \/ (gvChild.of \in GuessedResources /\ gvChild.as \in ElementsOf(gvKind))
    /\ gvCache[gvShown] = "rows" => gvChild # NoGuess
    /\ gvChild # NoGuess => gvChild.of = gvShown \/ (gvKind = "list" /\ gvLagged)

(* The inductive invariant: an answer with rows is some resource's.        *)
GVInv ==
    /\ GVTypeOK
    /\ gvLast \in [of : GuessedResources \union {"none"}, some : BOOLEAN]
    /\ gvLast.some => gvLast.of \in GuessedResources
=============================================================================
