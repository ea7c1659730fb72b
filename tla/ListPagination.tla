---------------------------- MODULE ListPagination ----------------------------
(***************************************************************************)
(* The page links under a list (list-pagination.tsx): the first and the    *)
(* last page, the current one with its neighbours, and an ellipsis where   *)
(* pages are left out.  The reader follows links, and the number of pages  *)
(* changes when the list is fetched again.                                 *)
(***************************************************************************)
EXTENDS Integers, Sequences, SequencesExt

CONSTANT MaxPages   \* bound on the pages of a list

ASSUME MaxPagesAssumption == MaxPages \in Nat \ {0}

VARIABLES lpPage,    \* the current page
          lpCount    \* the number of pages

lpVars == <<lpPage, lpCount>>

-----------------------------------------------------------------------------
Ellipsis == 0
BoundaryCount == 1
SiblingCount == 1

Run(start, end) == [i \in 1..(IF end < start THEN 0 ELSE end - start + 1) |-> start + i - 1]

StartPages(count) == Run(1, Min({BoundaryCount, count}))
EndPages(count) == Run(Max({count - BoundaryCount + 1, BoundaryCount + 1}), count)

SiblingsStart(page, count) ==
    Max({Min({page - SiblingCount, count - BoundaryCount - SiblingCount * 2 - 1}),
         BoundaryCount + 2})

SiblingsEnd(page, count) ==
    Min({Max({page + SiblingCount, BoundaryCount + SiblingCount * 2 + 2}),
         count - BoundaryCount - 1})

(* Plausible bug: an ellipsis where a single page is left out.             *)
BeforeOnePage(page, count) ==
    IF SiblingsStart(page, count) >= BoundaryCount + 2 THEN <<Ellipsis>>
    ELSE IF BoundaryCount + 1 < count - BoundaryCount THEN <<BoundaryCount + 1>>
    ELSE <<>>

(* What stands between the first page and the siblings, and after them.    *)
Before(page, count) ==
    IF SiblingsStart(page, count) > BoundaryCount + 2 THEN <<Ellipsis>>
    ELSE IF BoundaryCount + 1 < count - BoundaryCount THEN <<BoundaryCount + 1>>
    ELSE <<>>

After(page, count) ==
    IF SiblingsEnd(page, count) < count - BoundaryCount - 1 THEN <<Ellipsis>>
    ELSE IF count - BoundaryCount > BoundaryCount THEN <<count - BoundaryCount>>
    ELSE <<>>

PageLinks(page, count) ==
    StartPages(count) \o Before(page, count)
        \o Run(SiblingsStart(page, count), SiblingsEnd(page, count))
        \o After(page, count) \o EndPages(count)

-----------------------------------------------------------------------------
LPInit == lpPage = 1 /\ lpCount = 1

FollowLink ==
    /\ \E p \in ToSet(PageLinks(lpPage, lpCount)) \ {Ellipsis, lpPage} : lpPage' = p
    /\ UNCHANGED lpCount

(* The arrows: the page before and the page after. *)
FollowArrow ==
    /\ lpPage' \in {lpPage - 1, lpPage + 1} \cap 1..lpCount
    /\ UNCHANGED lpCount

(* The list is fetched again and is longer by now; or shorter, when        *)
(* ra-core goes to the last page that is left.                             *)
Refetch ==
    /\ lpCount' \in 1..MaxPages \ {lpCount}
    /\ lpPage' = Min({lpPage, lpCount'})

LPNext == FollowLink \/ FollowArrow \/ Refetch

LPSpec == LPInit /\ [][LPNext]_lpVars

-----------------------------------------------------------------------------
(* Properties *)

LinksSound(links) ==
    /\ {1, lpCount, lpPage - 1, lpPage, lpPage + 1} \cap 1..lpCount \subseteq ToSet(links)
    /\ ToSet(links) \subseteq 1..lpCount \cup {Ellipsis}
    /\ \A i, j \in DOMAIN links :
          i < j /\ Ellipsis \notin {links[i], links[j]} => links[i] < links[j]
    /\ \A i \in DOMAIN links : links[i] = Ellipsis =>
          /\ i \in 2..(Len(links) - 1)
          /\ links[i + 1] - links[i - 1] > 2
    /\ \A i \in 1..(Len(links) - 1) :
          Ellipsis \notin {links[i], links[i + 1]} => links[i + 1] = links[i] + 1

(* Wherever the reader is, the links ascend, the first and the last page,  *)
(* the current one and its neighbours are among them, and an ellipsis      *)
(* stands for two pages or more: one page would take no more room.         *)
LPTypeOK ==
    /\ lpCount \in 1..MaxPages /\ lpPage \in 1..lpCount
    /\ LinksSound(PageLinks(lpPage, lpCount))
=============================================================================
