----------------------------- MODULE PagePortals -----------------------------
(***************************************************************************)
(* What the pages of the console draw into an element they look up by its  *)
(* id: the breadcrumb into the header (breadcrumb.tsx), and the menu of    *)
(* columns into the popover of its button (columns-button.tsx).  The       *)
(* element may not be there yet, and the two have different ways to find   *)
(* it later.  The breadcrumb looks whenever it is drawn, and is drawn once *)
(* more because useIsMobile knows the width only after its effect has run. *)
(* The menu looks every 100 ms for half a second from when it is mounted   *)
(* and then no more.                                                       *)
(*                                                                         *)
(* Document, timers and the popover are external: an element is in the     *)
(* document when the component that holds it has been mounted.             *)
(***************************************************************************)
EXTENDS Naturals

CONSTANT MaxButtons   \* bound on how often the columns button is mounted

ASSUME MaxButtonsAssumption == MaxButtons \in Nat

NoElement == 0
Screens == {"unknown", "wide", "narrow"}

VARIABLES
    ppHeader,   \* the header is in the document
    ppCrumb,    \* the breadcrumb: not mounted, drawn without or with its place
    ppScreen,   \* the width useIsMobile has told it
    ppItems,    \* the items of the breadcrumb
    ppDrawer,   \* the drawer over a narrow page is set to open
    ppButton,   \* the element of the button that is mounted
    ppButtons,  \* buttons mounted so far
    ppMenu,     \* the menu: not mounted, looking, or at rest
    ppFound,    \* the element the menu has found
    ppMany,     \* there are more than five columns
    ppFilter,   \* a text is in the columns' search field
    ppLate,     \* history: the button came after the menu had stopped looking
    ppFewer     \* history: columns went while a text was in the field

ppCrumbVars == <<ppHeader, ppCrumb, ppScreen, ppItems, ppDrawer>>
ppMenuVars == <<ppButton, ppButtons, ppMenu, ppFound, ppMany, ppFilter, ppLate, ppFewer>>
ppVars == <<ppCrumbVars, ppMenuVars>>

PPInit ==
    /\ ppHeader = FALSE /\ ppCrumb = "absent" /\ ppScreen = "unknown"
    /\ ppItems = 1 /\ ppDrawer = FALSE
    /\ ppButton = NoElement /\ ppButtons = 0 /\ ppMenu = "absent" /\ ppFound = NoElement
    /\ ppMany = TRUE /\ ppFilter = FALSE /\ ppLate = FALSE /\ ppFewer = FALSE

-----------------------------------------------------------------------------
(* Plausible bug: the header is looked for when mounting alone.            *)
CrumbDrawnAtMount == IF ppHeader /\ ppCrumb = "absent" THEN "drawn" ELSE "blind"

(* A drawing finds the header only if an earlier one has put it there.     *)
CrumbDrawn == IF ppHeader THEN "drawn" ELSE "blind"

(* On a narrow page more than two items are folded into a drawer. *)
Folded == ppCrumb = "drawn" /\ ppScreen = "narrow" /\ ppItems > 2

(* The first page is mounted along with the layout.                        *)
MountCrumb(items) ==
    /\ ppCrumb = "absent"
    /\ ppCrumb' = CrumbDrawn
    /\ ppHeader' = TRUE
    /\ ppItems' = items /\ ppScreen' = "unknown" /\ ppDrawer' = FALSE
    /\ UNCHANGED ppMenuVars

(* The effect of useIsMobile, then every change of the width: each draws   *)
(* the breadcrumb again.                                                   *)
CrumbTold(screen) ==
    /\ ppCrumb # "absent" /\ screen # ppScreen
    /\ ppScreen' = screen
    /\ ppCrumb' = CrumbDrawn
    /\ UNCHANGED <<ppHeader, ppItems, ppDrawer, ppMenuVars>>

SetDrawer(open) ==
    /\ Folded
    /\ ppDrawer' = open
    /\ UNCHANGED <<ppHeader, ppCrumb, ppScreen, ppItems, ppMenuVars>>

LeavePage ==
    /\ ppCrumb # "absent"
    /\ ppCrumb' = "absent"
    /\ UNCHANGED <<ppHeader, ppScreen, ppItems, ppDrawer, ppMenuVars>>

-----------------------------------------------------------------------------
(* The popover of the button is kept in the document while it is closed.   *)
MountButton ==
    /\ ppButton = NoElement /\ ppButtons < MaxButtons
    /\ ppButtons' = ppButtons + 1
    /\ ppButton' = ppButtons'
    /\ ppLate' = (ppLate \/ ppMenu = "rests")
    /\ UNCHANGED <<ppCrumbVars, ppMenu, ppFound, ppMany, ppFilter, ppFewer>>

UnmountButton ==
    /\ ppButton # NoElement
    /\ ppButton' = NoElement
    /\ UNCHANGED <<ppCrumbVars, ppButtons, ppMenu, ppFound, ppMany, ppFilter, ppLate, ppFewer>>

(* What the menu does once it has looked: with the element it rests.       *)
MenuAfter(element) == IF element # NoElement THEN "rests" ELSE "looks"

MountMenu ==
    /\ ppMenu = "absent"
    /\ ppFound' = ppButton
    /\ ppMenu' = MenuAfter(ppButton)
    /\ ppFilter' = FALSE /\ ppLate' = FALSE /\ ppFewer' = FALSE
    /\ UNCHANGED <<ppCrumbVars, ppButton, ppButtons, ppMany>>

(* The interval's look-up.                                                 *)
LookForButton ==
    /\ ppMenu = "looks" /\ ppButton # NoElement
    /\ ppFound' = ppButton
    /\ ppMenu' = MenuAfter(ppButton)
    /\ UNCHANGED <<ppCrumbVars, ppButton, ppButtons, ppMany, ppFilter, ppLate, ppFewer>>

(* Half a second is over.  At the moment of the last look-up the button    *)
(* may have just come.                                                     *)
StopLooking ==
    /\ ppMenu = "looks"
    /\ ppMenu' = "rests"
    /\ ppLate' = (ppLate \/ ppButton # NoElement)
    /\ UNCHANGED <<ppCrumbVars, ppButton, ppButtons, ppFound, ppMany, ppFilter, ppFewer>>

UnmountMenu ==
    /\ ppMenu # "absent"
    /\ ppMenu' = "absent" /\ ppFound' = NoElement
    /\ UNCHANGED <<ppCrumbVars, ppButton, ppButtons, ppMany, ppFilter, ppLate, ppFewer>>

(* The menu is in an element the user can open. *)
MenuInReach == ppMenu # "absent" /\ ppButton # NoElement /\ ppFound = ppButton

(* More than five columns have a field to search them by.                  *)
SearchColumns(some) ==
    /\ MenuInReach /\ ppMany /\ ppFilter # some
    /\ ppFilter' = some
    /\ UNCHANGED <<ppCrumbVars, ppButton, ppButtons, ppMenu, ppFound, ppMany, ppLate, ppFewer>>

(* The columns of the table change: the search field may come or go, the   *)
(* text stays.                                                             *)
ChangeColumns ==
    /\ ppMany' = ~ ppMany
    /\ ppFewer' = (ppFilter /\ (ppMany \/ ppFewer))
    /\ UNCHANGED <<ppCrumbVars, ppButton, ppButtons, ppMenu, ppFound, ppFilter, ppLate>>

PPNext ==
    \/ \E n \in 1..3 : MountCrumb(n)
    \/ \E s \in Screens \ {"unknown"} : CrumbTold(s)
    \/ \E open \in BOOLEAN : SetDrawer(open)
    \/ LeavePage
    \/ MountButton \/ UnmountButton \/ MountMenu \/ UnmountMenu
    \/ LookForButton \/ StopLooking \/ ChangeColumns
    \/ \E some \in BOOLEAN : SearchColumns(some)

PPSpec == PPInit /\ [][PPNext]_ppVars

-----------------------------------------------------------------------------
(* Everything is of its kind.  Once the width has been told, a breadcrumb  *)
(* that is mounted is drawn in the header, even on the first page.  A menu *)
(* that has stopped looking is in the popover of the button there is, if   *)
(* there is one, unless that button came, or came again, too late: nothing *)
(* makes the menu look once more.  Columns are searched for by a text that *)
(* the user sees, unless columns went while it was there.                  *)
PPTypeOK ==
    /\ ppScreen \in Screens /\ ppItems \in 1..3
    /\ {ppHeader, ppDrawer, ppMany, ppFilter, ppLate, ppFewer} \subseteq BOOLEAN
    /\ ppCrumb \in {"absent", "blind", "drawn"}
    /\ ppScreen # "unknown" => ppCrumb # "blind"
    /\ ppButtons \in 0..MaxButtons /\ {ppButton, ppFound} \subseteq 0..ppButtons
    /\ ppMenu \in {"absent", "looks", "rests"}
    /\ ppMenu = "rests" /\ ppButton # NoElement /\ ~ ppLate => MenuInReach
    /\ ppFilter /\ ~ ppMany => ppFewer

(* The inductive invariant: a breadcrumb has put the header there with its *)
(* first drawing.                                                          *)
PPInv == PPTypeOK /\ (ppCrumb # "absent" => ppHeader)
=============================================================================
