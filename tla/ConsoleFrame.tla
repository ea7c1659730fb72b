----------------------------- MODULE ConsoleFrame -----------------------------
(***************************************************************************)
(* What is around every page of the console: the sidebar with its menu     *)
(* (components/ui/sidebar.tsx, custom/app-sidebar.tsx, use-mobile.ts), the *)
(* error boundary and the loading message of custom/layout.tsx (error.tsx, *)
(* loading.tsx), and the theme (theme-provider.tsx, theme-mode-toggle.tsx).*)
(* On a narrow window the sidebar is a sheet over the page, with a state   *)
(* of its own; what is drawn depends on the width an effect has last been  *)
(* told of.  The router, the store and React's boundaries are external.    *)
(***************************************************************************)
EXTENDS Naturals

CONSTANT FramePages   \* the pages, of which the menu names some

Schemes == {"light", "dark"}
NoScheme == "none"
Widths == {"unknown", "wide", "narrow"}

VARIABLES
    cfWindow,   \* the width of the window
    cfTold,     \* the width useIsMobile knows
    cfOpen,     \* the sidebar is expanded
    cfSheet,    \* openMobile: the sheet is open, if there is one
    cfCookie,   \* what the cookie sidebar_state says
    cfPath,     \* the page the location names
    cfPage,     \* what is there: the page, a message, an error
    cfTheme,    \* the theme in the store
    cfSystem,   \* the scheme of the system
    cfClass,    \* the class of the document
    cfMoved,    \* history: the system's scheme changed since it was looked at
    cfLate      \* history: toggled since the page was loaded

cfVars == <<cfWindow, cfTold, cfOpen, cfSheet, cfCookie, cfPath, cfPage,
            cfTheme, cfSystem, cfClass, cfMoved, cfLate>>
cfBar == <<cfTold, cfOpen, cfSheet, cfCookie, cfLate>>
cfRoute == <<cfPath, cfPage>>
cfLook == <<cfTheme, cfSystem, cfClass, cfMoved>>

CFInit ==
    /\ cfWindow \in {"wide", "narrow"} /\ cfTold = "unknown"
    /\ cfOpen = TRUE /\ cfSheet = FALSE
    /\ cfCookie = "none" /\ cfLate = FALSE
    /\ cfPath \in FramePages /\ cfPage = "shown"
    /\ cfTheme \in Schemes \cup {"system"} /\ cfSystem \in Schemes
    /\ cfClass = NoScheme /\ cfMoved = FALSE

-----------------------------------------------------------------------------
(* The sidebar *)

IsMobile == cfTold = "narrow"

(* What the user sees of it: until the effect has run it is drawn as on a  *)
(* wide window, which the style sheet hides on a narrow one.               *)
BarDrawn == IF IsMobile THEN IF cfSheet THEN "sheet" ELSE "none"
         ELSE IF cfWindow = "narrow" THEN "none"
         ELSE IF cfOpen THEN "expanded" ELSE "icons"

(* The effect of useIsMobile, on mounting and when the breakpoint is crossed.*)
TellWidth ==
    /\ cfTold # cfWindow
    /\ cfTold' = cfWindow
    /\ UNCHANGED <<cfWindow, cfOpen, cfSheet, cfCookie, cfLate, cfRoute, cfLook>>

Resize ==
    /\ cfWindow' \in {"wide", "narrow"} \ {cfWindow}
    /\ UNCHANGED <<cfBar, cfRoute, cfLook>>

(* Plausible bug: the cookie is made of the state of the last drawing.     *)
SetOpenStale(open) ==
    /\ cfOpen' = open
    /\ cfCookie' = IF cfOpen THEN "open" ELSE "closed"
    /\ cfLate' = TRUE

SetOpen(open) ==
    /\ cfOpen' = open
    /\ cfCookie' = IF open THEN "open" ELSE "closed"
    /\ cfLate' = TRUE

(* toggleSidebar, by the trigger in the header or by the keyboard.         *)
ToggleSidebar ==
    /\ IF IsMobile THEN cfSheet' = ~ cfSheet /\ UNCHANGED <<cfOpen, cfCookie, cfLate>>
       ELSE SetOpen(~ cfOpen) /\ UNCHANGED cfSheet
    /\ UNCHANGED <<cfWindow, cfTold, cfRoute, cfLook>>

(* A click beside the sheet, or Escape. *)
CloseSheet ==
    /\ BarDrawn = "sheet"
    /\ cfSheet' = FALSE
    /\ UNCHANGED <<cfWindow, cfTold, cfOpen, cfCookie, cfLate, cfRoute, cfLook>>

-----------------------------------------------------------------------------
(* Pages *)

(* A page that is gone to may throw, or suspend.  An error is taken away   *)
(* by the effect that sees another path, and stays where the path is that  *)
(* it was thrown at.                                                       *)
ArriveAt(path) ==
    /\ cfPath' = path
    /\ IF path = cfPath /\ cfPage = "error" THEN UNCHANGED cfPage
       ELSE cfPage' \in {"shown", "loading", "error"}

(* An item of the menu closes the sheet, if it is open. *)
FollowItem(path) ==
    /\ BarDrawn # "none"
    /\ ArriveAt(path)
    /\ cfSheet' = FALSE
    /\ UNCHANGED <<cfWindow, cfTold, cfOpen, cfCookie, cfLate, cfLook>>

(* The company's name above the menu is a link too, which leaves it open.  *)
(* It goes to the first page by way of another path, which takes an error  *)
(* away that was thrown on the first page itself.                          *)
FirstPage == CHOOSE p \in FramePages : TRUE

FollowLogo ==
    /\ BarDrawn # "none"
    /\ cfPath' = FirstPage
    /\ cfPage' \in {"shown", "loading", "error"}
    /\ UNCHANGED <<cfWindow, cfBar, cfLook>>

(* The back button of the error, or of the browser. *)
LeaveError(path) ==
    /\ ArriveAt(path)
    /\ UNCHANGED <<cfWindow, cfBar, cfLook>>

Throws ==
    /\ cfPage # "error"
    /\ cfPage' = "error"
    /\ UNCHANGED <<cfWindow, cfBar, cfPath, cfLook>>

(* The message of a page that is loading comes after a second.             *)
SecondPasses ==
    /\ cfPage = "loading"
    /\ cfPage' = "slow"
    /\ UNCHANGED <<cfWindow, cfBar, cfPath, cfLook>>

PageLoads ==
    /\ cfPage \in {"loading", "slow"}
    /\ cfPage' = "shown"
    /\ UNCHANGED <<cfWindow, cfBar, cfPath, cfLook>>

-----------------------------------------------------------------------------
(* The theme *)

ClassOf(theme) == IF theme = "system" THEN cfSystem ELSE theme

(* The effect of ThemeProvider, the first time. *)
ThemeApplied ==
    /\ cfClass = NoScheme
    /\ cfClass' = ClassOf(cfTheme)
    /\ cfMoved' = FALSE
    /\ UNCHANGED <<cfWindow, cfBar, cfRoute, cfTheme, cfSystem>>

(* From the menu in the header or, through the store, in another tab: the  *)
(* effect runs when the theme is another one.                              *)
PickTheme(theme) ==
    /\ cfClass # NoScheme /\ theme # cfTheme
    /\ cfTheme' = theme
    /\ cfClass' = ClassOf(theme)
    /\ cfMoved' = FALSE
    /\ UNCHANGED <<cfWindow, cfBar, cfRoute, cfSystem>>

SystemChanges ==
    /\ cfSystem' \in Schemes \ {cfSystem}
    /\ cfMoved' = TRUE
    /\ UNCHANGED <<cfWindow, cfBar, cfRoute, cfTheme, cfClass>>

(* Nothing reads the cookie. *)
ReloadFrame ==
    /\ cfTold' = "unknown" /\ cfOpen' = TRUE /\ cfSheet' = FALSE /\ cfLate' = FALSE
    /\ cfPage' \in {"shown", "loading"}
    /\ cfClass' = NoScheme
    /\ UNCHANGED <<cfWindow, cfCookie, cfPath, cfTheme, cfSystem, cfMoved>>

CFNext ==
    \/ TellWidth \/ Resize \/ ToggleSidebar \/ CloseSheet
    \/ \E p \in FramePages : FollowItem(p) \/ LeaveError(p)
    \/ FollowLogo \/ Throws \/ SecondPasses \/ PageLoads
    \/ ThemeApplied \/ SystemChanges \/ ReloadFrame
    \/ \E t \in Schemes \cup {"system"} : PickTheme(t)

CFSpec == CFInit /\ [][CFNext]_cfVars

-----------------------------------------------------------------------------
(* Everything is of its kind.  The cookie tells the state of the sidebar   *)
(* that was last set by hand, which a reload forgets; the document has the *)
(* class of the theme, or of the system if that is the theme and has not   *)
(* changed since somebody looked.                                          *)
CFTypeOK ==
    /\ cfWindow \in Widths \ {"unknown"} /\ cfTold \in Widths
    /\ {cfOpen, cfSheet, cfMoved, cfLate} \subseteq BOOLEAN
    /\ cfPath \in FramePages /\ cfPage \in {"shown", "loading", "slow", "error"}
    /\ cfLate => cfCookie = (IF cfOpen THEN "open" ELSE "closed")
    /\ ~ cfLate => cfOpen
    /\ cfTheme \in Schemes \cup {"system"}
    /\ cfClass # NoScheme /\ ~ cfMoved => cfClass = ClassOf(cfTheme)
    /\ cfClass # NoScheme /\ cfTheme # "system" => cfClass = cfTheme
=============================================================================
