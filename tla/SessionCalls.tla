---------------------------- MODULE SessionCalls ----------------------------
(***************************************************************************)
(* The calls of the auth provider on one page (keycloakAuthProvider.ts):   *)
(* the routes, the user menu and the data hooks call checkAuth,            *)
(* getIdentity, getPermissions, checkError and handleCallback side by      *)
(* side.  The first one starts the initialisation of the Keycloak client   *)
(* and waits for its end; the others do not wait for that.  Each then      *)
(* waits, if nobody is logged in yet, for a second or for the client's     *)
(* success event, which has room for one handler only.  The realm and what *)
(* the page does with the token are in ConsoleSession.                     *)
(***************************************************************************)
EXTENDS Naturals

CONSTANT AuthCallers   \* the calls

AuthMethods == {"checkAuth", "checkError", "getIdentity", "getPermissions", "handleCallback"}
NoCaller == "none"

ASSUME CallersAssumption == NoCaller \notin AuthCallers

VARIABLES
    scInit,      \* the client's initialisation: "none", "pending", "ok", "failed"
    scLogged,    \* the client is authenticated and has a token
    scMethod,    \* the method each call is of
    scCall,      \* where each call is
    scTimer,     \* the calls whose timeout is running
    scHandler,   \* the call whose handler is in onAuthSuccess
    scSaved      \* a location to come back to has been stored

scVars == <<scInit, scLogged, scMethod, scCall, scTimer, scHandler, scSaved>>

AuthStages == {"idle", "init", "wait", "woken", "accepted", "refused", "failed"}

SCInit ==
    /\ scInit = "none" /\ scLogged = FALSE
    /\ scMethod \in [AuthCallers -> AuthMethods]
    /\ scCall = [c \in AuthCallers |-> "idle"]
    /\ scTimer = {} /\ scHandler = NoCaller /\ scSaved = FALSE

-----------------------------------------------------------------------------
(* The calls *)

(* Plausible bug: one timer for the page, as there is one handler.         *)
TimersWithOne(c) == {c}

TimersWith(c) == scTimer \cup {c}

(* Plausible bug: it waits for the success event even if that was.         *)
IsAuthenticatedByEvent(c) ==
    /\ scCall' = [scCall EXCEPT ![c] = "wait"]
    /\ scTimer' = TimersWith(c)
    /\ scHandler' = c

(* isAuthenticated: at once, or a timeout and the one handler.             *)
IsAuthenticated(c) ==
    IF scLogged
    THEN /\ scCall' = [scCall EXCEPT ![c] = "woken"]
         /\ UNCHANGED <<scTimer, scHandler>>
    ELSE /\ scCall' = [scCall EXCEPT ![c] = "wait"]
         /\ scTimer' = TimersWith(c)
         /\ scHandler' = c

MayCall(c) == scCall[c] \in {"idle", "accepted", "refused", "failed"}

(* initKeyCloakClient: the first call starts init and waits for it; init   *)
(* marks the client at once, so that any later call goes on while it still *)
(* runs, and after it has failed.                                          *)
FirstCall(c) ==
    /\ MayCall(c) /\ scInit = "none"
    /\ scInit' = "pending"
    /\ scCall' = [scCall EXCEPT ![c] = "init"]
    /\ UNCHANGED <<scLogged, scMethod, scTimer, scHandler, scSaved>>

LaterCall(c) ==
    /\ MayCall(c) /\ scInit # "none"
    /\ IsAuthenticated(c)
    /\ UNCHANGED <<scInit, scLogged, scMethod, scSaved>>

(* The end of init is for the call that started it.                        *)
InitThrows(c) ==
    /\ scCall[c] = "init" /\ scInit = "failed"
    /\ scCall' = [scCall EXCEPT ![c] = "failed"]
    /\ UNCHANGED <<scInit, scLogged, scMethod, scTimer, scHandler, scSaved>>

BeginWait(c) ==
    /\ scCall[c] = "init" /\ scInit = "ok"
    /\ IsAuthenticated(c)
    /\ UNCHANGED <<scInit, scLogged, scMethod, scSaved>>

TimesOut(c) ==
    /\ c \in scTimer
    /\ scTimer' = scTimer \ {c}
    /\ scCall' = [scCall EXCEPT ![c] = "woken"]
    /\ UNCHANGED <<scInit, scLogged, scMethod, scHandler, scSaved>>

(* What a call answers is decided anew when it goes on: a session that was *)
(* lost since it was woken refuses it, one that came since accepts it.     *)
AuthAnswer(c) ==
    /\ scCall[c] = "woken"
    /\ scCall' = [scCall EXCEPT ![c] =
          IF scLogged \/ scMethod[c] = "getPermissions" THEN "accepted" ELSE "refused"]
    /\ scSaved' = (scSaved \/ (scMethod[c] = "checkAuth" /\ ~ scLogged))
    /\ UNCHANGED <<scInit, scLogged, scMethod, scTimer, scHandler>>

-----------------------------------------------------------------------------
(* keycloak-js: external *)

Initialised ==
    /\ scInit = "pending"
    /\ scInit' \in {"ok", "failed"}
    /\ UNCHANGED <<scLogged, scMethod, scCall, scTimer, scHandler, scSaved>>

(* The success event, before the initialisation has ended or after: the    *)
(* handler stays where it is and resolves a call that was over long ago    *)
(* once more, to no effect.                                                *)
LoggedIn ==
    /\ scInit \in {"pending", "ok"} /\ ~ scLogged
    /\ scLogged' = TRUE
    /\ IF scHandler # NoCaller /\ scCall[scHandler] = "wait"
       THEN /\ scCall' = [scCall EXCEPT ![scHandler] = "woken"]
            /\ scTimer' = scTimer \ {scHandler}
       ELSE UNCHANGED <<scCall, scTimer>>
    /\ UNCHANGED <<scInit, scMethod, scHandler, scSaved>>

LoggedOut ==
    /\ scLogged
    /\ scLogged' = FALSE
    /\ UNCHANGED <<scInit, scMethod, scCall, scTimer, scHandler, scSaved>>

SCNext ==
    \/ \E c \in AuthCallers :
          \/ FirstCall(c) \/ LaterCall(c) \/ InitThrows(c) \/ BeginWait(c)
          \/ TimesOut(c) \/ AuthAnswer(c)
    \/ Initialised \/ LoggedIn \/ LoggedOut

SCSpec == SCInit /\ [][SCNext]_scVars

-----------------------------------------------------------------------------
(* Calls, timers and handler are well formed.  A call that waits can       *)
(* always still be woken: its timeout runs, though its handler may have    *)
(* been replaced by that of a later call.  One call at most waits for the  *)
(* initialisation.                                                         *)
SCTypeOK ==
    /\ scInit \in {"none", "pending", "ok", "failed"}
    /\ scLogged \in BOOLEAN /\ scSaved \in BOOLEAN
    /\ scMethod \in [AuthCallers -> AuthMethods]
    /\ scCall \in [AuthCallers -> AuthStages]
    /\ scTimer \subseteq AuthCallers
    /\ scHandler \in AuthCallers \cup {NoCaller}
    /\ \A c \in AuthCallers : (scCall[c] = "wait") <=> (c \in scTimer)
    /\ \A c, d \in AuthCallers : scCall[c] = "init" /\ scCall[d] = "init" => c = d
    /\ scInit = "none" => \A c \in AuthCallers : scCall[c] = "idle"

(* Of the calls that wait the one that began last has the handler: if      *)
(* somebody logs in it is not left to its timeout.                         *)
LastWaiterWoken ==
    \A c \in AuthCallers : scCall[c] = "wait" /\ scLogged => scHandler # c
=============================================================================
