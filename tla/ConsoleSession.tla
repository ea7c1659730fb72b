---------------------------- MODULE ConsoleSession ----------------------------
(***************************************************************************)
(* One tab of the console and its session (keycloakAuthProvider.ts,        *)
(* authProvider.ts, RealmGate.tsx): the realm is kept in localStorage,     *)
(* which other tabs change too; the Keycloak client is made of it once per *)
(* page load; every method of the auth provider first puts the stored      *)
(* realm into the client and waits for one and the same initialisation.    *)
(*                                                                         *)
(* keycloak-js is external.  init is called once per page load, and marks  *)
(* the client as initialised when it starts: whoever calls later goes on   *)
(* at once, while it still runs and after it has failed.  It looks for an  *)
(* answer of the login page in the address and redeems it at its realm, or *)
(* goes to the login page.  Whether it works with the realm the client was *)
(* made with or with the one that was put in is left open.                 *)
(***************************************************************************)
EXTENDS Naturals

CONSTANT SessionRealms

NoRealm == "none"
MaybeRealm == SessionRealms \cup {NoRealm}

VARIABLES
    csStored,    \* the realm in localStorage
    csPage,      \* "app", "gate", or "away" at a login page
    csMade,      \* the realm the client was made with
    csClient,    \* the realm the client has now
    csInit,      \* its initialisation: "none", "pending", "ok" or "failed"
    csToken,     \* the realm its token is of
    csAnswer,    \* the realm whose login page has sent the user back
    csOther      \* history: another tab changed the stored realm since the
                 \* page was loaded

csVars == <<csStored, csPage, csMade, csClient, csInit, csToken, csAnswer, csOther>>

CSInit ==
    /\ csStored = NoRealm /\ csPage = "gate"
    /\ csMade = NoRealm /\ csClient = NoRealm
    /\ csInit = "none" /\ csToken = NoRealm
    /\ csAnswer = NoRealm /\ csOther = FALSE

-----------------------------------------------------------------------------
(* A page load makes a new client and forgets everything but the store.    *)
LoadKept(page, stored) ==
    /\ csPage' = page
    /\ csStored' = stored
    /\ csMade' = (IF csMade = NoRealm THEN stored ELSE csMade) /\ csClient' = stored
    /\ csInit' = "none" /\ csToken' = NoRealm
    /\ csOther' = FALSE
Load(page, stored) ==
    /\ csPage' = page
    /\ csStored' = stored
    /\ csMade' = stored /\ csClient' = stored
    /\ csInit' = "none" /\ csToken' = NoRealm
    /\ csOther' = FALSE

Leave == /\ csPage' = "away"
         /\ csInit' = "none" /\ csToken' = NoRealm

(* What a call of initKeyCloakClient leaves in the client.                 *)
Adopted == IF csStored # NoRealm THEN csStored ELSE csClient

(* A page is loaded, reloaded, or come back to from a login or logout      *)
(* page: an answer may still be in its address.                            *)
Reload(page) ==
    /\ Load(page, csStored)
    /\ csAnswer' \in (IF page = "app" THEN {csAnswer, NoRealm} ELSE {NoRealm})

(* RealmGate sets the realm and goes to the app without a page load.       *)
EnterRealm(realm) ==
    /\ csPage = "gate"
    /\ csStored' = realm
    /\ csPage' = "app"
    /\ UNCHANGED <<csMade, csClient, csInit, csToken, csAnswer, csOther>>

(* checkAuth without a realm.                                              *)
SentToGate ==
    /\ csPage = "app"
    /\ csStored = NoRealm
    /\ Load("gate", NoRealm)
    /\ csAnswer' = NoRealm

(* The first call starts init, with a realm in the store or without one.   *)
BeginInit ==
    /\ csPage = "app" /\ csInit = "none"
    /\ csInit' = "pending"
    /\ csClient' \in {csMade, Adopted}
    /\ UNCHANGED <<csStored, csPage, csMade, csToken, csAnswer, csOther>>

(* init has an answer to redeem: at its own realm it gets a token.         *)
Redeems ==
    /\ csInit = "pending"
    /\ csAnswer # NoRealm /\ csAnswer = csClient
    /\ csInit' = "ok"
    /\ csToken' = csClient
    /\ csAnswer' = NoRealm
    /\ UNCHANGED <<csStored, csPage, csMade, csClient, csOther>>

(* init has none and goes to the login page, which sends the user back.    *)
GoesToLogin ==
    /\ csInit = "pending" /\ csAnswer = NoRealm
    /\ csAnswer' = csClient
    /\ Leave
    /\ UNCHANGED <<csStored, csMade, csClient, csOther>>

(* An answer may be refused, or init fail before it takes it up.           *)
InitFails ==
    /\ csInit = "pending"
    /\ csInit' = "failed"
    /\ csAnswer' \in {csAnswer, NoRealm}
    /\ UNCHANGED <<csStored, csPage, csMade, csClient, csToken, csOther>>

(* Any later call puts the stored realm into the client, however far its   *)
(* initialisation is.                                                      *)
AdoptRealm ==
    /\ csPage = "app" /\ csInit # "none"
    /\ csClient # Adopted
    /\ csClient' = Adopted
    /\ UNCHANGED <<csStored, csPage, csMade, csInit, csToken, csAnswer, csOther>>

(* The realm is forgotten after the page has begun to leave.  logout waits *)
(* for init only where it is the first call: otherwise it goes on, and     *)
(* init may still send the user to the login page.                         *)
LoginUnderWay ==
    IF csInit = "pending" /\ csAnswer = NoRealm THEN {csClient, Adopted} ELSE {}
Logout ==
    /\ csPage = "app" /\ csInit # "none"
    /\ Leave
    /\ csClient' = Adopted
    /\ csStored' = NoRealm
    /\ csAnswer' \in {NoRealm} \cup LoginUnderWay
    /\ UNCHANGED <<csMade, csOther>>

(* login, from the page at /login: it goes on after init, failed or not.   *)
Login ==
    /\ csPage = "app" /\ csInit # "none"
    /\ Leave
    /\ csClient' \in {csClient, Adopted}
    /\ csAnswer' = csClient'
    /\ UNCHANGED <<csStored, csMade, csOther>>

TokenLost ==
    /\ csToken # NoRealm
    /\ csToken' = NoRealm
    /\ UNCHANGED <<csStored, csPage, csMade, csClient, csInit, csAnswer, csOther>>

OtherTab(realm) ==
    /\ csStored # realm
    /\ csStored' = realm
    /\ csOther' = TRUE
    /\ UNCHANGED <<csPage, csMade, csClient, csInit, csToken, csAnswer>>

CSNext ==
    \/ \E p \in {"app", "gate"} : Reload(p)
    \/ \E r \in SessionRealms : EnterRealm(r)
    \/ SentToGate \/ BeginInit \/ Redeems \/ GoesToLogin \/ InitFails
    \/ AdoptRealm \/ Logout \/ Login \/ TokenLost
    \/ \E r \in MaybeRealm : OtherTab(r)

CSSpec == CSInit /\ [][CSNext]_csVars

-----------------------------------------------------------------------------
(* Page, realms and initialisation are well formed; only an initialised    *)
(* client has a token.                                                     *)
CSTypeOK ==
    /\ {csStored, csMade, csClient, csToken, csAnswer} \subseteq MaybeRealm
    /\ csPage \in {"app", "gate", "away"}
    /\ csInit \in {"none", "pending", "ok", "failed"}
    /\ csToken # NoRealm => csInit = "ok"
    /\ csOther \in BOOLEAN

(* The console works with the token of one realm and the account of        *)
(* another (which its forms take from localStorage), or renews that token  *)
(* at another's login server, only if another tab changed the realm after  *)
(* this page was loaded: choosing a realm at the gate, logging out (also   *)
(* while init runs or after it failed), failing and coming back never mix  *)
(* the two.                                                                *)
MixedOnlyByOtherTab ==
    csPage = "app" /\ csToken # NoRealm /\ (csStored # csToken \/ csClient # csToken)
        => csOther

-----------------------------------------------------------------------------
(* The inductive invariant                                                 *)

(* A token, an initialisation and an answer to redeem are for a page of    *)
(* the app; a page with an answer in its address was made with the realm   *)
(* in the store, and works with it.                                        *)
AnswerForThePage ==
    /\ csPage # "app" => csToken = NoRealm /\ csInit = "none"
    /\ csPage = "gate" => csAnswer = NoRealm
    /\ csPage = "app" /\ csAnswer # NoRealm /\ ~ csOther
           => csMade = csStored /\ csClient = csStored

CSInv == /\ CSTypeOK
         /\ AnswerForThePage
         /\ MixedOnlyByOtherTab
=============================================================================
