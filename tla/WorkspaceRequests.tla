-------------------------- MODULE WorkspaceRequests --------------------------
(***************************************************************************)
(* The form of the console that provisions a workspace (WorkspaceCreate)   *)
(* and what the API makes of its requests: createWorkspaceTx with its look *)
(* at the account and at the external id.  The agent and the token, which  *)
(* the same transaction writes, are ClusterAgent's.                        *)
(*                                                                         *)
(* The form stays open while its request is under way and may be submitted *)
(* again.  The transaction is read committed: what it looked up may have   *)
(* changed when it inserts.                                                *)
(***************************************************************************)
EXTENDS Naturals

CONSTANTS
    Calls,      \* the requests a run may send
    Realms,     \* the realms of the accounts the user is a member of
    MaxMounts   \* bound on how often the form is opened

ASSUME MountsAssumption == MaxMounts \in Nat /\ Realms # {}

VARIABLES
    wrRealm,      \* the realm in the browser's localStorage
    wrForm,       \* the form
    wrMounts,     \* how often it was opened
    wrCalls,      \* the requests
    wrActive,     \* the realms whose account is ACTIVE
    wrWorkspaces  \* the live workspaces; `seen', of the look-up before the
                  \* insert, and `mount' are history

wrVars == <<wrRealm, wrForm, wrMounts, wrCalls, wrActive, wrWorkspaces>>

-----------------------------------------------------------------------------
(* External ids: typed into the form (long enough, once with blanks around *)
(* it, or too short), drawn by the form, or drawn by the server.           *)
Typed == {"named", " named ", "abc"}
Trimmed(typed) == IF typed = " named " THEN "named" ELSE typed

(* The form draws its id when it is mounted and keeps it over submits.     *)
FormIdPerSubmit(mount, call) == <<"form", mount, call>>
FormId(mount, call) == <<"form", mount>>

(* What the server makes of the id in the request.                         *)
ExtWorkspaceId(call, drawn, sent) ==
    IF drawn THEN sent
    ELSE IF Trimmed(sent) = "named" THEN <<"typed", "named">> ELSE <<"server", call>>

TakenInAccount(id, realm) == \E w \in wrWorkspaces : w.id = id /\ w.realm = realm
Taken(id, realm) == \E w \in wrWorkspaces : w.id = id

AnyRealm == CHOOSE r \in Realms : TRUE
NoForm == [open |-> FALSE, dirty |-> FALSE, generate |-> TRUE, typed |-> "abc"]
NoCall == [pc |-> "idle", mount |-> 0, drawn |-> FALSE, id |-> <<>>,
           realm |-> AnyRealm, seen |-> {}]

WRInit ==
    /\ wrRealm = AnyRealm
    /\ wrForm = NoForm
    /\ wrMounts = 0
    /\ wrCalls = [c \in Calls |-> NoCall]
    /\ wrActive = {AnyRealm}
    /\ wrWorkspaces = {}

-----------------------------------------------------------------------------
(* The user                                                                *)

(* Another realm is chosen, here or in another tab.                        *)
ChooseRealm(realm) ==
    /\ wrRealm' = realm
    /\ UNCHANGED <<wrForm, wrMounts, wrCalls, wrActive, wrWorkspaces>>

OpenWorkspaceForm ==
    /\ wrMounts < MaxMounts
    /\ wrMounts' = wrMounts + 1
    /\ wrForm' = [NoForm EXCEPT !.open = TRUE]
    /\ UNCHANGED <<wrRealm, wrCalls, wrActive, wrWorkspaces>>

FillWorkspaceForm(generate, typed) ==
    /\ wrForm.open
    /\ wrForm' = [wrForm EXCEPT !.dirty = TRUE,
                              !.generate = generate, !.typed = typed]
    /\ UNCHANGED <<wrRealm, wrMounts, wrCalls, wrActive, wrWorkspaces>>

(* The button is enabled once a field was changed.  It would be disabled   *)
(* while the form submits, but workspaceSave does not wait for the answer. *)
SaveEnabled == wrForm.open /\ wrForm.dirty

(* workspaceSave: nothing keeps the user from a second click; the account  *)
(* is that of the stored realm, whatever the form shows.                   *)
WorkspaceSave(c) ==
    /\ SaveEnabled
    /\ wrCalls[c].pc = "idle"
    /\ LET sent == IF wrForm.generate THEN FormId(wrMounts, c) ELSE wrForm.typed
       IN  wrCalls' = [wrCalls EXCEPT ![c] =
              [NoCall EXCEPT !.pc = "sent", !.mount = wrMounts, !.realm = wrRealm,
                             !.drawn = wrForm.generate,
                             !.id = ExtWorkspaceId(c, wrForm.generate, sent)]]
    /\ UNCHANGED <<wrRealm, wrForm, wrMounts, wrActive, wrWorkspaces>>

(* The form goes when a request of its own is answered with success.       *)
WorkspaceAnswered(c) ==
    /\ wrCalls[c].pc = "done"
    /\ wrCalls' = [wrCalls EXCEPT ![c] = [NoCall EXCEPT !.pc = "over"]]
    /\ wrForm' = IF wrCalls[c].mount = wrMounts THEN NoForm ELSE wrForm
    /\ UNCHANGED <<wrRealm, wrMounts, wrActive, wrWorkspaces>>

WorkspaceAnswerLost(c) ==
    /\ wrCalls[c].pc = "done"
    /\ wrCalls' = [wrCalls EXCEPT ![c] = [NoCall EXCEPT !.pc = "over"]]
    /\ UNCHANGED <<wrRealm, wrForm, wrMounts, wrActive, wrWorkspaces>>

-----------------------------------------------------------------------------
(* The API                                                                 *)

(* The account is there, has the caller as a member, and is ACTIVE.        *)
CheckWorkspaceAccount(c) ==
    /\ wrCalls[c].pc = "sent"
    /\ wrCalls[c].realm \in wrActive
    /\ wrCalls' = [wrCalls EXCEPT ![c].pc = "checked"]
    /\ UNCHANGED <<wrRealm, wrForm, wrMounts, wrActive, wrWorkspaces>>

(* 404 or 400 by the account, 409 by the id, or the database fails; the    *)
(* form swallows the error and stays.                                      *)
WorkspaceRefused(c) ==
    /\ \/ wrCalls[c].pc = "sent" /\ wrCalls[c].realm \notin wrActive
       \/ wrCalls[c].pc = "checked" /\ Taken(wrCalls[c].id, wrCalls[c].realm)
       \/ wrCalls[c].pc = "free"
    /\ wrCalls' = [wrCalls EXCEPT ![c] = [NoCall EXCEPT !.pc = "over"]]
    /\ UNCHANGED <<wrRealm, wrForm, wrMounts, wrActive, wrWorkspaces>>

WorkspaceLookUp(c) ==
    /\ wrCalls[c].pc = "checked"
    /\ ~ Taken(wrCalls[c].id, wrCalls[c].realm)
    /\ wrCalls' = [wrCalls EXCEPT ![c].pc = "free",
                                  ![c].seen = {w.by : w \in wrWorkspaces}]
    /\ UNCHANGED <<wrRealm, wrForm, wrMounts, wrActive, wrWorkspaces>>

WorkspaceCommit(c) ==
    /\ wrCalls[c].pc = "free"
    /\ wrWorkspaces' = wrWorkspaces \cup
           {[id |-> wrCalls[c].id, realm |-> wrCalls[c].realm, by |-> c,
             drawn |-> wrCalls[c].drawn, mount |-> wrCalls[c].mount,
             seen |-> wrCalls[c].seen]}
    /\ wrCalls' = [wrCalls EXCEPT ![c].pc = "done"]
    /\ UNCHANGED <<wrRealm, wrForm, wrMounts, wrActive>>

(* The provisioning of an account ends, or a later request undoes it.      *)
AccountStatusChanges(realm) ==
    /\ wrActive' = IF realm \in wrActive THEN wrActive \ {realm} ELSE wrActive \cup {realm}
    /\ UNCHANGED <<wrRealm, wrForm, wrMounts, wrCalls, wrWorkspaces>>

WRNext ==
    \/ OpenWorkspaceForm
    \/ \E r \in Realms : ChooseRealm(r) \/ AccountStatusChanges(r)
    \/ \E g \in BOOLEAN, t \in Typed : FillWorkspaceForm(g, t)
    \/ \E c \in Calls :
          \/ WorkspaceSave(c) \/ WorkspaceAnswered(c) \/ WorkspaceAnswerLost(c)
          \/ CheckWorkspaceAccount(c) \/ WorkspaceRefused(c)
          \/ WorkspaceLookUp(c) \/ WorkspaceCommit(c)

WRSpec == WRInit /\ [][WRNext]_wrVars

-----------------------------------------------------------------------------
(* The form, the requests and the rows are well formed.                    *)
WRTypeOK ==
    /\ wrRealm \in Realms
    /\ wrForm \in [open : BOOLEAN, dirty : BOOLEAN, generate : BOOLEAN, typed : Typed]
    /\ wrMounts \in 0..MaxMounts
    /\ \A c \in Calls :
          /\ wrCalls[c].pc \in {"idle", "sent", "checked", "free", "done", "over"}
          /\ wrCalls[c].mount \in 0..MaxMounts
          /\ wrCalls[c].realm \in Realms
          /\ wrCalls[c].seen \subseteq Calls
    /\ wrActive \subseteq Realms
    /\ \A w \in wrWorkspaces : w.realm \in Realms /\ w.by \in Calls

(* Nothing in the database keeps an external workspace id to one live row, *)
(* only the look-up before the insert: of two workspaces with one id,      *)
(* whoever asked for them, each was looked for before the other was there. *)
SecondRowOverlaps ==
    \A v, w \in wrWorkspaces : v # w /\ v.id = w.id => v.by \notin w.seen

(* A form with a drawn id that is submitted again, because its answer was  *)
(* lost or the user clicked twice, makes a second workspace only if both   *)
(* requests were under way together.                                       *)
RetryIsRecognised ==
    \A v, w \in wrWorkspaces :
        v # w /\ v.drawn /\ w.drawn /\ v.mount = w.mount => v.by \notin w.seen

-----------------------------------------------------------------------------
(* The inductive invariant                                                 *)

WorkspaceIds == {<<>>, <<"typed", "named">>}
                \cup {<<"form", m>> : m \in 0..MaxMounts} \cup {<<"server", c>> : c \in Calls}
WorkspaceCalls ==
    [pc : {"idle", "sent", "checked", "free", "done", "over"}, mount : 0..MaxMounts,
     drawn : BOOLEAN, id : WorkspaceIds, realm : Realms, seen : SUBSET Calls]

(* The requests that have inserted their row, or never will.               *)
Inserted == {c \in Calls : wrCalls[c].pc \in {"done", "over"}}

(* A request inserts one row and is through with the database; only such   *)
(* requests have rows for others to see.                                   *)
OneRowEach ==
    /\ \A w \in wrWorkspaces : w.by \in Inserted /\ w.seen \subseteq Inserted
    /\ \A c \in Calls : wrCalls[c].seen \subseteq Inserted
    /\ \A v, w \in wrWorkspaces : v.by = w.by => v = w

(* What a request saw before it inserts had another id.                    *)
SeenDiffer ==
    \A c \in Calls : wrCalls[c].pc = "free" =>
        \A w \in wrWorkspaces : w.by \in wrCalls[c].seen => w.id # wrCalls[c].id

(* An id the form has drawn is that of its mount.                          *)
DrawnByMount ==
    /\ \A c \in Calls : wrCalls[c].drawn => wrCalls[c].id = <<"form", wrCalls[c].mount>>
    /\ \A w \in wrWorkspaces : w.drawn => w.id = <<"form", w.mount>>

WRInv == /\ WRTypeOK
         /\ wrCalls \in [Calls -> WorkspaceCalls]
         /\ OneRowEach
         /\ SeenDiffer
         /\ DrawnByMount
         /\ SecondRowOverlaps
=============================================================================
