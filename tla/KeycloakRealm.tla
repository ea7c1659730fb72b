---------------------------- MODULE KeycloakRealm ----------------------------
(***************************************************************************)
(* The methods of KeycloakAuthAdapter on a realm that exists, each as the  *)
(* calls it makes to Keycloak's admin API, run side by side by several     *)
(* callers.  AccountProvisioning takes a method of provisionAccount for    *)
(* one step; here a look-up and the write that follows it are two.         *)
(*                                                                         *)
(* Most of these methods are marked "not used yet" in the source: they are *)
(* what the workspaces and their applications will be set up with.  A run  *)
(* of this module is of callers who use them.                              *)
(***************************************************************************)
EXTENDS Naturals, Sequences

CONSTANTS
    KeycloakCallers,   \* those who call the adapter at the same time
    MaxKeycloakCalls   \* bound on the calls of a run

ASSUME KeycloakAssumption == MaxKeycloakCalls \in Nat

VARIABLES
    krRealm,  \* what there is in the realm
    krCalls,  \* the last call of each caller
    krCount   \* how many calls there were

krVars == <<krRealm, krCalls, krCount>>

-----------------------------------------------------------------------------
(* What a realm may hold: two realm roles, of which the definition of      *)
(* realms desires the first, an application's client with one role, and    *)
(* so on.  A link cannot be without its ends.                              *)
RealmRoles == {"desiredRole", "otherRole"}
Composite(role) == IF role = "desiredRole" THEN "desiredComposite" ELSE "otherComposite"
Links == {"desiredComposite", "otherComposite", "realmAdmin", "scopeRole", "clientScope",
          "formDisabled"}
Objects == RealmRoles \cup {"client", "clientRole", "user", "key", "scope", "realmIdp",
                            "globalIdp", "usernameMapper"}

Ends(item) ==
    CASE item = "clientRole"       -> {"client"}
      [] item = "desiredComposite" -> {"desiredRole", "clientRole"}
      [] item = "otherComposite"   -> {"otherRole", "clientRole"}
      [] item = "realmAdmin"       -> {"user"}
      [] item = "scopeRole"        -> {"scope", "clientRole"}
      [] item = "clientScope"      -> {"scope", "client"}
      [] item = "usernameMapper"   -> {"realmIdp"}
      [] OTHER                     -> {}

(* Keycloak removes what is linked to an object with the object.           *)
Removing(realm, gone) == {item \in realm \ gone : Ends(item) \cap gone = {}}

-----------------------------------------------------------------------------
(* A method is a sequence of stages.  A stage that does not find what it   *)
(* needs throws, ends the method (return) or goes on to the next (skip);   *)
(* one that does not find what it looks for creates; one finding what is   *)
(* to go removes it.                                                       *)
Plain == [needs |-> {}, orElse |-> "throw", looksFor |-> {}, creates |-> {},
          removes |-> {}, tolerant |-> FALSE]
Needing(needed, orElse) == [Plain EXCEPT !.needs = needed, !.orElse = orElse]
Ensuring(stage, item) == [stage EXCEPT !.looksFor = {item}, !.creates = {item}]

(* Roles that are desired are created one by one; then the others are      *)
(* deleted, and a deletion that fails is logged only.  The roles are       *)
(* listed once; as no call here creates the second role, to look again     *)
(* finds nothing to delete that was not there before.                      *)
EnsureRealmRolesCalls ==
    <<Ensuring(Plain, "desiredRole"),
      [Plain EXCEPT !.removes = {"otherRole"}, !.tolerant = TRUE]>>

EnsureUserCalls == <<Ensuring(Plain, "user")>>
DeleteUserCalls == <<[Plain EXCEPT !.removes = {"user"}]>>

(* ensureClientRolesToRealmRoleMapping; a client that has roles, but none  *)
(* of those asked for, is the matter of RolesUnmatched.                    *)
MapClientRoleCalls ==
    <<Ensuring(Needing({"desiredRole", "client", "clientRole"}, "throw"), "desiredComposite")>>

(* It looks for the alias global-users and creates the alias of the realm. *)
EnsureIdentityProviderCalls ==
    <<[Plain EXCEPT !.looksFor = {"globalIdp"}, !.creates = {"realmIdp"}]>>

(* The user is given by id and not looked up.                              *)
AssignRealmAdminRoleCalls == <<[Plain EXCEPT !.creates = {"realmAdmin"}]>>

EnsureUsernameMapperCalls ==
    <<Ensuring(Needing({"realmIdp"}, "return"), "usernameMapper")>>

DisablePasswordLoginCalls == <<[Plain EXCEPT !.creates = {"formDisabled"}]>>

GetClientSecretCalls == <<Needing({"client"}, "throw")>>
GetClientCalls == <<Needing({"client"}, "return"), Needing({"key"}, "throw")>>

(* The scope is created before the client is looked for.                   *)
EnsureClientScopeExistsBlindly == [Plain EXCEPT !.creates = {"scope"}]
EnsureClientScopeExists == Ensuring(Plain, "scope")
EnsureClientScopeHasRoleCalls ==
    <<EnsureClientScopeExists, Ensuring(Needing({"client", "clientRole"}, "throw"), "scopeRole")>>
EnsureClientHasScopeCalls ==
    <<EnsureClientScopeExists, Ensuring(Needing({"client"}, "throw"), "clientScope")>>

(* A realm role that is not there is passed over.                          *)
AttachStages(needed) ==
    <<Ensuring(Needing({"desiredRole"} \cup needed, "skip"), Composite("desiredRole")),
      Ensuring(Needing({"otherRole"} \cup needed, "skip"), Composite("otherRole"))>>
AttachToRealmRolesCalls ==
    <<Needing({"client", "clientRole"}, "throw")>> \o AttachStages({})

(* Here a client or a client role that is not there is passed over, too.   *)
SyncClientRolesCalls == AttachStages({"client", "clientRole"})

Methods == {"ensureRealmRoles", "ensureUser", "deleteUser", "mapClientRole",
            "ensureIdentityProvider", "assignRealmAdminRole", "ensureUsernameMapper",
            "disablePasswordLogin", "getClientSecret", "getClient",
            "ensureClientScopeHasRole", "ensureClientHasScope", "attachToRealmRoles",
            "syncClientRoles"}

Stages(method) ==
    CASE method = "ensureRealmRoles"         -> EnsureRealmRolesCalls
      [] method = "ensureUser"               -> EnsureUserCalls
      [] method = "deleteUser"               -> DeleteUserCalls
      [] method = "mapClientRole"            -> MapClientRoleCalls
      [] method = "ensureIdentityProvider"   -> EnsureIdentityProviderCalls
      [] method = "assignRealmAdminRole"     -> AssignRealmAdminRoleCalls
      [] method = "ensureUsernameMapper"     -> EnsureUsernameMapperCalls
      [] method = "disablePasswordLogin"     -> DisablePasswordLoginCalls
      [] method = "getClientSecret"          -> GetClientSecretCalls
      [] method = "getClient"                -> GetClientCalls
      [] method = "ensureClientScopeHasRole" -> EnsureClientScopeHasRoleCalls
      [] method = "ensureClientHasScope"     -> EnsureClientHasScopeCalls
      [] method = "attachToRealmRoles"       -> AttachToRealmRolesCalls
      [] method = "syncClientRoles"          -> SyncClientRolesCalls

-----------------------------------------------------------------------------
(* A call.  As history, `passed' are the items of stages it skipped,       *)
(* `undone' those removed since it began, and `beside' tells whether       *)
(* another call ran at any time of it.                                     *)
NoKeycloakCall == [pc |-> "idle", method |-> "getClient", at |-> 1,
                   passed |-> {}, undone |-> {}, beside |-> FALSE]

Running(c) == krCalls[c].pc \in {"look", "write"}

KRInit ==
    /\ krRealm = {}
    /\ krCalls = [c \in KeycloakCallers |-> NoKeycloakCall]
    /\ krCount = 0

(* Before the first call: a realm has whatever of its definition has been  *)
(* set up, by provisionAccount or by an administrator.                     *)
RealmSetUp ==
    /\ krCount = 0
    /\ krRealm = {}
    /\ krRealm' \in SUBSET (RealmRoles \cup {"client", "clientRole", "user", "key", "realmIdp"})
    /\ \A item \in krRealm' : Ends(item) \subseteq krRealm'
    /\ UNCHANGED <<krCalls, krCount>>

(* Callers are alike, so one of them makes the first call.                 *)
FirstCaller == CHOOSE c \in KeycloakCallers : TRUE

KeycloakCall(c, method) ==
    /\ ~ Running(c)
    /\ krCount = 0 => c = FirstCaller
    /\ krCount < MaxKeycloakCalls
    /\ method = "assignRealmAdminRole" => "user" \in krRealm
    /\ krCount' = krCount + 1
    /\ LET others == {d \in KeycloakCallers \ {c} : Running(d)}
       IN  krCalls' = [d \in KeycloakCallers |->
              IF d = c THEN [NoKeycloakCall EXCEPT !.pc = "look", !.method = method,
                                                   !.beside = others # {}]
              ELSE IF d \in others THEN [krCalls[d] EXCEPT !.beside = TRUE]
              ELSE krCalls[d]]
    /\ UNCHANGED krRealm

(* The call after its stage: the next one, or the end.                     *)
Advanced(call) ==
    IF call.at = Len(Stages(call.method)) THEN [call EXCEPT !.pc = "done"]
    ELSE [call EXCEPT !.at = @ + 1, !.pc = "look"]

Passing(call, stage) == [call EXCEPT !.passed = @ \cup stage.creates]

(* Whether a stage has nothing to write.                                   *)
Settled(stage, realm) ==
    /\ stage.creates = {} \/ (stage.looksFor # {} /\ stage.looksFor \subseteq realm)
    /\ stage.removes \cap realm = {}

(* What the call has become once Keycloak has answered its look-ups.       *)
Looked(call, stage) ==
    IF ~ stage.needs \subseteq krRealm
    THEN CASE stage.orElse = "throw"  -> [call EXCEPT !.pc = "threw"]
           [] stage.orElse = "return" -> [Passing(call, stage) EXCEPT !.pc = "done"]
           [] stage.orElse = "skip"   -> Advanced(Passing(call, stage))
    ELSE IF Settled(stage, krRealm) THEN Advanced(call)
    ELSE [call EXCEPT !.pc = "write"]

KeycloakLook(c) ==
    /\ krCalls[c].pc = "look"
    /\ krCalls' = [krCalls EXCEPT ![c] = Looked(@, Stages(@.method)[@.at])]
    /\ UNCHANGED <<krRealm, krCount>>

(* "clientRole" stands for the roles asked for.  Without it the client has *)
(* none at all, for which mapClientRole throws, or has others only, of     *)
(* which it warns and returns.                                             *)
RolesUnmatched(c) ==
    LET call == krCalls[c]
        stage == Stages(call.method)[call.at]
    IN  /\ call.pc = "look" /\ call.method = "mapClientRole"
        /\ stage.needs \ krRealm = {"clientRole"}
        /\ krCalls' = [krCalls EXCEPT ![c] = [Passing(call, stage) EXCEPT !.pc = "done"]]
        /\ UNCHANGED <<krRealm, krCount>>

(* Keycloak refuses an object that is there, a link without an end, and    *)
(* the removal of what is not there; a link that is there it accepts.      *)
Accepts(stage, realm) ==
    /\ stage.creates \cap realm \subseteq Links
    /\ \A item \in stage.creates : Ends(item) \subseteq realm
    /\ stage.removes \subseteq realm

KeycloakWrite(c) ==
    LET stage == Stages(krCalls[c].method)[krCalls[c].at]
        realm == Removing(krRealm, stage.removes) \cup stage.creates
    IN  /\ krCalls[c].pc = "write"
        /\ Accepts(stage, krRealm)
        /\ krRealm' = realm
        /\ krCalls' = [d \in KeycloakCallers |->
              LET call == [krCalls[d] EXCEPT
                              !.undone = (@ \cup (krRealm \ realm)) \ stage.creates]
              IN  IF d = c THEN Advanced(call) ELSE call]
        /\ UNCHANGED krCount

(* Keycloak's answer is an error, which the method throws; ensureRealmRoles*)
(* goes on after a role it could not delete.                               *)
KeycloakRefuses(c) ==
    LET stage == Stages(krCalls[c].method)[krCalls[c].at]
    IN  /\ krCalls[c].pc = "write"
        /\ ~ Accepts(stage, krRealm)
        /\ krCalls' = [krCalls EXCEPT ![c] =
              IF stage.tolerant THEN Advanced(@) ELSE [@ EXCEPT !.pc = "refused"]]
        /\ UNCHANGED <<krRealm, krCount>>

KRNext ==
    \/ RealmSetUp
    \/ \E c \in KeycloakCallers :
           \/ \E method \in Methods : KeycloakCall(c, method)
           \/ KeycloakLook(c)
           \/ RolesUnmatched(c)
           \/ KeycloakWrite(c)
           \/ KeycloakRefuses(c)

KRSpec == KRInit /\ [][KRNext]_krVars

-----------------------------------------------------------------------------
(* Properties *)

KRTypeOK ==
    /\ krRealm \subseteq Objects \cup Links
    /\ krCalls \in [KeycloakCallers ->
          [pc : {"idle", "look", "write", "done", "threw", "refused"}, method : Methods,
           at : 1..3, passed : SUBSET (Objects \cup Links),
           undone : SUBSET (Objects \cup Links), beside : BOOLEAN]]
    /\ krCount \in 0..MaxKeycloakCalls

Created(call) ==
    UNION {Stages(call.method)[i].creates : i \in 1..Len(Stages(call.method))}

(* A call that has returned leaves in the realm all it is to ensure, but   *)
(* for what it passed over and what somebody has removed since it began:   *)
(* nothing gets lost between its look-ups and its writes.  And Keycloak    *)
(* refuses the write of a call only if another ran at the same time, so    *)
(* that whoever repeats it alone gets through.  That is not true of        *)
(* ensureIdentityProvider, which looks for another alias than it creates   *)
(* (KeycloakAuthAdapter.ts:685, 691).                                      *)
CallsSettle ==
    \A c \in KeycloakCallers :
        LET call == krCalls[c]
        IN  /\ call.pc = "done" =>
                  Created(call) \ (call.passed \cup call.undone) \subseteq krRealm
            /\ call.pc = "refused" =>
                  call.beside \/ call.method = "ensureIdentityProvider"

-----------------------------------------------------------------------------
(* The inductive invariant                                                 *)

StageOf(call) == Stages(call.method)[call.at]

(* The stages a call has behind it.                                        *)
Behind(call) == 1..(IF call.pc = "done" THEN Len(Stages(call.method)) ELSE call.at - 1)

(* What a call relies on that it does not look for at this stage: what it  *)
(* was given, has created or has found before.                             *)
ReliesOn(method, at) ==
    CASE method = "assignRealmAdminRole" -> {"user"}
      [] method = "attachToRealmRoles" /\ at > 1 -> {"client", "clientRole"}
      [] method \in {"ensureClientScopeHasRole", "ensureClientHasScope"} /\ at > 1 -> {"scope"}
      [] OTHER -> {}

(* What a call has ensured is there, or somebody has removed it since; as  *)
(* long as no other is beside it, so is what it relies on, and Keycloak    *)
(* will accept what it is about to write.                                  *)
CallInOrder(call, realm) ==
    /\ call.at <= Len(Stages(call.method))
    /\ call.pc \in {"look", "write", "done"} =>
          \A i \in Behind(call) :
              Stages(call.method)[i].creates \subseteq realm \cup call.passed \cup call.undone
    /\ call.pc \in {"look", "write"} /\ ~ call.beside =>
          ReliesOn(call.method, call.at) \subseteq realm
    /\ call.pc = "write" /\ ~ call.beside =>
          /\ StageOf(call).needs \subseteq realm
          /\ call.method # "ensureIdentityProvider" => Accepts(StageOf(call), realm)
    /\ call.pc = "refused" => call.beside \/ call.method = "ensureIdentityProvider"

KRInv ==
    /\ KRTypeOK
    /\ "globalIdp" \notin krRealm
    /\ krCount = 0 => \A c \in KeycloakCallers : krCalls[c].pc = "idle"
    /\ \A c \in KeycloakCallers : CallInOrder(krCalls[c], krRealm)
    /\ \A c, d \in KeycloakCallers :
           c # d /\ Running(c) /\ Running(d) => krCalls[c].beside
===============================================================================
