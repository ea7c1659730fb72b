------------------------------- MODULE Access --------------------------------
(***************************************************************************)
(* How the API admits a request: authenticationMiddleware reads the token, *)
(* fetches the keys of its issuer, verifies it and looks its principal up  *)
(* by email; every service function asks Cerbos with what was read then,   *)
(* some of them twice, around look-ups of their own; errorHandler turns    *)
(* what was thrown into a status.  Meanwhile other requests give roles to  *)
(* the same principal (createPrincipalTx) and people take them back.       *)
(***************************************************************************)
EXTENDS Naturals, Sequences, SequencesExt

CONSTANT Requests   \* the requests of one principal that may be under way

VARIABLES
    axRoles,     \* the system roles of the principal in the database
    axKnown,     \* is there a principal of that email?
    axRequests   \* per request: its operation, the steps left to do, the
                 \* roles it was authenticated with, the answer, and as
                 \* history whether a check of it has been passed

axVars == <<axRoles, axKnown, axRequests>>

SystemRoles == {"SystemRole", "UserRole"}

-----------------------------------------------------------------------------
(* The operations: permission checks and look-ups, in the code's order.    *)
Steps == [provisionWorkspace |-> <<"check", "check", "find", "work">>,
          provisionAccount   |-> <<"check", "check", "work">>,
          getWorkspace       |-> <<"check", "find">>,
          getAccount         |-> <<"check", "find">>,
          getAccountByExtId  |-> <<"find", "check">>,
          listOwnedAccounts  |-> <<"check">>]
Operations == DOMAIN Steps

(* The policies.  Those for members of an account ask for attributes       *)
(* account_role and account_roles, which getPrincipalAuthInfo never sets.  *)
Allowed(operation, roles) ==
    CASE operation \in {"provisionWorkspace", "getWorkspace"} -> "UserRole" \in roles
      [] operation = "listOwnedAccounts" -> FALSE
      [] OTHER -> "SystemRole" \in roles

(* The roles a check is made with: those of the request.                   *)
RolesNow(request) == axRoles
RolesChecked(request) == request.roles

Idle == [pc |-> "idle", op |-> "getWorkspace", left |-> <<>>, roles |-> {},
         status |-> 0, passed |-> FALSE]
AXInit ==
    /\ axRoles = {}
    /\ axKnown = FALSE
    /\ axRequests = [r \in Requests |-> Idle]

Answer(r, status) ==
    /\ axRequests' = [axRequests EXCEPT ![r].pc = "answered", ![r].status = status]
    /\ UNCHANGED <<axRoles, axKnown>>

-----------------------------------------------------------------------------
(* createPrincipalTx makes the principal if need be, and adds the role.    *)
GrantRole(role) ==
    /\ axKnown' = TRUE
    /\ axRoles' = axRoles \cup {role}
    /\ UNCHANGED axRequests

RevokeRole(role) ==
    /\ axRoles' = axRoles \ {role}
    /\ UNCHANGED <<axKnown, axRequests>>

Arrive(r, operation) ==
    /\ axRequests[r].pc = "idle"
    /\ axRequests' = [axRequests EXCEPT ![r] =
           [Idle EXCEPT !.pc = "token", !.op = operation, !.left = Steps[operation]]]
    /\ UNCHANGED <<axRoles, axKnown>>

(* A bearer token with an email, verified by the keys of its issuer.       *)
VerifyToken(r) ==
    /\ axRequests[r].pc = "token"
    /\ axRequests' = [axRequests EXCEPT ![r].pc = "verified"]
    /\ UNCHANGED <<axRoles, axKnown>>

ResolvePrincipal(r) ==
    /\ axRequests[r].pc = "verified"
    /\ axKnown
    /\ axRequests' = [axRequests EXCEPT ![r].pc = "steps", ![r].roles = axRoles]
    /\ UNCHANGED <<axRoles, axKnown>>

(* No token, a malformed or foreign one, an unknown email, and just as     *)
(* well a key server or a database that cannot be reached.                 *)
Unauthenticated(r) ==
    /\ axRequests[r].pc \in {"token", "verified"}
    /\ Answer(r, 401)

NextStep(r, step) == axRequests[r].pc = "steps" /\ axRequests[r].left # <<>>
                     /\ Head(axRequests[r].left) = step

CheckPermission(r) ==
    /\ NextStep(r, "check")
    /\ IF Allowed(axRequests[r].op, RolesChecked(axRequests[r]))
       THEN /\ axRequests' = [axRequests EXCEPT ![r].left = Tail(@), ![r].passed = TRUE]
            /\ UNCHANGED <<axRoles, axKnown>>
       ELSE Answer(r, 403)

Find(r) ==
    /\ NextStep(r, "find")
    /\ \/ /\ axRequests' = [axRequests EXCEPT ![r].left = Tail(@)]
          /\ UNCHANGED <<axRoles, axKnown>>
       \/ Answer(r, 404)

Work(r) ==
    /\ NextStep(r, "work")
    /\ axRequests' = [axRequests EXCEPT ![r].left = Tail(@)]
    /\ UNCHANGED <<axRoles, axKnown>>

(* Cerbos or the database fails: no status of its own.                     *)
Fails(r) == axRequests[r].pc = "steps" /\ axRequests[r].left # <<>> /\ Answer(r, 500)

Succeeds(r) == axRequests[r].pc = "steps" /\ axRequests[r].left = <<>> /\ Answer(r, 200)

AXNext ==
    \/ \E role \in SystemRoles : GrantRole(role) \/ RevokeRole(role)
    \/ \E r \in Requests :
          \/ \E o \in Operations : Arrive(r, o)
          \/ VerifyToken(r) \/ ResolvePrincipal(r) \/ Unauthenticated(r)
          \/ CheckPermission(r) \/ Find(r) \/ Work(r) \/ Fails(r) \/ Succeeds(r)

AXSpec == AXInit /\ [][AXNext]_axVars

-----------------------------------------------------------------------------
(* A request has done the steps of its operation in their order, and has a *)
(* status exactly when it is answered.                                     *)
AXTypeOK ==
    /\ axRoles \subseteq SystemRoles
    /\ axRoles # {} => axKnown
    /\ \A r \in Requests :
          /\ axRequests[r].roles \subseteq SystemRoles
          /\ IsSuffix(axRequests[r].left, Steps[axRequests[r].op])
          /\ (axRequests[r].status # 0) <=> axRequests[r].pc = "answered"

(* The checks of one request agree, however roles are given and taken      *)
(* while it runs: one that has passed its first check, and may have begun  *)
(* a transaction, is not forbidden by a later one; and success means that  *)
(* the roles of the moment of authentication allowed it.                   *)
ChecksAgree ==
    \A r \in Requests :
        /\ axRequests[r].passed => axRequests[r].status # 403
        /\ axRequests[r].status = 200 => Allowed(axRequests[r].op, axRequests[r].roles)

-----------------------------------------------------------------------------
(* The inductive invariant                                                 *)

StepNames == {"check", "find", "work"}
Statuses == {0, 200, 401, 403, 404, 500}
RequestStates ==
    [pc : {"idle", "token", "verified", "steps", "answered"}, op : Operations,
     left : Seq(StepNames), roles : SUBSET SystemRoles,
     status : Statuses, passed : BOOLEAN]

ChecksLeft(steps) == \E i \in 1..Len(steps) : steps[i] = "check"

(* No request gets through its steps without a check, and what the roles   *)
(* it was authenticated with allow once they allow for good.               *)
CheckedOnTheWay ==
    \A r \in Requests :
        LET request == axRequests[r]
        IN  /\ request.pc \in {"token", "verified", "steps"} =>
                   request.passed \/ ChecksLeft(request.left)
            /\ request.passed => /\ request.pc \in {"steps", "answered"}
                                 /\ Allowed(request.op, request.roles)
            /\ request.status = 200 => request.passed
            /\ request.status = 403 => ~ request.passed
            /\ request.pc # "answered" => request.status = 0

AXInv == /\ axRequests \in [Requests -> RequestStates]
         /\ CheckedOnTheWay
=============================================================================
