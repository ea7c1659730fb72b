------------------------ MODULE AccountProvisioning ------------------------
(***************************************************************************)
(* How a tenant's account comes about: an API request writes the account   *)
(* (admin.service.ts, account.service.ts) and starts a Temporal workflow   *)
(* (accountProvisioning.workflow.ts) that sets up a Keycloak realm for it  *)
(* (KeycloakAuthAdapter.ts), records the outcome in the account's status   *)
(* and mails the owner a password.                                         *)
(*                                                                         *)
(* All requests here are for one external account id; those for different  *)
(* ids share neither rows nor realms.  Each request starts at most one     *)
(* workflow, so a request also names its workflow.                         *)
(*                                                                         *)
(* Temporal runs an activity in attempts.  An attempt that exceeds its     *)
(* start-to-close timeout is given up by the workflow, but nothing stops   *)
(* the worker that runs it (no activity sends heartbeats), so it may go on *)
(* beside the next attempt and after the end of the workflow.              *)
(***************************************************************************)
EXTENDS Naturals, Sequences, FiniteSets

CONSTANTS
    Requests,     \* provisionAccount calls for the external account id
    Accounts,     \* account rows with that id (not yet inserted: unused)
    Owners,       \* e-mail addresses of account owners
    Owner,        \* Owner[p]: the initialAccountOwnerEmail of request p
    MaxAttempts,  \* retry.maximumAttempts of the activities, 3 in the code
    NULL

ASSUME ConstantsAssumption ==
    /\ Owner \in [Requests -> Owners]
    /\ MaxAttempts \in Nat \ {0}
    /\ NULL \notin Accounts
    /\ NULL \notin Requests \X (1..MaxAttempts)   \* NULL is no password

VARIABLES
    account,   \* the rows of table accounts, with their AccountOwner members
    request,   \* requests in provisionAccount
    workflow,  \* their workflows, as Temporal's history has them
    auth,      \* auth[p][n]: how far attempt n of provisionExternalAuth is
    update,    \* update[p]: attempts of updateAccountStatus still running
    realm,     \* the Keycloak realm named after the external account id
    mailbox,   \* mailbox[o]: the password last mailed to o
    lost       \* how many attempts of updateAccountStatus were given up

vars == <<account, request, workflow, auth, update, realm, mailbox, lost>>

-----------------------------------------------------------------------------
Attempts == 1..MaxAttempts
Statuses == {"PROVISIONING", "PROVISION_FAILED", "ACTIVE"}
Outcomes == Statuses \ {"PROVISIONING"}

(* A password is named by the attempt that draws it. *)
Passwords == Requests \X Attempts

(* The steps of KeycloakAuthAdapter.provisionAccount.  The steps of the    *)
(* clients are taken for each account level client in turn; they share no  *)
(* state, so one stands for all of them.                                   *)
Parts == {"realm", "realmRoles", "client", "clientRoles", "clientMappers"}
Steps == <<"realm", "realmRoles", "client", "clientRoles", "clientMappers",
           "owner", "ownerRoles", "password">>

NoAccount == [status |-> "Absent", owners |-> {}]
NoRequest == [pc |-> "idle", found |-> NULL]
NoWorkflow == [pc |-> "none", attempt |-> 0, password |-> NULL]

Init == /\ account = [a \in Accounts |-> NoAccount]
        /\ request = [p \in Requests |-> NoRequest]
        /\ workflow = [p \in Requests |-> NoWorkflow]
        /\ auth = [p \in Requests |-> [n \in Attempts |-> 0]]
        /\ update = [p \in Requests |-> {}]
        /\ realm = [parts |-> {}, users |-> {}, admins |-> {},
                    password |-> [o \in Owners |-> NULL]]
        /\ mailbox = [o \in Owners |-> NULL]
        /\ lost = 0

Exists(a) == account[a].status # "Absent"

-----------------------------------------------------------------------------
(* The decisions of the code.  Next to some of them stands the form a slip *)
(* would give them.                                                        *)

(* A new row is PROVISIONING; a row that was found is kept as it is.  The  *)
(* owner of the request becomes a member with the role AccountOwner.       *)
RowMemberOfNewOnly(row, o) ==
    IF row = NoAccount THEN [status |-> "PROVISIONING", owners |-> {o}] ELSE row
RowBegunAgain(row, o) == [status |-> "PROVISIONING", owners |-> row.owners \cup {o}]
Row(row, o) ==
    [status |-> IF row = NoAccount THEN "PROVISIONING" ELSE row.status,
     owners |-> row.owners \cup {o}]

(* Each step looks for what it ensures and creates what is missing.  The   *)
(* account level roles and mappers are the same for every request, so      *)
(* nothing one attempt leaves is undesired by another.                     *)
WithPart(r, part) == [r EXCEPT !.parts = @ \cup {part}]
EnsureRealm(r) == WithPart(r, "realm")
EnsureRealmRoles(r) == WithPart(r, "realmRoles")
EnsureClient(r) == WithPart(r, "client")

(* The roles and the mappers are put on the client that is found.          *)
EnsureClientRoles(r) == IF "client" \in r.parts THEN WithPart(r, "clientRoles") ELSE r
EnsureClientMappers(r) == IF "client" \in r.parts THEN WithPart(r, "clientMappers") ELSE r

EnsureUser(r, o) == [r EXCEPT !.users = @ \cup {o}]

(* The user has the desired roles that the realm has, and no others.       *)
EnsureUserRoles(r, o) ==
    [r EXCEPT !.admins = IF "realmRoles" \in r.parts THEN @ \cup {o} ELSE @ \ {o}]

EnsureResetUserPassword(r, o, secret) == [r EXCEPT !.password[o] = secret]

(* What step number i leaves in realm r, for owner o.                      *)
Ensured(r, i, o, secret) ==
    LET step == Steps[i]
    IN  CASE step = "realm"         -> EnsureRealm(r)
          [] step = "realmRoles"    -> EnsureRealmRoles(r)
          [] step = "client"        -> EnsureClient(r)
          [] step = "clientRoles"   -> EnsureClientRoles(r)
          [] step = "clientMappers" -> EnsureClientMappers(r)
          [] step = "owner"         -> EnsureUser(r, o)
          [] step = "ownerRoles"    -> EnsureUserRoles(r, o)
          [] step = "password"      -> EnsureResetUserPassword(r, o, secret)

(* An attempt has the e-mail to return once it has taken every step. *)
ReturnsBeforeLast(position) == position >= Len(Steps)
Returns(position) == position > Len(Steps)

(* The status each phase of the workflow records. *)
RecordsAFailure(pc) == IF pc = "activate" THEN "ACTIVE" ELSE "FAILED"
Records(pc) == IF pc = "activate" THEN "ACTIVE" ELSE "PROVISION_FAILED"

(* Where the workflow goes when an activity succeeds, and when its last    *)
(* attempt fails: the catch clause records the failure and throws again.   *)
AfterSuccess(pc) ==
    [auth |-> "activate", activate |-> "email", compensate |-> "failed"][pc]
AfterFailureUncaught(pc) == "failed"
AfterFailure(pc) == IF pc = "compensate" THEN "failed" ELSE "compensate"

(* The attempt after attempt n. *)
NextAttemptUncounted(n) == n
NextAttempt(n) == n + 1

-----------------------------------------------------------------------------
(* The workflow moves on to phase pc with attempt n: the activity of that  *)
(* phase, if it has one, is scheduled on a worker.                         *)
Enter(p, pc, n) ==
    /\ workflow' = [workflow EXCEPT ![p].pc = pc, ![p].attempt = n]
    /\ auth' = IF pc = "auth" THEN [auth EXCEPT ![p][n] = 1] ELSE auth

Scheduled(p, pc, n) ==
    IF pc \in {"activate", "compensate"} THEN {<<Records(pc), n>>} ELSE {}

(* The attempt the workflow waits for is given up: retry, or move on. *)
Retry(p, running) ==
    LET pc == workflow[p].pc
        last == workflow[p].attempt = MaxAttempts
        newPc == IF last THEN AfterFailure(pc) ELSE pc
        n == IF last THEN 1 ELSE NextAttempt(workflow[p].attempt)
    IN /\ Enter(p, newPc, n)
       /\ update' = [update EXCEPT ![p] = running \cup Scheduled(p, newPc, n)]

-----------------------------------------------------------------------------
(* provisionAccount *)

(* Inside the transaction: does a live account of this id exist?  Rows of  *)
(* transactions that have not committed are not seen.                      *)
CheckAccount(p) ==
    /\ request[p].pc = "idle"
    /\ \/ \E a \in Accounts :
             /\ Exists(a)
             /\ request' = [request EXCEPT ![p] = [pc |-> "checked", found |-> a]]
       \/ /\ \A a \in Accounts : ~ Exists(a)
          /\ request' = [request EXCEPT ![p] = [pc |-> "checked", found |-> NULL]]
    /\ UNCHANGED <<account, workflow, auth, update, realm, mailbox, lost>>

(* The transaction commits: account, roles, owner principal, membership.   *)
(* The unique index on (extAccountId, deletedAt) does not hold back a      *)
(* second row, since deletedAt is null in both.                            *)
CommitAccount(p) ==
    /\ request[p].pc = "checked"
    /\ \E a \in Accounts :
          /\ IF request[p].found = NULL THEN ~ Exists(a) ELSE a = request[p].found
          /\ account' = [account EXCEPT ![a] = Row(@, Owner[p])]
    /\ request' = [request EXCEPT ![p].pc = "committed"]
    /\ UNCHANGED <<workflow, auth, update, realm, mailbox, lost>>

(* workflow.start: the workflow begins with its first activity. *)
StartWorkflow(p) ==
    /\ request[p].pc = "committed"
    /\ request' = [request EXCEPT ![p].pc = "done"]
    /\ Enter(p, "auth", 1)
    /\ UNCHANGED <<account, update, realm, mailbox, lost>>

(* The transaction is rolled back, or, after it has committed, Temporal    *)
(* cannot be reached, has a workflow of that id, or the process dies.      *)
FailRequest(p) ==
    /\ request[p].pc \in {"checked", "committed"}
    /\ request' = [request EXCEPT ![p].pc = "done"]
    /\ UNCHANGED <<account, workflow, auth, update, realm, mailbox, lost>>

-----------------------------------------------------------------------------
(* provisionExternalAuth *)

(* Any attempt still running takes its next step, awaited or not. *)
AuthStep(p, n) ==
    /\ auth[p][n] \in 1..Len(Steps)
    /\ realm' = Ensured(realm, auth[p][n], Owner[p], <<p, n>>)
    /\ auth' = [auth EXCEPT ![p][n] = @ + 1]
    /\ UNCHANGED <<account, request, workflow, update, mailbox, lost>>

(* An attempt nobody waits for any more ends: an error, or the worker dies. *)
AuthDies(p, n) ==
    /\ auth[p][n] # 0
    /\ ~ (workflow[p].pc = "auth" /\ workflow[p].attempt = n)
    /\ auth' = [auth EXCEPT ![p][n] = 0]
    /\ UNCHANGED <<account, request, workflow, update, realm, mailbox, lost>>

(* The attempt the workflow waits for returns the e-mail it has rendered. *)
AuthReturns(p) ==
    /\ workflow[p].pc = "auth"
    /\ Returns(auth[p][workflow[p].attempt])
    /\ workflow' = [workflow EXCEPT ![p].pc = AfterSuccess("auth"),
                                    ![p].password = <<p, workflow[p].attempt>>,
                                    ![p].attempt = 1]
    /\ auth' = [auth EXCEPT ![p][workflow[p].attempt] = 0]
    /\ update' = [update EXCEPT ![p] = @ \cup Scheduled(p, "activate", 1)]
    /\ UNCHANGED <<account, request, realm, mailbox, lost>>

(* It throws, or five minutes pass and it is given up while it runs on. *)
AuthGivenUp(p) ==
    /\ workflow[p].pc = "auth"
    /\ Retry(p, update[p])
    /\ UNCHANGED <<account, request, realm, mailbox, lost>>

-----------------------------------------------------------------------------
(* updateAccountStatus *)

Awaited(p) == <<Records(workflow[p].pc), workflow[p].attempt>>

(* An attempt writes the status to the first row it finds; which one that  *)
(* is among several is up to the database.                                 *)
Write(status) ==
    \E a \in Accounts : /\ Exists(a)
                        /\ account' = [account EXCEPT ![a].status = status]

(* The awaited attempt writes and the workflow learns of it. *)
UpdateReturns(p) ==
    /\ workflow[p].pc \in {"activate", "compensate"}
    /\ Awaited(p) \in update[p]
    /\ Write(Records(workflow[p].pc))
    /\ workflow' = [workflow EXCEPT ![p].pc = AfterSuccess(workflow[p].pc)]
    /\ update' = [update EXCEPT ![p] = @ \ {Awaited(p)}]
    /\ UNCHANGED <<request, auth, realm, mailbox, lost>>

(* The awaited attempt is given up: it died before it wrote anything, or   *)
(* it is still running, or it has written and its answer is lost.          *)
UpdateGivenUp(p) ==
    /\ workflow[p].pc \in {"activate", "compensate"}
    /\ \/ /\ \/ Retry(p, update[p] \ {Awaited(p)})
             \/ Retry(p, update[p])
          /\ UNCHANGED account
       \/ /\ Write(Records(workflow[p].pc))
          /\ Retry(p, update[p] \ {Awaited(p)})
    /\ lost' = lost + 1
    /\ UNCHANGED <<request, realm, mailbox>>

(* An attempt that was given up writes late. *)
UpdateWritesLate(p) ==
    /\ \E u \in update[p] :
          /\ ~ (workflow[p].pc \in {"activate", "compensate"} /\ u = Awaited(p))
          /\ Write(u[1])
          /\ update' = [update EXCEPT ![p] = @ \ {u}]
    /\ UNCHANGED <<request, workflow, auth, realm, mailbox, lost>>

-----------------------------------------------------------------------------
(* sendEmail is retried without limit: the mail may be sent by an attempt  *)
(* that is then given up, and again by the next.                           *)
SendEmail(p) ==
    /\ workflow[p].pc = "email"
    /\ mailbox' = [mailbox EXCEPT ![Owner[p]] = workflow[p].password]
    /\ \/ workflow' = [workflow EXCEPT ![p].pc = "succeeded"]
       \/ UNCHANGED workflow
    /\ UNCHANGED <<account, request, auth, update, realm, lost>>

EmailAccepted(p) == SendEmail(p) /\ workflow'[p].pc = "succeeded"

-----------------------------------------------------------------------------
Next == \E p \in Requests :
            \/ CheckAccount(p)
            \/ CommitAccount(p)
            \/ StartWorkflow(p)
            \/ FailRequest(p)
            \/ \E n \in Attempts : AuthStep(p, n) \/ AuthDies(p, n)
            \/ AuthReturns(p)
            \/ AuthGivenUp(p)
            \/ UpdateReturns(p)
            \/ UpdateGivenUp(p)
            \/ UpdateWritesLate(p)
            \/ SendEmail(p)

Spec == Init /\ [][Next]_vars

(* Temporal sees to it that an attempt of a workflow is either answered or *)
(* given up, and an SMTP server that is asked again and again accepts the  *)
(* mail.  Nothing else is assumed: a request may fail after its commit,    *)
(* and an attempt that was given up may stop or go on.                     *)
Fairness ==
    \A p \in Requests :
        /\ WF_vars(AuthReturns(p) \/ AuthGivenUp(p))
        /\ WF_vars(UpdateReturns(p) \/ UpdateGivenUp(p))
        /\ WF_vars(EmailAccepted(p))

FairSpec == Spec /\ Fairness

-----------------------------------------------------------------------------
(* Properties *)

RowType == [status : Statuses \cup {"Absent"}, owners : SUBSET Owners]
RequestType == [pc : {"idle", "checked", "committed", "done"},
                found : Accounts \cup {NULL}]
WorkflowType == [pc : {"none", "auth", "activate", "email", "compensate",
                       "succeeded", "failed"},
                 attempt : 0..MaxAttempts,
                 password : Passwords \cup {NULL}]
RealmType == [parts : SUBSET Parts, users : SUBSET Owners,
              admins : SUBSET Owners,
              password : [Owners -> Passwords \cup {NULL}]]

(* Rows, workflows, attempts and the realm are well formed: the statuses   *)
(* written are those of AccountStatusEnum and no attempt is numbered past  *)
(* the limit of the retry policy.                                          *)
TypeOK ==
    /\ account \in [Accounts -> RowType]
    /\ request \in [Requests -> RequestType]
    /\ workflow \in [Requests -> WorkflowType]
    /\ auth \in [Requests -> [Attempts -> 0..(Len(Steps) + 1)]]
    /\ update \in [Requests -> SUBSET (Outcomes \X Attempts)]
    /\ realm \in RealmType
    /\ mailbox \in [Owners -> Passwords \cup {NULL}]
    /\ lost \in Nat

(* An ACTIVE account can be used: its realm is complete and has a user who *)
(* administers it and has a password, however the attempts of the          *)
(* workflows have overlapped and whichever of them wrote the status.       *)
ActiveIsProvisioned ==
    (\E a \in Accounts : account[a].status = "ACTIVE") =>
        /\ realm.parts = Parts
        /\ \E o \in realm.users \cap realm.admins : realm.password[o] # NULL

(* Whoever is given a user in the realm is an owner of the account in the  *)
(* control plane, though the two are written by different processes.       *)
OwnersAreMembers ==
    realm.users \subseteq UNION {account[a].owners : a \in Accounts}

Started == {p \in Requests : workflow[p].pc # "none"}

(* If one workflow was started and not every attempt of an update was lost *)
(* then the account's status tells how the workflow ended: a failed        *)
(* workflow leaves no account PROVISIONING, and no late write undoes what  *)
(* the last phase has recorded.                                            *)
OutcomeRecorded ==
    \A p \in Requests :
        /\ Started = {p}
        /\ lost < MaxAttempts
        /\ workflow[p].pc \in {"succeeded", "failed"}
        => \E a \in Accounts :
              account[a].status =
                  IF workflow[p].pc = "succeeded" THEN "ACTIVE" ELSE "PROVISION_FAILED"

(* Every workflow that is started ends, whatever fails on its way. *)
WorkflowEnds ==
    \A p \in Requests :
        workflow[p].pc = "auth" ~> workflow[p].pc \in {"succeeded", "failed"}

(* An account that is PROVISIONING is being created: somebody is about to  *)
(* start its workflow, or its workflow has not ended.                      *)
ProvisioningIsUnderWay ==
    (\E a \in Accounts : account[a].status = "PROVISIONING") =>
        \E p \in Requests :
            \/ request[p].pc \in {"checked", "committed"}
            \/ workflow[p].pc \notin {"none", "succeeded", "failed"}

(* Once every workflow has ended, an owner who was mailed a password can   *)
(* log in with it.                                                         *)
MailedPasswordWorks ==
    (\A p \in Requests : workflow[p].pc \in {"none", "succeeded", "failed"}) =>
        \A o \in Owners : mailbox[o] # NULL => mailbox[o] = realm.password[o]

-----------------------------------------------------------------------------
(* The inductive invariant *)

(* A request starts its workflow last.  A workflow that runs is in an      *)
(* attempt; before it starts it has no activity, and it has a password     *)
(* once provisionExternalAuth has returned.                                *)
WorkflowInOrder(p) ==
    /\ request[p].pc # "done" => workflow[p].pc = "none"
    /\ workflow[p].pc # "none" => workflow[p].attempt \in Attempts
    /\ workflow[p].pc = "none" =>
           /\ workflow[p].password = NULL
           /\ update[p] = {}
           /\ \A n \in Attempts : auth[p][n] = 0
    /\ workflow[p].pc \in {"activate", "email", "succeeded"} =>
           workflow[p].password # NULL

(* What an attempt has been through is there, whatever the others do: the  *)
(* parts of the realm stay, and so do the owner, the role and a password.  *)
StepsStay(p, n) ==
    /\ \A i \in 1..5 : auth[p][n] > i => Steps[i] \in realm.parts
    /\ auth[p][n] > 6 => Owner[p] \in realm.users
    /\ auth[p][n] > 7 => Owner[p] \in realm.admins
    /\ auth[p][n] > 8 => realm.password[Owner[p]] # NULL

Complete(p) == /\ realm.parts = Parts
               /\ Owner[p] \in realm.users \cap realm.admins
               /\ realm.password[Owner[p]] # NULL

(* Only a workflow that has its password writes ACTIVE, and the realm is   *)
(* complete for that workflow's owner from then on.                        *)
ActiveIsEarned ==
    /\ \A p \in Requests : workflow[p].password # NULL => Complete(p)
    /\ \A p \in Requests : \A u \in update[p] :
           u[1] = "ACTIVE" => workflow[p].password # NULL
    /\ \A a \in Accounts : account[a].status = "ACTIVE" =>
           \E p \in Requests : workflow[p].password # NULL

Members == UNION {account[a].owners : a \in Accounts}

(* The owner is a member before the workflow is started. *)
OwnerJoinsFirst(p) ==
    request[p].pc = "committed" \/ workflow[p].pc # "none" => Owner[p] \in Members

(* As long as a single workflow was started and fewer attempts of updates  *)
(* were given up than it has, only the status of its present phase is on   *)
(* its way, and the phases that follow a record find the status recorded.  *)
OutcomeOnItsWay(p) ==
    LET pc == workflow[p].pc
    IN  Started = {p} /\ lost < MaxAttempts =>
            /\ pc = "auth" => update[p] = {}
            /\ pc \in {"activate", "email", "succeeded"} =>
                   \A u \in update[p] : u[1] = "ACTIVE"
            /\ pc \in {"compensate", "failed"} =>
                   \A u \in update[p] : u[1] = "PROVISION_FAILED"
            /\ pc \in {"activate", "compensate"} => workflow[p].attempt <= lost + 1
            /\ pc \in {"email", "succeeded"} =>
                   \E a \in Accounts : account[a].status = "ACTIVE"
            /\ pc = "failed" =>
                   \E a \in Accounts : account[a].status = "PROVISION_FAILED"

(* A row that is not there names nobody. *)
RowsInOrder == \A a \in Accounts : ~ Exists(a) => account[a].owners = {}

(* The realm is set up in the order of the steps: nobody has a password    *)
(* who does not administer it, nobody administers it without a user, and   *)
(* there is no user before all parts are there.                            *)
RealmInOrder ==
    /\ \A o \in Owners : realm.password[o] # NULL => o \in realm.admins
    /\ realm.admins \subseteq realm.users
    /\ realm.users # {} => realm.parts = Parts

IInv ==
    /\ TypeOK /\ RowsInOrder /\ RealmInOrder
    /\ \A p \in Requests :
           /\ WorkflowInOrder(p)
           /\ \A n \in Attempts : StepsStay(p, n)
           /\ OwnerJoinsFirst(p)
           /\ OutcomeOnItsWay(p)
    /\ ActiveIsEarned
    /\ OwnersAreMembers

-----------------------------------------------------------------------------
(* Requests, workflows and attempts keep the promise of AccountLife.  One  *)
(* is able to log in as administrator from the step that completes the     *)
(* realm for him, whether or not anybody waits for the attempt it is of.   *)
AbleOwners == {o \in realm.users \cap realm.admins :
                  realm.parts = Parts /\ realm.password[o] # NULL}

RowStatus == [a \in Accounts |-> account[a].status]
RowOwners == [a \in Accounts |-> account[a].owners]

Life == INSTANCE AccountLife
            WITH status <- RowStatus, members <- RowOwners, able <- AbleOwners
LifeSpec == Life!Spec
=============================================================================
