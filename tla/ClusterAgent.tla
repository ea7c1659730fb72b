---------------------------- MODULE ClusterAgent ----------------------------
(***************************************************************************)
(* The life of a workspace's cluster agent in the control plane:           *)
(* provisioning, bootstrap tokens, registration, and the sync calls of a   *)
(* registered agent (workspace.service.ts), with the bootstrap script that *)
(* registers the tenant's cluster and keeps the certificate it is given    *)
(* (bootstrap.sh).                                                         *)
(*                                                                         *)
(* The API is one Node process over Postgres.  A handler runs alone        *)
(* between two awaits, so each of its database calls is a step, and        *)
(* anything may happen between two steps of a handler.  A prisma           *)
(* $transaction is one step: its rows appear together or not at all.  A    *)
(* findFirst or findUnique with `include' is one query per table, so the   *)
(* token row and the agent row a registration works with are read in two   *)
(* steps.                                                                  *)
(*                                                                         *)
(* The certificate authority, Postgres, the reverse proxy and the person   *)
(* who suspends or deletes an agent in the database (no code in the        *)
(* repository does, though every handler checks for it) are external.      *)
(***************************************************************************)
EXTENDS Naturals, FiniteSets

CONSTANTS
    Agents,          \* cluster agents; provisioning creates one per workspace,
                     \* so an agent also stands for its workspace and cluster
    ExtIds,          \* external workspace ids
    ExtWorkspaceId,  \* ExtWorkspaceId[a]: the id of a's workspace; two live
                     \* workspaces may share one, no constraint forbids it
    Tokens,          \* bootstrap tokens (rows not yet inserted are unused)
    Credentials,     \* mTLS credentials (likewise)
    Registrations,   \* POST /agent/register requests served at a time
    Generations,     \* generateBootstrapToken requests served at a time
    Syncs,           \* POST /agent/sync requests served at a time
    TokenTTL,        \* the life of a token: 24 hours, in ticks
    MaxClock,        \* bound on the clock
    NULL

ASSUME ConstantsAssumption ==
    /\ ExtWorkspaceId \in [Agents -> ExtIds]
    /\ TokenTTL \in Nat
    /\ MaxClock \in Nat
    /\ NULL \notin Agents \cup Tokens \cup Credentials

VARIABLES
    clock,       \* new Date() of the API process
    agent,       \* table workspace_cluster_agents
    token,       \* table workspace_cluster_agent_bootstrap_tokens
    credential,  \* table workspace_cluster_agent_mtls_credentials
    register,    \* requests in registerWorkspaceClusterAgent
    generate,    \* requests in generateBootstrapToken
    sync,        \* requests in syncAgent
    installed    \* installed[a]: the certificate in the cluster of a

database == <<agent, token, credential>>
vars == <<clock, agent, token, credential, register, generate, sync, installed>>

-----------------------------------------------------------------------------
(* Tables and requests.  A row whose owner is NULL does not exist yet.     *)

Statuses == {"PendingRegistration", "Active", "Suspended", "Deleted"}

(* `pinged' says whether lastPingAt is set; nothing reads the time in it. *)
AgentRows == [status : Statuses \cup {"Absent"},
              bootstrapToken : Tokens \cup {NULL},
              mtlsCredential : Credentials \cup {NULL},
              pinged : BOOLEAN]

TokenRows == [agent : Agents \cup {NULL}, createdAt : Nat, expiredAt : Nat]

(* `token' and `presentedAt' are history: the token the credential was     *)
(* issued for and when that token was looked up.  No column records them.  *)
CredentialRows == [agent : Agents \cup {NULL},
                   token : Tokens \cup {NULL},
                   presentedAt : Nat]

(* A registration: the cluster it comes from, the token it presents, what  *)
(* it has read (`deadline' is the token's expiredAt), the answer.          *)
RegisterRequests == [pc : {"idle", "tokenRead", "issuing", "answered"},
                     cluster : Agents \cup {NULL},
                     token : Tokens \cup {NULL},
                     deadline : Nat,
                     presentedAt : Nat,
                     credential : Credentials \cup {NULL}]

GenerateRequests == [pc : {"idle", "agentRead"},
                     agent : Agents \cup {NULL},
                     oldToken : Tokens \cup {NULL}]

(* `checkedAt' is history: when the status of the agent was read. *)
SyncRequests == [pc : {"idle", "statusRead"},
                 agent : Agents \cup {NULL},
                 checkedAt : Nat]

NoAgent == [status |-> "Absent", bootstrapToken |-> NULL,
            mtlsCredential |-> NULL, pinged |-> FALSE]
NoToken == [agent |-> NULL, createdAt |-> 0, expiredAt |-> 0]
NoCredential == [agent |-> NULL, token |-> NULL, presentedAt |-> 0]
NoRegister == [pc |-> "idle", cluster |-> NULL, token |-> NULL, deadline |-> 0,
               presentedAt |-> 0, credential |-> NULL]
NoGenerate == [pc |-> "idle", agent |-> NULL, oldToken |-> NULL]
NoSync == [pc |-> "idle", agent |-> NULL, checkedAt |-> 0]

Init == /\ clock = 0
        /\ agent = [a \in Agents |-> NoAgent]
        /\ token = [t \in Tokens |-> NoToken]
        /\ credential = [c \in Credentials |-> NoCredential]
        /\ register = [r \in Registrations |-> NoRegister]
        /\ generate = [g \in Generations |-> NoGenerate]
        /\ sync = [s \in Syncs |-> NoSync]
        /\ installed = [a \in Agents |-> NULL]

-----------------------------------------------------------------------------
(* The decisions and the writes the handlers are made of.  Next to some of *)
(* them stands the form a slip in the code would give them.                *)

(* Where a new token's life ends. *)
ExpiryFrom(now) == now + TokenTTL

(* `new Date() > expiredAt': a token still counts at its last instant. *)
LapsedNextTick(now, deadline) == now > deadline + 1
Lapsed(now, deadline) == now > deadline

(* Registration turns away Deleted (410) and Suspended (403), only these:  *)
(* the check that would turn away an Active agent is commented out.        *)
AdmitsDeleted(status) == status # "Suspended"
Admits(status) == status \notin {"Deleted", "Suspended"}

(* Sync turns away Deleted (410), Suspended and PendingRegistration (403). *)
ServesPending(status) == status \notin {"Deleted", "Suspended"}
Serves(status) == status \notin {"Deleted", "Suspended", "PendingRegistration"}

(* The token row must belong to an agent of the workspace the request      *)
(* names by its external id; any other request gets a 401.                 *)
MatchesToken(cluster, t) == token[t].agent # NULL
Matches(cluster, t) ==
    /\ token[t].agent # NULL
    /\ ExtWorkspaceId[token[t].agent] = ExtWorkspaceId[cluster]

(* Generation invalidates the token it has read by ending its life now. *)
InvalidateNothing(rows, t) == rows
Invalidate(rows, t) ==
    IF t = NULL THEN rows ELSE [rows EXCEPT ![t].expiredAt = clock]

(* A new token row. *)
Issue(rows, t, a) ==
    [rows EXCEPT ![t] = [agent |-> a, createdAt |-> clock,
                         expiredAt |-> ExpiryFrom(clock)]]

(* A new agent row and its token, inserted with its workspace. *)
Provisioned(t) == [NoAgent EXCEPT !.status = "PendingRegistration",
                                  !.bootstrapToken = t]

(* Generation points the agent to the new token and resets its status. *)
ResetStatusOnly(row, t) == [row EXCEPT !.status = "PendingRegistration"]
Reset(row, t) == [row EXCEPT !.status = "PendingRegistration",
                             !.bootstrapToken = t]

(* Registration makes the agent Active and links the new credential. *)
ActivateUnlinked(row, c) == [row EXCEPT !.status = "Active",
                                        !.pinged = TRUE]
Activate(row, c) == [row EXCEPT !.status = "Active",
                                !.pinged = TRUE,
                                !.mtlsCredential = c]

-----------------------------------------------------------------------------
(* Provisioning and the outside world. *)

(* The end of provisionWorkspace's transaction: the agent, its first token *)
(* and the pointers between them.                                          *)
ProvisionWorkspace(a) ==
    /\ agent[a].status = "Absent"
    /\ \E t \in Tokens :
          /\ token[t].agent = NULL
          /\ token' = Issue(token, t, a)
          /\ agent' = [agent EXCEPT ![a] = Provisioned(t)]
    /\ UNCHANGED <<clock, credential, register, generate, sync, installed>>

(* Somebody suspends or deletes the agent in the database. *)
BarAgent(a) ==
    /\ agent[a].status # "Absent"
    /\ \E s \in {"Suspended", "Deleted"} :
          agent' = [agent EXCEPT ![a].status = s]
    /\ UNCHANGED <<clock, token, credential, register, generate, sync, installed>>

Tick ==
    /\ clock < MaxClock
    /\ clock' = clock + 1
    /\ UNCHANGED <<database, register, generate, sync, installed>>

-----------------------------------------------------------------------------
(* generateBootstrapToken *)

(* findUnique of the workspace with its agent: the token the agent has now *)
(* is read outside the transaction.                                        *)
GenerateRead(g, a) ==
    /\ generate[g].pc = "idle"
    /\ agent[a].status # "Absent"
    /\ generate' = [generate EXCEPT ![g] =
                       [pc |-> "agentRead", agent |-> a,
                        oldToken |-> agent[a].bootstrapToken]]
    /\ UNCHANGED <<clock, database, register, sync, installed>>

(* The transaction: end the token that was read, insert a new one, point   *)
(* the agent to it and reset its status, whatever they are by now.         *)
GenerateCommit(g) ==
    /\ generate[g].pc = "agentRead"
    /\ \E t \in Tokens :
          /\ token[t].agent = NULL
          /\ token' = Issue(Invalidate(token, generate[g].oldToken),
                            t, generate[g].agent)
          /\ agent' = [agent EXCEPT ![generate[g].agent] = Reset(@, t)]
    /\ generate' = [generate EXCEPT ![g] = NoGenerate]
    /\ UNCHANGED <<clock, credential, register, sync, installed>>

(* The transaction is rolled back or the process dies before it commits. *)
GenerateFail(g) ==
    /\ generate[g].pc = "agentRead"
    /\ generate' = [generate EXCEPT ![g] = NoGenerate]
    /\ UNCHANGED <<clock, database, register, sync, installed>>

-----------------------------------------------------------------------------
(* registerWorkspaceClusterAgent and the bootstrap script that calls it.   *)

(* The bootstrap script in the cluster of k presents token t; the token    *)
(* row is found by its value and by the external id of k's workspace.  The *)
(* 401 of a request that finds none changes nothing.                       *)
RegisterReadToken(r, k, t) ==
    /\ register[r].pc = "idle"
    /\ agent[k].status # "Absent"
    /\ Matches(k, t)
    /\ register' = [register EXCEPT ![r] =
                       [NoRegister EXCEPT !.pc = "tokenRead",
                                          !.cluster = k,
                                          !.token = t,
                                          !.deadline = token[t].expiredAt,
                                          !.presentedAt = clock]]
    /\ UNCHANGED <<clock, database, generate, sync, installed>>

(* The agent row is read and the checks pass; now the certificate is made. *)
RegisterCheck(r) ==
    /\ register[r].pc = "tokenRead"
    /\ ~ Lapsed(clock, register[r].deadline)
    /\ Admits(agent[token[register[r].token].agent].status)
    /\ register' = [register EXCEPT ![r].pc = "issuing"]
    /\ UNCHANGED <<clock, database, generate, sync, installed>>

(* 401 for an expired token, 410 or 403 for the agent's status. *)
RegisterReject(r) ==
    /\ register[r].pc = "tokenRead"
    /\ \/ Lapsed(clock, register[r].deadline)
       \/ ~ Admits(agent[token[register[r].token].agent].status)
    /\ register' = [register EXCEPT ![r] = NoRegister]
    /\ UNCHANGED <<clock, database, generate, sync, installed>>

(* The certificate is there; the transaction records it and activates the  *)
(* agent without another look at its token or its status.                  *)
RegisterCommit(r) ==
    /\ register[r].pc = "issuing"
    /\ \E c \in Credentials :
          LET t == register[r].token
              a == token[t].agent
          IN /\ credential[c].agent = NULL
             /\ credential' = [credential EXCEPT ![c] =
                                  [agent |-> a, token |-> t,
                                   presentedAt |-> register[r].presentedAt]]
             /\ agent' = [agent EXCEPT ![a] = Activate(@, c)]
             /\ register' = [register EXCEPT ![r].pc = "answered",
                                             ![r].credential = c]
    /\ UNCHANGED <<clock, token, generate, sync, installed>>

(* The CA refuses or cannot be reached, the transaction is rolled back, or *)
(* the process dies: the script exits with an error.                       *)
RegisterFail(r) ==
    /\ register[r].pc \in {"tokenRead", "issuing"}
    /\ register' = [register EXCEPT ![r] = NoRegister]
    /\ UNCHANGED <<clock, database, generate, sync, installed>>

(* The script gets the 200 and stores the certificate in the cluster. *)
StoreCredential(r) ==
    /\ register[r].pc = "answered"
    /\ installed' = [installed EXCEPT ![register[r].cluster] =
                        register[r].credential]
    /\ register' = [register EXCEPT ![r] = NoRegister]
    /\ UNCHANGED <<clock, database, generate, sync>>

(* The answer is lost on its way, or the script dies before storing it. *)
LoseAnswer(r) ==
    /\ register[r].pc = "answered"
    /\ register' = [register EXCEPT ![r] = NoRegister]
    /\ UNCHANGED <<clock, database, generate, sync, installed>>

-----------------------------------------------------------------------------
(* syncAgent *)

(* The proxy passes on the name in the certificate the cluster of k has    *)
(* installed; the agent of that name is read and must not be turned away.  *)
(* The 403 and the 410 change nothing.                                     *)
SyncReadStatus(s, k) ==
    /\ sync[s].pc = "idle"
    /\ installed[k] # NULL
    /\ Serves(agent[credential[installed[k]].agent].status)
    /\ sync' = [sync EXCEPT ![s] = [pc |-> "statusRead",
                                    agent |-> credential[installed[k]].agent,
                                    checkedAt |-> clock]]
    /\ UNCHANGED <<clock, database, register, generate, installed>>

(* The agent is marked as seen and its workspace's configuration answered. *)
SyncCommit(s) ==
    /\ sync[s].pc = "statusRead"
    /\ agent' = [agent EXCEPT ![sync[s].agent].pinged = TRUE]
    /\ sync' = [sync EXCEPT ![s] = NoSync]
    /\ UNCHANGED <<clock, token, credential, register, generate, installed>>

SyncFail(s) ==
    /\ sync[s].pc = "statusRead"
    /\ sync' = [sync EXCEPT ![s] = NoSync]
    /\ UNCHANGED <<clock, database, register, generate, installed>>

-----------------------------------------------------------------------------
Next == \/ Tick
        \/ \E a \in Agents : ProvisionWorkspace(a) \/ BarAgent(a)
        \/ \E g \in Generations :
              \/ \E a \in Agents : GenerateRead(g, a)
              \/ GenerateCommit(g)
              \/ GenerateFail(g)
        \/ \E r \in Registrations :
              \/ \E k \in Agents, t \in Tokens : RegisterReadToken(r, k, t)
              \/ RegisterCheck(r)
              \/ RegisterReject(r)
              \/ RegisterCommit(r)
              \/ RegisterFail(r)
              \/ StoreCredential(r)
              \/ LoseAnswer(r)
        \/ \E s \in Syncs :
              \/ \E k \in Agents : SyncReadStatus(s, k)
              \/ SyncCommit(s)
              \/ SyncFail(s)

Spec == Init /\ [][Next]_vars

-----------------------------------------------------------------------------
(* Properties *)

(* Every table and every request in flight is well formed: the statuses    *)
(* are those of the schema's enum, the references are null or ids.         *)
TypeOK ==
    /\ clock \in Nat
    /\ agent \in [Agents -> AgentRows]
    /\ token \in [Tokens -> TokenRows]
    /\ credential \in [Credentials -> CredentialRows]
    /\ register \in [Registrations -> RegisterRequests]
    /\ generate \in [Generations -> GenerateRequests]
    /\ sync \in [Syncs -> SyncRequests]
    /\ installed \in [Agents -> Credentials \cup {NULL}]

Exists(a) == agent[a].status # "Absent"

(* The token an agent points to is its own and keeps its whole life of     *)
(* 24 hours: generations that overlap end tokens they have read before,    *)
(* and none of them ends the token the agent has by then, the one the UI   *)
(* shows in the bootstrap command.                                         *)
CurrentTokenLasts ==
    \A a \in Agents : Exists(a) =>
        LET t == agent[a].bootstrapToken
        IN /\ t # NULL
           /\ token[t].agent = a
           /\ token[t].expiredAt = token[t].createdAt + TokenTTL

(* An Active agent has a credential, the credential an agent points to is  *)
(* its own, and an agent has been seen exactly if it was ever registered,  *)
(* through every reset, suspension and late sync.                          *)
ActiveIsEnrolled ==
    \A a \in Agents :
        /\ agent[a].status = "Active" => agent[a].mtlsCredential # NULL
        /\ agent[a].mtlsCredential # NULL =>
              credential[agent[a].mtlsCredential].agent = a
        /\ agent[a].pinged <=> agent[a].mtlsCredential # NULL

(* Every credential ever recorded goes back to a bootstrap token of the    *)
(* same agent, looked up after the token was created and not after it      *)
(* ended, even when the token was ended while the registration was still   *)
(* on its way.                                                             *)
CredentialTraceable ==
    \A c \in Credentials : credential[c].agent # NULL =>
        LET t == credential[c].token
        IN /\ t # NULL
           /\ token[t].agent = credential[c].agent
           /\ token[t].createdAt <= credential[c].presentedAt
           /\ credential[c].presentedAt <= token[t].expiredAt

(* A cluster never holds a certificate in the name of an agent of another  *)
(* workspace id than its own, whichever token its bootstrap was given.     *)
IdentityMatches ==
    \A k \in Agents : installed[k] # NULL =>
        /\ credential[installed[k]].agent # NULL
        /\ ExtWorkspaceId[credential[installed[k]].agent] = ExtWorkspaceId[k]

(* While an agent waits to be registered (again), the only sync calls it   *)
(* still answers are those that read its status before the token it waits  *)
(* with was issued.                                                        *)
NoServiceWhilePending ==
    \A s \in Syncs :
        /\ sync[s].pc = "statusRead"
        /\ agent[sync[s].agent].status = "PendingRegistration"
        => sync[s].checkedAt <= token[agent[sync[s].agent].bootstrapToken].createdAt

(* A token an agent no longer points to has ended.  Generations that       *)
(* overlap break this: both read the same token, both end that one, and    *)
(* the token the first of them issued lives on beside the second's.        *)
SupersededTokenEnded ==
    \A t \in Tokens :
        /\ token[t].agent # NULL
        /\ agent[token[t].agent].bootstrapToken # t
        => token[t].expiredAt <= clock

(* An Active agent was registered with the token it points to: a new token *)
(* resets the status, so whoever registered with an older one is out.  A   *)
(* registration that was on its way when the token was replaced breaks it. *)
ActiveThroughCurrentToken ==
    \A a \in Agents : agent[a].status = "Active" =>
        credential[agent[a].mtlsCredential].token = agent[a].bootstrapToken

(* A bootstrap token registers an agent once.  Nothing consumes it. *)
TokenUsedOnce ==
    \A c, d \in Credentials :
        /\ credential[c].agent # NULL
        /\ credential[d].agent # NULL
        /\ credential[c].token = credential[d].token
        => c = d

(* What the tables say of each other: a token belongs to an agent that     *)
(* exists, a credential to an agent that is linked to one, and nothing is  *)
(* dated in the future.                                                    *)
RowsConsistent ==
    /\ \A t \in Tokens : token[t].agent # NULL =>
          /\ Exists(token[t].agent)
          /\ token[t].createdAt <= clock
    /\ \A c \in Credentials : credential[c].agent # NULL =>
          /\ agent[credential[c].agent].mtlsCredential # NULL
          /\ credential[c].presentedAt <= clock

(* What a generation has read: the agent exists and the token was its own. *)
GenerationConsistent(g) ==
    generate[g].pc = "agentRead" =>
        /\ generate[g].agent # NULL
        /\ Exists(generate[g].agent)
        /\ generate[g].oldToken # NULL
        /\ token[generate[g].oldToken].agent = generate[g].agent

(* What a registration has read.  Its deadline may be out of date, but     *)
(* then the token ended after it was looked up.                            *)
RegistrationConsistent(r) ==
    register[r].pc # "idle" =>
        LET q == register[r]
            t == register[r].token
        IN /\ q.cluster # NULL
           /\ t # NULL
           /\ token[t].agent # NULL
           /\ ExtWorkspaceId[token[t].agent] = ExtWorkspaceId[q.cluster]
           /\ token[t].createdAt <= q.presentedAt
           /\ q.presentedAt <= clock
           /\ q.pc = "tokenRead" =>
                 \/ q.deadline <= token[t].expiredAt
                 \/ q.presentedAt <= token[t].expiredAt
           /\ q.pc = "issuing" => q.presentedAt <= token[t].expiredAt
           /\ q.pc = "answered" =>
                 /\ q.credential # NULL
                 /\ credential[q.credential].agent = token[t].agent

(* What a sync has read: the agent it marks as seen has been registered. *)
SyncConsistent(s) ==
    sync[s].pc = "statusRead" =>
        /\ sync[s].agent # NULL
        /\ agent[sync[s].agent].mtlsCredential # NULL
        /\ sync[s].checkedAt <= clock

(* What a request in flight works with has not been overtaken by the       *)
(* tables, although none of it is locked or read again.                    *)
RequestsConsistent ==
    /\ \A g \in Generations : GenerationConsistent(g)
    /\ \A r \in Registrations : RegistrationConsistent(r)
    /\ \A s \in Syncs : SyncConsistent(s)

(* The invariant the safety properties rest on: every step preserves it. *)
IInv == /\ TypeOK
        /\ CurrentTokenLasts
        /\ ActiveIsEnrolled
        /\ CredentialTraceable
        /\ IdentityMatches
        /\ NoServiceWhilePending
        /\ RowsConsistent
        /\ RequestsConsistent

(* The handlers keep the promise of AgentEnrollment.  A registration is    *)
(* admitted from the step in which its checks pass to the step in which    *)
(* its transaction ends.                                                   *)
Admission == [r \in Registrations |->
                 IF register[r].pc = "issuing"
                 THEN token[register[r].token].agent ELSE NULL]
Standing == [a \in Agents |-> agent[a].status]

Enrollment == INSTANCE AgentEnrollment
                  WITH standing <- Standing, admission <- Admission
EnrollmentSpec == Enrollment!Spec
=============================================================================
