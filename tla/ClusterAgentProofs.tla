-------------------------- MODULE ClusterAgentProofs --------------------------
(***************************************************************************)
(* Proofs about ClusterAgent for any number of agents, tokens, requests,   *)
(* any clock bound and any token life.                                     *)
(***************************************************************************)
EXTENDS ClusterAgent, TLAPS

(* The record sets and the empty records the tables are built from. *)
LEMMA EmptyRecords ==
    /\ NoAgent \in AgentRows
    /\ NoToken \in TokenRows
    /\ NoCredential \in CredentialRows
    /\ NoRegister \in RegisterRequests
    /\ NoGenerate \in GenerateRequests
    /\ NoSync \in SyncRequests
BY DEF NoAgent, NoToken, NoCredential, NoRegister, NoGenerate, NoSync,
       AgentRows, TokenRows, CredentialRows, RegisterRequests,
       GenerateRequests, SyncRequests, Statuses

-----------------------------------------------------------------------------
(* Type correctness *)

LEMMA InitTypeOK == Init => TypeOK
BY EmptyRecords DEF Init, TypeOK

(* A registration in flight names a token, which is why the requests are   *)
(* needed to type the credential it inserts.                               *)
LEMMA NextTypeOK == TypeOK /\ RequestsConsistent /\ [Next]_vars => TypeOK'
<1> SUFFICES ASSUME TypeOK, RequestsConsistent, [Next]_vars PROVE TypeOK'
  OBVIOUS
<1> USE EmptyRecords, ConstantsAssumption
<1>1. CASE Tick
  BY <1>1 DEF Tick, TypeOK, database
<1>2. ASSUME NEW a \in Agents, ProvisionWorkspace(a) PROVE TypeOK'
  <2>1. PICK t \in Tokens : /\ token' = Issue(token, t, a)
                            /\ agent' = [agent EXCEPT ![a] = Provisioned(t)]
    BY <1>2 DEF ProvisionWorkspace
  <2>2. token' \in [Tokens -> TokenRows]
    BY <2>1 DEF Issue, ExpiryFrom, TypeOK, TokenRows
  <2>3. agent' \in [Agents -> AgentRows]
    BY <2>1 DEF Provisioned, NoAgent, TypeOK, AgentRows, Statuses
  <2>4. QED
    BY <1>2, <2>2, <2>3 DEF ProvisionWorkspace, TypeOK
<1>3. ASSUME NEW a \in Agents, BarAgent(a) PROVE TypeOK'
  BY <1>3 DEF BarAgent, TypeOK, AgentRows, Statuses
<1>4. ASSUME NEW g \in Generations, NEW a \in Agents, GenerateRead(g, a)
      PROVE  TypeOK'
  BY <1>4 DEF GenerateRead, TypeOK, GenerateRequests, AgentRows, database
<1>5. ASSUME NEW g \in Generations, GenerateCommit(g) PROVE TypeOK'
  <2>1. PICK t \in Tokens :
           /\ token' = Issue(Invalidate(token, generate[g].oldToken),
                             t, generate[g].agent)
           /\ agent' = [agent EXCEPT ![generate[g].agent] = Reset(@, t)]
    BY <1>5 DEF GenerateCommit
  <2>2. Invalidate(token, generate[g].oldToken) \in [Tokens -> TokenRows]
    BY DEF Invalidate, TypeOK, TokenRows
  <2>3. token' \in [Tokens -> TokenRows]
    BY <2>1, <2>2 DEF Issue, ExpiryFrom, TypeOK, TokenRows, GenerateRequests
  <2>4. agent' \in [Agents -> AgentRows]
    BY <2>1 DEF Reset, TypeOK, AgentRows, Statuses
  <2>5. QED
    BY <1>5, <2>3, <2>4 DEF GenerateCommit, TypeOK
<1>6. ASSUME NEW g \in Generations, GenerateFail(g) PROVE TypeOK'
  BY <1>6 DEF GenerateFail, TypeOK, database
<1>7. ASSUME NEW r \in Registrations, NEW k \in Agents, NEW t \in Tokens,
             RegisterReadToken(r, k, t)
      PROVE  TypeOK'
  BY <1>7 DEF RegisterReadToken, TypeOK, RegisterRequests, NoRegister,
              TokenRows, database
<1>8. ASSUME NEW r \in Registrations, RegisterCheck(r) PROVE TypeOK'
  BY <1>8 DEF RegisterCheck, TypeOK, RegisterRequests, database
<1>9. ASSUME NEW r \in Registrations, RegisterReject(r) PROVE TypeOK'
  BY <1>9 DEF RegisterReject, TypeOK, database
<1>10. ASSUME NEW r \in Registrations, RegisterCommit(r) PROVE TypeOK'
  <2> DEFINE t == register[r].token
             a == token[t].agent
  <2>1. PICK c \in Credentials :
           /\ credential' = [credential EXCEPT ![c] =
                                [agent |-> a, token |-> t,
                                 presentedAt |-> register[r].presentedAt]]
           /\ agent' = [agent EXCEPT ![a] = Activate(@, c)]
           /\ register' = [register EXCEPT ![r].pc = "answered",
                                           ![r].credential = c]
    BY <1>10 DEF RegisterCommit
  <2>2. register[r] \in RegisterRequests
    BY DEF TypeOK
  <2>3. t \in Tokens /\ a \in Agents
    BY <1>10, <2>2 DEF RegisterCommit, RequestsConsistent,
                       RegistrationConsistent, TypeOK, RegisterRequests,
                       TokenRows
  <2>4. agent' \in [Agents -> AgentRows]
    BY <2>1 DEF Activate, TypeOK, AgentRows, Statuses
  <2>5. QED
    BY <1>10, <2>1, <2>2, <2>3, <2>4
    DEF RegisterCommit, TypeOK, RegisterRequests, CredentialRows
<1>11. ASSUME NEW r \in Registrations, RegisterFail(r) PROVE TypeOK'
  BY <1>11 DEF RegisterFail, TypeOK, database
<1>12. ASSUME NEW r \in Registrations, StoreCredential(r) PROVE TypeOK'
  BY <1>12 DEF StoreCredential, TypeOK, RegisterRequests, database
<1>13. ASSUME NEW r \in Registrations, LoseAnswer(r) PROVE TypeOK'
  BY <1>13 DEF LoseAnswer, TypeOK, database
<1>14. ASSUME NEW s \in Syncs, NEW k \in Agents, SyncReadStatus(s, k)
       PROVE  TypeOK'
  BY <1>14 DEF SyncReadStatus, TypeOK, SyncRequests, CredentialRows, database
<1>15. ASSUME NEW s \in Syncs, SyncCommit(s) PROVE TypeOK'
  BY <1>15 DEF SyncCommit, TypeOK, AgentRows
<1>16. ASSUME NEW s \in Syncs, SyncFail(s) PROVE TypeOK'
  BY <1>16 DEF SyncFail, TypeOK, database
<1>17. CASE UNCHANGED vars
  BY <1>17 DEF vars, TypeOK
<1>18. QED
  BY <1>1, <1>2, <1>3, <1>4, <1>5, <1>6, <1>7, <1>8, <1>9, <1>10, <1>11,
     <1>12, <1>13, <1>14, <1>15, <1>16, <1>17 DEF Next

-----------------------------------------------------------------------------
(* The inductive invariant: it holds initially ... *)

LEMMA InitIInv == Init => IInv
<1> SUFFICES ASSUME Init PROVE IInv
  OBVIOUS
<1>1. TypeOK
  BY InitTypeOK
<1>2. CurrentTokenLasts /\ ActiveIsEnrolled
  BY DEF Init, CurrentTokenLasts, ActiveIsEnrolled, Exists, NoAgent
<1>3. CredentialTraceable /\ IdentityMatches /\ RowsConsistent
  BY DEF Init, CredentialTraceable, IdentityMatches, RowsConsistent,
         NoCredential, NoToken
<1>4. NoServiceWhilePending /\ RequestsConsistent
  BY DEF Init, NoServiceWhilePending, RequestsConsistent,
         GenerationConsistent, RegistrationConsistent, SyncConsistent,
         NoGenerate, NoRegister, NoSync
<1>5. QED
  BY <1>1, <1>2, <1>3, <1>4 DEF IInv

(* ... and the steps of each kind preserve it. *)

LEMMA TickIInv == ASSUME IInv, Tick PROVE IInv'
<1> USE DEF Tick, database
<1>1. clock \in Nat /\ clock' = clock + 1
  BY DEF IInv, TypeOK
<1>2. TypeOK'
  BY NextTypeOK DEF IInv, Next
<1>3. /\ CurrentTokenLasts'
      /\ ActiveIsEnrolled'
      /\ CredentialTraceable'
      /\ IdentityMatches'
      /\ NoServiceWhilePending'
  BY DEF IInv, CurrentTokenLasts, ActiveIsEnrolled, CredentialTraceable,
         IdentityMatches, NoServiceWhilePending, Exists
<1>4. RowsConsistent'
  BY <1>1 DEF IInv, RowsConsistent, Exists, TypeOK, TokenRows, CredentialRows
<1>5. RequestsConsistent'
  BY <1>1 DEF IInv, RequestsConsistent, GenerationConsistent,
              RegistrationConsistent, SyncConsistent, Exists, TypeOK,
              RegisterRequests, SyncRequests
<1>6. QED
  BY <1>2, <1>3, <1>4, <1>5 DEF IInv

(* A status set from outside leaves every reference in place. *)
LEMMA BarIInv ==
    ASSUME IInv, NEW a \in Agents, BarAgent(a)
    PROVE  IInv'
<1>1. PICK s \in {"Suspended", "Deleted"} :
         agent' = [agent EXCEPT ![a].status = s]
  BY DEF BarAgent
<1>2. UNCHANGED <<clock, token, credential, register, generate, sync, installed>>
  BY DEF BarAgent
<1>3. /\ Exists(a)
      /\ agent'[a].status = s
      /\ \A b \in Agents :
            /\ b # a => agent'[b] = agent[b]
            /\ agent'[b].bootstrapToken = agent[b].bootstrapToken
            /\ agent'[b].mtlsCredential = agent[b].mtlsCredential
            /\ agent'[b].pinged = agent[b].pinged
            /\ Exists(b)' <=> Exists(b)
  BY <1>1 DEF IInv, TypeOK, AgentRows, BarAgent, Exists
<1>4. TypeOK'
  BY NextTypeOK DEF IInv, Next
<1>5. CurrentTokenLasts'
  BY <1>2, <1>3 DEF IInv, CurrentTokenLasts
<1>6. ActiveIsEnrolled'
  BY <1>2, <1>3 DEF IInv, ActiveIsEnrolled
<1>7. CredentialTraceable' /\ IdentityMatches'
  BY <1>2 DEF IInv, CredentialTraceable, IdentityMatches
<1>8. NoServiceWhilePending'
  <2> SUFFICES ASSUME NEW q \in Syncs, sync[q].pc = "statusRead",
                      agent'[sync[q].agent].status = "PendingRegistration"
               PROVE  sync[q].checkedAt
                         <= token[agent'[sync[q].agent].bootstrapToken].createdAt
    BY <1>2 DEF NoServiceWhilePending
  <2>1. sync[q].agent \in Agents
    BY DEF IInv, RequestsConsistent, SyncConsistent, TypeOK, SyncRequests
  <2>2. QED
    BY <1>3, <2>1 DEF IInv, NoServiceWhilePending
<1>9. RowsConsistent'
  BY <1>2, <1>3 DEF IInv, RowsConsistent, TypeOK, TokenRows, CredentialRows
<1>10. RequestsConsistent'
  <2>1. \A g \in Generations : GenerationConsistent(g)'
    BY <1>2, <1>3 DEF IInv, RequestsConsistent, GenerationConsistent, TypeOK,
                      GenerateRequests
  <2>2. \A r \in Registrations : RegistrationConsistent(r)'
    BY <1>2 DEF IInv, RequestsConsistent, RegistrationConsistent
  <2>3. \A q \in Syncs : SyncConsistent(q)'
    BY <1>2, <1>3 DEF IInv, RequestsConsistent, SyncConsistent, TypeOK,
                      SyncRequests
  <2>4. QED
    BY <2>1, <2>2, <2>3 DEF RequestsConsistent
<1>11. QED
  BY <1>4, <1>5, <1>6, <1>7, <1>8, <1>9, <1>10 DEF IInv

(* An agent linked to a credential exists: the credential leads to a token *)
(* of the agent.                                                           *)
LEMMA EnrolledExists ==
    ASSUME IInv, NEW a \in Agents, agent[a].mtlsCredential # NULL
    PROVE  Exists(a)
<1> DEFINE c == agent[a].mtlsCredential
<1>1. c \in Credentials /\ credential[c].agent = a
  BY DEF IInv, TypeOK, AgentRows, ActiveIsEnrolled
<1>2. a # NULL
  BY ConstantsAssumption
<1>3. PICK t \in Tokens : token[t].agent = a
  BY <1>1, <1>2 DEF IInv, CredentialTraceable, TypeOK, CredentialRows
<1>4. QED
  BY <1>2, <1>3 DEF IInv, RowsConsistent

LEMMA ProvisionIInv ==
    ASSUME IInv, NEW a \in Agents, ProvisionWorkspace(a)
    PROVE  IInv'
<1>1. PICK t \in Tokens : /\ token[t].agent = NULL
                          /\ token' = Issue(token, t, a)
                          /\ agent' = [agent EXCEPT ![a] = Provisioned(t)]
  BY DEF ProvisionWorkspace
<1>2. UNCHANGED <<clock, credential, register, generate, sync, installed>>
  BY DEF ProvisionWorkspace
<1>3. /\ clock \in Nat /\ TokenTTL \in Nat
      /\ NULL \notin Agents /\ NULL \notin Tokens /\ NULL \notin Credentials
  BY ConstantsAssumption DEF IInv, TypeOK
<1>4. /\ token'[t] = [agent |-> a, createdAt |-> clock,
                      expiredAt |-> clock + TokenTTL]
      /\ \A u \in Tokens : u # t => token'[u] = token[u]
  BY <1>1 DEF Issue, ExpiryFrom, IInv, TypeOK
<1>5. /\ agent'[a].status = "PendingRegistration"
      /\ agent'[a].bootstrapToken = t
      /\ agent'[a].mtlsCredential = NULL
      /\ agent'[a].pinged = FALSE
      /\ \A b \in Agents : b # a => agent'[b] = agent[b]
  BY <1>1 DEF Provisioned, NoAgent, IInv, TypeOK
<1>6. agent[a].mtlsCredential = NULL /\ ~ Exists(a)
  BY EnrolledExists DEF ProvisionWorkspace, Exists
<1>7. \A b \in Agents : Exists(b) => Exists(b)'
  BY <1>5, <1>6 DEF Exists
<1>8. Exists(a)'
  BY <1>5 DEF Exists
<1>9. TypeOK'
  BY NextTypeOK DEF IInv, Next
<1>10. CurrentTokenLasts'
  <2> SUFFICES ASSUME NEW b \in Agents, Exists(b)'
               PROVE  LET u == agent'[b].bootstrapToken
                      IN /\ u # NULL
                         /\ token'[u].agent = b
                         /\ token'[u].expiredAt = token'[u].createdAt + TokenTTL
    BY DEF CurrentTokenLasts
  <2>1. CASE b = a
    BY <2>1, <1>3, <1>4, <1>5
  <2>2. CASE b # a
    <3>1. Exists(b) /\ agent'[b] = agent[b]
      BY <2>2, <1>5 DEF Exists
    <3>2. /\ agent[b].bootstrapToken \in Tokens
          /\ token[agent[b].bootstrapToken].agent = b
      BY <3>1 DEF IInv, CurrentTokenLasts, TypeOK, AgentRows
    <3>3. agent[b].bootstrapToken # t
      BY <3>2, <1>1, <1>3
    <3>4. QED
      BY <3>1, <3>2, <3>3, <1>4 DEF IInv, CurrentTokenLasts
  <2>3. QED
    BY <2>1, <2>2
<1>11. ActiveIsEnrolled'
  BY <1>2, <1>5 DEF IInv, ActiveIsEnrolled
<1>12. CredentialTraceable'
  BY <1>1, <1>2, <1>4 DEF IInv, CredentialTraceable, TypeOK, CredentialRows
<1>13. IdentityMatches'
  BY <1>2 DEF IInv, IdentityMatches
<1>14. \A s \in Syncs : sync[s].pc = "statusRead" =>
          sync[s].agent \in Agents /\ sync[s].agent # a
  BY <1>6 DEF IInv, RequestsConsistent, SyncConsistent, TypeOK, SyncRequests
<1>15. NoServiceWhilePending'
  <2> SUFFICES ASSUME NEW s \in Syncs, sync[s].pc = "statusRead",
                      agent'[sync[s].agent].status = "PendingRegistration"
               PROVE  sync[s].checkedAt
                         <= token'[agent'[sync[s].agent].bootstrapToken].createdAt
    BY <1>2 DEF NoServiceWhilePending
  <2> DEFINE b == sync[s].agent
  <2>1. b \in Agents /\ b # a /\ agent'[b] = agent[b]
    BY <1>5, <1>14
  <2>2. agent[b].bootstrapToken \in Tokens /\ agent[b].bootstrapToken # t
    BY <2>1, <1>1, <1>3 DEF IInv, CurrentTokenLasts, Exists, TypeOK, AgentRows
  <2>3. QED
    BY <2>1, <2>2, <1>4 DEF IInv, NoServiceWhilePending
<1>16. RowsConsistent'
  <2>1. ASSUME NEW u \in Tokens, token'[u].agent # NULL
        PROVE  /\ (agent'[token'[u].agent].status # "Absent")
               /\ token'[u].createdAt <= clock
    BY <2>1, <1>3, <1>4, <1>7, <1>8
    DEF IInv, RowsConsistent, Exists, TypeOK, TokenRows
  <2>2. ASSUME NEW c \in Credentials, credential[c].agent # NULL
        PROVE  agent'[credential[c].agent].mtlsCredential # NULL
    BY <2>2, <1>5, <1>6 DEF IInv, RowsConsistent, TypeOK, CredentialRows
  <2>3. QED
    BY <2>1, <2>2, <1>2 DEF IInv, RowsConsistent, Exists
<1>17. RequestsConsistent'
  <2>1. \A g \in Generations : GenerationConsistent(g)'
    BY <1>1, <1>2, <1>4, <1>7
    DEF IInv, RequestsConsistent, GenerationConsistent, TypeOK, GenerateRequests
  <2>2. \A r \in Registrations : RegistrationConsistent(r)'
    BY <1>1, <1>2, <1>4
    DEF IInv, RequestsConsistent, RegistrationConsistent, TypeOK,
        RegisterRequests
  <2>3. \A s \in Syncs : SyncConsistent(s)'
    BY <1>2, <1>5, <1>14 DEF IInv, RequestsConsistent, SyncConsistent
  <2>4. QED
    BY <2>1, <2>2, <2>3 DEF RequestsConsistent
<1>18. QED
  BY <1>9, <1>10, <1>11, <1>12, <1>13, <1>15, <1>16, <1>17 DEF IInv

LEMMA GenerateReadIInv ==
    ASSUME IInv, NEW g \in Generations, NEW a \in Agents, GenerateRead(g, a)
    PROVE  IInv'
<1> USE DEF GenerateRead, database
<1>1. TypeOK'
  BY NextTypeOK DEF IInv, Next
<1>2. /\ CurrentTokenLasts'
      /\ ActiveIsEnrolled'
      /\ CredentialTraceable'
      /\ IdentityMatches'
      /\ NoServiceWhilePending'
      /\ RowsConsistent'
  BY DEF IInv, CurrentTokenLasts, ActiveIsEnrolled, CredentialTraceable,
         IdentityMatches, NoServiceWhilePending, RowsConsistent, Exists
<1>3. \A h \in Generations : GenerationConsistent(h)'
  <2> SUFFICES ASSUME NEW h \in Generations PROVE GenerationConsistent(h)'
    OBVIOUS
  <2>1. CASE h = g
    <3>1. generate'[h] = [pc |-> "agentRead", agent |-> a,
                          oldToken |-> agent[a].bootstrapToken]
      BY <2>1 DEF IInv, TypeOK
    <3>2. /\ Exists(a)
          /\ agent[a].bootstrapToken # NULL
          /\ token[agent[a].bootstrapToken].agent = a
      BY DEF Exists, IInv, CurrentTokenLasts
    <3>3. QED
      BY <3>1, <3>2, ConstantsAssumption DEF GenerationConsistent, Exists
  <2>2. CASE h # g
    <3>1. generate'[h] = generate[h]
      BY <2>2 DEF IInv, TypeOK
    <3>2. QED
      BY <3>1 DEF IInv, RequestsConsistent, GenerationConsistent, Exists
  <2>3. QED
    BY <2>1, <2>2
<1>4. RequestsConsistent'
  BY <1>3 DEF IInv, RequestsConsistent, RegistrationConsistent, SyncConsistent
<1>5. QED
  BY <1>1, <1>2, <1>4 DEF IInv

LEMMA GenerateFailIInv ==
    ASSUME IInv, NEW g \in Generations, GenerateFail(g)
    PROVE  IInv'
<1> USE DEF GenerateFail, database
<1>1. TypeOK'
  BY NextTypeOK DEF IInv, Next
<1>2. /\ CurrentTokenLasts'
      /\ ActiveIsEnrolled'
      /\ CredentialTraceable'
      /\ IdentityMatches'
      /\ NoServiceWhilePending'
      /\ RowsConsistent'
  BY DEF IInv, CurrentTokenLasts, ActiveIsEnrolled, CredentialTraceable,
         IdentityMatches, NoServiceWhilePending, RowsConsistent, Exists
<1>3. \A h \in Generations : GenerationConsistent(h)'
  BY DEF IInv, TypeOK, RequestsConsistent, GenerationConsistent, Exists,
         NoGenerate
<1>4. RequestsConsistent'
  BY <1>3 DEF IInv, RequestsConsistent, RegistrationConsistent, SyncConsistent
<1>5. QED
  BY <1>1, <1>2, <1>4 DEF IInv

(* The token a generation ends is not one that another agent, or the same  *)
(* agent after the generation, points to; whatever was looked up before    *)
(* stays looked up in time.                                                *)
LEMMA GenerateCommitIInv ==
    ASSUME IInv, NEW g \in Generations, GenerateCommit(g)
    PROVE  IInv'
<1> DEFINE a == generate[g].agent
           o == generate[g].oldToken
<1>1. PICK t \in Tokens :
         /\ token[t].agent = NULL
         /\ token' = Issue(Invalidate(token, o), t, a)
         /\ agent' = [agent EXCEPT ![a] = Reset(@, t)]
  BY DEF GenerateCommit
<1>2. /\ UNCHANGED <<clock, credential, register, sync, installed>>
      /\ generate' = [generate EXCEPT ![g] = NoGenerate]
      /\ generate[g].pc = "agentRead"
  BY DEF GenerateCommit
<1>3. /\ clock \in Nat /\ TokenTTL \in Nat
      /\ NULL \notin Agents /\ NULL \notin Tokens /\ NULL \notin Credentials
  BY ConstantsAssumption DEF IInv, TypeOK
<1>4. a \in Agents /\ o \in Tokens /\ token[o].agent = a /\ Exists(a) /\ o # t
  BY <1>1, <1>2, <1>3
  DEF IInv, RequestsConsistent, GenerationConsistent, TypeOK, GenerateRequests
<1>5. /\ token'[t] = [agent |-> a, createdAt |-> clock,
                      expiredAt |-> clock + TokenTTL]
      /\ token'[o].agent = a
      /\ token'[o].createdAt = token[o].createdAt
      /\ token'[o].expiredAt = clock
      /\ \A u \in Tokens : u # t /\ u # o => token'[u] = token[u]
  BY <1>1, <1>3, <1>4 DEF Issue, Invalidate, ExpiryFrom, IInv, TypeOK, TokenRows
<1>6. \A u \in Tokens : u # t =>
         /\ token'[u].agent = token[u].agent
         /\ token'[u].createdAt = token[u].createdAt
         /\ token'[u].expiredAt = token[u].expiredAt \/ token'[u].expiredAt = clock
  BY <1>4, <1>5
<1>7. /\ agent'[a].status = "PendingRegistration"
      /\ agent'[a].bootstrapToken = t
      /\ agent'[a].mtlsCredential = agent[a].mtlsCredential
      /\ agent'[a].pinged = agent[a].pinged
      /\ \A b \in Agents : b # a => agent'[b] = agent[b]
  BY <1>1, <1>4 DEF Reset, IInv, TypeOK, AgentRows
<1>8. \A b \in Agents : /\ Exists(b)' <=> Exists(b)
                        /\ agent'[b].mtlsCredential = agent[b].mtlsCredential
                        /\ agent'[b].pinged = agent[b].pinged
  BY <1>4, <1>7 DEF Exists
<1>9. TypeOK'
  BY NextTypeOK DEF IInv, Next
<1>10. \A b \in Agents : Exists(b) /\ b # a =>
          /\ agent[b].bootstrapToken \in Tokens
          /\ agent[b].bootstrapToken # t
          /\ agent[b].bootstrapToken # o
  BY <1>1, <1>3, <1>4 DEF IInv, CurrentTokenLasts, TypeOK, AgentRows
<1>11. CurrentTokenLasts'
  <2> SUFFICES ASSUME NEW b \in Agents, Exists(b)
               PROVE  LET u == agent'[b].bootstrapToken
                      IN /\ u # NULL
                         /\ token'[u].agent = b
                         /\ token'[u].expiredAt = token'[u].createdAt + TokenTTL
    BY <1>8 DEF CurrentTokenLasts
  <2>1. CASE b = a
    BY <2>1, <1>3, <1>5, <1>7
  <2>2. CASE b # a
    BY <2>2, <1>5, <1>7, <1>10 DEF IInv, CurrentTokenLasts
  <2>3. QED
    BY <2>1, <2>2
<1>12. ActiveIsEnrolled'
  BY <1>2, <1>7, <1>8 DEF IInv, ActiveIsEnrolled
<1>13. CredentialTraceable'
  <2> SUFFICES ASSUME NEW c \in Credentials, credential[c].agent # NULL
               PROVE  LET u == credential[c].token
                      IN /\ u # NULL
                         /\ token'[u].agent = credential[c].agent
                         /\ token'[u].createdAt <= credential[c].presentedAt
                         /\ credential[c].presentedAt <= token'[u].expiredAt
    BY <1>2 DEF CredentialTraceable
  <2>1. /\ credential[c].token \in Tokens
        /\ credential[c].token # t
        /\ credential[c].presentedAt <= clock
    BY <1>1 DEF IInv, CredentialTraceable, RowsConsistent, TypeOK,
                CredentialRows
  <2>2. QED
    BY <2>1, <1>6 DEF IInv, CredentialTraceable
<1>14. IdentityMatches'
  BY <1>2 DEF IInv, IdentityMatches
<1>15. NoServiceWhilePending'
  <2> SUFFICES ASSUME NEW s \in Syncs, sync[s].pc = "statusRead",
                      agent'[sync[s].agent].status = "PendingRegistration"
               PROVE  sync[s].checkedAt
                         <= token'[agent'[sync[s].agent].bootstrapToken].createdAt
    BY <1>2 DEF NoServiceWhilePending
  <2>1. /\ sync[s].agent \in Agents
        /\ sync[s].checkedAt <= clock
        /\ Exists(sync[s].agent)
    BY EnrolledExists
    DEF IInv, RequestsConsistent, SyncConsistent, TypeOK, SyncRequests
  <2>2. CASE sync[s].agent = a
    BY <2>1, <2>2, <1>5, <1>7
  <2>3. CASE sync[s].agent # a
    BY <2>1, <2>3, <1>5, <1>7, <1>10 DEF IInv, NoServiceWhilePending
  <2>4. QED
    BY <2>2, <2>3
<1>16. RowsConsistent'
  <2>1. ASSUME NEW u \in Tokens, token'[u].agent # NULL
        PROVE  /\ (agent'[token'[u].agent].status # "Absent")
               /\ token'[u].createdAt <= clock
    <3>1. CASE u = t
      BY <3>1, <1>3, <1>5, <1>7
    <3>2. CASE u # t
      BY <2>1, <3>2, <1>6, <1>8
      DEF IInv, RowsConsistent, Exists, TypeOK, TokenRows
    <3>3. QED
      BY <3>1, <3>2
  <2>2. ASSUME NEW c \in Credentials, credential[c].agent # NULL
        PROVE  agent'[credential[c].agent].mtlsCredential # NULL
    BY <2>2, <1>8 DEF IInv, RowsConsistent, TypeOK, CredentialRows
  <2>3. QED
    BY <2>1, <2>2, <1>2 DEF IInv, RowsConsistent, Exists
<1>17. RequestsConsistent'
  <2>1. \A h \in Generations : GenerationConsistent(h)'
    <3> SUFFICES ASSUME NEW h \in Generations, h # g,
                        generate[h].pc = "agentRead"
                 PROVE  /\ generate[h].agent # NULL
                        /\ agent'[generate[h].agent].status # "Absent"
                        /\ generate[h].oldToken # NULL
                        /\ token'[generate[h].oldToken].agent = generate[h].agent
      BY <1>2 DEF GenerationConsistent, NoGenerate, IInv, TypeOK, Exists
    <3>1. /\ generate[h].agent \in Agents
          /\ generate[h].oldToken \in Tokens
          /\ generate[h].oldToken # t
      BY <1>1
      DEF IInv, RequestsConsistent, GenerationConsistent, TypeOK,
          GenerateRequests
    <3>2. QED
      BY <3>1, <1>3, <1>6, <1>8
      DEF IInv, RequestsConsistent, GenerationConsistent, Exists
  <2>2. \A r \in Registrations : RegistrationConsistent(r)'
    <3> SUFFICES ASSUME NEW r \in Registrations, register[r].pc # "idle"
                 PROVE  RegistrationConsistent(r)'
      BY <1>2 DEF RegistrationConsistent
    <3> DEFINE u == register[r].token
    <3>1. u \in Tokens /\ u # t /\ register[r].presentedAt <= clock
      BY <1>1 DEF IInv, RequestsConsistent, RegistrationConsistent, TypeOK,
                  RegisterRequests
    <3>2. RegistrationConsistent(r)
      BY DEF IInv, RequestsConsistent
    <3>3. QED
      BY <3>1, <3>2, <1>2, <1>6 DEF RegistrationConsistent
  <2>3. \A s \in Syncs : SyncConsistent(s)'
    BY <1>2, <1>8
    DEF IInv, RequestsConsistent, SyncConsistent, TypeOK, SyncRequests
  <2>4. QED
    BY <2>1, <2>2, <2>3 DEF RequestsConsistent
<1>18. QED
  BY <1>9, <1>11, <1>12, <1>13, <1>14, <1>15, <1>16, <1>17 DEF IInv

LEMMA RegisterReadTokenIInv ==
    ASSUME IInv, NEW r \in Registrations, NEW k \in Agents, NEW t \in Tokens,
           RegisterReadToken(r, k, t)
    PROVE  IInv'
<1> USE DEF RegisterReadToken, database
<1>1. TypeOK'
  BY NextTypeOK DEF IInv, Next
<1>2. /\ CurrentTokenLasts'
      /\ ActiveIsEnrolled'
      /\ CredentialTraceable'
      /\ IdentityMatches'
      /\ NoServiceWhilePending'
      /\ RowsConsistent'
  BY DEF IInv, CurrentTokenLasts, ActiveIsEnrolled, CredentialTraceable,
         IdentityMatches, NoServiceWhilePending, RowsConsistent, Exists
<1>3. /\ register'[r] = [pc |-> "tokenRead", cluster |-> k, token |-> t,
                         deadline |-> token[t].expiredAt,
                         presentedAt |-> clock, credential |-> NULL]
      /\ \A q \in Registrations : q # r => register'[q] = register[q]
  BY DEF IInv, TypeOK, NoRegister
<1>4. /\ token[t].agent # NULL
      /\ ExtWorkspaceId[token[t].agent] = ExtWorkspaceId[k]
      /\ token[t].createdAt <= clock
      /\ clock \in Nat /\ token[t].expiredAt \in Nat
      /\ k # NULL /\ t # NULL
  BY ConstantsAssumption DEF Matches, IInv, RowsConsistent, TypeOK, TokenRows
<1>5. RegistrationConsistent(r)'
  BY <1>3, <1>4 DEF RegistrationConsistent
<1>6. \A q \in Registrations : q # r => RegistrationConsistent(q)'
  BY <1>3 DEF IInv, RequestsConsistent, RegistrationConsistent
<1>7. RequestsConsistent'
  BY <1>5, <1>6 DEF IInv, RequestsConsistent, GenerationConsistent,
                    SyncConsistent, Exists
<1>8. QED
  BY <1>1, <1>2, <1>7 DEF IInv

(* A registration that goes on or ends without touching the tables. *)
LEMMA RegisterCheckIInv ==
    ASSUME IInv, NEW r \in Registrations, RegisterCheck(r)
    PROVE  IInv'
<1> USE DEF RegisterCheck, database
<1>1. TypeOK'
  BY NextTypeOK DEF IInv, Next
<1>2. /\ CurrentTokenLasts'
      /\ ActiveIsEnrolled'
      /\ CredentialTraceable'
      /\ IdentityMatches'
      /\ NoServiceWhilePending'
      /\ RowsConsistent'
  BY DEF IInv, CurrentTokenLasts, ActiveIsEnrolled, CredentialTraceable,
         IdentityMatches, NoServiceWhilePending, RowsConsistent, Exists
<1>3. /\ register'[r] = [register[r] EXCEPT !.pc = "issuing"]
      /\ \A q \in Registrations : q # r => register'[q] = register[q]
      /\ register[r] \in RegisterRequests
      /\ clock \in Nat
  BY DEF IInv, TypeOK
<1>4. RegistrationConsistent(r) /\ register[r].pc = "tokenRead"
  BY DEF IInv, RequestsConsistent
<1>5. register[r].token \in Tokens /\ token[register[r].token].expiredAt \in Nat
  BY <1>3, <1>4 DEF RegistrationConsistent, RegisterRequests, IInv, TypeOK,
                    TokenRows
<1>6. register[r].presentedAt <= token[register[r].token].expiredAt
  BY <1>3, <1>4, <1>5 DEF Lapsed, RegistrationConsistent, RegisterRequests
<1>7. RegistrationConsistent(r)'
  BY <1>3, <1>4, <1>6 DEF RegistrationConsistent, RegisterRequests
<1>8. \A q \in Registrations : q # r => RegistrationConsistent(q)'
  <2> SUFFICES ASSUME NEW q \in Registrations, q # r PROVE RegistrationConsistent(q)'
    OBVIOUS
  <2>1. RegistrationConsistent(q) /\ register'[q] = register[q]
    BY <1>3 DEF IInv, RequestsConsistent
  <2>2. QED
    BY <2>1 DEF RegistrationConsistent
<1>9. RequestsConsistent'
  BY <1>7, <1>8 DEF IInv, RequestsConsistent, GenerationConsistent,
                    SyncConsistent, Exists
<1>10. QED
  BY <1>1, <1>2, <1>9 DEF IInv

LEMMA RegisterEndIInv ==
    ASSUME IInv, NEW r \in Registrations,
           RegisterReject(r) \/ RegisterFail(r) \/ LoseAnswer(r)
    PROVE  IInv'
<1>1. /\ register' = [register EXCEPT ![r] = NoRegister]
      /\ UNCHANGED <<clock, database, generate, sync, installed>>
  BY DEF RegisterReject, RegisterFail, LoseAnswer
<1> USE DEF database
<1>2. TypeOK'
  BY NextTypeOK DEF IInv, Next
<1>3. /\ CurrentTokenLasts'
      /\ ActiveIsEnrolled'
      /\ CredentialTraceable'
      /\ IdentityMatches'
      /\ NoServiceWhilePending'
      /\ RowsConsistent'
  BY <1>1 DEF IInv, CurrentTokenLasts, ActiveIsEnrolled, CredentialTraceable,
              IdentityMatches, NoServiceWhilePending, RowsConsistent, Exists
<1>4. \A q \in Registrations : RegistrationConsistent(q)'
  BY <1>1 DEF IInv, TypeOK, RequestsConsistent, RegistrationConsistent,
              NoRegister
<1>5. RequestsConsistent'
  BY <1>1, <1>4 DEF IInv, RequestsConsistent, GenerationConsistent,
                    SyncConsistent, Exists
<1>6. QED
  BY <1>2, <1>3, <1>5 DEF IInv

LEMMA StoreCredentialIInv ==
    ASSUME IInv, NEW r \in Registrations, StoreCredential(r)
    PROVE  IInv'
<1> USE DEF StoreCredential, database
<1>1. TypeOK'
  BY NextTypeOK DEF IInv, Next
<1>2. /\ CurrentTokenLasts'
      /\ ActiveIsEnrolled'
      /\ CredentialTraceable'
      /\ NoServiceWhilePending'
      /\ RowsConsistent'
  BY DEF IInv, CurrentTokenLasts, ActiveIsEnrolled, CredentialTraceable,
         NoServiceWhilePending, RowsConsistent, Exists
<1>3. RegistrationConsistent(r) /\ register[r].pc = "answered"
  BY DEF IInv, RequestsConsistent
<1>4. IdentityMatches'
  BY <1>3 DEF IInv, IdentityMatches, RegistrationConsistent, TypeOK
<1>5. \A q \in Registrations : RegistrationConsistent(q)'
  BY DEF IInv, TypeOK, RequestsConsistent, RegistrationConsistent, NoRegister
<1>6. RequestsConsistent'
  BY <1>5 DEF IInv, RequestsConsistent, GenerationConsistent, SyncConsistent,
              Exists
<1>7. QED
  BY <1>1, <1>2, <1>4, <1>6 DEF IInv

(* A new credential is linked to an agent that exists, and to one that is  *)
(* not waiting any more.                                                   *)
LEMMA RegisterCommitIInv ==
    ASSUME IInv, NEW r \in Registrations, RegisterCommit(r)
    PROVE  IInv'
<1> DEFINE t == register[r].token
           a == token[t].agent
<1>1. PICK c \in Credentials :
         /\ credential[c].agent = NULL
         /\ credential' = [credential EXCEPT ![c] =
                              [agent |-> a, token |-> t,
                               presentedAt |-> register[r].presentedAt]]
         /\ agent' = [agent EXCEPT ![a] = Activate(@, c)]
         /\ register' = [register EXCEPT ![r].pc = "answered",
                                         ![r].credential = c]
  BY DEF RegisterCommit
<1>2. /\ UNCHANGED <<clock, token, generate, sync, installed>>
      /\ register[r].pc = "issuing"
  BY DEF RegisterCommit
<1>3. NULL \notin Agents /\ NULL \notin Tokens /\ NULL \notin Credentials
  BY ConstantsAssumption
<1>4. RegistrationConsistent(r)
  BY DEF IInv, RequestsConsistent
<1>5. t \in Tokens /\ a \in Agents /\ Exists(a)
  BY <1>2, <1>4 DEF RegistrationConsistent, IInv, RowsConsistent, TypeOK,
                    RegisterRequests, TokenRows
<1>6. /\ credential'[c] = [agent |-> a, token |-> t,
                           presentedAt |-> register[r].presentedAt]
      /\ \A d \in Credentials : d # c => credential'[d] = credential[d]
  BY <1>1 DEF IInv, TypeOK
<1>7. /\ agent'[a].status = "Active"
      /\ agent'[a].bootstrapToken = agent[a].bootstrapToken
      /\ agent'[a].mtlsCredential = c
      /\ agent'[a].pinged = TRUE
      /\ \A b \in Agents : b # a => agent'[b] = agent[b]
  BY <1>1, <1>5 DEF Activate, IInv, TypeOK, AgentRows
<1>8. \A b \in Agents :
         /\ Exists(b)' <=> Exists(b)
         /\ agent'[b].bootstrapToken = agent[b].bootstrapToken
         /\ agent[b].mtlsCredential # NULL => agent'[b].mtlsCredential # NULL
  BY <1>3, <1>5, <1>7 DEF Exists
<1>9. TypeOK'
  BY NextTypeOK DEF IInv, Next
<1>10. CurrentTokenLasts'
  BY <1>2, <1>8 DEF IInv, CurrentTokenLasts
<1>11. ActiveIsEnrolled'
  <2>1. a \in Agents /\ c \in Credentials /\ c # NULL /\ credential[c].agent = NULL
    BY <1>1, <1>3, <1>5
  <2>2. ASSUME NEW b \in Agents, b # a, agent[b].mtlsCredential # NULL
        PROVE  credential'[agent[b].mtlsCredential].agent = b
    <3>1. /\ credential[agent[b].mtlsCredential].agent = b /\ b # NULL
          /\ agent[b].mtlsCredential \in Credentials
      BY <1>3, <2>2 DEF IInv, ActiveIsEnrolled, TypeOK, AgentRows
    <3>2. agent[b].mtlsCredential # c
      BY <2>1, <3>1
    <3>3. QED
      BY <1>6, <3>1, <3>2
  <2>3. \A b \in Agents \ {a} : agent'[b] = agent[b]
    BY <1>7
  <2>4. credential'[c].agent = a
    BY <1>6
  <2> HIDE DEF a
  <2>5. QED
    BY <1>7, <2>1, <2>2, <2>3, <2>4 DEF IInv, ActiveIsEnrolled
<1>12. CredentialTraceable'
  BY <1>2, <1>3, <1>4, <1>5, <1>6
  DEF IInv, CredentialTraceable, RegistrationConsistent
<1>13. IdentityMatches'
  BY <1>1, <1>2, <1>6 DEF IInv, IdentityMatches, TypeOK
<1>14. NoServiceWhilePending'
  <2> SUFFICES ASSUME NEW s \in Syncs, sync[s].pc = "statusRead",
                      agent'[sync[s].agent].status = "PendingRegistration"
               PROVE  sync[s].checkedAt
                         <= token[agent'[sync[s].agent].bootstrapToken].createdAt
    BY <1>2 DEF NoServiceWhilePending
  <2>1. sync[s].agent \in Agents
    BY DEF IInv, RequestsConsistent, SyncConsistent, TypeOK, SyncRequests
  <2>2. QED
    BY <2>1, <1>7 DEF IInv, NoServiceWhilePending
<1>15. RowsConsistent'
  <2>1. \A u \in Tokens : token[u].agent # NULL =>
           /\ agent'[token[u].agent].status # "Absent"
           /\ token[u].createdAt <= clock
    BY <1>8 DEF IInv, RowsConsistent, Exists, TypeOK, TokenRows
  <2>2. \A d \in Credentials : credential'[d].agent # NULL =>
           /\ agent'[credential'[d].agent].mtlsCredential # NULL
           /\ credential'[d].presentedAt <= clock
    <3> SUFFICES ASSUME NEW d \in Credentials, credential'[d].agent # NULL
                 PROVE  /\ agent'[credential'[d].agent].mtlsCredential # NULL
                        /\ credential'[d].presentedAt <= clock
      OBVIOUS
    <3>1. CASE d = c
      BY <3>1, <1>2, <1>3, <1>4, <1>6, <1>7 DEF RegistrationConsistent
    <3>2. CASE d # c
      BY <3>2, <1>6, <1>8
      DEF IInv, RowsConsistent, TypeOK, CredentialRows
    <3>3. QED
      BY <3>1, <3>2
  <2>3. QED
    BY <2>1, <2>2, <1>2 DEF RowsConsistent, Exists
<1>16. RequestsConsistent'
  <2>1. \A g \in Generations : GenerationConsistent(g)'
    BY <1>2, <1>8
    DEF IInv, RequestsConsistent, GenerationConsistent, Exists, TypeOK,
        GenerateRequests
  <2>2. RegistrationConsistent(r)'
    <3>1. /\ register'[r] = [register[r] EXCEPT !.pc = "answered",
                                                !.credential = c]
          /\ register[r] \in RegisterRequests
      BY <1>1 DEF IInv, TypeOK
    <3>2. QED
      BY <3>1, <1>2, <1>3, <1>4, <1>6
      DEF RegistrationConsistent, RegisterRequests
  <2>3. ASSUME NEW q \in Registrations, q # r
        PROVE  RegistrationConsistent(q)'
    <3>1. register'[q] = register[q] /\ RegistrationConsistent(q)
      BY <2>3, <1>1 DEF IInv, TypeOK, RequestsConsistent
    <3>2. register[q].pc # "idle" => token[register[q].token].agent # NULL
      BY <3>1 DEF RegistrationConsistent
    <3>3. QED
      BY <3>1, <3>2, <1>1, <1>2, <1>6
      DEF RegistrationConsistent, TypeOK, IInv, RegisterRequests
  <2>4. \A s \in Syncs : SyncConsistent(s)'
    BY <1>2, <1>8
    DEF IInv, RequestsConsistent, SyncConsistent, TypeOK, SyncRequests
  <2>5. QED
    BY <2>1, <2>2, <2>3, <2>4 DEF RequestsConsistent
<1>17. QED
  BY <1>9, <1>10, <1>11, <1>12, <1>13, <1>14, <1>15, <1>16 DEF IInv

LEMMA SyncReadStatusIInv ==
    ASSUME IInv, NEW s \in Syncs, NEW k \in Agents, SyncReadStatus(s, k)
    PROVE  IInv'
<1> DEFINE c == installed[k]
           a == credential[c].agent
<1> USE DEF SyncReadStatus, database
<1>1. TypeOK'
  BY NextTypeOK DEF IInv, Next
<1>2. /\ CurrentTokenLasts'
      /\ ActiveIsEnrolled'
      /\ CredentialTraceable'
      /\ IdentityMatches'
      /\ RowsConsistent'
  BY DEF IInv, CurrentTokenLasts, ActiveIsEnrolled, CredentialTraceable,
         IdentityMatches, RowsConsistent, Exists
<1>3. /\ sync'[s] = [pc |-> "statusRead", agent |-> a, checkedAt |-> clock]
      /\ \A q \in Syncs : q # s => sync'[q] = sync[q]
  BY DEF IInv, TypeOK
<1>4. /\ c \in Credentials
      /\ a # NULL
      /\ agent[a].mtlsCredential # NULL
      /\ agent[a].status # "PendingRegistration"
      /\ clock \in Nat
  BY DEF IInv, IdentityMatches, RowsConsistent, TypeOK, Serves
<1>5. NoServiceWhilePending'
  BY <1>3, <1>4 DEF IInv, NoServiceWhilePending
<1>6. SyncConsistent(s)'
  BY <1>3, <1>4 DEF SyncConsistent
<1>7. \A q \in Syncs : q # s => SyncConsistent(q)'
  BY <1>3 DEF IInv, RequestsConsistent, SyncConsistent
<1>8. RequestsConsistent'
  BY <1>6, <1>7 DEF IInv, RequestsConsistent, GenerationConsistent,
                    RegistrationConsistent, Exists
<1>9. QED
  BY <1>1, <1>2, <1>5, <1>8 DEF IInv

(* A sync that commits marks an agent that has been registered. *)
LEMMA SyncCommitIInv ==
    ASSUME IInv, NEW s \in Syncs, SyncCommit(s)
    PROVE  IInv'
<1>1. /\ agent' = [agent EXCEPT ![sync[s].agent].pinged = TRUE]
      /\ sync' = [sync EXCEPT ![s] = NoSync]
      /\ UNCHANGED <<clock, token, credential, register, generate, installed>>
      /\ sync[s].pc = "statusRead"
  BY DEF SyncCommit
<1>2. /\ sync[s].agent \in Agents
      /\ agent[sync[s].agent].mtlsCredential # NULL
  BY <1>1 DEF IInv, RequestsConsistent, SyncConsistent, TypeOK, SyncRequests
<1>3. \A b \in Agents :
         /\ agent'[b].status = agent[b].status
         /\ agent'[b].bootstrapToken = agent[b].bootstrapToken
         /\ agent'[b].mtlsCredential = agent[b].mtlsCredential
         /\ agent'[b].pinged = (agent[b].pinged \/ b = sync[s].agent)
         /\ Exists(b)' <=> Exists(b)
  BY <1>1, <1>2 DEF IInv, TypeOK, AgentRows, Exists
<1>4. TypeOK'
  BY NextTypeOK DEF IInv, Next
<1>5. CurrentTokenLasts' /\ CredentialTraceable' /\ IdentityMatches'
  <2>1. CurrentTokenLasts'
    BY <1>1, <1>3 DEF IInv, CurrentTokenLasts
  <2>2. CredentialTraceable'
    BY <1>1, <1>3 DEF IInv, CredentialTraceable
  <2>3. IdentityMatches'
    BY <1>1, <1>3 DEF IInv, IdentityMatches
  <2>4. QED
    BY <2>1, <2>2, <2>3
<1>6. ActiveIsEnrolled'
  BY <1>1, <1>2, <1>3 DEF IInv, ActiveIsEnrolled
<1>7. /\ sync'[s].pc = "idle"
      /\ \A q \in Syncs : q # s => sync'[q] = sync[q]
  BY <1>1 DEF IInv, TypeOK, NoSync
<1>8. \A q \in Syncs : sync[q].pc = "statusRead" => sync[q].agent \in Agents
  BY DEF IInv, RequestsConsistent, SyncConsistent, TypeOK, SyncRequests
<1>9. NoServiceWhilePending'
  BY <1>1, <1>3, <1>7, <1>8 DEF IInv, NoServiceWhilePending
<1>10. RowsConsistent'
  <2>1. ASSUME NEW t \in Tokens, token'[t].agent # NULL
        PROVE  Exists(token[t].agent)' /\ token'[t].createdAt <= clock'
    <3>1. token[t].agent \in Agents
      BY <1>1, <2>1 DEF IInv, TypeOK, TokenRows
    <3>2. Exists(token[t].agent) /\ token[t].createdAt <= clock
      BY <1>1, <2>1 DEF IInv, RowsConsistent
    <3>3. QED
      BY <1>1, <1>3, <3>1, <3>2 DEF Exists
  <2>2. ASSUME NEW c \in Credentials, credential'[c].agent # NULL
        PROVE  /\ agent'[credential'[c].agent].mtlsCredential # NULL
               /\ credential'[c].presentedAt <= clock'
    <3>1. credential[c].agent \in Agents
      BY <1>1, <2>2 DEF IInv, TypeOK, CredentialRows
    <3>2. QED
      BY <1>1, <1>3, <2>2, <3>1 DEF IInv, RowsConsistent
  <2>3. QED
    BY <2>1, <2>2 DEF RowsConsistent
<1>11. \A g \in Generations : GenerationConsistent(g)'
  <2> SUFFICES ASSUME NEW g \in Generations, (generate[g].pc = "agentRead")'
               PROVE  (/\ generate[g].agent # NULL
                       /\ Exists(generate[g].agent)
                       /\ generate[g].oldToken # NULL
                       /\ token[generate[g].oldToken].agent = generate[g].agent)'
    BY DEF GenerationConsistent
  <2>1. /\ generate[g].agent # NULL
        /\ Exists(generate[g].agent)
        /\ generate[g].oldToken # NULL
        /\ token[generate[g].oldToken].agent = generate[g].agent
    BY <1>1 DEF IInv, RequestsConsistent, GenerationConsistent
  <2>2. generate[g].agent \in Agents
    BY <2>1 DEF IInv, TypeOK, GenerateRequests
  <2>3. Exists(generate[g].agent)'
    BY <1>1, <1>3, <2>1, <2>2 DEF Exists
  <2>4. QED
    BY <1>1, <2>1, <2>3
<1>12. \A r \in Registrations : RegistrationConsistent(r)'
  BY <1>1 DEF IInv, RequestsConsistent, RegistrationConsistent
<1>13. \A q \in Syncs : SyncConsistent(q)'
  BY <1>1, <1>3, <1>7, <1>8 DEF IInv, RequestsConsistent, SyncConsistent
<1>14. QED
  BY <1>4, <1>5, <1>6, <1>9, <1>10, <1>11, <1>12, <1>13
  DEF IInv, RequestsConsistent

LEMMA SyncFailIInv ==
    ASSUME IInv, NEW s \in Syncs, SyncFail(s)
    PROVE  IInv'
<1> USE DEF SyncFail, database
<1>1. TypeOK'
  BY NextTypeOK DEF IInv, Next
<1>2. /\ CurrentTokenLasts'
      /\ ActiveIsEnrolled'
      /\ CredentialTraceable'
      /\ IdentityMatches'
      /\ RowsConsistent'
  BY DEF IInv, CurrentTokenLasts, ActiveIsEnrolled, CredentialTraceable,
         IdentityMatches, RowsConsistent, Exists
<1>3. /\ sync'[s].pc = "idle"
      /\ \A q \in Syncs : q # s => sync'[q] = sync[q]
  BY DEF IInv, TypeOK, NoSync
<1>4. NoServiceWhilePending'
  BY <1>3 DEF IInv, NoServiceWhilePending
<1>5. RequestsConsistent'
  BY <1>3 DEF IInv, RequestsConsistent, GenerationConsistent,
              RegistrationConsistent, SyncConsistent, Exists
<1>6. QED
  BY <1>1, <1>2, <1>4, <1>5 DEF IInv

LEMMA NextIInv == IInv /\ [Next]_vars => IInv'
<1> SUFFICES ASSUME IInv, [Next]_vars PROVE IInv'
  OBVIOUS
<1>1. CASE Tick
  BY <1>1, TickIInv
<1>2. ASSUME NEW a \in Agents, ProvisionWorkspace(a) \/ BarAgent(a)
      PROVE  IInv'
  BY <1>2, ProvisionIInv, BarIInv
<1>3. ASSUME NEW g \in Generations,
             \/ \E a \in Agents : GenerateRead(g, a)
             \/ GenerateCommit(g)
             \/ GenerateFail(g)
      PROVE  IInv'
  BY <1>3, GenerateReadIInv, GenerateCommitIInv, GenerateFailIInv
<1>4. ASSUME NEW r \in Registrations,
             \E k \in Agents, t \in Tokens : RegisterReadToken(r, k, t)
      PROVE  IInv'
  BY <1>4, RegisterReadTokenIInv
<1>5. ASSUME NEW r \in Registrations, RegisterCheck(r) \/ RegisterCommit(r)
      PROVE  IInv'
  BY <1>5, RegisterCheckIInv, RegisterCommitIInv
<1>6. ASSUME NEW r \in Registrations,
             \/ RegisterReject(r)
             \/ RegisterFail(r)
             \/ LoseAnswer(r)
             \/ StoreCredential(r)
      PROVE  IInv'
  BY <1>6, RegisterEndIInv, StoreCredentialIInv
<1>7. ASSUME NEW s \in Syncs,
             \/ \E k \in Agents : SyncReadStatus(s, k)
             \/ SyncCommit(s)
             \/ SyncFail(s)
      PROVE  IInv'
  BY <1>7, SyncReadStatusIInv, SyncCommitIInv, SyncFailIInv
<1>8. CASE UNCHANGED vars
  <2> USE <1>8 DEF vars
  <2>1. TypeOK'
    BY NextTypeOK DEF IInv
  <2>2. /\ CurrentTokenLasts'
        /\ ActiveIsEnrolled'
        /\ CredentialTraceable'
        /\ IdentityMatches'
        /\ NoServiceWhilePending'
        /\ RowsConsistent'
    BY DEF IInv, CurrentTokenLasts, ActiveIsEnrolled, CredentialTraceable,
           IdentityMatches, NoServiceWhilePending, RowsConsistent, Exists
  <2>3. RequestsConsistent'
    BY DEF IInv, RequestsConsistent, GenerationConsistent,
           RegistrationConsistent, SyncConsistent, Exists
  <2>4. QED
    BY <2>1, <2>2, <2>3 DEF IInv
<1>9. QED
  BY <1>1, <1>2, <1>3, <1>4, <1>5, <1>6, <1>7, <1>8 DEF Next

(* The tables and what the requests in flight remember of them agree, for  *)
(* every interleaving of any number of handlers.                           *)
THEOREM Invariance == Spec => []IInv
BY InitIInv, NextIInv, PTL DEF Spec

-----------------------------------------------------------------------------
(* The properties that follow. *)

(* The tables and the requests in flight stay well formed, whatever the    *)
(* order in which the steps of the handlers are taken.                     *)
THEOREM TypeCorrect == Spec => []TypeOK
<1>1. IInv => TypeOK
  BY DEF IInv
<1>2. QED
  BY <1>1, Invariance, PTL

(* Overlapping generations of tokens never cut short the life of the token *)
(* an agent points to.                                                     *)
THEOREM CurrentTokenSafe == Spec => []CurrentTokenLasts
<1>1. IInv => CurrentTokenLasts
  BY DEF IInv
<1>2. QED
  BY <1>1, Invariance, PTL

(* An agent is Active, or has ever been seen, only with a credential of    *)
(* its own.                                                                *)
THEOREM EnrollmentSafe == Spec => []ActiveIsEnrolled
<1>1. IInv => ActiveIsEnrolled
  BY DEF IInv
<1>2. QED
  BY <1>1, Invariance, PTL

(* Every credential goes back to a token of its agent that had not ended   *)
(* when it was looked up.                                                  *)
THEOREM CredentialsSafe == Spec => []CredentialTraceable
<1>1. IInv => CredentialTraceable
  BY DEF IInv
<1>2. QED
  BY <1>1, Invariance, PTL

(* Whatever token a cluster is bootstrapped with, it gets the identity of  *)
(* an agent of its own workspace id, even if workspaces share one.         *)
THEOREM IdentitySafe == Spec => []IdentityMatches
<1>1. IInv => IdentityMatches
  BY DEF IInv
<1>2. QED
  BY <1>1, Invariance, PTL

(* A sync that an agent waiting for registration still answers has read    *)
(* its status before the agent was reset.                                  *)
THEOREM ServiceSafe == Spec => []NoServiceWhilePending
<1>1. IInv => NoServiceWhilePending
  BY DEF IInv
<1>2. QED
  BY <1>1, Invariance, PTL

-----------------------------------------------------------------------------
(* Superseded tokens: when generations do not overlap, the token one has   *)
(* read is still the agent's when it commits, so it ends the right one.    *)

OneGeneration == \A g, h \in Generations : g = h

SupersededInv ==
    /\ SupersededTokenEnded
    /\ \A g \in Generations : generate[g].pc = "agentRead" =>
          generate[g].oldToken = agent[generate[g].agent].bootstrapToken

(* Steps that leave tokens, generations and pointers to tokens alone. *)
LEMMA QuietSuperseded ==
    ASSUME IInv, SupersededInv,
           UNCHANGED <<token, generate>>,
           clock' \in Nat, clock <= clock',
           \A a \in Agents : agent'[a].bootstrapToken = agent[a].bootstrapToken
    PROVE  SupersededInv'
<1>1. \A t \in Tokens : /\ token[t].agent \in Agents \cup {NULL}
                        /\ token[t].expiredAt \in Nat
  BY DEF IInv, TypeOK, TokenRows
<1>2. \A g \in Generations : generate[g].pc = "agentRead" =>
         generate[g].agent \in Agents
  BY DEF IInv, TypeOK, GenerateRequests, RequestsConsistent,
         GenerationConsistent
<1>3. clock \in Nat
  BY DEF IInv, TypeOK
<1>4. ASSUME NEW t \in Tokens,
             token[t].agent # NULL,
             agent[token[t].agent].bootstrapToken # t
      PROVE  token[t].expiredAt <= clock'
  BY <1>1, <1>3, <1>4 DEF SupersededInv, SupersededTokenEnded
<1>5. SupersededTokenEnded'
  BY <1>1, <1>4 DEF SupersededTokenEnded
<1>6. QED
  BY <1>2, <1>5 DEF SupersededInv

LEMMA ProvisionSuperseded ==
    ASSUME IInv, SupersededInv, NEW a \in Agents, ProvisionWorkspace(a)
    PROVE  SupersededInv'
<1>1. PICK n \in Tokens : /\ token[n].agent = NULL
                          /\ token' = Issue(token, n, a)
                          /\ agent' = [agent EXCEPT ![a] = Provisioned(n)]
  BY DEF ProvisionWorkspace
<1>2. agent[a].status = "Absent" /\ clock' = clock /\ generate' = generate
  BY DEF ProvisionWorkspace
<1>3. /\ token'[n].agent = a
      /\ agent'[a].bootstrapToken = n
      /\ \A t \in Tokens : t # n => token'[t] = token[t]
      /\ \A b \in Agents : b # a => agent'[b] = agent[b]
  BY <1>1 DEF IInv, TypeOK, Issue, Provisioned, NoAgent
<1>4. \A t \in Tokens : token[t].agent # NULL =>
         token[t].agent \in Agents /\ token[t].agent # a
  BY <1>2 DEF IInv, TypeOK, TokenRows, RowsConsistent, Exists
<1>5. \A g \in Generations : generate[g].pc = "agentRead" =>
         generate[g].agent \in Agents /\ generate[g].agent # a
  BY <1>2 DEF IInv, TypeOK, GenerateRequests, RequestsConsistent,
              GenerationConsistent, Exists
<1>6. SupersededTokenEnded'
  BY <1>2, <1>3, <1>4 DEF SupersededInv, SupersededTokenEnded
<1>7. QED
  BY <1>2, <1>3, <1>5, <1>6 DEF SupersededInv

LEMMA GenerateReadSuperseded ==
    ASSUME IInv, SupersededInv, NEW g \in Generations, NEW a \in Agents,
           GenerateRead(g, a)
    PROVE  SupersededInv'
<1>1. /\ generate' = [generate EXCEPT ![g] =
                         [pc |-> "agentRead", agent |-> a,
                          oldToken |-> agent[a].bootstrapToken]]
      /\ UNCHANGED <<clock, agent, token>>
  BY DEF GenerateRead, database
<1>2. /\ generate'[g].agent = a
      /\ generate'[g].oldToken = agent[a].bootstrapToken
      /\ \A h \in Generations : h # g => generate'[h] = generate[h]
  BY <1>1 DEF IInv, TypeOK
<1>3. QED
  BY <1>1, <1>2 DEF SupersededInv, SupersededTokenEnded

LEMMA GenerateEndSuperseded ==
    ASSUME IInv, SupersededInv, OneGeneration, NEW g \in Generations,
           GenerateCommit(g) \/ GenerateFail(g)
    PROVE  SupersededInv'
<1>1. generate'[g].pc = "idle"
  BY DEF GenerateCommit, GenerateFail, NoGenerate, IInv, TypeOK
<1>2. \A h \in Generations : generate'[h].pc # "agentRead"
  BY <1>1 DEF OneGeneration
<1>3. CASE GenerateFail(g)
  BY <1>2, <1>3 DEF GenerateFail, database, SupersededInv,
                    SupersededTokenEnded
<1>4. CASE GenerateCommit(g)
  <2> DEFINE a == generate[g].agent
             old == generate[g].oldToken
  <2>1. PICK n \in Tokens :
           /\ token[n].agent = NULL
           /\ token' = Issue(Invalidate(token, old), n, a)
           /\ agent' = [agent EXCEPT ![a] = Reset(@, n)]
    BY <1>4 DEF GenerateCommit
  <2>2. /\ a \in Agents
        /\ old \in Tokens
        /\ old # NULL
        /\ old = agent[a].bootstrapToken
        /\ clock' = clock
        /\ clock \in Nat
    BY <1>4 DEF GenerateCommit, IInv, TypeOK, GenerateRequests,
                RequestsConsistent, GenerationConsistent, SupersededInv
  <2>3. /\ token'[n].agent = a
        /\ agent'[a].bootstrapToken = n
    BY <2>1, <2>2 DEF IInv, TypeOK, Issue, Invalidate, Reset, AgentRows
  <2>4. \A b \in Agents : b # a => agent'[b] = agent[b]
    BY <2>1 DEF IInv, TypeOK
  <2>5. \A t \in Tokens : t # n /\ t # old => token'[t] = token[t]
    BY <2>1, <2>2 DEF IInv, TypeOK, Issue, Invalidate
  <2>6. old # n => token'[old].expiredAt = clock
    BY <2>1, <2>2 DEF IInv, TypeOK, Issue, Invalidate, TokenRows
  <2>7. \A t \in Tokens : token[t].agent \in Agents \cup {NULL}
    BY DEF IInv, TypeOK, TokenRows
  <2>8. ASSUME NEW t \in Tokens,
               token'[t].agent # NULL,
               agent'[token'[t].agent].bootstrapToken # t
        PROVE  token'[t].expiredAt <= clock
    <3>1. CASE t = n
      BY <2>3, <2>8, <3>1
    <3>2. CASE t = old /\ t # n
      BY <2>2, <2>6, <3>2
    <3>3. CASE t # old /\ t # n
      <4>1. token'[t] = token[t] /\ token[t].agent # NULL
        BY <2>5, <2>8, <3>3
      <4>2. agent[token[t].agent].bootstrapToken # t
        BY <2>2, <2>4, <2>7, <2>8, <3>3, <4>1
      <4>3. QED
        BY <4>1, <4>2 DEF SupersededInv, SupersededTokenEnded
    <3>4. QED
      BY <3>1, <3>2, <3>3
  <2>9. SupersededTokenEnded'
    BY <2>2, <2>8 DEF SupersededTokenEnded
  <2>10. QED
    BY <1>2, <2>9 DEF SupersededInv
<1>5. QED
  BY <1>3, <1>4

LEMMA NextSuperseded ==
    ASSUME OneGeneration
    PROVE  IInv /\ SupersededInv /\ [Next]_vars => SupersededInv'
<1> SUFFICES ASSUME IInv, SupersededInv, [Next]_vars PROVE SupersededInv'
  OBVIOUS
<1>1. clock \in Nat /\ agent \in [Agents -> AgentRows]
  BY DEF IInv, TypeOK
<1>2. CASE Tick
  BY <1>1, <1>2, QuietSuperseded DEF Tick, database
<1>3. ASSUME NEW a \in Agents, ProvisionWorkspace(a) PROVE SupersededInv'
  BY <1>3, ProvisionSuperseded
<1>4. ASSUME NEW a \in Agents, BarAgent(a) PROVE SupersededInv'
  BY <1>1, <1>4, QuietSuperseded DEF BarAgent, AgentRows
<1>5. ASSUME NEW g \in Generations,
             \/ \E a \in Agents : GenerateRead(g, a)
             \/ GenerateCommit(g)
             \/ GenerateFail(g)
      PROVE  SupersededInv'
  BY <1>5, GenerateReadSuperseded, GenerateEndSuperseded
<1>6. ASSUME NEW r \in Registrations,
             \/ \E k \in Agents, t \in Tokens : RegisterReadToken(r, k, t)
             \/ RegisterCheck(r)
             \/ RegisterReject(r)
             \/ RegisterFail(r)
             \/ StoreCredential(r)
             \/ LoseAnswer(r)
      PROVE  SupersededInv'
  <2>1. UNCHANGED <<clock, agent, token, generate>>
    BY <1>6 DEF RegisterReadToken, RegisterCheck, RegisterReject,
                RegisterFail, StoreCredential, LoseAnswer, database
  <2>2. QED
    BY <1>1, <2>1, QuietSuperseded
<1>7. ASSUME NEW r \in Registrations, RegisterCommit(r) PROVE SupersededInv'
  <2>1. PICK c \in Credentials :
           agent' = [agent EXCEPT ![token[register[r].token].agent] =
                        Activate(@, c)]
    BY <1>7 DEF RegisterCommit
  <2>2. \A a \in Agents : agent'[a].bootstrapToken = agent[a].bootstrapToken
    BY <1>1, <2>1 DEF Activate, AgentRows
  <2>3. QED
    BY <1>1, <1>7, <2>2, QuietSuperseded DEF RegisterCommit
<1>8. ASSUME NEW s \in Syncs,
             \/ \E k \in Agents : SyncReadStatus(s, k)
             \/ SyncFail(s)
      PROVE  SupersededInv'
  BY <1>1, <1>8, QuietSuperseded DEF SyncReadStatus, SyncFail, database
<1>9. ASSUME NEW s \in Syncs, SyncCommit(s) PROVE SupersededInv'
  BY <1>1, <1>9, QuietSuperseded DEF SyncCommit, AgentRows
<1>10. CASE UNCHANGED vars
  BY <1>1, <1>10, QuietSuperseded DEF vars
<1>11. QED
  BY <1>2, <1>3, <1>4, <1>5, <1>6, <1>7, <1>8, <1>9, <1>10 DEF Next

(* With one generation of a token served at a time, a token that has been  *)
(* replaced has ended, for any number of agents, tokens and registrations. *)
(* The hypothesis is needed: two overlapping generations refute it.        *)
THEOREM SupersededSafe == OneGeneration => (Spec => []SupersededTokenEnded)
<1> SUFFICES ASSUME OneGeneration PROVE Spec => []SupersededTokenEnded
  OBVIOUS
<1>1. Init => SupersededInv
  BY DEF Init, SupersededInv, SupersededTokenEnded, NoToken, NoGenerate
<1>2. IInv /\ SupersededInv /\ [Next]_vars => SupersededInv'
  BY NextSuperseded
<1>3. SupersededInv => SupersededTokenEnded
  BY DEF SupersededInv
<1>4. QED
  BY <1>1, <1>2, <1>3, Invariance, PTL DEF Spec

-----------------------------------------------------------------------------
(* The handlers implement the abstract life of an agent.                   *)

(* Steps that change neither a status nor an admission stutter. *)
LEMMA StutterEnrollment ==
    ASSUME \A a \in Agents : agent'[a].status = agent[a].status,
           \A r \in Registrations :
              IF register'[r].pc = "issuing"
              THEN /\ register[r].pc = "issuing"
                   /\ token'[register'[r].token].agent
                         = token[register[r].token].agent
              ELSE register[r].pc # "issuing"
    PROVE  UNCHANGED Enrollment!vars
<1>1. Standing' = Standing
  BY DEF Standing
<1>2. Admission' = Admission
  BY DEF Admission
<1>3. QED
  BY <1>1, <1>2 DEF Enrollment!vars

(* A token that a registration in flight names has an owner, and no write  *)
(* to the table of tokens takes it over.                                   *)
LEMMA IssuingToken ==
    ASSUME IInv, NEW r \in Registrations, register[r].pc # "idle"
    PROVE  /\ register[r].token \in Tokens
           /\ token[register[r].token].agent \in Agents
BY DEF IInv, TypeOK, RegisterRequests, TokenRows, RequestsConsistent,
       RegistrationConsistent

LEMMA ProvisionEnrolls ==
    ASSUME IInv, NEW a \in Agents, ProvisionWorkspace(a)
    PROVE  Enrollment!Provision(a)
<1>1. PICK n \in Tokens : /\ token[n].agent = NULL
                          /\ token' = Issue(token, n, a)
                          /\ agent' = [agent EXCEPT ![a] = Provisioned(n)]
  BY DEF ProvisionWorkspace
<1>2. register' = register /\ agent[a].status = "Absent"
  BY DEF ProvisionWorkspace
<1>3. Standing' = [Standing EXCEPT ![a] = "PendingRegistration"]
  BY <1>1 DEF Standing, Provisioned, NoAgent, IInv, TypeOK
<1>4. \A t \in Tokens : token[t].agent # NULL => token'[t] = token[t]
  BY <1>1 DEF Issue, IInv, TypeOK
<1>5. \A r \in Registrations : register[r].pc = "issuing" =>
         /\ register[r].token \in Tokens
         /\ token[register[r].token].agent # NULL
  BY IssuingToken, ConstantsAssumption DEF ConstantsAssumption
<1>6. Admission' = Admission
  BY <1>2, <1>4, <1>5 DEF Admission
<1>7. QED
  BY <1>2, <1>3, <1>6 DEF Enrollment!Provision, Standing

LEMMA BarEnrolls ==
    ASSUME IInv, NEW a \in Agents, BarAgent(a)
    PROVE  Enrollment!Bar(a)
<1>1. PICK s \in {"Suspended", "Deleted"} :
         agent' = [agent EXCEPT ![a].status = s]
  BY DEF BarAgent
<1>2. Standing' = [Standing EXCEPT ![a] = s]
  BY <1>1 DEF Standing, IInv, TypeOK, AgentRows
<1>3. Admission' = Admission
  BY DEF BarAgent, Admission
<1>4. Standing[a] # "Absent"
  BY DEF BarAgent, Standing
<1>5. QED
  BY <1>2, <1>3, <1>4 DEF Enrollment!Bar, Enrollment!Barred

LEMMA GenerateCommitResets ==
    ASSUME IInv, NEW g \in Generations, GenerateCommit(g)
    PROVE  \E a \in Agents : Enrollment!Reset(a)
<1> DEFINE a == generate[g].agent
           old == generate[g].oldToken
<1>1. PICK n \in Tokens :
         /\ token[n].agent = NULL
         /\ token' = Issue(Invalidate(token, old), n, a)
         /\ agent' = [agent EXCEPT ![a] = Reset(@, n)]
  BY DEF GenerateCommit
<1>2. /\ a \in Agents
      /\ old \in Tokens
      /\ agent[a].status # "Absent"
      /\ register' = register
  BY DEF GenerateCommit, IInv, TypeOK, GenerateRequests,
         RequestsConsistent, GenerationConsistent, Exists
<1>3. Standing' = [Standing EXCEPT ![a] = "PendingRegistration"]
  BY <1>1, <1>2 DEF Standing, Reset, IInv, TypeOK, AgentRows
<1>4. \A t \in Tokens : token[t].agent # NULL => token'[t].agent = token[t].agent
  BY <1>1, <1>2 DEF Issue, Invalidate, IInv, TypeOK, TokenRows
<1>5. \A r \in Registrations : register[r].pc = "issuing" =>
         /\ register[r].token \in Tokens
         /\ token[register[r].token].agent # NULL
  BY IssuingToken, ConstantsAssumption DEF ConstantsAssumption
<1>6. Admission' = Admission
  BY <1>2, <1>4, <1>5 DEF Admission
<1>7. Standing[a] # "Absent"
  BY <1>2 DEF Standing
<1>8. QED
  BY <1>2, <1>3, <1>6, <1>7 DEF Enrollment!Reset

LEMMA RegisterCheckAdmits ==
    ASSUME IInv, NEW r \in Registrations, RegisterCheck(r)
    PROVE  \E a \in Agents : Enrollment!Admit(r, a)
<1> DEFINE a == token[register[r].token].agent
<1>1. /\ register[r].pc = "tokenRead"
      /\ Admits(agent[a].status)
      /\ register' = [register EXCEPT ![r].pc = "issuing"]
      /\ UNCHANGED <<agent, token>>
  BY DEF RegisterCheck, database
<1>2. register[r].token \in Tokens /\ a \in Agents
  BY <1>1, IssuingToken
<1>3. agent[a].status \in {"PendingRegistration", "Active"}
  <2>1. a # NULL
    BY <1>2, ConstantsAssumption DEF ConstantsAssumption
  <2>2. agent[a].status # "Absent"
    BY <1>2, <2>1 DEF IInv, RowsConsistent, Exists
  <2>3. QED
    BY <1>1, <1>2, <2>2 DEF Admits, IInv, TypeOK, AgentRows, Statuses
<1>4. Admission[r] = NULL
  BY <1>1 DEF Admission
<1>5. /\ register'[r].pc = "issuing"
      /\ register'[r].token = register[r].token
      /\ \A q \in Registrations : q # r => register'[q] = register[q]
  BY <1>1 DEF IInv, TypeOK, RegisterRequests
<1>6. Admission' = [Admission EXCEPT ![r] = a]
  <2>1. Admission'[r] = a
    BY <1>1, <1>5 DEF Admission
  <2>2. \A q \in Registrations : q # r => Admission'[q] = Admission[q]
    BY <1>1, <1>5 DEF Admission
  <2>3. QED
    BY <2>1, <2>2 DEF Admission
<1>7. Standing' = Standing /\ Standing[a] = agent[a].status
  BY <1>1, <1>2 DEF Standing
<1>8. QED
  BY <1>2, <1>3, <1>4, <1>6, <1>7 DEF Enrollment!Admit

LEMMA RegisterCommitEnrolls ==
    ASSUME IInv, NEW r \in Registrations, RegisterCommit(r)
    PROVE  Enrollment!Enroll(r)
<1> DEFINE a == token[register[r].token].agent
<1>1. PICK c \in Credentials :
         /\ agent' = [agent EXCEPT ![a] = Activate(@, c)]
         /\ register' = [register EXCEPT ![r].pc = "answered",
                                         ![r].credential = c]
  BY DEF RegisterCommit
<1>2. register[r].pc = "issuing" /\ token' = token
  BY DEF RegisterCommit
<1>3. a \in Agents
  BY <1>2, IssuingToken
<1>4. Admission[r] = a /\ a # NULL
  BY <1>2, <1>3, ConstantsAssumption DEF Admission, ConstantsAssumption
<1>5. Standing' = [Standing EXCEPT ![a] = "Active"]
  BY <1>1, <1>3 DEF Standing, Activate, IInv, TypeOK, AgentRows
<1>6. /\ register'[r].pc = "answered"
      /\ \A q \in Registrations : q # r => register'[q] = register[q]
  BY <1>1 DEF IInv, TypeOK, RegisterRequests
<1>7. Admission' = [Admission EXCEPT ![r] = NULL]
  BY <1>2, <1>6 DEF Admission
<1>8. QED
  BY <1>4, <1>5, <1>7 DEF Enrollment!Enroll

LEMMA RegisterEndEnrollment ==
    ASSUME IInv, NEW r \in Registrations,
           \/ RegisterReject(r)
           \/ RegisterFail(r)
           \/ StoreCredential(r)
           \/ LoseAnswer(r)
    PROVE  [Enrollment!Next]_(Enrollment!vars)
<1>1. /\ register' = [register EXCEPT ![r] = NoRegister]
      /\ UNCHANGED <<agent, token>>
  BY DEF RegisterReject, RegisterFail, StoreCredential, LoseAnswer, database
<1>2. /\ register'[r].pc = "idle"
      /\ \A q \in Registrations : q # r => register'[q] = register[q]
  BY <1>1 DEF IInv, TypeOK, NoRegister
<1>3. Standing' = Standing
  BY <1>1 DEF Standing
<1>4. CASE register[r].pc = "issuing"
  <2>1. Admission[r] # NULL
    BY <1>4, IssuingToken, ConstantsAssumption
    DEF Admission, ConstantsAssumption
  <2>2. Admission' = [Admission EXCEPT ![r] = NULL]
    <3>1. Admission'[r] = NULL
      BY <1>2 DEF Admission
    <3>2. \A q \in Registrations : q # r => Admission'[q] = Admission[q]
      BY <1>1, <1>2 DEF Admission
    <3>3. QED
      BY <3>1, <3>2 DEF Admission
  <2>3. QED
    BY <1>3, <2>1, <2>2 DEF Enrollment!Next, Enrollment!Withdraw
<1>5. CASE register[r].pc # "issuing"
  <2>1. Admission' = Admission
    BY <1>1, <1>2, <1>5 DEF Admission
  <2>2. QED
    BY <1>3, <2>1 DEF Enrollment!vars
<1>6. QED
  BY <1>4, <1>5

LEMMA NextEnrollment ==
    IInv /\ [Next]_vars => [Enrollment!Next]_(Enrollment!vars)
<1> SUFFICES ASSUME IInv, [Next]_vars
             PROVE  [Enrollment!Next]_(Enrollment!vars)
  OBVIOUS
<1>1. ASSUME NEW a \in Agents, ProvisionWorkspace(a) \/ BarAgent(a)
      PROVE  [Enrollment!Next]_(Enrollment!vars)
  BY <1>1, ProvisionEnrolls, BarEnrolls DEF Enrollment!Next
<1>2. ASSUME NEW g \in Generations, GenerateCommit(g)
      PROVE  [Enrollment!Next]_(Enrollment!vars)
  BY <1>2, GenerateCommitResets DEF Enrollment!Next
<1>3. ASSUME NEW r \in Registrations, RegisterCheck(r) \/ RegisterCommit(r)
      PROVE  [Enrollment!Next]_(Enrollment!vars)
  BY <1>3, RegisterCheckAdmits, RegisterCommitEnrolls DEF Enrollment!Next
<1>4. ASSUME NEW r \in Registrations,
             \/ RegisterReject(r)
             \/ RegisterFail(r)
             \/ StoreCredential(r)
             \/ LoseAnswer(r)
      PROVE  [Enrollment!Next]_(Enrollment!vars)
  BY <1>4, RegisterEndEnrollment
<1>5. ASSUME NEW r \in Registrations, NEW k \in Agents, NEW t \in Tokens,
             RegisterReadToken(r, k, t)
      PROVE  UNCHANGED Enrollment!vars
  <2>1. /\ register[r].pc = "idle"
        /\ register'[r].pc = "tokenRead"
        /\ \A q \in Registrations : q # r => register'[q] = register[q]
        /\ UNCHANGED <<agent, token>>
    BY <1>5 DEF RegisterReadToken, NoRegister, database, IInv, TypeOK
  <2>2. QED
    BY <2>1, StutterEnrollment
<1>6. ASSUME \/ Tick
             \/ \E g \in Generations :
                   \/ \E a \in Agents : GenerateRead(g, a)
                   \/ GenerateFail(g)
             \/ \E s \in Syncs :
                   \/ \E k \in Agents : SyncReadStatus(s, k)
                   \/ SyncFail(s)
             \/ UNCHANGED vars
      PROVE  UNCHANGED Enrollment!vars
  <2>1. UNCHANGED <<agent, token, register>>
    BY <1>6 DEF Tick, GenerateRead, GenerateFail, SyncReadStatus, SyncFail,
                database, vars
  <2>2. QED
    BY <2>1, StutterEnrollment
<1>7. ASSUME NEW s \in Syncs, SyncCommit(s)
      PROVE  UNCHANGED Enrollment!vars
  <2>1. UNCHANGED <<token, register>>
    BY <1>7 DEF SyncCommit
  <2>2. \A a \in Agents : agent'[a].status = agent[a].status
    BY <1>7 DEF SyncCommit, IInv, TypeOK, AgentRows
  <2>3. QED
    BY <2>1, <2>2, StutterEnrollment
<1>8. QED
  BY <1>1, <1>2, <1>3, <1>4, <1>5, <1>6, <1>7 DEF Next

(* Whatever the requests overlap with, an agent becomes Active only by a   *)
(* registration admitted while it was neither suspended nor deleted, and   *)
(* its status changes only as AgentEnrollment says.                        *)
THEOREM Refinement == Spec => EnrollmentSpec
<1>1. Init => Enrollment!Init
  BY DEF Init, Enrollment!Init, Standing, Admission, NoAgent, NoRegister
<1>2. IInv /\ [Next]_vars => [Enrollment!Next]_(Enrollment!vars)
  BY NextEnrollment
<1>3. QED
  BY <1>1, <1>2, Invariance, PTL DEF Spec, EnrollmentSpec, Enrollment!Spec
=============================================================================
