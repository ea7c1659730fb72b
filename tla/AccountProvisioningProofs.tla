----------------------- MODULE AccountProvisioningProofs -----------------------
(***************************************************************************)
(* Proofs about AccountProvisioning for any number of requests, accounts   *)
(* and owners and any retry limit.                                         *)
(***************************************************************************)
EXTENDS AccountProvisioning, TLAPS

(* The adapter takes eight steps. *)
LEMMA StepsAre ==
    /\ Len(Steps) = 8
    /\ Steps[1] = "realm" /\ Steps[2] = "realmRoles" /\ Steps[3] = "client"
    /\ Steps[4] = "clientRoles" /\ Steps[5] = "clientMappers"
    /\ Steps[6] = "owner" /\ Steps[7] = "ownerRoles" /\ Steps[8] = "password"
BY DEF Steps

(* What each of the eight steps does. *)
LEMMA EnsuredByStep ==
    ASSUME NEW r, NEW o, NEW s
    PROVE  /\ Ensured(r, 1, o, s) = WithPart(r, "realm")
           /\ Ensured(r, 2, o, s) = WithPart(r, "realmRoles")
           /\ Ensured(r, 3, o, s) = WithPart(r, "client")
           /\ Ensured(r, 4, o, s) = EnsureClientRoles(r)
           /\ Ensured(r, 5, o, s) = EnsureClientMappers(r)
           /\ Ensured(r, 6, o, s) = EnsureUser(r, o)
           /\ Ensured(r, 7, o, s) = EnsureUserRoles(r, o)
           /\ Ensured(r, 8, o, s) = EnsureResetUserPassword(r, o, s)
BY StepsAre DEF Ensured, EnsureRealm, EnsureRealmRoles, EnsureClient

(* A part is added and nothing else changes. *)
LEMMA WithPartDoes ==
    ASSUME NEW r \in RealmType, NEW part \in Parts
    PROVE  LET w == WithPart(r, part)
           IN  /\ w \in RealmType
               /\ w.parts = r.parts \cup {part}
               /\ w.users = r.users /\ w.admins = r.admins /\ w.password = r.password
BY DEF WithPart, RealmType

(* Whatever step is taken, what the realm has stays (the administrators    *)
(* too, if the realm has its roles when theirs are given), and the step    *)
(* leaves what it is for.                                                  *)
LEMMA EnsuredDoes ==
    ASSUME NEW r \in RealmType, NEW i \in 1..Len(Steps),
           NEW o \in Owners, NEW s \in Passwords
    PROVE  LET w == Ensured(r, i, o, s)
           IN  /\ w \in RealmType
               /\ r.parts \subseteq w.parts
               /\ i < 6 /\ (i > 3 => "client" \in r.parts) => Steps[i] \in w.parts
               /\ r.users \subseteq w.users /\ w.users \subseteq r.users \cup {o}
               /\ i = 6 => o \in w.users
               /\ (i = 7 => "realmRoles" \in r.parts) =>
                     r.admins \subseteq w.admins /\ (i = 7 => o \in w.admins)
               /\ \A x \in Owners : w.password[x] \in {r.password[x], s}
               /\ i = 8 => w.password[o] = s
<1> DEFINE w == Ensured(r, i, o, s)
<1>1. i \in 1..8
  BY StepsAre
<1>2. CASE i \in 1..3
  BY <1>2, StepsAre, EnsuredByStep, WithPartDoes DEF Parts
<1>3. CASE i \in 4..5
  BY <1>3, StepsAre, EnsuredByStep, WithPartDoes
  DEF Parts, EnsureClientRoles, EnsureClientMappers
<1>4. CASE i = 6
  <2>1. w = [r EXCEPT !.users = @ \cup {o}]
    BY <1>4, EnsuredByStep DEF EnsureUser
  <2>2. QED
    BY <1>4, <2>1 DEF RealmType
<1>5. CASE i = 7
  <2>1. w = [r EXCEPT !.admins = IF "realmRoles" \in r.parts
                                 THEN @ \cup {o} ELSE @ \ {o}]
    BY <1>5, EnsuredByStep DEF EnsureUserRoles
  <2>2. QED
    BY <1>5, <2>1 DEF RealmType
<1>6. CASE i = 8
  <2>1. w = [r EXCEPT !.password[o] = s]
    BY <1>6, EnsuredByStep DEF EnsureResetUserPassword
  <2>2. QED
    BY <1>6, <2>1 DEF RealmType
<1>7. QED
  BY <1>1, <1>2, <1>3, <1>4, <1>5, <1>6

-----------------------------------------------------------------------------
(* Type correctness *)

LEMMA AccountInitTypeOK == Init => TypeOK
<1> SUFFICES ASSUME Init PROVE TypeOK
  OBVIOUS
<1> USE ConstantsAssumption, StepsAre DEF Init
<1>1. account \in [Accounts -> RowType] /\ request \in [Requests -> RequestType]
  BY DEF NoAccount, RowType, NoRequest, RequestType
<1>2. workflow \in [Requests -> WorkflowType]
  BY DEF NoWorkflow, WorkflowType
<1>3. /\ auth \in [Requests -> [Attempts -> 0..(Len(Steps) + 1)]]
      /\ lost \in Nat
  OBVIOUS
<1>4. realm \in RealmType /\ mailbox \in [Owners -> Passwords \cup {NULL}]
  BY DEF RealmType
<1>5. update \in [Requests -> SUBSET (Outcomes \X Attempts)]
  OBVIOUS
<1>6. QED
  BY <1>1, <1>2, <1>3, <1>4, <1>5 DEF TypeOK

(* An attempt that is given up is followed by the next one of the same     *)
(* activity, or after the last by the phase that a failure leads to.       *)
LEMMA RetryDoes ==
    ASSUME TypeOK, NEW p \in Requests, WorkflowInOrder(p),
           workflow[p].pc \in {"auth", "activate", "compensate"},
           NEW running \in SUBSET update[p], Retry(p, running)
    PROVE  \E pc \in {"auth", "activate", "compensate", "failed"}, n \in Attempts :
              /\ \/ pc = workflow[p].pc /\ n = workflow[p].attempt + 1
                 \/ /\ workflow[p].attempt = MaxAttempts /\ n = 1
                    /\ pc = AfterFailure(workflow[p].pc)
              /\ Enter(p, pc, n)
              /\ update' = [update EXCEPT ![p] = running \cup Scheduled(p, pc, n)]
<1>1. workflow[p].attempt \in Attempts
  BY DEF WorkflowInOrder
<1>2. CASE workflow[p].attempt = MaxAttempts
  <2>1. AfterFailure(workflow[p].pc) \in {"failed", "compensate"} /\ 1 \in Attempts
    BY ConstantsAssumption DEF AfterFailure, Attempts
  <2>2. /\ Enter(p, AfterFailure(workflow[p].pc), 1)
        /\ update' = [update EXCEPT ![p] =
                       running \cup Scheduled(p, AfterFailure(workflow[p].pc), 1)]
    BY <1>2 DEF Retry
  <2>3. QED
    BY <1>2, <2>1, <2>2
<1>3. CASE workflow[p].attempt # MaxAttempts
  <2>1. workflow[p].attempt + 1 \in Attempts
    BY <1>1, <1>3, ConstantsAssumption DEF Attempts
  <2>2. /\ Enter(p, workflow[p].pc, workflow[p].attempt + 1)
        /\ update' = [update EXCEPT ![p] = running \cup
                       Scheduled(p, workflow[p].pc, workflow[p].attempt + 1)]
    BY <1>3 DEF Retry, NextAttempt
  <2>3. QED
    BY <2>1, <2>2
<1>4. QED
  BY <1>2, <1>3

(* Where the workflow goes when an activity has succeeded. *)
LEMMA AfterSuccessIs ==
    /\ AfterSuccess("auth") = "activate"
    /\ AfterSuccess("activate") = "email"
    /\ AfterSuccess("compensate") = "failed"
BY DEF AfterSuccess

(* The parts of a step are well-typed. *)
LEMMA ScheduledTyped ==
    ASSUME NEW p, NEW pc, NEW n \in Attempts
    PROVE  Scheduled(p, pc, n) \in SUBSET (Outcomes \X Attempts)
BY DEF Scheduled, Records, Statuses, Outcomes

LEMMA EnterTyped ==
    ASSUME TypeOK, NEW p \in Requests, NEW n \in Attempts,
           NEW pc \in {"auth", "activate", "compensate", "failed"}, Enter(p, pc, n)
    PROVE  /\ workflow' \in [Requests -> WorkflowType]
           /\ auth' \in [Requests -> [Attempts -> 0..(Len(Steps) + 1)]]
<1>1. n \in 0..MaxAttempts
  BY ConstantsAssumption DEF Attempts
<1>2. workflow' \in [Requests -> WorkflowType]
  <2>1. [workflow[p] EXCEPT !.pc = pc, !.attempt = n] \in WorkflowType
    BY <1>1 DEF TypeOK, WorkflowType
  <2>2. QED
    BY <2>1 DEF Enter, TypeOK
<1>3. auth' \in [Requests -> [Attempts -> 0..(Len(Steps) + 1)]]
  BY StepsAre DEF Enter, TypeOK
<1>4. QED
  BY <1>2, <1>3

LEMMA RetryTyped ==
    ASSUME TypeOK, NEW p \in Requests, WorkflowInOrder(p),
           workflow[p].pc \in {"auth", "activate", "compensate"},
           NEW running \in SUBSET update[p], Retry(p, running)
    PROVE  /\ workflow' \in [Requests -> WorkflowType]
           /\ auth' \in [Requests -> [Attempts -> 0..(Len(Steps) + 1)]]
           /\ update' \in [Requests -> SUBSET (Outcomes \X Attempts)]
<1>1. PICK pc \in {"auth", "activate", "compensate", "failed"}, n \in Attempts :
              /\ Enter(p, pc, n)
              /\ update' = [update EXCEPT ![p] = running \cup Scheduled(p, pc, n)]
  BY RetryDoes
<1>2. running \cup Scheduled(p, pc, n) \in SUBSET (Outcomes \X Attempts)
  BY ScheduledTyped DEF TypeOK
<1>3. QED
  BY <1>1, <1>2, EnterTyped DEF TypeOK

LEMMA WriteTyped ==
    ASSUME TypeOK, NEW status \in Statuses, Write(status)
    PROVE  account' \in [Accounts -> RowType]
BY DEF TypeOK, Write, RowType

(* An attempt is numbered within the limit only because a workflow that    *)
(* runs is in one: hence WorkflowInOrder.                                  *)
LEMMA AccountNextTypeOK ==
    TypeOK /\ (\A p \in Requests : WorkflowInOrder(p)) /\ [Next]_vars => TypeOK'
<1> SUFFICES ASSUME TypeOK, \A p \in Requests : WorkflowInOrder(p), [Next]_vars
             PROVE  TypeOK'
  OBVIOUS
<1>1. ASSUME NEW p \in Requests, CheckAccount(p) PROVE TypeOK'
  <2>1. PICK f \in Accounts \cup {NULL} :
           request' = [request EXCEPT ![p] = [pc |-> "checked", found |-> f]]
    BY <1>1 DEF CheckAccount
  <2>2. request' \in [Requests -> RequestType]
    BY <2>1 DEF TypeOK, RequestType
  <2>3. QED
    BY <1>1, <2>2 DEF CheckAccount, TypeOK
<1>2. ASSUME NEW p \in Requests, CommitAccount(p) PROVE TypeOK'
  <2>1. \A a \in Accounts : Row(account[a], Owner[p]) \in RowType
    BY ConstantsAssumption DEF TypeOK, RowType, Row, Statuses
  <2>2. account' \in [Accounts -> RowType]
    BY <1>2, <2>1 DEF CommitAccount, TypeOK
  <2>3. request' \in [Requests -> RequestType]
    BY <1>2 DEF CommitAccount, TypeOK, RequestType
  <2>4. QED
    BY <1>2, <2>2, <2>3 DEF CommitAccount, TypeOK
<1>3. ASSUME NEW p \in Requests, StartWorkflow(p) PROVE TypeOK'
  <2>1. 1 \in Attempts
    BY ConstantsAssumption DEF Attempts
  <2>2. request' \in [Requests -> RequestType]
    BY <1>3 DEF StartWorkflow, TypeOK, RequestType
  <2>3. QED
    BY <1>3, <2>1, <2>2, EnterTyped DEF StartWorkflow, TypeOK
<1>4. ASSUME NEW p \in Requests, FailRequest(p) PROVE TypeOK'
  BY <1>4 DEF FailRequest, TypeOK, RequestType
<1>5. ASSUME NEW p \in Requests, NEW n \in Attempts, AuthStep(p, n) PROVE TypeOK'
  <2>1. Owner[p] \in Owners /\ <<p, n>> \in Passwords
    BY ConstantsAssumption DEF Passwords
  <2>2. realm' \in RealmType
    BY <1>5, <2>1, EnsuredDoes DEF AuthStep, TypeOK
  <2>3. auth' \in [Requests -> [Attempts -> 0..(Len(Steps) + 1)]]
    BY <1>5, StepsAre DEF AuthStep, TypeOK
  <2>4. QED
    BY <1>5, <2>2, <2>3 DEF AuthStep, TypeOK
<1>6. ASSUME NEW p \in Requests, NEW n \in Attempts, AuthDies(p, n) PROVE TypeOK'
  BY <1>6, StepsAre DEF AuthDies, TypeOK
<1>7. ASSUME NEW p \in Requests, AuthReturns(p) PROVE TypeOK'
  <2>1. workflow[p].attempt \in Attempts /\ 1 \in Attempts /\ 1 \in 0..MaxAttempts
    BY <1>7, ConstantsAssumption DEF AuthReturns, WorkflowInOrder, Attempts
  <2> DEFINE secret == <<p, workflow[p].attempt>>
             next == [workflow[p] EXCEPT !.pc = "activate",
                                         !.password = secret,
                                         !.attempt = 1]
  <2>2. secret \in Passwords
    BY <2>1 DEF Passwords
  <2>3. workflow' = [workflow EXCEPT ![p] = next]
    BY <1>7, AfterSuccessIs DEF AuthReturns
  <2> HIDE DEF secret
  <2>4. next \in WorkflowType
    BY <2>1, <2>2 DEF TypeOK, WorkflowType
  <2> HIDE DEF next
  <2>5. workflow' \in [Requests -> WorkflowType]
    BY <2>3, <2>4 DEF TypeOK
  <2>6. auth' \in [Requests -> [Attempts -> 0..(Len(Steps) + 1)]]
    BY <1>7, <2>1, StepsAre DEF AuthReturns, TypeOK
  <2>7. update' \in [Requests -> SUBSET (Outcomes \X Attempts)]
    BY <1>7, <2>1, ScheduledTyped DEF AuthReturns, TypeOK
  <2>8. QED
    BY <1>7, <2>5, <2>6, <2>7 DEF AuthReturns, TypeOK
<1>8. ASSUME NEW p \in Requests, AuthGivenUp(p) PROVE TypeOK'
  BY <1>8, RetryTyped DEF AuthGivenUp, TypeOK
<1>9. ASSUME NEW p \in Requests, UpdateReturns(p) PROVE TypeOK'
  <2>1. account' \in [Accounts -> RowType]
    BY <1>9, WriteTyped DEF UpdateReturns, Records, Statuses
  <2>2. workflow' \in [Requests -> WorkflowType]
    BY <1>9, AfterSuccessIs DEF UpdateReturns, TypeOK, WorkflowType
  <2>3. update' \in [Requests -> SUBSET (Outcomes \X Attempts)]
    BY <1>9 DEF UpdateReturns, TypeOK
  <2>4. QED
    BY <1>9, <2>1, <2>2, <2>3 DEF UpdateReturns, TypeOK
<1>10. ASSUME NEW p \in Requests, UpdateGivenUp(p) PROVE TypeOK'
  <2>1. account' \in [Accounts -> RowType]
    BY <1>10, WriteTyped DEF UpdateGivenUp, Records, Statuses, TypeOK
  <2>2. \E running \in SUBSET update[p] : Retry(p, running)
    BY <1>10 DEF UpdateGivenUp
  <2>3. QED
    BY <1>10, <2>1, <2>2, RetryTyped DEF UpdateGivenUp, TypeOK
<1>11. ASSUME NEW p \in Requests, UpdateWritesLate(p) PROVE TypeOK'
  <2>1. PICK u \in update[p] : /\ Write(u[1])
                               /\ update' = [update EXCEPT ![p] = @ \ {u}]
    BY <1>11 DEF UpdateWritesLate
  <2>2. u[1] \in Statuses
    BY DEF TypeOK, Outcomes
  <2>3. account' \in [Accounts -> RowType]
    BY <2>1, <2>2, WriteTyped
  <2>4. QED
    BY <1>11, <2>1, <2>3 DEF UpdateWritesLate, TypeOK
<1>12. ASSUME NEW p \in Requests, SendEmail(p) PROVE TypeOK'
  <2>1. workflow[p].password \in Passwords \cup {NULL}
    BY DEF TypeOK, WorkflowType
  <2>2. mailbox' \in [Owners -> Passwords \cup {NULL}]
    BY <1>12, <2>1 DEF SendEmail, TypeOK
  <2>3. workflow' \in [Requests -> WorkflowType]
    <3>1. [workflow[p] EXCEPT !.pc = "succeeded"] \in WorkflowType
      BY DEF TypeOK, WorkflowType
    <3>2. QED
      BY <1>12, <3>1 DEF SendEmail, TypeOK
  <2>4. QED
    BY <1>12, <2>2, <2>3 DEF SendEmail, TypeOK
<1>13. CASE UNCHANGED vars
  BY <1>13 DEF vars, TypeOK
<1>14. QED
  BY <1>1, <1>2, <1>3, <1>4, <1>5, <1>6, <1>7, <1>8, <1>9, <1>10, <1>11,
     <1>12, <1>13 DEF Next

-----------------------------------------------------------------------------
(* Who changes what *)

(* What one request, its workflow and its activities may do. *)
Step(p) == \/ CheckAccount(p)
           \/ CommitAccount(p)
           \/ StartWorkflow(p)
           \/ FailRequest(p)
           \/ \E n \in Attempts : AuthStep(p, n) \/ AuthDies(p, n)
           \/ AuthReturns(p)
           \/ AuthGivenUp(p)
           \/ UpdateReturns(p)
           \/ UpdateGivenUp(p)
           \/ UpdateWritesLate(p)
           \/ SendEmail(p)

(* Nothing happens to q. *)
Keeps(q) == /\ request'[q] = request[q]
            /\ workflow'[q] = workflow[q]
            /\ auth'[q] = auth[q]
            /\ update'[q] = update[q]

(* A step of one request leaves the workflow and the attempts of the       *)
(* others alone.                                                           *)
LEMMA OthersKeep ==
    ASSUME TypeOK, \A p \in Requests : WorkflowInOrder(p),
           NEW p \in Requests, Step(p), NEW q \in Requests, q # p
    PROVE  Keeps(q)
<1> USE DEF TypeOK, Keeps
<1>1. CASE CheckAccount(p) \/ CommitAccount(p) \/ FailRequest(p)
  BY <1>1 DEF CheckAccount, CommitAccount, FailRequest
<1>2. CASE StartWorkflow(p)
  BY <1>2 DEF StartWorkflow, Enter
<1>3. ASSUME NEW n \in Attempts, AuthStep(p, n) \/ AuthDies(p, n)
      PROVE  Keeps(q)
  BY <1>3 DEF AuthStep, AuthDies
<1>4. CASE AuthReturns(p)
  BY <1>4 DEF AuthReturns
<1>5. ASSUME NEW running, Retry(p, running)
      PROVE  /\ workflow'[q] = workflow[q]
             /\ auth'[q] = auth[q]
             /\ update'[q] = update[q]
  BY <1>5 DEF Retry, Enter
<1>6. CASE AuthGivenUp(p) \/ UpdateGivenUp(p)
  BY <1>5, <1>6 DEF AuthGivenUp, UpdateGivenUp
<1>7. CASE UpdateReturns(p) \/ UpdateWritesLate(p)
  BY <1>7 DEF UpdateReturns, UpdateWritesLate
<1>8. CASE SendEmail(p)
  BY <1>8 DEF SendEmail
<1>9. QED
  BY <1>1, <1>2, <1>3, <1>4, <1>6, <1>7, <1>8 DEF Step

-----------------------------------------------------------------------------
(* The workflow is in order *)

LEMMA RetryInOrder ==
    ASSUME TypeOK, NEW p \in Requests, WorkflowInOrder(p),
           workflow[p].pc \in {"auth", "activate", "compensate"},
           NEW running \in SUBSET update[p], Retry(p, running),
           request' = request
    PROVE  WorkflowInOrder(p)'
<1>1. PICK pc \in {"auth", "activate", "compensate", "failed"}, n \in Attempts :
         /\ pc = workflow[p].pc \/ pc = AfterFailure(workflow[p].pc)
         /\ Enter(p, pc, n)
  BY RetryDoes
<1>2. /\ workflow'[p].pc = pc /\ workflow'[p].attempt = n
      /\ workflow'[p].password = workflow[p].password
  BY <1>1 DEF Enter, TypeOK, WorkflowType
<1>3. pc = workflow[p].pc \/ pc \in {"failed", "compensate"}
  BY <1>1 DEF AfterFailure
<1>4. QED
  BY <1>1, <1>2, <1>3 DEF WorkflowInOrder

(* A step keeps its own workflow in order. *)
LEMMA StepInOrder ==
    ASSUME TypeOK, NEW p \in Requests, WorkflowInOrder(p), Step(p)
    PROVE  WorkflowInOrder(p)'
<1> USE DEF TypeOK, WorkflowInOrder
<1>1. CASE CheckAccount(p) \/ CommitAccount(p) \/ FailRequest(p)
  BY <1>1 DEF CheckAccount, CommitAccount, FailRequest
<1>2. CASE StartWorkflow(p)
  <2>1. /\ workflow'[p].pc = "auth" /\ workflow'[p].attempt = 1
        /\ request'[p].pc = "done"
    BY <1>2 DEF StartWorkflow, Enter
  <2>2. 1 \in Attempts
    BY ConstantsAssumption DEF Attempts
  <2>3. QED
    BY <2>1, <2>2
<1>3. ASSUME NEW n \in Attempts, AuthStep(p, n)
      PROVE  WorkflowInOrder(p)'
  <2>1. auth[p][n] # 0
    BY <1>3 DEF AuthStep
  <2>2. QED
    BY <1>3, <2>1 DEF AuthStep
<1>4. ASSUME NEW n \in Attempts, AuthDies(p, n)
      PROVE  WorkflowInOrder(p)'
  BY <1>4 DEF AuthDies
<1>5. CASE AuthReturns(p)
  <2>1. /\ workflow'[p].pc = "activate" /\ workflow'[p].attempt = 1
        /\ workflow'[p].password = <<p, workflow[p].attempt>>
    BY <1>5, AfterSuccessIs DEF AuthReturns, WorkflowType
  <2>2. workflow[p].attempt \in Attempts /\ 1 \in Attempts
    BY <1>5, ConstantsAssumption DEF AuthReturns, Attempts
  <2>3. workflow'[p].password # NULL
    BY <2>1, <2>2, ConstantsAssumption DEF Attempts
  <2>4. request'[p].pc = "done"
    BY <1>5 DEF AuthReturns
  <2>5. QED
    BY <2>1, <2>2, <2>3, <2>4
<1>6. ASSUME workflow[p].pc \in {"auth", "activate", "compensate"},
             NEW running \in SUBSET update[p], Retry(p, running),
             request' = request
      PROVE  WorkflowInOrder(p)'
  <2> HIDE DEF TypeOK, WorkflowInOrder
  <2>1. QED
    BY <1>6, RetryInOrder
<1>7. CASE AuthGivenUp(p)
  BY <1>6, <1>7 DEF AuthGivenUp
<1>8. CASE UpdateGivenUp(p)
  <2>1. \E running \in SUBSET update[p] : Retry(p, running)
    BY <1>8 DEF UpdateGivenUp
  <2>2. QED
    BY <1>6, <1>8, <2>1 DEF UpdateGivenUp
<1>9. CASE UpdateReturns(p)
  <2>1. /\ workflow'[p].pc = AfterSuccess(workflow[p].pc)
        /\ workflow'[p].attempt = workflow[p].attempt
        /\ workflow'[p].password = workflow[p].password
    BY <1>9 DEF UpdateReturns, WorkflowType
  <2>2. QED
    BY <1>9, <2>1, AfterSuccessIs DEF UpdateReturns
<1>10. CASE UpdateWritesLate(p)
  BY <1>10 DEF UpdateWritesLate
<1>11. CASE SendEmail(p)
  <2>1. /\ workflow'[p].pc \in {"email", "succeeded"}
        /\ workflow'[p].attempt = workflow[p].attempt
        /\ workflow'[p].password = workflow[p].password
    BY <1>11 DEF SendEmail, WorkflowType
  <2>2. QED
    BY <1>11, <2>1 DEF SendEmail
<1>12. QED
  BY <1>1, <1>2, <1>3, <1>4, <1>5, <1>7, <1>8, <1>9, <1>10, <1>11 DEF Step

-----------------------------------------------------------------------------
(* What an attempt has been through stays *)

(* The realm loses nothing. *)
RealmGrows ==
    /\ realm.parts \subseteq realm'.parts
    /\ realm.users \subseteq realm'.users
    /\ realm.admins \subseteq realm'.admins
    /\ \A o \in Owners : realm.password[o] # NULL => realm'.password[o] # NULL

(* A realm that only grows keeps what an attempt has done. *)
LEMMA StepsStayOn ==
    ASSUME TypeOK, RealmGrows, NEW q \in Requests, NEW m \in Attempts,
           StepsStay(q, m), auth'[q][m] \in {0, 1, auth[q][m]}
    PROVE  StepsStay(q, m)'
<1>1. Owner[q] \in Owners
  BY ConstantsAssumption
<1>2. CASE auth'[q][m] \in {0, 1}
  BY <1>2 DEF StepsStay
<1>3. CASE auth'[q][m] = auth[q][m]
  BY <1>1, <1>3 DEF StepsStay, RealmGrows
<1>4. QED
  BY <1>2, <1>3

(* The client is there before its roles and mappers, the realm's roles     *)
(* before the owner's: which is why no step finds its ground missing.      *)
LEMMA AuthStepDoes ==
    ASSUME TypeOK, NEW p \in Requests, NEW n \in Attempts, StepsStay(p, n),
           AuthStep(p, n)
    PROVE  /\ RealmGrows
           /\ realm'.users \subseteq realm.users \cup {Owner[p]}
           /\ StepsStay(p, n)'
<1> DEFINE i == auth[p][n]
<1>1. /\ i \in 1..Len(Steps) /\ i \in 1..8 /\ Owner[p] \in Owners
      /\ <<p, n>> \in Passwords /\ realm \in RealmType
  BY StepsAre, ConstantsAssumption DEF AuthStep, Passwords, TypeOK
<1>2. realm' = Ensured(realm, i, Owner[p], <<p, n>>) /\ auth'[p][n] = i + 1
  BY DEF AuthStep, TypeOK
<1>3. <<p, n>> # NULL
  BY ConstantsAssumption DEF Attempts
<1> HIDE DEF i
<1>4. /\ i > 3 => "client" \in realm.parts
      /\ i > 2 => "realmRoles" \in realm.parts
  BY StepsAre DEF StepsStay, i
<1>5. /\ realm.parts \subseteq realm'.parts
      /\ i < 6 => Steps[i] \in realm'.parts
      /\ realm.users \subseteq realm'.users
      /\ realm'.users \subseteq realm.users \cup {Owner[p]}
      /\ i = 6 => Owner[p] \in realm'.users
      /\ realm.admins \subseteq realm'.admins
      /\ i = 7 => Owner[p] \in realm'.admins
      /\ \A x \in Owners : realm'.password[x] \in {realm.password[x], <<p, n>>}
      /\ i = 8 => realm'.password[Owner[p]] = <<p, n>>
  BY <1>1, <1>2, <1>4, EnsuredDoes, SMTT(30)
<1>6. RealmGrows
  BY <1>3, <1>5 DEF RealmGrows
<1>7. StepsStay(p, n)'
  <2>1. \A j \in 1..5 : i + 1 > j => Steps[j] \in realm'.parts
    BY <1>1, <1>5 DEF StepsStay, i
  <2>2. i + 1 > 6 => Owner[p] \in realm'.users
    BY <1>1, <1>5 DEF StepsStay, i
  <2>3. i + 1 > 7 => Owner[p] \in realm'.admins
    BY <1>1, <1>5 DEF StepsStay, i
  <2>4. i + 1 > 8 => realm'.password[Owner[p]] # NULL
    <3>1. i \in Nat /\ StepsStay(p, n)
      BY <1>1 DEF i
    <3>2. QED
      BY <1>1, <1>3, <1>5, <3>1, SMTT(30) DEF StepsStay, i
  <2>5. QED
    BY <1>2, <2>1, <2>2, <2>3, <2>4 DEF StepsStay
<1>8. QED
  BY <1>5, <1>6, <1>7

(* Between steps of provisionExternalAuth attempts only start or end. *)
LEMMA AuthMoves ==
    ASSUME TypeOK, NEW p \in Requests, WorkflowInOrder(p), Step(p),
           \A n \in Attempts : ~ AuthStep(p, n)
    PROVE  /\ realm' = realm
           /\ \A q \in Requests, m \in Attempts : auth'[q][m] \in {0, 1, auth[q][m]}
<1>1. CASE CheckAccount(p) \/ CommitAccount(p) \/ FailRequest(p)
  BY <1>1 DEF CheckAccount, CommitAccount, FailRequest
<1>2. ASSUME NEW pc, NEW n \in Attempts, Enter(p, pc, n)
      PROVE  \A q \in Requests, m \in Attempts : auth'[q][m] \in {0, 1, auth[q][m]}
  BY <1>2 DEF Enter, TypeOK
<1>3. CASE StartWorkflow(p)
  <2>1. 1 \in Attempts
    BY ConstantsAssumption DEF Attempts
  <2>2. QED
    BY <1>2, <1>3, <2>1 DEF StartWorkflow
<1>4. ASSUME NEW n \in Attempts, AuthDies(p, n)
      PROVE  /\ realm' = realm
             /\ \A q \in Requests, m \in Attempts : auth'[q][m] \in {0, 1, auth[q][m]}
  BY <1>4 DEF AuthDies, TypeOK
<1>5. CASE AuthReturns(p)
  BY <1>5 DEF AuthReturns, TypeOK
<1>6. ASSUME workflow[p].pc \in {"auth", "activate", "compensate"},
             NEW running \in SUBSET update[p], Retry(p, running)
      PROVE  \A q \in Requests, m \in Attempts : auth'[q][m] \in {0, 1, auth[q][m]}
  BY <1>2, <1>6, RetryDoes
<1>7. CASE AuthGivenUp(p) \/ UpdateGivenUp(p)
  <2>1. /\ workflow[p].pc \in {"auth", "activate", "compensate"}
        /\ \E running \in SUBSET update[p] : Retry(p, running)
        /\ realm' = realm
    BY <1>7 DEF AuthGivenUp, UpdateGivenUp
  <2>2. QED
    BY <1>6, <2>1
<1>8. CASE UpdateReturns(p) \/ UpdateWritesLate(p) \/ SendEmail(p)
  BY <1>8 DEF UpdateReturns, UpdateWritesLate, SendEmail
<1>9. QED
  BY <1>1, <1>3, <1>4, <1>5, <1>7, <1>8 DEF Step

(* So every attempt's work stays, whoever takes a step. *)
LEMMA NextStepsStay ==
    ASSUME TypeOK, \A q \in Requests : WorkflowInOrder(q),
           \A q \in Requests, m \in Attempts : StepsStay(q, m),
           NEW p \in Requests, Step(p)
    PROVE  /\ RealmGrows
           /\ \A q \in Requests, m \in Attempts : StepsStay(q, m)'
<1>1. ASSUME NEW n \in Attempts, AuthStep(p, n)
      PROVE  /\ RealmGrows
             /\ \A q \in Requests, m \in Attempts : StepsStay(q, m)'
  <2>1. RealmGrows /\ StepsStay(p, n)'
    BY <1>1, AuthStepDoes
  <2>2. ASSUME NEW q \in Requests, NEW m \in Attempts, <<q, m>> # <<p, n>>
        PROVE  StepsStay(q, m)'
    <3>1. auth'[q][m] = auth[q][m]
      BY <1>1, <2>2 DEF AuthStep, TypeOK
    <3>2. QED
      BY <2>1, <3>1, StepsStayOn
  <2>3. QED
    BY <2>1, <2>2
<1>2. CASE \A n \in Attempts : ~ AuthStep(p, n)
  <2>1. /\ realm' = realm
        /\ \A q \in Requests, m \in Attempts : auth'[q][m] \in {0, 1, auth[q][m]}
    BY <1>2, AuthMoves
  <2>2. RealmGrows
    BY <2>1 DEF RealmGrows
  <2>3. QED
    BY <2>1, <2>2, StepsStayOn
<1>3. QED
  BY <1>1, <1>2

-----------------------------------------------------------------------------
(* ACTIVE is earned *)

(* A complete realm stays complete. *)
LEMMA CompleteStays ==
    ASSUME TypeOK, TypeOK', RealmGrows, NEW q \in Requests, Complete(q)
    PROVE  Complete(q)'
<1>1. Owner[q] \in Owners
  BY ConstantsAssumption
<1>2. realm'.parts \subseteq Parts
  BY DEF TypeOK, RealmType
<1>3. QED
  BY <1>1, <1>2 DEF Complete, RealmGrows

(* Only the return of provisionExternalAuth gives a workflow its password. *)
LEMMA PasswordsKept ==
    ASSUME TypeOK, NEW p \in Requests, WorkflowInOrder(p), Step(p), ~ AuthReturns(p),
           NEW q \in Requests
    PROVE  workflow'[q].password = workflow[q].password
<1>1. CASE CheckAccount(p) \/ CommitAccount(p) \/ FailRequest(p)
  BY <1>1 DEF CheckAccount, CommitAccount, FailRequest
<1>2. ASSUME NEW pc, NEW n \in Attempts, Enter(p, pc, n)
      PROVE  workflow'[q].password = workflow[q].password
  BY <1>2 DEF Enter, TypeOK, WorkflowType
<1>3. CASE StartWorkflow(p)
  <2>1. 1 \in Attempts
    BY ConstantsAssumption DEF Attempts
  <2>2. QED
    BY <1>2, <1>3, <2>1 DEF StartWorkflow
<1>4. ASSUME NEW n \in Attempts, AuthStep(p, n) \/ AuthDies(p, n)
      PROVE  workflow'[q].password = workflow[q].password
  BY <1>4 DEF AuthStep, AuthDies
<1>5. ASSUME workflow[p].pc \in {"auth", "activate", "compensate"},
             NEW running \in SUBSET update[p], Retry(p, running)
      PROVE  workflow'[q].password = workflow[q].password
  BY <1>2, <1>5, RetryDoes
<1>6. CASE AuthGivenUp(p) \/ UpdateGivenUp(p)
  <2>1. /\ workflow[p].pc \in {"auth", "activate", "compensate"}
        /\ \E running \in SUBSET update[p] : Retry(p, running)
    BY <1>6 DEF AuthGivenUp, UpdateGivenUp
  <2>2. QED
    BY <1>5, <2>1
<1>7. ASSUME NEW pc, workflow' = [workflow EXCEPT ![p].pc = pc]
      PROVE  workflow'[q].password = workflow[q].password
  <2>1. workflow[p] \in WorkflowType /\ workflow[q] \in WorkflowType
    BY DEF TypeOK
  <2>2. CASE p = q
    BY <1>7, <2>1, <2>2 DEF TypeOK, WorkflowType
  <2>3. CASE p # q
    BY <1>7, <2>3 DEF TypeOK
  <2>4. QED
    BY <2>2, <2>3
<1>8. CASE UpdateReturns(p) \/ UpdateWritesLate(p) \/ SendEmail(p)
  BY <1>7, <1>8 DEF UpdateReturns, UpdateWritesLate, SendEmail
<1>9. QED
  BY <1>1, <1>3, <1>4, <1>6, <1>7, <1>8 DEF Step

(* It returns with the realm complete. *)
LEMMA AuthReturnsDoes ==
    ASSUME TypeOK, NEW p \in Requests, WorkflowInOrder(p),
           \A n \in Attempts : StepsStay(p, n), AuthReturns(p)
    PROVE  /\ Complete(p) /\ realm' = realm
           /\ workflow'[p].password # NULL
           /\ update'[p] = update[p] \cup {<<"ACTIVE", 1>>}
<1>1. workflow[p].attempt \in Attempts
  BY DEF AuthReturns, WorkflowInOrder
<1>2. auth[p][workflow[p].attempt] > 8
  BY StepsAre DEF AuthReturns, Returns
<1>3. auth[p][workflow[p].attempt] \in Nat
  BY <1>1, StepsAre DEF TypeOK
<1>4. \A i \in 1..5 : Steps[i] \in realm.parts
  BY <1>1, <1>2, <1>3 DEF StepsStay
<1>5. realm.parts = Parts
  BY <1>4, StepsAre DEF Parts, TypeOK, RealmType
<1>6. /\ Owner[p] \in realm.users \cap realm.admins
      /\ realm.password[Owner[p]] # NULL
  BY <1>1, <1>2, <1>3 DEF StepsStay
<1>7. workflow'[p].password = <<p, workflow[p].attempt>>
  BY DEF AuthReturns, TypeOK, WorkflowType
<1>8. update'[p] = update[p] \cup {<<"ACTIVE", 1>>}
  BY DEF AuthReturns, TypeOK, Scheduled, Records
<1>9. workflow'[p].password # NULL
  BY <1>1, <1>7, ConstantsAssumption DEF Attempts
<1>10. QED
  BY <1>5, <1>6, <1>8, <1>9 DEF Complete, AuthReturns

(* The status an update is to write is that of its phase. *)
LEMMA ScheduledAre ==
    ASSUME NEW p, NEW pc, NEW n, NEW u \in Scheduled(p, pc, n)
    PROVE  /\ pc \in {"activate", "compensate"}
           /\ u[1] = IF pc = "activate" THEN "ACTIVE" ELSE "PROVISION_FAILED"
BY DEF Scheduled, Records

(* What a step adds to the updates of its workflow. *)
LEMMA UpdatesAdded ==
    ASSUME TypeOK, NEW p \in Requests, WorkflowInOrder(p), Step(p), ~ AuthReturns(p),
           NEW u \in update'[p], u \notin update[p]
    PROVE  /\ workflow[p].pc \in {"auth", "activate", "compensate"}
           /\ workflow'[p].pc \in {"activate", "compensate"}
           /\ workflow'[p].pc = "activate" => workflow[p].pc = "activate"
           /\ u[1] = IF workflow'[p].pc = "activate" THEN "ACTIVE"
                                                    ELSE "PROVISION_FAILED"
<1>1. CASE UpdateReturns(p) \/ UpdateWritesLate(p)
  BY <1>1 DEF UpdateReturns, UpdateWritesLate, TypeOK
<1>2. CASE AuthGivenUp(p) \/ UpdateGivenUp(p)
  <2>1. /\ workflow[p].pc \in {"auth", "activate", "compensate"}
        /\ \E running \in SUBSET update[p] : Retry(p, running)
    BY <1>2 DEF AuthGivenUp, UpdateGivenUp
  <2>2. PICK running \in SUBSET update[p] : Retry(p, running)
    BY <2>1
  <2>3. PICK pc \in {"auth", "activate", "compensate", "failed"}, n \in Attempts :
              /\ pc = workflow[p].pc \/ pc = AfterFailure(workflow[p].pc)
              /\ Enter(p, pc, n)
              /\ update' = [update EXCEPT ![p] = running \cup Scheduled(p, pc, n)]
    BY <2>1, <2>2, RetryDoes
  <2>4. u \in Scheduled(p, pc, n) /\ workflow'[p].pc = pc
    BY <2>3 DEF TypeOK, Enter, WorkflowType
  <2>5. pc = "activate" => workflow[p].pc = "activate"
    BY <2>3 DEF AfterFailure
  <2>6. QED
    BY <2>1, <2>4, <2>5, ScheduledAre
<1>3. CASE ~ \/ UpdateReturns(p) \/ UpdateWritesLate(p)
              \/ AuthGivenUp(p) \/ UpdateGivenUp(p)
  BY <1>3 DEF Step, CheckAccount, CommitAccount, StartWorkflow, FailRequest,
              AuthStep, AuthDies, SendEmail
<1>4. QED
  BY <1>1, <1>2, <1>3

(* What is written to the rows: an update changes a status and no owner. *)
LEMMA WriteDoes ==
    ASSUME TypeOK, NEW status, Write(status), NEW a \in Accounts
    PROVE  /\ account'[a].status \in {account[a].status, status}
           /\ account'[a].owners = account[a].owners
BY DEF TypeOK, Write, RowType

(* Rows are written by a commit, or by an update whose status is that of a *)
(* running attempt or of the present phase.                                *)
LEMMA RowsWritten ==
    ASSUME NEW p \in Requests, Step(p)
    PROVE  \/ account' = account
           \/ CommitAccount(p)
           \/ \E u \in update[p] : Write(u[1])
           \/ /\ workflow[p].pc \in {"activate", "compensate"}
              /\ Write(Records(workflow[p].pc))
BY DEF Step, CheckAccount, StartWorkflow, FailRequest, AuthStep, AuthDies,
       AuthReturns, AuthGivenUp, UpdateReturns, UpdateGivenUp,
       UpdateWritesLate, SendEmail

(* A commit adds the owner and leaves a status that was recorded. *)
LEMMA CommitDoes ==
    ASSUME TypeOK, NEW p \in Requests, CommitAccount(p)
    PROVE  /\ \A a \in Accounts :
                 /\ account[a].owners \subseteq account'[a].owners
                 /\ account'[a].status \in {account[a].status, "PROVISIONING"}
                 /\ account[a].status \in {"ACTIVE", "PROVISION_FAILED"} =>
                       account'[a].status = account[a].status
           /\ Owner[p] \in Members'
<1>1. PICK b \in Accounts : account' = [account EXCEPT ![b] = Row(@, Owner[p])]
  BY DEF CommitAccount
<1>2. ASSUME NEW a \in Accounts
      PROVE  /\ account[a].owners \subseteq account'[a].owners
             /\ account'[a].status \in {account[a].status, "PROVISIONING"}
             /\ account[a].status \in {"ACTIVE", "PROVISION_FAILED"} =>
                   account'[a].status = account[a].status
  <2>1. account'[a] \in {account[a], Row(account[a], Owner[p])}
    BY <1>1 DEF TypeOK
  <2>2. account[a].status \in {"ACTIVE", "PROVISION_FAILED"} => account[a] # NoAccount
    BY DEF NoAccount
  <2>3. QED
    BY <2>1, <2>2 DEF Row
<1>3. Owner[p] \in account'[b].owners
  BY <1>1 DEF TypeOK, Row
<1>4. QED
  BY <1>2, <1>3 DEF Members

(* The earlier facts together: a status ACTIVE has a password behind it,   *)
(* and a password a complete realm.                                        *)
LEMMA NextActiveIsEarned ==
    ASSUME TypeOK, TypeOK', \A q \in Requests : WorkflowInOrder(q),
           \A q \in Requests, m \in Attempts : StepsStay(q, m),
           ActiveIsEarned, NEW p \in Requests, Step(p)
    PROVE  ActiveIsEarned'
<1> DEFINE Authorized(q) == workflow[q].password # NULL
<1>1. RealmGrows
  BY NextStepsStay
<1>2. \A q \in Requests : q # p => Keeps(q)
  BY OthersKeep
<1>3. \A q \in Requests : Authorized(q) => Authorized(q)'
  <2>1. CASE AuthReturns(p)
    BY <1>2, <2>1, AuthReturnsDoes DEF Keeps
  <2>2. CASE ~ AuthReturns(p)
    BY <2>2, PasswordsKept
  <2>3. QED
    BY <2>1, <2>2
<1>4. ASSUME NEW q \in Requests, Authorized(q)' PROVE Complete(q)'
  <2>1. CASE Authorized(q)
    BY <1>1, <2>1, CompleteStays DEF ActiveIsEarned
  <2>2. CASE ~ Authorized(q)
    <3>1. q = p /\ AuthReturns(p)
      BY <1>2, <1>4, <2>2, PasswordsKept DEF Keeps
    <3>2. QED
      BY <1>1, <3>1, AuthReturnsDoes, CompleteStays
  <2>3. QED
    BY <2>1, <2>2
<1>5. ASSUME NEW q \in Requests, NEW u \in update'[q], u[1] = "ACTIVE"
      PROVE  Authorized(q)'
  <2>1. CASE u \in update[q]
    BY <1>3, <1>5, <2>1 DEF ActiveIsEarned
  <2>2. CASE u \notin update[q] /\ AuthReturns(p)
    BY <1>2, <2>2, AuthReturnsDoes DEF Keeps
  <2>3. CASE u \notin update[q] /\ ~ AuthReturns(p)
    <3>1. q = p
      BY <1>2, <2>3 DEF Keeps
    <3>2. workflow[p].pc = "activate"
      BY <1>5, <2>3, <3>1, UpdatesAdded
    <3>3. QED
      BY <1>3, <3>1, <3>2 DEF WorkflowInOrder
  <2>4. QED
    BY <2>1, <2>2, <2>3
<1>6. ASSUME NEW a \in Accounts, account'[a].status = "ACTIVE"
      PROVE  \E q \in Requests : Authorized(q)'
  <2>1. CASE account[a].status = "ACTIVE"
    BY <1>3, <2>1 DEF ActiveIsEarned
  <2>2. CASE account[a].status # "ACTIVE"
    <3>1. ~ CommitAccount(p)
      BY <1>6, <2>2, CommitDoes
    <3>2. CASE \E u \in update[p] : Write(u[1])
      BY <1>3, <1>6, <2>2, <3>2, WriteDoes DEF ActiveIsEarned
    <3>3. CASE /\ workflow[p].pc \in {"activate", "compensate"}
               /\ Write(Records(workflow[p].pc))
      <4>1. workflow[p].pc = "activate"
        BY <1>6, <2>2, <3>3, WriteDoes DEF Records
      <4>2. QED
        BY <1>3, <4>1 DEF WorkflowInOrder
    <3>4. QED
      BY <1>6, <2>2, <3>1, <3>2, <3>3, RowsWritten
  <2>3. QED
    BY <2>1, <2>2
<1>7. QED
  BY <1>4, <1>5, <1>6 DEF ActiveIsEarned

-----------------------------------------------------------------------------
(* Owners are members *)

(* No row loses an owner. *)
LEMMA MembersStay ==
    ASSUME TypeOK, NEW p \in Requests, Step(p)
    PROVE  Members \subseteq Members'
<1>1. \A a \in Accounts : account[a].owners \subseteq account'[a].owners
  BY RowsWritten, WriteDoes, CommitDoes
<1>2. QED
  BY <1>1 DEF Members

(* A workflow that was started stays started; before it is, its request    *)
(* checks, commits or fails.                                               *)
LEMMA StartedStays ==
    ASSUME TypeOK, \A q \in Requests : WorkflowInOrder(q),
           NEW p \in Requests, Step(p)
    PROVE  /\ workflow[p].pc # "none" => workflow'[p].pc # "none"
           /\ workflow[p].pc = "none" /\ ~ StartWorkflow(p) =>
                 /\ CheckAccount(p) \/ CommitAccount(p) \/ FailRequest(p)
                 /\ UNCHANGED <<workflow, update, lost>>
<1>1. CASE CheckAccount(p) \/ CommitAccount(p) \/ FailRequest(p)
  BY <1>1 DEF CheckAccount, CommitAccount, FailRequest
<1>2. CASE StartWorkflow(p)
  BY <1>2 DEF StartWorkflow, Enter, TypeOK, WorkflowType
<1>3. ASSUME NEW n \in Attempts, AuthStep(p, n) \/ AuthDies(p, n)
      PROVE  workflow[p].pc # "none" /\ workflow'[p].pc # "none"
  <2>1. auth[p][n] # 0
    BY <1>3 DEF AuthStep, AuthDies
  <2>2. QED
    BY <1>3, <2>1 DEF AuthStep, AuthDies, WorkflowInOrder
<1>4. CASE AuthReturns(p)
  BY <1>4, AfterSuccessIs DEF AuthReturns, TypeOK, WorkflowType
<1>5. CASE AuthGivenUp(p) \/ UpdateGivenUp(p)
  <2>1. /\ workflow[p].pc \in {"auth", "activate", "compensate"}
        /\ \E running \in SUBSET update[p] : Retry(p, running)
    BY <1>5 DEF AuthGivenUp, UpdateGivenUp
  <2>2. PICK running \in SUBSET update[p] : Retry(p, running)
    BY <2>1
  <2>3. PICK pc \in {"auth", "activate", "compensate", "failed"}, n \in Attempts :
           Enter(p, pc, n)
    BY <2>1, <2>2, RetryDoes
  <2>4. QED
    BY <2>1, <2>3 DEF Enter, TypeOK, WorkflowType
<1>6. CASE UpdateReturns(p)
  BY <1>6, AfterSuccessIs DEF UpdateReturns, TypeOK, WorkflowType
<1>7. CASE UpdateWritesLate(p)
  BY <1>7 DEF UpdateWritesLate, WorkflowInOrder
<1>8. CASE SendEmail(p)
  BY <1>8 DEF SendEmail, TypeOK, WorkflowType
<1>9. QED
  BY <1>1, <1>2, <1>3, <1>4, <1>5, <1>6, <1>7, <1>8 DEF Step

(* The owner is a member before the first step of provisionExternalAuth    *)
(* and nobody ceases to be one.                                            *)
LEMMA NextOwners ==
    ASSUME TypeOK, \A q \in Requests : WorkflowInOrder(q),
           \A q \in Requests, m \in Attempts : StepsStay(q, m),
           \A q \in Requests : OwnerJoinsFirst(q), OwnersAreMembers,
           NEW p \in Requests, Step(p)
    PROVE  /\ \A q \in Requests : OwnerJoinsFirst(q)'
           /\ OwnersAreMembers'
<1>1. Members \subseteq Members'
  BY MembersStay
<1>2. ASSUME NEW q \in Requests PROVE OwnerJoinsFirst(q)'
  <2>1. CASE q # p
    BY <1>1, <2>1, OthersKeep DEF OwnerJoinsFirst, Keeps
  <2>2. CASE q = p /\ CommitAccount(p)
    BY <2>2, CommitDoes DEF OwnerJoinsFirst
  <2>3. CASE q = p /\ StartWorkflow(p)
    BY <1>1, <2>3 DEF OwnerJoinsFirst, StartWorkflow
  <2>4. CASE q = p /\ ~ CommitAccount(p) /\ ~ StartWorkflow(p)
    <3>1. request'[p].pc = "committed" => request[p].pc = "committed"
      <4>1. CASE CheckAccount(p) \/ FailRequest(p)
        BY <4>1 DEF CheckAccount, FailRequest, TypeOK, RequestType
      <4>2. CASE request' = request
        BY <4>2
      <4>3. QED
        BY <2>4, <4>1, <4>2
        DEF Step, AuthStep, AuthDies, AuthReturns, AuthGivenUp, UpdateReturns,
            UpdateGivenUp, UpdateWritesLate, SendEmail
    <3>2. workflow'[p].pc # "none" => workflow[p].pc # "none"
      BY <2>4, StartedStays
    <3>3. QED
      BY <1>1, <2>4, <3>1, <3>2 DEF OwnerJoinsFirst
  <2>5. QED
    BY <2>1, <2>2, <2>3, <2>4
<1>3. OwnersAreMembers'
  <2>1. ASSUME NEW n \in Attempts, AuthStep(p, n)
        PROVE  realm'.users \subseteq Members'
    <3>1. realm'.users \subseteq realm.users \cup {Owner[p]}
      BY <2>1, AuthStepDoes
    <3>2. workflow[p].pc # "none"
      BY <2>1, StepsAre DEF AuthStep, WorkflowInOrder
    <3>3. QED
      BY <1>1, <3>1, <3>2 DEF OwnersAreMembers, OwnerJoinsFirst, Members
  <2>2. CASE \A n \in Attempts : ~ AuthStep(p, n)
    BY <1>1, <2>2, AuthMoves DEF OwnersAreMembers, Members
  <2>3. QED
    BY <2>1, <2>2 DEF OwnersAreMembers, Members
<1>4. QED
  BY <1>2, <1>3

-----------------------------------------------------------------------------
(* The outcome is recorded *)

(* Only the failed attempts of updates are counted. *)
LEMMA LostGrows ==
    ASSUME TypeOK, NEW p \in Requests, Step(p)
    PROVE  lost' = IF UpdateGivenUp(p) THEN lost + 1 ELSE lost
BY DEF Step, CheckAccount, CommitAccount, StartWorkflow, FailRequest,
       AuthStep, AuthDies, AuthReturns, AuthGivenUp, UpdateReturns,
       UpdateGivenUp, UpdateWritesLate, SendEmail

(* The step of the only workflow that was started. *)
LEMMA OwnOutcome ==
    ASSUME TypeOK, TypeOK', NEW p \in Requests, WorkflowInOrder(p),
           OutcomeOnItsWay(p), Started = {p}, lost' < MaxAttempts, Step(p)
    PROVE  OutcomeOnItsWay(p)'
<1>1. lost \in Nat /\ lost < MaxAttempts
  BY LostGrows, ConstantsAssumption DEF TypeOK
<1>2. /\ workflow[p].pc = "auth" => update[p] = {}
      /\ workflow[p].pc \in {"activate", "email", "succeeded"} =>
            \A u \in update[p] : u[1] = "ACTIVE"
      /\ workflow[p].pc \in {"compensate", "failed"} =>
            \A u \in update[p] : u[1] = "PROVISION_FAILED"
      /\ workflow[p].pc \in {"activate", "compensate"} =>
            workflow[p].attempt <= lost + 1
      /\ workflow[p].pc \in {"email", "succeeded"} =>
            \E a \in Accounts : account[a].status = "ACTIVE"
      /\ workflow[p].pc = "failed" =>
            \E a \in Accounts : account[a].status = "PROVISION_FAILED"
  BY <1>1 DEF OutcomeOnItsWay
<1>3. workflow[p].pc # "none" /\ workflow[p] \in WorkflowType
  BY DEF Started, TypeOK
<1>4. CASE /\ workflow' = workflow /\ update' = update /\ lost' = lost
           /\ account' = account \/ CommitAccount(p)
  <2>1. \A a \in Accounts : account[a].status \in {"ACTIVE", "PROVISION_FAILED"} =>
           account'[a].status = account[a].status
    BY <1>4, CommitDoes
  <2>2. QED
    BY <1>2, <1>4, <2>1 DEF OutcomeOnItsWay
<1>5. CASE \/ CheckAccount(p) \/ CommitAccount(p) \/ FailRequest(p)
           \/ \E n \in Attempts : AuthStep(p, n) \/ AuthDies(p, n)
  BY <1>4, <1>5 DEF CheckAccount, CommitAccount, FailRequest, AuthStep, AuthDies
<1>6. CASE StartWorkflow(p)
  BY <1>3, <1>6 DEF StartWorkflow, WorkflowInOrder
<1>7. CASE AuthReturns(p)
  <2>1. update'[p] = {<<"ACTIVE", 1>>}
    BY <1>2, <1>7 DEF AuthReturns, TypeOK, Scheduled, Records
  <2>2. workflow'[p].pc = "activate" /\ workflow'[p].attempt = 1 /\ lost' = lost
    BY <1>7, AfterSuccessIs DEF AuthReturns, TypeOK, WorkflowType
  <2>3. QED
    BY <1>1, <2>1, <2>2 DEF OutcomeOnItsWay
<1>8. CASE AuthGivenUp(p)
  <2>1. PICK pc \in {"auth", "activate", "compensate", "failed"}, n \in Attempts :
           /\ \/ pc = workflow[p].pc /\ n = workflow[p].attempt + 1
              \/ /\ workflow[p].attempt = MaxAttempts /\ n = 1
                 /\ pc = AfterFailure(workflow[p].pc)
           /\ Enter(p, pc, n)
           /\ update' = [update EXCEPT ![p] = update[p] \cup Scheduled(p, pc, n)]
    BY <1>8, RetryDoes DEF AuthGivenUp
  <2>2. /\ workflow'[p].pc = pc /\ workflow'[p].attempt = n
        /\ update'[p] = Scheduled(p, pc, n) /\ lost' = lost
    BY <1>2, <1>8, <2>1 DEF AuthGivenUp, Enter, TypeOK, WorkflowType
  <2>3. workflow[p].pc = "auth" /\ AfterFailure("auth") = "compensate"
    BY <1>8 DEF AuthGivenUp, AfterFailure
  <2>4. CASE pc = "auth"
    BY <2>2, <2>4 DEF Scheduled, OutcomeOnItsWay
  <2>5. CASE pc = "compensate" /\ n = 1
    BY <1>1, <2>2, <2>5, ScheduledAre DEF OutcomeOnItsWay
  <2>6. QED
    BY <2>1, <2>3, <2>4, <2>5
<1>9. CASE UpdateReturns(p)
  <2>1. /\ workflow'[p].pc = AfterSuccess(workflow[p].pc)
        /\ update'[p] \subseteq update[p]
        /\ \E a \in Accounts : account'[a].status = Records(workflow[p].pc)
    BY <1>9 DEF UpdateReturns, Write, TypeOK, WorkflowType, RowType
  <2>2. CASE workflow[p].pc = "activate"
    BY <1>2, <2>1, <2>2, AfterSuccessIs DEF Records, OutcomeOnItsWay
  <2>3. CASE workflow[p].pc = "compensate"
    BY <1>2, <2>1, <2>3, AfterSuccessIs DEF Records, OutcomeOnItsWay
  <2>4. QED
    BY <1>9, <2>2, <2>3 DEF UpdateReturns
<1>10. CASE UpdateGivenUp(p)
  <2>1. PICK running \in SUBSET update[p] : Retry(p, running)
    BY <1>10 DEF UpdateGivenUp
  <2>2. PICK pc \in {"auth", "activate", "compensate", "failed"}, n \in Attempts :
           /\ \/ pc = workflow[p].pc /\ n = workflow[p].attempt + 1
              \/ /\ workflow[p].attempt = MaxAttempts /\ n = 1
                 /\ pc = AfterFailure(workflow[p].pc)
           /\ Enter(p, pc, n)
           /\ update' = [update EXCEPT ![p] = running \cup Scheduled(p, pc, n)]
    BY <1>10, <2>1, RetryDoes DEF UpdateGivenUp
  <2>3. /\ workflow'[p].pc = pc /\ workflow'[p].attempt = n
        /\ update'[p] = running \cup Scheduled(p, pc, n)
    BY <2>2 DEF Enter, TypeOK, WorkflowType
  <2>4. lost' = lost + 1
    BY <1>10 DEF UpdateGivenUp
  <2>5. workflow[p].pc \in {"activate", "compensate"}
    BY <1>10 DEF UpdateGivenUp
  <2>6. workflow[p].attempt \in Nat /\ workflow[p].attempt < MaxAttempts
    BY <1>1, <1>2, <1>3, <2>4, <2>5, ConstantsAssumption DEF WorkflowType
  <2>7. pc = workflow[p].pc /\ n <= lost' + 1
    BY <1>1, <1>2, <2>2, <2>4, <2>5, <2>6, ConstantsAssumption
  <2>8. \A u \in update'[p] :
           u[1] = IF pc = "activate" THEN "ACTIVE" ELSE "PROVISION_FAILED"
    BY <1>2, <2>3, <2>5, <2>7, ScheduledAre
  <2>9. QED
    BY <2>3, <2>5, <2>7, <2>8 DEF OutcomeOnItsWay
<1>11. CASE UpdateWritesLate(p)
  <2>1. PICK u \in update[p] : Write(u[1]) /\ update' = [update EXCEPT ![p] = @ \ {u}]
    BY <1>11 DEF UpdateWritesLate
  <2>2. /\ workflow' = workflow /\ lost' = lost
        /\ update'[p] \subseteq update[p]
        /\ \E a \in Accounts : account'[a].status = u[1]
    BY <1>11, <2>1 DEF UpdateWritesLate, Write, TypeOK, RowType
  <2>3. QED
    BY <1>2, <1>3, <2>1, <2>2 DEF OutcomeOnItsWay, WorkflowType
<1>12. CASE SendEmail(p)
  <2>1. /\ workflow'[p].pc \in {"email", "succeeded"}
        /\ update' = update /\ account' = account
    BY <1>12 DEF SendEmail, TypeOK, WorkflowType
  <2>2. QED
    BY <1>2, <1>12, <2>1 DEF SendEmail, OutcomeOnItsWay
<1>13. QED
  BY <1>5, <1>6, <1>7, <1>8, <1>9, <1>10, <1>11, <1>12 DEF Step

(* The others' steps cannot disturb it, since nothing runs for them. *)
LEMMA NextOutcome ==
    ASSUME TypeOK, TypeOK', \A q \in Requests : WorkflowInOrder(q),
           \A q \in Requests : OutcomeOnItsWay(q),
           NEW p \in Requests, Step(p), NEW q \in Requests
    PROVE  OutcomeOnItsWay(q)'
<1>1. SUFFICES ASSUME Started' = {q}, lost' < MaxAttempts
               PROVE  OutcomeOnItsWay(q)'
  BY DEF OutcomeOnItsWay
<1>2. Started \subseteq {q}
  <2>1. \A r \in Requests : workflow[r].pc # "none" => workflow'[r].pc # "none"
    BY StartedStays, OthersKeep DEF Keeps
  <2>2. QED
    BY <1>1, <2>1 DEF Started
<1>3. CASE q = p /\ workflow[p].pc # "none"
  <2>1. Started = {p}
    BY <1>2, <1>3 DEF Started
  <2>2. QED
    BY <1>1, <1>3, <2>1, OwnOutcome
<1>4. CASE q = p /\ workflow[p].pc = "none"
  <2>1. StartWorkflow(p)
    BY <1>1, <1>4, StartedStays DEF Started
  <2>2. workflow'[p].pc = "auth" /\ update'[p] = {}
    BY <1>4, <2>1 DEF StartWorkflow, Enter, WorkflowInOrder, TypeOK, WorkflowType
  <2>3. QED
    BY <1>4, <2>2 DEF OutcomeOnItsWay
<1>5. CASE q # p
  <2>1. Keeps(q) /\ workflow[p].pc = "none" /\ ~ StartWorkflow(p)
    BY <1>1, <1>2, <1>5, OthersKeep
    DEF Started, StartWorkflow, Enter, TypeOK, WorkflowType
  <2>2. /\ CheckAccount(p) \/ CommitAccount(p) \/ FailRequest(p)
        /\ lost' = lost
    BY <2>1, StartedStays
  <2>3. \A a \in Accounts : account[a].status \in {"ACTIVE", "PROVISION_FAILED"} =>
           account'[a].status = account[a].status
    BY <2>2, CommitDoes DEF CheckAccount, FailRequest
  <2>4. Started = {q}
    BY <1>1, <1>2, <2>1 DEF Started, Keeps
  <2>5. QED
    BY <1>1, <2>1, <2>2, <2>3, <2>4 DEF OutcomeOnItsWay, Keeps
<1>6. QED
  BY <1>3, <1>4, <1>5

-----------------------------------------------------------------------------
(* Rows and realm are made in order *)

(* What a row becomes. *)
LEMMA RowIs ==
    ASSUME TypeOK, RowsInOrder, NEW a \in Accounts, NEW o \in Owners
    PROVE  Row(account[a], o) =
               [status |-> IF account[a].status = "Absent" THEN "PROVISIONING"
                                                           ELSE account[a].status,
                owners |-> account[a].owners \cup {o}]
<1>1. account[a] \in RowType
  BY DEF TypeOK
<1>2. ASSUME account[a].status = "Absent" PROVE account[a] = NoAccount
  <2>1. account[a].owners = {}
    BY <1>2 DEF RowsInOrder, Exists
  <2>2. QED
    BY <1>1, <1>2, <2>1 DEF RowType, NoAccount
<1>3. account[a] = NoAccount => account[a].status = "Absent"
  BY DEF NoAccount
<1>4. CASE account[a].status = "Absent"
  BY <1>2, <1>4 DEF Row
<1>5. CASE account[a].status # "Absent"
  BY <1>3, <1>5 DEF Row
<1>6. QED
  BY <1>4, <1>5

LEMMA NextRowsInOrder ==
    ASSUME TypeOK, RowsInOrder, NEW p \in Requests, Step(p)
    PROVE  RowsInOrder'
<1>1. CASE CommitAccount(p)
  <2>1. PICK b \in Accounts : account' = [account EXCEPT ![b] = Row(@, Owner[p])]
    BY <1>1 DEF CommitAccount
  <2>2. Owner[p] \in Owners
    BY ConstantsAssumption
  <2>3. account'[b] = Row(account[b], Owner[p])
    BY <2>1 DEF TypeOK
  <2>4. account'[b].status # "Absent"
    <3>1. account'[b] =
              [status |-> IF account[b].status = "Absent" THEN "PROVISIONING"
                                                          ELSE account[b].status,
               owners |-> account[b].owners \cup {Owner[p]}]
      BY <2>2, <2>3, RowIs
    <3>2. QED
      BY <3>1
  <2>5. \A a \in Accounts : a # b => account'[a] = account[a]
    BY <2>1 DEF TypeOK
  <2>6. QED
    BY <2>4, <2>5 DEF RowsInOrder, Exists
<1>2. ASSUME NEW s \in Outcomes, Write(s) PROVE RowsInOrder'
  <2>1. PICK b \in Accounts : account' = [account EXCEPT ![b].status = s]
    BY <1>2 DEF Write
  <2>2. account[b] \in RowType
    BY DEF TypeOK
  <2>3. account'[b] = [account[b] EXCEPT !.status = s]
    BY <2>1 DEF TypeOK
  <2>4. account'[b].status = s
    BY <2>2, <2>3 DEF RowType
  <2>5. s # "Absent"
    BY DEF Outcomes, Statuses
  <2>6. \A a \in Accounts : a # b => account'[a] = account[a]
    BY <2>1 DEF TypeOK
  <2>7. QED
    BY <2>4, <2>5, <2>6 DEF RowsInOrder, Exists
<1>3. CASE account' = account
  BY <1>3 DEF RowsInOrder, Exists
<1>4. \A u \in update[p] : u[1] \in Outcomes
  BY DEF TypeOK
<1>5. Records(workflow[p].pc) \in Outcomes
  BY DEF Records, Outcomes, Statuses
<1>6. QED
  BY <1>1, <1>2, <1>3, <1>4, <1>5, RowsWritten

(* The step that makes a user, the one that makes him an administrator and *)
(* the one that gives him a password each change that alone.               *)
LEMMA EnsuredOnly ==
    ASSUME NEW r \in RealmType, NEW i \in 1..Len(Steps), NEW o \in Owners, NEW s
    PROVE  LET w == Ensured(r, i, o, s)
           IN  /\ i # 6 => w.users = r.users
               /\ i # 7 => w.admins = r.admins
               /\ i = 7 => w.admins \subseteq r.admins \cup {o}
               /\ w.password = IF i = 8 THEN [r.password EXCEPT ![o] = s] ELSE r.password
<1> DEFINE w == Ensured(r, i, o, s)
<1>1. i \in 1..8
  BY StepsAre
<1>2. CASE i \in 1..3
  BY <1>2, StepsAre, EnsuredByStep, WithPartDoes DEF Parts
<1>3. CASE i \in 4..5
  BY <1>3, StepsAre, EnsuredByStep, WithPartDoes
  DEF Parts, EnsureClientRoles, EnsureClientMappers
<1>4. CASE i = 6
  <2>1. w = [r EXCEPT !.users = @ \cup {o}]
    BY <1>4, EnsuredByStep DEF EnsureUser
  <2>2. QED
    BY <1>4, <2>1 DEF RealmType
<1>5. CASE i = 7
  <2>1. w = [r EXCEPT !.admins = IF "realmRoles" \in r.parts
                                 THEN @ \cup {o} ELSE @ \ {o}]
    BY <1>5, EnsuredByStep DEF EnsureUserRoles
  <2>2. QED
    BY <1>5, <2>1 DEF RealmType
<1>6. CASE i = 8
  <2>1. w = [r EXCEPT !.password[o] = s]
    BY <1>6, EnsuredByStep DEF EnsureResetUserPassword
  <2>2. QED
    BY <1>6, <2>1 DEF RealmType
<1>7. QED
  BY <1>1, <1>2, <1>3, <1>4, <1>5, <1>6

(* What a step of provisionExternalAuth finds there and leaves unchanged.  *)
LEMMA AuthStepOnly ==
    ASSUME TypeOK, NEW p \in Requests, NEW n \in Attempts, StepsStay(p, n),
           AuthStep(p, n)
    PROVE  /\ auth[p][n] \in 1..8
           /\ auth[p][n] # 6 => realm'.users = realm.users
           /\ auth[p][n] # 7 => realm'.admins = realm.admins
           /\ realm'.admins \subseteq realm.admins \cup {Owner[p]}
           /\ realm'.password = IF auth[p][n] = 8
                                THEN [realm.password EXCEPT ![Owner[p]] = <<p, n>>]
                                ELSE realm.password
           /\ auth[p][n] > 5 => realm.parts = Parts
           /\ auth[p][n] > 6 => Owner[p] \in realm.users
           /\ auth[p][n] > 7 => Owner[p] \in realm.admins
<1> DEFINE i == auth[p][n]
<1>1. i \in 1..Len(Steps) /\ i \in 1..8 /\ Owner[p] \in Owners /\ realm \in RealmType
  BY StepsAre, ConstantsAssumption DEF AuthStep, TypeOK
<1>2. realm' = Ensured(realm, i, Owner[p], <<p, n>>)
  BY DEF AuthStep
<1>3. i > 5 => realm.parts = Parts
  <2>1. realm.parts \subseteq Parts
    BY <1>1 DEF RealmType
  <2>2. i > 5 => \A j \in 1..5 : Steps[j] \in realm.parts
    BY <1>1 DEF StepsStay
  <2>3. QED
    BY <2>1, <2>2, StepsAre DEF Parts
<1>4. (i > 6 => Owner[p] \in realm.users) /\ (i > 7 => Owner[p] \in realm.admins)
  BY DEF StepsStay
<1> HIDE DEF i
<1>5. QED
  BY <1>1, <1>2, <1>3, <1>4, EnsuredOnly DEF i

LEMMA NextRealmInOrder ==
    ASSUME TypeOK, TypeOK', RealmInOrder, \A q \in Requests : WorkflowInOrder(q),
           \A q \in Requests, m \in Attempts : StepsStay(q, m),
           NEW p \in Requests, Step(p)
    PROVE  RealmInOrder'
<1>1. ASSUME NEW n \in Attempts, AuthStep(p, n) PROVE RealmInOrder'
  <2> DEFINE i == auth[p][n]
  <2>1. /\ i \in 1..8
        /\ i # 6 => realm'.users = realm.users
        /\ i # 7 => realm'.admins = realm.admins
        /\ realm'.admins \subseteq realm.admins \cup {Owner[p]}
        /\ i # 8 => realm'.password = realm.password
        /\ i = 8 => realm'.password = [realm.password EXCEPT ![Owner[p]] = <<p, n>>]
        /\ i > 5 => realm.parts = Parts
        /\ i > 6 => Owner[p] \in realm.users
        /\ i > 7 => Owner[p] \in realm.admins
    BY <1>1, AuthStepOnly
  <2>2. /\ realm.parts \subseteq realm'.parts /\ realm.users \subseteq realm'.users
        /\ realm.admins \subseteq realm'.admins
    BY <1>1, AuthStepDoes DEF RealmGrows
  <2>3. realm'.parts \subseteq Parts /\ realm.password \in [Owners -> Passwords \cup {NULL}]
    BY DEF TypeOK, RealmType
  <2> HIDE DEF i
  <2>4. \A o \in Owners : realm'.password[o] # NULL => o \in realm'.admins
    BY <2>1, <2>2, <2>3 DEF RealmInOrder
  <2>5. realm'.admins \subseteq realm'.users
    BY <2>1, <2>2 DEF RealmInOrder
  <2>6. realm'.users # {} => realm'.parts = Parts
    <3>1. realm.parts = Parts => realm'.parts = Parts
      BY <2>2, <2>3
    <3>2. CASE i = 6
      BY <2>1, <3>1, <3>2
    <3>3. CASE i # 6
      BY <2>1, <3>1, <3>3 DEF RealmInOrder
    <3>4. QED
      BY <3>2, <3>3
  <2>7. QED
    BY <2>4, <2>5, <2>6 DEF RealmInOrder
<1>2. CASE \A n \in Attempts : ~ AuthStep(p, n)
  <2>1. realm' = realm
    BY <1>2, AuthMoves
  <2>2. QED
    BY <2>1 DEF RealmInOrder
<1>3. QED
  BY <1>1, <1>2

-----------------------------------------------------------------------------
(* The inductive invariant *)

LEMMA AccountInitIInv == Init => IInv
<1> SUFFICES ASSUME Init PROVE IInv
  OBVIOUS
<1>1. TypeOK
  BY AccountInitTypeOK
<1>2. ASSUME NEW p \in Requests
      PROVE  /\ WorkflowInOrder(p) /\ OwnerJoinsFirst(p) /\ OutcomeOnItsWay(p)
             /\ \A n \in Attempts : StepsStay(p, n)
  <2>1. /\ workflow[p] = NoWorkflow /\ update[p] = {} /\ request[p] = NoRequest
        /\ \A n \in Attempts : auth[p][n] = 0
    BY DEF Init
  <2>2. WorkflowInOrder(p) /\ OwnerJoinsFirst(p)
    BY <2>1 DEF WorkflowInOrder, OwnerJoinsFirst, NoWorkflow, NoRequest
  <2>3. OutcomeOnItsWay(p)
    BY <2>1 DEF OutcomeOnItsWay, NoWorkflow
  <2>4. \A n \in Attempts : StepsStay(p, n)
    BY <2>1 DEF StepsStay
  <2>5. QED
    BY <2>2, <2>3, <2>4
<1>3. ActiveIsEarned
  BY DEF Init, ActiveIsEarned, NoWorkflow, NoAccount
<1>4. OwnersAreMembers
  BY DEF Init, OwnersAreMembers
<1>5. RowsInOrder /\ RealmInOrder
  BY DEF Init, NoAccount, RowsInOrder, RealmInOrder
<1>6. QED
  BY <1>1, <1>2, <1>3, <1>4, <1>5 DEF IInv

(* Every step of every request preserves it. *)
LEMMA AccountNextIInv == IInv /\ [Next]_vars => IInv'
<1> SUFFICES ASSUME IInv, [Next]_vars PROVE IInv'
  OBVIOUS
<1>1. /\ TypeOK /\ ActiveIsEarned /\ OwnersAreMembers /\ RowsInOrder /\ RealmInOrder
      /\ \A q \in Requests : WorkflowInOrder(q)
      /\ \A q \in Requests, m \in Attempts : StepsStay(q, m)
      /\ \A q \in Requests : OwnerJoinsFirst(q)
      /\ \A q \in Requests : OutcomeOnItsWay(q)
  BY DEF IInv
<1>2. TypeOK'
  BY <1>1, AccountNextTypeOK
<1>3. ASSUME NEW p \in Requests, Step(p) PROVE IInv'
  <2>1. ASSUME NEW q \in Requests PROVE WorkflowInOrder(q)'
    <3>1. CASE q = p
      BY <1>1, <1>3, <3>1, StepInOrder
    <3>2. CASE q # p
      BY <1>1, <1>3, <3>2, OthersKeep DEF WorkflowInOrder, Keeps
    <3>3. QED
      BY <3>1, <3>2
  <2>2. \A q \in Requests, m \in Attempts : StepsStay(q, m)'
    BY <1>1, <1>3, NextStepsStay
  <2>3. \A q \in Requests : OwnerJoinsFirst(q)'
    BY <1>1, <1>3, NextOwners
  <2>4. OwnersAreMembers'
    BY <1>1, <1>3, NextOwners
  <2>5. \A q \in Requests : OutcomeOnItsWay(q)'
    BY <1>1, <1>2, <1>3, NextOutcome
  <2>6. ActiveIsEarned'
    BY <1>1, <1>2, <1>3, NextActiveIsEarned
  <2>7. RowsInOrder'
    BY <1>1, <1>3, NextRowsInOrder
  <2>8. RealmInOrder'
    BY <1>1, <1>2, <1>3, NextRealmInOrder
  <2>9. QED
    BY <1>2, <2>1, <2>2, <2>3, <2>4, <2>5, <2>6, <2>7, <2>8 DEF IInv
<1>4. CASE UNCHANGED vars
  BY <1>1, <1>2, <1>4
  DEF vars, IInv, WorkflowInOrder, StepsStay, OwnerJoinsFirst, Members,
      OutcomeOnItsWay, Started, ActiveIsEarned, Complete, OwnersAreMembers,
      RowsInOrder, Exists, RealmInOrder
<1>5. QED
  BY <1>3, <1>4 DEF Next, Step

(* The inductive invariant holds in every reachable state. *)
THEOREM AccountInvariance == Spec => []IInv
<1>1. Init => IInv
  BY AccountInitIInv
<1>2. IInv /\ [Next]_vars => IInv'
  BY AccountNextIInv
<1>3. QED
  BY <1>1, <1>2, PTL DEF Spec

(* Rows, requests, workflows, attempts and the realm are well formed. *)
THEOREM AccountTypeCorrect == Spec => []TypeOK
<1>1. IInv => TypeOK
  BY DEF IInv
<1>2. QED
  BY <1>1, AccountInvariance, PTL

(* An ACTIVE account has a complete realm with a user who administers it   *)
(* and has a password, however requests, workflows and attempts overlap.   *)
THEOREM ActiveSafe == Spec => []ActiveIsProvisioned
<1>1. IInv => ActiveIsProvisioned
  <2> SUFFICES ASSUME IInv, NEW a \in Accounts, account[a].status = "ACTIVE"
               PROVE  /\ realm.parts = Parts
                      /\ \E o \in realm.users \cap realm.admins :
                            realm.password[o] # NULL
    BY DEF ActiveIsProvisioned
  <2>1. PICK p \in Requests : Complete(p)
    BY DEF IInv, ActiveIsEarned
  <2>2. QED
    BY <2>1 DEF Complete
<1>2. QED
  BY <1>1, AccountInvariance, PTL

(* Whoever has a user in the realm is an owner of the account. *)
THEOREM OwnersSafe == Spec => []OwnersAreMembers
<1>1. IInv => OwnersAreMembers
  BY DEF IInv
<1>2. QED
  BY <1>1, AccountInvariance, PTL

(* The account's status tells how its only workflow ended, unless every    *)
(* attempt of an update was given up: no late write undoes it.             *)
THEOREM OutcomeSafe == Spec => []OutcomeRecorded
<1>1. IInv => OutcomeRecorded
  <2> SUFFICES ASSUME IInv, NEW p \in Requests, Started = {p}, lost < MaxAttempts,
                      workflow[p].pc \in {"succeeded", "failed"}
               PROVE  \E a \in Accounts : account[a].status =
                          IF workflow[p].pc = "succeeded" THEN "ACTIVE"
                                                          ELSE "PROVISION_FAILED"
    BY DEF OutcomeRecorded
  <2>1. OutcomeOnItsWay(p)
    BY DEF IInv
  <2>2. QED
    BY <2>1 DEF OutcomeOnItsWay
<1>2. QED
  BY <1>1, AccountInvariance, PTL

-----------------------------------------------------------------------------
(* The refinement of AccountLife *)

(* In a realm made in order a password is all it takes. *)
LEMMA AbleAre ==
    ASSUME TypeOK, RealmInOrder
    PROVE  AbleOwners = {o \in Owners : realm.password[o] # NULL}
<1>1. realm.users \subseteq Owners
  BY DEF TypeOK, RealmType
<1>2. QED
  BY <1>1 DEF RealmInOrder, AbleOwners

LEMMA CommitJoins ==
    ASSUME IInv, NEW p \in Requests, CommitAccount(p)
    PROVE  Life!Next
<1>1. PICK a \in Accounts : account' = [account EXCEPT ![a] = Row(@, Owner[p])]
  BY DEF CommitAccount
<1>2. Owner[p] \in Owners /\ realm' = realm
  BY ConstantsAssumption DEF CommitAccount
<1>3. Row(account[a], Owner[p]) =
          [status |-> IF account[a].status = "Absent" THEN "PROVISIONING"
                                                      ELSE account[a].status,
           owners |-> account[a].owners \cup {Owner[p]}]
  BY <1>2, RowIs DEF IInv
<1>4. /\ account \in [Accounts -> RowType]
      /\ account'[a] = Row(account[a], Owner[p])
      /\ \A b \in Accounts : b # a => account'[b] = account[b]
  BY <1>1 DEF IInv, TypeOK
<1>5. RowStatus' = [RowStatus EXCEPT ![a] = IF @ = "Absent" THEN "PROVISIONING" ELSE @]
  <2>1. account'[a].status =
            IF account[a].status = "Absent" THEN "PROVISIONING" ELSE account[a].status
    BY <1>3, <1>4
  <2>2. QED
    BY <1>4, <2>1 DEF RowStatus
<1>6. RowOwners' = [RowOwners EXCEPT ![a] = @ \cup {Owner[p]}]
  <2>1. account'[a].owners = account[a].owners \cup {Owner[p]}
    BY <1>3, <1>4
  <2>2. QED
    BY <1>4, <2>1 DEF RowOwners
<1>7. AbleOwners' = AbleOwners
  BY <1>2 DEF AbleOwners
<1>8. Life!Join(a, Owner[p])
  BY <1>5, <1>6, <1>7 DEF Life!Join
<1>9. QED
  BY <1>2, <1>8 DEF Life!Next

(* An update writes an outcome, and ACTIVE only for a realm that one can   *)
(* log in to.                                                              *)
LEMMA WriteRecords ==
    ASSUME IInv, NEW p \in Requests, Step(p), NEW s \in Outcomes, Write(s),
           s = "ACTIVE" => \E q \in Requests : workflow[q].password # NULL,
           realm' = realm
    PROVE  Life!Next
<1>1. PICK a \in Accounts : /\ Exists(a)
                            /\ account' = [account EXCEPT ![a].status = s]
  BY DEF Write
<1>2. account \in [Accounts -> RowType]
  BY DEF IInv, TypeOK
<1>3. /\ account'[a] = [account[a] EXCEPT !.status = s]
      /\ \A b \in Accounts : b # a => account'[b] = account[b]
  BY <1>1, <1>2
<1>4. account'[a].status = s /\ account'[a].owners = account[a].owners
  BY <1>2, <1>3 DEF RowType
<1>5. RowStatus' = [RowStatus EXCEPT ![a] = s]
  BY <1>3, <1>4 DEF RowStatus
<1>6. RowOwners' = RowOwners /\ AbleOwners' = AbleOwners
  BY <1>3, <1>4 DEF RowOwners, AbleOwners
<1>7. RowStatus[a] # "Absent"
  BY <1>1 DEF Exists, RowStatus
<1>8. s = "ACTIVE" => AbleOwners # {}
  BY DEF IInv, ActiveIsEarned, Complete, AbleOwners
<1>9. CASE s = "ACTIVE"
  BY <1>5, <1>6, <1>7, <1>8, <1>9 DEF Life!Next, Life!Activate
<1>10. CASE s = "PROVISION_FAILED"
  BY <1>5, <1>6, <1>7, <1>10 DEF Life!Next, Life!Fail
<1>11. QED
  BY <1>9, <1>10 DEF Outcomes, Statuses

(* The last step of an attempt enables its owner; no other step enables or *)
(* disables anybody.                                                       *)
LEMMA AuthStepEnables ==
    ASSUME IInv, IInv', NEW p \in Requests, NEW n \in Attempts, AuthStep(p, n)
    PROVE  [Life!Next]_(Life!vars)
<1>1. account' = account
  BY DEF AuthStep
<1>2. AbleOwners = {o \in Owners : realm.password[o] # NULL}
  BY AbleAre DEF IInv
<1>3. AbleOwners' = {o \in Owners : realm'.password[o] # NULL}
  <2>1. TypeOK' /\ RealmInOrder'
    BY DEF IInv
  <2>2. realm'.users \subseteq Owners
    BY <2>1 DEF TypeOK, RealmType
  <2>3. QED
    BY <2>1, <2>2 DEF RealmInOrder, AbleOwners
<1>4. /\ realm'.password = IF auth[p][n] = 8
                           THEN [realm.password EXCEPT ![Owner[p]] = <<p, n>>]
                           ELSE realm.password
      /\ auth[p][n] > 6 => Owner[p] \in realm.users
  BY AuthStepOnly DEF IInv
<1>5. CASE auth[p][n] # 8
  BY <1>1, <1>2, <1>3, <1>4, <1>5 DEF Life!vars, RowStatus, RowOwners
<1>6. CASE auth[p][n] = 8
  <2>1. Owner[p] \in Owners /\ <<p, n>> # NULL
    BY ConstantsAssumption DEF Attempts
  <2>2. realm.password \in [Owners -> Passwords \cup {NULL}]
    BY DEF IInv, TypeOK, RealmType
  <2>3. AbleOwners' = AbleOwners \cup {Owner[p]}
    BY <1>2, <1>3, <1>4, <1>6, <2>1, <2>2
  <2>4. \E a \in Accounts : Owner[p] \in RowOwners[a]
    BY <1>4, <1>6 DEF IInv, OwnersAreMembers, RowOwners
  <2>5. Life!Enable(Owner[p])
    BY <1>1, <2>3, <2>4 DEF Life!Enable, RowStatus, RowOwners
  <2>6. QED
    BY <2>1, <2>5 DEF Life!Next
<1>7. QED
  BY <1>5, <1>6

LEMMA NextLives ==
    IInv /\ IInv' /\ [Next]_vars => [Life!Next]_(Life!vars)
<1> SUFFICES ASSUME IInv, IInv', [Next]_vars
             PROVE  [Life!Next]_(Life!vars)
  OBVIOUS
<1>1. ASSUME NEW p \in Requests, Step(p) PROVE [Life!Next]_(Life!vars)
  <2>1. ASSUME NEW n \in Attempts, AuthStep(p, n) PROVE [Life!Next]_(Life!vars)
    BY <2>1, AuthStepEnables
  <2>2. CASE \A n \in Attempts : ~ AuthStep(p, n)
    <3>1. realm' = realm
      BY <1>1, <2>2, AuthMoves DEF IInv
    <3>2. CASE account' = account
      BY <3>1, <3>2 DEF Life!vars, AbleOwners, RowStatus, RowOwners
    <3>3. CASE CommitAccount(p)
      BY <3>3, CommitJoins
    <3>4. ASSUME NEW u \in update[p], Write(u[1]) PROVE Life!Next
      <4>1. u[1] \in Outcomes
        BY DEF IInv, TypeOK
      <4>2. u[1] = "ACTIVE" => workflow[p].password # NULL
        BY DEF IInv, ActiveIsEarned
      <4>3. QED
        BY <1>1, <3>1, <3>4, <4>1, <4>2, WriteRecords
    <3>5. CASE /\ workflow[p].pc \in {"activate", "compensate"}
               /\ Write(Records(workflow[p].pc))
      <4>1. Records(workflow[p].pc) \in Outcomes
        BY <3>5 DEF Records, Outcomes, Statuses
      <4>2. Records(workflow[p].pc) = "ACTIVE" => workflow[p].password # NULL
        BY <3>5 DEF Records, IInv, WorkflowInOrder
      <4>3. QED
        BY <1>1, <3>1, <3>5, <4>1, <4>2, WriteRecords
    <3>6. QED
      BY <1>1, <3>2, <3>3, <3>4, <3>5, RowsWritten
  <2>3. QED
    BY <2>1, <2>2
<1>2. CASE UNCHANGED vars
  BY <1>2 DEF vars, Life!vars, AbleOwners, RowStatus, RowOwners
<1>3. QED
  BY <1>1, <1>2 DEF Next, Step

(* However requests, workflows and attempts overlap: nobody is able to log *)
(* in as administrator before he is a member, nobody loses that again, no  *)
(* row is ACTIVE before there is such a member, and none is PROVISIONING   *)
(* a second time.                                                          *)
THEOREM LifeRefinement == Spec => LifeSpec
<1>1. Init => Life!Init
  BY DEF Init, Life!Init, NoAccount, AbleOwners, RowStatus, RowOwners
<1>2. IInv /\ IInv' /\ [Next]_vars => [Life!Next]_(Life!vars)
  BY NextLives
<1>3. QED
  BY <1>1, <1>2, AccountInvariance, PTL DEF Spec, LifeSpec, Life!Spec
=============================================================================
