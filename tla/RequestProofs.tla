---------------------------- MODULE RequestProofs ----------------------------
(***************************************************************************)
(* Proofs about the requests of the API: the rows createWorkspaceTx makes  *)
(* of the console's form (WorkspaceRequests), for any number of requests   *)
(* and realms, the checks every request goes through (Access), for any     *)
(* number of requests of a principal, and the calls of KeycloakAuthAdapter *)
(* side by side (KeycloakRealm), for any number of callers and calls.      *)
(***************************************************************************)
EXTENDS WorkspaceRequests, Access, KeycloakRealm, SequenceTheorems, TLAPS

-----------------------------------------------------------------------------
(* WorkspaceRequests: type correctness                                     *)

LEMMA AnyRealmIsOne == AnyRealm \in Realms
BY MountsAssumption DEF AnyRealm

LEMMA BlankCall ==
    /\ NoCall \in WorkspaceCalls
    /\ NoCall.pc = "idle" /\ NoCall.drawn = FALSE /\ NoCall.seen = {}
BY AnyRealmIsOne, MountsAssumption DEF NoCall, WorkspaceCalls, WorkspaceIds

(* A request that is over is as blank as one that never was.               *)
OverCall == [NoCall EXCEPT !.pc = "over"]

LEMMA OverIsBlank ==
    /\ OverCall \in WorkspaceCalls
    /\ OverCall.pc = "over" /\ OverCall.drawn = FALSE /\ OverCall.seen = {}
<1>1. OverCall \in WorkspaceCalls
  BY BlankCall DEF OverCall, WorkspaceCalls
<1>2. OverCall.pc = "over" /\ OverCall.drawn = FALSE /\ OverCall.seen = {}
  BY DEF OverCall, NoCall
<1>3. QED
  BY <1>1, <1>2

(* What the server makes of an id is one.                                  *)
LEMMA IdIsOne ==
    ASSUME NEW c \in Calls, WRTypeOK
    PROVE  LET sent == IF wrForm.generate THEN FormId(wrMounts, c) ELSE wrForm.typed
           IN  /\ ExtWorkspaceId(c, wrForm.generate, sent) \in WorkspaceIds
               /\ wrForm.generate =>
                      ExtWorkspaceId(c, wrForm.generate, sent) = <<"form", wrMounts>>
BY DEF WRTypeOK, ExtWorkspaceId, FormId, WorkspaceIds, Trimmed

(* The types of the requests, from which the rest of WRTypeOK follows.     *)
CallsTyped == wrCalls \in [Calls -> WorkspaceCalls]

LEMMA WRCallsTyped ==
    ASSUME WRTypeOK, CallsTyped, [WRNext]_wrVars
    PROVE  CallsTyped'
<1> USE DEF CallsTyped
<1>1. CASE OpenWorkspaceForm \/ \E r \in Realms : ChooseRealm(r) \/ AccountStatusChanges(r)
  BY <1>1 DEF OpenWorkspaceForm, ChooseRealm, AccountStatusChanges
<1>2. CASE \E g \in BOOLEAN, t \in Typed : FillWorkspaceForm(g, t)
  BY <1>2 DEF FillWorkspaceForm
<1>3. ASSUME NEW c \in Calls, WorkspaceSave(c) PROVE CallsTyped'
  <2> DEFINE sent == IF wrForm.generate THEN FormId(wrMounts, c) ELSE wrForm.typed
             id == ExtWorkspaceId(c, wrForm.generate, sent)
             call == [NoCall EXCEPT !.pc = "sent", !.mount = wrMounts, !.realm = wrRealm,
                                    !.drawn = wrForm.generate, !.id = id]
  <2>1. id \in WorkspaceIds
    BY IdIsOne
  <2> HIDE DEF id
  <2>2. call \in WorkspaceCalls
    BY <2>1, BlankCall DEF WorkspaceCalls, WRTypeOK
  <2>3. wrCalls' = [wrCalls EXCEPT ![c] = call]
    BY <1>3 DEF WorkspaceSave, id
  <2> HIDE DEF call
  <2>4. QED
    BY <2>2, <2>3
<1>4. ASSUME NEW c \in Calls,
             WorkspaceAnswered(c) \/ WorkspaceAnswerLost(c) \/ WorkspaceRefused(c)
      PROVE  CallsTyped'
  <2>1. wrCalls' = [wrCalls EXCEPT ![c] = OverCall]
    BY <1>4 DEF WorkspaceAnswered, WorkspaceAnswerLost, WorkspaceRefused, OverCall
  <2>2. QED
    BY <2>1, OverIsBlank
<1>5. ASSUME NEW c \in Calls, CheckWorkspaceAccount(c) PROVE CallsTyped'
  BY <1>5 DEF CheckWorkspaceAccount, WorkspaceCalls
<1>6. ASSUME NEW c \in Calls, WorkspaceLookUp(c) PROVE CallsTyped'
  <2> DEFINE seen == {w.by : w \in wrWorkspaces}
             call == [wrCalls[c] EXCEPT !.pc = "free", !.seen = seen]
  <2>1. seen \in SUBSET Calls
    BY DEF WRTypeOK
  <2>2. wrCalls' = [wrCalls EXCEPT ![c] = call]
    BY <1>6 DEF WorkspaceLookUp
  <2> HIDE DEF seen
  <2>3. call \in WorkspaceCalls
    <3>1. ASSUME NEW old \in WorkspaceCalls, NEW s \in SUBSET Calls
          PROVE  [old EXCEPT !.pc = "free", !.seen = s] \in WorkspaceCalls
      BY DEF WorkspaceCalls
    <3>2. wrCalls[c] \in WorkspaceCalls
      OBVIOUS
    <3>3. QED
      BY <2>1, <3>1, <3>2
  <2> HIDE DEF call
  <2>4. QED
    BY <2>2, <2>3
<1>7. ASSUME NEW c \in Calls, WorkspaceCommit(c) PROVE CallsTyped'
  BY <1>7 DEF WorkspaceCommit, WorkspaceCalls
<1>8. CASE UNCHANGED wrVars
  BY <1>8 DEF wrVars
<1>9. QED
  BY <1>1, <1>2, <1>3, <1>4, <1>5, <1>6, <1>7, <1>8 DEF WRNext

LEMMA WRNextTypeOK ==
    ASSUME WRTypeOK, CallsTyped, [WRNext]_wrVars
    PROVE  WRTypeOK'
<1>1. CallsTyped'
  BY WRCallsTyped
<1>2. \A c \in Calls :
          /\ wrCalls'[c].pc \in {"idle", "sent", "checked", "free", "done", "over"}
          /\ wrCalls'[c].mount \in 0..MaxMounts
          /\ wrCalls'[c].realm \in Realms
          /\ wrCalls'[c].seen \subseteq Calls
  BY <1>1 DEF CallsTyped, WorkspaceCalls
<1> DEFINE Forms == [open : BOOLEAN, dirty : BOOLEAN, generate : BOOLEAN, typed : Typed]
           Kept == /\ wrRealm' \in Realms /\ wrMounts' \in 0..MaxMounts
                   /\ wrActive' \subseteq Realms /\ wrForm' \in Forms
<1>3. /\ wrRealm \in Realms /\ wrMounts \in 0..MaxMounts
      /\ wrActive \subseteq Realms /\ wrForm \in Forms /\ NoForm \in Forms
  BY DEF WRTypeOK, NoForm, Typed
<1>4. Kept
  <2> HIDE DEF Forms
  <2>1. CASE OpenWorkspaceForm
    <3>1. [NoForm EXCEPT !.open = TRUE] \in Forms
      BY <1>3 DEF Forms
    <3>2. QED
      BY <2>1, <1>3, <3>1, MountsAssumption DEF OpenWorkspaceForm
  <2>2. CASE \E r \in Realms : ChooseRealm(r) \/ AccountStatusChanges(r)
    BY <2>2, <1>3 DEF ChooseRealm, AccountStatusChanges
  <2>3. CASE \E g \in BOOLEAN, t \in Typed : FillWorkspaceForm(g, t)
    BY <2>3, <1>3 DEF FillWorkspaceForm, Forms
  <2>4. ASSUME NEW c \in Calls,
               \/ WorkspaceSave(c) \/ WorkspaceAnswered(c) \/ WorkspaceAnswerLost(c)
               \/ CheckWorkspaceAccount(c) \/ WorkspaceRefused(c)
               \/ WorkspaceLookUp(c) \/ WorkspaceCommit(c)
        PROVE  Kept
    <3>1. UNCHANGED <<wrRealm, wrMounts, wrActive>> /\ wrForm' \in {wrForm, NoForm}
      BY <2>4 DEF WorkspaceSave, WorkspaceAnswered, WorkspaceAnswerLost,
         CheckWorkspaceAccount, WorkspaceRefused, WorkspaceLookUp, WorkspaceCommit
    <3>2. QED
      BY <3>1, <1>3
  <2>5. CASE UNCHANGED wrVars
    BY <2>5, <1>3 DEF wrVars
  <2>6. QED
    BY <2>1, <2>2, <2>3, <2>4, <2>5 DEF WRNext
<1>5. \A w \in wrWorkspaces' : w.realm \in Realms /\ w.by \in Calls
  <2>1. ASSUME NEW c \in Calls, WorkspaceCommit(c)
        PROVE  \A w \in wrWorkspaces' : w.realm \in Realms /\ w.by \in Calls
    BY <2>1 DEF WorkspaceCommit, WRTypeOK
  <2>2. CASE UNCHANGED wrWorkspaces
    BY <2>2 DEF WRTypeOK
  <2>3. QED
    BY <2>1, <2>2 DEF WRNext, wrVars, OpenWorkspaceForm, ChooseRealm,
       AccountStatusChanges, FillWorkspaceForm, WorkspaceSave, WorkspaceAnswered,
       WorkspaceAnswerLost, CheckWorkspaceAccount, WorkspaceRefused, WorkspaceLookUp
<1>6. QED
  BY <1>2, <1>4, <1>5 DEF WRTypeOK

-----------------------------------------------------------------------------
(* WorkspaceRequests: the rows                                             *)

(* The steps that leave requests and rows alone, and those of one request. *)
FormStep == UNCHANGED <<wrCalls, wrWorkspaces>>
EndsCall(c) == wrCalls' = [wrCalls EXCEPT ![c] = OverCall] /\ UNCHANGED wrWorkspaces

LEMMA WRSteps ==
    ASSUME [WRNext]_wrVars
    PROVE  \/ FormStep
           \/ \E c \in Calls :
                 \/ WorkspaceSave(c) \/ CheckWorkspaceAccount(c) \/ EndsCall(c)
                 \/ WorkspaceLookUp(c) \/ WorkspaceCommit(c)
BY DEF WRNext, wrVars, FormStep, EndsCall, OverCall, OpenWorkspaceForm, ChooseRealm,
   AccountStatusChanges, FillWorkspaceForm, WorkspaceAnswered, WorkspaceAnswerLost,
   WorkspaceRefused

(* What is sent has seen nothing and, if drawn, has the id of its mount.   *)
LEMMA SaveSends ==
    ASSUME WRTypeOK, NEW c \in Calls, WorkspaceSave(c)
    PROVE  \E call \in [pc : {"sent"}, mount : {wrMounts}, realm : {wrRealm},
                        drawn : {wrForm.generate}, seen : {{}}, id : WorkspaceIds] :
              /\ wrCalls' = [wrCalls EXCEPT ![c] = call]
              /\ call.drawn => call.id = <<"form", call.mount>>
<1> DEFINE sent == IF wrForm.generate THEN FormId(wrMounts, c) ELSE wrForm.typed
           id == ExtWorkspaceId(c, wrForm.generate, sent)
           call == [NoCall EXCEPT !.pc = "sent", !.mount = wrMounts, !.realm = wrRealm,
                                  !.drawn = wrForm.generate, !.id = id]
<1>1. /\ id \in WorkspaceIds
      /\ wrForm.generate => id = <<"form", wrMounts>>
  BY IdIsOne
<1>2. wrCalls' = [wrCalls EXCEPT ![c] = call]
  BY DEF WorkspaceSave
<1> HIDE DEF id
<1>3. /\ call.pc = "sent" /\ call.mount = wrMounts /\ call.realm = wrRealm
      /\ call.drawn = wrForm.generate /\ call.seen = {} /\ call.id = id
      /\ call \in [pc : {"sent"}, mount : {wrMounts}, realm : {wrRealm},
                  drawn : {wrForm.generate}, seen : {{}}, id : WorkspaceIds]
  BY <1>1 DEF NoCall
<1> HIDE DEF call
<1>4. QED
  BY <1>1, <1>2, <1>3

(* A request that has inserted its row has done so for good.               *)
LEMMA InsertedForGood ==
    ASSUME CallsTyped, [WRNext]_wrVars
    PROVE  Inserted \subseteq Inserted'
<1> SUFFICES ASSUME NEW d \in Inserted PROVE d \in Inserted'
  OBVIOUS
<1>1. CASE FormStep
  BY <1>1 DEF FormStep, Inserted
<1>2. ASSUME NEW c \in Calls, WorkspaceSave(c) PROVE d \in Inserted'
  BY <1>2 DEF WorkspaceSave, Inserted, CallsTyped
<1>3. ASSUME NEW c \in Calls, EndsCall(c) PROVE d \in Inserted'
  BY <1>3, OverIsBlank DEF EndsCall, Inserted, CallsTyped
<1>4. ASSUME NEW c \in Calls, CheckWorkspaceAccount(c) \/ WorkspaceLookUp(c) PROVE d \in Inserted'
  BY <1>4 DEF CheckWorkspaceAccount, WorkspaceLookUp, Inserted, CallsTyped
<1>5. ASSUME NEW c \in Calls, WorkspaceCommit(c) PROVE d \in Inserted'
  BY <1>5 DEF WorkspaceCommit, Inserted, CallsTyped
<1>6. QED
  BY <1>1, <1>2, <1>3, <1>4, <1>5, WRSteps

(* What a request has seen: nothing, what it had, or the rows there are.   *)
LEMMA SeenStep ==
    ASSUME WRTypeOK, CallsTyped, [WRNext]_wrVars, NEW c \in Calls
    PROVE  wrCalls'[c].seen \in {{}, wrCalls[c].seen, {w.by : w \in wrWorkspaces}}
<1>1. CASE FormStep
  BY <1>1 DEF FormStep
<1>2. ASSUME NEW d \in Calls, WorkspaceSave(d)
      PROVE  wrCalls'[c].seen \in {{}, wrCalls[c].seen}
  BY <1>2, SaveSends DEF CallsTyped
<1>3. ASSUME NEW d \in Calls, EndsCall(d)
      PROVE  wrCalls'[c].seen \in {{}, wrCalls[c].seen}
  BY <1>3, OverIsBlank DEF EndsCall, CallsTyped
<1>4. ASSUME NEW d \in Calls, CheckWorkspaceAccount(d) \/ WorkspaceCommit(d)
      PROVE  wrCalls'[c].seen = wrCalls[c].seen
  BY <1>4 DEF CheckWorkspaceAccount, WorkspaceCommit, CallsTyped, WorkspaceCalls
<1>5. ASSUME NEW d \in Calls, WorkspaceLookUp(d)
      PROVE  wrCalls'[c].seen \in {wrCalls[c].seen, {w.by : w \in wrWorkspaces}}
  <2> DEFINE seen == {w.by : w \in wrWorkspaces}
  <2>1. wrCalls' = [wrCalls EXCEPT ![d].pc = "free", ![d].seen = seen]
    BY <1>5 DEF WorkspaceLookUp
  <2> HIDE DEF seen
  <2>2. wrCalls'[c].seen \in {wrCalls[c].seen, seen}
    BY <2>1 DEF CallsTyped, WorkspaceCalls
  <2>3. QED
    BY <2>2 DEF seen
<1>6. QED
  BY <1>1, <1>2, <1>3, <1>4, <1>5, WRSteps

(* The row of a request.                                                   *)
RowOf(c) == [id |-> wrCalls[c].id, realm |-> wrCalls[c].realm, by |-> c,
             drawn |-> wrCalls[c].drawn, mount |-> wrCalls[c].mount,
             seen |-> wrCalls[c].seen]

(* Rows are added by the requests that insert them, and are never changed. *)
LEMMA RowsStep ==
    ASSUME CallsTyped, [WRNext]_wrVars
    PROVE  \/ wrWorkspaces' = wrWorkspaces
           \/ \E c \in Calls : /\ wrCalls[c].pc = "free"
                               /\ wrWorkspaces' = wrWorkspaces \cup {RowOf(c)}
                               /\ c \in Inserted'
<1>1. ASSUME NEW c \in Calls, WorkspaceCommit(c)
      PROVE  /\ wrCalls[c].pc = "free" /\ c \in Inserted'
             /\ wrWorkspaces' = wrWorkspaces \cup {RowOf(c)}
  BY <1>1 DEF WorkspaceCommit, RowOf, Inserted, CallsTyped, WorkspaceCalls
<1>2. QED
  BY <1>1, WRSteps DEF FormStep, WorkspaceSave, CheckWorkspaceAccount, EndsCall, WorkspaceLookUp

LEMMA OneRowEachStep ==
    ASSUME WRTypeOK, CallsTyped, OneRowEach, [WRNext]_wrVars
    PROVE  OneRowEach'
<1>1. Inserted \subseteq Inserted'
  BY InsertedForGood
<1>2. \A c \in Calls : wrCalls'[c].seen \subseteq Inserted'
  BY <1>1, SeenStep DEF OneRowEach
<1>3. /\ \A w \in wrWorkspaces : w.by \in Inserted' /\ w.seen \subseteq Inserted'
      /\ \A v, w \in wrWorkspaces : v.by = w.by => v = w
  BY <1>1 DEF OneRowEach
<1>4. ASSUME NEW c \in Calls, wrCalls[c].pc = "free", c \in Inserted',
             wrWorkspaces' = wrWorkspaces \cup {RowOf(c)}
      PROVE  OneRowEach'
  <2>1. RowOf(c).by = c /\ RowOf(c).seen \subseteq Inserted'
    BY <1>1 DEF RowOf, OneRowEach
  <2>2. \A w \in wrWorkspaces : w.by # c
    BY <1>4 DEF OneRowEach, Inserted
  <2> HIDE DEF RowOf
  <2>3. QED
    BY <1>2, <1>3, <1>4, <2>1, <2>2 DEF OneRowEach
<1>5. CASE wrWorkspaces' = wrWorkspaces
  BY <1>2, <1>3, <1>5 DEF OneRowEach
<1>6. QED
  BY <1>4, <1>5, RowsStep

(* The requests whose look-up is over have had it before this step, unless *)
(* they have seen every row there is.                                      *)
LEMMA SeenDifferStep ==
    ASSUME WRTypeOK, CallsTyped, OneRowEach, SeenDiffer, [WRNext]_wrVars
    PROVE  SeenDiffer'
<1> SUFFICES ASSUME NEW c \in Calls, wrCalls'[c].pc = "free",
                    NEW w \in wrWorkspaces', w.by \in wrCalls'[c].seen
             PROVE  w.id # wrCalls'[c].id
  BY DEF SeenDiffer
<1>1. CASE wrCalls'[c] = wrCalls[c]
  <2>1. w \in wrWorkspaces
    <3>1. ASSUME NEW d \in Calls, wrCalls[d].pc = "free", w = RowOf(d) PROVE FALSE
      BY <1>1, <3>1 DEF RowOf, OneRowEach, Inserted
    <3>2. QED
      BY <3>1, RowsStep
  <2>2. QED
    BY <1>1, <2>1 DEF SeenDiffer
<1>2. CASE WorkspaceLookUp(c)
  BY <1>2 DEF WorkspaceLookUp, Taken, CallsTyped, WorkspaceCalls
<1>3. CASE wrCalls'[c] # wrCalls[c] /\ ~ WorkspaceLookUp(c)
  <2>1. ASSUME NEW d \in Calls, WorkspaceLookUp(d) PROVE FALSE
    BY <1>3, <2>1 DEF WorkspaceLookUp, CallsTyped
  <2>2. ASSUME NEW d \in Calls, WorkspaceSave(d) PROVE FALSE
    BY <1>3, <2>2, SaveSends DEF CallsTyped
  <2>3. ASSUME NEW d \in Calls, EndsCall(d) PROVE FALSE
    BY <1>3, <2>3, OverIsBlank DEF EndsCall, CallsTyped
  <2>4. ASSUME NEW d \in Calls, CheckWorkspaceAccount(d) PROVE FALSE
    BY <1>3, <2>4 DEF CheckWorkspaceAccount, CallsTyped, WorkspaceCalls
  <2>5. ASSUME NEW d \in Calls, WorkspaceCommit(d) PROVE FALSE
    BY <1>3, <2>5 DEF WorkspaceCommit, CallsTyped, WorkspaceCalls
  <2>6. QED
    BY <1>3, <2>1, <2>2, <2>3, <2>4, <2>5, WRSteps DEF FormStep
<1>4. QED
  BY <1>1, <1>2, <1>3

LEMMA DrawnByMountStep ==
    ASSUME WRTypeOK, CallsTyped, DrawnByMount, [WRNext]_wrVars
    PROVE  DrawnByMount'
<1> DEFINE Right(call) == call.drawn => call.id = <<"form", call.mount>>
<1>1. \A c \in Calls : Right(wrCalls'[c])
  <2>1. ASSUME NEW c \in Calls, NEW d \in Calls, WorkspaceSave(d) PROVE Right(wrCalls'[c])
    BY <2>1, SaveSends DEF CallsTyped, DrawnByMount
  <2>2. ASSUME NEW c \in Calls, NEW d \in Calls, EndsCall(d) PROVE Right(wrCalls'[c])
    BY <2>2, OverIsBlank DEF EndsCall, CallsTyped, DrawnByMount
  <2>3. ASSUME NEW c \in Calls, NEW d \in Calls,
               CheckWorkspaceAccount(d) \/ WorkspaceCommit(d)
        PROVE  Right(wrCalls'[c])
    BY <2>3 DEF CheckWorkspaceAccount, WorkspaceCommit, CallsTyped, WorkspaceCalls, DrawnByMount
  <2>4. ASSUME NEW c \in Calls, NEW d \in Calls, WorkspaceLookUp(d)
        PROVE  Right(wrCalls'[c])
    BY <2>4 DEF WorkspaceLookUp, CallsTyped, WorkspaceCalls, DrawnByMount
  <2>5. QED
    BY <2>1, <2>2, <2>3, <2>4, WRSteps DEF FormStep, DrawnByMount
<1>2. \A w \in wrWorkspaces' : Right(w)
  <2>1. \A c \in Calls : Right(RowOf(c))
    BY DEF RowOf, DrawnByMount
  <2>2. QED
    BY <2>1, RowsStep DEF DrawnByMount
<1>3. QED
  BY <1>1, <1>2 DEF DrawnByMount

(* Of two rows with one id, the later was inserted by a request whose      *)
(* look-up, as SeenDiffer says, did not see the earlier.                   *)
LEMMA SecondRowStep ==
    ASSUME WRTypeOK, CallsTyped, OneRowEach, SeenDiffer, SecondRowOverlaps, [WRNext]_wrVars
    PROVE  SecondRowOverlaps'
<1>1. ASSUME NEW c \in Calls, wrCalls[c].pc = "free",
             wrWorkspaces' = wrWorkspaces \cup {RowOf(c)}
      PROVE  SecondRowOverlaps'
  <2>1. ASSUME NEW v \in wrWorkspaces, v.id = RowOf(c).id
        PROVE  v.by \notin RowOf(c).seen /\ RowOf(c).by \notin v.seen
    <3>1. v.by \notin RowOf(c).seen
      BY <1>1, <2>1 DEF RowOf, SeenDiffer
    <3>2. RowOf(c).by \notin v.seen
      BY <1>1 DEF RowOf, OneRowEach, Inserted
    <3>3. QED
      BY <3>1, <3>2
  <2> HIDE DEF RowOf
  <2>2. QED
    BY <1>1, <2>1 DEF SecondRowOverlaps
<1>2. QED
  BY <1>1, RowsStep DEF SecondRowOverlaps

(* The rows and the requests are in order initially and after every step.  *)
THEOREM WorkspaceRequestsInvariance == WRSpec => []WRInv
<1>1. WRInit => WRInv
  <2> SUFFICES ASSUME WRInit PROVE WRInv
    OBVIOUS
  <2>1. CallsTyped /\ \A c \in Calls : wrCalls[c] = NoCall
    BY BlankCall DEF WRInit, CallsTyped
  <2>2. WRTypeOK
    BY <2>1, AnyRealmIsOne, MountsAssumption
    DEF WRInit, WRTypeOK, NoForm, Typed, CallsTyped, WorkspaceCalls
  <2>3. OneRowEach /\ SeenDiffer /\ DrawnByMount /\ SecondRowOverlaps
    BY <2>1, BlankCall
    DEF WRInit, OneRowEach, SeenDiffer, DrawnByMount, SecondRowOverlaps
  <2>4. QED
    BY <2>1, <2>2, <2>3 DEF WRInv, CallsTyped
<1>2. WRInv /\ [WRNext]_wrVars => WRInv'
  BY WRCallsTyped, WRNextTypeOK, OneRowEachStep, SeenDifferStep, DrawnByMountStep,
     SecondRowStep DEF WRInv, CallsTyped
<1>3. QED
  BY <1>1, <1>2, PTL DEF WRSpec

(* Two live rows with one external workspace id, whoever asked for them,   *)
(* come from requests each of which had looked the id up before the        *)
(* other's row was there: createWorkspaceTx, for any number of requests.   *)
THEOREM SecondRowSafe == WRSpec => []SecondRowOverlaps
<1>1. WRInv => SecondRowOverlaps
  BY DEF WRInv
<1>2. QED
  BY <1>1, WorkspaceRequestsInvariance, PTL

(* So has a form with a drawn id made two workspaces only if two of its    *)
(* requests were under way together: the id of a mount is one.             *)
THEOREM RetrySafe == WRSpec => []RetryIsRecognised
<1>1. WRInv => RetryIsRecognised
  BY DEF WRInv, DrawnByMount, SecondRowOverlaps, RetryIsRecognised
<1>2. QED
  BY <1>1, WorkspaceRequestsInvariance, PTL

-----------------------------------------------------------------------------
(* Access                                                                  *)

(* Every operation has a check among its steps.                            *)
LEMMA StepsChecked ==
    ASSUME NEW o \in Operations
    PROVE  Steps[o] \in Seq(StepNames) /\ ChecksLeft(Steps[o])
<1>1. CASE o = "provisionWorkspace"
  <2>1. Steps[o] = <<"check", "check", "find", "work">>
    BY <1>1 DEF Steps
  <2>2. QED
    BY <2>1 DEF StepNames, ChecksLeft
<1>2. CASE o = "provisionAccount"
  <2>1. Steps[o] = <<"check", "check", "work">>
    BY <1>2 DEF Steps
  <2>2. QED
    BY <2>1 DEF StepNames, ChecksLeft
<1>3. CASE o \in {"getWorkspace", "getAccount"}
  <2>1. Steps[o] = <<"check", "find">>
    BY <1>3 DEF Steps
  <2>2. QED
    BY <2>1 DEF StepNames, ChecksLeft
<1>4. CASE o = "getAccountByExtId"
  <2>1. Steps[o] = <<"find", "check">>
    BY <1>4 DEF Steps
  <2>2. 2 \in 1..Len(Steps[o]) /\ Steps[o][2] = "check"
    BY <2>1
  <2>3. QED
    BY <2>1, <2>2 DEF StepNames, ChecksLeft
<1>5. CASE o = "listOwnedAccounts"
  <2>1. Steps[o] = <<"check">>
    BY <1>5 DEF Steps
  <2>2. QED
    BY <2>1 DEF StepNames, ChecksLeft
<1>6. QED
  BY <1>1, <1>2, <1>3, <1>4, <1>5 DEF Operations, Steps

(* What is left after a step that is not a check has a check where it had. *)
LEMMA ChecksStay ==
    ASSUME NEW steps \in Seq(StepNames), steps # <<>>
    PROVE  /\ Tail(steps) \in Seq(StepNames)
           /\ Head(steps) # "check" /\ ChecksLeft(steps) => ChecksLeft(Tail(steps))
<1>1. Tail(steps) \in Seq(StepNames)
  OBVIOUS
<1>2. ASSUME Head(steps) # "check", NEW i \in 1..Len(steps), steps[i] = "check"
      PROVE  ChecksLeft(Tail(steps))
  <2>1. i - 1 \in 1..Len(Tail(steps)) /\ Tail(steps)[i - 1] = "check"
    BY <1>2
  <2>2. QED
    BY <2>1 DEF ChecksLeft
<1>3. QED
  BY <1>1, <1>2 DEF ChecksLeft

(* What CheckedOnTheWay says of one request.                               *)
RequestChecked(request) ==
    /\ request.pc \in {"token", "verified", "steps"} =>
           request.passed \/ ChecksLeft(request.left)
    /\ request.passed => /\ request.pc \in {"steps", "answered"}
                         /\ Allowed(request.op, request.roles)
    /\ request.status = 200 => request.passed
    /\ request.status = 403 => ~ request.passed
    /\ request.pc # "answered" => request.status = 0

LEMMA RequestTyped ==
    ASSUME NEW request \in RequestStates
    PROVE  /\ \A status \in Statuses :
                  [request EXCEPT !.pc = "answered", !.status = status] \in RequestStates
           /\ [request EXCEPT !.pc = "verified"] \in RequestStates
           /\ \A roles \in SUBSET SystemRoles :
                  [request EXCEPT !.pc = "steps", !.roles = roles] \in RequestStates
           /\ \A left \in Seq(StepNames) :
                  /\ [request EXCEPT !.left = left] \in RequestStates
                  /\ [request EXCEPT !.left = left, !.passed = TRUE] \in RequestStates
BY DEF RequestStates

LEMMA IdleTyped ==
    /\ Idle \in RequestStates /\ RequestChecked(Idle)
    /\ \A o \in Operations, left \in Seq(StepNames) :
          [Idle EXCEPT !.pc = "token", !.op = o, !.left = left] \in RequestStates
<1>1. 0 \in Statuses
  BY DEF Statuses
<1>2. "getWorkspace" \in Operations
  BY DEF Operations, Steps
<1>3. RequestChecked(Idle)
  BY DEF Idle, RequestChecked
<1>4. Idle \in RequestStates
  BY <1>1, <1>2 DEF Idle, RequestStates
<1> QED
  BY <1>3, <1>4 DEF RequestStates

(* The steps of a request change that request alone.                       *)
Becomes(r, request) == axRequests' = [axRequests EXCEPT ![r] = request]

LEMMA AccessStep ==
    ASSUME AXInv, axRoles \subseteq SystemRoles, NEW r \in Requests,
           NEW request \in RequestStates, RequestChecked(request), Becomes(r, request)
    PROVE  AXInv'
BY DEF AXInv, Becomes, CheckedOnTheWay, RequestChecked

(* An answer ends a request; only a success has to be earned, and only a   *)
(* refusal must not come after a check that was passed.                    *)
LEMMA AnswerStep ==
    ASSUME AXInv, axRoles \subseteq SystemRoles, NEW r \in Requests,
           NEW status \in Statuses \ {0}, Answer(r, status),
           RequestChecked(axRequests[r]),
           status = 200 => axRequests[r].passed,
           status = 403 => ~ axRequests[r].passed
    PROVE  AXInv'
<1> DEFINE request == [axRequests[r] EXCEPT !.pc = "answered", !.status = status]
<1>1. request \in RequestStates
  BY RequestTyped DEF AXInv
<1>2. RequestChecked(request)
  <2>1. axRequests[r] \in RequestStates
    BY DEF AXInv
  <2>2. /\ request.pc = "answered" /\ request.status = status
        /\ request.passed = axRequests[r].passed
        /\ request.op = axRequests[r].op /\ request.roles = axRequests[r].roles
    BY <2>1 DEF RequestStates
  <2> HIDE DEF request
  <2>3. QED
    BY <2>2 DEF RequestChecked
<1>3. Becomes(r, request)
  BY DEF Answer, Becomes, AXInv
<1>4. QED
  BY <1>1, <1>2, <1>3, AccessStep

LEMMA AccessNext ==
    ASSUME AXInv, axRoles \subseteq SystemRoles, [AXNext]_axVars
    PROVE  AXInv' /\ axRoles' \subseteq SystemRoles
<1>1. axRoles' \subseteq SystemRoles
  BY DEF AXNext, axVars, GrantRole, RevokeRole, Arrive, VerifyToken, ResolvePrincipal,
     Unauthenticated, CheckPermission, Find, Work, Fails, Succeeds, Answer
<1>2. \A r \in Requests :
          axRequests[r] \in RequestStates /\ RequestChecked(axRequests[r])
  BY DEF AXInv, CheckedOnTheWay, RequestChecked
<1>3. ASSUME NEW r \in Requests, NEW status \in {401, 404, 500}, Answer(r, status)
      PROVE  AXInv'
  <2>1. status \in Statuses \ {0} /\ status # 200 /\ status # 403
    BY DEF Statuses
  <2>2. QED
    BY <1>2, <1>3, <2>1, AnswerStep
<1>4. ASSUME NEW r \in Requests, NEW o \in Operations, Arrive(r, o) PROVE AXInv'
  <2> DEFINE request == [Idle EXCEPT !.pc = "token", !.op = o, !.left = Steps[o]]
  <2>1. request \in RequestStates
    BY StepsChecked, IdleTyped
  <2>2. RequestChecked(request)
    BY StepsChecked DEF Idle, RequestChecked
  <2>3. Becomes(r, request)
    BY <1>4 DEF Arrive, Becomes
  <2>4. QED
    BY <2>1, <2>2, <2>3, AccessStep
<1>5. ASSUME NEW r \in Requests, VerifyToken(r) PROVE AXInv'
  <2> DEFINE request == [axRequests[r] EXCEPT !.pc = "verified"]
  <2>1. request \in RequestStates
    BY <1>2, RequestTyped
  <2>2. RequestChecked(request)
    BY <1>2, <1>5 DEF VerifyToken, RequestStates, RequestChecked
  <2>3. Becomes(r, request)
    BY <1>5 DEF VerifyToken, Becomes
  <2>4. QED
    BY <2>1, <2>2, <2>3, AccessStep
<1>6. ASSUME NEW r \in Requests, ResolvePrincipal(r) PROVE AXInv'
  <2> DEFINE request == [axRequests[r] EXCEPT !.pc = "steps", !.roles = axRoles]
  <2>1. request \in RequestStates
    BY <1>2, RequestTyped
  <2>2. RequestChecked(request)
    BY <1>2, <1>6 DEF ResolvePrincipal, RequestStates, RequestChecked
  <2>3. Becomes(r, request)
    BY <1>6 DEF ResolvePrincipal, Becomes
  <2>4. QED
    BY <2>1, <2>2, <2>3, AccessStep
<1>7. ASSUME NEW r \in Requests, CheckPermission(r) PROVE AXInv'
  <2>1. CASE Allowed(axRequests[r].op, axRequests[r].roles)
    <3> DEFINE request == [axRequests[r] EXCEPT !.left = Tail(@), !.passed = TRUE]
    <3>1. axRequests[r].left \in Seq(StepNames) /\ axRequests[r].left # <<>>
      BY <1>2, <1>7 DEF CheckPermission, NextStep, RequestStates
    <3>2. request \in RequestStates
      BY <1>2, <3>1, RequestTyped, ChecksStay
    <3>3. RequestChecked(request)
      BY <1>2, <1>7, <2>1 DEF CheckPermission, NextStep, RequestStates, RequestChecked
    <3>4. Becomes(r, request)
      BY <1>7, <2>1 DEF CheckPermission, RolesChecked, Becomes
    <3>5. QED
      BY <3>2, <3>3, <3>4, AccessStep
  <2>2. CASE ~ Allowed(axRequests[r].op, axRequests[r].roles)
    <3>1. 403 \in Statuses \ {0}
      BY DEF Statuses
    <3>2. Answer(r, 403)
      BY <1>7, <2>2 DEF CheckPermission, RolesChecked
    <3>3. ~ axRequests[r].passed
      BY <1>2, <2>2 DEF RequestChecked
    <3>4. QED
      BY <1>2, <3>1, <3>2, <3>3, AnswerStep
  <2>3. QED
    BY <2>1, <2>2
<1>8. ASSUME NEW r \in Requests, NextStep(r, "find") \/ NextStep(r, "work"),
             axRequests' = [axRequests EXCEPT ![r].left = Tail(@)]
      PROVE  AXInv'
  <2> DEFINE request == [axRequests[r] EXCEPT !.left = Tail(@)]
  <2>1. axRequests[r].left \in Seq(StepNames) /\ axRequests[r].left # <<>>
    BY <1>2, <1>8 DEF NextStep, RequestStates
  <2>2. request \in RequestStates
    BY <1>2, <2>1, RequestTyped, ChecksStay
  <2>3. RequestChecked(request)
    BY <1>2, <1>8, <2>1, ChecksStay DEF NextStep, RequestStates, RequestChecked
  <2>4. Becomes(r, request)
    BY <1>8 DEF Becomes
  <2>5. QED
    BY <2>2, <2>3, <2>4, AccessStep
<1>9. ASSUME NEW r \in Requests, Succeeds(r) PROVE AXInv'
  <2>1. axRequests[r].passed
    BY <1>2, <1>9 DEF Succeeds, RequestChecked, ChecksLeft
  <2>2. 200 \in Statuses \ {0} /\ Answer(r, 200)
    BY <1>9 DEF Succeeds, Statuses
  <2>3. QED
    BY <1>2, <2>1, <2>2, AnswerStep
<1>10. ASSUME UNCHANGED axRequests PROVE AXInv'
  BY <1>10 DEF AXInv, CheckedOnTheWay
<1>11. QED
  BY <1>1, <1>3, <1>4, <1>5, <1>6, <1>7, <1>8, <1>9, <1>10
  DEF AXNext, axVars, GrantRole, RevokeRole, Unauthenticated, Find, Work, Fails

THEOREM AccessInvariance == AXSpec => []AXInv
<1> DEFINE Inv == AXInv /\ axRoles \subseteq SystemRoles
<1>1. AXInit => Inv
  <2> SUFFICES ASSUME AXInit PROVE Inv
    OBVIOUS
  <2>1. \A r \in Requests : axRequests[r] = Idle
    BY DEF AXInit
  <2>2. CheckedOnTheWay
    <3>1. \A r \in Requests : RequestChecked(axRequests[r])
      BY <2>1, IdleTyped
    <3>2. QED
      BY <3>1 DEF CheckedOnTheWay, RequestChecked
  <2>3. QED
    BY <2>2, IdleTyped DEF AXInit, AXInv
<1>2. Inv /\ [AXNext]_axVars => Inv'
  BY AccessNext
<1>3. QED
  BY <1>1, <1>2, PTL DEF AXSpec

(* A request that has passed a check is not forbidden by a later one, and  *)
(* one that succeeds was allowed by the roles of the moment it was         *)
(* authenticated, however many requests run and roles are given and taken  *)
(* beside it: authenticationMiddleware, the services and errorHandler.     *)
THEOREM ChecksSafe == AXSpec => []ChecksAgree
<1>1. AXInv => ChecksAgree
  BY DEF AXInv, CheckedOnTheWay, ChecksAgree
<1>2. QED
  BY <1>1, AccessInvariance, PTL

(* A suffix, place by place.                                               *)
LEMMA SuffixMeans ==
    ASSUME NEW S, NEW s \in Seq(S), NEW t \in Seq(S)
    PROVE  IsSuffix(s, t) <=>
             /\ Len(s) <= Len(t)
             /\ \A i \in 1..Len(s) : s[i] = t[Len(t) - Len(s) + i]
<1>1. /\ Reverse(s) \in Seq(S) /\ Len(Reverse(s)) = Len(s)
      /\ \A i \in 1..Len(s) : Reverse(s)[i] = s[Len(s) - i + 1]
  BY DEF Reverse
<1>2. /\ Reverse(t) \in Seq(S) /\ Len(Reverse(t)) = Len(t)
      /\ \A i \in 1..Len(t) : Reverse(t)[i] = t[Len(t) - i + 1]
  BY DEF Reverse
<1>3. IsSuffix(s, t) <=>
        /\ Len(s) <= Len(t)
        /\ SubSeq(Reverse(s), 1, Len(s)) = SubSeq(Reverse(t), 1, Len(s))
  <2>1. IsSuffix(s, t) <=>
          /\ Len(Reverse(s)) <= Len(Reverse(t))
          /\ SubSeq(Reverse(s), 1, Len(Reverse(s))) = SubSeq(Reverse(t), 1, Len(Reverse(s)))
    BY DEF IsSuffix, IsPrefix
  <2>2. Len(Reverse(s)) = Len(s) /\ Len(Reverse(t)) = Len(t)
    BY <1>1, <1>2
  <2>3. QED
    BY <2>1, <2>2
<1>4. ASSUME Len(s) <= Len(t)
      PROVE  SubSeq(Reverse(s), 1, Len(s)) = SubSeq(Reverse(t), 1, Len(s)) <=>
             \A i \in 1..Len(s) : Reverse(s)[i] = Reverse(t)[i]
  <2> DEFINE u == SubSeq(Reverse(s), 1, Len(s))
             v == SubSeq(Reverse(t), 1, Len(s))
  <2>1. u \in Seq(S) /\ Len(u) = Len(s) /\ \A i \in 1..Len(s) : u[i] = Reverse(s)[i]
    BY <1>1
  <2>2. v \in Seq(S) /\ Len(v) = Len(s) /\ \A i \in 1..Len(s) : v[i] = Reverse(t)[i]
    BY <1>2, <1>4
  <2> HIDE DEF u, v
  <2>3. u = v <=> \A i \in 1..Len(s) : u[i] = v[i]
    BY <2>1, <2>2, SeqEqual
  <2>4. u = v <=> \A i \in 1..Len(s) : Reverse(s)[i] = Reverse(t)[i]
    BY <2>1, <2>2, <2>3
  <2>5. QED
    BY <2>4 DEF u, v
<1>5. ASSUME Len(s) <= Len(t)
      PROVE  (\A i \in 1..Len(s) : Reverse(s)[i] = Reverse(t)[i]) <=>
             (\A i \in 1..Len(s) : s[i] = t[Len(t) - Len(s) + i])
  <2>1. \A i \in 1..Len(s) : i \in 1..Len(t) /\ Len(s) - i + 1 \in 1..Len(s)
    BY <1>5
  <2>2. ASSUME \A i \in 1..Len(s) : Reverse(s)[i] = Reverse(t)[i], NEW i \in 1..Len(s)
        PROVE  s[i] = t[Len(t) - Len(s) + i]
    <3> DEFINE j == Len(s) - i + 1
    <3>1. j \in 1..Len(s) /\ j \in 1..Len(t) /\ Len(s) - j + 1 = i
          /\ Len(t) - j + 1 = Len(t) - Len(s) + i
      BY <1>5
    <3> HIDE DEF j
    <3>2. QED
      BY <1>1, <1>2, <2>2, <3>1
  <2>3. ASSUME \A i \in 1..Len(s) : s[i] = t[Len(t) - Len(s) + i], NEW i \in 1..Len(s)
        PROVE  Reverse(s)[i] = Reverse(t)[i]
    <3> DEFINE j == Len(s) - i + 1
    <3>1. j \in 1..Len(s) /\ i \in 1..Len(t)
          /\ Len(t) - Len(s) + j = Len(t) - i + 1
      BY <1>5
    <3>2. s[j] = t[Len(t) - Len(s) + j]
      BY <2>3, <3>1
    <3>3. QED
      BY <1>1, <1>2, <3>1, <3>2
  <2>4. QED
    BY <2>2, <2>3
<1>6. QED
  BY <1>3, <1>4, <1>5

LEMMA SuffixTail ==
    ASSUME NEW S, NEW s \in Seq(S), NEW t \in Seq(S), s # <<>>, IsSuffix(s, t)
    PROVE  IsSuffix(Tail(s), t)
<1>1. /\ Len(s) <= Len(t) /\ \A i \in 1..Len(s) : s[i] = t[Len(t) - Len(s) + i]
  BY SuffixMeans
<1>2. /\ Tail(s) \in Seq(S) /\ Len(Tail(s)) = Len(s) - 1 /\ Len(s) >= 1
      /\ \A i \in 1..Len(Tail(s)) : Tail(s)[i] = s[i + 1]
  OBVIOUS
<1>3. ASSUME NEW i \in 1..Len(Tail(s))
      PROVE  Tail(s)[i] = t[Len(t) - Len(Tail(s)) + i]
  <2>1. i + 1 \in 1..Len(s) /\ Len(t) - Len(s) + (i + 1) = Len(t) - Len(Tail(s)) + i
    BY <1>2
  <2>2. QED
    BY <1>1, <1>2, <2>1
<1>4. Len(Tail(s)) <= Len(t)
  BY <1>1, <1>2
<1>5. QED
  BY <1>2, <1>3, <1>4, SuffixMeans

LEMMA WholeAndEmpty ==
    ASSUME NEW S, NEW t \in Seq(S)
    PROVE  IsSuffix(t, t) /\ IsSuffix(<<>>, t)
<1>1. IsSuffix(t, t)
  BY SuffixMeans
<1>2. ASSUME NEW s \in Seq(S), Len(s) = 0
      PROVE  IsSuffix(s, t)
  <2>1. Len(s) <= Len(t) /\ \A i \in 1..Len(s) : s[i] = t[Len(t) - Len(s) + i]
    BY <1>2
  <2>2. QED
    BY <2>1, SuffixMeans
<1>3. IsSuffix(<<>>, t)
  <2>1. <<>> \in Seq(S) /\ Len(<<>>) = 0
    OBVIOUS
  <2>2. QED
    BY <1>2, <2>1
<1>4. QED
  BY <1>1, <1>3

(* Every step of an operation is done in its turn, and none of them twice. *)
InTurn == \A r \in Requests : IsSuffix(axRequests[r].left, Steps[axRequests[r].op])

LEMMA InTurnStep ==
    ASSUME AXInv, InTurn, [AXNext]_axVars
    PROVE  InTurn'
<1>1. \A r \in Requests : axRequests[r] \in RequestStates
  BY DEF AXInv
<1>2. ASSUME NEW r \in Requests, NEW request \in RequestStates,
             Becomes(r, request), IsSuffix(request.left, Steps[request.op])
      PROVE  InTurn'
  <2>1. axRequests \in [Requests -> RequestStates]
    BY DEF AXInv
  <2>2. QED
    BY <1>2, <2>1 DEF InTurn, Becomes
<1>3. ASSUME NEW r \in Requests, NEW request,
             Becomes(r, request), request.left = axRequests[r].left,
             request.op = axRequests[r].op
      PROVE  InTurn'
  <2>1. axRequests \in [Requests -> RequestStates]
    BY DEF AXInv
  <2>2. IsSuffix(request.left, Steps[request.op])
    BY <1>3 DEF InTurn
  <2>3. QED
    BY <1>3, <2>1, <2>2 DEF InTurn, Becomes
<1>4. ASSUME NEW r \in Requests, NEW o \in Operations, Arrive(r, o) PROVE InTurn'
  <2> DEFINE request == [Idle EXCEPT !.pc = "token", !.op = o, !.left = Steps[o]]
  <2>1. request.left = Steps[o] /\ request.op = o /\ request \in RequestStates
    BY StepsChecked, IdleTyped DEF Idle
  <2>2. Becomes(r, request)
    BY <1>4 DEF Arrive, Becomes
  <2>3. IsSuffix(Steps[o], Steps[o])
    BY StepsChecked, WholeAndEmpty
  <2> HIDE DEF request
  <2>4. QED
    BY <1>2, <2>1, <2>2, <2>3
<1>5. ASSUME NEW r \in Requests,
             VerifyToken(r) \/ ResolvePrincipal(r)
                \/ \E status \in Statuses : Answer(r, status)
      PROVE  InTurn'
  <2> DEFINE old == axRequests[r]
  <2>1. \E request : /\ Becomes(r, request)
                     /\ request.left = old.left /\ request.op = old.op
    <3>1. CASE VerifyToken(r)
      <4>1. Becomes(r, [old EXCEPT !.pc = "verified"])
        BY <3>1 DEF VerifyToken, Becomes
      <4>2. [old EXCEPT !.pc = "verified"].left = old.left
            /\ [old EXCEPT !.pc = "verified"].op = old.op
        BY <1>1 DEF RequestStates
      <4>3. QED
        BY <4>1, <4>2
    <3>2. CASE ResolvePrincipal(r)
      <4>1. Becomes(r, [old EXCEPT !.pc = "steps", !.roles = axRoles])
        BY <3>2 DEF ResolvePrincipal, Becomes
      <4>2. [old EXCEPT !.pc = "steps", !.roles = axRoles].left = old.left
            /\ [old EXCEPT !.pc = "steps", !.roles = axRoles].op = old.op
        BY <1>1 DEF RequestStates
      <4>3. QED
        BY <4>1, <4>2
    <3>3. ASSUME NEW status \in Statuses, Answer(r, status)
          PROVE  \E request : /\ Becomes(r, request)
                              /\ request.left = old.left /\ request.op = old.op
      <4>1. Becomes(r, [old EXCEPT !.pc = "answered", !.status = status])
        BY <3>3 DEF Answer, Becomes
      <4>2. [old EXCEPT !.pc = "answered", !.status = status].left = old.left
            /\ [old EXCEPT !.pc = "answered", !.status = status].op = old.op
        BY <1>1 DEF RequestStates
      <4>3. QED
        BY <4>1, <4>2
    <3>4. QED
      BY <1>5, <3>1, <3>2, <3>3
  <2>2. QED
    BY <1>3, <2>1
<1>6. ASSUME NEW r \in Requests, NEW request,
             Becomes(r, request), axRequests[r].left # <<>>,
             request \in RequestStates,
             request.left = Tail(axRequests[r].left), request.op = axRequests[r].op
      PROVE  InTurn'
  <2>1. /\ axRequests[r].left \in Seq(StepNames) /\ axRequests[r].op \in Operations
        /\ Steps[axRequests[r].op] \in Seq(StepNames)
    BY <1>1, StepsChecked DEF RequestStates
  <2>2. IsSuffix(request.left, Steps[request.op])
    BY <1>6, <2>1, SuffixTail DEF InTurn
  <2>3. QED
    BY <1>2, <1>6, <2>2
<1>7. ASSUME NEW r \in Requests, axRequests[r].left # <<>>,
             \/ axRequests' = [axRequests EXCEPT ![r].left = Tail(@)]
             \/ axRequests' = [axRequests EXCEPT ![r].left = Tail(@), ![r].passed = TRUE]
      PROVE  InTurn'
  <2> DEFINE old == axRequests[r]
             one == [old EXCEPT !.left = Tail(@)]
             other == [old EXCEPT !.left = Tail(@), !.passed = TRUE]
  <2>1. old \in RequestStates /\ old.left \in Seq(StepNames) /\ Tail(old.left) \in Seq(StepNames)
    BY <1>1, <1>7, ChecksStay DEF RequestStates
  <2>2. one \in RequestStates /\ other \in RequestStates
    BY <2>1, RequestTyped
  <2>3. /\ one.left = Tail(old.left) /\ one.op = old.op
        /\ other.left = Tail(old.left) /\ other.op = old.op
    BY <2>1 DEF RequestStates
  <2>4. Becomes(r, one) \/ Becomes(r, other)
    BY <1>7 DEF Becomes
  <2> HIDE DEF one, other
  <2>5. QED
    BY <1>6, <1>7, <2>2, <2>3, <2>4
<1>8. ASSUME UNCHANGED axRequests PROVE InTurn'
  BY <1>8 DEF InTurn
<1>9. {200, 401, 403, 404, 500} \subseteq Statuses
  BY DEF Statuses
<1>10. ASSUME NEW r \in Requests,
              CheckPermission(r) \/ Find(r) \/ Work(r)
       PROVE  InTurn'
  <2>1. axRequests[r].left # <<>>
    BY <1>10 DEF CheckPermission, Find, Work, NextStep
  <2>2. \/ axRequests' = [axRequests EXCEPT ![r].left = Tail(@)]
        \/ axRequests' = [axRequests EXCEPT ![r].left = Tail(@), ![r].passed = TRUE]
        \/ Answer(r, 403) \/ Answer(r, 404)
    BY <1>10 DEF CheckPermission, Find, Work
  <2>3. 403 \in Statuses /\ 404 \in Statuses
    BY <1>9
  <2>4. QED
    BY <1>5, <1>7, <2>1, <2>2, <2>3
<1>11. QED
  BY <1>4, <1>5, <1>8, <1>9, <1>10
  DEF AXNext, axVars, GrantRole, RevokeRole, Unauthenticated, Fails, Succeeds

(* The roles a principal has are those the two grants know, a principal    *)
(* without a record has none, a request has done the steps of its          *)
(* operation in the code's order, and it has a status exactly when it is   *)
(* answered: authenticationMiddleware, createPrincipalTx, errorHandler.    *)
THEOREM AccessTypeCorrect == AXSpec => []AXTypeOK
<1> DEFINE Answered == \A r \in Requests :
                          axRequests[r].pc = "answered" => axRequests[r].status # 0
           Inv == /\ axRoles \subseteq SystemRoles
                  /\ axRoles # {} => axKnown
                  /\ InTurn /\ Answered
<1>1. AXInit => Inv
  <2>1. \A o \in Operations : IsSuffix(<<>>, Steps[o])
    BY StepsChecked, WholeAndEmpty
  <2>2. "getWorkspace" \in Operations
    BY DEF Operations, Steps
  <2>3. QED
    BY <2>1, <2>2 DEF AXInit, Idle, InTurn
<1>2. AXInv /\ AXInv' /\ Inv /\ [AXNext]_axVars => Inv'
  <2> SUFFICES ASSUME AXInv, AXInv', Inv, [AXNext]_axVars PROVE Inv'
    OBVIOUS
  <2>1. axRoles' \subseteq SystemRoles
    BY AccessNext
  <2>2. (axRoles # {} => axKnown)'
    BY DEF AXNext, axVars, GrantRole, RevokeRole, Arrive, VerifyToken, ResolvePrincipal,
       Unauthenticated, CheckPermission, Find, Work, Fails, Succeeds, Answer
  <2>3. InTurn'
    BY InTurnStep
  <2>4. Answered'
    <3>1. axRequests \in [Requests -> RequestStates]
      BY DEF AXInv
    <3>2. \A r \in Requests : axRequests[r].status # 0 \/ axRequests[r].pc # "answered"
      OBVIOUS
    <3>3. ASSUME NEW r \in Requests, NEW status \in {200, 401, 403, 404, 500},
                 Answer(r, status)
          PROVE  Answered'
      BY <3>1, <3>3 DEF Answer, RequestStates
    <3>4. ASSUME NEW r \in Requests,
                 \/ \E o \in Operations : Arrive(r, o)
                 \/ VerifyToken(r) \/ ResolvePrincipal(r)
          PROVE  Answered'
      BY <3>1, <3>4 DEF Arrive, VerifyToken, ResolvePrincipal, RequestStates, Idle
    <3>5. ASSUME NEW r \in Requests,
                 \/ axRequests' = [axRequests EXCEPT ![r].left = Tail(@)]
                 \/ axRequests' = [axRequests EXCEPT ![r].left = Tail(@), ![r].passed = TRUE]
          PROVE  Answered'
      BY <3>1, <3>5 DEF RequestStates
    <3>6. ASSUME NEW r \in Requests, CheckPermission(r) \/ Find(r) \/ Work(r)
          PROVE  Answered'
      <4>1. \/ axRequests' = [axRequests EXCEPT ![r].left = Tail(@)]
            \/ axRequests' = [axRequests EXCEPT ![r].left = Tail(@), ![r].passed = TRUE]
            \/ Answer(r, 403) \/ Answer(r, 404)
        BY <3>6 DEF CheckPermission, Find, Work
      <4>2. 403 \in {200, 401, 403, 404, 500} /\ 404 \in {200, 401, 403, 404, 500}
        OBVIOUS
      <4> HIDE DEF Answered
      <4>3. QED
        BY <3>3, <3>5, <4>1, <4>2
    <3>7. ASSUME UNCHANGED axRequests PROVE Answered'
      BY <3>7
    <3> HIDE DEF Answered
    <3>8. QED
      BY <3>3, <3>4, <3>6, <3>7
      DEF AXNext, axVars, GrantRole, RevokeRole, Unauthenticated, Fails, Succeeds
  <2>5. QED
    BY <2>1, <2>2, <2>3, <2>4
<1>3. AXInv /\ Inv => AXTypeOK
  BY DEF AXInv, CheckedOnTheWay, RequestStates, AXTypeOK, InTurn
<1>4. QED
  BY <1>1, <1>2, <1>3, AccessInvariance, PTL DEF AXSpec

-----------------------------------------------------------------------------
(* KeycloakRealm                                                           *)

Items == Objects \cup Links

(* What a stage is, field by field.                                        *)
StageIs(stage, needs, orElse, looksFor, creates, removes, tolerant) ==
    /\ stage.needs = needs /\ stage.orElse = orElse /\ stage.looksFor = looksFor
    /\ stage.creates = creates /\ stage.removes = removes /\ stage.tolerant = tolerant

LEMMA PlainStages ==
    /\ StageIs(Plain, {}, "throw", {}, {}, {}, FALSE)
    /\ \A n, e : StageIs(Needing(n, e), n, e, {}, {}, {}, FALSE)
    /\ \A x : StageIs(Ensuring(Plain, x), {}, "throw", {x}, {x}, {}, FALSE)
    /\ \A n, e, x : StageIs(Ensuring(Needing(n, e), x), n, e, {x}, {x}, {}, FALSE)
    /\ \A x : StageIs([Plain EXCEPT !.creates = x], {}, "throw", {}, x, {}, FALSE)
    /\ \A x : StageIs([Plain EXCEPT !.removes = x], {}, "throw", {}, {}, x, FALSE)
    /\ \A x : StageIs([Plain EXCEPT !.removes = x, !.tolerant = TRUE], {}, "throw", {}, {}, x, TRUE)
    /\ \A x, y : StageIs([Plain EXCEPT !.looksFor = x, !.creates = y], {}, "throw", x, y, {}, FALSE)
BY DEF Plain, Needing, Ensuring, StageIs

(* What the proofs need of a stage.                                        *)
Sound(method, i) ==
    LET stage == Stages(method)[i]
    IN  /\ stage.needs \subseteq Items /\ stage.creates \subseteq Items
        /\ stage.orElse \in {"throw", "return", "skip"}
        /\ "globalIdp" \notin stage.creates
        /\ stage.creates = {} \/ stage.removes = {}
        /\ \A x, y \in stage.removes : x = y
        /\ stage.tolerant => stage.creates = {}
        /\ \/ "globalIdp" \in stage.looksFor
           \/ stage.looksFor = stage.creates
           \/ stage.looksFor = {} /\ stage.creates \subseteq Links
        /\ method # "ensureIdentityProvider" =>
              /\ "globalIdp" \notin stage.looksFor
              /\ \A x, y \in stage.creates : x = y
              /\ \A x \in stage.creates : Ends(x) \subseteq stage.needs \cup ReliesOn(method, i)

(* And of a stage with another after it: what that relies on.              *)
Followed(method, i) ==
    LET stage == Stages(method)[i]
        next  == Stages(method)[i + 1]
    IN  /\ stage.orElse = "return" => i + 1 = Len(Stages(method)) /\ next.creates = {}
        /\ ReliesOn(method, i + 1) \subseteq
              ReliesOn(method, i) \cup stage.creates
                  \cup (IF stage.orElse = "throw" THEN stage.needs ELSE {})
        /\ stage.removes = {} \/ ReliesOn(method, i + 1) = {}
        /\ stage.orElse = "skip" => ReliesOn(method, i + 1) = ReliesOn(method, i)

LEMMA EndsOf ==
    /\ Ends("clientRole") = {"client"}
    /\ Ends("desiredComposite") = {"desiredRole", "clientRole"}
    /\ Ends("otherComposite") = {"otherRole", "clientRole"}
    /\ Ends("realmAdmin") = {"user"} /\ Ends("scopeRole") = {"scope", "clientRole"}
    /\ Ends("clientScope") = {"scope", "client"} /\ Ends("usernameMapper") = {"realmIdp"}
    /\ \A x \in {"desiredRole", "otherRole", "client", "user", "key", "scope", "realmIdp",
                 "globalIdp", "formDisabled"} : Ends(x) = {}
BY DEF Ends

LEMMA ItemsOf ==
    /\ {"desiredRole", "otherRole", "client", "clientRole", "user", "key", "scope", "realmIdp",
        "globalIdp", "usernameMapper"} \subseteq Items
    /\ Links \subseteq Items
    /\ "desiredComposite" \in Links /\ "otherComposite" \in Links /\ "realmAdmin" \in Links
    /\ "scopeRole" \in Links /\ "clientScope" \in Links /\ "formDisabled" \in Links
    /\ "globalIdp" \notin Links
BY DEF Items, Objects, RealmRoles, Links

LEMMA Relied ==
    /\ \A i : ReliesOn("assignRealmAdminRole", i) = {"user"}
    /\ ReliesOn("attachToRealmRoles", 1) = {}
    /\ ReliesOn("attachToRealmRoles", 2) = {"client", "clientRole"}
    /\ ReliesOn("attachToRealmRoles", 3) = {"client", "clientRole"}
    /\ \A m \in {"ensureClientScopeHasRole", "ensureClientHasScope"} :
          ReliesOn(m, 1) = {} /\ ReliesOn(m, 2) = {"scope"}
    /\ \A m \in Methods \ {"assignRealmAdminRole", "attachToRealmRoles",
                            "ensureClientScopeHasRole", "ensureClientHasScope"} :
          \A i : ReliesOn(m, i) = {}
BY DEF ReliesOn, Methods

LEMMA OneStage ==
    ASSUME NEW m \in {"ensureUser", "deleteUser", "mapClientRole",
                      "ensureIdentityProvider", "assignRealmAdminRole", "ensureUsernameMapper",
                      "disablePasswordLogin", "getClientSecret"}
    PROVE  Len(Stages(m)) = 1 /\ Sound(m, 1)
<1>1. CASE m = "ensureUser"
  <2>1. Stages(m) = <<Ensuring(Plain, "user")>>
    BY <1>1 DEF Stages, EnsureUserCalls
  <2>2. Len(Stages(m)) = 1 /\ Stages(m)[1] = Ensuring(Plain, "user")
    BY <2>1
  <2>3. StageIs(Stages(m)[1], {}, "throw", {"user"}, {"user"}, {}, FALSE)
    BY <2>2 DEF StageIs, Plain, Needing, Ensuring
  <2>4. /\ "user" \in Items /\ "user" # "globalIdp"
        /\ Ends("user") \subseteq {} \cup ReliesOn(m, 1)
    BY <1>1, ItemsOf, EndsOf, Relied DEF Methods
  <2>5. Sound(m, 1)
    BY <1>1, <2>3, <2>4 DEF StageIs, Sound
  <2>6. QED
    BY <2>2, <2>5
<1>2. CASE m = "deleteUser"
  <2>1. Stages(m) = <<[Plain EXCEPT !.removes = {"user"}]>>
    BY <1>2 DEF Stages, DeleteUserCalls
  <2>2. Len(Stages(m)) = 1 /\ Stages(m)[1] = [Plain EXCEPT !.removes = {"user"}]
    BY <2>1
  <2>3. StageIs(Stages(m)[1], {}, "throw", {}, {}, {"user"}, FALSE)
    BY <2>2 DEF StageIs, Plain, Needing, Ensuring
  <2>4. Sound(m, 1)
    BY <1>2, <2>3 DEF StageIs, Sound
  <2>5. QED
    BY <2>2, <2>4
<1>3. CASE m = "mapClientRole"
  <2>1. Stages(m) = <<Ensuring(Needing({"desiredRole", "client", "clientRole"}, "throw"), "desiredComposite")>>
    BY <1>3 DEF Stages, MapClientRoleCalls
  <2>2. Len(Stages(m)) = 1 /\ Stages(m)[1] = Ensuring(Needing({"desiredRole", "client", "clientRole"}, "throw"), "desiredComposite")
    BY <2>1
  <2>3. StageIs(Stages(m)[1], {"desiredRole", "client", "clientRole"}, "throw",
                                  {"desiredComposite"}, {"desiredComposite"}, {}, FALSE)
    BY <2>2 DEF StageIs, Plain, Needing, Ensuring
  <2>4. /\ {"desiredRole", "client", "clientRole"} \subseteq Items
        /\ "desiredComposite" \in Items /\ "desiredComposite" # "globalIdp"
        /\ Ends("desiredComposite") \subseteq {"desiredRole", "client", "clientRole"} \cup ReliesOn(m, 1)
    BY <1>3, ItemsOf, EndsOf, Relied DEF Methods
  <2>5. Sound(m, 1)
    BY <1>3, <2>3, <2>4 DEF StageIs, Sound
  <2>6. QED
    BY <2>2, <2>5
<1>4. CASE m = "ensureIdentityProvider"
  <2>1. Stages(m) = <<[Plain EXCEPT !.looksFor = {"globalIdp"}, !.creates = {"realmIdp"}]>>
    BY <1>4 DEF Stages, EnsureIdentityProviderCalls
  <2>2. Len(Stages(m)) = 1 /\ Stages(m)[1] = [Plain EXCEPT !.looksFor = {"globalIdp"}, !.creates = {"realmIdp"}]
    BY <2>1
  <2>3. StageIs(Stages(m)[1], {}, "throw", {"globalIdp"}, {"realmIdp"}, {}, FALSE)
    BY <2>2 DEF StageIs, Plain, Needing, Ensuring
  <2>4. "realmIdp" \in Items /\ "realmIdp" # "globalIdp"
    BY <1>4, ItemsOf, EndsOf, Relied DEF Methods
  <2>5. Sound(m, 1)
    BY <1>4, <2>3, <2>4 DEF StageIs, Sound
  <2>6. QED
    BY <2>2, <2>5
<1>5. CASE m = "assignRealmAdminRole"
  <2>1. Stages(m) = <<[Plain EXCEPT !.creates = {"realmAdmin"}]>>
    BY <1>5 DEF Stages, AssignRealmAdminRoleCalls
  <2>2. Len(Stages(m)) = 1 /\ Stages(m)[1] = [Plain EXCEPT !.creates = {"realmAdmin"}]
    BY <2>1
  <2>3. StageIs(Stages(m)[1], {}, "throw", {}, {"realmAdmin"}, {}, FALSE)
    BY <2>2 DEF StageIs, Plain, Needing, Ensuring
  <2>4. /\ "realmAdmin" \in Items /\ "realmAdmin" # "globalIdp"
        /\ "realmAdmin" \in Links
        /\ Ends("realmAdmin") \subseteq {} \cup ReliesOn(m, 1)
    BY <1>5, ItemsOf, EndsOf, Relied DEF Methods
  <2>5. Sound(m, 1)
    BY <1>5, <2>3, <2>4 DEF StageIs, Sound
  <2>6. QED
    BY <2>2, <2>5
<1>6. CASE m = "ensureUsernameMapper"
  <2>1. Stages(m) = <<Ensuring(Needing({"realmIdp"}, "return"), "usernameMapper")>>
    BY <1>6 DEF Stages, EnsureUsernameMapperCalls
  <2>2. Len(Stages(m)) = 1 /\ Stages(m)[1] = Ensuring(Needing({"realmIdp"}, "return"), "usernameMapper")
    BY <2>1
  <2>3. StageIs(Stages(m)[1], {"realmIdp"}, "return", {"usernameMapper"}, {"usernameMapper"}, {}, FALSE)
    BY <2>2 DEF StageIs, Plain, Needing, Ensuring
  <2>4. /\ {"realmIdp"} \subseteq Items
        /\ "usernameMapper" \in Items /\ "usernameMapper" # "globalIdp"
        /\ Ends("usernameMapper") \subseteq {"realmIdp"} \cup ReliesOn(m, 1)
    BY <1>6, ItemsOf, EndsOf, Relied DEF Methods
  <2>5. Sound(m, 1)
    BY <1>6, <2>3, <2>4 DEF StageIs, Sound
  <2>6. QED
    BY <2>2, <2>5
<1>7. CASE m = "disablePasswordLogin"
  <2>1. Stages(m) = <<[Plain EXCEPT !.creates = {"formDisabled"}]>>
    BY <1>7 DEF Stages, DisablePasswordLoginCalls
  <2>2. Len(Stages(m)) = 1 /\ Stages(m)[1] = [Plain EXCEPT !.creates = {"formDisabled"}]
    BY <2>1
  <2>3. StageIs(Stages(m)[1], {}, "throw", {}, {"formDisabled"}, {}, FALSE)
    BY <2>2 DEF StageIs, Plain, Needing, Ensuring
  <2>4. /\ "formDisabled" \in Items /\ "formDisabled" # "globalIdp"
        /\ "formDisabled" \in Links
        /\ Ends("formDisabled") \subseteq {} \cup ReliesOn(m, 1)
    BY <1>7, ItemsOf, EndsOf, Relied DEF Methods
  <2>5. Sound(m, 1)
    BY <1>7, <2>3, <2>4 DEF StageIs, Sound
  <2>6. QED
    BY <2>2, <2>5
<1>8. CASE m = "getClientSecret"
  <2>1. Stages(m) = <<Needing({"client"}, "throw")>>
    BY <1>8 DEF Stages, GetClientSecretCalls
  <2>2. Len(Stages(m)) = 1 /\ Stages(m)[1] = Needing({"client"}, "throw")
    BY <2>1
  <2>3. StageIs(Stages(m)[1], {"client"}, "throw", {}, {}, {}, FALSE)
    BY <2>2 DEF StageIs, Plain, Needing, Ensuring
  <2>4. {"client"} \subseteq Items
    BY <1>8, ItemsOf, EndsOf, Relied DEF Methods
  <2>5. Sound(m, 1)
    BY <1>8, <2>3, <2>4 DEF StageIs, Sound
  <2>6. QED
    BY <2>2, <2>5
<1>9. QED
  BY <1>1, <1>2, <1>3, <1>4, <1>5, <1>6, <1>7, <1>8

LEMMA TwoStages ==
    ASSUME NEW m \in {"ensureRealmRoles", "getClient", "ensureClientScopeHasRole",
                      "ensureClientHasScope", "syncClientRoles"}
    PROVE  Len(Stages(m)) = 2 /\ Sound(m, 1) /\ Sound(m, 2) /\ Followed(m, 1)
<1>1. CASE m = "ensureRealmRoles"
  <2>1. Stages(m) = <<Ensuring(Plain, "desiredRole"),
                      [Plain EXCEPT !.removes = {"otherRole"}, !.tolerant = TRUE]>>
    BY <1>1 DEF Stages, EnsureRealmRolesCalls
  <2>2. /\ Len(Stages(m)) = 2
        /\ Stages(m)[1] = Ensuring(Plain, "desiredRole")
        /\ Stages(m)[2] = [Plain EXCEPT !.removes = {"otherRole"}, !.tolerant = TRUE]
    BY <2>1
  <2>3. /\ StageIs(Stages(m)[1], {}, "throw", {"desiredRole"}, {"desiredRole"}, {}, FALSE)
        /\ StageIs(Stages(m)[2], {}, "throw", {}, {}, {"otherRole"}, TRUE)
    BY <2>2 DEF StageIs, Plain, Needing, Ensuring
  <2>4. /\ "desiredRole" \in Items /\ "desiredRole" # "globalIdp"
        /\ Ends("desiredRole") \subseteq {} \cup ReliesOn(m, 1)
    BY <1>1, ItemsOf, EndsOf, Relied DEF Methods
  <2>5. Sound(m, 1)
    BY <1>1, <2>3, <2>4 DEF StageIs, Sound
  <2>6. Sound(m, 2)
    BY <1>1, <2>3 DEF StageIs, Sound
  <2>7. Followed(m, 1)
    BY <1>1, <2>2, <2>3, Relied DEF Followed, StageIs, Methods
  <2>8. QED
    BY <2>2, <2>5, <2>6, <2>7
<1>2. CASE m = "getClient"
  <2>1. Stages(m) = <<Needing({"client"}, "return"),
                      Needing({"key"}, "throw")>>
    BY <1>2 DEF Stages, GetClientCalls
  <2>2. /\ Len(Stages(m)) = 2
        /\ Stages(m)[1] = Needing({"client"}, "return")
        /\ Stages(m)[2] = Needing({"key"}, "throw")
    BY <2>1
  <2>3. /\ StageIs(Stages(m)[1], {"client"}, "return", {}, {}, {}, FALSE)
        /\ StageIs(Stages(m)[2], {"key"}, "throw", {}, {}, {}, FALSE)
    BY <2>2 DEF StageIs, Plain, Needing, Ensuring
  <2>4. {"client"} \subseteq Items
    BY <1>2, ItemsOf, EndsOf, Relied DEF Methods
  <2>5. Sound(m, 1)
    BY <1>2, <2>3, <2>4 DEF StageIs, Sound
  <2>6. {"key"} \subseteq Items
    BY <1>2, ItemsOf, EndsOf, Relied DEF Methods
  <2>7. Sound(m, 2)
    BY <1>2, <2>3, <2>6 DEF StageIs, Sound
  <2>8. Followed(m, 1)
    BY <1>2, <2>2, <2>3, Relied DEF Followed, StageIs, Methods
  <2>9. QED
    BY <2>2, <2>5, <2>7, <2>8
<1>3. CASE m = "ensureClientScopeHasRole"
  <2>1. Stages(m) = <<Ensuring(Plain, "scope"),
                      Ensuring(Needing({"client", "clientRole"}, "throw"), "scopeRole")>>
    BY <1>3 DEF Stages, EnsureClientScopeHasRoleCalls, EnsureClientScopeExists
  <2>2. /\ Len(Stages(m)) = 2
        /\ Stages(m)[1] = Ensuring(Plain, "scope")
        /\ Stages(m)[2] = Ensuring(Needing({"client", "clientRole"}, "throw"), "scopeRole")
    BY <2>1
  <2>3. /\ StageIs(Stages(m)[1], {}, "throw", {"scope"}, {"scope"}, {}, FALSE)
        /\ StageIs(Stages(m)[2], {"client", "clientRole"}, "throw", {"scopeRole"}, {"scopeRole"}, {}, FALSE)
    BY <2>2 DEF StageIs, Plain, Needing, Ensuring
  <2>4. /\ "scope" \in Items /\ "scope" # "globalIdp"
        /\ Ends("scope") \subseteq {} \cup ReliesOn(m, 1)
    BY <1>3, ItemsOf, EndsOf, Relied DEF Methods
  <2>5. Sound(m, 1)
    BY <1>3, <2>3, <2>4 DEF StageIs, Sound
  <2>6. /\ {"client", "clientRole"} \subseteq Items
        /\ "scopeRole" \in Items /\ "scopeRole" # "globalIdp"
        /\ Ends("scopeRole") \subseteq {"client", "clientRole"} \cup ReliesOn(m, 2)
    BY <1>3, ItemsOf, EndsOf, Relied DEF Methods
  <2>7. Sound(m, 2)
    BY <1>3, <2>3, <2>6 DEF StageIs, Sound
  <2>8. Followed(m, 1)
    BY <1>3, <2>2, <2>3, Relied DEF Followed, StageIs, Methods
  <2>9. QED
    BY <2>2, <2>5, <2>7, <2>8
<1>4. CASE m = "ensureClientHasScope"
  <2>1. Stages(m) = <<Ensuring(Plain, "scope"),
                      Ensuring(Needing({"client"}, "throw"), "clientScope")>>
    BY <1>4 DEF Stages, EnsureClientHasScopeCalls, EnsureClientScopeExists
  <2>2. /\ Len(Stages(m)) = 2
        /\ Stages(m)[1] = Ensuring(Plain, "scope")
        /\ Stages(m)[2] = Ensuring(Needing({"client"}, "throw"), "clientScope")
    BY <2>1
  <2>3. /\ StageIs(Stages(m)[1], {}, "throw", {"scope"}, {"scope"}, {}, FALSE)
        /\ StageIs(Stages(m)[2], {"client"}, "throw", {"clientScope"}, {"clientScope"}, {}, FALSE)
    BY <2>2 DEF StageIs, Plain, Needing, Ensuring
  <2>4. /\ "scope" \in Items /\ "scope" # "globalIdp"
        /\ Ends("scope") \subseteq {} \cup ReliesOn(m, 1)
    BY <1>4, ItemsOf, EndsOf, Relied DEF Methods
  <2>5. Sound(m, 1)
    BY <1>4, <2>3, <2>4 DEF StageIs, Sound
  <2>6. /\ {"client"} \subseteq Items
        /\ "clientScope" \in Items /\ "clientScope" # "globalIdp"
        /\ Ends("clientScope") \subseteq {"client"} \cup ReliesOn(m, 2)
    BY <1>4, ItemsOf, EndsOf, Relied DEF Methods
  <2>7. Sound(m, 2)
    BY <1>4, <2>3, <2>6 DEF StageIs, Sound
  <2>8. Followed(m, 1)
    BY <1>4, <2>2, <2>3, Relied DEF Followed, StageIs, Methods
  <2>9. QED
    BY <2>2, <2>5, <2>7, <2>8
<1>5. CASE m = "syncClientRoles"
  <2>1. Stages(m) = <<Ensuring(Needing({"desiredRole"} \cup {"client", "clientRole"}, "skip"),
                               "desiredComposite"),
                      Ensuring(Needing({"otherRole"} \cup {"client", "clientRole"}, "skip"),
                               "otherComposite")>>
    BY <1>5 DEF Stages, SyncClientRolesCalls, AttachStages, Composite
  <2>2. /\ Len(Stages(m)) = 2
        /\ Stages(m)[1] = Ensuring(Needing({"desiredRole"} \cup {"client", "clientRole"}, "skip"),
                               "desiredComposite")
        /\ Stages(m)[2] = Ensuring(Needing({"otherRole"} \cup {"client", "clientRole"}, "skip"),
                               "otherComposite")
    BY <2>1
  <2>3. /\ StageIs(Stages(m)[1], {"desiredRole"} \cup {"client", "clientRole"}, "skip",
                  {"desiredComposite"}, {"desiredComposite"}, {}, FALSE)
        /\ StageIs(Stages(m)[2], {"otherRole"} \cup {"client", "clientRole"}, "skip",
                  {"otherComposite"}, {"otherComposite"}, {}, FALSE)
    BY <2>2 DEF StageIs, Plain, Needing, Ensuring
  <2>4. /\ {"desiredRole"} \cup {"client", "clientRole"} \subseteq Items
        /\ "desiredComposite" \in Items /\ "desiredComposite" # "globalIdp"
        /\ Ends("desiredComposite") \subseteq {"desiredRole"} \cup {"client", "clientRole"} \cup ReliesOn(m, 1)
    BY <1>5, ItemsOf, EndsOf, Relied DEF Methods
  <2>5. Sound(m, 1)
    BY <1>5, <2>3, <2>4 DEF StageIs, Sound
  <2>6. /\ {"otherRole"} \cup {"client", "clientRole"} \subseteq Items
        /\ "otherComposite" \in Items /\ "otherComposite" # "globalIdp"
        /\ Ends("otherComposite") \subseteq {"otherRole"} \cup {"client", "clientRole"} \cup ReliesOn(m, 2)
    BY <1>5, ItemsOf, EndsOf, Relied DEF Methods
  <2>7. Sound(m, 2)
    BY <1>5, <2>3, <2>6 DEF StageIs, Sound
  <2>8. Followed(m, 1)
    <3>1. ReliesOn(m, 1) = {} /\ ReliesOn(m, 2) = {} /\ 1 + 1 = 2
      BY <1>5, Relied DEF Methods
    <3>2. QED
      BY <2>2, <2>3, <3>1 DEF Followed, StageIs
  <2>9. QED
    BY <2>2, <2>5, <2>7, <2>8
<1>6. QED
  BY <1>1, <1>2, <1>3, <1>4, <1>5

LEMMA ThreeStages ==
    /\ Len(Stages("attachToRealmRoles")) = 3
    /\ Sound("attachToRealmRoles", 1) /\ Sound("attachToRealmRoles", 2)
    /\ Sound("attachToRealmRoles", 3)
    /\ Followed("attachToRealmRoles", 1) /\ Followed("attachToRealmRoles", 2)
<1> DEFINE a == Needing({"client", "clientRole"}, "throw")
           b == Ensuring(Needing({"desiredRole"} \cup {}, "skip"), "desiredComposite")
           d == Ensuring(Needing({"otherRole"} \cup {}, "skip"), "otherComposite")
<1>1. Stages("attachToRealmRoles") = <<a>> \o <<b, d>>
  BY DEF Stages, AttachToRealmRolesCalls, AttachStages, Composite
<1> HIDE DEF a, b, d
<1>2. /\ Len(<<a>> \o <<b, d>>) = 3
      /\ (<<a>> \o <<b, d>>)[1] = a /\ (<<a>> \o <<b, d>>)[2] = b /\ (<<a>> \o <<b, d>>)[3] = d
  <2>1. <<a>> \in Seq({a, b, d}) /\ <<b, d>> \in Seq({a, b, d}) /\ Len(<<a>>) = 1 /\ Len(<<b, d>>) = 2
    OBVIOUS
  <2>2. QED
    BY <2>1, ConcatProperties
<1>3. /\ StageIs(a, {"client", "clientRole"}, "throw", {}, {}, {}, FALSE)
      /\ StageIs(b, {"desiredRole"} \cup {}, "skip", {"desiredComposite"}, {"desiredComposite"}, {}, FALSE)
      /\ StageIs(d, {"otherRole"} \cup {}, "skip", {"otherComposite"}, {"otherComposite"}, {}, FALSE)
  BY PlainStages DEF a, b, d
<1>4. /\ Stages("attachToRealmRoles")[1] = a /\ Stages("attachToRealmRoles")[2] = b
      /\ Stages("attachToRealmRoles")[3] = d
  BY <1>1, <1>2
<1>5. /\ {"client", "clientRole"} \subseteq Items
      /\ {"desiredRole"} \cup {} \subseteq Items /\ {"otherRole"} \cup {} \subseteq Items
      /\ "desiredComposite" \in Items /\ "otherComposite" \in Items
      /\ Ends("desiredComposite") \subseteq
            ({"desiredRole"} \cup {}) \cup ReliesOn("attachToRealmRoles", 2)
      /\ Ends("otherComposite") \subseteq
            ({"otherRole"} \cup {}) \cup ReliesOn("attachToRealmRoles", 3)
  BY ItemsOf, EndsOf, Relied
<1>6. Sound("attachToRealmRoles", 1)
  BY <1>3, <1>4, <1>5, SMTT(30) DEF StageIs, Sound
<1>7. Sound("attachToRealmRoles", 2)
  <2> DEFINE needs == {"desiredRole"} \cup {}
  <2>1. /\ StageIs(b, needs, "skip", {"desiredComposite"}, {"desiredComposite"}, {}, FALSE)
        /\ needs \subseteq Items
        /\ Ends("desiredComposite") \subseteq needs \cup ReliesOn("attachToRealmRoles", 2)
    BY <1>3, <1>5
  <2> HIDE DEF needs
  <2>2. QED
    BY <1>4, <1>5, <2>1, SMTT(30) DEF StageIs, Sound
<1>8. Sound("attachToRealmRoles", 3)
  <2> DEFINE needs == {"otherRole"} \cup {}
  <2>1. /\ StageIs(d, needs, "skip", {"otherComposite"}, {"otherComposite"}, {}, FALSE)
        /\ needs \subseteq Items
        /\ Ends("otherComposite") \subseteq needs \cup ReliesOn("attachToRealmRoles", 3)
    BY <1>3, <1>5
  <2> HIDE DEF needs
  <2>2. QED
    BY <1>4, <1>5, <2>1, SMTT(30) DEF StageIs, Sound
<1>9. Followed("attachToRealmRoles", 1) /\ Followed("attachToRealmRoles", 2)
  <2>1. 1 + 1 = 2 /\ 2 + 1 = 3
    OBVIOUS
  <2>2. QED
    BY <1>3, <1>4, <2>1, Relied DEF Followed, StageIs
<1>10. QED
  BY <1>1, <1>2, <1>6, <1>7, <1>8, <1>9

LEMMA StagesSound ==
    ASSUME NEW m \in Methods
    PROVE  /\ Len(Stages(m)) \in 1..3
           /\ \A i \in 1..Len(Stages(m)) : Sound(m, i)
           /\ \A i \in 1..Len(Stages(m)) : i < Len(Stages(m)) => Followed(m, i)
<1>1. CASE Len(Stages(m)) = 1 /\ Sound(m, 1)
  <2>1. \A i \in 1..Len(Stages(m)) : i = 1
    BY <1>1
  <2>2. QED
    BY <1>1, <2>1
<1>2. CASE Len(Stages(m)) = 2 /\ Sound(m, 1) /\ Sound(m, 2) /\ Followed(m, 1)
  <2>1. \A i \in 1..Len(Stages(m)) : i = 1 \/ i = 2
    BY <1>2
  <2>2. QED
    BY <1>2, <2>1
<1>3. CASE m = "attachToRealmRoles"
  <2>1. Len(Stages(m)) = 3
    BY <1>3, ThreeStages
  <2>2. \A i \in 1..Len(Stages(m)) : i = 1 \/ i = 2 \/ i = 3
    BY <2>1
  <2>3. QED
    BY <1>3, <2>1, <2>2, ThreeStages
<1>4. QED
  BY <1>1, <1>2, <1>3, OneStage, TwoStages DEF Methods

CallRecords ==
    [pc : {"idle", "look", "write", "done", "threw", "refused"}, method : Methods,
     at : 1..3, passed : SUBSET Items, undone : SUBSET Items, beside : BOOLEAN]

(* The stage a call is at, where it is one of its method's.                *)
LEMMA StageAt ==
    ASSUME NEW call \in CallRecords, call.at <= Len(Stages(call.method))
    PROVE  /\ call.method \in Methods /\ call.at \in Nat
           /\ Len(Stages(call.method)) \in 1..3
           /\ Sound(call.method, call.at)
           /\ call.at < Len(Stages(call.method)) =>
                 call.at + 1 \in 1..Len(Stages(call.method)) /\ Followed(call.method, call.at)
<1>1. call.method \in Methods /\ call.at \in 1..3
  BY DEF CallRecords
<1>2. Len(Stages(call.method)) \in 1..3
  BY <1>1, StagesSound
<1>3. call.at \in 1..Len(Stages(call.method))
  BY <1>1, <1>2
<1>4. QED
  BY <1>1, <1>2, <1>3, StagesSound

(* A call that is through with its stage is in order, if the stage has     *)
(* left what it is to leave.                                               *)
LEMMA AdvancedInOrder ==
    ASSUME NEW call \in CallRecords, NEW realm,
           call.at <= Len(Stages(call.method)),
           \A i \in 1..call.at :
              Stages(call.method)[i].creates \subseteq realm \cup call.passed \cup call.undone,
           call.at < Len(Stages(call.method)) /\ ~ call.beside =>
              ReliesOn(call.method, call.at + 1) \subseteq realm
    PROVE  /\ Advanced(call) \in CallRecords
           /\ CallInOrder(Advanced(call), realm)
           /\ Advanced(call).beside = call.beside
<1> DEFINE n == Len(Stages(call.method))
<1>1. call.method \in Methods /\ call.at \in Nat /\ n \in 1..3
  BY StageAt
<1>2. CASE call.at = n
  <2> DEFINE adv == [call EXCEPT !.pc = "done"]
  <2>1. Advanced(call) = adv
    BY <1>2 DEF Advanced
  <2>2. /\ adv.method = call.method /\ adv.at = call.at /\ adv.pc = "done" /\ adv.passed = call.passed
        /\ adv.undone = call.undone /\ adv.beside = call.beside /\ adv \in CallRecords
    BY DEF CallRecords
  <2> HIDE DEF adv
  <2>3. Behind(adv) = 1..call.at
    BY <1>2, <2>2 DEF Behind
  <2>4. QED
    BY <2>1, <2>2, <2>3 DEF CallInOrder
<1>3. CASE call.at # n
  <2> DEFINE adv == [call EXCEPT !.at = @ + 1, !.pc = "look"]
  <2>1. Advanced(call) = adv
    BY <1>3 DEF Advanced
  <2>2. call.at < n /\ call.at + 1 \in 1..3
    <3>1. call.at <= n
      OBVIOUS
    <3> HIDE DEF n
    <3>2. QED
      BY <1>1, <1>3, <3>1
  <2>3. /\ adv.method = call.method /\ adv.at = call.at + 1 /\ adv.pc = "look"
        /\ adv.passed = call.passed /\ adv.undone = call.undone /\ adv.beside = call.beside
        /\ adv \in CallRecords
    BY <2>2 DEF CallRecords
  <2> HIDE DEF adv
  <2>4. Behind(adv) = 1..call.at
    BY <1>1, <2>3 DEF Behind
  <2>5. call.at + 1 <= n
    BY <1>1, <2>2
  <2>6. QED
    BY <2>1, <2>2, <2>3, <2>4, <2>5 DEF CallInOrder
<1>4. QED
  BY <1>2, <1>3

(* What is written by one call leaves the others in order.                 *)
LEMMA KeptInOrder ==
    ASSUME NEW call \in CallRecords, NEW realm, realm \subseteq Items, NEW created,
           NEW next, created \subseteq next, CallInOrder(call, realm)
    PROVE  LET kept == [call EXCEPT !.undone = (@ \cup (realm \ next)) \ created]
           IN  /\ kept \in CallRecords
               /\ kept.pc = call.pc /\ kept.method = call.method /\ kept.at = call.at
               /\ kept.passed = call.passed /\ kept.beside = call.beside
               /\ call.beside \/ call.pc \notin {"look", "write"} => CallInOrder(kept, next)
               /\ call.pc \in {"look", "write", "done"} =>
                     \A i \in Behind(call) : Stages(call.method)[i].creates
                        \subseteq next \cup kept.passed \cup kept.undone
<1> DEFINE kept == [call EXCEPT !.undone = (@ \cup (realm \ next)) \ created]
<1>1. /\ kept \in CallRecords
      /\ kept.pc = call.pc /\ kept.method = call.method /\ kept.at = call.at
      /\ kept.passed = call.passed /\ kept.beside = call.beside
      /\ kept.undone = (call.undone \cup (realm \ next)) \ created
  BY DEF CallRecords
<1> HIDE DEF kept
<1>2. ASSUME call.pc \in {"look", "write", "done"}, NEW i \in Behind(call)
      PROVE  Stages(call.method)[i].creates \subseteq next \cup kept.passed \cup kept.undone
  <2>1. Stages(call.method)[i].creates \subseteq realm \cup call.passed \cup call.undone
    BY <1>2 DEF CallInOrder
  <2>2. QED
    BY <1>1, <2>1
<1>3. Behind(kept) = Behind(call)
  BY <1>1 DEF Behind
<1>4. ASSUME call.beside \/ call.pc \notin {"look", "write"} PROVE CallInOrder(kept, next)
  BY <1>1, <1>2, <1>3, <1>4 DEF CallInOrder
<1>5. QED
  BY <1>1, <1>2, <1>4 DEF kept

(* The actions, one by one.                                                *)
LEMMA RealmSetUpInOrder ==
    ASSUME KRInv, RealmSetUp PROVE KRInv'
<1>1. /\ krCalls' = krCalls /\ krCount' = krCount /\ krCount = 0
      /\ krRealm' \subseteq (RealmRoles \cup {"client", "clientRole", "user", "key", "realmIdp"})
  BY DEF RealmSetUp
<1>2. "globalIdp" \notin krRealm' /\ krRealm' \subseteq Objects \cup Links
  BY <1>1 DEF RealmRoles, Objects
<1>3. KRTypeOK'
  BY <1>1, <1>2 DEF KRInv, KRTypeOK
<1>4. ASSUME NEW c \in KeycloakCallers
      PROVE  CallInOrder(krCalls[c], krRealm')
  <2>1. krCalls[c].pc = "idle" /\ krCalls[c].at <= Len(Stages(krCalls[c].method))
    BY <1>1 DEF KRInv, CallInOrder
  <2>2. QED
    BY <2>1 DEF CallInOrder
<1>5. QED
  BY <1>1, <1>2, <1>3, <1>4 DEF KRInv, Running

LEMMA CallsOf ==
    ASSUME KRInv
    PROVE  /\ krCalls \in [KeycloakCallers -> CallRecords] /\ krRealm \subseteq Items
           /\ krCount \in 0..MaxKeycloakCalls
           /\ \A c \in KeycloakCallers : /\ krCalls[c] \in CallRecords
                                        /\ CallInOrder(krCalls[c], krRealm)
                                        /\ krCalls[c].at <= Len(Stages(krCalls[c].method))
BY DEF KRInv, KRTypeOK, CallRecords, Items, CallInOrder

(* A step of c that changes only its own call, or also marks what others   *)
(* have lost.                                                              *)
LEMMA OthersRun ==
    ASSUME KRInv, NEW c \in KeycloakCallers, Running(c),
           krCalls' \in [KeycloakCallers -> CallRecords], krRealm' \subseteq Items,
           "globalIdp" \notin krRealm', UNCHANGED krCount,
           \A d \in KeycloakCallers : /\ CallInOrder(krCalls'[d], krRealm')
                                      /\ krCalls'[d].beside = krCalls[d].beside,
           \A d \in KeycloakCallers \ {c} : krCalls'[d].pc = krCalls[d].pc
    PROVE  KRInv'
<1>1. KRTypeOK'
  BY DEF KRInv, KRTypeOK, CallRecords, Items
<1>2. krCount # 0
  BY DEF KRInv, Running
<1>3. ASSUME NEW a \in KeycloakCallers, NEW b \in KeycloakCallers, a # b, Running(a)', Running(b)'
      PROVE  krCalls'[a].beside
  <2>1. Running(a) /\ Running(b)
    BY <1>3 DEF Running
  <2>2. QED
    BY <1>3, <2>1 DEF KRInv
<1>4. QED
  BY <1>1, <1>2, <1>3 DEF KRInv

LEMMA KeycloakCallInOrder ==
    ASSUME KRInv, NEW c \in KeycloakCallers, NEW m \in Methods, KeycloakCall(c, m)
    PROVE  KRInv'
<1> DEFINE others == {d \in KeycloakCallers \ {c} : Running(d)}
           new == [NoKeycloakCall EXCEPT !.pc = "look", !.method = m, !.beside = others # {}]
           Beside(d) == [krCalls[d] EXCEPT !.beside = TRUE]
<1>1. /\ krRealm' = krRealm /\ krCount' = krCount + 1 /\ krCount < MaxKeycloakCalls
      /\ m = "assignRealmAdminRole" => "user" \in krRealm
      /\ krCalls' = [d \in KeycloakCallers |->
            IF d = c THEN new ELSE IF d \in others THEN Beside(d) ELSE krCalls[d]]
  BY DEF KeycloakCall
<1>2. new \in CallRecords /\ new.method = m /\ new.at = 1 /\ new.pc = "look"
      /\ new.beside = (others # {})
  <2>1. NoKeycloakCall \in CallRecords /\ NoKeycloakCall.at = 1
    BY DEF NoKeycloakCall, CallRecords, Methods
  <2> HIDE DEF others
  <2>2. (others # {}) \in BOOLEAN
    OBVIOUS
  <2>3. QED
    BY <2>1, <2>2 DEF CallRecords
<1>3. \A d \in others : /\ Beside(d) \in CallRecords /\ Beside(d).beside = TRUE
                        /\ Beside(d).pc = krCalls[d].pc /\ Beside(d).at = krCalls[d].at
                        /\ Beside(d).method = krCalls[d].method
                        /\ Beside(d).passed = krCalls[d].passed
                        /\ Beside(d).undone = krCalls[d].undone
  BY CallsOf DEF CallRecords
<1> HIDE DEF new, Beside
<1>4. krCalls' \in [KeycloakCallers -> CallRecords]
  BY <1>1, <1>2, <1>3, CallsOf
<1>5. CallInOrder(new, krRealm)
  <2>1. 1 <= Len(Stages(m)) /\ Behind(new) = {}
    <3>1. Len(Stages(m)) \in 1..3
      BY StagesSound
    <3>2. Behind(new) = 1..(1 - 1)
      BY <1>2 DEF Behind
    <3>3. QED
      BY <3>1, <3>2
  <2>2. ReliesOn(m, 1) \subseteq krRealm
    <3>1. m # "assignRealmAdminRole" => ReliesOn(m, 1) = {}
      BY DEF ReliesOn
    <3>2. m = "assignRealmAdminRole" => ReliesOn(m, 1) = {"user"}
      BY DEF ReliesOn
    <3>3. QED
      BY <1>1, <3>1, <3>2
  <2>3. QED
    BY <1>2, <2>1, <2>2 DEF CallInOrder
<1>6. ASSUME NEW d \in others PROVE CallInOrder(Beside(d), krRealm)
  <2>1. Behind(Beside(d)) = Behind(krCalls[d])
    BY <1>3 DEF Behind
  <2>2. CallInOrder(krCalls[d], krRealm)
    BY CallsOf
  <2>3. QED
    BY <1>3, <2>1, <2>2 DEF CallInOrder
<1>7. \A d \in KeycloakCallers : CallInOrder(krCalls'[d], krRealm')
  BY <1>1, <1>5, <1>6, CallsOf
<1>8. KRTypeOK' /\ krCount' # 0
  BY <1>1, <1>4, CallsOf, KeycloakAssumption DEF KRInv, KRTypeOK, CallRecords, Items
<1>9. ASSUME NEW a \in KeycloakCallers, NEW b \in KeycloakCallers, a # b, Running(a)', Running(b)'
      PROVE  krCalls'[a].beside
  <2>1. CASE a = c
    <3>1. b # c /\ b \in others
      BY <1>1, <1>9, <2>1 DEF Running
    <3>2. QED
      BY <1>1, <1>2, <2>1, <3>1
  <2>2. CASE a # c
    <3>1. Running(a)
      BY <1>1, <1>3, <1>9, <2>2 DEF Running
    <3>2. QED
      BY <1>1, <1>3, <2>2, <3>1
  <2>3. QED
    BY <2>1, <2>2
<1>10. QED
  BY <1>1, <1>7, <1>8, <1>9 DEF KRInv

(* What is ensured before a call is through with its stage, and what the   *)
(* next one relies on.                                                     *)
LEMMA ThroughInOrder ==
    ASSUME NEW call \in CallRecords, NEW realm, NEW passed \in SUBSET Items, NEW undone \in SUBSET Items,
           call.at <= Len(Stages(call.method)), call.pc \in {"look", "write"},
           \A i \in Behind(call) : Stages(call.method)[i].creates \subseteq realm \cup passed \cup undone,
           StageOf(call).creates \subseteq realm \cup passed \cup undone
    PROVE  \A i \in 1..call.at : Stages(call.method)[i].creates \subseteq realm \cup passed \cup undone
<1>1. Behind(call) = 1..(call.at - 1) /\ call.at \in Nat
  BY StageAt DEF Behind
<1>2. ASSUME NEW i \in 1..call.at PROVE i = call.at \/ i \in Behind(call)
  BY <1>1
<1>3. QED
  BY <1>2 DEF StageOf

LEMMA KeycloakLookInOrder ==
    ASSUME KRInv, NEW c \in KeycloakCallers, KeycloakLook(c)
    PROVE  KRInv'
<1> DEFINE call == krCalls[c]
           n == Len(Stages(call.method))
           stage == Stages(call.method)[call.at]
           next == Looked(call, stage)
           pass == Passing(call, stage)
<1>1. /\ call.pc = "look" /\ krRealm' = krRealm /\ krCount' = krCount
      /\ krCalls' = [krCalls EXCEPT ![c] = next]
  BY CallsOf DEF KeycloakLook
<1>2. call \in CallRecords /\ CallInOrder(call, krRealm) /\ call.at <= n /\ krRealm \subseteq Items
  BY CallsOf
<1>3. /\ call.method \in Methods /\ call.at \in Nat /\ n \in 1..3 /\ Sound(call.method, call.at)
      /\ call.at < n => call.at + 1 \in 1..n /\ Followed(call.method, call.at)
  BY <1>2, StageAt
<1>4. /\ \A i \in Behind(call) :
            Stages(call.method)[i].creates \subseteq krRealm \cup call.passed \cup call.undone
      /\ ~ call.beside => ReliesOn(call.method, call.at) \subseteq krRealm
  BY <1>1, <1>2 DEF CallInOrder
<1>5. /\ pass \in CallRecords /\ pass.pc = "look" /\ pass.method = call.method /\ pass.at = call.at
      /\ pass.passed = call.passed \cup stage.creates /\ pass.undone = call.undone
      /\ pass.beside = call.beside
  BY <1>1, <1>2, <1>3 DEF CallRecords, Passing, Sound
<1>6. /\ call.passed \in SUBSET Items /\ call.undone \in SUBSET Items
      /\ pass.passed \in SUBSET Items
  BY <1>2, <1>5 DEF CallRecords
<1> HIDE DEF pass
<1>7. \A i \in 1..call.at :
         Stages(call.method)[i].creates \subseteq krRealm \cup pass.passed \cup pass.undone
  <2> DEFINE passed == pass.passed
             undone == call.undone
  <2>1. \A i \in Behind(call) :
            Stages(call.method)[i].creates \subseteq krRealm \cup passed \cup undone
    BY <1>4, <1>5
  <2>2. StageOf(call).creates \subseteq krRealm \cup passed \cup undone
    BY <1>5 DEF StageOf
  <2>3. call.pc \in {"look", "write"} /\ pass.undone = undone
    BY <1>1, <1>5
  <2>4. passed \in SUBSET Items /\ undone \in SUBSET Items /\ call \in CallRecords
        /\ call.at <= Len(Stages(call.method))
    BY <1>2, <1>6
  <2> HIDE DEF call, passed, undone
  <2>5. \A i \in 1..call.at :
           Stages(call.method)[i].creates \subseteq krRealm \cup passed \cup undone
    BY <2>1, <2>2, <2>3, <2>4, ThroughInOrder
  <2>6. QED
    BY <2>3, <2>5 DEF passed
<1>8. next \in CallRecords /\ CallInOrder(next, krRealm) /\ next.beside = call.beside
  <2>1. CASE ~ stage.needs \subseteq krRealm /\ stage.orElse = "throw"
    <3>1. next = [call EXCEPT !.pc = "threw"]
      BY <2>1 DEF Looked
    <3>2. QED
      BY <1>2, <3>1 DEF CallRecords, CallInOrder
  <2>2. CASE ~ stage.needs \subseteq krRealm /\ stage.orElse = "return"
    <3> DEFINE end == [pass EXCEPT !.pc = "done"]
    <3>1. next = end
      BY <2>2 DEF Looked, pass
    <3>2. /\ end \in CallRecords /\ end.pc = "done" /\ end.method = call.method
          /\ end.at = call.at /\ end.passed = pass.passed /\ end.undone = pass.undone
          /\ end.beside = call.beside
      BY <1>5 DEF CallRecords
    <3> HIDE DEF end
    <3>3. ASSUME NEW i \in 1..n
          PROVE  Stages(call.method)[i].creates \subseteq krRealm \cup pass.passed \cup pass.undone
      <4>1. CASE i \in 1..call.at
        BY <1>7, <4>1
      <4>2. CASE i \notin 1..call.at
        <5>1. call.at < n /\ call.at < i
          BY <1>2, <1>3, <4>2
        <5>2. call.at + 1 = n /\ Stages(call.method)[call.at + 1].creates = {}
          BY <1>3, <2>2, <5>1 DEF Followed
        <5>3. i = call.at + 1
          BY <1>3, <5>1, <5>2
        <5>4. QED
          BY <5>2, <5>3
      <4>3. QED
        BY <4>1, <4>2
    <3>4. Behind(end) = 1..n
      BY <3>2 DEF Behind
    <3>5. QED
      BY <1>2, <3>1, <3>2, <3>3, <3>4 DEF CallInOrder
  <2>3. CASE ~ stage.needs \subseteq krRealm /\ stage.orElse = "skip"
    <3>1. next = Advanced(pass)
      BY <2>3 DEF Looked, pass
    <3>2. call.at < n /\ ~ call.beside => ReliesOn(call.method, call.at + 1) \subseteq krRealm
      BY <1>3, <1>4, <2>3 DEF Followed
    <3>3. QED
      BY <1>2, <1>5, <1>7, <3>1, <3>2, AdvancedInOrder
  <2>4. CASE stage.needs \subseteq krRealm /\ Settled(stage, krRealm)
    <3>1. next = Advanced(call)
      BY <2>4 DEF Looked
    <3>2. stage.creates \subseteq krRealm
      BY <1>3, <2>4 DEF Settled, Sound, KRInv
    <3>3. StageOf(call).creates \subseteq krRealm \cup call.passed \cup call.undone
      BY <3>2 DEF StageOf
    <3>4. \A i \in 1..call.at :
             Stages(call.method)[i].creates \subseteq krRealm \cup call.passed \cup call.undone
      <4>1. /\ call \in CallRecords /\ call.passed \in SUBSET Items /\ call.undone \in SUBSET Items
            /\ call.at <= Len(Stages(call.method)) /\ call.pc \in {"look", "write"}
        BY <1>1, <1>2, <1>6
      <4>2. \A i \in Behind(call) :
               Stages(call.method)[i].creates \subseteq krRealm \cup call.passed \cup call.undone
        BY <1>4
      <4> HIDE DEF call
      <4>3. QED
        BY <3>3, <4>1, <4>2, ThroughInOrder
    <3>5. call.at < n /\ ~ call.beside => ReliesOn(call.method, call.at + 1) \subseteq krRealm
      BY <1>3, <1>4, <2>4, <3>2 DEF Followed
    <3>6. QED
      BY <1>2, <3>1, <3>4, <3>5, AdvancedInOrder
  <2>5. CASE stage.needs \subseteq krRealm /\ ~ Settled(stage, krRealm)
    <3> DEFINE writing == [call EXCEPT !.pc = "write"]
    <3>1. next = writing
      BY <2>5 DEF Looked
    <3>2. /\ writing \in CallRecords /\ writing.pc = "write" /\ writing.method = call.method
          /\ writing.at = call.at /\ writing.passed = call.passed /\ writing.undone = call.undone
          /\ writing.beside = call.beside
      BY <1>2 DEF CallRecords
    <3> HIDE DEF writing
    <3>3. Behind(writing) = Behind(call) /\ StageOf(writing) = stage
      BY <1>1, <3>2 DEF Behind, StageOf
    <3>4. ASSUME ~ call.beside, call.method # "ensureIdentityProvider"
          PROVE  Accepts(stage, krRealm)
      <4>1. stage.creates \cap krRealm \subseteq Links
        BY <1>3, <2>5, <3>4 DEF Sound, Settled
      <4>2. \A x \in stage.creates : Ends(x) \subseteq krRealm
        BY <1>3, <1>4, <2>5, <3>4 DEF Sound
      <4>3. stage.removes \subseteq krRealm
        BY <1>3, <2>5 DEF Sound, Settled
      <4>4. QED
        BY <4>1, <4>2, <4>3 DEF Accepts
    <3>5. QED
      BY <1>2, <1>4, <2>5, <3>1, <3>2, <3>3, <3>4 DEF CallInOrder
  <2>6. stage.orElse \in {"throw", "return", "skip"}
    BY <1>3 DEF Sound
  <2>7. QED
    BY <2>1, <2>2, <2>3, <2>4, <2>5, <2>6
<1> HIDE DEF next
<1>9. krCalls' \in [KeycloakCallers -> CallRecords]
  BY <1>1, <1>8, CallsOf
<1>10. /\ \A d \in KeycloakCallers : CallInOrder(krCalls'[d], krRealm')
                                    /\ krCalls'[d].beside = krCalls[d].beside
       /\ \A d \in KeycloakCallers \ {c} : krCalls'[d].pc = krCalls[d].pc
  BY <1>1, <1>8, CallsOf
<1>11. Running(c) /\ "globalIdp" \notin krRealm'
  BY <1>1 DEF Running, KRInv
<1>12. QED
  BY <1>1, <1>2, <1>9, <1>10, <1>11, OthersRun

LEMMA RolesUnmatchedInOrder ==
    ASSUME KRInv, NEW c \in KeycloakCallers, RolesUnmatched(c)
    PROVE  KRInv'
<1> DEFINE call == krCalls[c]
           stage == Stages(call.method)[call.at]
           end == [Passing(call, stage) EXCEPT !.pc = "done"]
<1>1. /\ call.pc = "look" /\ call.method = "mapClientRole"
      /\ krRealm' = krRealm /\ krCount' = krCount
      /\ krCalls' = [krCalls EXCEPT ![c] = end]
  BY DEF RolesUnmatched
<1>2. call \in CallRecords /\ krRealm \subseteq Items
  BY CallsOf
<1>3. Len(Stages(call.method)) = 1 /\ stage.creates \subseteq Items /\ call.at = 1
  <2>1. Len(Stages("mapClientRole")) = 1 /\ Sound("mapClientRole", 1)
    BY OneStage
  <2>2. call.at <= 1 /\ call.at \in 1..3
    BY <1>1, <1>2, <2>1, CallsOf DEF CallRecords
  <2>3. call.at = 1
    BY <2>2
  <2>4. QED
    BY <1>1, <2>1, <2>3 DEF Sound
<1>4. /\ end \in CallRecords /\ end.pc = "done" /\ end.method = call.method /\ end.at = call.at
      /\ stage.creates \subseteq end.passed /\ end.beside = call.beside
  BY <1>2, <1>3 DEF CallRecords, Passing
<1>5. CallInOrder(end, krRealm)
  <2>1. Behind(end) = 1..1 /\ Stages(end.method)[1] = stage
    BY <1>3, <1>4 DEF Behind
  <2> HIDE DEF end, stage
  <2>2. \A i \in Behind(end) :
           Stages(end.method)[i].creates \subseteq krRealm \cup end.passed \cup end.undone
    BY <1>4, <2>1
  <2>3. end.at <= Len(Stages(end.method))
    <3>1. end.at = 1 /\ end.method = call.method
      BY <1>3, <1>4
    <3>2. Len(Stages(end.method)) = 1
      BY <1>3, <3>1
    <3>3. QED
      BY <3>1, <3>2
  <2>4. QED
    BY <1>4, <2>2, <2>3 DEF CallInOrder
<1> HIDE DEF end
<1>6. krCalls' \in [KeycloakCallers -> CallRecords]
  BY <1>1, <1>4, CallsOf
<1>7. /\ \A d \in KeycloakCallers : CallInOrder(krCalls'[d], krRealm')
                                    /\ krCalls'[d].beside = krCalls[d].beside
      /\ \A d \in KeycloakCallers \ {c} : krCalls'[d].pc = krCalls[d].pc
  BY <1>1, <1>4, <1>5, CallsOf
<1>8. Running(c) /\ "globalIdp" \notin krRealm'
  BY <1>1 DEF Running, KRInv
<1>9. QED
  BY <1>1, <1>2, <1>6, <1>7, <1>8, OthersRun

LEMMA KeycloakWriteInOrder ==
    ASSUME KRInv, NEW c \in KeycloakCallers, KeycloakWrite(c)
    PROVE  KRInv'
<1> DEFINE call == krCalls[c]
           n == Len(Stages(call.method))
           stage == Stages(call.method)[call.at]
           realm == Removing(krRealm, stage.removes) \cup stage.creates
           Kept(d) == [krCalls[d] EXCEPT !.undone = (@ \cup (krRealm \ realm)) \ stage.creates]
<1>1. /\ call.pc = "write" /\ krRealm' = realm /\ krCount' = krCount /\ Accepts(stage, krRealm)
      /\ krCalls' = [d \in KeycloakCallers |-> IF d = c THEN Advanced(Kept(d)) ELSE Kept(d)]
  BY DEF KeycloakWrite
<1>2. call \in CallRecords /\ CallInOrder(call, krRealm) /\ call.at <= n /\ krRealm \subseteq Items
  BY CallsOf
<1>3. /\ call.method \in Methods /\ call.at \in Nat /\ n \in 1..3 /\ Sound(call.method, call.at)
      /\ call.at < n => call.at + 1 \in 1..n /\ Followed(call.method, call.at)
  BY <1>2, StageAt
<1>4. /\ stage.creates \subseteq realm /\ realm \subseteq Items /\ "globalIdp" \notin realm
      /\ stage.removes = {} => krRealm \subseteq realm
  <2>1. Removing(krRealm, stage.removes) \subseteq krRealm
        /\ (stage.removes = {} => Removing(krRealm, stage.removes) = krRealm)
    BY DEF Removing
  <2>2. stage.creates \subseteq Items /\ "globalIdp" \notin stage.creates /\ "globalIdp" \notin krRealm
    BY <1>3 DEF Sound, KRInv
  <2>3. QED
    BY <1>2, <2>1, <2>2
<1> HIDE DEF realm
<1>5. ASSUME NEW d \in KeycloakCallers
      PROVE  /\ Kept(d) \in CallRecords
             /\ Kept(d).pc = krCalls[d].pc /\ Kept(d).method = krCalls[d].method
             /\ Kept(d).at = krCalls[d].at /\ Kept(d).passed = krCalls[d].passed
             /\ Kept(d).beside = krCalls[d].beside
             /\ krCalls[d].beside \/ krCalls[d].pc \notin {"look", "write"} =>
                   CallInOrder(Kept(d), realm)
             /\ krCalls[d].pc \in {"look", "write", "done"} =>
                   \A i \in Behind(krCalls[d]) : Stages(krCalls[d].method)[i].creates
                      \subseteq realm \cup Kept(d).passed \cup Kept(d).undone
  <2>1. krCalls[d] \in CallRecords /\ CallInOrder(krCalls[d], krRealm)
    BY CallsOf
  <2>2. /\ Kept(d) \in CallRecords
        /\ Kept(d).pc = krCalls[d].pc /\ Kept(d).method = krCalls[d].method
        /\ Kept(d).at = krCalls[d].at /\ Kept(d).passed = krCalls[d].passed
        /\ Kept(d).beside = krCalls[d].beside
    BY <1>2, <2>1 DEF CallRecords
  <2> DEFINE created == stage.creates
             d0 == krCalls[d]
  <2>3. created \subseteq realm /\ krRealm \subseteq Items /\ d0 \in CallRecords
        /\ CallInOrder(d0, krRealm)
    BY <1>2, <1>4, <2>1
  <2>4. Kept(d) = [d0 EXCEPT !.undone = (@ \cup (krRealm \ realm)) \ created]
    OBVIOUS
  <2> HIDE DEF created, d0, Kept
  <2>5. /\ d0.beside \/ d0.pc \notin {"look", "write"} => CallInOrder(Kept(d), realm)
        /\ d0.pc \in {"look", "write", "done"} =>
              \A i \in Behind(d0) : Stages(d0.method)[i].creates
                 \subseteq realm \cup Kept(d).passed \cup Kept(d).undone
    BY <2>3, <2>4, KeptInOrder
  <2>6. QED
    BY <2>2, <2>5 DEF d0
<1>6. Kept(c).passed \in SUBSET Items /\ Kept(c).undone \in SUBSET Items
  BY <1>5 DEF CallRecords
<1> HIDE DEF Kept
<1>7. \A i \in 1..call.at :
         Stages(call.method)[i].creates \subseteq realm \cup Kept(c).passed \cup Kept(c).undone
  <2> DEFINE passed == Kept(c).passed
             undone == Kept(c).undone
  <2>1. \A i \in Behind(call) :
           Stages(call.method)[i].creates \subseteq realm \cup passed \cup undone
    BY <1>1, <1>5
  <2>2. StageOf(call).creates \subseteq realm \cup passed \cup undone
    BY <1>4 DEF StageOf
  <2>3. /\ call \in CallRecords /\ call.at <= Len(Stages(call.method))
        /\ call.pc \in {"look", "write"}
    BY <1>1, <1>2
  <2>4. passed \in SUBSET Items /\ undone \in SUBSET Items
    BY <1>6
  <2> HIDE DEF call, passed, undone
  <2>5. \A i \in 1..call.at : Stages(call.method)[i].creates \subseteq realm \cup passed \cup undone
    BY <2>1, <2>2, <2>3, <2>4, ThroughInOrder
  <2>6. QED
    BY <2>5 DEF passed, undone
<1>8. call.at < n /\ ~ call.beside => ReliesOn(call.method, call.at + 1) \subseteq realm
  <2> SUFFICES ASSUME call.at < n, ~ call.beside
               PROVE  ReliesOn(call.method, call.at + 1) \subseteq realm
    OBVIOUS
  <2>1. ReliesOn(call.method, call.at) \subseteq krRealm /\ stage.needs \subseteq krRealm
    BY <1>1, <1>2 DEF CallInOrder, StageOf
  <2>2. CASE ReliesOn(call.method, call.at + 1) = {}
    BY <2>2
  <2>3. CASE stage.removes = {}
    <3>1. krRealm \subseteq realm
      BY <1>4, <2>3
    <3>2. ReliesOn(call.method, call.at + 1)
             \subseteq ReliesOn(call.method, call.at) \cup stage.creates \cup stage.needs
      BY <1>3 DEF Followed
    <3>3. QED
      BY <1>4, <2>1, <3>1, <3>2
  <2>4. QED
    BY <1>3, <2>2, <2>3 DEF Followed
<1>9. Advanced(Kept(c)) \in CallRecords /\ CallInOrder(Advanced(Kept(c)), realm)
      /\ Advanced(Kept(c)).beside = call.beside
  <2>1. /\ Kept(c) \in CallRecords /\ Kept(c).at <= Len(Stages(Kept(c).method))
        /\ \A i \in 1..Kept(c).at :
             Stages(Kept(c).method)[i].creates \subseteq realm \cup Kept(c).passed \cup Kept(c).undone
        /\ Kept(c).at < Len(Stages(Kept(c).method)) /\ ~ Kept(c).beside =>
              ReliesOn(Kept(c).method, Kept(c).at + 1) \subseteq realm
    BY <1>2, <1>5, <1>7, <1>8
  <2>2. QED
    BY <1>5, <2>1, AdvancedInOrder
<1>10. ASSUME NEW d \in KeycloakCallers \ {c}
       PROVE  CallInOrder(Kept(d), realm)
  <2>1. Running(c)
    BY <1>1 DEF Running
  <2>2. krCalls[d].beside \/ krCalls[d].pc \notin {"look", "write"}
    BY <2>1 DEF KRInv, Running
  <2>3. QED
    BY <1>5, <2>2
<1>11. krCalls' \in [KeycloakCallers -> CallRecords]
  BY <1>1, <1>5, <1>9
<1>12. /\ \A d \in KeycloakCallers : CallInOrder(krCalls'[d], krRealm')
                                    /\ krCalls'[d].beside = krCalls[d].beside
       /\ \A d \in KeycloakCallers \ {c} : krCalls'[d].pc = krCalls[d].pc
  BY <1>1, <1>5, <1>9, <1>10
<1>13. Running(c)
  BY <1>1 DEF Running
<1>14. QED
  BY <1>1, <1>4, <1>11, <1>12, <1>13, OthersRun

LEMMA KeycloakRefusesInOrder ==
    ASSUME KRInv, NEW c \in KeycloakCallers, KeycloakRefuses(c)
    PROVE  KRInv'
<1> DEFINE call == krCalls[c]
           n == Len(Stages(call.method))
           stage == Stages(call.method)[call.at]
           refused == [call EXCEPT !.pc = "refused"]
           next == IF stage.tolerant THEN Advanced(call) ELSE refused
<1>1. /\ call.pc = "write" /\ krRealm' = krRealm /\ krCount' = krCount /\ ~ Accepts(stage, krRealm)
      /\ krCalls' = [krCalls EXCEPT ![c] = next]
  BY CallsOf DEF KeycloakRefuses
<1>2. call \in CallRecords /\ CallInOrder(call, krRealm) /\ call.at <= n
  BY CallsOf
<1>3. /\ call.method \in Methods /\ call.at \in Nat /\ n \in 1..3 /\ Sound(call.method, call.at)
      /\ call.at < n => call.at + 1 \in 1..n /\ Followed(call.method, call.at)
  BY <1>2, StageAt
<1>4. call.beside \/ call.method = "ensureIdentityProvider"
  BY <1>1, <1>2 DEF CallInOrder, StageOf
<1>5. next \in CallRecords /\ CallInOrder(next, krRealm) /\ next.beside = call.beside
  <2>1. CASE stage.tolerant
    <3>1. stage.creates = {}
      BY <1>3, <2>1 DEF Sound
    <3>2. \A i \in Behind(call) :
             Stages(call.method)[i].creates \subseteq krRealm \cup call.passed \cup call.undone
      BY <1>1, <1>2 DEF CallInOrder
    <3>3. StageOf(call).creates \subseteq krRealm \cup call.passed \cup call.undone
      BY <3>1 DEF StageOf
    <3>4. /\ call.passed \in SUBSET Items /\ call.undone \in SUBSET Items
          /\ call.at <= Len(Stages(call.method)) /\ call.pc \in {"look", "write"}
      BY <1>1, <1>2 DEF CallRecords
    <3>5. \A i \in 1..call.at :
             Stages(call.method)[i].creates \subseteq krRealm \cup call.passed \cup call.undone
      <4> HIDE DEF call
      <4>1. QED
        BY <1>2, <3>2, <3>3, <3>4, ThroughInOrder
    <3>6. call.at < n /\ ~ call.beside => ReliesOn(call.method, call.at + 1) \subseteq krRealm
      <4>1. ~ call.beside =>
               ReliesOn(call.method, call.at) \subseteq krRealm /\ stage.needs \subseteq krRealm
        BY <1>1, <1>2 DEF CallInOrder, StageOf
      <4>2. call.at < n => ReliesOn(call.method, call.at + 1)
                              \subseteq ReliesOn(call.method, call.at) \cup stage.needs
        BY <1>3, <3>1 DEF Followed
      <4>3. QED
        BY <4>1, <4>2
    <3>7. next = Advanced(call)
      BY <2>1
    <3>8. QED
      BY <1>2, <3>5, <3>6, <3>7, AdvancedInOrder
  <2>2. CASE ~ stage.tolerant
    <3>1. /\ refused \in CallRecords /\ refused.pc = "refused" /\ refused.method = call.method
          /\ refused.at = call.at /\ refused.beside = call.beside
      BY <1>2 DEF CallRecords
    <3>2. next = refused
      BY <2>2
    <3> HIDE DEF refused
    <3>3. QED
      BY <1>2, <1>4, <3>1, <3>2 DEF CallInOrder
  <2>3. QED
    BY <2>1, <2>2
<1> HIDE DEF next
<1>6. krCalls' \in [KeycloakCallers -> CallRecords]
  BY <1>1, <1>5, CallsOf
<1>7. /\ \A d \in KeycloakCallers : CallInOrder(krCalls'[d], krRealm')
                                   /\ krCalls'[d].beside = krCalls[d].beside
      /\ \A d \in KeycloakCallers \ {c} : krCalls'[d].pc = krCalls[d].pc
  BY <1>1, <1>5, CallsOf
<1>8. Running(c) /\ "globalIdp" \notin krRealm' /\ krRealm' \subseteq Items
  BY <1>1, CallsOf DEF Running, KRInv
<1>9. QED
  BY <1>1, <1>6, <1>7, <1>8, OthersRun

LEMMA RealmInitial == KRInit => KRInv
<1> SUFFICES ASSUME KRInit PROVE KRInv
  OBVIOUS
<1>1. NoKeycloakCall \in CallRecords /\ NoKeycloakCall.pc = "idle" /\ NoKeycloakCall.at = 1
  BY DEF NoKeycloakCall, CallRecords, Methods
<1>2. 1 <= Len(Stages(NoKeycloakCall.method))
  <2>1. NoKeycloakCall.method \in Methods
    BY DEF NoKeycloakCall, Methods
  <2> DEFINE n == Len(Stages(NoKeycloakCall.method))
  <2>2. n \in 1..3
    BY <2>1, StagesSound
  <2> HIDE DEF n
  <2>3. 1 <= n
    BY <2>2
  <2>4. QED
    BY <2>3 DEF n
<1>3. /\ krRealm = {} /\ krCount = 0 /\ krCalls \in [KeycloakCallers -> CallRecords]
      /\ \A c \in KeycloakCallers : krCalls[c] = NoKeycloakCall
  BY <1>1 DEF KRInit
<1>4. KRTypeOK
  BY <1>3, KeycloakAssumption DEF KRTypeOK, CallRecords, Items
<1>5. \A c \in KeycloakCallers : CallInOrder(krCalls[c], krRealm) /\ ~ Running(c)
  BY <1>1, <1>2, <1>3 DEF CallInOrder, Running
<1>6. QED
  BY <1>1, <1>3, <1>4, <1>5 DEF KRInv

(* The inductive invariant of the adapter's calls: what a call has ensured *)
(* is there or was removed since, and what it is about to write Keycloak   *)
(* will accept as long as no other call is beside it.                      *)
THEOREM RealmInvariance == KRSpec => []KRInv
<1>1. ASSUME KRInv, [KRNext]_krVars PROVE KRInv'
  <2>1. CASE RealmSetUp
    BY <1>1, <2>1, RealmSetUpInOrder
  <2>2. CASE \E c \in KeycloakCallers : \E m \in Methods : KeycloakCall(c, m)
    BY <1>1, <2>2, KeycloakCallInOrder
  <2>3. CASE \E c \in KeycloakCallers : KeycloakLook(c)
    BY <1>1, <2>3, KeycloakLookInOrder
  <2>4. CASE \E c \in KeycloakCallers : RolesUnmatched(c)
    BY <1>1, <2>4, RolesUnmatchedInOrder
  <2>5. CASE \E c \in KeycloakCallers : KeycloakWrite(c)
    BY <1>1, <2>5, KeycloakWriteInOrder
  <2>6. CASE \E c \in KeycloakCallers : KeycloakRefuses(c)
    BY <1>1, <2>6, KeycloakRefusesInOrder
  <2>7. CASE UNCHANGED krVars
    BY <1>1, <2>7 DEF krVars, KRInv, KRTypeOK, CallInOrder, Behind, StageOf, Running
  <2>8. QED
    BY <1>1, <2>1, <2>2, <2>3, <2>4, <2>5, <2>6, <2>7 DEF KRNext
<1>2. QED
  BY <1>1, RealmInitial, PTL DEF KRSpec

(* No call of the adapter returns with something of what it is to ensure   *)
(* missing that it did not pass over and nobody removed, and Keycloak      *)
(* refuses no write of a call that ran alone, but for                      *)
(* ensureIdentityProvider.                                                 *)
THEOREM CallsSafe == KRSpec => []CallsSettle
<1>1. ASSUME KRInv PROVE CallsSettle
  <2> SUFFICES ASSUME NEW c \in KeycloakCallers
               PROVE  LET call == krCalls[c]
                      IN  /\ call.pc = "done" =>
                                Created(call) \ (call.passed \cup call.undone) \subseteq krRealm
                          /\ call.pc = "refused" =>
                                call.beside \/ call.method = "ensureIdentityProvider"
    BY DEF CallsSettle
  <2> DEFINE call == krCalls[c]
  <2>1. CallInOrder(call, krRealm)
    BY <1>1 DEF KRInv
  <2>2. ASSUME call.pc = "done"
        PROVE  Created(call) \ (call.passed \cup call.undone) \subseteq krRealm
    <3>1. Behind(call) = 1..Len(Stages(call.method))
      BY <2>2 DEF Behind
    <3>2. \A i \in 1..Len(Stages(call.method)) :
             Stages(call.method)[i].creates \subseteq krRealm \cup call.passed \cup call.undone
      BY <2>1, <2>2, <3>1 DEF CallInOrder
    <3>3. QED
      BY <3>2 DEF Created
  <2>3. call.pc = "refused" => call.beside \/ call.method = "ensureIdentityProvider"
    BY <2>1 DEF CallInOrder
  <2>4. QED
    BY <2>2, <2>3
<1>2. QED
  BY <1>1, RealmInvariance, PTL

=============================================================================
