---------------------- MODULE WorkspaceApplicationProofs ----------------------
(***************************************************************************)
(* Proofs about WorkspaceApplication for any number of operator restarts.  *)
(***************************************************************************)
EXTENDS WorkspaceApplication, TLAPS

(* The blank resource and the blank handler are well-typed ... *)
LEMMA EmptyApp == NoResource \in Resources /\ NoHandler \in Handlers
BY DEF NoResource, NoHandler, Resources, Handlers

(* ... and what their fields say. *)
LEMMA BlankFields ==
    /\ NoHandler.pc = "none" /\ NoHandler.phase = ""
    /\ NoResource.state = "absent" /\ NoResource.phase = ""
    /\ NoResource.adopted = FALSE
BY DEF NoHandler, NoResource

-----------------------------------------------------------------------------
(* Type correctness *)

LEMMA AppInitTypeOK == Init => TypeOK
<1> SUFFICES ASSUME Init PROVE TypeOK
  OBVIOUS
<1>1. crashes \in 0..MaxCrashes
  BY CrashesAssumption DEF Init
<1>2. QED
  BY <1>1, EmptyApp DEF Init, TypeOK, AddonStatuses

(* How a create handler ends, and how a delete handler does. *)
LEMMA CreateEndsTyped ==
    ASSUME NEW ok \in BOOLEAN, handler \in Handlers, CreateEnds(ok)
    PROVE  handler' \in Handlers
BY DEF CreateEnds, Outcome, Handlers, Phases

LEMMA DeleteEndsTyped ==
    ASSUME NEW ok \in BOOLEAN, handler \in Handlers, DeleteEnds(ok)
    PROVE  handler' \in Handlers
BY DEF DeleteEnds, Handlers

LEMMA AppNextTypeOK == TypeOK /\ [Next]_vars => TypeOK'
<1> SUFFICES ASSUME TypeOK, [Next]_vars PROVE TypeOK'
  OBVIOUS
<1> USE EmptyApp DEF TypeOK
<1>1. CASE CreateResource
  BY <1>1 DEF CreateResource, NoResource, Resources
<1>2. CASE DeleteResource
  <2>1. [cr EXCEPT !.state = "deleting"] \in Resources
    BY DEF Resources
  <2>2. QED
    BY <1>2, <2>1 DEF DeleteResource
<1>3. CASE Adopt
  BY <1>3 DEF Adopt, Resources
<1>4. CASE Crash
  BY <1>4, CrashesAssumption DEF Crash
<1>5. CASE AddonChanges
  BY <1>5 DEF AddonChanges
<1>6. CASE AddonRemoved \/ AddonGone
  BY <1>6 DEF AddonRemoved, AddonGone, AddonStatuses
<1>7. CASE CreateStart \/ DeleteStart
  <2>1. AddsFinalizer(cr) \in BOOLEAN
    BY DEF AddsFinalizer
  <2>2. [NoHandler EXCEPT !.pc = "createRead", !.adds = AddsFinalizer(cr)] \in Handlers
    BY <2>1 DEF NoHandler, Handlers
  <2>3. [NoHandler EXCEPT !.pc = "deleteRead", !.phase = "Deleting"] \in Handlers
    BY DEF NoHandler, Handlers, Phases
  <2>4. QED
    BY <1>7, <2>2, <2>3 DEF CreateStart, DeleteStart
<1>8. CASE CreateRead
  <2>1. [handler EXCEPT !.pc = "createInstall"] \in Handlers
    BY DEF Handlers
  <2>2. QED
    BY <1>8, <2>1, CreateEndsTyped DEF CreateRead
<1>9. CASE CreateInstall
  <2>1. handler' \in Handlers
    BY <1>9, CreateEndsTyped DEF CreateInstall
  <2>2. addon' \in AddonStatuses
    BY <1>9 DEF CreateInstall, AddonStatuses
  <2>3. QED
    BY <1>9, <2>1, <2>2 DEF CreateInstall
<1>10. CASE CreatePatch
  <2>1. [handler EXCEPT !.pc = "statusPatch"] \in Handlers
    BY DEF Handlers
  <2>2. [cr EXCEPT !.finalizer = @ \/ handler.adds, !.created = handler.ok]
          \in Resources
    BY DEF Resources, Handlers
  <2>3. QED
    BY <1>10, <2>1, <2>2 DEF CreatePatch
<1>11. CASE DeleteReadAnswered
  <2>1. [handler EXCEPT !.pc = "deleteCleanup"] \in Handlers
    BY DEF Handlers
  <2>2. QED
    BY <1>11, <2>1, DeleteEndsTyped DEF DeleteReadAnswered
<1>12. CASE DeleteReadFails \/ DeleteCleanupRaises
  BY <1>12, DeleteEndsTyped DEF DeleteReadFails, DeleteCleanupRaises
<1>13. CASE DeleteCleanup
  <2>1. addon' \in AddonStatuses /\ swallowed' \in BOOLEAN
    BY <1>13 DEF DeleteCleanup, AddonStatuses
  <2>2. QED
    BY <1>13, <2>1, DeleteEndsTyped DEF DeleteCleanup
<1>14. CASE DeletePatch
  <2>1. [handler EXCEPT !.pc = "statusPatch"] \in Handlers
    BY DEF Handlers
  <2>2. [cr EXCEPT !.cleaned = TRUE] \in Resources
    BY DEF Resources
  <2>3. QED
    BY <1>14, <2>1, <2>2 DEF DeletePatch
<1>15. CASE StatusPatch
  BY <1>15 DEF StatusPatch, Resources, Handlers
<1>16. CASE TimerRead
  <2>1. TimerPhase(addon) \in {"idle", "Ready", "Failed"}
    BY DEF TimerPhase
  <2>2. QED
    BY <1>16, <2>1 DEF TimerRead
<1>17. CASE TimerPatch
  <2>1. [cr EXCEPT !.phase = timer] \in Resources
    BY <1>17 DEF TimerPatch, Resources, Phases
  <2>2. QED
    BY <1>17, <2>1 DEF TimerPatch
<1>18. CASE UNCHANGED vars
  BY <1>18 DEF vars
<1>19. QED
  BY <1>1, <1>2, <1>3, <1>4, <1>5, <1>6, <1>7, <1>8, <1>9, <1>10, <1>11,
     <1>12, <1>13, <1>14, <1>15, <1>16, <1>17, <1>18 DEF Next, Controller

-----------------------------------------------------------------------------
(* The inductive invariant: it holds initially ... *)

LEMMA AppInitIInv == Init => IInv
<1> SUFFICES ASSUME Init PROVE IInv
  OBVIOUS
<1>1. TypeOK
  BY AppInitTypeOK
<1>2. NothingRuns /\ LifeInOrder /\ DeleteHandlerInPlace
  BY DEF Init, NothingRuns, LifeInOrder, DeleteHandlerInPlace,
         AddonCleared, NoHandler, NoResource
<1>3. ProtectedBeforeShown /\ ReadyWasSeen
  BY DEF Init, ProtectedBeforeShown, ReadyWasSeen, ProtectedOnceShown,
         ReadyHasRun, NoHandler, NoResource
<1>4. QED
  BY <1>1, <1>2, <1>3 DEF IInv

(* A handler or the timer at work has a resource that kopf holds on to. *)
LEMMA BusyIsAdopted ==
    ASSUME TypeOK, NothingRuns, handler.pc # "none" \/ timer # "idle"
    PROVE  cr.state \in {"live", "deleting"} /\ cr.adopted
<1>1. cr.state # "absent" /\ cr.adopted
  BY BlankFields DEF NothingRuns
<1>2. cr.state \in {"absent", "live", "deleting"}
  BY DEF TypeOK, Resources
<1>3. QED
  BY <1>1, <1>2

(* ... and every step preserves it: a step of the user, kopf or KubeVela   *)
(* (1 to 7), of the create handler (8 to 11), of the delete handler (12 to *)
(* 17), the status of either (18), the timer (19 and 20).                  *)
LEMMA AppNextIInv == IInv /\ [Next]_vars => IInv'
<1> SUFFICES ASSUME IInv, [Next]_vars PROVE IInv'
  OBVIOUS
<1>1. TypeOK'
  BY AppNextTypeOK DEF IInv
<1> USE DEF IInv, TypeOK, NothingRuns, LifeInOrder, DeleteHandlerInPlace,
            ProtectedBeforeShown, ReadyWasSeen, AddonCleared,
            ProtectedOnceShown, ReadyHasRun
<1>2. CASE CreateResource
  <2> USE <1>2 DEF CreateResource
  <2>1. /\ cr'.state = "live" /\ cr'.phase = ""
        /\ ~ cr'.adopted /\ handler' = NoHandler /\ timer' = "idle"
    BY DEF NoResource
  <2>2. handler'.pc = "none" /\ handler'.phase = ""
    BY <2>1, BlankFields
  <2>3. NothingRuns' /\ LifeInOrder' /\ DeleteHandlerInPlace'
    BY <2>1, <2>2
  <2>4. ProtectedBeforeShown'
    BY <2>1, <2>2
  <2>5. addon' = "running" => hasRun'
    OBVIOUS
  <2>6. ReadyWasSeen'
    BY <2>1, <2>2, <2>5
  <2>7. QED
    BY <1>1, <2>3, <2>4, <2>6
<1>3. CASE DeleteResource
  <2> USE <1>3 DEF DeleteResource
  <2>1. CASE cr.adopted
    <3>1. /\ cr'.state = "deleting" /\ cr'.adopted
          /\ cr'.finalizer = cr.finalizer /\ cr'.phase = cr.phase
      BY <2>1 DEF Resources
    <3>2. NothingRuns' /\ LifeInOrder' /\ DeleteHandlerInPlace'
      BY <3>1
    <3>3. ProtectedBeforeShown' /\ ReadyWasSeen'
      BY <3>1
    <3>4. QED
      BY <1>1, <3>2, <3>3
  <2>2. CASE ~ cr.adopted
    <3>1. /\ cr' = NoResource /\ cr'.state = "absent" /\ cr'.phase = ""
          /\ handler' = NoHandler /\ timer' = "idle"
      BY <2>2 DEF NoResource
    <3>2. handler'.pc = "none" /\ handler'.phase = ""
      BY <3>1, BlankFields
    <3>3. NothingRuns' /\ LifeInOrder' /\ DeleteHandlerInPlace'
      BY <2>2, <3>1, <3>2
    <3>4. ProtectedBeforeShown' /\ ReadyWasSeen'
      BY <3>1, <3>2
    <3>5. QED
      BY <1>1, <3>3, <3>4
  <2>3. QED
    BY <2>1, <2>2
<1>4. CASE Adopt
  <2> USE <1>4 DEF Adopt
  <2>1. NothingRuns' /\ LifeInOrder' /\ DeleteHandlerInPlace'
    BY DEF Resources, Handlers, NoHandler
  <2>2. ProtectedBeforeShown' /\ ReadyWasSeen'
    BY DEF Resources, Handlers, NoHandler
  <2>3. QED
    BY <1>1, <2>1, <2>2
<1>5. CASE Crash
  <2> USE <1>5 DEF Crash
  <2>1. NothingRuns' /\ LifeInOrder' /\ DeleteHandlerInPlace'
    BY DEF Resources, Handlers, NoHandler
  <2>2. ProtectedBeforeShown' /\ ReadyWasSeen'
    BY DEF Resources, Handlers, NoHandler
  <2>3. QED
    BY <1>1, <2>1, <2>2
<1>6. CASE AddonChanges
  <2> USE <1>6 DEF AddonChanges
  <2>1. NothingRuns' /\ LifeInOrder' /\ DeleteHandlerInPlace'
    BY DEF Resources, Handlers, NoHandler
  <2>2. ProtectedBeforeShown' /\ ReadyWasSeen'
    BY DEF Resources, Handlers, NoHandler
  <2>3. QED
    BY <1>1, <2>1, <2>2
<1>7. CASE AddonRemoved
  <2> USE <1>7 DEF AddonRemoved
  <2>1. NothingRuns' /\ LifeInOrder' /\ DeleteHandlerInPlace'
    BY DEF Resources, Handlers, NoHandler
  <2>2. ProtectedBeforeShown' /\ ReadyWasSeen'
    BY DEF Resources, Handlers, NoHandler
  <2>3. QED
    BY <1>1, <2>1, <2>2
<1>8. CASE AddonGone
  <2> USE <1>8 DEF AddonGone
  <2>1. NothingRuns' /\ LifeInOrder' /\ DeleteHandlerInPlace'
    BY DEF Resources, Handlers, NoHandler
  <2>2. ProtectedBeforeShown' /\ ReadyWasSeen'
    BY DEF Resources, Handlers, NoHandler
  <2>3. QED
    BY <1>1, <2>1, <2>2
<1>9. CASE CreateStart
  <2> USE <1>9 DEF CreateStart, AddsFinalizer
  <2>1. NothingRuns' /\ LifeInOrder' /\ DeleteHandlerInPlace'
    BY DEF Resources, Handlers, NoHandler
  <2>2. ProtectedBeforeShown' /\ ReadyWasSeen'
    BY DEF Resources, Handlers, NoHandler
  <2>3. QED
    BY <1>1, <2>1, <2>2
<1>10. CASE CreateRead
  <2> USE <1>10 DEF CreateRead, CreateEnds, Outcome
  <2>1. /\ handler'.pc \in {"createInstall", "createPatch"}
        /\ handler'.adds = handler.adds /\ handler'.phase # "Ready"
    BY DEF Handlers
  <2>2. NothingRuns' /\ LifeInOrder' /\ DeleteHandlerInPlace'
    BY <2>1, BusyIsAdopted
  <2>3. ProtectedBeforeShown' /\ ReadyWasSeen'
    BY <2>1
  <2>4. QED
    BY <1>1, <2>2, <2>3
<1>11. CASE CreateInstall
  <2> USE <1>11 DEF CreateInstall, CreateEnds, Outcome
  <2>1. /\ handler'.pc = "createPatch"
        /\ handler'.adds = handler.adds /\ handler'.phase # "Ready"
    BY DEF Handlers
  <2>2. NothingRuns' /\ LifeInOrder' /\ DeleteHandlerInPlace'
    BY <2>1, BusyIsAdopted
  <2>3. ProtectedBeforeShown' /\ ReadyWasSeen'
    BY <2>1
  <2>4. QED
    BY <1>1, <2>2, <2>3
<1>12. CASE CreatePatch
  <2> USE <1>12 DEF CreatePatch
  <2>1. CASE cr.state = "deleting" /\ handler.adds
    <3>1. cr' = cr /\ handler' = NoHandler
      BY <2>1
    <3>2. handler'.pc = "none" /\ handler'.phase = ""
      BY <3>1, BlankFields
    <3>3. QED
      BY <1>1, <2>1, <3>1, <3>2
  <2>2. CASE ~ (cr.state = "deleting" /\ handler.adds)
    <3>1. /\ handler'.pc = "statusPatch"
          /\ handler'.phase = handler.phase
      BY <2>2 DEF Handlers
    <3>2. /\ cr'.state = cr.state /\ cr'.adopted = cr.adopted
          /\ cr'.phase = cr.phase
          /\ cr'.finalizer = (cr.finalizer \/ handler.adds)
      BY <2>2 DEF Resources
    <3>3. NothingRuns' /\ LifeInOrder' /\ DeleteHandlerInPlace'
      BY <3>1, <3>2, BusyIsAdopted
    <3>4. ProtectedBeforeShown' /\ ReadyWasSeen'
      BY <3>1, <3>2
    <3>5. QED
      BY <1>1, <3>3, <3>4
  <2>3. QED
    BY <2>1, <2>2
<1>13. CASE DeleteStart
  <2> USE <1>13 DEF DeleteStart
  <2>1. NothingRuns' /\ LifeInOrder' /\ DeleteHandlerInPlace'
    BY DEF Resources, Handlers, NoHandler
  <2>2. ProtectedBeforeShown' /\ ReadyWasSeen'
    BY DEF Resources, Handlers, NoHandler
  <2>3. QED
    BY <1>1, <2>1, <2>2
<1>14. CASE DeleteReadAnswered
  <2> USE <1>14 DEF DeleteReadAnswered, DeleteEnds, NeedsUninstall
  <2>1. NothingRuns' /\ LifeInOrder' /\ DeleteHandlerInPlace'
    BY DEF Resources, Handlers, NoHandler
  <2>2. ProtectedBeforeShown' /\ ReadyWasSeen'
    BY DEF Resources, Handlers, NoHandler
  <2>3. QED
    BY <1>1, <2>1, <2>2
<1>15. CASE DeleteReadFails
  <2> USE <1>15 DEF DeleteReadFails, DeleteEnds
  <2>1. NothingRuns' /\ LifeInOrder' /\ DeleteHandlerInPlace'
    BY DEF Resources, Handlers, NoHandler
  <2>2. ProtectedBeforeShown' /\ ReadyWasSeen'
    BY DEF Resources, Handlers, NoHandler
  <2>3. QED
    BY <1>1, <2>1, <2>2
<1>16. CASE DeleteCleanup
  <2> USE <1>16 DEF DeleteCleanup, DeleteEnds
  <2>1. NothingRuns' /\ LifeInOrder' /\ DeleteHandlerInPlace'
    BY DEF Resources, Handlers, NoHandler
  <2>2. ProtectedBeforeShown' /\ ReadyWasSeen'
    BY DEF Resources, Handlers, NoHandler
  <2>3. QED
    BY <1>1, <2>1, <2>2
<1>17. CASE DeleteCleanupRaises
  <2> USE <1>17 DEF DeleteCleanupRaises, DeleteEnds
  <2>1. NothingRuns' /\ LifeInOrder' /\ DeleteHandlerInPlace'
    BY DEF Resources, Handlers, NoHandler
  <2>2. ProtectedBeforeShown' /\ ReadyWasSeen'
    BY DEF Resources, Handlers, NoHandler
  <2>3. QED
    BY <1>1, <2>1, <2>2
<1>18. CASE DeletePatch
  <2> USE <1>18 DEF DeletePatch
  <2>1. CASE ~ handler.ok
    <3>1. /\ cr' = cr /\ cr'.state = "deleting"
          /\ handler'.pc = "statusPatch" /\ handler'.phase = handler.phase
      BY <2>1 DEF Handlers
    <3>2. QED
      BY <1>1, <3>1
  <2>2. CASE handler.ok /\ cr.finalizer
    <3>1. /\ cr'.state = "deleting" /\ cr'.adopted
          /\ cr'.phase = cr.phase /\ cr'.finalizer
      BY <2>2 DEF Resources
    <3>2. handler'.pc = "statusPatch" /\ handler'.phase = handler.phase
      BY <3>1 DEF Handlers
    <3>3. QED
      BY <1>1, <3>1, <3>2
  <2>3. CASE handler.ok /\ ~ cr.finalizer
    <3>1. /\ cr' = NoResource /\ timer' = "idle"
          /\ cr'.state = "absent" /\ cr'.phase = ""
      BY <2>3, BlankFields
    <3>2. handler' = NoHandler
      BY <3>1
    <3>3. handler'.pc = "none" /\ handler'.phase = ""
      BY <3>2, BlankFields
    <3>4. NothingRuns' /\ LifeInOrder' /\ DeleteHandlerInPlace'
      BY <2>3, <3>1, <3>2, <3>3
    <3>5. ProtectedBeforeShown' /\ ReadyWasSeen'
      BY <3>1, <3>3
    <3>6. QED
      BY <1>1, <3>4, <3>5
  <2>4. QED
    BY <2>1, <2>2, <2>3
<1>19. CASE StatusPatch
  <2> USE <1>19 DEF StatusPatch
  <2>1. /\ cr'.state = cr.state /\ cr'.adopted = cr.adopted
        /\ cr'.finalizer = cr.finalizer /\ cr'.phase = handler.phase
    BY DEF Resources
  <2>2. NothingRuns' /\ LifeInOrder' /\ DeleteHandlerInPlace'
    BY <2>1, BusyIsAdopted DEF NoHandler
  <2>3. ProtectedBeforeShown' /\ ReadyWasSeen'
    BY <2>1 DEF NoHandler
  <2>4. QED
    BY <1>1, <2>2, <2>3
<1>20. CASE TimerRead
  <2> USE <1>20 DEF TimerRead, TimerPhase
  <2>1. NothingRuns' /\ LifeInOrder' /\ DeleteHandlerInPlace'
    BY DEF Resources, Handlers, NoHandler
  <2>2. ProtectedBeforeShown' /\ ReadyWasSeen'
    BY DEF Resources, Handlers, NoHandler
  <2>3. QED
    BY <1>1, <2>1, <2>2
<1>21. CASE TimerPatch
  <2> USE <1>21 DEF TimerPatch
  <2>1. NothingRuns' /\ LifeInOrder' /\ DeleteHandlerInPlace'
    BY DEF Resources, Handlers, NoHandler
  <2>2. ProtectedBeforeShown' /\ ReadyWasSeen'
    BY DEF Resources, Handlers, NoHandler
  <2>3. QED
    BY <1>1, <2>1, <2>2
<1>22. CASE UNCHANGED vars
  BY <1>22 DEF vars
<1>23. QED
  BY <1>2, <1>3, <1>4, <1>5, <1>6, <1>7, <1>8, <1>9, <1>10, <1>11, <1>12,
     <1>13, <1>14, <1>15, <1>16, <1>17, <1>18, <1>19, <1>20, <1>21, <1>22
  DEF Next, Controller

(* The inductive invariant holds in every reachable state. *)
THEOREM AppInvariance == Spec => []IInv
<1>1. Init => IInv
  BY AppInitIInv
<1>2. IInv /\ [Next]_vars => IInv'
  BY AppNextIInv
<1>3. QED
  BY <1>1, <1>2, PTL DEF Spec

-----------------------------------------------------------------------------
(* What follows *)

(* Every phase the handlers and the timer set is one the CRD admits. *)
THEOREM AppTypeCorrect == Spec => []TypeOK
<1>1. IInv => TypeOK
  BY DEF IInv
<1>2. QED
  BY <1>1, AppInvariance, PTL

(* The resource does not go while its addon is left installed, however    *)
(* often the operator restarts, unless an uninstall has failed silently.   *)
THEOREM NoOrphanSafe == Spec => []NoOrphan
<1>1. IInv => NoOrphan
  BY DEF IInv, NothingRuns, AddonCleared, NoOrphan
<1>2. QED
  BY <1>1, AppInvariance, PTL

(* A live resource that shows a phase carries the controller's finalizer. *)
THEOREM ProtectionSafe == Spec => []ProtectedOnceShown
<1>1. IInv => ProtectedOnceShown
  BY DEF IInv, ProtectedBeforeShown
<1>2. QED
  BY <1>1, AppInvariance, PTL

(* Ready is shown only for an addon seen running in this resource's life. *)
THEOREM ReadySafe == Spec => []ReadyHasRun
<1>1. IInv => ReadyHasRun
  BY DEF IInv, ReadyWasSeen
<1>2. QED
  BY <1>1, AppInvariance, PTL
=============================================================================
