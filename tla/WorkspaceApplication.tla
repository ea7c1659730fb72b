------------------------ MODULE WorkspaceApplication ------------------------
(***************************************************************************)
(* One WorkspaceApplication resource in a tenant's cluster and the handlers*)
(* of the tenant agent controller that look after it (main.py): create,    *)
(* delete and the status timer, each of which reads and changes the        *)
(* KubeVela addon that does the work (workspace_app.py, addon_handlers.py).*)
(* Applications share nothing, so one stands for all.                      *)
(*                                                                         *)
(* The controller is a kopf operator.  kopf runs one create or delete      *)
(* handler of a resource at a time, beside the timer; it tries a handler   *)
(* that raised again; it sends what a handler put into its patch after the *)
(* handler has returned or raised, the metadata first and then the status, *)
(* which is a subresource; the mark that a handler is done travels with    *)
(* the metadata.  Because of the timer it puts a finalizer of its own on   *)
(* the resource and lifts it when the delete handler is done and no timer  *)
(* runs.  Kubernetes lets nobody add a finalizer to a resource that is     *)
(* being deleted, and removes the resource when the last one is gone.      *)
(***************************************************************************)
EXTENDS Naturals

CONSTANT MaxCrashes   \* bound on the restarts of the operator

ASSUME CrashesAssumption == MaxCrashes \in Nat

VARIABLES
    cr,         \* the custom resource
    handler,    \* the create or delete handler that runs, and its patch
    timer,      \* the phase a run of the timer is about to patch, if any
    addon,      \* status of the KubeVela application addon-<name>
    swallowed,  \* history: an uninstall failed and nobody was told
    hasRun,     \* history: the addon was running in the life of this resource
    crashes     \* restarts of the operator so far

vars == <<cr, handler, timer, addon, swallowed, hasRun, crashes>>

-----------------------------------------------------------------------------
(* The phases the CRD admits that the code sets; "" is no phase yet. *)
Phases == {"Reconciling", "Ready", "Failed", "Deleting"}

(* KubeVela's status, up to what the code tells apart: "starting" stands   *)
(* for runningWorkflow and whatever else is none of the others.            *)
AddonStatuses == {"absent", "starting", "running", "failed", "deleting"}

(* `adopted': kopf's finalizer is on; `finalizer': the controller's own    *)
(* is; `created', `cleaned': the create or delete handler is done.         *)
Resources == [state : {"absent", "live", "deleting"},
              adopted : BOOLEAN, finalizer : BOOLEAN,
              created : BOOLEAN, cleaned : BOOLEAN,
              phase : Phases \cup {""}]

(* `phase' and `ok': what the patch will say, and whether the handler      *)
(* returned; `adds': the patch adds the controller's finalizer.            *)
Handlers == [pc : {"none", "createRead", "createInstall", "createPatch",
                   "deleteRead", "deleteCleanup", "deletePatch", "statusPatch"},
             phase : Phases \cup {""}, ok : BOOLEAN, adds : BOOLEAN]

NoResource == [state |-> "absent", adopted |-> FALSE, finalizer |-> FALSE,
               created |-> FALSE, cleaned |-> FALSE, phase |-> ""]
NoHandler == [pc |-> "none", phase |-> "", ok |-> FALSE, adds |-> FALSE]

Init == /\ cr = NoResource
        /\ handler = NoHandler
        /\ timer = "idle"
        /\ addon = "absent"
        /\ swallowed = FALSE
        /\ hasRun = FALSE
        /\ crashes = 0

-----------------------------------------------------------------------------
(* The decisions of the code, some beside the form a slip would give them. *)

(* The phase the create handler ends with. *)
OutcomeCreating(ok) == IF ok THEN "Creating" ELSE "Failed"
Outcome(ok) == IF ok THEN "Reconciling" ELSE "Failed"

(* The delete handler uninstalls an addon that is not gone or going. *)
NeedsUninstallRunning(status) == status = "running"
NeedsUninstall(status) == status \notin {"absent", "deleting"}

(* The phase the timer gives a Reconciling resource; "idle" is none. *)
TimerPhaseEager(status) == IF status = "failed" THEN "Failed" ELSE "Ready"
TimerPhase(status) ==
    IF status = "running" THEN "Ready"
    ELSE IF status = "failed" THEN "Failed" ELSE "idle"

(* Does the handler's patch carry the controller's finalizer? *)
ForgetsFinalizer(resource) == FALSE
AddsFinalizer(resource) == ~ resource.finalizer

-----------------------------------------------------------------------------
(* The user, kopf and KubeVela *)

CreateResource ==
    /\ cr.state = "absent"
    /\ cr' = [NoResource EXCEPT !.state = "live"]
    /\ hasRun' = (addon = "running")
    /\ UNCHANGED <<handler, timer, addon, swallowed, crashes>>

DeleteResource ==
    /\ cr.state = "live"
    /\ cr' = IF cr.adopted THEN [cr EXCEPT !.state = "deleting"] ELSE NoResource
    /\ UNCHANGED <<handler, timer, addon, swallowed, hasRun, crashes>>

Adopt ==
    /\ cr.state = "live"
    /\ ~ cr.adopted
    /\ cr' = [cr EXCEPT !.adopted = TRUE]
    /\ UNCHANGED <<handler, timer, addon, swallowed, hasRun, crashes>>

(* The operator dies and is started again. *)
Crash ==
    /\ crashes < MaxCrashes
    /\ crashes' = crashes + 1
    /\ handler' = NoHandler
    /\ timer' = "idle"
    /\ UNCHANGED <<cr, addon, swallowed, hasRun>>

AddonChanges ==
    /\ \E s \in AddonStatuses :
          /\ <<addon, s>> \in {<<"starting", "running">>, <<"starting", "failed">>,
                               <<"running", "starting">>, <<"failed", "starting">>,
                               <<"running", "failed">>, <<"failed", "running">>}
          /\ addon' = s
          /\ hasRun' = (hasRun \/ s = "running")
    /\ UNCHANGED <<cr, handler, timer, swallowed, crashes>>

(* Somebody else uninstalls the addon. *)
AddonRemoved ==
    /\ addon \in {"starting", "running", "failed"}
    /\ addon' = "deleting"
    /\ UNCHANGED <<cr, handler, timer, swallowed, hasRun, crashes>>

AddonGone ==
    /\ addon = "deleting"
    /\ addon' = "absent"
    /\ swallowed' = FALSE
    /\ UNCHANGED <<cr, handler, timer, hasRun, crashes>>

-----------------------------------------------------------------------------
(* workspace_app_on_create *)

CreateStart ==
    /\ cr.state = "live" /\ cr.adopted /\ ~ cr.created
    /\ handler.pc = "none"
    /\ handler' = [NoHandler EXCEPT !.pc = "createRead", !.adds = AddsFinalizer(cr)]
    /\ UNCHANGED <<cr, timer, addon, swallowed, hasRun, crashes>>

CreateEnds(ok) ==
    handler' = [handler EXCEPT !.pc = "createPatch", !.phase = Outcome(ok), !.ok = ok]

(* reconcile_workspace_app installs the addon unless it finds one, of      *)
(* whatever status.  The API may refuse to answer.                         *)
CreateRead ==
    /\ handler.pc = "createRead"
    /\ \/ addon = "absent" /\ handler' = [handler EXCEPT !.pc = "createInstall"]
       \/ addon # "absent" /\ CreateEnds(TRUE)
       \/ CreateEnds(FALSE)
    /\ UNCHANGED <<cr, timer, addon, swallowed, hasRun, crashes>>

(* install_vela_addon: rendering may fail, the addon may exist by now, the *)
(* answer of the API may be lost after it has created the addon.           *)
CreateInstall ==
    /\ handler.pc = "createInstall"
    /\ \/ addon = "absent" /\ addon' = "starting" /\ CreateEnds(TRUE)
       \/ addon = "absent" /\ addon' = "starting" /\ CreateEnds(FALSE)
       \/ UNCHANGED addon /\ CreateEnds(FALSE)
    /\ UNCHANGED <<cr, timer, swallowed, hasRun, crashes>>

(* The metadata of the patch: the finalizer, and the mark that the handler *)
(* is done.  All of it is refused if it adds a finalizer too late.         *)
CreatePatch ==
    /\ handler.pc = "createPatch"
    /\ IF cr.state = "deleting" /\ handler.adds
       THEN /\ handler' = NoHandler
            /\ UNCHANGED cr
       ELSE /\ handler' = [handler EXCEPT !.pc = "statusPatch"]
            /\ cr' = [cr EXCEPT !.finalizer = @ \/ handler.adds,
                                !.created = handler.ok]
    /\ UNCHANGED <<timer, addon, swallowed, hasRun, crashes>>

-----------------------------------------------------------------------------
(* workspace_app_on_delete *)

DeleteStart ==
    /\ cr.state = "deleting" /\ ~ cr.cleaned
    /\ handler.pc = "none"
    /\ handler' = [NoHandler EXCEPT !.pc = "deleteRead", !.phase = "Deleting"]
    /\ UNCHANGED <<cr, timer, addon, swallowed, hasRun, crashes>>

DeleteEnds(ok) == handler' = [handler EXCEPT !.pc = "deletePatch", !.ok = ok]

DeleteReadAnswered ==
    /\ handler.pc = "deleteRead"
    /\ \/ NeedsUninstall(addon) /\ handler' = [handler EXCEPT !.pc = "deleteCleanup"]
       \/ ~ NeedsUninstall(addon) /\ DeleteEnds(TRUE)
    /\ UNCHANGED <<cr, timer, addon, swallowed, hasRun, crashes>>

DeleteReadFails ==
    /\ handler.pc = "deleteRead"
    /\ DeleteEnds(FALSE)
    /\ UNCHANGED <<cr, timer, addon, swallowed, hasRun, crashes>>

(* cleanup_workspace_app_resources looks again, and uninstall_vela_addon   *)
(* returns as if nothing had happened when the vela command fails.         *)
DeleteCleanup ==
    /\ handler.pc = "deleteCleanup"
    /\ addon # "absent"
    /\ DeleteEnds(TRUE)
    /\ \/ addon' = "deleting" /\ UNCHANGED swallowed
       \/ swallowed' = TRUE /\ UNCHANGED addon
    /\ UNCHANGED <<cr, timer, hasRun, crashes>>

(* The second look fails, or finds no addon any more: a bare raise, which  *)
(* outside any except clause is an error of its own.                       *)
DeleteCleanupRaises ==
    /\ handler.pc = "deleteCleanup"
    /\ DeleteEnds(FALSE)
    /\ UNCHANGED <<cr, timer, addon, swallowed, hasRun, crashes>>

(* kopf lifts its finalizer when the handler is done and no timer runs.    *)
(* The resource goes if the controller's finalizer is not on it, and there *)
(* is no status to patch: that a resource of the same name is made before  *)
(* the status is sent is left out.                                         *)
DeletePatch ==
    /\ handler.pc = "deletePatch"
    /\ IF ~ handler.ok
       THEN UNCHANGED cr
       ELSE /\ timer = "idle"
            /\ cr' = IF cr.finalizer THEN [cr EXCEPT !.cleaned = TRUE] ELSE NoResource
    /\ handler' = IF cr'.state = "absent" THEN NoHandler
                  ELSE [handler EXCEPT !.pc = "statusPatch"]
    /\ UNCHANGED <<timer, addon, swallowed, hasRun, crashes>>

(* The status of either patch. *)
StatusPatch ==
    /\ handler.pc = "statusPatch"
    /\ cr' = [cr EXCEPT !.phase = handler.phase]
    /\ handler' = NoHandler
    /\ UNCHANGED <<timer, addon, swallowed, hasRun, crashes>>

-----------------------------------------------------------------------------
(* workspace_app_status_sync *)

TimerRead ==
    /\ cr.state = "live" /\ cr.adopted
    /\ cr.phase = "Reconciling"
    /\ timer = "idle"
    /\ addon # "absent"
    /\ timer' = TimerPhase(addon)
    /\ UNCHANGED <<cr, handler, addon, swallowed, hasRun, crashes>>

(* The patch is sent even if the resource is being deleted by now. *)
TimerPatch ==
    /\ timer # "idle"
    /\ cr' = IF cr.state = "absent" THEN cr ELSE [cr EXCEPT !.phase = timer]
    /\ timer' = "idle"
    /\ UNCHANGED <<handler, addon, swallowed, hasRun, crashes>>

-----------------------------------------------------------------------------
Controller == \/ CreateStart \/ CreateRead \/ CreateInstall \/ CreatePatch
              \/ DeleteStart \/ DeleteReadAnswered \/ DeleteReadFails
              \/ DeleteCleanup \/ DeleteCleanupRaises
              \/ DeletePatch \/ StatusPatch

Next == \/ CreateResource \/ DeleteResource \/ Adopt \/ Crash
        \/ AddonChanges \/ AddonRemoved \/ AddonGone
        \/ Controller
        \/ TimerRead \/ TimerPatch

Spec == Init /\ [][Next]_vars

(* kopf keeps running handlers, their patches and the timer; the API       *)
(* answers a delete handler that asks again and again; KubeVela completes  *)
(* a deletion.  Users need not do anything, and vela may fail each time.   *)
Fairness == /\ WF_vars(Controller)
            /\ SF_vars(DeleteReadAnswered)
            /\ SF_vars(DeleteCleanup)
            /\ WF_vars(TimerPatch)
            /\ WF_vars(TimerRead)
            /\ WF_vars(AddonGone)

FairSpec == Spec /\ Fairness

-----------------------------------------------------------------------------
(* Properties *)

(* The resource stays within its CRD: every phase the handlers set is one  *)
(* the API server admits.                                                  *)
TypeOK == /\ cr \in Resources
          /\ handler \in Handlers
          /\ timer \in {"idle", "Ready", "Failed"}
          /\ addon \in AddonStatuses
          /\ swallowed \in BOOLEAN
          /\ hasRun \in BOOLEAN
          /\ crashes \in 0..MaxCrashes

(* The resource does not go while its addon is left installed, whenever it *)
(* was deleted and wherever the operator was restarted, unless an          *)
(* uninstall has failed silently.                                          *)
NoOrphan == cr.state = "absent" /\ ~ swallowed => addon \in {"absent", "deleting"}

(* A resource that shows a phase carries the controller's finalizer, so    *)
(* whatever is shown to be there cannot be deleted behind its back.        *)
ProtectedOnceShown == cr.state = "live" /\ cr.phase # "" => cr.finalizer

(* Ready is shown only for an addon that was seen running in the life of   *)
(* this very resource, not for the remains of an earlier one.              *)
ReadyHasRun == cr.phase = "Ready" => hasRun

(* A deletion reaches the addon: it goes, if no uninstall fails silently,  *)
(* however the look-ups fail and wherever the operator is restarted.       *)
DeletionReachesAddon ==
    cr.state = "deleting" ~> addon = "absent" \/ swallowed

(* A resource that is being deleted goes. *)
DeletionCompletes == cr.state = "deleting" ~> cr.state # "deleting"

-----------------------------------------------------------------------------
(* The inductive invariant *)

(* An addon is left installed only if an uninstall has failed silently. *)
AddonCleared == swallowed \/ addon \in {"absent", "deleting"}

(* Where the resource cannot have an addon of its own - it is gone, or kopf *)
(* has not put its finalizer on yet - nothing runs for it and nothing of   *)
(* an earlier life is left over.  Without the second part an orphan could  *)
(* come back when the next resource of the name is made.                   *)
NothingRuns ==
    cr.state = "absent" \/ ~ cr.adopted =>
        /\ handler = NoHandler
        /\ timer = "idle"
        /\ AddonCleared
LifeInOrder == /\ cr.state = "absent" => cr = NoResource
               /\ cr.state = "deleting" => cr.adopted

(* A delete handler runs for a resource that is being deleted; one that    *)
(* has returned leaves the addon going or gone, and no later step of the   *)
(* controller brings it back, for no create handler runs beside it.        *)
DeleteHandlerInPlace ==
    /\ handler.pc \in {"deleteRead", "deleteCleanup", "deletePatch"} =>
           cr.state = "deleting"
    /\ handler.pc = "deletePatch" /\ handler.ok => AddonCleared

(* What is about to be shown of a live resource is preceded by the         *)
(* finalizer: it is on already, or the patch in the making brings it.      *)
ProtectedBeforeShown ==
    /\ handler.pc \in {"createRead", "createInstall", "createPatch"} =>
           handler.adds \/ cr.finalizer
    /\ cr.state = "live" /\ (handler.pc = "statusPatch" \/ timer # "idle") =>
           cr.finalizer
    /\ ProtectedOnceShown

(* The phase Ready comes from the timer only, which has seen the addon run. *)
ReadyWasSeen ==
    /\ addon = "running" /\ cr.state # "absent" => hasRun
    /\ handler.phase # "Ready"
    /\ timer = "Ready" => hasRun
    /\ ReadyHasRun

IInv == /\ TypeOK
        /\ NothingRuns
        /\ LifeInOrder
        /\ DeleteHandlerInPlace
        /\ ProtectedBeforeShown
        /\ ReadyWasSeen
=============================================================================
