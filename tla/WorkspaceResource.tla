-------------------------- MODULE WorkspaceResource --------------------------
(***************************************************************************)
(* The Workspace resource of a tenant's cluster, and the operator's start: *)
(* configure (main.py) installs the CRDs, creates the resource            *)
(* (workspace.py) and loads the certificate (agent_client.py); then kopf   *)
(* runs the create and delete handlers and the timer that reports to the   *)
(* control plane.  The report is a blocking call, so nothing else of the   *)
(* operator runs meanwhile; what a handler put into its patch is sent      *)
(* later.  What the API does with a report is in ClusterAgent.             *)
(***************************************************************************)
EXTENDS Naturals

CONSTANTS
    MaxCertificates,   \* bound on the certificates the cluster is given
    MaxStarts          \* bound on the starts of the operator

ASSUME WorkspaceResourceAssumption == MaxCertificates \in Nat /\ MaxStarts \in Nat

VARIABLES
    opStage,     \* how far the operator's start is
    opStarts,    \* starts so far
    opFiles,     \* the certificate in the files, 0 for none
    opValid,     \* the certificates that have not expired
    opClient,    \* the certificate the client was made of, 0 for no client
    wsResource,  \* the Workspace resource
    wsHandler,   \* the patch the create or delete handler is about to send
    wsTimer,     \* the patch the timer is about to send
    wsFailed     \* history: the timer has patched a failure since the create
                 \* handler's patch

opVars == <<opStage, opStarts, opFiles, opValid, opClient>>
wsVars == <<wsResource, wsHandler, wsTimer, wsFailed>>
wsAllVars == <<opVars, wsVars>>

OperatorStages == {"down", "crds", "resource", "client", "running"}
NoWorkspace == [state |-> "absent", adopted |-> FALSE, created |-> FALSE, phase |-> ""]

WSInit ==
    /\ opStage = "down" /\ opStarts = 0
    /\ opFiles = 0 /\ opValid = {} /\ opClient = 0
    /\ wsResource = NoWorkspace
    /\ wsHandler = "none" /\ wsTimer = "none"
    /\ wsFailed = FALSE

-----------------------------------------------------------------------------
(* The decisions of the code, beside the form a slip would give them.      *)

(* _validate_certificate_files                                             *)
FilesExist(certificate) == certificate # 0
FilesValid(certificate) == certificate \in opValid

(* The phase after a sync, "none" if it leaves the phase alone.            *)
PhaseAfterSyncHealing(ok) == IF ok THEN "Ready" ELSE "ReconciliationError"
PhaseAfterSync(ok) == IF ok THEN "none" ELSE "ReconciliationError"

(* The client after a sync: the one there was, whatever came of it.        *)
ClientReloaded(ok) == IF ok THEN opClient ELSE opFiles
ClientAfterSync(ok) == opClient

-----------------------------------------------------------------------------
(* The cluster around the operator                                         *)

(* The bootstrap script stores a certificate, the first or another one.    *)
StoreCertificate ==
    /\ opFiles < MaxCertificates
    /\ opFiles' = opFiles + 1
    /\ opValid' = opValid \cup {opFiles + 1}
    /\ UNCHANGED <<opStage, opStarts, opClient, wsVars>>

CertificateExpires(certificate) ==
    /\ opValid' = opValid \ {certificate}
    /\ UNCHANGED <<opStage, opStarts, opFiles, opClient, wsVars>>

Dies == /\ opStage' = "down"
        /\ opClient' = 0
        /\ wsHandler' = "none"
        /\ wsTimer' = "none"

OperatorCrashes ==
    /\ opStage # "down"
    /\ Dies
    /\ UNCHANGED <<opStarts, opFiles, opValid, wsResource, wsFailed>>

(* kopf puts its finalizer on the resource before anything else.           *)
AdoptWorkspace ==
    /\ opStage = "running"
    /\ wsResource.state = "live" /\ ~ wsResource.adopted
    /\ wsResource' = [wsResource EXCEPT !.adopted = TRUE]
    /\ UNCHANGED <<opVars, wsHandler, wsTimer, wsFailed>>

DeleteWorkspace ==
    /\ wsResource.state = "live"
    /\ wsResource' = IF wsResource.adopted
                     THEN [wsResource EXCEPT !.state = "deleting"] ELSE NoWorkspace
    /\ UNCHANGED <<opVars, wsHandler, wsTimer, wsFailed>>

-----------------------------------------------------------------------------
(* configure: an exception ends the operator, Kubernetes starts it again   *)

OperatorStarts ==
    /\ opStage = "down"
    /\ opStarts < MaxStarts
    /\ opStage' = "crds"
    /\ opStarts' = opStarts + 1
    /\ UNCHANGED <<opFiles, opValid, opClient, wsVars>>

InstallCrds ==
    /\ opStage = "crds"
    /\ opStage' = "resource"
    /\ UNCHANGED <<opStarts, opFiles, opValid, opClient, wsVars>>

(* A resource that is there, even one that is being deleted, is left.      *)
CreateWorkspaceCr ==
    /\ opStage = "resource"
    /\ opStage' = "client"
    /\ IF wsResource.state = "absent"
       THEN /\ wsResource' = [NoWorkspace EXCEPT !.state = "live"]
            /\ wsFailed' = FALSE
       ELSE UNCHANGED <<wsResource, wsFailed>>
    /\ UNCHANGED <<opStarts, opFiles, opValid, opClient, wsHandler, wsTimer>>

InitializeClient ==
    /\ opStage = "client"
    /\ FilesExist(opFiles) /\ FilesValid(opFiles)
    /\ opStage' = "running"
    /\ opClient' = opFiles
    /\ UNCHANGED <<opStarts, opFiles, opValid, wsVars>>

ConfigureRaises ==
    /\ \/ opStage \in {"crds", "resource"}
       \/ opStage = "client" /\ ~ (FilesExist(opFiles) /\ FilesValid(opFiles))
    /\ Dies
    /\ UNCHANGED <<opStarts, opFiles, opValid, wsResource, wsFailed>>

-----------------------------------------------------------------------------
(* The handlers of a running operator                                      *)

WorkspaceOnCreate ==
    /\ opStage = "running"
    /\ wsResource.state = "live" /\ wsResource.adopted /\ ~ wsResource.created
    /\ wsHandler = "none"
    /\ wsHandler' = "Ready"
    /\ UNCHANGED <<opVars, wsResource, wsTimer, wsFailed>>

(* kopf stops the timer of a resource that is being deleted first.         *)
WorkspaceOnDelete ==
    /\ opStage = "running"
    /\ wsResource.state = "deleting"
    /\ wsHandler = "none"
    /\ wsTimer = "none"
    /\ wsHandler' = "Deleting"
    /\ UNCHANGED <<opVars, wsResource, wsTimer, wsFailed>>

HandlerPatch ==
    /\ wsHandler # "none"
    /\ wsResource' =
           IF wsHandler = "Deleting" THEN NoWorkspace
           ELSE [wsResource EXCEPT !.phase = wsHandler, !.created = TRUE]
    /\ wsFailed' = FALSE
    /\ wsHandler' = "none"
    /\ UNCHANGED <<opVars, wsTimer>>

(* reconcile_workspace: the control plane answers, or the call raises; it  *)
(* never answers a client whose certificate has expired.                   *)
ReconcileWorkspace ==
    /\ opStage = "running"
    /\ wsResource.state = "live" /\ wsResource.adopted
    /\ wsTimer = "none"
    /\ \E ok \in {o \in BOOLEAN : o => opClient \in opValid} :
          /\ wsTimer' = PhaseAfterSync(ok)
          /\ opClient' = ClientAfterSync(ok)
    /\ UNCHANGED <<opStage, opStarts, opFiles, opValid, wsResource, wsHandler, wsFailed>>

TimerPatches ==
    /\ wsTimer # "none"
    /\ wsResource' = [wsResource EXCEPT !.phase = wsTimer]
    /\ wsFailed' = (wsFailed \/ wsTimer = "ReconciliationError")
    /\ wsTimer' = "none"
    /\ UNCHANGED <<opVars, wsHandler>>

WSNext ==
    \/ StoreCertificate \/ OperatorCrashes \/ AdoptWorkspace \/ DeleteWorkspace
    \/ \E c \in opValid : CertificateExpires(c)
    \/ OperatorStarts \/ InstallCrds \/ CreateWorkspaceCr \/ InitializeClient
    \/ ConfigureRaises
    \/ WorkspaceOnCreate \/ WorkspaceOnDelete \/ HandlerPatch
    \/ ReconcileWorkspace \/ TimerPatches

WSSpec == WSInit /\ [][WSNext]_wsAllVars

-----------------------------------------------------------------------------
(* The phase is one of the CRD's, and stages, patches and certificates are *)
(* well formed.                                                            *)
WSTypeOK ==
    /\ opStage \in OperatorStages
    /\ opStarts \in 0..MaxStarts
    /\ opFiles \in 0..MaxCertificates /\ opClient \in 0..opFiles
    /\ opValid \subseteq 1..opFiles
    /\ wsResource \in [state : {"absent", "live", "deleting"},
                       adopted : BOOLEAN, created : BOOLEAN,
                       phase : {"", "Ready", "ReconciliationError"}]
    /\ wsHandler \in {"none", "Ready", "Deleting"}
    /\ wsTimer \in {"none", "Ready", "ReconciliationError"}
    /\ wsFailed \in BOOLEAN

(* Once the resource is set up, its phase tells whether any report has     *)
(* failed in its life, not whether the last one has: one failure, and it   *)
(* is never Ready again, nor is it an error before the first failure;      *)
(* what failed before the create handler's patch is forgotten.             *)
PhaseTellsAnyFailure ==
    wsResource.created =>
        wsResource.phase = IF wsFailed THEN "ReconciliationError" ELSE "Ready"

(* A certificate that has expired under a running operator is not made     *)
(* good by a new one in the files: until the operator is started again,    *)
(* every report of its timer fails.                                        *)
StaleUntilRestart ==
    [][opStage = "running" /\ opClient \notin opValid /\ opStage' = "running"
       => opClient' \notin opValid' /\ (ReconcileWorkspace => wsTimer' = "ReconciliationError")]_wsAllVars

-----------------------------------------------------------------------------
(* The inductive invariant: the timer never patches the phase to Ready.    *)
WSInv == /\ WSTypeOK
         /\ wsTimer \in {"none", "ReconciliationError"}
         /\ PhaseTellsAnyFailure
=============================================================================
