--------------------------- MODULE ResourceHelpers ---------------------------
(***************************************************************************)
(* The finalizers of a WorkspaceApplication, and the helpers of the tenant *)
(* agent that make, look up and take away the resource (the first part of  *)
(* workspace_app.py).  Whoever changes the finalizers writes the whole     *)
(* list: the create handler (main.py) the list of the event it was started *)
(* with and its own finalizer, remove_workspace_app_finalizer the list it  *)
(* has just read without it.  The workspace handler's loop that would call *)
(* the helpers is commented out (main.py:196-241); the create handler is   *)
(* not.  What becomes of the addon is in WorkspaceApplication.             *)
(*                                                                         *)
(* The Kubernetes API is external: it keeps a resource that is deleted as  *)
(* long as a finalizer is left, and lets nobody add one to it then.        *)
(***************************************************************************)
EXTENDS Naturals

CONSTANTS
    HelperCalls,   \* calls under way at a time
    MaxHelpers     \* bound on the calls made

ASSUME MaxHelpersAssumption == MaxHelpers \in Nat

Own == "own"         \* WORKSPACE_APP_FINALIZER
Other == "other"     \* one of another controller
Finalizers == {Own, Other}
NoObject == [live |-> FALSE, deleted |-> FALSE, finalizers |-> {}]

VARIABLES
    rhObject,    \* the resource
    rhAddon,     \* the addon of this name is there
    rhCall,      \* where each call is, and the finalizers it has read
    rhMade,      \* calls made
    rhMeant,     \* history: the other controller has its finalizer on
    rhCrossed    \* history: the other's finalizer was put on, or taken off,
                 \* between a call's read and its write

rhVars == <<rhObject, rhAddon, rhCall, rhMade, rhMeant, rhCrossed>>

NoHelper == [pc |-> "idle", seen |-> {}]

RHInit ==
    /\ rhObject = NoObject
    /\ rhAddon \in BOOLEAN
    /\ rhCall = [c \in HelperCalls |-> NoHelper]
    /\ rhMade = 0 /\ rhMeant = FALSE /\ rhCrossed = FALSE

-----------------------------------------------------------------------------
(* What Kubernetes makes of a new list of finalizers. *)
Patched(object, finalizers) ==
    LET allowed == IF object.deleted THEN finalizers \cap object.finalizers ELSE finalizers
    IN  IF object.deleted /\ allowed = {} THEN NoObject
        ELSE [object EXCEPT !.finalizers = allowed]

Go(c, stage, seen) == rhCall' = [rhCall EXCEPT ![c] = [pc |-> stage, seen |-> seen]]

(* The lists the code writes. *)
CreateHandlerList(seen) == seen \cup {Own}
RemovalListEmpty(seen) == {}
RemovalList(seen) == seen \ {Own}

Begin(c, stage) ==
    /\ rhCall[c].pc = "idle" /\ rhMade < MaxHelpers
    /\ rhMade' = rhMade + 1
    /\ Go(c, stage, {})
    /\ UNCHANGED <<rhObject, rhAddon, rhMeant, rhCrossed>>

-----------------------------------------------------------------------------
(* get_workspace_app_cr and get_or_create_workspace_app_cr: found, made,   *)
(* or given up; a resource another call has made meanwhile is a conflict   *)
(* that is raised.                                                         *)
Lookup(c) ==
    /\ rhCall[c].pc = "getOrCreate"
    /\ IF rhObject.live THEN Go(c, "idle", {}) ELSE Go(c, "create", {})
    /\ UNCHANGED <<rhObject, rhAddon, rhMade, rhMeant, rhCrossed>>

CreateObject(c) ==
    /\ rhCall[c].pc = "create"
    /\ rhObject' = IF rhObject.live THEN rhObject
                   ELSE [live |-> TRUE, deleted |-> FALSE, finalizers |-> {}]
    /\ Go(c, "idle", {})
    /\ UNCHANGED <<rhAddon, rhMade, rhMeant, rhCrossed>>

(* workspace_app_on_create starts with the event of a live resource, and   *)
(* patches when it is through, unless its finalizer was on the list.       *)
HandlerStarts(c) ==
    /\ rhCall[c].pc = "handler"
    /\ IF rhObject.live /\ ~ rhObject.deleted /\ Own \notin rhObject.finalizers
       THEN Go(c, "handlerPatch", rhObject.finalizers) ELSE Go(c, "idle", {})
    /\ UNCHANGED <<rhObject, rhAddon, rhMade, rhMeant, rhCrossed>>

(* The patch of a list: nothing is written to a resource that is gone.     *)
PatchList(c, stage, list) ==
    /\ rhCall[c].pc = stage
    /\ rhObject' = IF rhObject.live THEN Patched(rhObject, list) ELSE rhObject
    /\ rhMeant' = (rhMeant /\ rhObject'.live)
    /\ Go(c, "idle", {})
    /\ UNCHANGED <<rhAddon, rhMade, rhCrossed>>

HandlerPatches(c) == PatchList(c, "handlerPatch", CreateHandlerList(rhCall[c].seen))

(* delete_workspace_app_cr: a resource that is found is deleted; then the  *)
(* addon is looked up, and if it is gone the finalizer is removed: read,   *)
(* then patched if it is there.                                            *)
DeleteObject(c) ==
    /\ rhCall[c].pc = "delete"
    /\ rhObject' = IF rhObject.live THEN Patched([rhObject EXCEPT !.deleted = TRUE], rhObject.finalizers)
                   ELSE rhObject
    /\ rhMeant' = (rhMeant /\ rhObject'.live)
    /\ Go(c, IF rhObject.live THEN "addon" ELSE "idle", {})
    /\ UNCHANGED <<rhAddon, rhMade, rhCrossed>>

LookForAddon(c) ==
    /\ rhCall[c].pc = "addon"
    /\ Go(c, IF rhAddon THEN "idle" ELSE "remove", {})
    /\ UNCHANGED <<rhObject, rhAddon, rhMade, rhMeant, rhCrossed>>

ReadFinalizers(c) ==
    /\ rhCall[c].pc = "remove"
    /\ IF rhObject.live /\ Own \in rhObject.finalizers
       THEN Go(c, "removePatch", rhObject.finalizers) ELSE Go(c, "idle", {})
    /\ UNCHANGED <<rhObject, rhAddon, rhMade, rhMeant, rhCrossed>>

RemovalPatches(c) == PatchList(c, "removePatch", RemovalList(rhCall[c].seen))

(* Whatever a helper reads or writes may fail: logged and given up.        *)
HelperFails(c) ==
    /\ rhCall[c].pc # "idle"
    /\ Go(c, "idle", {})
    /\ UNCHANGED <<rhObject, rhAddon, rhMade, rhMeant, rhCrossed>>

-----------------------------------------------------------------------------
(* Another controller, and KubeVela *)

Between == \E c \in HelperCalls : rhCall[c].pc \in {"handlerPatch", "removePatch"}

OtherPutsOn ==
    /\ rhObject.live /\ ~ rhObject.deleted /\ ~ rhMeant
    /\ rhObject' = [rhObject EXCEPT !.finalizers = @ \cup {Other}]
    /\ rhMeant' = TRUE
    /\ rhCrossed' = (rhCrossed \/ Between)
    /\ UNCHANGED <<rhAddon, rhCall, rhMade>>

OtherTakesOff ==
    /\ rhMeant
    /\ rhObject' = Patched(rhObject, rhObject.finalizers \ {Other})
    /\ rhMeant' = FALSE
    /\ rhCrossed' = (rhCrossed \/ Between)
    /\ UNCHANGED <<rhAddon, rhCall, rhMade>>

AddonComesOrGoes ==
    /\ rhAddon' = ~ rhAddon
    /\ UNCHANGED <<rhObject, rhCall, rhMade, rhMeant, rhCrossed>>

RHNext ==
    \/ \E c \in HelperCalls :
          \/ \E s \in {"getOrCreate", "handler", "delete", "remove"} : Begin(c, s)
          \/ Lookup(c) \/ CreateObject(c) \/ HandlerStarts(c) \/ HandlerPatches(c)
          \/ DeleteObject(c) \/ LookForAddon(c) \/ ReadFinalizers(c)
          \/ RemovalPatches(c) \/ HelperFails(c)
    \/ OtherPutsOn \/ OtherTakesOff \/ AddonComesOrGoes

RHSpec == RHInit /\ [][RHNext]_rhVars

-----------------------------------------------------------------------------
(* Resource and calls are well formed; one that is deleted and still there *)
(* has a finalizer.                                                        *)
RHTypeOK ==
    /\ rhObject \in [live : BOOLEAN, deleted : BOOLEAN, finalizers : SUBSET Finalizers]
    /\ rhObject.live \/ rhObject = NoObject
    /\ rhObject.deleted => rhObject.finalizers # {}
    /\ \A c \in HelperCalls : rhCall[c].seen \subseteq Finalizers
    /\ rhMade \in 0..MaxHelpers
    /\ {rhAddon, rhMeant, rhCrossed} \subseteq BOOLEAN

(* The finalizer of another controller is on the resource exactly as long  *)
(* as that controller wants it there, unless it came or went between the   *)
(* read of one of the agent's calls and its write: each writes a whole     *)
(* list, but never leaves out, nor brings back, what it has read.          *)
OtherFinalizerKept ==
    ~ rhCrossed /\ rhObject.live => (rhMeant <=> Other \in rhObject.finalizers)

-----------------------------------------------------------------------------
(* The inductive invariant                                                 *)

HelperStates ==
    [pc : {"idle", "getOrCreate", "create", "handler", "handlerPatch", "delete",
           "addon", "remove", "removePatch"},
     seen : SUBSET Finalizers]

(* What a call has read, and is about to write, has the other's finalizer  *)
(* if and only if the other wants it on, whatever has become of the        *)
(* resource meanwhile: one with that finalizer does not go away.           *)
SeenIsMeant ==
    /\ rhMeant => rhObject.live
    /\ ~ rhCrossed => \A c \in HelperCalls :
           rhCall[c].pc \in {"handlerPatch", "removePatch"} =>
               (rhMeant <=> Other \in rhCall[c].seen)

RHInv == /\ RHTypeOK
         /\ rhCall \in [HelperCalls -> HelperStates]
         /\ SeenIsMeant
         /\ OtherFinalizerKept
=============================================================================
