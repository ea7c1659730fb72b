---------------------------- MODULE MCControlPlane ----------------------------
(***************************************************************************)
(* The smaller components of the control plane and its console, checked in *)
(* one run.  They have no state in common, so a behaviour of all of them   *)
(* side by side adds nothing to the behaviours of each: the first state    *)
(* says which component the behaviour is about, and that one alone moves.  *)
(* Every state of every component is reached, and none is multiplied with  *)
(* the states of another.                                                  *)
(***************************************************************************)
EXTENDS ListQueries, ListPagination, ListColumns, ListFilters,
        WorkspaceRequests, AccountForm, WorkspaceResource, Access, Seeding,
        CertificateService, ApiProcess, ConsoleSession, BootstrapCard,
        KeycloakRealm, FieldInputs, ArrayForm, FileField, NoticeQueue,
        SessionCalls, ResourceHelpers, ConsoleFrame, ChoiceInputs,
        PagePortals, RecordPages, GuessedViews

VARIABLE focus   \* the component this behaviour is about

Components == {"ListQueries", "ListPagination", "ListColumns", "ListFilters",
               "WorkspaceRequests", "AccountForm", "WorkspaceResource", "Access",
               "Seeding", "CertificateService", "ApiProcess", "ConsoleSession",
               "BootstrapCard", "KeycloakRealm", "FieldInputs", "ArrayForm",
               "FileField", "NoticeQueue", "SessionCalls", "ResourceHelpers",
               "ConsoleFrame", "ChoiceInputs", "PagePortals", "RecordPages",
               "GuessedViews"}

vars == <<lqVars, lpVars, lkVars, lfVars, wrVars, afVars, wsAllVars, axVars,
          sdVars, ctVars, apVars, csVars, bcVars, krVars, fiVars, aiVars, ffVars, nqVars,
          scVars, rhVars, cfVars, chVars, ppVars, rpVars, gvVars, focus>>

(* What a component starts with is fixed in the behaviours of the others.  *)
Unless(component, setting) == focus = component \/ setting

Init ==
    /\ focus \in Components
    /\ LQInit /\ LPInit /\ LKInit /\ LFInit /\ WRInit /\ AFInit /\ WSInit
    /\ AXInit /\ SDInit /\ CTInit /\ APInit /\ CSInit /\ BCInit /\ KRInit
    /\ FIInit /\ Unless("FieldInputs", fiKind = "date" /\ fiValue = "null")
    /\ AIInit /\ Unless("ArrayForm", aiRule = "never")
    /\ FFInit /\ Unless("FileField", ~ ffMultiple /\ ~ ffChecked)
    /\ NQInit
    /\ SCInit /\ Unless("SessionCalls", scMethod = [c \in AuthCallers |-> "checkAuth"])
    /\ RHInit /\ Unless("ResourceHelpers", ~ rhAddon)
    /\ CFInit /\ Unless("ConsoleFrame",
                       /\ cfWindow = "wide" /\ cfTheme = "system" /\ cfSystem = "light"
                       /\ cfPath = CHOOSE p \in FramePages : TRUE)
    /\ CHInit /\ Unless("ChoiceInputs",
                       /\ chInput = "select" /\ chValue = <<>>
                       /\ ~ chFrom /\ ~ chRequired)
    /\ PPInit /\ RPInit
    /\ GVInit /\ Unless("GuessedViews",
                       /\ gvKind = "list" /\ gvShown = CHOOSE r \in GuessedResources : TRUE
                       /\ gvField = [r \in GuessedResources |-> "string"])

(* The variables of every component but one.                               *)
Only(component) ==
    /\ focus = component
    /\ UNCHANGED focus
    /\ component # "ListQueries" => UNCHANGED lqVars
    /\ component # "ListPagination" => UNCHANGED lpVars
    /\ component # "ListColumns" => UNCHANGED lkVars
    /\ component # "ListFilters" => UNCHANGED lfVars
    /\ component # "WorkspaceRequests" => UNCHANGED wrVars
    /\ component # "AccountForm" => UNCHANGED afVars
    /\ component # "WorkspaceResource" => UNCHANGED wsAllVars
    /\ component # "Access" => UNCHANGED axVars
    /\ component # "Seeding" => UNCHANGED sdVars
    /\ component # "CertificateService" => UNCHANGED ctVars
    /\ component # "ApiProcess" => UNCHANGED apVars
    /\ component # "ConsoleSession" => UNCHANGED csVars
    /\ component # "BootstrapCard" => UNCHANGED bcVars
    /\ component # "KeycloakRealm" => UNCHANGED krVars
    /\ component # "FieldInputs" => UNCHANGED fiVars
    /\ component # "ArrayForm" => UNCHANGED aiVars
    /\ component # "FileField" => UNCHANGED ffVars
    /\ component # "NoticeQueue" => UNCHANGED nqVars
    /\ component # "SessionCalls" => UNCHANGED scVars
    /\ component # "ResourceHelpers" => UNCHANGED rhVars
    /\ component # "ConsoleFrame" => UNCHANGED cfVars
    /\ component # "ChoiceInputs" => UNCHANGED chVars
    /\ component # "PagePortals" => UNCHANGED ppVars
    /\ component # "RecordPages" => UNCHANGED rpVars
    /\ component # "GuessedViews" => UNCHANGED gvVars

Next ==
    \/ Only("ListQueries")        /\ LQNext
    \/ Only("ListPagination")     /\ LPNext
    \/ Only("ListColumns")        /\ LKNext
    \/ Only("ListFilters")        /\ LFNext
    \/ Only("WorkspaceRequests")  /\ WRNext
    \/ Only("AccountForm")        /\ AFNext
    \/ Only("WorkspaceResource")  /\ WSNext
    \/ Only("Access")             /\ AXNext
    \/ Only("Seeding")            /\ SDNext
    \/ Only("CertificateService") /\ CTNext
    \/ Only("ApiProcess")         /\ APNext
    \/ Only("ConsoleSession")     /\ CSNext
    \/ Only("BootstrapCard")      /\ BCNext
    \/ Only("KeycloakRealm")      /\ KRNext
    \/ Only("FieldInputs")        /\ FINext
    \/ Only("ArrayForm")          /\ AINext
    \/ Only("FileField")          /\ FFNext
    \/ Only("NoticeQueue")        /\ NQNext
    \/ Only("SessionCalls")       /\ SCNext
    \/ Only("ResourceHelpers")    /\ RHNext
    \/ Only("ConsoleFrame")       /\ CFNext
    \/ Only("ChoiceInputs")       /\ CHNext
    \/ Only("PagePortals")        /\ PPNext
    \/ Only("RecordPages")        /\ RPNext
    \/ Only("GuessedViews")       /\ GVNext

Spec == Init /\ [][Next]_vars

(* The platform catalogue as it is seeded, cut to two providers.           *)
SeededCatalogue ==
    [provider \in {"KUBERNETES", "ALICLOUD_ACK"} |->
        IF provider = "KUBERNETES" THEN {"local"} ELSE {"cn-hangzhou", "ap-southeast-5"}]

(* The requests of WorkspaceRequests are alike. *)
Symmetry == Permutations(Calls)

(* The type invariants of the components, with what each module says of    *)
(* its own state beside the mere types.                                    *)
TypesOK ==
    /\ LQTypeOK /\ LQInv /\ LKTypeOK /\ LKInv /\ LFInv /\ WRInv /\ AFInv /\ WSInv
    /\ AXTypeOK /\ AXInv /\ SDInv /\ CTInv /\ APTypeOK /\ CSInv /\ BCInv
    /\ KRInv /\ LPTypeOK /\ FIInv /\ AIInv /\ FFInv /\ NQInv
    /\ SCTypeOK /\ RHInv /\ CFTypeOK /\ CHInv /\ PPInv /\ RPInv
    /\ GVInv
===============================================================================
