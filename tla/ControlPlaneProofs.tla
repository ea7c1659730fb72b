-------------------------- MODULE ControlPlaneProofs --------------------------
(***************************************************************************)
(* The components of MCControlPlane side by side: a behaviour of that      *)
(* module is a behaviour of each of its components, one of which moves     *)
(* while the others stutter.  What the modules of proofs show of a         *)
(* component therefore holds of the whole, for any values of the constants *)
(* the components assume something of.                                     *)
(***************************************************************************)
EXTENDS MCControlPlane, RequestProofs, ProcessProofs, ConsoleProofs, ListProofs, TLAPS

(* The whole implements every component: it starts in a state the          *)
(* component starts in, and each of its steps is a step of the component   *)
(* or leaves the component's variables alone.                              *)
THEOREM ComponentsKept ==
    Spec => /\ LQSpec /\ LPSpec /\ LKSpec /\ LFSpec /\ WRSpec /\ AFSpec /\ WSSpec
            /\ AXSpec /\ SDSpec /\ CTSpec /\ APSpec /\ CSSpec /\ BCSpec /\ KRSpec
            /\ FISpec /\ AISpec /\ FFSpec /\ NQSpec /\ SCSpec /\ RHSpec /\ CFSpec
            /\ CHSpec /\ PPSpec /\ RPSpec /\ GVSpec
<1>1. Spec => LQSpec
  <2>1. Init => LQInit
    BY DEF Init
  <2>2. [Next]_vars => [LQNext]_lqVars
    BY DEF Next, Only, vars
  <2>3. QED
    BY <2>1, <2>2, PTL DEF Spec, LQSpec
<1>2. Spec => LPSpec
  <2>1. Init => LPInit
    BY DEF Init
  <2>2. [Next]_vars => [LPNext]_lpVars
    BY DEF Next, Only, vars
  <2>3. QED
    BY <2>1, <2>2, PTL DEF Spec, LPSpec
<1>3. Spec => LKSpec
  <2>1. Init => LKInit
    BY DEF Init
  <2>2. [Next]_vars => [LKNext]_lkVars
    BY DEF Next, Only, vars
  <2>3. QED
    BY <2>1, <2>2, PTL DEF Spec, LKSpec
<1>4. Spec => LFSpec
  <2>1. Init => LFInit
    BY DEF Init
  <2>2. [Next]_vars => [LFNext]_lfVars
    BY DEF Next, Only, vars
  <2>3. QED
    BY <2>1, <2>2, PTL DEF Spec, LFSpec
<1>5. Spec => WRSpec
  <2>1. Init => WRInit
    BY DEF Init
  <2>2. [Next]_vars => [WRNext]_wrVars
    BY DEF Next, Only, vars
  <2>3. QED
    BY <2>1, <2>2, PTL DEF Spec, WRSpec
<1>6. Spec => AFSpec
  <2>1. Init => AFInit
    BY DEF Init
  <2>2. [Next]_vars => [AFNext]_afVars
    BY DEF Next, Only, vars
  <2>3. QED
    BY <2>1, <2>2, PTL DEF Spec, AFSpec
<1>7. Spec => WSSpec
  <2>1. Init => WSInit
    BY DEF Init
  <2>2. [Next]_vars => [WSNext]_wsAllVars
    BY DEF Next, Only, vars
  <2>3. QED
    BY <2>1, <2>2, PTL DEF Spec, WSSpec
<1>8. Spec => AXSpec
  <2>1. Init => AXInit
    BY DEF Init
  <2>2. [Next]_vars => [AXNext]_axVars
    BY DEF Next, Only, vars
  <2>3. QED
    BY <2>1, <2>2, PTL DEF Spec, AXSpec
<1>9. Spec => SDSpec
  <2>1. Init => SDInit
    BY DEF Init
  <2>2. [Next]_vars => [SDNext]_sdVars
    BY DEF Next, Only, vars
  <2>3. QED
    BY <2>1, <2>2, PTL DEF Spec, SDSpec
<1>10. Spec => CTSpec
  <2>1. Init => CTInit
    BY DEF Init
  <2>2. [Next]_vars => [CTNext]_ctVars
    BY DEF Next, Only, vars
  <2>3. QED
    BY <2>1, <2>2, PTL DEF Spec, CTSpec
<1>11. Spec => APSpec
  <2>1. Init => APInit
    BY DEF Init
  <2>2. [Next]_vars => [APNext]_apVars
    BY DEF Next, Only, vars
  <2>3. QED
    BY <2>1, <2>2, PTL DEF Spec, APSpec
<1>12. Spec => CSSpec
  <2>1. Init => CSInit
    BY DEF Init
  <2>2. [Next]_vars => [CSNext]_csVars
    BY DEF Next, Only, vars
  <2>3. QED
    BY <2>1, <2>2, PTL DEF Spec, CSSpec
<1>13. Spec => BCSpec
  <2>1. Init => BCInit
    BY DEF Init
  <2>2. [Next]_vars => [BCNext]_bcVars
    BY DEF Next, Only, vars
  <2>3. QED
    BY <2>1, <2>2, PTL DEF Spec, BCSpec
<1>14. Spec => KRSpec
  <2>1. Init => KRInit
    BY DEF Init
  <2>2. [Next]_vars => [KRNext]_krVars
    BY DEF Next, Only, vars
  <2>3. QED
    BY <2>1, <2>2, PTL DEF Spec, KRSpec
<1>15. Spec => FISpec
  <2>1. Init => FIInit
    BY DEF Init
  <2>2. [Next]_vars => [FINext]_fiVars
    BY DEF Next, Only, vars
  <2>3. QED
    BY <2>1, <2>2, PTL DEF Spec, FISpec
<1>16. Spec => AISpec
  <2>1. Init => AIInit
    BY DEF Init
  <2>2. [Next]_vars => [AINext]_aiVars
    BY DEF Next, Only, vars
  <2>3. QED
    BY <2>1, <2>2, PTL DEF Spec, AISpec
<1>17. Spec => FFSpec
  <2>1. Init => FFInit
    BY DEF Init
  <2>2. [Next]_vars => [FFNext]_ffVars
    BY DEF Next, Only, vars
  <2>3. QED
    BY <2>1, <2>2, PTL DEF Spec, FFSpec
<1>18. Spec => NQSpec
  <2>1. Init => NQInit
    BY DEF Init
  <2>2. [Next]_vars => [NQNext]_nqVars
    BY DEF Next, Only, vars
  <2>3. QED
    BY <2>1, <2>2, PTL DEF Spec, NQSpec
<1>19. Spec => SCSpec
  <2>1. Init => SCInit
    BY DEF Init
  <2>2. [Next]_vars => [SCNext]_scVars
    BY DEF Next, Only, vars
  <2>3. QED
    BY <2>1, <2>2, PTL DEF Spec, SCSpec
<1>20. Spec => RHSpec
  <2>1. Init => RHInit
    BY DEF Init
  <2>2. [Next]_vars => [RHNext]_rhVars
    BY DEF Next, Only, vars
  <2>3. QED
    BY <2>1, <2>2, PTL DEF Spec, RHSpec
<1>21. Spec => CFSpec
  <2>1. Init => CFInit
    BY DEF Init
  <2>2. [Next]_vars => [CFNext]_cfVars
    BY DEF Next, Only, vars
  <2>3. QED
    BY <2>1, <2>2, PTL DEF Spec, CFSpec
<1>22. Spec => CHSpec
  <2>1. Init => CHInit
    BY DEF Init
  <2>2. [Next]_vars => [CHNext]_chVars
    BY DEF Next, Only, vars
  <2>3. QED
    BY <2>1, <2>2, PTL DEF Spec, CHSpec
<1>23. Spec => PPSpec
  <2>1. Init => PPInit
    BY DEF Init
  <2>2. [Next]_vars => [PPNext]_ppVars
    BY DEF Next, Only, vars
  <2>3. QED
    BY <2>1, <2>2, PTL DEF Spec, PPSpec
<1>24. Spec => RPSpec
  <2>1. Init => RPInit
    BY DEF Init
  <2>2. [Next]_vars => [RPNext]_rpVars
    BY DEF Next, Only, vars
  <2>3. QED
    BY <2>1, <2>2, PTL DEF Spec, RPSpec
<1>25. Spec => GVSpec
  <2>1. Init => GVInit
    BY DEF Init
  <2>2. [Next]_vars => [GVNext]_gvVars
    BY DEF Next, Only, vars
  <2>3. QED
    BY <2>1, <2>2, PTL DEF Spec, GVSpec
<1>26. QED
  BY <1>1, <1>2, <1>3, <1>4, <1>5, <1>6, <1>7, <1>8, <1>9, <1>10, <1>11,
     <1>12, <1>13, <1>14, <1>15, <1>16, <1>17, <1>18, <1>19, <1>20, <1>21,
     <1>22, <1>23, <1>24, <1>25

(* Each component keeps its types and what its module says of its state    *)
(* beside them: the paged list its pages, a form its marks, the operator   *)
(* its resource, the API its requests, and so on.                          *)
THEOREM TypesSafe == Spec => []TypesOK
<1>1. LQSpec => [](LQTypeOK /\ LQInv)
  BY QueriesTypeCorrect, QueriesInvariance, PTL
<1>2. LPSpec => []LPTypeOK
  BY LinksSafe
<1>3. LKSpec => [](LKTypeOK /\ LKInv)
  BY ColumnsSafe, ColumnsInvariance, PTL
<1>4. LFSpec => []LFInv
  BY FiltersInvariance
<1>5. WRSpec => []WRInv
  BY WorkspaceRequestsInvariance
<1>6. AFSpec => []AFInv
  BY FormInvariance
<1>7. WSSpec => []WSInv
  BY WorkspaceInvariance
<1>8. AXSpec => [](AXTypeOK /\ AXInv)
  BY AccessTypeCorrect, AccessInvariance, PTL
<1>9. SDSpec => []SDInv
  BY SeedingInvariance
<1>10. CTSpec => []CTInv
  BY CertificatesInvariance
<1>11. APSpec => []APTypeOK
  BY ProcessTypeCorrect
<1>12. CSSpec => []CSInv
  BY SessionInvariance
<1>13. BCSpec => []BCInv
  BY CardInvariance
<1>14. KRSpec => []KRInv
  BY RealmInvariance
<1>15. FISpec => []FIInv
  BY FieldInvariance
<1>16. AISpec => []AIInv
  BY ItemsInvariance
<1>17. FFSpec => []FFInv
  BY FilesInvariance
<1>18. NQSpec => []NQInv
  BY NoticesInvariance
<1>19. SCSpec => []SCTypeOK
  BY WaitersSafe
<1>20. RHSpec => []RHInv
  BY HelpersInvariance
<1>21. CFSpec => []CFTypeOK
  BY FrameSafe
<1>22. CHSpec => []CHInv
  BY ChoicesInvariance
<1>23. PPSpec => []PPInv
  BY PortalsInvariance
<1>24. RPSpec => []RPInv
  BY SavesInvariance
<1>25. GVSpec => []GVInv
  BY GuessInvariance
<1>26. Spec => [](/\ LQTypeOK /\ LQInv /\ LKTypeOK /\ LKInv /\ LFInv /\ WRInv /\ AFInv /\ WSInv
                /\ AXTypeOK /\ AXInv /\ SDInv /\ CTInv /\ APTypeOK /\ CSInv /\ BCInv
                /\ KRInv /\ LPTypeOK /\ FIInv /\ AIInv /\ FFInv /\ NQInv
                /\ SCTypeOK /\ RHInv /\ CFTypeOK /\ CHInv /\ PPInv /\ RPInv
                /\ GVInv)
  BY ComponentsKept, <1>1, <1>2, <1>3, <1>4, <1>5, <1>6, <1>7, <1>8, <1>9,
     <1>10, <1>11, <1>12, <1>13, <1>14, <1>15, <1>16, <1>17, <1>18, <1>19,
     <1>20, <1>21, <1>22, <1>23, <1>24, <1>25, PTL
<1>27. QED
  BY <1>26, PTL DEF TypesOK

(* What is promised of the components beside that, each by its theorem.    *)
(* Paged walks, workspace requests and permission checks; accounts of a    *)
(* mismatched region; workspaces, seeds, certificates, the process of the  *)
(* API; the console's session, calls, token card, fields, files and toasts.*)
THEOREM ControlPlaneSafe ==
    Spec => /\ [](/\ WalkSeesAll /\ SecondRowOverlaps /\ RetryIsRecognised
                  /\ MismatchNeedsRepick /\ PhaseTellsAnyFailure /\ ChecksAgree
                  /\ SeedConverges /\ RecordedExpiryIsLate /\ MixedOnlyByOtherTab
                  /\ ShownTokenInForce /\ CallsSettle /\ FieldTellsValue
                  /\ FilesAsMeant /\ ToastHoldsItsOwn /\ OtherFinalizerKept
                  /\ LastWaiterWoken)
            /\ RemovalSparesOthers /\ StaleUntilRestart /\ CutOnlyByKill
            /\ ProtectedInPlace
<1>1. Spec => [](/\ WalkSeesAll /\ SecondRowOverlaps /\ RetryIsRecognised
                /\ MismatchNeedsRepick /\ PhaseTellsAnyFailure /\ ChecksAgree
                /\ SeedConverges /\ RecordedExpiryIsLate /\ MixedOnlyByOtherTab
                /\ ShownTokenInForce /\ CallsSettle /\ FieldTellsValue
                /\ FilesAsMeant /\ ToastHoldsItsOwn /\ OtherFinalizerKept
                /\ LastWaiterWoken)
  BY ComponentsKept, WalkSafe, SecondRowSafe, RetrySafe, MismatchSafe, PhaseSafe,
     ChecksSafe, SeedSafe, ExpirySafe, MixedSafe, ShownTokenSafe, CallsSafe, FieldSafe,
     FilesSafe, ToastsSafe, FinalizerSafe, LastWaiterSafe, PTL
<1>2. Spec => /\ RemovalSparesOthers /\ StaleUntilRestart /\ CutOnlyByKill
              /\ ProtectedInPlace
  BY ComponentsKept, RemovalSafe, StaleSafe, CutSafe, ProtectedSafe
<1>3. QED
  BY <1>1, <1>2, PTL
==============================================================================
