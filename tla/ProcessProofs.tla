---------------------------- MODULE ProcessProofs ----------------------------
(***************************************************************************)
(* Proofs about the processes.  What the API's does beside its requests:   *)
(* the seed of its database (Seeding), for any number of runs at once and  *)
(* of deaths, the certificates it has made (CertificateService), for any   *)
(* validity and life of a token, and its end (ApiProcess), for any number  *)
(* of requests.  The operator of the tenant's cluster: the Workspace       *)
(* resource and the certificate it reports with (WorkspaceResource), for   *)
(* any number of certificates and starts, and the finalizers of the        *)
(* applications' resources (ResourceHelpers), for any number of calls.     *)
(***************************************************************************)
EXTENDS Seeding, CertificateService, ApiProcess, WorkspaceResource, ResourceHelpers, TLAPS

-----------------------------------------------------------------------------
(* Seeding                                                                 *)

LEMMA OrderRows ==
    /\ DOMAIN Order = 1..6 /\ Len(Order) = 6
    /\ Order[1] = "provider" /\ Order[2] = "region" /\ Order[3] = "role"
    /\ Order[4] = "principal" /\ Order[5] = "principalRole" /\ Order[6] = "app"
    /\ SeedRows = {"provider", "region", "role", "principal", "principalRole", "app"}
<1>1. /\ DOMAIN Order = 1..6 /\ Len(Order) = 6
      /\ Order[1] = "provider" /\ Order[2] = "region" /\ Order[3] = "role"
      /\ Order[4] = "principal" /\ Order[5] = "principalRole" /\ Order[6] = "app"
  BY DEF Order
<1> HIDE DEF Order
<1>2. SeedRows = {Order[i] : i \in 1..6}
  BY <1>1 DEF SeedRows
<1>3. \A i \in 1..6 : i \in {1, 2, 3, 4, 5, 6}
  OBVIOUS
<1>4. QED
  BY <1>1, <1>2, <1>3

(* What is written at the next place, at the first and past the last.      *)
LEMMA WrittenPlaces ==
    /\ Written(0) = {} /\ Written(1) = {}
    /\ Written(7) = SeedRows
    /\ \A k \in 1..6 : Written(k + 1) = Written(k) \cup {Order[k]}
    /\ \A k \in 0..7 : Written(k) \subseteq SeedRows
<1>1. \A k \in Nat : Written(k) = {Order[i] : i \in {j \in 1..6 : j < k}}
  BY OrderRows DEF Written
<1>2. Written(0) = {} /\ Written(1) = {}
  BY <1>1
<1>3. Written(7) = SeedRows
  BY <1>1, OrderRows DEF SeedRows
<1>4. ASSUME NEW k \in 1..6 PROVE Written(k + 1) = Written(k) \cup {Order[k]}
  <2>1. \A j \in 1..6 : j < k + 1 <=> j < k \/ j = k
    OBVIOUS
  <2>2. QED
    BY <1>1, <2>1
<1>5. ASSUME NEW k \in 0..7 PROVE Written(k) \subseteq SeedRows
  BY <1>1, OrderRows DEF SeedRows
<1>6. QED
  BY <1>2, <1>3, <1>4, <1>5

(* What a row refers to comes before it.                                   *)
LEMMA RefersBack == \A k \in 1..6 : RefersTo(Order[k]) \subseteq Written(k)
<1>1. \A k \in Nat : Written(k) = {Order[i] : i \in {j \in 1..6 : j < k}}
  BY OrderRows DEF Written
<1>2. "provider" \in Written(2) /\ "role" \in Written(5) /\ "principal" \in Written(5)
  BY <1>1, OrderRows
<1>3. SUFFICES ASSUME NEW k \in 1..6 PROVE RefersTo(Order[k]) \subseteq Written(k)
  OBVIOUS
<1>4. k \in {1, 2, 3, 4, 5, 6}
  OBVIOUS
<1>5. QED
  BY <1>2, <1>4, OrderRows DEF RefersTo

(* A step of the seeding is an upsert, or leaves the rows there are.       *)
LEMMA SDNextTypeOK == SDTypeOK /\ WrittenStays /\ [SDNext]_sdVars => SDTypeOK'
<1> SUFFICES ASSUME SDTypeOK, WrittenStays, [SDNext]_sdVars PROVE SDTypeOK'
  OBVIOUS
<1> USE OrderRows
<1>1. ASSUME NEW s \in Seeders, StartSeed(s) \/ FindSystemRole(s) \/ SeedFinishes(s) \/ SeedAborts(s)
      PROVE  SDTypeOK'
  <2>1. Len(Order) + 1 = 7
    OBVIOUS
  <2>2. sdPlace' \in [Seeders -> 0..7]
    BY <1>1, <2>1 DEF SDTypeOK, StartSeed, FindSystemRole, SeedFinishes, SeedAborts
  <2>3. sdRole' \in [Seeders -> BOOLEAN]
    BY <1>1 DEF SDTypeOK, StartSeed, FindSystemRole, SeedFinishes, SeedAborts
  <2>4. /\ sdRows' = sdRows /\ sdStale' = sdStale /\ sdTaken' = sdTaken /\ sdDeaths' = sdDeaths
        /\ sdCalm' \subseteq Seeders /\ sdFinished' \in BOOLEAN
    BY <1>1 DEF SDTypeOK, StartSeed, FindSystemRole, SeedFinishes, SeedAborts
  <2>5. QED
    BY <2>1, <2>2, <2>4, <2>3 DEF SDTypeOK
<1>2. ASSUME NEW s \in Seeders, SeedDies(s) PROVE SDTypeOK'
  BY <1>2, DeathsAssumption DEF SDTypeOK, SeedDies
<1>3. ASSUME NEW s \in Seeders, SeedUpsert(s) PROVE SDTypeOK'
  <2> DEFINE k == sdPlace[s]
  <2>1. k \in 1..6 /\ Order[k] \in SeedRows
    BY <1>3 DEF SeedUpsert, SeedRows
  <2>2. /\ sdRows' = sdRows \cup {Order[k]} /\ sdStale' = sdStale \ {Order[k]}
        /\ sdPlace' = [sdPlace EXCEPT ![s] = k + 1]
        /\ UNCHANGED <<sdTaken, sdRole, sdCalm, sdFinished, sdDeaths>>
    BY <1>3 DEF SeedUpsert, AfterUpsert
  <2>3. RefersTo(Order[k]) \subseteq sdRows
    BY <2>1, RefersBack DEF WrittenStays
  <2>4. sdPlace' \in [Seeders -> 0..(Len(Order) + 1)]
    BY <2>1, <2>2 DEF SDTypeOK
  <2> HIDE DEF k
  <2>5. /\ sdRows' \subseteq SeedRows /\ sdStale' \subseteq sdRows'
        /\ \A row \in sdRows' : RefersTo(row) \subseteq sdRows'
    BY <2>1, <2>2, <2>3 DEF SDTypeOK
  <2>6. QED
    BY <2>2, <2>4, <2>5 DEF SDTypeOK
<1>4. ASSUME NEW row \in SeedRows, RowChanges(row) PROVE SDTypeOK'
  BY <1>4 DEF SDTypeOK, RowChanges
<1>5. CASE AdministratorProvisioned
  BY <1>5 DEF SDTypeOK, AdministratorProvisioned
<1>6. CASE UNCHANGED sdVars
  BY <1>6 DEF SDTypeOK, sdVars
<1>7. QED
  BY <1>1, <1>2, <1>3, <1>4, <1>5, <1>6 DEF SDNext

LEMMA WrittenStaysStep == SDTypeOK /\ WrittenStays /\ [SDNext]_sdVars => WrittenStays'
<1> SUFFICES ASSUME SDTypeOK, WrittenStays, [SDNext]_sdVars, NEW t \in Seeders
             PROVE  /\ Written(sdPlace'[t]) \subseteq sdRows'
                    /\ t \in sdCalm' => Written(sdPlace'[t]) \cap sdStale' = {}
  BY DEF WrittenStays
<1>1. ASSUME NEW s \in Seeders,
             StartSeed(s) \/ FindSystemRole(s) \/ SeedFinishes(s) \/ SeedAborts(s) \/ SeedDies(s)
      PROVE  /\ Written(sdPlace'[t]) \subseteq sdRows'
             /\ t \in sdCalm' => Written(sdPlace'[t]) \cap sdStale' = {}
  <2>1. sdRows' = sdRows /\ sdStale' = sdStale
    BY <1>1 DEF StartSeed, FindSystemRole, SeedFinishes, SeedAborts, SeedDies
  <2>2. sdPlace'[t] \in {0, 1} \/ (sdPlace'[t] = sdPlace[t] /\ (t \in sdCalm' => t \in sdCalm))
    BY <1>1 DEF StartSeed, FindSystemRole, SeedFinishes, SeedAborts, SeedDies, SDTypeOK
  <2>3. QED
    BY <2>1, <2>2, WrittenPlaces DEF WrittenStays
<1>2. ASSUME NEW s \in Seeders, SeedUpsert(s)
      PROVE  /\ Written(sdPlace'[t]) \subseteq sdRows'
             /\ t \in sdCalm' => Written(sdPlace'[t]) \cap sdStale' = {}
  <2> DEFINE k == sdPlace[s]
  <2>1. k \in 1..6
    BY <1>2, OrderRows DEF SeedUpsert
  <2>2. /\ sdRows' = sdRows \cup {Order[k]} /\ sdStale' = sdStale \ {Order[k]}
        /\ sdPlace' = [sdPlace EXCEPT ![s] = k + 1] /\ sdCalm' = sdCalm
    BY <1>2 DEF SeedUpsert, AfterUpsert
  <2>3. Written(k + 1) = Written(k) \cup {Order[k]}
    BY <2>1, WrittenPlaces
  <2>4. sdPlace'[t] = IF t = s THEN k + 1 ELSE sdPlace[t]
    BY <2>2 DEF SDTypeOK
  <2>5. QED
    BY <2>2, <2>3, <2>4 DEF WrittenStays
<1>3. ASSUME NEW row \in SeedRows, RowChanges(row)
      PROVE  /\ Written(sdPlace'[t]) \subseteq sdRows'
             /\ t \in sdCalm' => Written(sdPlace'[t]) \cap sdStale' = {}
  BY <1>3 DEF RowChanges, WrittenStays
<1>4. CASE AdministratorProvisioned \/ UNCHANGED sdVars
  BY <1>4 DEF AdministratorProvisioned, sdVars, WrittenStays
<1>5. QED
  BY <1>1, <1>2, <1>3, <1>4 DEF SDNext

(* A principal whose email is taken is not put back: its upsert waits for  *)
(* the email.                                                              *)
LEMMA TakenIsStaleStep == SDTypeOK /\ TakenIsStale /\ [SDNext]_sdVars => TakenIsStale'
<1> SUFFICES ASSUME SDTypeOK, TakenIsStale, [SDNext]_sdVars, sdTaken' PROVE "principal" \in sdStale'
  BY DEF TakenIsStale
<1>1. ASSUME NEW s \in Seeders, SeedUpsert(s) PROVE "principal" \in sdStale'
  BY <1>1 DEF SeedUpsert, AfterUpsert, TakenIsStale
<1>2. QED
  BY <1>1 DEF SDNext, sdVars, TakenIsStale, StartSeed, FindSystemRole, SeedFinishes, SeedAborts,
     SeedDies, RowChanges, AdministratorProvisioned

(* A seeder that finishes in calm has written every row.                   *)
LEMMA SeedConvergesStep == SDInv /\ [SDNext]_sdVars => SeedConverges'
<1> SUFFICES ASSUME SDInv, [SDNext]_sdVars PROVE SeedConverges'
  OBVIOUS
<1>1. sdStale \subseteq sdRows /\ sdRows \subseteq SeedRows
  BY DEF SDInv, SDTypeOK
<1>2. ASSUME NEW s \in Seeders, SeedFinishes(s) PROVE SeedConverges'
  <2>1. sdPlace[s] = 7
    BY <1>2, OrderRows DEF SeedFinishes
  <2>2. s \in sdCalm => sdRows = SeedRows /\ sdStale = {}
    BY <1>1, <2>1, WrittenPlaces DEF SDInv, WrittenStays
  <2>3. sdTaken => sdStale # {}
    BY DEF SDInv, TakenIsStale
  <2>4. QED
    BY <1>2, <2>2, <2>3 DEF SeedFinishes, SDInv, SeedConverges
<1>3. ASSUME NEW s \in Seeders, SeedUpsert(s) PROVE SeedConverges'
  <2>1. /\ sdFinished' = sdFinished /\ sdTaken' = sdTaken
        /\ sdRows \subseteq sdRows' /\ sdStale' \subseteq sdStale
    BY <1>3 DEF SeedUpsert, AfterUpsert
  <2>2. sdRows' \subseteq SeedRows
    BY SDNextTypeOK DEF SDInv, SDTypeOK
  <2>3. QED
    BY <2>1, <2>2 DEF SDInv, SeedConverges
<1>4. CASE AdministratorProvisioned
  BY <1>4 DEF AdministratorProvisioned, SDInv, SeedConverges
<1>5. ASSUME NEW row \in SeedRows, RowChanges(row) PROVE SeedConverges'
  BY <1>5 DEF RowChanges, SeedConverges
<1>6. CASE UNCHANGED <<sdRows, sdStale, sdTaken, sdFinished>>
  BY <1>6 DEF SDInv, SeedConverges
<1>7. QED
  BY <1>2, <1>3, <1>4, <1>5, <1>6
  DEF SDNext, sdVars, StartSeed, FindSystemRole, SeedAborts, SeedDies

THEOREM SeedingInvariance == SDSpec => []SDInv
<1>1. SDInit => SDInv
  <2> SUFFICES ASSUME SDInit PROVE SDInv
    OBVIOUS
  <2>1. SDTypeOK
    <3>1. Len(Order) + 1 = 7
      BY OrderRows
    <3>2. sdPlace \in [Seeders -> 0..(Len(Order) + 1)]
      BY <3>1 DEF SDInit
    <3>3. 0 \in 0..MaxDeaths
      BY DeathsAssumption
    <3>4. QED
      BY <3>2, <3>3 DEF SDInit, SDTypeOK
  <2>2. WrittenStays /\ TakenIsStale /\ SeedConverges
    BY WrittenPlaces DEF SDInit, WrittenStays, TakenIsStale, SeedConverges
  <2>3. QED
    BY <2>1, <2>2 DEF SDInv
<1>2. SDInv /\ [SDNext]_sdVars => SDInv'
  BY SDNextTypeOK, WrittenStaysStep, TakenIsStaleStep, SeedConvergesStep DEF SDInv
<1>3. QED
  BY <1>1, <1>2, PTL DEF SDSpec

(* A run of the seed that finishes leaves every row there and as the seed  *)
(* has it if nobody changed one meanwhile, whatever other runs of          *)
(* prisma/seeds/init.ts did or died of; and none finishes once the         *)
(* administrator's email is another's.                                     *)
THEOREM SeedSafe == SDSpec => []SeedConverges
<1>1. SDInv => SeedConverges
  BY DEF SDInv
<1>2. QED
  BY <1>1, SeedingInvariance, PTL

-----------------------------------------------------------------------------
(* CertificateService                                                      *)

(* What the invariant says of one issuance at a moment.                    *)
IssueInOrder(issue, time) ==
    /\ issue.signedAt <= time
    /\ issue.pc = "waits" =>
          /\ issue.by = "step-ca"
          /\ issue.notAfter >= Validity /\ issue.notAfter <= time + Validity
          /\ issue.token = issue.notAfter - Validity + TokenLife
          /\ issue.signedAt <= issue.token
    /\ issue.pc = "issued" =>
          /\ issue.recorded >= issue.notAfter
          /\ issue.by = "self-signed" => issue.recorded = issue.notAfter
          /\ issue.signedAt <= issue.notAfter - Validity + TokenLife

LEMMA CTInvByIssue ==
    CTInv <=> /\ ctTime \in 1..MaxTime
              /\ ctProvider \in {"none", "self-signed", "step-ca", "aws-pca"}
              /\ ctIssue \in [Issues -> IssueStates]
              /\ \A i \in Issues : IssueInOrder(ctIssue[i], ctTime)
BY CertificateAssumption
DEF CTInv, CTTypeOK, AskedInTime, RecordedExpiryIsLate, IssueInOrder, IssueStates

LEMMA BlankIssue ==
    NoIssue \in IssueStates /\ \A time \in Nat : IssueInOrder(NoIssue, time)
BY DEF NoIssue, IssueStates, IssueInOrder

LEMMA IssueTyped ==
    ASSUME NEW issue \in IssueStates, NEW a \in Nat, NEW b \in Nat
    PROVE  /\ [issue EXCEPT !.pc = "issued", !.recorded = b] \in IssueStates
           /\ [issue EXCEPT !.pc = "issued", !.by = "self-signed", !.signedAt = a,
                            !.notAfter = b, !.recorded = b] \in IssueStates
           /\ [issue EXCEPT !.pc = "waits", !.by = "step-ca", !.token = a,
                            !.notAfter = b] \in IssueStates
BY DEF IssueStates

(* What the steps of an issuance make of it.                               *)
LEMMA IssueSteps ==
    ASSUME NEW issue \in IssueStates, NEW time \in Nat \ {0}, IssueInOrder(issue, time)
    PROVE  /\ LET failed == [issue EXCEPT !.pc = "failed"]
              IN  failed \in IssueStates /\ IssueInOrder(failed, time)
           /\ LET made == [NoIssue EXCEPT !.pc = "issued", !.by = "self-signed",
                              !.signedAt = time, !.notAfter = time + Validity,
                              !.recorded = time + Validity]
              IN  made \in IssueStates /\ IssueInOrder(made, time)
           /\ LET asked == [NoIssue EXCEPT !.pc = "waits", !.by = "step-ca",
                               !.token = time + TokenLife, !.notAfter = time + Validity]
              IN  asked \in IssueStates /\ IssueInOrder(asked, time)
           /\ issue.pc = "waits" /\ time <= issue.token =>
                  LET signed == [issue EXCEPT !.signedAt = time]
                  IN  signed \in IssueStates /\ IssueInOrder(signed, time)
           /\ issue.pc = "waits" =>
                  LET come == [issue EXCEPT !.pc = "issued", !.recorded = time + Validity]
                  IN  come \in IssueStates /\ IssueInOrder(come, time)
           /\ IssueInOrder(issue, time + 1)
<1>1. time + Validity \in Nat /\ time + TokenLife \in Nat /\ time \in Nat
  BY CertificateAssumption
<1> USE CertificateAssumption DEF IssueStates, IssueInOrder
<1>2. LET failed == [issue EXCEPT !.pc = "failed"]
      IN  failed \in IssueStates /\ IssueInOrder(failed, time)
  OBVIOUS
<1>3. LET made == [NoIssue EXCEPT !.pc = "issued", !.by = "self-signed",
                      !.signedAt = time, !.notAfter = time + Validity,
                      !.recorded = time + Validity]
      IN  made \in IssueStates /\ IssueInOrder(made, time)
  <2> DEFINE made == [NoIssue EXCEPT !.pc = "issued", !.by = "self-signed",
                         !.signedAt = time, !.notAfter = time + Validity,
                         !.recorded = time + Validity]
  <2>1. made \in IssueStates
    <3> HIDE DEF IssueStates, IssueInOrder
    <3> QED
      BY <1>1, BlankIssue, IssueTyped
  <2>2. /\ made.pc = "issued" /\ made.by = "self-signed" /\ made.signedAt = time
        /\ made.notAfter = time + Validity /\ made.recorded = time + Validity
    BY DEF NoIssue
  <2> HIDE DEF made
  <2>3. IssueInOrder(made, time)
    BY <2>2
  <2>4. QED
    BY <2>1, <2>3 DEF made
<1>4. LET asked == [NoIssue EXCEPT !.pc = "waits", !.by = "step-ca",
                       !.token = time + TokenLife, !.notAfter = time + Validity]
      IN  asked \in IssueStates /\ IssueInOrder(asked, time)
  <2> DEFINE asked == [NoIssue EXCEPT !.pc = "waits", !.by = "step-ca",
                          !.token = time + TokenLife, !.notAfter = time + Validity]
  <2>1. asked \in IssueStates
    <3> HIDE DEF IssueStates, IssueInOrder
    <3> QED
      BY <1>1, BlankIssue, IssueTyped
  <2>2. /\ asked.pc = "waits" /\ asked.by = "step-ca" /\ asked.signedAt = 0
        /\ asked.notAfter = time + Validity /\ asked.token = time + TokenLife
    BY DEF NoIssue
  <2> HIDE DEF asked
  <2>3. IssueInOrder(asked, time)
    BY <2>2
  <2>4. QED
    BY <2>1, <2>3 DEF asked
<1>5. ASSUME issue.pc = "waits", time <= issue.token
      PROVE  LET signed == [issue EXCEPT !.signedAt = time]
             IN  signed \in IssueStates /\ IssueInOrder(signed, time)
  BY <1>5
<1>6. ASSUME issue.pc = "waits"
      PROVE  LET come == [issue EXCEPT !.pc = "issued", !.recorded = time + Validity]
             IN  come \in IssueStates /\ IssueInOrder(come, time)
  <2> DEFINE come == [issue EXCEPT !.pc = "issued", !.recorded = time + Validity]
  <2>1. come \in IssueStates
    <3> HIDE DEF IssueStates, IssueInOrder
    <3> QED
      BY <1>1, IssueTyped
  <2>2. /\ come.pc = "issued" /\ come.recorded = time + Validity /\ come.by = issue.by
        /\ come.signedAt = issue.signedAt /\ come.notAfter = issue.notAfter
    OBVIOUS
  <2> HIDE DEF come
  <2>3. IssueInOrder(come, time)
    BY <1>6, <2>2
  <2>4. QED
    BY <2>1, <2>3 DEF come
<1>7. IssueInOrder(issue, time + 1)
  OBVIOUS
<1>8. QED
  BY <1>2, <1>3, <1>4, <1>5, <1>6, <1>7

LEMMA CTNextInv == CTInv /\ [CTNext]_ctVars => CTInv'
<1> SUFFICES ASSUME CTInv, [CTNext]_ctVars PROVE CTInv'
  OBVIOUS
<1> DEFINE Good == /\ ctIssue' \in [Issues -> IssueStates]
                   /\ \A i \in Issues : IssueInOrder(ctIssue'[i], ctTime')
<1>1. /\ ctTime \in Nat \ {0} /\ ctTime \in 1..MaxTime
      /\ ctProvider \in {"none", "self-signed", "step-ca", "aws-pca"}
      /\ ctIssue \in [Issues -> IssueStates]
      /\ \A i \in Issues : IssueInOrder(ctIssue[i], ctTime)
  BY CTInvByIssue, CertificateAssumption
<1>2. /\ ctTime' \in 1..MaxTime
      /\ ctProvider' \in {"none", "self-signed", "step-ca", "aws-pca"}
  <2>1. \/ ctTime' = ctTime
        \/ ctTime < MaxTime /\ ctTime' = ctTime + 1
    BY DEF CTNext, ctVars, CertTick, Configure, ProviderThrows, IssueSelfSigned,
       RequestSignature, CaSigns, SignatureArrives, SignatureFails
  <2>2. ctProvider' = ctProvider \/ ctProvider' \in {"self-signed", "step-ca", "aws-pca"}
    BY DEF CTNext, ctVars, CertTick, Configure, ProviderThrows, IssueSelfSigned,
       RequestSignature, CaSigns, SignatureArrives, SignatureFails
  <2>3. QED
    BY <1>1, <2>1, <2>2, CertificateAssumption
<1>3. ASSUME NEW i \in Issues, ctTime' = ctTime, NEW issue \in IssueStates,
             IssueInOrder(issue, ctTime), ctIssue' = [ctIssue EXCEPT ![i] = issue]
      PROVE  Good
  BY <1>1, <1>3
<1>4. ASSUME NEW i \in Issues, ProviderThrows(i) \/ SignatureFails(i) PROVE Good
  <2>1. ctIssue' = [ctIssue EXCEPT ![i] = [ctIssue[i] EXCEPT !.pc = "failed"]] /\ ctTime' = ctTime
    BY <1>4 DEF ProviderThrows, SignatureFails
  <2>2. QED
    BY <1>1, <1>3, <2>1, IssueSteps
<1>5. ASSUME NEW i \in Issues, IssueSelfSigned(i) PROVE Good
  BY <1>1, <1>3, <1>5, IssueSteps DEF IssueSelfSigned
<1>6. ASSUME NEW i \in Issues, RequestSignature(i) PROVE Good
  BY <1>1, <1>3, <1>6, IssueSteps DEF RequestSignature, TokenEnds
<1>7. ASSUME NEW i \in Issues, CaSigns(i) PROVE Good
  <2>1. ctIssue' = [ctIssue EXCEPT ![i] = [ctIssue[i] EXCEPT !.signedAt = ctTime]] /\ ctTime' = ctTime
    BY <1>7 DEF CaSigns
  <2>2. ctIssue[i].pc = "waits" /\ ctTime <= ctIssue[i].token
    BY <1>7 DEF CaSigns
  <2>3. QED
    BY <1>1, <1>3, <2>1, <2>2, IssueSteps
<1>8. ASSUME NEW i \in Issues, SignatureArrives(i) PROVE Good
  <2>1. /\ ctIssue' = [ctIssue EXCEPT ![i] =
               [ctIssue[i] EXCEPT !.pc = "issued", !.recorded = ctTime + Validity]]
        /\ ctTime' = ctTime
    BY <1>8 DEF SignatureArrives, Recorded
  <2>2. ctIssue[i].pc = "waits"
    BY <1>8 DEF SignatureArrives
  <2>3. QED
    BY <1>1, <1>3, <2>1, <2>2, IssueSteps
<1>9. ASSUME CertTick PROVE Good
  BY <1>1, <1>9, IssueSteps DEF CertTick
<1>10. ASSUME NEW p, Configure(p) PROVE Good
  BY <1>1, <1>10, BlankIssue DEF Configure
<1>11. ASSUME UNCHANGED ctVars PROVE Good
  BY <1>1, <1>11 DEF ctVars
<1>12. Good
  BY <1>4, <1>5, <1>6, <1>7, <1>8, <1>9, <1>10, <1>11 DEF CTNext
<1>13. QED
  BY <1>2, <1>12, CertificateAssumption
  DEF CTInv, CTTypeOK, AskedInTime, RecordedExpiryIsLate, IssueInOrder, IssueStates

THEOREM CertificatesInvariance == CTSpec => []CTInv
<1>1. CTInit => CTInv
  BY BlankIssue, CertificateAssumption, CTInvByIssue DEF CTInit
<1>2. QED
  BY <1>1, CTNextInv, PTL DEF CTSpec

(* A certificate that has come was signed within the life of the token it  *)
(* was asked for with, and the expiry the registration records is never    *)
(* before its own: CertService, for any validity and life of a token.      *)
THEOREM ExpirySafe == CTSpec => []RecordedExpiryIsLate
<1>1. CTInv => RecordedExpiryIsLate
  BY DEF CTInv
<1>2. QED
  BY <1>1, CertificatesInvariance, PTL

-----------------------------------------------------------------------------
(* ApiProcess                                                              *)

(* No value of the environment makes the port zero.                        *)
LEMMA PortIsOne == \A value \in EnvValues : NumberOr(value, 5001) # 0
BY DEF EnvValues, NumberOr, Numbers

LEMMA APNextTypeOK == APTypeOK /\ [APNext]_apVars => APTypeOK'
<1> SUFFICES ASSUME APTypeOK, [APNext]_apVars PROVE APTypeOK'
  OBVIOUS
<1> USE DEF APTypeOK, ProcessStages
<1>1. ASSUME NEW v \in EnvValues, StartProcess(v) PROVE APTypeOK'
  <2>1. apRuns' \in 0..MaxRuns
    BY <1>1, RunsAssumption DEF StartProcess
  <2>2. QED
    BY <1>1, <2>1 DEF StartProcess
<1>2. CASE LoadEnvironment \/ BuildAppAndListen \/ Signal \/ StartFails
  BY <1>2 DEF LoadEnvironment, BuildAppAndListen, Signal, StartFails
<1>3. CASE LoadConfig
  BY <1>3, PortIsOne DEF LoadConfig
<1>4. CASE ServerClosed \/ Killed
  BY <1>4 DEF ServerClosed, Killed, Gone
<1>5. ASSUME NEW r \in ApiRequests, ClientSends(r) \/ ApiAnswers(r) PROVE APTypeOK'
  BY <1>5 DEF ClientSends, ApiAnswers
<1>6. CASE UNCHANGED apVars
  BY <1>6 DEF apVars
<1>7. QED
  BY <1>1, <1>2, <1>3, <1>4, <1>5, <1>6 DEF APNext

(* A process that serves has a port, whatever the environment says of it   *)
(* (config.ts), and stages and requests are well formed.                   *)
THEOREM ProcessTypeCorrect == APSpec => []APTypeOK
<1>1. APInit => APTypeOK
  <2>1. 0 \in 0..MaxRuns
    BY RunsAssumption
  <2>2. QED
    BY <2>1 DEF APInit, APTypeOK, ProcessStages, EnvValues
<1>2. QED
  BY <1>1, APNextTypeOK, PTL DEF APSpec

(* A request that was accepted is cut off by a kill only: on a signal the  *)
(* server of index.ts closes when none is open, however many there were.   *)
THEOREM CutSafe == APSpec => CutOnlyByKill
<1> DEFINE A == \A r \in ApiRequests :
                   apRequest[r] = "open" /\ apRequest'[r] = "cut" => apKilled'
<1>1. APTypeOK /\ [APNext]_apVars => [A]_apVars
  <2> SUFFICES ASSUME APTypeOK, APNext PROVE A
    OBVIOUS
  <2>1. CASE ServerClosed
    BY <2>1 DEF ServerClosed, Closed, Open
  <2>2. CASE Killed
    BY <2>2 DEF Killed
  <2>3. ASSUME NEW r \in ApiRequests, ClientSends(r) \/ ApiAnswers(r) PROVE A
    BY <2>3 DEF ClientSends, ApiAnswers, APTypeOK
  <2>4. CASE UNCHANGED apRequest
    BY <2>4
  <2>5. QED
    BY <2>1, <2>2, <2>3, <2>4
    DEF APNext, StartProcess, LoadEnvironment, LoadConfig, BuildAppAndListen, StartFails, Signal
<1>2. QED
  BY <1>1, ProcessTypeCorrect, PTL DEF APSpec, CutOnlyByKill

-----------------------------------------------------------------------------
(* WorkspaceResource                                                       *)

WorkspaceStates ==
    [state : {"absent", "live", "deleting"}, adopted : BOOLEAN, created : BOOLEAN,
     phase : {"", "Ready", "ReconciliationError"}]

LEMMA BlankWorkspace ==
    /\ NoWorkspace \in WorkspaceStates /\ [NoWorkspace EXCEPT !.state = "live"] \in WorkspaceStates
    /\ NoWorkspace.created = FALSE /\ [NoWorkspace EXCEPT !.state = "live"].created = FALSE
BY DEF NoWorkspace, WorkspaceStates

(* The part of the invariant that the operator's start and its certificate *)
(* are concerned with, and the part of the resource.                       *)
OperatorTyped ==
    /\ opStage \in OperatorStages
    /\ opStarts \in 0..MaxStarts
    /\ opFiles \in 0..MaxCertificates /\ opClient \in 0..opFiles
    /\ opValid \subseteq 1..opFiles

PhaseTells(resource, failed) ==
    resource.created => resource.phase = IF failed THEN "ReconciliationError" ELSE "Ready"

ResourceInOrder ==
    /\ wsResource \in WorkspaceStates
    /\ wsHandler \in {"none", "Ready", "Deleting"}
    /\ wsTimer \in {"none", "ReconciliationError"}
    /\ wsFailed \in BOOLEAN
    /\ PhaseTells(wsResource, wsFailed)

LEMMA OperatorTypedStep == OperatorTyped /\ [WSNext]_wsAllVars => OperatorTyped'
<1> SUFFICES ASSUME OperatorTyped, [WSNext]_wsAllVars PROVE OperatorTyped'
  OBVIOUS
<1> USE WorkspaceResourceAssumption DEF OperatorTyped, OperatorStages
<1>1. CASE StoreCertificate
  <2>1. /\ opFiles' \in 0..MaxCertificates /\ opClient' \in 0..opFiles'
        /\ opStage' = opStage /\ opStarts' = opStarts
    BY <1>1 DEF StoreCertificate
  <2>2. opValid' \subseteq 1..opFiles'
    <3>1. opFiles' = opFiles + 1 /\ opValid' = opValid \cup {opFiles + 1}
      BY <1>1 DEF StoreCertificate
    <3>2. QED
      BY <3>1
  <2>3. QED
    BY <2>1, <2>2
<1>2. ASSUME NEW c \in opValid, CertificateExpires(c) PROVE OperatorTyped'
  BY <1>2 DEF CertificateExpires
<1>3. CASE OperatorCrashes \/ ConfigureRaises
  <2>1. opStage' = "down" /\ opClient' = 0 /\ UNCHANGED <<opStarts, opFiles, opValid>>
    BY <1>3 DEF OperatorCrashes, ConfigureRaises, Dies
  <2>2. opFiles \in Nat /\ 0 \in 0..opFiles
    OBVIOUS
  <2>3. QED
    BY <2>1, <2>2
<1>4. CASE OperatorStarts
  <2>1. opStarts' \in 0..MaxStarts
    BY <1>4 DEF OperatorStarts
  <2>2. QED
    BY <1>4, <2>1 DEF OperatorStarts
<1>5. CASE InstallCrds \/ CreateWorkspaceCr
  BY <1>5 DEF InstallCrds, CreateWorkspaceCr
<1>6. CASE InitializeClient
  BY <1>6 DEF InitializeClient
<1>7. CASE ReconcileWorkspace
  BY <1>7 DEF ReconcileWorkspace, ClientAfterSync
<1>8. CASE UNCHANGED opVars
  BY <1>8 DEF opVars
<1>9. QED
  BY <1>1, <1>2, <1>3, <1>4, <1>5, <1>6, <1>7, <1>8
  DEF WSNext, wsAllVars, AdoptWorkspace, DeleteWorkspace, WorkspaceOnCreate,
      WorkspaceOnDelete, HandlerPatch, TimerPatches

LEMMA ResourceInOrderStep == ResourceInOrder /\ [WSNext]_wsAllVars => ResourceInOrder'
<1> SUFFICES ASSUME ResourceInOrder, [WSNext]_wsAllVars PROVE ResourceInOrder'
  OBVIOUS
<1> USE BlankWorkspace DEF ResourceInOrder, PhaseTells
<1>1. CASE OperatorCrashes \/ ConfigureRaises
  BY <1>1 DEF OperatorCrashes, ConfigureRaises, Dies
<1>2. CASE AdoptWorkspace
  <2>1. /\ wsResource' = [wsResource EXCEPT !.adopted = TRUE]
        /\ UNCHANGED <<wsHandler, wsTimer, wsFailed>>
    BY <1>2 DEF AdoptWorkspace
  <2>2. QED
    BY <2>1 DEF WorkspaceStates
<1>3. CASE DeleteWorkspace
  <2>1. /\ wsResource' \in {NoWorkspace, [wsResource EXCEPT !.state = "deleting"]}
        /\ UNCHANGED <<wsHandler, wsTimer, wsFailed>>
    BY <1>3 DEF DeleteWorkspace
  <2>2. [wsResource EXCEPT !.state = "deleting"] \in WorkspaceStates
    BY DEF WorkspaceStates
  <2>3. /\ [wsResource EXCEPT !.state = "deleting"].created = wsResource.created
        /\ [wsResource EXCEPT !.state = "deleting"].phase = wsResource.phase
    BY DEF WorkspaceStates
  <2>4. QED
    BY <2>1, <2>2, <2>3
<1>4. CASE CreateWorkspaceCr
  BY <1>4 DEF CreateWorkspaceCr
<1>5. CASE WorkspaceOnCreate \/ WorkspaceOnDelete
  BY <1>5 DEF WorkspaceOnCreate, WorkspaceOnDelete
<1>6. CASE HandlerPatch
  <2>1. CASE wsHandler = "Deleting"
    BY <1>6, <2>1 DEF HandlerPatch
  <2>2. CASE wsHandler = "Ready"
    <3>1. /\ wsResource' = [wsResource EXCEPT !.phase = "Ready", !.created = TRUE]
          /\ wsFailed' = FALSE /\ wsHandler' = "none" /\ UNCHANGED wsTimer
      BY <1>6, <2>2 DEF HandlerPatch
    <3>2. QED
      BY <3>1 DEF WorkspaceStates
  <2>3. QED
    BY <1>6, <2>1, <2>2 DEF HandlerPatch
<1>7. CASE ReconcileWorkspace
  BY <1>7 DEF ReconcileWorkspace, PhaseAfterSync
<1>8. CASE TimerPatches
  <2>1. /\ wsResource' = [wsResource EXCEPT !.phase = "ReconciliationError"]
        /\ wsFailed' = TRUE /\ wsTimer' = "none" /\ UNCHANGED wsHandler
    BY <1>8 DEF TimerPatches
  <2>2. QED
    BY <2>1 DEF WorkspaceStates
<1>9. CASE UNCHANGED wsVars
  BY <1>9 DEF wsVars
<1>10. QED
  BY <1>1, <1>2, <1>3, <1>4, <1>5, <1>6, <1>7, <1>8, <1>9
  DEF WSNext, wsAllVars, StoreCertificate, CertificateExpires, OperatorStarts, InstallCrds,
      InitializeClient

LEMMA WSInvParts == WSInv <=> OperatorTyped /\ ResourceInOrder
BY DEF WSInv, WSTypeOK, OperatorTyped, ResourceInOrder, WorkspaceStates,
   PhaseTellsAnyFailure, PhaseTells

THEOREM WorkspaceInvariance == WSSpec => []WSInv
<1>1. WSInit => OperatorTyped /\ ResourceInOrder
  <2> SUFFICES ASSUME WSInit PROVE OperatorTyped /\ ResourceInOrder
    OBVIOUS
  <2>1. OperatorTyped
    BY WorkspaceResourceAssumption DEF WSInit, OperatorTyped, OperatorStages
  <2>2. ResourceInOrder
    BY BlankWorkspace DEF WSInit, ResourceInOrder, PhaseTells
  <2>3. QED
    BY <2>1, <2>2
<1>2. QED
  BY <1>1, OperatorTypedStep, ResourceInOrderStep, WSInvParts, PTL DEF WSSpec

(* The phase of a Workspace that is set up tells whether any report of its *)
(* life has failed, whatever starts, crashes and deletions come between:   *)
(* the timer of main.py patches failures only.                             *)
THEOREM PhaseSafe == WSSpec => []PhaseTellsAnyFailure
<1>1. WSInv => PhaseTellsAnyFailure
  BY DEF WSInv
<1>2. QED
  BY <1>1, WorkspaceInvariance, PTL

(* A client whose certificate has expired stays so while the operator      *)
(* runs, whatever is stored in the files (agent_client.py reads them at    *)
(* the start only), and every report it makes fails.                       *)
THEOREM StaleSafe == WSSpec => StaleUntilRestart
<1> DEFINE A == opStage = "running" /\ opClient \notin opValid /\ opStage' = "running"
                   => /\ opClient' \notin opValid'
                      /\ ReconcileWorkspace => wsTimer' = "ReconciliationError"
<1>1. WSInv /\ [WSNext]_wsAllVars => [A]_wsAllVars
  <2> SUFFICES ASSUME WSInv, WSNext, opStage = "running", opClient \notin opValid,
                      opStage' = "running"
               PROVE  /\ opClient' \notin opValid'
                      /\ ReconcileWorkspace => wsTimer' = "ReconciliationError"
    OBVIOUS
  <2>1. ReconcileWorkspace => wsTimer' = "ReconciliationError"
    BY DEF ReconcileWorkspace, PhaseAfterSync
  <2>2. CASE StoreCertificate
    <3>1. opClient \in 0..opFiles /\ opFiles \in Nat
      BY WSInvParts, WorkspaceResourceAssumption DEF OperatorTyped
    <3>2. opClient # opFiles + 1
      BY <3>1
    <3>3. QED
      BY <2>1, <2>2, <3>2 DEF StoreCertificate
  <2>3. ASSUME NEW c \in opValid, CertificateExpires(c) PROVE opClient' \notin opValid'
    BY <2>3 DEF CertificateExpires
  <2>4. CASE ReconcileWorkspace
    BY <2>1, <2>4 DEF ReconcileWorkspace, ClientAfterSync
  <2>5. CASE UNCHANGED <<opClient, opValid>>
    BY <2>1, <2>5
  <2>6. QED
    BY <2>1, <2>2, <2>3, <2>4, <2>5
    DEF WSNext, opVars, OperatorCrashes, AdoptWorkspace, DeleteWorkspace, OperatorStarts,
        InstallCrds, CreateWorkspaceCr, InitializeClient, ConfigureRaises, Dies,
        WorkspaceOnCreate, WorkspaceOnDelete, HandlerPatch, TimerPatches
<1>2. QED
  BY <1>1, WorkspaceInvariance, PTL DEF WSSpec, StaleUntilRestart

-----------------------------------------------------------------------------
(* ResourceHelpers                                                         *)

ObjectStates == [live : BOOLEAN, deleted : BOOLEAN, finalizers : SUBSET Finalizers]

WellFormed(object) ==
    /\ object \in ObjectStates
    /\ object.live \/ object = NoObject
    /\ object.deleted => object.finalizers # {}

(* What Kubernetes makes of a list: a resource that is deleted is given no *)
(* finalizer, and is gone with its last one.                               *)
LEMMA PatchedObject ==
    ASSUME NEW object \in ObjectStates, object.live, NEW list \in SUBSET Finalizers
    PROVE  /\ WellFormed(Patched(object, list))
           /\ Patched(object, list).live =>
                  (Other \in Patched(object, list).finalizers
                   <=> Other \in list /\ (object.deleted => Other \in object.finalizers))
           /\ Other \in list /\ Other \in object.finalizers => Patched(object, list).live
<1> DEFINE allowed == IF object.deleted THEN list \cap object.finalizers ELSE list
<1>1. allowed \in SUBSET Finalizers
  OBVIOUS
<1>2. CASE object.deleted /\ allowed = {}
  <2>1. Patched(object, list) = NoObject
    BY <1>2 DEF Patched
  <2>2. NoObject \in ObjectStates /\ ~ NoObject.live /\ ~ NoObject.deleted
    BY DEF NoObject, ObjectStates
  <2>3. QED
    BY <1>2, <2>1, <2>2 DEF WellFormed
<1>3. CASE ~ (object.deleted /\ allowed = {})
  <2>1. Patched(object, list) = [object EXCEPT !.finalizers = allowed]
    BY <1>3 DEF Patched
  <2>2. /\ Patched(object, list) \in ObjectStates
        /\ Patched(object, list).live /\ Patched(object, list).deleted = object.deleted
        /\ Patched(object, list).finalizers = allowed
    BY <1>1, <2>1 DEF ObjectStates
  <2>3. QED
    BY <1>3, <2>2 DEF WellFormed
<1>4. QED
  BY <1>2, <1>3

(* A resource whose deletion is asked for keeps the finalizers it has.     *)
LEMMA DeletedObject ==
    ASSUME NEW object \in ObjectStates, object.live
    PROVE  LET after == Patched([object EXCEPT !.deleted = TRUE], object.finalizers)
           IN  /\ WellFormed(after)
               /\ after.live => (Other \in after.finalizers <=> Other \in object.finalizers)
               /\ Other \in object.finalizers => after.live
<1> DEFINE asked == [object EXCEPT !.deleted = TRUE]
<1>1. /\ asked \in ObjectStates /\ asked.live /\ asked.finalizers = object.finalizers
      /\ object.finalizers \in SUBSET Finalizers
  BY DEF ObjectStates
<1> HIDE DEF asked
<1>2. QED
  BY <1>1, PatchedObject DEF asked

LEMMA HelperStateOf ==
    ASSUME NEW stage \in {"idle", "getOrCreate", "create", "handler", "handlerPatch", "delete",
                          "addon", "remove", "removePatch"},
           NEW seen \in SUBSET Finalizers
    PROVE  /\ [pc |-> stage, seen |-> seen] \in HelperStates
           /\ [pc |-> stage, seen |-> seen].pc = stage
           /\ [pc |-> stage, seen |-> seen].seen = seen
BY DEF HelperStates

(* The invariant, by what it says of the resource, of the calls, and of    *)
(* both.                                                                   *)
ObjectInOrder == /\ WellFormed(rhObject)
                 /\ {rhAddon, rhMeant, rhCrossed} \subseteq BOOLEAN
                 /\ rhMade \in 0..MaxHelpers
                 /\ rhMeant => rhObject.live
                 /\ OtherFinalizerKept

Writing(call) == call.pc \in {"handlerPatch", "removePatch"}

CallsInOrder == /\ rhCall \in [HelperCalls -> HelperStates]
                /\ ~ rhCrossed => \A c \in HelperCalls :
                       Writing(rhCall[c]) => (rhMeant <=> Other \in rhCall[c].seen)

LEMMA RHInvParts == RHInv <=> ObjectInOrder /\ CallsInOrder
<1>1. rhCall \in [HelperCalls -> HelperStates] =>
          \A c \in HelperCalls : rhCall[c].seen \subseteq Finalizers
  BY DEF HelperStates
<1>2. QED
  BY <1>1 DEF RHInv, RHTypeOK, SeenIsMeant, ObjectInOrder, CallsInOrder, WellFormed,
              ObjectStates, Writing

(* A step that changes neither the history nor the resource, and of one    *)
(* call at most, leaving it with what the resource has if it is to write.  *)
LEMMA CallMoves ==
    ASSUME ObjectInOrder, CallsInOrder, NEW c \in HelperCalls,
           NEW stage \in {"idle", "getOrCreate", "create", "handler", "handlerPatch", "delete",
                          "addon", "remove", "removePatch"},
           NEW seen \in SUBSET Finalizers, Go(c, stage, seen),
           UNCHANGED rhCrossed,
           rhCrossed \/ (rhMeant' = rhMeant),
           stage \in {"handlerPatch", "removePatch"} =>
               rhObject.live /\ seen = rhObject.finalizers
    PROVE  CallsInOrder'
<1> DEFINE new == [pc |-> stage, seen |-> seen]
<1>1. new \in HelperStates /\ new.pc = stage /\ new.seen = seen
  BY HelperStateOf
<1>2. rhCall' = [rhCall EXCEPT ![c] = new]
  BY DEF Go
<1> HIDE DEF new
<1>3. rhCall' \in [HelperCalls -> HelperStates]
  BY <1>1, <1>2 DEF CallsInOrder
<1>4. ASSUME ~ rhCrossed', NEW d \in HelperCalls, Writing(rhCall'[d])
      PROVE  rhMeant' <=> Other \in rhCall'[d].seen
  <2>1. ~ rhCrossed /\ (rhMeant' <=> rhMeant)
    BY <1>4
  <2>2. CASE d = c
    <3>1. rhCall'[d] = new
      BY <1>2, <2>2 DEF CallsInOrder
    <3>2. rhObject.live /\ seen = rhObject.finalizers
      BY <1>1, <1>4, <3>1 DEF Writing
    <3>3. rhMeant <=> Other \in seen
      BY <2>1, <3>2 DEF ObjectInOrder, OtherFinalizerKept
    <3>4. QED
      BY <1>1, <2>1, <3>1, <3>3
  <2>3. CASE d # c
    <3>1. rhCall'[d] = rhCall[d]
      BY <1>2, <2>3 DEF CallsInOrder
    <3>2. QED
      BY <1>4, <2>1, <3>1 DEF CallsInOrder
  <2>4. QED
    BY <2>2, <2>3
<1>5. QED
  BY <1>3, <1>4 DEF CallsInOrder

(* The patch of a list that has the other's finalizer as the call has read *)
(* it: what the create handler and the removal write.                      *)
LEMMA PatchKeeps ==
    ASSUME ObjectInOrder, CallsInOrder, NEW c \in HelperCalls,
           NEW stage \in {"handlerPatch", "removePatch"},
           NEW list \in SUBSET Finalizers, Other \in list <=> Other \in rhCall[c].seen,
           PatchList(c, stage, list)
    PROVE  ObjectInOrder' /\ CallsInOrder'
<1> DEFINE after == Patched(rhObject, list)
<1>1. /\ rhObject' = IF rhObject.live THEN after ELSE rhObject
      /\ rhMeant' = (rhMeant /\ rhObject'.live)
      /\ Go(c, "idle", {}) /\ UNCHANGED <<rhAddon, rhMade, rhCrossed>>
      /\ rhCall[c].pc = stage
  BY DEF PatchList
<1>2. rhMeant \in BOOLEAN /\ WellFormed(rhObject) /\ (rhMeant => rhObject.live)
  BY DEF ObjectInOrder
<1>3. ~ rhCrossed => (rhMeant <=> Other \in list)
  BY <1>1 DEF CallsInOrder, Writing
<1>4. ~ rhCrossed /\ rhObject.live => (rhMeant <=> Other \in rhObject.finalizers)
  BY DEF ObjectInOrder, OtherFinalizerKept
<1>5. rhObject.live =>
          /\ WellFormed(after)
          /\ after.live => (Other \in after.finalizers
                  <=> Other \in list /\ (rhObject.deleted => Other \in rhObject.finalizers))
          /\ Other \in list /\ Other \in rhObject.finalizers => after.live
  BY <1>2, PatchedObject DEF WellFormed
<1> HIDE DEF after
<1>6. /\ WellFormed(rhObject')
      /\ ~ rhCrossed => (rhMeant' <=> rhMeant)
      /\ ~ rhCrossed /\ rhObject'.live => (rhMeant' <=> Other \in rhObject'.finalizers)
      /\ rhMeant' => rhObject'.live
      /\ rhMeant' \in BOOLEAN
  <2>1. CASE rhObject.live
    BY <1>1, <1>2, <1>3, <1>4, <1>5, <2>1 DEF WellFormed, ObjectStates
  <2>2. CASE ~ rhObject.live
    BY <1>1, <1>2, <1>3, <1>4, <2>2
  <2>3. QED
    BY <2>1, <2>2
<1>7. ObjectInOrder'
  BY <1>1, <1>6 DEF ObjectInOrder, OtherFinalizerKept
<1>8. CallsInOrder'
  <2>1. rhCrossed \/ (rhMeant' = rhMeant)
    BY <1>2, <1>6
  <2>2. QED
    BY <1>1, <2>1, CallMoves
<1>9. QED
  BY <1>7, <1>8

LEMMA HelperStep ==
    ASSUME ObjectInOrder, CallsInOrder, NEW c \in HelperCalls,
           \/ \E s \in {"getOrCreate", "handler", "delete", "remove"} : Begin(c, s)
           \/ Lookup(c) \/ CreateObject(c) \/ HandlerStarts(c) \/ HandlerPatches(c)
           \/ DeleteObject(c) \/ LookForAddon(c) \/ ReadFinalizers(c)
           \/ RemovalPatches(c) \/ HelperFails(c)
    PROVE  ObjectInOrder' /\ CallsInOrder'
<1>1. WellFormed(rhObject) /\ rhObject.finalizers \in SUBSET Finalizers
      /\ {} \in SUBSET Finalizers /\ rhCall[c].seen \in SUBSET Finalizers
  BY DEF ObjectInOrder, CallsInOrder, WellFormed, ObjectStates, HelperStates
<1>2. ASSUME UNCHANGED <<rhObject, rhAddon, rhMade, rhMeant, rhCrossed>> PROVE ObjectInOrder'
  BY <1>2 DEF ObjectInOrder, OtherFinalizerKept
<1>3. ASSUME NEW s \in {"getOrCreate", "handler", "delete", "remove"}, Begin(c, s)
      PROVE  ObjectInOrder' /\ CallsInOrder'
  <2>1. Go(c, s, {}) /\ UNCHANGED <<rhObject, rhAddon, rhMeant, rhCrossed>>
    BY <1>3 DEF Begin
  <2>2. rhMade' \in 0..MaxHelpers
    BY <1>3, MaxHelpersAssumption DEF Begin, ObjectInOrder
  <2>3. ObjectInOrder'
    BY <2>1, <2>2 DEF ObjectInOrder, OtherFinalizerKept
  <2>4. CallsInOrder'
    BY <1>1, <2>1, CallMoves
  <2>5. QED
    BY <2>3, <2>4
<1>4. CASE Lookup(c)
  <2>1. UNCHANGED <<rhObject, rhAddon, rhMade, rhMeant, rhCrossed>>
        /\ (Go(c, "idle", {}) \/ Go(c, "create", {}))
    BY <1>4 DEF Lookup
  <2>2. CallsInOrder'
    BY <1>1, <2>1, CallMoves
  <2>3. QED
    BY <1>2, <2>1, <2>2
<1>5. CASE CreateObject(c)
  <2> DEFINE made == [live |-> TRUE, deleted |-> FALSE, finalizers |-> {}]
  <2>1. /\ rhObject' = IF rhObject.live THEN rhObject ELSE made
        /\ Go(c, "idle", {}) /\ UNCHANGED <<rhAddon, rhMade, rhMeant, rhCrossed>>
    BY <1>5 DEF CreateObject
  <2>2. WellFormed(made) /\ made.live /\ made.finalizers = {}
    BY DEF WellFormed, ObjectStates
  <2> HIDE DEF made
  <2>3. ObjectInOrder'
    BY <2>1, <2>2 DEF ObjectInOrder, OtherFinalizerKept
  <2>4. CallsInOrder'
    BY <1>1, <2>1, CallMoves
  <2>5. QED
    BY <2>3, <2>4
<1>6. CASE HandlerStarts(c)
  <2>1. /\ UNCHANGED <<rhObject, rhAddon, rhMade, rhMeant, rhCrossed>>
        /\ \/ rhObject.live /\ Go(c, "handlerPatch", rhObject.finalizers)
           \/ Go(c, "idle", {})
    BY <1>6 DEF HandlerStarts
  <2>2. CallsInOrder'
    BY <1>1, <2>1, CallMoves
  <2>3. QED
    BY <1>2, <2>1, <2>2
<1>7. CASE HandlerPatches(c)
  <2>1. /\ CreateHandlerList(rhCall[c].seen) \in SUBSET Finalizers
        /\ Other \in CreateHandlerList(rhCall[c].seen) <=> Other \in rhCall[c].seen
    BY <1>1 DEF CreateHandlerList, Finalizers, Own, Other
  <2>2. QED
    BY <1>7, <2>1, PatchKeeps DEF HandlerPatches
<1>8. CASE DeleteObject(c)
  <2> DEFINE after == Patched([rhObject EXCEPT !.deleted = TRUE], rhObject.finalizers)
  <2>1. /\ rhObject' = IF rhObject.live THEN after ELSE rhObject
        /\ rhMeant' = (rhMeant /\ rhObject'.live)
        /\ Go(c, "addon", {}) \/ Go(c, "idle", {})
        /\ UNCHANGED <<rhAddon, rhMade, rhCrossed>>
    BY <1>8 DEF DeleteObject
  <2>2. rhObject.live =>
            /\ WellFormed(after)
            /\ after.live => (Other \in after.finalizers <=> Other \in rhObject.finalizers)
            /\ Other \in rhObject.finalizers => after.live
    BY <1>1, DeletedObject DEF WellFormed
  <2>3. /\ rhMeant \in BOOLEAN /\ (rhMeant => rhObject.live)
        /\ ~ rhCrossed /\ rhObject.live => (rhMeant <=> Other \in rhObject.finalizers)
    BY DEF ObjectInOrder, OtherFinalizerKept
  <2> HIDE DEF after
  <2>4. /\ WellFormed(rhObject')
        /\ rhCrossed \/ rhMeant' = rhMeant
        /\ ~ rhCrossed /\ rhObject'.live => (rhMeant' <=> Other \in rhObject'.finalizers)
        /\ rhMeant' => rhObject'.live
        /\ rhMeant' \in BOOLEAN
    <3>1. CASE rhObject.live
      BY <2>1, <2>2, <2>3, <3>1 DEF WellFormed, ObjectStates
    <3>2. CASE ~ rhObject.live
      BY <1>1, <2>1, <2>3, <3>2
    <3>3. QED
      BY <3>1, <3>2
  <2>5. ObjectInOrder'
    BY <2>1, <2>4 DEF ObjectInOrder, OtherFinalizerKept
  <2>6. CallsInOrder'
    BY <1>1, <2>1, <2>4, CallMoves
  <2>7. QED
    BY <2>5, <2>6
<1>9. CASE LookForAddon(c)
  <2>1. UNCHANGED <<rhObject, rhAddon, rhMade, rhMeant, rhCrossed>>
        /\ (Go(c, "idle", {}) \/ Go(c, "remove", {}))
    BY <1>9 DEF LookForAddon
  <2>2. CallsInOrder'
    BY <1>1, <2>1, CallMoves
  <2>3. QED
    BY <1>2, <2>1, <2>2
<1>10. CASE ReadFinalizers(c)
  <2>1. /\ UNCHANGED <<rhObject, rhAddon, rhMade, rhMeant, rhCrossed>>
        /\ \/ rhObject.live /\ Go(c, "removePatch", rhObject.finalizers)
           \/ Go(c, "idle", {})
    BY <1>10 DEF ReadFinalizers
  <2>2. CallsInOrder'
    BY <1>1, <2>1, CallMoves
  <2>3. QED
    BY <1>2, <2>1, <2>2
<1>11. CASE RemovalPatches(c)
  <2>1. /\ RemovalList(rhCall[c].seen) \in SUBSET Finalizers
        /\ Other \in RemovalList(rhCall[c].seen) <=> Other \in rhCall[c].seen
    BY <1>1 DEF RemovalList, Finalizers, Own, Other
  <2>2. QED
    BY <1>11, <2>1, PatchKeeps DEF RemovalPatches
<1>12. CASE HelperFails(c)
  <2>1. Go(c, "idle", {}) /\ UNCHANGED <<rhObject, rhAddon, rhMade, rhMeant, rhCrossed>>
    BY <1>12 DEF HelperFails
  <2>2. CallsInOrder'
    BY <1>1, <2>1, CallMoves
  <2>3. QED
    BY <1>2, <2>1, <2>2
<1>13. QED
  BY <1>3, <1>4, <1>5, <1>6, <1>7, <1>8, <1>9, <1>10, <1>11, <1>12

(* The other controller's own steps: one between a read and a write is     *)
(* recorded, and otherwise no call is about to write.                      *)
LEMMA OtherStep ==
    ASSUME ObjectInOrder, CallsInOrder, OtherPutsOn \/ OtherTakesOff
    PROVE  ObjectInOrder' /\ CallsInOrder'
<1>1. WellFormed(rhObject) /\ rhMeant \in BOOLEAN /\ rhCrossed \in BOOLEAN
      /\ (rhMeant => rhObject.live)
  BY DEF ObjectInOrder
<1>2. CallsInOrder'
  <2>1. rhCall' = rhCall /\ rhCrossed' = (rhCrossed \/ Between)
    BY DEF OtherPutsOn, OtherTakesOff
  <2>2. Between <=> \E c \in HelperCalls : Writing(rhCall[c])
    BY DEF Between, Writing
  <2>3. ~ rhCrossed' => \A c \in HelperCalls : ~ Writing(rhCall'[c])
    BY <2>1, <2>2
  <2>4. QED
    BY <2>1, <2>3 DEF CallsInOrder
<1>3. CASE OtherPutsOn
  <2>1. /\ rhObject.live /\ ~ rhObject.deleted
        /\ rhObject' = [rhObject EXCEPT !.finalizers = rhObject.finalizers \cup {Other}]
        /\ rhMeant' = TRUE /\ rhCrossed' = (rhCrossed \/ Between)
        /\ UNCHANGED <<rhAddon, rhMade>>
    BY <1>3 DEF OtherPutsOn
  <2>2. /\ WellFormed(rhObject') /\ rhObject'.live
        /\ Other \in rhObject'.finalizers
    BY <1>1, <2>1 DEF WellFormed, ObjectStates, Finalizers
  <2>3. QED
    BY <1>1, <1>2, <2>1, <2>2 DEF ObjectInOrder, OtherFinalizerKept
<1>4. CASE OtherTakesOff
  <2>1. /\ rhMeant
        /\ rhObject' = Patched(rhObject, rhObject.finalizers \ {Other})
        /\ rhMeant' = FALSE /\ rhCrossed' = (rhCrossed \/ Between)
        /\ UNCHANGED <<rhAddon, rhMade>>
    BY <1>4 DEF OtherTakesOff
  <2>2. rhObject.finalizers \ {Other} \in SUBSET Finalizers
    BY <1>1 DEF WellFormed, ObjectStates
  <2>3. /\ WellFormed(rhObject')
        /\ rhObject'.live => Other \notin rhObject'.finalizers
    <3> DEFINE list == rhObject.finalizers \ {Other}
    <3>1. rhObject \in ObjectStates /\ rhObject.live
      BY <1>1, <2>1 DEF WellFormed
    <3>2. list \in SUBSET Finalizers /\ Other \notin list /\ rhObject' = Patched(rhObject, list)
      BY <2>1, <2>2
    <3> HIDE DEF list
    <3>3. QED
      BY <3>1, <3>2, PatchedObject
  <2>4. QED
    BY <1>1, <1>2, <2>1, <2>3 DEF ObjectInOrder, OtherFinalizerKept
<1>5. QED
  BY <1>3, <1>4

(* The finalizers, for any number of calls under way.                      *)
THEOREM HelpersInvariance == RHSpec => []RHInv
<1>1. RHInit => ObjectInOrder /\ CallsInOrder
  <2> SUFFICES ASSUME RHInit PROVE ObjectInOrder /\ CallsInOrder
    OBVIOUS
  <2>1. /\ WellFormed(NoObject) /\ ~ NoObject.live
        /\ NoHelper \in HelperStates /\ NoHelper.pc = "idle"
    BY DEF WellFormed, ObjectStates, NoObject, NoHelper, HelperStates
  <2>2. /\ rhObject = NoObject /\ rhAddon \in BOOLEAN
        /\ rhCall = [c \in HelperCalls |-> NoHelper]
        /\ rhMade = 0 /\ rhMeant = FALSE /\ rhCrossed = FALSE
    BY DEF RHInit
  <2>3. rhMade \in 0..MaxHelpers
    BY <2>2, MaxHelpersAssumption
  <2>4. ObjectInOrder
    BY <2>1, <2>2, <2>3 DEF ObjectInOrder, OtherFinalizerKept
  <2>5. CallsInOrder
    BY <2>1, <2>2 DEF CallsInOrder, Writing
  <2>6. QED
    BY <2>4, <2>5
<1>2. ObjectInOrder /\ CallsInOrder /\ [RHNext]_rhVars => ObjectInOrder' /\ CallsInOrder'
  <2> SUFFICES ASSUME ObjectInOrder, CallsInOrder, [RHNext]_rhVars
               PROVE  ObjectInOrder' /\ CallsInOrder'
    OBVIOUS
  <2>1. CASE AddonComesOrGoes
    BY <2>1 DEF AddonComesOrGoes, ObjectInOrder, CallsInOrder, OtherFinalizerKept
  <2>2. CASE UNCHANGED rhVars
    BY <2>2 DEF rhVars, ObjectInOrder, CallsInOrder, OtherFinalizerKept
  <2>3. QED
    BY <2>1, <2>2, HelperStep, OtherStep DEF RHNext
<1>3. QED
  BY <1>1, <1>2, RHInvParts, PTL DEF RHSpec

(* The agent's calls leave the finalizer of another controller alone: each *)
(* writes a whole list, but one that has what it has read of the other's   *)
(* (workspace_app.py, main.py).                                            *)
THEOREM FinalizerSafe == RHSpec => []OtherFinalizerKept
<1>1. RHInv => OtherFinalizerKept
  BY DEF RHInv
<1>2. QED
  BY <1>1, HelpersInvariance, PTL
=============================================================================
