------------------------- MODULE CertificateService --------------------------
(***************************************************************************)
(* CertService: a provider, chosen by configuration, makes a key pair and  *)
(* a certificate for an agent.  The self-signed provider does both on the  *)
(* spot; the Step CA provider makes a request and a token for it, good for *)
(* five minutes, and waits for the CA as long as it takes.  What the       *)
(* registration records of the certificate is computed here, the expiry by *)
(* the API's own clock.                                                    *)
(***************************************************************************)
EXTENDS Naturals

CONSTANTS
    Issues,     \* the issuances that may be under way
    Validity,   \* of a certificate, in ticks
    TokenLife,  \* of a provisioner token, in ticks
    MaxTime     \* bound on the clock

ASSUME CertificateAssumption ==
    Validity \in Nat \ {0} /\ TokenLife \in Nat \ {0} /\ MaxTime \in Nat \ {0}

VARIABLES
    ctTime,      \* the clock
    ctProvider,  \* the provider of the running process, "none" if it is down
    ctIssue      \* per issuance: how far it is, and the moments computed

ctVars == <<ctTime, ctProvider, ctIssue>>

(* `signedAt' is when the CA signed, 0 if it has not; `notAfter' the end   *)
(* asked for, `recorded' the expiry that goes into the database.           *)
NoIssue == [pc |-> "idle", by |-> "none", token |-> 0, signedAt |-> 0,
            notAfter |-> 0, recorded |-> 0]

CTInit ==
    /\ ctTime = 1
    /\ ctProvider = "none"
    /\ ctIssue = [i \in Issues |-> NoIssue]

(* The token's last moment.                                                *)
TokenNeverEnds(at) == MaxTime
TokenEnds(at) == at + TokenLife

(* The expiry recorded for a Step CA certificate is reckoned when the      *)
(* certificate has come, not when it was asked for.                        *)
Recorded == ctTime + Validity

-----------------------------------------------------------------------------
(* CertService is made anew for each registration, by the configuration of *)
(* the process; the AWS provider throws in its constructor, and so does    *)
(* the Step CA provider without its key and its certificates.              *)
Configure(provider) ==
    /\ ctProvider # provider
    /\ ctProvider' = provider
    /\ ctIssue' = [i \in Issues |-> IF ctIssue[i].pc = "waits" THEN NoIssue ELSE ctIssue[i]]
    /\ UNCHANGED ctTime

ProviderThrows(i) ==
    /\ ctIssue[i].pc = "idle"
    /\ ctProvider \in {"aws-pca", "step-ca"}
    /\ ctIssue' = [ctIssue EXCEPT ![i].pc = "failed"]
    /\ UNCHANGED <<ctTime, ctProvider>>

IssueSelfSigned(i) ==
    /\ ctIssue[i].pc = "idle"
    /\ ctProvider = "self-signed"
    /\ ctIssue' = [ctIssue EXCEPT ![i] =
           [NoIssue EXCEPT !.pc = "issued", !.by = "self-signed", !.signedAt = ctTime,
                           !.notAfter = ctTime + Validity, !.recorded = ctTime + Validity]]
    /\ UNCHANGED <<ctTime, ctProvider>>

(* generateCsr, createProvisionerToken, and signCsr up to its request.     *)
RequestSignature(i) ==
    /\ ctIssue[i].pc = "idle"
    /\ ctProvider = "step-ca"
    /\ ctIssue' = [ctIssue EXCEPT ![i] =
           [NoIssue EXCEPT !.pc = "waits", !.by = "step-ca", !.token = TokenEnds(ctTime),
                           !.notAfter = ctTime + Validity]]
    /\ UNCHANGED <<ctTime, ctProvider>>

(* The CA signs while the token lasts.                                     *)
CaSigns(i) ==
    /\ ctIssue[i].pc = "waits" /\ ctIssue[i].signedAt = 0
    /\ ctTime <= ctIssue[i].token
    /\ ctIssue' = [ctIssue EXCEPT ![i].signedAt = ctTime]
    /\ UNCHANGED <<ctTime, ctProvider>>

SignatureArrives(i) ==
    /\ ctIssue[i].pc = "waits" /\ ctIssue[i].signedAt # 0
    /\ ctIssue' = [ctIssue EXCEPT ![i].pc = "issued", ![i].recorded = Recorded]
    /\ UNCHANGED <<ctTime, ctProvider>>

(* The CA answers another status, or the connection breaks.                *)
SignatureFails(i) ==
    /\ ctIssue[i].pc = "waits"
    /\ ctIssue' = [ctIssue EXCEPT ![i].pc = "failed"]
    /\ UNCHANGED <<ctTime, ctProvider>>

CertTick ==
    /\ ctTime < MaxTime
    /\ ctTime' = ctTime + 1
    /\ UNCHANGED <<ctProvider, ctIssue>>

CTNext ==
    \/ CertTick
    \/ \E p \in {"self-signed", "step-ca", "aws-pca"} : Configure(p)
    \/ \E i \in Issues :
          \/ ProviderThrows(i) \/ IssueSelfSigned(i) \/ RequestSignature(i)
          \/ CaSigns(i) \/ SignatureArrives(i) \/ SignatureFails(i)

CTSpec == CTInit /\ [][CTNext]_ctVars

-----------------------------------------------------------------------------
(* The clock, the provider and the issuances are well formed.              *)
CTTypeOK ==
    /\ ctTime \in 1..MaxTime
    /\ ctProvider \in {"none", "self-signed", "step-ca", "aws-pca"}
    /\ \A i \in Issues : /\ ctIssue[i].pc \in {"idle", "waits", "issued", "failed"}
                         /\ ctIssue[i].signedAt \in 0..ctTime

(* A certificate that has come was signed within the life of the token it  *)
(* was asked for with, however long it was on its way.  The expiry in the  *)
(* database is never before the certificate's own, and is the same where   *)
(* the certificate was made on the spot.                                   *)
RecordedExpiryIsLate ==
    \A i \in Issues :
        ctIssue[i].pc = "issued" =>
            /\ ctIssue[i].recorded >= ctIssue[i].notAfter
            /\ ctIssue[i].by = "self-signed" => ctIssue[i].recorded = ctIssue[i].notAfter
            /\ ctIssue[i].signedAt <= ctIssue[i].notAfter - Validity + TokenLife

-----------------------------------------------------------------------------
(* The inductive invariant                                                 *)

IssueStates ==
    [pc : {"idle", "waits", "issued", "failed"}, by : {"none", "self-signed", "step-ca"},
     token : Nat, signedAt : Nat, notAfter : Nat, recorded : Nat]

(* A request that waits for the CA was made, with its token, at a moment   *)
(* that is not ahead of the clock.                                         *)
AskedInTime ==
    \A i \in Issues : ctIssue[i].pc = "waits" =>
        /\ ctIssue[i].by = "step-ca"
        /\ ctIssue[i].notAfter >= Validity /\ ctIssue[i].notAfter <= ctTime + Validity
        /\ ctIssue[i].token = ctIssue[i].notAfter - Validity + TokenLife
        /\ ctIssue[i].signedAt <= ctIssue[i].token

CTInv == /\ CTTypeOK
         /\ ctIssue \in [Issues -> IssueStates]
         /\ AskedInTime
         /\ RecordedExpiryIsLate
=============================================================================
