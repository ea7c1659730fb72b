---------------------------- MODULE ConsoleProofs ----------------------------
(***************************************************************************)
(* Proofs about the console: the session of a tab (ConsoleSession), for    *)
(* any realms, the card with the bootstrap command (BootstrapCard), for    *)
(* any number of tokens, the account form (AccountForm) and the typed      *)
(* inputs (FieldInputs), for any entries, the file input (FileField), for  *)
(* any number of files, the calls of the auth provider (SessionCalls), the *)
(* places a page draws into (PagePortals), the frame (ConsoleFrame), the   *)
(* guessed views (GuessedViews) and the saves of a record (RecordPages).   *)
(***************************************************************************)
EXTENDS ConsoleSession, BootstrapCard, AccountForm, FieldInputs, FileField, SessionCalls,
        PagePortals, ConsoleFrame, GuessedViews, RecordPages, FiniteSetTheorems, TLAPS

-----------------------------------------------------------------------------
(* ConsoleSession                                                          *)

LEMMA CSNextTypeOK == CSTypeOK /\ [CSNext]_csVars => CSTypeOK'
<1> SUFFICES ASSUME CSTypeOK, [CSNext]_csVars PROVE CSTypeOK'
  OBVIOUS
<1> USE DEF CSTypeOK, MaybeRealm
<1>1. ASSUME NEW p \in {"app", "gate"}, Reload(p) PROVE CSTypeOK'
  BY <1>1 DEF Reload, Load
<1>2. ASSUME NEW r \in SessionRealms, EnterRealm(r) PROVE CSTypeOK'
  BY <1>2 DEF EnterRealm
<1>3. CASE SentToGate
  BY <1>3 DEF SentToGate, Load
<1>4. CASE BeginInit
  BY <1>4 DEF BeginInit, Adopted
<1>5. CASE Redeems \/ InitFails
  BY <1>5 DEF Redeems, InitFails
<1>6. CASE GoesToLogin
  BY <1>6 DEF GoesToLogin, Leave
<1>7. CASE AdoptRealm
  BY <1>7 DEF AdoptRealm, Adopted
<1>8. CASE Logout \/ Login \/ TokenLost
  BY <1>8 DEF Logout, Login, LoginUnderWay, Adopted, TokenLost, Leave
<1>9. ASSUME NEW r \in MaybeRealm, OtherTab(r) PROVE CSTypeOK'
  BY <1>9 DEF OtherTab
<1>10. CASE UNCHANGED csVars
  BY <1>10 DEF csVars
<1>11. QED
  BY <1>1, <1>2, <1>3, <1>4, <1>5, <1>6, <1>7, <1>8, <1>9, <1>10 DEF CSNext

(* A redeemed answer is of the realm the page was made with, which is the  *)
(* one in the store.                                                       *)
LEMMA CSNextInv == CSInv /\ [CSNext]_csVars => CSInv'
<1> SUFFICES ASSUME CSInv, [CSNext]_csVars PROVE CSInv'
  OBVIOUS
<1>1. CSTypeOK'
  BY CSNextTypeOK DEF CSInv
<1>2. AnswerForThePage' /\ MixedOnlyByOtherTab'
  <2> USE DEF CSInv, CSTypeOK, AnswerForThePage, MixedOnlyByOtherTab
  <2>1. ASSUME NEW p, Reload(p) PROVE AnswerForThePage' /\ MixedOnlyByOtherTab'
    BY <2>1 DEF Reload, Load
  <2>2. ASSUME NEW r \in SessionRealms, EnterRealm(r)
        PROVE  AnswerForThePage' /\ MixedOnlyByOtherTab'
    BY <2>2 DEF EnterRealm
  <2>3. CASE SentToGate
    BY <2>3 DEF SentToGate, Load
  <2>4. CASE BeginInit
    BY <2>4 DEF BeginInit, Adopted
  <2>5. CASE Redeems \/ InitFails
    BY <2>5 DEF Redeems, InitFails
  <2>6. CASE GoesToLogin
    BY <2>6 DEF GoesToLogin, Leave
  <2>7. CASE AdoptRealm \/ TokenLost
    BY <2>7 DEF AdoptRealm, Adopted, TokenLost
  <2>8. CASE Logout \/ Login
    BY <2>8 DEF Logout, Login, Leave
  <2>9. ASSUME NEW r \in MaybeRealm, OtherTab(r)
        PROVE  AnswerForThePage' /\ MixedOnlyByOtherTab'
    BY <2>9 DEF OtherTab
  <2>10. CASE UNCHANGED csVars
    BY <2>10 DEF csVars
  <2>11. QED
    BY <2>1, <2>2, <2>3, <2>4, <2>5, <2>6, <2>7, <2>8, <2>9, <2>10 DEF CSNext
<1>3. QED
  BY <1>1, <1>2 DEF CSInv

THEOREM SessionInvariance == CSSpec => []CSInv
<1>1. CSInit => CSInv
  BY DEF CSInit, CSInv, CSTypeOK, AnswerForThePage, MixedOnlyByOtherTab, MaybeRealm
<1>2. QED
  BY <1>1, CSNextInv, PTL DEF CSSpec

(* The token of one realm is used with the account, or with the login      *)
(* server, of another only after another tab changed the realm: the realm  *)
(* gate, login and logout (also of a page whose init runs or has failed)   *)
(* and the way over the login page (keycloakAuthProvider.ts) never mix them,       *)
(* whatever realms there are.                                              *)
THEOREM MixedSafe == CSSpec => []MixedOnlyByOtherTab
<1>1. CSInv => MixedOnlyByOtherTab
  BY DEF CSInv
<1>2. QED
  BY <1>1, SessionInvariance, PTL

-----------------------------------------------------------------------------
(* BootstrapCard                                                           *)

LEMMA FirstTyped == FirstToken \in Agents
BY MaxTokensAssumption DEF FirstToken, Agents

LEMMA AgentTyped ==
    ASSUME NEW agent \in Agents
    PROVE  /\ agent.token < MaxTokens => NewToken(agent) \in Agents
           /\ \A b \in BOOLEAN : /\ [agent EXCEPT !.lapsed = b] \in Agents
                                 /\ [agent EXCEPT !.lapsed = b].token = agent.token
           /\ [agent EXCEPT !.active = TRUE] \in Agents
           /\ [agent EXCEPT !.active = TRUE].token = agent.token
<1>1. ASSUME agent.token < MaxTokens PROVE NewToken(agent) \in Agents
  <2>1. agent.token + 1 \in 1..MaxTokens
    BY <1>1, MaxTokensAssumption DEF Agents
  <2>2. QED
    BY <2>1 DEF Agents, NewToken
<1>2. QED
  BY <1>1 DEF Agents

LEMMA ExpiredTyped ==
    ASSUME BCTypeOK, NEW record \in Agents PROVE ExpiredNow(record) \subseteq BOOLEAN
BY DEF BCTypeOK, Agents, ExpiredNow

LEMMA BCNextInv == BCInv /\ [BCNext]_bcVars => BCInv'
<1> SUFFICES ASSUME BCInv, [BCNext]_bcVars PROVE BCInv'
  OBVIOUS
<1>1. BCTypeOK
  BY DEF BCInv
<1> USE DEF BCInv, BCTypeOK, RecordFollows
<1>2. CASE RegenerateToken
  BY <1>2 DEF RegenerateToken, RegenerateOffered
<1>3. CASE PostAnswered \/ PostFails
  BY <1>3 DEF PostAnswered, PostFails, AfterPost
<1>4. CASE Refocus \/ FetchFails
  BY <1>4 DEF Refocus, FetchFails
<1>5. CASE FetchAnswered
  <2>1. PICK l \in ExpiredNow(bcRead) : bcRecord' = [bcRead EXCEPT !.lapsed = l]
    BY <1>5 DEF FetchAnswered
  <2>2. bcRecord' \in Agents /\ bcRecord'.token = bcRead.token
    BY <1>1, <2>1, AgentTyped, ExpiredTyped
  <2>3. QED
    BY <1>5, <2>2 DEF FetchAnswered
<1>6. CASE Redraw
  <2>1. PICK l \in ExpiredNow(bcRecord) : bcRecord' = [bcRecord EXCEPT !.lapsed = l]
    BY <1>6 DEF Redraw
  <2>2. bcRecord' \in Agents /\ bcRecord'.token = bcRecord.token
    BY <1>1, <2>1, AgentTyped, ExpiredTyped
  <2>3. QED
    BY <1>6, <2>2 DEF Redraw
<1>7. CASE GenerateForCard \/ GenerateForAnother
  <2>1. bcAgent' \in Agents
    BY <1>7, AgentTyped DEF GenerateForCard, GenerateForAnother
  <2>2. QED
    BY <1>7, <2>1 DEF GenerateForCard, GenerateForAnother
<1>8. CASE FetchRead
  BY <1>8 DEF FetchRead
<1>9. CASE AgentRegisters \/ TokenLapses
  <2>1. bcAgent' \in Agents /\ bcAgent'.token = bcAgent.token
    BY <1>9, AgentTyped DEF AgentRegisters, TokenLapses
  <2>2. QED
    BY <1>9, <2>1 DEF AgentRegisters, TokenLapses
<1>10. CASE UNCHANGED bcVars
  BY <1>10 DEF bcVars
<1>11. QED
  BY <1>2, <1>3, <1>4, <1>5, <1>6, <1>7, <1>8, <1>9, <1>10 DEF BCNext

THEOREM CardInvariance == BCSpec => []BCInv
<1>1. BCInit => BCInv
  BY FirstTyped DEF BCInit, BCInv, BCTypeOK, RecordFollows
<1>2. QED
  BY <1>1, BCNextInv, PTL DEF BCSpec

(* The command the card shows bears the token in force, unless another     *)
(* client made one or an answer was lost: agent-bootstrap-command.tsx      *)
(* never leaves the old one standing after its own button, however many    *)
(* tokens are made.                                                        *)
THEOREM ShownTokenSafe == BCSpec => []ShownTokenInForce
<1>1. BCInv => ShownTokenInForce
  BY DEF BCInv, RecordFollows, ShownTokenInForce
<1>2. QED
  BY <1>1, CardInvariance, PTL

-----------------------------------------------------------------------------
(* AccountForm                                                             *)

LEMMA AFNextInv == AFInv /\ [AFNext]_afVars => AFInv'
<1> SUFFICES ASSUME AFInv, [AFNext]_afVars PROVE AFInv'
  OBVIOUS
<1> USE DEF AFInv, AFTypeOK, ChoiceMarked, MismatchNeedsRepick
<1>1. /\ "none" \notin Providers /\ "pending" \notin Providers /\ "failed" \notin Providers
      /\ "none" \notin AllRegions
  BY CatalogueAssumption
<1>2. CASE AccountSave
  BY <1>1, <1>2 DEF AccountSave, NoChoice
<1>3. CASE ClearProvider
  BY <1>1, <1>3 DEF ClearProvider
<1>4. CASE ClearRegion
  BY <1>1, <1>4 DEF ClearRegion
<1>5. CASE RegionsAnswered
  BY <1>1, <1>5 DEF RegionsAnswered
<1>6. ASSUME NEW p \in Providers, PickProvider(p) PROVE AFInv'
  BY <1>1, <1>6 DEF PickProvider
<1>7. ASSUME NEW r \in AllRegions, PickRegion(r) PROVE AFInv'
  BY <1>1, <1>7 DEF PickRegion, RegionChoices
<1>8. CASE UNCHANGED afVars
  BY <1>8 DEF afVars
<1>9. QED
  BY <1>2, <1>3, <1>4, <1>5, <1>6, <1>7, <1>8 DEF AFNext

(* A choice whose region is not of its provider's list is marked as        *)
(* changed since the region was picked (AccountProvisioning.tsx).          *)
THEOREM FormInvariance == AFSpec => []AFInv
<1>1. AFInit => AFInv
  BY CatalogueAssumption
     DEF AFInit, AFInv, AFTypeOK, ChoiceMarked, MismatchNeedsRepick, NoChoice
<1>2. QED
  BY <1>1, AFNextInv, PTL DEF AFSpec

(* An account of a region its provider does not have was made with a       *)
(* region picked before the provider, or from the list of another one:     *)
(* AccountProvisioning.tsx, which createAccountTx does not make good.  For *)
(* any catalogue of providers and regions.                                 *)
THEOREM MismatchSafe == AFSpec => []MismatchNeedsRepick
<1>1. AFInv => MismatchNeedsRepick
  BY DEF AFInv
<1>2. QED
  BY <1>1, FormInvariance, PTL

-----------------------------------------------------------------------------
(* FieldInputs                                                             *)

(* The value of a form is no half-typed text.                              *)
LEMMA ValuesNotHalf ==
    ASSUME NEW kind \in Kinds, NEW value \in ValuesOf(kind)
    PROVE  /\ value # "half" /\ value # "empty"
           /\ Element(Format(value)) = Format(value) /\ Agree(Format(value), value)
           /\ Format(value) \in Entries \cup {"empty", "zero", "on"}
BY EntriesAssumption DEF Kinds, ValuesOf, Element, Format, Agree

LEMMA FINextTypeOK == FITypeOK /\ ShownOfKind /\ [FINext]_fiVars => FITypeOK'
<1> SUFFICES ASSUME FITypeOK, ShownOfKind, [FINext]_fiVars PROVE FITypeOK'
  OBVIOUS
<1> USE EntriesAssumption DEF FITypeOK, Kinds, IsDate
<1>1. CASE EnterField
  BY <1>1 DEF EnterField
<1>2. ASSUME NEW t \in Entries \cup {"empty", "half"}, TypeDate(t) PROVE FITypeOK'
  BY <1>2 DEF TypeDate, ValuesOf, Excuse
<1>3. ASSUME NEW t \in Entries \cup {"empty", "zero"}, TypeNumber(t) PROVE FITypeOK'
  BY <1>3 DEF TypeNumber, ValuesOf, Excuse, Parsed
<1>4. CASE Switch
  BY <1>4 DEF Switch, ValuesOf, Format
<1>5. CASE LeaveDate
  <2>1. fiValue' \in ValuesOf(fiKind)
    BY <1>5 DEF LeaveDate, ValuesOf, Parsed, BlurSubmits, Element, Format, ShownOfKind
  <2>2. fiWhy' \in {"none", "missed", "refused"}
    BY <1>5 DEF LeaveDate, Excuse
  <2>3. QED
    BY <1>5, <2>1, <2>2 DEF LeaveDate
<1>6. CASE LeaveNumber
  BY <1>6, ValuesNotHalf DEF LeaveNumber
<1>7. ASSUME NEW v \in Entries \cup {"null", "zero", "on"}, SetOutside(v) PROVE FITypeOK'
  BY <1>7, ValuesNotHalf DEF SetOutside, ShownAfter, Excuse
<1>8. CASE UNCHANGED fiVars
  BY <1>8 DEF fiVars
<1>9. QED
  BY <1>1, <1>2, <1>3, <1>4, <1>5, <1>6, <1>7, <1>8 DEF FINext

LEMMA FINextOfKind == FITypeOK /\ ShownOfKind /\ [FINext]_fiVars => ShownOfKind'
<1> SUFFICES ASSUME FITypeOK, ShownOfKind, [FINext]_fiVars PROVE ShownOfKind'
  OBVIOUS
<1> USE EntriesAssumption DEF FITypeOK, ShownOfKind, Kinds, IsDate
<1>1. ASSUME NEW t \in Entries \cup {"empty", "half"}, TypeDate(t) PROVE ShownOfKind'
  BY <1>1 DEF TypeDate
<1>2. ASSUME NEW t \in Entries \cup {"empty", "zero"}, TypeNumber(t) PROVE ShownOfKind'
  BY <1>2 DEF TypeNumber
<1>3. CASE Switch
  BY <1>3 DEF Switch, Format
<1>4. CASE LeaveNumber
  BY <1>4 DEF LeaveNumber, ValuesOf, Format
<1>5. ASSUME NEW v \in Entries \cup {"null", "zero", "on"}, SetOutside(v) PROVE ShownOfKind'
  BY <1>5 DEF SetOutside, ShownAfter, ValuesOf, Format
<1>6. CASE UNCHANGED <<fiKind, fiShown>>
  BY <1>6
<1>7. QED
  BY <1>1, <1>2, <1>3, <1>4, <1>5, <1>6 DEF FINext, fiVars, EnterField, LeaveDate

LEMMA FINextTells == FIInv /\ [FINext]_fiVars => FieldTellsValue'
<1> SUFFICES ASSUME FIInv, [FINext]_fiVars PROVE FieldTellsValue'
  OBVIOUS
<1> USE EntriesAssumption DEF FIInv, FITypeOK, FieldTellsValue
<1>1. CASE EnterField
  BY <1>1 DEF EnterField
<1>2. ASSUME NEW t, TypeDate(t) \/ TypeNumber(t) PROVE FieldTellsValue'
  BY <1>2 DEF TypeDate, TypeNumber
<1>3. CASE Switch
  <2>1. fiValue' \in ValuesOf("boolean") /\ fiShown' = Format(fiValue')
    BY <1>3 DEF Switch, ValuesOf
  <2>2. Agree(fiShown, fiValue)'
    BY <2>1, ValuesNotHalf DEF Kinds
  <2>3. QED
    BY <2>2
<1>4. CASE LeaveDate
  BY <1>4 DEF LeaveDate, ValuesOf, Excuse, Agree, Parsed, BlurSubmits, ParseFails,
     Element, Format, IsDate, Kinds
<1>5. CASE LeaveNumber
  BY <1>5, ValuesNotHalf DEF LeaveNumber
<1>6. ASSUME NEW v, SetOutside(v) PROVE FieldTellsValue'
  BY <1>6, ValuesNotHalf DEF SetOutside, ShownAfter, Excuse, IsDate
<1>7. CASE UNCHANGED fiVars
  BY <1>7 DEF fiVars
<1>8. QED
  BY <1>1, <1>2, <1>3, <1>4, <1>5, <1>6, <1>7 DEF FINext

(* Only a number shows a zero and only a boolean a ticked box, so that     *)
(* leaving a date submits neither (date-input.tsx, number-input.tsx,       *)
(* boolean-input.tsx).                                                     *)
THEOREM FieldInvariance == FISpec => []FIInv
<1>1. FIInit => FIInv
  <2> SUFFICES ASSUME FIInit PROVE FIInv
    OBVIOUS
  <2>1. FITypeOK /\ FieldTellsValue
    BY ValuesNotHalf DEF FIInit, FITypeOK, FieldTellsValue
  <2>2. ShownOfKind
    BY EntriesAssumption DEF FIInit, ShownOfKind, Format, ValuesOf, Kinds
  <2>3. QED
    BY <2>1, <2>2 DEF FIInv
<1>2. FIInv /\ [FINext]_fiVars => FIInv'
  BY FINextTypeOK, FINextOfKind, FINextTells DEF FIInv
<1>3. QED
  BY <1>1, <1>2, PTL DEF FISpec

(* A field the user has left shows what the form will submit, but for the  *)
(* two cases the inputs' own marks tell of (date-input.tsx,                *)
(* date-time-input.tsx, number-input.tsx, boolean-input.tsx): whatever is  *)
(* typed, left half done or set from outside, in whatever order.           *)
THEOREM FieldSafe == FISpec => []FieldTellsValue
<1>1. FIInv => FieldTellsValue
  BY DEF FIInv
<1>2. QED
  BY <1>1, FieldInvariance, PTL

-----------------------------------------------------------------------------
(* FileField                                                               *)

(* The invariant, by what it says of the field and of the removals under   *)
(* check.                                                                  *)
FieldInOrder ==
    /\ ffMultiple \in BOOLEAN /\ ffChecked \in BOOLEAN /\ ffCrossed \in BOOLEAN
    /\ ffDropped \in 0..MaxFiles
    /\ ffFiles \subseteq 1..ffDropped /\ ffFiles \subseteq ffUrls
    /\ ~ ffMultiple => \A f, g \in ffFiles : f = g
    /\ FilesAsMeant

Known(files) == /\ files \subseteq 1..ffDropped /\ files \subseteq ffUrls
                /\ ~ ffMultiple => \A f, g \in files : f = g

RemovalsInOrder ==
    /\ \A r \in ffAsking : r.file \in r.seen /\ Known(r.seen)
                           /\ r = [file |-> r.file, seen |-> r.seen]
    /\ AskedInPeace

LEMMA FFInvParts == FFInv <=> FieldInOrder /\ RemovalsInOrder
BY DEF FFInv, FFTypeOK, OneAtMost, FieldInOrder, RemovalsInOrder, Known

(* What the code leaves in the form is of what was there and was dropped.  *)
LEMMA FieldStep == FieldInOrder /\ RemovalsInOrder /\ [FFNext]_ffVars => FieldInOrder'
<1> SUFFICES ASSUME FieldInOrder, RemovalsInOrder, [FFNext]_ffVars PROVE FieldInOrder'
  OBVIOUS
<1> USE DEF FieldInOrder, FilesAsMeant
<1>1. CASE Drop
  <2>1. /\ ffDropped' = ffDropped + 1 /\ ffDropped' \in 0..MaxFiles
        /\ 1..ffDropped \subseteq 1..ffDropped' /\ ffDropped' \in 1..ffDropped'
    BY <1>1, MaxFilesAssumption DEF Drop
  <2>2. /\ ffFiles' = IF ffMultiple THEN ffFiles \cup {ffDropped'} ELSE {ffDropped'}
        /\ ffUrls' = ffUrls \cup ffFiles'
        /\ ffMeant' = {ffDropped'} \cup (IF ffMultiple THEN ffMeant ELSE {})
        /\ ffCrossed' = (ffCrossed \/ ffAsking # {})
        /\ UNCHANGED <<ffMultiple, ffChecked>>
    BY <1>1 DEF Drop, WithDropped, Redrawn, Revoked
  <2>3. QED
    BY <2>1, <2>2
<1>2. CASE DropRejected
  BY <1>2 DEF DropRejected, Redrawn, Revoked
<1>3. ASSUME NEW f \in ffFiles, AskRemoval(f) PROVE FieldInOrder'
  BY <1>3 DEF AskRemoval
<1>4. ASSUME NEW f \in ffFiles, RemoveAtOnce(f) PROVE FieldInOrder'
  BY <1>4 DEF RemoveAtOnce, WithoutFile, Redrawn, Revoked
<1>5. ASSUME NEW r \in ffAsking, RemovalRefused(r) PROVE FieldInOrder'
  BY <1>5 DEF RemovalRefused
<1>6. ASSUME NEW r \in ffAsking, RemovalPasses(r) PROVE FieldInOrder'
  <2>1. /\ ffFiles' = IF ffMultiple THEN r.seen \ {r.file} ELSE {}
        /\ ffUrls' = ffUrls \cup ffFiles'
        /\ ffMeant' = ffMeant \ {r.file}
        /\ UNCHANGED <<ffMultiple, ffChecked, ffDropped, ffCrossed>>
    BY <1>6 DEF RemovalPasses, WithoutFile, Redrawn, Revoked
  <2>2. r.file \in r.seen /\ Known(r.seen) /\ (~ ffCrossed => r.seen = ffFiles)
    BY <1>6 DEF RemovalsInOrder, AskedInPeace
  <2>3. ~ ffMultiple => r.seen = {r.file}
    BY <2>2 DEF Known
  <2>4. QED
    BY <2>1, <2>2, <2>3 DEF Known
<1>7. CASE UNCHANGED ffVars
  BY <1>7 DEF ffVars
<1>8. QED
  BY <1>1, <1>2, <1>3, <1>4, <1>5, <1>6, <1>7 DEF FFNext

(* A removal that is out while another one, or a drop, comes marks the     *)
(* crossing; the last one to come back leaves none out.                    *)
LEMMA RemovalsStep == FieldInOrder /\ RemovalsInOrder /\ [FFNext]_ffVars => RemovalsInOrder'
<1> SUFFICES ASSUME FieldInOrder, RemovalsInOrder, [FFNext]_ffVars PROVE RemovalsInOrder'
  OBVIOUS
<1> USE DEF RemovalsInOrder, AskedInPeace, Known
<1>1. CASE Drop
  <2>1. /\ UNCHANGED <<ffAsking, ffMultiple, ffChecked>>
        /\ ffCrossed' = (ffCrossed \/ ffAsking # {})
        /\ ffUrls \subseteq ffUrls'
    BY <1>1 DEF Drop, Redrawn, Revoked
  <2>2. 1..ffDropped \subseteq 1..ffDropped'
    BY <1>1, MaxFilesAssumption DEF Drop, FieldInOrder
  <2>3. QED
    BY <2>1, <2>2
<1>2. CASE DropRejected
  <2>1. /\ UNCHANGED <<ffAsking, ffMultiple, ffChecked, ffDropped>>
        /\ ffAsking # {} => ffCrossed'
        /\ ffCrossed => ffCrossed'
        /\ ffUrls \subseteq ffUrls'
    BY <1>2 DEF DropRejected, Redrawn, Revoked
  <2>2. QED
    BY <2>1
<1>3. ASSUME NEW f \in ffFiles, AskRemoval(f) PROVE RemovalsInOrder'
  <2> DEFINE new == [file |-> f, seen |-> ffFiles]
  <2>1. /\ ffAsking' = ffAsking \cup {new}
        /\ ffCrossed' = (ffCrossed \/ ffAsking # {})
        /\ ffChecked
        /\ UNCHANGED <<ffMultiple, ffChecked, ffFiles, ffDropped, ffUrls>>
    BY <1>3 DEF AskRemoval
  <2>2. new.file = f /\ new.seen = ffFiles /\ new = [file |-> new.file, seen |-> new.seen]
    OBVIOUS
  <2> HIDE DEF new
  <2>3. QED
    BY <2>1, <2>2 DEF FieldInOrder
<1>4. ASSUME NEW f \in ffFiles, RemoveAtOnce(f) PROVE RemovalsInOrder'
  BY <1>4 DEF RemoveAtOnce
<1>5. ASSUME NEW r \in ffAsking, RemovalRefused(r) PROVE RemovalsInOrder'
  BY <1>5 DEF RemovalRefused
<1>6. ASSUME NEW r \in ffAsking, RemovalPasses(r) PROVE RemovalsInOrder'
  <2>1. /\ ffAsking' = ffAsking \ {r} /\ ffUrls \subseteq ffUrls'
        /\ UNCHANGED <<ffMultiple, ffChecked, ffDropped, ffCrossed>>
    BY <1>6 DEF RemovalPasses, Redrawn, Revoked
  <2>2. ~ ffCrossed => ffAsking' = {}
    BY <1>6, <2>1
  <2>3. QED
    BY <2>1, <2>2
<1>7. CASE UNCHANGED ffVars
  BY <1>7 DEF ffVars
<1>8. QED
  BY <1>1, <1>2, <1>3, <1>4, <1>5, <1>6, <1>7 DEF FFNext

THEOREM FilesInvariance == FFSpec => []FFInv
<1>1. FFInit => FieldInOrder /\ RemovalsInOrder
  <2> SUFFICES ASSUME FFInit PROVE FieldInOrder /\ RemovalsInOrder
    OBVIOUS
  <2>1. ffDropped \in 0..MaxFiles
    BY MaxFilesAssumption DEF FFInit
  <2>2. QED
    BY <2>1 DEF FFInit, FieldInOrder, RemovalsInOrder, FilesAsMeant, AskedInPeace
<1>2. QED
  BY <1>1, FieldStep, RemovalsStep, FFInvParts, PTL DEF FFSpec

(* The file field holds the files the user meant, for any number of files  *)
(* dropped, unless something crossed a removal that was being checked      *)
(* (file-input.tsx).                                                       *)
THEOREM FilesSafe == FFSpec => []FilesAsMeant
<1>1. FFInv => FilesAsMeant
  BY DEF FFInv
<1>2. QED
  BY <1>1, FilesInvariance, PTL

-----------------------------------------------------------------------------
(* SessionCalls                                                            *)

(* A call that waits for the login can always still be woken: its timeout  *)
(* runs, whoever has replaced its handler; and one call at most, the first *)
(* one, waits for the initialisation (initKeyCloakClient and               *)
(* isAuthenticated of the auth provider).  For any number of calls.        *)
THEOREM WaitersSafe == SCSpec => []SCTypeOK
<1>1. SCInit => SCTypeOK
  BY DEF SCInit, SCTypeOK, AuthMethods, AuthStages
<1>2. SCTypeOK /\ [SCNext]_scVars => SCTypeOK'
  <2> SUFFICES ASSUME SCTypeOK, [SCNext]_scVars PROVE SCTypeOK'
    OBVIOUS
  <2> USE DEF SCTypeOK, AuthStages
  <2>1. ASSUME NEW c \in AuthCallers, FirstCall(c) PROVE SCTypeOK'
    BY <2>1 DEF FirstCall, MayCall
  <2>2. ASSUME NEW c \in AuthCallers, InitThrows(c) PROVE SCTypeOK'
    BY <2>2 DEF InitThrows
  <2>3. ASSUME NEW c \in AuthCallers, LaterCall(c) \/ BeginWait(c) PROVE SCTypeOK'
    <3>1. IsAuthenticated(c) /\ UNCHANGED <<scInit, scLogged, scMethod, scSaved>> /\ scInit # "none"
      BY <2>3 DEF LaterCall, BeginWait
    <3>2. CASE scLogged
      <4>1. scCall[c] # "wait" \/ scInit = "none"
        BY <2>3 DEF LaterCall, BeginWait, MayCall
      <4>2. QED
        BY <3>1, <3>2, <4>1 DEF IsAuthenticated
    <3>3. CASE ~ scLogged
      BY <3>1, <3>3 DEF IsAuthenticated, TimersWith
    <3>4. QED
      BY <3>2, <3>3
  <2>4. ASSUME NEW c \in AuthCallers, TimesOut(c) PROVE SCTypeOK'
    BY <2>4 DEF TimesOut
  <2>5. ASSUME NEW c \in AuthCallers, AuthAnswer(c) PROVE SCTypeOK'
    BY <2>5 DEF AuthAnswer
  <2>6. CASE Initialised
    BY <2>6 DEF Initialised
  <2>7. CASE LoggedIn
    BY <2>7 DEF LoggedIn
  <2>8. CASE LoggedOut
    BY <2>8 DEF LoggedOut
  <2>9. CASE UNCHANGED scVars
    BY <2>9 DEF scVars
  <2>10. QED
    BY <2>1, <2>2, <2>3, <2>4, <2>5, <2>6, <2>7, <2>8, <2>9 DEF SCNext
<1>3. QED
  BY <1>1, <1>2, PTL DEF SCSpec

(* A call that has the client's one handler is woken by the login          *)
(* (keycloakAuthProvider.ts, isAuthenticated): who is left to its timeout  *)
(* has lost it to a later call, whatever becomes of the initialisation.    *)
THEOREM LastWaiterSafe == SCSpec => []LastWaiterWoken
<1>1. SCInit => LastWaiterWoken
  BY DEF SCInit, LastWaiterWoken
<1>2. SCTypeOK /\ LastWaiterWoken /\ [SCNext]_scVars => LastWaiterWoken'
  <2> SUFFICES ASSUME SCTypeOK, LastWaiterWoken, [SCNext]_scVars PROVE LastWaiterWoken'
    OBVIOUS
  <2> USE DEF LastWaiterWoken, SCTypeOK
  <2>1. ASSUME NEW c \in AuthCallers, FirstCall(c) \/ InitThrows(c) \/ TimesOut(c) \/ AuthAnswer(c)
        PROVE  LastWaiterWoken'
    BY <2>1 DEF FirstCall, InitThrows, TimesOut, AuthAnswer
  <2>2. ASSUME NEW c \in AuthCallers, LaterCall(c) \/ BeginWait(c) PROVE LastWaiterWoken'
    <3>1. IsAuthenticated(c) /\ UNCHANGED scLogged
      BY <2>2 DEF LaterCall, BeginWait
    <3>2. QED
      BY <3>1 DEF IsAuthenticated
  <2>3. CASE Initialised \/ LoggedOut
    BY <2>3 DEF Initialised, LoggedOut
  <2>4. CASE LoggedIn
    BY <2>4, CallersAssumption DEF LoggedIn
  <2>5. CASE UNCHANGED scVars
    BY <2>5 DEF scVars
  <2>6. QED
    BY <2>1, <2>2, <2>3, <2>4, <2>5 DEF SCNext
<1>3. QED
  BY <1>1, <1>2, WaitersSafe, PTL DEF SCSpec

-----------------------------------------------------------------------------
(* PagePortals                                                             *)

(* A breadcrumb has put its header there with its first drawing, which the *)
(* portals of the page then draw into (breadcrumb.tsx).                    *)
THEOREM PortalsInvariance == PPSpec => []PPInv
<1>1. PPInit => PPInv
  <2>1. 0 \in 0..MaxButtons /\ 0 \in 0..0 /\ 1 \in 1..3
    BY MaxButtonsAssumption
  <2>2. QED
    BY <2>1 DEF PPInit, PPInv, PPTypeOK, Screens, NoElement
<1>2. PPInv /\ [PPNext]_ppVars => PPInv'
  <2> SUFFICES ASSUME PPInv, [PPNext]_ppVars PROVE PPInv'
    OBVIOUS
  <2> USE MaxButtonsAssumption DEF PPInv, PPTypeOK, Screens, NoElement, MenuInReach, ppCrumbVars, ppMenuVars
  <2>1. ASSUME NEW n \in 1..3, MountCrumb(n) PROVE PPInv'
    BY <2>1 DEF MountCrumb, CrumbDrawn
  <2>2. ASSUME NEW s \in Screens \ {"unknown"}, CrumbTold(s) PROVE PPInv'
    <3>1. ppScreen' = s /\ s \in {"wide", "narrow"} /\ ppCrumb' = CrumbDrawn
          /\ ppHeader' = ppHeader /\ ppItems' = ppItems /\ ppDrawer' = ppDrawer
          /\ UNCHANGED ppMenuVars /\ ppCrumb # "absent"
      BY <2>2 DEF CrumbTold
    <3>2. CrumbDrawn \in {"absent", "blind", "drawn"}
      BY DEF CrumbDrawn
    <3>3. ppHeader
      BY <3>1
    <3>4. QED
      BY <3>1, <3>2, <3>3 DEF CrumbDrawn
  <2>3. ASSUME NEW open \in BOOLEAN, SetDrawer(open) PROVE PPInv'
    BY <2>3 DEF SetDrawer
  <2>4. CASE LeavePage
    BY <2>4 DEF LeavePage
  <2>5. CASE MountButton
    <3>1. /\ ppButtons' = ppButtons + 1 /\ ppButtons < MaxButtons /\ ppButton' = ppButtons + 1
          /\ ppFound' = ppFound /\ ppLate' = (ppLate \/ ppMenu = "rests") /\ ppMenu' = ppMenu
          /\ UNCHANGED <<ppCrumbVars, ppMany, ppFilter, ppFewer>>
      BY <2>5 DEF MountButton
    <3>2. /\ ppButtons' \in 0..MaxButtons /\ {ppButton', ppFound'} \subseteq 0..ppButtons'
      BY <3>1
    <3>3. ppMenu' # "rests" \/ ppLate'
      BY <3>1
    <3>4. QED
      BY <3>1, <3>2, <3>3
  <2>6. CASE UnmountButton
    BY <2>6 DEF UnmountButton
  <2>7. CASE MountMenu
    BY <2>7 DEF MountMenu, MenuAfter
  <2>8. CASE UnmountMenu
    BY <2>8 DEF UnmountMenu
  <2>9. CASE LookForButton
    BY <2>9 DEF LookForButton, MenuAfter
  <2>10. CASE StopLooking
    BY <2>10 DEF StopLooking
  <2>11. CASE ChangeColumns
    BY <2>11 DEF ChangeColumns
  <2>12. ASSUME NEW some \in BOOLEAN, SearchColumns(some) PROVE PPInv'
    BY <2>12 DEF SearchColumns
  <2>13. CASE UNCHANGED ppVars
    BY <2>13 DEF ppVars
  <2>14. QED
    BY <2>1, <2>2, <2>3, <2>4, <2>5, <2>6, <2>7, <2>8, <2>9, <2>10, <2>11, <2>12, <2>13 DEF PPNext
<1>3. QED
  BY <1>1, <1>2, PTL DEF PPSpec

(* Once the width is told the breadcrumb is drawn, and a menu that rests   *)
(* is in the popover of the button there is unless that came too late      *)
(* (breadcrumb.tsx, columns-button.tsx).                                   *)
THEOREM PortalsSafe == PPSpec => []PPTypeOK
<1>1. PPInv => PPTypeOK
  BY DEF PPInv
<1>2. QED
  BY <1>1, PortalsInvariance, PTL

-----------------------------------------------------------------------------
(* ConsoleFrame                                                            *)

(* The cookie tells what was set by hand, and the document has the class   *)
(* of the theme (sidebar.tsx, theme-provider.tsx).                         *)
THEOREM FrameSafe == CFSpec => []CFTypeOK
<1>1. CFInit => CFTypeOK
  BY DEF CFInit, CFTypeOK, Widths, Schemes, NoScheme
<1>2. CFTypeOK /\ [CFNext]_cfVars => CFTypeOK'
  <2> SUFFICES ASSUME CFTypeOK, [CFNext]_cfVars PROVE CFTypeOK'
    OBVIOUS
  <2> USE DEF CFTypeOK, Widths, Schemes, NoScheme, ClassOf, cfBar, cfRoute, cfLook
  <2>1. CASE TellWidth
    BY <2>1 DEF TellWidth
  <2>2. CASE Resize
    BY <2>2 DEF Resize
  <2>3. CASE ToggleSidebar
    BY <2>3 DEF ToggleSidebar, SetOpen
  <2>4. CASE CloseSheet
    BY <2>4 DEF CloseSheet
  <2>5. ASSUME NEW p \in FramePages, FollowItem(p) PROVE CFTypeOK'
    BY <2>5 DEF FollowItem, ArriveAt
  <2>6. ASSUME NEW p \in FramePages, LeaveError(p) PROVE CFTypeOK'
    BY <2>6 DEF LeaveError, ArriveAt
  <2>7. CASE FollowLogo
    BY <2>7 DEF FollowLogo, FirstPage
  <2>8. CASE Throws
    BY <2>8 DEF Throws
  <2>9. CASE SecondPasses
    BY <2>9 DEF SecondPasses
  <2>10. CASE PageLoads
    BY <2>10 DEF PageLoads
  <2>11. CASE ThemeApplied
    BY <2>11 DEF ThemeApplied
  <2>12. CASE SystemChanges
    BY <2>12 DEF SystemChanges
  <2>13. CASE ReloadFrame
    BY <2>13 DEF ReloadFrame
  <2>14. ASSUME NEW t \in Schemes \cup {"system"}, PickTheme(t) PROVE CFTypeOK'
    BY <2>14 DEF PickTheme
  <2>15. CASE UNCHANGED cfVars
    BY <2>15 DEF cfVars
  <2>16. QED
    BY <2>1, <2>2, <2>3, <2>4, <2>5, <2>6, <2>7, <2>8, <2>9, <2>10, <2>11, <2>12, <2>13, <2>14,
       <2>15 DEF CFNext
<1>3. QED
  BY <1>1, <1>2, PTL DEF CFSpec

-----------------------------------------------------------------------------
(* GuessedViews                                                            *)

(* An answer with rows, which a guess may be made from, is the answer of   *)
(* some resource (list-guesser.tsx, edit-guesser.tsx, show-guesser.tsx).   *)
THEOREM GuessInvariance == GVSpec => []GVInv
<1>1. GVInit => GVInv
  <2> SUFFICES ASSUME GVInit PROVE GVInv
    OBVIOUS
  <2>1. /\ gvCache \in [GuessedResources -> {"nothing", "empty", "rows"}]
        /\ gvCache[gvShown] = "nothing" /\ gvShown \in GuessedResources /\ gvKind \in Guessers
    BY DEF GVInit
  <2>2. gvLast = [of |-> "none", some |-> FALSE] /\ gvSame = FALSE /\ gvLagged = FALSE /\ gvChild = NoGuess
    BY DEF GVInit, NoAnswer
  <2>3. QED
    BY <2>1, <2>2 DEF GVInv, GVTypeOK
<1>2. GVInv /\ [GVNext]_gvVars => GVInv'
  <2> SUFFICES ASSUME GVInv, [GVNext]_gvVars PROVE GVInv'
    OBVIOUS
  <2>1. ASSUME NEW r \in GuessedResources PROVE Guess(r).of = r /\ Guess(r).as \in ElementsOf(gvKind)
                                                /\ Guess(r) # NoGuess
    BY DEF Guess, ElementsOf, ListElements, EditElements, ShowElements, GVInv, GVTypeOK, Guessers, NoGuess
  <2>2. ASSUME NEW shown \in GuessedResources,
               NEW cache \in [GuessedResources -> {"nothing", "empty", "rows"}],
               NEW same \in BOOLEAN, NEW child, child = NoGuess \/ child = gvChild,
               Draws(shown, cache, same, child)
        PROVE  /\ gvShown' = shown /\ gvCache' = cache /\ gvSame' = same
               /\ gvKind' = gvKind
               /\ gvLast' \in [of : GuessedResources \union {"none"}, some : BOOLEAN]
               /\ gvLast'.some => gvLast'.of \in GuessedResources
               /\ gvChild' = NoGuess \/ (gvChild'.of \in GuessedResources /\ gvChild'.as \in ElementsOf(gvKind))
               /\ cache[shown] = "rows" => gvChild' # NoGuess
               /\ \/ gvChild' = child
                  \/ gvChild'.of = shown
                  \/ gvKind = "list" /\ same /\ cache[shown] = "nothing" /\ gvChild'.of = gvLast.of
    <3> DEFINE answer == GivenTo(shown, cache, same)
    <3>1. /\ gvShown' = shown /\ gvCache' = cache /\ gvSame' = same /\ gvKind' = gvKind
          /\ gvLast' = IF cache[shown] # "nothing" THEN answer ELSE gvLast
          /\ gvChild' = IF child = NoGuess /\ answer.some THEN Guess(answer.of) ELSE child
      BY <2>2 DEF Draws
    <3>2. /\ answer \in [of : GuessedResources \union {"none"}, some : BOOLEAN]
          /\ answer.some => answer.of \in GuessedResources
          /\ cache[shown] = "rows" => answer.some
          /\ answer.some => \/ answer.of = shown
                            \/ gvKind = "list" /\ same /\ cache[shown] = "nothing" /\ answer.of = gvLast.of
      BY DEF GivenTo, NoAnswer, GVInv
    <3> HIDE DEF answer
    <3>3. /\ gvLast' \in [of : GuessedResources \union {"none"}, some : BOOLEAN]
          /\ gvLast'.some => gvLast'.of \in GuessedResources
      BY <3>1, <3>2 DEF GVInv
    <3>4. child = NoGuess \/ (child.of \in GuessedResources /\ child.as \in ElementsOf(gvKind))
      BY <2>2 DEF GVInv, GVTypeOK
    <3>5. QED
      BY <2>1, <3>1, <3>2, <3>3, <3>4
  <2>3. ElementsOf(gvKind)' = ElementsOf(gvKind) \/ gvKind' # gvKind
    BY DEF ElementsOf
  <2>4. /\ gvCache \in [GuessedResources -> {"nothing", "empty", "rows"}] /\ gvSame \in BOOLEAN
        /\ gvShown \in GuessedResources /\ gvLagged \in BOOLEAN
    BY DEF GVInv, GVTypeOK
  <2>5. ASSUME NEW r \in GuessedResources, OpenResource(r) PROVE GVInv'
    <3>1. Draws(r, gvCache, FALSE, NoGuess) /\ gvLagged' = FALSE
      BY <2>5 DEF OpenResource
    <3>2. QED
      BY <2>2, <2>3, <2>4, <3>1 DEF GVInv, GVTypeOK
  <2>6. ASSUME NEW known \in BOOLEAN, DrawAgain(known) PROVE GVInv'
    <3> DEFINE cache == IF known THEN gvCache ELSE [gvCache EXCEPT ![gvShown] = "nothing"]
    <3>1. /\ Draws(gvShown, cache, TRUE, gvChild)
          /\ gvLagged' = (gvLagged \/ (cache[gvShown] = "nothing" /\ gvLast.of # gvShown))
      BY <2>6 DEF DrawAgain
    <3>2. cache \in [GuessedResources -> {"nothing", "empty", "rows"}]
      BY <2>4
    <3> HIDE DEF cache
    <3>3. QED
      BY <2>2, <2>3, <2>4, <3>1, <3>2 DEF GVInv, GVTypeOK
  <2>7. ASSUME NEW rows \in {"empty", "rows"}, RowsArrive(rows) PROVE GVInv'
    <3> DEFINE cache == [gvCache EXCEPT ![gvShown] = rows]
    <3>1. Draws(gvShown, cache, gvSame, gvChild) /\ gvLagged' = gvLagged
      BY <2>7 DEF RowsArrive
    <3>2. cache \in [GuessedResources -> {"nothing", "empty", "rows"}] /\ cache[gvShown] # "nothing"
      BY <2>4
    <3> HIDE DEF cache
    <3>3. QED
      BY <2>2, <2>3, <2>4, <3>1, <3>2 DEF GVInv, GVTypeOK
  <2>8. CASE UNCHANGED gvVars
    BY <2>8 DEF GVInv, GVTypeOK, gvVars, ElementsOf
  <2>9. QED
    BY <2>5, <2>6, <2>7, <2>8 DEF GVNext
<1>3. QED
  BY <1>1, <1>2, PTL DEF GVSpec

(* A page has guessed from the rows of its own resource, unless it is a    *)
(* list that was drawn again before they came (list-guesser.tsx).          *)
THEOREM GuessSafe == GVSpec => []GVTypeOK
<1>1. GVInv => GVTypeOK
  BY DEF GVInv
<1>2. QED
  BY <1>1, GuessInvariance, PTL

-----------------------------------------------------------------------------
(* RecordPages                                                             *)

(* At most one save is under way, in other words no two different ones.    *)
LEMMA OneSave ==
    ASSUME NEW S \in SUBSET Saves
    PROVE  Cardinality(S) <= 1 <=> \A s, t \in S : s = t
<1>1. IsFiniteSet(S)
  <2>1. IsFiniteSet(1..MaxSaves)
    BY MaxSavesAssumption, FS_Interval
  <2>2. QED
    BY <2>1, FS_Subset DEF Saves
<1>2. Cardinality(S) \in Nat
  BY <1>1, FS_CardinalityType
<1>3. CASE S = {}
  BY <1>3, FS_EmptySet
<1>4. CASE S # {}
  <2>1. PICK s \in S : TRUE
    BY <1>4
  <2>2. IsFiniteSet(S \ {s}) /\ Cardinality(S \ {s}) = Cardinality(S) - 1
    BY <1>1, <2>1, FS_RemoveElement
  <2>3. Cardinality(S \ {s}) \in Nat /\ (Cardinality(S \ {s}) = 0 <=> S \ {s} = {})
    BY <2>2, FS_EmptySet, FS_CardinalityType
  <2>4. Cardinality(S) <= 1 <=> S \ {s} = {}
    BY <1>2, <2>2, <2>3
  <2>5. QED
    BY <2>1, <2>4
<1>5. QED
  BY <1>3, <1>4

(* A save under way keeps the form drawn and, unless the button is always  *)
(* enabled, its button disabled; only a submit leaves errors behind        *)
(* (save-button.tsx, form.tsx).                                            *)
THEOREM SavesInvariance == RPSpec => []RPInv
<1>1. RPInit => RPInv
  <2> SUFFICES ASSUME RPInit PROVE RPInv
    OBVIOUS
  <2>1. Under = {} /\ \A s \in Saves : rpSaves[s] = IdleSave
    BY DEF RPInit, Under, IdleSave
  <2>2. Cardinality(Under) <= 1
    BY <2>1, FS_EmptySet
  <2>3. rpSaves \in [Saves -> [stage : {"idle", "checked", "sent"}, since : SUBSET Fields]]
    BY DEF RPInit, IdleSave
  <2>4. QED
    BY <2>1, <2>2, <2>3 DEF RPInit, RPInv, RPTypeOK, Pages, Away, FieldMarked
<1>2. RPInv /\ [RPNext]_rpVars => RPInv'
  <2> SUFFICES ASSUME RPInv, [RPNext]_rpVars PROVE RPInv'
    OBVIOUS
  <2>1. /\ rpPage \in Pages /\ rpRecord \in {"none", "loading", "here", "failed"}
        /\ rpDirty \in SUBSET Fields /\ rpErrors \in SUBSET Fields
        /\ rpSubmitting \in BOOLEAN /\ rpSubmitted \in BOOLEAN
        /\ rpSaves \in [Saves -> [stage : {"idle", "checked", "sent"}, since : SUBSET Fields]]
        /\ Under # {} => FormDrawn
        /\ rpErrors # {} => rpSubmitted
    BY DEF RPInv, RPTypeOK
  <2>2. ~ rpPage.always =>
           /\ \A s, t \in Under : s = t
           /\ rpSubmitting <=> Under # {}
           /\ \A s \in Under : rpDirty = {} /\ ~ rpPage.prefilled => rpSaves[s].since # {}
    <3>1. Under \in SUBSET Saves
      BY DEF Under
    <3>2. QED
      BY <3>1, OneSave DEF RPInv, RPTypeOK
  <2>3. ASSUME   /\ rpPage' \in Pages /\ rpRecord' \in {"none", "loading", "here", "failed"}
                 /\ rpDirty' \in SUBSET Fields /\ rpErrors' \in SUBSET Fields
                 /\ rpSubmitting' \in BOOLEAN /\ rpSubmitted' \in BOOLEAN
                 /\ rpSaves' \in [Saves -> [stage : {"idle", "checked", "sent"}, since : SUBSET Fields]]
                 /\ Under' # {} => FormDrawn'
                 /\ rpErrors' # {} => rpSubmitted'
                 /\ ~ rpPage'.always =>
                       /\ \A s, t \in Under' : s = t
                       /\ rpSubmitting' <=> Under' # {}
                       /\ \A s \in Under' : rpDirty' = {} /\ ~ rpPage'.prefilled => rpSaves'[s].since # {}
         PROVE  RPInv'
    <3>1. Under' \in SUBSET Saves
      BY DEF Under
    <3>2. (Cardinality(Under) <= 1)' <=> \A s, t \in Under' : s = t
      BY <3>1, OneSave
    <3>3. (\E f \in Fields : FieldMarked(f))' => rpErrors' # {}
      BY DEF FieldMarked
    <3>4. QED
      BY <2>3, <3>2, <3>3 DEF RPInv, RPTypeOK
  <2>4. ASSUME FreshForm
        PROVE  /\ rpDirty' = {} /\ rpErrors' = {} /\ rpSubmitting' = FALSE
               /\ rpSubmitted' = FALSE /\ Under' = {}
               /\ rpSaves' \in [Saves -> [stage : {"idle", "checked", "sent"}, since : SUBSET Fields]]
    BY <2>4 DEF FreshForm, Under, IdleSave
  <2>5. Away \in Pages
    BY DEF Away, Pages
  <2>6. ASSUME NEW p \in Pages, OpenPage(p) PROVE RPInv'
    BY <2>3, <2>4, <2>6 DEF OpenPage
  <2>7. ASSUME NEW answer \in {"here", "failed"}, RecordFetched(answer) PROVE RPInv'
    <3>1. /\ rpRecord = "loading" /\ rpRecord' = answer /\ rpPage' = rpPage /\ rpDirty' = rpDirty
          /\ rpErrors' = rpErrors /\ rpSubmitting' = rpSubmitting /\ rpSubmitted' = rpSubmitted
          /\ rpSaves' = rpSaves
      BY <2>7 DEF RecordFetched
    <3>2. Under' = Under
      BY <3>1 DEF Under
    <3>3. FormDrawn => FormDrawn'
      BY <3>1 DEF FormDrawn, CreateDrawn, EditDrawn
    <3>4. QED
      BY <2>1, <2>2, <2>3, <3>1, <3>2, <3>3
  <2>8. ASSUME PressShow \/ PressEdit PROVE RPInv'
    <3>1. PICK view \in {"show", "edit"} : TurnTo(view)
      BY <2>8 DEF PressShow, PressEdit
    <3>2. [Away EXCEPT !.view = view] \in Pages
      BY DEF Away, Pages
    <3>3. QED
      BY <2>3, <2>4, <3>1, <3>2 DEF TurnTo
  <2>9. ASSUME LeaveForm PROVE RPInv'
    BY <2>3, <2>4, <2>5, <2>9 DEF LeaveForm
  <2>10. ASSUME NEW f \in Fields, NEW back \in BOOLEAN, EditField(f, back) PROVE RPInv'
    <3>1. /\ FormDrawn /\ rpPage' = rpPage /\ rpRecord' = rpRecord
          /\ rpSubmitting' = rpSubmitting /\ rpSubmitted' = rpSubmitted
          /\ rpDirty' = IF back THEN rpDirty \ {f} ELSE rpDirty \union {f}
          /\ rpErrors' \in IF rpSubmitted THEN {rpErrors \ {f}, rpErrors \union {f}} ELSE {rpErrors}
          /\ rpSaves' = [s \in Saves |-> IF s \in Under
                                        THEN [rpSaves[s] EXCEPT !.since = @ \union {f}]
                                        ELSE IdleSave]
      BY <2>10 DEF EditField
    <3>2. rpDirty' \in SUBSET Fields /\ rpErrors' \in SUBSET Fields /\ (rpErrors' # {} => rpSubmitted')
      BY <2>1, <3>1
    <3>3. rpSaves' \in [Saves -> [stage : {"idle", "checked", "sent"}, since : SUBSET Fields]]
      BY <2>1, <3>1 DEF IdleSave
    <3>4. \A s \in Saves : rpSaves'[s].stage = rpSaves[s].stage
                           /\ (s \in Under => f \in rpSaves'[s].since)
      BY <2>1, <3>1 DEF IdleSave, Under
    <3>5. Under' = Under
      BY <3>4 DEF Under
    <3>6. \A s \in Under : rpSaves'[s].since # {}
      BY <3>4 DEF Under
    <3>7. FormDrawn'
      BY <3>1 DEF FormDrawn, CreateDrawn, EditDrawn
    <3>8. QED
      BY <2>1, <2>2, <2>3, <3>1, <3>2, <3>3, <3>5, <3>6, <3>7
  <2>11. ASSUME NEW s \in Saves, PressSave(s) PROVE RPInv'
    <3>1. /\ FormDrawn /\ ~ SaveDisabled /\ s \notin Under
          /\ rpSaves' = [rpSaves EXCEPT ![s] = [stage |-> "checked", since |-> {}]]
          /\ rpSubmitting' = TRUE /\ rpPage' = rpPage /\ rpRecord' = rpRecord
          /\ rpDirty' = rpDirty /\ rpErrors' = rpErrors /\ rpSubmitted' = rpSubmitted
      BY <2>11 DEF PressSave
    <3>2. rpSaves' \in [Saves -> [stage : {"idle", "checked", "sent"}, since : SUBSET Fields]]
      BY <2>1, <3>1
    <3>3. Under' = Under \union {s}
      BY <2>1, <3>1 DEF Under
    <3>4. ~ rpPage.always => Under = {} /\ (rpDirty # {} \/ rpPage.prefilled)
      BY <2>2, <3>1 DEF SaveDisabled
    <3>5. FormDrawn'
      BY <3>1 DEF FormDrawn, CreateDrawn, EditDrawn
    <3>6. QED
      BY <2>1, <2>3, <3>1, <3>2, <3>3, <3>4, <3>5
  <2>12. ASSUME NEW s \in Saves, SendSave(s) PROVE RPInv'
    <3>1. /\ rpSaves[s].stage = "checked" /\ rpSaves' = [rpSaves EXCEPT ![s].stage = "sent"]
          /\ rpErrors' = {} /\ rpPage' = rpPage /\ rpRecord' = rpRecord /\ rpDirty' = rpDirty
          /\ rpSubmitting' = rpSubmitting /\ rpSubmitted' = rpSubmitted
      BY <2>12 DEF SendSave
    <3>2. rpSaves' \in [Saves -> [stage : {"idle", "checked", "sent"}, since : SUBSET Fields]]
      BY <2>1, <3>1
    <3>3. \A t \in Saves : rpSaves'[t].since = rpSaves[t].since
                           /\ (rpSaves'[t].stage # "idle" <=> rpSaves[t].stage # "idle")
      BY <2>1, <3>1
    <3>4. Under' = Under /\ Under \subseteq Saves
      BY <3>3 DEF Under
    <3>5. FormDrawn' <=> FormDrawn
      BY <3>1 DEF FormDrawn, CreateDrawn, EditDrawn
    <3>6. QED
      BY <2>1, <2>2, <2>3, <3>1, <3>2, <3>3, <3>4, <3>5
  <2>13. ASSUME NEW s \in Saves, s \in Under, NEW errors \in SUBSET Fields, EndSave(s, errors)
         PROVE  RPInv'
    <3>1. /\ rpErrors' = errors /\ rpSubmitting' = FALSE /\ rpSubmitted' = TRUE
          /\ rpSaves' = [rpSaves EXCEPT ![s] = IdleSave]
          /\ rpPage' = rpPage /\ rpRecord' = rpRecord /\ rpDirty' = rpDirty
      BY <2>13 DEF EndSave
    <3>2. rpSaves' \in [Saves -> [stage : {"idle", "checked", "sent"}, since : SUBSET Fields]]
      BY <2>1, <3>1 DEF IdleSave
    <3>3. Under' = Under \ {s}
      BY <2>1, <3>1 DEF Under, IdleSave
    <3>4. ~ rpPage.always => Under' = {}
      BY <2>2, <2>13, <3>3
    <3>5. FormDrawn' <=> FormDrawn
      BY <3>1 DEF FormDrawn, CreateDrawn, EditDrawn
    <3>6. QED
      BY <2>1, <2>3, <2>13, <3>1, <3>2, <3>3, <3>4, <3>5
  <2>14. ASSUME NEW s \in Saves, NEW fs \in SUBSET Fields, FindInvalid(s, fs) \/ RefuseSave(s, fs)
         PROVE  RPInv'
    <3>1. s \in Under
      BY <2>14 DEF FindInvalid, RefuseSave, Under
    <3>2. \E errors \in SUBSET Fields : EndSave(s, errors)
      BY <2>1, <2>14 DEF FindInvalid, RefuseSave
    <3>3. QED
      BY <2>13, <3>1, <3>2
  <2>15. CASE UNCHANGED rpVars
    <3>1. /\ rpPage' = rpPage /\ rpRecord' = rpRecord /\ rpDirty' = rpDirty /\ rpErrors' = rpErrors
          /\ rpSubmitting' = rpSubmitting /\ rpSubmitted' = rpSubmitted /\ rpSaves' = rpSaves
      BY <2>15 DEF rpVars
    <3>2. Under' = Under /\ (FormDrawn' <=> FormDrawn)
      BY <3>1 DEF Under, FormDrawn, CreateDrawn, EditDrawn
    <3>3. QED
      BY <2>1, <2>2, <2>3, <3>1, <3>2
  <2>16. QED
    BY <2>6, <2>7, <2>8, <2>9, <2>10, <2>11, <2>12, <2>14, <2>15 DEF RPNext, PressCancel, AcceptSave
<1>3. QED
  BY <1>1, <1>2, PTL DEF RPSpec

(* Unless its button is always enabled a form has at most one save under   *)
(* way, and saves no form without edits (save-button.tsx).                 *)
THEOREM SavesSafe == RPSpec => []RPTypeOK
<1>1. RPInv => RPTypeOK
  BY DEF RPInv
<1>2. QED
  BY <1>1, SavesInvariance, PTL
=============================================================================
