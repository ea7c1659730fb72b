----------------------------- MODULE AccountForm -----------------------------
(***************************************************************************)
(* The provider and the region of an account: picked one after the other   *)
(* in AccountProvisioning.tsx, and looked up one without the other by      *)
(* createAccountTx.  What else an account request does is the matter of    *)
(* AccountProvisioning.                                                    *)
(***************************************************************************)

CONSTANT Catalogue   \* the platform catalogue: the regions of each provider

VARIABLES
    afChoice,   \* the form: provider and region; `changed', history, whether
                \* the region picked was of the list of another provider
    afList,     \* whose regions the region input lists
    afAccount   \* the choice the last account was created with

afVars == <<afChoice, afList, afAccount>>

Providers == DOMAIN Catalogue
RegionsOf(provider) == Catalogue[provider]
AllRegions == UNION {RegionsOf(p) : p \in Providers}

(* The words of the form are no names of providers or regions.             *)
ASSUME CatalogueAssumption ==
    /\ {"none", "pending", "failed"} \cap Providers = {}
    /\ "none" \notin AllRegions

(* What the region input offers: a skeleton while there is no list at all, *)
(* nothing if the list could not be fetched.                               *)
RegionChoicesAll(list) == AllRegions
RegionChoices(list) == IF list \in Providers THEN RegionsOf(list) ELSE {}

NoChoice == [provider |-> "none", region |-> "none", changed |-> FALSE]

AFInit == afChoice = NoChoice /\ afList = "none" /\ afAccount = NoChoice

(* The region input is mounted with the first provider, without a list; as *)
(* long as the list of a later one is being fetched it keeps the former.   *)
PickProvider(provider) ==
    /\ provider # afChoice.provider
    /\ afChoice' = [afChoice EXCEPT !.provider = provider,
                                    !.changed = afChoice.region # "none"]
    /\ afList' = IF afChoice.provider = "none" THEN "pending" ELSE afList
    /\ UNCHANGED afAccount

(* The list of the chosen provider is there, or is not to be had.          *)
RegionsAnswered ==
    /\ afChoice.provider # "none"
    /\ afList # afChoice.provider
    /\ afList' \in {afChoice.provider, "failed"}
    /\ UNCHANGED <<afChoice, afAccount>>

(* The cross of a select empties the field.  The region input goes with    *)
(* the provider; what it had set stays in the form.                        *)
ClearProvider ==
    /\ afChoice.provider # "none"
    /\ afChoice' = [afChoice EXCEPT !.provider = "none",
                                    !.changed = afChoice.region # "none"]
    /\ afList' = "none"
    /\ UNCHANGED afAccount

ClearRegion ==
    /\ afChoice.region # "none"
    /\ afList \notin {"none", "pending"}
    /\ afChoice' = [afChoice EXCEPT !.region = "none", !.changed = FALSE]
    /\ UNCHANGED <<afList, afAccount>>

PickRegion(region) ==
    /\ region \in RegionChoices(afList)
    /\ afChoice' = [afChoice EXCEPT !.region = region,
                                    !.changed = afList # afChoice.provider]
    /\ UNCHANGED <<afList, afAccount>>

(* createAccountTx asks whether provider and region exist, each by itself; *)
(* a form that is refused stays as it is.                                  *)
AccountSave ==
    /\ afChoice.provider \in Providers
    /\ afChoice.region \in AllRegions
    /\ afAccount' = afChoice
    /\ afChoice' = NoChoice
    /\ afList' = "none"

AFNext ==
    \/ AccountSave \/ ClearProvider \/ ClearRegion \/ RegionsAnswered
    \/ \E p \in Providers : PickProvider(p)
    \/ \E r \in AllRegions : PickRegion(r)

AFSpec == AFInit /\ [][AFNext]_afVars

-----------------------------------------------------------------------------
(* The form and the account are well formed.                               *)
AFTypeOK ==
    /\ {afChoice, afAccount} \subseteq
           [provider : Providers \cup {"none"}, region : AllRegions \cup {"none"},
            changed : BOOLEAN]
    /\ afChoice.changed => afChoice.region # "none"
    /\ afList \in Providers \cup {"none", "pending", "failed"}
    /\ afList = "none" <=> afChoice.provider = "none"

(* An account gets a region of another provider than its own only if the   *)
(* provider was changed after the region had been picked, which leaves the *)
(* region in the form, or while the list of the new one was on its way     *)
(* (AccountProvisioning.tsx:74).  The API takes either.                    *)
MismatchNeedsRepick ==
    afAccount.provider \in Providers /\ afAccount.region \notin RegionsOf(afAccount.provider)
        => afAccount.changed

-----------------------------------------------------------------------------
(* The inductive invariant: a region in the form that is of another        *)
(* provider's list is marked as such.                                      *)
ChoiceMarked ==
    afChoice.provider \in Providers /\ afChoice.region # "none"
        => afChoice.region \in RegionsOf(afChoice.provider) \/ afChoice.changed

AFInv == AFTypeOK /\ ChoiceMarked /\ MismatchNeedsRepick
=============================================================================
