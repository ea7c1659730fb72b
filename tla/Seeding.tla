------------------------------- MODULE Seeding -------------------------------
(***************************************************************************)
(* prisma/seeds/init.ts: the seed writes platform providers with their     *)
(* regions, system roles, the system principal with its role, and the apps *)
(* one upsert after the other, each a transaction of its own.  It may die  *)
(* anywhere, of a clash with another run too, and is run again at the next *)
(* deployment; and the API is at work on the same tables: it makes         *)
(* principals by their email, with uids of their own.                      *)
(***************************************************************************)
EXTENDS Naturals, Sequences

CONSTANTS
    Seeders,    \* runs of the seed that may be under way at once
    MaxDeaths   \* bound on the runs that die

ASSUME DeathsAssumption == MaxDeaths \in Nat

VARIABLES
    sdRows,      \* the seeded rows that are there
    sdStale,     \* those that are not as the seed has them
    sdTaken,     \* the administrator's email belongs to a principal of the API
    sdPlace,     \* per seeder: the place it has reached, 0 if it does not run
    sdRole,      \* per seeder: has it found the system role?
    sdCalm,      \* history: the seeders since whose start nobody changed a row
    sdFinished,  \* history: such a seeder has finished, and still nobody did
    sdDeaths     \* runs that died

sdVars == <<sdRows, sdStale, sdTaken, sdPlace, sdRole, sdCalm, sdFinished, sdDeaths>>

(* The rows in the order they are written, and what each refers to.        *)
Order == <<"provider", "region", "role", "principal", "principalRole", "app">>
SeedRows == {Order[i] : i \in DOMAIN Order}
RefersTo(row) == CASE row = "region" -> {"provider"}
                   [] row = "principalRole" -> {"role", "principal"}
                   [] OTHER -> {}

(* An upsert puts a row that is there back to what the seed has.           *)
InsertOnly(row) == IF row \in sdRows THEN sdStale ELSE sdStale \ {row}
AfterUpsert(row) == sdStale \ {row}

SDInit ==
    /\ sdRows = {} /\ sdStale = {} /\ sdTaken = FALSE
    /\ sdPlace = [s \in Seeders |-> 0]
    /\ sdRole = [s \in Seeders |-> FALSE]
    /\ sdCalm = {} /\ sdFinished = FALSE
    /\ sdDeaths = 0

-----------------------------------------------------------------------------
StartSeed(s) ==
    /\ sdPlace[s] = 0
    /\ sdPlace' = [sdPlace EXCEPT ![s] = 1]
    /\ sdRole' = [sdRole EXCEPT ![s] = FALSE]
    /\ sdCalm' = sdCalm \cup {s}
    /\ UNCHANGED <<sdRows, sdStale, sdTaken, sdFinished, sdDeaths>>

(* The role is looked up by its name before the first principal.           *)
FindSystemRole(s) ==
    /\ sdPlace[s] \in DOMAIN Order
    /\ Order[sdPlace[s]] = "principal" /\ ~ sdRole[s]
    /\ "role" \in sdRows \ sdStale
    /\ sdRole' = [sdRole EXCEPT ![s] = TRUE]
    /\ UNCHANGED <<sdRows, sdStale, sdTaken, sdPlace, sdCalm, sdFinished, sdDeaths>>

SeedUpsert(s) ==
    /\ sdPlace[s] \in DOMAIN Order
    /\ LET row == Order[sdPlace[s]]
       IN  /\ row = "principal" => sdRole[s] /\ ~ sdTaken
           /\ sdRows' = sdRows \cup {row}
           /\ sdStale' = AfterUpsert(row)
    /\ sdPlace' = [sdPlace EXCEPT ![s] = @ + 1]
    /\ UNCHANGED <<sdTaken, sdRole, sdCalm, sdFinished, sdDeaths>>

SeedFinishes(s) ==
    /\ sdPlace[s] = Len(Order) + 1
    /\ sdPlace' = [sdPlace EXCEPT ![s] = 0]
    /\ sdFinished' = (sdFinished \/ s \in sdCalm)
    /\ sdCalm' = sdCalm \ {s}
    /\ UNCHANGED <<sdRows, sdStale, sdTaken, sdRole, sdDeaths>>

(* The role has gone by that name, or the email belongs to another uid.    *)
SeedAborts(s) ==
    /\ sdPlace[s] \in DOMAIN Order
    /\ Order[sdPlace[s]] = "principal"
    /\ \/ ~ sdRole[s] /\ "role" \notin sdRows \ sdStale
       \/ sdRole[s] /\ sdTaken
    /\ sdPlace' = [sdPlace EXCEPT ![s] = 0]
    /\ UNCHANGED <<sdRows, sdStale, sdTaken, sdRole, sdCalm, sdFinished, sdDeaths>>

SeedDies(s) ==
    /\ sdPlace[s] # 0
    /\ sdDeaths < MaxDeaths
    /\ sdDeaths' = sdDeaths + 1
    /\ sdPlace' = [sdPlace EXCEPT ![s] = 0]
    /\ UNCHANGED <<sdRows, sdStale, sdTaken, sdRole, sdCalm, sdFinished>>

(* A row is changed behind the seed's back, or is of an earlier release.   *)
RowChanges(row) ==
    /\ row \in sdRows \ {"principalRole"}
    /\ sdStale' = sdStale \cup {row}
    /\ sdCalm' = {}
    /\ sdFinished' = FALSE
    /\ UNCHANGED <<sdRows, sdTaken, sdPlace, sdRole, sdDeaths>>

(* The administrator's email was changed by hand, and createPrincipalTx is *)
(* asked for a principal of the seeded one.                                *)
AdministratorProvisioned ==
    /\ "principal" \in sdStale
    /\ "principalRole" \in sdRows
    /\ sdTaken' = TRUE
    /\ UNCHANGED <<sdRows, sdStale, sdPlace, sdRole, sdCalm, sdFinished, sdDeaths>>

SDNext ==
    \/ AdministratorProvisioned
    \/ \E row \in SeedRows : RowChanges(row)
    \/ \E s \in Seeders : \/ StartSeed(s) \/ FindSystemRole(s) \/ SeedUpsert(s)
                          \/ SeedFinishes(s) \/ SeedAborts(s) \/ SeedDies(s)

SDSpec == SDInit /\ [][SDNext]_sdVars

-----------------------------------------------------------------------------
(* No row refers to one that is not there, wherever a run has died.        *)
SDTypeOK ==
    /\ sdRows \subseteq SeedRows /\ sdStale \subseteq sdRows
    /\ \A row \in sdRows : RefersTo(row) \subseteq sdRows
    /\ sdPlace \in [Seeders -> 0..(Len(Order) + 1)]
    /\ sdRole \in [Seeders -> BOOLEAN]
    /\ sdCalm \subseteq Seeders
    /\ sdTaken \in BOOLEAN /\ sdFinished \in BOOLEAN
    /\ sdDeaths \in 0..MaxDeaths

(* A run that finishes, after whatever runs died before it or beside       *)
(* another one, leaves every row there and as the seed has it, if nobody   *)
(* changed one meanwhile; once the API has given the administrator's email *)
(* to another principal, no later run gets to its end.                     *)
SeedConverges ==
    /\ sdFinished => sdRows = SeedRows /\ sdStale = {}
    /\ sdTaken => ~ sdFinished

-----------------------------------------------------------------------------
(* The inductive invariant                                                 *)

(* The rows a seeder has written when it is at a place.                    *)
Written(place) == {Order[i] : i \in {j \in DOMAIN Order : j < place}}

(* What a seeder has written is there; and it is as the seed has it as     *)
(* long as nobody changes a row.                                           *)
WrittenStays ==
    \A s \in Seeders :
        /\ Written(sdPlace[s]) \subseteq sdRows
        /\ s \in sdCalm => Written(sdPlace[s]) \cap sdStale = {}

(* A principal whose email is taken cannot be put back.                    *)
TakenIsStale == sdTaken => "principal" \in sdStale

SDInv == /\ SDTypeOK
         /\ WrittenStays
         /\ TakenIsStale
         /\ SeedConverges
=============================================================================
