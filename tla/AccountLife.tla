----------------------------- MODULE AccountLife -----------------------------
(***************************************************************************)
(* What the control plane promises of a tenant's account, without          *)
(* requests, workflows, attempts or the steps of a realm.  A row of the    *)
(* account is PROVISIONING until its first outcome and never again.  Who   *)
(* can log in as the realm's administrator is a member of the account,     *)
(* and is never locked out by what others do; and no row is ACTIVE before  *)
(* there is such a member.                                                 *)
(*                                                                         *)
(* The promise is weak where the code is weak.  Several rows may be of one *)
(* account, an outcome may fall on any of them, and a failure may be       *)
(* recorded over a success, or a success over a failure.                   *)
(***************************************************************************)
CONSTANTS Accounts,   \* the rows there may be
          Owners      \* those who may be members of the account

VARIABLES status,     \* status[a]: the status column of row a
          members,    \* members[a]: the owners that row a names
          able        \* those who can log in and administer the realm

vars == <<status, members, able>>

Statuses == {"Absent", "PROVISIONING", "PROVISION_FAILED", "ACTIVE"}

TypeOK == /\ status \in [Accounts -> Statuses]
          /\ members \in [Accounts -> SUBSET Owners]
          /\ able \in SUBSET Owners

Init == /\ status = [a \in Accounts |-> "Absent"]
        /\ members = [a \in Accounts |-> {}]
        /\ able = {}

(* A request makes the row, or finds it and leaves its status alone. *)
Join(a, o) == /\ status' = [status EXCEPT ![a] = IF @ = "Absent" THEN "PROVISIONING" ELSE @]
              /\ members' = [members EXCEPT ![a] = @ \cup {o}]
              /\ UNCHANGED able

(* The realm is ready for one who is a member already. *)
Enable(o) == /\ \E a \in Accounts : o \in members[a]
             /\ able' = able \cup {o}
             /\ UNCHANGED <<status, members>>

Activate(a) == /\ status[a] # "Absent" /\ able # {}
               /\ status' = [status EXCEPT ![a] = "ACTIVE"]
               /\ UNCHANGED <<members, able>>

Fail(a) == /\ status[a] # "Absent"
           /\ status' = [status EXCEPT ![a] = "PROVISION_FAILED"]
           /\ UNCHANGED <<members, able>>

Next == \/ \E a \in Accounts, o \in Owners : Join(a, o)
        \/ \E o \in Owners : Enable(o)
        \/ \E a \in Accounts : Activate(a) \/ Fail(a)

Spec == Init /\ [][Next]_vars
=============================================================================
