--------------------------- MODULE AgentEnrollment ---------------------------
(***************************************************************************)
(* What the control plane promises about the standing of a cluster agent,  *)
(* without tokens, clocks, certificates or replies: an agent becomes       *)
(* Active only through a registration that was admitted while the agent    *)
(* was neither suspended nor deleted; anybody may put an agent back to     *)
(* PendingRegistration by asking for a new bootstrap token; suspension and *)
(* deletion come from outside the program.                                 *)
(*                                                                         *)
(* The promise is weak where the code is weak.  An admission stays good    *)
(* until its registration ends, however the standing of the agent changes  *)
(* meanwhile, and a reset takes a suspended or deleted agent back.         *)
(***************************************************************************)
CONSTANTS Agents,          \* the cluster agents, one per workspace
          Registrations,   \* the registration requests served at a time
          NULL

VARIABLES standing,    \* standing[a]: the status column of agent a
          admission    \* admission[r]: the agent r has been admitted for

vars == <<standing, admission>>

Standings == {"Absent", "PendingRegistration", "Active", "Suspended", "Deleted"}
Barred == {"Suspended", "Deleted"}

TypeOK == /\ standing \in [Agents -> Standings]
          /\ admission \in [Registrations -> Agents \cup {NULL}]

Init == /\ standing = [a \in Agents |-> "Absent"]
        /\ admission = [r \in Registrations |-> NULL]

(* The workspace is provisioned together with its agent. *)
Provision(a) == /\ standing[a] = "Absent"
                /\ standing' = [standing EXCEPT ![a] = "PendingRegistration"]
                /\ UNCHANGED admission

(* A new bootstrap token puts the agent back to the start of its life. *)
Reset(a) == /\ standing[a] # "Absent"
            /\ standing' = [standing EXCEPT ![a] = "PendingRegistration"]
            /\ UNCHANGED admission

(* An administrator suspends or deletes the agent in the database. *)
Bar(a) == /\ standing[a] # "Absent"
          /\ \E s \in Barred : standing' = [standing EXCEPT ![a] = s]
          /\ UNCHANGED admission

(* A registration passes its checks while the agent is not barred. *)
Admit(r, a) == /\ admission[r] = NULL
               /\ standing[a] \in {"PendingRegistration", "Active"}
               /\ admission' = [admission EXCEPT ![r] = a]
               /\ UNCHANGED standing

(* An admitted registration makes its agent Active, whatever it is by now. *)
Enroll(r) == /\ admission[r] # NULL
             /\ standing' = [standing EXCEPT ![admission[r]] = "Active"]
             /\ admission' = [admission EXCEPT ![r] = NULL]

(* An admitted registration fails. *)
Withdraw(r) == /\ admission[r] # NULL
               /\ admission' = [admission EXCEPT ![r] = NULL]
               /\ UNCHANGED standing

Next == \/ \E a \in Agents : Provision(a) \/ Reset(a) \/ Bar(a)
        \/ \E r \in Registrations, a \in Agents : Admit(r, a)
        \/ \E r \in Registrations : Enroll(r) \/ Withdraw(r)

Spec == Init /\ [][Next]_vars
=============================================================================
