--------------------------- MODULE MCClusterAgent ---------------------------
(* Instances of ClusterAgent for TLC. *)
EXTENDS ClusterAgent, TLC

CONSTANTS a1, a2, e1, e2

(* One workspace; two with external ids of their own. *)
OneWorkspace == (a1 :> e1)
OwnIds == (a1 :> e1) @@ (a2 :> e2)

(* Requests of a kind, tokens and credentials are interchangeable. *)
RowSymmetry == Permutations(Tokens) \cup Permutations(Credentials)
RequestSymmetry == Permutations(Registrations) \cup Permutations(Generations)
Symmetry == RowSymmetry \cup RequestSymmetry
=============================================================================
