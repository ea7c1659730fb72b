----------------------- MODULE MCAccountProvisioning -----------------------
(* Instances of AccountProvisioning for TLC. *)
EXTENDS AccountProvisioning, TLC

CONSTANTS p1, p2, o1, o2

(* One request; two by different owners. *)
OneRequest == (p1 :> o1)
TwoOwners == (p1 :> o1) @@ (p2 :> o2)
=============================================================================
