--------------------------- MODULE MCProvisioning ---------------------------
(* Instances of Provisioning for TLC. *)
EXTENDS Provisioning, TLC

CONSTANTS vm, box, alice

MCOwnerOf == [r \in Requests |-> alice]
MCRequestSymmetry == Permutations(Requests)
MCNone == {}
=============================================================================
