--------------------------- MODULE MCAddressPool ----------------------------
(* AddressPool for TLC: the callers are interchangeable. *)
EXTENDS AddressPool, TLC

CallerSymmetry == Permutations(Callers)
=============================================================================
