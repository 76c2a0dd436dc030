--------------------------- MODULE MCDataChannel ----------------------------
(***************************************************************************)
(* DataChannel for TLC.  The payloads are never compared or ordered, so    *)
(* they may be permuted.                                                   *)
(***************************************************************************)
EXTENDS DataChannel, TLC

PayloadSymmetry == Permutations(Payloads)
=============================================================================
