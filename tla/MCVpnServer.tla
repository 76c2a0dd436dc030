---------------------------- MODULE MCVpnServer -----------------------------
(***************************************************************************)
(* VpnServer for TLC.  Peers and VPN addresses are only ever compared for  *)
(* equality, so both may be permuted.                                      *)
(***************************************************************************)
EXTENDS VpnServer, TLC

\* Two connections where logins interleave with them, four where they do not.
MCMaxConns == [oauth \in BOOLEAN |-> IF oauth THEN 2 ELSE 4]

\* The same for the check of the liveness properties.
LiveMaxConns == [oauth \in BOOLEAN |-> 2]

ServerSymmetry == Permutations(Addrs) \cup Permutations(Ips)
=============================================================================
