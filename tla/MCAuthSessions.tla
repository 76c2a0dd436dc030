--------------------------- MODULE MCAuthSessions ---------------------------
(* AuthSessions with its interchangeable parts declared symmetric: ids,     *)
(* users and tasks are only compared for equality.                          *)
EXTENDS AuthSessions, TLC

Symmetry == Permutations(Ids) \cup Permutations(Users) \cup Permutations(Tasks)
=============================================================================
