--------------------------- MODULE MCConnectionLog ---------------------------
(* ConnectionLog with bounds per mode: the clock matters to the database     *)
(* only, and the composite of both backends gets the fewest events.  The     *)
(* callers are alike.                                                        *)
EXTENDS ConnectionLog

MCMaxEvents == [m \in Modes |-> CASE m = "both" -> 2 [] m = "file" -> 4 [] OTHER -> 5]
MCMaxTime == [m \in Modes |-> CASE m = "both" -> 2 [] m = "database" -> 4 [] OTHER -> 0]
MCSymmetry == Permutations(Callers)
=============================================================================
