-------------------------- MODULE MCSafetyMonitor --------------------------
(* SafetyMonitor with readings on both sides of every limit of four items: *)
(* two soft rails (2, 4), a strict temperature that board 012 disables (12) *)
(* and one late on the list (19).                                          *)
EXTENDS SafetyMonitor

\* A reading within the limits, for the items that stay there.
Nominal(i) == CASE i = 0 -> 2500 [] i = 1 -> 1800 [] i = 2 -> 3800 [] i = 3 -> 5500
                [] i = 4 -> -5500 [] i = 5 -> 29000 [] OTHER -> 40

RailsAndSensors ==
  [i \in Items |-> CASE i = 2 -> {3099, 3149, 3150}
                     [] i = 4 -> {-7501, -7500}
                     [] i = 12 -> {90, 91}
                     [] i = 19 -> {70, 71}
                     [] OTHER -> {Nominal(i)}]

AllBoards == {"007", "012", "021", "other"}
Board012 == {"012"}
=============================================================================
