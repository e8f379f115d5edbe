----------------------------- MODULE MCGraviton -----------------------------
(* Graviton with the commands that change a mode, an amplifier that may      *)
(* conduct or not, and a temperature that may rise past its limit.           *)
EXTENDS Graviton

Nominal(i) == CASE i = 0 -> 2500 [] i = 1 -> 1800 [] i = 2 -> 3800 [] i = 3 -> 5500
                [] i = 4 -> -5500 [] i = 5 -> 29500 [] OTHER -> 40

\* Item 13, a transmit preamplifier of channel A, comes after the item that board
\* 012 disables and before the one that board 007 disables.
Heat == [i \in 0 .. 21 |-> IF i = 13 THEN {40, 71} ELSE {Nominal(i)}]
TxPreamp == {13}
OneItemOff == {"012", "007"}
ModeCommands == {0, 3, 197}
NoCode == {}
=============================================================================
