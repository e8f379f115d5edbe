---------------------------- MODULE RfInterlock ----------------------------
(***************************************************************************)
(* What the RF front ends promise, with no registers, calls or modes.      *)
(*                                                                         *)
(* A channel is "receiving" while its receive LNA is switched on, "hot"    *)
(* while its power amplifier is biased into conduction, "quiet" otherwise. *)
(* "sequencing really matters here", says switch_to_rx: what it matters    *)
(* for is that a channel goes between receiving and hot only through       *)
(* quiet (break before make), and that no step of the firmware changes     *)
(* two channels at once.                                                   *)
(***************************************************************************)
CONSTANT Afe            \* the RF channels

VARIABLE rf             \* the state of each channel

States == {"quiet", "receiving", "hot"}

Init == rf = [a \in Afe |-> "quiet"]

\* Energise one side of a quiet channel.
Engage(a, s) ==
  /\ rf[a] = "quiet"
  /\ rf' = [rf EXCEPT ![a] = s]

\* Go quiet, from wherever the channel is.
Quieten(a) == rf' = [rf EXCEPT ![a] = "quiet"]

\* The board loses its supply.
PowerFails == rf' = [a \in Afe |-> "quiet"]

Next == \/ \E a \in Afe : Quieten(a) \/ \E s \in {"receiving", "hot"} : Engage(a, s)
        \/ PowerFails

Spec == Init /\ [][Next]_rf
=============================================================================
