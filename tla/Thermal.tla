------------------------------ MODULE Thermal ------------------------------
(***************************************************************************)
(* The temperatures that safety_check() acts on: the sensor inside each    *)
(* AMC7891 and the LM20 sensors on its converter, from the temperature of  *)
(* the part through registers, converter and the firmware's unsigned       *)
(* arithmetic to the decision to power the board down as overheated.       *)
(*                                                                         *)
(* Every reading finds the part at some temperature of the constant Eighths,*)
(* in eighths of a degree, the resolution of the AMC7891.                  *)
(***************************************************************************)
EXTENDS GravitonMath

CONSTANT Eighths    \* the temperatures of the parts, within what they stand

ASSUME ThermalAssumption == Eighths \subseteq -440 .. 1040     \* -55 to 130 degrees

VARIABLES
  part,     \* the part being looked at: an AMC7891, an LM20 or the one on a PA
  actual,   \* environment: its temperature when it was last read
  value,    \* safety_check()'s variable
  pc        \* "read", "check" or "tripped"

vars == <<part, actual, value, pc>>

Parts == {"afe", "lm20", "pa"}

limit(p) == CASE p = "afe" -> 60 [] p = "lm20" -> 70 [] p = "pa" -> 90

-----------------------------------------------------------------------------
(* The hardware.                                                           *)

\* The temperature register: twelve bits, two's complement.
TempData(t) == t % 4096

\* An LM20 gives 1866.3 mV, less 11.69 mV for every degree; the converter has
\* 1024 steps to 2.5 V.
LM20Counts(t) ==
  LET counts == ((186630 * 8 - 1169 * t) * 64) \div 125000
  IN  IF counts > 1023 THEN 1023 ELSE counts

-----------------------------------------------------------------------------
(* The firmware.                                                           *)

\* Full scale is 2.5 V at gain 1 and 5 V at gain 2, so that a reading at gain 1
\* is divided by 2 (and, with the mistake that suggests itself, by 1).
GAIN_1X_is_1 == 1

GAIN_1X == 2

get_mv(counts, gain) == ((counts * 5 * 1000) \div 1024) \div gain

\* (2^32 - n) / d in 32-bit arithmetic, from 2^32 = 4 * 2^30.
WrappedDiv(n, d) == 4 * (2 ^ 30 \div d) + (4 * (2 ^ 30 % d) - n) \div d

\* All unsigned: above 1866 mV the numerator is negative and wraps.
lm20_conv_mv_degc(in) ==
  LET n == 100 * in - 186630
  IN  IF n <= 0 THEN (-n) \div 1169 ELSE WrappedDiv(n, 1169)

\* The register, unsigned as well (and as if it had quarters of a degree).
read_temperature_of_quarters(reg) == reg \div 4

read_temperature(reg) == reg \div 8

Reading(p, t) == IF p = "afe" THEN read_temperature(TempData(t))
                 ELSE lm20_conv_mv_degc(get_mv(LM20Counts(t), GAIN_1X))

Read ==
  /\ pc = "read"
  /\ \E t \in Eighths : actual' = t /\ value' = Reading(part, t)
  /\ pc' = "check"
  /\ UNCHANGED part

\* And with the limit of the power amplifiers for all parts.
Overheated_of_the_pa == 90 < value

Overheated == limit(part) < value

InSpec ==
  /\ pc = "check"
  /\ ~Overheated
  /\ pc' = "read"
  /\ UNCHANGED <<part, actual, value>>

Trip ==
  /\ pc = "check"
  /\ Overheated
  /\ pc' = "tripped"
  /\ UNCHANGED <<part, actual, value>>

\* The restart, which brings the firmware back to its checks.
Reset ==
  /\ pc = "tripped"
  /\ pc' = "read"
  /\ UNCHANGED <<part, actual, value>>

Init ==
  /\ part \in Parts
  /\ actual \in Eighths
  /\ value = Reading(part, actual)
  /\ pc = "read"

Next == Read \/ InSpec \/ Trip \/ Reset

Spec == Init /\ [][Next]_vars

-----------------------------------------------------------------------------
\* The reading is within a degree of the temperature, after a converter and
\* three truncating divisions.
Accurate == value * 8 \in actual - 8 .. actual + 8

\* A part two degrees above its limit is never found in spec.
HeatIsSeen == [][InSpec => actual < 8 * (limit(part) + 2)]_vars

\* "AFE #A overheated", "ADC overheated", "PA #A overheated": the board is
\* powered down with these words only for a part at its limit, within a degree.
OverheatedIsHot == pc = "tripped" => actual >= 8 * limit(part)
=============================================================================
