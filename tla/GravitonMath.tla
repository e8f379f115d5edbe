--------------------------- MODULE GravitonMath ---------------------------
(***************************************************************************)
(* The integer arithmetic between the AMC7891 converters and the physical  *)
(* quantities the firmware reasons about.  Everything is a plain operator, *)
(* with C's semantics: division truncates towards zero, an int32_t         *)
(* parameter given a uint32_t value is that value modulo 2^32.             *)
(***************************************************************************)
EXTENDS Integers

\* C's "/" on a signed dividend and a positive divisor.
TruncDiv(n, d) == IF n >= 0 THEN n \div d ELSE -((-n) \div d)

Counts == 0 .. 1023               \* a 10-bit DAC or ADC code

-----------------------------------------------------------------------------
(* The gate voltage (VGG) circuit: the op amp inverts and doubles the DAC  *)
(* output, so more counts mean a more negative gate and a colder PA.       *)

conv_dac_counts_to_mv_for_vgg_circuit(counts) ==
  TruncDiv(-((counts % 1024) * 5000 * 2), 1023)

\* The requested gate voltage, limited to the range of the circuit.  The
\* code's two later limits, on the op amp's output and on the counts, can
\* then never apply: 4900 / 2 mV is 501 counts.
GateRange(mv) == IF 0 < mv THEN 0 ELSE IF mv < -4900 THEN -4900 ELSE mv

conv_mv_to_dac_counts_for_vgg_circuit(in_mv) ==
  (1023 * TruncDiv(-GateRange(in_mv), 2)) \div 5000

=============================================================================
