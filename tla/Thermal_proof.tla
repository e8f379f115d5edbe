--------------------------- MODULE Thermal_proof ---------------------------
(***************************************************************************)
(* At and above freezing the firmware's temperatures are right to a degree *)
(* and a trip for heat is justified; below, the unsigned arithmetic of both*)
(* conversions goes wrong, so these theorems assume Warm.  That heat is    *)
(* seen holds at every temperature.                                        *)
(***************************************************************************)
EXTENDS Thermal, TLAPS

Warm == Eighths \subseteq 0 .. 1040

\* In eighths, v degrees is within a degree of t.
Near(v, t) == v \in Nat /\ t - 8 <= v * 8 /\ v * 8 <= t + 8

\* The twelve bits of the register and their eighths.
LEMMA AfeNear == ASSUME NEW t \in 0 .. 1040 PROVE Near(Reading("afe", t), t)
BY DEF Near, Reading, TempData, read_temperature

\* One step of the converter is 2.44 mV, 0.21 degrees; the two divisions of
\* get_mv lose 1 mV, 0.09 degrees; the last one loses up to a degree.  No
\* voltage is above 1866 mV, where the numerator would wrap.
LEMMA LM20Near ==
  ASSUME NEW t \in 0 .. 1040, NEW p \in Parts \ {"afe"}
  PROVE  Near(Reading(p, t), t)
<1>. DEFINE n == (186630 * 8 - 1169 * t) * 64
            counts == n \div 125000
            mv == get_mv(LM20Counts(t), GAIN_1X)
<1>1. n = 95554560 - 74816 * t
  OBVIOUS
<1>2. counts \in Int /\ 125000 * counts <= n /\ n < 125000 * counts + 125000
  BY <1>1
<1>3. counts \in 0 .. 764 /\ LM20Counts(t) = counts
  BY <1>1, <1>2 DEF LM20Counts
<1>. HIDE DEF counts, n
<1>4. /\ mv \in Nat
      /\ 2048 * mv <= 5000 * counts /\ 5000 * counts < 2048 * mv + 2048
  <2>. DEFINE k == (counts * 5 * 1000) \div 1024
  <2>1. k \in Nat /\ 1024 * k <= 5000 * counts /\ 5000 * counts < 1024 * k + 1024
    BY <1>3
  <2>2. mv = k \div 2
    BY <1>3 DEF get_mv, GAIN_1X
  <2>. HIDE DEF k, mv
  <2>3. mv \in Nat /\ 2 * mv <= k /\ k <= 2 * mv + 1
    BY <2>1, <2>2
  <2>. QED
    BY <1>3, <2>1, <2>3
<1>. HIDE DEF mv
<1>5. 100 * mv <= 186630
  BY <1>3, <1>4
<1>6. Reading(p, t) = (186630 - 100 * mv) \div 1169
  <2>1. Reading(p, t) = lm20_conv_mv_degc(mv)
    BY DEF Reading, mv
  <2>2. 100 * mv - 186630 <= 0 /\ -(100 * mv - 186630) = 186630 - 100 * mv
    BY <1>4, <1>5
  <2>. QED
    BY <2>1, <2>2 DEF lm20_conv_mv_degc
<1>. DEFINE v == (186630 - 100 * mv) \div 1169
<1>7. v \in Nat /\ 1169 * v <= 186630 - 100 * mv /\ 186630 - 100 * mv < 1169 * v + 1169
  BY <1>4, <1>5
<1>. HIDE DEF v
<1>8. t - 8 <= v * 8 /\ v * 8 <= t + 8
  BY <1>1, <1>2, <1>3, <1>4, <1>7
<1>. QED
  BY <1>6, <1>7, <1>8 DEF Near, v

\* What safety_check() holds is the conversion of the temperature last read.
IInv ==
  /\ part \in Parts
  /\ actual \in Eighths
  /\ value = Reading(part, actual)
  /\ pc = "tripped" => Overheated

\* Every reading of every sensor, from freezing up, is right to a degree.
LEMMA ReadingNear ==
  ASSUME NEW t \in 0 .. 1040, NEW p \in Parts
  PROVE  Near(Reading(p, t), t)
BY AfeNear, LM20Near

\* The value compared is of the part that is compared, and a trip has a reason.
THEOREM Inductive == Spec => []IInv
<1>1. Init => IInv
  BY DEF Init, IInv
<1>2. IInv /\ [Next]_vars => IInv'
  <2>1. SUFFICES ASSUME IInv, [Next]_vars PROVE IInv'
    OBVIOUS
  <2>2. CASE Read
    BY <2>1, <2>2 DEF IInv, Read
  <2>3. CASE InSpec \/ Trip \/ Reset \/ UNCHANGED vars
    BY <2>1, <2>3 DEF IInv, InSpec, Trip, Reset, vars, Overheated
  <2>. QED
    BY <2>1, <2>2, <2>3 DEF Next
<1>. QED
  BY <1>1, <1>2, PTL DEF Spec

\* At every temperature from freezing up, what read_temperature and
\* lm20_conv_mv_degc return is within a degree of it.
THEOREM ReadingsAccurate ==
  ASSUME Warm
  PROVE  Spec => []Accurate
<1>1. IInv => Accurate
  <2>1. SUFFICES ASSUME IInv PROVE Accurate
    OBVIOUS
  <2>2. Near(value, actual) /\ actual \in Int
    BY <2>1, ReadingNear DEF IInv, Warm
  <2>. QED
    BY <2>2 DEF Near, Accurate
<1>. QED
  BY <1>1, Inductive, PTL

\* There, safety_check powers down as overheated only a part at its limit.
THEOREM HeatTripsJustified ==
  ASSUME Warm
  PROVE  Spec => []OverheatedIsHot
<1>1. IInv => OverheatedIsHot
  <2>1. SUFFICES ASSUME IInv, pc = "tripped" PROVE actual >= 8 * limit(part)
    BY DEF OverheatedIsHot
  <2>2. Near(value, actual) /\ actual \in Int
    BY <2>1, ReadingNear DEF IInv, Warm
  <2>3. limit(part) \in Nat /\ limit(part) < value
    BY <2>1 DEF IInv, Overheated, limit, Parts
  <2>. QED
    BY <2>2, <2>3 DEF Near
<1>. QED
  BY <1>1, Inductive, PTL

\* Whatever the parts' temperatures, freezing included, safety_check finds no
\* part in spec that is two degrees above its limit.
THEOREM HeatSeen == Spec => HeatIsSeen
<1>1. ASSUME IInv PROVE [InSpec => actual < 8 * (limit(part) + 2)]_vars
  <2>1. SUFFICES ASSUME InSpec PROVE actual < 8 * (limit(part) + 2)
    OBVIOUS
  <2>2. actual \in -440 .. 1040 /\ part \in Parts /\ value = Reading(part, actual)
    BY <1>1, ThermalAssumption DEF IInv
  <2>3. limit(part) \in Nat /\ ~(limit(part) < value)
    BY <2>1, <2>2 DEF InSpec, Overheated, limit, Parts
  <2>4. CASE 0 <= actual
    <3>1. Near(value, actual)
      BY <2>2, <2>4, ReadingNear
    <3>. QED
      BY <2>2, <2>3, <3>1 DEF Near
  <2>5. CASE actual < 0
    BY <2>2, <2>3, <2>5
  <2>. QED
    BY <2>2, <2>4, <2>5
<1>. QED
  BY <1>1, Inductive, PTL DEF HeatIsSeen
=============================================================================
