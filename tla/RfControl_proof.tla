-------------------------- MODULE RfControl_proof --------------------------
(***************************************************************************)
(* Proofs about RfControl, for every command alphabet, every behaviour of  *)
(* the PAs during calibration, with and without resets from outside.       *)
(***************************************************************************)
EXTENDS RfControl, TLAPS

-----------------------------------------------------------------------------
(* The inductive invariant.  A safety property of a channel holds between  *)
(* two writes because of the writes before them, so for each function the  *)
(* invariant says what the registers are at each of its statements; that   *)
(* depends on the mode the function started from, so it also says that at  *)
(* rest the registers are the mode's; and that needs to know where in the  *)
(* script each function is called.                                         *)

InCall(a) == call.fn # "none" /\ call.chip = a

TripPcs == {"trip_a", "trip_b", "trip_osc", "trip_main", "trip_reset"}
LoopPcs == {"loop", "grav", "check", "cmd_safe_b"}

\* Where a function can be executing.
ControlInv ==
  /\ call.fn = "none" => call = Idle
  /\ call.fn \in {"grav_safe", "tx_off", "tx_on"} => call.chip = "main"
  /\ call.fn \in {"rx", "tx"} => call.chip \in Afe /\ pc = "grav"
  /\ call.fn = "init" =>
       \/ call.chip = "a" /\ pc = "init_b"
       \/ call.chip = "b" /\ pc = "init_main"
       \/ call.chip = "main" /\ pc = "main_safe"
  /\ call.fn = "safe" =>
       \/ call.chip = "a" /\ pc \in {"safe_b", "resafe_b", "cmd_safe_b", "grav", "trip_b"}
       \/ call.chip = "b" /\ pc \in {"bus", "loop", "grav", "trip_osc"}
  /\ call.fn = "cal" => /\ \/ call.chip = "a" /\ pc = "cal_b"
                           \/ call.chip = "b" /\ pc = "resafe_a"
                        /\ call.at \in 1 .. 7
  /\ call.fn = "grav_safe" => pc \in {"safe_a", "trip_reset"}
  /\ call.fn = "tx_on" => pc = "check"
  /\ call.fn = "tx_off" => pc \in {"cal_a", "check"}
  /\ pc \in {"reset", "halted"} => call = Idle
  /\ pc \notin LoopPcs \cup TripPcs => \A a \in Afe : mode[a] = "safe"

\* Not yet made safe by this boot, or being tripped.
UnreadyPcs(a) ==
  {"reset", "halted", "init_a", "init_b", "init_main", "main_safe", "safe_a"}
    \cup TripPcs \cup (IF a = "b" THEN {"safe_b"} ELSE {})

\* Calibrated, and the gate code not yet back at the safe one.
ParkedPcs(a) == IF a = "a" THEN {"cal_b", "resafe_a"} ELSE {"resafe_a", "resafe_b"}

Parked(a) ==
  /\ regs[a].power = "dacs" /\ regs[a].dir = "out"
  /\ regs[a].pa = GRAV_DAC_PA_EN_RX
  /\ regs[a].vg \in Counts
  /\ regs[a].sw = GRAV_DAC_TX_SW_RX
  /\ regs[a].txlna = GRAV_DAC_TX_LNA_DIS_RX
  /\ regs[a].gpio = GRAV_AFE_SAFE

\* At rest the registers are those of the mode.
Settled(a) ==
  pc \notin UnreadyPcs(a) /\ ~InCall(a) =>
    IF pc \in ParkedPcs(a) THEN Parked(a) ELSE Configured(a, mode[a])

CalibratedPcs(a) ==
  LoopPcs \cup {"resafe_b", "resafe_a"} \cup (IF a = "a" THEN {"cal_b"} ELSE {})

\* The stored codes, from the end of calibration on.
Calibrated(a) ==
  pc \in CalibratedPcs(a) /\ ~(call.fn = "cal" /\ call.chip = a) =>
    /\ vg_setpoint[a] \in 207 .. 390
    /\ vg_quiescent[a] \in vg_setpoint[a] + 1 .. 1023
    /\ vg_quiescent[a] = cutoff[a]

\* In the middle of switch_to_rx: written so far, or still as mode says.
RxProgress(a) ==
  call.fn = "rx" /\ call.chip = a =>
    /\ regs[a].power = "dacs" /\ regs[a].dir = "out"
    /\ regs[a].pa =
         IF call.at <= 1 /\ mode[a] = "safe" THEN GRAV_DAC_PA_EN_RX ELSE GRAV_DAC_PA_EN_TX
    /\ regs[a].vg =
         IF call.at > 2 \/ mode[a] = "rx" THEN vg_quiescent[a]
         ELSE IF mode[a] = "tx" THEN vg_setpoint[a] ELSE GRAV_DAC_VGSET_SAFE
    /\ regs[a].sw =
         IF call.at > 3 \/ mode[a] # "tx" THEN GRAV_DAC_TX_SW_RX ELSE GRAV_DAC_TX_SW_TX
    /\ regs[a].txlna =
         IF call.at > 4 \/ mode[a] # "tx" THEN GRAV_DAC_TX_LNA_DIS_RX
         ELSE GRAV_DAC_TX_LNA_DIS_TX
    /\ IF call.at > 5 \/ mode[a] = "rx"
       THEN \E g \in 0 .. 63 : regs[a].gpio = GRAV_AFE_RECEIVE(g)
       ELSE regs[a].gpio = IF mode[a] = "tx" THEN GRAV_AFE_TRANSMIT ELSE GRAV_AFE_SAFE

\* In the middle of switch_to_tx.
TxProgress(a) ==
  call.fn = "tx" /\ call.chip = a =>
    /\ regs[a].power = "dacs" /\ regs[a].dir = "out"
    /\ regs[a].pa =
         IF call.at <= 1 /\ mode[a] = "safe" THEN GRAV_DAC_PA_EN_RX ELSE GRAV_DAC_PA_EN_TX
    /\ IF call.at > 2 \/ mode[a] = "tx" THEN regs[a].gpio = GRAV_AFE_TRANSMIT
       ELSE IF mode[a] = "rx" THEN \E g \in 0 .. 63 : regs[a].gpio = GRAV_AFE_RECEIVE(g)
       ELSE regs[a].gpio = GRAV_AFE_SAFE
    /\ regs[a].vg =
         IF call.at > 3 \/ mode[a] = "tx" THEN vg_setpoint[a]
         ELSE IF mode[a] = "rx" THEN vg_quiescent[a] ELSE GRAV_DAC_VGSET_SAFE
    /\ regs[a].sw =
         IF call.at > 4 \/ mode[a] = "tx" THEN GRAV_DAC_TX_SW_TX ELSE GRAV_DAC_TX_SW_RX
    /\ regs[a].txlna =
         IF call.at > 5 \/ mode[a] = "tx" THEN GRAV_DAC_TX_LNA_DIS_TX
         ELSE GRAV_DAC_TX_LNA_DIS_RX

\* In the middle of switch_to_safe, from any state whatever.
SafeProgress(a) ==
  call.fn = "safe" /\ call.chip = a =>
    /\ call.at > 1 => regs[a].pa = GRAV_DAC_PA_EN_RX
    /\ call.at > 2 => regs[a].vg = GRAV_DAC_VGSET_SAFE
    /\ call.at > 3 => regs[a].sw = GRAV_DAC_TX_SW_RX
    /\ call.at > 4 => regs[a].txlna = GRAV_DAC_TX_LNA_DIS_RX
    /\ call.at > 5 => regs[a].power = "dacs"
    /\ call.at > 6 => regs[a].gpio = GRAV_AFE_SAFE
    /\ call.at > 7 => regs[a].dir = "out"

\* In the middle of calibrate_power_amplifier: where counts and VGSET are.
CalProgress(a) ==
  call.fn = "cal" /\ call.chip = a =>
    /\ regs[a].power = "dacs" /\ regs[a].dir = "out"
    /\ regs[a].sw = GRAV_DAC_TX_SW_RX
    /\ regs[a].txlna = GRAV_DAC_TX_LNA_DIS_RX
    /\ regs[a].gpio = GRAV_AFE_SAFE
    /\ regs[a].pa = IF call.at \in 3 .. 6 THEN GRAV_DAC_PA_EN_TX ELSE GRAV_DAC_PA_EN_RX
    /\ call.at = 1 => regs[a].vg = GRAV_DAC_VGSET_SAFE
    /\ call.at \in {2, 3} => counts \in 205 .. 388 /\ regs[a].vg = counts
    /\ call.at = 4 => counts \in 204 .. 387 /\ regs[a].vg = counts
    /\ call.at = 5 => counts \in 205 .. 388 /\ regs[a].vg \in 204 .. 388
    /\ call.at \in {6, 7} => counts \in 207 .. 390 /\ regs[a].vg = counts

\* The radio properties of one channel.
RadioInv(a) ==
  /\ PaOn(a) => regs[a].vg \in 204 .. 1023
  /\ LnaOn(a) => ~SwitchAtTx(a) /\ ~Hot(a)
  /\ Hot(a) /\ TxLnaOn(a) => SwitchAtTx(a)
  /\ Driven(a) => Unset \notin {regs[a].pa, regs[a].vg, regs[a].sw, regs[a].txlna}
  /\ regs[a].dir = "out" => regs[a].gpio # Unset

\* With no reset from outside, the PA is off wherever nobody supervises it.
QuietPcs(a) ==
  {"trip_osc", "trip_main", "trip_reset", "reset", "halted", "init_a", "init_b",
   "init_main", "main_safe", "safe_a"}
    \cup (IF a = "a" THEN {"trip_b"} ELSE {"safe_b"})

Quiet(a) == ~ExternalReset /\ ~InCall(a) /\ pc \in QuietPcs(a) => ~PaOn(a)

AfeInv(a) ==
  /\ RadioInv(a)
  /\ Settled(a)
  /\ Calibrated(a)
  /\ RxProgress(a)
  /\ TxProgress(a)
  /\ SafeProgress(a)
  /\ CalProgress(a)
  /\ Quiet(a)

IInv == TypeOK /\ ControlInv /\ \A a \in Afe : AfeInv(a)

-----------------------------------------------------------------------------
(* The arithmetic of the gate circuit.                                     *)

\* Millivolts to counts, for the negative voltages the circuit can make.
LEMMA CountsOfMv ==
  ASSUME NEW m \in Int, 0 <= m, m <= 4900
  PROVE  conv_mv_to_dac_counts_for_vgg_circuit(-m) = (1023 * (m \div 2)) \div 5000
<1>1. GateRange(-m) = -m
  BY SMT DEF GateRange
<1>2. TruncDiv(-(-m), 2) = m \div 2
  BY SMT DEF TruncDiv
<1>. QED
  BY <1>1, <1>2 DEF conv_mv_to_dac_counts_for_vgg_circuit

\* Counts to millivolts, for the codes the DAC has.
LEMMA MvOfCounts ==
  \A c \in Counts : conv_dac_counts_to_mv_for_vgg_circuit(c) = -((c * 10000) \div 1023)
<1>1. \A c \in 0 .. 1023 : (c % 1024) * 5000 * 2 = c * 10000
  BY SMT
<1>. QED
  BY <1>1, SMT DEF conv_dac_counts_to_mv_for_vgg_circuit, TruncDiv, Counts

\* Calibration starts at code 388.
LEMMA Start == StartCounts = 388
  BY CountsOfMv, SMT DEF StartCounts

\* Its limit is passed exactly at code 204 and below.
LEMMA Limit == \A c \in Counts : LimitPassed(c) <=> c <= 204
  BY MvOfCounts, SMT DEF LimitPassed, Counts

\* 100 mV below the voltage of a code calibration can end with is at least a
\* code more: the conversion there and back loses less than it adds.
LEMMA Pinch == ASSUME NEW c \in 207 .. 390 PROVE PinchOff(c) \in c + 1 .. 1023
<1>. DEFINE q == (c * 10000) \div 1023
            h == (q + 100) \div 2
<1>1. q \in Nat /\ 1023 * q <= c * 10000 /\ c * 10000 < 1023 * q + 1023
  BY SMT
<1>2. conv_dac_counts_to_mv_for_vgg_circuit(c) - 100 = -(q + 100)
  BY MvOfCounts, <1>1, SMT DEF Counts
<1>3. h \in Nat /\ 2 * h <= q + 100 /\ q + 100 <= 2 * h + 1
  BY <1>1, SMT
<1>. HIDE DEF q
<1>4. q + 100 \in Int /\ 0 <= q + 100 /\ q + 100 <= 4900
  BY <1>1, SMT
<1>5. conv_mv_to_dac_counts_for_vgg_circuit(-(q + 100)) = (1023 * h) \div 5000
  BY <1>4, CountsOfMv
<1>. HIDE DEF h
<1>6. 1023 * h >= 5000 * (c + 1) /\ 1023 * h < 5000 * 1023
  BY <1>1, <1>3, SMT
<1>7. (1023 * h) \div 5000 \in c + 1 .. 1023
  BY <1>3, <1>6, SMT
<1>. QED
  BY <1>2, <1>5, <1>7 DEF PinchOff

-----------------------------------------------------------------------------
(* One lemma per function.                                                 *)

\* The GPIO words the functions write.
LEMMA GpioTypes ==
  /\ \A g \in 0 .. 63 : GRAV_AFE_RECEIVE(g) \in GpioWords
  /\ {GRAV_AFE_TRANSMIT, GRAV_AFE_SAFE, GRAV_MAIN_DEFAULTS,
      GRAV_MAIN_POWER_ON_TX_OFF, GRAV_MAIN_POWER_ON_TX_ON} \subseteq GpioWords
  BY DEF GRAV_AFE_RECEIVE, GRAV_AFE_TRANSMIT, GRAV_AFE_SAFE, GRAV_MAIN_DEFAULTS,
         GRAV_MAIN_POWER_ON_TX_OFF, GRAV_MAIN_POWER_ON_TX_ON, Gpio, GpioWords, Lines

\* Which of them turn the receive LNA off; none looks unwritten.
LEMMA GpioLna ==
  /\ "LNA_DIS" \in GRAV_AFE_TRANSMIT.lines /\ "LNA_DIS" \in GRAV_AFE_SAFE.lines
  /\ GRAV_AFE_TRANSMIT # Unset /\ GRAV_AFE_SAFE # Unset
  /\ \A g \in 0 .. 63 : GRAV_AFE_RECEIVE(g) # Unset
<1>1. /\ GRAV_AFE_TRANSMIT # Unset /\ GRAV_AFE_SAFE # Unset
      /\ \A g \in 0 .. 63 : GRAV_AFE_RECEIVE(g) # Unset
  BY GpioTypes, ConstantsAssumption
<1>. QED BY <1>1 DEF GRAV_AFE_TRANSMIT, GRAV_AFE_SAFE, Gpio

\* What a transmit or receive mode needs to know of the stored codes.
CalibratedCodes(a) ==
  /\ vg_setpoint[a] \in 207 .. 390
  /\ vg_quiescent[a] \in 208 .. 1023
  /\ vg_quiescent[a] = cutoff[a]

\* A DAC code the firmware writes is never mistaken for an unwritten register.
LEMMA UnsetIsNoCode ==
  Unset \notin {GRAV_DAC_PA_EN_TX, GRAV_DAC_PA_EN_RX, GRAV_DAC_VGSET_SAFE,
                GRAV_DAC_TX_SW_TX, GRAV_DAC_TX_SW_RX,
                GRAV_DAC_TX_LNA_DIS_TX, GRAV_DAC_TX_LNA_DIS_RX}
  BY ConstantsAssumption
  DEF Counts, GRAV_DAC_PA_EN_TX, GRAV_DAC_PA_EN_RX, GRAV_DAC_VGSET_SAFE, GRAV_DAC_TX_SW_TX,
      GRAV_DAC_TX_SW_RX, GRAV_DAC_TX_LNA_DIS_TX, GRAV_DAC_TX_LNA_DIS_RX

\* Nor is a gate code.
LEMMA UnsetIsNoCount == \A c \in 0 .. 1023 : Unset # c
  BY ConstantsAssumption DEF Counts

\* At each statement of switch_to_rx the radio properties hold.
LEMMA RxRadio ==
  ASSUME NEW a \in Afe, TypeOK, call.fn = "rx", call.chip = a, RxProgress(a),
         CalibratedCodes(a)
  PROVE  RadioInv(a)
<1>1. call.at \in 1..8 /\ mode[a] \in {"safe", "rx", "tx"}
  BY DEF TypeOK
<1>2. regs[a].dir = "out" => regs[a].gpio # Unset
  BY GpioLna DEF RxProgress
<1>3. LnaOn(a) => ~SwitchAtTx(a) /\ ~Hot(a)
  <2>1. LnaOn(a) => call.at > 5 \/ mode[a] = "rx"
    BY GpioLna DEF RxProgress, LnaOn
  <2>2. call.at > 5 \/ mode[a] = "rx" => ~SwitchAtTx(a) /\ ~Hot(a)
    BY <1>1 DEF RxProgress, SwitchAtTx, Hot, GRAV_DAC_TX_SW_RX, GRAV_DAC_TX_SW_TX, CalibratedCodes
  <2>. QED BY <2>1, <2>2
<1>4. PaOn(a) => regs[a].vg \in 204 .. 1023
  BY <1>1 DEF RxProgress, PaOn, GRAV_DAC_VGSET_SAFE, CalibratedCodes
<1>5. Hot(a) /\ TxLnaOn(a) => SwitchAtTx(a)
  BY <1>1 DEF RxProgress, Hot, PaOn, TxLnaOn, SwitchAtTx, Driven, GRAV_DAC_VGSET_SAFE,
    GRAV_DAC_TX_LNA_DIS_TX, GRAV_DAC_TX_LNA_DIS_RX, CalibratedCodes
<1>6. Unset \notin {regs[a].pa, regs[a].vg, regs[a].sw, regs[a].txlna}
  BY <1>1, UnsetIsNoCode, UnsetIsNoCount DEF RxProgress, CalibratedCodes
<1>. QED BY <1>2, <1>3, <1>4, <1>5, <1>6 DEF RadioInv

\* At each statement of switch_to_tx too.
LEMMA TxRadio ==
  ASSUME NEW a \in Afe, TypeOK, call.fn = "tx", call.chip = a, TxProgress(a),
         CalibratedCodes(a)
  PROVE  RadioInv(a)
<1>1. call.at \in 1..8 /\ mode[a] \in {"safe", "rx", "tx"}
  BY DEF TypeOK
<1>2. regs[a].dir = "out" => regs[a].gpio # Unset
  BY GpioLna DEF TxProgress
<1>3. LnaOn(a) => ~SwitchAtTx(a) /\ ~Hot(a)
  <2>1. LnaOn(a) => call.at <= 2 /\ mode[a] = "rx"
    BY <1>1, GpioLna DEF TxProgress, LnaOn
  <2>2. call.at <= 2 /\ mode[a] = "rx" => ~SwitchAtTx(a) /\ ~Hot(a)
    BY <1>1 DEF TxProgress, SwitchAtTx, Hot, GRAV_DAC_TX_SW_RX, GRAV_DAC_TX_SW_TX, CalibratedCodes
  <2>. QED BY <2>1, <2>2
<1>4. PaOn(a) => regs[a].vg \in 204 .. 1023
  BY <1>1 DEF TxProgress, PaOn, GRAV_DAC_VGSET_SAFE, CalibratedCodes
<1>5. Hot(a) /\ TxLnaOn(a) => SwitchAtTx(a)
  BY <1>1 DEF TxProgress, Hot, PaOn, TxLnaOn, SwitchAtTx, Driven, GRAV_DAC_VGSET_SAFE,
    GRAV_DAC_TX_LNA_DIS_TX, GRAV_DAC_TX_LNA_DIS_RX, CalibratedCodes
<1>6. Unset \notin {regs[a].pa, regs[a].vg, regs[a].sw, regs[a].txlna}
  BY <1>1, UnsetIsNoCode, UnsetIsNoCount DEF TxProgress, CalibratedCodes
<1>. QED BY <1>2, <1>3, <1>4, <1>5, <1>6 DEF RadioInv

\* At each statement of calibrate_power_amplifier.
LEMMA CalRadio ==
  ASSUME NEW a \in Afe, TypeOK, call.fn = "cal", call.chip = a, call.at \in 1 .. 7,
         CalProgress(a)
  PROVE  RadioInv(a)
<1>2. regs[a].dir = "out" => regs[a].gpio # Unset
  BY GpioLna DEF CalProgress
<1>3. ~LnaOn(a)
    BY GpioLna DEF CalProgress, LnaOn
<1>4. regs[a].vg \in 204 .. 1023
  BY DEF CalProgress, GRAV_DAC_VGSET_SAFE
<1>5. ~TxLnaOn(a)
  BY DEF CalProgress, TxLnaOn, GRAV_DAC_TX_LNA_DIS_TX, GRAV_DAC_TX_LNA_DIS_RX
<1>6. Unset \notin {regs[a].pa, regs[a].vg, regs[a].sw, regs[a].txlna}
  BY <1>4, UnsetIsNoCode, UnsetIsNoCount DEF CalProgress
<1>. QED BY <1>2, <1>3, <1>4, <1>5, <1>6 DEF RadioInv

\* And in each mode, at rest.
LEMMA SettledRadio ==
  ASSUME NEW a \in Afe, TypeOK,
         \/ Parked(a) \/ Configured(a, "safe")
         \/ Configured(a, mode[a]) /\ CalibratedCodes(a)
  PROVE  RadioInv(a)
<1>1. CASE Parked(a) \/ Configured(a, "safe")
  <2>2. regs[a].dir = "out" => regs[a].gpio # Unset
    BY <1>1, GpioLna DEF Parked, Configured
  <2>3. ~LnaOn(a)
    BY <1>1, GpioLna DEF LnaOn, Parked, Configured
  <2>4. ~PaOn(a)
    BY <1>1 DEF Parked, Configured, GRAV_DAC_PA_EN_TX, GRAV_DAC_PA_EN_RX, PaOn
  <2>6. Unset \notin {regs[a].pa, regs[a].vg, regs[a].sw, regs[a].txlna}
    <3>1. CASE Parked(a)
      BY <3>1, UnsetIsNoCode, UnsetIsNoCount DEF Parked, Counts
    <3>2. CASE Configured(a, "safe")
      BY <3>2, UnsetIsNoCode DEF Configured
    <3>. QED
      BY <1>1, <3>1, <3>2
  <2>. QED BY <2>2, <2>3, <2>4, <2>6 DEF RadioInv, Hot
<1>2. CASE Configured(a, mode[a]) /\ mode[a] = "rx" /\ CalibratedCodes(a)
  <2>2. regs[a].dir = "out" => regs[a].gpio # Unset
    BY <1>2, GpioLna DEF Configured
  <2>3. ~Hot(a) /\ ~SwitchAtTx(a) /\ regs[a].vg \in 204 .. 1023
    BY <1>2 DEF Configured, CalibratedCodes, Hot, SwitchAtTx, GRAV_DAC_TX_SW_TX, GRAV_DAC_TX_SW_RX
  <2>6. Unset \notin {regs[a].pa, regs[a].vg, regs[a].sw, regs[a].txlna}
    BY <1>2, UnsetIsNoCode, UnsetIsNoCount DEF Configured, CalibratedCodes
  <2>. QED BY <2>2, <2>3, <2>6 DEF RadioInv
<1>3. CASE Configured(a, mode[a]) /\ mode[a] = "tx" /\ CalibratedCodes(a)
  <2>2. regs[a].dir = "out" => regs[a].gpio # Unset
    BY <1>3, GpioLna DEF Configured
  <2>3. ~LnaOn(a) /\ SwitchAtTx(a) /\ regs[a].vg \in 204 .. 1023
    BY <1>3, GpioLna DEF Configured, CalibratedCodes, LnaOn, SwitchAtTx, Driven
  <2>6. Unset \notin {regs[a].pa, regs[a].vg, regs[a].sw, regs[a].txlna}
    BY <1>3, UnsetIsNoCode, UnsetIsNoCount DEF Configured, CalibratedCodes
  <2>. QED BY <2>2, <2>3, <2>6 DEF RadioInv
<1>. QED BY <1>1, <1>2, <1>3 DEF TypeOK

\* The invariant knows all registers of a, so that it implies RadioInv(a).
Known(a) == /\ InCall(a) => call.fn \in {"rx", "tx", "cal"}
            /\ InCall(a) \/ pc \notin UnreadyPcs(a)
KnownRadioFact ==
  \A a \in Afe :
    /\ TypeOK /\ ControlInv /\ Known(a)
    /\ Settled(a) /\ Calibrated(a) /\ RxProgress(a) /\ TxProgress(a) /\ CalProgress(a)
    => RadioInv(a)

\* The codes of a channel calibrated since the restart.
LEMMA CodesKnown ==
  ASSUME NEW a \in Afe, TypeOK, Calibrated(a), pc \in CalibratedPcs(a),
         ~(call.fn = "cal" /\ call.chip = a)
  PROVE  CalibratedCodes(a)
<1>1. /\ vg_setpoint[a] \in 207 .. 390
      /\ vg_quiescent[a] \in vg_setpoint[a] + 1 .. 1023
      /\ vg_quiescent[a] = cutoff[a]
  BY DEF Calibrated
<1>. QED BY <1>1 DEF CalibratedCodes

\* What the invariant says of the registers implies the radio properties.
LEMMA KnownRadio == KnownRadioFact
<1>. SUFFICES ASSUME NEW a \in Afe, TypeOK, ControlInv, Known(a), Settled(a), Calibrated(a),
                     RxProgress(a), TxProgress(a), CalProgress(a)
              PROVE  RadioInv(a)
  BY DEF KnownRadioFact
<1>1. CASE InCall(a) /\ call.fn \in {"rx", "tx"}
  <2>1. CalibratedCodes(a)
    BY <1>1, CodesKnown DEF CalibratedPcs, LoopPcs, ControlInv
  <2>. QED BY <1>1, <2>1, RxRadio, TxRadio DEF InCall
<1>2. CASE InCall(a) /\ call.fn = "cal"
  BY <1>2, CalRadio DEF InCall, ControlInv
<1>3. CASE ~InCall(a) /\ pc \in ParkedPcs(a)
  BY <1>3, SettledRadio DEF Known, Settled
<1>4. CASE ~InCall(a) /\ pc \notin ParkedPcs(a) /\ pc \in LoopPcs
  <2>1. CalibratedCodes(a)
    BY <1>4, CodesKnown DEF CalibratedPcs, LoopPcs, ControlInv, InCall
  <2>. QED BY <1>4, <2>1, SettledRadio DEF Known, Settled
<1>5. CASE ~InCall(a) /\ pc \notin ParkedPcs(a) /\ pc \notin LoopPcs
  BY <1>5, SettledRadio DEF Known, Settled, ControlInv, UnreadyPcs
<1>. QED BY <1>1, <1>2, <1>3, <1>4, <1>5 DEF Known

\* The same of the next state.
LEMMA KnownRadioNext == KnownRadioFact'
  BY KnownRadio, PTL

\* What a step of a function executing on a does to the channel it is not on.
LEMMA OtherChannel ==
  ASSUME NEW b \in Afe, AfeInv(b), call.chip # b, call'.chip # b, pc' = pc,
         regs'[b] = regs[b], mode'[b] = mode[b], vg_setpoint'[b] = vg_setpoint[b],
         vg_quiescent'[b] = vg_quiescent[b], cutoff'[b] = cutoff[b]
  PROVE  AfeInv(b)'
<1>1. RadioInv(b)'
  BY DEF AfeInv, RadioInv, PaOn, Driven, LnaOn, SwitchAtTx, Hot, TxLnaOn
<1>2. Settled(b)'
  <2>1. Configured(b, mode[b])' <=> Configured(b, mode[b])
    BY DEF Configured
  <2>2. Parked(b)' <=> Parked(b)
    BY DEF Parked
  <2>. QED BY <2>1, <2>2 DEF AfeInv, Settled, InCall
<1>3. Calibrated(b)'
  BY DEF AfeInv, Calibrated
<1>4. RxProgress(b)' /\ TxProgress(b)' /\ SafeProgress(b)' /\ CalProgress(b)'
  BY DEF AfeInv, RxProgress, TxProgress, SafeProgress, CalProgress
<1>5. Quiet(b)'
  BY DEF AfeInv, Quiet, InCall, PaOn, Driven
<1>. QED BY <1>1, <1>2, <1>3, <1>4, <1>5 DEF AfeInv

\* A step inside a function on a: the rest of the channel's invariant.
LEMMA WithinCall ==
  ASSUME NEW a \in Afe, AfeInv(a), call.fn # "none", call'.fn = call.fn,
         call.chip = a, call'.chip = a, pc' = pc, vg_setpoint'[a] = vg_setpoint[a],
         vg_quiescent'[a] = vg_quiescent[a], cutoff'[a] = cutoff[a],
         RadioInv(a)', RxProgress(a)', TxProgress(a)', SafeProgress(a)', CalProgress(a)'
  PROVE  AfeInv(a)'
<1>1. Settled(a)' /\ Quiet(a)'
  BY DEF Settled, Quiet, InCall
<1>2. Calibrated(a)'
  BY DEF AfeInv, Calibrated
<1>. QED BY <1>1, <1>2 DEF AfeInv

\* A step inside a call on channel a: what is left to show of it is that the
\* channel's registers are what its function's progress predicate says.
LEMMA MidCall ==
  ASSUME IInv, NEW a \in Afe, call.chip = a, call.fn \in {"rx", "tx", "safe", "cal"},
         NEW k \in 1 .. 8, call' = [call EXCEPT !.at = k], call.fn = "cal" => k \in 1 .. 7,
         regs' \in [Chip -> RegFile], \A c \in Chip : c # a => regs'[c] = regs[c],
         UNCHANGED <<mode, grav_mode, pc, vg_setpoint, vg_quiescent, cutoff>>,
         counts' \in Counts,
         RxProgress(a)', TxProgress(a)', SafeProgress(a)', CalProgress(a)',
         call.fn = "safe" => RadioInv(a)'
  PROVE  IInv'
<1>0. TypeOK /\ ControlInv /\ AfeInv(a)
  BY DEF IInv
<1>1. /\ call'.fn = call.fn /\ call'.chip = a /\ call'.at = k
      /\ call' \in [fn : Fns, chip : Chip, at : 1 .. 8, gain : 0 .. 63]
  BY <1>0 DEF TypeOK
<1>2. TypeOK'
  BY <1>0, <1>1 DEF TypeOK
<1>3. ControlInv'
  BY <1>0, <1>1 DEF ControlInv
<1>4. RadioInv(a)'
  <2>1. CASE call.fn # "safe"
    <3>1. Known(a)' /\ Settled(a)'
      BY <1>1, <2>1 DEF Known, Settled, InCall
    <3>2. Calibrated(a)'
      BY <1>0, <1>1 DEF AfeInv, Calibrated
    <3>. QED
      BY <1>2, <1>3, <3>1, <3>2, KnownRadioNext DEF KnownRadioFact
  <2>. QED BY <2>1
<1>5. AfeInv(a)'
  BY <1>0, <1>1, <1>4, WithinCall
<1>6. ASSUME NEW b \in Afe, b # a PROVE AfeInv(b)'
  <2>1. AfeInv(b) /\ b \in Chip
    BY DEF IInv, Chip
  <2>2. regs'[b] = regs[b]
    BY <1>6, <2>1
  <2>. QED BY <2>1, <2>2, <1>1, <1>6, OtherChannel
<1>. QED
  BY <1>2, <1>3, <1>5, <1>6 DEF IInv

\* A function on channel a returns.
LEMMA Returns ==
  ASSUME IInv, NEW a \in Afe, call.chip = a, call.fn \in {"rx", "tx", "safe", "cal"},
         call' = Idle, UNCHANGED <<regs, grav_mode, pc, counts>>,
         mode' \in [Afe -> {"safe", "rx", "tx"}],
         vg_setpoint' \in [Afe -> Counts], vg_quiescent' \in [Afe -> Counts],
         cutoff' \in [Afe -> 0 .. 1024],
         \A b \in Afe : b # a => /\ mode'[b] = mode[b]
                                 /\ vg_setpoint'[b] = vg_setpoint[b]
                                 /\ vg_quiescent'[b] = vg_quiescent[b]
                                 /\ cutoff'[b] = cutoff[b],
         pc \notin LoopPcs \cup TripPcs => mode'[a] = "safe",
         Settled(a)', Calibrated(a)', Quiet(a)', pc \in UnreadyPcs(a) => RadioInv(a)'
  PROVE  IInv'
<1>0. TypeOK /\ ControlInv /\ AfeInv(a)
  BY DEF IInv
<1>2. TypeOK'
  BY <1>0 DEF TypeOK, Idle, Fns, Chip
<1>3. ControlInv'
  BY <1>0 DEF ControlInv, Idle
<1>4. RxProgress(a)' /\ TxProgress(a)' /\ SafeProgress(a)' /\ CalProgress(a)'
  BY DEF RxProgress, TxProgress, SafeProgress, CalProgress, Idle
<1>5. AfeInv(a)'
  <2>1. CASE pc \notin UnreadyPcs(a)
    <3>1. Known(a)'
      BY <2>1 DEF Known, InCall, Idle, UnreadyPcs
    <3>. QED
      BY <1>2, <1>3, <1>4, <3>1, KnownRadioNext DEF KnownRadioFact, AfeInv
  <2>. QED
    BY <1>4, <2>1 DEF AfeInv
<1>6. ASSUME NEW b \in Afe, b # a PROVE AfeInv(b)'
  <2>1. AfeInv(b) /\ call'.chip # b
    BY DEF IInv, Idle, Afe
  <2>. QED BY <2>1, <1>6, OtherChannel
<1>. QED
  BY <1>2, <1>3, <1>5, <1>6 DEF IInv

\* The values a statement may write to a register.
Fits(reg, val) ==
  \/ reg \in {"pa", "vg", "sw", "txlna"} /\ val \in Codes
  \/ reg = "gpio" /\ val \in GpioWords
  \/ reg = "power" /\ val \in {"off", "adc", "dacs"}
  \/ reg = "dir" /\ val \in {"in", "out"}

\* What a statement does, whether or not its condition holds.
Writes(k, reg, val) ==
  /\ call' = [call EXCEPT !.at = k + 1]
  /\ regs' = regs \/ regs' = [regs EXCEPT ![call.chip][reg] = val]
  /\ UNCHANGED <<mode, grav_mode, pc, memory>>

\* A write of a fitting value keeps the type and touches one chip.
LEMMA WriteTypes ==
  ASSUME NEW c \in Chip, regs \in [Chip -> RegFile], NEW reg, NEW val, Fits(reg, val),
         regs' = [regs EXCEPT ![c][reg] = val]
  PROVE  regs' \in [Chip -> RegFile] /\ \A d \in Chip : d # c => regs'[d] = regs[d]
<1>1. CASE reg = "pa"
  BY <1>1 DEF Fits, RegFile
<1>2. CASE reg = "vg"
  BY <1>2 DEF Fits, RegFile
<1>3. CASE reg = "sw"
  BY <1>3 DEF Fits, RegFile
<1>4. CASE reg = "txlna"
  BY <1>4 DEF Fits, RegFile
<1>5. CASE reg = "gpio"
  BY <1>5 DEF Fits, RegFile
<1>6. CASE reg = "power"
  BY <1>6 DEF Fits, RegFile
<1>7. CASE reg = "dir"
  BY <1>7 DEF Fits, RegFile
<1>. QED
  BY <1>1, <1>2, <1>3, <1>4, <1>5, <1>6, <1>7 DEF Fits

\* A register write of switch_to_rx, switch_to_tx or switch_to_safe.
LEMMA StmtStep ==
  ASSUME IInv, NEW a \in Afe, call.chip = a, call.fn \in {"rx", "tx", "safe"},
         NEW k \in 1 .. 7, NEW reg, NEW val, Writes(k, reg, val), Fits(reg, val),
         RxProgress(a)', TxProgress(a)', SafeProgress(a)',
         call.fn = "safe" => RadioInv(a)'
  PROVE  IInv'
<1>1. TypeOK /\ a \in Chip /\ regs \in [Chip -> RegFile]
  BY DEF IInv, TypeOK, Chip
<1>2. /\ call' = [call EXCEPT !.at = k + 1]
      /\ regs' = regs \/ regs' = [regs EXCEPT ![a][reg] = val]
      /\ UNCHANGED <<mode, grav_mode, pc, memory>>
  BY DEF Writes
<1>3. regs' \in [Chip -> RegFile] /\ \A c \in Chip : c # a => regs'[c] = regs[c]
  BY <1>1, <1>2, WriteTypes
<1>4. CalProgress(a)' /\ k + 1 \in 1 .. 8
  BY <1>1, <1>2 DEF CalProgress, TypeOK
<1>5. counts' \in Counts /\ UNCHANGED <<vg_setpoint, vg_quiescent, cutoff>>
  BY <1>1, <1>2 DEF TypeOK, memory
<1>. QED
  BY <1>2, <1>3, <1>4, <1>5, MidCall

\* The constants the functions write are values of their registers.
LEMMA FitsConstants ==
  /\ Fits("pa", GRAV_DAC_PA_EN_TX) /\ Fits("pa", GRAV_DAC_PA_EN_RX)
  /\ Fits("vg", GRAV_DAC_VGSET_SAFE)
  /\ Fits("sw", GRAV_DAC_TX_SW_TX) /\ Fits("sw", GRAV_DAC_TX_SW_RX)
  /\ Fits("txlna", GRAV_DAC_TX_LNA_DIS_TX) /\ Fits("txlna", GRAV_DAC_TX_LNA_DIS_RX)
  /\ Fits("gpio", GRAV_AFE_TRANSMIT) /\ Fits("gpio", GRAV_AFE_SAFE)
  /\ \A g \in 0 .. 63 : Fits("gpio", GRAV_AFE_RECEIVE(g))
  /\ Fits("power", "dacs") /\ Fits("dir", "out")
  BY GpioTypes DEF Fits, Codes, Counts, GRAV_DAC_PA_EN_TX, GRAV_DAC_PA_EN_RX,
     GRAV_DAC_VGSET_SAFE, GRAV_DAC_TX_SW_TX, GRAV_DAC_TX_SW_RX,
     GRAV_DAC_TX_LNA_DIS_TX, GRAV_DAC_TX_LNA_DIS_RX

\* switch_to_rx keeps the invariant.
LEMMA RxStep == ASSUME IInv, NEW a \in Afe, call.chip = a, switch_to_rx PROVE IInv'
<1>0. /\ TypeOK /\ call.fn = "rx" /\ pc = "grav"
      /\ RxProgress(a) /\ CalibratedCodes(a) /\ call.gain \in 0 .. 63
  <2>1. TypeOK /\ call.fn = "rx" /\ pc = "grav" /\ AfeInv(a)
    BY DEF IInv, ControlInv, switch_to_rx
  <2>2. CalibratedCodes(a)
    BY <2>1, CodesKnown DEF AfeInv, CalibratedPcs, LoopPcs
  <2>. QED
    BY <2>1, <2>2 DEF AfeInv, TypeOK
<1>1. ASSUME NEW k \in 1 .. 5, NEW reg, NEW val, Writes(k, reg, val),
             Fits(reg, val), RxProgress(a)'
      PROVE  IInv'
  <2>1. call'.fn = "rx" /\ TxProgress(a)' /\ SafeProgress(a)'
    BY <1>0, <1>1 DEF TxProgress, SafeProgress, Writes, TypeOK
  <2>. QED
    BY <1>0, <1>1, <2>1, StmtStep
<1>2. CASE Stmt(1, mode[a] = "safe", "pa", GRAV_DAC_PA_EN_TX)
  <2>1. RxProgress(a)'
    BY <1>0, <1>2 DEF Stmt, RxProgress, memory, TypeOK, RegFile
  <2>2. Writes(1, "pa", GRAV_DAC_PA_EN_TX)
    BY <1>0, <1>2 DEF Stmt, Writes
  <2>. QED
    BY <1>1, <2>1, <2>2, FitsConstants
<1>3. CASE Stmt(2, mode[a] # "rx", "vg", vg_quiescent[a])
  <2>1. RxProgress(a)'
    BY <1>0, <1>3 DEF Stmt, RxProgress, memory, TypeOK, RegFile
  <2>2. Fits("vg", vg_quiescent[a])
    BY <1>0 DEF Fits, Codes, TypeOK
  <2>3. Writes(2, "vg", vg_quiescent[a])
    BY <1>0, <1>3 DEF Stmt, Writes
  <2>. QED
    BY <1>1, <2>1, <2>2, <2>3
<1>4. CASE Stmt(3, mode[a] # "rx", "sw", GRAV_DAC_TX_SW_RX)
  <2>1. RxProgress(a)'
    BY <1>0, <1>4 DEF Stmt, RxProgress, memory, TypeOK, RegFile
  <2>2. Writes(3, "sw", GRAV_DAC_TX_SW_RX)
    BY <1>0, <1>4 DEF Stmt, Writes
  <2>. QED
    BY <1>1, <2>1, <2>2, FitsConstants
<1>5. CASE Stmt(4, mode[a] # "rx", "txlna", GRAV_DAC_TX_LNA_DIS_RX)
  <2>1. RxProgress(a)'
    BY <1>0, <1>5 DEF Stmt, RxProgress, memory, TypeOK, RegFile
  <2>2. Writes(4, "txlna", GRAV_DAC_TX_LNA_DIS_RX)
    BY <1>0, <1>5 DEF Stmt, Writes
  <2>. QED
    BY <1>1, <2>1, <2>2, FitsConstants
<1>6. CASE Stmt(5, TRUE, "gpio", GRAV_AFE_RECEIVE(call.gain))
  <2>1. RxProgress(a)'
    BY <1>0, <1>6 DEF Stmt, RxProgress, memory, TypeOK, RegFile
  <2>2. Writes(5, "gpio", GRAV_AFE_RECEIVE(call.gain))
    BY <1>0, <1>6 DEF Stmt, Writes
  <2>. QED
    BY <1>0, <1>1, <2>1, <2>2, FitsConstants
<1>7. CASE ReturnAfe(6, "rx")
  <2>1. /\ call.at = 6 /\ call' = Idle /\ mode' = [mode EXCEPT ![a] = "rx"]
        /\ UNCHANGED <<regs, grav_mode, pc, memory>>
    BY <1>7 DEF ReturnAfe
  <2>2. Configured(a, mode[a])'
    BY <1>0, <2>1 DEF RxProgress, Configured, memory, TypeOK
  <2>3. CalibratedCodes(a)'
    BY <1>0, <2>1 DEF CalibratedCodes, memory
  <2>4. Settled(a)' /\ Quiet(a)'
    BY <1>0, <2>1, <2>2 DEF Settled, ParkedPcs, Quiet, QuietPcs
  <2>5. Calibrated(a)'
    <3>1. AfeInv(a) /\ call.fn # "cal"
      BY <1>0 DEF IInv
    <3>. QED
      BY <2>1, <3>1 DEF AfeInv, Calibrated, memory
  <2>. QED
    BY <1>0, <2>1, <2>2, <2>3, <2>4, <2>5, Returns
    DEF memory, LoopPcs, TypeOK, UnreadyPcs, TripPcs
<1>. QED
  BY <1>2, <1>3, <1>4, <1>5, <1>6, <1>7 DEF switch_to_rx

\* switch_to_tx keeps it.
LEMMA TxStep == ASSUME IInv, NEW a \in Afe, call.chip = a, switch_to_tx PROVE IInv'
<1>0. /\ TypeOK /\ call.fn = "tx" /\ pc = "grav"
      /\ TxProgress(a) /\ CalibratedCodes(a)
  <2>1. TypeOK /\ call.fn = "tx" /\ pc = "grav" /\ AfeInv(a)
    BY DEF IInv, ControlInv, switch_to_tx
  <2>2. CalibratedCodes(a)
    BY <2>1, CodesKnown DEF AfeInv, CalibratedPcs, LoopPcs
  <2>. QED
    BY <2>1, <2>2 DEF AfeInv, TypeOK
<1>1. ASSUME NEW k \in 1 .. 5, NEW reg, NEW val, Writes(k, reg, val),
             Fits(reg, val), TxProgress(a)'
      PROVE  IInv'
  <2>1. call'.fn = "tx" /\ RxProgress(a)' /\ SafeProgress(a)'
    BY <1>0, <1>1 DEF RxProgress, SafeProgress, Writes, TypeOK
  <2>. QED
    BY <1>0, <1>1, <2>1, StmtStep
<1>2. CASE Stmt(1, mode[a] = "safe", "pa", GRAV_DAC_PA_EN_TX)
  <2>1. TxProgress(a)'
    BY <1>0, <1>2 DEF Stmt, TxProgress, memory, TypeOK, RegFile
  <2>2. Writes(1, "pa", GRAV_DAC_PA_EN_TX)
    BY <1>0, <1>2 DEF Stmt, Writes
  <2>. QED
    BY <1>1, <2>1, <2>2, FitsConstants
<1>3. CASE Stmt(2, mode[a] # "tx", "gpio", GRAV_AFE_TRANSMIT)
  <2>1. TxProgress(a)'
    BY <1>0, <1>3 DEF Stmt, TxProgress, memory, TypeOK, RegFile
  <2>2. Writes(2, "gpio", GRAV_AFE_TRANSMIT)
    BY <1>0, <1>3 DEF Stmt, Writes
  <2>. QED
    BY <1>1, <2>1, <2>2, FitsConstants
<1>4. CASE Stmt(3, mode[a] # "tx", "vg", vg_setpoint[a])
  <2>1. TxProgress(a)'
    BY <1>0, <1>4 DEF Stmt, TxProgress, memory, TypeOK, RegFile
  <2>2. Fits("vg", vg_setpoint[a])
    BY <1>0 DEF Fits, Codes, TypeOK
  <2>3. Writes(3, "vg", vg_setpoint[a])
    BY <1>0, <1>4 DEF Stmt, Writes
  <2>. QED
    BY <1>1, <2>1, <2>2, <2>3
<1>5. CASE Stmt(4, mode[a] # "tx", "sw", GRAV_DAC_TX_SW_TX)
  <2>1. TxProgress(a)'
    BY <1>0, <1>5 DEF Stmt, TxProgress, memory, TypeOK, RegFile
  <2>2. Writes(4, "sw", GRAV_DAC_TX_SW_TX)
    BY <1>0, <1>5 DEF Stmt, Writes
  <2>. QED
    BY <1>1, <2>1, <2>2, FitsConstants
<1>6. CASE Stmt(5, mode[a] # "tx", "txlna", GRAV_DAC_TX_LNA_DIS_TX)
  <2>1. TxProgress(a)'
    BY <1>0, <1>6 DEF Stmt, TxProgress, memory, TypeOK, RegFile
  <2>2. Writes(5, "txlna", GRAV_DAC_TX_LNA_DIS_TX)
    BY <1>0, <1>6 DEF Stmt, Writes
  <2>. QED
    BY <1>1, <2>1, <2>2, FitsConstants
<1>7. CASE ReturnAfe(6, "tx")
  <2>1. /\ call.at = 6 /\ call' = Idle /\ mode' = [mode EXCEPT ![a] = "tx"]
        /\ UNCHANGED <<regs, grav_mode, pc, memory>>
    BY <1>7 DEF ReturnAfe
  <2>2. Configured(a, mode[a])'
    BY <1>0, <2>1 DEF TxProgress, Configured, memory, TypeOK
  <2>3. CalibratedCodes(a)'
    BY <1>0, <2>1 DEF CalibratedCodes, memory
  <2>4. Settled(a)' /\ Quiet(a)'
    BY <1>0, <2>1, <2>2 DEF Settled, ParkedPcs, Quiet, QuietPcs
  <2>5. Calibrated(a)'
    <3>1. AfeInv(a) /\ call.fn # "cal"
      BY <1>0 DEF IInv
    <3>. QED
      BY <2>1, <3>1 DEF AfeInv, Calibrated, memory
  <2>. QED
    BY <1>0, <2>1, <2>2, <2>3, <2>4, <2>5, Returns
    DEF memory, LoopPcs, TypeOK, UnreadyPcs, TripPcs
<1>. QED
  BY <1>2, <1>3, <1>4, <1>5, <1>6, <1>7 DEF switch_to_tx

\* The part of RadioInv that does not follow from the PA being off.
Guarded(a) ==
  /\ LnaOn(a) => ~SwitchAtTx(a)
  /\ Driven(a) => Unset \notin {regs[a].pa, regs[a].vg, regs[a].sw, regs[a].txlna}
  /\ regs[a].dir = "out" => regs[a].gpio # Unset

\* switch_to_safe keeps it, from whatever the registers were.
LEMMA SafeStep == ASSUME IInv, NEW a \in Afe, call.chip = a, switch_to_safe PROVE IInv'
<1>0. TypeOK /\ call.fn = "safe" /\ AfeInv(a)
  BY DEF IInv, switch_to_safe
<1>1. ASSUME NEW k \in 1 .. 7, NEW reg, NEW val, Writes(k, reg, val),
             Fits(reg, val), SafeProgress(a)', Guarded(a)'
      PROVE  IInv'
  <2>1. call'.fn = "safe" /\ RxProgress(a)' /\ TxProgress(a)'
    BY <1>0, <1>1 DEF TxProgress, RxProgress, Writes, TypeOK
  <2>2. regs'[a].pa = GRAV_DAC_PA_EN_RX
    BY <1>0, <1>1 DEF Writes, SafeProgress, TypeOK
  <2>3. RadioInv(a)'
    BY <1>1, <2>2 DEF RadioInv, Guarded, Hot, PaOn, GRAV_DAC_PA_EN_TX, GRAV_DAC_PA_EN_RX
  <2>. QED
    BY <1>0, <1>1, <2>1, <2>3, StmtStep
<1>2. CASE Stmt(1, TRUE, "pa", GRAV_DAC_PA_EN_RX)
  <2>1. SafeProgress(a)'
    BY <1>0, <1>2 DEF Stmt, AfeInv, SafeProgress, memory, TypeOK, RegFile
  <2>2. Writes(1, "pa", GRAV_DAC_PA_EN_RX)
    BY <1>2 DEF Stmt, Writes
  <2>3. Guarded(a)'
    <3>1. /\ regs'[a] = [regs[a] EXCEPT !.pa = GRAV_DAC_PA_EN_RX] /\ regs[a] \in RegFile
          /\ RadioInv(a) /\ SafeProgress(a) /\ call.at = 1
      BY <1>0, <1>2 DEF Stmt, AfeInv, TypeOK, Chip
    <3>. QED
      BY <3>1, GpioLna, ConstantsAssumption
      DEF RadioInv, Guarded, SafeProgress, LnaOn, SwitchAtTx, Driven, RegFile, Counts,
          GRAV_DAC_PA_EN_RX, GRAV_DAC_VGSET_SAFE, GRAV_DAC_TX_SW_RX,
          GRAV_DAC_TX_SW_TX, GRAV_DAC_TX_LNA_DIS_RX
  <2>. QED
    BY <1>1, <2>1, <2>2, <2>3, FitsConstants
<1>3. CASE Stmt(2, TRUE, "vg", GRAV_DAC_VGSET_SAFE)
  <2>1. SafeProgress(a)'
    BY <1>0, <1>3 DEF Stmt, AfeInv, SafeProgress, memory, TypeOK, RegFile
  <2>2. Writes(2, "vg", GRAV_DAC_VGSET_SAFE)
    BY <1>3 DEF Stmt, Writes
  <2>3. Guarded(a)'
    <3>1. /\ regs'[a] = [regs[a] EXCEPT !.vg = GRAV_DAC_VGSET_SAFE] /\ regs[a] \in RegFile
          /\ RadioInv(a) /\ SafeProgress(a) /\ call.at = 2
      BY <1>0, <1>3 DEF Stmt, AfeInv, TypeOK, Chip
    <3>. QED
      BY <3>1, GpioLna, ConstantsAssumption
      DEF RadioInv, Guarded, SafeProgress, LnaOn, SwitchAtTx, Driven, RegFile, Counts,
          GRAV_DAC_PA_EN_RX, GRAV_DAC_VGSET_SAFE, GRAV_DAC_TX_SW_RX,
          GRAV_DAC_TX_SW_TX, GRAV_DAC_TX_LNA_DIS_RX
  <2>. QED
    BY <1>1, <2>1, <2>2, <2>3, FitsConstants
<1>4. CASE Stmt(3, TRUE, "sw", GRAV_DAC_TX_SW_RX)
  <2>1. SafeProgress(a)'
    BY <1>0, <1>4 DEF Stmt, AfeInv, SafeProgress, memory, TypeOK, RegFile
  <2>2. Writes(3, "sw", GRAV_DAC_TX_SW_RX)
    BY <1>4 DEF Stmt, Writes
  <2>3. Guarded(a)'
    <3>1. /\ regs'[a] = [regs[a] EXCEPT !.sw = GRAV_DAC_TX_SW_RX] /\ regs[a] \in RegFile
          /\ RadioInv(a) /\ SafeProgress(a) /\ call.at = 3
      BY <1>0, <1>4 DEF Stmt, AfeInv, TypeOK, Chip
    <3>. QED
      BY <3>1, GpioLna, ConstantsAssumption
      DEF RadioInv, Guarded, SafeProgress, LnaOn, SwitchAtTx, Driven, RegFile, Counts,
          GRAV_DAC_PA_EN_RX, GRAV_DAC_VGSET_SAFE, GRAV_DAC_TX_SW_RX,
          GRAV_DAC_TX_SW_TX, GRAV_DAC_TX_LNA_DIS_RX
  <2>. QED
    BY <1>1, <2>1, <2>2, <2>3, FitsConstants
<1>5. CASE Stmt(4, TRUE, "txlna", GRAV_DAC_TX_LNA_DIS_RX)
  <2>1. SafeProgress(a)'
    BY <1>0, <1>5 DEF Stmt, AfeInv, SafeProgress, memory, TypeOK, RegFile
  <2>2. Writes(4, "txlna", GRAV_DAC_TX_LNA_DIS_RX)
    BY <1>5 DEF Stmt, Writes
  <2>3. Guarded(a)'
    <3>1. /\ regs'[a] = [regs[a] EXCEPT !.txlna = GRAV_DAC_TX_LNA_DIS_RX] /\ regs[a] \in RegFile
          /\ RadioInv(a) /\ SafeProgress(a) /\ call.at = 4
      BY <1>0, <1>5 DEF Stmt, AfeInv, TypeOK, Chip
    <3>. QED
      BY <3>1, GpioLna, ConstantsAssumption
      DEF RadioInv, Guarded, SafeProgress, LnaOn, SwitchAtTx, Driven, RegFile, Counts,
          GRAV_DAC_PA_EN_RX, GRAV_DAC_VGSET_SAFE, GRAV_DAC_TX_SW_RX,
          GRAV_DAC_TX_SW_TX, GRAV_DAC_TX_LNA_DIS_RX
  <2>. QED
    BY <1>1, <2>1, <2>2, <2>3, FitsConstants
<1>6. CASE Stmt(5, TRUE, "power", "dacs")
  <2>1. SafeProgress(a)'
    BY <1>0, <1>6 DEF Stmt, AfeInv, SafeProgress, memory, TypeOK, RegFile
  <2>2. Writes(5, "power", "dacs")
    BY <1>6 DEF Stmt, Writes
  <2>3. Guarded(a)'
    <3>1. /\ regs'[a] = [regs[a] EXCEPT !.power = "dacs"] /\ regs[a] \in RegFile
          /\ RadioInv(a) /\ SafeProgress(a) /\ call.at = 5
      BY <1>0, <1>6 DEF Stmt, AfeInv, TypeOK, Chip
    <3>2. ~SwitchAtTx(a)'
      BY <1>0, <3>1
      DEF SafeProgress, SwitchAtTx, RegFile, GRAV_DAC_TX_SW_RX, GRAV_DAC_TX_SW_TX
    <3>3. (regs[a].dir = "out" => regs[a].gpio # Unset)'
      BY <3>1 DEF RadioInv, RegFile
    <3>4. (Driven(a) => Unset \notin {regs[a].pa, regs[a].vg, regs[a].sw, regs[a].txlna})'
      BY <1>0, <3>1, UnsetIsNoCode DEF SafeProgress, RegFile
    <3>. QED
      BY <3>2, <3>3, <3>4 DEF Guarded
  <2>. QED
    BY <1>1, <2>1, <2>2, <2>3, FitsConstants
<1>7. CASE Stmt(6, TRUE, "gpio", GRAV_AFE_SAFE)
  <2>1. SafeProgress(a)'
    BY <1>0, <1>7 DEF Stmt, AfeInv, SafeProgress, memory, TypeOK, RegFile
  <2>2. Writes(6, "gpio", GRAV_AFE_SAFE)
    BY <1>7 DEF Stmt, Writes
  <2>3. Guarded(a)'
    <3>1. /\ regs'[a] = [regs[a] EXCEPT !.gpio = GRAV_AFE_SAFE] /\ regs[a] \in RegFile
          /\ RadioInv(a) /\ SafeProgress(a) /\ call.at = 6
      BY <1>0, <1>7 DEF Stmt, AfeInv, TypeOK, Chip
    <3>. QED
      BY <3>1, GpioLna, ConstantsAssumption
      DEF RadioInv, Guarded, SafeProgress, LnaOn, SwitchAtTx, Driven, RegFile, Counts,
          GRAV_DAC_PA_EN_RX, GRAV_DAC_VGSET_SAFE, GRAV_DAC_TX_SW_RX,
          GRAV_DAC_TX_SW_TX, GRAV_DAC_TX_LNA_DIS_RX
  <2>. QED
    BY <1>1, <2>1, <2>2, <2>3, FitsConstants
<1>8. CASE Stmt(7, TRUE, "dir", "out")
  <2>1. SafeProgress(a)'
    BY <1>0, <1>8 DEF Stmt, AfeInv, SafeProgress, memory, TypeOK, RegFile
  <2>2. Writes(7, "dir", "out")
    BY <1>8 DEF Stmt, Writes
  <2>3. Guarded(a)'
    <3>1. /\ regs'[a] = [regs[a] EXCEPT !.dir = "out"] /\ regs[a] \in RegFile
          /\ RadioInv(a) /\ SafeProgress(a) /\ call.at = 7
      BY <1>0, <1>8 DEF Stmt, AfeInv, TypeOK, Chip
    <3>2. ~LnaOn(a)'
      BY <1>0, <3>1, GpioLna DEF SafeProgress, LnaOn, RegFile
    <3>3. (regs[a].dir = "out" => regs[a].gpio # Unset)'
      BY <1>0, <3>1, GpioLna DEF SafeProgress, RegFile
    <3>4. (Driven(a) => Unset \notin {regs[a].pa, regs[a].vg, regs[a].sw, regs[a].txlna})'
      BY <1>0, <3>1, UnsetIsNoCode DEF SafeProgress, RegFile
    <3>. QED
      BY <3>2, <3>3, <3>4 DEF Guarded
  <2>. QED
    BY <1>1, <2>1, <2>2, <2>3, FitsConstants
<1>9. CASE ReturnAfe(8, "safe")
  <2>1. /\ call.at = 8 /\ call' = Idle /\ mode' = [mode EXCEPT ![a] = "safe"]
        /\ UNCHANGED <<regs, grav_mode, pc, memory>>
    BY <1>9 DEF ReturnAfe
  <2>2. Configured(a, mode[a])'
    BY <1>0, <2>1 DEF AfeInv, SafeProgress, Configured, memory, TypeOK
  <2>3. Settled(a)'
    <3>1. pc \notin ParkedPcs(a)
      BY <1>0 DEF IInv, ControlInv, ParkedPcs, Afe
    <3>. QED
      BY <2>1, <2>2, <3>1 DEF Settled, ParkedPcs
  <2>4. Quiet(a)'
    BY <1>0, <2>1 DEF AfeInv, SafeProgress, Quiet, PaOn, GRAV_DAC_PA_EN_TX, GRAV_DAC_PA_EN_RX
  <2>5. Calibrated(a)'
    BY <1>0, <2>1 DEF AfeInv, Calibrated, memory
  <2>6. RadioInv(a)'
    BY <1>0, <2>1 DEF AfeInv, RadioInv, PaOn, Hot, LnaOn, SwitchAtTx, TxLnaOn, Driven, memory
  <2>. QED
    BY <1>0, <2>1, <2>2, <2>3, <2>4, <2>5, <2>6, Returns DEF memory, TypeOK
<1>. QED
  BY <1>2, <1>3, <1>4, <1>5, <1>6, <1>7, <1>8, <1>9 DEF switch_to_safe

\* calibrate_power_amplifier writes two registers.
CalWrites(a) ==
  \/ regs' = regs
  \/ \E v \in Counts : regs' = [regs EXCEPT ![a]["vg"] = v]
  \/ \E v \in Counts : regs' = [regs EXCEPT ![a]["pa"] = v]

\* A step inside calibrate_power_amplifier, from the invariant's view.
LEMMA CalMid ==
  ASSUME IInv, NEW a \in Afe, call.chip = a, call.fn = "cal",
         NEW k \in 1 .. 7, Goto(k), CalWrites(a),
         UNCHANGED calUnchanged, counts' \in Counts, CalProgress(a)'
  PROVE  IInv'
<1>1. TypeOK /\ a \in Chip /\ \A v \in Counts : Fits("vg", v) /\ Fits("pa", v)
  BY DEF IInv, Chip, Fits, Codes
<1>2. regs' \in [Chip -> RegFile] /\ \A c \in Chip : c # a => regs'[c] = regs[c]
  BY <1>1, WriteTypes DEF TypeOK, CalWrites
<1>3. call' = [call EXCEPT !.at = k] /\ call'.fn = "cal"
  BY <1>1 DEF Goto, TypeOK
<1>4. RxProgress(a)' /\ TxProgress(a)' /\ SafeProgress(a)'
  BY <1>3 DEF RxProgress, TxProgress, SafeProgress
<1>. QED
  BY <1>2, <1>3, <1>4, MidCall DEF calUnchanged

\* calibrate_power_amplifier keeps it.
LEMMA CalStep == ASSUME IInv, NEW a \in Afe, call.chip = a, Calibrate PROVE IInv'
<1>0. TypeOK /\ call.fn = "cal" /\ CalProgress(a) /\ call.at \in 1 .. 7 /\ counts \in Counts
      /\ regs[a] \in RegFile
  BY DEF IInv, AfeInv, ControlInv, TypeOK, Chip, Calibrate, Calibrating, CalStart, CalEnable,
     CalConducts, CalLower, CalSag, CalHolds, CalBackOff, CalDisable, CalStore
<1>1. CASE CalStart
  <2>1. call.at = 1 /\ counts' = 388 /\ regs' = [regs EXCEPT ![a].vg = 388]
        /\ Goto(2) /\ UNCHANGED calUnchanged
    BY <1>1, Start DEF CalStart, Calibrating, SetVg
  <2>2. call'.fn = "cal" /\ call'.chip = a /\ call'.at = 2
    BY <1>0, <2>1 DEF Goto, TypeOK
  <2>3. CalProgress(a)'
    BY <1>0, <2>1, <2>2 DEF CalProgress, RegFile, TypeOK
  <2>8. 388 \in Counts
    BY DEF Counts
  <2>9. CalWrites(a) /\ counts' \in Counts
    <3>1. \E v \in Counts : regs' = [regs EXCEPT ![a].vg = v]
      BY <2>1, <2>8
    <3>. QED
      BY <2>1, <2>8, <3>1 DEF CalWrites
  <2>. QED
    BY <1>0, <2>1, <2>3, <2>9, CalMid
<1>2. CASE CalEnable
  <2>1. call.at = 2 /\ regs' = [regs EXCEPT ![a].pa = GRAV_DAC_PA_EN_TX]
        /\ Goto(3) /\ counts' = counts /\ UNCHANGED calUnchanged
    BY <1>2 DEF CalEnable, Calibrating, SetPa
  <2>2. call'.fn = "cal" /\ call'.chip = a /\ call'.at = 3
    BY <1>0, <2>1 DEF Goto, TypeOK
  <2>3. CalProgress(a)'
    BY <1>0, <2>1, <2>2 DEF CalProgress, RegFile, TypeOK
  <2>8. GRAV_DAC_PA_EN_TX \in Counts
    BY DEF Counts, GRAV_DAC_PA_EN_TX
  <2>9. CalWrites(a) /\ counts' \in Counts
    BY <1>0, <2>1, <2>8 DEF CalWrites
  <2>. QED
    BY <1>0, <2>1, <2>3, <2>9, CalMid
<1>3. CASE CalConducts
  <2>1. call.at = 3 /\ regs' = regs /\ Goto(5) /\ counts' = counts /\ UNCHANGED calUnchanged
    BY <1>3 DEF CalConducts, Calibrating
  <2>2. call'.fn = "cal" /\ call'.chip = a /\ call'.at = 5
    BY <1>0, <2>1 DEF Goto, TypeOK
  <2>3. CalProgress(a)'
    BY <1>0, <2>1, <2>2 DEF CalProgress
  <2>9. CalWrites(a) /\ counts' \in Counts
    BY <1>0, <2>1, <2>3 DEF CalWrites
  <2>. QED
    BY <1>0, <2>1, <2>3, <2>9, CalMid
<1>4. CASE CalLower
  <2>1. call.at = 3 /\ counts' = counts - 1 /\ regs' = [regs EXCEPT ![a].vg = counts - 1]
        /\ Goto(4) /\ UNCHANGED calUnchanged
    BY <1>4 DEF CalLower, Calibrating, SetVg
  <2>2. call'.fn = "cal" /\ call'.chip = a /\ call'.at = 4
    BY <1>0, <2>1 DEF Goto, TypeOK
  <2>3. counts \in 205 .. 388 /\ counts - 1 \in Counts
    BY <1>0, <2>1 DEF CalProgress, Counts
  <2>4. CalProgress(a)'
    BY <1>0, <2>1, <2>2, <2>3 DEF CalProgress, RegFile, TypeOK
  <2>9. CalWrites(a) /\ counts' \in Counts
    BY <1>0, <2>1, <2>3, <2>4 DEF CalWrites
  <2>. QED
    BY <1>0, <2>1, <2>3, <2>4, <2>9, CalMid
<1>5. CASE CalSag
  <2>1. /\ call' = Idle /\ pc' = "trip_a"
        /\ UNCHANGED <<regs, mode, grav_mode, vg_setpoint, vg_quiescent, counts, cutoff>>
    BY <1>5 DEF CalSag, memory
  <2>2. TypeOK'
    BY <1>0, <2>1 DEF TypeOK, Idle, Fns, Chip, Pcs
  <2>3. ControlInv'
    BY <2>1 DEF ControlInv, Idle, TripPcs
  <2>4. ASSUME NEW b \in Afe PROVE AfeInv(b)'
    <3>1. RadioInv(b)'
      BY <2>1 DEF IInv, AfeInv, RadioInv, PaOn, Hot, LnaOn, SwitchAtTx, TxLnaOn, Driven
    <3>2. Settled(b)' /\ Calibrated(b)' /\ Quiet(b)'
      BY <2>1 DEF Settled, UnreadyPcs, TripPcs, Calibrated, CalibratedPcs, LoopPcs, Quiet,
                  QuietPcs
    <3>3. RxProgress(b)' /\ TxProgress(b)' /\ SafeProgress(b)' /\ CalProgress(b)'
      BY <2>1 DEF RxProgress, TxProgress, SafeProgress, CalProgress, Idle
    <3>. QED
      BY <3>1, <3>2, <3>3 DEF AfeInv
  <2>. QED
    BY <2>2, <2>3, <2>4 DEF IInv
<1>6. CASE CalHolds
  <2>1. call.at = 4 /\ regs' = regs /\ UNCHANGED calUnchanged
    BY <1>6 DEF CalHolds, Calibrating
  <2>2. counts \in 204 .. 387 /\ regs[a].vg = counts
    BY <1>0, <2>1 DEF CalProgress
  <2>3. CASE counts <= 204
    <3>1. counts' = 388 /\ Goto(5)
      BY <1>0, <1>6, <2>3, Limit, Start DEF CalHolds
    <3>2. call'.fn = "cal" /\ call'.chip = a /\ call'.at = 5
      BY <1>0, <3>1 DEF Goto, TypeOK
    <3>3. CalProgress(a)'
      BY <1>0, <2>1, <2>2, <3>1, <3>2 DEF CalProgress
    <3>9. CalWrites(a) /\ counts' \in Counts
      BY <1>0, <2>1, <3>1, <3>3 DEF Counts, CalWrites
    <3>. QED
      BY <1>0, <2>1, <3>1, <3>3, <3>9, CalMid
  <2>4. CASE counts > 204
    <3>1. counts' = counts /\ Goto(3)
      BY <1>0, <1>6, <2>2, <2>4, Limit DEF CalHolds
    <3>2. call'.fn = "cal" /\ call'.chip = a /\ call'.at = 3
      BY <1>0, <3>1 DEF Goto, TypeOK
    <3>3. CalProgress(a)'
      BY <1>0, <2>1, <2>2, <2>4, <3>1, <3>2 DEF CalProgress
    <3>9. CalWrites(a) /\ counts' \in Counts
      BY <1>0, <2>1, <3>1, <3>3 DEF Counts, CalWrites
    <3>. QED
      BY <1>0, <2>1, <3>1, <3>3, <3>9, CalMid
  <2>. QED
    BY <2>2, <2>3, <2>4
<1>7. CASE CalBackOff
  <2>1. call.at = 5 /\ counts' = counts + 2 /\ regs' = [regs EXCEPT ![a].vg = counts + 2]
        /\ Goto(6) /\ UNCHANGED calUnchanged
    BY <1>7 DEF CalBackOff, Calibrating, SetVg
  <2>2. call'.fn = "cal" /\ call'.chip = a /\ call'.at = 6
    BY <1>0, <2>1 DEF Goto, TypeOK
  <2>3. counts \in 205 .. 388 /\ counts + 2 \in Counts
    BY <1>0, <2>1 DEF CalProgress, Counts
  <2>4. CalProgress(a)'
    BY <1>0, <2>1, <2>2, <2>3 DEF CalProgress, RegFile, TypeOK
  <2>9. CalWrites(a) /\ counts' \in Counts
    BY <1>0, <2>1, <2>3, <2>4 DEF CalWrites
  <2>. QED
    BY <1>0, <2>1, <2>3, <2>4, <2>9, CalMid
<1>8. CASE CalDisable
  <2>1. call.at = 6 /\ regs' = [regs EXCEPT ![a].pa = GRAV_DAC_PA_EN_RX]
        /\ Goto(7) /\ counts' = counts /\ UNCHANGED calUnchanged
    BY <1>8 DEF CalDisable, Calibrating, SetPa
  <2>2. call'.fn = "cal" /\ call'.chip = a /\ call'.at = 7
    BY <1>0, <2>1 DEF Goto, TypeOK
  <2>3. CalProgress(a)'
    BY <1>0, <2>1, <2>2 DEF CalProgress, RegFile, TypeOK
  <2>8. GRAV_DAC_PA_EN_RX \in Counts
    BY DEF Counts, GRAV_DAC_PA_EN_RX
  <2>9. CalWrites(a) /\ counts' \in Counts
    BY <1>0, <2>1, <2>8 DEF CalWrites
  <2>. QED
    BY <1>0, <2>1, <2>3, <2>9, CalMid
<1>9. CASE CalStore
  <2>1. /\ call.at = 7 /\ call' = Idle
        /\ vg_setpoint'  = [vg_setpoint  EXCEPT ![a] = counts]
        /\ vg_quiescent' = [vg_quiescent EXCEPT ![a] = PinchOff(counts)]
        /\ cutoff'       = [cutoff       EXCEPT ![a] = PinchOff(counts)]
        /\ UNCHANGED <<regs, mode, grav_mode, counts, pc>>
    BY <1>9 DEF CalStore, Calibrating
  <2>2. counts \in 207 .. 390
    BY <1>0, <2>1 DEF CalProgress
  <2>3. PinchOff(counts) \in counts + 1 .. 1023
    BY <2>2, Pinch
  <2>4. PinchOff(counts) \in Counts /\ PinchOff(counts) \in 0 .. 1024
    BY <2>2, <2>3 DEF Counts
  <2>5. /\ vg_setpoint' \in [Afe -> Counts] /\ vg_quiescent' \in [Afe -> Counts]
        /\ cutoff' \in [Afe -> 0 .. 1024]
    BY <1>0, <2>1, <2>4 DEF TypeOK
  <2>6. pc \in ParkedPcs(a) /\ pc \notin LoopPcs \cup TripPcs \cup UnreadyPcs(a)
        /\ mode[a] = "safe"
    BY <1>0 DEF IInv, ControlInv, ParkedPcs, LoopPcs, TripPcs, UnreadyPcs, Afe
  <2>7. Settled(a)'
    BY <1>0, <2>1, <2>2, <2>6 DEF Settled, ParkedPcs, Parked, CalProgress, Counts
  <2>8. Calibrated(a)'
    <3>1. /\ vg_setpoint'[a] = counts /\ vg_quiescent'[a] = PinchOff(counts)
          /\ cutoff'[a] = PinchOff(counts)
      BY <1>0, <2>1 DEF TypeOK
    <3>. QED
      BY <2>2, <2>3, <3>1 DEF Calibrated
  <2>9. Quiet(a)'
    BY <1>0, <2>1 DEF Quiet, CalProgress, PaOn, GRAV_DAC_PA_EN_TX, GRAV_DAC_PA_EN_RX
  <2>10. \A b \in Afe : b # a =>
           /\ mode'[b] = mode[b] /\ vg_setpoint'[b] = vg_setpoint[b]
           /\ vg_quiescent'[b] = vg_quiescent[b] /\ cutoff'[b] = cutoff[b]
    BY <1>0, <2>1 DEF TypeOK
  <2>. QED
    BY <1>0, <2>1, <2>5, <2>6, <2>7, <2>8, <2>9, <2>10, Returns DEF TypeOK
<1>. QED
  BY <1>1, <1>2, <1>3, <1>4, <1>5, <1>6, <1>7, <1>8, <1>9 DEF Calibrate

\* A step that leaves both channels' registers alone, while the script or the
\* main controller moves on.
LEMMA OthersKeep ==
  ASSUME IInv, NEW b \in Afe, ~InCall(b), ~InCall(b)', pc' = pc,
         regs'[b] = regs[b], UNCHANGED <<mode, vg_setpoint, vg_quiescent, cutoff>>
  PROVE  AfeInv(b)'
<1>1. AfeInv(b)
  BY DEF IInv
<1>2. RadioInv(b)'
  BY <1>1 DEF AfeInv, RadioInv, PaOn, Driven, LnaOn, SwitchAtTx, Hot, TxLnaOn
<1>3. Settled(b)'
  <2>1. (Configured(b, mode[b])' <=> Configured(b, mode[b])) /\ (Parked(b)' <=> Parked(b))
    BY DEF Configured, Parked
  <2>. QED
    BY <1>1, <2>1 DEF AfeInv, Settled
<1>4. call.fn = "none" => call = Idle
  BY DEF IInv, ControlInv
<1>5. Calibrated(b)' /\ Quiet(b)'
  BY <1>1, <1>4 DEF AfeInv, Calibrated, Quiet, InCall, PaOn, Driven, Idle
<1>6. RxProgress(b)' /\ TxProgress(b)' /\ SafeProgress(b)' /\ CalProgress(b)'
  BY DEF RxProgress, TxProgress, SafeProgress, CalProgress, InCall
<1>. QED
  BY <1>2, <1>3, <1>5, <1>6 DEF AfeInv

\* A step of a function of the main controller.
LEMMA MainStep ==
  ASSUME IInv, configure_grav_safe \/ configure_grav_on_with_tx_off
               \/ configure_grav_on_with_tx_on
  PROVE  IInv'
<1>0. TypeOK /\ ControlInv /\ call.chip = "main" /\ call.fn \in {"grav_safe", "tx_off", "tx_on"}
  BY DEF IInv, ControlInv, configure_grav_safe, configure_grav_on_with_tx_off,
         configure_grav_on_with_tx_on
<1>1. ASSUME UNCHANGED <<mode, pc, memory>>, regs' \in [Chip -> RegFile],
             \A b \in Afe : regs'[b] = regs[b],
             grav_mode' \in {"safe", "tx_off", "tx_on"},
             \/ call' = Idle
             \/ \E k \in 1 .. 8 : call' = [call EXCEPT !.at = k]
      PROVE  IInv'
  <2>1. \/ call' = Idle
        \/ call'.fn = call.fn /\ call'.chip = call.chip
           /\ call' \in [fn : Fns, chip : Chip, at : 1 .. 8, gain : 0 .. 63]
    BY <1>0, <1>1 DEF TypeOK
  <2>2. TypeOK'
    BY <1>0, <1>1, <2>1 DEF TypeOK, memory, Idle, Fns, Chip
  <2>3. ControlInv'
    BY <1>0, <1>1, <2>1 DEF ControlInv, Idle
  <2>4. ASSUME NEW b \in Afe PROVE AfeInv(b)'
    <3>1. ~InCall(b) /\ ~InCall(b)'
      BY <1>0, <2>1 DEF InCall, Idle, Afe
    <3>. QED
      BY <1>1, <3>1, OthersKeep DEF memory
  <2>. QED
    BY <2>2, <2>3, <2>4 DEF IInv
<1>2. ASSUME NEW k \in 1 .. 2, NEW reg, NEW val, Writes(k, reg, val), Fits(reg, val)
      PROVE  IInv'
  <2>1. regs' \in [Chip -> RegFile] /\ \A b \in Afe : regs'[b] = regs[b]
    BY <1>0, <1>2, WriteTypes DEF Writes, TypeOK, Chip, Afe
  <2>. QED
    BY <1>0, <1>1, <1>2, <2>1 DEF Writes, TypeOK
<1>3. ASSUME NEW m \in {"safe", "tx_off", "tx_on"}, NEW k, ReturnGrav(k, m) PROVE IInv'
  BY <1>0, <1>1, <1>3 DEF ReturnGrav, TypeOK, Chip
<1>4. Fits("gpio", GRAV_MAIN_DEFAULTS) /\ Fits("gpio", GRAV_MAIN_POWER_ON_TX_OFF)
      /\ Fits("gpio", GRAV_MAIN_POWER_ON_TX_ON) /\ Fits("dir", "out")
  BY GpioTypes DEF Fits
<1>5. CASE configure_grav_safe
  <2>1. CASE Stmt(1, TRUE, "gpio", GRAV_MAIN_DEFAULTS)
    <3>1. Writes(1, "gpio", GRAV_MAIN_DEFAULTS)
      BY <2>1 DEF Stmt, Writes
    <3>. QED
      BY <1>2, <1>4, <3>1
  <2>2. CASE Stmt(2, TRUE, "dir", "out")
    <3>1. Writes(2, "dir", "out")
      BY <2>2 DEF Stmt, Writes
    <3>. QED
      BY <1>2, <1>4, <3>1
  <2>. QED
    BY <1>3, <1>5, <2>1, <2>2 DEF configure_grav_safe
<1>6. CASE configure_grav_on_with_tx_off
  <2>1. CASE Stmt(1, grav_mode # "tx_off", "gpio", GRAV_MAIN_POWER_ON_TX_OFF)
    <3>1. Writes(1, "gpio", GRAV_MAIN_POWER_ON_TX_OFF)
      BY <2>1 DEF Stmt, Writes
    <3>. QED
      BY <1>2, <1>4, <3>1
  <2>. QED
    BY <1>3, <1>6, <2>1 DEF configure_grav_on_with_tx_off
<1>7. CASE configure_grav_on_with_tx_on
  <2>1. CASE Stmt(1, grav_mode # "tx_on", "gpio", GRAV_MAIN_POWER_ON_TX_ON)
    <3>1. Writes(1, "gpio", GRAV_MAIN_POWER_ON_TX_ON)
      BY <2>1 DEF Stmt, Writes
    <3>. QED
      BY <1>2, <1>4, <3>1
  <2>. QED
    BY <1>3, <1>7, <2>1 DEF configure_grav_on_with_tx_on
<1>. QED
  BY <1>5, <1>6, <1>7

\* AMC7891::init: whatever the chip was, its outputs are off afterwards.
LEMMA InitStep == ASSUME IInv, amc_init PROVE IInv'
<1>0. /\ TypeOK /\ ControlInv /\ call.fn = "init" /\ call.chip \in Chip
      /\ pc \notin LoopPcs \cup TripPcs
      /\ \A b \in Afe : pc \in UnreadyPcs(b)
  BY DEF IInv, ControlInv, TypeOK, amc_init, LoopPcs, TripPcs, UnreadyPcs
<1>1. PICK c \in Chip : c = call.chip
  BY <1>0
<1>2. /\ \/ call' = Idle
         \/ call' = [call EXCEPT !.at = 2]
      /\ regs' = [regs EXCEPT ![c] = Cleared] \/ regs' = [regs EXCEPT ![c].power = "adc"]
      /\ UNCHANGED <<mode, grav_mode, pc, memory>>
  BY <1>1 DEF amc_init
<1>3. \/ call' = Idle
      \/ call'.fn = call.fn /\ call'.chip = call.chip
         /\ call' \in [fn : Fns, chip : Chip, at : 1 .. 8, gain : 0 .. 63]
  BY <1>0, <1>2 DEF TypeOK
<1>4. regs' \in [Chip -> RegFile] /\ \A d \in Chip : d # c => regs'[d] = regs[d]
  <2>1. CASE regs' = [regs EXCEPT ![c] = Cleared]
    <3>1. Cleared \in RegFile
      BY DEF RegFile, Cleared, Codes
    <3>. QED
      BY <1>0, <2>1, <3>1 DEF TypeOK
  <2>2. CASE regs' = [regs EXCEPT ![c]["power"] = "adc"]
    <3>1. Fits("power", "adc")
      BY DEF Fits
    <3>. QED
      BY <1>0, <2>2, <3>1, WriteTypes DEF TypeOK
  <2>. QED
    BY <1>2, <2>1, <2>2
<1>5. TypeOK'
  BY <1>0, <1>2, <1>3, <1>4 DEF TypeOK, memory, Idle, Fns, Chip
<1>6. ControlInv'
  BY <1>0, <1>2, <1>3 DEF ControlInv, Idle
<1>7. ASSUME NEW b \in Afe PROVE AfeInv(b)'
  <2>1. CASE b # c
    <3>1. ~InCall(b) /\ ~InCall(b)' /\ regs'[b] = regs[b]
      BY <1>0, <1>1, <1>3, <1>4, <2>1 DEF InCall, Idle, Afe, Chip
    <3>. QED
      BY <1>2, <3>1, OthersKeep DEF memory
  <2>2. CASE b = c
    <3>1. regs[b] \in RegFile /\ RadioInv(b) /\ b \in Chip /\ regs \in [Chip -> RegFile]
      BY <1>0 DEF IInv, AfeInv, TypeOK, Chip
    <3>2. \/ regs'[b] = Cleared
          \/ regs'[b] = [regs[b] EXCEPT !.power = "adc"]
      BY <1>2, <2>2, <3>1
    <3>3. ~Driven(b)' /\ (regs'[b].dir = "out" => regs'[b].gpio # Unset)
      BY <3>1, <3>2 DEF Driven, RadioInv, Cleared, RegFile
    <3>4. RadioInv(b)' /\ Quiet(b)'
      BY <3>3 DEF RadioInv, Quiet, Hot, PaOn, TxLnaOn, SwitchAtTx, Driven
    <3>5. Settled(b)' /\ Calibrated(b)'
      BY <1>0, <1>2 DEF Settled, Calibrated, CalibratedPcs, UnreadyPcs, TripPcs, LoopPcs
    <3>6. RxProgress(b)' /\ TxProgress(b)' /\ SafeProgress(b)' /\ CalProgress(b)'
      BY <1>0, <1>3 DEF RxProgress, TxProgress, SafeProgress, CalProgress, Idle
    <3>. QED
      BY <3>4, <3>5, <3>6 DEF AfeInv
  <2>. QED
    BY <2>1, <2>2
<1>. QED
  BY <1>5, <1>6, <1>7 DEF IInv

\* A step of the script from `here' to `next' that begins function fn on chip,
\* or none, is legal when what the invariant knows of the channels carries over.
Edge(b, here, fn, chip, next) ==
  LET on == fn # "none" /\ chip = b
  IN  /\ ~on /\ next \notin UnreadyPcs(b) =>
           here \notin UnreadyPcs(b) /\ (next \in ParkedPcs(b) <=> here \in ParkedPcs(b))
      /\ next \in CalibratedPcs(b) /\ ~(on /\ fn = "cal") => here \in CalibratedPcs(b)
      /\ ~on /\ next \in QuietPcs(b) => here \in QuietPcs(b)
      /\ on /\ fn \in {"rx", "tx", "cal"} => here \notin UnreadyPcs(b) \cup ParkedPcs(b)
      /\ on /\ fn = "cal" => here \notin LoopPcs \cup TripPcs

Legal(here, fn, chip, next) ==
  /\ fn \in Fns /\ chip \in Chip /\ next \in Pcs
  /\ fn = "none" => chip = "main"
  /\ fn \in {"grav_safe", "tx_off", "tx_on"} => chip = "main"
  /\ fn \in {"rx", "tx"} => chip \in Afe /\ next = "grav"
  /\ fn = "init" => \/ chip = "a" /\ next = "init_b"
                    \/ chip = "b" /\ next = "init_main"
                    \/ chip = "main" /\ next = "main_safe"
  /\ fn = "safe" =>
       \/ chip = "a" /\ next \in {"safe_b", "resafe_b", "cmd_safe_b", "grav", "trip_b"}
       \/ chip = "b" /\ next \in {"bus", "loop", "grav", "trip_osc"}
  /\ fn = "cal" => \/ chip = "a" /\ next = "cal_b"
                   \/ chip = "b" /\ next = "resafe_a"
  /\ fn = "grav_safe" => next \in {"safe_a", "trip_reset"}
  /\ fn = "tx_on" => next = "check"
  /\ fn = "tx_off" => next \in {"cal_a", "check"}
  /\ next \in {"reset", "halted"} => fn = "none"
  /\ here \in LoopPcs \cup TripPcs => next \in LoopPcs \cup TripPcs
  /\ \A b \in Afe : Edge(b, here, fn, chip, next)

\* A legal step of the script keeps the invariant.
LEMMA ScriptStep ==
  ASSUME IInv, NEW here, NEW fn, NEW chip, NEW next, NEW gain \in 0 .. 63,
         Legal(here, fn, chip, next), fn = "none" => gain = 0,
         call = Idle, pc = here, pc' = next,
         call' = [fn |-> fn, chip |-> chip, at |-> 1, gain |-> gain],
         UNCHANGED <<regs, mode, grav_mode, vg_setpoint, vg_quiescent, counts, cutoff>>
  PROVE  IInv'
<1>0. TypeOK /\ ControlInv /\ call'.fn = fn /\ call'.chip = chip /\ call'.at = 1
  BY DEF IInv
<1>1. TypeOK'
  <2>1. call' \in [fn : Fns, chip : Chip, at : 1 .. 8, gain : 0 .. 63]
    BY DEF Legal
  <2>. QED
    BY <1>0, <2>1 DEF TypeOK, Legal
<1>2. ControlInv'
  BY <1>0 DEF ControlInv, Legal, Idle
<1>3. ASSUME NEW b \in Afe PROVE AfeInv(b)'
  <2>1. AfeInv(b) /\ Edge(b, here, fn, chip, next) /\ ~InCall(b)
    BY DEF IInv, Legal, InCall, Idle
  <2>2. RadioInv(b)'
    BY <2>1 DEF AfeInv, RadioInv, PaOn, Driven, LnaOn, SwitchAtTx, Hot, TxLnaOn
  <2>3. (Configured(b, mode[b])' <=> Configured(b, mode[b])) /\ (Parked(b)' <=> Parked(b))
    BY DEF Configured, Parked
  <2>4. InCall(b)' <=> fn # "none" /\ chip = b
    BY <1>0 DEF InCall
  <2>5. Settled(b)'
    BY <2>1, <2>3, <2>4 DEF AfeInv, Settled, Edge
  <2>6. Calibrated(b)'
    BY <1>0, <2>1 DEF AfeInv, Calibrated, Edge, Idle
  <2>7. Quiet(b)'
    BY <2>1, <2>4 DEF AfeInv, Quiet, Edge, PaOn, Driven
  <2>8. SafeProgress(b)'
    BY <1>0 DEF SafeProgress
  <2>9. CASE fn \in {"rx", "tx", "cal"} /\ chip = b
    <3>1. Configured(b, mode[b])
      BY <2>1, <2>9 DEF AfeInv, Settled, Edge
    <3>2. RxProgress(b)'
      <4>1. CASE mode[b] = "safe"
        BY <1>0, <3>1, <4>1 DEF RxProgress, Configured
      <4>2. CASE mode[b] = "rx"
        BY <1>0, <3>1, <4>2 DEF RxProgress, Configured
      <4>3. CASE mode[b] = "tx"
        BY <1>0, <3>1, <4>3 DEF RxProgress, Configured
      <4>. QED
        BY <1>0, <4>1, <4>2, <4>3 DEF TypeOK
    <3>3. TxProgress(b)'
      <4>1. CASE mode[b] = "safe"
        BY <1>0, <3>1, <4>1 DEF TxProgress, Configured
      <4>2. CASE mode[b] = "rx"
        BY <1>0, <3>1, <4>2 DEF TxProgress, Configured
      <4>3. CASE mode[b] = "tx"
        BY <1>0, <3>1, <4>3 DEF TxProgress, Configured
      <4>. QED
        BY <1>0, <4>1, <4>2, <4>3 DEF TypeOK
    <3>4. CalProgress(b)'
      <4>1. CASE fn = "cal"
        <5>1. mode[b] = "safe"
          BY <1>0, <2>1, <2>9, <4>1 DEF Edge, ControlInv
        <5>2. Configured(b, "safe")
          BY <3>1, <5>1
        <5>. QED
          BY <1>0, <5>2 DEF CalProgress, Configured
      <4>2. CASE fn # "cal"
        BY <1>0, <4>2 DEF CalProgress
      <4>. QED
        BY <4>1, <4>2
    <3>. QED
      BY <2>2, <2>5, <2>6, <2>7, <2>8, <3>2, <3>3, <3>4 DEF AfeInv
  <2>10. CASE ~(fn \in {"rx", "tx", "cal"} /\ chip = b)
    <3>1. RxProgress(b)' /\ TxProgress(b)' /\ CalProgress(b)'
      BY <1>0, <2>10 DEF RxProgress, TxProgress, CalProgress
    <3>. QED
      BY <2>2, <2>5, <2>6, <2>7, <2>8, <3>1 DEF AfeInv
  <2>. QED
    BY <2>9, <2>10
<1>. QED
  BY <1>1, <1>2, <1>3 DEF IInv

\* One that begins a function.
LEMMA CallsStep ==
  ASSUME IInv, NEW here, NEW fn, NEW chip, NEW next,
         Calls(here, fn, chip, next), Legal(here, fn, chip, next)
  PROVE  IInv'
<1>1. /\ call = Idle /\ pc = here /\ pc' = next
      /\ call' = [fn |-> fn, chip |-> chip, at |-> 1, gain |-> 0]
      /\ UNCHANGED <<regs, mode, grav_mode, memory>>
  BY DEF Calls
<1>2. 0 \in 0 .. 63
  OBVIOUS
<1>. QED
  BY <1>1, <1>2, ScriptStep DEF memory

\* One that begins none.
LEMMA PassesStep ==
  ASSUME IInv, NEW here, NEW next, Passes(here, next), Legal(here, "none", "main", next)
  PROVE  IInv'
<1>1. TypeOK
  BY DEF IInv
<1>. QED
  BY <1>1, ScriptStep DEF Passes, memory, TypeOK, Idle

\* init().
LEMMA BootStep == ASSUME IInv, Boot PROVE IInv' \/ UNCHANGED vars
<1>1. CASE BootOscillator
  <2>1. Legal("reset", "none", "main", "init_a")
    BY DEF Legal, Edge, Fns, Pcs, Chip, Afe,
            UnreadyPcs, ParkedPcs, CalibratedPcs, QuietPcs, LoopPcs, TripPcs
  <2>. QED
    BY <1>1, <2>1, PassesStep DEF BootOscillator
<1>2. CASE BootOscillatorFails
  <2>1. Legal("reset", "none", "main", "halted")
    BY DEF Legal, Edge, Fns, Pcs, Chip, Afe,
            UnreadyPcs, ParkedPcs, CalibratedPcs, QuietPcs, LoopPcs, TripPcs
  <2>2. /\ call = Idle /\ pc = "reset" /\ pc' = "halted"
        /\ call' = [fn |-> "none", chip |-> "main", at |-> 1, gain |-> 0]
        /\ UNCHANGED <<regs, mode, grav_mode, vg_setpoint, vg_quiescent, counts, cutoff>>
        /\ 0 \in 0 .. 63
    BY <1>2 DEF BootOscillatorFails, IInv, ControlInv, Idle
  <2>. QED
    BY <2>1, <2>2, ScriptStep
<1>3. CASE BusPowered
  <2>1. Legal("bus", "none", "main", "cal_a")
    BY DEF Legal, Edge, Fns, Pcs, Chip, Afe,
            UnreadyPcs, ParkedPcs, CalibratedPcs, QuietPcs, LoopPcs, TripPcs
  <2>2. /\ call = Idle /\ pc = "bus" /\ pc' = "cal_a"
        /\ call' = [fn |-> "none", chip |-> "main", at |-> 1, gain |-> 0]
        /\ UNCHANGED <<regs, mode, grav_mode, vg_setpoint, vg_quiescent, counts, cutoff>>
        /\ 0 \in 0 .. 63
    BY <1>3 DEF BusPowered, IInv, ControlInv, Idle
  <2>. QED
    BY <2>1, <2>2, ScriptStep
<1>4. CASE BusUnpowered
  <2>1. Legal("bus", "tx_off", "main", "cal_a")
    BY DEF Legal, Edge, Fns, Pcs, Chip, Afe,
            UnreadyPcs, ParkedPcs, CalibratedPcs, QuietPcs, LoopPcs, TripPcs
  <2>. QED
    BY <1>4, <2>1, CallsStep DEF BusUnpowered
<1>5. CASE Calls("init_a", "init", "a", "init_b")
  <2>1. Legal("init_a", "init", "a", "init_b")
    BY DEF Legal, Edge, Fns, Pcs, Chip, Afe,
            UnreadyPcs, ParkedPcs, CalibratedPcs, QuietPcs, LoopPcs, TripPcs
  <2>. QED
    BY <1>5, <2>1, CallsStep
<1>6. CASE Calls("init_b", "init", "b", "init_main")
  <2>1. Legal("init_b", "init", "b", "init_main")
    BY DEF Legal, Edge, Fns, Pcs, Chip, Afe,
            UnreadyPcs, ParkedPcs, CalibratedPcs, QuietPcs, LoopPcs, TripPcs
  <2>. QED
    BY <1>6, <2>1, CallsStep
<1>7. CASE Calls("init_main", "init", "main", "main_safe")
  <2>1. Legal("init_main", "init", "main", "main_safe")
    BY DEF Legal, Edge, Fns, Pcs, Chip, Afe,
            UnreadyPcs, ParkedPcs, CalibratedPcs, QuietPcs, LoopPcs, TripPcs
  <2>. QED
    BY <1>7, <2>1, CallsStep
<1>8. CASE Calls("main_safe", "grav_safe", "main", "safe_a")
  <2>1. Legal("main_safe", "grav_safe", "main", "safe_a")
    BY DEF Legal, Edge, Fns, Pcs, Chip, Afe,
            UnreadyPcs, ParkedPcs, CalibratedPcs, QuietPcs, LoopPcs, TripPcs
  <2>. QED
    BY <1>8, <2>1, CallsStep
<1>9. CASE Calls("safe_a", "safe", "a", "safe_b")
  <2>1. Legal("safe_a", "safe", "a", "safe_b")
    BY DEF Legal, Edge, Fns, Pcs, Chip, Afe,
            UnreadyPcs, ParkedPcs, CalibratedPcs, QuietPcs, LoopPcs, TripPcs
  <2>. QED
    BY <1>9, <2>1, CallsStep
<1>10. CASE Calls("safe_b", "safe", "b", "bus")
  <2>1. Legal("safe_b", "safe", "b", "bus")
    BY DEF Legal, Edge, Fns, Pcs, Chip, Afe,
            UnreadyPcs, ParkedPcs, CalibratedPcs, QuietPcs, LoopPcs, TripPcs
  <2>. QED
    BY <1>10, <2>1, CallsStep
<1>11. CASE Calls("cal_a", "cal", "a", "cal_b")
  <2>1. Legal("cal_a", "cal", "a", "cal_b")
    BY DEF Legal, Edge, Fns, Pcs, Chip, Afe,
            UnreadyPcs, ParkedPcs, CalibratedPcs, QuietPcs, LoopPcs, TripPcs
  <2>. QED
    BY <1>11, <2>1, CallsStep
<1>12. CASE Calls("cal_b", "cal", "b", "resafe_a")
  <2>1. Legal("cal_b", "cal", "b", "resafe_a")
    BY DEF Legal, Edge, Fns, Pcs, Chip, Afe,
            UnreadyPcs, ParkedPcs, CalibratedPcs, QuietPcs, LoopPcs, TripPcs
  <2>. QED
    BY <1>12, <2>1, CallsStep
<1>13. CASE Calls("resafe_a", "safe", "a", "resafe_b")
  <2>1. Legal("resafe_a", "safe", "a", "resafe_b")
    BY DEF Legal, Edge, Fns, Pcs, Chip, Afe,
            UnreadyPcs, ParkedPcs, CalibratedPcs, QuietPcs, LoopPcs, TripPcs
  <2>. QED
    BY <1>13, <2>1, CallsStep
<1>14. CASE Calls("resafe_b", "safe", "b", "loop")
  <2>1. Legal("resafe_b", "safe", "b", "loop")
    BY DEF Legal, Edge, Fns, Pcs, Chip, Afe,
            UnreadyPcs, ParkedPcs, CalibratedPcs, QuietPcs, LoopPcs, TripPcs
  <2>. QED
    BY <1>14, <2>1, CallsStep
<1>. QED
  BY <1>1, <1>2, <1>3, <1>4, <1>5, <1>6, <1>7, <1>8, <1>9, <1>10, <1>11, <1>12,
     <1>13, <1>14 DEF Boot, Halted

\* go_safe_and_reset().
LEMMA TripStep == ASSUME IInv, Trip, ~SystemReset PROVE IInv'
<1>1. CASE Calls("trip_a", "safe", "a", "trip_b")
  <2>1. Legal("trip_a", "safe", "a", "trip_b")
    BY DEF Legal, Edge, Fns, Pcs, Chip, Afe,
            UnreadyPcs, ParkedPcs, CalibratedPcs, QuietPcs, LoopPcs, TripPcs
  <2>. QED
    BY <1>1, <2>1, CallsStep
<1>2. CASE Calls("trip_b", "safe", "b", "trip_osc")
  <2>1. Legal("trip_b", "safe", "b", "trip_osc")
    BY DEF Legal, Edge, Fns, Pcs, Chip, Afe,
            UnreadyPcs, ParkedPcs, CalibratedPcs, QuietPcs, LoopPcs, TripPcs
  <2>. QED
    BY <1>2, <2>1, CallsStep
<1>3. CASE Calls("trip_main", "grav_safe", "main", "trip_reset")
  <2>1. Legal("trip_main", "grav_safe", "main", "trip_reset")
    BY DEF Legal, Edge, Fns, Pcs, Chip, Afe,
            UnreadyPcs, ParkedPcs, CalibratedPcs, QuietPcs, LoopPcs, TripPcs
  <2>. QED
    BY <1>3, <2>1, CallsStep
<1>4. CASE Passes("trip_osc", "trip_main")
  <2>1. Legal("trip_osc", "none", "main", "trip_main")
    BY DEF Legal, Edge, Fns, Pcs, Chip, Afe,
            UnreadyPcs, ParkedPcs, CalibratedPcs, QuietPcs, LoopPcs, TripPcs
  <2>. QED
    BY <1>4, <2>1, PassesStep
<1>. QED
  BY <1>1, <1>2, <1>3, <1>4 DEF Trip

\* changeState().
LEMMA CommandStep == ASSUME IInv, NEW msg \in Msgs, Command(msg) PROVE IInv'
<1>1. /\ call = Idle /\ pc = "loop" /\ UNCHANGED <<regs, mode, grav_mode, memory>>
      /\ changeState(msg)
  BY DEF Command, memory, IInv, TypeOK
<1>2. AfeOf(msg) \in Afe /\ OpCode(msg) \in 0 .. 63 /\ 0 \in 0 .. 63
  <2>1. msg \in 0 .. 255
    BY ConstantsAssumption
  <2>. QED
    BY <2>1 DEF AfeOf, OpCode, Afe
<1>3. ASSUME NEW fn \in {"rx", "tx", "safe"}, NEW chip \in Afe, NEW gain \in 0 .. 63,
             call' = [fn |-> fn, chip |-> chip, at |-> 1, gain |-> gain], pc' = "grav"
      PROVE  IInv'
  <2>1. Legal("loop", fn, chip, "grav")
    BY DEF Legal, Edge, Fns, Pcs, Chip, Afe,
            UnreadyPcs, ParkedPcs, CalibratedPcs, QuietPcs, LoopPcs, TripPcs
  <2>. QED
    BY <1>1, <1>3, <2>1, ScriptStep DEF memory
<1>4. CASE IsRx(msg)
  <2>1. call' = [fn |-> "rx", chip |-> AfeOf(msg), at |-> 1, gain |-> OpCode(msg)] /\ pc' = "grav"
    BY <1>1, <1>4 DEF changeState
  <2>. QED
    BY <1>2, <1>3, <2>1
<1>5. CASE ~IsRx(msg) /\ OpCode(msg) = 3
  <2>1. call' = [fn |-> "tx", chip |-> AfeOf(msg), at |-> 1, gain |-> 0] /\ pc' = "grav"
    BY <1>1, <1>5 DEF changeState
  <2>. QED
    BY <1>2, <1>3, <2>1
<1>6. CASE ~IsRx(msg) /\ OpCode(msg) = 22
  <2>1. call' = [fn |-> "safe", chip |-> AfeOf(msg), at |-> 1, gain |-> 0] /\ pc' = "grav"
    BY <1>1, <1>6 DEF changeState
  <2>. QED
    BY <1>2, <1>3, <2>1
<1>7. CASE ~IsRx(msg) /\ OpCode(msg) = 0
  <2>1. call' = [fn |-> "safe", chip |-> "a", at |-> 1, gain |-> 0] /\ pc' = "cmd_safe_b"
    BY <1>1, <1>7 DEF changeState
  <2>2. Legal("loop", "safe", "a", "cmd_safe_b")
    BY DEF Legal, Edge, Fns, Pcs, Chip, Afe,
            UnreadyPcs, ParkedPcs, CalibratedPcs, QuietPcs, LoopPcs, TripPcs
  <2>. QED
    BY <1>1, <1>2, <2>1, <2>2, ScriptStep DEF memory
<1>8. CASE ~IsRx(msg) /\ OpCode(msg) \notin {0, 3, 22}
  <2>1. call' = [fn |-> "none", chip |-> "main", at |-> 1, gain |-> 0] /\ pc' = "grav"
    BY <1>1, <1>8 DEF changeState, Idle
  <2>2. Legal("loop", "none", "main", "grav")
    BY DEF Legal, Edge, Fns, Pcs, Chip, Afe,
            UnreadyPcs, ParkedPcs, CalibratedPcs, QuietPcs, LoopPcs, TripPcs
  <2>. QED
    BY <1>1, <1>2, <2>1, <2>2, ScriptStep DEF memory
<1>. QED
  BY <1>4, <1>5, <1>6, <1>7, <1>8

\* main()'s loop.
LEMMA LoopStep == ASSUME IInv, MainLoop PROVE IInv'
<1>1. CASE \E msg \in Msgs : Command(msg)
  BY <1>1, CommandStep
<1>2. CASE NoCommand
  <2>1. Legal("loop", "none", "main", "check")
    BY DEF Legal, Edge, Fns, Pcs, Chip, Afe,
            UnreadyPcs, ParkedPcs, CalibratedPcs, QuietPcs, LoopPcs, TripPcs
  <2>. QED
    BY <1>2, <2>1, PassesStep DEF NoCommand
<1>3. CASE SafetyPass
  <2>1. Legal("check", "none", "main", "loop")
    BY DEF Legal, Edge, Fns, Pcs, Chip, Afe,
            UnreadyPcs, ParkedPcs, CalibratedPcs, QuietPcs, LoopPcs, TripPcs
  <2>. QED
    BY <1>3, <2>1, PassesStep DEF SafetyPass
<1>4. CASE SafetyTrip
  <2>1. Legal("check", "none", "main", "trip_a")
    BY DEF Legal, Edge, Fns, Pcs, Chip, Afe,
            UnreadyPcs, ParkedPcs, CalibratedPcs, QuietPcs, LoopPcs, TripPcs
  <2>. QED
    BY <1>4, <2>1, PassesStep DEF SafetyTrip
<1>5. CASE Calls("cmd_safe_b", "safe", "b", "grav")
  <2>1. Legal("cmd_safe_b", "safe", "b", "grav")
    BY DEF Legal, Edge, Fns, Pcs, Chip, Afe,
            UnreadyPcs, ParkedPcs, CalibratedPcs, QuietPcs, LoopPcs, TripPcs
  <2>. QED
    BY <1>5, <2>1, CallsStep
<1>6. CASE GravUpdate
  <2>1. Legal("grav", "tx_on", "main", "check") /\ Legal("grav", "tx_off", "main", "check")
    BY DEF Legal, Edge, Fns, Pcs, Chip, Afe,
            UnreadyPcs, ParkedPcs, CalibratedPcs, QuietPcs, LoopPcs, TripPcs
  <2>2. \/ Calls("grav", "tx_on", "main", "check")
        \/ Calls("grav", "tx_off", "main", "check")
    BY <1>6 DEF GravUpdate, Calls
  <2>. QED
    BY <2>1, <2>2, CallsStep
<1>. QED
  BY <1>1, <1>2, <1>3, <1>4, <1>5, <1>6 DEF MainLoop


\* The resets: of the processor, and of everything.
LEMMA RestartStep ==
  ASSUME IInv, Restart, regs' = regs \/ regs' = [c \in Chip |-> Cleared],
         ExternalReset \/ (call = Idle /\ pc = "trip_reset" /\ regs' = regs)
  PROVE  IInv'
<1>1. /\ mode' = [a \in Afe |-> "safe"] /\ vg_setpoint' = [a \in Afe |-> 0]
      /\ vg_quiescent' = [a \in Afe |-> 0] /\ grav_mode' = "safe" /\ counts' = 0
      /\ pc' = "reset" /\ call' = Idle /\ cutoff' = cutoff
  BY DEF Restart
<1>2. TypeOK'
  <2>1. Cleared \in RegFile /\ 0 \in Counts /\ "reset" \in Pcs
        /\ Idle \in [fn : Fns, chip : Chip, at : 1 .. 8, gain : 0 .. 63]
    BY DEF RegFile, Cleared, Codes, Counts, Pcs, Idle, Fns, Chip
  <2>2. regs' \in [Chip -> RegFile]
    BY <2>1 DEF IInv, TypeOK
  <2>. QED
    BY <1>1, <2>1, <2>2 DEF IInv, TypeOK
<1>3. ControlInv'
  BY <1>1 DEF ControlInv, Idle
<1>4. ASSUME NEW b \in Afe PROVE AfeInv(b)'
  <2>1. RadioInv(b)'
    <3>1. CASE regs' = regs
      BY <1>1, <3>1 DEF IInv, AfeInv, RadioInv, PaOn, Hot, LnaOn, SwitchAtTx, TxLnaOn, Driven
    <3>2. CASE regs' = [c \in Chip |-> Cleared]
      <4>1. regs'[b].power = "off" /\ regs'[b].dir = "in"
        BY <3>2 DEF Cleared, Chip
      <4>. QED
        BY <4>1 DEF RadioInv, PaOn, Hot, LnaOn, SwitchAtTx, TxLnaOn, Driven
    <3>. QED
      BY <3>1, <3>2
  <2>2. Settled(b)' /\ Calibrated(b)'
    BY <1>1 DEF Settled, UnreadyPcs, Calibrated, CalibratedPcs, LoopPcs
  <2>3. Quiet(b)'
    <3>1. CASE ExternalReset
      BY <3>1 DEF Quiet
    <3>2. CASE call = Idle /\ pc = "trip_reset" /\ regs' = regs
      BY <3>2 DEF IInv, AfeInv, Quiet, QuietPcs, InCall, Idle, PaOn, Driven
    <3>. QED
      BY <3>1, <3>2
  <2>4. RxProgress(b)' /\ TxProgress(b)' /\ SafeProgress(b)' /\ CalProgress(b)'
    BY <1>1 DEF RxProgress, TxProgress, SafeProgress, CalProgress, Idle
  <2>. QED
    BY <2>1, <2>2, <2>3, <2>4 DEF AfeInv
<1>. QED
  BY <1>2, <1>3, <1>4 DEF IInv

-----------------------------------------------------------------------------
(* The invariant and what follows from it.                                 *)

\* The initial state.
LEMMA InitIInv == Init => IInv
<1>. SUFFICES ASSUME Init PROVE IInv
  OBVIOUS
<1>1. TypeOK
  <2>1. Cleared \in RegFile /\ 0 \in Counts /\ "reset" \in Pcs /\ 1024 \in 0 .. 1024
        /\ Idle \in [fn : Fns, chip : Chip, at : 1 .. 8, gain : 0 .. 63]
    BY DEF RegFile, Cleared, Codes, Counts, Pcs, Idle, Fns, Chip
  <2>. QED
    BY <2>1 DEF Init, TypeOK
<1>2. ControlInv
  BY DEF Init, ControlInv, Idle
<1>3. ASSUME NEW b \in Afe PROVE AfeInv(b)
  <2>1. regs[b].power = "off" /\ regs[b].dir = "in"
    BY DEF Init, Cleared, Chip
  <2>2. RadioInv(b) /\ Quiet(b)
    BY <2>1 DEF RadioInv, Quiet, PaOn, Hot, LnaOn, SwitchAtTx, TxLnaOn, Driven
  <2>3. Settled(b) /\ Calibrated(b)
    BY DEF Init, Settled, UnreadyPcs, Calibrated, CalibratedPcs, LoopPcs
  <2>4. RxProgress(b) /\ TxProgress(b) /\ SafeProgress(b) /\ CalProgress(b)
    BY DEF Init, RxProgress, TxProgress, SafeProgress, CalProgress, Idle
  <2>. QED
    BY <2>2, <2>3, <2>4 DEF AfeInv
<1>. QED
  BY <1>1, <1>2, <1>3 DEF IInv

\* The functions.
LEMMA FunctionStep == ASSUME IInv, Function PROVE IInv'
<1>1. call.fn \in {"rx", "tx", "safe"} => call.chip \in Afe
  BY DEF IInv, ControlInv, Afe
<1>2. CASE switch_to_rx
  <2>1. PICK a \in Afe : call.chip = a
    BY <1>1, <1>2 DEF switch_to_rx
  <2>. QED
    BY <1>2, <2>1, RxStep
<1>3. CASE switch_to_tx
  <2>1. PICK a \in Afe : call.chip = a
    BY <1>1, <1>3 DEF switch_to_tx
  <2>. QED
    BY <1>3, <2>1, TxStep
<1>4. CASE switch_to_safe
  <2>1. PICK a \in Afe : call.chip = a
    BY <1>1, <1>4 DEF switch_to_safe
  <2>. QED
    BY <1>4, <2>1, SafeStep
<1>. QED
  BY <1>2, <1>3, <1>4, InitStep, MainStep DEF Function

\* Every step.
LEMMA NextIInv == IInv /\ [Next]_vars => IInv'
<1>. SUFFICES ASSUME IInv, [Next]_vars PROVE IInv'
  OBVIOUS
<1>1. CASE UNCHANGED vars
  <2>1. TypeOK' /\ ControlInv'
    BY <1>1 DEF vars, IInv, TypeOK, ControlInv
  <2>2. ASSUME NEW b \in Afe PROVE AfeInv(b)'
    <3>1. AfeInv(b)
      BY DEF IInv
    <3>2. RadioInv(b)'
      BY <1>1, <3>1 DEF vars, AfeInv, RadioInv, PaOn, Hot, LnaOn, SwitchAtTx, TxLnaOn, Driven
    <3>3. (Configured(b, mode[b])' <=> Configured(b, mode[b])) /\ (Parked(b)' <=> Parked(b))
      BY <1>1 DEF vars, Configured, Parked
    <3>4. Settled(b)' /\ Calibrated(b)' /\ Quiet(b)'
      BY <1>1, <3>1, <3>3 DEF vars, AfeInv, Settled, InCall, Calibrated, Quiet, PaOn, Driven
    <3>5. RxProgress(b)' /\ TxProgress(b)' /\ SafeProgress(b)' /\ CalProgress(b)'
      BY <1>1, <3>1 DEF vars, AfeInv, RxProgress, TxProgress, SafeProgress, CalProgress
    <3>. QED
      BY <3>2, <3>4, <3>5 DEF AfeInv
  <2>. QED
    BY <2>1, <2>2 DEF IInv
<1>2. CASE Function
  BY <1>2, FunctionStep
<1>3. CASE Calibrate
  <2>1. call.chip \in Afe
    BY <1>3 DEF IInv, ControlInv, Afe, Calibrate, Calibrating, CalStart, CalEnable, CalConducts,
       CalLower, CalSag, CalHolds, CalBackOff, CalDisable, CalStore
  <2>2. PICK a \in Afe : call.chip = a
    BY <2>1
  <2>. QED
    BY <1>3, <2>2, CalStep
<1>4. CASE Boot
  BY <1>1, <1>4, BootStep
<1>5. CASE MainLoop
  BY <1>5, LoopStep
<1>6. CASE Trip
  BY <1>6, TripStep, RestartStep DEF SystemReset
<1>7. CASE ProcessorReset \/ PowerCycle
  BY <1>7, RestartStep DEF ProcessorReset, PowerCycle
<1>. QED
  BY <1>1, <1>2, <1>3, <1>4, <1>5, <1>6, <1>7 DEF Next, FirmwareStep

\* The specification without its fairness, which is all a composition has to
\* implement for what is said of the steps here to hold there.
Steps == Init /\ [][Next]_vars

LEMMA SpecSteps == Spec => Steps
  BY PTL DEF Spec, Steps

LEMMA StepsInv == Steps => []IInv
  BY InitIInv, NextIInv, PTL DEF Steps

\* The inductive invariant holds in every reachable state.
THEOREM Inductive == Spec => []IInv
  BY StepsInv, SpecSteps, PTL

\* Every register write of the firmware fits its field and every variable its
\* type: no sequence of commands, calibrations and resets leaves them.
THEOREM TypeCorrect == Spec => []TypeOK
<1>1. IInv => TypeOK
  BY DEF IInv
<1>. QED
  BY <1>1, Inductive, PTL

\* No PA is on with a gate above the calibration limit or with no gate code:
\* the bound switch_to_rx, switch_to_tx and calibrate_power_amplifier keep at
\* each of their writes.
THEOREM GateBounded == Spec => []PaGateBounded
<1>1. IInv => PaGateBounded
  BY DEF IInv, AfeInv, RadioInv, PaGateBounded
<1>. QED
  BY <1>1, Inductive, PTL

\* A receive LNA is never on behind a switch at TX or a conducting PA: the
\* write order of switch_to_rx, switch_to_tx and switch_to_safe.
THEOREM LnaSafe == Spec => []LnaProtected
<1>1. IInv => LnaProtected
  BY DEF IInv, AfeInv, RadioInv, LnaProtected
<1>. QED
  BY <1>1, Inductive, PTL

\* A conducting PA is never driven with the antenna switch at RX.
THEOREM DriveSafe == Spec => []DriveGoesToAntenna
<1>1. IInv => DriveGoesToAntenna
  BY DEF IInv, AfeInv, RadioInv, DriveGoesToAntenna
<1>. QED
  BY <1>1, Inductive, PTL

\* switch_to_safe programs the outputs before it enables them.
THEOREM Programmed == Spec => []DrivenOutputsAreProgrammed
<1>1. IInv => DrivenOutputsAreProgrammed
  BY DEF IInv, AfeInv, RadioInv, DrivenOutputsAreProgrammed
<1>. QED
  BY <1>1, Inductive, PTL

\* AFE::mode, which the switch functions trust for their early returns, agrees
\* with the seven registers whenever main()'s loop is between two calls.
THEOREM ModeCache == Spec => []ModeMatchesHardware
<1>1. IInv => ModeMatchesHardware
  <2>. SUFFICES ASSUME IInv, InLoop, call = Idle, NEW a \in Afe PROVE Configured(a, mode[a])
    BY DEF ModeMatchesHardware
  <2>. QED
    BY DEF IInv, AfeInv, Settled, InLoop, InCall, Idle, UnreadyPcs, TripPcs, ParkedPcs
<1>. QED
  BY <1>1, Inductive, PTL

\* What calibrate_power_amplifier stored is in order whenever the loop runs.
THEOREM CalibrationCorrect == Spec => []CalibrationSound
<1>1. IInv => CalibrationSound
  <2>. SUFFICES ASSUME IInv, InLoop, NEW a \in Afe
                PROVE  /\ vg_setpoint[a] \in 207 .. 390
                       /\ vg_quiescent[a] \in vg_setpoint[a] + 1 .. 1023
                       /\ vg_quiescent[a] = cutoff[a]
    BY DEF CalibrationSound
  <2>1. Calibrated(a) /\ pc \in CalibratedPcs(a) /\ ~(call.fn = "cal" /\ call.chip = a)
    BY DEF IInv, AfeInv, ControlInv, InLoop, CalibratedPcs, LoopPcs
  <2>. QED
    BY <2>1 DEF Calibrated
<1>. QED
  BY <1>1, Inductive, PTL

LEMMA OffUnsupervised == IInv => SafeWhenUnsupervised
<1>. SUFFICES ASSUME IInv, ~ExternalReset, Unsupervised, call = Idle, NEW a \in Afe
              PROVE  ~PaOn(a)
  BY DEF SafeWhenUnsupervised
<1>1. Quiet(a) /\ Settled(a) /\ ~InCall(a)
  BY DEF IInv, AfeInv, InCall, Idle
<1>2. CASE pc \in QuietPcs(a)
  BY <1>1, <1>2 DEF Quiet
<1>3. CASE pc \notin QuietPcs(a)
  <2>1. pc \in {"safe_b", "bus", "cal_a"} /\ pc \notin UnreadyPcs(a) \cup ParkedPcs(a)
    BY <1>3 DEF Unsupervised, QuietPcs, UnreadyPcs, ParkedPcs, TripPcs
  <2>2. mode[a] = "safe"
    BY <2>1 DEF IInv, ControlInv, LoopPcs, TripPcs
  <2>3. Configured(a, "safe")
    BY <1>1, <2>1, <2>2 DEF Settled
  <2>. QED
    BY <2>3 DEF Configured, PaOn, GRAV_DAC_PA_EN_RX, GRAV_DAC_PA_EN_TX
<1>. QED
  BY <1>2, <1>3

\* go_safe_and_reset leaves both PAs off for the reset and the unsupervised
\* boot that follow it, as long as nothing else resets the processor.
THEOREM SafeReset == Spec => []SafeWhenUnsupervised
BY OffUnsupervised, Inductive, PTL

-----------------------------------------------------------------------------
(* RfControl implements RfInterlock, and its steps move no antenna switch  *)
(* under power.  Both follow from what one step of the firmware can do: it     *)
(* writes at most one register of one chip.                                *)

\* The registers that decide whether the receive LNA is on, and those that,
\* with the pinch-off code, decide whether the PA conducts.
LnaRegs == {"gpio", "dir"}
PaRegs  == {"power", "pa", "vg"}

\* The kinds of step, by what they do to the radio: nothing, one register
\* written (an antenna switch to TX only with the driver off, to RX only
\* behind a cold PA), one chip reset, one channel calibrated, all supplies lost.
Stays == regs' = regs /\ cutoff' = cutoff

MovesCold(c, val) == IF val = GRAV_DAC_TX_SW_TX THEN ~TxLnaOn(c) ELSE ~Hot(c)

WritesOne ==
  \E c \in Chip, reg \in LnaRegs \cup PaRegs \cup {"sw", "txlna"} : \E val :
    /\ regs' = [regs EXCEPT ![c][reg] = val]
    /\ cutoff' = cutoff
    /\ reg = "sw" /\ c \in Afe => MovesCold(c, val)

ClearsOne == \E c \in Chip : regs' = [regs EXCEPT ![c] = Cleared] /\ cutoff' = cutoff

Calibrates == \E c \in Afe : \E code : regs' = regs /\ cutoff' = [cutoff EXCEPT ![c] = code]

ClearsAll == regs' = [c \in Chip |-> Cleared] /\ cutoff' = cutoff

RegisterStep == Stays \/ WritesOne \/ ClearsOne \/ Calibrates \/ ClearsAll

-----------------------------------------------------------------------------
\* A write of a register other than an antenna switch.
LEMMA PlainWrite ==
  ASSUME NEW c \in Chip, NEW reg \in LnaRegs \cup PaRegs \cup {"txlna"}, NEW val,
         regs' = [regs EXCEPT ![c][reg] = val], cutoff' = cutoff
  PROVE  RegisterStep
<1>1. reg # "sw"
  BY DEF LnaRegs, PaRegs
<1>2. WritesOne
  BY <1>1 DEF WritesOne
<1>. QED
  BY <1>2 DEF RegisterStep

\* A statement of a function.
LEMMA StmtWrites ==
  ASSUME NEW k, NEW cond, NEW reg \in LnaRegs \cup PaRegs \cup {"sw", "txlna"}, NEW val,
         Stmt(k, cond, reg, val), call.chip \in Chip,
         cond /\ reg = "sw" /\ call.chip \in Afe => MovesCold(call.chip, val)
  PROVE  RegisterStep
<1>1. cutoff' = cutoff
  BY DEF Stmt, memory
<1>2. CASE cond
  <2>1. regs' = [regs EXCEPT ![call.chip][reg] = val]
    BY <1>2 DEF Stmt
  <2>2. WritesOne
    BY <1>1, <1>2, <2>1 DEF WritesOne
  <2>. QED
    BY <2>2 DEF RegisterStep
<1>3. CASE ~cond
  BY <1>1, <1>3 DEF Stmt, RegisterStep, Stays
<1>. QED
  BY <1>2, <1>3

\* switch_to_rx moves the antenna switch with the gate at the pinch-off code.
LEMMA RxKind == ASSUME IInv, switch_to_rx PROVE RegisterStep
<1>. DEFINE a == call.chip
<1>1. a \in Afe /\ a \in Chip /\ AfeInv(a) /\ call.fn = "rx" /\ pc = "grav"
  BY DEF switch_to_rx, IInv, ControlInv, Chip
<1>2. CASE Stmt(3, mode[a] # "rx", "sw", GRAV_DAC_TX_SW_RX)
  <2>1. call.at = 3
    BY <1>2 DEF Stmt
  <2>2. regs[a].vg = vg_quiescent[a] /\ vg_quiescent[a] = cutoff[a]
        /\ vg_quiescent[a] \in vg_setpoint[a] + 1 .. 1023 /\ vg_setpoint[a] \in 207 .. 390
    BY <1>1, <2>1 DEF AfeInv, RxProgress, Calibrated, CalibratedPcs, LoopPcs
  <2>3. ~Hot(a)
    BY <2>2 DEF Hot
  <2>4. MovesCold(a, GRAV_DAC_TX_SW_RX)
    BY <2>3 DEF MovesCold, GRAV_DAC_TX_SW_RX, GRAV_DAC_TX_SW_TX
  <2>. QED
    BY <1>1, <1>2, <2>4, StmtWrites
<1>3. CASE Stmt(1, mode[a] = "safe", "pa", GRAV_DAC_PA_EN_TX)
  BY <1>1, <1>3, StmtWrites DEF PaRegs
<1>4. CASE Stmt(2, mode[a] # "rx", "vg", vg_quiescent[a])
  BY <1>1, <1>4, StmtWrites DEF PaRegs
<1>5. CASE Stmt(4, mode[a] # "rx", "txlna", GRAV_DAC_TX_LNA_DIS_RX)
  BY <1>1, <1>5, StmtWrites
<1>6. CASE Stmt(5, TRUE, "gpio", GRAV_AFE_RECEIVE(call.gain))
  BY <1>1, <1>6, StmtWrites DEF LnaRegs
<1>7. CASE ReturnAfe(6, "rx")
  BY <1>7 DEF ReturnAfe, memory, RegisterStep, Stays
<1>. QED
  BY <1>2, <1>3, <1>4, <1>5, <1>6, <1>7 DEF switch_to_rx

\* switch_to_tx moves it to TX, and turns the driver on after that.
LEMMA TxKind == ASSUME IInv, switch_to_tx PROVE RegisterStep
<1>. DEFINE a == call.chip
<1>1. a \in Afe /\ a \in Chip /\ AfeInv(a) /\ call.fn = "tx"
  BY DEF switch_to_tx, IInv, ControlInv, Chip
<1>2. CASE Stmt(1, mode[a] = "safe", "pa", GRAV_DAC_PA_EN_TX)
  BY <1>1, <1>2, StmtWrites DEF PaRegs
<1>3. CASE Stmt(2, mode[a] # "tx", "gpio", GRAV_AFE_TRANSMIT)
  BY <1>1, <1>3, StmtWrites DEF LnaRegs
<1>4. CASE Stmt(3, mode[a] # "tx", "vg", vg_setpoint[a])
  BY <1>1, <1>4, StmtWrites DEF PaRegs
<1>5. CASE Stmt(4, mode[a] # "tx", "sw", GRAV_DAC_TX_SW_TX)
  <2>1. mode[a] # "tx" => regs[a].txlna = GRAV_DAC_TX_LNA_DIS_RX
    BY <1>1, <1>5 DEF Stmt, AfeInv, TxProgress
  <2>2. mode[a] # "tx" => MovesCold(a, GRAV_DAC_TX_SW_TX)
    BY <2>1 DEF MovesCold, TxLnaOn, GRAV_DAC_TX_LNA_DIS_RX, GRAV_DAC_TX_LNA_DIS_TX
  <2>. QED
    BY <1>1, <1>5, <2>2, StmtWrites
<1>6. CASE Stmt(5, mode[a] # "tx", "txlna", GRAV_DAC_TX_LNA_DIS_TX)
  BY <1>1, <1>6, StmtWrites
<1>7. CASE ReturnAfe(6, "tx")
  BY <1>7 DEF ReturnAfe, memory, RegisterStep, Stays
<1>. QED
  BY <1>2, <1>3, <1>4, <1>5, <1>6, <1>7 DEF switch_to_tx

\* switch_to_safe turns the PA off before it moves the switch.
LEMMA SafeKind == ASSUME IInv, switch_to_safe PROVE RegisterStep
<1>. DEFINE a == call.chip
<1>1. a \in Afe /\ a \in Chip /\ AfeInv(a) /\ call.fn = "safe"
  BY DEF switch_to_safe, IInv, ControlInv, Chip, Afe
<1>2. CASE Stmt(3, TRUE, "sw", GRAV_DAC_TX_SW_RX)
  <2>1. regs[a].pa = GRAV_DAC_PA_EN_RX
    BY <1>1, <1>2 DEF Stmt, AfeInv, SafeProgress
  <2>2. ~Hot(a)
    BY <2>1 DEF Hot, PaOn, GRAV_DAC_PA_EN_RX, GRAV_DAC_PA_EN_TX
  <2>3. MovesCold(a, GRAV_DAC_TX_SW_RX)
    BY <2>2 DEF MovesCold, GRAV_DAC_TX_SW_RX, GRAV_DAC_TX_SW_TX
  <2>. QED
    BY <1>1, <1>2, <2>3, StmtWrites
<1>3. CASE Stmt(1, TRUE, "pa", GRAV_DAC_PA_EN_RX)
  BY <1>1, <1>3, StmtWrites DEF PaRegs
<1>4. CASE Stmt(2, TRUE, "vg", GRAV_DAC_VGSET_SAFE)
  BY <1>1, <1>4, StmtWrites DEF PaRegs
<1>5. CASE Stmt(4, TRUE, "txlna", GRAV_DAC_TX_LNA_DIS_RX)
  BY <1>1, <1>5, StmtWrites
<1>6. CASE Stmt(5, TRUE, "power", "dacs")
  BY <1>1, <1>6, StmtWrites DEF PaRegs
<1>7. CASE Stmt(6, TRUE, "gpio", GRAV_AFE_SAFE)
  BY <1>1, <1>7, StmtWrites DEF LnaRegs
<1>8. CASE Stmt(7, TRUE, "dir", "out")
  BY <1>1, <1>8, StmtWrites DEF LnaRegs
<1>9. CASE ReturnAfe(8, "safe")
  BY <1>9 DEF ReturnAfe, memory, RegisterStep, Stays
<1>. QED
  BY <1>2, <1>3, <1>4, <1>5, <1>6, <1>7, <1>8, <1>9 DEF switch_to_safe

\* AMC7891::init resets its chip, then writes one register.
LEMMA InitKind == ASSUME IInv, amc_init PROVE RegisterStep
<1>1. call.chip \in Chip /\ cutoff' = cutoff
  BY DEF IInv, TypeOK, amc_init, memory
<1>2. CASE regs' = [regs EXCEPT ![call.chip] = Cleared]
  BY <1>1, <1>2 DEF RegisterStep, ClearsOne
<1>3. CASE regs' = [regs EXCEPT ![call.chip].power = "adc"]
  <2>1. regs' = [regs EXCEPT ![call.chip]["power"] = "adc"]
    BY <1>3
  <2>. QED
    BY <1>1, <2>1, PlainWrite DEF PaRegs
<1>. QED
  BY <1>2, <1>3 DEF amc_init

\* The functions of the main controller.
LEMMA MainKind ==
  ASSUME IInv,
         configure_grav_safe \/ configure_grav_on_with_tx_off \/ configure_grav_on_with_tx_on
  PROVE  RegisterStep
<1>1. call.chip \in Chip
  BY DEF IInv, TypeOK
<1>2. ASSUME NEW k, NEW m, ReturnGrav(k, m) PROVE RegisterStep
  BY <1>2 DEF ReturnGrav, memory, RegisterStep, Stays
<1>3. ASSUME NEW k, NEW cond, NEW reg \in LnaRegs, NEW val, Stmt(k, cond, reg, val)
      PROVE  RegisterStep
  BY <1>1, <1>3, StmtWrites DEF LnaRegs
<1>4. CASE configure_grav_safe
  BY <1>2, <1>3, <1>4 DEF configure_grav_safe, LnaRegs
<1>5. CASE configure_grav_on_with_tx_off
  BY <1>2, <1>3, <1>5 DEF configure_grav_on_with_tx_off, LnaRegs
<1>6. CASE configure_grav_on_with_tx_on
  BY <1>2, <1>3, <1>6 DEF configure_grav_on_with_tx_on, LnaRegs
<1>. QED
  BY <1>4, <1>5, <1>6

\* calibrate_power_amplifier writes the gate or the PA, or stores its result.
LEMMA CalKind == ASSUME IInv, Calibrate PROVE RegisterStep
<1>1. call.chip \in Afe /\ call.chip \in Chip
  BY DEF IInv, ControlInv, Afe, Chip, Calibrate, Calibrating, CalStart, CalEnable, CalConducts,
     CalLower, CalSag, CalHolds, CalBackOff, CalDisable, CalStore
<1>2. ASSUME NEW c, SetVg(c), cutoff' = cutoff PROVE RegisterStep
  <2>1. regs' = [regs EXCEPT ![call.chip]["vg"] = c]
    BY <1>2 DEF SetVg
  <2>. QED
    BY <1>1, <1>2, <2>1, PlainWrite DEF PaRegs
<1>3. ASSUME NEW c, SetPa(c), cutoff' = cutoff PROVE RegisterStep
  <2>1. regs' = [regs EXCEPT ![call.chip]["pa"] = c]
    BY <1>3 DEF SetPa
  <2>. QED
    BY <1>1, <1>3, <2>1, PlainWrite DEF PaRegs
<1>4. CASE CalStart \/ CalLower \/ CalBackOff
  BY <1>2, <1>4 DEF CalStart, CalLower, CalBackOff, calUnchanged
<1>5. CASE CalEnable \/ CalDisable
  BY <1>3, <1>5 DEF CalEnable, CalDisable, calUnchanged
<1>6. CASE CalConducts \/ CalSag \/ CalHolds
  BY <1>6 DEF CalConducts, CalSag, CalHolds, calUnchanged, memory, RegisterStep, Stays
<1>7. CASE CalStore
  BY <1>1, <1>7 DEF CalStore, RegisterStep, Calibrates
<1>. QED
  BY <1>4, <1>5, <1>6, <1>7 DEF Calibrate

\* A step of the script writes no register; the restarts keep or clear all.
LEMMA NextKind == ASSUME IInv, Next PROVE RegisterStep
<1>1. ASSUME NEW here, NEW fn, NEW chip, NEW next, Calls(here, fn, chip, next) PROVE RegisterStep
  BY <1>1 DEF Calls, memory, RegisterStep, Stays
<1>2. ASSUME NEW here, NEW next, Passes(here, next) PROVE RegisterStep
  BY <1>2 DEF Passes, memory, RegisterStep, Stays
<1>3. CASE Function
  BY <1>3, RxKind, TxKind, SafeKind, InitKind, MainKind DEF Function
<1>4. CASE Calibrate
  BY <1>4, CalKind
<1>5. CASE Boot
  BY <1>1, <1>2, <1>5 DEF Boot, BootOscillator, BootOscillatorFails, Halted, BusUnpowered,
     BusPowered, vars, RegisterStep, Stays
<1>6. CASE MainLoop
  BY <1>1, <1>2, <1>6 DEF MainLoop, Command, NoCommand, GravUpdate, SafetyPass, SafetyTrip,
     memory, RegisterStep, Stays
<1>7. CASE Trip
  BY <1>1, <1>2, <1>7 DEF Trip, SystemReset, Restart, RegisterStep, Stays
<1>8. CASE ProcessorReset
  BY <1>8 DEF ProcessorReset, Restart, RegisterStep, Stays
<1>9. CASE PowerCycle
  BY <1>9 DEF PowerCycle, Restart, RegisterStep, ClearsAll
<1>. QED
  BY <1>3, <1>4, <1>5, <1>6, <1>7, <1>8, <1>9 DEF Next, FirmwareStep

-----------------------------------------------------------------------------
\* What a step of each kind does to the LNA, the PA and the switch of a channel.
LEMMA Effects ==
  ASSUME IInv, RegisterStep, NEW a \in Afe
  PROVE  /\ (LnaOn(a)' <=> LnaOn(a)) \/ (Hot(a)' <=> Hot(a)) \/ (~LnaOn(a)' /\ ~Hot(a)')
         /\ SwitchAtTx(a) /\ Driven(a)' /\ ~SwitchAtTx(a)' => ~Hot(a)
         /\ ~SwitchAtTx(a) /\ SwitchAtTx(a)' => ~TxLnaOn(a)
<1>1. regs \in [Chip -> RegFile] /\ a \in Chip /\ cutoff \in [Afe -> 0 .. 1024]
  BY DEF IInv, TypeOK, Chip
<1>2. CASE Stays
  BY <1>2 DEF Stays, LnaOn, Hot, PaOn, Driven, SwitchAtTx
<1>3. CASE WritesOne
  <2>0. PICK c \in Chip, reg \in LnaRegs \cup PaRegs \cup {"sw", "txlna"} : \E val :
          /\ regs' = [regs EXCEPT ![c][reg] = val]
          /\ cutoff' = cutoff
          /\ reg = "sw" /\ c \in Afe => MovesCold(c, val)
    BY <1>3 DEF WritesOne
  <2>1. PICK val :
          /\ regs' = [regs EXCEPT ![c][reg] = val]
          /\ cutoff' = cutoff
          /\ reg = "sw" /\ c \in Afe => MovesCold(c, val)
    BY <2>0
  <2>2. CASE c # a
    <3>1. regs'[a] = regs[a]
      BY <1>1, <2>1, <2>2
    <3>. QED
      BY <2>1, <3>1 DEF LnaOn, Hot, PaOn, Driven, SwitchAtTx
  <2>3. CASE c = a
    <3>1. regs'[a] = [regs[a] EXCEPT ![reg] = val] /\ regs[a] \in RegFile
      BY <1>1, <2>1, <2>3
    <3>2. CASE reg \in LnaRegs
      <4>1. /\ regs'[a].power = regs[a].power /\ regs'[a].pa = regs[a].pa
            /\ regs'[a].vg = regs[a].vg /\ regs'[a].sw = regs[a].sw
        BY <3>1, <3>2 DEF LnaRegs, RegFile
      <4>. QED
        BY <2>1, <4>1 DEF Hot, PaOn, Driven, SwitchAtTx
    <3>3. CASE reg \in PaRegs
      <4>1. /\ regs'[a].gpio = regs[a].gpio /\ regs'[a].dir = regs[a].dir
            /\ regs'[a].sw = regs[a].sw
        BY <3>1, <3>3 DEF PaRegs, RegFile
      <4>. QED
        BY <4>1 DEF LnaOn, SwitchAtTx, TxLnaOn, Driven
    <3>4. CASE reg \in {"sw", "txlna"}
      <4>1. /\ regs'[a].gpio = regs[a].gpio /\ regs'[a].dir = regs[a].dir
            /\ reg = "txlna" => regs'[a].sw = regs[a].sw
            /\ reg = "sw" => regs'[a].sw = val /\ regs'[a].power = regs[a].power
            /\ reg = "txlna" => regs'[a].power = regs[a].power
        BY <3>1, <3>4 DEF RegFile
      <4>2. reg = "sw" => MovesCold(a, val)
        BY <2>1, <2>3
      <4>. QED
        BY <3>4, <4>1, <4>2 DEF MovesCold, LnaOn, SwitchAtTx, Driven
    <3>. QED
      BY <3>2, <3>3, <3>4
  <2>. QED
    BY <2>2, <2>3
<1>4. CASE ClearsOne \/ ClearsAll
  <2>1. (regs'[a] = regs[a] \/ regs'[a] = Cleared) /\ cutoff' = cutoff
    BY <1>1, <1>4 DEF ClearsOne, ClearsAll
  <2>2. CASE regs'[a] = regs[a]
    BY <2>1, <2>2 DEF LnaOn, Hot, PaOn, Driven, SwitchAtTx
  <2>3. CASE regs'[a] = Cleared
    BY <2>3 DEF Cleared, LnaOn, Hot, PaOn, Driven, SwitchAtTx
  <2>. QED
    BY <2>1, <2>2, <2>3
<1>5. CASE Calibrates
  BY <1>5 DEF Calibrates, LnaOn, SwitchAtTx, Driven
<1>. QED
  BY <1>2, <1>3, <1>4, <1>5 DEF RegisterStep

\* And all but the loss of the supplies touch one channel at most.
LEMMA OneChannel ==
  ASSUME IInv, RegisterStep, ~ClearsAll
  PROVE  \E a \in Afe : \A b \in Afe : b # a => rf'[b] = rf[b]
<1>1. regs \in [Chip -> RegFile] /\ cutoff \in [Afe -> 0 .. 1024] /\ Afe \subseteq Chip
  BY DEF IInv, TypeOK, Chip
<1>2. ASSUME NEW b \in Afe, regs'[b] = regs[b], cutoff'[b] = cutoff[b]
      PROVE  rf'[b] = rf[b]
  BY <1>2 DEF rf, LnaOn, Hot, PaOn, Driven
<1>3. PICK c \in Chip : \A b \in Afe : b # c => regs'[b] = regs[b] /\ cutoff'[b] = cutoff[b]
  <2>1. CASE Stays
    BY <2>1 DEF Stays, Chip
  <2>2. CASE WritesOne
    BY <1>1, <2>2 DEF WritesOne
  <2>3. CASE ClearsOne
    BY <1>1, <2>3 DEF ClearsOne
  <2>4. CASE Calibrates
    BY <1>1, <2>4 DEF Calibrates
  <2>. QED
    BY <2>1, <2>2, <2>3, <2>4 DEF RegisterStep
<1>4. \A b \in Afe : b # c => rf'[b] = rf[b]
  BY <1>2, <1>3
<1>5. CASE c \in Afe
  BY <1>4, <1>5
<1>6. CASE c \notin Afe
  BY <1>4, <1>6 DEF Afe
<1>. QED
  BY <1>5, <1>6

\* A write to an antenna switch finds no power at it: when it takes the switch
\* off TX, switch_to_rx has pinched the gate or switch_to_safe turned the PA
\* off; when it takes it to TX, switch_to_tx has not turned the driver on yet.
LEMMA StepsCold == Steps => NoHotSwitching
<1>1. IInv /\ [Next]_vars =>
        [\A a \in Afe :
           /\ SwitchAtTx(a) /\ Driven(a)' /\ ~SwitchAtTx(a)' => ~Hot(a)
           /\ ~SwitchAtTx(a) /\ SwitchAtTx(a)' => ~TxLnaOn(a)]_vars
  BY NextKind, Effects
<1>. QED
  BY <1>1, StepsInv, PTL DEF Steps, NoHotSwitching

\* The firmware switches no antenna away from a hot amplifier, and none to it
\* while its driver is on.
THEOREM SwitchesCold == Spec => NoHotSwitching
BY StepsCold, SpecSteps, PTL

\* Every step of the firmware and of the world around it is a step of
\* RfInterlock or leaves the channels as they are: a channel is never taken
\* from receiving to transmitting, or back, but through quiet.
LEMMA StepsImplement == Steps => ImplementsInterlock
<1>1. Init => Interlock!Init
  BY DEF Init, Interlock!Init, rf, LnaOn, Hot, PaOn, Driven, Cleared, Chip
<1>2. ASSUME IInv, IInv', [Next]_vars PROVE [Interlock!Next]_rf
  <2>1. CASE UNCHANGED vars
    BY <2>1 DEF vars, rf, LnaOn, Hot, PaOn, Driven
  <2>2. CASE Next
    <3>1. RegisterStep
      BY <1>2, <2>2, NextKind
    <3>2. CASE ClearsAll
      <4>1. \A a \in Afe : ~LnaOn(a)' /\ ~Hot(a)'
        BY <3>2 DEF ClearsAll, Chip, Cleared, LnaOn, Hot, PaOn, Driven
      <4>2. Interlock!PowerFails
        BY <4>1 DEF Interlock!PowerFails, rf
      <4>. QED
        BY <4>2 DEF Interlock!Next
    <3>3. CASE ~ClearsAll
      <4>1. PICK a \in Afe : \A b \in Afe : b # a => rf'[b] = rf[b]
        BY <1>2, <3>1, <3>3, OneChannel
      <4>2. /\ rf[a] \in {"quiet", "receiving", "hot"}
            /\ rf'[a] \in {"quiet", "receiving", "hot"}
        BY DEF rf
      <4>3. rf' = [rf EXCEPT ![a] = rf'[a]]
        BY <4>1 DEF rf
      <4>4. rf'[a] = "quiet" \/ rf[a] = "quiet" \/ rf'[a] = rf[a]
        <5>1. AfeInv(a) /\ AfeInv(a)'
          BY <1>2 DEF IInv
        <5>2. ~(LnaOn(a) /\ Hot(a)) /\ ~(LnaOn(a) /\ Hot(a))'
          BY <5>1 DEF AfeInv, RadioInv
        <5>. QED
          BY <1>2, <3>1, <5>2, Effects DEF rf
      <4>5. CASE rf'[a] = "quiet"
        BY <4>3, <4>5 DEF Interlock!Next, Interlock!Quieten
      <4>6. CASE rf[a] = "quiet" /\ rf'[a] # "quiet"
        BY <4>2, <4>3, <4>6 DEF Interlock!Next, Interlock!Engage
      <4>7. CASE rf'[a] = rf[a]
        BY <4>3, <4>7 DEF rf
      <4>. QED
        BY <4>4, <4>5, <4>6, <4>7
    <3>. QED
      BY <3>2, <3>3
  <2>. QED
    BY <1>2, <2>1, <2>2
<1>. QED
  BY <1>1, <1>2, StepsInv, PTL DEF Steps, Interlock!Spec, ImplementsInterlock

\* RfControl refines RfInterlock: break before make, one channel at a time.
THEOREM Implements == Spec => ImplementsInterlock
BY StepsImplement, SpecSteps, PTL

-----------------------------------------------------------------------------
(* The DAC output follows the modes of the channels: a second inductive    *)
(* invariant, about the main controller's GPIO word and the mode cached    *)
(* for it.                                                                 *)

Word(m) == CASE m = "safe"   -> GRAV_MAIN_DEFAULTS
             [] m = "tx_off" -> GRAV_MAIN_POWER_ON_TX_OFF
             [] m = "tx_on"  -> GRAV_MAIN_POWER_ON_TX_ON

\* Before boot has configured the main controller.
EarlyPcs == {"reset", "halted", "init_a", "init_b", "init_main", "main_safe"}

\* Between the functions that write it the GPIO word is the cached mode's; in
\* each of them it is known from its first statement on.
WordInv ==
  /\ pc \notin EarlyPcs \cup TripPcs /\ call.fn \notin {"grav_safe", "tx_off", "tx_on"} =>
       regs["main"].gpio = Word(grav_mode)
  /\ call.fn = "grav_safe" /\ call.at > 1 => regs["main"].gpio = Word("safe")
  /\ call.fn \in {"tx_off", "tx_on"} =>
       regs["main"].gpio = Word(IF call.at > 1 THEN call.fn ELSE grav_mode)

\* The cached mode is for transmitting when a channel transmits, unless a
\* command (pc is then grav or cmd_safe_b) has not been followed up yet.
CacheInv ==
  /\ pc \notin LoopPcs \cup TripPcs => grav_mode # "tx_on"
  /\ pc = "check" /\ call.fn = "tx_on" => AnyTx
  /\ pc = "check" /\ call.fn = "tx_off" => ~AnyTx
  /\ pc \in {"loop", "check"} /\ call.fn \notin {"tx_on", "tx_off"} =>
       (grav_mode = "tx_on" <=> AnyTx)
  /\ pc = "loop" /\ call.fn = "safe" => \A a \in Afe : mode[a] = "safe"

GravInv == WordInv /\ CacheInv

LEMMA InitGrav == Init => GravInv
  BY DEF Init, GravInv, WordInv, CacheInv, EarlyPcs, LoopPcs, TripPcs, Idle

\* A step that writes no register and calls no function of the main controller
\* or returns from none.
LEMMA ChannelStep ==
  ASSUME IInv, GravInv, regs'["main"] = regs["main"], grav_mode' = grav_mode, pc' = pc,
         call'.fn \in {call.fn, "none"}, call.fn \in {"rx", "tx", "safe", "cal"},
         \A a \in Afe : mode'[a] \in {mode[a]} \/ pc = "grav" \/ mode'[a] = "safe"
  PROVE  GravInv'
<1>1. pc # "check" /\ call'.fn \in {"rx", "tx", "safe", "cal", "none"}
  BY DEF IInv, ControlInv, Afe
<1>2. WordInv'
  BY <1>1 DEF GravInv, WordInv, Word
<1>3. CASE pc = "loop"
  <2>1. call.fn = "safe"
    BY <1>3 DEF IInv, ControlInv
  <2>2. \A a \in Afe : mode'[a] = "safe"
    BY <1>3, <2>1 DEF GravInv, CacheInv
  <2>3. grav_mode # "tx_on"
    BY <1>3, <2>1 DEF GravInv, CacheInv, AnyTx, Afe
  <2>. QED
    BY <1>2, <1>3, <2>2, <2>3 DEF GravInv, CacheInv, LoopPcs, AnyTx, Afe
<1>4. CASE pc # "loop"
  BY <1>1, <1>2, <1>4 DEF GravInv, CacheInv
<1>. QED
  BY <1>3, <1>4

\* A statement of a function on a channel.
LEMMA ChannelStmt ==
  ASSUME IInv, GravInv, NEW k, NEW cond, NEW reg, NEW val, Stmt(k, cond, reg, val),
         call.chip \in Afe, call.fn \in {"rx", "tx", "safe"}
  PROVE  GravInv'
<1>1. regs \in [Chip -> RegFile] /\ call \in [fn : Fns, chip : Chip, at : 1 .. 8, gain : 0 .. 63]
  BY DEF IInv, TypeOK
<1>2. regs'["main"] = regs["main"] /\ call'.fn = call.fn
  BY <1>1 DEF Stmt, Afe, Chip
<1>. QED
  BY <1>2, ChannelStep DEF Stmt

\* It returns.
LEMMA ChannelReturn ==
  ASSUME IInv, GravInv, NEW k, NEW m, ReturnAfe(k, m), call.fn \in {"rx", "tx", "safe"},
         call.fn \in {"rx", "tx"} => pc = "grav",
         call.fn = "safe" => m = "safe"
  PROVE  GravInv'
<1>1. mode \in [Afe -> {"safe", "rx", "tx"}]
  BY DEF IInv, TypeOK
<1>2. \A a \in Afe : mode'[a] \in {mode[a]} \/ pc = "grav" \/ mode'[a] = "safe"
  BY <1>1 DEF ReturnAfe
<1>. QED
  BY <1>2, ChannelStep DEF ReturnAfe, Idle

LEMMA FunctionGrav == ASSUME IInv, GravInv, Function PROVE GravInv'
<1>1. call \in [fn : Fns, chip : Chip, at : 1 .. 8, gain : 0 .. 63]
      /\ regs \in [Chip -> RegFile] /\ grav_mode \in {"safe", "tx_off", "tx_on"}
  BY DEF IInv, TypeOK
<1>2. CASE switch_to_rx
  <2>1. call.chip \in Afe /\ pc = "grav" /\ call.fn = "rx"
    BY <1>2 DEF switch_to_rx, IInv, ControlInv
  <2>. QED
    BY <1>2, <2>1, ChannelStmt, ChannelReturn DEF switch_to_rx
<1>3. CASE switch_to_tx
  <2>1. call.chip \in Afe /\ pc = "grav" /\ call.fn = "tx"
    BY <1>3 DEF switch_to_tx, IInv, ControlInv
  <2>. QED
    BY <1>3, <2>1, ChannelStmt, ChannelReturn DEF switch_to_tx
<1>4. CASE switch_to_safe
  <2>1. call.chip \in Afe /\ call.fn = "safe"
    BY <1>4 DEF switch_to_safe, IInv, ControlInv, Afe
  <2>. QED
    BY <1>4, <2>1, ChannelStmt, ChannelReturn DEF switch_to_safe
<1>5. CASE amc_init
  <2>1. pc \in EarlyPcs /\ call.fn = "init"
    BY <1>5 DEF amc_init, IInv, ControlInv, EarlyPcs
  <2>2. pc' = pc /\ grav_mode' = grav_mode /\ call'.fn \in {"init", "none"}
    BY <1>1, <1>5, <2>1 DEF amc_init, Idle
  <2>. QED
    BY <2>1, <2>2 DEF GravInv, WordInv, CacheInv, EarlyPcs, LoopPcs, TripPcs
<1>6. CASE configure_grav_safe
  <2>1. call.fn = "grav_safe" /\ call.chip = "main" /\ pc \in {"safe_a", "trip_reset"}
    BY <1>6 DEF configure_grav_safe, IInv, ControlInv
  <2>2. CASE Stmt(1, TRUE, "gpio", GRAV_MAIN_DEFAULTS)
    <3>1. regs'["main"].gpio = Word("safe") /\ call'.fn = "grav_safe" /\ pc' = pc
          /\ grav_mode' = grav_mode
      BY <1>1, <2>1, <2>2 DEF Stmt, Word, RegFile, Chip
    <3>. QED
      BY <2>1, <3>1 DEF GravInv, WordInv, CacheInv
  <2>3. CASE Stmt(2, TRUE, "dir", "out")
    <3>1. regs'["main"].gpio = regs["main"].gpio /\ call'.fn = "grav_safe" /\ pc' = pc
          /\ grav_mode' = grav_mode /\ call.at = 2
      BY <1>1, <2>1, <2>3 DEF Stmt, RegFile, Chip
    <3>. QED
      BY <2>1, <3>1 DEF GravInv, WordInv, CacheInv
  <2>4. CASE ReturnGrav(3, "safe")
    BY <2>1, <2>4 DEF ReturnGrav, Idle, GravInv, WordInv, CacheInv
  <2>. QED
    BY <1>6, <2>2, <2>3, <2>4 DEF configure_grav_safe
<1>7. ASSUME NEW m \in {"tx_off", "tx_on"}, call.fn = m,
             Stmt(1, grav_mode # m, "gpio", Word(m)) \/ ReturnGrav(2, m)
      PROVE  GravInv'
  <2>1. call.chip = "main" /\ pc \in {"cal_a", "check"} /\ (m = "tx_on" => pc = "check")
    BY <1>7 DEF IInv, ControlInv
  <2>2. CASE Stmt(1, grav_mode # m, "gpio", Word(m))
    <3>1. call.at = 1 /\ call'.at = 2 /\ call'.fn = m /\ pc' = pc /\ grav_mode' = grav_mode
          /\ mode' = mode
      BY <1>1, <1>7, <2>2 DEF Stmt
    <3>2. regs'["main"].gpio = Word(m)
      <4>1. regs["main"].gpio = Word(grav_mode)
        BY <1>7, <3>1 DEF GravInv, WordInv
      <4>. QED
        BY <1>1, <2>1, <2>2, <4>1 DEF Stmt, RegFile, Chip
    <3>. QED
      BY <1>7, <2>1, <3>1, <3>2 DEF GravInv, WordInv, CacheInv, AnyTx
  <2>3. CASE ReturnGrav(2, m)
    <3>1. call.at = 2 /\ call' = Idle /\ grav_mode' = m /\ regs' = regs /\ pc' = pc
          /\ mode' = mode
      BY <2>3 DEF ReturnGrav
    <3>2. regs["main"].gpio = Word(m)
      BY <1>7, <3>1 DEF GravInv, WordInv
    <3>. QED
      BY <1>7, <2>1, <3>1, <3>2 DEF GravInv, WordInv, CacheInv, AnyTx, Idle, LoopPcs
  <2>. QED
    BY <1>7, <2>2, <2>3
<1>8. CASE configure_grav_on_with_tx_off \/ configure_grav_on_with_tx_on
  BY <1>7, <1>8 DEF configure_grav_on_with_tx_off, configure_grav_on_with_tx_on, Word
<1>. QED
  BY <1>2, <1>3, <1>4, <1>5, <1>6, <1>8 DEF Function

LEMMA CalibrateGrav == ASSUME IInv, GravInv, Calibrate PROVE GravInv'
<1>1. call.fn = "cal" /\ call.chip \in Afe /\ pc \in {"cal_b", "resafe_a"}
      /\ call \in [fn : Fns, chip : Chip, at : 1 .. 8, gain : 0 .. 63]
      /\ regs \in [Chip -> RegFile]
  BY DEF IInv, TypeOK, ControlInv, Afe, Calibrate, Calibrating, CalStart, CalEnable, CalConducts,
     CalLower, CalSag, CalHolds, CalBackOff, CalDisable, CalStore
<1>2. \A c : (SetVg(c) \/ SetPa(c) => regs'["main"] = regs["main"])
  BY <1>1 DEF SetVg, SetPa, Afe, Chip
<1>3. \A k : (Goto(k) => call'.fn = "cal")
  BY <1>1 DEF Goto
<1>4. CASE CalSag
  BY <1>4 DEF CalSag, GravInv, WordInv, CacheInv, Idle, EarlyPcs, TripPcs, LoopPcs
<1>5. CASE ~CalSag
  <2>1. regs'["main"] = regs["main"] /\ grav_mode' = grav_mode /\ pc' = pc /\ mode' = mode
        /\ call'.fn \in {"cal", "none"}
    BY <1>2, <1>3, <1>5 DEF Calibrate, CalStart, CalEnable, CalConducts, CalLower, CalHolds,
       CalBackOff, CalDisable, CalStore, calUnchanged, Idle
  <2>. QED
    BY <1>1, <2>1, ChannelStep
<1>. QED
  BY <1>4, <1>5

\* A step of the script that calls no function of the main controller.
LEMMA ScriptGrav ==
  ASSUME IInv, GravInv, call = Idle, UNCHANGED <<regs, mode, grav_mode>>,
         call'.fn \in {"none", "rx", "tx", "safe", "init", "cal"},
         pc' \notin EarlyPcs \cup TripPcs => pc \notin EarlyPcs \cup TripPcs,
         pc' \notin LoopPcs \cup TripPcs => pc \notin LoopPcs \cup TripPcs,
         pc' \in {"loop", "check"} => \/ pc \in {"loop", "check"}
                                      \/ pc \notin LoopPcs \cup TripPcs,
         pc' = "loop" /\ call'.fn = "safe" => pc \notin LoopPcs \cup TripPcs
  PROVE  GravInv'
<1>1. WordInv'
  BY DEF GravInv, WordInv, Idle
<1>2. pc \notin LoopPcs \cup TripPcs => \A a \in Afe : mode[a] = "safe"
  BY DEF IInv, ControlInv
<1>3. pc' \in {"loop", "check"} => (grav_mode = "tx_on" <=> AnyTx)
  BY <1>2 DEF GravInv, CacheInv, AnyTx, Idle, Afe
<1>4. AnyTx' <=> AnyTx
  BY DEF AnyTx
<1>. QED
  BY <1>1, <1>2, <1>3, <1>4 DEF GravInv, CacheInv

LEMMA BootGrav == ASSUME IInv, GravInv, Boot PROVE GravInv'
<1>1. ASSUME NEW here, NEW fn \in {"safe", "init", "cal"}, NEW chip, NEW next,
             Calls(here, fn, chip, next),
             next \notin EarlyPcs \cup TripPcs => here \notin EarlyPcs \cup TripPcs,
             here \notin LoopPcs \cup TripPcs, next # "check"
      PROVE  GravInv'
  BY <1>1, ScriptGrav DEF Calls
<1>2. CASE BootOscillator
  BY <1>2, ScriptGrav DEF BootOscillator, Passes, Idle, EarlyPcs, LoopPcs, TripPcs
<1>3. CASE BootOscillatorFails
  <2>1. call = Idle
    BY <1>3 DEF BootOscillatorFails, IInv, ControlInv
  <2>. QED
    BY <1>3, <2>1, ScriptGrav DEF BootOscillatorFails, Idle, EarlyPcs, LoopPcs, TripPcs
<1>4. CASE Halted
  BY <1>4 DEF Halted, vars, GravInv, WordInv, CacheInv, AnyTx
<1>5. CASE BusPowered
  BY <1>5, ScriptGrav DEF BusPowered, Idle, EarlyPcs, LoopPcs, TripPcs
<1>6. CASE BusUnpowered
  <2>1. call = Idle /\ pc = "bus" /\ pc' = "cal_a" /\ UNCHANGED <<regs, mode, grav_mode>>
        /\ call'.fn = "tx_off" /\ call'.at = 1
    BY <1>6 DEF BusUnpowered, Calls
  <2>. QED
    BY <2>1 DEF Idle, GravInv, WordInv, CacheInv, EarlyPcs, LoopPcs, TripPcs
<1>7. CASE Calls("main_safe", "grav_safe", "main", "safe_a")
  BY <1>7 DEF Calls, Idle, GravInv, WordInv, CacheInv, AnyTx, EarlyPcs, LoopPcs, TripPcs
<1>8. CASE \/ Calls("init_a", "init", "a", "init_b")
           \/ Calls("init_b", "init", "b", "init_main")
           \/ Calls("init_main", "init", "main", "main_safe")
           \/ Calls("safe_a", "safe", "a", "safe_b")
           \/ Calls("safe_b", "safe", "b", "bus")
           \/ Calls("cal_a", "cal", "a", "cal_b")
           \/ Calls("cal_b", "cal", "b", "resafe_a")
           \/ Calls("resafe_a", "safe", "a", "resafe_b")
           \/ Calls("resafe_b", "safe", "b", "loop")
  BY <1>1, <1>8 DEF EarlyPcs, LoopPcs, TripPcs
<1>. QED
  BY <1>2, <1>3, <1>4, <1>5, <1>6, <1>7, <1>8 DEF Boot

LEMMA LoopGrav == ASSUME IInv, GravInv, MainLoop PROVE GravInv'
<1>1. ASSUME NEW msg \in Msgs, Command(msg) PROVE GravInv'
  <2>1. call'.fn \in {"none", "rx", "tx", "safe"} /\ pc' \in {"grav", "cmd_safe_b"}
        /\ pc = "loop" /\ call = Idle
    BY <1>1 DEF Command, changeState, Idle
  <2>. QED
    BY <1>1, <2>1, ScriptGrav DEF Command, EarlyPcs, LoopPcs, TripPcs
<1>2. CASE NoCommand \/ SafetyPass \/ SafetyTrip
  BY <1>2, ScriptGrav DEF NoCommand, SafetyPass, SafetyTrip, Passes, Idle, EarlyPcs, LoopPcs,
     TripPcs
<1>3. CASE Calls("cmd_safe_b", "safe", "b", "grav")
  BY <1>3, ScriptGrav DEF Calls, EarlyPcs, LoopPcs, TripPcs
<1>4. CASE GravUpdate
  <2>1. call = Idle /\ pc = "grav" /\ pc' = "check" /\ UNCHANGED <<regs, mode, grav_mode>>
        /\ call'.fn = (IF AnyTx THEN "tx_on" ELSE "tx_off") /\ call'.at = 1
    BY <1>4 DEF GravUpdate, Calls
  <2>2. AnyTx' <=> AnyTx
    BY <2>1 DEF AnyTx
  <2>. QED
    BY <2>1, <2>2 DEF Idle, GravInv, WordInv, CacheInv, EarlyPcs, LoopPcs, TripPcs
<1>. QED
  BY <1>1, <1>2, <1>3, <1>4 DEF MainLoop

\* The trip, and every restart: nothing is asked of the main controller.
LEMMA RestartGrav == ASSUME Restart PROVE GravInv'
  BY DEF Restart, Idle, GravInv, WordInv, CacheInv, EarlyPcs, LoopPcs, TripPcs

LEMMA TripGrav == ASSUME IInv, GravInv, Trip PROVE GravInv'
<1>1. CASE SystemReset
  BY <1>1, RestartGrav DEF SystemReset
<1>2. CASE Calls("trip_main", "grav_safe", "main", "trip_reset")
  BY <1>2 DEF Calls, GravInv, WordInv, CacheInv, EarlyPcs, LoopPcs, TripPcs
<1>3. CASE \/ Calls("trip_a", "safe", "a", "trip_b")
           \/ Calls("trip_b", "safe", "b", "trip_osc")
           \/ Passes("trip_osc", "trip_main")
  BY <1>3 DEF Calls, Passes, Idle, GravInv, WordInv, CacheInv, EarlyPcs, LoopPcs, TripPcs
<1>. QED
  BY <1>1, <1>2, <1>3 DEF Trip

LEMMA NextGrav == IInv /\ GravInv /\ [Next]_vars => GravInv'
<1>. SUFFICES ASSUME IInv, GravInv, [Next]_vars PROVE GravInv'
  OBVIOUS
<1>1. CASE UNCHANGED vars
  BY <1>1 DEF vars, GravInv, WordInv, CacheInv, AnyTx
<1>2. CASE ProcessorReset \/ PowerCycle
  BY <1>2, RestartGrav DEF ProcessorReset, PowerCycle
<1>. QED
  BY <1>1, <1>2, FunctionGrav, CalibrateGrav, BootGrav, LoopGrav, TripGrav DEF Next, FirmwareStep

\* Whenever main()'s loop has followed up a command, the main controller drives
\* the DAC's output enable exactly when a channel transmits, and grav_mode,
\* which lets it skip the write, says so: for every order of commands on the
\* two channels and every restart.
LEMMA StepsDac == Steps => []DacOutputFollowsTx
<1>1. IInv /\ GravInv => DacOutputFollowsTx
  <2>. SUFFICES ASSUME IInv, GravInv, pc \in {"loop", "check"}, call = Idle
                PROVE  LET transmitting == \E a \in Afe : mode[a] = "tx"
                       IN  /\ grav_mode = "tx_on" <=> transmitting
                           /\ "TX" \in regs["main"].gpio.lines <=> transmitting
    BY DEF DacOutputFollowsTx
  <2>1. grav_mode = "tx_on" <=> \E a \in Afe : mode[a] = "tx"
    BY DEF GravInv, CacheInv, AnyTx, Afe, Idle
  <2>2. regs["main"].gpio = Word(grav_mode) /\ grav_mode \in {"safe", "tx_off", "tx_on"}
    BY DEF GravInv, WordInv, Idle, EarlyPcs, TripPcs, IInv, TypeOK
  <2>3. "TX" \in regs["main"].gpio.lines <=> grav_mode = "tx_on"
    BY <2>2 DEF Word, Gpio, GRAV_MAIN_DEFAULTS, GRAV_MAIN_POWER_ON_TX_OFF,
       GRAV_MAIN_POWER_ON_TX_ON
  <2>. QED
    BY <2>1, <2>3
<1>. QED
  BY <1>1, InitGrav, NextGrav, StepsInv, PTL DEF Steps

\* Between two calls of the loop the DAC drives its output exactly for a
\* channel in TX, and the cached mode of the main controller says so.
THEOREM DacFollows == Spec => []DacOutputFollowsTx
BY StepsDac, SpecSteps, PTL
=============================================================================
