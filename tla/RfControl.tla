----------------------------- MODULE RfControl -----------------------------
(***************************************************************************)
(* The control of the two RF front ends, "a" and "b", and of the main      *)
(* board controller: boot, gate calibration, the command loop, the trip    *)
(* to safe and the reset, one SPI register write of an AMC7891 per step.   *)
(*                                                                         *)
(* The firmware is one thread with no interrupt handler, so what can fall  *)
(* between two writes is not another thread but the world: the radio is    *)
(* in the state the last write left it in, a rail sags, the debug probe or *)
(* the reset pin restarts the processor, the supply fails.  A restart of   *)
(* the processor clears its variables and leaves the AMC7891s, which have  *)
(* no reset line, exactly as they were.                                    *)
(*                                                                         *)
(* The program is a script.  pc names the next thing main(), init() or     *)
(* go_safe_and_reset() does, call the function they are in and the next    *)
(* statement of its body.                                                  *)
(***************************************************************************)
EXTENDS GravitonMath

CONSTANTS
  Msgs,           \* the command bytes the FPGA may send
  ConductCounts,  \* gate codes at which a PA may be seen to draw 100 mA
  ExternalReset,  \* may the processor or the board be reset from outside?
  Unset           \* a register not written since its chip was reset

VARIABLES
  regs,           \* the registers of each AMC7891
  mode,           \* AMC7891::mode, the mode the firmware believes
  vg_setpoint,    \* AMC7891::vg_setpoint, gate code for transmitting
  vg_quiescent,   \* AMC7891::vg_quiescent, gate code that pinches the PA off
  grav_mode,      \* what the main controller was last configured for
  counts,         \* calibrate_power_amplifier's local of that name
  pc,             \* the next step of main(), init() or go_safe_and_reset()
  call,           \* the function being executed and its next statement
  cutoff          \* history: the pinch-off code of the last calibration

vars == <<regs, mode, vg_setpoint, vg_quiescent, grav_mode, counts, pc, call, cutoff>>

memory == <<vg_setpoint, vg_quiescent, counts, cutoff>>

Afe  == {"a", "b"}
Chip == Afe \cup {"main"}

-----------------------------------------------------------------------------
(* Register values (graviton.h).                                           *)

GRAV_DAC_PA_EN_TX       == 1023
GRAV_DAC_PA_EN_RX       == 0        \* also GRAV_DAC_PA_EN_SAFE
GRAV_DAC_VGSET_SAFE     == 1023
GRAV_DAC_TX_SW_RX       == 0        \* also GRAV_DAC_TX_SW_SAFE
GRAV_DAC_TX_SW_TX       == 675
GRAV_DAC_TX_LNA_DIS_TX  == 0
GRAV_DAC_TX_LNA_DIS_RX  == 1023     \* also GRAV_DAC_TX_LNA_DIS_SAFE

\* A GPIO word: the enable lines that are high and the 7-bit attenuator.
Lines == {"ETH", "1V8", "2V5", "ADC", "TX", "LNA_DIS", "PRE_RX", "RX_EN",
          "PRE_TX", "TX_EN"}

GpioWords == [lines : SUBSET Lines, dsa : 0 .. 127]

Gpio(lines, dsa) == [lines |-> lines, dsa |-> dsa]

GRAV_AFE_RECEIVE(gain) == Gpio({"PRE_RX", "RX_EN", "PRE_TX"}, 2 * gain)
GRAV_AFE_TRANSMIT      == Gpio({"LNA_DIS", "PRE_TX", "TX_EN"}, 127)
GRAV_AFE_SAFE          == Gpio({"LNA_DIS"}, 127)

GRAV_MAIN_DEFAULTS        == Gpio({}, 0)
GRAV_MAIN_POWER_ON_TX_OFF == Gpio({"ETH", "1V8", "2V5", "ADC"}, 0)
GRAV_MAIN_POWER_ON_TX_ON  == Gpio({"ETH", "1V8", "2V5", "ADC", "TX"}, 0)

ASSUME ConstantsAssumption ==
  /\ Msgs \subseteq 0 .. 255
  /\ ConductCounts \subseteq Nat
  /\ ExternalReset \in BOOLEAN
  /\ Unset \notin Counts /\ Unset \notin GpioWords

(* power: "off" (reset), "adc" (0x6000), "dacs" (0x7E00: the DAC outputs   *)
(* are driven).  pa, vg, sw, txlna: the data of DAC0..3.  gpio: the GPIO   *)
(* output word.  dir: are the GPIO pins outputs?                           *)
Cleared == [power |-> "off", pa |-> Unset, vg |-> Unset, sw |-> Unset,
            txlna |-> Unset, gpio |-> Unset, dir |-> "in"]

Idle == [fn |-> "none", chip |-> "main", at |-> 1, gain |-> 0]

-----------------------------------------------------------------------------
(* Function bodies.  A body is the disjunction of its statements, of which *)
(* call.at enables one; the last one returns.                              *)

\* Statement k: a write of one register, if cond holds.
Stmt(k, cond, reg, val) ==
  /\ call.at = k
  /\ call' = [call EXCEPT !.at = k + 1]
  /\ regs' = IF cond THEN [regs EXCEPT ![call.chip][reg] = val] ELSE regs
  /\ UNCHANGED <<mode, grav_mode, pc, memory>>

\* Statement k: the function records the mode it has established, returns.
ReturnAfe(k, m) ==
  /\ call.at = k
  /\ call' = Idle
  /\ mode' = [mode EXCEPT ![call.chip] = m]
  /\ UNCHANGED <<regs, grav_mode, pc, memory>>

ReturnGrav(k, m) ==
  /\ call.at = k
  /\ call' = Idle
  /\ grav_mode' = m
  /\ UNCHANGED <<regs, mode, pc, memory>>

\* Here and below, a definition whose name is another's and then a mistake is
\* that definition with the mistake.  Spec uses none of them; they are for
\* checking that the properties notice the mistake.
switch_to_rx_switch_first ==
  /\ call.fn = "rx"
  /\ LET a == call.chip
     IN  \/ Stmt(1, mode[a] = "safe", "pa",    GRAV_DAC_PA_EN_TX)
         \/ Stmt(2, mode[a] # "rx",   "sw",    GRAV_DAC_TX_SW_RX)
         \/ Stmt(3, mode[a] # "rx",   "vg",    vg_quiescent[a])
         \/ Stmt(4, mode[a] # "rx",   "txlna", GRAV_DAC_TX_LNA_DIS_RX)
         \/ Stmt(5, TRUE,             "gpio",  GRAV_AFE_RECEIVE(call.gain))
         \/ ReturnAfe(6, "rx")

switch_to_rx_lna_first ==
  /\ call.fn = "rx"
  /\ LET a == call.chip
     IN  \/ Stmt(1, mode[a] = "safe", "pa",    GRAV_DAC_PA_EN_TX)
         \/ Stmt(2, TRUE,             "gpio",  GRAV_AFE_RECEIVE(call.gain))
         \/ Stmt(3, mode[a] # "rx",   "vg",    vg_quiescent[a])
         \/ Stmt(4, mode[a] # "rx",   "sw",    GRAV_DAC_TX_SW_RX)
         \/ Stmt(5, mode[a] # "rx",   "txlna", GRAV_DAC_TX_LNA_DIS_RX)
         \/ ReturnAfe(6, "rx")

switch_to_rx ==
  /\ call.fn = "rx"
  /\ LET a == call.chip
     IN  \/ Stmt(1, mode[a] = "safe", "pa",    GRAV_DAC_PA_EN_TX)
         \/ Stmt(2, mode[a] # "rx",   "vg",    vg_quiescent[a])
         \/ Stmt(3, mode[a] # "rx",   "sw",    GRAV_DAC_TX_SW_RX)
         \/ Stmt(4, mode[a] # "rx",   "txlna", GRAV_DAC_TX_LNA_DIS_RX)
         \/ Stmt(5, TRUE,             "gpio",  GRAV_AFE_RECEIVE(call.gain))
         \/ ReturnAfe(6, "rx")

switch_to_tx_lna_last ==
  /\ call.fn = "tx"
  /\ LET a == call.chip
     IN  \/ Stmt(1, mode[a] = "safe", "pa",    GRAV_DAC_PA_EN_TX)
         \/ Stmt(2, mode[a] # "tx",   "vg",    vg_setpoint[a])
         \/ Stmt(3, mode[a] # "tx",   "sw",    GRAV_DAC_TX_SW_TX)
         \/ Stmt(4, mode[a] # "tx",   "txlna", GRAV_DAC_TX_LNA_DIS_TX)
         \/ Stmt(5, mode[a] # "tx",   "gpio",  GRAV_AFE_TRANSMIT)
         \/ ReturnAfe(6, "tx")

switch_to_tx_switch_last ==
  /\ call.fn = "tx"
  /\ LET a == call.chip
     IN  \/ Stmt(1, mode[a] = "safe", "pa",    GRAV_DAC_PA_EN_TX)
         \/ Stmt(2, mode[a] # "tx",   "gpio",  GRAV_AFE_TRANSMIT)
         \/ Stmt(3, mode[a] # "tx",   "vg",    vg_setpoint[a])
         \/ Stmt(4, mode[a] # "tx",   "txlna", GRAV_DAC_TX_LNA_DIS_TX)
         \/ Stmt(5, mode[a] # "tx",   "sw",    GRAV_DAC_TX_SW_TX)
         \/ ReturnAfe(6, "tx")

\* Already transmitting: the early return is a body with no write.
switch_to_tx ==
  /\ call.fn = "tx"
  /\ LET a == call.chip
     IN  \/ Stmt(1, mode[a] = "safe", "pa",    GRAV_DAC_PA_EN_TX)
         \/ Stmt(2, mode[a] # "tx",   "gpio",  GRAV_AFE_TRANSMIT)
         \/ Stmt(3, mode[a] # "tx",   "vg",    vg_setpoint[a])
         \/ Stmt(4, mode[a] # "tx",   "sw",    GRAV_DAC_TX_SW_TX)
         \/ Stmt(5, mode[a] # "tx",   "txlna", GRAV_DAC_TX_LNA_DIS_TX)
         \/ ReturnAfe(6, "tx")

switch_to_safe_enable_first ==
  /\ call.fn = "safe"
  /\ \/ Stmt(1, TRUE, "power", "dacs")
     \/ Stmt(2, TRUE, "pa",    GRAV_DAC_PA_EN_RX)
     \/ Stmt(3, TRUE, "vg",    GRAV_DAC_VGSET_SAFE)
     \/ Stmt(4, TRUE, "sw",    GRAV_DAC_TX_SW_RX)
     \/ Stmt(5, TRUE, "txlna", GRAV_DAC_TX_LNA_DIS_RX)
     \/ Stmt(6, TRUE, "gpio",  GRAV_AFE_SAFE)
     \/ Stmt(7, TRUE, "dir",   "out")
     \/ ReturnAfe(8, "safe")

switch_to_safe_mode_kept ==
  /\ call.fn = "safe"
  /\ \/ Stmt(1, TRUE, "pa",    GRAV_DAC_PA_EN_RX)
     \/ Stmt(2, TRUE, "vg",    GRAV_DAC_VGSET_SAFE)
     \/ Stmt(3, TRUE, "sw",    GRAV_DAC_TX_SW_RX)
     \/ Stmt(4, TRUE, "txlna", GRAV_DAC_TX_LNA_DIS_RX)
     \/ Stmt(5, TRUE, "power", "dacs")
     \/ Stmt(6, TRUE, "gpio",  GRAV_AFE_SAFE)
     \/ Stmt(7, TRUE, "dir",   "out")
     \/ ReturnAfe(8, mode[call.chip])

switch_to_safe ==
  /\ call.fn = "safe"
  /\ \/ Stmt(1, TRUE, "pa",    GRAV_DAC_PA_EN_RX)
     \/ Stmt(2, TRUE, "vg",    GRAV_DAC_VGSET_SAFE)
     \/ Stmt(3, TRUE, "sw",    GRAV_DAC_TX_SW_RX)
     \/ Stmt(4, TRUE, "txlna", GRAV_DAC_TX_LNA_DIS_RX)
     \/ Stmt(5, TRUE, "power", "dacs")
     \/ Stmt(6, TRUE, "gpio",  GRAV_AFE_SAFE)
     \/ Stmt(7, TRUE, "dir",   "out")
     \/ ReturnAfe(8, "safe")

\* AMC7891::init: the software reset, then ADC and reference on, DACs off.
\* It does not touch AMC7891::mode.
amc_init ==
  /\ call.fn = "init"
  /\ \/ /\ call.at = 1
        /\ call' = [call EXCEPT !.at = 2]
        /\ regs' = [regs EXCEPT ![call.chip] = Cleared]
     \/ /\ call.at = 2
        /\ call' = Idle
        /\ regs' = [regs EXCEPT ![call.chip].power = "adc"]
  /\ UNCHANGED <<mode, grav_mode, pc, memory>>

configure_grav_safe ==
  /\ call.fn = "grav_safe"
  /\ \/ Stmt(1, TRUE, "gpio", GRAV_MAIN_DEFAULTS)
     \/ Stmt(2, TRUE, "dir",  "out")
     \/ ReturnGrav(3, "safe")

configure_grav_on_with_tx_off ==
  /\ call.fn = "tx_off"
  /\ \/ Stmt(1, grav_mode # "tx_off", "gpio", GRAV_MAIN_POWER_ON_TX_OFF)
     \/ ReturnGrav(2, "tx_off")

configure_grav_on_with_tx_on ==
  /\ call.fn = "tx_on"
  /\ \/ Stmt(1, grav_mode # "tx_on", "gpio", GRAV_MAIN_POWER_ON_TX_ON)
     \/ ReturnGrav(2, "tx_on")

Function == \/ switch_to_rx \/ switch_to_tx \/ switch_to_safe \/ amc_init
            \/ configure_grav_safe \/ configure_grav_on_with_tx_off
            \/ configure_grav_on_with_tx_on

-----------------------------------------------------------------------------
(* The script.                                                             *)

\* The script is at `here': call fn for chip and go on at `next'.
Calls(here, fn, chip, next) ==
  /\ call = Idle
  /\ pc = here
  /\ call' = [fn |-> fn, chip |-> chip, at |-> 1, gain |-> 0]
  /\ pc' = next
  /\ UNCHANGED <<regs, mode, grav_mode, memory>>

\* The script is at `here' and goes on at `next' with nothing to write.
Passes(here, next) ==
  /\ call = Idle
  /\ pc = here
  /\ pc' = next
  /\ UNCHANGED <<regs, mode, grav_mode, call, memory>>

-----------------------------------------------------------------------------
(* calibrate_power_amplifier(a).  at: 1 VGSET to the start; 2 PA on;       *)
(* 3 the loop test; 4 the checks after a step down; 5 back off by two;     *)
(* 6 PA off; 7 store the results.                                          *)

StartCounts == conv_mv_to_dac_counts_for_vgg_circuit(-3800)

LimitPassed_never(c) == FALSE

LimitPassed_at_1900(c) == conv_dac_counts_to_mv_for_vgg_circuit(c) > -1900

LimitPassed(c) == conv_dac_counts_to_mv_for_vgg_circuit(c) > -2000

PinchOff_upwards(c) == conv_mv_to_dac_counts_for_vgg_circuit(
                          conv_dac_counts_to_mv_for_vgg_circuit(c) + 100)

PinchOff(c) == conv_mv_to_dac_counts_for_vgg_circuit(
                  conv_dac_counts_to_mv_for_vgg_circuit(c) - 100)

SetVg(c) == regs' = [regs EXCEPT ![call.chip].vg = c]
SetPa(c) == regs' = [regs EXCEPT ![call.chip].pa = c]
Calibrating(at) == call.fn = "cal" /\ call.at = at
Goto(at)        == call' = [call EXCEPT !.at = at]
calUnchanged    == <<mode, vg_setpoint, vg_quiescent, grav_mode, pc, cutoff>>

CalStart ==
  /\ Calibrating(1)
  /\ counts' = StartCounts
  /\ SetVg(StartCounts)
  /\ Goto(2)
  /\ UNCHANGED calUnchanged

CalEnable ==
  /\ Calibrating(2)
  /\ SetPa(GRAV_DAC_PA_EN_TX)
  /\ Goto(3)
  /\ UNCHANGED <<counts, calUnchanged>>

\* The PA draws 100 mA: the loop ends.
CalConducts ==
  /\ Calibrating(3)
  /\ counts \in ConductCounts
  /\ Goto(5)
  /\ UNCHANGED <<regs, counts, calUnchanged>>

CalLower_stuck ==
  /\ Calibrating(3)
  /\ SetVg(counts)
  /\ Goto(4)
  /\ UNCHANGED <<counts, calUnchanged>>

\* It does not: one count less, a gate less negative.
CalLower ==
  /\ Calibrating(3)
  /\ counts' = counts - 1
  /\ SetVg(counts - 1)
  /\ Goto(4)
  /\ UNCHANGED calUnchanged

\* The 29 V bus has dropped by more than 100 mV: go_safe_and_reset.
CalSag ==
  /\ Calibrating(4)
  /\ call' = Idle
  /\ pc' = "trip_a"
  /\ UNCHANGED <<regs, mode, grav_mode, memory>>

\* The bus holds: go round, or give up when the gate is above -2000 mV.
CalHolds ==
  /\ Calibrating(4)
  /\ IF LimitPassed(counts) THEN counts' = StartCounts /\ Goto(5)
                            ELSE counts' = counts      /\ Goto(3)
  /\ UNCHANGED <<regs, calUnchanged>>

CalBackOff ==
  /\ Calibrating(5)
  /\ counts' = counts + 2
  /\ SetVg(counts + 2)
  /\ Goto(6)
  /\ UNCHANGED calUnchanged

CalDisable ==
  /\ Calibrating(6)
  /\ SetPa(GRAV_DAC_PA_EN_RX)
  /\ Goto(7)
  /\ UNCHANGED <<counts, calUnchanged>>

CalStore ==
  /\ Calibrating(7)
  /\ vg_setpoint'  = [vg_setpoint  EXCEPT ![call.chip] = counts]
  /\ vg_quiescent' = [vg_quiescent EXCEPT ![call.chip] = PinchOff(counts)]
  /\ cutoff'       = [cutoff       EXCEPT ![call.chip] = PinchOff(counts)]
  /\ call' = Idle
  /\ UNCHANGED <<regs, mode, grav_mode, counts, pc>>

Calibrate == \/ CalStart \/ CalEnable \/ CalConducts \/ CalLower \/ CalSag
             \/ CalHolds \/ CalBackOff \/ CalDisable \/ CalStore

-----------------------------------------------------------------------------
(* init(): the oscillator, the AMC7891s, everything safe, the I/O busses,  *)
(* the two calibrations, everything safe again.                            *)

BootOscillator == Passes("reset", "init_a")

BootOscillatorFails ==
  /\ pc = "reset"
  /\ pc' = "halted"
  /\ UNCHANGED <<regs, mode, vg_setpoint, vg_quiescent, grav_mode, counts, call, cutoff>>

\* while(1) { }
Halted == pc = "halted" /\ UNCHANGED vars

BusUnpowered == Calls("bus", "tx_off", "main", "cal_a")

\* The busses are already powered: "ERROR: BUS IS POWERED. HALTING", but
\* the loop that would halt is commented out.
BusPowered ==
  /\ call = Idle
  /\ pc = "bus"
  /\ pc' = "cal_a"
  /\ UNCHANGED <<regs, mode, vg_setpoint, vg_quiescent, grav_mode, counts, call, cutoff>>

Boot == \/ BootOscillator
        \/ BootOscillatorFails
        \/ Halted
        \/ Calls("init_a",    "init",      "a",    "init_b")
        \/ Calls("init_b",    "init",      "b",    "init_main")
        \/ Calls("init_main", "init",      "main", "main_safe")
        \/ Calls("main_safe", "grav_safe", "main", "safe_a")
        \/ Calls("safe_a",    "safe",      "a",    "safe_b")
        \/ Calls("safe_b",    "safe",      "b",    "bus")
        \/ BusUnpowered
        \/ BusPowered
        \/ Calls("cal_a",     "cal",       "a",    "cal_b")
        \/ Calls("cal_b",     "cal",       "b",    "resafe_a")
        \/ Calls("resafe_a",  "safe",      "a",    "resafe_b")
        \/ Calls("resafe_b",  "safe",      "b",    "loop")

-----------------------------------------------------------------------------
(* main()'s loop and changeState().                                        *)

AfeOf(msg)  == IF msg \div 128 = 0 THEN "a" ELSE "b"   \* CS_AFE_MASK
IsRx(msg)   == (msg \div 64) % 2 = 1                   \* CS_RX_FLAG_MASK
OpCode(msg) == msg % 64                                \* CS_OP_CODE_MASK

\* changeState(msg).  Only "safe both" needs a second call, at cmd_safe_b;
\* telemetry, DAC current and unknown codes write no AMC7891 register.
changeState(msg) ==
  LET Do(fn, chip, gain, next) ==
        /\ call' = [fn |-> fn, chip |-> chip, at |-> 1, gain |-> gain]
        /\ pc' = next
  IN  IF IsRx(msg) THEN Do("rx", AfeOf(msg), OpCode(msg), "grav")
      ELSE CASE OpCode(msg) = 0  -> Do("safe", "a", 0, "cmd_safe_b")
             [] OpCode(msg) = 3  -> Do("tx", AfeOf(msg), 0, "grav")
             [] OpCode(msg) = 22 -> Do("safe", AfeOf(msg), 0, "grav")
             [] OTHER            -> UNCHANGED call /\ pc' = "grav"

Command(msg) ==
  /\ call = Idle
  /\ pc = "loop"
  /\ changeState(msg)
  /\ UNCHANGED <<regs, mode, grav_mode, memory>>

NoCommand == Passes("loop", "check")

AnyTx_both == mode["a"] = "tx" /\ mode["b"] = "tx"

\* Either channel transmitting: enable the main DAC's output.
AnyTx == mode["a"] = "tx" \/ mode["b"] = "tx"

GravUpdate_unchecked == Calls("grav", IF AnyTx THEN "tx_on" ELSE "tx_off", "main", "loop")

GravUpdate == Calls("grav", IF AnyTx THEN "tx_on" ELSE "tx_off", "main", "check")

\* safety_check: what it decides is SafetyMonitor's subject.
SafetyPass == Passes("check", "loop")
SafetyTrip == Passes("check", "trip_a")

MainLoop == \/ \E msg \in Msgs : Command(msg)
            \/ NoCommand
            \/ Calls("cmd_safe_b", "safe", "b", "grav")
            \/ GravUpdate
            \/ SafetyPass
            \/ SafetyTrip

-----------------------------------------------------------------------------
(* go_safe_and_reset() and the resets.                                     *)

\* What a restart does to the processor: every variable initialised.
Restart ==
  /\ mode' = [a \in Afe |-> "safe"]
  /\ vg_setpoint' = [a \in Afe |-> 0]
  /\ vg_quiescent' = [a \in Afe |-> 0]
  /\ grav_mode' = "safe"
  /\ counts' = 0
  /\ pc' = "reset"
  /\ call' = Idle
  /\ UNCHANGED cutoff

SystemReset ==
  /\ call = Idle
  /\ pc = "trip_reset"
  /\ Restart
  /\ UNCHANGED regs

Trip_a_only == \/ Calls("trip_a",    "safe",      "a",    "trip_osc")
               \/ Passes("trip_osc", "trip_main")
               \/ Calls("trip_main", "grav_safe", "main", "trip_reset")
               \/ SystemReset

Trip == \/ Calls("trip_a",    "safe",      "a",    "trip_b")
        \/ Calls("trip_b",    "safe",      "b",    "trip_osc")
        \/ Passes("trip_osc", "trip_main")
        \/ Calls("trip_main", "grav_safe", "main", "trip_reset")
        \/ SystemReset

\* The reset pin or the debug probe (jlink-script's "r").
ProcessorReset == ExternalReset /\ Restart /\ UNCHANGED regs

\* The supply fails and returns: the converters come back cleared too.
PowerCycle ==
  /\ ExternalReset
  /\ Restart
  /\ regs' = [c \in Chip |-> Cleared]

-----------------------------------------------------------------------------
Init ==
  /\ regs = [c \in Chip |-> Cleared]
  /\ mode = [a \in Afe |-> "safe"]
  /\ vg_setpoint = [a \in Afe |-> 0]
  /\ vg_quiescent = [a \in Afe |-> 0]
  /\ grav_mode = "safe"
  /\ counts = 0
  /\ pc = "reset"
  /\ call = Idle
  /\ cutoff = [a \in Afe |-> 1024]    \* never calibrated: no code is cold

FirmwareStep == Function \/ Calibrate \/ Boot \/ MainLoop \/ Trip

Next == FirmwareStep \/ ProcessorReset \/ PowerCycle

\* The processor always executes its next statement.
Spec == Init /\ [][Next]_vars /\ WF_vars(FirmwareStep)

-----------------------------------------------------------------------------
(* What the registers make the radio do.                                   *)

Driven(a)     == regs[a].power = "dacs"
PaOn(a)       == Driven(a) /\ regs[a].pa = GRAV_DAC_PA_EN_TX
TxLnaOn(a)    == Driven(a) /\ regs[a].txlna = GRAV_DAC_TX_LNA_DIS_TX
SwitchAtTx(a) == Driven(a) /\ regs[a].sw = GRAV_DAC_TX_SW_TX

\* The PA is on with its gate below the pinch-off code: it conducts.
Hot(a) == PaOn(a) /\ regs[a].vg < cutoff[a]

\* The GPIO drives the receive LNA's disable line low.
LnaOn(a) ==
  /\ regs[a].dir = "out"
  /\ regs[a].gpio # Unset
  /\ "LNA_DIS" \notin regs[a].gpio.lines

\* The registers of channel a in a mode, at any receive gain.
Configured(a, m) ==
  /\ regs[a].power = "dacs"
  /\ regs[a].dir = "out"
  /\ regs[a].pa = (IF m = "safe" THEN GRAV_DAC_PA_EN_RX ELSE GRAV_DAC_PA_EN_TX)
  /\ regs[a].vg = (CASE m = "safe" -> GRAV_DAC_VGSET_SAFE
                        [] m = "rx"   -> vg_quiescent[a]
                        [] m = "tx"   -> vg_setpoint[a])
  /\ regs[a].sw = (IF m = "tx" THEN GRAV_DAC_TX_SW_TX ELSE GRAV_DAC_TX_SW_RX)
  /\ regs[a].txlna =
       (IF m = "tx" THEN GRAV_DAC_TX_LNA_DIS_TX ELSE GRAV_DAC_TX_LNA_DIS_RX)
  /\ CASE m = "safe" -> regs[a].gpio = GRAV_AFE_SAFE
       [] m = "tx"   -> regs[a].gpio = GRAV_AFE_TRANSMIT
       [] m = "rx"   -> \E g \in 0 .. 63 : regs[a].gpio = GRAV_AFE_RECEIVE(g)

\* The places of main()'s loop, the ones a safety check runs from.
InLoop == pc \in {"loop", "grav", "check", "cmd_safe_b"}

-----------------------------------------------------------------------------
(* Types.                                                                  *)

Codes == Counts \cup {Unset}

RegFile == [power : {"off", "adc", "dacs"}, pa : Codes, vg : Codes, sw : Codes,
            txlna : Codes, gpio : GpioWords \cup {Unset}, dir : {"in", "out"}]

Fns == {"none", "rx", "tx", "safe", "init", "grav_safe", "tx_off", "tx_on", "cal"}

Pcs == {"reset", "halted", "init_a", "init_b", "init_main", "main_safe", "safe_a",
        "safe_b", "bus", "cal_a", "cal_b", "resafe_a", "resafe_b", "loop",
        "cmd_safe_b", "grav", "check", "trip_a", "trip_b", "trip_osc",
        "trip_main", "trip_reset"}

\* Type invariant: every register holds a code its field has room for, and
\* every processor variable a value its C type and its assignments allow.
TypeOK ==
  /\ regs \in [Chip -> RegFile]
  /\ mode \in [Afe -> {"safe", "rx", "tx"}]
  /\ vg_setpoint \in [Afe -> Counts]
  /\ vg_quiescent \in [Afe -> Counts]
  /\ cutoff \in [Afe -> 0 .. 1024]
  /\ grav_mode \in {"safe", "tx_off", "tx_on"}
  /\ counts \in Counts
  /\ pc \in Pcs
  /\ call \in [fn : Fns, chip : Chip, at : 1 .. 8,
               gain : 0 .. 63]

-----------------------------------------------------------------------------
(* Safety.                                                                 *)

\* No PA is ever on with a gate above about -2 V (code 204), or with a gate
\* code nobody wrote: not during calibration, whose loop steps towards the
\* limit, not in the middle of a mode switch, not across a processor reset.
PaGateBounded ==
  \A a \in Afe : PaOn(a) => regs[a].vg \in 204 .. 1023

\* While a receive LNA is on, its antenna switch is at RX and its PA is cold:
\* the order of the writes in switch_to_rx, switch_to_tx and switch_to_safe.
LnaProtected ==
  \A a \in Afe : LnaOn(a) => ~SwitchAtTx(a) /\ ~Hot(a)

\* A PA that conducts is driven only into the transmit side of the switch:
\* the transmit LNA is never on into a hot PA with the switch at RX.
DriveGoesToAntenna ==
  \A a \in Afe : Hot(a) /\ TxLnaOn(a) => SwitchAtTx(a)

\* An output is never enabled before the code it drives was written:
\* switch_to_safe's enable_dacs and config_gpio come after its writes, and
\* no other function enables an output.
DrivenOutputsAreProgrammed ==
  \A a \in Afe :
    /\ Driven(a) => Unset \notin {regs[a].pa, regs[a].vg, regs[a].sw, regs[a].txlna}
    /\ regs[a].dir = "out" => regs[a].gpio # Unset

\* The early returns of the switch functions trust AFE::mode.  Between calls
\* of the main loop that cache and all seven registers agree, for every
\* sequence of commands, repeats and resets.
ModeMatchesHardware ==
  InLoop /\ call = Idle => \A a \in Afe : Configured(a, mode[a])

\* After every command has been followed up, the main board enables the DAC
\* output exactly when a channel transmits, and its cached mode says so.
DacOutputFollowsTx ==
  pc \in {"loop", "check"} /\ call = Idle =>
    LET transmitting == \E a \in Afe : mode[a] = "tx"
    IN  /\ grav_mode = "tx_on" <=> transmitting
        /\ "TX" \in regs["main"].gpio.lines <=> transmitting

\* Once the loop runs both channels are calibrated, and the stored codes are
\* in order: transmitting biases the PA within what calibration explored, and
\* receiving pinches it off by at least a code more.
CalibrationSound ==
  InLoop => \A a \in Afe : /\ vg_setpoint[a] \in 207 .. 390
                           /\ vg_quiescent[a] \in vg_setpoint[a] + 1 .. 1023
                           /\ vg_quiescent[a] = cutoff[a]

\* Nothing supervises the radio while the firmware resets, boots or halts, so
\* go_safe_and_reset must have made it safe: with no reset from outside no PA
\* is on between two calls from the end of the trip until calibration.
Unsupervised ==
  pc \in {"trip_osc", "trip_main", "trip_reset", "reset", "halted", "init_a",
          "init_b", "init_main", "main_safe", "safe_a", "safe_b", "bus", "cal_a"}

SafeWhenUnsupervised ==
  ~ExternalReset /\ Unsupervised /\ call = Idle => \A a \in Afe : ~PaOn(a)

-----------------------------------------------------------------------------
(* Action property and refinement.                                         *)

\* No antenna switch moves under power: off TX only while the PA behind it is
\* cold, so switch_to_rx pinches the gate first and switch_to_safe turns the PA
\* off first; to TX only while the driver before it is off.  (The gate is at
\* its set point by then: switch_to_tx biases a PA that nothing drives yet.)
NoHotSwitching ==
  [][\A a \in Afe :
       /\ SwitchAtTx(a) /\ Driven(a)' /\ ~SwitchAtTx(a)' => ~Hot(a)
       /\ ~SwitchAtTx(a) /\ SwitchAtTx(a)' => ~TxLnaOn(a)]_vars

rf == [a \in Afe |-> IF LnaOn(a) THEN "receiving" ELSE IF Hot(a) THEN "hot" ELSE "quiet"]

Interlock == INSTANCE RfInterlock WITH Afe <- Afe, rf <- rf

\* Register by register, the firmware keeps the break-before-make promise.
ImplementsInterlock == Interlock!Spec

-----------------------------------------------------------------------------
(* Liveness.                                                               *)

\* A trip, from the loop or from the middle of a calibration, ends in the
\* reset with both PAs off.
TripLeadsToReset ==
  pc = "trip_a" ~> pc = "reset" /\ \A a \in Afe : ~PaOn(a)

\* Boot ends: both calibration loops terminate (by conducting, by the -2000 mV
\* limit or by a trip) and the firmware reaches its loop unless it halted.
BootEnds == pc = "reset" ~> pc \in {"loop", "halted", "trip_a"}
=============================================================================
