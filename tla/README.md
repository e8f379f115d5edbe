# The Graviton firmware in TLA+

Graviton is a two-channel radio board. Its firmware (`src/main.cpp`,
`src/src/`, `src/includes/`) runs on an STM32F303K8 under a vendored copy of
mbed OS. It brings the board up, calibrates two power amplifiers, obeys one-byte
commands from an FPGA, and watches rails and temperatures so that it can make
the radio safe and restart when one is out of spec.

This directory models that firmware: TLA+ modules, TLC configurations that check
small instances, and TLAPS proofs for all values of the constants.
`PROJECT.json` maps every definition to the source lines it stands for, and
lists runs, hazards, findings and theorems.

## 1. Inventory

The firmware is **one thread, and no interrupt handler of its own is enabled**:
the one it has, in `BufferedSerial`, belongs to a class that `main.cpp` includes
and does not instantiate. Apart from that class the concurrency is between this thread and the rest of the board: converters that
keep driving what was last written to them, rails and temperatures that move,
an oscillator that may die, an FPGA that sends whenever it likes, a debug probe
or a reset pin. A processor reset clears every variable of the firmware and no
register of the converters.

| Part | Source | State it keeps | Operations | What makes it correct |
|---|---|---|---|---|
| RF front ends `afe_a`, `afe_b` | `graviton.cpp:17-77`, `amc7891.cpp` | `AMC7891::mode`, `vg_setpoint`, `vg_quiescent`; seven registers in each chip | `switch_to_rx`, `switch_to_tx`, `switch_to_safe`, `AMC7891::init` | the order of the writes: receiver and amplifier never on together, no switch moved off TX behind a conducting amplifier or to TX with its driver on; the mode cache is right |
| Main controller `afe_0` | `graviton.cpp:79-105` | `grav_mode`; GPIO word | `configure_grav_safe`, `..._tx_off`, `..._tx_on` | the DAC output is enabled exactly when a channel transmits |
| Gate calibration | `main.cpp:404-449`, `graviton.cpp:119-179` | `counts` | `calibrate_power_amplifier`, two gate conversions | ends; never leaves the range of gate codes; what it stores pinches the amplifier off |
| Boot and main loop | `main.cpp:452-742` | place in the program, `check`, `slow`, `mode_switched` | `init`, `changeState`, `main` | both channels safe and calibrated before a command is obeyed |
| Trip and reset | `main.cpp:80-118` | none (it ends in a restart) | `go_safe_and_reset` | both amplifiers off before anything slow; it does end in the restart |
| Safety monitor | `main.cpp:120-400` | `check`, `violations` of three rails, `disable_saftey_vector` | `safety_check`, `go_safe_and_reset_tolerance`, `init_broken_boards` | every fault seen in bounded time, no false trip |
| Conversions | `graviton.cpp:110-116`, `lm20.cpp`, `lm5531.cpp`, `amc7891.cpp:131` | none | counts to millivolts, degrees, milliamperes, dBm | accurate over the range of the parts; no wrap |
| SPI bus and drivers | `amc7891`, `dac3484`, `ads42lb69`, `lmk04826b`, `lmk04133` | bus format, chip selects, the DAC's reset pin; configuration of seven chips | `write_reg`, `read_reg`, `init`, `read_alarms`, `clear_alarms`, ... | each frame in the format its driver function sets; a read returns what was asked for; a dump loses no alarm but those raised within it (a restart, which resets the DAC, does lose unread ones) |
| Clock switching | `graviton.cpp:181-296`, `main.cpp:452-490` | RCC registers, `SystemCoreClock`, two baud dividers | `switch_to_ext_osc`, `switch_to_int_osc` | messages legible, no garbled command, no failure with a live oscillator |
| Command link | `main.cpp:669-705`, `RiscvInterface.hpp`, `testing/arduino_test` | a one-byte receiver, the port's transmit register, `slow` | `readable`, `getc`, `changeState`, `echoChar`, `alive`, `notifyError` | an echo means that the command was carried out, once; what was received is answered; the loop still checks |
| Buffered serial port | `BufferedSerial.cpp`, `MyBuffer.cpp` | ring buffer, transmit interrupt | `write`, `prime`, `txIrq`, `rxIrq`, `readable`, `getc` | a queue whose last byte is sent |
| mbed OS | `mbed-os/`, vendored | clock, ports | `baud`, `putc`, `attach`, RCC calls | what the above rely on |
| Build, flashing | `Makefile`, `jlink-script` | - | the probe's reset | - |

### How the parts interact

* `main` calls everything. Calls are plain function calls, and a callee is done
  when it returns, but a *register write* takes effect on the radio at once.
  The grain of the models is therefore one register write, one bus operation or
  one HAL call.
* `safety_check` and `calibrate_power_amplifier` call `go_safe_and_reset`, which
  never returns: it can cut off a boot with the other channel in any state.
* Shared state that is written in one part and trusted in another: `mode`
  (early returns in the switch functions, the DAC decision in `main`),
  `grav_mode`, `vg_setpoint` and `vg_quiescent` (stored by calibration, used by
  the switches), the SPI format (every driver changes it), `SystemCoreClock`
  (read when a baud divider is computed), the alarm register of the DAC.
* The loop shares its thread between the FPGA and the checklist: one iteration
  obeys at most one command and makes exactly one check.
* Across a restart nothing is shared but what the chips hold.

### What is hard

Break-before-make ordering of writes; caches of hardware state that survives
the processor; a reset between any two writes; unsigned and truncating
arithmetic in a search loop and in temperature conversions; clock changes under
live serial ports; a checklist whose walk can be cut short; a stream of commands
that competes with a fault; a receiver with room for one byte; a ring shared
with an interrupt handler and no lock. The full list, by
line, is `hazards` in `PROJECT.json`.

## 2. Modules

| Module | Models | Builds on |
|---|---|---|
| `GravitonMath` | the two gate conversions, with C's division | |
| `RfControl` | modes, calibration, boot, commands, trip and resets, write by write | `GravitonMath` |
| `RfInterlock` | abstract promise of the front ends: quiet, receiving or hot, break before make | |
| `SafetyMonitor` | the checklist | |
| `Graviton` | the firmware with its monitor | `RfControl`, an instance of `SafetyMonitor` |
| `CommandChannel` | abstract promise of the link to a sender that waits | |
| `CommandLink` | receiver, loop, answers, FPGA | an instance of `CommandChannel` |
| `Fifo` | abstract promise of a ring | |
| `BufferedSerial` | both rings, the thread and the handler | an instance of `Fifo` |
| `SpiBus` | the drivers as bus operations, and the program as driver calls | |
| `Clock` | clock switching, dividers, oscillator, receiver | |
| `Thermal` | temperature, register, reading, decision | `GravitonMath` |
| `RfControl_proof`, `SafetyMonitor_proof`, `CommandLink_proof`, `BufferedSerial_proof`, `SpiBus_proof`, `Clock_proof`, `Thermal_proof` | theorems | the module proved about |
| `Graviton_proof` | theorems of the composition | `Graviton`, `RfControl_proof`, an instance of `SafetyMonitor_proof` |
| `MC*` | instances for TLC | the module checked |

`RfControl` composes front ends, main controller, calibration, boot, loop and
trip, because their properties are about each other. `SpiBus`, `Clock`,
`CommandLink` and `SafetyMonitor` look at the same program from another side and
abstract from what `RfControl` has: each keeps the whole script of `init`, `main`
and `go_safe_and_reset` as far as it touches its own subject. `Graviton` puts two
of these sides together again.

A definition named after another with a mistake appended
(`switch_to_rx_lna_first`) is that definition with a plausible mistake. No
specification uses it. It exists to check that a property notices.

### RfControl

*State.* `regs` is what the three AMC7891s hold: `power` (reset, converter only,
outputs driven), four DAC codes (`pa`, `vg`, `sw`, `txlna`), the GPIO word and
its direction; `Unset` is a register not written since the chip was reset.
`mode`, `vg_setpoint`, `vg_quiescent`, `grav_mode` and `counts` are the
variables of those names. `pc` and `call` are the place in the program: the next
statement of `main`, `init` or `go_safe_and_reset`, and the function it is in.
`cutoff` is history: the last calibration's pinch-off code, which outlives the
restart that clears `vg_quiescent`.

*Actions.* Each function of `graviton.cpp` is a disjunction of its statements,
in order; `Stmt(k, cond, reg, val)` is the k-th, a write guarded by the
condition the code writes it under. `ReturnAfe` records the mode last, as the
code does. `Calibrate` is the loop of `calibrate_power_amplifier` statement by
statement. `Boot`, `MainLoop` and `Trip` are the scripts. `ProcessorReset`
restarts the processor and leaves `regs`; `PowerCycle` clears both.

*Environment.* Whether the amplifier draws 100 mA at a code, whether the bus
sags, whether the oscillator works, whether a rail is in spec, which byte comes:
nondeterministic. *Left out:* the converter and temperature configuration (in
`SpiBus`), telemetry, printing, and the `changeState(21)` and `changeState(2)`
that `main` issues every 10000 iterations (they write no AMC7891 output; they
are in `SpiBus`). The effect of the oscillator switch on the clock is `Clock`'s.

*Refinement.* `RfInterlock` has one variable, the state of each channel, and
three kinds of steps. `ImplementsInterlock` is its specification, by `INSTANCE
RfInterlock WITH rf <- rf`, where `rf` is computed from the registers: a channel is receiving if its LNA is enabled, hot
if its amplifier is driven on with a gate below its pinch-off code.

### SafetyMonitor

*State.* `check`, the disable vector, the `violations` of the three rails with
a soft bottom; `value` is what each of the 22 items would read now and drifts
freely. `low` counts low readings in a row, and `age` how many checks ran while
item `probe` stayed out of spec; `probe` is any item, fixed in the initial state,
so one history stands for all.

*Actions.* One call of `safety_check` is one step: `StartOver` is the default
case that returns 0; `HardFault`, `SoftFault`, `Tolerate` and `InSpec` are the
outcomes for an enabled item. A call reads one value, once, so nothing
can fall within it. `RepeatTol` counts *visits* to a rail, and the list
is walked one item per loop iteration, so 100 tolerated readings last 100 walks
of 23 calls. `Reset` is the end of the trip and boot as one step.

### Graviton

*State.* That of both modules; `stage` is what `SafetyMonitor` calls `pc`.
`obeyed` is history: commands obeyed while the probe stayed out of spec.

*Actions.* The two share a thread, so a step of one is a step of both where they
meet. `CheckPasses` and `CheckTrips` resolve `RfControl`'s free choice of the
check's outcome by what the monitor decides. `BootFinishes` is the return from
`init`'s last call and `init_broken_boards`. `Restarts` is the end of a trip, the
monitor's or a calibration's. `Obeys`, `Idles` and `Elsewhere` are the steps the
monitor does not see, and `Drift` the one the firmware does not see: a rail may
fail between any two register writes.

### CommandLink

*State.* `rdr` is the receiver's one byte, `line` what is being sent to the FPGA
(one line at a time, as the port blocks), `val`, `slow` and `mode` the variables
of those names, `dac` the output enable of `configure_grav_on_...`, `reports` the
counter of the trip's error reports. `sent` is the command a *patient* FPGA waits
for; an FPGA that is not patient sends whenever it likes, as `arduino_test.ino`
does. `done`, `applied`, `answered` and `quiet` are history.

*Actions.* One per step of the loop between two places where the port matters:
the alive message, the read, `changeState`, the dump to the FPGA, the echo, the DAC
decision, the check. `Trips`, `NotifyError`, `SystemReset`, `Listens`, `BootFails`
and `Ready` are trip and boot, `ProcessorReset` the probe. `Send` fills the
receiver, or is lost: on a full one (overrun), or before `fpga.baud()`. `Hear` is
the FPGA getting a line.

*Refinement.* `CommandChannel` is what a patient sender may assume: an answered
command was carried out, once, and nothing is carried out but what it waits for.
A command may stay unanswered. The mapping is `cmd <- sent`; the other variables
have the same names.

### BufferedSerial

*State.* The ring with its two indices, the port's register `out`, whether the
transmit interrupt is on, whether the handler runs, where the thread is and the
rest of its string. A behaviour has one direction, since the two share nothing
but the handler.

*Actions.* The thread's accesses to memory and the port, one by one, with the
handler between any two of them. `_buf[_wloc++] = data` is two stores in an order
the compiler chooses (only the index is volatile), so both are modelled.

*Refinement.* `Fifo` is a queue that is emptied by one byte too many. The bytes
between the indices, read modulo the ring, are the queue. `Fifo!Oldest` is the queue
that `MyBuffer.h` documents, in which only the oldest byte, or the new one, is lost;
the ring is not that one (finding 4). There are two exceptions, which `Fifo` states and confines by `amid`: a handler between the two stores of
a put takes a byte that is not there yet, and a receiver lapped between
`readable()` and `getc()` gives back an old one.

### SpiBus

*State.* The bus format, the selected chips, what the last frame returned, for
each AMC7891 its configuration and the register it will answer for, and the
DAC's alarms and reset pin. `todo` is the rest of the current driver call, a sequence of bus
operations. `taken` is the last value `read_reg` returned, `read` and `seen`
are history about alarms.

*Actions.* A driver function is an operator that gives its operations
(`read_reg` is two frames, since the answer comes with the next one). `BusStep`
performs one. The scripts choose driver calls. Channels of one kind are one
register, and what is programmed into the clock chips and the converter is one
value, `rom`. A restart may fall between any two operations. The constructor of
`DAC3484` drives the reset pin low (`dac3484.cpp:28`) and `init` releases it, after the
telemetry dump of boot: each restart makes the DAC forget its alarms, read or not.

### Clock

*State.* The clock control registers, `SystemCoreClock`, for each port its rate
and the bus clock its divider is for, the receiver of the FPGA's port, the pin
that powers the oscillator, and whether that oscillator lives.

*Actions.* The two switch functions register write by register write, then the
HAL calls with their time-outs and refusals. The hardware's rules are modelled:
a source of the system clock cannot be turned off, the PLL's source cannot change
while it runs. The external oscillator may die or recover whenever the clock
does not come from it (when it does, the processor stops, and so does the model).

### Thermal

One reading at a time: the temperature of a part, in eighths of a degree, becomes
a register or a converter code, goes through the firmware's 32-bit unsigned
arithmetic and is compared with the part's limit. The sensors are modelled by
their transfer functions and the limits are those of `safety_check`.

## 3. Runs

Every run finishes within a minute or so, `MCGraviton` in two. State counts are distinct states.

| Run | States | Question |
|---|---|---|
| `MCRfControl` | 447532 | Do the interlocks hold through boot, calibration, all kinds of command, trips, and a reset or supply failure between any two writes? |
| `MCSafetyMonitor` | 665388 | No false trip, no tolerated reading too many, no fault older than a walk of the list? |
| `MCGraviton` | 901025 | With no reset from outside: does a lasting fault make the radio safe, how many commands are obeyed before it does, does every trip end in the reset and every boot end, is the radio off while nothing supervises it? |
| `MCCommandLink` | 99496 | What does an echo mean, is every received command answered, do checks and alive messages survive a stream of commands? |
| `MCBufferedSerial` | 107056 | Is each ring a queue that a lap empties, and is nothing left in it once the thread stops writing? |
| `MCSpiBus` | 45358 | Right chip and format for every frame, right register and gain for every reading, no alarm lost by a dump but those raised within it? |
| `MCClock` | 189 | Legible messages, 72 MHz in the loop, no garbled command, no failure with a live oscillator? |
| `MCThermal` | 7585 | Are readings right to a degree and trips right to two, from 0 to 130 degrees? |
| `MCSafetyMonitorBroken`, `MCClockFailure`, `MCThermalCold`, `MCBufferedSerialLap` | - | the findings below |

### What the properties say

*RfControl.* `PaGateBounded`: no amplifier is on with a gate code below 204
(about -2 V), in calibration, in a mode switch or across a reset.
`LnaProtected`, `DriveGoesToAntenna`, `NoHotSwitching`: the three hazards the
order of writes avoids (the last: the switch leaves TX only behind an amplifier that does
not conduct, and goes to TX, where the gate is already at its set point, only while
the transmit LNA is off). `DrivenOutputsAreProgrammed`: no output is enabled before
it was written. `ModeMatchesHardware`: the mode cache agrees with all seven
registers. `DacOutputFollowsTx`: the main DAC's output follows the two modes.
`CalibrationSound`: stored codes are in range and in order.
`SafeWhenUnsupervised`, `TripLeadsToReset`, `BootEnds`: what a trip and a boot
must do; checked in `MCGraviton`, where the monitor causes the trips. `ImplementsInterlock`: the refinement.

*SafetyMonitor.* `SoftLowIsBounded`, `NoFalseTrip`, `DetectedWithinOneSweep`;
`EnabledChecksRun` is the first finding.

*Graviton.* `FewCommandsUnderFault`: while a fault lasts every command costs a
check, and there are less than a walk of them, whatever the FPGA sends.
`FaultMakesRadioSafe`: a fault, from whatever mode or midst of a mode switch, ends in
the restart with both amplifiers off, unless it goes away. Both are said of an item
that no disabled item precedes; the others are never looked at (finding 1).

*CommandLink.* `ImplementsChannel`: the refinement. `CommandsAreAnswered`: what
the receiver holds is answered, unless the board restarts. `DacFollowsEcho`: the
echo of a transmit command comes before the DAC's output, but the output follows.
`ChecksNotStarved`: no stream of commands keeps the loop from its check.
`AliveInTime`: the alive message keeps its period while commands come and while
`slow` overflows.

*BufferedSerial.* `ImplementsQueue`: the refinement, for both rings; what it finds is a
byte taken twice or out of turn. `Drains`: no byte stays behind with the transmit
interrupt off. `HandsOutOldest` is finding 4.

*SpiBus.* `RightFormat`: one chip selected, in the format of the driver function that
sends the frame; (8,1) for the AMC7891s and where the DAC's ROM is written or read
back, (8,0) in every other function; and neither ROM nor current written to a DAC in
reset (the dump of boot does read and clear the alarms of one). Which of the two formats
the DAC needs the code does not say. `ReadsAreSound`. `AlarmsAccountedFor`: an
alarm that goes away was read before, or was raised between the read and the clear of
one dump, or goes with a reset of the DAC (each restart is one) or the writing of its
ROM at boot: the code offers no more.

*Clock.* `LegibleOnPll`, `LoopOnOscillator`, `NoGarbledCommand`,
`FailsOnlyWhenDead`.

*Thermal.* `Accurate`, `HeatIsSeen`, `OverheatedIsHot`.

### Bounds

* `RfControl`: `Msgs` has a byte for each branch of `changeState` and each
  channel, with two receive gains; bytes of one branch write the same registers.
  `ConductCounts` are the codes at which an amplifier may draw 100 mA: the first
  one tested (388), one inside (300), one step before the limit (205); that none
  is met is always possible as well. With resets from outside any boot may stop
  anywhere and begin on any registers. The proofs cover all bytes and codes.
* `SafetyMonitor`: readings lie on both sides of each limit of the items that
  move; the other items stay in spec, and their positions in the walk stay.
  `RepeatTol` is 2 or 1 in place of 100: enough to count, recover and count again
  on two interleaved rails. The proofs cover every tolerance and set of readings.
* `SafetyMonitor` caps its history `age` at `Sweep` = 23, one more than the
  property allows.
* `Graviton`: one reading moves, the temperature of a preamplifier (item 13; each
  further one multiplies the states, and which item it is changes only its place in the
  walk). On board 012 a disabled item precedes it, on board 007 one follows it, so that the
  guard of both properties is true of one and false of the other. The
  commands make both safe, transmit on a, and receive on b. Amplifiers that never conduct
  have the longest calibration. `RepeatTol` is 1; `SafetyMonitor`'s own run has the soft
  rails. `ExternalReset` is FALSE, since a reset from outside is exactly what makes
  `SafeWhenUnsupervised` untrue. The proofs of `FewCommandsUnderFault` and
  `SafeWhenUnsupervised` cover every item, board, command and code.
* `CommandLink`: a command of each kind the link tells apart (a dump, transmit on either
  channel, receive). `Period` is 5 and `IntMax` 11 in place of 10000 and 2^31 - 1:
  the overflow comes after two periods and a part, so that the gap across it is
  shorter than a period, as in the code (2^32 is not a multiple of 10000).
  `Reports` is 2 in place of 5. `quiet` needs no cap: `AliveInTime` bounds it.
* `BufferedSerial`: a ring of five elements holds three bytes, and a string
  of four laps it from every position of the indices; two byte values tell bytes
  apart.
* `SpiBus` has two alarms, so that one may be up while another is raised.
* `Clock` has no constants, and `Thermal` has every temperature the parts stand
  in the resolution of the finer sensor: TLC is exhaustive for both.

### Fairness

`RfControl`, `SafetyMonitor` and `Graviton` have weak fairness of the firmware's own
steps and nothing else: the processor always executes its next statement, and one of
them is always enabled. No rail has to move, no byte has to come, no amplifier
has to conduct. Calibration ends because its counter runs into the limit, and
not because current must flow. `CommandLink` adds that a line being sent is out
in the end (the port shifts by itself), and `BufferedSerial` has the
thread within a call, the handler of a pending interrupt, and the shift register;
in neither does anybody have to send or to call. The other modules check safety
only and state no fairness. Deadlock is checked in every run; the place where the code does
stop, `while(1) { }` after an oscillator failure (`main.cpp:489`), is a step that
changes nothing, in every module that has it.

### Findings

1. **Disabled checks end the walk** (`MCSafetyMonitorBroken`, `main.cpp:309`).
   A disabled item takes the default case, which returns 0. On board 012 items 13
   to 21 are never checked, the PA of channel B among them.
2. **Messages after a failed clock switch are illegible** (`MCClockFailure`,
   `main.cpp:481`). The switch has left the PLL, but `SystemCoreClock` holds the
   old frequency, from which the new divider is computed.
3. **Cold reads as hot** (`MCThermalCold`, `lm20.cpp:13`, `amc7891.cpp:133`).
   Below zero both temperature conversions wrap or misread, and the board is
   powered down as overheated.
4. **A lapped ring loses all it holds** (`MCBufferedSerialLap`, `MyBuffer.h:134`). "Pull
   the oldest element from the buffer", says `MyBuffer.h:90`, and "buffer allows
   overwriting by design" `BufferedSerial.cpp:50`. But the byte that fills the ring's last
   place makes the indices equal, and the ring empty. The firmware uses no such port.

Two more disagreements are plain from the text and have no run. "ERROR: BUS IS
POWERED. HALTING" (`main.cpp:518`) does not halt: the loop is commented out, which
`RfControl` models by `BusPowered`. And op codes 4 to 22 do something (`main.cpp:580`),
though a comment (`main.cpp:568`) says they do nothing.

## 4. Proofs

All theorems hold for every value of the constants that satisfies the assumptions
of the module: `ConstantsAssumption` (commands are bytes, codes are naturals,
`Unset` is no code), `MonitorAssumption` (a natural tolerance, each item has
integer readings, the known boards), `GravitonAssumption` (the same of the monitor inside the
composition; the suspects are items), `ThermalAssumption` (the range in which the
sensors work), `LinkAssumption` (commands are bytes, period, largest int and
number of reports are positive), `PeriodAssumption` (less than half a period is left
when `slow` overflows: 3647 of 10000), `BufferAssumption` (the size of a ring, its bytes
and the longest string written). TLC evaluates all of them in the runs.

**`RfControl_proof`.** The safety invariants are not inductive: that the gate is
cold while the switch leaves TX depends on where in the function the program is, on
the mode it started from and on what calibration stored. `IInv` adds this:
`ControlInv` says from where each function is called; `Settled` that a channel at
rest has the registers of its cached mode (or of the end of its calibration);
`RxProgress`, `TxProgress`, `SafeProgress` and `CalProgress` what the registers
and `counts` are at each statement of a function, given that mode; `Calibrated`
what the stored codes are; `RadioInv` what holds in any place, because a reset
may come in any place. The arithmetic of the gate circuit comes in as lemmas: where
the loop starts, that it stops at or above 204, that the pinch-off code is greater
than the set point and still in ten bits. One step of the proof treats each
function. From `[]IInv` follow `TypeCorrect`, `GateBounded`, `LnaSafe`,
`DriveSafe`, `Programmed`, `ModeCache`, `CalibrationCorrect` and `SafeReset`.

The same module proves `SwitchesCold` (`NoHotSwitching`: off TX behind a cold amplifier, to
TX with the driver off) and `Implements` (the
refinement of `RfInterlock`). A step either is one of the few that restart the processor or store
a calibration, or writes at most one register of one chip; the lemma `NextKind`
says so. Then the other channel's abstract state is unchanged, and the invariant
excludes a step from receiving to hot or back.

`DacFollows` needs a second invariant, over the main
controller: between the end of boot and a trip its GPIO word is the one of
`grav_mode` (`WordInv`) and, where a command has been followed up, `grav_mode` is
the one of the two cached modes (`CacheInv`).

**`SafetyMonitor_proof`.** The tolerance counter equals the number of low
readings in a row (`CountIsExact`), which gives `MonitorTypes`,
`ToleranceBounded` and `TripsAreJustified`. `DetectedInTime` needs a bound on
the age of a fault by the distance the walk has gone since it last looked at
the item (`AgeInv`), and that a walk does not start over before an item which
no disabled item precedes.

Both modules prove their lemmas from `Steps`, the specification without its fairness:
that is what a larger system implements, and safety needs no more.

**`Graviton_proof`.** The composition implements both of its parts. Every step of it is
a step of `RfControl` or leaves the radio alone (`RadioImplemented`); so everything
proved of the radio's `Steps` holds beside the monitor: the four interlock invariants
(`RadioSafe`), the refinement of `RfInterlock`, `NoHotSwitching` and the DAC output
(`RadioSequenced`), and, when nothing but a trip resets the board, both amplifiers off at
its restart and through the boot up to calibration (`TripLeavesRadioOff`). Seen through `stage`, every step is one of `SafetyMonitor` or
leaves it alone (`MonitorImplemented`): restarts, trips of a calibration and the
commands between two checks included. `SupervisionHolds` then takes justification, tolerance
and the bound on detection from an instance of the monitor's own proof.
`CommandsAreFew` (`FewCommandsUnderFault`) is about both: `StageInv` says where the
firmware is in each stage of the monitor; `AgeInv` bounds the age of the probe's
fault by the part of the walk since the probe was looked at; `CountInv` says that
`obeyed` is at most `age`, plus the one command for which `main` still owes a check. A
trip in a calibration, which restarts a monitor that never began, is why the first of
these is needed.

**`CommandLink_proof`.** `LinkTypes`, the refinement `LinkImplementsChannel`, and
`HelloInTime` (`AliveInTime`).
The invariant says that a command that is waited for and not yet carried out is in
one place: in the receiver, in the loop's hand before `changeState`, or lost; and that
an echo on the line, or about to be printed, is of a command carried out. A
restart empties the receiver and the hand, which is why no command comes back after
the FPGA has given it up. For `HelloInTime`, `Steady` says that the iterations since
the last "hello" are what `slow` says modulo the period. It fails from an overflow
until the next "hello", where they are the part of a period before the overflow and
the part after it (`Across`), at most twice the former and one, hence the assumption.

**`BufferedSerial_proof`.** The refinement `RingImplementsQueue`, and `RingTypes`, for
every size of the ring. Both indices are reduced modulo `M`, the size less one, and one
of them may be seen before it is reduced. The lemmas `WrappedIs`, `Distance` and
`Contents...` say what the bytes between two such indices are when one is put, taken, or
an index is reduced, and `Lapped` that the byte that fills the ring empties it. The
invariant says what the thread holds in each place and that `prime` has the port to
itself while it fills it, which is why a thread and a handler that both take bytes
never take the same one. Then every step is one of `Put`, `Take`, `Replay` and `Deliver` of
`Fifo`, or leaves the queue alone.

**`SpiBus_proof`.** What a frame needs (format, one chip selected, gain) was set up some
statements before it, in a driver function that a restart may cut short. The invariant
therefore speaks of what is left of the current call: `Runs(s, ops, Q)` says that
the operations `ops`, begun in state `s`, send every frame to its chip in the format of
its driver function, its ROM and its current to a DAC out of reset, and end in a state with `Q`. Each driver function gets such a triple, sequences of
functions by composition (`HarmlessThen`); an operation of the bus takes
`Runs` of the rest to the next state, and `ProgramInv` says that each call of the
script finds what its triple starts from, in particular that before `init` has set up a
converter nothing reads it. From it follow `FramesFit` (`RightFormat`),
`ReadingsSound` (`ReadsAreSound`) and, as an action property, `AlarmsSeen`
(`AlarmsAccountedFor`), for every set of alarm flags, where a run has a few.

**`Clock_proof`.** A switch function is seen as three kinds of step: within it the
PLL is left and not taken up again, it succeeds, or it fails. `IInv` says at each place
of the script what the PLL is fed from (`ClockInv`), that the HAL's belief is true
while it is used (`HalInv`), how far a switch has come (`SwitchInv`), and for which
clock the dividers and the receiver were set (`PortInv`). All five properties follow.
`Clock` has no constants, so that TLC decides the same; the proof says why it holds. TLC also
checked `IInv` from every state that satisfies it (122,912), reachable or not.

**`Thermal_proof`.** `ReadingsAccurate` (`Accurate`) and `HeatTripsJustified`
(`OverheatedIsHot`) have the hypothesis `Warm`: no part is below freezing. It is
not for the prover's sake, without it both are false, which is finding 3. Between 0 and
130 degrees `AfeNear` and `LM20Near` follow the truncations of the register, of the
converter, of `get_mv` and of the last division: together they lose less than a degree.
`HeatSeen` (`HeatIsSeen`) has no hypothesis: the wrapped readings err to the hot side.

*Only model-checked:* liveness (`TripLeadsToReset`, `BootEnds`,
`FaultMakesRadioSafe`, `CommandsAreAnswered`, `DacFollowsEcho`, `ChecksNotStarved`,
`Drains`), which the prover does not treat, and the four findings, which are
counterexamples. Every safety property of the passing runs, invariant or action
property, is stated by a theorem; `AliveInTime`, `Accurate` and `OverheatedIsHot` under
the hypothesis named with them.

## 5. Not modelled

* **Rail, current and power conversions**: they are linear or a logarithm in
  floating point. Those that matter end in `SafetyMonitor`, which starts from their
  results; the rest is only printed.
* **Contents of the chips' ROM tables**, wording of messages, waits, and `printf`'s
  failure on a string longer than its buffer.
* **Most of mbed OS.** It is vendored, and nearly all of the 1.1 million lines under
  `src/` are its drivers for other boards, its RTOS, network stacks and DSP tables,
  none of which this firmware runs. What the firmware's correctness turns on is
  translated from there: the HAL's clock configuration and `serial_baud` (`Clock`), the
  receiver and blocking writes (`CommandLink`), the port's interrupt and its enabling
  (`BufferedSerial`). The share of all lines that `map` covers is therefore small; of
  the firmware's own code, what is left out is named in this section.
* **`RiscvInterface::boot` and `enable_saftey_check`** have no caller.

## 6. Plan

Done: `GravitonMath`, `RfControl`, `RfInterlock` and their proofs; `SafetyMonitor` and its
proofs; `SpiBus`, `Clock` and `Thermal` and their proofs; `CommandLink` with
`CommandChannel` and the proof of the refinement; `BufferedSerial` with `Fifo` and the
proof of the refinement; `Graviton`, the composition, with the proof that it implements
both of its parts.

Left, in this order:

1. What liveness rests on, as far as a safety theorem says it: a rank that every
   statement of a boot or a trip lowers, so that only a halted or restarted processor
   can keep the one from its loop and the other from its reset.
2. The unsigned `v29_bus - 100` and the logarithm of a zero reading, if the
   conversions are given ranges.
