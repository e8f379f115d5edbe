------------------------------- MODULE Clock -------------------------------
(***************************************************************************)
(* The system clock and what hangs on it.  init() and go_safe_and_reset()  *)
(* change the clock under two serial ports whose dividers were computed    *)
(* for the old one, from SystemCoreClock, the frequency the HAL believes.  *)
(*                                                                         *)
(* switch_to_ext_osc and switch_to_int_osc first write the RCC registers   *)
(* themselves, behind the HAL's back, and then call the HAL, which may     *)
(* fail: the external oscillator may be dead, and may die or recover at    *)
(* any time the clock does not come from it (when it does, the processor   *)
(* stops).  The PLL and the internal oscillator are taken to work.         *)
(***************************************************************************)
EXTENDS Naturals

VARIABLES
  rcc,              \* the clock control registers, see RccType
  SystemCoreClock,  \* the HAL's variable of that name, in MHz
  baud,             \* each port's baud rate, and the PCLK its divider is for
  rx,               \* the byte in the receiver of the FPGA's port
  osc_en,           \* the pin that powers the external oscillator
  alive,            \* environment: does the external oscillator work?
  pc,               \* the next statement of init(), main(), go_safe_and_reset()
  at                \* the next statement of the switch function being executed

vars == <<rcc, SystemCoreClock, baud, rx, osc_en, alive, pc, at>>

Ports == {"pc", "fpga"}

\* sw: the system clock; src: what feeds the PLL; ppre1: APB1's prescaler.
RccType == [hsi : BOOLEAN, hse : BOOLEAN, pll : BOOLEAN, src : {"hsi", "hse"},
            sw : {"hsi", "pll"}, ppre1 : {1, 2}]

\* The real system clock: 8 MHz, 8 / 2 * 16 MHz or 8 * 9 MHz.
Sysclk == IF rcc.sw = "hsi" THEN 8 ELSE IF rcc.src = "hsi" THEN 64 ELSE 72

\* The clock of both ports is PCLK1: on this processor's USART1 as well, once
\* the reset of USARTSW has selected it.
Pclk1(f) == f \div rcc.ppre1

\* port.baud(rate): the divider follows from the clock the HAL believes in.
SetBaud_divided_twice(port, rate) ==
  /\ baud' = [baud EXCEPT ![port] =
                [rate |-> rate, pclk |-> Pclk1(Pclk1(SystemCoreClock))]]
  /\ rx' = IF port = "fpga" THEN "empty" ELSE rx

\* Setting it disables the port for a moment, which empties its receiver.
SetBaud(port, rate) ==
  /\ baud' = [baud EXCEPT ![port] = [rate |-> rate, pclk |-> Pclk1(SystemCoreClock)]]
  /\ rx' = IF port = "fpga" THEN "empty" ELSE rx

Legible(port) == baud[port] = [rate |-> 115200, pclk |-> Pclk1(Sysclk)]

-----------------------------------------------------------------------------
(* switch_to_ext_osc() and switch_to_int_osc(), which differ in the        *)
(* oscillator they configure.  The caller is at `here'; pc moves on to     *)
(* `ok' or `fail' as the function returns.                                 *)

Write(k, r) ==
  /\ at = k
  /\ rcc' = r
  /\ at' = k + 1
  /\ UNCHANGED <<SystemCoreClock, baud, rx, osc_en, alive, pc>>

\* Leave the PLL: SW and the prescalers to 0.
LeavePll_forgotten(k) == Write(k, rcc)

LeavePll(k) == Write(k, [rcc EXCEPT !.sw = "hsi", !.ppre1 = 1])

\* HSEON and PLLON to 0; the hardware keeps what feeds the system clock.
StopOscillators(k) ==
  Write(k, [rcc EXCEPT !.pll = (rcc.sw = "pll"),
                       !.hse = (rcc.hse /\ rcc.sw = "pll" /\ rcc.src = "hse")])

\* PLLSRC to 0, which the hardware ignores while the PLL runs.
ResetPllSource(k) == Write(k, IF rcc.pll THEN rcc ELSE [rcc EXCEPT !.src = "hsi"])

Return(k, next) ==
  /\ at = k
  /\ at' = 1
  /\ pc' = next
  /\ UNCHANGED <<baud, rx, osc_en, alive>>

Fail(k, r, fail) == Return(k, fail) /\ rcc' = r /\ UNCHANGED SystemCoreClock

\* Whether an oscillator, or a PLL on it, runs once it is switched on.
Runs(source) == source = "hse" => osc_en /\ alive

\* HAL_RCC_OscConfig: wait for an oscillator, or time out.
WaitFor(source, k, fail) == IF Runs(source) THEN Write(k, rcc) ELSE Fail(k, rcc, fail)

\* HAL_RCC_OscConfig: the PLL on the oscillator, unless it is the system clock.
PllOn(source, k, fail) ==
  LET on == [rcc EXCEPT !.src = source, !.pll = TRUE]
  IN  IF rcc.sw = "pll" THEN Fail(k, rcc, fail)
      ELSE IF Runs(source) THEN Write(k, on)
      ELSE Fail(k, on, fail)

\* HAL_RCC_ClockConfig: the PLL becomes the system clock if it is locked, APB1
\* gets half of it, and SystemCoreClock is brought up to date.
ClockConfig(k, ok, fail) ==
  IF Runs(rcc.src)
  THEN /\ Return(k, ok)
       /\ rcc' = [rcc EXCEPT !.sw = "pll", !.ppre1 = 2]
       /\ SystemCoreClock' = IF rcc.src = "hsi" THEN 64 ELSE 72
  ELSE Fail(k, rcc, fail)

\* With a mistake: the failure is not returned.
switch_to_ext_osc_returns_1(here, ok, fail) ==
  /\ pc = here
  /\ \/ Write(1, [rcc EXCEPT !.hsi = TRUE])
     \/ LeavePll(2)
     \/ StopOscillators(3)
     \/ ResetPllSource(4)
     \/ Write(5, [rcc EXCEPT !.hse = TRUE])
     \/ WaitFor("hse", 6, ok)
     \/ PllOn("hse", 7, ok)
     \/ ClockConfig(8, ok, ok)

switch_to_ext_osc(here, ok, fail) ==
  /\ pc = here
  /\ \/ Write(1, [rcc EXCEPT !.hsi = TRUE])
     \/ LeavePll(2)
     \/ StopOscillators(3)
     \/ ResetPllSource(4)
     \/ Write(5, [rcc EXCEPT !.hse = TRUE])
     \/ WaitFor("hse", 6, fail)
     \/ PllOn("hse", 7, fail)
     \/ ClockConfig(8, ok, fail)

\* HSE cannot be turned off while the system clock comes from it.
switch_to_int_osc(here, ok, fail) ==
  /\ pc = here
  /\ \/ Write(1, [rcc EXCEPT !.hsi = TRUE])
     \/ LeavePll(2)
     \/ StopOscillators(3)
     \/ ResetPllSource(4)
     \/ IF rcc.sw = "pll" /\ rcc.src = "hse" THEN Fail(5, rcc, fail)
                                             ELSE Write(5, [rcc EXCEPT !.hse = FALSE])
     \/ WaitFor("hsi", 6, fail)
     \/ PllOn("hsi", 7, fail)
     \/ ClockConfig(8, ok, fail)

-----------------------------------------------------------------------------
(* The script.                                                             *)

Baud(here, port, next) ==
  /\ pc = here
  /\ SetBaud(port, 115200)
  /\ pc' = next
  /\ UNCHANGED <<rcc, SystemCoreClock, osc_en, alive, at>>

OscEn(here, on, next) ==
  /\ pc = here
  /\ osc_en' = on
  /\ pc' = next
  /\ UNCHANGED <<rcc, SystemCoreClock, baud, rx, alive, at>>

\* Printing, or anything else that leaves clock and ports alone.
Passes(here, next) ==
  /\ pc = here
  /\ pc' = next
  /\ UNCHANGED <<rcc, SystemCoreClock, baud, rx, osc_en, alive, at>>

BaudAgain_fpga_forgotten == Baud("baud_pc", "pc", "ready")

\* "Set serial port baud again (it got messed up when we changed the clock)"
BaudAgain == Baud("baud_pc", "pc", "baud_fpga") \/ Baud("baud_fpga", "fpga", "ready")

init == \/ OscEn("init", FALSE, "banner_baud")
        \/ Baud("banner_baud", "pc", "banner")
        \/ Passes("banner", "osc_en")
        \/ OscEn("osc_en", TRUE, "ext")
        \/ switch_to_ext_osc("ext", "baud_pc", "fail_baud_pc")
        \/ BaudAgain
        \/ Baud("fail_baud_pc", "pc", "fail_baud_fpga")
        \/ Baud("fail_baud_fpga", "fpga", "halted")

\* ERROR: EXTERNAL OSCILLATOR FAILED TO CONFIGURE. HALTING
Halted == pc = "halted" /\ UNCHANGED vars

\* fpga.getc(), and the command is carried out.
Receive ==
  /\ pc = "loop"
  /\ rx # "empty"
  /\ rx' = "empty"
  /\ UNCHANGED <<rcc, SystemCoreClock, baud, osc_en, alive, pc, at>>

\* Calibration and the loop may trip; both print, the loop to both ports.
MainLoop == \/ Passes("ready", "loop")
            \/ Passes("ready", "trip_int")
            \/ Receive
            \/ Passes("loop", "trip_int")

Trip_stays_internal ==
        \/ switch_to_int_osc("trip_int", "trip_osc_en", "trip_osc_en")
        \/ OscEn("trip_osc_en", TRUE, "tripped")

\* go_safe_and_reset ignores what the two switches return.
Trip == \/ switch_to_int_osc("trip_int", "trip_osc_en", "trip_osc_en")
        \/ OscEn("trip_osc_en", TRUE, "trip_ext")
        \/ switch_to_ext_osc("trip_ext", "tripped", "tripped")

\* What the startup code leaves main(): no external clock before osc_en is
\* driven, so the PLL on the internal one; the ports at their default rate.
StartupRcc == [hsi |-> TRUE, hse |-> FALSE, pll |-> TRUE, src |-> "hsi", sw |-> "pll",
               ppre1 |-> 2]

StartupBaud == [p \in Ports |-> [rate |-> 9600, pclk |-> 32]]

Init ==
  /\ rcc = StartupRcc
  /\ SystemCoreClock = 64
  /\ baud = StartupBaud
  /\ rx = "empty"
  /\ osc_en = FALSE
  /\ alive \in BOOLEAN
  /\ pc = "init"
  /\ at = 1

Restart ==
  /\ rcc' = StartupRcc
  /\ SystemCoreClock' = 64
  /\ baud' = StartupBaud
  /\ rx' = "empty"
  /\ osc_en' = FALSE
  /\ pc' = "init"
  /\ at' = 1
  /\ UNCHANGED alive

SystemReset == pc = "tripped" /\ Restart

\* The oscillator dies or recovers while the clock does not come from it.
Oscillator ==
  /\ ~(rcc.sw = "pll" /\ rcc.src = "hse")
  /\ alive' = ~alive
  /\ UNCHANGED <<rcc, SystemCoreClock, baud, rx, osc_en, pc, at>>

\* The FPGA sends a byte, at 115200 baud whatever the firmware is doing.  A
\* receiver that is not empty keeps the byte it has.
FpgaSends ==
  /\ rx = "empty"
  /\ rx' = IF Legible("fpga") THEN "byte" ELSE "garbled"
  /\ UNCHANGED <<rcc, SystemCoreClock, baud, osc_en, alive, pc, at>>

Next == init \/ Halted \/ MainLoop \/ Trip \/ SystemReset \/ Oscillator \/ FpgaSends

Spec == Init /\ [][Next]_vars

-----------------------------------------------------------------------------
Places == {"init", "banner_baud", "banner", "osc_en", "ext", "baud_pc", "baud_fpga",
           "ready", "fail_baud_pc", "fail_baud_fpga", "halted", "loop", "trip_int",
           "trip_osc_en", "trip_ext", "tripped"}

\* Where a port is printed to.
Prints(port) == \/ pc \in {"loop", "tripped"}
                \/ (port = "pc" /\ pc \in {"banner", "ready", "halted"})

\* Type invariant.
TypeOK ==
  /\ rcc \in RccType
  /\ SystemCoreClock \in {64, 72}
  /\ baud \in [Ports -> [rate : {9600, 115200}, pclk : {32, 36, 64}]]
  /\ rx \in {"empty", "byte", "garbled"}
  /\ osc_en \in BOOLEAN
  /\ alive \in BOOLEAN
  /\ pc \in Places
  /\ at \in 1 .. 8

\* Unless an oscillator failed under it, whatever the firmware prints is
\* legible: every change of the clock is followed by new dividers, or by the
\* way back to the old clock, before the next message.
LegibleOnPll ==
  \A port \in Ports : Prints(port) /\ rcc.sw = "pll" => Legible(port)

\* The loop, its waits and the SPI rate count on the oscillator's 72 MHz.
LoopOnOscillator ==
  pc \in {"ready", "loop"} => Sysclk = 72 /\ SystemCoreClock = 72

\* The byte that the loop takes for a command was received at the right rate:
\* what the FPGA sent before the last change of the clock is gone.
NoGarbledCommand == pc = "loop" => rx # "garbled"

\* Boot gives up, and a trip goes without, only for an oscillator that is
\* dead: never because it was not powered or the PLL was busy.
ExternalFails == \/ pc = "ext" /\ pc' = "fail_baud_pc"
                 \/ pc = "trip_ext" /\ pc' = "tripped" /\ rcc'.sw = "hsi"

FailsOnlyWhenDead == [][ExternalFails => ~alive]_vars

\* "Set serial port baud again (it got messed up when we changed the clock)":
\* after that, what is printed is legible.
MessagesLegible == \A port \in Ports : Prints(port) => Legible(port)
=============================================================================
