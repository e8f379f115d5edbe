---------------------------- MODULE Clock_proof ----------------------------
(***************************************************************************)
(* What the two switch functions do to the clock, and with it the ports    *)
(* that hang on it, wherever the external oscillator dies.  A switch is    *)
(* seen as three kinds of step: within it the PLL is left and not taken up *)
(* again; it succeeds, on the PLL of its oscillator; or it fails, on the   *)
(* internal oscillator without the PLL, and only the external one can.     *)
(***************************************************************************)
EXTENDS Clock, TLAPS

\* The dividers for 115200 baud from the PCLK of 32 or 36 MHz.
Divider(pclk) == [rate |-> 115200, pclk |-> pclk]

OnPll(source) == rcc.sw = "pll" /\ rcc.src = source

BootPlaces == {"init", "banner_baud", "banner", "osc_en"}
FailPlaces == {"fail_baud_pc", "fail_baud_fpga", "halted"}
OscPlaces  == {"baud_pc", "baud_fpga", "ready", "loop"}
TripPlaces == {"trip_int", "trip_osc_en", "trip_ext", "tripped"}

\* What the HAL believes of the PLL is true.
HalInv == rcc.sw = "pll" => rcc.ppre1 = 2 /\ SystemCoreClock = Sysclk

\* How far a switch function has come.
SwitchInv ==
  /\ at > 1 => pc \in {"ext", "trip_int", "trip_ext"}
  /\ at > 2 => rcc.sw = "hsi"
  /\ at = 8 => rcc.src = IF pc = "trip_int" THEN "hsi" ELSE "hse"

\* The clock at each statement of the script.
ClockInv ==
  /\ pc \in BootPlaces => OnPll("hsi")
  /\ pc \in BootPlaces \cup {"ext"} \cup FailPlaces => SystemCoreClock = 64
  /\ pc \in {"ext", "trip_ext"} => osc_en
  /\ pc \in FailPlaces => rcc.sw = "hsi"
  /\ pc \in OscPlaces => OnPll("hse")
  /\ pc = "tripped" /\ rcc.sw = "pll" => rcc.src = "hse"

\* The dividers at each statement, and the receiver.
PortInv ==
  /\ pc = "banner" => baud["pc"] = Divider(32)
  /\ pc \in {"baud_fpga", "ready", "loop"} \cup TripPlaces => baud["pc"] = Divider(36)
  /\ pc \in {"ready", "loop"} \cup TripPlaces => baud["fpga"] = Divider(36)
  /\ pc \in {"ready", "loop"} => rx # "garbled"

IInv == TypeOK /\ HalInv /\ SwitchInv /\ ClockInv /\ PortInv

-----------------------------------------------------------------------------
(* The steps of a switch.                                                  *)

Within(here, source) ==
  /\ pc = here /\ pc' = here /\ at' \in 2 .. 8
  /\ SystemCoreClock' = SystemCoreClock
  /\ at' = 2 => rcc'.sw = rcc.sw /\ rcc'.src = rcc.src /\ rcc'.ppre1 = rcc.ppre1
  /\ at' > 2 => rcc'.sw = "hsi"
  /\ at' = 8 => rcc'.src = source

Succeeds(here, source, ok) ==
  /\ pc = here /\ pc' = ok /\ at' = 1
  /\ rcc'.sw = "pll" /\ rcc'.src = source /\ rcc'.ppre1 = 2
  /\ SystemCoreClock' = IF source = "hsi" THEN 64 ELSE 72

Fails(here, fail) ==
  /\ pc = here /\ pc' = fail /\ at' = 1
  /\ SystemCoreClock' = SystemCoreClock
  /\ rcc'.sw = "hsi"
  /\ ~(osc_en /\ alive)

Keeps == rcc' \in RccType /\ UNCHANGED <<baud, rx, osc_en, alive>>

LEMMA WriteSteps ==
  ASSUME NEW k \in 1 .. 7, NEW r \in RccType, NEW here, NEW source, pc = here, Write(k, r),
         k = 1 => r.sw = rcc.sw /\ r.src = rcc.src /\ r.ppre1 = rcc.ppre1,
         k # 1 => r.sw = "hsi",
         k = 7 => r.src = source
  PROVE  Keeps /\ Within(here, source)
BY DEF Write, Keeps, Within

\* The first five statements, the same in both functions but for the fifth.
LeavingPll ==
  \/ \E b \in BOOLEAN : Write(1, [rcc EXCEPT !.hsi = b])
  \/ LeavePll(2)
  \/ StopOscillators(3)
  \/ ResetPllSource(4)
  \/ \E b \in BOOLEAN : Write(5, [rcc EXCEPT !.hse = b])

LEMMA LeavingSteps ==
  ASSUME IInv, NEW here, NEW source, pc = here, LeavingPll
  PROVE  Keeps /\ Within(here, source)
<1>1. rcc \in RccType /\ (at > 2 => rcc.sw = "hsi")
  BY DEF IInv, TypeOK, SwitchInv
<1>2. ASSUME NEW b \in BOOLEAN
      PROVE  /\ [rcc EXCEPT !.hsi = b] \in RccType
             /\ [rcc EXCEPT !.hsi = b].sw = rcc.sw
             /\ [rcc EXCEPT !.hsi = b].src = rcc.src
             /\ [rcc EXCEPT !.hsi = b].ppre1 = rcc.ppre1
             /\ [rcc EXCEPT !.hse = b] \in RccType
             /\ [rcc EXCEPT !.hse = b].sw = rcc.sw
  BY <1>1 DEF RccType
<1>3. ASSUME NEW b \in BOOLEAN, Write(1, [rcc EXCEPT !.hsi = b])
      PROVE  Keeps /\ Within(here, source)
  <2>. DEFINE r == [rcc EXCEPT !.hsi = b]
  <2>1. r \in RccType /\ r.sw = rcc.sw /\ r.src = rcc.src /\ r.ppre1 = rcc.ppre1
    BY <1>2, Zenon
  <2>2. Write(1, r)
    BY <1>3
  <2>. HIDE DEF r
  <2>. QED
    BY <2>1, <2>2, WriteSteps
<1>4. CASE LeavePll(2)
  <2>. DEFINE r == [rcc EXCEPT !.sw = "hsi", !.ppre1 = 1]
  <2>1. r \in RccType /\ r.sw = "hsi"
    BY <1>1 DEF RccType
  <2>2. Write(2, r)
    BY <1>4 DEF LeavePll
  <2>. HIDE DEF r
  <2>. QED
    BY <2>1, <2>2, WriteSteps
<1>5. CASE StopOscillators(3)
  <2>. DEFINE p == rcc.sw = "pll"
              h == rcc.hse /\ rcc.sw = "pll" /\ rcc.src = "hse"
              r == [rcc EXCEPT !.pll = p, !.hse = h]
  <2>1. p \in BOOLEAN /\ h \in BOOLEAN
    OBVIOUS
  <2>2. at = 3 /\ Write(3, r)
    BY <1>5, Zenon DEF StopOscillators, Write
  <2>. HIDE DEF p, h
  <2>3. r \in RccType /\ r.sw = rcc.sw
    BY <1>1, <2>1 DEF RccType
  <2>. HIDE DEF r
  <2>. QED
    BY <1>1, <2>2, <2>3, WriteSteps
<1>6. CASE ResetPllSource(4)
  <2>. DEFINE r == [rcc EXCEPT !.src = "hsi"]
  <2>1. r \in RccType /\ r.sw = rcc.sw
    BY <1>1 DEF RccType
  <2>2. at = 4 /\ (Write(4, r) \/ Write(4, rcc))
    BY <1>6 DEF ResetPllSource, Write
  <2>. HIDE DEF r
  <2>. QED
    BY <1>1, <2>1, <2>2, WriteSteps
<1>7. ASSUME NEW b \in BOOLEAN, Write(5, [rcc EXCEPT !.hse = b])
      PROVE  Keeps /\ Within(here, source)
  <2>. DEFINE r == [rcc EXCEPT !.hse = b]
  <2>1. r \in RccType /\ r.sw = rcc.sw
    BY <1>2, Zenon
  <2>2. Write(5, r) /\ at = 5
    BY <1>7 DEF Write
  <2>. HIDE DEF r
  <2>. QED
    BY <1>1, <2>1, <2>2, WriteSteps
<1>. QED
  BY <1>3, <1>4, <1>5, <1>6, <1>7, Zenon DEF LeavingPll

\* The HAL's part, on an oscillator that may be dead.
LEMMA HalSteps ==
  ASSUME IInv, NEW here, NEW source \in {"hsi", "hse"}, NEW ok, NEW fail, pc = here,
         source = "hse" => osc_en, at = 8 => rcc.src = source,
         WaitFor(source, 6, fail) \/ PllOn(source, 7, fail) \/ ClockConfig(8, ok, fail)
  PROVE  /\ Keeps
         /\ \/ Within(here, source)
            \/ Succeeds(here, source, ok)
            \/ source = "hse" /\ Fails(here, fail)
<1>1. rcc \in RccType /\ at \in 1 .. 8 /\ (at > 2 => rcc.sw = "hsi")
  BY DEF IInv, TypeOK, SwitchInv
<1>2. CASE WaitFor(source, 6, fail)
  BY <1>1, <1>2 DEF WaitFor, Runs, Write, Fail, Return, Keeps, Within, Fails
<1>3. CASE PllOn(source, 7, fail)
  <2>. DEFINE on == [rcc EXCEPT !.src = source, !.pll = TRUE]
  <2>1. on \in RccType /\ on.sw = rcc.sw /\ on.src = source
    BY <1>1 DEF RccType
  <2>2. IF Runs(source) THEN Write(7, on) ELSE Fail(7, on, fail)
    <3>1. at = 7
      BY <1>3 DEF PllOn, Write, Fail, Return
    <3>. QED
      BY <1>1, <1>3, <3>1 DEF PllOn
  <2>. HIDE DEF on
  <2>. QED
    BY <1>1, <2>1, <2>2 DEF Runs, Write, Fail, Return, Keeps, Within, Fails
<1>4. CASE ClockConfig(8, ok, fail)
  <2>. DEFINE on == [rcc EXCEPT !.sw = "pll", !.ppre1 = 2]
  <2>1. on \in RccType /\ on.sw = "pll" /\ on.src = rcc.src /\ on.ppre1 = 2
    BY <1>1 DEF RccType
  <2>2. at = 8 /\ rcc.src = source
    BY <1>4 DEF ClockConfig, Fail, Return
  <2>3. IF Runs(source) THEN /\ Return(8, ok) /\ rcc' = on
                             /\ SystemCoreClock' = IF source = "hsi" THEN 64 ELSE 72
                        ELSE Fail(8, rcc, fail)
    BY <1>4, <2>2 DEF ClockConfig
  <2>. HIDE DEF on
  <2>. QED
    BY <1>1, <2>1, <2>2, <2>3 DEF Runs, Fail, Return, Keeps, Succeeds, Fails
<1>. QED
  BY <1>2, <1>3, <1>4

LEMMA ExternalSteps ==
  ASSUME IInv, NEW here \in {"ext", "trip_ext"}, NEW ok, NEW fail,
         switch_to_ext_osc(here, ok, fail)
  PROVE  Keeps /\ (Within(here, "hse") \/ Succeeds(here, "hse", ok) \/ Fails(here, fail))
<1>1. pc = here /\ osc_en /\ (at = 8 => rcc.src = "hse")
  BY DEF switch_to_ext_osc, IInv, ClockInv, SwitchInv
<1>2. \/ LeavingPll
      \/ WaitFor("hse", 6, fail) \/ PllOn("hse", 7, fail) \/ ClockConfig(8, ok, fail)
  BY Zenon DEF switch_to_ext_osc, LeavingPll
<1>. QED
  BY <1>1, <1>2, LeavingSteps, HalSteps

\* The internal oscillator can always be switched to.
LEMMA InternalSteps ==
  ASSUME IInv, NEW ok, NEW fail, switch_to_int_osc("trip_int", ok, fail)
  PROVE  Keeps /\ (Within("trip_int", "hsi") \/ Succeeds("trip_int", "hsi", ok))
<1>1. pc = "trip_int" /\ (at = 8 => rcc.src = "hsi") /\ (at > 2 => rcc.sw = "hsi")
  BY DEF switch_to_int_osc, IInv, SwitchInv
<1>2. ~(Fail(5, rcc, fail) /\ rcc.sw = "pll")
  BY <1>1 DEF Fail, Return
<1>3. \/ LeavingPll
      \/ WaitFor("hsi", 6, fail) \/ PllOn("hsi", 7, fail) \/ ClockConfig(8, ok, fail)
  BY <1>2, Zenon DEF switch_to_int_osc, LeavingPll
<1>. QED
  BY <1>1, <1>3, LeavingSteps, HalSteps

-----------------------------------------------------------------------------
(* The invariant.                                                          *)

\* As the startup code leaves it.
Started == /\ rcc = StartupRcc /\ SystemCoreClock = 64 /\ baud = StartupBaud
           /\ rx = "empty" /\ osc_en \in BOOLEAN /\ alive \in BOOLEAN
           /\ pc = "init" /\ at = 1

LEMMA StartedInv == Started => IInv
<1>1. /\ StartupRcc \in RccType /\ StartupRcc.sw = "pll" /\ StartupRcc.src = "hsi"
      /\ StartupRcc.ppre1 = 2
  BY DEF StartupRcc, RccType
<1>2. StartupBaud \in [Ports -> [rate : {9600, 115200}, pclk : {32, 36, 64}]]
  BY DEF StartupBaud
<1>. QED
  BY <1>1, <1>2 DEF Started, IInv, TypeOK, HalInv, SwitchInv, ClockInv, PortInv, Places, OnPll,
                    Sysclk, BootPlaces, FailPlaces, OscPlaces, TripPlaces

LEMMA InitInv == Init => IInv
<1>1. Init => Started
  BY Zenon DEF Init, Started
<1>. QED
  BY <1>1, StartedInv

LEMMA RestartInv == IInv /\ SystemReset => IInv'
<1>1. ASSUME IInv, SystemReset PROVE Started'
  <2>1. osc_en' = FALSE /\ alive' = alive
    BY <1>1, Zenon DEF SystemReset, Restart
  <2>2. alive \in BOOLEAN
    BY <1>1 DEF IInv, TypeOK
  <2>3. osc_en' \in BOOLEAN /\ alive' \in BOOLEAN
    BY <2>1, <2>2, Zenon
  <2>. QED
    BY <1>1, <2>3, Zenon DEF SystemReset, Restart, Started
<1>. QED
  BY <1>1, StartedInv, PTL

\* The dividers that follow from SystemCoreClock at each call of baud().
LEMMA BaudInv ==
  ASSUME IInv, NEW here, NEW port \in Ports, NEW next, Baud(here, port, next),
         <<here, port, next>> \in {<<"banner_baud", "pc", "banner">>,
                                   <<"baud_pc", "pc", "baud_fpga">>,
                                   <<"baud_fpga", "fpga", "ready">>,
                                   <<"fail_baud_pc", "pc", "fail_baud_fpga">>,
                                   <<"fail_baud_fpga", "fpga", "halted">>}
  PROVE  IInv'
<1>. DEFINE d == Pclk1(SystemCoreClock)
<1>1. /\ pc = here /\ pc' = next /\ baud' = [baud EXCEPT ![port] = Divider(d)]
      /\ rx' = IF port = "fpga" THEN "empty" ELSE rx
      /\ UNCHANGED <<rcc, SystemCoreClock, osc_en, alive, at>>
  BY DEF Baud, SetBaud, Divider
<1>2. d \in {32, 36, 64} /\ (here = "banner_baud" => d = 32)
      /\ (here \in {"baud_pc", "baud_fpga"} => d = 36)
  BY <1>1 DEF IInv, TypeOK, HalInv, ClockInv, OnPll, Sysclk, BootPlaces, FailPlaces, OscPlaces,
              Pclk1, RccType
<1>. HIDE DEF d
<1>3. TypeOK'
  BY <1>1, <1>2 DEF IInv, TypeOK, Places, Divider
<1>4. HalInv' /\ SwitchInv'
  BY <1>1 DEF IInv, HalInv, SwitchInv, Sysclk
<1>5. ClockInv'
  BY <1>1 DEF IInv, ClockInv, OnPll, BootPlaces, FailPlaces, OscPlaces
<1>6. PortInv'
  BY <1>1, <1>2 DEF IInv, PortInv, TypeOK, Ports, TripPlaces
<1>. QED
  BY <1>3, <1>4, <1>5, <1>6 DEF IInv

\* What the other statements of the script change.
Moves(here, next) ==
  /\ pc = here /\ pc' = next
  /\ UNCHANGED <<rcc, SystemCoreClock, baud, rx, alive, at>>
  /\ osc_en' \in BOOLEAN /\ (next \in {"ext", "trip_ext"} => osc_en')

LEMMA MovesInv ==
  ASSUME IInv, NEW here, NEW next, Moves(here, next),
         <<here, next>> \in {<<"init", "banner_baud">>, <<"banner", "osc_en">>,
                             <<"osc_en", "ext">>, <<"ready", "loop">>, <<"ready", "trip_int">>,
                             <<"loop", "trip_int">>, <<"trip_osc_en", "trip_ext">>}
  PROVE  IInv'
<1>1. TypeOK'
  BY DEF Moves, IInv, TypeOK, Places
<1>2. HalInv'
  BY DEF Moves, IInv, HalInv, Sysclk
<1>3. at = 1
  BY DEF Moves, IInv, TypeOK, SwitchInv
<1>4. SwitchInv'
  BY <1>3 DEF Moves, SwitchInv
<1>5. ClockInv'
  BY DEF Moves, IInv, ClockInv, OnPll, BootPlaces, FailPlaces, OscPlaces
<1>6. PortInv'
  BY DEF Moves, IInv, PortInv, TripPlaces
<1>. QED
  BY <1>1, <1>2, <1>4, <1>5, <1>6 DEF IInv

LEMMA OscEnMoves ==
  /\ OscEn("init", FALSE, "banner_baud") => Moves("init", "banner_baud")
  /\ OscEn("osc_en", TRUE, "ext") => Moves("osc_en", "ext")
  /\ OscEn("trip_osc_en", TRUE, "trip_ext") => Moves("trip_osc_en", "trip_ext")
<1>1. ASSUME NEW here, NEW next, NEW b \in BOOLEAN, OscEn(here, b, next),
             next \in {"ext", "trip_ext"} => b
      PROVE  Moves(here, next)
  BY <1>1 DEF OscEn, Moves
<1>2. "banner_baud" \notin {"ext", "trip_ext"}
  OBVIOUS
<1>. QED
  BY <1>1, <1>2, Zenon

LEMMA PassesMoves ==
  ASSUME IInv, NEW here, NEW next, Passes(here, next), next \notin {"ext", "trip_ext"}
  PROVE  Moves(here, next)
BY DEF Passes, Moves, IInv, TypeOK

\* The oscillator, the FPGA, and the loop's receiver.
LEMMA AroundInv ==
  ASSUME IInv, Oscillator \/ FpgaSends \/ Receive
  PROVE  IInv'
<1>1. UNCHANGED <<rcc, SystemCoreClock, baud, osc_en, pc, at>>
  BY DEF Oscillator, FpgaSends, Receive
<1>2. alive' \in BOOLEAN
  <2>1. alive \in BOOLEAN
    BY DEF IInv, TypeOK
  <2>2. alive' = ~alive \/ alive' = alive
    BY Zenon DEF Oscillator, FpgaSends, Receive
  <2>. QED
    BY <2>1, <2>2
<1>3. /\ rx' \in {"empty", "byte", "garbled"}
      /\ pc \in {"ready", "loop"} => rx' # "garbled"
  <2>1. CASE FpgaSends
    <3>1. pc \in {"ready", "loop"} => Legible("fpga")
      BY DEF IInv, HalInv, ClockInv, PortInv, OscPlaces, OnPll, Legible, Divider, Sysclk, Pclk1
    <3>. QED
      BY <2>1, <3>1 DEF FpgaSends
  <2>2. CASE Oscillator \/ Receive
    BY <2>2 DEF Oscillator, Receive, IInv, TypeOK, PortInv
  <2>. QED
    BY <2>1, <2>2
<1>. QED
  BY <1>1, <1>2, <1>3 DEF IInv, TypeOK, HalInv, Sysclk, SwitchInv, ClockInv, OnPll, PortInv

\* A switch keeps the invariant, whether the next statement is its own or the
\* caller's.  A failure leaves boot on the way to halting.
LEMMA SwitchingInv ==
  ASSUME IInv, Keeps,
         NEW here, NEW source, NEW ok, NEW fail,
         <<here, source, ok>> \in {<<"ext", "hse", "baud_pc">>,
                                   <<"trip_int", "hsi", "trip_osc_en">>,
                                   <<"trip_ext", "hse", "tripped">>},
         fail = IF here = "ext" THEN "fail_baud_pc" ELSE ok,
         \/ Within(here, source)
         \/ Succeeds(here, source, ok)
         \/ source = "hse" /\ Fails(here, fail)
  PROVE  IInv'
<1>1. rcc' \in RccType /\ UNCHANGED <<baud, rx, osc_en, alive>>
  BY DEF Keeps
<1>2. CASE Within(here, source)
  <2>1. TypeOK'
    BY <1>1, <1>2 DEF IInv, TypeOK, Within, Places
  <2>2. HalInv'
    BY <1>1, <1>2 DEF IInv, HalInv, Within, Sysclk
  <2>3. SwitchInv'
    BY <1>1, <1>2 DEF SwitchInv, Within
  <2>4. ClockInv'
    BY <1>1, <1>2 DEF IInv, ClockInv, Within, BootPlaces, FailPlaces, OscPlaces
  <2>5. PortInv'
    BY <1>1, <1>2 DEF IInv, PortInv, Within, TripPlaces
  <2>. QED
    BY <2>1, <2>2, <2>3, <2>4, <2>5 DEF IInv
<1>3. CASE Succeeds(here, source, ok)
  <2>1. TypeOK'
    BY <1>1, <1>3 DEF IInv, TypeOK, Succeeds, Places
  <2>2. HalInv'
    BY <1>1, <1>3 DEF HalInv, Succeeds, Sysclk
  <2>3. SwitchInv'
    BY <1>1, <1>3 DEF SwitchInv, Succeeds
  <2>4. ClockInv'
    BY <1>1, <1>3 DEF ClockInv, OnPll, Succeeds, BootPlaces, FailPlaces, OscPlaces
  <2>5. PortInv'
    BY <1>1, <1>3 DEF IInv, PortInv, Succeeds, TripPlaces
  <2>. QED
    BY <2>1, <2>2, <2>3, <2>4, <2>5 DEF IInv
<1>4. CASE source = "hse" /\ Fails(here, fail)
  <2>1. TypeOK'
    BY <1>1, <1>4 DEF IInv, TypeOK, Fails, Places
  <2>2. HalInv'
    BY <1>1, <1>4 DEF HalInv, Fails
  <2>3. SwitchInv'
    BY <1>1, <1>4 DEF SwitchInv, Fails
  <2>4. ClockInv'
    BY <1>1, <1>4 DEF IInv, ClockInv, OnPll, Fails, BootPlaces, FailPlaces, OscPlaces
  <2>5. PortInv'
    BY <1>1, <1>4 DEF IInv, PortInv, Fails, TripPlaces
  <2>. QED
    BY <2>1, <2>2, <2>3, <2>4, <2>5 DEF IInv
<1>. QED
  BY <1>2, <1>3, <1>4

LEMMA NextInv == ASSUME IInv, [Next]_vars PROVE IInv'
<1>1. CASE init
  <2>1. CASE switch_to_ext_osc("ext", "baud_pc", "fail_baud_pc")
    BY <2>1, ExternalSteps, SwitchingInv
  <2>2. CASE OscEn("init", FALSE, "banner_baud") \/ OscEn("osc_en", TRUE, "ext")
    <3>1. Moves("init", "banner_baud") \/ Moves("osc_en", "ext")
      BY <2>2, OscEnMoves, Zenon
    <3>. QED
      BY <3>1, MovesInv
  <2>3. CASE Passes("banner", "osc_en")
    BY <2>3, PassesMoves, MovesInv
  <2>4. CASE \/ Baud("banner_baud", "pc", "banner") \/ BaudAgain
             \/ Baud("fail_baud_pc", "pc", "fail_baud_fpga")
             \/ Baud("fail_baud_fpga", "fpga", "halted")
    BY <2>4, BaudInv DEF BaudAgain, Ports
  <2>. QED
    BY <1>1, <2>1, <2>2, <2>3, <2>4, Zenon DEF init
<1>2. CASE MainLoop
  <2>1. CASE Receive
    BY <2>1, AroundInv
  <2>2. CASE Passes("ready", "loop") \/ Passes("ready", "trip_int") \/ Passes("loop", "trip_int")
    BY <2>2, PassesMoves, MovesInv
  <2>. QED
    BY <1>2, <2>1, <2>2 DEF MainLoop
<1>3. CASE Trip
  <2>1. CASE switch_to_int_osc("trip_int", "trip_osc_en", "trip_osc_en")
    BY <2>1, InternalSteps, SwitchingInv
  <2>2. CASE OscEn("trip_osc_en", TRUE, "trip_ext")
    <3>1. Moves("trip_osc_en", "trip_ext")
      BY <2>2, OscEnMoves, Zenon
    <3>. QED
      BY <3>1, MovesInv
  <2>3. CASE switch_to_ext_osc("trip_ext", "tripped", "tripped")
    BY <2>3, ExternalSteps, SwitchingInv
  <2>. QED
    BY <1>3, <2>1, <2>2, <2>3, Zenon DEF Trip
<1>4. CASE Halted \/ UNCHANGED vars
  <2>1. UNCHANGED vars
    BY <1>4 DEF Halted
  <2>. QED
    BY <2>1 DEF vars, IInv, TypeOK, HalInv, Sysclk, SwitchInv, ClockInv, OnPll, PortInv
<1>. QED
  BY <1>1, <1>2, <1>3, <1>4, RestartInv, AroundInv DEF Next

\* In every reachable state, wherever the oscillator died, the clock and the
\* dividers are those of the place in the script.
THEOREM Inductive == Spec => []IInv
<1>. QED
  BY InitInv, NextInv, PTL DEF Spec

-----------------------------------------------------------------------------
\* The types hold.
THEOREM ClockTypes == Spec => []TypeOK
<1>1. IInv => TypeOK
  BY DEF IInv
<1>. QED
  BY <1>1, Inductive, PTL

\* What is printed on the PLL is legible, the messages after a trip included:
\* the second switch brings back the clock that the dividers are for.
THEOREM PllLegible == Spec => []LegibleOnPll
<1>1. IInv => LegibleOnPll
  BY DEF IInv, TypeOK, RccType, HalInv, ClockInv, PortInv, LegibleOnPll, Prints, Ports, Legible,
         OnPll, Divider, Sysclk, Pclk1, BootPlaces, FailPlaces, OscPlaces, TripPlaces
<1>. QED
  BY <1>1, Inductive, PTL

\* The main loop runs on the oscillator's 72 MHz and the HAL knows it.
THEOREM LoopClock == Spec => []LoopOnOscillator
<1>1. IInv => LoopOnOscillator
  BY DEF IInv, HalInv, ClockInv, LoopOnOscillator, OnPll, Sysclk, OscPlaces
<1>. QED
  BY <1>1, Inductive, PTL

\* No byte received with a divider for another clock reaches the main loop.
THEOREM CommandsClean == Spec => []NoGarbledCommand
<1>1. IInv => NoGarbledCommand
  BY DEF IInv, PortInv, NoGarbledCommand
<1>. QED
  BY <1>1, Inductive, PTL

\* Only a dead oscillator makes boot halt or a trip go on without it.
THEOREM FailsDead == Spec => FailsOnlyWhenDead
<1>1. ASSUME IInv, [Next]_vars PROVE [ExternalFails => ~alive]_vars
  <2>1. SUFFICES ASSUME Next, ExternalFails PROVE ~alive
    BY <1>1
  <2>2. pc \in {"ext", "trip_ext"} /\ pc' # pc
    BY <2>1 DEF ExternalFails
  <2>3. /\ \A here, ok, fail : switch_to_ext_osc(here, ok, fail) => pc = here
        /\ \A here, ok, fail : switch_to_int_osc(here, ok, fail) => pc = here
    BY DEF switch_to_ext_osc, switch_to_int_osc
  <2>4. /\ \A here, b, next : OscEn(here, b, next) => pc = here
        /\ \A here, port, next : Baud(here, port, next) => pc = here
        /\ \A here, next : Passes(here, next) => pc = here
    BY DEF OscEn, Baud, Passes
  <2>5. \/ switch_to_ext_osc("ext", "baud_pc", "fail_baud_pc")
        \/ switch_to_ext_osc("trip_ext", "tripped", "tripped")
    <3>1. ~(Halted \/ MainLoop \/ SystemReset \/ Oscillator \/ FpgaSends)
      BY <2>2, <2>4 DEF Halted, MainLoop, Receive, SystemReset, Oscillator, FpgaSends
    <3>2. init => switch_to_ext_osc("ext", "baud_pc", "fail_baud_pc")
      BY <2>2, <2>4 DEF init, BaudAgain
    <3>3. Trip => switch_to_ext_osc("trip_ext", "tripped", "tripped")
      BY <2>2, <2>3, <2>4 DEF Trip
    <3>. QED
      BY <2>1, <3>1, <3>2, <3>3 DEF Next
  <2>6. \/ Fails("ext", "fail_baud_pc")
        \/ Fails("trip_ext", "tripped")
        \/ Succeeds("ext", "hse", "baud_pc")
        \/ Succeeds("trip_ext", "hse", "tripped")
    BY <1>1, <2>2, <2>5, ExternalSteps DEF Within
  <2>7. osc_en
    BY <1>1, <2>2 DEF IInv, ClockInv
  <2>. QED
    BY <2>1, <2>6, <2>7 DEF ExternalFails, Fails, Succeeds
<1>. QED
  BY <1>1, Inductive, PTL DEF Spec, FailsOnlyWhenDead
=============================================================================
