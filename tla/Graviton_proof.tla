--------------------------- MODULE Graviton_proof ---------------------------
(***************************************************************************)
(* Proofs about Graviton, the firmware with its monitor, for every set of  *)
(* commands, every tolerance, set of readings and board: it implements     *)
(* both of its components, so that the interlocks of the radio hold in it  *)
(* as well, and no stream of commands outruns the safety checks.           *)
(***************************************************************************)
EXTENDS Graviton, RfControl_proof

\* What is proved about the monitor, for the one of the composition.
Supervisor == INSTANCE SafetyMonitor_proof WITH pc <- stage

\* Every step of the composition is one of RfControl's, or none of its.
LEMMA RadioStep == GravitonNext => [Next]_vars
<1>1. SafetyPass \/ SafetyTrip \/ Function \/ SystemReset \/ FirmwareStep \/ NoCommand
        => FirmwareStep
  BY DEF FirmwareStep, MainLoop, Trip
<1>2. ASSUME NEW msg \in Msgs, Command(msg) PROVE FirmwareStep
  BY <1>2 DEF FirmwareStep, MainLoop
<1>3. GravitonStep => FirmwareStep
  BY <1>1, <1>2 DEF GravitonStep, CheckPasses, CheckTrips, BootFinishes, Restarts,
                    Obeys, Elsewhere, Idles
<1>. QED
  BY <1>3 DEF GravitonNext, Drift, Next

\* The composition implements RfControl: the monitor only decides which way its
\* safety check goes, and the drift of the rails leaves the radio alone.
THEOREM RadioImplemented == GravitonSpec => Steps
<1>1. GravitonInit => Init
  BY DEF GravitonInit
<1>2. [GravitonNext]_allVars => [Next]_vars
  <2>1. UNCHANGED allVars => UNCHANGED vars
    BY DEF allVars
  <2>. QED
    BY <2>1, RadioStep
<1>. QED
  BY <1>1, <1>2, PTL DEF GravitonSpec, Steps

LEMMA RadioHolds == GravitonSpec => []IInv
BY RadioImplemented, StepsInv, PTL

\* The supervised radio keeps its interlocks whenever a check trips: gate codes
\* below the limit before a PA is on, no LNA behind a transmitting switch, no PA
\* driven but into the antenna, nothing enabled before it is programmed.
THEOREM RadioSafe ==
  GravitonSpec => [](/\ PaGateBounded /\ LnaProtected
                     /\ DriveGoesToAntenna /\ DrivenOutputsAreProgrammed)
<1>1. IInv => /\ PaGateBounded /\ LnaProtected
              /\ DriveGoesToAntenna /\ DrivenOutputsAreProgrammed
  BY DEF IInv, AfeInv, RadioInv, PaGateBounded, LnaProtected, DriveGoesToAntenna,
         DrivenOutputsAreProgrammed
<1>. QED
  BY <1>1, RadioHolds, PTL

\* Its steps break before they make; an antenna switch moves off TX only behind
\* a pinched-off PA and to TX only before the driver is on; and when a check comes
\* up the DAC drives its output exactly for a channel in TX.
THEOREM RadioSequenced ==
  GravitonSpec => ImplementsInterlock /\ NoHotSwitching /\ []DacOutputFollowsTx
BY RadioImplemented, StepsImplement, StepsCold, StepsDac, PTL

\* Whatever the monitor trips for, both PAs are off at the restart it causes and
\* through the boot up to calibration, unless something else resets.
THEOREM TripLeavesRadioOff == GravitonSpec => []SafeWhenUnsupervised
BY RadioHolds, OffUnsupervised, PTL

\* The monitor of Graviton and the one the proofs are about are the same.
LEMMA SameMonitor ==
  /\ Monitor!Init <=> Supervisor!Init
  /\ Monitor!Next <=> Supervisor!Next
  /\ Monitor!vars = Supervisor!vars
<1>1. /\ Monitor!Items = Supervisor!Items /\ Monitor!Soft = Supervisor!Soft
      /\ Monitor!Sweep = Supervisor!Sweep
      /\ \A i : Monitor!tolerance(i) = Supervisor!tolerance(i)
      /\ \A b : Monitor!Broken(b) = Supervisor!Broken(b)
      /\ \A i : Monitor!NextItem(i) = Supervisor!NextItem(i)
      /\ \A i : Monitor!Exhausted(i) <=> Supervisor!Exhausted(i)
  BY DEF Monitor!Items, Supervisor!Items, Monitor!Soft, Supervisor!Soft, Monitor!Sweep,
         Supervisor!Sweep, Monitor!tolerance, Supervisor!tolerance,
         Monitor!Broken, Supervisor!Broken, Monitor!NextItem, Supervisor!NextItem,
         Monitor!Exhausted, Supervisor!Exhausted
<1>2. \A i, v : Monitor!OutOfSpec(i, v) <=> Supervisor!OutOfSpec(i, v)
  <2>1. SUFFICES ASSUME NEW i, NEW v
                 PROVE  Monitor!OutOfSpec(i, v) <=> Supervisor!OutOfSpec(i, v)
    OBVIOUS
  <2>2. i \in Monitor!Soft <=> i \in Supervisor!Soft
    BY <1>1
  <2>3. Monitor!tolerance(i) = Supervisor!tolerance(i)
    BY <1>1
  <2>. QED
    BY <2>2, <2>3 DEF Monitor!OutOfSpec, Supervisor!OutOfSpec
<1>3. \A i, v : Monitor!SoftLow(i, v) <=> Supervisor!SoftLow(i, v)
  BY <1>1, <1>2, Zenon DEF Monitor!SoftLow, Supervisor!SoftLow
<1>4. /\ Monitor!Observe <=> Supervisor!Observe
      /\ Monitor!Running <=> Supervisor!Running
      /\ Monitor!Unlisted <=> Supervisor!Unlisted
  BY <1>1, <1>2, Zenon DEF Monitor!Observe, Supervisor!Observe, Monitor!Running,
         Supervisor!Running,
         Monitor!Unlisted, Supervisor!Unlisted
<1>5. Monitor!init_broken_boards <=> Supervisor!init_broken_boards
  BY <1>1, <1>2, <1>3, <1>4, Zenon DEF Monitor!init_broken_boards,
         Supervisor!init_broken_boards
<1>6. Monitor!StartOver <=> Supervisor!StartOver
  BY <1>1, <1>2, <1>3, <1>4, Zenon DEF Monitor!StartOver, Supervisor!StartOver
<1>7. Monitor!HardFault <=> Supervisor!HardFault
  BY <1>1, <1>2, <1>3, <1>4, Zenon DEF Monitor!HardFault, Supervisor!HardFault
<1>8. Monitor!SoftFault <=> Supervisor!SoftFault
  BY <1>1, <1>2, <1>3, <1>4, Zenon DEF Monitor!SoftFault, Supervisor!SoftFault
<1>9. Monitor!Tolerate <=> Supervisor!Tolerate
  BY <1>1, <1>2, <1>3, <1>4, Zenon DEF Monitor!Tolerate, Supervisor!Tolerate
<1>10. Monitor!InSpec <=> Supervisor!InSpec
  BY <1>1, <1>2, <1>3, <1>4, Zenon DEF Monitor!InSpec, Supervisor!InSpec
<1>11. Monitor!Reset <=> Supervisor!Reset
  BY <1>1, <1>2, <1>3, <1>4, Zenon DEF Monitor!Reset, Supervisor!Reset
<1>12. \A i : Monitor!Drift(i) <=> Supervisor!Drift(i)
  BY Zenon DEF Monitor!Drift, Supervisor!Drift
<1>13. Monitor!Next <=> Supervisor!Next
  BY <1>1, <1>5, <1>6, <1>7, <1>8, <1>9, <1>10, <1>11, <1>12, Zenon DEF Monitor!Next,
         Supervisor!Next, Monitor!Firmware, Supervisor!Firmware,
         Monitor!safety_check, Supervisor!safety_check
<1>14. Monitor!Init <=> Supervisor!Init
  BY <1>1, Zenon DEF Monitor!Init, Supervisor!Init
<1>15. Monitor!vars = Supervisor!vars
  BY DEF Monitor!vars, Supervisor!vars
<1>. QED
  BY <1>13, <1>14, <1>15, Zenon

\* The monitor inside the composition is SafetyMonitor: restarts, trips of a
\* calibration and commands included, no step of the firmware moves its state
\* in a way safety_check, init_broken_boards and the reset do not.
THEOREM MonitorImplemented == GravitonSpec => Supervisor!Steps
<1>1. GravitonInit => Monitor!Init
  BY DEF GravitonInit
<1>2. UNCHANGED monitorVars => UNCHANGED Monitor!vars
  BY DEF monitorVars, Monitor!vars
<1>3. ASSUME GravitonNext PROVE [Monitor!Next]_(Monitor!vars)
  <2>1. CASE CheckPasses \/ CheckTrips
    BY <2>1 DEF CheckPasses, CheckTrips, Monitor!Next, Monitor!Firmware, Monitor!safety_check
  <2>2. CASE BootFinishes \/ Restarts
    BY <1>2, <2>2 DEF BootFinishes, Restarts, Monitor!Next, Monitor!Firmware
  <2>3. CASE Obeys \/ Elsewhere \/ Idles
    BY <1>2, <2>3 DEF Obeys, Elsewhere, Idles
  <2>4. CASE Drift
    BY <2>4, GravitonAssumption DEF Drift, Monitor!Next
  <2>. QED
    BY <1>3, <2>1, <2>2, <2>3, <2>4 DEF GravitonNext, GravitonStep
<1>4. UNCHANGED allVars => UNCHANGED Monitor!vars
  BY <1>2 DEF allVars
<1>5. [GravitonNext]_allVars => [Monitor!Next]_(Monitor!vars)
  BY <1>3, <1>4
<1>6. GravitonInit => Supervisor!Init
  BY <1>1, SameMonitor
<1>7. [GravitonNext]_allVars => [Supervisor!Next]_(Supervisor!vars)
  BY <1>5, SameMonitor, Zenon DEF Monitor!vars, Supervisor!vars
<1>. QED
  BY <1>6, <1>7, PTL DEF GravitonSpec, Supervisor!Steps

\* Beside the radio too the board is powered down only for an item out of spec
\* or low too often, never goes on after more low readings than tolerated, and
\* finds a lasting fault within one walk: commands, calibrations and restarts
\* come between two checks but never in the way of one.
THEOREM SupervisionHolds ==
  GravitonSpec => /\ []Supervisor!SoftLowIsBounded
                  /\ Supervisor!NoFalseTrip
                  /\ []Supervisor!DetectedWithinOneSweep
<1>1. Supervisor!MonitorAssumption
  BY GravitonAssumption DEF Monitor!MonitorAssumption, Supervisor!MonitorAssumption,
                            Monitor!Items, Supervisor!Items
<1>2. /\ Supervisor!Steps => []Supervisor!SoftLowIsBounded
      /\ Supervisor!Steps => Supervisor!NoFalseTrip
      /\ Supervisor!Steps => []Supervisor!DetectedWithinOneSweep
  BY <1>1, Supervisor!StepsBounded, Supervisor!StepsJustified, Supervisor!StepsDetected
<1>. QED
  BY <1>2, MonitorImplemented

-----------------------------------------------------------------------------
(* Commands under a fault.  The invariant says where the firmware is in    *)
(* each stage of the monitor; that the age of the probe's fault is bounded *)
(* by how far the walk has gone since it looked at the probe; and that     *)
(* main() owes at most one check for the commands it has obeyed.           *)

BootPcs == {"reset", "halted", "init_a", "init_b", "init_main", "main_safe", "safe_a",
            "safe_b", "bus", "cal_a", "cal_b", "resafe_a", "resafe_b"}

WalkTypes ==
  /\ check \in 0 .. 22 /\ probe \in 0 .. 21 /\ DOMAIN value = 0 .. 21
  /\ age \in 0 .. 23 /\ obeyed \in 0 .. 23

StageInv ==
  \/ /\ stage = "boot"
     /\ check = 0 /\ age = 0 /\ obeyed = 0
     /\ pc \in BootPcs \cup TripPcs \/ (pc = "loop" /\ call # Idle)
  \/ stage = "loop" /\ pc \in LoopPcs
  \/ stage = "tripped" /\ pc \in TripPcs

Reached == \A d \in vector : probe < d

AgeBound == IF check > probe THEN check - probe - 1 ELSE 22 - probe + check

AgeInv == stage = "loop" /\ Reached => age <= AgeBound

Faulty == Monitor!OutOfSpec(probe, value[probe])

CountInv ==
  /\ obeyed <= age + 1
  /\ pc = "loop" => obeyed <= age
  /\ ~Faulty => obeyed = 0

WalkInv == WalkTypes /\ StageInv /\ AgeInv /\ CountInv

LEMMA InitWalk == GravitonInit => WalkInv
<1>. SUFFICES ASSUME GravitonInit PROVE WalkInv
  OBVIOUS
<1>1. /\ check = 0 /\ probe \in 0 .. 21 /\ DOMAIN value = 0 .. 21
      /\ age = 0 /\ obeyed = 0 /\ stage = "boot" /\ pc = "reset"
  BY GravitonAssumption DEF GravitonInit, Monitor!Init, Monitor!Items, Init
<1>. QED
  BY <1>1 DEF WalkInv, WalkTypes, StageInv, AgeInv, CountInv, BootPcs

\* The firmware's own steps move along the script.
LEMMA FunctionMoves == ASSUME Function PROVE pc' = pc
  BY DEF Function, switch_to_rx, switch_to_tx, switch_to_safe, amc_init,
         configure_grav_safe, configure_grav_on_with_tx_off,
         configure_grav_on_with_tx_on, Stmt, ReturnAfe, ReturnGrav

LEMMA CalibrateMoves ==
  ASSUME IInv, Calibrate
  PROVE  pc \in BootPcs /\ pc' \in {pc, "trip_a"}
<1>1. call.fn = "cal" /\ pc' \in {pc, "trip_a"}
  BY DEF Calibrate, CalStart, CalEnable, CalConducts, CalLower, CalSag, CalHolds,
         CalBackOff, CalDisable, CalStore, Calibrating, calUnchanged, memory
<1>. QED
  BY <1>1 DEF IInv, ControlInv, BootPcs

LEMMA BootMoves ==
  ASSUME Boot
  PROVE  pc \in BootPcs /\ (pc' \in BootPcs \/ (pc' = "loop" /\ call' # Idle))
<1>1. CASE Halted
  BY <1>1 DEF Halted, vars, BootPcs
<1>2. CASE BootOscillator \/ BootOscillatorFails \/ BusPowered
  BY <1>2 DEF BootOscillator, Passes, BootOscillatorFails, BusPowered, BootPcs
<1>3. ASSUME NEW here, NEW fn, NEW chip, NEW next, Calls(here, fn, chip, next)
      PROVE  pc = here /\ pc' = next /\ call' = [fn |-> fn, chip |-> chip, at |-> 1, gain |-> 0]
  BY <1>3 DEF Calls
<1>4. [fn |-> "safe", chip |-> "b", at |-> 1, gain |-> 0] # Idle
  BY DEF Idle
<1>. QED
  BY <1>1, <1>2, <1>3, <1>4, Zenon DEF Boot, BusUnpowered, BootPcs

LEMMA LoopMoves ==
  ASSUME MainLoop, call = Idle, pc \notin {"loop", "check"}
  PROVE  pc \in LoopPcs /\ pc' \in LoopPcs \ {"loop"}
BY DEF MainLoop, Command, NoCommand, GravUpdate, SafetyPass, SafetyTrip, Calls, Passes,
       LoopPcs

LEMMA TripMoves ==
  ASSUME Trip, pc # "trip_reset"
  PROVE  pc \in TripPcs /\ pc' \in TripPcs
BY DEF Trip, SystemReset, Calls, Passes, TripPcs

LEMMA ElsewhereMoves ==
  ASSUME IInv, WalkInv, Elsewhere
  PROVE  StageInv' /\ (pc' = "loop" => pc = "loop" \/ stage = "boot")
<1>. /\ UNCHANGED <<stage, check, age, obeyed>>
     /\ StageInv
     /\ pc # "check" \/ call # Idle
     /\ pc \notin {"loop", "trip_reset"} \/ call # Idle
     /\ ~(stage = "boot" /\ pc = "loop")
     /\ FirmwareStep
  BY DEF Elsewhere, monitorVars, LastOfBoot, WalkInv
<1>. USE DEF StageInv, BootPcs, LoopPcs, TripPcs
<1>1. CASE Function
  BY <1>1, FunctionMoves
<1>2. CASE Calibrate
  BY <1>2, CalibrateMoves
<1>3. CASE Boot
  BY <1>3, BootMoves
<1>4. CASE MainLoop
  <2>1. call = Idle
    BY <1>4 DEF MainLoop, Command, NoCommand, GravUpdate, SafetyPass, SafetyTrip, Calls,
                Passes
  <2>. QED
    BY <1>4, <2>1, LoopMoves
<1>5. CASE Trip
  <2>1. call = Idle
    BY <1>5 DEF Trip, SystemReset, Calls, Passes
  <2>. QED
    BY <1>5, <2>1, TripMoves
<1>. QED
  BY <1>1, <1>2, <1>3, <1>4, <1>5 DEF FirmwareStep

\* One call of safety_check: the walk goes on or the firmware trips, and
\* either way a fault gets older by one check at most.
LEMMA CheckWalks ==
  ASSUME WalkInv, pc = "check",
         \/ pc' = "loop" /\ (Monitor!StartOver \/ Monitor!Tolerate \/ Monitor!InSpec)
         \/ pc' = "trip_a" /\ (Monitor!HardFault \/ Monitor!SoftFault),
         UNCHANGED obeyed
  PROVE  WalkInv'
<1>. USE DEF WalkInv
<1>1. /\ stage = "loop" /\ Monitor!Observe
      /\ UNCHANGED <<vector, probe, value>>
      /\ age' \in 0 .. 23 /\ age' <= age + 1
      /\ ~Faulty => age' = 0
      /\ Faulty => age' > age \/ age' = 23
  BY DEF Monitor!StartOver, Monitor!Tolerate, Monitor!InSpec, Monitor!HardFault,
         Monitor!SoftFault, Monitor!Running, Monitor!Observe, Monitor!Sweep, WalkTypes, Faulty
<1>2. CountInv'
  <2>1. Faulty' <=> Faulty
    BY <1>1 DEF Faulty
  <2>2. /\ obeyed <= age + 1 /\ obeyed' = obeyed
        /\ ~Faulty => obeyed = 0
    BY DEF CountInv, WalkTypes
  <2>3. obeyed' <= age'
    BY <1>1, <2>2 DEF WalkTypes
  <2>4. ~Faulty' => obeyed' = 0
    BY <2>1, <2>2, Zenon
  <2>5. obeyed' <= age' + 1
    <3>1. obeyed' \in Int /\ age' \in Int
      BY <1>1 DEF WalkTypes
    <3>2. \A m, n \in Int : m <= n => m <= n + 1
      OBVIOUS
    <3>. QED
      BY <2>3, <3>1, <3>2, Zenon
  <2>. QED
    BY <2>3, <2>4, <2>5, Zenon DEF CountInv
<1>3. CASE Monitor!HardFault \/ Monitor!SoftFault
  <2>1. stage' = "tripped" /\ check' = check
    BY <1>3 DEF Monitor!HardFault, Monitor!SoftFault
  <2>2. pc' = "trip_a"
    BY <1>1, <2>1 DEF Monitor!StartOver, Monitor!Tolerate, Monitor!InSpec
  <2>. QED
    BY <1>1, <1>2, <2>1, <2>2 DEF WalkTypes, StageInv, AgeInv, TripPcs
<1>4. CASE Monitor!StartOver
  <2>1. /\ stage' = "loop" /\ check' = 0
        /\ check \notin 0 .. 21 \/ check \in vector
    BY <1>1, <1>4 DEF Monitor!StartOver, Monitor!Unlisted, Monitor!Items
  <2>2. AgeInv'
    BY <1>1, <2>1 DEF AgeInv, AgeBound, Reached, WalkTypes
  <2>3. pc' = "loop"
    BY <2>1 DEF Monitor!HardFault, Monitor!SoftFault
  <2>. QED
    BY <1>1, <1>2, <2>1, <2>2, <2>3 DEF WalkTypes, StageInv, LoopPcs
<1>5. CASE Monitor!Tolerate \/ Monitor!InSpec
  <2>1. /\ stage' = "loop" /\ check' = check + 1 /\ check \in 0 .. 21
        /\ ~Monitor!OutOfSpec(check, value[check])
    BY <1>1, <1>5 DEF Monitor!Tolerate, Monitor!InSpec, Monitor!NextItem, Monitor!SoftLow,
                      Monitor!Running, Monitor!Unlisted, Monitor!Items
  <2>2. check = probe => age' = 0
    BY <1>1, <2>1 DEF Faulty
  <2>3. AgeInv'
    BY <1>1, <2>1, <2>2 DEF AgeInv, AgeBound, Reached, WalkTypes
  <2>4. pc' = "loop"
    BY <2>1 DEF Monitor!HardFault, Monitor!SoftFault
  <2>. QED
    BY <1>1, <1>2, <2>1, <2>3, <2>4 DEF WalkTypes, StageInv, LoopPcs
<1>. QED
  BY <1>3, <1>4, <1>5

LEMMA BootFinishesWalk ==
  ASSUME IInv, WalkInv, BootFinishes
  PROVE  WalkInv'
<1>. USE DEF WalkInv
<1>1. stage = "boot" /\ pc = "loop" /\ pc' = "loop" /\ UNCHANGED obeyed
  BY FunctionMoves DEF BootFinishes, LastOfBoot
<1>2. check = 0 /\ age = 0 /\ obeyed = 0
  BY <1>1 DEF StageInv
<1>3. CASE call' = Idle
  <2>1. stage' = "loop" /\ UNCHANGED <<check, age, probe, value>>
    BY <1>3 DEF BootFinishes, Monitor!init_broken_boards
  <2>2. WalkTypes' /\ AgeInv'
    BY <1>1, <1>2, <2>1 DEF WalkTypes, AgeInv, AgeBound
  <2>3. StageInv'
    BY <1>1, <2>1 DEF StageInv, LoopPcs
  <2>4. CountInv'
    BY <1>1, <1>2, <2>1 DEF CountInv
  <2>. QED
    BY <2>2, <2>3, <2>4
<1>4. CASE call' # Idle
  <2>1. UNCHANGED <<stage, check, age, vector, probe, value>>
    BY <1>4 DEF BootFinishes, monitorVars
  <2>2. WalkTypes' /\ AgeInv'
    BY <1>1, <2>1 DEF WalkTypes, AgeInv
  <2>3. StageInv'
    BY <1>1, <1>2, <1>4, <2>1 DEF StageInv
  <2>4. CountInv'
    BY <1>1, <1>2, <2>1 DEF CountInv
  <2>. QED
    BY <2>2, <2>3, <2>4
<1>. QED
  BY <1>3, <1>4

LEMMA RestartsWalk ==
  ASSUME WalkInv, Restarts
  PROVE  WalkInv'
<1>. USE DEF WalkInv
<1>1. pc = "trip_reset" /\ pc' = "reset" /\ obeyed' = 0
  BY DEF Restarts, SystemReset, Restart
<1>2. CASE stage = "tripped"
  BY <1>1, <1>2 DEF Restarts, Monitor!Reset, WalkTypes, StageInv, AgeInv, CountInv, BootPcs
<1>3. CASE stage # "tripped"
  <2>1. UNCHANGED <<stage, check, age, vector, probe, value>>
    BY <1>3 DEF Restarts, monitorVars
  <2>2. stage = "boot" /\ check = 0 /\ age = 0
    BY <1>1, <1>3 DEF StageInv, LoopPcs
  <2>. QED
    BY <1>1, <2>1, <2>2 DEF WalkTypes, StageInv, AgeInv, CountInv, BootPcs
<1>. QED
  BY <1>2, <1>3

\* A command is obeyed between two checks: main() owes the next one.
LEMMA ObeysWalk ==
  ASSUME WalkInv, Obeys
  PROVE  WalkInv'
<1>. USE DEF WalkInv
<1>1. pc = "loop" /\ call = Idle /\ pc' \in {"grav", "cmd_safe_b"} /\ UNCHANGED monitorVars
  BY DEF Obeys, Command, changeState
<1>2. stage = "loop"
  BY <1>1 DEF StageInv, BootPcs, TripPcs
<1>3. UNCHANGED <<stage, check, age, vector, probe, value>>
  BY <1>1 DEF monitorVars
<1>4. obeyed <= age /\ obeyed \in 0 .. 23 /\ age \in 0 .. 23
  BY <1>1 DEF CountInv, WalkTypes
<1>5. obeyed' \in 0 .. 23 /\ obeyed' <= age + 1
  BY <1>4 DEF Obeys, Count, Monitor!Sweep
<1>6. ~Faulty => obeyed' = 0
  BY DEF Obeys, Count, Faulty
<1>7. Faulty' <=> Faulty
  BY <1>3 DEF Faulty
<1>8. WalkTypes' /\ AgeInv' /\ StageInv'
  BY <1>1, <1>2, <1>3, <1>5 DEF WalkTypes, AgeInv, AgeBound, Reached, StageInv, LoopPcs
<1>9. CountInv'
  BY <1>1, <1>3, <1>5, <1>6, <1>7, Zenon DEF CountInv
<1>. QED
  BY <1>8, <1>9

\* Steps the monitor does not see.
LEMMA UnseenWalk ==
  ASSUME WalkInv, StageInv', pc' = "loop" => pc = "loop" \/ stage = "boot",
         UNCHANGED <<monitorVars, obeyed>>
  PROVE  WalkInv'
<1>. USE DEF WalkInv
<1>1. UNCHANGED <<stage, check, age, vector, probe, value, obeyed>>
  BY DEF monitorVars
<1>2. WalkTypes' /\ AgeInv'
  BY <1>1 DEF WalkTypes, AgeInv, AgeBound, Reached
<1>3. Faulty' <=> Faulty
  BY <1>1 DEF Faulty
<1>4. stage = "boot" => obeyed <= age
  BY DEF StageInv
<1>5. CountInv'
  BY <1>1, <1>3, <1>4, Zenon DEF CountInv
<1>. QED
  BY <1>2, <1>5

LEMMA DriftWalk ==
  ASSUME WalkInv, Drift
  PROVE  WalkInv'
<1>. USE DEF WalkInv
<1>1. PICK i \in Suspects : Monitor!Drift(i)
  BY DEF Drift
<1>2. PICK v \in Levels[i] \ {value[i]} : value' = [value EXCEPT ![i] = v]
  BY <1>1 DEF Monitor!Drift
<1>3. /\ UNCHANGED <<stage, check, vector, probe, pc, call>>
      /\ age' = IF i = probe THEN 0 ELSE age
      /\ obeyed' = IF value[probe] # value'[probe] THEN 0 ELSE obeyed
  BY <1>1 DEF Monitor!Drift, Drift, vars
<1>4. i = probe => value[probe] # value'[probe]
  BY <1>2 DEF WalkTypes
<1>5. i # probe => value'[probe] = value[probe]
  BY <1>2 DEF WalkTypes
<1>6. DOMAIN value' = 0 .. 21
  BY <1>2 DEF WalkTypes
<1>7. CASE i = probe
  BY <1>3, <1>4, <1>6, <1>7 DEF WalkTypes, StageInv, AgeInv, AgeBound, CountInv
<1>8. CASE i # probe
  <2>1. UNCHANGED <<age, obeyed>> /\ (Faulty' <=> Faulty)
    BY <1>3, <1>5, <1>8 DEF Faulty
  <2>2. WalkTypes' /\ StageInv' /\ AgeInv'
    BY <1>3, <1>6, <2>1 DEF WalkTypes, StageInv, AgeInv, AgeBound, Reached
  <2>3. CountInv'
    BY <1>3, <2>1, Zenon DEF CountInv
  <2>. QED
    BY <2>2, <2>3
<1>. QED
  BY <1>7, <1>8

LEMMA NextWalk ==
  ASSUME IInv, WalkInv, [GravitonNext]_allVars
  PROVE  WalkInv'
<1>1. CASE CheckPasses \/ CheckTrips
  <2>1. /\ pc = "check" /\ UNCHANGED obeyed
        /\ \/ pc' = "loop" /\ (Monitor!StartOver \/ Monitor!Tolerate \/ Monitor!InSpec)
           \/ pc' = "trip_a" /\ (Monitor!HardFault \/ Monitor!SoftFault)
    BY <1>1 DEF CheckPasses, CheckTrips, SafetyPass, SafetyTrip, Passes
  <2>. QED
    BY <2>1, CheckWalks
<1>2. CASE BootFinishes
  BY <1>2, BootFinishesWalk
<1>3. CASE Restarts
  BY <1>3, RestartsWalk
<1>4. CASE Obeys
  BY <1>4, ObeysWalk
<1>5. CASE Elsewhere
  <2>1. UNCHANGED <<monitorVars, obeyed>>
    BY <1>5 DEF Elsewhere
  <2>. QED
    BY <1>5, <2>1, ElsewhereMoves, UnseenWalk
<1>6. CASE Idles
  <2>1. pc = "loop" /\ pc' = "check" /\ call = Idle /\ UNCHANGED <<monitorVars, obeyed>>
    BY <1>6 DEF Idles, NoCommand, Passes
  <2>2. stage = "loop" /\ stage' = stage
    BY <2>1 DEF WalkInv, StageInv, BootPcs, TripPcs, monitorVars
  <2>3. StageInv'
    BY <2>1, <2>2 DEF StageInv, LoopPcs
  <2>. QED
    BY <2>1, <2>3, UnseenWalk
<1>7. CASE Drift
  BY <1>7, DriftWalk
<1>8. CASE UNCHANGED allVars
  <2>1. UNCHANGED <<monitorVars, obeyed, stage, pc, call, check, age>>
    BY <1>8 DEF allVars, vars, monitorVars
  <2>2. StageInv'
    BY <2>1 DEF StageInv, WalkInv
  <2>. QED
    BY <2>1, <2>2, UnseenWalk
<1>. QED
  BY <1>1, <1>2, <1>3, <1>4, <1>5, <1>6, <1>7, <1>8 DEF GravitonNext, GravitonStep

\* Between two checks the age of a fault is at most what is left of the walk
\* before the probe comes up, and main() has obeyed no more commands than that.
THEOREM CommandsAreFew == GravitonSpec => []FewCommandsUnderFault
<1>1. GravitonSpec => []IInv
  BY RadioHolds
<1>2. GravitonInit => WalkInv
  BY InitWalk
<1>3. IInv /\ WalkInv /\ [GravitonNext]_allVars => WalkInv'
  BY NextWalk
<1>4. WalkInv => FewCommandsUnderFault
  <2>. SUFFICES ASSUME WalkInv, pc = "loop", Reached
                PROVE  obeyed <= age /\ age < 23
    BY DEF FewCommandsUnderFault, Reached, Monitor!Sweep
  <2>1. obeyed <= age
    BY DEF WalkInv, CountInv
  <2>2. stage = "boot" => age < 23
    BY DEF WalkInv, StageInv
  <2>3. stage = "loop" => age < 23
    BY DEF WalkInv, AgeInv, AgeBound, WalkTypes
  <2>4. stage \in {"boot", "loop"}
    BY DEF WalkInv, StageInv, TripPcs
  <2>. QED
    BY <2>1, <2>2, <2>3, <2>4
<1>. QED
  BY <1>1, <1>2, <1>3, <1>4, PTL DEF GravitonSpec
=============================================================================
