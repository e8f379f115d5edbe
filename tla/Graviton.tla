------------------------------ MODULE Graviton ------------------------------
(***************************************************************************)
(* The firmware and its supervision: RfControl, whose safety check may     *)
(* come out either way, together with SafetyMonitor, which knows when it   *)
(* does but not what the radio is doing meanwhile.                         *)
(*                                                                         *)
(* The two share the thread.  A step of one is a step of both where        *)
(* safety_check() is called, where init_broken_boards() ends the boot and  *)
(* where the processor restarts; everywhere else the monitor's variables   *)
(* stay.  The rails and temperatures drift between any two register        *)
(* writes.                                                                 *)
(***************************************************************************)
EXTENDS RfControl, FiniteSets

CONSTANTS
  RepeatTol, Levels, Boards,    \* as in SafetyMonitor
  Suspects                      \* the items whose readings are followed

VARIABLES
  check, vector, violations,    \* as in SafetyMonitor
  board, value, low, probe, age,
  stage,                        \* the monitor's pc: "boot", "loop", "tripped"
  obeyed    \* history: commands obeyed while the probe stayed out of spec

monitorVars == <<check, vector, violations, board, value, low, probe, age, stage>>

allVars == <<vars, monitorVars, obeyed>>

Monitor == INSTANCE SafetyMonitor WITH pc <- stage

ASSUME GravitonAssumption == Monitor!MonitorAssumption /\ Suspects \subseteq Monitor!Items

-----------------------------------------------------------------------------
GravitonInit ==
  /\ Init
  /\ Monitor!Init
  /\ probe \in Suspects
  /\ obeyed = 0

\* Commands while the fault of the probe lasts; like age, no further than a walk.
Count ==
  obeyed' = IF ~Monitor!OutOfSpec(probe, value[probe]) THEN 0
            ELSE IF obeyed < Monitor!Sweep THEN obeyed + 1 ELSE obeyed

CheckPasses ==
  /\ SafetyPass
  /\ Monitor!StartOver \/ Monitor!Tolerate \/ Monitor!InSpec
  /\ UNCHANGED obeyed

CheckTrips ==
  /\ SafetyTrip
  /\ Monitor!HardFault \/ Monitor!SoftFault
  /\ UNCHANGED obeyed

\* init() returns from its last call, and main() looks up the board.
LastOfBoot == stage = "boot" /\ pc = "loop"

BootFinishes ==
  /\ LastOfBoot
  /\ Function
  /\ IF call' = Idle THEN Monitor!init_broken_boards ELSE UNCHANGED monitorVars
  /\ UNCHANGED obeyed

\* A trip of the monitor's, or of a calibration, which finds it as it was.
Restarts ==
  /\ SystemReset
  /\ IF stage = "tripped" THEN Monitor!Reset ELSE UNCHANGED monitorVars
  /\ obeyed' = 0

Obeys ==
  /\ \E msg \in Msgs : Command(msg)
  /\ Count
  /\ UNCHANGED monitorVars

\* The rest of the firmware, which the monitor does not see.
Elsewhere ==
  /\ pc # "check" \/ call # Idle
  /\ pc \notin {"loop", "trip_reset"} \/ call # Idle
  /\ ~LastOfBoot
  /\ FirmwareStep
  /\ UNCHANGED <<monitorVars, obeyed>>

Idles == NoCommand /\ UNCHANGED <<monitorVars, obeyed>>

GravitonStep == CheckPasses \/ CheckTrips \/ BootFinishes \/ Restarts \/ Obeys
                \/ Elsewhere \/ Idles

Drift ==
  /\ \E i \in Suspects : Monitor!Drift(i)
  /\ obeyed' = IF value[probe] # value'[probe] THEN 0 ELSE obeyed
  /\ UNCHANGED vars

GravitonNext == GravitonStep \/ Drift

\* The processor always executes its next statement; no rail has to move.
GravitonSpec == GravitonInit /\ [][GravitonNext]_allVars /\ WF_allVars(GravitonStep)

-----------------------------------------------------------------------------
\* While a fault lasts, every command obeyed costs a check, and the checks run
\* out after one walk of the list: however fast the FPGA sends, it cannot keep
\* a faulty board on the air.  (For an item that no disabled item precedes.)
FewCommandsUnderFault ==
  pc = "loop" /\ (\A d \in vector : probe < d) => obeyed <= age /\ age < Monitor!Sweep

\* A fault that lasts while the radio works, of an item that no disabled item
\* precedes (safety_check never reaches the others), makes the radio safe: both
\* amplifiers are off when the processor restarts.
FaultMakesRadioSafe ==
  \A i \in Suspects :
    stage = "loop" /\ Monitor!OutOfSpec(i, value[i]) /\ (\A d \in vector : i < d)
      ~> \/ pc = "trip_reset" /\ call = Idle /\ \A a \in Afe : ~PaOn(a)
         \/ ~Monitor!OutOfSpec(i, value[i])
=============================================================================
