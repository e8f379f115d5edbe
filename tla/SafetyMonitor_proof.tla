------------------------ MODULE SafetyMonitor_proof ------------------------
(***************************************************************************)
(* Proofs about SafetyMonitor, for every repeat_tol and every set of       *)
(* readings, on every board.                                               *)
(***************************************************************************)
EXTENDS SafetyMonitor, TLAPS

\* The counter in the tolerance record is the number of low readings in a
\* row, as long as the last of them did not trip.
CountIsExact ==
  /\ pc # "tripped" => \A i \in Soft : low[i] = violations[i]
  /\ pc = "boot" => vector = {}

IInv == TypeOK /\ CountIsExact

LEMMA BrokenItems == \A b \in Boards : Broken(b) \subseteq Items
  BY DEF Broken, Items

LEMMA SoftItems == Soft \subseteq Items
  BY DEF Soft, Items

LEMMA InitIInv == Init => IInv
<1>. SUFFICES ASSUME Init PROVE IInv
  OBVIOUS
<1>1. ASSUME NEW i \in Items PROVE (CHOOSE n \in Levels[i] : TRUE) \in Int
  BY MonitorAssumption
<1>2. value \in [Items -> Int]
  BY <1>1 DEF Init
<1>3. 0 \in 0 .. RepeatTol /\ 0 \in 0 .. RepeatTol + 1 /\ 0 \in 0 .. Sweep
  BY MonitorAssumption DEF Sweep
<1>4. TypeOK
  BY <1>2, <1>3 DEF Init, TypeOK
<1>. QED
  BY <1>4 DEF IInv, CountIsExact, Init

\* What one call of safety_check does.
LEMMA CheckStep == ASSUME IInv, safety_check PROVE IInv'
<1>1. /\ vector' = vector /\ board' = board /\ value' = value /\ probe' = probe
      /\ age' \in 0 .. Sweep /\ pc = "loop"
  <2>1. Observe /\ pc = "loop"
    BY DEF safety_check, StartOver, HardFault, SoftFault, Tolerate, InSpec, Running
  <2>2. age \in 0 .. Sweep
    BY DEF IInv, TypeOK
  <2>. QED
    BY <2>1, <2>2 DEF Observe, Sweep
<1>2. TypeOK /\ \A i \in Soft : low[i] = violations[i]
  BY <1>1 DEF IInv, CountIsExact
<1>3. ASSUME check' \in 0 .. 22, violations' \in [Soft -> 0 .. RepeatTol],
             low' \in [Soft -> 0 .. RepeatTol + 1], pc' \in {"loop", "tripped"},
             pc' = "loop" => \A i \in Soft : low'[i] = violations'[i]
      PROVE  IInv'
  BY <1>1, <1>2, <1>3 DEF IInv, TypeOK, CountIsExact
<1>4. CASE StartOver
  BY <1>1, <1>2, <1>3, <1>4 DEF StartOver, TypeOK
<1>5. CASE HardFault
  BY <1>1, <1>2, <1>3, <1>5 DEF HardFault, TypeOK
<1>6. CASE SoftFault
  <2>1. check \in Soft /\ low[check] \in 0 .. RepeatTol
    BY <1>2, <1>6 DEF SoftFault, SoftLow, TypeOK
  <2>2. low[check] + 1 \in 0 .. RepeatTol + 1
    BY <2>1, MonitorAssumption
  <2>3. low' \in [Soft -> 0 .. RepeatTol + 1]
    BY <1>2, <1>6, <2>2 DEF SoftFault, TypeOK
  <2>. QED
    BY <1>2, <1>3, <1>6, <2>3 DEF SoftFault, TypeOK
<1>7. CASE Tolerate
  <2>1. check \in Soft /\ check \in Items /\ ~(violations[check] >= RepeatTol)
    BY <1>7 DEF Tolerate, SoftLow, Running, Unlisted, Exhausted
  <2>2. violations[check] + 1 \in 0 .. RepeatTol /\ low[check] + 1 \in 0 .. RepeatTol + 1
    BY <1>2, <2>1, MonitorAssumption DEF TypeOK
  <2>3. violations' \in [Soft -> 0 .. RepeatTol] /\ low' \in [Soft -> 0 .. RepeatTol + 1]
    BY <1>2, <1>7, <2>2 DEF Tolerate, TypeOK
  <2>4. \A i \in Soft : low'[i] = violations'[i]
    BY <1>2, <1>7 DEF Tolerate, TypeOK
  <2>5. check' \in 0 .. 22
    BY <1>7, <2>1 DEF Tolerate, NextItem, Items
  <2>. QED
    BY <1>1, <1>3, <1>7, <2>3, <2>4, <2>5 DEF Tolerate
<1>8. CASE InSpec
  <2>1. 0 \in 0 .. RepeatTol /\ 0 \in 0 .. RepeatTol + 1
    BY MonitorAssumption
  <2>2. violations' \in [Soft -> 0 .. RepeatTol] /\ low' \in [Soft -> 0 .. RepeatTol + 1]
    BY <1>2, <1>8, <2>1 DEF InSpec, TypeOK
  <2>3. \A i \in Soft : low'[i] = violations'[i]
    BY <1>2, <1>8 DEF InSpec
  <2>4. check \in Items
    BY <1>8 DEF InSpec, Running, Unlisted
  <2>5. check' \in 0 .. 22
    BY <1>8, <2>4 DEF InSpec, NextItem, Items
  <2>. QED
    BY <1>1, <1>3, <1>8, <2>2, <2>3, <2>5 DEF InSpec
<1>. QED
  BY <1>4, <1>5, <1>6, <1>7, <1>8 DEF safety_check

LEMMA NextIInv == IInv /\ [Next]_vars => IInv'
<1>. SUFFICES ASSUME IInv, [Next]_vars PROVE IInv'
  OBVIOUS
<1>0. 0 \in 0 .. RepeatTol /\ 0 \in 0 .. RepeatTol + 1 /\ 0 \in 0 .. Sweep
  BY MonitorAssumption DEF Sweep
<1>1. CASE init_broken_boards
  <2>1. Broken(board) \in SUBSET Items
    BY BrokenItems DEF IInv, TypeOK
  <2>. QED
    BY <1>1, <2>1 DEF init_broken_boards, IInv, TypeOK, CountIsExact
<1>2. CASE Reset
  BY <1>0, <1>2 DEF Reset, IInv, TypeOK, CountIsExact
<1>3. ASSUME NEW i \in Items, Drift(i) PROVE IInv'
  <2>1. PICK v \in Levels[i] : value' = [value EXCEPT ![i] = v]
    BY <1>3 DEF Drift
  <2>2. value' \in [Items -> Int]
    BY <2>1, MonitorAssumption DEF IInv, TypeOK
  <2>. QED
    BY <1>0, <1>3, <2>2 DEF Drift, IInv, TypeOK, CountIsExact
<1>4. CASE UNCHANGED vars
  BY <1>4 DEF vars, IInv, TypeOK, CountIsExact
<1>. QED
  BY <1>1, <1>2, <1>3, <1>4, CheckStep DEF Next, Firmware

\* The specification without its fairness, which is what the composition with
\* the radio implements.
Steps == Init /\ [][Next]_vars

LEMMA SpecSteps == Spec => Steps
  BY PTL DEF Spec, Steps

LEMMA StepsInv == Steps => []IInv
  BY InitIInv, NextIInv, PTL DEF Steps

\* The types, and that the counters of main() count low readings in a row.
THEOREM Inductive == Spec => []IInv
  BY StepsInv, SpecSteps, PTL

\* Every index safety_check uses is inside disable_saftey_vector and no
\* violation counter passes repeat_tol.
THEOREM MonitorTypes == Spec => []TypeOK
<1>1. IInv => TypeOK
  BY DEF IInv
<1>. QED
  BY <1>1, Inductive, PTL

\* The loop never lets more than repeat_tol low readings in a row pass.
LEMMA StepsBounded == Steps => []SoftLowIsBounded
<1>1. IInv => SoftLowIsBounded
  <2>. SUFFICES ASSUME IInv, pc = "loop", NEW i \in Soft PROVE low[i] <= RepeatTol
    BY DEF SoftLowIsBounded
  <2>1. low[i] = violations[i] /\ violations[i] \in 0 .. RepeatTol
    BY DEF IInv, CountIsExact, TypeOK
  <2>. QED
    BY <2>1, MonitorAssumption
<1>. QED
  BY <1>1, StepsInv, PTL

\* In every state of the loop each voltage has been low at most repeat_tol times
\* in a row: safety_check counts exactly and stops one later.
THEOREM ToleranceBounded == Spec => []SoftLowIsBounded
BY StepsBounded, SpecSteps, PTL

\* go_safe_and_reset is called from safety_check for a reason: an enabled item
\* out of spec, or more than repeat_tol low readings in a row.
LEMMA StepsJustified == Steps => NoFalseTrip
<1>. DEFINE Justified == pc = "loop" /\ pc' = "tripped" =>
              /\ check \notin vector
              /\ \/ OutOfSpec(check, value[check])
                 \/ check \in Soft /\ low'[check] > RepeatTol
<1>1. IInv /\ [Next]_vars => [Justified]_vars
  <2>. SUFFICES ASSUME IInv, Next, pc = "loop", pc' = "tripped" PROVE Justified
    OBVIOUS
  <2>1. HardFault \/ SoftFault
    BY DEF Next, Firmware, init_broken_boards, safety_check, Reset, Drift, StartOver, Tolerate,
           InSpec
  <2>2. CASE HardFault
    BY <2>2 DEF HardFault, Running, Unlisted
  <2>3. CASE SoftFault
    <3>1. /\ check \notin vector /\ check \in Soft /\ violations[check] >= RepeatTol
          /\ low' = [low EXCEPT ![check] = @ + 1]
      BY <2>3 DEF SoftFault, Running, Unlisted, SoftLow, Exhausted
    <3>2. low[check] = violations[check] /\ violations[check] \in Int
          /\ low'[check] = low[check] + 1
      BY <3>1, MonitorAssumption DEF IInv, CountIsExact, TypeOK
    <3>. QED
      BY <3>1, <3>2, MonitorAssumption
  <2>. QED
    BY <2>1, <2>2, <2>3
<1>. QED
  BY <1>1, StepsInv, PTL DEF Steps, NoFalseTrip

\* No reading in spec, no disabled item and no tolerated one makes safety_check
\* reset the board.
THEOREM TripsAreJustified == Spec => NoFalseTrip
BY StepsJustified, SpecSteps, PTL

-----------------------------------------------------------------------------
(* How long a fault may last.  The walk comes back to an item that no      *)
(* disabled item precedes, so its age is bounded by how far the walk has   *)
(* gone since it last looked at the item.                                  *)

Reached == \A d \in vector : probe < d

AgeBound == IF check > probe THEN check - probe - 1 ELSE 22 - probe + check

AgeInv ==
  /\ pc = "boot" => check = 0 /\ age = 0
  /\ pc = "loop" /\ Reached => age <= AgeBound

LEMMA InitAge == Init => AgeInv
  BY DEF Init, AgeInv

LEMMA CheckAge == ASSUME IInv, AgeInv, safety_check PROVE AgeInv'
<1>1. /\ Observe /\ pc = "loop" /\ pc' \in {"loop", "tripped"}
      /\ vector' = vector /\ probe' = probe
  BY DEF safety_check, StartOver, HardFault, SoftFault, Tolerate, InSpec, Running, Observe
<1>2. check \in 0 .. 22 /\ probe \in 0 .. 21 /\ age \in 0 .. Sweep
  BY DEF IInv, TypeOK, Items
<1>3. SUFFICES ASSUME pc' = "loop", Reached PROVE age' <= AgeBound'
  BY <1>1 DEF AgeInv, Reached
<1>4. age <= AgeBound
  BY <1>1, <1>3 DEF AgeInv
<1>5. /\ age' \in Int /\ age' <= age + 1
      /\ ~OutOfSpec(probe, value[probe]) => age' = 0
  BY <1>1, <1>2 DEF Observe, Sweep
<1>6. CASE StartOver
  <2>1. check > probe
    BY <1>2, <1>3, <1>6 DEF StartOver, Unlisted, Reached, Items
  <2>. QED
    BY <1>1, <1>2, <1>4, <1>5, <1>6, <2>1 DEF StartOver, AgeBound
<1>7. CASE Tolerate \/ InSpec
  <2>1. check' = check + 1 /\ ~OutOfSpec(check, value[check])
    BY <1>7 DEF Tolerate, InSpec, NextItem, SoftLow
  <2>2. CASE check = probe
    BY <1>1, <1>2, <1>5, <2>1, <2>2 DEF AgeBound
  <2>3. CASE check # probe
    BY <1>1, <1>2, <1>4, <1>5, <2>1, <2>3 DEF AgeBound
  <2>. QED
    BY <2>2, <2>3
<1>8. ~HardFault /\ ~SoftFault
  BY <1>3 DEF HardFault, SoftFault
<1>. QED
  BY <1>6, <1>7, <1>8 DEF safety_check

LEMMA NextAge == IInv /\ AgeInv /\ [Next]_vars => AgeInv'
<1>. SUFFICES ASSUME IInv, AgeInv, [Next]_vars PROVE AgeInv'
  OBVIOUS
<1>0. check \in 0 .. 22 /\ probe \in 0 .. 21 /\ age \in 0 .. Sweep
  BY DEF IInv, TypeOK, Items
<1>1. CASE init_broken_boards
  BY <1>0, <1>1 DEF init_broken_boards, AgeInv, AgeBound
<1>2. CASE Reset
  BY <1>2 DEF Reset, AgeInv
<1>3. ASSUME NEW i \in Items, Drift(i) PROVE AgeInv'
  <2>1. /\ UNCHANGED <<check, vector, pc, probe>>
        /\ age' = 0 \/ age' = age
    BY <1>3 DEF Drift
  <2>. QED
    BY <1>0, <2>1 DEF AgeInv, AgeBound, Reached
<1>4. CASE UNCHANGED vars
  BY <1>4 DEF vars, AgeInv, AgeBound, Reached
<1>. QED
  BY <1>1, <1>2, <1>3, <1>4, CheckAge DEF Next, Firmware

\* A reading that stays out of spec, of an item that no disabled item precedes,
\* powers the board down within one walk of the checklist.
LEMMA StepsDetected == Steps => []DetectedWithinOneSweep
<1>1. IInv /\ AgeInv => DetectedWithinOneSweep
  <2>. SUFFICES ASSUME IInv, AgeInv, pc = "loop", Reached PROVE age < Sweep
    BY DEF DetectedWithinOneSweep, Reached
  <2>1. check \in 0 .. 22 /\ probe \in 0 .. 21 /\ age \in 0 .. Sweep /\ age <= AgeBound
    BY DEF IInv, AgeInv, TypeOK, Items
  <2>. QED
    BY <2>1 DEF AgeBound, Sweep
<1>. QED
  BY <1>1, InitAge, NextAge, StepsInv, PTL DEF Steps

\* Every fault that lasts is found within one walk, whichever items are disabled
\* after it and however often a tolerated reading starts a count over.
THEOREM DetectedInTime == Spec => []DetectedWithinOneSweep
BY StepsDetected, SpecSteps, PTL
=============================================================================
