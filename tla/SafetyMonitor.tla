--------------------------- MODULE SafetyMonitor ---------------------------
(***************************************************************************)
(* safety_check(): the checklist that main()'s loop walks, one item per    *)
(* iteration, reading a rail or a temperature and calling                  *)
(* go_safe_and_reset() when it is out of spec.  Three rails have a soft    *)
(* bottom as well, below which a limited number of readings in a row is    *)
(* tolerated; init_broken_boards() disables the items of boards whose      *)
(* sensors are known to be broken.                                         *)
(*                                                                         *)
(* The rails and temperatures are the environment: they change at any      *)
(* time, between any two reads.                                            *)
(***************************************************************************)
EXTENDS Integers, FiniteSets

CONSTANTS
  RepeatTol,   \* soft_bottom_tolerance_t::repeat_tol, 100 on all three rails
  Levels,      \* the readings each item may give
  Boards       \* the boards the firmware may find itself on

VARIABLES
  check,       \* main()'s variable: the item to check next
  vector,      \* the items whose disable_saftey_vector entry is set
  violations,  \* soft_bottom_tolerance_t::violations, for each soft rail
  pc,          \* "boot", "loop" or "tripped" (in go_safe_and_reset)
  board,       \* which board this is
  value,       \* environment: what each item would read now
  low,         \* history: soft-low readings in a row, for each soft rail
  probe,       \* history: an item, and
  age          \* how many checks ran while its reading stayed out of spec

vars == <<check, vector, violations, pc, board, value, low, probe, age>>

Items == 0 .. 21

-----------------------------------------------------------------------------
(* The limits, in millivolts and degrees.                                  *)

Soft == {2, 3, 4}

tolerance(i) ==
  CASE i = 2 -> [lower_hard |->  3100, lower_tol |->  3150, upper_hard |->  4000]
    [] i = 3 -> [lower_hard |->  4250, lower_tol |->  4300, upper_hard |->  5750]
    [] i = 4 -> [lower_hard |-> -7600, lower_tol |-> -7500, upper_hard |-> -5350]

\* Readings that power the board down at once.  15 and 21 check nothing.
OutOfSpec(i, v) ==
  CASE i \in Soft       -> v \notin tolerance(i).lower_hard .. tolerance(i).upper_hard
    [] i = 0            -> v \notin 1500 .. 2600
    [] i = 1            -> v \notin 1700 .. 1900
    [] i = 5            -> v \notin 28000 .. 29500
    [] i \in {6, 7, 8}  -> v > 60
    [] i \in {12, 18}   -> v > 90
    [] i \in {15, 21}   -> FALSE
    [] OTHER            -> v > 70

SoftLow(i, v) == i \in Soft /\ ~OutOfSpec(i, v) /\ v < tolerance(i).lower_tol

ASSUME MonitorAssumption ==
  /\ RepeatTol \in Nat
  /\ \A i \in Items : Levels[i] \subseteq Int /\ Levels[i] # {}
  /\ Boards \subseteq {"007", "012", "021", "other"}

\* The items init_broken_boards disables, by the device's unique id.
Broken(b) ==
  CASE b = "012" -> {12}
    [] b = "021" -> {10, 11}
    [] b = "007" -> {16}
    [] OTHER     -> {}

-----------------------------------------------------------------------------
Init ==
  /\ check = 0
  /\ vector = {}
  /\ violations = [i \in Soft |-> 0]
  /\ pc = "boot"
  /\ board \in Boards
  /\ value = [i \in Items |-> CHOOSE n \in Levels[i] : TRUE]    \* and drifts from there
  /\ low = [i \in Soft |-> 0]
  /\ probe \in Items
  /\ age = 0

init_broken_boards ==
  /\ pc = "boot"
  /\ vector' = Broken(board)
  /\ pc' = "loop"
  /\ UNCHANGED <<check, violations, board, value, low, probe, age>>

-----------------------------------------------------------------------------
(* safety_check(check).                                                    *)

\* A walk of the checklist: 22 items and the call that starts over.  The
\* history counts no further than that.
Sweep == 23

Observe ==
  /\ age' = IF ~OutOfSpec(probe, value[probe]) THEN 0
            ELSE IF age < Sweep THEN age + 1 ELSE age
  /\ UNCHANGED <<vector, board, value, probe>>

\* The switch has no case for the item: it is past the list, or its bit 15 is
\* set because it is disabled.
Unlisted == check \notin Items \/ check \in vector

Running == pc = "loop" /\ ~Unlisted

\* What safety_check returns to main().
NextItem_by_two(i) == i + 2    \* with a mistake: main() increments as well

NextItem(i) == i + 1

StartOver ==
  /\ pc = "loop"
  /\ Unlisted
  /\ check' = 0
  /\ Observe
  /\ UNCHANGED <<violations, pc, low>>

\* repeat_tol low readings have been let through already.
Exhausted_never(i) == FALSE                        \* mistakes
Exhausted_late(i)  == violations[i] > RepeatTol

Exhausted(i) == violations[i] >= RepeatTol

HardFault ==
  /\ Running
  /\ OutOfSpec(check, value[check])
  /\ pc' = "tripped"
  /\ Observe
  /\ UNCHANGED <<check, violations, low>>

SoftFault ==
  /\ Running
  /\ SoftLow(check, value[check])
  /\ Exhausted(check)
  /\ pc' = "tripped"
  /\ low' = [low EXCEPT ![check] = @ + 1]
  /\ Observe
  /\ UNCHANGED <<check, violations>>

Tolerate ==
  /\ Running
  /\ SoftLow(check, value[check])
  /\ ~Exhausted(check)
  /\ violations' = [violations EXCEPT ![check] = @ + 1]
  /\ low' = [low EXCEPT ![check] = @ + 1]
  /\ check' = NextItem(check)
  /\ Observe
  /\ UNCHANGED pc

\* With the mistake of counting all low readings, not those in a row.
InSpec_count_kept ==
  /\ Running
  /\ ~OutOfSpec(check, value[check])
  /\ ~SoftLow(check, value[check])
  /\ low' = [i \in Soft |-> IF i = check THEN 0 ELSE low[i]]
  /\ check' = NextItem(check)
  /\ Observe
  /\ UNCHANGED <<violations, pc>>

\* A soft rail that is back within its tolerance starts a new count.
InSpec ==
  /\ Running
  /\ ~OutOfSpec(check, value[check])
  /\ ~SoftLow(check, value[check])
  /\ violations' = [i \in Soft |-> IF i = check THEN 0 ELSE violations[i]]
  /\ low' = [i \in Soft |-> IF i = check THEN 0 ELSE low[i]]
  /\ check' = NextItem(check)
  /\ Observe
  /\ UNCHANGED pc

safety_check == StartOver \/ HardFault \/ SoftFault \/ Tolerate \/ InSpec

\* The end of go_safe_and_reset: the processor restarts.
Reset ==
  /\ pc = "tripped"
  /\ pc' = "boot"
  /\ check' = 0
  /\ vector' = {}
  /\ violations' = [i \in Soft |-> 0]
  /\ low' = [i \in Soft |-> 0]
  /\ age' = 0
  /\ UNCHANGED <<board, value, probe>>

\* A rail or a temperature changes.
Drift(i) ==
  /\ \E v \in Levels[i] \ {value[i]} : value' = [value EXCEPT ![i] = v]
  /\ age' = IF i = probe THEN 0 ELSE age
  /\ UNCHANGED <<check, vector, violations, pc, board, low, probe>>

Firmware == init_broken_boards \/ safety_check \/ Reset

Next == Firmware \/ \E i \in Items : Drift(i)

\* The processor always executes its next step; the rails need not move.
Spec == Init /\ [][Next]_vars /\ WF_vars(Firmware)

-----------------------------------------------------------------------------
\* Type invariant.  check never passes the last item by more than one, which
\* keeps it inside disable_saftey_vector's 32 entries.
TypeOK ==
  /\ check \in 0 .. 22
  /\ vector \in SUBSET Items
  /\ violations \in [Soft -> 0 .. RepeatTol]
  /\ pc \in {"boot", "loop", "tripped"}
  /\ board \in Boards
  /\ value \in [Items -> Int]
  /\ low \in [Soft -> 0 .. RepeatTol + 1]
  /\ probe \in Items
  /\ age \in 0 .. Sweep

\* "The value is only allowed to be below the soft bottom for a certain amount
\* of time": the loop never goes on after more than repeat_tol low readings in
\* a row of a rail, however the reads of the three rails and their recoveries
\* interleave.
SoftLowIsBounded ==
  pc = "loop" => \A i \in Soft : low[i] <= RepeatTol

\* The board is powered down only for an enabled item that is out of spec, or
\* has been low more than repeat_tol times in a row since it last was not.
NoFalseTrip ==
  [][pc = "loop" /\ pc' = "tripped" =>
       /\ check \notin vector
       /\ \/ OutOfSpec(check, value[check])
          \/ check \in Soft /\ low'[check] > RepeatTol]_vars

\* A reading that stays out of spec powers the board down within one walk of
\* the checklist, for every item that no disabled item precedes.
DetectedWithinOneSweep ==
  pc = "loop" /\ (\A d \in vector : probe < d) => age < Sweep

\* "When the array entry is set to 0, the test is enabled": every item that is
\* not disabled keeps being checked while the firmware keeps running.
EnabledChecksRun ==
  \A i \in Items : []<>(check = i \/ i \in vector \/ pc = "tripped")
=============================================================================
