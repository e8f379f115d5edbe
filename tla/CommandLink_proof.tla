-------------------------- MODULE CommandLink_proof --------------------------
(***************************************************************************)
(* CommandLink implements CommandChannel: for every set of commands,       *)
(* telemetry period, width of `slow' and number of error reports, the echo *)
(* that a patient FPGA hears means that its command has been carried out,  *)
(* once.  And the FPGA hears "hello" in every period.                      *)
(***************************************************************************)
EXTENDS CommandLink, TLAPS

\* A command goes from the receiver to val to the line, and is in one place.
Echoes == {<<"echo", m>> : m \in Msgs}

Taken == pc \in {"change", "dump", "echo"}

\* An impatient FPGA waits for nothing.
Impatient == ~patient => sent = None /\ ~done /\ applied = None /\ ~answered

\* From the boot on, what the receiver holds is the command that is waited for.
InReceiver ==
  /\ pc = "deaf" => rdr = None
  /\ patient /\ rdr # None /\ (InLoop \/ pc = "boot") => sent = rdr /\ ~done

\* So is what main() has taken, and ChangeState carries it out.
InHand ==
  /\ Taken => val \in Msgs
  /\ patient /\ Taken => sent = val /\ (done <=> pc # "change")
  /\ patient /\ Taken => rdr = None /\ line \notin Echoes

\* And so is what is echoed; "error" is only heard in a trip.
OnLine ==
  /\ patient => \A m \in Msgs : line = <<"echo", m>> => sent = m /\ done
  /\ line = <<"error", None>> => pc = "trip"

IInv == TypeOK /\ Impatient /\ InReceiver /\ InHand /\ OnLine

-----------------------------------------------------------------------------
\* slow stays an int.
LEMMA IncrementedInRange ==
  ASSUME NEW n \in -IntMax - 1 .. IntMax
  PROVE  Incremented(n) \in -IntMax - 1 .. IntMax
BY LinkAssumption DEF Incremented

LEMMA InitInv == ASSUME Init PROVE IInv
<1>1. TypeOK
  <2>1. 1 \in -IntMax - 1 .. IntMax /\ 0 \in 0 .. Reports
    BY LinkAssumption
  <2>2. mode \in [Afe -> {"safe", "rx", "tx"}]
    BY DEF Init
  <2>. QED
    BY <2>1, <2>2 DEF Init, TypeOK
<1>2. line = None /\ \A m \in Msgs : line # <<"echo", m>>
  BY LinkAssumption DEF Init, Lines
<1>3. line # <<"error", None>>
  BY LinkAssumption DEF Init, Lines
<1>. QED
  BY <1>1, <1>2, <1>3 DEF Init, IInv, Impatient, InReceiver, InHand, OnLine, Taken, InLoop

\* The steps of the loop but for the four below keep the command where it is.
LEMMA LoopStep ==
  ASSUME IInv, Loop
  PROVE  IInv'
<1>. USE LinkAssumption DEF Lines, Goes, Prints, radio, counters, fpga, InLoop, Taken, Echoes
<1>1. CASE NotDue
  BY <1>1, IncrementedInRange DEF NotDue, Count, IInv, TypeOK, Impatient, InReceiver, InHand, OnLine
<1>2. CASE Alive
  BY <1>2, IncrementedInRange DEF Alive, IInv, TypeOK, Impatient, InReceiver, InHand, OnLine
<1>3. CASE NoByte
  BY <1>3 DEF NoByte, IInv, TypeOK, Impatient, InReceiver, InHand, OnLine
<1>4. CASE Read
  <2>1. rdr \in Msgs /\ val' = rdr /\ rdr' = None /\ pc = "read" /\ pc' = "change"
        /\ UNCHANGED <<line, radio, counters, fpga>>
    BY <1>4 DEF Read, IInv, TypeOK
  <2>2. patient => sent = rdr /\ ~done /\ line \notin Echoes
    <3>1. patient => sent = rdr /\ ~done
      BY <2>1 DEF IInv, InReceiver
    <3>2. patient /\ line \in Echoes => done
      <4>1. line \in Echoes => \E m \in Msgs : line = <<"echo", m>>
        OBVIOUS
      <4>. QED
        BY <4>1 DEF IInv, OnLine
    <3>. QED
      BY <3>1, <3>2
  <2>3. TypeOK' /\ Impatient'
    BY <2>1 DEF IInv, TypeOK, Impatient
  <2>4. InReceiver'
    BY <2>1 DEF InReceiver
  <2>5. line' \notin Echoes' <=> line \notin Echoes
    BY <2>1
  <2>6. InHand'
    BY <2>1, <2>2, <2>5 DEF InHand
  <2>7. OnLine'
    BY <2>1 DEF IInv, OnLine
  <2>. QED
    BY <2>3, <2>4, <2>6, <2>7 DEF IInv
<1>5. CASE ChangeState
  <2>1. mode' \in [Afe -> {"safe", "rx", "tx"}]
    BY <1>5 DEF ChangeState, changeState, IInv, TypeOK, AfeOf, Afe
  <2>. QED
    BY <1>5, <2>1 DEF ChangeState, IInv, TypeOK, Impatient, InReceiver, InHand, OnLine
<1>6. CASE Dump
  BY <1>6 DEF Dump, IInv, TypeOK, Impatient, InReceiver, InHand, OnLine
<1>7. CASE EchoChar
  BY <1>7 DEF EchoChar, IInv, TypeOK, Impatient, InReceiver, InHand, OnLine
<1>8. CASE GravUpdate
  BY <1>8 DEF GravUpdate, AnyTx, IInv, TypeOK, Impatient, InReceiver, InHand, OnLine
<1>9. CASE CheckPasses
  BY <1>9 DEF CheckPasses, IInv, TypeOK, Impatient, InReceiver, InHand, OnLine
<1>. QED
  BY <1>1, <1>2, <1>3, <1>4, <1>5, <1>6, <1>7, <1>8, <1>9 DEF Loop

\* The trip, the resets and the boot.
LEMMA RestartStep ==
  ASSUME IInv, Trips \/ NotifyError \/ SystemReset \/ ProcessorReset \/ Listens
               \/ BootFails \/ Halted \/ Ready
  PROVE  IInv'
<1>. USE LinkAssumption DEF Lines, Goes, Prints, radio, counters, fpga, InLoop, Taken, Echoes, MakesSafe, Restart
<1>1. CASE Trips
  BY <1>1 DEF Trips, IInv, TypeOK, Impatient, InReceiver, InHand, OnLine
<1>2. CASE NotifyError
  BY <1>2, LinkAssumption DEF NotifyError, IInv, TypeOK, Impatient, InReceiver, InHand, OnLine
<1>3. CASE SystemReset \/ ProcessorReset
  <2>1. /\ pc' = "deaf" /\ rdr' = None /\ val' = None /\ line' = None
        /\ slow' = 1 /\ reports' = 0 /\ quiet' = 0
        /\ mode' = [a \in Afe |-> "safe"] /\ dac' = FALSE
        /\ UNCHANGED <<done, applied, patient, sent, answered>>
    BY <1>3 DEF SystemReset, ProcessorReset
  <2>2. 1 \in -IntMax - 1 .. IntMax /\ 0 \in 0 .. Reports
    OBVIOUS
  <2>3. mode' \in [Afe -> {"safe", "rx", "tx"}]
    BY <2>1
  <2>4. TypeOK' /\ Impatient'
    BY <2>1, <2>2, <2>3 DEF IInv, TypeOK, Impatient
  <2>5. InReceiver' /\ InHand'
    BY <2>1 DEF InReceiver, InHand
  <2>6. OnLine'
    <3>1. line' # <<"error", None>> /\ \A m \in Msgs : line' # <<"echo", m>>
      BY <2>1
    <3>. QED
      BY <3>1 DEF OnLine
  <2>. QED
    BY <2>4, <2>5, <2>6 DEF IInv
<1>4. CASE Listens
  BY <1>4 DEF Listens, IInv, TypeOK, Impatient, InReceiver, InHand, OnLine
<1>5. CASE BootFails
  BY <1>5 DEF BootFails, IInv, TypeOK, Impatient, InReceiver, InHand, OnLine
<1>6. CASE Halted
  BY <1>6 DEF Halted, vars, IInv, TypeOK, Impatient, InReceiver, InHand, OnLine
<1>7. CASE Ready
  BY <1>7 DEF Ready, IInv, TypeOK, Impatient, InReceiver, InHand, OnLine
<1>. QED
  BY <1>1, <1>2, <1>3, <1>4, <1>5, <1>6, <1>7

\* A patient FPGA sends when it waits for nothing: nothing is in hand, then, nor
\* on the line, nor in the receiver of a board that listens.
LEMMA SendStep == ASSUME IInv, NEW m \in Msgs, Send(m) PROVE IInv'
<1>1. m # None /\ (patient => sent = None)
  BY LinkAssumption DEF Send
<1>2. /\ rdr' = IF pc = "deaf" \/ rdr # None THEN rdr ELSE m
      /\ IF patient THEN sent' = m /\ done' = FALSE ELSE UNCHANGED <<sent, done>>
      /\ UNCHANGED <<line, pc, val, mode, dac, applied, slow, reports, quiet, patient, answered>>
  BY DEF Send, counters
<1>3. TypeOK' /\ Impatient'
  BY <1>2 DEF IInv, TypeOK, Impatient, InLoop
<1>4. patient => ~Taken /\ \A n \in Msgs : line # <<"echo", n>>
  BY <1>1, LinkAssumption DEF IInv, InHand, OnLine
<1>5. patient /\ (InLoop \/ pc = "boot") => rdr = None
  BY <1>1, LinkAssumption DEF IInv, TypeOK, InReceiver
<1>6. InReceiver'
  <2>1. pc' = "deaf" => rdr' = None
    BY <1>2 DEF IInv, InReceiver
  <2>2. patient' /\ (InLoop' \/ pc' = "boot") => sent' = rdr' /\ ~done'
    BY <1>2, <1>5 DEF InLoop
  <2>. QED
    BY <2>1, <2>2 DEF InReceiver
<1>7. InHand'
  BY <1>2, <1>4 DEF IInv, InHand, Taken
<1>8. OnLine'
  BY <1>2, <1>4 DEF IInv, OnLine
<1>. QED
  BY <1>3, <1>6, <1>7, <1>8 DEF IInv

\* What is heard is either of no concern, or the echo, or "error" in a trip.
LEMMA HearStep == ASSUME IInv, Hear PROVE IInv'
<1>1. CASE UNCHANGED <<sent, answered>>
  BY <1>1, LinkAssumption DEF Lines, Hear, radio, counters, fpga, InLoop, Taken, Echoes,
              IInv, TypeOK, Impatient, InReceiver, InHand, OnLine
<1>2. CASE sent # None /\ line = <<"echo", sent>>
  BY <1>2, LinkAssumption DEF Lines, Hear, radio, counters, fpga, InLoop, Taken, Echoes,
              IInv, TypeOK, Impatient, InReceiver, InHand, OnLine
<1>3. CASE sent # None /\ line = <<"error", None>>
  BY <1>3, LinkAssumption DEF Lines, Hear, radio, counters, fpga, InLoop, Taken, Echoes,
              IInv, TypeOK, Impatient, InReceiver, InHand, OnLine
<1>. QED
  BY <1>1, <1>2, <1>3 DEF Hear

LEMMA NextInv == ASSUME IInv, [Next]_vars PROVE IInv'
<1>1. CASE UNCHANGED vars
  BY <1>1 DEF Lines, vars, radio, counters, fpga, InLoop, Taken, Echoes,
              IInv, TypeOK, Impatient, InReceiver, InHand, OnLine
<1>. QED
  BY <1>1, LoopStep, RestartStep, SendStep, HearStep DEF Next, Firmware

-----------------------------------------------------------------------------
\* In every reachable state a command that a patient FPGA waits for is in at
\* most one place: the receiver, main()'s hands, or the line.
THEOREM Inductive == Spec => []IInv
<1>. QED
  BY InitInv, NextInv, PTL DEF Spec

\* The types hold: `slow' stays an int, and a trip reports as often as it should.
THEOREM LinkTypes == Spec => []TypeOK
<1>1. IInv => TypeOK
  BY DEF IInv
<1>. QED
  BY <1>1, Inductive, PTL

-----------------------------------------------------------------------------
\* Every step of the link is one of the channel, or leaves the channel alone.
LEMMA ChannelStep ==
  ASSUME IInv, [Next]_vars
  PROVE  [Channel!Next]_<<sent, done, applied, answered>>
<1>1. CASE ChangeState
  <2>1. CASE patient
    <3>1. Channel!CarryOut
      BY <1>1, <2>1, LinkAssumption
      DEF ChangeState, Goes, counters, fpga, IInv, InHand, Taken, Channel!CarryOut
    <3>. QED
      BY <3>1 DEF Channel!Next
  <2>2. CASE ~patient
    BY <1>1, <2>2 DEF ChangeState, Goes, counters, fpga, IInv, TypeOK, Impatient
  <2>. QED
    BY <2>1, <2>2
<1>2. ASSUME NEW m \in Msgs, Send(m) PROVE [Channel!Next]_<<sent, done, applied, answered>>
  <2>1. CASE patient
    BY <1>2, <2>1 DEF Send, Channel!Next, Channel!Send
  <2>2. CASE ~patient
    BY <1>2, <2>2 DEF Send
  <2>. QED
    BY <2>1, <2>2
<1>3. CASE Hear
  <2>1. CASE sent # None /\ line = <<"echo", sent>>
    <3>1. patient /\ done
      BY <2>1 DEF IInv, TypeOK, Impatient, OnLine
    <3>2. Channel!Answer
      BY <1>3, <2>1, <3>1 DEF Hear, radio, counters, Channel!Answer
    <3>. QED
      BY <3>2 DEF Channel!Next
  <2>2. CASE sent # None /\ line = <<"error", None>>
    <3>1. Channel!GiveUp
      BY <1>3, <2>2 DEF Hear, radio, counters, Channel!GiveUp
    <3>. QED
      BY <3>1 DEF Channel!Next
  <2>3. CASE UNCHANGED <<sent, answered>>
    BY <1>3, <2>3 DEF Hear, radio
  <2>. QED
    BY <1>3, <2>1, <2>2, <2>3 DEF Hear
<1>4. CASE NotDue \/ Alive \/ NoByte \/ Read \/ Dump \/ EchoChar \/ GravUpdate \/ CheckPasses
  BY <1>4 DEF NotDue, Alive, NoByte, Read, Dump, EchoChar, GravUpdate, CheckPasses, radio, fpga
<1>5. CASE Trips \/ NotifyError \/ SystemReset \/ ProcessorReset \/ Listens \/ BootFails
           \/ Halted \/ Ready
  BY <1>5 DEF Trips, NotifyError, SystemReset, ProcessorReset, Listens, BootFails, Halted,
              Ready, Restart, MakesSafe, radio, fpga, vars
<1>6. CASE UNCHANGED vars
  BY <1>6 DEF vars, radio, fpga
<1>. QED
  BY <1>1, <1>2, <1>3, <1>4, <1>5, <1>6 DEF Next, Firmware, Loop

\* The link implements the channel: an answered command has been carried out,
\* once, and none that was given up is carried out afterwards.
THEOREM LinkImplementsChannel == Spec => ImplementsChannel
<1>1. Init => Channel!Init
  BY DEF Init, Channel!Init
<1>. QED
  BY <1>1, ChannelStep, Inductive, PTL DEF Spec, ImplementsChannel, Channel!Spec

-----------------------------------------------------------------------------
(* The period of "hello".  `slow' is a position in a period; one that      *)
(* overflows jumps to another.                                             *)

LEMMA Division ==
  ASSUME NEW p \in Nat \ {0}, NEW n \in Int
  PROVE  (n % p) \in 0 .. p - 1 /\ (n \div p) \in Int /\ n = p * (n \div p) + (n % p)
BY SMT

LEMMA Remainder ==
  ASSUME NEW p \in Nat \ {0}, NEW q \in Int, NEW m \in 0 .. p - 1
  PROVE  (p * q + m) % p = m
BY SMT

\* The next position.
LEMMA Successor ==
  ASSUME NEW p \in Nat \ {0}, NEW n \in Int
  PROVE  (n + 1) % p = IF n % p = p - 1 THEN 0 ELSE (n % p) + 1
<1>. DEFINE q == n \div p
            m == n % p
<1>1. q \in Int /\ m \in 0 .. p - 1 /\ n = p * q + m
  BY Division
<1>2. CASE m = p - 1
  <2>1. p * (q + 1) = p * q + p
    BY <1>1
  <2>2. n = p * q + (p - 1)
    BY <1>1, <1>2
  <2>. HIDE DEF q, m
  <2>3. n + 1 = p * (q + 1) + 0
    BY <1>1, <2>1, <2>2
  <2>4. (p * (q + 1) + 0) % p = 0
    BY <1>1, Remainder
  <2>. QED
    BY <1>2, <2>3, <2>4 DEF m
<1>3. CASE m # p - 1
  <2>1. m + 1 \in 0 .. p - 1 /\ n + 1 = p * q + (m + 1)
    BY <1>1, <1>3
  <2>2. (p * q + (m + 1)) % p = m + 1
    BY <1>1, <2>1, Remainder
  <2>. QED
    BY <1>3, <2>1, <2>2
<1>. QED
  BY <1>2, <1>3

\* The position after an overflow at n.
LEMMA Overflow ==
  ASSUME NEW p \in Nat \ {0}, NEW n \in Int
  PROVE  (-n - 1) % p = (p - 1) - (n % p)
<1>. DEFINE q == n \div p
            m == n % p
<1>1. q \in Int /\ m \in 0 .. p - 1 /\ n = p * q + m
  BY Division
<1>2. (p - 1) - m \in 0 .. p - 1 /\ -q - 1 \in Int
  BY <1>1
<1>3. (p * (-q - 1) + ((p - 1) - m)) % p = (p - 1) - m
  BY <1>1, <1>2, Remainder
<1>4. -n - 1 = p * (-q - 1) + ((p - 1) - m)
  BY <1>1
<1>. QED
  BY <1>3, <1>4

Phase == slow % Period
Short == IntMax % Period       \* what is left of a period at the overflow

\* Since the last "hello" as many iterations have passed as the position says.
Steady == quiet = IF Phase = 0 THEN Period - 1 ELSE Phase - 1

\* From the overflow until the next "hello" it is the part before the overflow
\* and the part after it.
Across ==
  /\ slow <= 0
  /\ quiet = IF Phase = 0 THEN 2 * Short + 1 ELSE Phase + 2 * Short + 1 - Period
  /\ Phase # 0 => Phase >= Period - 1 - Short

PhaseInv == Steady \/ Across

\* A period begins, after a reset, at 1.
LEMMA FirstPosition == 1 % Period = 1
<1>1. Period \in Nat /\ Period >= 2
  BY Division, LinkAssumption, PeriodAssumption
<1>2. (Period * 0 + 1) % Period = 1
  BY <1>1, Remainder
<1>. QED
  BY <1>1, <1>2

\* An iteration that is counted, with or without a "hello".
LEMMA PhaseStep ==
  ASSUME TypeOK, PhaseInv,
         slow' = Incremented(slow), quiet' = IF Due THEN 0 ELSE quiet + 1
  PROVE  PhaseInv'
<1>1. /\ Period \in Nat \ {0} /\ IntMax \in Nat \ {0}
      /\ slow \in -IntMax - 1 .. IntMax /\ slow \in Int
  BY LinkAssumption DEF TypeOK
<1>2. /\ Phase \in 0 .. Period - 1 /\ Short \in 0 .. Period - 1
      /\ 2 * Short + 2 <= Period
  BY <1>1, Division, PeriodAssumption DEF Phase, Short
<1>3. CASE slow # IntMax
  <2>1. slow' = slow + 1
    BY <1>3 DEF Incremented
  <2>2. Phase' = IF Phase = Period - 1 THEN 0 ELSE Phase + 1
    BY <1>1, <2>1, Successor DEF Phase
  <2>3. CASE Phase = 0
    <3>1. Phase' = 1
      BY <1>1, <1>2, <2>2, <2>3
    <3>2. quiet' = 0
      BY <2>3 DEF Due, Phase
    <3>. QED
      BY <3>1, <3>2 DEF PhaseInv, Steady
  <2>4. CASE Phase # 0 /\ Steady
    <3>1. quiet' = quiet + 1 /\ quiet = Phase - 1
      BY <2>4 DEF Due, Phase, Steady
    <3>2. Steady'
      BY <1>2, <2>2, <2>4, <3>1 DEF Steady
    <3>. QED
      BY <3>2 DEF PhaseInv
  <2>5. CASE Phase # 0 /\ Across
    <3>1. quiet' = quiet + 1 /\ quiet = Phase + 2 * Short + 1 - Period
      BY <2>5 DEF Due, Phase, Across
    <3>2. slow # 0
      <4>1. (Period * 0 + 0) % Period = 0
        BY <1>1, Remainder
      <4>. QED
        BY <1>1, <2>5, <4>1 DEF Phase
    <3>3. slow' <= 0 /\ Short' = Short
      BY <1>1, <2>1, <2>5, <3>2 DEF Across, Short
    <3>4. Phase >= Period - 1 - Short
      BY <2>5 DEF Across
    <3>5. Across'
      BY <1>1, <1>2, <2>2, <2>5, <3>1, <3>3, <3>4 DEF Across
    <3>. QED
      BY <3>5 DEF PhaseInv
  <2>. QED
    BY <2>3, <2>4, <2>5 DEF PhaseInv
<1>4. CASE slow = IntMax
  <2>1. slow' = -IntMax - 1 /\ Phase = Short
    BY <1>4 DEF Incremented, Phase, Short
  <2>2. Phase' = (Period - 1) - Short
    <3>1. (-IntMax - 1) % Period = (Period - 1) - (IntMax % Period)
      <4>1. IntMax \in Int /\ Period \in Nat \ {0}
        BY <1>1
      <4>. QED
        BY <4>1, Overflow, Zenon
    <3>. QED
      BY <2>1, <3>1 DEF Phase, Short
  <2>3. Steady
    BY <1>1, <1>4 DEF PhaseInv, Across
  <2>4. quiet' = Short
    BY <1>2, <2>1, <2>3 DEF Due, Phase, Steady
  <2>5. slow' <= 0 /\ Short' = Short /\ Phase' # 0
    BY <1>1, <1>2, <2>1, <2>2 DEF Short
  <2>6. Across'
    BY <1>1, <1>2, <2>2, <2>4, <2>5 DEF Across
  <2>. QED
    BY <2>6 DEF PhaseInv
<1>. QED
  BY <1>3, <1>4

\* Only the head of the loop and the resets change the position.
LEMMA PhaseNext == ASSUME TypeOK, PhaseInv, [Next]_vars PROVE PhaseInv'
<1>1. CASE NotDue \/ Alive
  <2>1. slow' = Incremented(slow) /\ quiet' = IF Due THEN 0 ELSE quiet + 1
    BY <1>1 DEF NotDue, Alive, Count
  <2>. QED
    BY <2>1, PhaseStep
<1>2. CASE SystemReset \/ ProcessorReset
  <2>1. slow' = 1 /\ quiet' = 0
    BY <1>2 DEF SystemReset, ProcessorReset, Restart
  <2>2. Steady'
    BY <2>1, FirstPosition DEF Steady, Phase
  <2>. QED
    BY <2>2 DEF PhaseInv
<1>3. CASE UNCHANGED <<slow, quiet>>
  BY <1>3 DEF PhaseInv, Steady, Across, Phase, Short
<1>4. ASSUME ~(NotDue \/ Alive \/ SystemReset \/ ProcessorReset)
      PROVE  UNCHANGED <<slow, quiet>>
  BY <1>4 DEF Next, Firmware, Loop, NoByte, Read, ChangeState, Dump, EchoChar, GravUpdate,
     CheckPasses, Trips, NotifyError, Listens, BootFails, Halted, Ready, Send, Hear,
     counters, vars
<1>. QED
  BY <1>1, <1>2, <1>3, <1>4

\* The FPGA hears "hello" once in every period, through every overflow of `slow'
\* and whatever it sends.
THEOREM HelloInTime == Spec => []AliveInTime
<1>1. Init => PhaseInv
  BY FirstPosition DEF Init, PhaseInv, Steady, Phase
<1>2. TypeOK /\ PhaseInv /\ [Next]_vars => PhaseInv'
  BY PhaseNext
<1>3. TypeOK /\ PhaseInv => AliveInTime
  <2>1. SUFFICES ASSUME TypeOK, PhaseInv PROVE quiet < Period
    BY DEF AliveInTime
  <2>2. /\ Period \in Nat \ {0} /\ IntMax \in Int /\ slow \in Int
    BY <2>1, LinkAssumption DEF TypeOK
  <2>3. /\ Phase \in 0 .. Period - 1 /\ Short \in 0 .. Period - 1
        /\ 2 * Short + 2 <= Period
    BY <2>2, Division, PeriodAssumption DEF Phase, Short
  <2>. QED
    BY <2>1, <2>2, <2>3 DEF PhaseInv, Steady, Across
<1>. QED
  BY <1>1, <1>2, <1>3, LinkTypes, PTL DEF Spec
=============================================================================
