----------------------------- MODULE CommandLink -----------------------------
(***************************************************************************)
(* The serial line between the FPGA and main()'s loop.  The firmware has   *)
(* no receive interrupt and no buffer: a byte waits in the receiver, which *)
(* has room for one, until the loop comes round.  Everything the firmware  *)
(* prints holds the loop up until the port has taken it.                   *)
(*                                                                         *)
(* The FPGA is patient, and waits for the echo of a command before it      *)
(* sends the next, or sends whenever it likes, as the test sketch does     *)
(* with its pairs.  What a command does to the radio's registers is        *)
(* RfControl's; here it is one step.                                       *)
(***************************************************************************)
EXTENDS Integers

CONSTANTS
  Msgs,       \* the commands the FPGA sends
  None,       \* no byte, no line
  Period,     \* iterations from one telemetry dump to the next, 10000
  IntMax,     \* the largest int
  Reports     \* how often a trip reports "error", 5

\* What the firmware prints to the FPGA.
Lines == {<<what, None>> : what \in {"hello", "telemetry", "error"}}
         \cup {<<"echo", m>> : m \in Msgs}

ASSUME LinkAssumption ==
  /\ Msgs \subseteq 0 .. 255 /\ None \notin Msgs /\ None \notin Lines
  /\ Period \in Nat \ {0} /\ IntMax \in Nat \ {0} /\ Reports \in Nat \ {0}

\* Less than half a period is left when `slow' overflows, as with 10000 and
\* 2^31 - 1, where it is 3647.
ASSUME PeriodAssumption == 2 * (IntMax % Period) + 2 <= Period

VARIABLES
  rdr,        \* the byte in the receiver
  line,       \* what is being sent to the FPGA: one line, or an echo
  pc,         \* where main(), init() or go_safe_and_reset() is
  val,        \* the byte main() has taken
  mode,       \* AMC7891::mode of each channel
  dac,        \* is the DAC's output enabled?
  slow,       \* main()'s variable
  reports,    \* go_safe_and_reset()'s i
  patient,    \* does the FPGA wait for echoes?
  sent,       \* the command a patient FPGA waits for
  done,       \* history: has that been carried out?
  applied,    \* history: the last command carried out for a patient FPGA
  answered,   \* history: did its last wait end with an echo?
  quiet       \* history: iterations since the last "hello"

fpga == <<patient, sent, answered>>
radio == <<mode, dac, done, applied>>
counters == <<slow, reports, quiet>>
vars == <<rdr, line, pc, val, radio, counters, fpga>>

Afe == {"a", "b"}

-----------------------------------------------------------------------------
(* The command byte, and what it does to the modes.                        *)

AfeOf(msg)  == IF msg \div 128 = 0 THEN "a" ELSE "b"
IsRx(msg)   == (msg \div 64) % 2 = 1
OpCode(msg) == msg % 64

ToFpga(msg) == ~IsRx(msg) /\ OpCode(msg) = 1        \* dump_telemetry(&fpga)

changeState(msg) ==
  CASE IsRx(msg)        -> [mode EXCEPT ![AfeOf(msg)] = "rx"]
    [] ~IsRx(msg) /\ OpCode(msg) = 0  -> [a \in Afe |-> "safe"]
    [] ~IsRx(msg) /\ OpCode(msg) = 3  -> [mode EXCEPT ![AfeOf(msg)] = "tx"]
    [] ~IsRx(msg) /\ OpCode(msg) = 22 -> [mode EXCEPT ![AfeOf(msg)] = "safe"]
    [] OTHER            -> mode

AnyTx == \E a \in Afe : mode[a] = "tx"

-----------------------------------------------------------------------------
(* The loop.                                                               *)

Goes(here, next) == pc = here /\ pc' = next

\* Blocking: the port takes a line when the one before is out.
Prints(what, v) == line = None /\ line' = <<what, v>>

\* slow++ on a signed int, whose overflow is undefined: the add of this
\* processor wraps.
Incremented(n) == IF n = IntMax THEN -IntMax - 1 ELSE n + 1

\* With the mistake of counting idle iterations only.
Count_idle ==
  /\ slow' = IF rdr = None THEN Incremented(slow) ELSE slow
  /\ quiet' = quiet + 1
  /\ UNCHANGED reports

Count == slow' = Incremented(slow) /\ quiet' = quiet + 1 /\ UNCHANGED reports

Due == slow % Period = 0

NotDue ==
  /\ Goes("loop", "read")
  /\ ~Due
  /\ Count
  /\ UNCHANGED <<rdr, line, val, radio, fpga>>

\* changeState(2), to the debug port, and riscv.alive().
Alive ==
  /\ Goes("loop", "read")
  /\ Due
  /\ Prints("hello", None)
  /\ slow' = Incremented(slow) /\ quiet' = 0
  /\ UNCHANGED <<rdr, val, radio, reports, fpga>>

NoByte ==
  /\ Goes("read", "check")
  /\ rdr = None
  /\ UNCHANGED <<rdr, line, val, radio, counters, fpga>>

Read ==
  /\ Goes("read", "change")
  /\ rdr # None
  /\ val' = rdr
  /\ rdr' = None
  /\ UNCHANGED <<line, radio, counters, fpga>>

ChangeState ==
  /\ Goes("change", IF ToFpga(val) THEN "dump" ELSE "echo")
  /\ mode' = changeState(val)
  /\ done' = (patient \/ done)
  /\ applied' = IF patient THEN val ELSE applied
  /\ UNCHANGED <<rdr, line, val, dac, counters, fpga>>

\* With the mistake of taking the dump for the answer.
Dump_answers ==
  /\ Goes("dump", "grav")
  /\ Prints("telemetry", None)
  /\ UNCHANGED <<rdr, val, radio, counters, fpga>>

Dump ==
  /\ Goes("dump", "echo")
  /\ Prints("telemetry", None)
  /\ UNCHANGED <<rdr, val, radio, counters, fpga>>

\* With the mistake of draining the receiver first: while( fpga.readable() ).
EchoChar_drains ==
  /\ Goes("echo", IF rdr = None THEN "grav" ELSE "read")
  /\ Prints("echo", val)
  /\ UNCHANGED <<rdr, val, radio, counters, fpga>>

EchoChar ==
  /\ Goes("echo", "grav")
  /\ Prints("echo", val)
  /\ UNCHANGED <<rdr, val, radio, counters, fpga>>

GravUpdate ==
  /\ Goes("grav", "check")
  /\ dac' = AnyTx
  /\ UNCHANGED <<rdr, line, val, mode, done, applied, counters, fpga>>

CheckPasses ==
  /\ Goes("check", "loop")
  /\ UNCHANGED <<rdr, line, val, radio, counters, fpga>>

Loop == NotDue \/ Alive \/ NoByte \/ Read \/ ChangeState \/ Dump \/ EchoChar
        \/ GravUpdate \/ CheckPasses

-----------------------------------------------------------------------------
(* The trip, the restart and the boot.  A sag in a calibration trips the   *)
(* boot; the external oscillator may fail it.                              *)

MakesSafe ==
  /\ mode' = [a \in Afe |-> "safe"]
  /\ dac' = FALSE
  /\ UNCHANGED <<done, applied>>

Trips ==
  /\ pc \in {"check", "boot"}
  /\ pc' = "trip"
  /\ MakesSafe
  /\ UNCHANGED <<rdr, line, val, counters, fpga>>

NotifyError_forever ==
  /\ Goes("trip", "trip")
  /\ Prints("error", None)
  /\ reports' = reports + 1
  /\ UNCHANGED <<rdr, val, radio, slow, quiet, fpga>>

NotifyError ==
  /\ Goes("trip", "trip")
  /\ reports < Reports
  /\ Prints("error", None)
  /\ reports' = reports + 1
  /\ UNCHANGED <<rdr, val, radio, slow, quiet, fpga>>

\* The port and AMC7891::mode are reset with the processor.  The DAC's output
\* lasts until boot reaches configure_grav_safe, before any command is read.
Restart ==
  /\ pc' = "deaf"
  /\ rdr' = None
  /\ val' = None
  /\ slow' = 1 /\ reports' = 0 /\ quiet' = 0
  /\ MakesSafe
  /\ UNCHANGED fpga

\* With the mistake of leaving the port alone: no reset, no baud().
SystemReset_keeps_port ==
  /\ pc = "trip"
  /\ reports = Reports
  /\ line = None
  /\ pc' = "boot"
  /\ reports' = 0 /\ slow' = 1 /\ quiet' = 0
  /\ val' = None
  /\ UNCHANGED <<rdr, line, radio, fpga>>

\* The last report is a second old.
SystemReset ==
  /\ pc = "trip"
  /\ reports = Reports
  /\ line = None
  /\ Restart
  /\ UNCHANGED line

\* The debug probe's, at any time; it cuts off the line that is being sent.
ProcessorReset ==
  /\ Restart
  /\ line' = None

\* fpga.baud(115200): from here on a byte is received.
Listens ==
  /\ Goes("deaf", "boot")
  /\ UNCHANGED <<rdr, line, val, radio, counters, fpga>>

BootFails ==
  /\ Goes("deaf", "halted")
  /\ UNCHANGED <<rdr, line, val, radio, counters, fpga>>

Halted == pc = "halted" /\ UNCHANGED vars

Ready ==
  /\ Goes("boot", "loop")
  /\ UNCHANGED <<rdr, line, val, radio, counters, fpga>>

-----------------------------------------------------------------------------
(* The FPGA.                                                               *)

\* A byte that finds the receiver full is overrun, one before fpga.baud() is
\* not received.
Send(m) ==
  /\ patient => sent = None
  /\ rdr' = IF pc = "deaf" \/ rdr # None THEN rdr ELSE m
  /\ IF patient THEN sent' = m /\ done' = FALSE ELSE UNCHANGED <<sent, done>>
  /\ UNCHANGED <<line, pc, val, mode, dac, applied, counters, patient, answered>>

\* A line is out.  Its echo answers a command; "error" makes the FPGA give it up.
Hear ==
  /\ line # None
  /\ line' = None
  /\ IF sent # None /\ line \in {<<"echo", sent>>, <<"error", None>>}
     THEN sent' = None /\ answered' = (line[1] = "echo")
     ELSE UNCHANGED <<sent, answered>>
  /\ UNCHANGED <<rdr, pc, val, radio, counters, patient>>

-----------------------------------------------------------------------------
Init ==
  /\ rdr = None /\ line = None /\ val = None
  /\ pc = "deaf"
  /\ mode = [a \in Afe |-> "safe"] /\ dac = FALSE
  /\ slow = 1 /\ reports = 0 /\ quiet = 0
  /\ patient \in BOOLEAN
  /\ sent = None /\ done = FALSE /\ applied = None /\ answered = FALSE

Firmware == Loop \/ Trips \/ NotifyError \/ SystemReset \/ Listens \/ BootFails
            \/ Halted \/ Ready

Next == Firmware \/ ProcessorReset \/ (\E m \in Msgs : Send(m)) \/ Hear

\* The processor executes its next statement, and a line is out in the end.
\* Nobody has to send.
Spec == Init /\ [][Next]_vars /\ WF_vars(Firmware) /\ WF_vars(Hear)

-----------------------------------------------------------------------------
InLoop == pc \in {"loop", "read", "change", "dump", "echo", "grav", "check"}

\* Type invariant.
TypeOK ==
  /\ rdr \in Msgs \cup {None}
  /\ line \in Lines \cup {None}
  /\ InLoop \/ pc \in {"trip", "deaf", "boot", "halted"}
  /\ val \in Msgs \cup {None}
  /\ mode \in [Afe -> {"safe", "rx", "tx"}] /\ dac \in BOOLEAN
  /\ slow \in -IntMax - 1 .. IntMax /\ reports \in 0 .. Reports /\ quiet \in Nat
  /\ patient \in BOOLEAN /\ sent \in Msgs \cup {None}
  /\ done \in BOOLEAN /\ applied \in Msgs \cup {None} /\ answered \in BOOLEAN

\* The FPGA hears "hello" once in every period of iterations, before and after
\* `slow' overflows, and however many commands it sends.
AliveInTime == InLoop => quiet < Period

\* What a patient FPGA can rely on: the echo means that the command it waits for
\* has been carried out, once; no command it has given up is carried out later,
\* whatever the receiver held when the board restarted.
Channel == INSTANCE CommandChannel WITH cmd <- sent

ImplementsChannel == Channel!Spec

\* A command of a patient FPGA that the receiver holds while the loop runs is
\* answered, unless the board restarts.
CommandsAreAnswered ==
  \A m \in Msgs :
    patient /\ sent = m /\ rdr = m /\ InLoop ~> sent = None \/ pc \in {"trip", "deaf"}

\* The echo of a command to transmit comes before the DAC's output is enabled,
\* but the output does follow, however fast the next commands come.
DacFollowsEcho ==
  \A m \in Msgs :
    line = <<"echo", m>> /\ ~IsRx(m) /\ OpCode(m) = 3 ~> dac \/ pc \in {"trip", "deaf"}

\* No stream of commands keeps main() from its safety checks.
ChecksNotStarved == []<>(pc \in {"check", "trip", "deaf", "halted"})
=============================================================================
