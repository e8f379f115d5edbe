------------------------------- MODULE SpiBus -------------------------------
(***************************************************************************)
(* The SPI bus that seven chips share and the drivers on it: the three     *)
(* AMC7891s ("a", "b", "main"), the clock chips LMK04826B ("clk") and      *)
(* LMK04133 ("syn"), the converters ADS42LB69 ("adc") and DAC3484 ("dac"). *)
(*                                                                         *)
(* A driver function is a sequence of bus operations: set the format (the  *)
(* SPI mode), drive a chip select, clock a frame, return a value.  The     *)
(* program strings driver calls together; the world raises alarms in the   *)
(* DAC and may restart the processor between any two operations, which     *)
(* releases the chip selects, holds the DAC in reset until it is           *)
(* programmed again, and leaves the other chips as they are.               *)
(***************************************************************************)
EXTENDS Naturals, Sequences

CONSTANT Alarms     \* the alarm flags of the DAC (its register 5)

VARIABLES
  fmt,      \* the bus format: 1 for (8,1), 0 for (8,0)
  cs,       \* the chips whose select line is low
  miso,     \* what the last frame returned
  amc,      \* each AMC7891: its configuration and the register it was asked for
  rst,      \* the DAC's reset pin: it is in reset while this is 0
  alarms,   \* the flags that are up in the DAC
  taken,    \* what the last read_reg returned: the register wanted, and got
  pc,       \* the next driver call
  todo,     \* the operations left of the current one
  read,     \* history: were the alarms read since they were last cleared?
  seen      \* history: if so, the alarms read, and those raised since then

vars == <<fmt, cs, miso, amc, rst, alarms, taken, pc, todo, read, seen>>

Amc  == {"a", "b", "main"}
Chip == Amc \cup {"clk", "syn", "adc", "dac"}

-----------------------------------------------------------------------------
(* Bus operations and driver functions.                                    *)

Op(op, chip, arg) == <<[op |-> op, chip |-> chip, arg |-> arg]>>

\* SPI modes 0 and 1; a wrong one, with the clock's polarity inverted.
format_inverted(f) == Op("format", "main", 2 + f)

format(f) == Op("format", "main", f)

Frame(chip, msg) == Op("select", chip, 0) \o Op("send", chip, msg) \o Op("deselect", chip, 0)

write_reg(c, reg) == Frame(c, <<"write", reg>>)

\* The answer to a frame comes in the next one, so the register is asked for
\* in one frame and the answer clocked out with a read of the id register.
read_reg(c, reg) ==
  Frame(c, <<"read", reg>>) \o Frame(c, <<"read", "id">>) \o Op("take", c, reg)

amc_init(c) ==
  write_reg(c, "reset") \o write_reg(c, "temp") \o write_reg(c, "power")
    \o write_reg(c, "enable") \o write_reg(c, "gain_1x") \o write_reg(c, "trigger")

\* set_gpio and config_gpio, write_dac and enable_dacs: RfControl has them one
\* by one, to the bus they are alike.
configure_grav_safe_no_gain == write_reg("main", "output")

configure_grav_safe == write_reg("main", "output") \o write_reg("main", "gain_v3v8")
SwitchOutputs(c)    == write_reg(c, "output")

\* The other chips are programmed in format 0, and the format restored (or,
\* in the first one, forgotten).
InFormat0_kept(ops) == format(0) \o ops

InFormat0(ops) == format(0) \o ops \o format(1)

lmk04826b_init == InFormat0(Frame("clk", <<"write", "rom">>))
lmk04133_init  == InFormat0(Frame("syn", <<"write", "rom">>))
ads42lb69_init == InFormat0(Frame("adc", <<"write", "rom">>))
get_temp       == InFormat0(Frame("dac", <<"read", "temp">>))
read_alarms    == InFormat0(Frame("dac", <<"read", "alarms">>))
clear_alarms   == InFormat0(Frame("dac", <<"write", "alarms">>))
set_current    == InFormat0(Frame("dac", <<"write", "current">>))

\* DAC3484::read_config and init use format 1 for the same chip.  The last
\* entry of the DAC's ROM clears the alarms.
ReadBack    == Frame("dac", <<"read", "rom">>) \o format(1)
read_config == format(1) \o ReadBack
dac_init    == format(1) \o Op("reset", "dac", 0) \o Op("reset", "dac", 1)
                 \o Frame("dac", <<"write", "rom">>)
                 \o Frame("dac", <<"write", "rom_alarms">>) \o ReadBack

\* What dump_telemetry and safety_check read of each AMC7891: the channels of
\* one kind (of the main one, the rails read at gain 1) are one register here.
Channels(c) == IF c = "main" THEN {"rail", "v3v8", "temperature"}
                             ELSE {"sensor", "temperature"}

Rails        == read_reg("main", "rail") \o read_reg("main", "v3v8")
Temperatures == read_reg("a", "temperature") \o read_reg("b", "temperature")
                  \o read_reg("main", "temperature")
Sensors      == read_reg("a", "sensor") \o read_reg("b", "sensor")

dump_telemetry_clear_first ==
  Rails \o Temperatures \o Sensors \o get_temp \o clear_alarms \o read_alarms

dump_telemetry ==
  Rails \o Temperatures \o Sensors \o get_temp \o read_alarms \o clear_alarms

-----------------------------------------------------------------------------
(* The effect of an operation.                                             *)

NextOp == Head(todo)

Does(op) == todo # <<>> /\ NextOp.op = op /\ todo' = Tail(todo) /\ UNCHANGED pc

Sends(chip, msg) ==
  todo # <<>> /\ NextOp.op = "send" /\ NextOp.chip = chip /\ NextOp.arg = msg

Clears == Sends("dac", <<"write", "alarms">>) \/ Sends("dac", <<"write", "rom_alarms">>)

SetFormat ==
  /\ Does("format")
  /\ fmt' = NextOp.arg
  /\ UNCHANGED <<cs, miso, amc, rst, alarms, taken, read, seen>>

Select ==
  /\ Does("select")
  /\ cs' = cs \cup {NextOp.chip}
  /\ UNCHANGED <<fmt, miso, amc, rst, alarms, taken, read, seen>>

Deselect ==
  /\ Does("deselect")
  /\ cs' = cs \ {NextOp.chip}
  /\ UNCHANGED <<fmt, miso, amc, rst, alarms, taken, read, seen>>

\* After its software reset an AMC7891 has no configuration, and gain 1.
Fresh == [config |-> {}, gain |-> "gain_1x", asked |-> "id"]

Written(chip, reg) ==
  CASE reg = "reset"                      -> Fresh
    [] reg \in {"gain_1x", "gain_v3v8"}   -> [chip EXCEPT !.gain = reg]
    [] OTHER                              -> [chip EXCEPT !.config = @ \cup {reg}]

\* Can the chip answer for the register as the conversions expect it?  The
\* ADC must have been set up, and only the 3.8 V rail is read at gain 2.
Sound(c, reg) ==
  /\ reg = "temperature" => "temp" \in amc[c].config
  /\ reg \in {"rail", "v3v8", "sensor"} =>
       {"power", "enable", "trigger"} \subseteq amc[c].config
  /\ reg = "v3v8" => amc[c].gain = "gain_v3v8"
  /\ reg = "sensor" => amc[c].gain = "gain_1x"

SendAmc ==
  /\ Does("send")
  /\ NextOp.chip \in Amc
  /\ LET c == NextOp.chip
         reg == NextOp.arg[2]
     IN  IF NextOp.arg[1] = "write"
         THEN amc' = [amc EXCEPT ![c] = Written(@, reg)] /\ UNCHANGED miso
         ELSE /\ miso' = [reg |-> amc[c].asked, sound |-> Sound(c, amc[c].asked)]
              /\ amc' = [amc EXCEPT ![c].asked = reg]
  /\ UNCHANGED <<fmt, cs, rst, alarms, taken, read, seen>>

\* The clock chips and the ADC keep what they are programmed with.
SendOther ==
  /\ Does("send")
  /\ NextOp.chip \notin Amc
  /\ ~Clears
  /\ IF Sends("dac", <<"read", "alarms">>) THEN read' = TRUE /\ seen' = alarms
                                           ELSE UNCHANGED <<read, seen>>
  /\ UNCHANGED <<fmt, cs, miso, amc, rst, alarms, taken>>

\* "write zeros to bits you wish to clear": all of them.
SendClear ==
  /\ Does("send")
  /\ Clears
  /\ alarms' = {}
  /\ read' = FALSE
  /\ seen' = {}
  /\ UNCHANGED <<fmt, cs, miso, amc, rst, taken>>

\* The DAC in reset forgets its alarms.
HoldInReset ==
  /\ rst' = 0
  /\ alarms' = {}
  /\ read' = FALSE
  /\ seen' = {}

ResetDac ==
  /\ Does("reset")
  /\ IF NextOp.arg = 0 THEN HoldInReset
                       ELSE rst' = 1 /\ UNCHANGED <<alarms, read, seen>>
  /\ UNCHANGED <<fmt, cs, miso, amc, taken>>

\* read_reg returns.
Take ==
  /\ Does("take")
  /\ taken' = [want |-> NextOp.arg, got |-> miso.reg, sound |-> miso.sound]
  /\ UNCHANGED <<fmt, cs, miso, amc, rst, alarms, read, seen>>

BusStep == \/ SetFormat \/ Select \/ Deselect \/ SendAmc \/ SendOther \/ SendClear
           \/ ResetDac \/ Take

-----------------------------------------------------------------------------
(* The program: the driver calls of init(), main() and go_safe_and_reset(). *)

Calls(here, ops, next) ==
  /\ todo = <<>>
  /\ pc = here
  /\ todo' = ops
  /\ pc' = next
  /\ UNCHANGED <<fmt, cs, miso, amc, rst, alarms, taken, read, seen>>

Boot == \/ Calls("reset", format(1), "init_amc")
        \/ Calls("init_amc", amc_init("a") \o amc_init("b") \o amc_init("main"), "safe")
        \/ Calls("safe", configure_grav_safe \o SwitchOutputs("a") \o SwitchOutputs("b"), "bus")
        \/ Calls("bus", read_reg("main", "rail") \o SwitchOutputs("main"), "dump")
        \/ Calls("bus", read_reg("main", "rail"), "dump")
        \/ Calls("dump", dump_telemetry, "clocks")
        \/ Calls("clocks", lmk04826b_init \o lmk04133_init \o ads42lb69_init \o dac_init, "cal_a")

\* A calibration reads the bus, then steps the gate and reads current and bus
\* until it is done or trips.
Calibrate(c, here, next) ==
  \/ Calls(here, SwitchOutputs(c) \o read_reg(c, "sensor") \o read_reg("main", "rail"), here)
  \/ Calls(here, SwitchOutputs(c) \o read_reg(c, "sensor"), next)
  \/ Calls(here, <<>>, "trip")

\* A command switches a mode, dumps telemetry, reads the power in and out of
\* channel A, sets the DAC's current, reads back its registers or does nothing.
\* A check reads one channel or trips.
Commands == {SwitchOutputs("a"), SwitchOutputs("b"), SwitchOutputs("a") \o SwitchOutputs("b"),
             dump_telemetry, read_reg("a", "sensor"), set_current, read_config, <<>>}

Checks == UNION {{read_reg(c, r) : r \in Channels(c)} : c \in Amc}

\* Every 10000th time round the loop dumps telemetry, the first time after
\* reading back the DAC's registers.
Periodic == Calls("loop", dump_telemetry, "command") \/
            Calls("loop", read_config \o dump_telemetry, "command")

MainLoop == \/ Calls("loop", <<>>, "command")
            \/ Periodic
            \/ \E ops \in Commands : Calls("command", ops, "grav")
            \/ Calls("grav", SwitchOutputs("main"), "check")
            \/ Calls("grav", <<>>, "check")
            \/ Calls("command", <<>>, "check")
            \/ \E ops \in Checks : Calls("check", ops, "loop")
            \/ Calls("check", <<>>, "trip")

Trip == \/ Calls("trip", SwitchOutputs("a") \o SwitchOutputs("b") \o configure_grav_safe, "report")
        \/ Calls("report", dump_telemetry, "restart")

Program == \/ Boot
           \/ Calibrate("a", "cal_a", "cal_b")
           \/ Calibrate("b", "cal_b", "resafe")
           \/ Calls("resafe", SwitchOutputs("a") \o SwitchOutputs("b") \o dump_telemetry, "loop")
           \/ MainLoop
           \/ Trip

\* A restart, by the program or from outside: format (8,0) is what the bus
\* starts with, every chip select starts high, and the DAC's reset pin low.
Restart ==
  /\ fmt' = 0
  /\ cs' = {}
  /\ pc' = "reset"
  /\ todo' = <<>>
  /\ HoldInReset
  /\ UNCHANGED <<miso, amc, taken>>

SystemReset == todo = <<>> /\ pc = "restart" /\ Restart

ProcessorReset == Restart

Raise(x) ==
  /\ rst = 1
  /\ x \notin alarms
  /\ alarms' = alarms \cup {x}
  /\ seen' = IF read THEN seen \cup {x} ELSE seen
  /\ UNCHANGED <<fmt, cs, miso, amc, rst, taken, pc, todo, read>>

Init ==
  /\ fmt = 0
  /\ cs = {}
  /\ miso = [reg |-> "id", sound |-> TRUE]
  /\ amc = [c \in Amc |-> Fresh]
  /\ rst = 0
  /\ alarms = {}
  /\ taken = [want |-> "id", got |-> "id", sound |-> TRUE]
  /\ pc = "reset"
  /\ todo = <<>>
  /\ read = FALSE
  /\ seen = {}

Next == BusStep \/ Program \/ SystemReset \/ ProcessorReset \/ \E x \in Alarms : Raise(x)

Spec == Init /\ [][Next]_vars

-----------------------------------------------------------------------------
Registers == {"id", "reset", "temp", "power", "enable", "gain_1x", "gain_v3v8", "trigger",
              "output", "rail", "v3v8", "sensor", "temperature"}

\* Type invariant.
TypeOK ==
  /\ fmt \in {0, 1}
  /\ cs \in SUBSET Chip
  /\ miso \in [reg : Registers, sound : BOOLEAN]
  /\ amc \in [Amc -> [config : SUBSET Registers, gain : {"gain_1x", "gain_v3v8"},
                      asked : Registers]]
  /\ rst \in {0, 1}
  /\ alarms \subseteq Alarms
  /\ read \in BOOLEAN
  /\ seen \subseteq Alarms
  /\ taken \in [want : Registers, got : Registers, sound : BOOLEAN]

\* (8,1) for the AMC7891s, which never set it themselves, and where the DAC's
\* ROM is written and read back; (8,0) in all other driver functions.
DriverFormat(chip, msg) ==
  IF chip \in Amc \/ (chip = "dac" /\ msg[2] \in {"rom", "rom_alarms"}) THEN 1 ELSE 0

\* Every frame goes to one selected chip, in the format that its own driver
\* function sets or counts on, though any driver may have used the bus before
\* and set another.  And the DAC is out of reset when it is programmed or its
\* ROM read back (init() dumps its telemetry before that, from a DAC in reset).
RightFormat ==
  todo # <<>> /\ NextOp.op = "send" =>
    /\ cs = {NextOp.chip}
    /\ fmt = DriverFormat(NextOp.chip, NextOp.arg)
    /\ NextOp.chip = "dac" /\ NextOp.arg[2] \in {"rom", "rom_alarms", "current"} => rst = 1

\* read_reg returns the register it was asked for, from a chip that converts
\* with the gain its caller assumes, whatever frames a restart cut off.
ReadsAreSound == taken.got = taken.want /\ taken.sound

\* dump_telemetry clears all alarms, and none is lost by it but those raised
\* between its read and its clear: every other alarm that goes down was read
\* since the last clear, or goes down because the DAC is reset, which each
\* restart does, or has its ROM written, at boot.
AlarmsAccountedFor ==
  [][\/ rst' = 0
     \/ Sends("dac", <<"write", "rom_alarms">>)
     \/ \A x \in alarms \ alarms' : read /\ x \in seen]_vars
=============================================================================
