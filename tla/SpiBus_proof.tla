---------------------------- MODULE SpiBus_proof ----------------------------
(***************************************************************************)
(* Every frame of SpiBus goes to the one chip it is for in the format that *)
(* its driver function sets, every reading comes from the register that    *)
(* was asked for, and dump_telemetry clears no alarm unread.               *)
(*                                                                         *)
(* A driver call is a sequence of operations.  Runs(s, ops, Q) says that   *)
(* from state s of the bus each of ops finds what it needs and that they   *)
(* end in Q: a triple of precondition, program and postcondition.  The     *)
(* lemmas build the triples of the drivers from those of their parts; the  *)
(* invariant is the triple of what is left of the current call.            *)
(***************************************************************************)
EXTENDS SpiBus, TLAPS

Configuration == [config : SUBSET Registers, gain : {"gain_1x", "gain_v3v8"},
                  asked : Registers]

\* What the operations read and write; `out' is whether the DAC is out of reset.
State == [fmt : {0, 1}, cs : SUBSET Chip, miso : [reg : Registers, sound : BOOLEAN],
          amc : [Amc -> Configuration], read : BOOLEAN, out : BOOLEAN]

Bus == [fmt |-> fmt, cs |-> cs, miso |-> miso, amc |-> amc, read |-> read,
        out |-> rst = 1]

Messages == {"write", "read"} \X (Registers \cup {"rom", "rom_alarms", "alarms", "current"})

Operation == [op : {"format"}, chip : {"main"}, arg : {0, 1}]
             \cup [op : {"select", "deselect"}, chip : Chip, arg : {0}]
             \cup [op : {"reset"}, chip : {"dac"}, arg : {0, 1}]
             \cup [op : {"send"}, chip : Chip, arg : Messages]
             \cup [op : {"take"}, chip : Amc, arg : Registers]

-----------------------------------------------------------------------------
(* What an operation needs, and what it does.                              *)

\* Sound, of an AMC7891 in configuration k.
SoundIn(k, reg) ==
  /\ reg = "temperature" => "temp" \in k.config
  /\ reg \in {"rail", "v3v8", "sensor"} => {"power", "enable", "trigger"} \subseteq k.config
  /\ reg = "v3v8" => k.gain = "gain_v3v8"
  /\ reg = "sensor" => k.gain = "gain_1x"

Programs == {"rom", "rom_alarms", "current"}

\* The format a message is sent in, and the registers a chip has; the DAC is
\* programmed out of reset, and its alarms are cleared once read, but in its ROM.
Fits(s, c, msg) ==
  /\ s.fmt = DriverFormat(c, msg)
  /\ c \in Amc => msg[2] \in Registers
  /\ c = "dac" /\ msg[2] \in Programs => s.out
  /\ msg = <<"write", "alarms">> => c = "dac" /\ s.read

Needs(s, o) ==
  /\ o.op = "send" => s.cs = {o.chip} /\ Fits(s, o.chip, o.arg)
  /\ o.op = "take" => s.miso = [reg |-> o.arg, sound |-> TRUE]

\* The state after a frame.
Sent(s, c, msg) ==
  IF c \in Amc
  THEN IF msg[1] = "write"
       THEN [s EXCEPT !.amc = [s.amc EXCEPT ![c] = Written(s.amc[c], msg[2])]]
       ELSE [s EXCEPT !.miso = [reg |-> s.amc[c].asked,
                                sound |-> SoundIn(s.amc[c], s.amc[c].asked)],
                      !.amc = [s.amc EXCEPT ![c].asked = msg[2]]]
  ELSE IF c = "dac" /\ msg \in {<<"write", "alarms">>, <<"write", "rom_alarms">>}
  THEN [s EXCEPT !.read = FALSE]
  ELSE IF c = "dac" /\ msg = <<"read", "alarms">> THEN [s EXCEPT !.read = TRUE]
  ELSE s

After(s, o) ==
  IF o.op = "format" THEN [s EXCEPT !.fmt = o.arg]
  ELSE IF o.op = "select" THEN [s EXCEPT !.cs = s.cs \cup {o.chip}]
  ELSE IF o.op = "deselect" THEN [s EXCEPT !.cs = s.cs \ {o.chip}]
  ELSE IF o.op = "send" THEN Sent(s, o.chip, o.arg)
  ELSE IF o.op = "reset" /\ o.arg = 0 THEN [s EXCEPT !.read = FALSE, !.out = FALSE]
  ELSE IF o.op = "reset" THEN [s EXCEPT !.out = TRUE]
  ELSE s

-----------------------------------------------------------------------------
(* Triples.                                                                *)

\* The states f of the bus before, between and after the operations.
IsRun(f, s, ops, Q) ==
  /\ ops \in Seq(Operation)
  /\ f \in [1 .. Len(ops) + 1 -> State]
  /\ f[1] = s
  /\ f[Len(ops) + 1] \in Q
  /\ \A i \in 1 .. Len(ops) : Needs(f[i], ops[i]) /\ f[i + 1] = After(f[i], ops[i])

Runs(s, ops, Q) == \E f : IsRun(f, s, ops, Q)

LEMMA RunsNothing ==
  ASSUME NEW s \in State, NEW Q, s \in Q
  PROVE  Runs(s, <<>>, Q)
<1>. DEFINE f == [i \in 1 .. 1 |-> s]
<1>1. <<>> \in Seq(Operation) /\ Len(<<>>) = 0
  OBVIOUS
<1>2. IsRun(f, s, <<>>, Q)
  BY <1>1 DEF IsRun
<1>. QED
  BY <1>2 DEF Runs

LEMMA RunsOne ==
  ASSUME NEW s \in State, NEW o \in Operation, NEW Q,
         Needs(s, o), After(s, o) \in State, After(s, o) \in Q
  PROVE  Runs(s, <<o>>, Q)
<1>. DEFINE f == [i \in 1 .. 2 |-> IF i = 1 THEN s ELSE After(s, o)]
<1>1. /\ <<o>> \in Seq(Operation) /\ Len(<<o>>) = 1 /\ <<o>>[1] = o
      /\ f \in [1 .. 2 -> State] /\ f[1] = s /\ f[2] = After(s, o)
  OBVIOUS
<1>. HIDE DEF f
<1>2. \A i \in 1 .. 1 : Needs(f[i], <<o>>[i]) /\ f[i + 1] = After(f[i], <<o>>[i])
  BY <1>1
<1>3. IsRun(f, s, <<o>>, Q)
  BY <1>1, <1>2 DEF IsRun
<1>. QED
  BY <1>3 DEF Runs

\* One program after another.
LEMMA RunsThen ==
  ASSUME NEW s, NEW ops, NEW rest, NEW Q, NEW R,
         Runs(s, ops, Q), \A t \in Q : t \in State => Runs(t, rest, R)
  PROVE  Runs(s, ops \o rest, R)
<1>1. PICK f : IsRun(f, s, ops, Q)
  BY DEF Runs
<1>. DEFINE n == Len(ops)
            m == Len(rest)
            t == f[n + 1]
<1>2. n \in Nat /\ ops \in Seq(Operation) /\ f \in [1 .. n + 1 -> State] /\ t \in Q
  BY <1>1 DEF IsRun
<1>3. PICK g : IsRun(g, t, rest, R)
  <2>1. t \in State
    BY <1>2
  <2>. QED
    BY <1>2, <2>1 DEF Runs
<1>4. m \in Nat /\ rest \in Seq(Operation) /\ g \in [1 .. m + 1 -> State] /\ g[1] = t
  BY <1>3 DEF IsRun
<1>5. /\ ops \o rest \in Seq(Operation) /\ Len(ops \o rest) = n + m
      /\ \A i \in 1 .. n : (ops \o rest)[i] = ops[i]
      /\ \A i \in 1 .. m : (ops \o rest)[n + i] = rest[i]
  BY <1>2, <1>4
<1>. DEFINE h == [i \in 1 .. n + m + 1 |-> IF i <= n THEN f[i] ELSE g[i - n]]
<1>6. /\ \A i \in 1 .. n + 1 : h[i] = f[i]
      /\ \A i \in 1 .. m + 1 : h[n + i] = g[i]
  <2>1. \A i \in 1 .. n : h[i] = f[i]
    BY <1>2, <1>4
  <2>2. \A i \in 1 .. m + 1 : h[n + i] = g[i]
    <3>1. SUFFICES ASSUME NEW i \in 1 .. m + 1 PROVE h[n + i] = g[i]
      OBVIOUS
    <3>2. n + i \in 1 .. n + m + 1 /\ ~(n + i <= n) /\ (n + i) - n = i
      BY <1>2, <1>4
    <3>. QED
      BY <3>2
  <2>3. h[n + 1] = f[n + 1]
    BY <2>2, <1>4
  <2>. QED
    BY <2>1, <2>2, <2>3, <1>2
<1>7. h \in [1 .. n + m + 1 -> State]
  <2>1. \A i \in 1 .. n + m + 1 : IF i <= n THEN f[i] \in State ELSE g[i - n] \in State
    <3>1. SUFFICES ASSUME NEW i \in 1 .. n + m + 1
                   PROVE  IF i <= n THEN f[i] \in State ELSE g[i - n] \in State
      OBVIOUS
    <3>2. IF i <= n THEN i \in 1 .. n + 1 ELSE i - n \in 1 .. m + 1
      BY <1>2, <1>4
    <3>. QED
      BY <1>2, <1>4, <3>2
  <2>. QED
    BY <2>1
<1>. HIDE DEF h, t
<1>8. ASSUME NEW i \in 1 .. n + m
      PROVE  Needs(h[i], (ops \o rest)[i]) /\ h[i + 1] = After(h[i], (ops \o rest)[i])
  <2>1. CASE i <= n
    <3>1. i \in 1 .. n /\ i \in 1 .. n + 1 /\ i + 1 \in 1 .. n + 1
      BY <1>2, <2>1
    <3>2. h[i] = f[i] /\ h[i + 1] = f[i + 1] /\ (ops \o rest)[i] = ops[i]
      BY <3>1, <1>5, <1>6
    <3>. QED
      BY <1>1, <3>1, <3>2 DEF IsRun
  <2>2. CASE n < i
    <3>. DEFINE j == i - n
    <3>1. j \in 1 .. m /\ j \in 1 .. m + 1 /\ j + 1 \in 1 .. m + 1 /\ n + j = i
          /\ n + (j + 1) = i + 1
      BY <1>2, <1>4, <2>2
    <3>. HIDE DEF j
    <3>2. h[i] = g[j] /\ h[i + 1] = g[j + 1] /\ (ops \o rest)[i] = rest[j]
      BY <3>1, <1>5, <1>6
    <3>. QED
      BY <1>3, <3>1, <3>2 DEF IsRun
  <2>. QED
    BY <1>2, <1>4, <2>1, <2>2
<1>9. h[1] = s /\ h[n + m + 1] \in R
  <2>1. 1 \in 1 .. n + 1 /\ m + 1 \in 1 .. m + 1 /\ n + (m + 1) = n + m + 1
    BY <1>2, <1>4
  <2>. QED
    BY <1>1, <1>3, <1>6, <2>1 DEF IsRun
<1>10. IsRun(h, s, ops \o rest, R)
  BY <1>5, <1>7, <1>8, <1>9 DEF IsRun
<1>. QED
  BY <1>10 DEF Runs

LEMMA RunsWeaker ==
  ASSUME NEW s, NEW ops, NEW Q, NEW R, Runs(s, ops, Q), Q \subseteq R
  PROVE  Runs(s, ops, R)
BY DEF Runs, IsRun

\* The first operation of a program finds what it needs, and the others run on.
LEMMA RunsFirst ==
  ASSUME NEW s, NEW ops, NEW Q, Runs(s, ops, Q), ops # <<>>
  PROVE  /\ Head(ops) \in Operation
         /\ Needs(s, Head(ops)) /\ After(s, Head(ops)) \in State
         /\ Runs(After(s, Head(ops)), Tail(ops), Q)
<1>1. PICK f : IsRun(f, s, ops, Q)
  BY DEF Runs
<1>. DEFINE n == Len(ops)
            g == [i \in 1 .. n |-> f[i + 1]]
            o == Head(ops)
<1>2. /\ ops \in Seq(Operation) /\ n \in Nat \ {0} /\ o = ops[1] /\ o \in Operation
      /\ f \in [1 .. n + 1 -> State] /\ f[1] = s
  BY <1>1 DEF IsRun
<1>3. /\ Tail(ops) \in Seq(Operation) /\ Len(Tail(ops)) = n - 1
      /\ \A i \in 1 .. n - 1 : Tail(ops)[i] = ops[i + 1]
  BY <1>2
<1>4. g \in [1 .. n -> State] /\ \A i \in 1 .. n : g[i] = f[i + 1]
  <2>1. \A i \in 1 .. n : i + 1 \in 1 .. n + 1
    BY <1>2
  <2>. QED
    BY <1>2, <2>1
<1>5. 1 \in 1 .. n /\ n \in 1 .. n
  BY <1>2
<1>. HIDE DEF g, o
<1>6. Needs(s, o) /\ f[1 + 1] = After(s, o) /\ g[1] = After(s, o)
  <2>1. Needs(f[1], ops[1]) /\ f[1 + 1] = After(f[1], ops[1])
    BY <1>1, <1>5 DEF IsRun
  <2>. QED
    BY <1>2, <1>4, <1>5, <2>1
<1>7. ASSUME NEW i \in 1 .. n - 1
      PROVE  Needs(g[i], Tail(ops)[i]) /\ g[i + 1] = After(g[i], Tail(ops)[i])
  <2>1. i \in 1 .. n /\ i + 1 \in 1 .. n
    BY <1>2
  <2>2. g[i] = f[i + 1] /\ g[i + 1] = f[(i + 1) + 1] /\ Tail(ops)[i] = ops[i + 1]
    BY <1>3, <1>4, <2>1
  <2>3. Needs(f[i + 1], ops[i + 1]) /\ f[(i + 1) + 1] = After(f[i + 1], ops[i + 1])
    BY <1>1, <2>1 DEF IsRun
  <2>. QED
    BY <2>2, <2>3
<1>8. g[n] \in Q /\ After(s, o) \in State
  BY <1>1, <1>4, <1>5, <1>6 DEF IsRun
<1>9. IsRun(g, After(s, o), Tail(ops), Q)
  <2>1. n - 1 + 1 = n
    BY <1>2
  <2>. QED
    BY <1>3, <1>4, <1>6, <1>7, <1>8, <2>1 DEF IsRun
<1>. QED
  BY <1>2, <1>6, <1>8, <1>9 DEF Runs, o

\* An empty program has ended.
LEMMA RunsEnded ==
  ASSUME NEW s, NEW Q, Runs(s, <<>>, Q)
  PROVE  s \in Q /\ s \in State
<1>1. PICK f : IsRun(f, s, <<>>, Q)
  BY DEF Runs
<1>2. f \in [1 .. 1 -> State] /\ f[1] = s /\ f[1] \in Q
  BY <1>1 DEF IsRun
<1>. QED
  BY <1>2

-----------------------------------------------------------------------------
(* Frames.                                                                 *)

LEMMA SameState ==
  ASSUME NEW s \in State, NEW t \in State,
         s.fmt = t.fmt, s.cs = t.cs, s.miso = t.miso, s.amc = t.amc, s.read = t.read,
         s.out = t.out
  PROVE  s = t
BY DEF State

\* A frame keeps the types.
LEMMA SentType ==
  ASSUME NEW s \in State, NEW c \in Chip, NEW msg \in Messages,
         c \in Amc => msg[2] \in Registers
  PROVE  /\ Sent(s, c, msg) \in State
         /\ Sent(s, c, msg).fmt = s.fmt /\ Sent(s, c, msg).cs = s.cs
         /\ Sent(s, c, msg).out = s.out
<1>1. CASE c \in Amc /\ msg[1] = "write"
  <2>1. s.amc[c] \in Configuration /\ Fresh \in Configuration
    BY <1>1 DEF State, Fresh, Configuration, Registers
  <2>2. Written(s.amc[c], msg[2]) \in Configuration
    BY <1>1, <2>1 DEF Written, Configuration
  <2>. QED
    BY <1>1, <2>2 DEF Sent, State
<1>2. CASE c \in Amc /\ msg[1] # "write"
  <2>1. s.amc[c] \in Configuration
    BY <1>2 DEF State
  <2>2. /\ [s.amc[c] EXCEPT !.asked = msg[2]] \in Configuration
        /\ s.amc[c].asked \in Registers
    BY <1>2, <2>1 DEF Configuration
  <2>3. [s.amc EXCEPT ![c].asked = msg[2]] \in [Amc -> Configuration]
    BY <1>2, <2>2 DEF State
  <2>4. [reg |-> s.amc[c].asked, sound |-> SoundIn(s.amc[c], s.amc[c].asked)]
          \in [reg : Registers, sound : BOOLEAN]
    BY <2>2 DEF SoundIn
  <2>. QED
    BY <1>2, <2>3, <2>4 DEF Sent, State
<1>3. CASE c \notin Amc
  BY <1>3 DEF Sent, State
<1>. QED
  BY <1>1, <1>2, <1>3

LEMMA FrameRuns ==
  ASSUME NEW s \in State, NEW c \in Chip, NEW msg \in Messages, NEW Q,
         s.cs = {}, Fits(s, c, msg), Sent(s, c, msg) \in Q
  PROVE  Runs(s, Frame(c, msg), Q)
<1>. DEFINE o1 == [op |-> "select", chip |-> c, arg |-> 0]
            o2 == [op |-> "send", chip |-> c, arg |-> msg]
            o3 == [op |-> "deselect", chip |-> c, arg |-> 0]
            s1 == [s EXCEPT !.cs = {c}]
            s2 == Sent(s1, c, msg)
            s3 == [s2 EXCEPT !.cs = {}]
<1>1. o1 \in Operation /\ o2 \in Operation /\ o3 \in Operation
  BY DEF Operation
<1>2. s1 \in State /\ s1.cs = {c} /\ After(s, o1) = s1
  BY DEF State, After
<1>3. /\ s1.fmt = s.fmt /\ s1.miso = s.miso /\ s1.amc = s.amc /\ s1.read = s.read
      /\ s1.out = s.out
  BY DEF State
<1>4. Fits(s1, c, msg) /\ (c \in Amc => msg[2] \in Registers)
  BY <1>3 DEF Fits
<1>5. s2 \in State /\ s2.cs = {c}
  BY <1>2, <1>4, SentType
<1>6. s3 \in State /\ After(s2, o3) = s3
  BY <1>5 DEF State, After
<1>7. s3 = Sent(s, c, msg)
  <2>1. Sent(s, c, msg) \in State /\ Sent(s, c, msg).cs = {}
    BY <1>4, SentType
  <2>2. /\ s2.fmt = Sent(s, c, msg).fmt /\ s2.miso = Sent(s, c, msg).miso
        /\ s2.amc = Sent(s, c, msg).amc /\ s2.read = Sent(s, c, msg).read
        /\ s2.out = Sent(s, c, msg).out
    BY <1>2, <1>3 DEF Sent, State
  <2>3. /\ s3.fmt = s2.fmt /\ s3.cs = {} /\ s3.miso = s2.miso /\ s3.amc = s2.amc
        /\ s3.read = s2.read /\ s3.out = s2.out
    BY <1>5 DEF State
  <2>. HIDE DEF s3, s2
  <2>. QED
    BY <1>6, <2>1, <2>2, <2>3, SameState
<1>8. Needs(s, o1) /\ Needs(s1, o2) /\ Needs(s2, o3) /\ After(s1, o2) = s2
  BY <1>2, <1>4 DEF Needs, After
<1>. HIDE DEF s1, s2, s3
<1>9. Runs(s, <<o1>>, {s1}) /\ Runs(s1, <<o2>>, {s2}) /\ Runs(s2, <<o3>>, Q)
  <2>1. Runs(s, <<o1>>, {s1})
    BY <1>1, <1>2, <1>8, RunsOne DEF o1
  <2>2. Runs(s1, <<o2>>, {s2})
    BY <1>1, <1>2, <1>5, <1>8, RunsOne
  <2>3. Runs(s2, <<o3>>, Q)
    BY <1>1, <1>5, <1>6, <1>7, <1>8, RunsOne
  <2>. QED
    BY <2>1, <2>2, <2>3
<1>10. Runs(s, <<o1>> \o <<o2>>, {s2})
  BY <1>9, RunsThen
<1>11. Runs(s, (<<o1>> \o <<o2>>) \o <<o3>>, Q)
  BY <1>9, <1>10, RunsThen
<1>. QED
  BY <1>11 DEF Frame, Op

-----------------------------------------------------------------------------
(* Between two driver calls.                                               *)

Idle(b) == {s \in State : s.fmt = 1 /\ s.cs = {} /\ s.out = b}

\* What amc_init leaves in a chip.
SetUp(s, c) == /\ {"temp", "power", "enable", "trigger"} \subseteq s.amc[c].config
               /\ c # "main" => s.amc[c].gain = "gain_1x"

Configured(b) == {s \in Idle(b) : \A c \in Amc : SetUp(s, c)}

\* And what configure_grav_safe adds.
Ready(b) == {s \in Configured(b) : s.amc["main"].gain = "gain_v3v8"}

AlarmsRead(b) == {s \in Ready(b) : s.read}

LEMMA ReadyIsState ==
  ASSUME NEW b, NEW s \in Ready(b)
  PROVE  s \in State /\ s \in Idle(b) /\ s.fmt = 1 /\ s.cs = {} /\ s.out = b
BY DEF Ready, Configured, Idle

LEMMA FormatRuns ==
  ASSUME NEW s \in State, NEW f \in {0, 1}, NEW Q, [s EXCEPT !.fmt = f] \in Q
  PROVE  Runs(s, format(f), Q)
<1>. DEFINE o == [op |-> "format", chip |-> "main", arg |-> f]
<1>1. o \in Operation /\ Needs(s, o) /\ After(s, o) = [s EXCEPT !.fmt = f]
  BY DEF Operation, Needs, After
<1>2. [s EXCEPT !.fmt = f] \in State
  BY DEF State
<1>. HIDE DEF o
<1>3. Runs(s, <<o>>, Q)
  BY <1>1, <1>2, RunsOne
<1>. QED
  BY <1>3 DEF format, Op, o

LEMMA FormatKept ==
  ASSUME NEW b, NEW s \in Ready(b)
  PROVE  [s EXCEPT !.fmt = 1] = s
BY ReadyIsState DEF State

\* A register written to an AMC7891, in a chip configured or not.
WrittenTo(b, chips, c, reg) ==
  {t \in Idle(b) : t.amc = [chips EXCEPT ![c] = Written(chips[c], reg)]}

LEMMA WriteRuns ==
  ASSUME NEW b, NEW s \in Idle(b), NEW c \in Amc, NEW reg \in Registers, NEW Q,
         WrittenTo(b, s.amc, c, reg) \subseteq Q
  PROVE  Runs(s, write_reg(c, reg), Q)
<1>. DEFINE msg == <<"write", reg>>
            t == Sent(s, c, msg)
<1>1. msg \in Messages /\ c \in Chip /\ reg \notin {"alarms", "current"}
  BY DEF Messages, Registers, Chip
<1>2. s \in State /\ s.fmt = 1 /\ s.cs = {}
  BY DEF Idle
<1>3. Fits(s, c, msg)
  BY <1>1, <1>2 DEF Fits, DriverFormat, Amc
<1>4. t \in Idle(b)
  BY <1>1, <1>2, SentType DEF Idle
<1>5. t.amc = [s.amc EXCEPT ![c] = Written(s.amc[c], reg)]
  BY <1>2 DEF Sent, State
<1>. HIDE DEF t
<1>6. t \in Q
  BY <1>4, <1>5 DEF WrittenTo
<1>. QED
  BY <1>1, <1>2, <1>3, <1>6, FrameRuns DEF write_reg, t

\* What else is known of the chips that were not written to.
LEMMA WrittenKeeps ==
  ASSUME NEW b, NEW s \in State, NEW c \in Amc, NEW reg \in Registers \ {"reset"},
         NEW t \in WrittenTo(b, s.amc, c, reg), NEW d \in Amc
  PROVE  /\ s.amc[d].config \subseteq t.amc[d].config
         /\ d # c => t.amc[d] = s.amc[d]
         /\ reg \notin {"gain_1x", "gain_v3v8"} => /\ t.amc[d].gain = s.amc[d].gain
                                                   /\ reg \in t.amc[c].config
         /\ reg \in {"gain_1x", "gain_v3v8"} => t.amc[c].gain = reg
<1>1. s.amc \in [Amc -> Configuration]
  BY DEF State
<1>2. s.amc[c] \in Configuration
  BY <1>1
<1>3. t.amc[c] = Written(s.amc[c], reg) /\ (d # c => t.amc[d] = s.amc[d])
  BY <1>1 DEF WrittenTo
<1>4. /\ s.amc[c].config \subseteq Written(s.amc[c], reg).config
      /\ reg \in {"gain_1x", "gain_v3v8"} => Written(s.amc[c], reg).gain = reg
      /\ reg \notin {"gain_1x", "gain_v3v8"} =>
           /\ Written(s.amc[c], reg).gain = s.amc[c].gain
           /\ reg \in Written(s.amc[c], reg).config
  BY <1>2 DEF Written, Configuration
<1>. QED
  BY <1>3, <1>4

\* The outputs of a chip do not concern its converter.
LEMMA SwitchRuns ==
  ASSUME NEW b, NEW c \in Amc
  PROVE  /\ \A s \in Configured(b) : Runs(s, SwitchOutputs(c), Configured(b))
         /\ \A s \in Ready(b) : Runs(s, SwitchOutputs(c), Ready(b))
<1>1. "output" \in Registers \ {"reset"} /\ "output" \notin {"gain_1x", "gain_v3v8"}
      /\ "main" \in Amc
  BY DEF Registers, Amc
<1>2. ASSUME NEW s \in Configured(b)
      PROVE  WrittenTo(b, s.amc, c, "output") \subseteq Configured(b)
  <2>1. s \in State /\ \A d \in Amc : SetUp(s, d)
    BY DEF Configured, Idle
  <2>2. ASSUME NEW t \in WrittenTo(b, s.amc, c, "output"), NEW d \in Amc PROVE SetUp(t, d)
    BY <1>1, <2>1, <2>2, WrittenKeeps DEF SetUp
  <2>. QED
    BY <2>2 DEF WrittenTo, Configured
<1>3. ASSUME NEW s \in Ready(b)
      PROVE  WrittenTo(b, s.amc, c, "output") \subseteq Ready(b)
  <2>1. s \in Configured(b) /\ s \in State
    BY DEF Ready, Configured, Idle
  <2>2. ASSUME NEW t \in WrittenTo(b, s.amc, c, "output")
        PROVE  t.amc["main"].gain = "gain_v3v8"
    BY <1>1, <2>1, <2>2, WrittenKeeps DEF Ready
  <2>. QED
    BY <1>2, <2>1, <2>2 DEF Ready
<1>. QED
  <2>1. "output" \in Registers /\ Configured(b) \subseteq Idle(b)
        /\ Ready(b) \subseteq Idle(b)
    BY <1>1 DEF Ready, Configured
  <2>. QED
    BY <2>1, <1>2, <1>3, WriteRuns DEF SwitchOutputs

\* A frame that asks for a register answers for the one asked for before.
Asked(b, k, c, reg) ==
  {t \in Ready(b) : /\ t.amc[c].asked = reg
                    /\ t.miso = [reg |-> k.asked, sound |-> SoundIn(k, k.asked)]}

LEMMA AskRuns ==
  ASSUME NEW b, NEW s \in Ready(b), NEW c \in Amc, NEW reg \in Registers
  PROVE  Runs(s, Frame(c, <<"read", reg>>), Asked(b, s.amc[c], c, reg))
<1>. DEFINE msg == <<"read", reg>>
            t == Sent(s, c, msg)
<1>1. msg \in Messages /\ c \in Chip /\ reg # "alarms"
  BY DEF Messages, Chip, Registers
<1>2. Fits(s, c, msg)
  BY <1>1, ReadyIsState DEF Fits, DriverFormat, Amc
<1>3. t \in Idle(b)
  BY <1>1, ReadyIsState, SentType DEF Idle
<1>4. /\ t.amc = [s.amc EXCEPT ![c].asked = reg]
      /\ t.miso = [reg |-> s.amc[c].asked, sound |-> SoundIn(s.amc[c], s.amc[c].asked)]
  BY ReadyIsState DEF Sent, State
<1>5. s.amc \in [Amc -> Configuration] /\ "main" \in Amc
  BY ReadyIsState DEF State, Amc
<1>6. \A d \in Amc : t.amc[d].gain = s.amc[d].gain /\ s.amc[d].config = t.amc[d].config
  BY <1>4, <1>5 DEF Configuration
<1>7. t.amc[c].asked = reg
  BY <1>4, <1>5 DEF Configuration
<1>. HIDE DEF t
<1>8. t \in Ready(b)
  BY <1>3, <1>5, <1>6 DEF Ready, Configured, SetUp
<1>. QED
  BY <1>1, <1>2, <1>4, <1>7, <1>8, ReadyIsState, FrameRuns DEF t, Asked

\* The registers that a caller of read_reg may ask a chip for.
Readable(c, reg) == \/ reg \in {"rail", "temperature"}
                    \/ reg = "v3v8" /\ c = "main"
                    \/ reg = "sensor" /\ c # "main"

LEMMA ReadRegRuns ==
  ASSUME NEW b, NEW s \in Ready(b), NEW c \in Amc, NEW reg, Readable(c, reg)
  PROVE  Runs(s, read_reg(c, reg), Ready(b))
<1>. DEFINE Wanted == {t \in Ready(b) : t.amc[c].asked = reg}
            Got == {t \in Ready(b) : t.miso = [reg |-> reg, sound |-> TRUE]}
<1>1. reg \in Registers /\ "id" \in Registers
  BY DEF Readable, Registers
<1>2. Runs(s, Frame(c, <<"read", reg>>), Wanted)
  <2>1. Asked(b, s.amc[c], c, reg) \subseteq Wanted
    BY DEF Asked
  <2>. QED
    BY <1>1, <2>1, AskRuns, RunsWeaker
<1>3. ASSUME NEW t \in Wanted
      PROVE  Runs(t, Frame(c, <<"read", "id">>), Got)
  <2>1. SetUp(t, c) /\ (c = "main" => t.amc[c].gain = "gain_v3v8")
    BY DEF Ready, Configured
  <2>2. SoundIn(t.amc[c], reg)
    BY <2>1 DEF SetUp, SoundIn, Readable
  <2>3. SoundIn(t.amc[c], reg) = TRUE
    BY <2>2 DEF SoundIn
  <2>4. Asked(b, t.amc[c], c, "id") \subseteq Got
    BY <2>3 DEF Asked
  <2>. QED
    BY <1>1, <2>4, AskRuns, RunsWeaker
<1>4. ASSUME NEW t \in Got
      PROVE  Runs(t, Op("take", c, reg), Ready(b))
  <2>1. [op |-> "take", chip |-> c, arg |-> reg] \in Operation
    BY <1>1 DEF Operation
  <2>2. Needs(t, [op |-> "take", chip |-> c, arg |-> reg])
    BY DEF Needs
  <2>3. After(t, [op |-> "take", chip |-> c, arg |-> reg]) = t
    BY DEF After
  <2>. QED
    BY <2>1, <2>2, <2>3, ReadyIsState, RunsOne DEF Op
<1>. HIDE DEF Wanted, Got
<1>5. Runs(s, Frame(c, <<"read", reg>>) \o Frame(c, <<"read", "id">>), Got)
  BY <1>2, <1>3, RunsThen
<1>6. Runs(s, (Frame(c, <<"read", reg>>) \o Frame(c, <<"read", "id">>)) \o Op("take", c, reg),
           Ready(b))
  BY <1>4, <1>5, RunsThen
<1>. QED
  BY <1>6 DEF read_reg

-----------------------------------------------------------------------------
(* The drivers of the other chips.                                         *)

Others == Chip \ Amc

LEMMA OtherSent ==
  ASSUME NEW b, NEW s \in Ready(b), NEW c \in Others, NEW msg \in Messages
  PROVE  /\ Sent(s, c, msg) \in Ready(b)
         /\ c = "dac" /\ msg = <<"read", "alarms">> => Sent(s, c, msg) \in AlarmsRead(b)
<1>1. /\ Sent(s, c, msg) \in State /\ Sent(s, c, msg).amc = s.amc
      /\ Sent(s, c, msg).fmt = s.fmt /\ Sent(s, c, msg).cs = s.cs
      /\ Sent(s, c, msg).out = s.out
  <2>1. s \in State /\ c \in Chip /\ c \notin Amc
    BY ReadyIsState DEF Others
  <2>2. Sent(s, c, msg).amc = s.amc
    BY <2>1 DEF Sent, State
  <2>. QED
    BY <2>1, <2>2, SentType
<1>2. Sent(s, c, msg) \in Ready(b)
  BY <1>1 DEF Ready, Configured, Idle, SetUp
<1>3. ASSUME c = "dac", msg = <<"read", "alarms">> PROVE Sent(s, c, msg).read
  <2>1. msg \notin {<<"write", "alarms">>, <<"write", "rom_alarms">>}
    BY <1>3
  <2>. QED
    BY <1>3, <2>1, ReadyIsState DEF Others, Sent, State
<1>. QED
  BY <1>2, <1>3 DEF AlarmsRead

\* In format 0, and back.
LEMMA InFormat0Runs ==
  ASSUME NEW b, NEW s \in Ready(b), NEW c \in Others, NEW msg \in Messages, NEW Q,
         DriverFormat(c, msg) = 0, c = "dac" /\ msg[2] \in Programs => b,
         msg = <<"write", "alarms">> => c = "dac" /\ s.read,
         Sent(s, c, msg) \in Q
  PROVE  Runs(s, InFormat0(Frame(c, msg)), Q)
<1>. DEFINE s0 == [s EXCEPT !.fmt = 0]
            s1 == Sent(s0, c, msg)
            s2 == [s1 EXCEPT !.fmt = 1]
<1>1. /\ s \in State /\ s.fmt = 1 /\ s.cs = {} /\ s.out = b
      /\ s0 \in State /\ s0.fmt = 0 /\ s0.cs = {}
      /\ s0.read = s.read /\ s0.out = s.out /\ s0.miso = s.miso /\ s0.amc = s.amc
  BY ReadyIsState DEF State
<1>2. c \in Chip /\ c \notin Amc
  BY DEF Others
<1>3. Fits(s0, c, msg)
  BY <1>1, <1>2 DEF Fits
<1>4. s1 \in State /\ Sent(s, c, msg) \in State
  BY <1>1, <1>2, SentType
<1>5. s2 = Sent(s, c, msg)
  <2>1. /\ s1.cs = Sent(s, c, msg).cs /\ s1.miso = Sent(s, c, msg).miso
        /\ s1.amc = Sent(s, c, msg).amc /\ s1.read = Sent(s, c, msg).read
        /\ s1.out = Sent(s, c, msg).out
    BY <1>1, <1>2 DEF Sent, State
  <2>2. Sent(s, c, msg).fmt = 1
    BY <1>1, <1>2, SentType
  <2>3. /\ s2 \in State /\ s2.fmt = 1 /\ s2.cs = s1.cs /\ s2.miso = s1.miso
        /\ s2.amc = s1.amc /\ s2.read = s1.read /\ s2.out = s1.out
    BY <1>4 DEF State
  <2>. HIDE DEF s1, s2
  <2>. QED
    BY <1>4, <2>1, <2>2, <2>3, SameState
<1>6. Runs(s, format(0), {s0})
  BY <1>1, FormatRuns
<1>. HIDE DEF s2, s0
<1>7. Runs(s0, Frame(c, msg), {s1})
  BY <1>1, <1>2, <1>3, FrameRuns
<1>. HIDE DEF s1
<1>8. Runs(s1, format(1), Q)
  BY <1>4, <1>5, FormatRuns DEF s2
<1>9. Runs(s, format(0) \o Frame(c, msg), {s1})
  BY <1>6, <1>7, RunsThen
<1>10. Runs(s, (format(0) \o Frame(c, msg)) \o format(1), Q)
  BY <1>8, <1>9, RunsThen
<1>. QED
  BY <1>10 DEF InFormat0

\* The DAC's ROM, in format 1.
RomMessages == {<<"write", "rom">>, <<"write", "rom_alarms">>, <<"read", "rom">>}

LEMMA DacRuns ==
  ASSUME NEW s \in Ready(TRUE), NEW msg \in RomMessages
  PROVE  Runs(s, Frame("dac", msg), Ready(TRUE))
<1>1. "dac" \in Others /\ "dac" \in Chip /\ "dac" \notin Amc
  BY DEF Others, Chip, Amc
<1>2. /\ msg \in Messages /\ msg[2] \in {"rom", "rom_alarms"}
      /\ msg # <<"write", "alarms">>
  BY DEF RomMessages, Messages
<1>3. Fits(s, "dac", msg)
  BY <1>1, <1>2, ReadyIsState DEF Fits, DriverFormat
<1>4. Sent(s, "dac", msg) \in Ready(TRUE)
  BY <1>1, <1>2, OtherSent
<1>5. s \in State /\ s.cs = {}
  BY ReadyIsState
<1>. QED
  BY <1>1, <1>2, <1>3, <1>4, <1>5, FrameRuns

LEMMA Format1Runs ==
  ASSUME NEW b, NEW s \in Ready(b)
  PROVE  Runs(s, format(1), Ready(b))
BY ReadyIsState, FormatKept, FormatRuns

\* The messages and chips that occur; those clocked in format 0.
LEMMA Rom ==
  /\ <<"write", "rom">> \in Messages /\ <<"read", "temp">> \in Messages
  /\ <<"write", "current">> \in Messages
  /\ <<"read", "alarms">> \in Messages /\ <<"write", "alarms">> \in Messages
  /\ "clk" \in Others /\ "syn" \in Others /\ "adc" \in Others /\ "dac" \in Others
BY DEF Messages, Registers, Others, Chip, Amc

LEMMA ReadBackRuns ==
  ASSUME NEW s \in Ready(TRUE)
  PROVE  Runs(s, ReadBack, Ready(TRUE))
<1>1. \A t \in Ready(TRUE) : Runs(t, Frame("dac", <<"read", "rom">>), Ready(TRUE))
  BY DacRuns DEF RomMessages
<1>. QED
  BY <1>1, Format1Runs, RunsThen DEF ReadBack

LEMMA ReadConfigRuns ==
  ASSUME NEW s \in Ready(TRUE)
  PROVE  Runs(s, read_config, Ready(TRUE))
BY Format1Runs, ReadBackRuns, RunsThen DEF read_config

\* dac_init finds the DAC in reset, or not, and leaves it out of reset.
LEMMA DacInitRuns ==
  ASSUME NEW b, NEW s \in Ready(b)
  PROVE  Runs(s, dac_init, Ready(TRUE))
<1>1. ASSUME NEW c, NEW t \in Ready(c), NEW pin \in {0, 1}
      PROVE  Runs(t, Op("reset", "dac", pin), Ready(pin = 1))
  <2>. DEFINE o == [op |-> "reset", chip |-> "dac", arg |-> pin]
              u == After(t, o)
  <2>1. o \in Operation /\ Needs(t, o)
    BY DEF Operation, Needs
  <2>2. t \in State
    BY ReadyIsState
  <2>3. /\ u \in State /\ u.fmt = t.fmt /\ u.cs = t.cs /\ u.amc = t.amc
        /\ u.out = (pin = 1)
    <3>1. CASE pin = 0
      <4>1. u = [t EXCEPT !.read = FALSE, !.out = FALSE]
        BY <3>1 DEF After
      <4>2. (pin = 1) = FALSE
        BY <3>1
      <4>. HIDE DEF u
      <4>. QED
        BY <2>2, <4>1, <4>2 DEF State
    <3>2. CASE pin = 1
      <4>1. u = [t EXCEPT !.out = TRUE]
        BY <3>2 DEF After
      <4>2. (pin = 1) = TRUE
        BY <3>2
      <4>. HIDE DEF u
      <4>. QED
        BY <2>2, <4>1, <4>2 DEF State
    <3>. QED
      BY <3>1, <3>2
  <2>. HIDE DEF o
  <2>4. u \in Ready(pin = 1)
    <3>. HIDE DEF u
    <3>. QED
      BY <2>3 DEF Ready, Configured, Idle, SetUp
  <2>5. Runs(t, <<o>>, Ready(pin = 1))
    BY <2>1, <2>2, <2>3, <2>4, RunsOne
  <2>. QED
    BY <2>5 DEF Op, o
<1>2. /\ \A t \in Ready(b) : Runs(t, Op("reset", "dac", 0), Ready(FALSE))
      /\ \A t \in Ready(FALSE) : Runs(t, Op("reset", "dac", 1), Ready(TRUE))
  <2>1. (0 = 1) = FALSE /\ (1 = 1) = TRUE
    OBVIOUS
  <2>. QED
    BY <1>1, <2>1
<1>3. \A t \in Ready(TRUE) : /\ Runs(t, Frame("dac", <<"write", "rom">>), Ready(TRUE))
                              /\ Runs(t, Frame("dac", <<"write", "rom_alarms">>), Ready(TRUE))
  BY DacRuns DEF RomMessages
<1>4. Runs(s, format(1) \o Op("reset", "dac", 0), Ready(FALSE))
  BY <1>2, Format1Runs, RunsThen
<1>5. Runs(s, (format(1) \o Op("reset", "dac", 0)) \o Op("reset", "dac", 1), Ready(TRUE))
  BY <1>2, <1>4, RunsThen
<1>6. Runs(s, ((format(1) \o Op("reset", "dac", 0)) \o Op("reset", "dac", 1))
                \o Frame("dac", <<"write", "rom">>), Ready(TRUE))
  BY <1>3, <1>5, RunsThen
<1>7. Runs(s, (((format(1) \o Op("reset", "dac", 0)) \o Op("reset", "dac", 1))
                 \o Frame("dac", <<"write", "rom">>)) \o Frame("dac", <<"write", "rom_alarms">>),
           Ready(TRUE))
  BY <1>3, <1>6, RunsThen
<1>8. Runs(s, ((((format(1) \o Op("reset", "dac", 0)) \o Op("reset", "dac", 1))
                  \o Frame("dac", <<"write", "rom">>)) \o Frame("dac", <<"write", "rom_alarms">>))
                \o ReadBack, Ready(TRUE))
  BY <1>7, ReadBackRuns, RunsThen
<1>. QED
  BY <1>8 DEF dac_init

-----------------------------------------------------------------------------
(* The configuration of the AMC7891s.                                      *)

\* Those in D are set up, and registers R of c have been written.
Partly(b, D, c, R) ==
  {s \in Idle(b) : /\ \A d \in D : SetUp(s, d)
                   /\ R \subseteq s.amc[c].config /\ s.amc[c].gain = "gain_1x"}

LEMMA InitWriteRuns ==
  ASSUME NEW b, NEW c \in Amc, NEW D \in SUBSET (Amc \ {c}), NEW R,
         NEW s \in Partly(b, D, c, R), NEW reg \in {"temp", "power", "enable", "trigger"}
  PROVE  /\ Runs(s, write_reg(c, reg), Partly(b, D, c, R \cup {reg}))
         /\ Runs(s, write_reg(c, "gain_1x"), Partly(b, D, c, R))
<1>1. s \in Idle(b) /\ s \in State
  BY DEF Partly, Idle
<1>2. reg \in Registers \ {"reset"} /\ "gain_1x" \in Registers \ {"reset"}
      /\ reg \notin {"gain_1x", "gain_v3v8"}
  BY DEF Registers
<1>3. WrittenTo(b, s.amc, c, reg) \subseteq Partly(b, D, c, R \cup {reg})
  <2>1. SUFFICES ASSUME NEW t \in WrittenTo(b, s.amc, c, reg)
                 PROVE  t \in Partly(b, D, c, R \cup {reg})
    OBVIOUS
  <2>2. ASSUME NEW d \in D PROVE SetUp(t, d)
    <3>1. d \in Amc /\ d # c
      OBVIOUS
    <3>2. t.amc[d] = s.amc[d]
      BY <1>1, <1>2, <3>1, WrittenKeeps
    <3>. QED
      BY <3>2 DEF Partly, SetUp
  <2>3. R \cup {reg} \subseteq t.amc[c].config /\ t.amc[c].gain = "gain_1x"
    BY <1>1, <1>2, WrittenKeeps DEF Partly
  <2>. QED
    BY <2>2, <2>3 DEF WrittenTo, Partly
<1>4. WrittenTo(b, s.amc, c, "gain_1x") \subseteq Partly(b, D, c, R)
  <2>1. SUFFICES ASSUME NEW t \in WrittenTo(b, s.amc, c, "gain_1x")
                 PROVE  t \in Partly(b, D, c, R)
    OBVIOUS
  <2>2. ASSUME NEW d \in D PROVE SetUp(t, d)
    <3>1. d \in Amc /\ d # c
      OBVIOUS
    <3>2. t.amc[d] = s.amc[d]
      BY <1>1, <1>2, <3>1, WrittenKeeps
    <3>. QED
      BY <3>2 DEF Partly, SetUp
  <2>3. R \subseteq t.amc[c].config /\ t.amc[c].gain = "gain_1x"
    BY <1>1, <1>2, WrittenKeeps DEF Partly
  <2>. QED
    BY <2>2, <2>3 DEF WrittenTo, Partly
<1>. QED
  <2>1. reg \in Registers /\ "gain_1x" \in Registers
    BY <1>2
  <2>. QED
    BY <1>1, <1>3, <1>4, <2>1, WriteRuns

\* The software reset, which forgets the rest.
LEMMA ResetRuns ==
  ASSUME NEW b, NEW c \in Amc, NEW D \in SUBSET (Amc \ {c}),
         NEW s \in Idle(b), \A d \in D : SetUp(s, d)
  PROVE  Runs(s, write_reg(c, "reset"), Partly(b, D, c, {}))
<1>1. "reset" \in Registers /\ s.amc \in [Amc -> Configuration]
  BY DEF Registers, Idle, State
<1>2. ASSUME NEW t \in WrittenTo(b, s.amc, c, "reset")
      PROVE  t \in Partly(b, D, c, {})
  <2>1. t.amc[c] = Fresh /\ \A d \in D : t.amc[d] = s.amc[d]
    BY <1>1 DEF WrittenTo, Written
  <2>. QED
    BY <2>1 DEF WrittenTo, Partly, SetUp, Fresh
<1>3. WrittenTo(b, s.amc, c, "reset") \subseteq Partly(b, D, c, {})
  BY <1>2
<1>. QED
  BY <1>1, <1>3, WriteRuns

LEMMA AmcInitRuns ==
  ASSUME NEW b, NEW c \in Amc, NEW D \in SUBSET (Amc \ {c}),
         NEW s \in Idle(b), \A d \in D : SetUp(s, d)
  PROVE  Runs(s, amc_init(c), {t \in Idle(b) : \A d \in D \cup {c} : SetUp(t, d)})
<1>. DEFINE P(R) == Partly(b, D, c, R)
            w(reg) == write_reg(c, reg)
            R1 == {} \cup {"temp"}
            R2 == R1 \cup {"power"}
            R3 == R2 \cup {"enable"}
            R5 == R3 \cup {"trigger"}
            T == {t \in Idle(b) : \A d \in D \cup {c} : SetUp(t, d)}
<1>1. Runs(s, w("reset"), P({}))
  BY ResetRuns
<1>2. \A t \in P({}) : Runs(t, w("temp"), P(R1))
  BY InitWriteRuns
<1>3. \A t \in P(R1) : Runs(t, w("power"), P(R2))
  BY InitWriteRuns
<1>4. \A t \in P(R2) : Runs(t, w("enable"), P(R3))
  BY InitWriteRuns
<1>5. \A t \in P(R3) : Runs(t, w("gain_1x"), P(R3))
  BY InitWriteRuns
<1>6. \A t \in P(R3) : Runs(t, w("trigger"), P(R5))
  BY InitWriteRuns
<1>7. P(R5) \subseteq T
  BY DEF Partly, SetUp
<1>. HIDE DEF P, w, R1, R2, R3, R5, T
<1>8. Runs(s, w("reset") \o w("temp"), P(R1))
  BY <1>1, <1>2, RunsThen
<1>9. Runs(s, (w("reset") \o w("temp")) \o w("power"), P(R2))
  BY <1>8, <1>3, RunsThen
<1>10. Runs(s, ((w("reset") \o w("temp")) \o w("power")) \o w("enable"), P(R3))
  BY <1>9, <1>4, RunsThen
<1>11. Runs(s, (((w("reset") \o w("temp")) \o w("power")) \o w("enable")) \o w("gain_1x"), P(R3))
  BY <1>10, <1>5, RunsThen
<1>12. Runs(s, ((((w("reset") \o w("temp")) \o w("power")) \o w("enable")) \o w("gain_1x"))
                 \o w("trigger"), T)
  <2>1. \A t \in P(R3) : Runs(t, w("trigger"), T)
    BY <1>6, <1>7, RunsWeaker
  <2>. QED
    BY <1>11, <2>1, RunsThen
<1>. QED
  BY <1>12 DEF amc_init, w, T

-----------------------------------------------------------------------------
(* The driver calls.                                                       *)

\* A call that may be made whenever the board has been configured, with the
\* DAC out of reset (b = TRUE) or in reset.
Harmless(ops, b) == \A s \in Ready(b) : Runs(s, ops, Ready(b))

LEMMA HarmlessThen ==
  ASSUME NEW b, NEW ops, NEW rest, Harmless(ops, b), Harmless(rest, b)
  PROVE  Harmless(ops \o rest, b)
BY RunsThen DEF Harmless

LEMMA HarmlessNothing == ASSUME NEW b PROVE Harmless(<<>>, b)
BY RunsNothing, ReadyIsState DEF Harmless

LEMMA HarmlessSwitch == ASSUME NEW b, NEW c \in Amc PROVE Harmless(SwitchOutputs(c), b)
BY SwitchRuns DEF Harmless

LEMMA HarmlessRead ==
  ASSUME NEW b, NEW c \in Amc, NEW reg, Readable(c, reg)
  PROVE  Harmless(read_reg(c, reg), b)
BY ReadRegRuns DEF Harmless

LEMMA HarmlessOther ==
  ASSUME NEW b, NEW c \in Others, NEW msg \in Messages, msg # <<"write", "alarms">>,
         DriverFormat(c, msg) = 0, c = "dac" /\ msg[2] \in Programs => b
  PROVE  Harmless(InFormat0(Frame(c, msg)), b)
BY OtherSent, InFormat0Runs DEF Harmless

\* Clearing the alarms is, after reading them.
LEMMA HarmlessAlarms ==
  ASSUME NEW b, NEW ops, Harmless(ops, b)
  PROVE  Harmless((ops \o read_alarms) \o clear_alarms, b)
<1>1. SUFFICES ASSUME NEW s \in Ready(b)
               PROVE  Runs(s, (ops \o read_alarms) \o clear_alarms, Ready(b))
  BY DEF Harmless
<1>2. Runs(s, ops, Ready(b))
  BY DEF Harmless
<1>. DEFINE ask == <<"read", "alarms">>
            clear == <<"write", "alarms">>
<1>3. /\ ask # <<"write", "alarms">> /\ ask[2] \notin Programs /\ clear[2] \notin Programs
      /\ DriverFormat("dac", ask) = 0 /\ DriverFormat("dac", clear) = 0
  BY DEF Programs, DriverFormat, Amc
<1>4. ask \in Messages /\ clear \in Messages /\ "dac" \in Others
  BY Rom
<1>. HIDE DEF ask, clear
<1>5. ASSUME NEW t \in Ready(b)
      PROVE  Runs(t, InFormat0(Frame("dac", ask)), AlarmsRead(b))
  <2>1. Sent(t, "dac", ask) \in AlarmsRead(b)
    BY <1>4, OtherSent DEF ask
  <2>. QED
    BY <1>3, <1>4, <2>1, InFormat0Runs
<1>6. ASSUME NEW t \in AlarmsRead(b)
      PROVE  Runs(t, InFormat0(Frame("dac", clear)), Ready(b))
  <2>1. t \in Ready(b) /\ t.read
    BY DEF AlarmsRead
  <2>2. Sent(t, "dac", clear) \in Ready(b)
    BY <1>4, <2>1, OtherSent
  <2>. QED
    BY <1>3, <1>4, <2>1, <2>2, InFormat0Runs
<1>7. Runs(s, ops \o read_alarms, AlarmsRead(b))
  BY <1>2, <1>5, RunsThen DEF read_alarms, ask
<1>. QED
  BY <1>6, <1>7, RunsThen DEF clear_alarms, clear

LEMMA HarmlessRails ==
  ASSUME NEW b
  PROVE  Harmless(Rails, b) /\ Harmless(read_reg("main", "rail"), b)
<1>1. "main" \in Amc /\ Readable("main", "rail") /\ Readable("main", "v3v8")
  BY DEF Amc, Readable
<1>. QED
  BY <1>1, HarmlessRead, HarmlessThen DEF Rails

\* dump_telemetry finds all it needs even before the DAC is programmed.
LEMMA HarmlessDump == ASSUME NEW b PROVE Harmless(dump_telemetry, b)
<1>1. /\ "a" \in Amc /\ "b" \in Amc /\ "main" \in Amc
      /\ \A c \in Amc : Readable(c, "temperature")
      /\ Readable("a", "sensor") /\ Readable("b", "sensor")
  BY DEF Amc, Readable
<1>2. Harmless(Temperatures, b)
  <2>1. /\ Harmless(read_reg("a", "temperature"), b) /\ Harmless(read_reg("b", "temperature"), b)
        /\ Harmless(read_reg("main", "temperature"), b)
    BY <1>1, HarmlessRead
  <2>2. Harmless(read_reg("a", "temperature") \o read_reg("b", "temperature"), b)
    BY <2>1, HarmlessThen
  <2>. QED
    BY <2>1, <2>2, HarmlessThen DEF Temperatures
<1>3. Harmless(Sensors, b)
  <2>1. Harmless(read_reg("a", "sensor"), b) /\ Harmless(read_reg("b", "sensor"), b)
    BY <1>1, HarmlessRead
  <2>. QED
    BY <2>1, HarmlessThen DEF Sensors
<1>4. Harmless(get_temp, b)
  <2>1. /\ <<"read", "temp">> # <<"write", "alarms">>
        /\ <<"read", "temp">>[2] \notin Programs
        /\ DriverFormat("dac", <<"read", "temp">>) = 0
    BY DEF Programs, DriverFormat, Amc
  <2>. QED
    BY <2>1, Rom, HarmlessOther DEF get_temp
<1>5. Harmless(Rails \o Temperatures, b)
  BY <1>2, HarmlessRails, HarmlessThen
<1>6. Harmless((Rails \o Temperatures) \o Sensors, b)
  BY <1>3, <1>5, HarmlessThen
<1>7. Harmless(((Rails \o Temperatures) \o Sensors) \o get_temp, b)
  BY <1>4, <1>6, HarmlessThen
<1>. QED
  BY <1>7, HarmlessAlarms DEF dump_telemetry

LEMMA HarmlessCommands == \A ops \in Commands : Harmless(ops, TRUE)
<1>1. /\ Harmless(SwitchOutputs("a"), TRUE) /\ Harmless(SwitchOutputs("b"), TRUE)
      /\ Harmless(read_reg("a", "sensor"), TRUE)
  BY HarmlessSwitch, HarmlessRead DEF Amc, Readable
<1>2. Harmless(SwitchOutputs("a") \o SwitchOutputs("b"), TRUE)
  BY <1>1, HarmlessThen
<1>3. Harmless(set_current, TRUE)
  <2>1. /\ <<"write", "current">> # <<"write", "alarms">>
        /\ DriverFormat("dac", <<"write", "current">>) = 0
    BY DEF DriverFormat, Amc
  <2>. QED
    BY <2>1, Rom, HarmlessOther DEF set_current
<1>4. Harmless(read_config, TRUE)
  BY ReadConfigRuns DEF Harmless
<1>. QED
  BY <1>1, <1>2, <1>3, <1>4, HarmlessDump, HarmlessNothing DEF Commands

LEMMA HarmlessChecks == \A ops \in Checks : Harmless(ops, TRUE)
<1>1. SUFFICES ASSUME NEW c \in Amc, NEW r \in Channels(c)
               PROVE  Harmless(read_reg(c, r), TRUE)
  BY DEF Checks
<1>2. Readable(c, r)
  BY DEF Channels, Readable
<1>. QED
  BY <1>2, HarmlessRead

-----------------------------------------------------------------------------
(* The invariant.                                                          *)

\* Where no call is in progress.  The DAC stays in reset until boot programs it.
Rest(p) == IF p = "reset" THEN {s \in State : s.cs = {} /\ ~s.out}
           ELSE IF p = "init_amc" THEN Idle(FALSE)
           ELSE IF p = "safe" THEN Configured(FALSE)
           ELSE IF p \in {"bus", "dump", "clocks"} THEN Ready(FALSE)
           ELSE Ready(TRUE)

\* What is left of the current call runs to its end, and `seen' is right.
IInv ==
  /\ Runs(Bus, todo, Rest(pc))
  /\ rst \in {0, 1}
  /\ alarms \subseteq Alarms
  /\ seen = IF read THEN alarms ELSE {}
  /\ taken \in {[want |-> r, got |-> r, sound |-> TRUE] : r \in Registers}

LEMMA BusInState == ASSUME IInv PROVE Bus \in State
<1>1. PICK f : IsRun(f, Bus, todo, Rest(pc))
  BY DEF IInv, Runs
<1>2. f[1] = Bus /\ 1 \in 1 .. Len(todo) + 1 /\ f \in [1 .. Len(todo) + 1 -> State]
  BY <1>1 DEF IsRun
<1>. QED
  BY <1>2

\* A call itself leaves the bus alone.
LEMMA CallState ==
  ASSUME IInv, NEW here, NEW ops, NEW next, Calls(here, ops, next)
  PROVE  Bus \in Rest(here) /\ Bus \in State /\ Bus' = Bus
<1>1. todo = <<>> /\ pc = here /\ Bus' = Bus
  BY DEF Calls, Bus
<1>. QED
  BY <1>1, RunsEnded DEF IInv

LEMMA CallInv ==
  ASSUME IInv, NEW here, NEW ops, NEW next, Calls(here, ops, next),
         Runs(Bus', ops, Rest(next))
  PROVE  IInv'
BY DEF Calls, IInv

LEMMA HarmlessCall ==
  ASSUME IInv, NEW here, NEW ops, NEW next, NEW b, Calls(here, ops, next),
         Rest(here) = Ready(b), Rest(next) = Ready(b), Harmless(ops, b)
  PROVE  IInv'
BY CallState, CallInv DEF Harmless

\* The three calls that configure the board, and the one that programs the DAC.
LEMMA FirstCalls ==
  ASSUME IInv, \/ Calls("reset", format(1), "init_amc")
               \/ Calls("init_amc", amc_init("a") \o amc_init("b") \o amc_init("main"), "safe")
  PROVE  IInv'
<1>1. CASE Calls("reset", format(1), "init_amc")
  <2>1. Bus' \in Rest("reset") /\ Bus' \in State
    BY <1>1, CallState
  <2>2. [Bus' EXCEPT !.fmt = 1] \in Idle(FALSE)
    BY <2>1 DEF Rest, Idle, State
  <2>3. Runs(Bus', format(1), Idle(FALSE))
    BY <2>1, <2>2, FormatRuns
  <2>. QED
    BY <1>1, <2>3, CallInv DEF Rest
<1>2. CASE Calls("init_amc", amc_init("a") \o amc_init("b") \o amc_init("main"), "safe")
  <2>. DEFINE T(D) == {t \in Idle(FALSE) : \A d \in D : SetUp(t, d)}
  <2>1. Bus' \in Idle(FALSE)
    BY <1>2, CallState DEF Rest
  <2>2. Runs(Bus', amc_init("a"), T({} \cup {"a"}))
    BY <2>1, AmcInitRuns DEF Amc
  <2>3. ASSUME NEW t \in T({"a"}) PROVE Runs(t, amc_init("b"), T({"a"} \cup {"b"}))
    BY AmcInitRuns DEF Amc
  <2>4. ASSUME NEW t \in T({"a", "b"})
        PROVE  Runs(t, amc_init("main"), T({"a", "b"} \cup {"main"}))
    BY AmcInitRuns DEF Amc
  <2>5. /\ {} \cup {"a"} = {"a"} /\ {"a"} \cup {"b"} = {"a", "b"}
        /\ {"a", "b"} \cup {"main"} = Amc
    BY DEF Amc
  <2>6. T(Amc) = Configured(FALSE)
    BY DEF Configured
  <2>. HIDE DEF T
  <2>7. Runs(Bus', amc_init("a") \o amc_init("b"), T({"a", "b"}))
    BY <2>2, <2>3, <2>5, RunsThen
  <2>8. Runs(Bus', (amc_init("a") \o amc_init("b")) \o amc_init("main"), Configured(FALSE))
    BY <2>4, <2>5, <2>6, <2>7, RunsThen
  <2>. QED
    BY <1>2, <2>8, CallInv DEF Rest
<1>. QED
  BY <1>1, <1>2

LEMMA GainRuns ==
  ASSUME NEW b, NEW t \in Configured(b)
  PROVE  Runs(t, write_reg("main", "gain_v3v8"), Ready(b))
<1>1. /\ "main" \in Amc /\ "gain_v3v8" \in Registers \ {"reset"}
      /\ t \in Idle(b) /\ t \in State /\ \A d \in Amc : SetUp(t, d)
  BY DEF Amc, Registers, Configured, Idle
<1>2. ASSUME NEW u \in WrittenTo(b, t.amc, "main", "gain_v3v8")
      PROVE  u \in Ready(b)
  <2>1. ASSUME NEW d \in Amc PROVE SetUp(u, d)
    BY <1>1, WrittenKeeps DEF SetUp
  <2>2. u.amc["main"].gain = "gain_v3v8"
    BY <1>1, WrittenKeeps
  <2>. QED
    BY <2>1, <2>2 DEF WrittenTo, Ready, Configured
<1>3. WrittenTo(b, t.amc, "main", "gain_v3v8") \subseteq Ready(b)
  BY <1>2
<1>. QED
  BY <1>1, <1>3, WriteRuns

LEMMA SafeCall ==
  ASSUME IInv,
         Calls("safe", configure_grav_safe \o SwitchOutputs("a") \o SwitchOutputs("b"), "bus")
  PROVE  IInv'
<1>1. Bus' \in Configured(FALSE)
  BY CallState DEF Rest
<1>2. Runs(Bus', write_reg("main", "output"), Configured(FALSE))
  BY <1>1, SwitchRuns DEF SwitchOutputs, Amc
<1>3. \A t \in Configured(FALSE) : Runs(t, write_reg("main", "gain_v3v8"), Ready(FALSE))
  BY GainRuns
<1>4. Runs(Bus', configure_grav_safe, Ready(FALSE))
  BY <1>2, <1>3, RunsThen DEF configure_grav_safe
<1>5. \A t \in Ready(FALSE) : /\ Runs(t, SwitchOutputs("a"), Ready(FALSE))
                              /\ Runs(t, SwitchOutputs("b"), Ready(FALSE))
  BY SwitchRuns DEF Amc
<1>6. Runs(Bus', configure_grav_safe \o SwitchOutputs("a"), Ready(FALSE))
  BY <1>4, <1>5, RunsThen
<1>7. Runs(Bus', (configure_grav_safe \o SwitchOutputs("a")) \o SwitchOutputs("b"), Ready(FALSE))
  BY <1>5, <1>6, RunsThen
<1>. QED
  BY <1>7, CallInv DEF Rest

LEMMA ClocksCall ==
  ASSUME IInv,
         Calls("clocks", lmk04826b_init \o lmk04133_init \o ads42lb69_init \o dac_init, "cal_a")
  PROVE  IInv'
<1>1. Bus' \in Ready(FALSE)
  BY CallState DEF Rest
<1>2. /\ <<"write", "rom">> # <<"write", "alarms">>
      /\ \A c \in {"clk", "syn", "adc"} : DriverFormat(c, <<"write", "rom">>) = 0
  BY DEF DriverFormat, Amc
<1>3. /\ Harmless(lmk04826b_init, FALSE) /\ Harmless(lmk04133_init, FALSE)
      /\ Harmless(ads42lb69_init, FALSE)
  BY <1>2, Rom, HarmlessOther DEF lmk04826b_init, lmk04133_init, ads42lb69_init
<1>4. Harmless(lmk04826b_init \o lmk04133_init, FALSE)
  BY <1>3, HarmlessThen
<1>5. Harmless((lmk04826b_init \o lmk04133_init) \o ads42lb69_init, FALSE)
  BY <1>3, <1>4, HarmlessThen
<1>6. Runs(Bus', (lmk04826b_init \o lmk04133_init) \o ads42lb69_init, Ready(FALSE))
  BY <1>1, <1>5 DEF Harmless
<1>7. Runs(Bus', ((lmk04826b_init \o lmk04133_init) \o ads42lb69_init) \o dac_init, Ready(TRUE))
  BY <1>6, DacInitRuns, RunsThen
<1>. QED
  BY <1>7, CallInv DEF Rest

LEMMA ProgramInv == ASSUME IInv, Program PROVE IInv'
<1>1. /\ Harmless(SwitchOutputs("a"), TRUE) /\ Harmless(SwitchOutputs("b"), TRUE)
      /\ Harmless(SwitchOutputs("main"), TRUE) /\ Harmless(<<>>, TRUE)
      /\ Harmless(read_reg("a", "sensor"), TRUE) /\ Harmless(read_reg("b", "sensor"), TRUE)
  BY HarmlessSwitch, HarmlessRead, HarmlessNothing DEF Amc, Readable
<1>2. Harmless(SwitchOutputs("a") \o SwitchOutputs("b"), TRUE)
  BY <1>1, HarmlessThen
<1>3. CASE Boot
  <2>1. Rest("bus") = Ready(FALSE) /\ Rest("dump") = Ready(FALSE) /\ Rest("clocks") = Ready(FALSE)
    BY DEF Rest
  <2>2. Harmless(SwitchOutputs("main"), FALSE)
    BY HarmlessSwitch DEF Amc
  <2>3. Harmless(read_reg("main", "rail") \o SwitchOutputs("main"), FALSE)
    BY <2>2, HarmlessRails, HarmlessThen
  <2>4. CASE \/ Calls("bus", read_reg("main", "rail") \o SwitchOutputs("main"), "dump")
             \/ Calls("bus", read_reg("main", "rail"), "dump")
             \/ Calls("dump", dump_telemetry, "clocks")
    BY <2>1, <2>3, <2>4, HarmlessRails, HarmlessDump, HarmlessCall
  <2>. QED
    BY <1>3, <2>4, FirstCalls, SafeCall, ClocksCall DEF Boot
<1>4. \A p \in {"cal_a", "cal_b", "resafe", "loop", "command", "grav", "check", "trip",
                "report", "restart"} : Rest(p) = Ready(TRUE)
  BY DEF Rest
<1>5. ASSUME NEW c \in {"a", "b"}, NEW here \in {"cal_a", "cal_b"},
             NEW next \in {"cal_b", "resafe"},
             Calibrate(c, here, next)
      PROVE  IInv'
  <2>1. Harmless(SwitchOutputs(c) \o read_reg(c, "sensor"), TRUE)
    BY <1>1, HarmlessThen
  <2>2. Harmless((SwitchOutputs(c) \o read_reg(c, "sensor")) \o read_reg("main", "rail"), TRUE)
    BY <2>1, HarmlessRails, HarmlessThen
  <2>3. Rest(here) = Ready(TRUE) /\ Rest(next) = Ready(TRUE) /\ Rest("trip") = Ready(TRUE)
    BY <1>4
  <2>. QED
    BY <1>1, <1>5, <2>1, <2>2, <2>3, HarmlessCall DEF Calibrate
<1>6. CASE Calls("resafe", SwitchOutputs("a") \o SwitchOutputs("b") \o dump_telemetry, "loop")
  <2>1. Harmless((SwitchOutputs("a") \o SwitchOutputs("b")) \o dump_telemetry, TRUE)
    BY <1>2, HarmlessDump, HarmlessThen
  <2>. QED
    BY <1>4, <1>6, <2>1, HarmlessCall
<1>7. CASE MainLoop
  <2>1. Harmless(read_config \o dump_telemetry, TRUE)
    <3>1. Harmless(read_config, TRUE)
      BY ReadConfigRuns DEF Harmless
    <3>. QED
      BY <3>1, HarmlessDump, HarmlessThen
  <2>2. /\ Rest("loop") = Ready(TRUE) /\ Rest("command") = Ready(TRUE)
        /\ Rest("grav") = Ready(TRUE) /\ Rest("check") = Ready(TRUE)
        /\ Rest("trip") = Ready(TRUE)
    BY <1>4
  <2>. QED
    BY <1>1, <1>7, <2>1, <2>2, HarmlessDump, HarmlessCommands, HarmlessChecks, HarmlessCall
    DEF MainLoop, Periodic
<1>8. CASE Trip
  <2>1. Harmless(configure_grav_safe, TRUE)
    <3>1. Harmless(write_reg("main", "output"), TRUE)
      BY HarmlessSwitch DEF Amc, SwitchOutputs
    <3>2. Harmless(write_reg("main", "gain_v3v8"), TRUE)
      BY GainRuns DEF Harmless, Ready
    <3>. QED
      BY <3>1, <3>2, HarmlessThen DEF configure_grav_safe
  <2>2. Harmless((SwitchOutputs("a") \o SwitchOutputs("b")) \o configure_grav_safe, TRUE)
    BY <1>2, <2>1, HarmlessThen
  <2>. QED
    BY <1>4, <1>8, <2>2, HarmlessDump, HarmlessCall DEF Trip
<1>. QED
  BY <1>3, <1>5, <1>6, <1>7, <1>8 DEF Program

\* An operation finds what it needs, and leaves the rest of the call.
LEMMA OperationFound ==
  ASSUME IInv, todo # <<>>
  PROVE  /\ NextOp \in Operation /\ Needs(Bus, NextOp) /\ Bus \in State
         /\ After(Bus, NextOp) \in State
         /\ Runs(After(Bus, NextOp), Tail(todo), Rest(pc))
BY RunsFirst, BusInState DEF IInv, NextOp

LEMMA BusFields ==
  /\ Bus.fmt = fmt /\ Bus.cs = cs /\ Bus.miso = miso /\ Bus.amc = amc /\ Bus.read = read
  /\ Bus.out = (rst = 1)
BY DEF Bus

LEMMA BusFieldsNext ==
  /\ Bus'.fmt = fmt' /\ Bus'.cs = cs' /\ Bus'.miso = miso' /\ Bus'.amc = amc'
  /\ Bus'.read = read' /\ Bus'.out = (rst' = 1)
BY DEF Bus

\* What a frame does to the bus is what the chips' actions do to the variables.
LEMMA SendStep ==
  ASSUME IInv, SendAmc \/ SendOther \/ SendClear
  PROVE  /\ Bus' = After(Bus, NextOp)
         /\ rst' = rst
         /\ alarms' \subseteq Alarms /\ seen' = (IF read' THEN alarms' ELSE {})
<1>1. /\ todo # <<>> /\ NextOp.op = "send" /\ pc' = pc /\ NextOp \in Operation
      /\ Needs(Bus, NextOp)
  BY OperationFound DEF SendAmc, SendOther, SendClear, Does
<1>. DEFINE c == NextOp.chip
            msg == NextOp.arg
<1>2. After(Bus, NextOp) = Sent(Bus, c, msg) /\ Fits(Bus, c, msg) /\ c \in Chip
      /\ msg \in Messages
  BY <1>1 DEF After, Needs, Operation
<1>3. CASE SendAmc
  <2>1. c \in Amc /\ UNCHANGED <<fmt, cs, rst, alarms, read, seen>>
    BY <1>3 DEF SendAmc
  <2>2. CASE msg[1] = "write"
    <3>1. amc' = [amc EXCEPT ![c] = Written(amc[c], msg[2])] /\ miso' = miso
      BY <1>3, <2>2 DEF SendAmc
    <3>2. Bus' = [Bus EXCEPT !.amc = [amc EXCEPT ![c] = Written(amc[c], msg[2])]]
      BY <1>1, <2>1, <3>1 DEF Bus
    <3>. QED
      BY <1>2, <2>1, <2>2, <3>2, BusFields DEF Sent, IInv
  <2>3. CASE msg[1] # "write"
    <3>1. /\ miso' = [reg |-> amc[c].asked, sound |-> Sound(c, amc[c].asked)]
          /\ amc' = [amc EXCEPT ![c].asked = msg[2]]
      BY <1>3, <2>3 DEF SendAmc
    <3>2. Sound(c, amc[c].asked) = SoundIn(amc[c], amc[c].asked)
      BY DEF Sound, SoundIn
    <3>. DEFINE answer == [reg |-> amc[c].asked, sound |-> SoundIn(amc[c], amc[c].asked)]
                chips == [amc EXCEPT ![c].asked = msg[2]]
    <3>3. miso' = answer /\ amc' = chips
      BY <3>1, <3>2
    <3>4. Bus' = [Bus EXCEPT !.miso = answer, !.amc = chips]
      <4>. DEFINE b == rst = 1
                  answered == [Bus EXCEPT !.miso = answer]
                  both == [answered EXCEPT !.amc = chips]
      <4>. HIDE DEF answer, chips
      <4>1. Bus' = [fmt |-> fmt, cs |-> cs, miso |-> answer, amc |-> chips, read |-> read,
                    out |-> b]
        BY <1>1, <2>1, <3>3, Zenon DEF Bus
      <4>2. Bus = [fmt |-> fmt, cs |-> cs, miso |-> miso, amc |-> amc, read |-> read,
                   out |-> b]
        BY DEF Bus
      <4>. HIDE DEF b
      <4>3. answered = [fmt |-> fmt, cs |-> cs, miso |-> answer, amc |-> amc, read |-> read,
                        out |-> b]
        BY <4>2
      <4>. HIDE DEF answered
      <4>4. both = [fmt |-> fmt, cs |-> cs, miso |-> answer, amc |-> chips, read |-> read,
                    out |-> b]
        BY <4>3
      <4>. HIDE DEF both
      <4>5. [Bus EXCEPT !.miso = answer, !.amc = chips] = both
        BY DEF both, answered
      <4>. QED
        BY <4>1, <4>4, <4>5
    <3>. QED
      BY <1>2, <2>1, <2>3, <3>4, BusFields DEF Sent, IInv
  <2>. QED
    BY <2>2, <2>3
<1>4. CASE SendOther
  <2>. DEFINE ask == c = "dac" /\ msg = <<"read", "alarms">>
  <2>1. /\ c \notin Amc
        /\ ~(c = "dac" /\ msg \in {<<"write", "alarms">>, <<"write", "rom_alarms">>})
        /\ IF ask THEN read' = TRUE /\ seen' = alarms ELSE UNCHANGED <<read, seen>>
        /\ UNCHANGED <<fmt, cs, miso, amc, rst, alarms>>
    BY <1>1, <1>4 DEF SendOther, Clears, Sends
  <2>2. Bus' = [Bus EXCEPT !.read = read']
    BY <1>1, <2>1 DEF Bus
  <2>3. Sent(Bus, c, msg) = IF ask THEN [Bus EXCEPT !.read = TRUE] ELSE Bus
    BY <2>1 DEF Sent
  <2>4. Bus = [Bus EXCEPT !.read = read]
    BY DEF Bus
  <2>. HIDE DEF ask
  <2>5. CASE ask
    <3>1. read' = TRUE /\ seen' = alarms /\ alarms' = alarms
      BY <2>1, <2>5
    <3>2. Bus' = [Bus EXCEPT !.read = TRUE]
      BY <2>2, <3>1, Zenon
    <3>. QED
      BY <1>2, <2>1, <2>3, <2>5, <3>1, <3>2 DEF IInv
  <2>6. CASE ~ask
    <3>1. read' = read /\ seen' = seen /\ alarms' = alarms
      BY <2>1, <2>6
    <3>2. Bus' = Bus
      BY <2>2, <2>4, <3>1, Zenon
    <3>. QED
      BY <1>2, <2>1, <2>3, <2>6, <3>1, <3>2 DEF IInv
  <2>. QED
    BY <2>5, <2>6
<1>5. CASE SendClear
  <2>1. /\ c = "dac" /\ msg \in {<<"write", "alarms">>, <<"write", "rom_alarms">>}
        /\ alarms' = {} /\ read' = FALSE /\ seen' = {}
        /\ UNCHANGED <<fmt, cs, miso, amc, rst>>
    BY <1>5 DEF SendClear, Clears, Sends
  <2>2. c \notin Amc
    BY <2>1 DEF Amc
  <2>3. Bus' = [Bus EXCEPT !.read = FALSE]
    <3>1. Bus' = [Bus EXCEPT !.read = read']
      BY <1>1, <2>1 DEF Bus
    <3>. QED
      BY <2>1, <3>1, Zenon
  <2>. QED
    BY <1>2, <2>1, <2>2, <2>3 DEF Sent
<1>. QED
  BY <1>3, <1>4, <1>5

LEMMA BusStepInv == ASSUME IInv, BusStep PROVE IInv'
<1>1. todo # <<>> /\ todo' = Tail(todo) /\ pc' = pc
  BY DEF BusStep, SetFormat, Select, Deselect, SendAmc, SendOther, SendClear, ResetDac, Take, Does
<1>2. /\ NextOp \in Operation /\ Needs(Bus, NextOp)
      /\ Runs(After(Bus, NextOp), Tail(todo), Rest(pc))
  BY <1>1, OperationFound
<1>3. ASSUME Bus' = After(Bus, NextOp), rst' \in {0, 1}, alarms' \subseteq Alarms,
             seen' = (IF read' THEN alarms' ELSE {}),
             taken' \in {[want |-> r, got |-> r, sound |-> TRUE] : r \in Registers}
      PROVE  IInv'
  BY <1>1, <1>2, <1>3 DEF IInv
<1>4. CASE SetFormat \/ Select \/ Deselect
  <2>1. UNCHANGED <<rst, alarms, taken, read, seen>>
    BY <1>4 DEF SetFormat, Select, Deselect
  <2>2. Bus' = After(Bus, NextOp)
    BY <1>1, <1>4, BusFields DEF SetFormat, Select, Deselect, Does, Bus, After
  <2>. QED
    BY <1>3, <2>1, <2>2 DEF IInv
<1>5. CASE SendAmc \/ SendOther \/ SendClear
  <2>1. taken' = taken
    BY <1>5 DEF SendAmc, SendOther, SendClear
  <2>. QED
    BY <1>3, <1>5, <2>1, SendStep DEF IInv
<1>6. CASE ResetDac
  <2>1. NextOp.op = "reset" /\ NextOp.arg \in {0, 1}
    BY <1>2, <1>6 DEF ResetDac, Does, Operation
  <2>. DEFINE t == After(Bus, NextOp)
  <2>2. /\ Bus'.fmt = fmt' /\ Bus'.cs = cs' /\ Bus'.miso = miso' /\ Bus'.amc = amc'
        /\ Bus'.read = read' /\ Bus'.out = (rst' = 1)
    BY BusFieldsNext
  <2>3. /\ rst' \in {0, 1} /\ alarms' \subseteq Alarms /\ read' \in BOOLEAN
        /\ seen' = (IF read' THEN alarms' ELSE {}) /\ UNCHANGED <<fmt, cs, miso, amc, taken>>
    <3>1. read \in BOOLEAN
      BY BusInState, BusFields DEF State
    <3>. QED
      BY <1>6, <3>1 DEF ResetDac, HoldInReset, IInv
  <2>4. /\ t.fmt = fmt /\ t.cs = cs /\ t.miso = miso /\ t.amc = amc
        /\ t.read = read' /\ t.out = (rst' = 1)
    <3>1. CASE NextOp.arg = 0
      <4>1. /\ t = [Bus EXCEPT !.read = FALSE, !.out = FALSE]
            /\ ~read' /\ ~(rst' = 1)
        BY <1>6, <2>1, <3>1 DEF After, ResetDac, HoldInReset
      <4>2. /\ t.fmt = Bus.fmt /\ t.cs = Bus.cs /\ t.miso = Bus.miso /\ t.amc = Bus.amc
            /\ ~t.read /\ ~t.out /\ t.read \in BOOLEAN /\ t.out \in BOOLEAN
        BY <4>1, BusInState DEF State
      <4>. QED
        BY <4>1, <4>2, <2>3, BusFields, Zenon
    <3>2. CASE NextOp.arg = 1
      <4>1. t = [Bus EXCEPT !.out = TRUE] /\ read' = read /\ rst' = 1
        BY <1>6, <2>1, <3>2 DEF After, ResetDac
      <4>2. /\ t.fmt = Bus.fmt /\ t.cs = Bus.cs /\ t.miso = Bus.miso /\ t.amc = Bus.amc
            /\ t.read = Bus.read /\ t.out /\ t.out \in BOOLEAN
        BY <4>1, BusInState DEF State
      <4>. QED
        BY <4>1, <4>2, BusFields, Zenon
    <3>. QED
      BY <2>1, <3>1, <3>2
  <2>5. t \in State
    BY <1>1, OperationFound
  <2>6. Bus' \in State
    <3>1. /\ fmt' \in {0, 1} /\ cs' \in SUBSET Chip /\ miso' \in [reg : Registers, sound : BOOLEAN]
          /\ amc' \in [Amc -> Configuration]
      BY <2>3, BusInState, BusFields DEF State
    <3>. QED
      BY <2>3, <3>1 DEF Bus, State
  <2>. HIDE DEF t
  <2>7. Bus' = t
    <3>1. /\ Bus'.fmt = t.fmt /\ Bus'.cs = t.cs /\ Bus'.miso = t.miso /\ Bus'.amc = t.amc
          /\ Bus'.read = t.read /\ Bus'.out = t.out
      BY <2>2, <2>3, <2>4, Zenon
    <3>. QED
      BY <2>5, <2>6, <3>1, SameState
  <2>. QED
    BY <1>3, <2>3, <2>7 DEF IInv, t
<1>7. CASE Take
  <2>1. Bus' = After(Bus, NextOp)
    BY <1>1, <1>7 DEF Take, Does, Bus, After
  <2>2. /\ NextOp.arg \in Registers /\ miso = [reg |-> NextOp.arg, sound |-> TRUE]
    BY <1>2, <1>7, BusFields DEF Take, Does, Needs, Operation
  <2>. QED
    BY <1>3, <1>7, <2>1, <2>2 DEF Take, IInv
<1>. QED
  BY <1>4, <1>5, <1>6, <1>7 DEF BusStep

LEMMA RestartInv == ASSUME IInv, Restart PROVE IInv'
<1>1. miso \in [reg : Registers, sound : BOOLEAN] /\ amc \in [Amc -> Configuration]
  BY BusInState, BusFields DEF State
<1>2. Bus' \in Rest("reset")
  <2>1. Bus' \in State
    BY <1>1 DEF Restart, HoldInReset, Bus, State
  <2>2. Bus'.cs = {} /\ ~Bus'.out
    <3>1. rst' = 0 /\ cs' = {}
      BY DEF Restart, HoldInReset
    <3>2. Bus'.cs = cs' /\ Bus'.out = (rst' = 1)
      BY BusFieldsNext
    <3>3. ~(rst' = 1)
      BY <3>1
    <3>. QED
      BY <3>1, <3>2, <3>3, Zenon
  <2>. QED
    BY <2>1, <2>2 DEF Rest
<1>3. Runs(Bus', <<>>, Rest("reset"))
  BY <1>2, RunsNothing DEF Rest
<1>. QED
  BY <1>3 DEF Restart, HoldInReset, IInv

LEMMA RaiseInv == ASSUME IInv, NEW x \in Alarms, Raise(x) PROVE IInv'
<1>1. Bus' = Bus
  BY DEF Raise, Bus
<1>. QED
  BY <1>1 DEF Raise, IInv

LEMMA InitInv == ASSUME Init PROVE IInv
<1>1. Fresh \in Configuration /\ "id" \in Registers
  BY DEF Fresh, Configuration, Registers
<1>2. Bus \in Rest("reset")
  <2>1. Bus \in State
    BY <1>1 DEF Init, Bus, State
  <2>2. Bus.cs = {} /\ ~Bus.out
    <3>1. cs = {} /\ ~(rst = 1)
      BY DEF Init
    <3>. QED
      BY <3>1, BusFields, Zenon
  <2>. QED
    BY <2>1, <2>2 DEF Rest
<1>3. Runs(Bus, <<>>, Rest("reset"))
  BY <1>2, RunsNothing DEF Rest
<1>. QED
  BY <1>1, <1>3 DEF Init, IInv

LEMMA NextInv == ASSUME IInv, [Next]_vars PROVE IInv'
<1>1. CASE UNCHANGED vars
  BY <1>1 DEF vars, IInv, Bus
<1>. QED
  BY <1>1, BusStepInv, ProgramInv, RestartInv, RaiseInv DEF Next, SystemReset, ProcessorReset

\* In every reachable state, a restart in the middle of a frame included, what
\* is left of the current driver call finds what it needs.
THEOREM Inductive == Spec => []IInv
<1>. QED
  BY InitInv, NextInv, PTL DEF Spec

-----------------------------------------------------------------------------
\* The types hold.
THEOREM BusTypes == Spec => []TypeOK
<1>1. IInv => TypeOK
  <2>1. SUFFICES ASSUME IInv PROVE TypeOK
    OBVIOUS
  <2>2. /\ fmt \in {0, 1} /\ cs \in SUBSET Chip /\ miso \in [reg : Registers, sound : BOOLEAN]
        /\ amc \in [Amc -> Configuration] /\ read \in BOOLEAN
    BY <2>1, BusInState, BusFields DEF State
  <2>3. rst \in {0, 1} /\ alarms \subseteq Alarms /\ seen \subseteq Alarms
    BY <2>1 DEF IInv
  <2>4. taken \in [want : Registers, got : Registers, sound : BOOLEAN]
    <3>1. PICK r \in Registers : taken = [want |-> r, got |-> r, sound |-> TRUE]
      BY <2>1 DEF IInv
    <3>. QED
      BY <3>1
  <2>. QED
    BY <2>2, <2>3, <2>4, Zenon DEF TypeOK, Configuration
<1>. QED
  BY <1>1, Inductive, PTL

\* Every frame goes to the one chip it is for, in the format its own driver
\* function sets or counts on, and the DAC is programmed out of reset: whichever
\* drivers used the bus before, and wherever a restart cut one of them off.
THEOREM FramesFit == Spec => []RightFormat
<1>1. IInv => RightFormat
  <2>1. SUFFICES ASSUME IInv, todo # <<>>, NextOp.op = "send"
                 PROVE  /\ cs = {NextOp.chip}
                        /\ fmt = DriverFormat(NextOp.chip, NextOp.arg)
                        /\ NextOp.chip = "dac" /\ NextOp.arg[2] \in {"rom", "rom_alarms", "current"}
                             => rst = 1
    BY DEF RightFormat
  <2>. QED
    BY <2>1, OperationFound, BusFields DEF Needs, Fits, Programs
<1>. QED
  BY <1>1, Inductive, PTL

\* read_reg returns the register it was asked for, from a converter set up and
\* at the gain the caller counts on.
THEOREM ReadingsSound == Spec => []ReadsAreSound
<1>1. IInv => ReadsAreSound
  BY DEF IInv, ReadsAreSound
<1>. QED
  BY <1>1, Inductive, PTL

\* For every set of alarm flags: an alarm goes down by a reset of the DAC or by
\* its ROM, at a restart and the boot after it, or else it was up when the
\* alarms were read, or raised since.
THEOREM AlarmsSeen == Spec => AlarmsAccountedFor
<1>. DEFINE Seen == \A x \in alarms \ alarms' : read /\ x \in seen
            Rewritten == Sends("dac", <<"write", "rom_alarms">>)
<1>1. ASSUME IInv, [Next]_vars
      PROVE  [rst' = 0 \/ Rewritten \/ Seen]_vars
  <2>1. CASE SendClear
    <3>1. todo # <<>> /\ Needs(Bus, NextOp)
      BY <1>1, <2>1, OperationFound DEF SendClear, Does
    <3>2. Rewritten \/ (NextOp.op = "send" /\ NextOp.arg = <<"write", "alarms">>)
      BY <2>1 DEF SendClear, Clears, Sends
    <3>3. Rewritten \/ read
      BY <3>1, <3>2, BusFields DEF Needs, Fits
    <3>. QED
      BY <1>1, <3>3 DEF IInv
  <2>2. ASSUME ~SendClear PROVE rst' = 0 \/ alarms \subseteq alarms'
    BY <1>1, <2>2
    DEF Next, BusStep, SetFormat, Select, Deselect, SendAmc, SendOther, ResetDac, HoldInReset,
        Take, Program, Boot, Calibrate, MainLoop, Periodic, Trip, Calls, SystemReset,
        ProcessorReset, Restart, Raise, vars
  <2>. QED
    BY <2>1, <2>2
<1>. QED
  BY <1>1, Inductive, PTL DEF Spec, AlarmsAccountedFor
=============================================================================
