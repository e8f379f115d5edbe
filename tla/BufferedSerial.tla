--------------------------- MODULE BufferedSerial ---------------------------
(***************************************************************************)
(* The buffered serial port: a ring, MyBuffer, in each direction, between  *)
(* a thread and the port's interrupt handler.  The handler runs between    *)
(* any two accesses of the thread's to memory or to the port.              *)
(*                                                                         *)
(* Sending, the thread puts and the handler gets; receiving it is the      *)
(* other way round.  The directions share nothing but the handler, which   *)
(* serves one after the other, so a behaviour has one of them.  (The       *)
(* receive interrupt stays on, so that turning the transmit interrupt off  *)
(* never turns the vector off.)                                            *)
(***************************************************************************)
EXTENDS Integers, Sequences

CONSTANTS
  Size,       \* of the ring, _size
  Bytes,
  None,       \* no byte
  Longest     \* the longest string written in one call

ASSUME BufferAssumption ==
  /\ Size \in Nat /\ Size > 2
  /\ 0 \in Bytes /\ None \notin Bytes
  /\ Longest \in Nat \ {0}

VARIABLES
  dir,        \* "tx" or "rx"
  _buf, _wloc, _rloc,   \* the ring
  out,        \* the byte in the transmit register, or the one getc() returns
  txie,       \* is the transmit interrupt enabled, and its handler attached?
  irq,        \* is the handler running?
  pc,         \* where the thread is
  rest        \* what is left of the string it writes

ring == <<_buf, _wloc, _rloc>>
vars == <<dir, ring, out, txie, irq, pc, rest>>

Goes(here, next) == ~irq /\ pc = here /\ pc' = next

\* serial_writable
Writable == out = None

available == _wloc # _rloc

Wrapped_at_size(loc) == loc % Size

\* %= (_size-1), for both indices: the last element is never used.
Wrapped(loc) == loc % (Size - 1)

-----------------------------------------------------------------------------
(* write(), and putc(), puts() and printf(), which do the same.            *)

Strings == UNION {[1 .. n -> Bytes] : n \in 1 .. Longest}

Call(s) ==
  /\ dir = "tx"
  /\ Goes("idle", "put")
  /\ rest' = s
  /\ UNCHANGED <<dir, ring, out, txie, irq>>

\* _buf[_wloc++] = data, with the data stored first.  _wloc is volatile and
\* _buf is not: the compiler is free to store it second.
PutStores ==
  /\ Goes("put", "wrap")
  /\ _buf' = [_buf EXCEPT ![_wloc] = Head(rest)]
  /\ _wloc' = _wloc + 1
  /\ UNCHANGED <<dir, _rloc, out, txie, irq, rest>>

PutCounts ==
  /\ Goes("put", "data")
  /\ _wloc' = _wloc + 1
  /\ UNCHANGED <<dir, _buf, _rloc, out, txie, irq, rest>>

PutData ==
  /\ Goes("data", "wrap")
  /\ _buf' = [_buf EXCEPT ![_wloc - 1] = Head(rest)]
  /\ UNCHANGED <<dir, _wloc, _rloc, out, txie, irq, rest>>

PutWraps ==
  /\ Goes("wrap", IF Len(rest) > 1 THEN "put" ELSE "prime")
  /\ _wloc' = Wrapped(_wloc)
  /\ rest' = Tail(rest)
  /\ UNCHANGED <<dir, _buf, _rloc, out, txie, irq>>

\* get(), and what it returns goes out.
Get ==
  /\ out' = _buf[_rloc]
  /\ _rloc' = Wrapped(_rloc + 1)
  /\ UNCHANGED <<dir, _buf, _wloc>>

-----------------------------------------------------------------------------
(* prime(), which calls txIrq() with the interrupt off.                    *)

\* if already busy then the irq will pick this up
PrimeBusy ==
  /\ Goes("prime", "idle")
  /\ ~Writable
  /\ UNCHANGED <<dir, ring, out, txie, irq, rest>>

\* With the mistake of leaving the interrupt on.
PrimeDetaches_not ==
  /\ Goes("prime", "fill")
  /\ Writable
  /\ UNCHANGED <<dir, ring, out, txie, irq, rest>>

PrimeDetaches ==
  /\ Goes("prime", "fill")
  /\ Writable
  /\ txie' = FALSE
  /\ UNCHANGED <<dir, ring, out, irq, rest>>

PrimeLooks ==
  /\ Goes("fill", "take")
  /\ Writable /\ available
  /\ UNCHANGED <<dir, ring, out, txie, irq, rest>>

PrimeTakes ==
  /\ Goes("take", "fill")
  /\ Writable
  /\ Get
  /\ UNCHANGED <<txie, irq, rest>>

PrimeFilled ==
  /\ Goes("fill", "attach")
  /\ ~Writable \/ ~available
  /\ txie' = (txie /\ ~Writable)
  /\ UNCHANGED <<dir, ring, out, irq, rest>>

\* With the mistake of leaving the interrupt off.
PrimeAttaches_not ==
  /\ Goes("attach", "idle")
  /\ UNCHANGED <<dir, ring, out, txie, irq, rest>>

PrimeAttaches ==
  /\ Goes("attach", "idle")
  /\ txie' = TRUE
  /\ UNCHANGED <<dir, ring, out, irq, rest>>

prime == PrimeBusy \/ PrimeDetaches \/ PrimeLooks \/ PrimeTakes \/ PrimeFilled
         \/ PrimeAttaches

write == PutStores \/ PutCounts \/ PutData \/ PutWraps \/ prime

-----------------------------------------------------------------------------
(* The handler, in its two roles, and the port.                            *)

Interrupt ==
  /\ ~irq
  /\ txie /\ Writable
  /\ irq' = TRUE
  /\ UNCHANGED <<dir, ring, out, txie, pc, rest>>

IrqTakes ==
  /\ irq
  /\ Writable /\ available
  /\ Get
  /\ UNCHANGED <<txie, irq, pc, rest>>

\* disable the TX interrupt when there is nothing left to send
IrqDrained ==
  /\ irq
  /\ Writable /\ ~available
  /\ txie' = FALSE
  /\ irq' = FALSE
  /\ UNCHANGED <<dir, ring, out, pc, rest>>

IrqReturns ==
  /\ irq
  /\ ~Writable
  /\ irq' = FALSE
  /\ UNCHANGED <<dir, ring, out, txie, pc, rest>>

txIrq == Interrupt \/ IrqTakes \/ IrqDrained \/ IrqReturns

\* The transmit register empties into the shift register.
Shifts ==
  /\ dir = "tx"
  /\ out # None
  /\ out' = None
  /\ UNCHANGED <<dir, ring, txie, irq, pc, rest>>

\* The whole handler, for a byte that has come.
rxIrq(b) ==
  /\ dir = "rx"
  /\ _buf' = [_buf EXCEPT ![_wloc] = b]
  /\ _wloc' = Wrapped(_wloc + 1)
  /\ UNCHANGED <<dir, _rloc, out, txie, irq, pc, rest>>

-----------------------------------------------------------------------------
(* "Should check readable() before calling this": readable() and getc().   *)

Readable ==
  /\ dir = "rx"
  /\ Goes("idle", "get")
  /\ available
  /\ UNCHANGED <<dir, ring, out, txie, irq, rest>>

GetCounts ==
  /\ Goes("get", "get_wrap")
  /\ out' = _buf[_rloc]
  /\ _rloc' = _rloc + 1
  /\ UNCHANGED <<dir, _buf, _wloc, txie, irq, rest>>

GetWraps ==
  /\ Goes("get_wrap", "idle")
  /\ _rloc' = Wrapped(_rloc)
  /\ out' = None
  /\ UNCHANGED <<dir, _buf, _wloc, txie, irq, rest>>

getc == GetCounts \/ GetWraps

-----------------------------------------------------------------------------
Init ==
  /\ dir \in {"tx", "rx"}
  /\ _buf = [i \in 0 .. Size - 1 |-> 0]
  /\ _wloc = 0 /\ _rloc = 0
  /\ out = None
  /\ txie = FALSE /\ irq = FALSE
  /\ pc = "idle"
  /\ rest = <<>>

Next == \/ \E s \in Strings : Call(s)
        \/ write
        \/ txIrq
        \/ Shifts
        \/ \E b \in Bytes : rxIrq(b)
        \/ Readable
        \/ getc

\* A call returns, an interrupt is served, a byte goes out.  Nobody has to call.
Spec == Init /\ [][Next]_vars /\ WF_vars(write) /\ WF_vars(txIrq) /\ WF_vars(Shifts)

-----------------------------------------------------------------------------
\* Type invariant: no index leaves the ring, and the last element is not used.
TypeOK ==
  /\ dir \in {"tx", "rx"}
  /\ _buf \in [0 .. Size - 1 -> Bytes] /\ _buf[Size - 1] = 0
  /\ _wloc \in 0 .. Size - 1 /\ (_wloc = Size - 1 => pc \in {"data", "wrap"})
  /\ _rloc \in 0 .. Size - 1 /\ (_rloc = Size - 1 => pc = "get_wrap")
  /\ out \in Bytes \cup {None}
  /\ txie \in BOOLEAN /\ irq \in BOOLEAN
  /\ pc \in {"idle", "put", "data", "wrap", "prime", "fill", "take", "attach",
             "get", "get_wrap"}
  /\ rest \in Seq(Bytes) /\ Len(rest) <= Longest

\* The bytes between the indices, without one that is counted and not stored.
Filled == IF pc = "data" /\ Wrapped(_wloc) # _rloc
          THEN Wrapped(_wloc - 1 - _rloc) ELSE Wrapped(_wloc - _rloc)

Stored == [i \in 1 .. Filled |-> _buf[Wrapped(_rloc + i - 1)]]

Queue == INSTANCE Fifo WITH q <- Stored, Capacity <- Size - 2,
                            amid <- pc \in {"data", "wrap", "get"}

\* No byte is taken twice or out of turn, by prime() and the handler or by the
\* thread and the handler that fills the ring, but for two things the ring
\* cannot do: tell full from empty, and have an interrupt between the two stores
\* of a put, or a lap between readable() and getc().
ImplementsQueue == Queue!Spec

\* "Pull the oldest element from the buffer" (MyBuffer.h:90), from a buffer that
\* "allows overwriting by design" (BufferedSerial.cpp:50): a full ring may lose
\* the new byte or the oldest one.  A full turn of _wloc loses all of them.
HandsOutOldest == Queue!Oldest

\* No lost wake-up: once the thread makes no more calls the ring is drained,
\* though prime() turns the interrupt off and on around the handler's own
\* decision to turn it off, and does nothing when the port is busy.
Drains == dir = "tx" => []<>(pc # "idle" \/ (~available /\ out = None))
=============================================================================
