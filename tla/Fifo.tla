-------------------------------- MODULE Fifo --------------------------------
(***************************************************************************)
(* What a MyBuffer between a thread and an interrupt handler promises.     *)
(*                                                                         *)
(* It is a queue that hands out the oldest byte.  One byte too many        *)
(* empties it.  And a byte may be taken that nobody put, after which the   *)
(* queue may hold anything, but only amid an operation of the thread's.    *)
(* Oldest is the queue that MyBuffer.h documents, without these two.       *)
(***************************************************************************)
EXTENDS Sequences, Naturals

CONSTANTS
  Bytes,
  None,       \* no byte
  Capacity    \* how many bytes it holds

VARIABLES
  q,          \* the bytes put and not taken
  out,        \* the byte taken last, until it is delivered
  amid        \* is the thread amid an operation?

Init == q = <<>> /\ out = None /\ amid = FALSE

Put(b) ==
  /\ q' = IF Len(q) < Capacity THEN Append(q, b) ELSE <<>>
  /\ UNCHANGED out

Take ==
  /\ q # <<>> /\ out = None
  /\ out' = Head(q)
  /\ q' = Tail(q)

Replay ==
  /\ q = <<>> /\ out = None
  /\ amid
  /\ out' \in Bytes
  /\ q' \in Seq(Bytes) /\ Len(q') <= Capacity

Deliver == out # None /\ out' = None /\ UNCHANGED q

Next == /\ \/ \E b \in Bytes : Put(b)
           \/ Take
           \/ Replay
           \/ Deliver
           \/ UNCHANGED <<q, out>>
        /\ amid' \in BOOLEAN

Spec == Init /\ [][Next]_<<q, out, amid>>

-----------------------------------------------------------------------------
\* A full queue may leave out the new byte or the oldest one.
Overwrite(b) ==
  /\ q' \in IF Len(q) < Capacity THEN {Append(q, b)} ELSE {q, Append(Tail(q), b)}
  /\ UNCHANGED out

Oldest == Init /\ [][(\E b \in Bytes : Overwrite(b)) \/ Take \/ Deliver]_<<q, out>>
=============================================================================
