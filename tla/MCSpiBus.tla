------------------------------ MODULE MCSpiBus ------------------------------
(* SpiBus with two alarm flags, so that one may be up and another raised.  *)
EXTENDS SpiBus

TwoAlarms == {"parity", "fifo"}
=============================================================================
