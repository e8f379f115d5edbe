--------------------------- MODULE CommandChannel ---------------------------
(***************************************************************************)
(* What the command link promises a sender that waits for the echo of a    *)
(* command before it sends the next one, and gives a command up when it    *)
(* hears "error": an answered command has been carried out, once; nothing  *)
(* is carried out but the command it is waiting for.  A command may stay   *)
(* unanswered: the board may restart under it.                             *)
(***************************************************************************)
CONSTANTS
  Msgs,       \* the commands
  None        \* no command

VARIABLES
  cmd,        \* the command the sender is waiting for
  done,       \* has it been carried out?
  applied,    \* the command carried out last
  answered    \* did the sender's last wait end with an answer?

Init == cmd = None /\ done = FALSE /\ applied = None /\ answered = FALSE

Send(m) ==
  /\ cmd = None
  /\ cmd' = m
  /\ done' = FALSE
  /\ UNCHANGED <<applied, answered>>

CarryOut ==
  /\ cmd # None
  /\ ~done
  /\ done' = TRUE
  /\ applied' = cmd
  /\ UNCHANGED <<cmd, answered>>

Answer ==
  /\ cmd # None
  /\ done
  /\ cmd' = None
  /\ answered' = TRUE
  /\ UNCHANGED <<done, applied>>

GiveUp ==
  /\ cmd # None
  /\ cmd' = None
  /\ answered' = FALSE
  /\ UNCHANGED <<done, applied>>

Next == (\E m \in Msgs : Send(m)) \/ CarryOut \/ Answer \/ GiveUp

Spec == Init /\ [][Next]_<<cmd, done, applied, answered>>
=============================================================================
