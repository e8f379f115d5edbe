---------------------------- MODULE MCCommandLink ----------------------------
(* CommandLink with one command of each kind that the link tells apart.      *)
EXTENDS CommandLink

\* dump_telemetry(&fpga), TX on either channel, RX on channel a.
Commands == {1, 3, 64, 131}
=============================================================================
