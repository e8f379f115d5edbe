---------------------------- MODULE MCRfControl ----------------------------
(***************************************************************************)
(* The instances of RfControl that TLC explores.                           *)
(***************************************************************************)
EXTENDS RfControl

\* One byte per branch of changeState and per channel, two receive gains:
\* safe both, telemetry, tx a, tx b, safe a, safe b, rx a (5, 63), rx b (5).
AllBranches == {0, 1, 3, 131, 22, 150, 69, 127, 197}

\* Conducts at the first test, inside the range, or one step before the
\* limit; otherwise the loop runs into the limit.
EdgesAndMiddle == {388, 300, 205}
=============================================================================
