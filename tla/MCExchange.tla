---------------------------- MODULE MCExchange ----------------------------
(* A queue of two telegrams in each direction, so that an answer waits     *)
(* behind a beat; counters that take more than one second to reach their   *)
(* limits, the program's and the daemon's at different times.              *)
EXTENDS Exchange
=============================================================================
