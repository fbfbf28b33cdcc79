-------------------------- MODULE MCClientSession --------------------------
(* Two files, so that a second request differs from the first; version 2    *)
(* stands for any version the code refuses, 0 for the one that leaves the   *)
(* Client as it was; two chunks, so that a length is already known when the *)
(* second one is sent; a queue of two telegrams, so that one can be stuck   *)
(* behind a refused request; counters that each take more than one OnIdle.  *)
EXTENDS ClientSession
=============================================================================
