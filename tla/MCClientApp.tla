---------------------------- MODULE MCClientApp ----------------------------
(* Two chunks, so that one comes after the first; a queue of two telegrams, *)
(* so that something waits behind a chunk; every counter takes more than    *)
(* one call to reach its limit.                                             *)
EXTENDS ClientApp
=============================================================================
