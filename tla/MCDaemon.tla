------------------------------ MODULE MCDaemon ------------------------------
(* Numbers up to 3 and six starts, so that logs are dropped several times,  *)
(* and rotations cut short at every call leave every pattern of holes.      *)
EXTENDS Daemon
=============================================================================
