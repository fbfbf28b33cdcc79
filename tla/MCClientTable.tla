--------------------------- MODULE MCClientTable ---------------------------
(* Three addresses for clients: a full table, a hole in front, a hole in    *)
(* the middle and a trailing run of vacant slots all occur. MaxPasses is 1, *)
(* so ProcessClients makes one or two passes.                               *)
EXTENDS ClientTable
=============================================================================
