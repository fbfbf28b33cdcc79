----------------------------- MODULE MCNodePeer -----------------------------
(* Two requests and two replies, so that one can find its mailbox taken; a  *)
(* queue of two, so that one can be behind another; a heartbeat that takes  *)
(* more than one call and more than one miss.                               *)
EXTENDS NodePeer
=============================================================================
