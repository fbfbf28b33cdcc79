----------------------------- MODULE MCNodeList -----------------------------
(* Four nodes: closed ones at the head, in the middle and at the end of the *)
(* list with open ones around them; with nMax = 3 a fourth open connection  *)
(* is one too many.                                                         *)
EXTENDS NodeList
=============================================================================
