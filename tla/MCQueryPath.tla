---------------------------- MODULE MCQueryPath ----------------------------
(***************************************************************************)
(* Two client programs make two lookups meet; with two nodes an open and a  *)
(* closed one meet in RemoveClosedNodes, although the peer of only one of   *)
(* them talks; chunk numbers 0 and 1 tell a transfer that has started from  *)
(* one that has not.                                                        *)
(***************************************************************************)
EXTENDS QueryPath
=============================================================================
