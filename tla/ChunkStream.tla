---------------------------- MODULE ChunkStream ----------------------------
(***************************************************************************)
(* What one connection of a client program is promised by the daemon: one  *)
(* file can be asked for, its length is announced once and before any      *)
(* data, and the chunks are delivered in file order, none skipped and none *)
(* twice, each under its number as two bytes can carry it.                 *)
(***************************************************************************)
EXTENDS Integers, Sequences

CONSTANTS Files, NULL, Lengths, ChunkMod

VARIABLES
  file,        \* the file asked for, or NULL
  announced,   \* the lengths told to the client program, in order
  delivered    \* the numbers of the chunks delivered, in order

vars == <<file, announced, delivered>>

Init == file = NULL /\ announced = <<>> /\ delivered = <<>>

Ask(f) ==
  /\ file = NULL
  /\ file' = f
  /\ UNCHANGED <<announced, delivered>>

Announce(n) ==
  /\ file # NULL
  /\ announced = <<>>
  /\ announced' = <<n>>
  /\ UNCHANGED <<file, delivered>>

Deliver ==
  /\ announced # <<>>
  /\ delivered' = Append(delivered, Len(delivered) % ChunkMod)
  /\ UNCHANGED <<file, announced>>

Next ==
  \/ \E f \in Files : Ask(f)
  \/ \E n \in Lengths : Announce(n)
  \/ Deliver

Spec == Init /\ [][Next]_vars
=============================================================================
