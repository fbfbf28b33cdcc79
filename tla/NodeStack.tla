----------------------------- MODULE NodeStack ------------------------------
(***************************************************************************)
(* What the Network's list of nodes amounts to, without the links, the     *)
(* walks and the two loops: a stack. A connection is put on top, any of    *)
(* them closes, and only the topmost leaves, once it has closed: a closed  *)
(* one stays as long as anything that came after it. When is not promised, *)
(* since the thread that removes them can be caught for ever.              *)
(***************************************************************************)
EXTENDS Sequences

CONSTANT Nodes

VARIABLES
  stack,    \* the nodes, the latest first
  closed,   \* those of them that have closed
  stopped   \* the daemon has shut down or died

vars == <<stack, closed, stopped>>

OnStack == {stack[i] : i \in DOMAIN stack}

Init ==
  /\ stack = <<>>
  /\ closed = {}
  /\ stopped = FALSE

\* The connection may have been closed by the time it is put there.
Push(n) ==
  /\ ~stopped
  /\ n \notin OnStack
  /\ stack' = <<n>> \o stack
  /\ closed' \in {closed, closed \cup {n}}
  /\ UNCHANGED stopped

Close(n) ==
  /\ ~stopped
  /\ n \in OnStack \ closed
  /\ closed' = closed \cup {n}
  /\ UNCHANGED <<stack, stopped>>

Pop ==
  /\ ~stopped
  /\ stack # <<>>
  /\ Head(stack) \in closed
  /\ stack' = Tail(stack)
  /\ closed' = closed \ {Head(stack)}
  /\ UNCHANGED stopped

\* With all nodes deleted, or as they are.
Stop ==
  /\ ~stopped
  /\ stopped' = TRUE
  /\ \/ stack' = <<>> /\ closed' = {}
     \/ UNCHANGED <<stack, closed>>

Next ==
  \/ \E n \in Nodes : Push(n) \/ Close(n)
  \/ Pop
  \/ Stop

Spec == Init /\ [][Next]_vars
=============================================================================
