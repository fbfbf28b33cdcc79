------------------------------ MODULE NodeList ------------------------------
(***************************************************************************)
(* The linked list of peer daemons kept by the Network object              *)
(* (src/src/network.cpp), which links the Node objects through their own   *)
(* _pNext pointers (src/src/node.cpp).                                     *)
(*                                                                         *)
(* The network thread accepts connections (OnAccept) and otherwise runs    *)
(* OnIdle: CheckConnections, ProcessNodes and, if that saw a closed node,  *)
(* RemoveClosedNodes. Every node is closed by its own socket thread at any *)
(* moment. What ProcessNodes does with an open node is left to other       *)
(* modules: here it either finds work or does not.                         *)
(*                                                                         *)
(* `debug` says whether ASSERT is compiled in; a false one then ends the   *)
(* process.                                                                *)
(***************************************************************************)
EXTENDS Integers, FiniteSets

CONSTANTS
  Nodes,       \* addresses at which `new Node` can place an object
  NULL,        \* the null pointer
  nMin, nMax,  \* _Connections
  MaxPasses    \* the 50 of ProcessNodes (network.cpp:493)

ASSUME NodesAssumption == IsFiniteSet(Nodes) /\ NULL \notin Nodes
ASSUME ConnectionsAssumption == nMin \in Nat \ {0} /\ nMax \in Nat /\ nMax > nMin
ASSUME PassesAssumption == MaxPasses \in Nat

VARIABLES
  life,      \* n is no object ("free"), an "open" or a "closed" one
  next,      \* _pNext of each node
  pNodes,    \* _pNodes, the head of the list
  pc,        \* where the network thread is
  arriving,  \* pTmp of OnAccept between `new` and AddNode
  pTmp,      \* loop variable of ProcessNodes and RemoveClosedNodes
  pPrev,     \* the open node RemoveClosedNodes has passed last
  bClosed,   \* ProcessNodes has seen a closed node
  bIdle,     \* nothing to do was found in this pass
  max,       \* passes made in this call of ProcessNodes
  debug,     \* ASSERT is compiled in
  phase      \* "run", "down" (~Network has run) or "dead"

links == <<next, pNodes>>
walk  == <<pTmp, pPrev, bClosed, bIdle, max>>
vars  == <<life, links, pc, arriving, walk, debug, phase>>

Running == phase = "run"

Pointer == Nodes \cup {NULL}

\* The pointer reached after k links, and the nodes that are in the list.
Reached[k \in 0 .. Cardinality(Nodes)] ==
  IF k = 0 THEN pNodes
  ELSE IF Reached[k - 1] = NULL THEN NULL
  ELSE next[Reached[k - 1]]

Listed == {Reached[k] : k \in 0 .. Cardinality(Nodes)} \ {NULL}

TypeOK ==
  /\ life \in [Nodes -> {"free", "open", "closed"}]
  /\ next \in [Nodes -> Pointer]
  /\ pNodes \in Pointer
  /\ pc \in {"wait", "add", "walk", "sweep"}
  /\ arriving \in Pointer
  /\ pTmp \in Pointer
  /\ pPrev \in Pointer
  /\ bClosed \in BOOLEAN
  /\ bIdle \in BOOLEAN
  /\ max \in 0 .. MaxPasses
  /\ debug \in BOOLEAN
  /\ phase \in {"run", "down", "dead"}

Init ==
  /\ life = [n \in Nodes |-> "free"]
  /\ next = [n \in Nodes |-> NULL]
  /\ pNodes = NULL
  /\ pc = "wait"
  /\ arriving = NULL
  /\ pTmp = NULL
  /\ pPrev = NULL
  /\ bClosed = FALSE
  /\ bIdle = TRUE
  /\ max = 0
  /\ debug \in BOOLEAN
  /\ phase = "run"

-----------------------------------------------------------------------------
(* Nodes coming.                                                           *)

\* A Node is constructed with a null _pNext.
NewNode(n, state) ==
  /\ life[n] = "free"
  /\ life' = [life EXCEPT ![n] = state]

\* Mutant of Prepend: the old list is not linked behind the new node.
PrependUnlinked(n) ==
  /\ next' = [next EXCEPT ![n] = NULL]
  /\ pNodes' = n

Prepend(n) ==
  /\ next' = [next EXCEPT ![n] = pNodes]
  /\ pNodes' = n

OnAccept(n) ==
  /\ Running
  /\ pc = "wait"
  /\ NewNode(n, "open")
  /\ arriving' = n
  /\ pc' = "add"
  /\ UNCHANGED <<links, walk, debug, phase>>

AddNode ==
  /\ Running
  /\ pc = "add"
  /\ Prepend(arriving)
  /\ arriving' = NULL
  /\ pc' = "wait"
  /\ UNCHANGED <<life, walk, debug, phase>>

-----------------------------------------------------------------------------
(* OnIdle, up to the first node of ProcessNodes.                           *)

GetConnectionCount == Cardinality({n \in Listed : life[n] = "open"})

\* The first visit of the first pass.
StartProcessNodes ==
  /\ pc' = "walk"
  /\ pTmp' = pNodes'
  /\ bClosed' = FALSE
  /\ bIdle' = TRUE
  /\ max' = 0
  /\ UNCHANGED pPrev

\* No second has gone by, or the number of connections is fine.
OnIdle ==
  /\ Running
  /\ pc = "wait"
  /\ UNCHANGED links
  /\ StartProcessNodes
  /\ UNCHANGED <<life, arriving, debug, phase>>

\* Too few: ConnectStarter adds a node whose Connect does nothing (it is empty,
\* node.cpp:1121-1124). Whether such a socket says it is closed is DevPlus's.
\* `queryhost` is taken to be configured: with only the `queryaddr` of the
\* shipped etc/pacsrv.conf a debug build aborts here (network.cpp:282).
OnIdleConnects(n) ==
  /\ Running
  /\ pc = "wait"
  /\ GetConnectionCount < nMin
  /\ \E state \in {"open", "closed"} : NewNode(n, state)
  /\ Prepend(n)
  /\ StartProcessNodes
  /\ UNCHANGED <<arriving, debug, phase>>

\* Too many: CloseSlowConnection runs to the end of the list and then calls
\* methods of the null pointer it found there.
OnIdleCrashes ==
  /\ Running
  /\ pc = "wait"
  /\ GetConnectionCount > nMax
  /\ phase' = "dead"
  /\ UNCHANGED <<life, links, pc, arriving, walk, debug>>

-----------------------------------------------------------------------------
(* ProcessNodes.                                                           *)

VisitOpen ==
  /\ Running
  /\ pc = "walk"
  /\ pTmp # NULL
  /\ life[pTmp] = "open"
  /\ \E found \in BOOLEAN : bIdle' = (bIdle /\ ~found)
  /\ pTmp' = next[pTmp]
  /\ UNCHANGED <<life, links, pc, arriving, pPrev, bClosed, max, debug, phase>>

VisitClosed ==
  /\ Running
  /\ pc = "walk"
  /\ pTmp # NULL
  /\ life[pTmp] = "closed"
  /\ bClosed' = TRUE
  /\ pTmp' = next[pTmp]
  /\ UNCHANGED <<life, links, pc, arriving, pPrev, bIdle, max, debug, phase>>

\* Mutant of PassCount: the passes are not counted.
PassCountForgotten == max

PassCount == max + 1

\* Mutant of LoopEnds: one pass too many.
LoopEndsLate == bIdle \/ max > MaxPasses

LoopEnds == bIdle \/ PassCount > MaxPasses

\* Mutant of SweepNeeded: closed nodes are left alone when nothing else happened.
SweepNeededWhenBusy == bClosed /\ ~bIdle

SweepNeeded == bClosed

AtEndOfPass == Running /\ pc = "walk" /\ pTmp = NULL

NextPass ==
  /\ AtEndOfPass
  /\ ~LoopEnds
  /\ pTmp' = pNodes
  /\ bIdle' = TRUE
  /\ max' = PassCount
  /\ UNCHANGED <<life, links, pc, arriving, pPrev, bClosed, debug, phase>>

LastPass ==
  /\ AtEndOfPass
  /\ LoopEnds
  /\ pc' = IF SweepNeeded THEN "sweep" ELSE "wait"
  /\ pTmp' = IF SweepNeeded THEN pNodes ELSE NULL
  /\ pPrev' = NULL
  /\ bIdle' = TRUE
  /\ max' = 0
  /\ UNCHANGED <<life, links, arriving, bClosed, debug, phase>>

-----------------------------------------------------------------------------
(* RemoveClosedNodes. There is no step for a closed node with an open one   *)
(* before it: the code then neither unlinks it nor goes on.                *)

Sweeping == Running /\ pc = "sweep"

\* ~Node asserts that the node it deletes is linked to nothing.
DeleteAsserted(n) == debug => next[n] = NULL

\* Mutant of AfterDelete: go on from the deleted node instead of the new head.
StayOnDeleted == pTmp

AfterDelete == next[pTmp]

\* Mutant of Removable: the test of IsClosed is missing.
RemovableOpen == life[pTmp] # "free"

Removable == life[pTmp] = "closed"

SweepHead ==
  /\ Sweeping
  /\ pTmp # NULL
  /\ Removable
  /\ pPrev = NULL
  /\ DeleteAsserted(pTmp)
  /\ pNodes' = next[pTmp]
  /\ life' = [life EXCEPT ![pTmp] = "free"]
  /\ next' = [next EXCEPT ![pTmp] = NULL]
  /\ pTmp' = AfterDelete
  /\ UNCHANGED <<pc, arriving, pPrev, bClosed, bIdle, max, debug, phase>>

SweepOpen ==
  /\ Sweeping
  /\ pTmp # NULL
  /\ life[pTmp] = "open"
  /\ pPrev' = pTmp
  /\ pTmp' = next[pTmp]
  /\ UNCHANGED <<life, links, pc, arriving, bClosed, bIdle, max, debug, phase>>

SweepEnds ==
  /\ Sweeping
  /\ pTmp = NULL
  /\ pc' = "wait"
  /\ pPrev' = NULL
  /\ bClosed' = FALSE
  /\ UNCHANGED <<life, links, arriving, pTmp, bIdle, max, debug, phase>>

SweepAsserts ==
  /\ Sweeping
  /\ pTmp # NULL
  /\ Removable
  /\ pPrev = NULL
  /\ ~DeleteAsserted(pTmp)
  /\ phase' = "dead"
  /\ UNCHANGED <<life, links, pc, arriving, walk, debug>>

\* The network thread spins, holding the Network lock.
Spins ==
  Sweeping /\ pTmp # NULL /\ pPrev # NULL /\ life[pTmp] = "closed"

-----------------------------------------------------------------------------
(* The node threads, and ~Network.                                         *)

NodeCloses(n) ==
  /\ Running
  /\ life[n] = "open"
  /\ life' = [life EXCEPT ![n] = "closed"]
  /\ UNCHANGED <<links, pc, arriving, walk, debug, phase>>

\* ~Network deletes the nodes from the head on; the first that has another
\* behind it fails the assertion of ~Node.
Shutdown ==
  /\ Running
  /\ pc \in {"wait", "add"}
  /\ IF \A n \in Listed : DeleteAsserted(n)
       THEN /\ phase' = "down"
            /\ pNodes' = NULL
            /\ life' = [n \in Nodes |-> IF n \in Listed THEN "free" ELSE life[n]]
            /\ next' = [n \in Nodes |-> NULL]
       ELSE phase' = "dead" /\ UNCHANGED <<life, links>>
  /\ UNCHANGED <<pc, arriving, walk, debug>>

NetworkThread ==
  \/ AddNode \/ OnIdle
  \/ VisitOpen \/ VisitClosed \/ NextPass \/ LastPass
  \/ SweepHead \/ SweepOpen \/ SweepEnds \/ SweepAsserts

Next ==
  \/ NetworkThread
  \/ \E n \in Nodes : OnAccept(n) \/ OnIdleConnects(n) \/ NodeCloses(n)
  \/ OnIdleCrashes
  \/ Shutdown

\* The DevPlus server thread keeps calling OnIdle, and a callback that can go
\* on does so. Nobody has to connect, to close or to shut down.
Spec == Init /\ [][Next]_vars /\ WF_vars(NetworkThread)

-----------------------------------------------------------------------------
(* Properties.                                                             *)

\* Following the links from _pNodes leads through every node object that
\* exists, but the one OnAccept has not added yet, and ends; no deleted node
\* is linked (network.cpp:512-542 and 549-570).
ListSound ==
  /\ Reached[Cardinality(Nodes)] = NULL
  /\ Listed = {n \in Nodes : life[n] # "free"} \ {arriving}

\* The two walks never stand on a deleted node, although nodes are deleted
\* during one of them (network.cpp:385-490 and 553-569).
NoUseAfterDelete ==
  Running =>
    /\ pc \in {"walk", "sweep"} /\ pTmp # NULL => life[pTmp] # "free"
    /\ pPrev # NULL => life[pPrev] # "free" /\ next[pPrev] = pTmp

\* The nodes along the links, and those of them that have closed.
Listing == [i \in 1 .. Cardinality(Listed) |-> Reached[i - 1]]

ListedClosed == {n \in Listed : life[n] = "closed"}

Stack == INSTANCE NodeStack WITH stack <- Listing, closed <- ListedClosed,
                                 stopped <- ~Running

\* The links and loops make a stack of the nodes: what comes is put before all the
\* others, whose order never changes, and only the foremost leaves, when it has
\* closed, although nodes come and close while the loops are under way
\* (network.cpp:507-508, 532-535, 553-569).
ImplementsStack == Stack!Spec

\* The network thread always comes back to accept connections, unless it is
\* caught on a closed node behind an open one (network.cpp:382-496).
NetworkReturns == []<>(pc = "wait" \/ Spins \/ ~Running)

\* An open node lies before n in the list.
OpenAhead(n) ==
  \E j \in 0 .. Cardinality(Nodes), k \in 1 .. Cardinality(Nodes) :
    /\ j < k
    /\ Reached[k] = n
    /\ Reached[j] # NULL
    /\ life[Reached[j]] = "open"

\* A closed node with no open one before it is deleted, unless an open one is
\* put before it first or the thread is caught (network.cpp:385-388, 498-500,
\* 557-562).
FrontNodeDeleted ==
  \A n \in Nodes :
    (n \in Listed /\ life[n] = "closed" /\ ~OpenAhead(n)) ~>
      (life[n] # "closed" \/ OpenAhead(n) \/ Spins \/ ~Running)

\* "The closed nodes will be removed at some point anyway" (network.cpp:148).
ClosedNodesRemoved ==
  \A n \in Nodes : life[n] = "closed" ~> (life[n] # "closed" \/ ~Running)
=============================================================================
