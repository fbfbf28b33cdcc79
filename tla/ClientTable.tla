---------------------------- MODULE ClientTable ----------------------------
(***************************************************************************)
(* The client table of the Server object (src/src/server.cpp).             *)
(*                                                                         *)
(* The server thread accepts connections (OnAccept, AddClient) and, when   *)
(* it has nothing to accept, walks the table (OnIdle, ProcessClients).     *)
(* Every Client is a socket object with a thread of its own, which closes  *)
(* the connection or stores a file query while the server thread is        *)
(* between any two of the steps below. The table is a realloc()ed array    *)
(* of pointers, indexed from 0, with vacant slots that are reused.         *)
(*                                                                         *)
(* Build: ASSERT comes from the DevPlus library. In a debug build a false  *)
(* one ends the process, in a release build it is compiled out; `debug` is *)
(* that choice and never changes.                                          *)
(*                                                                         *)
(* RunQuery takes the Network's lock, which the network thread may hold    *)
(* for ever (NodeList: RemoveClosedNodes): the server thread is then stuck *)
(* in it, and it holds the Server's lock.                                  *)
(***************************************************************************)
EXTENDS Integers, FiniteSets

CONSTANTS
  Clients,     \* addresses at which `new Client` can place an object
  NULL,        \* the null pointer
  MaxPasses    \* the 50 of ProcessClients (server.cpp:251)

ASSUME ClientsAssumption == IsFiniteSet(Clients) /\ NULL \notin Clients
ASSUME PassesAssumption == MaxPasses \in Nat

VARIABLES
  life,      \* c is no object ("free"), a connected or a closed one
  wants,     \* Client::_szQuery of c is not NULL
  pList,     \* _Client.pList, a function on the allocated indices
  nAlloc,    \* slots obtained by the last realloc; 0: pList is NULL
  nCount,    \* _Client.nCount
  pc,        \* where the server thread is
  i,         \* loop index of ProcessClients
  max,       \* passes made in this call of ProcessClients
  bIdle,     \* nothing was sent in this pass
  arriving,  \* pTmp of OnAccept between `new` and AddClient
  debug,     \* ASSERT is compiled in
  phase      \* "run", "down" (~Server has run) or "aborted"

table == <<pList, nAlloc, nCount>>
loop  == <<pc, i, max, bIdle>>
vars  == <<life, wants, table, loop, arriving, debug, phase>>

Slots    == 0 .. nCount - 1
Running  == phase = "run"

\* The condition asserted by OnIdle, AddClient and ~Server.
ListAsserted ==
  \/ nAlloc = 0 /\ nCount = 0
  \/ nAlloc > 0 /\ nCount > 0

AssertFires == debug /\ ~ListAsserted

TypeOK ==
  /\ life \in [Clients -> {"free", "open", "closed"}]
  /\ wants \in [Clients -> BOOLEAN]
  /\ nAlloc \in Nat
  /\ nCount \in 0 .. nAlloc
  /\ pList \in [0 .. nAlloc - 1 -> Clients \cup {NULL}]
  /\ pc \in {"wait", "add", "slot", "ask", "run", "stuck"}
  /\ i \in 0 .. nCount
  /\ max \in 0 .. MaxPasses
  /\ bIdle \in BOOLEAN
  /\ arriving \in Clients \cup {NULL}
  /\ debug \in BOOLEAN
  /\ phase \in {"run", "down", "aborted"}

Init ==
  /\ life = [c \in Clients |-> "free"]
  /\ wants = [c \in Clients |-> FALSE]
  /\ nAlloc = 0
  /\ pList = [k \in 0 .. nAlloc - 1 |-> NULL]
  /\ nCount = 0
  /\ pc = "wait"
  /\ i = 0
  /\ max = 0
  /\ bIdle = TRUE
  /\ arriving = NULL
  /\ debug \in BOOLEAN
  /\ phase = "run"

-----------------------------------------------------------------------------
(* The server thread accepting a connection.                               *)

\* OnAccept up to its call of AddClient: from Accept() on, the client's own
\* thread runs although the client is in no slot yet.
OnAccept(c) ==
  /\ Running
  /\ pc = "wait"
  /\ life[c] = "free"
  /\ life' = [life EXCEPT ![c] = "open"]
  /\ wants' = [wants EXCEPT ![c] = FALSE]
  /\ arriving' = c
  /\ pc' = "add"
  /\ UNCHANGED <<table, i, max, bIdle, debug, phase>>

\* realloc to nCount + 1 slots, the last of which takes the client.
AppendSlot(c) ==
  /\ nAlloc' = nCount + 1
  /\ pList' = [k \in 0 .. nCount |-> IF k < nCount THEN pList[k] ELSE c]
  /\ nCount' = nCount + 1

\* Mutant of ReuseSlot: the loop goes on after it has found a vacant slot.
FillAllSlots(c) ==
  /\ \E k \in Slots : pList[k] = NULL
  /\ pList' = [k \in DOMAIN pList |->
                 IF k < nCount /\ pList[k] = NULL THEN c ELSE pList[k]]
  /\ UNCHANGED <<nAlloc, nCount>>

\* The first vacant slot below nCount takes the client.
ReuseSlot(c) ==
  \E k \in Slots :
    /\ pList[k] = NULL
    /\ \A j \in 0 .. k - 1 : pList[j] # NULL
    /\ pList' = [pList EXCEPT ![k] = c]
    /\ UNCHANGED <<nAlloc, nCount>>

\* Without a vacant slot the array grows.
GrowTable(c) ==
  /\ \A k \in Slots : pList[k] # NULL
  /\ AppendSlot(c)

AddClient ==
  /\ Running
  /\ pc = "add"
  /\ ~AssertFires
  /\ ReuseSlot(arriving) \/ GrowTable(arriving)
  /\ arriving' = NULL
  /\ pc' = "wait"
  /\ UNCHANGED <<life, wants, i, max, bIdle, debug, phase>>

-----------------------------------------------------------------------------
(* The server thread walking the table, under the Server lock throughout.  *)

OnIdle ==
  /\ Running
  /\ pc = "wait"
  /\ ~AssertFires
  /\ pc' = "slot"
  /\ i' = 0
  /\ max' = 0
  /\ bIdle' = TRUE
  /\ UNCHANGED <<life, wants, table, arriving, debug, phase>>

\* Mutant of NextSlot: leave the pass once one client has been served.
NextPassAfterQuery ==
  pc' = "slot" /\ i' = IF pc = "run" THEN nCount ELSE i + 1

NextSlot == pc' = "slot" /\ i' = i + 1

AtSlot == Running /\ pc = "slot" /\ i < nCount

\* Mutant of IsClosed: give up on a client that has not asked for a file yet.
IsClosedOrSilent(c) == life[c] = "closed" \/ ~wants[c]

IsClosed(c) == life[c] = "closed"

\* Mutant of VacateSlot: the deleted client's pointer stays in its slot.
KeepSlot == pList' = pList

VacateSlot == pList' = [pList EXCEPT ![i] = NULL]

SkipVacant ==
  /\ AtSlot
  /\ pList[i] = NULL
  /\ NextSlot
  /\ UNCHANGED <<life, wants, table, max, bIdle, arriving, debug, phase>>

DeleteClosed ==
  /\ AtSlot
  /\ pList[i] # NULL
  /\ IsClosed(pList[i])
  /\ life' = [life EXCEPT ![pList[i]] = "free"]
  /\ VacateSlot
  /\ NextSlot
  /\ UNCHANGED <<wants, nAlloc, nCount, max, bIdle, arriving, debug, phase>>

FindOpen ==
  /\ AtSlot
  /\ pList[i] # NULL
  /\ ~IsClosed(pList[i])
  /\ pc' = "ask"
  /\ UNCHANGED <<life, wants, table, i, max, bIdle, arriving, debug, phase>>

\* QueryData, some time after IsClosed: the client may have closed meanwhile.
QueryData ==
  /\ Running
  /\ pc = "ask"
  /\ IF wants[pList[i]] THEN pc' = "run" /\ UNCHANGED i ELSE NextSlot
  /\ UNCHANGED <<life, wants, table, max, bIdle, arriving, debug, phase>>

\* RunQuery has no chunk to give, or has one that QueryResult sends: one of null
\* data (QueryPath), which both functions assert against.
RunQuery ==
  /\ Running
  /\ pc = "run"
  /\ \E found \in BOOLEAN : (debug => ~found) /\ bIdle' = (bIdle /\ ~found)
  /\ NextSlot
  /\ UNCHANGED <<life, wants, table, max, arriving, debug, phase>>

\* In any build its search of the file list may end the process (QueryPath).
RunQueryCrashes ==
  /\ Running
  /\ pc = "run"
  /\ phase' = "aborted"
  /\ UNCHANGED <<life, wants, table, loop, arriving, debug>>

\* The Network's lock is never let go again.
RunQueryHangs ==
  /\ Running
  /\ pc = "run"
  /\ pc' = "stuck"
  /\ UNCHANGED <<life, wants, table, i, max, bIdle, arriving, debug, phase>>

\* Mutant of TrimmedCount: the count shrinks whether or not a slot is vacant.
ShrunkCount == nCount - 1

\* One trailing vacant slot, at most, is given back at the end of a pass.
TrimmedCount ==
  IF nCount > 0 /\ pList[nCount - 1] = NULL THEN nCount - 1 ELSE nCount

\* Mutant of PassCount: the passes are not counted.
PassCountForgotten == max

PassCount == max + 1

\* The loop ends after an idle pass or after MaxPasses + 1 of them.
LoopEnds == bIdle \/ PassCount > MaxPasses

EndPass ==
  /\ Running
  /\ pc = "slot"
  /\ i >= nCount
  /\ nCount' = TrimmedCount
  /\ i' = 0
  /\ bIdle' = TRUE
  /\ pc' = IF LoopEnds THEN "wait" ELSE "slot"
  /\ max' = IF LoopEnds THEN 0 ELSE PassCount
  /\ UNCHANGED <<life, wants, pList, nAlloc, arriving, debug, phase>>

-----------------------------------------------------------------------------
(* The client threads, the main thread and a failing assertion.            *)

ClientCloses(c) ==
  /\ Running
  /\ life[c] = "open"
  /\ life' = [life EXCEPT ![c] = "closed"]
  /\ UNCHANGED <<wants, table, loop, arriving, debug, phase>>

ClientAsks(c) ==
  /\ Running
  /\ life[c] = "open"
  /\ ~wants[c]
  /\ wants' = [wants EXCEPT ![c] = TRUE]
  /\ UNCHANGED <<life, table, loop, arriving, debug, phase>>

LockFree == pc \in {"wait", "add"}

\* `delete _pServer` of the main thread: the body of ~Server needs the lock.
Shutdown ==
  /\ Running
  /\ LockFree
  /\ ~AssertFires
  /\ life' = [c \in Clients |->
                IF \E k \in Slots : pList[k] = c THEN "free" ELSE life[c]]
  /\ nAlloc' = 0
  /\ nCount' = 0
  /\ pList' = [k \in {} |-> NULL]
  /\ i' = 0
  /\ phase' = "down"
  /\ UNCHANGED <<wants, pc, max, bIdle, arriving, debug>>

\* A failing assertion of OnIdle, AddClient or ~Server.
Abort ==
  /\ Running
  /\ LockFree
  /\ AssertFires
  /\ phase' = "aborted"
  /\ UNCHANGED <<life, wants, table, loop, arriving, debug>>

Query == RunQuery \/ RunQueryCrashes \/ RunQueryHangs

Pass == SkipVacant \/ DeleteClosed \/ FindOpen \/ QueryData \/ Query \/ EndPass

ServerThread == AddClient \/ OnIdle \/ Pass \/ Abort

Next ==
  \/ ServerThread
  \/ \E c \in Clients : OnAccept(c) \/ ClientCloses(c) \/ ClientAsks(c)
  \/ Shutdown

\* The DevPlus server thread never stops calling its object: OnIdle when there
\* is nothing to accept, and each callback runs to its end unless RunQuery hangs.
\* Nothing obliges a peer to connect or to close, or the operator to stop the
\* daemon.
Safety == Init /\ [][Next]_vars

Spec == Safety /\ WF_vars(ServerThread)

-----------------------------------------------------------------------------
(* Properties.                                                             *)

\* Every client object that exists is reachable: it is the one OnAccept holds
\* or it sits in exactly one slot below nCount. No slot holds a deleted
\* client, and what lies beyond nCount, which nobody visits, is vacant.
\* (AddClient's reuse of slots against the deletes and the shrinking count
\* of ProcessClients, server.cpp:189-243 and 270-283.)
NoClientLost ==
  /\ \A c \in Clients :
       life[c] # "free" <=> c = arriving \/ \E k \in Slots : pList[k] = c
  /\ \A j, k \in Slots : pList[j] = pList[k] /\ pList[j] # NULL => j = k
  /\ \A k \in nCount .. nAlloc - 1 : pList[k] = NULL

\* The server thread is at the client of slot i, be it stuck in RunQuery for it.
Visiting == pc \in {"ask", "run", "stuck"}

\* The server thread calls QueryData and QueryResult only on a client that
\* has not been deleted, although the client may close at any moment between
\* the IsClosed test and those calls (server.cpp:191-223).
NoUseAfterDelete ==
  Visiting /\ Running =>
    /\ i < nCount
    /\ pList[i] \in Clients
    /\ life[pList[i]] # "free"

\* The server thread never comes back from RunQuery.
Stuck == pc = "stuck"

\* A client that waits for a chunk is asked for, however many others come and
\* go, or it closes, or the daemon stops, or the server thread is stuck behind
\* the network thread (server.cpp:156-167: "it will ask again the next time").
WaitingClientServed ==
  \A c \in Clients :
    (life[c] = "open" /\ wants[c]) ~>
      (life[c] # "open" \/ ~Running \/ Stuck \/ (pc = "run" /\ pList[i] = c))

\* ProcessClients returns, even when every pass found data to send, unless it is
\* stuck behind the network thread (server.cpp:245-251: new sockets must get
\* their turn).
AcceptGetsItsTurn == []<>(pc = "wait" \/ ~Running \/ Stuck)

\* The array is never longer than the number of clients that can be alive at
\* once: vacant slots are reused before it grows, so a daemon that runs for
\* months does not grow it with every connection (server.cpp:270-283).
TableBounded == nAlloc <= Cardinality(Clients)

\* What the server can reach through its slots and OnAccept's local variable,
\* and the client whose methods the walk is calling.
Owned == {c \in Clients : c = arriving \/ \E k \in Slots : pList[k] = c}

Serving == IF Visiting THEN pList[i] ELSE NULL

\* The slot table keeps the promise of ClientPool: a client is deleted only
\* after it has closed and never while it is served, and a closed one is
\* deleted sooner or later, as long as RunQuery returns (server.cpp:189-243).
Pool == INSTANCE ClientPool WITH
  owned <- Owned, serving <- Serving, hung <- Stuck, stopped <- ~Running

ImplementsPool == Pool!Spec
=============================================================================
