------------------------- MODULE ClientTableProofs -------------------------
(* Theorems about ClientTable: its invariants hold for every finite set of  *)
(* client addresses and every bound on the passes, and it implements the    *)
(* safety part of ClientPool.                                               *)
EXTENDS ClientTable, FiniteSetTheorems, TLAPS

\* Where the server thread stands determines what its local variables hold.
Places ==
  /\ pc = "add" <=> arriving # NULL
  /\ arriving # NULL => \A k \in Slots : pList[k] # arriving
  /\ Visiting => i < nCount /\ pList[i] # NULL

IInv == TypeOK /\ NoClientLost /\ Places

USE DEF Visiting

LEMMA InitIInv == Init => IInv
  BY ClientsAssumption, PassesAssumption
  DEF Init, IInv, TypeOK, NoClientLost, Places, Slots

LEMMA AcceptIInv == ASSUME IInv, NEW c \in Clients, OnAccept(c) PROVE IInv'
  <1> USE ClientsAssumption DEF OnAccept, IInv, Slots, table
  <1>1. TypeOK'
    BY DEF TypeOK
  <1>2. NoClientLost'
    BY DEF TypeOK, NoClientLost, Places
  <1>3. Places'
    BY DEF TypeOK, NoClientLost, Places
  <1> QED BY <1>1, <1>2, <1>3

LEMMA AddIInv == ASSUME IInv, AddClient PROVE IInv'
  <1> USE ClientsAssumption, PassesAssumption
  <1>1. arriving \in Clients
    BY DEF AddClient, IInv, TypeOK, Places
  <1>2. CASE ReuseSlot(arriving)
    <2>1. PICK k \in Slots : /\ pList[k] = NULL
                             /\ pList' = [pList EXCEPT ![k] = arriving]
                             /\ UNCHANGED <<nAlloc, nCount>>
      BY <1>2 DEF ReuseSlot
    <2> USE <1>1, <2>1 DEF AddClient, IInv, Slots
    <2>2. TypeOK'
      BY DEF TypeOK
    <2>3. \A j \in Slots : pList'[j] = IF j = k THEN arriving ELSE pList[j]
      BY DEF TypeOK
    <2>4. NoClientLost'
      BY <2>3 DEF TypeOK, NoClientLost, Places
    <2>5. Places'
      BY DEF Places
    <2> QED BY <2>2, <2>4, <2>5
  <1>3. CASE GrowTable(arriving)
    <2> USE <1>1, <1>3 DEF AddClient, GrowTable, AppendSlot, IInv, Slots
    <2>1. TypeOK'
      BY DEF TypeOK
    <2>2. \A j \in 0 .. nCount :
             pList'[j] = IF j < nCount THEN pList[j] ELSE arriving
      BY DEF TypeOK
    <2>3. NoClientLost'
      BY <2>2 DEF TypeOK, NoClientLost, Places
    <2>4. Places'
      BY DEF Places
    <2> QED BY <2>1, <2>3, <2>4
  <1> QED BY <1>2, <1>3 DEF AddClient

LEMMA DeleteIInv == ASSUME IInv, DeleteClosed PROVE IInv'
  <1> USE ClientsAssumption, PassesAssumption
      DEF DeleteClosed, IsClosed, VacateSlot, AtSlot, NextSlot, IInv, Slots
  <1>1. i \in Slots /\ pList[i] \in Clients
    BY DEF TypeOK
  <1>2. TypeOK'
    BY <1>1 DEF TypeOK
  <1>3. \A j \in Slots : pList'[j] = IF j = i THEN NULL ELSE pList[j]
    BY DEF TypeOK
  <1>4. NoClientLost'
    <2>1. \A c \in Clients : c # pList[i] => life'[c] = life[c]
      BY <1>1 DEF TypeOK
    <2>2. life'[pList[i]] = "free"
      BY <1>1 DEF TypeOK
    <2>3. arriving # pList[i]
      BY <1>1 DEF Places
    <2>4. \A k \in nCount .. nAlloc - 1 : pList'[k] = NULL
      BY <1>1 DEF TypeOK, NoClientLost
    <2> QED
      BY <1>1, <1>3, <2>1, <2>2, <2>3, <2>4 DEF NoClientLost
  <1>5. Places'
    BY <1>1, <1>3 DEF Places
  <1> QED BY <1>2, <1>4, <1>5

LEMMA WalkIInv ==
  ASSUME IInv, OnIdle \/ SkipVacant \/ FindOpen \/ QueryData \/ Query
  PROVE  IInv'
  <1> USE ClientsAssumption, PassesAssumption
      DEF OnIdle, SkipVacant, FindOpen, QueryData, IsClosed, AtSlot, NextSlot,
          table, IInv, Slots
  <1>1. CASE OnIdle
    BY <1>1 DEF TypeOK, NoClientLost, Places
  <1>2. CASE SkipVacant
    BY <1>2 DEF TypeOK, NoClientLost, Places
  <1>3. CASE FindOpen
    BY <1>3 DEF TypeOK, NoClientLost, Places
  <1>4. CASE QueryData
    <2>1. CASE wants[pList[i]]
      BY <1>4, <2>1 DEF TypeOK, NoClientLost, Places
    <2>2. CASE ~wants[pList[i]]
      BY <1>4, <2>2 DEF TypeOK, NoClientLost, Places
    <2> QED BY <2>1, <2>2
  <1>5. CASE RunQuery
    BY <1>5 DEF RunQuery, TypeOK, NoClientLost, Places
  <1>6. CASE RunQueryCrashes
    BY <1>6 DEF RunQueryCrashes, loop, TypeOK, NoClientLost, Places
  <1>7. CASE RunQueryHangs
    BY <1>7 DEF RunQueryHangs, TypeOK, NoClientLost, Places
  <1> QED BY <1>1, <1>2, <1>3, <1>4, <1>5, <1>6, <1>7 DEF Query

LEMMA EndPassIInv == ASSUME IInv, EndPass PROVE IInv'
  <1> USE ClientsAssumption, PassesAssumption
      DEF EndPass, TrimmedCount, LoopEnds, PassCount, IInv, Slots
  <1>1. TypeOK'
    BY DEF TypeOK
  <1>2. NoClientLost'
    BY DEF TypeOK, NoClientLost
  <1>3. Places'
    BY DEF TypeOK, Places
  <1> QED BY <1>1, <1>2, <1>3

LEMMA ClientIInv ==
  ASSUME IInv, NEW c \in Clients, ClientCloses(c) \/ ClientAsks(c)
  PROVE  IInv'
  <1> USE ClientsAssumption DEF ClientCloses, ClientAsks, table, loop, IInv, Slots
  <1>1. TypeOK'
    BY DEF TypeOK
  <1>2. UNCHANGED <<pc, i, table, arriving>>
    OBVIOUS
  <1>3. NoClientLost'
    <2>1. \A d \in Clients : (life'[d] # "free") = (life[d] # "free")
      BY DEF TypeOK
    <2> QED BY <1>2, <2>1 DEF NoClientLost
  <1>4. Places'
    BY <1>2 DEF Places
  <1> QED BY <1>1, <1>3, <1>4

LEMMA StopIInv == ASSUME IInv, Shutdown \/ Abort PROVE IInv'
  <1>1. CASE Shutdown
    <2> USE <1>1, ClientsAssumption DEF Shutdown, LockFree, IInv, Slots
    <2>1. TypeOK'
      BY DEF TypeOK
    <2>2. NoClientLost'
      BY DEF TypeOK, NoClientLost, Places
    <2>3. Places'
      BY DEF Places
    <2> QED BY <2>1, <2>2, <2>3
  <1>2. CASE Abort
    BY <1>2 DEF Abort, table, loop, IInv, Slots, TypeOK, NoClientLost, Places
  <1> QED BY <1>1, <1>2

LEMMA NextIInv == IInv /\ [Next]_vars => IInv'
  <1> SUFFICES ASSUME IInv, [Next]_vars PROVE IInv'
    OBVIOUS
  <1>1. CASE UNCHANGED vars
    BY <1>1 DEF vars, table, loop, IInv, Slots, TypeOK, NoClientLost, Places
  <1>2. CASE Next
    BY <1>2, AcceptIInv, AddIInv, DeleteIInv, WalkIInv, EndPassIInv, ClientIInv,
       StopIInv DEF Next, ServerThread, Pass
  <1> QED BY <1>1, <1>2

\* The inductive invariant holds in every state of the specification.
THEOREM Inductive == Spec => []IInv
  BY InitIInv, NextIInv, PTL DEF Spec, Safety

\* Every variable keeps its type; in particular i and nCount never leave the
\* allocated part of pList.
THEOREM TypeCorrect == Spec => []TypeOK
  BY Inductive, PTL DEF IInv

\* No client object is lost, held twice or left dangling in the table, for
\* every number of clients.
THEOREM NothingLost == Spec => []NoClientLost
  BY Inductive, PTL DEF IInv

\* The server thread never calls a method of a deleted client.
THEOREM NoDanglingCall == Spec => []NoUseAfterDelete
  <1>1. IInv => NoUseAfterDelete
    BY ClientsAssumption
    DEF IInv, TypeOK, NoClientLost, Places, NoUseAfterDelete, Slots
  <1> QED BY <1>1, Inductive, PTL
-----------------------------------------------------------------------------
(* The array stays within the number of client addresses: when it grows,    *)
(* every slot and the newcomer are different clients.                       *)

LEMMA NextBounded == IInv /\ TableBounded /\ [Next]_vars => TableBounded'
  <1> SUFFICES ASSUME IInv, TableBounded, [Next]_vars PROVE TableBounded'
    OBVIOUS
  <1>1. Cardinality(Clients) \in Nat
    BY FS_CardinalityType, ClientsAssumption
  <1>2. CASE AddClient /\ GrowTable(arriving)
    <2>1. nCount \in Nat /\ nAlloc' = nCount + 1 /\ nCount' = nCount + 1
      BY <1>2 DEF GrowTable, AppendSlot, IInv, TypeOK
    <2>2. pList' \in [0 .. nCount -> Clients]
      BY <1>2, ClientsAssumption
      DEF GrowTable, AppendSlot, AddClient, IInv, TypeOK, Places, Slots
    <2>3. \A j, k \in 0 .. nCount : pList'[j] = pList'[k] => j = k
      <3>1. NoClientLost'
        BY <1>2, AddIInv DEF IInv
      <3> QED BY <2>1, <2>2, <3>1, ClientsAssumption DEF NoClientLost, Slots
    <2>4. IsFiniteSet(0 .. nCount) /\ Cardinality(0 .. nCount) = nCount + 1
      BY <2>1, FS_Interval
    <2>5. ~(Cardinality(Clients) < Cardinality(0 .. nCount))
      <3> DEFINE f == pList'
      <3>1. f \in [0 .. nCount -> Clients]
        BY <2>2
      <3>2. \A j, k \in 0 .. nCount : f[j] = f[k] => j = k
        BY <2>3
      <3> HIDE DEF f
      <3>3. SUFFICES ASSUME Cardinality(Clients) < Cardinality(0 .. nCount)
                     PROVE  FALSE
        OBVIOUS
      <3>4. \E x, y \in 0 .. nCount : x # y /\ f[x] = f[y]
        BY <2>4, <3>1, <3>3, FS_PigeonHole, ClientsAssumption
      <3> QED BY <3>2, <3>4
    <2> QED BY <1>1, <2>1, <2>4, <2>5 DEF TableBounded
  <1>3. CASE Shutdown
    BY <1>1, <1>3 DEF Shutdown, TableBounded
  <1>4. CASE nAlloc' = nAlloc
    BY <1>4 DEF TableBounded
  <1>5. (AddClient /\ GrowTable(arriving)) \/ Shutdown \/ nAlloc' = nAlloc
    BY DEF Next, ServerThread, Pass, vars, table, AddClient, ReuseSlot, OnIdle,
           SkipVacant, DeleteClosed, FindOpen, QueryData, Query, RunQuery,
           RunQueryCrashes, RunQueryHangs, EndPass, Abort, OnAccept, ClientCloses,
           ClientAsks
  <1> QED BY <1>2, <1>3, <1>4, <1>5

\* However many connections come and go, the array never has more slots than
\* there can be clients alive at once.
THEOREM Bounded == Spec => []TableBounded
  <1>1. Init => TableBounded
    BY FS_CardinalityType, ClientsAssumption DEF Init, TableBounded
  <1> QED BY <1>1, Inductive, NextBounded, PTL DEF Spec, Safety

-----------------------------------------------------------------------------
(* The table implements the pool.                                           *)

USE DEF Stuck, Pool!Working

LEMMA InitPool == Init => Pool!Init
  BY ClientsAssumption DEF Init, Pool!Init, Owned, Serving, Slots, Running

LEMMA AcceptPool ==
  ASSUME IInv, NEW c \in Clients, OnAccept(c) PROVE Pool!Admit(c)
  BY ClientsAssumption
  DEF OnAccept, Pool!Admit, IInv, TypeOK, Places, Owned, Serving, Slots, Running,
      table

LEMMA AddPool == ASSUME IInv, AddClient PROVE UNCHANGED Pool!vars
  <1>1. IInv'
    BY AddIInv
  <1>2. UNCHANGED Owned
    BY <1>1 DEF IInv, NoClientLost, AddClient, Owned
  <1> QED
    BY <1>2 DEF AddClient, Pool!vars, Serving, Running

LEMMA DeletePool ==
  ASSUME IInv, DeleteClosed PROVE Pool!Reap(pList[i])
  <1>1. IInv'
    BY DeleteIInv
  <1>2. pList[i] \in Clients /\ i \in Slots
    BY DEF DeleteClosed, IsClosed, VacateSlot, AtSlot, IInv, TypeOK, Slots
  <1>3. Owned' = Owned \ {pList[i]}
    BY <1>1, <1>2 DEF IInv, TypeOK, NoClientLost, DeleteClosed, Owned
  <1>4. pList[i] \in Owned /\ Serving = NULL /\ Serving' = NULL
    BY <1>2 DEF Owned, Serving, DeleteClosed, IsClosed, VacateSlot, AtSlot, NextSlot
  <1> QED
    BY <1>2, <1>3, <1>4, ClientsAssumption
    DEF DeleteClosed, IsClosed, VacateSlot, AtSlot, NextSlot, Pool!Reap, Running

\* A failing assertion or lookup stops the pool without deleting a client.
LEMMA StopsKeepingAll ==
  ASSUME IInv, UNCHANGED <<life, Owned, Serving, Stuck>>, Running, ~Running', ~Stuck
  PROVE  Pool!Stop
  <1>1. {} \in SUBSET (Owned \ {Serving}) /\ Owned' = Owned \ {}
    OBVIOUS
  <1>2. life' = [c \in Clients |-> IF c \in {} THEN "free" ELSE life[c]]
    BY DEF IInv, TypeOK
  <1> QED BY <1>1, <1>2 DEF Pool!Stop, Pool!Working

LEMMA WalkPool ==
  ASSUME IInv, OnIdle \/ SkipVacant \/ FindOpen \/ QueryData \/ Query
  PROVE  [Pool!Next]_(Pool!vars)
  <1> USE ClientsAssumption
  <1>1. OnIdle \/ SkipVacant \/ FindOpen \/ QueryData => UNCHANGED <<life, Owned, phase>>
    BY DEF OnIdle, SkipVacant, FindOpen, QueryData, table, Owned, Slots
  <1>2. CASE OnIdle \/ SkipVacant
    BY <1>1, <1>2 DEF OnIdle, SkipVacant, AtSlot, NextSlot, Serving, Running,
       Pool!vars
  <1>3. CASE FindOpen
    <2>1. pList[i] \in Clients /\ i \in Slots
      BY <1>3 DEF FindOpen, IsClosed, AtSlot, IInv, TypeOK, Slots
    <2>2. Pool!Serve(pList[i])
      BY <1>1, <1>3, <2>1 DEF FindOpen, IsClosed, AtSlot, Serving, Running, Pool!Serve,
         Owned, table
    <2> QED BY <2>1, <2>2 DEF Pool!Next
  <1>4. CASE QueryData
    <2>1. CASE wants[pList[i]]
      BY <1>1, <1>4, <2>1 DEF QueryData, Serving, Running, Pool!vars, table
    <2>2. CASE ~wants[pList[i]]
      <3>1. Pool!Served
        BY <1>1, <1>4, <2>2 DEF QueryData, NextSlot, Serving, Running,
           Pool!Served, IInv, Places
      <3> QED BY <3>1 DEF Pool!Next
    <2> QED BY <2>1, <2>2
  <1>5. CASE RunQuery
    <2>1. Pool!Served
      BY <1>5 DEF RunQuery, Owned, Slots, table, NextSlot, Serving, Running, Pool!Served, IInv,
         Places
    <2> QED BY <2>1 DEF Pool!Next
  <1>6. CASE RunQueryCrashes
    <2>1. UNCHANGED <<life, Owned, Serving, Stuck>> /\ Running /\ ~Running' /\ ~Stuck
      BY <1>6 DEF RunQueryCrashes, table, loop, Owned, Slots, Serving, Running, Stuck
    <2>2. Pool!Stop
      BY <2>1, StopsKeepingAll
    <2> QED BY <2>2 DEF Pool!Next
  <1>7. CASE RunQueryHangs
    <2>1. Pool!Hang
      BY <1>7 DEF RunQueryHangs, table, Owned, Slots, Serving, Running, Stuck,
         Pool!Hang, Pool!Working, IInv, Places
    <2> QED BY <2>1 DEF Pool!Next
  <1> QED BY <1>2, <1>3, <1>4, <1>5, <1>6, <1>7 DEF Query

LEMMA EndPassPool == ASSUME IInv, EndPass PROVE UNCHANGED Pool!vars
  <1>1. IInv'
    BY EndPassIInv
  <1>2. UNCHANGED Owned
    BY <1>1 DEF IInv, NoClientLost, EndPass, Owned
  <1> QED
    BY <1>2 DEF EndPass, LoopEnds, PassCount, Pool!vars, Serving, Running

LEMMA StopPool == ASSUME IInv, Shutdown \/ Abort PROVE Pool!Stop
  <1>1. CASE Shutdown
    <2> DEFINE gone == {c \in Clients : \E k \in Slots : pList[k] = c}
    <2>1. gone \in SUBSET (Owned \ {Serving})
      BY <1>1, ClientsAssumption DEF Owned, Serving, Shutdown, LockFree
    <2>2. Owned' = Owned \ gone
      <3>1. Slots' = {} /\ arriving' = arriving
        BY <1>1 DEF Shutdown, Slots
      <3>2. Owned' = {c \in Clients : c = arriving}
        BY <3>1 DEF Owned
      <3>3. \A c \in Clients : c = arriving => c \notin gone
        BY ClientsAssumption DEF IInv, Places
      <3> QED BY <3>2, <3>3 DEF Owned
    <2>3. life' = [c \in Clients |-> IF c \in gone THEN "free" ELSE life[c]]
      BY <1>1 DEF Shutdown
    <2>4. UNCHANGED <<Serving, Stuck>> /\ ~Stuck /\ Running /\ ~Running'
      BY <1>1 DEF Shutdown, LockFree, Serving, Running
    <2> HIDE DEF gone
    <2> QED BY <2>1, <2>2, <2>3, <2>4 DEF Pool!Stop
  <1>2. CASE Abort
    BY <1>2, StopsKeepingAll
    DEF Abort, LockFree, table, loop, Owned, Slots, Serving, Running, Stuck
  <1> QED BY <1>1, <1>2

LEMMA NextPool == IInv /\ [Next]_vars => [Pool!Next]_(Pool!vars)
  <1> SUFFICES ASSUME IInv, [Next]_vars PROVE [Pool!Next]_(Pool!vars)
    OBVIOUS
  <1>1. CASE UNCHANGED vars
    BY <1>1 DEF vars, table, loop, Pool!vars, Owned, Slots, Serving, Running
  <1>2. CASE \E c \in Clients : OnAccept(c)
    BY <1>2, AcceptPool DEF Pool!Next
  <1>3. CASE \E c \in Clients : ClientCloses(c)
    BY <1>3 DEF ClientCloses, Pool!Next, Pool!Leave, table, loop, Owned, Slots,
       Serving, Running
  <1>4. CASE \E c \in Clients : ClientAsks(c)
    BY <1>4 DEF ClientAsks, table, loop, Pool!vars, Owned, Slots, Serving, Running
  <1>5. CASE DeleteClosed
    <2>1. pList[i] \in Clients
      BY <1>5 DEF DeleteClosed, IsClosed, VacateSlot, AtSlot, IInv, TypeOK, Slots
    <2> QED BY <1>5, <2>1, DeletePool DEF Pool!Next
  <1>6. CASE AddClient \/ EndPass
    BY <1>6, AddPool, EndPassPool
  <1>7. CASE OnIdle \/ SkipVacant \/ FindOpen \/ QueryData \/ Query
    BY <1>7, WalkPool
  <1>8. CASE Shutdown \/ Abort
    BY <1>8, StopPool DEF Pool!Next
  <1> QED
    BY <1>1, <1>2, <1>3, <1>4, <1>5, <1>6, <1>7, <1>8 DEF Next, ServerThread, Pass

\* The slot table implements ClientPool: every step is a step of the pool or
\* leaves it as it is. (That a closed client is eventually deleted is the
\* fairness part of Pool!Spec, which only the model checker establishes.)
THEOREM Implements == Spec => Pool!Safety
  BY InitPool, Inductive, NextPool, PTL DEF Spec, Safety, Pool!Safety
-----------------------------------------------------------------------------
(* A call of ProcessClients ends: the state it leaves no way around.        *)

\* The walk visits slot i, then asks its client, then serves it.
Deeper ==
  /\ UNCHANGED <<i, max, nCount>>
  /\ \/ pc = "slot" /\ pc' = "ask"
     \/ pc = "ask" /\ pc' = "run"
     \/ pc = "run" /\ pc' = "stuck"

Onward == i < nCount /\ i' = i + 1 /\ pc' = "slot" /\ UNCHANGED <<max, nCount>>

PassOver ==
  /\ i = nCount
  /\ \/ pc' = "slot" /\ i' = 0 /\ max' = max + 1 /\ max' <= MaxPasses /\ nCount' <= nCount
     \/ pc' = "wait"

PassStep ==
  pc \in {"slot", "ask", "run"} /\ Running' =>
    IF ServerThread THEN Deeper \/ Onward \/ PassOver
    ELSE UNCHANGED <<pc, i, max, nCount>>

LEMMA PassStepHolds == IInv /\ [Next]_vars => [PassStep]_vars
  <1> SUFFICES ASSUME IInv, Next, pc \in {"slot", "ask", "run"}, Running'
               PROVE  IF ServerThread THEN Deeper \/ Onward \/ PassOver
                      ELSE UNCHANGED <<pc, i, max, nCount>>
    BY DEF PassStep
  <1>1. CASE SkipVacant \/ DeleteClosed
    <2>1. Onward
      BY <1>1 DEF SkipVacant, DeleteClosed, AtSlot, NextSlot, table, Onward
    <2> QED
      BY <1>1, <2>1 DEF ServerThread, Pass
  <1>2. CASE FindOpen
    <2>1. Deeper
      BY <1>2 DEF FindOpen, AtSlot, table, Deeper
    <2> QED
      BY <1>2, <2>1 DEF ServerThread, Pass
  <1>3. CASE QueryData \/ RunQuery \/ RunQueryHangs
    <2>1. Deeper \/ Onward
      BY <1>3 DEF QueryData, RunQuery, RunQueryHangs, NextSlot, table, IInv, Places,
         Deeper, Onward
    <2> QED
      BY <1>3, <2>1 DEF ServerThread, Pass, Query
  <1>4. CASE EndPass
    <2>1. i = nCount
      BY <1>4 DEF EndPass, IInv, TypeOK
    <2>2. nCount' <= nCount
      BY <1>4 DEF EndPass, TrimmedCount, IInv, TypeOK
    <2>3. CASE LoopEnds
      BY <1>4, <2>1, <2>3 DEF EndPass, PassOver, ServerThread, Pass
    <2>4. CASE ~LoopEnds
      <3>1. pc' = "slot" /\ i' = 0 /\ max' = PassCount
        BY <1>4, <2>4 DEF EndPass
      <3>2. ~(PassCount > MaxPasses)
        BY <2>4 DEF LoopEnds
      <3>3. max' = max + 1 /\ max' <= MaxPasses
        BY <3>1, <3>2, PassesAssumption DEF PassCount, IInv, TypeOK
      <3> QED
        BY <1>4, <2>1, <2>2, <3>1, <3>3 DEF PassOver, ServerThread, Pass
    <2> QED
      BY <2>3, <2>4
  <1>5. CASE \E c \in Clients : ClientCloses(c) \/ ClientAsks(c)
    <2>1. UNCHANGED <<table, loop>>
      BY <1>5 DEF ClientCloses, ClientAsks
    <2>2. ~ServerThread
      BY <1>5, <2>1 DEF ClientCloses, ClientAsks, ServerThread, Pass, AddClient, OnIdle,
         SkipVacant, DeleteClosed, FindOpen, QueryData, Query, RunQuery, RunQueryCrashes,
         RunQueryHangs, EndPass, Abort, AtSlot, NextSlot, VacateSlot, IsClosed, LockFree,
         LoopEnds, table, loop, IInv, TypeOK
    <2> QED
      BY <2>1, <2>2 DEF table, loop
  <1> QED
    BY <1>1, <1>2, <1>3, <1>4, <1>5
    DEF Next, ServerThread, Pass, Query, OnAccept, AddClient, OnIdle, RunQueryCrashes,
        Shutdown, Abort, LockFree, Running

\* The part of AcceptGetsItsTurn that is not temporal: every step of the
\* server thread inside ProcessClients goes one call further with the client
\* of its slot, or on to the next slot, or, when all are passed, into one of
\* the MaxPasses passes left or back to its caller; the clients' own threads
\* cannot set it back, and the number of slots does not grow meanwhile
\* (server.cpp:189-251).
THEOREM PassesEnd == Spec => [][PassStep]_vars
  BY Inductive, PassStepHolds, PTL DEF Spec, Safety
=============================================================================
