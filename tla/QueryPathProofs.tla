-------------------------- MODULE QueryPathProofs --------------------------
(***************************************************************************)
(* The safety of QueryPath for any clients, nodes and chunk numbers. What   *)
(* has been sent to a client is tied to its chunk number: the server thread *)
(* holds a result for a client only while that number is 0.                 *)
(***************************************************************************)
EXTENDS QueryPath, TLAPS

\* The chunk number of a client tells whether it has been sent the one chunk it
\* can get; a result is held only for one that has not (server.cpp:210-223).
ChunkCounted ==
  alive =>
    /\ \A c \in Clients : nChunk[c] = 0 <=> sent[c] = <<>>
    /\ pClient # NULL => nChunk[pClient] = 0

IInv == TypeOK /\ OneEmptyChunk /\ ChunkCounted

USE NullAssumption, TalkAssumption, ChunkAssumption

\* The first state is one of the invariant.
LEMMA InitSafe == Init => IInv
  <1> SUFFICES ASSUME Init PROVE IInv
    OBVIOUS
  <1>1. TypeOK
    BY DEF Init, TypeOK, Transfers, NoTransfer
  <1> QED
    BY <1>1 DEF Init, IInv, OneEmptyChunk, ChunkCounted

LEMMA NoTransferType == NoTransfer \in Transfers
  BY DEF NoTransfer, Transfers

\* The end of the process.
LEMMA DieSafe == ASSUME IInv, Die PROVE IInv'
  <1>1. TypeOK'
    <2>1. /\ Data' \in [Nodes -> Transfers]
          /\ \A n \in Nodes : Data'[n] = NoTransfer /\ ~request'[n]
      BY NoTransferType DEF Die
    <2>2. sent' \in [Clients -> Seq({NULL})] /\ debug' \in BOOLEAN /\ files' \in Seq(BOOLEAN)
      BY DEF IInv, Die, TypeOK
    <2>3. /\ query' \in [Clients -> BOOLEAN] /\ nChunk' \in [Clients -> Nat]
          /\ request' \in [Nodes -> BOOLEAN]
          /\ life' \in [Nodes -> {"free", "open", "closed"}]
      BY DEF Die
    <2> QED
      BY <2>1, <2>2, <2>3 DEF Die, TypeOK
  <1> QED
    BY <1>1 DEF IInv, Die, OneEmptyChunk, ChunkCounted

-----------------------------------------------------------------------------
(* The client programs and the server thread.                              *)

LEMMA ClientAsksSafe == ASSUME IInv, NEW c \in Clients, ClientAsks(c) PROVE IInv'
  BY DEF IInv, ClientAsks, TypeOK, OneEmptyChunk, ChunkCounted, nodes, network

LEMMA ClientLeavesSafe == ASSUME IInv, NEW c \in Clients, ClientLeaves(c) PROVE IInv'
  <1>1. TypeOK'
    BY DEF IInv, ClientLeaves, TypeOK, nodes, network
  <1>3. OneEmptyChunk' /\ ChunkCounted'
    BY DEF IInv, TypeOK, ClientLeaves, OneEmptyChunk, ChunkCounted
  <1> QED
    BY <1>1, <1>3 DEF IInv

\* Adding a file to the list.
LEMMA AddedSafe ==
  ASSUME TypeOK, NEW b \in BOOLEAN
  PROVE  Added(b) \in Seq(BOOLEAN)
  BY DEF TypeOK, Added

LEMMA RunQueryLocalSafe == ASSUME IInv, NEW c \in Clients, RunQueryLocal(c) PROVE IInv'
  <1>1. files' \in Seq(BOOLEAN)
    BY AddedSafe DEF IInv, RunQueryLocal
  <1>2. pClient' \in Clients \cup {NULL} /\ (pClient' # NULL => nChunk[pClient'] = 0)
    BY DEF IInv, TypeOK, RunQueryLocal, HasChunk
  <1>3. TypeOK'
    BY <1>1, <1>2 DEF IInv, RunQueryLocal, TypeOK, clients, nodes, network
  <1>5. OneEmptyChunk' /\ ChunkCounted'
    BY <1>2 DEF IInv, RunQueryLocal, Queries, OneEmptyChunk, ChunkCounted, clients
  <1> QED
    BY <1>3, <1>5 DEF IInv

LEMMA RunQueryRemoteSafe == ASSUME IInv, NEW c \in Clients, RunQueryRemote(c) PROVE IInv'
  <1>1. files' \in Seq(BOOLEAN)
    BY AddedSafe DEF IInv, RunQueryRemote
  <1>2. TypeOK'
    BY <1>1 DEF IInv, RunQueryRemote, TypeOK, clients, nodes, network
  <1>4. OneEmptyChunk' /\ ChunkCounted'
    BY DEF IInv, RunQueryRemote, OneEmptyChunk, ChunkCounted, clients
  <1> QED
    BY <1>2, <1>4 DEF IInv

LEMMA QueryResultSafe == ASSUME IInv, QueryResult PROVE IInv'
  <1>1. pClient \in Clients /\ nChunk[pClient] = 0 /\ sent[pClient] = <<>>
    BY DEF IInv, TypeOK, QueryResult, ChunkCounted
  <1>2. /\ nChunk' = [nChunk EXCEPT ![pClient] = 1]
        /\ sent' = [sent EXCEPT ![pClient] = <<NULL>>]
    BY <1>1 DEF QueryResult, ChunkData, IInv, TypeOK
  <1>3. TypeOK'
    BY <1>1, <1>2 DEF IInv, QueryResult, TypeOK, nodes, network
  <1>5. OneEmptyChunk' /\ ChunkCounted'
    BY <1>1, <1>2 DEF IInv, TypeOK, QueryResult, OneEmptyChunk, ChunkCounted
  <1> QED
    BY <1>3, <1>5 DEF IInv

LEMMA ServerThreadSafe == ASSUME IInv, ServerThread PROVE IInv'
  <1>1. ASSUME NEW c \in Clients, RunQueryCrashes(c) PROVE IInv'
    BY <1>1, DieSafe DEF RunQueryCrashes
  <1> QED
    BY <1>1, RunQueryLocalSafe, RunQueryRemoteSafe, QueryResultSafe DEF ServerThread

-----------------------------------------------------------------------------
(* The network thread.                                                     *)

\* What sends nothing to a client need only be well typed.
LEMMA Elsewhere ==
  ASSUME IInv, TypeOK', UNCHANGED <<alive, clients, pClient>>
  PROVE  IInv'
  BY DEF IInv, OneEmptyChunk, ChunkCounted, clients

LEMMA OnAcceptSafe == ASSUME IInv, NEW n \in Nodes, OnAccept(n) PROVE IInv'
  <1>1. TypeOK'
    BY DEF IInv, OnAccept, TypeOK, clients, network
  <1> QED
    BY <1>1, Elsewhere DEF OnAccept

LEMMA StartPassSafe == ASSUME IInv, StartPass PROVE IInv'
  <1>1. TypeOK'
    BY DEF IInv, StartPass, TypeOK, clients, nodes, Listed
  <1> QED
    BY <1>1, Elsewhere DEF StartPass

LEMMA VisitSafe == ASSUME IInv, NEW n \in Nodes, Visit(n) PROVE IInv'
  <1>1. CASE TransferCrashes(Data[n])
    BY <1>1, DieSafe DEF Visit
  <1>2. CASE ~TransferCrashes(Data[n])
    <2>1. TypeOK'
      BY <1>2 DEF IInv, Visit, TypeOK, clients, nodes
    <2> QED
      BY <1>2, <2>1, Elsewhere DEF Visit
  <1> QED
    BY <1>1, <1>2

LEMMA RequestsSafe ==
  ASSUME IInv, NoRequest \/ RequestCrashes \/ RelayRequest
  PROVE  IInv'
  <1>1. CASE NoRequest
    <2>1. TypeOK'
      BY <1>1 DEF IInv, NoRequest, TypeOK, clients, nodes
    <2> QED
      BY <1>1, <2>1, Elsewhere DEF NoRequest
  <1>2. CASE RequestCrashes
    BY <1>2, DieSafe DEF RequestCrashes
  <1>3. CASE RelayRequest
    <2>1. files' = files \/ files' \in Seq(BOOLEAN)
      <3>1. ~AddAsserts => Added(TRUE) \in Seq(BOOLEAN)
        BY <1>3, AddedSafe DEF IInv, RelayRequest
      <3> QED
        BY <1>3, <3>1 DEF RelayRequest
    <2>2. TypeOK'
      BY <1>3, <2>1 DEF IInv, RelayRequest, TypeOK, clients
    <2> QED
      BY <1>3, <2>1, <2>2, Elsewhere DEF RelayRequest
  <1> QED
    BY <1>1, <1>2, <1>3

LEMMA LocalFilesSafe ==
  ASSUME IInv, NoLocalFile \/ LocalFileCrashes \/ LookUpLocalFile
  PROVE  IInv'
  <1>1. CASE NoLocalFile
    <2>1. TypeOK'
      BY <1>1 DEF IInv, NoLocalFile, NextNode, TypeOK, clients, nodes
    <2> QED
      BY <1>1, <2>1, Elsewhere DEF NoLocalFile
  <1>2. CASE LocalFileCrashes
    BY <1>2, DieSafe DEF LocalFileCrashes
  <1>3. CASE LookUpLocalFile
    <2>1. files' = files \/ files' \in Seq(BOOLEAN)
      <3>1. ~AddAsserts => Added(TRUE) \in Seq(BOOLEAN)
        BY <1>3, AddedSafe DEF IInv, LookUpLocalFile
      <3> QED
        BY <1>3, <3>1 DEF LookUpLocalFile
    <2>2. /\ Data' \in [Nodes -> Transfers]
          /\ \A n \in Nodes : Data[n] = NoTransfer => Data'[n] = NoTransfer
      <3>1. Data' = [Data EXCEPT ![pTmp].szFilename = FALSE] /\ Data[pTmp].szFilename
        BY <1>3 DEF LookUpLocalFile, IsLocalRequest
      <3>2. Data \in [Nodes -> Transfers]
        BY DEF IInv, TypeOK
      <3>3. ASSUME NEW d \in Transfers PROVE [d EXCEPT !.szFilename = FALSE] \in Transfers
        BY DEF Transfers
      <3>4. Data' \in [Nodes -> Transfers]
        BY <3>1, <3>2, <3>3
      <3>5. ASSUME NEW n \in Nodes, Data[n] = NoTransfer PROVE Data'[n] = NoTransfer
        <4>1. ~Data[n].szFilename
          BY <3>5 DEF NoTransfer
        <4>2. n # pTmp
          BY <3>1, <4>1
        <4> QED
          BY <3>1, <3>2, <3>5, <4>2
      <3> QED
        BY <3>4, <3>5
    <2>3. TypeOK'
      BY <1>3, <2>1, <2>2 DEF IInv, LookUpLocalFile, NextNode, TypeOK, clients
    <2> QED
      BY <1>3, <2>1, <2>3, Elsewhere DEF LookUpLocalFile
  <1> QED
    BY <1>1, <1>2, <1>3

LEMMA SweepSafe ==
  ASSUME IInv, EndWalk \/ RemoveClosedNodes \/ SweepSpins
  PROVE  IInv'
  <1>1. CASE EndWalk
    <2>1. TypeOK'
      BY <1>1 DEF IInv, EndWalk, TypeOK, clients, nodes
    <2> QED
      BY <1>1, <2>1, Elsewhere DEF EndWalk
  <1>2. CASE RemoveClosedNodes
    <2>1. CASE Die
      BY <2>1, DieSafe
    <2>2. CASE ~ \E n \in Closed : Data[n].pData
      <3>1. Data' \in [Nodes -> Transfers]
        BY <1>2, <2>2, NoTransferType DEF IInv, TypeOK, RemoveClosedNodes, Deleted
      <3>2. life' \in [Nodes -> {"free", "open", "closed"}] /\ request' \in [Nodes -> BOOLEAN]
        BY <1>2, <2>2 DEF IInv, TypeOK, RemoveClosedNodes
      <3>3. ASSUME NEW n \in Nodes, life'[n] = "free"
            PROVE  Data'[n] = NoTransfer /\ ~request'[n]
        BY <1>2, <2>2, <3>3 DEF IInv, TypeOK, RemoveClosedNodes, Deleted, Closed
      <3>4. TypeOK'
        BY <1>2, <2>2, <3>1, <3>2, <3>3 DEF IInv, RemoveClosedNodes, TypeOK, clients
      <3> QED
        BY <1>2, <2>2, <3>4, Elsewhere DEF RemoveClosedNodes
    <2> QED
      BY <1>2, <2>1, <2>2 DEF RemoveClosedNodes
  <1>3. CASE SweepSpins
    <2>1. TypeOK'
      BY <1>3 DEF IInv, SweepSpins, TypeOK, clients, nodes
    <2> QED
      BY <1>3, <2>1, Elsewhere DEF SweepSpins
  <1> QED
    BY <1>1, <1>2, <1>3

\* No use is ever counted, so that a purge leaves nothing (filelist.cpp:156-184).
LEMMA ChecksSafe == ASSUME IInv, NoCheck \/ CheckFiles PROVE IInv'
  <1>1. CASE NoCheck
    <2>1. TypeOK'
      BY <1>1 DEF IInv, NoCheck, TypeOK, clients, nodes
    <2> QED
      BY <1>1, <2>1, Elsewhere DEF NoCheck
  <1>2. CASE CheckFiles
    <2>1. CASE Die
      BY <2>1, DieSafe
    <2>2. CASE ~PurgeAsserts
      <3>1. files' = <<>>
        BY <1>2, <2>2 DEF CheckFiles, Kept
      <3>2. TypeOK'
        BY <1>2, <2>2, <3>1 DEF IInv, CheckFiles, TypeOK, clients, nodes
      <3> QED
        BY <1>2, <2>2, <3>1, <3>2, Elsewhere DEF CheckFiles
    <2> QED
      BY <1>2, <2>1, <2>2 DEF CheckFiles
  <1> QED
    BY <1>1, <1>2

LEMMA NetworkThreadSafe == ASSUME IInv, NetworkThread PROVE IInv'
  BY StartPassSafe, VisitSafe, RequestsSafe, LocalFilesSafe, SweepSafe, ChecksSafe
  DEF NetworkThread

-----------------------------------------------------------------------------
(* The peers.                                                              *)

LEMMA HandledSafe ==
  ASSUME IInv, NEW n \in Nodes, NEW asserts \in BOOLEAN, NEW d \in Transfers,
         Handled(n, asserts, d)
  PROVE  IInv'
  <1>1. CASE Die
    BY <1>1, DieSafe
  <1>2. CASE ~(debug /\ asserts)
    <2>1. Data' \in [Nodes -> Transfers]
      BY <1>2 DEF IInv, Handled, TypeOK
    <2>2. \A m \in Nodes : life[m] = "free" => Data'[m] = NoTransfer
      BY <1>2 DEF IInv, Handled, TypeOK
    <2>3. TypeOK'
      BY <1>2, <2>1, <2>2 DEF IInv, Handled, TypeOK, clients, network
    <2> QED
      BY <1>2, <2>3, Elsewhere DEF Handled
  <1> QED
    BY <1>1, <1>2 DEF Handled

LEMMA NodeThreadSafe == ASSUME IInv, NEW n \in Nodes, NodeThread(n) PROVE IInv'
  <1>0. Data[n] \in Transfers
    BY DEF IInv, TypeOK
  <1>1. CASE ProcessFileRequest(n)
    <2>1. CASE debug
      BY <1>1, <2>1, DieSafe DEF ProcessFileRequest
    <2>2. CASE ~debug
      <3>1. TypeOK'
        BY <1>1, <2>2 DEF IInv, ProcessFileRequest, TypeOK, clients, network
      <3> QED
        BY <1>1, <2>2, <3>1, Elsewhere DEF ProcessFileRequest
    <2> QED
      BY <2>1, <2>2
  <1>2. CASE ProcessLocalFile(n)
    BY <1>0, <1>2, HandledSafe DEF ProcessLocalFile, Transfers
  <1>3. CASE ProcessLocalOK(n)
    BY <1>0, <1>3, HandledSafe DEF ProcessLocalOK, Transfers
  <1>4. CASE ProcessLocalFail(n)
    BY <1>0, <1>4, HandledSafe DEF ProcessLocalFail, Transfers
  <1>5. CASE ProcessChunkRequest(n)
    BY <1>0, <1>5, HandledSafe DEF ProcessChunkRequest, Transfers
  <1>6. CASE ProcessChunkData(n)
    BY <1>0, <1>6, HandledSafe DEF ProcessChunkData, Transfers
  <1>7. CASE ProcessFileComplete(n)
    <2> DEFINE k == IF Data[n].pData THEN 0 ELSE Data[n].nChunk
               d == [Data[n] EXCEPT !.szFilename = FALSE, !.pData = FALSE, !.nChunk = k]
    <2>1. k \in 0 .. MaxChunk
      BY <1>0 DEF Transfers
    <2>2. d \in Transfers
      BY <1>0, <2>1 DEF Transfers
    <2>3. Handled(n, ~Data[n].szFilename, d)
      BY <1>7 DEF ProcessFileComplete
    <2> QED
      BY <2>2, <2>3, HandledSafe
  <1> QED
    BY <1>1, <1>2, <1>3, <1>4, <1>5, <1>6, <1>7 DEF NodeThread

LEMMA NodeClosesSafe == ASSUME IInv, NEW n \in Nodes, NodeCloses(n) PROVE IInv'
  <1>1. TypeOK'
    BY DEF IInv, NodeCloses, TypeOK, clients, network
  <1> QED
    BY <1>1, Elsewhere DEF NodeCloses

-----------------------------------------------------------------------------
LEMMA NextSafe == ASSUME IInv, [Next]_vars PROVE IInv'
  <1>1. CASE Next
    <2>1. ASSUME NEW c \in Clients, ClientAsks(c) \/ ClientLeaves(c) PROVE IInv'
      BY <2>1, ClientAsksSafe, ClientLeavesSafe
    <2>2. ASSUME NEW n \in Nodes, OnAccept(n) \/ NodeCloses(n) PROVE IInv'
      BY <2>2, OnAcceptSafe, NodeClosesSafe
    <2>3. ASSUME NEW n \in Talking, NodeThread(n) PROVE IInv'
      BY <2>3, NodeThreadSafe
    <2> QED
      BY <1>1, <2>1, <2>2, <2>3, ServerThreadSafe, NetworkThreadSafe DEF Next
  <1>2. CASE UNCHANGED vars
    BY <1>2 DEF vars, clients, nodes, network, IInv, TypeOK, OneEmptyChunk, ChunkCounted
  <1> QED
    BY <1>1, <1>2

\* The invariant holds in every reachable state.
THEOREM Inductive == Spec => []IInv
  <1>1. Init => IInv
    BY InitSafe
  <1>2. IInv /\ [Next]_vars => IInv'
    BY NextSafe
  <1> QED
    BY <1>1, <1>2, PTL DEF Spec

\* Every variable of the file path keeps its type, and nothing of a deleted Node is
\* found by the next one at its address (node.cpp:88-108).
THEOREM TypeCorrect == Spec => []TypeOK
  <1>1. IInv => TypeOK
    BY DEF IInv
  <1> QED
    BY <1>1, Inductive, PTL

\* No client ever gets more than one chunk, which is empty (network.cpp:605,
\* fileinfo.cpp:180-190).
THEOREM NothingDelivered == Spec => []OneEmptyChunk
  <1>1. IInv => OneEmptyChunk
    BY DEF IInv
  <1> QED
    BY <1>1, Inductive, PTL
=============================================================================
