------------------------ MODULE ClientSessionProofs ------------------------
(* Theorems about ClientSession: the assertions the two threads rely on     *)
(* hold, and the connection is a ChunkStream, for every set of files,       *)
(* lengths and versions, every bound and every heartbeat setting.           *)
EXTENDS ClientSession, SequenceTheorems, TLAPS

\* Only the part of TypeOK the arguments below need.
Typed ==
  /\ szQuery \in Files \cup {NULL}
  /\ nChunk \in Nat
  /\ nLength \in Lengths \cup {0}
  /\ spc \in {"scan", "ask", "got", "result", "chunk", "data"}
  /\ sLength \in Lengths \cup {0}
  /\ announced \in Seq(Lengths)
  /\ delivered \in Seq(Nat)
  /\ inq \in Seq(Telegrams)

\* What the history of the stream has to do with the Client's own fields.
History ==
  /\ Len(delivered) = nChunk
  /\ announced = <<>> <=> nLength = 0
  /\ szQuery = NULL => announced = <<>>
  /\ spc \in {"chunk", "data"} => nLength # 0
  /\ spc = "result" => sLength # 0

IInv == Typed /\ AssertionsHold /\ History

LEMMA InitIInv == Init => IInv
  BY DEF Init, IInv, Typed, AssertionsHold, History

\* A file request is accepted only while nothing has been asked for or sent,
\* hence not while the server thread is between QueryData and QueryResult.
LEMMA AcceptIInv == ASSUME IInv, AcceptFile PROVE IInv' /\ Stream!Ask(szQuery')
  <1> USE FilesAssumption, LengthsAssumption
      DEF AcceptFile, Receives, MayAsk, IInv, server, stream
  <1>1. inq # <<>> /\ Head(inq) \in Telegrams /\ Tail(inq) \in Seq(Telegrams)
    BY DEF Typed
  <1>2. szQuery' \in Files
    BY <1>1 DEF Telegrams
  <1>3. Typed'
    BY <1>1, <1>2 DEF Typed, Consume
  <1>4. AssertionsHold' /\ History'
    BY <1>2 DEF AssertionsHold, History
  <1>5. Stream!Ask(szQuery')
    BY DEF Stream!Ask
  <1> QED BY <1>3, <1>4, <1>5

LEMMA LengthIInv ==
  ASSUME IInv, SendLength
  PROVE  /\ IInv'
         /\ \/ \E n \in Lengths : Stream!Announce(n)
            \/ UNCHANGED Stream!vars
  <1> USE FilesAssumption, LengthsAssumption DEF SendLength, MustAnnounce, IInv, beats
  <1>1. CASE nLength = 0
    <2>1. announced = <<>> /\ sLength \in Lengths /\ announced' = <<sLength>>
      BY <1>1 DEF Typed, History
    <2>2. Typed'
      BY <1>1, <2>1 DEF Typed
    <2>3. AssertionsHold' /\ History'
      BY <1>1, <2>1 DEF AssertionsHold, History
    <2>4. Stream!Announce(sLength)
      BY <1>1, <2>1 DEF Stream!Announce, AssertionsHold
    <2> QED BY <2>1, <2>2, <2>3, <2>4
  <1>2. CASE nLength # 0
    <2>1. Typed' /\ AssertionsHold' /\ History'
      BY <1>2 DEF Typed, AssertionsHold, History
    <2>2. UNCHANGED Stream!vars
      BY <1>2 DEF Stream!vars
    <2> QED BY <2>1, <2>2
  <1> QED BY <1>1, <1>2

LEMMA DataIInv == ASSUME IInv, SendData PROVE IInv' /\ Stream!Deliver
  <1> USE FilesAssumption, LengthsAssumption, BoundsAssumption DEF SendData, IInv, beats
  <1>1. sChunk = nChunk /\ sChunk % ChunkMod \in Nat
    BY DEF Typed, AssertionsHold
  <1>2. /\ delivered' \in Seq(Nat)
        /\ Len(delivered') = Len(delivered) + 1
    BY <1>1 DEF Typed
  <1>3. Typed'
    BY <1>2 DEF Typed
  <1>4. AssertionsHold' /\ History'
    BY <1>2 DEF Typed, AssertionsHold, History
  <1>5. Stream!Deliver
    BY <1>1 DEF Stream!Deliver, History
  <1> QED BY <1>3, <1>4, <1>5

\* The server thread reads the chunk number and is the only one to change it.
LEMMA ServerIInv ==
  ASSUME IInv,
         StartServing \/ QueryData \/ RunQueryMiss \/ RunQueryHit \/ SendHeader
  PROVE  IInv' /\ UNCHANGED Stream!vars
  <1> USE FilesAssumption, LengthsAssumption
      DEF IInv, Typed, AssertionsHold, History, query, beats, stream, Stream!vars
  <1>1. CASE StartServing
    BY <1>1 DEF StartServing
  <1>2. CASE QueryData
    BY <1>2 DEF QueryData, WantedChunk
  <1>3. CASE RunQueryMiss
    BY <1>3 DEF RunQueryMiss
  <1>4. CASE RunQueryHit
    BY <1>4 DEF RunQueryHit
  <1>5. CASE SendHeader
    BY <1>5 DEF SendHeader
  <1> QED BY <1>1, <1>2, <1>3, <1>4, <1>5

\* Everything else leaves the query, the server thread and the stream alone.
LEMMA OtherIInv ==
  ASSUME IInv, inq' \in Seq(Telegrams), UNCHANGED <<query, server, stream>>
  PROVE  IInv' /\ UNCHANGED Stream!vars
  BY DEF IInv, Typed, AssertionsHold, History, query, server, stream, Stream!vars

LEMMA OtherSteps ==
  ASSUME IInv,
         \/ \E t \in Telegrams : PeerSends(t)
         \/ PeerCompletes \/ PeerCloses \/ PeerFallsSilent \/ OnIdle
         \/ ReceiveInit \/ ReceiveBeat \/ LosePartialFile \/ RefuseFile
         \/ ReceiveUnexpected
         \/ UNCHANGED vars
  PROVE  inq' \in Seq(Telegrams) /\ UNCHANGED <<query, server, stream>>
  <1> USE DEF IInv, Typed
  <1>1. CASE \E t \in Telegrams : PeerSends(t)
    BY <1>1 DEF PeerSends
  <1>2. CASE PeerCompletes
    <2>1. PICK f \in Files :
             inq' = [inq EXCEPT ![Len(inq)] = [t |-> "F", file |-> f]]
      BY <1>2 DEF PeerCompletes
    <2>2. [t |-> "F", file |-> f] \in Telegrams
      BY DEF Telegrams
    <2>3. inq' \in Seq(Telegrams)
      <3>1. Len(inq) \in 1 .. Len(inq)
        BY <1>2 DEF PeerCompletes
      <3> QED BY <2>1, <2>2, <3>1, ExceptSeq
    <2> QED BY <1>2, <2>3 DEF PeerCompletes
  <1>3. CASE PeerCloses \/ PeerFallsSilent \/ OnIdle \/ RefuseFile
             \/ ReceiveUnexpected \/ UNCHANGED vars
    BY <1>3 DEF PeerCloses, PeerFallsSilent, OnIdle, RefuseFile, ReceiveUnexpected,
       vars
  <1>4. CASE ReceiveInit \/ ReceiveBeat \/ LosePartialFile
    <2>1. inq # <<>> /\ inq' = Tail(inq)
      BY <1>4 DEF ReceiveInit, ReceiveBeat, LosePartialFile, Receives, Consume
    <2>2. inq' \in Seq(Telegrams)
      BY <2>1
    <2> QED BY <1>4, <2>2 DEF ReceiveInit, ReceiveBeat, LosePartialFile
  <1> QED BY <1>1, <1>2, <1>3, <1>4

LEMMA NextIInv == IInv /\ [Next]_vars => IInv' /\ [Stream!Next]_(Stream!vars)
  <1> SUFFICES ASSUME IInv, [Next]_vars
               PROVE  IInv' /\ [Stream!Next]_(Stream!vars)
    OBVIOUS
  <1>1. CASE AcceptFile
    <2>1. szQuery' \in Files
      BY <1>1 DEF AcceptFile, Receives, IInv, Typed, Telegrams
    <2> QED BY <1>1, <2>1, AcceptIInv DEF Stream!Next
  <1>2. CASE SendLength
    BY <1>2, LengthIInv DEF Stream!Next
  <1>3. CASE SendData
    BY <1>3, DataIInv DEF Stream!Next
  <1>4. CASE StartServing \/ QueryData \/ RunQueryMiss \/ RunQueryHit \/ SendHeader
    BY <1>4, ServerIInv
  <1>5. CASE \/ \E t \in Telegrams : PeerSends(t)
             \/ PeerCompletes \/ PeerCloses \/ PeerFallsSilent \/ OnIdle
             \/ ReceiveInit \/ ReceiveBeat \/ LosePartialFile \/ RefuseFile
             \/ ReceiveUnexpected
             \/ UNCHANGED vars
    BY <1>5, OtherSteps, OtherIInv
  <1> QED
    BY <1>1, <1>2, <1>3, <1>4, <1>5 DEF Next, OnReceive, ServerThread

\* The chunk QueryResult is given is the one the Client waits for, in every
\* interleaving of the client's thread with the server's.
THEOREM Assertions == Spec => []AssertionsHold
  <1>1. IInv => AssertionsHold
    BY DEF IInv
  <1> QED BY <1>1, InitIInv, NextIInv, PTL DEF Spec

\* Whatever the peer sends, the connection is a ChunkStream: one file, one
\* length before the data, the chunks in order.
THEOREM Implements == Spec => ImplementsStream
  <1>1. Init => Stream!Init
    BY DEF Init, Stream!Init
  <1> QED BY <1>1, InitIInv, NextIInv, PTL DEF Spec, Stream!Spec, ImplementsStream

-----------------------------------------------------------------------------
(* Type correctness. The counters stop short of their limits as long as the *)
(* connection is open, and a chunk number is only carried on if the Network *)
(* has had that chunk.                                                      *)

Counters ==
  ~closed => /\ nBeats < HEARTBEAT_MISS
             /\ nDelay < HEARTBEAT_DELAY
             /\ nWait <= HEARTBEAT_WAIT

Supplied == spc \in {"result", "chunk", "data"} => sChunk < MaxChunks

TInv == TypeOK /\ Counters /\ Supplied

LEMMA InitTInv == Init => TInv
  <1> SUFFICES ASSUME Init PROVE TInv
    OBVIOUS
  <1>1. nChunk \in 0 .. MaxChunks /\ sChunk \in 0 .. MaxChunks
    BY BoundsAssumption DEF Init
  <1>2. /\ nBeats \in 0 .. HEARTBEAT_MISS
        /\ nDelay \in 0 .. HEARTBEAT_DELAY
        /\ nWait \in 0 .. HEARTBEAT_WAIT + 1
        /\ Counters
    BY HeartbeatAssumption DEF Init, Counters
  <1>3. inq \in Seq(Telegrams) /\ announced \in Seq(Lengths)
    BY DEF Init
  <1>4. delivered \in Seq(0 .. ChunkMod - 1)
    BY DEF Init
  <1>5. TypeOK
    BY <1>1, <1>2, <1>3, <1>4 DEF Init, TypeOK, Items
  <1> QED
    BY <1>2, <1>5 DEF Init, TInv, Supplied

LEMMA PeerTInv ==
  ASSUME TInv, inq' \in Seq(Telegrams), closed' \in BOOLEAN, closed => closed',
         silent' \in BOOLEAN, UNCHANGED <<query, nVersion, beats, server, last, stream>>
  PROVE  TInv'
  BY DEF TInv, TypeOK, Counters, Supplied, query, beats, server, stream

LEMMA ReceiveTInv == ASSUME TInv, OnReceive PROVE TInv'
  <1> USE DEF OnReceive, Receives, Consume
  <1>1. inq # <<>> /\ Head(inq) \in Telegrams /\ Tail(inq) \in Seq(Telegrams) /\ ~closed
    BY DEF TInv, TypeOK, ReceiveInit, ReceiveBeat, AcceptFile, LosePartialFile, RefuseFile,
           ReceiveUnexpected
  <1>2. CASE ReceiveInit
    <2>1. Head(inq).v \in Versions
      BY <1>1, <1>2 DEF ReceiveInit, Telegrams
    <2> QED
      BY <1>1, <1>2, <2>1
      DEF ReceiveInit, TInv, TypeOK, Counters, Supplied, Items, query, beats, server, stream
  <1>3. CASE ReceiveBeat
    BY <1>1, <1>3, HeartbeatAssumption
    DEF ReceiveBeat, TInv, TypeOK, Counters, Supplied, query, server, stream
  <1>4. CASE AcceptFile
    <2>1. Head(inq).file \in Files
      BY <1>1, <1>4 DEF AcceptFile, Telegrams
    <2> QED
      BY <1>1, <1>4, <2>1, HeartbeatAssumption
      DEF AcceptFile, TInv, TypeOK, Counters, Supplied, server, stream
  <1>5. CASE LosePartialFile
    BY <1>1, <1>5, PeerTInv DEF LosePartialFile, TInv, TypeOK
  <1>6. CASE RefuseFile
    BY <1>6
    DEF RefuseFile, TInv, TypeOK, Counters, Supplied, Items, query, beats, server, stream
  <1>7. CASE ReceiveUnexpected
    BY <1>1, <1>7, PeerTInv DEF ReceiveUnexpected, TInv, TypeOK
  <1> QED
    BY <1>2, <1>3, <1>4, <1>5, <1>6, <1>7

LEMMA IdleTInv == ASSUME TInv, OnIdle PROVE TInv'
  <1> USE HeartbeatAssumption DEF OnIdle, Waits, WaitFails, Beat, MissedBeats, BeatFails
  <1>1. /\ nWait' \in 0 .. HEARTBEAT_WAIT + 1
        /\ nDelay' \in 0 .. HEARTBEAT_DELAY
        /\ nBeats' \in 0 .. HEARTBEAT_MISS
        /\ closed' \in BOOLEAN
        /\ last' \in Items
    BY DEF TInv, TypeOK, Counters, Items
  <1>2. Counters'
    <2> SUFFICES ASSUME ~closed' PROVE Counters'
      BY DEF Counters
    <2>1. ~WaitFails /\ ~BeatFails
      OBVIOUS
    <2>2. nWait' <= HEARTBEAT_WAIT
      BY <2>1 DEF TInv, TypeOK
    <2>3. nDelay' < HEARTBEAT_DELAY
      BY <2>1 DEF TInv, TypeOK, Counters
    <2>4. nBeats' < HEARTBEAT_MISS
      BY <2>1 DEF TInv, TypeOK, Counters
    <2> QED
      BY <2>2, <2>3, <2>4 DEF Counters
  <1> QED
    BY <1>1, <1>2 DEF TInv, TypeOK, Supplied, query, server, stream

LEMMA ServerTInv == ASSUME TInv, IInv, ServerThread PROVE TInv'
  <1> USE DEF TInv, Counters, query, beats, stream
  <1>1. CASE StartServing
    BY <1>1 DEF StartServing, TypeOK, Supplied
  <1>2. CASE QueryData
    BY <1>2 DEF QueryData, WantedChunk, TypeOK, Supplied
  <1>3. CASE RunQueryMiss
    BY <1>3 DEF RunQueryMiss, TypeOK, Supplied
  <1>4. CASE RunQueryHit
    BY <1>4 DEF RunQueryHit, TypeOK, Supplied
  <1>5. CASE SendLength
    <2>1. sLength # 0 => sLength \in Lengths
      BY DEF TypeOK
    <2>2. sLength \in Lengths
      BY <1>5, <2>1 DEF SendLength, IInv, History
    <2> QED
      BY <1>5, <2>2 DEF SendLength, TypeOK, Supplied, Items
  <1>6. CASE SendHeader
    BY <1>6 DEF SendHeader, TypeOK, Supplied, Items
  <1>7. CASE SendData
    <2>1. nChunk < MaxChunks
      BY <1>7 DEF SendData, Supplied, IInv, AssertionsHold
    <2>2. sChunk % ChunkMod \in 0 .. ChunkMod - 1
      BY BoundsAssumption DEF TypeOK
    <2>3. delivered' \in Seq(0 .. ChunkMod - 1)
      BY <1>7, <2>2 DEF SendData, TypeOK
    <2> QED
      BY <1>7, <2>1, <2>3, BoundsAssumption DEF SendData, TypeOK, Supplied, Items
  <1> QED
    BY <1>1, <1>2, <1>3, <1>4, <1>5, <1>6, <1>7 DEF ServerThread

LEMMA NextTInv == TInv /\ IInv /\ [Next]_vars => TInv'
  <1> SUFFICES ASSUME TInv, IInv, [Next]_vars PROVE TInv'
    OBVIOUS
  <1>1. CASE \/ \E t \in Telegrams : PeerSends(t)
             \/ PeerCompletes \/ PeerCloses \/ PeerFallsSilent
             \/ UNCHANGED vars
    <2>1. inq' \in Seq(Telegrams)
      BY <1>1, OtherSteps
    <2>2. /\ closed' \in BOOLEAN /\ (closed => closed') /\ silent' \in BOOLEAN
          /\ UNCHANGED <<query, nVersion, beats, server, last, stream>>
      BY <1>1 DEF PeerSends, PeerCompletes, PeerCloses, PeerFallsSilent, vars, TInv, TypeOK
    <2> QED
      BY <2>1, <2>2, PeerTInv
  <1> QED
    BY <1>1, ReceiveTInv, IdleTInv, ServerTInv DEF Next

\* Every reachable state of a connection is well typed: no counter passes its limit,
\* no chunk the Network does not have is delivered (client.cpp:200-235, 335-367).
THEOREM TypeCorrect == Spec => []TypeOK
  <1>1. TInv => TypeOK
    BY DEF TInv
  <1> QED
    BY <1>1, InitIInv, NextIInv, InitTInv, NextTInv, PTL DEF Spec
=============================================================================
