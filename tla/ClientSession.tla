--------------------------- MODULE ClientSession ---------------------------
(***************************************************************************)
(* One connection of the client program, as the daemon's Client object     *)
(* handles it (src/src/client.cpp), between three actors:                  *)
(*                                                                         *)
(*   - the peer, which sends any telegrams in any order, stops half way    *)
(*     through one, closes, or falls silent;                               *)
(*   - the Client's own socket thread, which takes one telegram per call   *)
(*     of OnReceive, under the Client lock, and calls OnIdle, which takes  *)
(*     no lock;                                                            *)
(*   - the server thread, which asks for the pending query (QueryData),    *)
(*     lets go of the lock, gets a chunk from the Network (RunQuery) and   *)
(*     sends it (QueryResult) under the lock, in up to three Sends.        *)
(*                                                                         *)
(* A telegram is one element of `inq`. Its data is kept only where the     *)
(* code looks at it: the version of an I, and whether all of an F's name   *)
(* has arrived. The stream sent to the peer is kept as its last item and   *)
(* as the announced lengths and chunk numbers.                             *)
(***************************************************************************)
EXTENDS Integers, Sequences

CONSTANTS
  Files,             \* names a client program asks for
  NULL,              \* the null pointer
  Versions,          \* protocol versions a peer announces
  Lengths,           \* lengths the Network reports for a file
  MaxChunks,         \* chunks the Network can ever supply
  ChunkMod,          \* chunk numbers are sent in two bytes: 65536
  MaxQueue,          \* bound: telegrams received and not yet handled
  HEARTBEAT_WAIT,    \* client.cpp:46
  HEARTBEAT_DELAY,   \* common.h: 5
  HEARTBEAT_MISS     \* common.h: 3

ASSUME FilesAssumption    == NULL \notin Files
ASSUME VersionsAssumption == Versions \subseteq Nat
ASSUME LengthsAssumption  == Lengths \subseteq Nat \ {0}
ASSUME BoundsAssumption   == /\ MaxChunks \in Nat
                             /\ MaxQueue \in Nat
                             /\ ChunkMod \in Nat \ {0}
ASSUME HeartbeatAssumption == /\ HEARTBEAT_WAIT \in Nat
                              /\ HEARTBEAT_DELAY \in Nat \ {0}
                              /\ HEARTBEAT_MISS \in Nat \ {0}

VARIABLES
  szQuery,     \* _szQuery
  nChunk,      \* _nChunk
  nLength,     \* _nLength
  nVersion,    \* _nVersion
  nBeats,      \* _Heartbeat.nBeats
  nDelay,      \* _Heartbeat.nDelay
  nWait,       \* _Heartbeat.nWait
  closed,      \* the socket has been closed by either side
  inq,         \* telegrams received and not yet consumed
  silent,      \* the peer will never send again, nor close
  spc,         \* where the server thread is with this client
  sChunk,      \* nChunk of ProcessClients
  sLength,     \* nLength of ProcessClients
  last,        \* the last item sent to the peer
  announced,   \* lengths sent in L telegrams
  delivered    \* chunk numbers of the C telegrams sent completely

query  == <<szQuery, nChunk, nLength>>
beats  == <<nBeats, nDelay, nWait>>
server == <<spc, sChunk, sLength>>
stream == <<announced, delivered>>
vars   == <<query, nVersion, beats, closed, inq, silent, server, last, stream>>

\* Telegrams a peer can send. "I" carries a version. "F" is a whole file
\* request, "Fhead" one of which at least three bytes but not the whole name
\* have arrived, "F0" one whose length byte is 0. "?" is any other first byte.
Telegrams ==
  [t : {"I"}, v : Versions] \cup
  [t : {"F", "Fhead"}, file : Files] \cup
  [t : {"F0", "H", "R", "?"}]

Items == {"none", "V", "Q", "H", "L", "C", "data"}

TypeOK ==
  /\ szQuery \in Files \cup {NULL}
  /\ nChunk \in 0 .. MaxChunks
  /\ nLength \in Lengths \cup {0}
  /\ nVersion \in Versions \cup {0}
  /\ nBeats \in 0 .. HEARTBEAT_MISS
  /\ nDelay \in 0 .. HEARTBEAT_DELAY
  /\ nWait \in 0 .. HEARTBEAT_WAIT + 1
  /\ closed \in BOOLEAN
  /\ inq \in Seq(Telegrams)
  /\ silent \in BOOLEAN
  /\ spc \in {"scan", "ask", "got", "result", "chunk", "data"}
  /\ sChunk \in 0 .. MaxChunks
  /\ sLength \in Lengths \cup {0}
  /\ last \in Items
  /\ announced \in Seq(Lengths)
  /\ delivered \in Seq(0 .. ChunkMod - 1)

Init ==
  /\ szQuery = NULL
  /\ nChunk = 0
  /\ nLength = 0
  /\ nVersion = 0
  /\ nBeats = 0
  /\ nDelay = 0
  /\ nWait = 0
  /\ closed = FALSE
  /\ inq = <<>>
  /\ silent = FALSE
  /\ spc = "scan"
  /\ sChunk = 0
  /\ sLength = 0
  /\ last = "none"
  /\ announced = <<>>
  /\ delivered = <<>>

-----------------------------------------------------------------------------
(* The peer.                                                               *)

PeerSends(t) ==
  /\ ~closed /\ ~silent
  /\ Len(inq) < MaxQueue
  /\ inq' = Append(inq, t)
  /\ UNCHANGED <<query, nVersion, beats, closed, silent, server, last, stream>>

\* The rest of a name arrives while its head still waits in the queue. (If the
\* head is gone, what arrives is parsed as telegrams: PeerSends.)
PeerCompletes ==
  /\ ~closed /\ ~silent
  /\ inq # <<>>
  /\ \E f \in Files :
       /\ inq[Len(inq)] = [t |-> "Fhead", file |-> f]
       /\ inq' = [inq EXCEPT ![Len(inq)] = [t |-> "F", file |-> f]]
  /\ UNCHANGED <<query, nVersion, beats, closed, silent, server, last, stream>>

PeerCloses ==
  /\ ~closed /\ ~silent
  /\ closed' = TRUE
  /\ UNCHANGED <<query, nVersion, beats, inq, silent, server, last, stream>>

\* The peer's machine is gone without a word.
PeerFallsSilent ==
  /\ ~closed /\ ~silent
  /\ silent' = TRUE
  /\ UNCHANGED <<query, nVersion, beats, closed, inq, server, last, stream>>

-----------------------------------------------------------------------------
(* The Client's thread: OnReceive, under the Client lock.                  *)

\* QueryResult holds the lock from its assertion to its last Send.
LockFree == spc \notin {"result", "chunk", "data"}

Receives(letters) ==
  /\ ~closed
  /\ LockFree
  /\ inq # <<>>
  /\ Head(inq).t \in letters

Consume == inq' = Tail(inq)

Fresh == szQuery = NULL /\ nChunk = 0 /\ nLength = 0 /\ nVersion = 0

\* ProcessInit: the version is stored before it is looked at.
ReceiveInit ==
  /\ Receives({"I"})
  /\ nVersion' = IF Fresh THEN Head(inq).v ELSE nVersion
  /\ last' = IF Fresh /\ nVersion' = 1 THEN "V" ELSE "Q"
  /\ Consume
  /\ UNCHANGED <<query, beats, closed, silent, server, stream>>

\* H, and R ("we dont really care about this one"): the only telegrams that
\* clear the count of missed beats, besides an accepted F.
ReceiveBeat ==
  /\ Receives({"H", "R"})
  /\ nBeats' = 0
  /\ Consume
  /\ UNCHANGED <<query, nVersion, nDelay, nWait, closed, silent, server, last, stream>>

\* Mutant of MayAsk: the file can be asked for again and again.
MayAskAgain == nVersion # 0

MayAsk == szQuery = NULL /\ nChunk = 0 /\ nLength = 0 /\ nVersion # 0

AcceptFile ==
  /\ Receives({"F"})
  /\ MayAsk
  /\ szQuery' = Head(inq).file
  /\ nBeats' = 0
  /\ Consume
  /\ UNCHANGED <<nChunk, nLength, nVersion, nDelay, nWait, closed, silent, server,
                 last, stream>>

\* The name is not complete, but the length is returned all the same and the
\* caller takes the telegram, as far as it has arrived, off the queue.
LosePartialFile ==
  /\ Receives({"Fhead"})
  /\ MayAsk
  /\ Consume
  /\ UNCHANGED <<query, nVersion, beats, closed, silent, server, last, stream>>

\* A request out of turn or without a name returns 0: it is answered by Q and
\* stays at the head of the queue, to be answered again and again.
RefuseFile ==
  /\ Receives({"F", "Fhead", "F0"})
  /\ ~MayAsk \/ Head(inq).t = "F0"
  /\ last' = "Q"
  /\ UNCHANGED <<query, nVersion, beats, closed, inq, silent, server, stream>>

ReceiveUnexpected ==
  /\ Receives({"?"})
  /\ closed' = TRUE
  /\ UNCHANGED <<query, nVersion, beats, inq, silent, server, last, stream>>

OnReceive ==
  \/ ReceiveInit \/ ReceiveBeat \/ AcceptFile \/ LosePartialFile
  \/ RefuseFile \/ ReceiveUnexpected

-----------------------------------------------------------------------------
(* The Client's thread: OnIdle and ProcessHeartbeat, under no lock. Nothing *)
(* ever assigns nLastCheck, so `nTime > nLastCheck` is always true and the  *)
(* counters count calls of OnIdle.                                          *)

\* Mutant of Waits: the time without a request is not counted.
WaitsForgotten == nWait

Waits == IF szQuery = NULL THEN nWait + 1 ELSE nWait

\* Mutant of WaitFails: a client that asks for nothing is kept.
WaitNeverFails == FALSE

WaitFails == Waits > HEARTBEAT_WAIT

Beat == ~WaitFails /\ nDelay + 1 >= HEARTBEAT_DELAY

\* Mutant of MissedBeats: a missed beat is answered with H but not counted.
BeatsForgotten == nBeats

MissedBeats == nBeats + 1

BeatFails == Beat /\ MissedBeats >= HEARTBEAT_MISS

OnIdle ==
  /\ ~closed
  /\ nWait' = Waits
  /\ nDelay' = IF Beat THEN 0 ELSE nDelay + 1
  /\ nBeats' = IF Beat THEN MissedBeats ELSE nBeats
  /\ closed' = (WaitFails \/ BeatFails)
  /\ last' = IF WaitFails \/ BeatFails THEN "Q" ELSE IF Beat THEN "H" ELSE last
  /\ UNCHANGED <<query, nVersion, inq, silent, server, stream>>

-----------------------------------------------------------------------------
(* The server thread with this client: ProcessClients.                     *)

\* IsClosed is false; a closed client is deleted instead, which ends all this.
StartServing ==
  /\ spc = "scan"
  /\ ~closed
  /\ spc' = "ask"
  /\ UNCHANGED <<query, nVersion, beats, closed, inq, silent, sChunk, sLength, last,
                 stream>>

\* Mutant of WantedChunk: the number of the previous round is used again.
PreviousChunk == sChunk

WantedChunk == nChunk

QueryData ==
  /\ spc = "ask"
  /\ spc' = IF szQuery = NULL THEN "scan" ELSE "got"
  /\ sChunk' = IF szQuery = NULL THEN sChunk ELSE WantedChunk
  /\ UNCHANGED <<query, nVersion, beats, closed, inq, silent, sLength, last, stream>>

\* Nothing has the chunk yet: "then it will ask again the next time".
RunQueryMiss ==
  /\ spc = "got"
  /\ spc' = "scan"
  /\ UNCHANGED <<query, nVersion, beats, closed, inq, silent, sChunk, sLength, last,
                 stream>>

RunQueryHit ==
  /\ spc = "got"
  /\ sChunk < MaxChunks
  /\ sLength' \in Lengths
  /\ spc' = "result"
  /\ UNCHANGED <<query, nVersion, beats, closed, inq, silent, sChunk, last, stream>>

MustAnnounce == nLength = 0

\* The first half of QueryResult: the L telegram, if it has not been sent.
SendLength ==
  /\ spc = "result"
  /\ nLength' = IF MustAnnounce THEN sLength ELSE nLength
  /\ announced' = IF MustAnnounce THEN Append(announced, sLength) ELSE announced
  /\ last' = IF MustAnnounce THEN "L" ELSE last
  /\ spc' = "chunk"
  /\ UNCHANGED <<szQuery, nChunk, nVersion, beats, closed, inq, silent, sChunk, sLength,
                 delivered>>

SendHeader ==
  /\ spc = "chunk"
  /\ last' = "C"
  /\ spc' = "data"
  /\ UNCHANGED <<query, nVersion, beats, closed, inq, silent, sChunk, sLength, stream>>

SendData ==
  /\ spc = "data"
  /\ last' = "data"
  /\ delivered' = Append(delivered, sChunk % ChunkMod)
  /\ nChunk' = nChunk + 1
  /\ spc' = "scan"
  /\ UNCHANGED <<szQuery, nLength, nVersion, beats, closed, inq, silent, sChunk, sLength,
                 announced>>

ServerThread ==
  \/ StartServing \/ QueryData \/ RunQueryMiss \/ RunQueryHit
  \/ SendLength \/ SendHeader \/ SendData

Next ==
  \/ \E t \in Telegrams : PeerSends(t)
  \/ PeerCompletes \/ PeerCloses \/ PeerFallsSilent
  \/ OnReceive
  \/ OnIdle
  \/ ServerThread

\* "When the client is idle (which should happen quite a lot)", client.cpp:82:
\* the socket thread keeps calling OnIdle. Nothing else has to happen.
Spec == Init /\ [][Next]_vars /\ WF_vars(OnIdle)

-----------------------------------------------------------------------------
(* Properties.                                                             *)

\* The assertions that relate the two threads: QueryData's (client.cpp:180),
\* and QueryResult's (207), that the chunk it was given is the one the Client
\* waits for, although the lock was free since QueryData read the number.
AssertionsHold ==
  /\ szQuery = NULL => nChunk = 0
  /\ spc \in {"got", "result", "chunk", "data"} => szQuery # NULL /\ sChunk = nChunk

\* Whatever the peer sends and however it interleaves with the server thread,
\* the connection is a ChunkStream: one file, its length once and first, then
\* the chunks in order (client.cpp:200-235 with 243-309).
Stream == INSTANCE ChunkStream WITH file <- szQuery

ImplementsStream == Stream!Spec

\* A peer that never gets a file request through, heartbeats or not, does not
\* keep its connection (client.cpp:344-351).
NoRequestNoStay == <>(closed \/ szQuery # NULL)

\* A peer that vanishes without closing is given up, whatever it left in the
\* queue and in the middle of whatever transfer (client.cpp:335-367).
SilentPeerDropped == silent ~> closed

\* On an open connection the data of a chunk follows its C header at once, as
\* ProcessChunk of the client program takes it apart (pacsrvclient.cpp:669-693).
ChunksFramed == spc = "data" /\ ~closed => last = "C"
=============================================================================
