------------------------------ MODULE Exchange ------------------------------
(***************************************************************************)
(* The client program and the daemon together: ClientApp connected to the  *)
(* daemon's Client object, ClientSession. What either sends is what the    *)
(* other has to handle (src/src/pacsrvclient.cpp, client.cpp):             *)
(*                                                                         *)
(*     program  I (INIT), F (file request), H   -->   Client               *)
(*     program   <--   V, Q, H, L, C (chunk)          Client               *)
(*                                                                         *)
(* A direction of the connection is the queue of the receiver; telegrams   *)
(* are neither lost nor reordered in it. What is sent to a side that has   *)
(* closed goes nowhere. A beat the daemon sends between the header and the *)
(* data of a chunk is, to the program, a byte of the chunk, and from the   *)
(* end of that chunk on nothing is read as what it was sent as (framed).   *)
(* When the program ends, its sockets are closed, except that wget, which  *)
(* replaces it, holds them open without a word.                            *)
(***************************************************************************)
EXTENDS Integers, Sequences

CONSTANTS
  szFilename,        \* the package the program is called for
  NULL,              \* the null pointer
  Lengths,           \* lengths the Network reports for a file
  MaxChunks,         \* bound: chunks the Network can supply
  ChunkMod,          \* chunk numbers are sent in two bytes: 65536
  MaxQueue,          \* bound: telegrams under way in either direction
  LOOP_LOOPS,        \* pacsrvclient.cpp:95
  PROGRAM_WAIT,      \* HEARTBEAT_WAIT of pacsrvclient.cpp:83
  CLIENT_WAIT,       \* HEARTBEAT_WAIT of client.cpp:46
  HEARTBEAT_DELAY,   \* common.h
  HEARTBEAT_MISS     \* common.h

ASSUME NamesAssumption     == NULL # szFilename
ASSUME LengthsAssumption   == Lengths \subseteq Nat \ {0}
ASSUME BoundsAssumption    == /\ MaxChunks \in Nat
                              /\ MaxQueue \in Nat
                              /\ ChunkMod \in Nat \ {0}
                              /\ LOOP_LOOPS \in Nat \ {0}
ASSUME HeartbeatAssumption == /\ PROGRAM_WAIT \in Nat
                              /\ CLIENT_WAIT \in Nat
                              /\ HEARTBEAT_DELAY \in Nat \ {0}
                              /\ HEARTBEAT_MISS \in Nat \ {0}

VARIABLES
  \* the program
  main, nLoops, bInit, bRequest, bFileLength, bStop, bComplete, fp, file,
  pBeats, pDelay, pWait, toProgram, sentChunks, link, framed, debug,
  \* the Client object
  szQuery, nChunk, nLength, nVersion, cBeats, cDelay, cWait, closed, toClient,
  silent, spc, sChunk, sLength, last, announced, delivered

Program == INSTANCE ClientApp WITH
  HEARTBEAT_WAIT <- PROGRAM_WAIT, inq <- toProgram,
  nBeats <- pBeats, nDelay <- pDelay, nWait <- pWait

Client == INSTANCE ClientSession WITH
  HEARTBEAT_WAIT <- CLIENT_WAIT, inq <- toClient,
  nBeats <- cBeats, nDelay <- cDelay, nWait <- cWait,
  Files <- {szFilename}, Versions <- {0, 1}

program == <<main, nLoops, bInit, bRequest, bFileLength, bStop, bComplete, fp, file,
             pBeats, pDelay, pWait, toProgram, sentChunks, link, framed, debug>>
client  == <<szQuery, nChunk, nLength, nVersion, cBeats, cDelay, cWait, closed, toClient,
             silent, spc, sChunk, sLength, last, announced, delivered>>
vars    == <<program, client>>

TypeOK == Program!TypeOK /\ Client!TypeOK

\* The Client object is as Accept has left it.
Init == Program!Init /\ Client!Init

Connected == link # "none"

-----------------------------------------------------------------------------
(* What one side sends, the other has in its queue.                        *)

\* Mutant of ToClient: nobody looks whether the socket is closed.
ToClientAnyway(t) ==
  IF Len(toClient) < MaxQueue
    THEN /\ toClient' = Append(toClient, t)
         /\ UNCHANGED <<szQuery, nChunk, nLength, nVersion, cBeats, cDelay, cWait, closed,
                        silent, spc, sChunk, sLength, last, announced, delivered>>
    ELSE UNCHANGED client

ToClient(t) == IF closed THEN UNCHANGED client ELSE Client!PeerSends(t)

\* What the daemon sends does not arrive any more.
Lost == closed \/ link # "open" \/ Program!Ended

\* `sent` holds the telegram, or nothing.
ToProgram(sent) ==
  IF Lost THEN UNCHANGED program
  ELSE IF ~framed THEN UNCHANGED program \/ Program!DaemonMisread
  ELSE IF sent = {} THEN UNCHANGED program
  ELSE \E t \in sent : Program!DaemonSends(t)

\* With the data of a chunk all of it is with the program; with a beat behind the
\* header the first byte of its data seems to be.
ChunkToProgram(kinds) ==
  IF Lost \/ ~framed THEN ToProgram({})
  ELSE /\ Program!DaemonSendsChunk \/ Program!DaemonCompletes
       /\ toProgram'[Len(toProgram')].t \in kinds

-----------------------------------------------------------------------------
(* The program.                                                            *)

\* Mutant of VersionSent: the version the daemon knows.
VersionKnown == 1

VersionSent == 0

SendInit ==
  /\ Program!SendInit
  /\ ToClient([t |-> "I", v |-> VersionSent])

MainThread ==
  /\ Program!MainThread
  /\ main # "init"
  /\ UNCHANGED client

\* V is answered by the request. (What a name that comes in two parts does to the
\* Client is ClientSession's.)
ProgramReceives ==
  /\ Program!OnReceive
  /\ IF Head(toProgram).t = "V" /\ main' # "dead"
       THEN ToClient([t |-> "F", file |-> szFilename])
       ELSE UNCHANGED client

ProgramIdles ==
  /\ Program!OnIdle
  /\ IF Program!Beat /\ ~Program!BeatFails
       THEN ToClient([t |-> "H"])
       ELSE UNCHANGED client

ProgramSeesClose ==
  /\ Program!OnClosed
  /\ UNCHANGED client

-----------------------------------------------------------------------------
(* The daemon.                                                             *)

\* ProcessInit, and ProcessFileRequest when it refuses, send V or Q.
Answer == IF Head(toClient).t = "I" \/ (toClient' = toClient /\ ~closed')
            THEN {last'} ELSE {}

ClientReceives ==
  /\ Connected
  /\ Client!OnReceive
  /\ ToProgram(Answer)

\* A beat that comes between the two Sends of a chunk; a second one is no more
\* than another byte of what has arrived.
BeatInChunk == IF last = "C" THEN ChunkToProgram({"Cpart"}) ELSE UNCHANGED program

ClientIdles ==
  /\ Connected
  /\ Client!OnIdle
  /\ IF ~(Client!Beat \/ Client!WaitFails) THEN ToProgram({})
     ELSE IF spc = "data" THEN BeatInChunk
     ELSE ToProgram({last'})

\* The data finds its header just sent, or a beat sent since.
ServerServes ==
  /\ Connected
  /\ Client!ServerThread
  /\ IF delivered' # delivered
       THEN ChunkToProgram({IF last = "C" THEN "C" ELSE "Cmixed"})
       ELSE ToProgram(IF announced' # announced THEN {"L"} ELSE {})

-----------------------------------------------------------------------------
(* The connection.                                                         *)

CloseArrives ==
  /\ closed
  /\ Program!DaemonLeaves
  /\ link' = "closed"
  /\ UNCHANGED client

ProcessEnds ==
  /\ Connected
  /\ Program!Ended
  /\ Client!PeerCloses
  /\ UNCHANGED program

WgetHoldsSocket ==
  /\ Connected
  /\ main = "wget"
  /\ Client!PeerFallsSilent
  /\ UNCHANGED program

Next ==
  \/ MainThread \/ SendInit
  \/ ProgramReceives \/ ProgramIdles \/ ProgramSeesClose
  \/ ClientReceives \/ ClientIdles \/ ServerServes
  \/ CloseArrives \/ ProcessEnds \/ WgetHoldsSocket

\* All threads are scheduled, telegrams arrive, seconds pass.
Spec ==
  /\ Init /\ [][Next]_vars
  /\ WF_vars(MainThread) /\ WF_vars(SendInit)
  /\ WF_vars(ProgramReceives) /\ WF_vars(ProgramIdles) /\ WF_vars(ProgramSeesClose)
  /\ WF_vars(ClientReceives) /\ WF_vars(ClientIdles) /\ WF_vars(ServerServes)
  /\ WF_vars(CloseArrives)

-----------------------------------------------------------------------------
(* Properties.                                                             *)

\* As built, the two never transfer anything: the program announces version 0,
\* the daemon serves none but 1, so no file is ever asked for, announced, sent
\* or written, in whatever order telegrams, seconds and closes come.
NothingFetched ==
  /\ ~bRequest /\ szQuery = NULL
  /\ announced = <<>> /\ delivered = <<>> /\ file = <<>>

\* "If the daemon has the file, we will get it from there" (pacsrvclient.cpp:329),
\* "if the file is not on the network, then we will return a false" (354): as long as
\* the daemon is there, neither side has closed and no time has run out, the program
\* neither reports success nor turns into wget before it has asked for the file.
AskedFirst ==
  (/\ main \in {"success", "wget"}
   /\ link = "open" /\ ~closed
   /\ pWait <= PROGRAM_WAIT /\ pBeats <= HEARTBEAT_MISS)
    => bRequest

\* What the models of the two sides assume of each other is true of the other
\* side: the program does what ClientApp says it does against an arbitrary daemon,
\* the Client object what ClientSession says it does against an arbitrary peer.
ProgramImplemented == Program!Init /\ [][Program!Next]_(Program!vars)

ClientImplemented == Client!Init /\ [][Client!Next]_(Client!vars)

PartsImplemented == ProgramImplemented /\ ClientImplemented

\* Every program ends, and every Client object that has served one is released,
\* also if wget inherits the socket.
BothEnd == <>Program!Ended /\ [](Connected => <>closed)
=============================================================================
