--------------------------- MODULE ExchangeProofs ---------------------------
(***************************************************************************)
(* Theorems about Exchange, for any queue, any number of chunks and any    *)
(* heartbeat settings.                                                     *)
(*                                                                         *)
(* First, either side is an arbitrary peer to the other: what the program  *)
(* does in Exchange is what ClientApp has it do, what the Client object    *)
(* does is what ClientSession has it do. All that is proved of the two     *)
(* alone is therefore true of them together. Of the version announced only *)
(* that it is 0 or 1 is used.                                              *)
(*                                                                         *)
(* Second, the two, as built, transfer nothing. All the program can say is *)
(* INIT with version 0 and beats, all the daemon can answer is Q and       *)
(* beats; either keeps the other so.                                       *)
(***************************************************************************)
EXTENDS Exchange, TLAPS

ProgramProofs == INSTANCE ClientAppProofs WITH
  HEARTBEAT_WAIT <- PROGRAM_WAIT, inq <- toProgram,
  nBeats <- pBeats, nDelay <- pDelay, nWait <- pWait

ClientProofs == INSTANCE ClientSessionProofs WITH
  HEARTBEAT_WAIT <- CLIENT_WAIT, inq <- toClient,
  nBeats <- cBeats, nDelay <- cDelay, nWait <- cWait,
  Files <- {szFilename}, Versions <- {0, 1}

-----------------------------------------------------------------------------
(* The steps of the composition, seen from the program.                    *)

LEMMA ToProgramStep ==
  ASSUME NEW sent \in SUBSET {"V", "Q", "H", "L"}, ToProgram(sent)
  PROVE  [Program!Next]_(Program!vars)
  <1>1. CASE UNCHANGED program
    BY <1>1 DEF program, Program!vars, Program!status, Program!output, Program!beats,
       Program!daemon
  <1>2. CASE \E t \in sent : Program!DaemonSends(t)
    <2>1. \E t \in {"V", "H", "L", "Q", "C0"} : Program!DaemonSends(t)
      BY <1>2
    <2> QED
      BY <2>1 DEF Program!Next
  <1>3. CASE Program!DaemonMisread
    BY <1>3 DEF Program!Next
  <1> QED
    BY <1>1, <1>2, <1>3 DEF ToProgram

LEMMA ChunkToProgramStep ==
  ASSUME NEW kinds, ChunkToProgram(kinds)
  PROVE  [Program!Next]_(Program!vars)
  <1>1. CASE Lost \/ ~framed
    BY <1>1, ToProgramStep DEF ChunkToProgram
  <1>2. CASE ~(Lost \/ ~framed)
    BY <1>2 DEF ChunkToProgram, Program!Next
  <1> QED
    BY <1>1, <1>2

LEMMA ProgramUntouched ==
  ASSUME UNCHANGED program
  PROVE  UNCHANGED Program!vars
  BY DEF program, Program!vars, Program!status, Program!output, Program!beats, Program!daemon

\* The answer to a telegram is V or Q.
LEMMA AnswerTyped ==
  ASSUME toClient \in Seq(Client!Telegrams), Client!OnReceive
  PROVE  Answer \in SUBSET {"V", "Q", "H", "L"}
  <1>1. CASE Client!ReceiveInit
    BY <1>1 DEF Answer, Client!ReceiveInit
  <1>2. CASE Client!RefuseFile
    BY <1>2 DEF Answer, Client!RefuseFile
  <1>3. CASE \/ Client!ReceiveBeat \/ Client!AcceptFile \/ Client!LosePartialFile
    <2>1. toClient # <<>> /\ toClient' = Tail(toClient) /\ Head(toClient).t # "I"
      BY <1>3 DEF Client!ReceiveBeat, Client!AcceptFile, Client!LosePartialFile,
         Client!Receives, Client!Consume
    <2>2. toClient' # toClient
      BY <2>1
    <2> QED
      BY <2>1, <2>2 DEF Answer
  <1>4. CASE Client!ReceiveUnexpected
    BY <1>4 DEF Answer, Client!ReceiveUnexpected, Client!Receives
  <1> QED
    BY <1>1, <1>2, <1>3, <1>4 DEF Client!OnReceive

LEMMA ProgramStep ==
  ASSUME toClient \in Seq(Client!Telegrams), [Next]_vars
  PROVE  [Program!Next]_(Program!vars)
  <1>1. CASE ClientReceives
    BY <1>1, AnswerTyped, ToProgramStep DEF ClientReceives
  <1>2. CASE ClientIdles
    <2>1. Client!Beat \/ Client!WaitFails => {last'} \in SUBSET {"V", "Q", "H", "L"}
      BY <1>2 DEF ClientIdles, Client!OnIdle
    <2>2. CASE ToProgram({})
      BY <2>2, ToProgramStep
    <2>3. CASE (Client!Beat \/ Client!WaitFails) /\ ToProgram({last'})
      BY <2>1, <2>3, ToProgramStep
    <2>4. CASE BeatInChunk
      BY <2>4, ChunkToProgramStep, ProgramUntouched DEF BeatInChunk
    <2> QED
      BY <1>2, <2>2, <2>3, <2>4 DEF ClientIdles
  <1>3. CASE ServerServes
    BY <1>3, ToProgramStep, ChunkToProgramStep DEF ServerServes
  <1>4. CASE ProcessEnds \/ WgetHoldsSocket \/ UNCHANGED vars
    BY <1>4, ProgramUntouched DEF ProcessEnds, WgetHoldsSocket, vars
  <1>5. CASE MainThread \/ SendInit
    BY <1>5 DEF MainThread, SendInit, Program!Next, Program!MainThread
  <1>6. CASE ProgramReceives \/ ProgramIdles \/ ProgramSeesClose \/ CloseArrives
    BY <1>6 DEF ProgramReceives, ProgramIdles, ProgramSeesClose, CloseArrives, Program!Next
  <1> QED
    BY <1>1, <1>2, <1>3, <1>4, <1>5, <1>6 DEF Next

-----------------------------------------------------------------------------
(* The steps of the composition, seen from the Client object.              *)

LEMMA ClientUntouched ==
  ASSUME UNCHANGED client
  PROVE  UNCHANGED Client!vars
  BY DEF client, Client!vars, Client!query, Client!beats, Client!server, Client!stream

LEMMA ToClientStep ==
  ASSUME NEW t \in Client!Telegrams, ToClient(t)
  PROVE  [Client!Next]_(Client!vars)
  BY ClientUntouched DEF ToClient, Client!Next

LEMMA ClientStep ==
  ASSUME [Next]_vars
  PROVE  [Client!Next]_(Client!vars)
  <1>1. CASE SendInit
    <2>1. [t |-> "I", v |-> VersionSent] \in Client!Telegrams
      BY DEF VersionSent, Client!Telegrams
    <2> QED
      BY <1>1, <2>1, ToClientStep DEF SendInit
  <1>2. CASE ProgramReceives
    <2>1. [t |-> "F", file |-> szFilename] \in Client!Telegrams
      BY DEF Client!Telegrams
    <2> QED
      BY <1>2, <2>1, ToClientStep, ClientUntouched DEF ProgramReceives
  <1>3. CASE ProgramIdles
    <2>1. [t |-> "H"] \in Client!Telegrams
      BY DEF Client!Telegrams
    <2> QED
      BY <1>3, <2>1, ToClientStep, ClientUntouched DEF ProgramIdles
  <1>4. CASE MainThread \/ ProgramSeesClose \/ CloseArrives \/ UNCHANGED vars
    BY <1>4, ClientUntouched DEF MainThread, ProgramSeesClose, CloseArrives, vars
  <1>5. CASE ClientReceives \/ ClientIdles \/ ServerServes \/ ProcessEnds \/ WgetHoldsSocket
    BY <1>5 DEF ClientReceives, ClientIdles, ServerServes, ProcessEnds, WgetHoldsSocket,
       Client!Next
  <1> QED
    BY <1>1, <1>2, <1>3, <1>4, <1>5 DEF Next

-----------------------------------------------------------------------------
(* Both sides together. ProgramProofs and ClientProofs instantiate the same  *)
(* modules as Program and Client do, with the same substitution.            *)

LEMMA SameProgram ==
  /\ Program!Init => ProgramProofs!Init
  /\ ProgramProofs!TypeOK => Program!TypeOK
  /\ ProgramProofs!FileIsPrefix => Program!FileIsPrefix
  BY DEF Program!Init, ProgramProofs!Init, Program!TypeOK, ProgramProofs!TypeOK,
     Program!FileIsPrefix, ProgramProofs!FileIsPrefix, Program!Telegrams,
     ProgramProofs!Telegrams

LEMMA SameProgramStep ==
  [Program!Next]_(Program!vars) => [ProgramProofs!Next]_(ProgramProofs!vars)
  BY DEF
       Program!Telegrams, Program!vars, Program!status, Program!beats, Program!output,
       Program!daemon, Program!Next, Program!Ended, Program!Dies, Program!MainThread,
       Program!ParseArgs, Program!LoadConfig, Program!PrepareFilename, Program!Connect,
       Program!SendInit, Program!SetInit, Program!DisplayStatus, Program!CountTurn,
       Program!MustLeave, Program!Loop, Program!LeaveLoop, Program!CloseFile,
       Program!DownloadUrl, Program!Connected, Program!Receives, Program!Consume,
       Program!ReceiveTooEarly, Program!SendFileRequest, Program!ReceiveBeat,
       Program!ProcessFileLength, Program!SecondLength, Program!Expected,
       Program!AllThere, Program!ProcessChunk, Program!RefuseChunk, Program!ReceiveQuit,
       Program!OnReceive, Program!OnClosed, Program!CountTo, Program!Waits,
       Program!WaitFails, Program!Beat, Program!MissedBeats, Program!BeatFails,
       Program!OnIdle, Program!Arrives, Program!DaemonSends, Program!DaemonSendsChunk,
       Program!DaemonCompletes, Program!DaemonMisread, Program!DaemonLeaves,
       ProgramProofs!Telegrams, ProgramProofs!vars, ProgramProofs!status,
       ProgramProofs!beats, ProgramProofs!output, ProgramProofs!daemon,
       ProgramProofs!Next, ProgramProofs!Ended, ProgramProofs!Dies,
       ProgramProofs!MainThread, ProgramProofs!ParseArgs, ProgramProofs!LoadConfig,
       ProgramProofs!PrepareFilename, ProgramProofs!Connect, ProgramProofs!SendInit,
       ProgramProofs!SetInit, ProgramProofs!DisplayStatus, ProgramProofs!CountTurn,
       ProgramProofs!MustLeave, ProgramProofs!Loop, ProgramProofs!LeaveLoop,
       ProgramProofs!CloseFile, ProgramProofs!DownloadUrl, ProgramProofs!Connected,
       ProgramProofs!Receives, ProgramProofs!Consume, ProgramProofs!ReceiveTooEarly,
       ProgramProofs!SendFileRequest, ProgramProofs!ReceiveBeat,
       ProgramProofs!ProcessFileLength, ProgramProofs!SecondLength,
       ProgramProofs!Expected, ProgramProofs!AllThere, ProgramProofs!ProcessChunk,
       ProgramProofs!RefuseChunk, ProgramProofs!ReceiveQuit, ProgramProofs!OnReceive,
       ProgramProofs!OnClosed, ProgramProofs!CountTo, ProgramProofs!Waits,
       ProgramProofs!WaitFails, ProgramProofs!Beat, ProgramProofs!MissedBeats,
       ProgramProofs!BeatFails, ProgramProofs!OnIdle, ProgramProofs!Arrives,
       ProgramProofs!DaemonSends, ProgramProofs!DaemonSendsChunk,
       ProgramProofs!DaemonCompletes, ProgramProofs!DaemonMisread,
       ProgramProofs!DaemonLeaves

LEMMA SameClient ==
  /\ Client!Init => ClientProofs!Init
  /\ ClientProofs!TypeOK => Client!TypeOK
  /\ ClientProofs!AssertionsHold => Client!AssertionsHold
  BY DEF Client!Init, ClientProofs!Init, Client!TypeOK, ClientProofs!TypeOK,
     Client!AssertionsHold, ClientProofs!AssertionsHold, Client!Telegrams,
     ClientProofs!Telegrams, Client!Items, ClientProofs!Items

LEMMA SameClientStep ==
  [Client!Next]_(Client!vars) => [ClientProofs!Next]_(ClientProofs!vars)
  BY DEF
       Client!Telegrams, Client!vars, Client!query, Client!beats, Client!server,
       Client!stream, Client!Next, Client!PeerSends, Client!PeerCompletes,
       Client!PeerCloses, Client!PeerFallsSilent, Client!LockFree, Client!Receives,
       Client!Consume, Client!Fresh, Client!ReceiveInit, Client!ReceiveBeat,
       Client!MayAsk, Client!AcceptFile, Client!LosePartialFile, Client!RefuseFile,
       Client!ReceiveUnexpected, Client!OnReceive, Client!Waits, Client!WaitFails,
       Client!Beat, Client!MissedBeats, Client!BeatFails, Client!OnIdle,
       Client!StartServing, Client!WantedChunk, Client!QueryData, Client!RunQueryMiss,
       Client!RunQueryHit, Client!MustAnnounce, Client!SendLength, Client!SendHeader,
       Client!SendData, Client!ServerThread,
       ClientProofs!Telegrams, ClientProofs!vars, ClientProofs!query, ClientProofs!beats,
       ClientProofs!server, ClientProofs!stream, ClientProofs!Next,
       ClientProofs!PeerSends, ClientProofs!PeerCompletes, ClientProofs!PeerCloses,
       ClientProofs!PeerFallsSilent, ClientProofs!LockFree, ClientProofs!Receives,
       ClientProofs!Consume, ClientProofs!Fresh, ClientProofs!ReceiveInit,
       ClientProofs!ReceiveBeat, ClientProofs!MayAsk, ClientProofs!AcceptFile,
       ClientProofs!LosePartialFile, ClientProofs!RefuseFile,
       ClientProofs!ReceiveUnexpected, ClientProofs!OnReceive, ClientProofs!Waits,
       ClientProofs!WaitFails, ClientProofs!Beat, ClientProofs!MissedBeats,
       ClientProofs!BeatFails, ClientProofs!OnIdle, ClientProofs!StartServing,
       ClientProofs!WantedChunk, ClientProofs!QueryData, ClientProofs!RunQueryMiss,
       ClientProofs!RunQueryHit, ClientProofs!MustAnnounce, ClientProofs!SendLength,
       ClientProofs!SendHeader, ClientProofs!SendData, ClientProofs!ServerThread

LEMMA SameStream ==
  /\ Client!Init => Client!Stream!Init
  /\ [ClientProofs!Stream!Next]_(ClientProofs!Stream!vars)
       => [Client!Stream!Next]_(Client!Stream!vars)
  BY DEF Client!Init, Client!Stream!Init, Client!Stream!Next, Client!Stream!vars,
     Client!Stream!Ask, Client!Stream!Announce, Client!Stream!Deliver,
     ClientProofs!Stream!Next, ClientProofs!Stream!vars, ClientProofs!Stream!Ask,
     ClientProofs!Stream!Announce, ClientProofs!Stream!Deliver

\* The invariants the two sides have alone.
SidesInv == ProgramProofs!IInv /\ ClientProofs!IInv /\ ClientProofs!TInv

LEMMA InitSidesInv == Init => SidesInv
  BY NamesAssumption, LengthsAssumption, BoundsAssumption, HeartbeatAssumption,
     SameProgram, SameClient, ProgramProofs!InitIInv, ClientProofs!InitIInv,
     ClientProofs!InitTInv
  DEF Init, SidesInv

LEMMA SidesTyped == SidesInv => TypeOK /\ toClient \in Seq(Client!Telegrams)
  <1>1. SidesInv => TypeOK
    BY SameProgram, SameClient DEF SidesInv, TypeOK, ProgramProofs!IInv, ClientProofs!TInv
  <1> QED
    BY <1>1 DEF TypeOK, Client!TypeOK

LEMMA NextSidesInv == SidesInv /\ [Next]_vars => SidesInv'
  <1> SUFFICES ASSUME SidesInv, [Next]_vars PROVE SidesInv'
    OBVIOUS
  <1>1. [ProgramProofs!Next]_(ProgramProofs!vars)
    BY ProgramStep, SidesTyped, SameProgramStep
  <1>2. [ClientProofs!Next]_(ClientProofs!vars)
    BY ClientStep, SameClientStep
  <1>3. ProgramProofs!IInv'
    BY <1>1, ProgramProofs!NextIInv, BoundsAssumption, HeartbeatAssumption DEF SidesInv
  <1>4. ClientProofs!IInv' /\ ClientProofs!TInv'
    BY <1>2, ClientProofs!NextIInv, ClientProofs!NextTInv, NamesAssumption,
       LengthsAssumption, BoundsAssumption, HeartbeatAssumption
    DEF SidesInv
  <1> QED
    BY <1>3, <1>4 DEF SidesInv

\* Every reachable state of the two together is well typed: no counter of either
\* passes its limit (pacsrvclient.cpp:586-618, client.cpp:335-367).
THEOREM TypeCorrect == Spec => []TypeOK
  BY InitSidesInv, NextSidesInv, SidesTyped, PTL DEF Spec

\* The program, served by the Client object, is the program ClientApp describes.
THEOREM ProgramIsClientApp == Spec => ProgramImplemented
  <1>1. SidesInv /\ [Next]_vars => [Program!Next]_(Program!vars)
    BY SidesTyped, ProgramStep
  <1>2. Init => Program!Init
    BY DEF Init
  <1> QED
    BY <1>1, <1>2, InitSidesInv, NextSidesInv, PTL DEF Spec, ProgramImplemented

\* The Client object, asked by the program, is the one ClientSession describes.
THEOREM ClientIsClientSession == Spec => ClientImplemented
  <1>1. [Next]_vars => [Client!Next]_(Client!vars)
    BY ClientStep
  <1>2. Init => Client!Init
    BY DEF Init
  <1> QED
    BY <1>1, <1>2, PTL DEF Spec, ClientImplemented

\* The composition implements both of its parts: neither does to the other what the
\* other's model leaves out (pacsrvclient.cpp:477-572, client.cpp:109-162).
THEOREM Implemented == Spec => PartsImplemented
  BY ProgramIsClientApp, ClientIsClientSession DEF PartsImplemented

\* What was proved of either side alone is true of the two together, whichever of
\* the versions 0 and 1 the program announces and wherever the daemon's beats fall:
\* the assertions hold, the file is a prefix of the package up to the first chunk
\* with a beat in it, and the chunks are sent as a ChunkStream.
THEOREM Inherited ==
  Spec => [](Client!AssertionsHold /\ Program!FileIsPrefix) /\ Client!ImplementsStream
  <1>1. SidesInv => Client!AssertionsHold /\ Program!FileIsPrefix
    <2>1. ProgramProofs!IInv => ProgramProofs!FileIsPrefix
      BY ProgramProofs!PrefixInv, BoundsAssumption, HeartbeatAssumption
    <2>2. ClientProofs!IInv => ClientProofs!AssertionsHold
      BY DEF ClientProofs!IInv
    <2> QED
      BY <2>1, <2>2, SameProgram, SameClient DEF SidesInv
  <1>2. SidesInv /\ [Next]_vars => [Client!Stream!Next]_(Client!Stream!vars)
    <2>1. SidesInv /\ [ClientProofs!Next]_(ClientProofs!vars)
            => [ClientProofs!Stream!Next]_(ClientProofs!Stream!vars)
      BY ClientProofs!NextIInv, NamesAssumption, LengthsAssumption, BoundsAssumption,
         HeartbeatAssumption
      DEF SidesInv
    <2> QED
      BY <2>1, ClientStep, SameClientStep, SameStream
  <1>3. Init => Client!Stream!Init
    BY SameStream DEF Init
  <1> QED
    BY <1>1, <1>2, <1>3, InitSidesInv, NextSidesInv, PTL
    DEF Spec, Client!ImplementsStream, Client!Stream!Spec

-----------------------------------------------------------------------------
(* As built, the two transfer nothing.                                     *)

Said == [t : {"I"}, v : {0}] \cup [t : {"H"}]

Answers == [t : {"Q", "H"}]

Quiet ==
  /\ toClient \in Seq(Said)
  /\ toProgram \in Seq(Answers)
  /\ nVersion = 0
  /\ spc \in {"scan", "ask"}
  /\ framed = TRUE

IInv == Quiet /\ NothingFetched

LEMMA InitIInv == Init => IInv
  BY DEF Init, Program!Init, Client!Init, IInv, Quiet, NothingFetched

-----------------------------------------------------------------------------
(* What arrives.                                                           *)

LEMMA ToClientIInv ==
  ASSUME IInv, NEW t \in Said, ToClient(t),
         UNCHANGED <<bRequest, file, framed>>, toProgram' \in Seq(Answers)
  PROVE  IInv'
  <1>1. toClient' \in Seq(Said)
    BY DEF ToClient, client, Client!PeerSends, IInv, Quiet
  <1> QED
    BY <1>1 DEF ToClient, client, Client!PeerSends, Client!query, Client!server,
       Client!stream, IInv, Quiet, NothingFetched

LEMMA ToProgramIInv ==
  ASSUME IInv, NEW sent \in SUBSET {"Q", "H"}, ToProgram(sent),
         toClient' \in Seq(Said), nVersion' = 0, spc' \in {"scan", "ask"},
         UNCHANGED <<szQuery, announced, delivered>>
  PROVE  IInv'
  <1>1. CASE UNCHANGED program
    BY <1>1 DEF program, IInv, Quiet, NothingFetched
  <1>2. CASE \E t \in sent : Program!DaemonSends(t)
    <2>1. PICK t \in {"Q", "H"} : Program!DaemonSends(t)
      BY <1>2
    <2>2. toProgram' = Append(toProgram, [t |-> t])
      BY <2>1 DEF Program!DaemonSends, Program!Arrives
    <2>3. [t |-> t] \in Answers
      BY DEF Answers
    <2>4. toProgram' \in Seq(Answers)
      BY <2>2, <2>3 DEF IInv, Quiet
    <2>5. UNCHANGED <<bRequest, file, framed>>
      BY <2>1 DEF Program!DaemonSends, Program!status, Program!output, Program!daemon
    <2> QED
      BY <2>4, <2>5 DEF IInv, Quiet, NothingFetched
  <1> QED
    BY <1>1, <1>2 DEF ToProgram, IInv, Quiet

-----------------------------------------------------------------------------
(* The program.                                                            *)

LEMMA MainThreadIInv ==
  ASSUME IInv, Program!MainThread
  PROVE  UNCHANGED <<bRequest, file, framed, toProgram>>
  BY DEF Program!MainThread, Program!ParseArgs, Program!LoadConfig, Program!PrepareFilename,
         Program!Connect, Program!SendInit, Program!SetInit, Program!Loop, Program!LeaveLoop,
         Program!CloseFile, Program!DownloadUrl, Program!status, Program!output,
         Program!daemon

\* No telegram that would change anything comes.
LEMMA ProgramReceivesQuiet ==
  ASSUME IInv, Program!OnReceive
  PROVE  /\ UNCHANGED <<bRequest, file, framed>>
         /\ toProgram' \in Seq(Answers)
         /\ Head(toProgram).t # "V"
  <1>1. toProgram # <<>>
    BY DEF Program!OnReceive, Program!ReceiveTooEarly, Program!SendFileRequest,
       Program!ReceiveBeat, Program!ProcessFileLength, Program!SecondLength,
       Program!ProcessChunk, Program!RefuseChunk, Program!ReceiveQuit, Program!Receives
  <1>2. Head(toProgram) \in Answers /\ Tail(toProgram) \in Seq(Answers)
    BY <1>1 DEF IInv, Quiet
  <1>3. Head(toProgram).t \in {"Q", "H"}
    BY <1>2 DEF Answers
  <1>4. Program!ReceiveTooEarly \/ Program!ReceiveBeat \/ Program!ReceiveQuit
    BY <1>3 DEF Program!OnReceive, Program!SendFileRequest, Program!ProcessFileLength,
       Program!SecondLength, Program!ProcessChunk, Program!RefuseChunk, Program!Receives
  <1>5. toProgram' \in {toProgram, Tail(toProgram)} /\ UNCHANGED <<bRequest, file, framed>>
    BY <1>4 DEF Program!ReceiveTooEarly, Program!ReceiveBeat, Program!ReceiveQuit,
       Program!Consume, Program!status, Program!output, Program!daemon
  <1>6. toProgram' \in Seq(Answers)
    <2>1. CASE toProgram' = toProgram
      BY <2>1 DEF IInv, Quiet
    <2>2. CASE toProgram' = Tail(toProgram)
      BY <1>2, <2>2
    <2> QED
      BY <1>5, <2>1, <2>2
  <1> QED
    BY <1>3, <1>5, <1>6

LEMMA ProgramIInv ==
  ASSUME IInv,
         MainThread \/ SendInit \/ ProgramReceives \/ ProgramIdles \/ ProgramSeesClose
  PROVE  IInv'
  <1> DEFINE Same == UNCHANGED <<bRequest, file, framed>> /\ toProgram' \in Seq(Answers)
  <1>0. [t |-> "I", v |-> VersionSent] \in Said /\ [t |-> "H"] \in Said
    BY DEF Said, VersionSent
  <1>1. ASSUME Same, UNCHANGED client PROVE IInv'
    BY <1>1 DEF client, IInv, Quiet, NothingFetched
  <1>2. CASE MainThread
    <2>1. Same
      BY <1>2, MainThreadIInv DEF MainThread, IInv, Quiet
    <2> QED
      BY <1>1, <1>2, <2>1 DEF MainThread
  <1>3. CASE SendInit
    <2>1. Same
      BY <1>3, MainThreadIInv DEF SendInit, Program!MainThread, IInv, Quiet
    <2> QED
      BY <1>0, <1>3, <2>1, ToClientIInv DEF SendInit
  <1>4. CASE ProgramReceives
    BY <1>1, <1>4, ProgramReceivesQuiet DEF ProgramReceives
  <1>5. CASE ProgramIdles
    <2>1. Same
      BY <1>5 DEF ProgramIdles, Program!OnIdle, Program!output, Program!daemon, IInv, Quiet
    <2> QED
      BY <1>0, <1>1, <1>5, <2>1, ToClientIInv DEF ProgramIdles
  <1>6. CASE ProgramSeesClose
    <2>1. Same
      BY <1>6 DEF ProgramSeesClose, Program!OnClosed, Program!output, Program!daemon,
         IInv, Quiet
    <2> QED
      BY <1>1, <1>6, <2>1 DEF ProgramSeesClose
  <1> QED
    BY <1>2, <1>3, <1>4, <1>5, <1>6

-----------------------------------------------------------------------------
(* The daemon.                                                             *)

LEMMA ClientReceivesIInv == ASSUME IInv, ClientReceives PROVE IInv'
  <1> USE DEF Client!query, Client!server, Client!stream, Client!Consume
  <1>1. toClient # <<>> /\ Client!OnReceive
    BY DEF ClientReceives, Client!OnReceive, Client!ReceiveInit, Client!ReceiveBeat,
       Client!AcceptFile, Client!LosePartialFile, Client!RefuseFile,
       Client!ReceiveUnexpected, Client!Receives
  <1>2. Head(toClient) \in Said /\ Tail(toClient) \in Seq(Said) /\ Tail(toClient) # toClient
    BY <1>1 DEF IInv, Quiet
  <1>3. /\ Head(toClient).t \in {"I", "H"}
        /\ Head(toClient).t = "I" => Head(toClient).v = 0
    BY <1>2 DEF Said
  <1>4. CASE Client!ReceiveInit
    <2>1. nVersion' = 0 /\ last' = "Q"
      BY <1>3, <1>4 DEF Client!ReceiveInit, Client!Receives, Client!Fresh, IInv, Quiet
    <2>2. /\ toClient' \in Seq(Said) /\ spc' \in {"scan", "ask"}
          /\ UNCHANGED <<szQuery, announced, delivered>>
      BY <1>2, <1>4 DEF Client!ReceiveInit, IInv, Quiet
    <2>3. Answer \in SUBSET {"Q", "H"}
      BY <2>1 DEF Answer
    <2> QED
      BY <2>1, <2>2, <2>3, ToProgramIInv DEF ClientReceives
  <1>5. CASE Client!ReceiveBeat
    <2>1. /\ toClient' = Tail(toClient) /\ nVersion' = 0 /\ spc' \in {"scan", "ask"}
          /\ UNCHANGED <<szQuery, announced, delivered>>
          /\ Head(toClient).t # "I"
      BY <1>5 DEF Client!ReceiveBeat, Client!Receives, IInv, Quiet
    <2>2. Answer = {}
      BY <1>2, <2>1 DEF Answer
    <2> QED
      BY <1>2, <2>1, <2>2, ToProgramIInv DEF ClientReceives
  <1> QED
    BY <1>1, <1>3, <1>4, <1>5 DEF Client!OnReceive, Client!AcceptFile,
       Client!LosePartialFile, Client!RefuseFile, Client!ReceiveUnexpected, Client!Receives

LEMMA ClientIdlesIInv == ASSUME IInv, ClientIdles PROVE IInv'
  <1>1. /\ toClient' = toClient /\ nVersion' = 0 /\ spc' \in {"scan", "ask"}
        /\ UNCHANGED <<szQuery, announced, delivered>>
    BY DEF ClientIdles, Client!OnIdle, Client!query, Client!server, Client!stream, IInv, Quiet
  <1>2. Client!Beat \/ Client!WaitFails => last' \in {"Q", "H"}
    BY DEF ClientIdles, Client!OnIdle
  <1>3. ToProgram({}) \/ ((Client!Beat \/ Client!WaitFails) /\ ToProgram({last'}))
    <2>1. spc # "data"
      BY DEF IInv, Quiet
    <2> QED
      BY <2>1 DEF ClientIdles
  <1>4. PICK sent \in SUBSET {"Q", "H"} : ToProgram(sent)
    BY <1>2, <1>3
  <1> QED
    BY <1>1, <1>4, ToProgramIInv DEF IInv, Quiet

\* The server thread finds no query, and asks the Network for nothing.
LEMMA ServerServesIInv == ASSUME IInv, ServerServes PROVE IInv'
  <1>1. Client!StartServing \/ Client!QueryData
    BY DEF ServerServes, Client!ServerThread, Client!RunQueryMiss, Client!RunQueryHit,
       Client!SendLength, Client!SendHeader, Client!SendData, IInv, Quiet
  <1>2. /\ toClient' = toClient /\ nVersion' = 0 /\ spc' \in {"scan", "ask"}
        /\ UNCHANGED <<szQuery, announced, delivered>>
    BY <1>1 DEF Client!StartServing, Client!QueryData, Client!query, Client!stream,
       IInv, Quiet, NothingFetched
  <1>3. ToProgram({})
    BY <1>2 DEF ServerServes
  <1> QED
    BY <1>2, <1>3, ToProgramIInv DEF IInv, Quiet

-----------------------------------------------------------------------------
LEMMA NextIInv == IInv /\ [Next]_vars => IInv'
  <1> SUFFICES ASSUME IInv, [Next]_vars PROVE IInv'
    OBVIOUS
  <1>1. CASE CloseArrives
    BY <1>1 DEF CloseArrives, Program!DaemonLeaves, Program!status, Program!output, client,
       IInv, Quiet, NothingFetched
  <1>2. CASE ProcessEnds \/ WgetHoldsSocket
    <2>1. UNCHANGED <<szQuery, nVersion, toClient, spc, announced, delivered>>
      BY <1>2 DEF ProcessEnds, WgetHoldsSocket, Client!PeerCloses, Client!PeerFallsSilent,
         Client!query, Client!server, Client!stream
    <2>2. UNCHANGED <<bRequest, file, toProgram, framed>>
      BY <1>2 DEF ProcessEnds, WgetHoldsSocket, program
    <2> QED
      BY <2>1, <2>2 DEF IInv, Quiet, NothingFetched
  <1>3. CASE UNCHANGED vars
    BY <1>3 DEF vars, program, client, IInv, Quiet, NothingFetched
  <1> QED
    BY <1>1, <1>2, <1>3, ProgramIInv, ClientReceivesIInv, ClientIdlesIInv,
       ServerServesIInv DEF Next

\* The program announces a version the daemon does not serve (pacsrvclient.cpp:541,
\* client.cpp:253): in no behaviour is a file asked for, sent or written.
THEOREM NoTransfer == Spec => []NothingFetched
  <1>1. IInv => NothingFetched
    BY DEF IInv
  <1> QED
    BY <1>1, InitIInv, NextIInv, PTL DEF Spec
=============================================================================
