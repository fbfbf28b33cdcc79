----------------------------- MODULE QueryPath -----------------------------
(***************************************************************************)
(* How a package gets from the file list to a client program or a peer:    *)
(* FileList and FileInfo (src/src/filelist.cpp, fileinfo.cpp), RunQuery    *)
(* and the network thread's use of them (network.cpp), and the transfer    *)
(* telegrams L, A, N, C, D, K of the Nodes (node.cpp). The actors:         *)
(*                                                                         *)
(*   - client programs, which ask for one file each and leave;             *)
(*   - the server thread, which asks the Network for the chunk a client    *)
(*     waits for (RunQuery, under the Network lock) and sends it;          *)
(*   - the network thread: one pass of ProcessNodes under the lock, the    *)
(*     removal of closed nodes, and, the lock let go and taken again, the  *)
(*     purge of the file list;                                             *)
(*   - peers and the Nodes' socket threads: a telegram is handled in one   *)
(*     step, also between two getters the network thread calls, because    *)
(*     these take no lock.                                                 *)
(*                                                                         *)
(* SetFile stores no name, and nothing ever allocates a chunk list or      *)
(* counts a use. With ASSERT compiled in (`debug`) or not, most paths then *)
(* end the process; the properties say what holds up to that point. Names  *)
(* are not modelled: a lookup finds an empty list or ends the process, and *)
(* whether a file is in pacman's cache may change between any two looks.   *)
(* A telegram that its Node will never take (a chunk for which it has not  *)
(* asked, a second request for one, an L where the uninitialised           *)
(* _szLocalFile is not null) is one the peer might as well not have sent:  *)
(* the peer is free to say no more.                                        *)
(* Left to other modules: slots and order of the clients (ClientTable),    *)
(* links of the nodes (NodeList), all that concerns mailboxes, addresses   *)
(* and heartbeats (NodePeer).                                              *)
(***************************************************************************)
EXTENDS Integers, Sequences

CONSTANTS
  Clients,   \* slots of the Server's table
  Nodes,     \* addresses of Node objects
  Talking,   \* bound: those whose peers send telegrams
  NULL,      \* the null pointer
  MaxChunk   \* bound: chunk numbers peers ask for and send

ASSUME NullAssumption  == NULL \notin Clients \cup Nodes
ASSUME TalkAssumption  == Talking \subseteq Nodes
ASSUME ChunkAssumption == MaxChunk \in Nat

VARIABLES
  alive,     \* the daemon has not aborted or crashed
  debug,     \* the build has ASSERT
  files,     \* the FileList: _bLocal of each FileInfo, first element first
  query,     \* a Client has a query: _szQuery is not null
  nChunk,    \* _nChunk of each Client
  sent,      \* the data pointers given to QueryResult for each Client
  pClient,   \* the Client for which the server thread holds a result of RunQuery
  life,      \* a node is no object ("free"), an "open" or a "closed" one
  Data,      \* _Data of each Node
  request,   \* _pFileRequest of each Node is not null
  npc,       \* the network thread: "idle" or what it does next
  todo,      \* nodes this pass has still to come to
  pTmp,      \* the node ProcessNodes is at
  pReq       \* its variable of that name: "null", or the object is "deleted"

clients == <<query, nChunk, sent>>
nodes   == <<life, Data, request>>
network == <<npc, todo, pTmp, pReq>>
vars    == <<alive, debug, files, clients, pClient, nodes, network>>

\* szFilename, pData and pFileInfo are not null; nChunk.
Transfers ==
  [szFilename : BOOLEAN, nChunk : 0 .. MaxChunk, pData : BOOLEAN, pFileInfo : BOOLEAN]

NoTransfer == [szFilename |-> FALSE, nChunk |-> 0, pData |-> FALSE, pFileInfo |-> FALSE]

\* Last conjunct: what a Node held is gone with it.
TypeOK ==
  /\ alive \in BOOLEAN /\ debug \in BOOLEAN
  /\ files \in Seq(BOOLEAN)
  /\ query \in [Clients -> BOOLEAN]
  /\ nChunk \in [Clients -> Nat]
  /\ sent \in [Clients -> Seq({NULL})]
  /\ pClient \in Clients \cup {NULL}
  /\ life \in [Nodes -> {"free", "open", "closed"}]
  /\ Data \in [Nodes -> Transfers]
  /\ request \in [Nodes -> BOOLEAN]
  /\ npc \in {"idle", "walk", "request", "local", "sweep", "spin", "files"}
  /\ todo \in SUBSET Nodes
  /\ pTmp \in Nodes \cup {NULL}
  /\ pReq \in {"null", "deleted"}
  /\ \A n \in Nodes : life[n] = "free" => Data[n] = NoTransfer /\ ~request[n]

Init ==
  /\ alive = TRUE
  /\ debug \in BOOLEAN
  /\ files = <<>>
  /\ query = [c \in Clients |-> FALSE]
  /\ nChunk = [c \in Clients |-> 0]
  /\ sent = [c \in Clients |-> <<>>]
  /\ pClient = NULL
  /\ life = [n \in Nodes |-> "free"]
  /\ Data = [n \in Nodes |-> NoTransfer]
  /\ request = [n \in Nodes |-> FALSE]
  /\ npc = "idle"
  /\ todo = {}
  /\ pTmp = NULL
  /\ pReq = "null"

\* Only what the clients have received outlives the process.
Die ==
  /\ alive' = FALSE
  /\ files' = <<>>
  /\ query' = [c \in Clients |-> FALSE]
  /\ nChunk' = [c \in Clients |-> 0]
  /\ pClient' = NULL
  /\ life' = [n \in Nodes |-> "free"]
  /\ Data' = [n \in Nodes |-> NoTransfer]
  /\ request' = [n \in Nodes |-> FALSE]
  /\ npc' = "idle"
  /\ todo' = {}
  /\ pTmp' = NULL
  /\ pReq' = "null"
  /\ UNCHANGED <<debug, sent>>

-----------------------------------------------------------------------------
(* FileList and FileInfo.                                                  *)

\* Mutant of LookupCrashes: a null name is just another name.
LookupGoesOn == FALSE

\* GetFileInfo, for any file: the first comparison is with a null pointer.
LookupCrashes == files # <<>>

\* The first file added makes SetNext assert that there is another behind it.
AddAsserts == debug /\ files = <<>>

Added(bLocal) == <<bLocal>> \o files

\* Mutant of HasChunk: any chunk will do.
HasAnyChunk(n) == TRUE

\* GetChunk of a local file: the file of null name cannot be opened, but the chunk
\* held, which is number 0 because nothing has been read, is returned on demand.
HasChunk(n) == n = 0

\* The pointer that is returned with it.
ChunkData == NULL

\* IsComplete: a remote file has no chunks, so all of them have been asked for.
IsComplete(bLocal) == TRUE

GetNextFile == {k \in DOMAIN files : ~files[k] /\ ~IsComplete(files[k])}

\* Mutant of Kept: only files from the cache are let go.
KeptRemote(bLocal) == ~bLocal

\* Process: FileStart does not count, so that no file is ever in use.
Kept(bLocal) == FALSE

\* In a debug build Process unlinks with SetNext(NULL), which is asserted against.
PurgeAsserts == debug /\ files # <<>>

-----------------------------------------------------------------------------
(* The client programs.                                                    *)

ClientAsks(c) ==
  /\ alive
  /\ ~query[c]
  /\ query' = [query EXCEPT ![c] = TRUE]
  /\ UNCHANGED <<alive, debug, files, nChunk, sent, pClient, nodes, network>>

\* The slot is vacated by the server thread, thus not while it is at this client.
ClientLeaves(c) ==
  /\ alive
  /\ query[c]
  /\ pClient # c
  /\ query' = [query EXCEPT ![c] = FALSE]
  /\ nChunk' = [nChunk EXCEPT ![c] = 0]
  /\ sent' = [sent EXCEPT ![c] = <<>>]
  /\ UNCHANGED <<alive, debug, files, pClient, nodes, network>>

-----------------------------------------------------------------------------
(* The server thread.                                                      *)

\* QueryData, and RunQuery when the Network lock is free: between the parts of OnIdle.
Queries(c) == alive /\ pClient = NULL /\ query[c] /\ npc \in {"idle", "files"}

RunQueryCrashes(c) ==
  /\ Queries(c)
  /\ LookupCrashes \/ AddAsserts
  /\ Die

\* LoadFile finds it in the cache. Looking for a chunk makes it a remote file.
RunQueryLocal(c) ==
  /\ Queries(c)
  /\ ~LookupCrashes /\ ~AddAsserts
  /\ files' = Added(FALSE)
  /\ pClient' = IF HasChunk(nChunk[c]) THEN c ELSE NULL
  /\ UNCHANGED <<alive, debug, clients, nodes, network>>

\* It does not; the open nodes are asked, whose answers are NodePeer's.
RunQueryRemote(c) ==
  /\ Queries(c)
  /\ ~LookupCrashes /\ ~AddAsserts
  /\ files' = Added(FALSE)
  /\ UNCHANGED <<alive, debug, clients, pClient, nodes, network>>

\* The Network is not locked any more.
QueryResult ==
  /\ alive
  /\ pClient # NULL
  /\ sent' = [sent EXCEPT ![pClient] = Append(@, ChunkData)]
  /\ nChunk' = [nChunk EXCEPT ![pClient] = @ + 1]
  /\ pClient' = NULL
  /\ UNCHANGED <<alive, debug, files, query, nodes, network>>

ServerThread ==
  \/ \E c \in Clients : RunQueryCrashes(c) \/ RunQueryLocal(c) \/ RunQueryRemote(c)
  \/ QueryResult

-----------------------------------------------------------------------------
(* The network thread: OnIdle's ProcessNodes and ProcessFileList.          *)

OnAccept(n) ==
  /\ alive
  /\ npc = "idle"
  /\ life[n] = "free"
  /\ life' = [life EXCEPT ![n] = "open"]
  /\ UNCHANGED <<alive, debug, files, clients, pClient, Data, request, network>>

Listed == {n \in Nodes : life[n] # "free"}

StartPass ==
  /\ alive
  /\ npc = "idle"
  /\ npc' = "walk"
  /\ todo' = Listed
  /\ UNCHANGED <<alive, debug, files, clients, pClient, nodes, pTmp, pReq>>

\* Mutant of TransferCrashes: only a chunk is handed on.
DataCrashes(d) == d.pData

\* GetChunks, GetCurrentFile: a chunk is saved where no chunk list is, a name is
\* looked up in vain and the FileInfo not found is used, or the lookup crashes.
TransferCrashes(d) == d.pData \/ d.szFilename

\* The order of the list is NodeList's. GetNextFile finds nothing to RequestFile for.
Visit(n) ==
  /\ alive
  /\ npc = "walk"
  /\ n \in todo
  /\ life[n] = "open"
  /\ IF TransferCrashes(Data[n])
       THEN Die
       ELSE /\ GetNextFile = {}
            /\ todo' = todo \ {n}
            /\ npc' = "request"
            /\ pTmp' = n
            /\ UNCHANGED <<alive, debug, files, clients, pClient, nodes, pReq>>

NoRequest ==
  /\ alive
  /\ npc = "request"
  /\ ~request[pTmp]
  /\ pReq' = "null"
  /\ npc' = "local"
  /\ UNCHANGED <<alive, debug, files, clients, pClient, nodes, todo, pTmp>>

\* Either the lookup crashes, or the file is in the cache and there is no address to
\* write into the reply: this visit has emptied that mailbox.
RequestCrashes ==
  /\ alive
  /\ npc = "request"
  /\ request[pTmp]
  /\ Die

\* The file is not in the cache, or it is and another S has come in since.
RelayRequest ==
  /\ alive
  /\ npc = "request"
  /\ request[pTmp]
  /\ ~LookupCrashes
  /\ \/ UNCHANGED files
     \/ ~AddAsserts /\ files' = Added(TRUE)
  /\ request' = [request EXCEPT ![pTmp] = FALSE]
  /\ pReq' = "deleted"
  /\ npc' = "local"
  /\ UNCHANGED <<alive, debug, clients, pClient, life, Data, todo, pTmp>>

\* GetLocalFile: the name is there only if it came in after Visit had looked.
IsLocalRequest(d) == ~d.pFileInfo /\ d.szFilename

\* pReq is assigned again before the next use.
NextNode ==
  /\ npc' = "walk"
  /\ pTmp' = NULL
  /\ pReq' = "null"

NoLocalFile ==
  /\ alive
  /\ npc = "local"
  /\ ~IsLocalRequest(Data[pTmp])
  /\ NextNode
  /\ UNCHANGED <<alive, debug, files, clients, pClient, nodes, todo>>

\* The file looked for in the cache is pReq's: a null pointer, or freed memory.
LocalFileCrashes ==
  /\ alive
  /\ npc = "local"
  /\ IsLocalRequest(Data[pTmp])
  /\ Die

\* What the freed memory names is there, or is not. N is sent when it is not; when
\* it is, SendFile sends nothing. The name is cleared either way.
LookUpLocalFile ==
  /\ alive
  /\ npc = "local"
  /\ IsLocalRequest(Data[pTmp])
  /\ ~LookupCrashes
  /\ pReq = "deleted"
  /\ \/ UNCHANGED files
     \/ ~AddAsserts /\ files' = Added(TRUE)
  /\ Data' = [Data EXCEPT ![pTmp].szFilename = FALSE]
  /\ NextNode
  /\ UNCHANGED <<alive, debug, clients, pClient, life, request, todo>>

\* The nodes still to come to are closed, and only that makes it remove closed ones.
EndWalk ==
  /\ alive
  /\ npc = "walk"
  /\ \A n \in todo : life[n] = "closed"
  /\ npc' = IF todo = {} THEN "files" ELSE "sweep"
  /\ todo' = {}
  /\ UNCHANGED <<alive, debug, files, clients, pClient, nodes, pTmp, pReq>>

Closed == {n \in Nodes : life[n] = "closed"}

\* Mutant of Deleted: the Node that takes the address over finds the old name.
DeletedLate == Data

Deleted == [n \in Nodes |-> IF n \in Closed THEN NoTransfer ELSE Data[n]]

\* RemoveClosedNodes. ProcessFinal cannot save a chunk, and RemoveNode of the file
\* list finds no chunk that was asked for.
RemoveClosedNodes ==
  /\ alive
  /\ npc = "sweep"
  /\ IF \E n \in Closed : Data[n].pData
       THEN Die
       ELSE /\ npc' = "files"
            /\ life' = [n \in Nodes |-> IF n \in Closed THEN "free" ELSE life[n]]
            /\ Data' = Deleted
            /\ request' = [n \in Nodes |-> request[n] /\ n \notin Closed]
            /\ UNCHANGED <<alive, debug, files, clients, pClient, todo, pTmp, pReq>>

\* It does not get past a closed node that an open one precedes (NodeList has the
\* order), and the lock is never let go.
SweepSpins ==
  /\ alive
  /\ npc = "sweep"
  /\ \E n \in Nodes : life[n] = "open"
  /\ npc' = "spin"
  /\ UNCHANGED <<alive, debug, files, clients, pClient, nodes, todo, pTmp, pReq>>

\* ProcessFileList, less than five seconds after the last check.
NoCheck ==
  /\ alive
  /\ npc = "files"
  /\ npc' = "idle"
  /\ UNCHANGED <<alive, debug, files, clients, pClient, nodes, todo, pTmp, pReq>>

CheckFiles ==
  /\ alive
  /\ npc = "files"
  /\ IF PurgeAsserts
       THEN Die
       ELSE /\ files' = IF \E k \in DOMAIN files : Kept(files[k])
                         THEN SelectSeq(files, Kept)
                         ELSE <<>>
            /\ npc' = "idle"
            /\ UNCHANGED <<alive, debug, clients, pClient, nodes, todo, pTmp, pReq>>

NetworkThread ==
  \/ StartPass
  \/ \E n \in Nodes : Visit(n)
  \/ NoRequest \/ RequestCrashes \/ RelayRequest
  \/ NoLocalFile \/ LocalFileCrashes \/ LookUpLocalFile
  \/ EndWalk
  \/ RemoveClosedNodes \/ SweepSpins
  \/ NoCheck \/ CheckFiles

-----------------------------------------------------------------------------
(* The peers, and the socket threads of their Nodes.                       *)

\* The handler of a telegram ends the process if `asserts`, else _Data becomes d.
Handled(n, asserts, d) ==
  /\ alive
  /\ life[n] = "open"
  /\ IF debug /\ asserts
       THEN Die
       ELSE /\ Data' = [Data EXCEPT ![n] = d]
            /\ UNCHANGED <<alive, debug, files, clients, pClient, life, request, network>>

\* One at a time: another stays in the queue. In a debug build it ends the process
\* (NodePeer).
ProcessFileRequest(n) ==
  /\ alive
  /\ life[n] = "open"
  /\ ~request[n]
  /\ IF debug
       THEN Die
       ELSE /\ request' = [request EXCEPT ![n] = TRUE]
            /\ UNCHANGED <<alive, debug, files, clients, pClient, life, Data, network>>

\* The length is taken although the name has not all arrived, which is asserted
\* against; without ASSERT the name is taken for telegrams, like any others.
ProcessLocalFile(n) ==
  \/ Handled(n, Data[n].szFilename, [Data[n] EXCEPT !.szFilename = TRUE])
  \/ Handled(n, TRUE, Data[n])

\* SetLength asserts the name that SetFile did not store.
ProcessLocalOK(n) ==
  Handled(n, TRUE, [Data[n] EXCEPT !.pFileInfo = TRUE])

\* Without ASSERT, whatever file the peer says it does not have.
ProcessLocalFail(n) ==
  \E other \in BOOLEAN :
    Handled(n, ~Data[n].szFilename \/ other, [Data[n] EXCEPT !.szFilename = FALSE])

\* nChunk is not reset when the chunk has been sent, which is nowhere: a second
\* request is left in the queue.
ProcessChunkRequest(n) ==
  /\ Data[n].nChunk = 0
  /\ \E k \in 0 .. MaxChunk : Handled(n, ~Data[n].szFilename, [Data[n] EXCEPT !.nChunk = k])

ProcessChunkData(n) ==
  /\ Data[n].nChunk > 0
  /\ \E k \in 0 .. MaxChunk :
       Handled(n, ~Data[n].szFilename \/ Data[n].pData \/ k # Data[n].nChunk,
               [Data[n] EXCEPT !.pData = TRUE])

ProcessFileComplete(n) ==
  Handled(n, ~Data[n].szFilename,
          [Data[n] EXCEPT !.szFilename = FALSE, !.pData = FALSE,
                          !.nChunk = IF Data[n].pData THEN 0 ELSE @])

NodeCloses(n) ==
  /\ alive
  /\ life[n] = "open"
  /\ life' = [life EXCEPT ![n] = "closed"]
  /\ UNCHANGED <<alive, debug, files, clients, pClient, Data, request, network>>

NodeThread(n) ==
  \/ ProcessFileRequest(n)
  \/ ProcessLocalFile(n) \/ ProcessLocalOK(n) \/ ProcessLocalFail(n)
  \/ ProcessChunkRequest(n) \/ ProcessChunkData(n) \/ ProcessFileComplete(n)

-----------------------------------------------------------------------------
Next ==
  \/ \E c \in Clients : ClientAsks(c) \/ ClientLeaves(c)
  \/ ServerThread
  \/ NetworkThread
  \/ \E n \in Nodes :
       \/ OnAccept(n)
       \/ NodeCloses(n)
  \/ \E n \in Talking : NodeThread(n)

\* The threads are scheduled. Five seconds pass again and again: passes go on all
\* the time, and some of them come when the check is due.
Spec == Init /\ [][Next]_vars /\ WF_vars(NetworkThread) /\ WF_vars(ServerThread)
             /\ SF_vars(CheckFiles)

-----------------------------------------------------------------------------
(* Properties.                                                             *)

\* All a client ever gets is one chunk, and that is a null pointer: no byte of a
\* package reaches it, from the cache or from a peer. (With ASSERT it gets none: the
\* first file added ends the daemon before network.cpp:607 and server.cpp:211, which
\* assert that there is data, are come to.)
OneEmptyChunk ==
  \A c \in Clients : sent[c] \in {<<>>, <<NULL>>}

\* No file stays in the list because its use is counted wrongly (the daemon may die
\* first, or its network thread hang in RemoveClosedNodes).
Stuck == ~alive \/ npc = "spin"

FilesPurged == files # <<>> ~> (files = <<>> \/ Stuck)

\* The name a peer asked for with L is looked up and cleared, although L can come in
\* between any two getters of the network thread: the Node does not stay closed to
\* every other transfer. Whether the peer hears of it is another matter: it is sent N
\* or, when the file is there, nothing (node.cpp:894-901), where it should be told the
\* length (node.cpp:886-893).
LocalTaken ==
  \A n \in Nodes :
    Data[n].szFilename ~> (~Data[n].szFilename \/ life[n] # "open" \/ Stuck)

=============================================================================
