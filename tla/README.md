# TLA+ models of pacsrv

pacsrv shares Arch Linux packages between the machines of a network. A daemon,
`pacsrvd`, runs on each of them; `pacsrvclient` replaces `wget` as the program
pacman downloads with. It asks the local daemon for a package, the daemon looks
in the local cache and asks its peers, and the chunks travel back the same way.

This directory holds models of that code (the C++ under `src/src/`), their
checks with TLC and proofs with TLAPS. `PROJECT.json` maps every definition to
the lines it stands for.

    tlc -config ClientTable.cfg MCClientTable.tla
    tlapm ClientTableProofs.tla

## The system

| Component | State | Operations | Interacts with |
|---|---|---|---|
| `Server` (server.cpp) | `_Client.pList`, `nCount`; the Network object | `OnAccept`, `AddClient`, `OnIdle`, `ProcessClients`, `~Server` | calls `Client::QueryData/QueryResult`, `Network::RunQuery` from its thread, holding the Server lock |
| `Client` (client.cpp) | `_szQuery`, `_nChunk`, `_nLength`, `_nVersion`, heartbeat counters | `OnReceive` (I, H, F, R), `OnIdle`/`ProcessHeartbeat`, `QueryData`, `QueryResult` | its own socket thread and the server thread, one lock |
| `Network` (network.cpp) | node list, file list, server list, next node ID | `OnAccept`, `OnIdle` = `CheckConnections`, `ProcessNodes`, `ProcessFileList`; `RunQuery` | its own thread, the server thread through `RunQuery`, one lock |
| `Node` (node.cpp) | handshake status, heartbeat, one mailbox per kind of result, local and remote file being sent | `OnReceive` (16 telegrams), the getters `ProcessNodes` polls | its own socket thread and the network thread |
| `FileList`, `FileInfo` | files known, chunk bookkeeping, local file | `GetFileInfo`, `LoadFile`, `AddFile`, `GetChunk`, `Process` | under the Network lock |
| `ServerList`, `ServerInfo`, `Address` | addresses of other daemons | `AddServer`, `GetNextServer`, conversions | under the Network lock |
| `Logger`, `Config` | one file, a count of instances | `Init`/`CycleLogs`, `Get` | every thread |
| `pacsrvclient` | `_Status`, `_File`, heartbeat counters | `Download`, `OnReceive`, `OnIdle`, `OnClosed` | its main thread, its socket thread, the daemon |
| `pacsrvd` | pointers to the above | start, wait for a signal, stop | constructs and deletes |

What makes it hard: each `Server`, `Network`, `Client` and `Node` is an object
of the DevPlus library with a thread of its own; objects are deleted by another
thread than the one that serves them; a lock is held for parts of a conversation
only; heartbeats time out on both ends; a process can die at any point.

The lock of an object is recursive and DevPlus calls `OnAccept`, `OnReceive`,
`OnIdle` and `OnClosed` from the object's own thread, one at a time. These are
the assumptions on DevPlus, whose source is not in the repository; they are the
ones the code itself relies on. The commit does not compile as it is
(`network.cpp:285-289` and `network.h` disagree on `szQueryHost`,
`szQueryPort` and `nID`); the models take the evident meaning.

## Modules

| Module | What it is |
|---|---|
| `ClientPool` | abstract: what the Server promises about the Client objects it owns |
| `ClientTable` | the Server's slot table, its thread and the threads of the clients |
| `ChunkStream` | abstract: what a connection delivers |
| `ClientSession` | one `Client`: peer, socket thread, server thread |
| `NodeStack` | abstract: what the Network's list of nodes amounts to, a stack |
| `NodeList` | the Network's linked list of nodes: coming, closing, removal |
| `NodePeer` | one `Node`: peer, socket thread, mailboxes, network thread |
| `ClientApp` | the program `pacsrvclient`: main thread, socket thread, daemon |
| `LogRotation` | `Logger::CycleLogs`, one system call per step, with crashes |
| `Daemon` | composes: start, life and shutdown of `pacsrvd` over `LogRotation`, with the threads of Server and Network |
| `QueryPath` | composes: client programs, server thread, network thread and peers around the file list |
| `Exchange` | composes: `ClientApp` connected to `ClientSession` |
| `MC*` | the instances TLC checks, with the reasons for their sizes |
| `*Proofs` | the theorems |

**ClientTable.** One action per piece of `ProcessClients` between two points
where a client thread can make a difference: looking at a slot and deleting a
closed client (`DeleteClosed`), finding it open (`FindOpen`), asking
(`QueryData`), serving (`RunQuery`), the end of a pass. A client closes or asks
between any two of them. The Network is what
`RunQuery` does: return with a chunk or without one, end the process
(`RunQueryCrashes`) or, since the lock it takes (network.cpp:590) may be held by a
network thread that spins, never return (`RunQueryHangs`). `debug`
chooses between a build with ASSERT and one without; with ASSERT no chunk is
found, because the only one there is in this commit has a null pointer for its
data. ClientTable implements `ClientPool`: slots and walk disappear, and what
remains is that a client is deleted only when closed and not being served, and
then for certain unless the server hangs while it serves another.

**ClientSession.** `spc` is the server thread's place between `QueryData` and the
end of `QueryResult`; the Client's own thread handles a telegram (`OnReceive`)
whenever the lock is free, and runs `OnIdle` at any time because that takes no
lock. `nLastCheck` is never assigned, so the time test in `ProcessHeartbeat` is
always true and the counters count calls. Telegrams carry only what the code
tells apart. ClientSession implements `ChunkStream`.

**NodeList.** `next` and `pNodes` are the pointers of the code; the loops of
`ProcessNodes` and `RemoveClosedNodes` take one node per step while nodes close
at any time. There is no step for a closed node behind an open one in
`RemoveClosedNodes`, because the code does nothing there and does not advance
(`Spins`). Undefined behaviour at the connection limit ends the process. NodeList
implements `NodeStack`: `Reached` follows the links, `Listing` is the sequence of
nodes it meets, and links, walks and loops make of it what a push, a close or a pop
of a closed top would.

**NodePeer.** The Node's getters take no lock, so handling a telegram for a
mailbox takes two steps, the publication of the object (`Open`) and its filling
(`Fill`), with the network thread's `GetServerInfo`, `GetFileRequest` and
`GetFileReply` possible between. What ProcessNodes does with what it took is
part of the step: the relays clear every node's server address and, since
`GetServerInfo` returns the pointer it has just cleared, send nothing. Most
crashes of this commit are in these steps (`*Crashes`); the properties speak of
the behaviour up to one. `ProcessFileGot` takes a reply as complete that lacks up
to six bytes (node.cpp:707 leaves one address out of what 716 consumes): such a
telegram is `short` (`FillShort`), and afterwards what is received may be read from
the middle of a telegram (`framed`), or the missing bytes may be dropped, which is
for DevPlus to decide. Then anything can be in the queue and nothing in it is
numbered. The network thread may also never come back to this node
(`NetworkThreadSpins`): another one, closed, has an open node before it. A relay on
behalf of another node clears the address
as a visit does, so it needs no action of its own.

**ClientApp.** Each critical section of the program's lock is an action. What the
constructor leaves uninitialised is chosen in `Init`. The daemon sends its
telegrams in any order but its chunks in order, as `ChunkStream` promises. It does not
promise that a chunk is in one piece: a heartbeat sent between header and data
(`client_session_framing`) becomes a byte of the chunk (`Cmixed`), and what follows
it, the byte of the chunk left over first, is read as telegrams nobody sent
(`DaemonMisread`).

**LogRotation.** Files are known by the run that created them; `Stop` can come
between any two calls.

**Daemon.** It EXTENDS LogRotation: a step of the daemon that touches the log files
is a step of the rotation, every other leaves them alone, and an end of the
process, orderly or not, is its `Stop`. `main` follows `OnStartup` and
`OnShutdown` of `pacsrvd.cpp` into the constructors and destructors of Server,
Network, Config and Logger; a thread of Server or Network is `idle`, at the
object's lock (`wait`), has it (`in`), keeps it for ever (`stuck`: the Network's
spins in `RemoveClosedNodes`, the Server's waits for it in `RunQuery`), or has ended.
The main thread holds the
Server's lock from `StopServer` to `EndServer`, as `~Server` does, while the Network's
thread is waited for. A thread that waited for the lock of an object whose
destructor has done its work gets it all the same (`GetLockLate`) and meets what is
left; whether that ends the process depends on the assertions. `nInstances` and
`pFile` are the Logger's statics, `logger[t]` says that thread `t` has a Logger on
its stack.

**QueryPath.** `files` is the FileList, a sequence of which only `_bLocal` is kept:
in this commit `SetFile` stores no name (fileinfo.cpp:420-425), so that a lookup in a
list that is not empty uses a null pointer (`LookupCrashes`), no chunk list is ever
allocated (`HasChunk`), and no use is counted (`Kept`). `RunQueryLocal`,
`RunQueryRemote`, `RunQueryCrashes` are the ways out of `RunQuery`; `QueryResult`
follows in a step of its own, as the Network lock has been released by then. The
network thread's pass goes node by node through the getters that matter to files,
`Visit`, `RelayRequest`, `LookUpLocalFile`, then `RemoveClosedNodes` and, with the lock
let go and taken again, `CheckFiles`. A peer's transfer telegrams (L, A, N, C, D, K) are
`Process*` actions on `Data`, one step each, between any two of those.

**Exchange.** Both programs as INSTANCEs of their modules; the queue each of them
reads is filled by what the other sends (`ToClient`, `ToProgram`) and by nothing
else. What was an environment in ClientApp and ClientSession is here the other
module, and `PartsImplemented` says that this other module
does nothing the environment could not: Exchange implements both its parts, so that
what holds of them apart holds of them together. A chunk reaches the program with
its data (`ChunkToProgram`); a beat the Client sends while the server thread is
between header and data falls inside (`BeatInChunk`). The program's `INIT` carries
version 0 (pacsrvclient.cpp:542).

## Runs

| Run | Shows |
|---|---|
| `client_table` | no client leaked, used after deletion, starved or deleted while open; the array bounded; accepting gets its turn; implements `ClientPool`. A client is not starved, accepting not held up and a closed client deleted as long as `RunQuery` returns |
| `client_session` | the assertions that tie the two threads together; implements `ChunkStream`; a peer without a request and a vanished peer are dropped |
| `node_list` | the list is sound and implements `NodeStack`, the walks never stand on a deleted node, the thread returns, a closed node at the front is deleted, all unless it spins |
| `node_peer` | requests and replies reach the network thread once and in order, until a reply that lacks up to six bytes is taken; none is stuck, unless the network thread spins; the heartbeat closes no connection it could serve |
| `client_app` | the `.part` file is a prefix of the package up to the first chunk a heartbeat has fallen into; the program leaves a daemon that is silent, gone or has nothing |
| `query_path` | files are purged, and the name of a peer's L request is looked up and cleared, so that the Node can take another transfer, all as long as the daemon lives and its network thread does not spin |
| `exchange` | program and daemon keep to what their models assume of each other; both come to their end |
| `daemon` | logs stay in order, a run has its own, only the last is lost, with kills at any step; nobody's log is closed under him; a shutdown ends, unless the Network's thread spins |
| `client_session_framing` | **violated**: a chunk's data follows its header (a heartbeat can come between) |
| `node_list_closed` | **violated**: closed nodes are removed at some point |
| `node_peer_silent` | **violated**: a silent peer is timed out |
| `exchange_asked` | **violated**: with daemon and connection in order, the program asks for the file before it comes to a result |

The four violated properties are quotations of the repository; PROJECT.json
gives the lines and what the code does instead. `exchange_asked` shows two
things at once: the version the program announces is refused (`VersionSent`; with 1
in its place `AskedFirst` holds), and the result it then comes to is `bComplete`,
which nobody has written.

Further disagreements between the code and its own comments and assertions are
modelled, without a run of their own:

- the assertion on array and count after the last client has left (server.cpp:148:
  `AssertFires`);
- the version that is stored before it is refused, so that a peer that insists is
  served (client.cpp:253: `MayAsk`);
- the length a reply must have (node.cpp:707) against the bytes that are consumed of
  it (716): the first is six bytes, one address, less (`FillShort`);
- the file list, in which `RunQuery` is to look files up by name (network.cpp:574-579)
  and which asserts that it knows the name of each (fileinfo.cpp:128-132): no name is
  stored, so that any lookup in a list that is not empty uses a null pointer
  (`LookupCrashes`), and with ASSERT the addition of a first file ends the daemon
  (`AddAsserts`);
- the data of a chunk that was found, asserted not to be null (network.cpp:607,
  server.cpp:211; see the comment at fileinfo.cpp:137-143, too): `FileInfo::GetChunk`
  finds only the chunk of its constructor, whose pointer is null (`ChunkData`);
- the reply to a peer whose file is found ("We need to reply to the node that we have
  the file", node.cpp:886-893): `SendFile` (894-901) sends nothing, so that
  `LocalTaken` speaks of the Node's state and not of an answer.

What this commit achieves is nothing anybody would want to keep, but it holds of
every instance: `QueryPathProofs!NothingDelivered` says that a client program gets at
most one chunk, with a null pointer for its data, `ExchangeProofs!NoTransfer` that the
two programs never get as far as a request. Both will have to be turned round as the
code is completed, and the models' operators for what is missing (`HasChunk`, `Kept`,
`VersionSent`) are where.

### Bounds

- ClientTable: three clients give a full table, holes at the front, in the middle
  and at the end. `MaxPasses` is the code's 50, here 1: its role is to end a
  loop that always finds work, for which one extra pass is enough.
- ClientSession: two files (a second request differs from the first), versions
  0, 1, 2 (the untouched value, the accepted one, a refused one), two chunks
  (the second is sent with the length known), two telegrams in the queue (one
  stuck behind another). Heartbeat limits are small but above one. `ChunkMod`
  is the real 65536, which two chunks do not reach: the run says nothing of the
  wrap, which the proof of `ImplementsStream` covers.
- NodeList: four nodes, `nMax` 3, so that the limit is exceeded. With four, closed
  nodes lie before, between and behind open ones.
- NodePeer: two requests and two replies, so that one finds its mailbox taken, and
  a queue of two, so that one waits behind another; two calls to a beat and two
  beats to a miss.
- ClientApp: two chunks and two telegrams in the queue, for the same reasons. Once
  telegrams are misread, chunks are read as long as fewer than two have been written;
  more of them would only make the file longer behind the beat.
- Daemon: `nMax` 3 and six starts: logs fall off the end several times, and rotations
  cut short at every call leave every pattern of holes. The two threads are the code's.
- QueryPath: two client programs, so that one's query follows the other's; two nodes,
  so that an open and a closed one meet in `RemoveClosedNodes`, though only one peer
  talks (`Talking`): Nodes do not share transfer state; chunk numbers 0 and 1 tell a
  transfer that has begun from one that has not.
- Exchange: as built only INIT, Q and beats are ever under way, so that the run
  exercises no chunk; that the two sides agree on chunks, too, is what
  `ExchangeProofs!Implemented` shows. Queues of two, so that an answer waits behind
  a beat; limits of more than one second that differ between the two sides.

No symmetry is declared, because most of these runs check liveness.

### Fairness

Only what the code's threads do by themselves is fair. The server and the network
thread keep calling `OnIdle` and finish their callbacks (weak fairness of the thread as
a whole), but for the case
that `node_list_closed` finds: the network thread spins in `RemoveClosedNodes` with
its lock, and the server thread, with its own, waits for that lock in `RunQuery`.
This is a step of its own in the modules (`SweepSpins`, `NetworkThreadSpins`,
`RunQueryHangs`, `Sticks`) or a state without a next one (`Spins` in NodeList), and the
liveness properties that depend on the thread except it by name: `Stuck` in ClientTable and
QueryPath, `hung` in ClientPool, `Spins` in NodeList, `visit = "never"` in NodePeer,
`thread["network"] = "stuck"` in Daemon.
The Client's `OnIdle` runs again and again (client.cpp:82, "when the client is
idle (which should happen quite a lot)"). The Node's socket thread
is called again while its queue is not empty (node.cpp:548, "process it again
another time"). In pacsrvclient the main thread runs,
`OnIdle` is called when nothing comes in and a closed connection is reported.
In Exchange telegrams on an open connection arrive, so that both receivers are fair.
In QueryPath `CheckFiles` is strongly fair: a pass happens to end when five seconds are
over again and again (network.cpp), though not every pass does. In Daemon the
main thread is strongly fair: a lock it waits for is released again and again, and the
system is taken to grant it some time; each thread is weakly fair.
Nobody is obliged to connect, ask, send, answer, close or shut down.

`CHECK_DEADLOCK FALSE` is set throughout: daemon and program end (shutdown,
abort, exit), a closed connection has no further steps, and a run counter or
chunk bound stops the rest.

## Proofs

| Theorem | Statement |
|---|---|
| `ClientTableProofs!TypeCorrect`, `NothingLost`, `NoDanglingCall`, `Bounded` | the four invariants of ClientTable |
| `ClientTableProofs!Implements` | `Spec => Pool!Safety` |
| `ClientTableProofs!PassesEnd` | `Spec => [][PassStep]_vars`: every step of `ProcessClients` goes one call, slot or pass further |
| `ClientSessionProofs!Assertions` | `Spec => []AssertionsHold` |
| `ClientSessionProofs!Implements` | `Spec => ImplementsStream` |
| `NodePeerProofs!TypeCorrect`, `LivePeers`, `MailStaysInOrder` | the three invariants of NodePeer |
| `ClientSessionProofs!TypeCorrect` | the type invariant of ClientSession |
| `ClientAppProofs!TypeCorrect`, `Prefix` | the type invariant of ClientApp, and FileIsPrefix |
| `NodeListProofs!TypeCorrect`, `NoDanglingWalk`, `ListStaysSound` | the three invariants of NodeList |
| `NodeListProofs!ListIsStack` | `Spec => ImplementsStack` |
| `NodeListProofs!WalksEnd` | `Spec => [][WalkStep]_vars`: every step of a walk passes exactly one of the nodes left |
| `QueryPathProofs!TypeCorrect`, `NothingDelivered` | the type invariant of QueryPath, and OneEmptyChunk |
| `ExchangeProofs!TypeCorrect`, `NoTransfer` | the type invariant of Exchange, and NothingFetched |
| `ExchangeProofs!Implemented` | `Spec => PartsImplemented` |
| `ExchangeProofs!Inherited` | AssertionsHold, ImplementsStream and FileIsPrefix of the two sides put together |
| `DaemonProofs!Rotates` | `DaemonSpec => Spec` (of LogRotation) |
| `DaemonProofs!DaemonLogsOrdered`, `DaemonHasItsLog`, `DaemonOverwritesNothing` | the three properties of LogRotation, of the daemon |
| `DaemonProofs!LogStaysOpen`, `DaemonTypeCorrect` | LogOpen, and the type invariant of Daemon |

They hold for all values of the constants that satisfy the modules' named
assumptions (a finite set of clients without the null pointer, natural bounds).

- ClientTable: `TypeOK /\ NoClientLost /\ NoUseAfterDelete` is not inductive; the
  invariant adds where `arriving` may be set, and that the slot being served is
  below the count. `Bounded` needs more: when the array grows, every
  slot holds another client and none is the arriving one, so an injection from
  the slots into the clients bounds its length (library facts on cardinality).
- ClientSession: the invariant says that a stored query never changes, that the
  server thread's copy of the chunk number stays right while the lock is free
  (no telegram changes `nChunk`), that the length is announced exactly when
  `nLength` is set, and that `nChunk` counts the chunks delivered.
- NodePeer: LivePeerKept speaks of the moment of the close only. The invariant counts
  up to it: every beat after the first since something was consumed took
  `NODE_HEARTBEAT_DELAY` calls, so that `barren` is at least
  `(nBeats - 1) * DELAY + nDelay` until it reaches `Patience`; and a heartbeat closes at
  the end of a call, so that none goes on after it. The type invariant needs
  besides that the telegram being filled in is the head of the queue, which
  the peer can only extend or complete.
- ClientSession's types need that the counters are below their limits while the
  connection is open (reaching one closes it), and that a chunk number the server
  thread goes on with is one the Network has had.
- ClientApp: nothing in the program counts chunks; it takes chunk 0 whenever one comes.
  The invariant `OneFirst` follows that chunk: it is in the queue or in the file,
  once, and only after the daemon has sent it. It speaks of what is `Genuine` only,
  file and queue up to the first chunk with a heartbeat in it; behind one, chunk 0
  may seem to come again any number of times. That the daemon sends each once is
  `ClientSessionProofs!Implements` (up to chunk 65536, whose number is sent as 0 again; the
  program stops at chunk 1, which it takes for a wrong one).
- NodeList: that the walks are safe needs only that no node has two links to it and
  the head none: what is deleted at the head is linked from nowhere, and the node a
  sweep has passed last is the one before the one it stands on. That the list ends
  and holds every node is an induction along the links. The invariant `Ordered` has a
  path, a function on `1 .. k` that goes along them from the head through all nodes
  that are kept, each once; a new node makes a longer path, the removal of the head a
  shorter one, and being one-to-one it has no more than `Cardinality(Nodes)` places.
  `ReachedPath` says that the recursive function `Reached` follows any such path.
  It takes the smallest number of links at which the two would differ (the order of the
  natural numbers is well founded): the step before, they agreed, so they agree
  there too. With it `Listing` is the path, and each action of NodeList is seen to
  prepend to it, to take off its first element or to leave it.
- NodeList, NetworkReturns: `WalksEnd` is the part of it that is not temporal. `Left` counts
  the places from the node a walk stands on to the end of `Listing`. Each step of the
  network thread takes one off, with nothing left it begins another of a bounded
  number of passes, the sweep, or goes back to wait, and no other step changes
  the count. What remains is that a thread that can go on does, which is the
  fairness.
- ClientTable, AcceptGetsItsTurn: in the same way `PassesEnd` has the steps of
  `ProcessClients` go down a finite ladder (passes left, slots left, calls left with
  the client of the slot), which no client thread moves. At the end of a pass the
  count of slots may shrink but not grow, as connections are accepted only outside of it.
- NodePeer, MailInOrder: the telegrams of one kind in the queue carry the numbers from
  the one after those read to the last sent, each once and rising
  (`InOrder`). Lemmas about `InOrder` say what a telegram at the end, the removal of
  the head and a change of other telegrams do to it; the actions are then
  one of these, and the move from queue to mailbox to `taken` leaves what has been
  read together as it is. A reply that lacks up to six bytes either leaves the
  boundaries of telegrams as they are or ends what the invariant speaks of (`framed`).
  The invariant of the type proof supplies that the telegram
  being filled in is still at the head.
- QueryPath: `ChunkCounted` ties what a client has been sent to its `_nChunk` and to the
  result the server thread holds while it has no lock, since the second chunk is
  never found.
- Exchange: each step is, for each side, one of its own, one of its environment or a
  stutter: what the other side sends are telegrams the environment may send at any
  time. The proof modules of the two sides are taken in by INSTANCE and
  their inductive invariants cited, so that nothing is proved twice, and it is not used
  that the announced version is 0. That enters with NothingFetched: only version 0 and
  beats are on their way to the daemon, only Q and beats to the program, which every
  handler of both modules keeps so.
- Daemon: every step of it is one of LogRotation or none, so that what is proved there
  is true here: between two calls of a rotation the place just emptied is
  empty, so that the next rename overwrites nothing, and `Stop` keeps this because
  it says nothing once the process is down. For the log, `nInstances` is counted: one or
  two Loggers of the main thread, one of each thread inside a call; the last one
  closes the file, and once the main thread's is gone there is no object left to
  be called.

Model-checked only: everything under fairness (`ImplementsPool` beyond `Pool!Safety`,
and the liveness properties of every run), since fairness speaks of ENABLED, which is
out of the prover's reach, and the violated properties, of which the runs show a
behaviour. Every invariant and every refinement the passing runs check is a theorem. Daemon's
type invariant, OneEmptyChunk and NothingFetched are proved and in no run.

## Not modelled

- ServerList, ServerInfo: in this commit they are dead code. The one caller of
  `AddServer` passes on what `GetServerInfo` of a Node returns, which is the pointer it
  has just cleared (node.cpp:405-415); `GetNextServer` and `ConnectNode` have no caller.
  A module of theirs would have no behaviour.
- Address: pure conversions between six bytes, a host and a port. The one that goes
  wrong (the port is its low byte, address.cpp:96) is listed among the hazards: no
  state of another component depends on it.
- Config: reading the file and the list of servers (fed by `AddServer` only); its life
  is in Daemon, its answers are choices.
- BaseServer and BaseClient: `CheckTime` is a choice in the modules of the classes
  derived from them.
- DevPlus (threads, sockets, locks, the INI file): not in the repository. In particular,
whether a
  Client's thread can be inside `OnReceive` while the server thread deletes the Client,
  and whether a Node's `Send` takes the lock that `OnReceive` never gives back
  (node.cpp:181), is decided there.
- Names and contents of files, log text, statistics display and prompts.

## Plan

What is left, in this order:

1. When FileInfo stores names and allocates its chunk list: chunks and files of QueryPath
   by name, the reference of `RunQuery`'s data pointer against the purge, and Exchange
   with a version both sides know.
2. QueryPath's peers in place of the free environment of NodePeer: one relay chain of
   two daemons.
