------------------------------ MODULE ClientApp ------------------------------
(***************************************************************************)
(* The command line program that fetches one package                       *)
(* (src/src/pacsrvclient.cpp), between three actors:                       *)
(*                                                                         *)
(*   - its main thread, which connects, sends INIT, loops until bStop and  *)
(*     then either reports success or turns into wget;                     *)
(*   - its socket thread, which handles one telegram of the daemon per     *)
(*     call of OnReceive, or counts seconds in OnIdle;                     *)
(*   - the daemon, which sends beats, refusals and lengths whenever it     *)
(*     likes and the chunks in order (ChunkStream), the last one perhaps   *)
(*     arrived in part only, or with a beat between its header and its     *)
(*     data, as ClientSession finds it can; or which closes, or falls      *)
(*     silent.                                                             *)
(*                                                                         *)
(* Each action is one critical section of the object's lock. ASSERT is     *)
(* compiled in (`debug`) or out. Dividing by zero kills the process on     *)
(* some processors and yields a number on others.                          *)
(***************************************************************************)
EXTENDS Integers, Sequences

CONSTANTS
  MaxChunks,         \* bound: chunks the daemon can send
  MaxQueue,          \* bound: telegrams received and not yet handled
  LOOP_LOOPS,        \* pacsrvclient.cpp:95
  HEARTBEAT_WAIT,    \* pacsrvclient.cpp:83
  HEARTBEAT_DELAY,   \* common.h
  HEARTBEAT_MISS     \* common.h

ASSUME BoundsAssumption    == MaxChunks \in Nat /\ MaxQueue \in Nat
ASSUME LoopsAssumption     == LOOP_LOOPS \in Nat \ {0}
ASSUME HeartbeatAssumption == /\ HEARTBEAT_WAIT \in Nat
                              /\ HEARTBEAT_DELAY \in Nat \ {0}
                              /\ HEARTBEAT_MISS \in Nat \ {0}

VARIABLES
  main,         \* where the main thread is, or how the program has ended
  nLoops,       \* nLoops of DownloadNetwork
  bInit, bRequest, bFileLength, bStop, bComplete,    \* _Status
  fp,           \* _File.fp is not NULL
  file,         \* what has been written to the .part file since it was opened
  nBeats, nDelay, nWait,                             \* _Heartbeat
  inq,          \* telegrams received and not yet consumed
  sentChunks,   \* number of chunks the daemon has sent
  link,         \* "none", "open", "closed" by the daemon, or the daemon "silent"
  framed,       \* what arrives is read at the daemon's own telegram boundaries
  debug

status == <<bInit, bRequest, bFileLength, bStop, bComplete>>
beats  == <<nBeats, nDelay, nWait>>
output == <<fp, file>>
daemon == <<sentChunks, link, framed>>
vars   == <<main, nLoops, status, output, beats, inq, daemon, debug>>

\* "C" is a whole chunk, "Cpart" one of which the header and more, but not all,
\* has arrived, "C0" one of length 0; "Q" is Q, X and any unknown telegram.
\* "Cmixed" is a chunk as long as its header says, but some of these bytes are
\* beats and as many of its data are left over behind it.
Telegrams == [t : {"V", "H", "L", "Q", "C0"}] \cup
             [t : {"C", "Cpart", "Cmixed"}, n : 0 .. MaxChunks]

Ended == main \in {"success", "wget", "failed", "dead"}

TypeOK ==
  /\ main \in {"args", "config", "prepare", "connect", "init", "sent",
               "loop", "close", "exec", "success", "wget", "failed", "dead"}
  /\ nLoops \in 0 .. LOOP_LOOPS
  /\ bInit \in BOOLEAN /\ bRequest \in BOOLEAN /\ bFileLength \in BOOLEAN
  /\ bStop \in BOOLEAN /\ bComplete \in BOOLEAN
  /\ fp \in BOOLEAN /\ debug \in BOOLEAN
  /\ file \in Seq(Telegrams)
  /\ nBeats \in 0 .. HEARTBEAT_MISS + 1
  /\ nDelay \in 0 .. HEARTBEAT_DELAY
  /\ nWait \in 0 .. HEARTBEAT_WAIT + 1
  /\ inq \in Seq(Telegrams)
  /\ sentChunks \in 0 .. MaxChunks
  /\ link \in {"none", "open", "closed", "silent"}
  /\ framed \in BOOLEAN

\* The constructor leaves bComplete as it finds it on the stack.
Init ==
  /\ main = "args"
  /\ nLoops = 0
  /\ bInit = FALSE /\ bRequest = FALSE /\ bFileLength = FALSE /\ bStop = FALSE
  /\ bComplete \in BOOLEAN
  /\ fp = FALSE
  /\ file = <<>>
  /\ nBeats = 0 /\ nDelay = 0 /\ nWait = 0
  /\ inq = <<>>
  /\ sentChunks = 0
  /\ link = "none"
  /\ framed = TRUE
  /\ debug \in BOOLEAN

Dies == main' = "dead"

-----------------------------------------------------------------------------
(* The main thread: main, Download, DownloadNetwork, DownloadUrl.          *)

\* There are two arguments, or the program ends with code 1.
ParseArgs ==
  /\ main = "args"
  /\ main' \in {"config", "failed"}
  /\ UNCHANGED <<nLoops, status, output, beats, inq, daemon, debug>>

\* The configuration names a server and a port, or the program ends with code 2.
LoadConfig ==
  /\ main = "config"
  /\ main' \in {"prepare", "failed"}
  /\ UNCHANGED <<nLoops, status, output, beats, inq, daemon, debug>>

\* PrepareFilename: any name but *.pkg.tar.gz.part goes to the mirror. It writes
\* eleven bytes past the end of the block it allocates, which may be the end.
PrepareFilename ==
  /\ main = "prepare"
  /\ main' \in {"connect", "close", "dead"}
  /\ UNCHANGED <<nLoops, status, output, beats, inq, daemon, debug>>

Connect ==
  /\ main = "connect"
  /\ \/ main' = "init" /\ link' = "open"
     \/ main' = "close" /\ UNCHANGED link
  /\ UNCHANGED <<nLoops, status, output, beats, inq, sentChunks, framed, debug>>

\* SendInit sends first and takes the lock to set bInit afterwards.
SendInit ==
  /\ main = "init"
  /\ main' = "sent"
  /\ UNCHANGED <<nLoops, status, output, beats, inq, daemon, debug>>

SetInit ==
  /\ main = "sent"
  /\ main' = "loop"
  /\ bInit' = TRUE
  /\ UNCHANGED <<nLoops, bRequest, bFileLength, bStop, bComplete, output, beats, inq,
                 daemon, debug>>

\* _Stats.nFileSize is never set: the assertion fails, or a division by zero
\* kills the program or does not.
DisplayStatus ==
  \/ Dies
  \/ ~debug /\ UNCHANGED main

\* Mutant of CountTurn: the turns are not counted from 0 after a display.
TurnsKept == nLoops + 1

CountTurn == IF nLoops >= LOOP_LOOPS THEN 1 ELSE nLoops + 1

\* Mutant of MustLeave: stay until the file is there.
LeaveComplete == bStop /\ bComplete

MustLeave == bStop

\* One turn of the loop and the sleep after it.
Loop ==
  /\ main = "loop"
  /\ ~MustLeave
  /\ IF nLoops >= LOOP_LOOPS THEN DisplayStatus ELSE UNCHANGED main
  /\ nLoops' = CountTurn
  /\ UNCHANGED <<status, output, beats, inq, daemon, debug>>

LeaveLoop ==
  /\ main = "loop"
  /\ MustLeave
  /\ main' = "close"
  /\ UNCHANGED <<nLoops, status, output, beats, inq, daemon, debug>>

CloseFile ==
  /\ main = "close"
  /\ fp' = FALSE
  /\ main' = IF bComplete THEN "success" ELSE "exec"
  /\ UNCHANGED <<nLoops, status, file, beats, inq, daemon, debug>>

\* The process image is replaced by wget -c, or cannot be.
DownloadUrl ==
  /\ main = "exec"
  /\ main' \in {"wget", "failed"}
  /\ UNCHANGED <<nLoops, status, output, beats, inq, daemon, debug>>

MainThread ==
  \/ ParseArgs \/ LoadConfig
  \/ PrepareFilename \/ Connect \/ SendInit \/ SetInit
  \/ Loop \/ LeaveLoop \/ CloseFile \/ DownloadUrl

-----------------------------------------------------------------------------
(* The socket thread: OnReceive.                                           *)

Connected == ~Ended /\ link # "none"

Receives(letters) ==
  /\ Connected
  /\ inq # <<>>
  /\ Head(inq).t \in letters
  /\ debug => bInit

\* The end of OnReceive for a telegram it has handled.
Consume == inq' = Tail(inq) /\ nBeats' = 0 /\ UNCHANGED <<nDelay, nWait>>

\* The daemon's telegram comes between the two steps of SendInit.
ReceiveTooEarly ==
  /\ Connected
  /\ inq # <<>>
  /\ debug /\ ~bInit
  /\ Dies
  /\ UNCHANGED <<nLoops, status, output, beats, inq, daemon, debug>>

\* V: the file is requested, however often V comes.
SendFileRequest ==
  /\ Receives({"V"})
  /\ bRequest' = TRUE
  /\ Consume
  /\ UNCHANGED <<main, nLoops, bInit, bFileLength, bStop, bComplete, output, daemon, debug>>

ReceiveBeat ==
  /\ Receives({"H"})
  /\ Consume
  /\ UNCHANGED <<main, nLoops, status, output, daemon, debug>>

\* The first L opens the .part file, from the start, or fails to.
ProcessFileLength ==
  /\ Receives({"L"})
  /\ ~bFileLength
  /\ bFileLength' = TRUE
  /\ fp' \in BOOLEAN
  /\ file' = IF fp' THEN <<>> ELSE file
  /\ bStop' = (bStop \/ ~fp')
  /\ Consume
  /\ UNCHANGED <<main, nLoops, bInit, bRequest, bComplete, daemon, debug>>

SecondLength ==
  /\ Receives({"L"})
  /\ bFileLength
  /\ IF debug THEN Dies /\ UNCHANGED <<bStop, inq, beats>>
              ELSE bStop' = TRUE /\ Consume /\ UNCHANGED main
  /\ UNCHANGED <<nLoops, bInit, bRequest, bFileLength, bComplete, output, daemon, debug>>

\* Nothing ever assigns another value than 0 to _File.chunk.nCount.
Expected(c) == c.n = 0

\* Mutant of AllThere: what has arrived is written.
SomeThere(c) == TRUE

AllThere(c) == c.t \in {"C", "Cmixed"}

\* A chunk is written, whatever its bytes are, unless the file is not open: then
\* the assertion fails, or fwrite gets a null pointer.
ProcessChunk ==
  /\ Receives({"C", "Cpart", "Cmixed"})
  /\ Expected(Head(inq))
  /\ AllThere(Head(inq))
  /\ IF fp THEN file' = Append(file, Head(inq)) /\ Consume /\ UNCHANGED main
           ELSE Dies /\ UNCHANGED <<file, inq, beats>>
  /\ UNCHANGED <<nLoops, status, fp, daemon, debug>>

\* Another chunk than the expected one, arrived or not, or an empty one: it
\* stays in the queue.
RefuseChunk ==
  /\ Receives({"C", "Cpart", "Cmixed", "C0"})
  /\ Head(inq).t # "C0" => ~Expected(Head(inq))
  /\ bStop' = TRUE
  /\ UNCHANGED <<main, nLoops, bInit, bRequest, bFileLength, bComplete, output, beats, inq,
                 daemon, debug>>

ReceiveQuit ==
  /\ Receives({"Q"})
  /\ bStop' = TRUE
  /\ Consume
  /\ UNCHANGED <<main, nLoops, bInit, bRequest, bFileLength, bComplete, output, daemon, debug>>

OnReceive ==
  \/ ReceiveTooEarly \/ SendFileRequest \/ ReceiveBeat \/ ProcessFileLength
  \/ SecondLength \/ ProcessChunk \/ RefuseChunk \/ ReceiveQuit

-----------------------------------------------------------------------------
(* The socket thread: OnClosed, and OnIdle once a second has passed. Above  *)
(* its limit a counter is only ever compared with it: it is kept at limit.  *)

OnClosed ==
  /\ Connected
  /\ link = "closed"
  /\ bStop' = TRUE
  /\ UNCHANGED <<main, nLoops, bInit, bRequest, bFileLength, bComplete, output, beats, inq,
                 daemon, debug>>

CountTo(limit, n) == IF n < limit THEN n + 1 ELSE n

\* Mutant of Waits: the seconds without a length are not counted.
WaitsForgotten == nWait

Waits == IF bFileLength THEN nWait ELSE CountTo(HEARTBEAT_WAIT + 1, nWait)

WaitFails == Waits > HEARTBEAT_WAIT

Beat == ~WaitFails /\ nDelay + 1 >= HEARTBEAT_DELAY

\* Mutant of MissedBeats: missed beats are not counted.
BeatsForgotten == nBeats

MissedBeats == CountTo(HEARTBEAT_MISS + 1, nBeats)

BeatFails == Beat /\ MissedBeats > HEARTBEAT_MISS

OnIdle ==
  /\ Connected
  /\ nWait' = Waits
  /\ nDelay' = IF Beat THEN 0 ELSE CountTo(HEARTBEAT_DELAY, nDelay)
  /\ nBeats' = IF Beat THEN MissedBeats ELSE nBeats
  /\ bStop' = (bStop \/ WaitFails \/ BeatFails)
  /\ UNCHANGED <<main, nLoops, bInit, bRequest, bFileLength, bComplete, output, inq,
                 daemon, debug>>

-----------------------------------------------------------------------------
(* The daemon. Its Client sends a chunk in two Sends, the header and the    *)
(* data, and beats without the lock (client.cpp:228-229, 361): a beat may   *)
(* fall in between. The chunk then has the beat for its first byte of data, *)
(* and what follows it, from the byte left over on, is read as telegrams    *)
(* nobody sent. A chunk is taken to be longer than the beats that fall into *)
(* it; its header alone is not looked at.                                   *)

Arrives(c) ==
  /\ link = "open" /\ ~Ended
  /\ Len(inq) < MaxQueue
  /\ inq # <<>> => inq[Len(inq)].t # "Cpart"
  /\ inq' = Append(inq, c)

DaemonSends(t) ==
  /\ framed
  /\ t = "V" => main # "init"
  /\ t \in {"L", "C0"} => bRequest
  /\ Arrives([t |-> t])
  /\ UNCHANGED <<main, nLoops, status, output, beats, daemon, debug>>

\* The next chunk: all of it, the beginning, or all and a beat.
DaemonSendsChunk ==
  /\ framed
  /\ bRequest
  /\ sentChunks < MaxChunks
  /\ \E t \in {"C", "Cpart", "Cmixed"} :
       /\ Arrives([t |-> t, n |-> sentChunks])
       /\ framed' = (t # "Cmixed")
  /\ sentChunks' = sentChunks + 1
  /\ UNCHANGED <<main, nLoops, status, output, beats, link, debug>>

DaemonCompletes ==
  /\ link = "open" /\ ~Ended
  /\ inq # <<>>
  /\ inq[Len(inq)].t = "Cpart"
  /\ \E t \in {"C", "Cmixed"} :
       /\ t = "Cmixed" => framed
       /\ inq' = [inq EXCEPT ![Len(inq)].t = t]
       /\ framed' = (framed /\ t # "Cmixed")
  /\ UNCHANGED <<main, nLoops, status, output, beats, sentChunks, link, debug>>

\* Bytes of a chunk, or of what is sent after it, are read as a telegram. MaxChunks
\* bounds the chunks read so, too: none comes when that many have been written.
DaemonMisread ==
  /\ ~framed
  /\ \E c \in Telegrams :
       /\ c.t # "Cmixed"
       /\ c.t \in {"C", "Cpart"} => Len(file) < MaxChunks
       /\ Arrives(c)
  /\ UNCHANGED <<main, nLoops, status, output, beats, daemon, debug>>

DaemonLeaves ==
  /\ link = "open" /\ ~Ended
  /\ link' \in {"closed", "silent"}
  /\ UNCHANGED <<main, nLoops, status, output, beats, inq, sentChunks, framed, debug>>

Next ==
  \/ MainThread
  \/ OnReceive \/ OnClosed \/ OnIdle
  \/ \E t \in {"V", "H", "L", "Q", "C0"} : DaemonSends(t)
  \/ DaemonSendsChunk \/ DaemonCompletes \/ DaemonMisread \/ DaemonLeaves

\* The main thread runs, seconds pass ("when nothing is received on the socket,
\* this function will be called"), and a closed connection is reported.
Spec ==
  /\ Init /\ [][Next]_vars
  /\ WF_vars(MainThread) /\ WF_vars(OnIdle) /\ WF_vars(OnClosed)

-----------------------------------------------------------------------------
(* Properties.                                                             *)

\* What wget -c continues is, up to the first chunk a beat has fallen into, a
\* piece from the front of the package: complete chunks, in order, none twice,
\* whatever else comes between them (pacsrvclient.cpp:669-703, 720). That chunk
\* and what is misread as chunks after it are written all the same.
FileIsPrefix ==
  \A k \in DOMAIN file :
    (\A j \in 1 .. k - 1 : file[j].t = "C")
      => file[k] \in [t : {"C", "Cmixed"}, n : {k - 1}]

\* A daemon that never announces a length, however lively, is left: "we might
\* as well stop this and get the file from the mirror" (pacsrvclient.cpp:581-601).
NoLengthNoWait == <>(bFileLength \/ bStop \/ Ended)

\* A daemon that closes or vanishes, at whatever point of the transfer, does not
\* keep the program from ending (pacsrvclient.cpp:469-474, 586-618, 394).
LostDaemonLeft == link \in {"closed", "silent"} ~> Ended
=============================================================================
