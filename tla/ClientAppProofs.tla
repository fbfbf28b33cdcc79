-------------------------- MODULE ClientAppProofs --------------------------
(***************************************************************************)
(* Theorems about ClientApp, for any number of chunks and telegrams and    *)
(* any heartbeat setting. The program always waits for chunk 0 (nothing    *)
(* counts its chunks), so that what keeps the file a prefix is the daemon: *)
(* it sends that chunk once. When a beat falls into a chunk, what is read  *)
(* behind it may be anything, another chunk 0 too: the invariant says where*)
(* that chunk is, in the queue in front of the rest or first in the file.  *)
(***************************************************************************)
EXTENDS ClientApp, TLAPS

USE BoundsAssumption, LoopsAssumption, HeartbeatAssumption

\* Chunk 0, all of it, the beginning, or with a beat in it.
IsFirst(c) == c.t \in {"C", "Cpart", "Cmixed"} /\ c.n = 0

FirstChunk == [t |-> "C", n |-> 0]

MixedChunk == [t |-> "Cmixed", n |-> 0]

\* The file begins with a chunk a beat has fallen into.
MixedInFile == file # <<>> /\ file[1] = MixedChunk

\* The k-th telegram of the queue is one the daemon has sent, unlike what follows
\* a mixed chunk.
Genuine(k) == ~MixedInFile /\ \A j \in 1 .. k - 1 : inq[j].t # "Cmixed"

\* The daemon's chunk 0 is in one place at most: not yet sent, under way, or in the
\* file; and only one that came first in the file can let others in after it.
OneFirst ==
  /\ file \in {<<>>, <<FirstChunk>>} \/ MixedInFile
  /\ file # <<>> => sentChunks > 0 /\ bFileLength
  /\ \A k \in DOMAIN inq : IsFirst(inq[k]) /\ Genuine(k) => file = <<>> /\ sentChunks > 0
  /\ \A j, k \in DOMAIN inq :
       IsFirst(inq[j]) /\ Genuine(j) /\ IsFirst(inq[k]) /\ Genuine(k) => j = k
  /\ framed \/ MixedInFile \/ \E j \in DOMAIN inq : inq[j].t = "Cmixed"
  /\ fp => bFileLength

IInv == TypeOK /\ OneFirst

LEMMA InitIInv == Init => IInv
  <1> SUFFICES ASSUME Init PROVE IInv
    OBVIOUS
  <1>1. TypeOK
    <2>1. nLoops \in 0 .. LOOP_LOOPS /\ sentChunks \in 0 .. MaxChunks
      BY DEF Init
    <2>2. /\ nBeats \in 0 .. HEARTBEAT_MISS + 1
          /\ nDelay \in 0 .. HEARTBEAT_DELAY
          /\ nWait \in 0 .. HEARTBEAT_WAIT + 1
      BY DEF Init
    <2>3. file \in Seq(Telegrams) /\ inq \in Seq(Telegrams)
      BY DEF Init
    <2> QED
      BY <2>1, <2>2, <2>3 DEF Init, TypeOK
  <1>2. OneFirst
    <2>1. file = <<>> /\ inq = <<>> /\ DOMAIN inq = {} /\ framed /\ ~fp
      BY DEF Init
    <2> QED
      BY <2>1 DEF OneFirst
  <1> QED
    BY <1>1, <1>2 DEF IInv

-----------------------------------------------------------------------------
\* What neither the main thread nor the clock can disturb.
LEMMA Undisturbed ==
  ASSUME OneFirst, UNCHANGED <<file, inq, sentChunks, framed, bFileLength>>, fp' => fp
  PROVE  OneFirst'
  BY DEF OneFirst, Genuine, MixedInFile

LEMMA MainThreadIInv == ASSUME IInv, MainThread PROVE IInv'
  <1>1. UNCHANGED <<file, inq, sentChunks, framed, bFileLength>> /\ (fp' => fp)
    BY DEF MainThread, ParseArgs, LoadConfig, PrepareFilename, Connect, SendInit, SetInit,
           Loop, LeaveLoop, CloseFile, DownloadUrl, output, daemon, status
  <1>2. TypeOK'
    <2> USE DEF IInv, TypeOK, status, output, beats, daemon
    <2>1. CASE ParseArgs
      BY <2>1 DEF ParseArgs
    <2>2. CASE LoadConfig
      BY <2>2 DEF LoadConfig
    <2>3. CASE PrepareFilename
      BY <2>3 DEF PrepareFilename
    <2>4. CASE Connect
      BY <2>4 DEF Connect
    <2>5. CASE SendInit
      BY <2>5 DEF SendInit
    <2>6. CASE SetInit
      BY <2>6 DEF SetInit
    <2>7. CASE Loop
      <3>1. nLoops' \in 0 .. LOOP_LOOPS
        BY <2>7 DEF Loop, CountTurn
      <3>2. main' \in {"loop", "dead"}
        BY <2>7 DEF Loop, DisplayStatus, Dies
      <3> QED
        BY <2>7, <3>1, <3>2 DEF Loop
    <2>8. CASE LeaveLoop
      BY <2>8 DEF LeaveLoop
    <2>9. CASE CloseFile
      BY <2>9 DEF CloseFile
    <2>10. CASE DownloadUrl
      BY <2>10 DEF DownloadUrl
    <2> QED
      BY <2>1, <2>2, <2>3, <2>4, <2>5, <2>6, <2>7, <2>8, <2>9, <2>10 DEF MainThread
  <1> QED
    BY <1>1, <1>2, Undisturbed DEF IInv

LEMMA OnClosedIInv == ASSUME IInv, OnClosed PROVE IInv'
  <1>1. TypeOK'
    BY DEF OnClosed, IInv, TypeOK, output, beats, daemon
  <1> QED
    BY <1>1, Undisturbed DEF OnClosed, IInv, output, daemon, status

LEMMA OnIdleIInv == ASSUME IInv, OnIdle PROVE IInv'
  <1>1. /\ nWait' \in 0 .. HEARTBEAT_WAIT + 1
        /\ nDelay' \in 0 .. HEARTBEAT_DELAY
        /\ nBeats' \in 0 .. HEARTBEAT_MISS + 1
    BY DEF OnIdle, IInv, TypeOK, Waits, WaitFails, Beat, MissedBeats, CountTo
  <1>2. bStop' \in BOOLEAN
    BY DEF OnIdle
  <1>3. TypeOK'
    BY <1>1, <1>2 DEF OnIdle, IInv, TypeOK, output, daemon
  <1> QED
    BY <1>3, Undisturbed DEF OnIdle, IInv, output, daemon, status

-----------------------------------------------------------------------------
\* Taking the head off the queue, if it is no chunk.
LEMMA Taken ==
  ASSUME IInv, inq # <<>>, inq' = Tail(inq), ~(Head(inq).t \in {"C", "Cpart", "Cmixed"}),
         file' = file \/ (file' = <<>> /\ ~bFileLength), bFileLength => bFileLength',
         fp' => fp \/ bFileLength', UNCHANGED <<sentChunks, framed>>
  PROVE  inq' \in Seq(Telegrams) /\ file' \in Seq(Telegrams) /\ OneFirst'
  <1>1. inq' \in Seq(Telegrams) /\ DOMAIN inq' = 1 .. Len(inq) - 1
    BY DEF IInv, TypeOK
  <1>2. \A k \in DOMAIN inq' : k + 1 \in DOMAIN inq /\ inq'[k] = inq[k + 1]
    BY <1>1 DEF IInv, TypeOK
  <1>3. file' = file /\ file' \in Seq(Telegrams)
    BY DEF IInv, TypeOK, OneFirst
  <1>4. MixedInFile' = MixedInFile
    BY <1>3 DEF MixedInFile
  <1>5. inq[1].t # "Cmixed" /\ DOMAIN inq = 1 .. Len(inq) /\ Len(inq) \in Nat
    BY DEF IInv, TypeOK
  <1>6. ASSUME NEW k \in DOMAIN inq', Genuine(k)'
        PROVE  Genuine(k + 1)
    <2>1. \A j \in 1 .. k - 1 : j \in DOMAIN inq' /\ inq'[j].t # "Cmixed"
      BY <1>1, <1>5, <1>6 DEF Genuine
    <2>2. \A j \in 1 .. k - 1 : inq[j + 1].t # "Cmixed"
      BY <1>2, <2>1
    <2>3. ASSUME NEW j \in 1 .. (k + 1) - 1 PROVE inq[j].t # "Cmixed"
      <3>1. CASE j = 1
        BY <1>5, <3>1
      <3>2. CASE j # 1
        <4>1. j - 1 \in 1 .. k - 1 /\ (j - 1) + 1 = j
          BY <1>1, <1>5, <3>2
        <4> QED
          BY <2>2, <4>1
      <3> QED
        BY <3>1, <3>2
    <2> QED
      BY <1>4, <1>6, <2>3 DEF Genuine
  <1>7. ASSUME NEW j \in DOMAIN inq, inq[j].t = "Cmixed"
        PROVE  \E i \in DOMAIN inq' : inq'[i].t = "Cmixed"
    <2>1. j - 1 \in DOMAIN inq' /\ (j - 1) + 1 = j
      BY <1>1, <1>5, <1>7
    <2>2. inq'[j - 1] = inq[j]
      BY <1>2, <2>1
    <2> QED
      BY <1>7, <2>1, <2>2
  <1>8. \A k \in DOMAIN inq' : IsFirst(inq'[k]) /\ Genuine(k)' => file' = <<>> /\ sentChunks' > 0
    BY <1>2, <1>3, <1>6 DEF IInv, OneFirst
  <1>9. ASSUME NEW j \in DOMAIN inq', NEW k \in DOMAIN inq',
               IsFirst(inq'[j]), Genuine(j)', IsFirst(inq'[k]), Genuine(k)'
        PROVE  j = k
    <2>1. /\ j + 1 \in DOMAIN inq /\ IsFirst(inq[j + 1]) /\ Genuine(j + 1)
          /\ k + 1 \in DOMAIN inq /\ IsFirst(inq[k + 1]) /\ Genuine(k + 1)
      BY <1>2, <1>6, <1>9
    <2>2. j + 1 = k + 1
      BY <2>1 DEF IInv, OneFirst
    <2> QED
      BY <1>1, <1>5, <2>2
  <1>10. framed' \/ MixedInFile' \/ \E j \in DOMAIN inq' : inq'[j].t = "Cmixed"
    BY <1>4, <1>7 DEF IInv, OneFirst
  <1>11. /\ file' \in {<<>>, <<FirstChunk>>} \/ MixedInFile'
         /\ file' # <<>> => sentChunks' > 0 /\ bFileLength'
         /\ fp' => bFileLength'
    BY <1>3, <1>4 DEF IInv, OneFirst
  <1>12. OneFirst'
    BY <1>8, <1>9, <1>10, <1>11 DEF OneFirst
  <1> QED
    BY <1>1, <1>3, <1>12

\* Writing it: if it is genuine, whatever else is genuine in the queue is not chunk
\* 0; if it is not, or is mixed, the file begins with a mixed chunk.
LEMMA Written ==
  ASSUME IInv, inq # <<>>, inq' = Tail(inq), IsFirst(Head(inq)),
         Head(inq).t \in {"C", "Cmixed"}, fp, file' = Append(file, Head(inq)),
         UNCHANGED <<sentChunks, framed, bFileLength, fp>>
  PROVE  /\ inq' \in Seq(Telegrams)
         /\ file' \in Seq(Telegrams)
         /\ OneFirst'
  <1>1. inq' \in Seq(Telegrams) /\ DOMAIN inq' = 1 .. Len(inq) - 1
    BY DEF IInv, TypeOK
  <1>2. 1 \in DOMAIN inq /\ Head(inq) = inq[1] /\ inq[1] \in Telegrams
    BY DEF IInv, TypeOK
  <1>3. Head(inq) \in {FirstChunk, MixedChunk}
    BY <1>2 DEF IsFirst, FirstChunk, MixedChunk, Telegrams
  <1>4. file' \in Seq(Telegrams) /\ file' # <<>>
    <2>1. file \in Seq(Telegrams) /\ Head(inq) \in Telegrams
      BY <1>2 DEF IInv, TypeOK
    <2> QED
      BY <2>1
  <1>5. bFileLength'
    BY DEF IInv, OneFirst
  <1>6. CASE MixedInFile
    <2>1. MixedInFile' /\ sentChunks > 0
      <3>1. file # <<>> /\ file \in Seq(Telegrams) /\ file[1] = MixedChunk
        BY <1>6 DEF MixedInFile, IInv, TypeOK
      <3>2. file'[1] = file[1]
        BY <3>1
      <3> QED
        BY <1>4, <3>1, <3>2 DEF MixedInFile, IInv, OneFirst
    <2> QED
      BY <1>1, <1>4, <1>5, <2>1 DEF OneFirst, Genuine
  <1>7. CASE ~MixedInFile
    <2>1. Genuine(1)
      BY <1>7 DEF Genuine
    <2>2. file = <<>> /\ sentChunks > 0
      BY <1>2, <2>1 DEF IInv, OneFirst
    <2>3. file' = <<Head(inq)>>
      BY <2>2
    <2>4. CASE Head(inq) = MixedChunk
      <3>1. MixedInFile'
        BY <2>3, <2>4 DEF MixedInFile
      <3> QED
        BY <1>1, <1>4, <1>5, <2>2, <3>1 DEF OneFirst, Genuine
    <2>5. CASE Head(inq) = FirstChunk
      <3>1. file' = <<FirstChunk>>
        BY <2>3, <2>5
      <3>2. ASSUME NEW k \in DOMAIN inq', Genuine(k)', IsFirst(inq'[k])
            PROVE  FALSE
        <4>1. /\ k + 1 \in DOMAIN inq /\ inq'[k] = inq[k + 1] /\ k \in Nat
              /\ \A j \in 1 .. k - 1 : inq'[j] = inq[j + 1]
          BY <1>1 DEF IInv, TypeOK
        <4>2. \A j \in 1 .. k - 1 : inq[j + 1].t # "Cmixed"
          BY <3>2, <4>1 DEF Genuine
        <4>3. inq[1].t # "Cmixed"
          BY <1>2, <2>5 DEF FirstChunk
        <4>4. ASSUME NEW j \in 1 .. (k + 1) - 1 PROVE inq[j].t # "Cmixed"
          <5>1. CASE j = 1
            BY <4>3, <5>1
          <5>2. CASE j # 1
            <6>1. j - 1 \in 1 .. k - 1 /\ (j - 1) + 1 = j
              BY <4>1, <5>2
            <6> QED
              BY <4>2, <6>1
          <5> QED
            BY <5>1, <5>2
        <4>5. Genuine(k + 1) /\ IsFirst(inq[k + 1])
          BY <1>7, <3>2, <4>1, <4>4 DEF Genuine
        <4>6. k + 1 = 1
          BY <1>2, <2>1, <4>1, <4>5 DEF IInv, OneFirst
        <4> QED
          BY <1>1, <4>1, <4>6
      <3>3. framed' \/ \E j \in DOMAIN inq' : inq'[j].t = "Cmixed"
        <4>1. ASSUME NEW j \in DOMAIN inq, inq[j].t = "Cmixed"
              PROVE  \E i \in DOMAIN inq' : inq'[i].t = "Cmixed"
          <5>1. j # 1
            BY <1>2, <2>5, <4>1 DEF FirstChunk
          <5>2. j - 1 \in DOMAIN inq' /\ inq'[j - 1] = inq[j]
            BY <1>1, <5>1 DEF IInv, TypeOK
          <5> QED
            BY <4>1, <5>2
        <4> QED
          BY <1>7, <4>1 DEF IInv, OneFirst
      <3>4. \A k \in DOMAIN inq' : ~(IsFirst(inq'[k]) /\ Genuine(k)')
        BY <3>2
      <3>5. file' \in {<<>>, <<FirstChunk>>} /\ sentChunks' > 0
        BY <2>2, <3>1
      <3> QED
        BY <1>1, <1>4, <1>5, <3>3, <3>4, <3>5 DEF OneFirst
    <2> QED
      BY <1>3, <2>4, <2>5
  <1> QED
    BY <1>1, <1>4, <1>6, <1>7

LEMMA ProcessChunkIInv == ASSUME IInv, ProcessChunk PROVE IInv'
  <1>1. inq # <<>> /\ IsFirst(Head(inq)) /\ Head(inq).t \in {"C", "Cmixed"}
    BY DEF ProcessChunk, Receives, Expected, AllThere, IsFirst
  <1>2. CASE fp
    <2>1. /\ inq' \in Seq(Telegrams)
          /\ file' \in Seq(Telegrams)
          /\ OneFirst'
      BY <1>1, <1>2, Written DEF ProcessChunk, Consume, daemon, status
    <2>2. TypeOK'
      BY <1>2, <2>1 DEF ProcessChunk, Consume, IInv, TypeOK, status, daemon
    <2> QED
      BY <2>1, <2>2 DEF IInv
  <1>3. CASE ~fp
    <2>1. TypeOK'
      BY <1>3 DEF ProcessChunk, Dies, IInv, TypeOK, status, beats, daemon
    <2> QED
      BY <1>3, <2>1, Undisturbed DEF ProcessChunk, IInv, daemon, status
  <1> QED
    BY <1>2, <1>3

\* The handlers that take a telegram and leave the file alone or start it anew.
LEMMA TakingIInv ==
  ASSUME IInv, SendFileRequest \/ ReceiveBeat \/ ProcessFileLength \/ ReceiveQuit
  PROVE  IInv'
  <1>1. /\ inq # <<>> /\ inq' = Tail(inq)
        /\ ~(Head(inq).t \in {"C", "Cpart", "Cmixed"})
        /\ UNCHANGED <<sentChunks, framed>>
    BY DEF SendFileRequest, ReceiveBeat, ProcessFileLength, ReceiveQuit, Receives, Consume,
           daemon
  <1>2. /\ file' = file \/ (file' = <<>> /\ ~bFileLength)
        /\ bFileLength => bFileLength'
        /\ fp' => fp \/ bFileLength'
    BY DEF SendFileRequest, ReceiveBeat, ProcessFileLength, ReceiveQuit, output, status
  <1>3. inq' \in Seq(Telegrams) /\ file' \in Seq(Telegrams) /\ OneFirst'
    BY <1>1, <1>2, Taken
  <1>4. bStop' \in BOOLEAN /\ fp' \in BOOLEAN
    BY DEF SendFileRequest, ReceiveBeat, ProcessFileLength, ReceiveQuit, IInv, TypeOK,
           output, status
  <1>5. TypeOK'
    <2> USE DEF Consume, IInv, TypeOK, output, status, daemon
    <2>1. CASE SendFileRequest
      BY <1>3, <1>4, <2>1 DEF SendFileRequest
    <2>2. CASE ReceiveBeat
      BY <1>3, <1>4, <2>2 DEF ReceiveBeat
    <2>3. CASE ProcessFileLength
      BY <1>3, <1>4, <2>3 DEF ProcessFileLength
    <2>4. CASE ReceiveQuit
      BY <1>3, <1>4, <2>4 DEF ReceiveQuit
    <2> QED
      BY <2>1, <2>2, <2>3, <2>4
  <1> QED
    BY <1>3, <1>5 DEF IInv

LEMMA SecondLengthIInv == ASSUME IInv, SecondLength PROVE IInv'
  <1>1. CASE debug
    <2>1. TypeOK'
      BY <1>1 DEF SecondLength, Dies, IInv, TypeOK, output, beats, daemon
    <2> QED
      BY <1>1, <2>1, Undisturbed DEF SecondLength, IInv, output, daemon
  <1>2. CASE ~debug
    <2>1. /\ inq # <<>> /\ inq' = Tail(inq)
          /\ ~(Head(inq).t \in {"C", "Cpart", "Cmixed"})
          /\ UNCHANGED <<file, fp, bFileLength, sentChunks, framed>>
      BY <1>2 DEF SecondLength, Receives, Consume, output, daemon
    <2>2. inq' \in Seq(Telegrams) /\ OneFirst'
      BY <2>1, Taken
    <2>3. TypeOK'
      BY <1>2, <2>2 DEF SecondLength, Consume, IInv, TypeOK, output, daemon
    <2> QED
      BY <2>2, <2>3 DEF IInv
  <1> QED
    BY <1>1, <1>2

LEMMA RefusingIInv == ASSUME IInv, ReceiveTooEarly \/ RefuseChunk PROVE IInv'
  <1>1. TypeOK'
    <2> USE DEF IInv, TypeOK, status, output, beats, daemon
    <2>1. CASE ReceiveTooEarly
      BY <2>1 DEF ReceiveTooEarly, Dies
    <2>2. CASE RefuseChunk
      BY <2>2 DEF RefuseChunk
    <2> QED
      BY <2>1, <2>2
  <1> QED
    BY <1>1, Undisturbed DEF ReceiveTooEarly, RefuseChunk, IInv, output, daemon, status

-----------------------------------------------------------------------------
(* The daemon.                                                             *)

\* What Arrives does to the queue.
LEMMA Arrived ==
  ASSUME IInv, NEW c \in Telegrams, Arrives(c)
  PROVE  /\ inq' \in Seq(Telegrams)
         /\ DOMAIN inq = 1 .. Len(inq) /\ Len(inq) \in Nat
         /\ DOMAIN inq' = 1 .. Len(inq) + 1
         /\ inq'[Len(inq) + 1] = c
         /\ \A k \in DOMAIN inq : k \in DOMAIN inq' /\ inq'[k] = inq[k]
  BY DEF Arrives, IInv, TypeOK

\* What arrives, if it is not the daemon's chunk 0 or comes as the only one, leaves
\* that chunk where it is.
LEMMA ArrivedOneFirst ==
  ASSUME IInv, NEW c \in Telegrams, Arrives(c),
         UNCHANGED <<file, fp, bFileLength>>,
         sentChunks' \in Nat, sentChunks' >= sentChunks,
         \/ ~IsFirst(c)
         \/ ~framed
         \/ sentChunks = 0 /\ sentChunks' > 0,
         framed' \/ ~framed \/ c.t = "Cmixed"
  PROVE  OneFirst'
  <1>1. /\ DOMAIN inq = 1 .. Len(inq) /\ Len(inq) \in Nat
        /\ DOMAIN inq' = 1 .. Len(inq) + 1
        /\ inq'[Len(inq) + 1] = c
        /\ \A k \in DOMAIN inq : k \in DOMAIN inq' /\ inq'[k] = inq[k]
    BY Arrived
  <1>2. MixedInFile' = MixedInFile
    BY DEF MixedInFile
  <1>3. ASSUME NEW k \in DOMAIN inq', Genuine(k)'
        PROVE  \A j \in 1 .. k - 1 : j \in DOMAIN inq /\ inq[j].t # "Cmixed"
    <2>1. \A j \in 1 .. k - 1 : inq'[j].t # "Cmixed" /\ j \in DOMAIN inq
      BY <1>1, <1>3 DEF Genuine
    <2> QED
      BY <1>1, <2>1
  <1>4. \A k \in DOMAIN inq : Genuine(k)' => Genuine(k)
    BY <1>1, <1>2, <1>3 DEF Genuine
  <1>5. ASSUME NEW k, k = Len(inq) + 1, IsFirst(c), Genuine(k)'
        PROVE  sentChunks = 0 /\ sentChunks' > 0
    <2>1. ~MixedInFile
      BY <1>2, <1>5 DEF Genuine
    <2>2. \A j \in DOMAIN inq : inq[j].t # "Cmixed"
      BY <1>1, <1>3, <1>5
    <2>3. framed
      BY <2>1, <2>2 DEF IInv, OneFirst
    <2> QED
      BY <1>5, <2>3
  <1>6. ASSUME NEW k \in DOMAIN inq', IsFirst(inq'[k]), Genuine(k)'
        PROVE  /\ file' = <<>> /\ sentChunks' > 0
               /\ k \in DOMAIN inq => sentChunks > 0
               /\ k \notin DOMAIN inq => sentChunks = 0 /\ k = Len(inq) + 1
    <2>0. sentChunks \in Nat
      BY DEF IInv, TypeOK
    <2>1. CASE k \in DOMAIN inq
      <3>1. IsFirst(inq[k]) /\ Genuine(k)
        BY <1>1, <1>4, <1>6, <2>1
      <3>2. file = <<>> /\ sentChunks > 0
        BY <2>1, <3>1 DEF IInv, OneFirst
      <3> QED
        BY <2>0, <2>1, <3>2
    <2>2. CASE k \notin DOMAIN inq
      <3>1. k = Len(inq) + 1
        BY <1>1, <2>2
      <3>2. sentChunks = 0 /\ sentChunks' > 0
        BY <1>1, <1>5, <1>6, <3>1
      <3>3. file = <<>>
        BY <3>2 DEF IInv, OneFirst
      <3> QED
        BY <2>2, <3>1, <3>2, <3>3
    <2> QED
      BY <2>1, <2>2
  <1>7. ASSUME NEW j \in DOMAIN inq', NEW k \in DOMAIN inq',
               IsFirst(inq'[j]), Genuine(j)', IsFirst(inq'[k]), Genuine(k)'
        PROVE  j = k
    <2>1. CASE j \in DOMAIN inq /\ k \in DOMAIN inq
      <3>1. IsFirst(inq[j]) /\ Genuine(j) /\ IsFirst(inq[k]) /\ Genuine(k)
        BY <1>1, <1>4, <1>7, <2>1
      <3> QED
        BY <2>1, <3>1 DEF IInv, OneFirst
    <2>2. CASE ~(j \in DOMAIN inq /\ k \in DOMAIN inq)
      BY <1>6, <1>7, <2>2
    <2> QED
      BY <2>1, <2>2
  <1>8. framed' \/ MixedInFile' \/ \E j \in DOMAIN inq' : inq'[j].t = "Cmixed"
    <2>1. CASE c.t = "Cmixed"
      BY <1>1, <2>1
    <2>2. CASE ~framed
      BY <1>1, <1>2, <2>2 DEF IInv, OneFirst
    <2> QED
      BY <2>1, <2>2
  <1>9. /\ file' \in {<<>>, <<FirstChunk>>} \/ MixedInFile'
        /\ file' # <<>> => sentChunks' > 0 /\ bFileLength'
        /\ fp' => bFileLength'
    BY <1>2 DEF IInv, TypeOK, OneFirst
  <1> QED
    BY <1>6, <1>7, <1>8, <1>9 DEF OneFirst

LEMMA DaemonSendsIInv ==
  ASSUME IInv, NEW t \in {"V", "H", "L", "Q", "C0"}, DaemonSends(t)
  PROVE  IInv'
  <1> DEFINE c == [t |-> t]
  <1>1. Arrives(c) /\ c \in Telegrams /\ ~IsFirst(c)
    BY DEF DaemonSends, Telegrams, IsFirst
  <1> HIDE DEF c
  <1>2. TypeOK'
    BY <1>1, Arrived DEF DaemonSends, IInv, TypeOK, status, output, beats, daemon
  <1>3. OneFirst'
    BY <1>1, ArrivedOneFirst DEF DaemonSends, IInv, TypeOK, status, output, daemon
  <1> QED
    BY <1>2, <1>3 DEF IInv

LEMMA DaemonSendsChunkIInv == ASSUME IInv, DaemonSendsChunk PROVE IInv'
  <1>1. PICK t \in {"C", "Cpart", "Cmixed"} :
          /\ Arrives([t |-> t, n |-> sentChunks])
          /\ framed' = (t # "Cmixed")
    BY DEF DaemonSendsChunk
  <1> DEFINE c == [t |-> t, n |-> sentChunks]
  <1>2. c \in Telegrams /\ (IsFirst(c) => sentChunks = 0) /\ (framed' \/ c.t = "Cmixed")
    BY <1>1 DEF IInv, TypeOK, Telegrams, IsFirst
  <1>3. Arrives(c)
    BY <1>1
  <1> HIDE DEF c
  <1>4. sentChunks' = sentChunks + 1 /\ sentChunks' \in 0 .. MaxChunks /\ sentChunks \in Nat
    BY DEF DaemonSendsChunk, IInv, TypeOK
  <1>5. TypeOK'
    BY <1>1, <1>2, <1>3, <1>4, Arrived DEF DaemonSendsChunk, IInv, TypeOK, status, output,
       beats
  <1>6. OneFirst'
    <2>1. UNCHANGED <<file, fp, bFileLength>>
      BY DEF DaemonSendsChunk, output, status
    <2>2. sentChunks' \in Nat /\ sentChunks' >= sentChunks /\ sentChunks' > 0
      BY <1>4
    <2> QED
      BY <1>2, <1>3, <2>1, <2>2, ArrivedOneFirst
  <1> QED
    BY <1>5, <1>6 DEF IInv

LEMMA DaemonMisreadIInv == ASSUME IInv, DaemonMisread PROVE IInv'
  <1>1. PICK c \in Telegrams : Arrives(c)
    BY DEF DaemonMisread
  <1>2. TypeOK'
    BY <1>1, Arrived DEF DaemonMisread, IInv, TypeOK, status, output, beats, daemon
  <1>3. OneFirst'
    <2>1. UNCHANGED <<file, fp, bFileLength, sentChunks>> /\ ~framed /\ sentChunks \in Nat
      BY DEF DaemonMisread, output, status, daemon, IInv, TypeOK
    <2>2. sentChunks' \in Nat /\ sentChunks' >= sentChunks
      BY <2>1
    <2> QED
      BY <1>1, <2>1, <2>2, ArrivedOneFirst
  <1> QED
    BY <1>2, <1>3 DEF IInv

LEMMA DaemonCompletesIInv == ASSUME IInv, DaemonCompletes PROVE IInv'
  <1> DEFINE m == Len(inq)
  <1>0. PICK t \in {"C", "Cmixed"} :
          /\ inq' = [inq EXCEPT ![m].t = t]
          /\ framed' = (framed /\ t # "Cmixed")
    BY DEF DaemonCompletes
  <1>1. m \in DOMAIN inq /\ inq \in Seq(Telegrams) /\ inq[m] \in Telegrams /\ inq[m].t = "Cpart"
    BY DEF DaemonCompletes, IInv, TypeOK
  <1>2. inq' = [inq EXCEPT ![m] = [inq[m] EXCEPT !.t = t]]
    BY <1>0, <1>1
  <1>3. /\ [inq[m] EXCEPT !.t = t] \in Telegrams
        /\ [inq[m] EXCEPT !.t = t].n = inq[m].n
        /\ [inq[m] EXCEPT !.t = t].t = t
    BY <1>1 DEF Telegrams
  <1>4. inq' \in Seq(Telegrams) /\ DOMAIN inq' = DOMAIN inq
    BY <1>1, <1>2, <1>3
  <1>5. /\ \A k \in DOMAIN inq : IsFirst(inq'[k]) => IsFirst(inq[k])
        /\ \A k \in DOMAIN inq : inq[k].t = "Cmixed" => inq'[k].t = "Cmixed"
        /\ inq'[m].t = t
    BY <1>1, <1>2, <1>3 DEF IsFirst
  <1>6. UNCHANGED <<file, fp, bFileLength, sentChunks>>
    BY DEF DaemonCompletes, output, status
  <1>7. TypeOK'
    BY <1>0, <1>4, <1>6 DEF DaemonCompletes, IInv, TypeOK, status, output, beats
  <1>8. \A k \in DOMAIN inq : Genuine(k)' => Genuine(k)
    <2>1. DOMAIN inq = 1 .. Len(inq) /\ Len(inq) \in Nat
      BY <1>1
    <2>2. \A k \in DOMAIN inq : \A j \in 1 .. k - 1 : j \in DOMAIN inq
      BY <2>1
    <2> QED
      BY <1>5, <1>6, <2>2 DEF Genuine, MixedInFile
  <1>9. framed' \/ MixedInFile' \/ \E j \in DOMAIN inq' : inq'[j].t = "Cmixed"
    <2>1. CASE t = "Cmixed"
      BY <1>1, <1>4, <1>5, <2>1
    <2>2. CASE t # "Cmixed"
      <3>1. framed' = framed /\ MixedInFile' = MixedInFile
        BY <1>0, <1>6, <2>2 DEF MixedInFile, IInv, TypeOK
      <3> QED
        BY <1>4, <1>5, <3>1 DEF IInv, OneFirst
    <2> QED
      BY <2>1, <2>2
  <1>10. OneFirst'
    <2>1. MixedInFile' = MixedInFile
      BY <1>6 DEF MixedInFile
    <2>2. \A k \in DOMAIN inq' :
            IsFirst(inq'[k]) /\ Genuine(k)' => IsFirst(inq[k]) /\ Genuine(k)
      BY <1>4, <1>5, <1>8
    <2> QED
      BY <1>4, <1>6, <1>9, <2>1, <2>2 DEF IInv, OneFirst
  <1> QED
    BY <1>7, <1>10 DEF IInv

LEMMA DaemonLeavesIInv == ASSUME IInv, DaemonLeaves PROVE IInv'
  <1>1. TypeOK'
    BY DEF DaemonLeaves, IInv, TypeOK, status, output, beats
  <1> QED
    BY <1>1, Undisturbed DEF DaemonLeaves, IInv, output, status

LEMMA NextIInv == IInv /\ [Next]_vars => IInv'
  <1> SUFFICES ASSUME IInv, [Next]_vars PROVE IInv'
    OBVIOUS
  <1>1. CASE UNCHANGED vars
    <2>1. TypeOK'
      BY <1>1 DEF vars, status, output, beats, daemon, IInv, TypeOK
    <2> QED
      BY <1>1, <2>1, Undisturbed DEF vars, status, output, daemon, IInv
  <1>2. CASE OnReceive
    BY <1>2, ProcessChunkIInv, TakingIInv, SecondLengthIInv, RefusingIInv DEF OnReceive
  <1> QED
    BY <1>1, <1>2, MainThreadIInv, OnClosedIInv, OnIdleIInv, DaemonSendsIInv,
       DaemonSendsChunkIInv, DaemonCompletesIInv, DaemonMisreadIInv, DaemonLeavesIInv DEF Next

-----------------------------------------------------------------------------
\* Every reachable state of the program is well typed: no counter passes its limit
\* (pacsrvclient.cpp:586-618).
THEOREM TypeCorrect == Spec => []TypeOK
  <1>1. IInv => TypeOK
    BY DEF IInv
  <1> QED
    BY <1>1, InitIInv, NextIInv, PTL DEF Spec

\* What the invariant says of the file.
LEMMA PrefixInv == IInv => FileIsPrefix
  <1> SUFFICES ASSUME IInv, NEW k \in DOMAIN file, \A j \in 1 .. k - 1 : file[j].t = "C"
               PROVE  file[k] \in [t : {"C", "Cmixed"}, n : {k - 1}]
    BY DEF FileIsPrefix
  <1>1. CASE MixedInFile
    <2>1. k = 1
      <3>1. k \in Nat /\ k >= 1
        BY DEF IInv, TypeOK
      <3>2. file[1].t # "C"
        BY <1>1 DEF MixedInFile, MixedChunk
      <3> QED
        BY <3>1, <3>2
    <2> QED
      BY <1>1, <2>1 DEF MixedInFile, MixedChunk
  <1>2. CASE ~MixedInFile
    <2>1. file = <<FirstChunk>> /\ k = 1
      BY <1>2 DEF IInv, OneFirst
    <2> QED
      BY <2>1 DEF FirstChunk
  <1> QED
    BY <1>1, <1>2

\* Up to the first chunk a beat has fallen into, what wget is left to continue is a
\* prefix of the package, for any number of chunks, whatever else the daemon sends
\* and whatever is misread behind that chunk (pacsrvclient.cpp:669-703).
THEOREM Prefix == Spec => []FileIsPrefix
  BY InitIInv, NextIInv, PrefixInv, PTL DEF Spec
=============================================================================
