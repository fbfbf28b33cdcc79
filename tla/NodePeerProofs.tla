--------------------------- MODULE NodePeerProofs ---------------------------
(* Theorems about NodePeer: type correctness, what the heartbeat may close, *)
(* and the order of requests and replies, for every delay, every number of  *)
(* misses and every bound.                                                  *)
EXTENDS NodePeer, SequenceTheorems, TLAPS

\* The heartbeat's numbers.
Counters ==
  /\ nDelay \in 0 .. NODE_HEARTBEAT_DELAY - 1
  /\ nBeats \in Nat
  /\ barren \in 0 .. Patience

\* Every beat after the first since something was consumed has taken DELAY
\* calls, and nDelay have gone by since the last one.
BeatsCounted ==
  \/ nBeats = 0
  \/ barren = Patience
  \/ barren >= (nBeats - 1) * NODE_HEARTBEAT_DELAY + nDelay

BeatsLeft == closed = "no" => nBeats < NODE_HEARTBEAT_MISS

\* The heartbeat closes at the end of a call, after which there is none.
ClosedAtRest == closed = "heartbeat" => filling = "none"

BeatInv == Counters /\ BeatsCounted /\ BeatsLeft /\ ClosedAtRest /\ LivePeerKept

LEMMA PatienceNat == Patience \in Nat
  <1> DEFINE m == NODE_HEARTBEAT_MISS - 1
             d == NODE_HEARTBEAT_DELAY
  <1>1. m \in Nat /\ d \in Nat
    BY HeartbeatAssumption
  <1> HIDE DEF m, d
  <1>2. m * d \in Nat
    BY <1>1
  <1> QED BY <1>2 DEF Patience, m, d

\* One call of ProcessHeartbeat, at the end of a call that found the
\* connection in state `now`.
LEMMA HeartbeatStep ==
  ASSUME BeatInv, NEW consumed \in BOOLEAN, NEW now,
         now # "heartbeat",
         now = "no" => closed = "no",
         filling' = "none",
         ProcessHeartbeat(consumed, now)
  PROVE  BeatInv'
  <1> DEFINE D == NODE_HEARTBEAT_DELAY
             M == NODE_HEARTBEAT_MISS
             count == ClearedBeats(consumed) + (IF BeatDue THEN 1 ELSE 0)
  <1>1. /\ D \in Nat /\ D > 0 /\ M \in Nat /\ M > 0
        /\ Patience \in Nat /\ Patience = (M - 1) * D
    BY PatienceNat, HeartbeatAssumption DEF Patience
  <1>2. /\ nDelay \in 0 .. D - 1 /\ nBeats \in Nat /\ barren \in 0 .. Patience
        /\ nBeats = 0 \/ barren = Patience \/ barren >= (nBeats - 1) * D + nDelay
        /\ now = "no" => nBeats < M
    BY DEF BeatInv, Counters, BeatsCounted, BeatsLeft
  <1>3. /\ BeatDue <=> nDelay + 1 >= D
        /\ nDelay' = IF nDelay + 1 >= D THEN 0 ELSE nDelay + 1
        /\ nBeats' = count
        /\ barren' = IF consumed THEN 0
                     ELSE IF barren < Patience THEN barren + 1 ELSE Patience
        /\ closed' = IF BeatDue /\ Missed(count) /\ now = "no" THEN "heartbeat" ELSE now
    BY DEF ProcessHeartbeat, BeatDue
  <1>4. Missed(count) <=> count >= M
    BY DEF Missed
  <1>5. count = (IF consumed THEN 0 ELSE nBeats) + (IF nDelay + 1 >= D THEN 1 ELSE 0)
    BY <1>3 DEF ClearedBeats
  <1> HIDE DEF D, M, count
  <1>6. (nBeats - 1) * D + D = nBeats * D /\ nBeats * D \in Nat
    BY <1>1, <1>2
  <1>7. Counters'
    <2>1. nDelay' \in 0 .. D - 1
      BY <1>1, <1>2, <1>3
    <2>2. nBeats' \in Nat
      BY <1>2, <1>3, <1>5
    <2>3. barren' \in 0 .. Patience
      BY <1>1, <1>2, <1>3
    <2> QED BY <2>1, <2>2, <2>3 DEF Counters, D, Patience
  <1>8. nBeats' = 0 \/ barren' = Patience \/ barren' >= (nBeats' - 1) * D + nDelay'
    <2>1. CASE consumed /\ nDelay + 1 >= D
      <3>1. nBeats' = 1 /\ nDelay' = 0 /\ barren' = 0 /\ 0 * D = 0
        BY <2>1, <1>1, <1>3, <1>5
      <3> QED BY <3>1, <1>1
    <2>2. CASE consumed /\ ~(nDelay + 1 >= D)
      BY <2>2, <1>2, <1>3, <1>5
    <2>3. CASE ~consumed /\ nDelay + 1 >= D
      <3>1. nBeats' = nBeats + 1 /\ nDelay' = 0 /\ nDelay + 1 = D
        BY <2>3, <1>1, <1>2, <1>3, <1>5
      <3>2. (nBeats' - 1) * D + nDelay' = nBeats * D
        BY <3>1, <1>1, <1>2, <1>6
      <3>3. CASE barren < Patience
        <4>1. barren' = barren + 1
          BY <3>3, <2>3, <1>3
        <4>2. CASE nBeats = 0
          BY <4>1, <4>2, <3>2, <1>1, <1>2
        <4>3. CASE barren >= (nBeats - 1) * D + nDelay
          <5> DEFINE p == (nBeats - 1) * D
                     q == nBeats * D
          <5>1. p \in Int /\ q \in Int /\ p + D = q
            BY <1>1, <1>2, <1>6
          <5>2. barren >= p + nDelay
            BY <4>3
          <5> HIDE DEF p, q
          <5>3. barren' >= q
            BY <5>1, <5>2, <4>1, <3>1, <1>1, <1>2
          <5> QED BY <5>3, <3>2 DEF q
        <4> QED BY <4>2, <4>3, <3>3, <1>1, <1>2
      <3> QED BY <3>3, <2>3, <1>1, <1>2, <1>3
    <2>4. CASE ~consumed /\ ~(nDelay + 1 >= D)
      <3>1. nBeats' = nBeats /\ nDelay' = nDelay + 1
        BY <2>4, <1>2, <1>3, <1>5
      <3> DEFINE p == (nBeats - 1) * D
      <3>2. p \in Int
        BY <1>1, <1>2
      <3>3. nBeats = 0 \/ barren = Patience \/ barren >= p + nDelay
        BY <1>2
      <3> HIDE DEF p
      <3>4. nBeats' = 0 \/ barren' = Patience \/ barren' >= p + nDelay'
        BY <3>1, <3>2, <3>3, <2>4, <1>1, <1>2, <1>3
      <3> QED BY <3>4, <3>1 DEF p
    <2> QED BY <2>1, <2>2, <2>3, <2>4
  <1>9. BeatsLeft'
    BY <1>1, <1>2, <1>3, <1>4, <1>5 DEF BeatsLeft, M
  <1>10. LivePeerKept'
    <2> SUFFICES ASSUME closed' = "heartbeat" PROVE barren' = Patience
      BY DEF LivePeerKept, Patience
    <2>1. nDelay + 1 >= D /\ nBeats' >= M /\ now = "no"
      BY <1>3, <1>4
    <2>2. CASE consumed
      <3>1. M = 1 /\ barren' = 0
        BY <2>1, <2>2, <1>1, <1>3, <1>5
      <3> QED BY <3>1, <1>1
    <2>3. CASE ~consumed
      <3>1. nBeats' = M /\ nDelay' = 0
        BY <2>1, <2>3, <1>1, <1>2, <1>3, <1>5
      <3>2. (nBeats' - 1) * D + nDelay' = Patience
        BY <3>1, <1>1
      <3>3. barren' = Patience \/ barren' >= Patience
        BY <3>1, <3>2, <1>1, <1>8
      <3> QED BY <3>3, <1>1, <1>2, <1>3
    <2> QED BY <2>2, <2>3
  <1>11. BeatsCounted' /\ ClosedAtRest'
    BY <1>8 DEF BeatsCounted, ClosedAtRest, D, Patience
  <1> QED BY <1>7, <1>9, <1>10, <1>11 DEF BeatInv

\* Everything but the heartbeat's numbers.
Wires ==
  /\ alive \in BOOLEAN /\ debug \in BOOLEAN
  /\ sent \in [Numbered -> 0 .. MaxSent]
  /\ framed \in BOOLEAN
  /\ inq \in Seq(Telegrams) /\ Len(inq) <= MaxQueue
  /\ closed \in {"no", "peer", "quit", "heartbeat"}
  /\ bValid \in BOOLEAN
  /\ mail \in [Boxes -> {Empty, Half} \cup (0 .. MaxSent)]
  /\ filling \in Boxes \cup {"none"}
  /\ visit \in Boxes \cup {"away", "never"}
  /\ taken \in [Numbered -> Seq(0 .. MaxSent)]

\* A box is filled in from the telegram of its kind at the head of the queue.
FillsHead == alive /\ filling # "none" => inq # <<>> /\ Head(inq).t = filling

IInv == Wires /\ FillsHead /\ BeatInv

LEMMA HeadAndTail ==
  ASSUME Wires, inq # <<>>
  PROVE  /\ Head(inq) \in Telegrams
         /\ Tail(inq) \in Seq(Telegrams)
         /\ Len(Tail(inq)) <= MaxQueue
  BY BoundsAssumption DEF Wires

LEMMA TelegramTypes ==
  ASSUME NEW m \in Telegrams
  PROVE  m.n \in 0 .. MaxSent
  BY BoundsAssumption DEF Telegrams, Plain, Numbered

LEMMA Emptiness ==
  /\ NoneSent \in [Numbered -> 0 .. MaxSent]
  /\ NoMail \in [Boxes -> {Empty, Half} \cup (0 .. MaxSent)]
  /\ \A k \in Numbered : NoMail[k] = Empty
  /\ NoneTaken \in [Numbered -> Seq(0 .. MaxSent)]
  /\ <<>> \in Seq(Telegrams) /\ Len(<<>>) <= MaxQueue
  <1>1. /\ NoMail \in [Boxes -> {Empty, Half} \cup (0 .. MaxSent)]
        /\ \A k \in Numbered : NoMail[k] = Empty
    BY DEF NoMail, Boxes, Numbered
  <1>2. NoneSent \in [Numbered -> 0 .. MaxSent]
    BY BoundsAssumption DEF NoneSent
  <1>3. NoneTaken \in [Numbered -> Seq(0 .. MaxSent)]
    <2>1. <<>> \in Seq(0 .. MaxSent)
      OBVIOUS
    <2> QED BY <2>1 DEF NoneTaken
  <1>4. <<>> \in Seq(Telegrams) /\ Len(<<>>) <= MaxQueue
    BY BoundsAssumption
  <1> QED BY <1>1, <1>2, <1>3, <1>4

LEMMA InitIInv == Init => IInv
  <1> SUFFICES ASSUME Init PROVE IInv
    OBVIOUS
  <1>1. Wires /\ FillsHead
    BY Emptiness DEF Init, Wires, FillsHead, Boxes
  <1>2. BeatInv
    BY PatienceNat, HeartbeatAssumption
    DEF Init, BeatInv, Counters, BeatsCounted, BeatsLeft, ClosedAtRest, LivePeerKept
  <1> QED BY <1>1, <1>2 DEF IInv

\* Steps that leave the heartbeat alone.
LEMMA BeatsAside ==
  ASSUME BeatInv, UNCHANGED beats,
         closed' # "heartbeat" \/ UNCHANGED <<closed, filling>>,
         closed' = "no" => closed = "no"
  PROVE  BeatInv'
  BY DEF BeatInv, Counters, BeatsCounted, BeatsLeft, ClosedAtRest, LivePeerKept, beats

LEMMA PeerSteps ==
  ASSUME IInv,
         \/ \E m \in Telegrams : PeerSends(m)
         \/ PeerCompletes
         \/ PeerCloses
  PROVE  IInv'
  <1> USE DEF IInv, CanSend, thread
  <1>1. ASSUME NEW m \in Telegrams, PeerSends(m) PROVE IInv'
    <2>1. sent' \in [Numbered -> 0 .. MaxSent]
      BY <1>1, TelegramTypes DEF PeerSends, Wires
    <2>2. inq' \in Seq(Telegrams) /\ Len(inq') <= MaxQueue
      BY <1>1, BoundsAssumption DEF PeerSends, Wires
    <2>3. inq # <<>> => inq' # <<>> /\ Head(inq') = Head(inq)
      BY <1>1 DEF PeerSends, Wires
    <2>4. Wires'
      BY <1>1, <2>1, <2>2 DEF PeerSends, Wires
    <2>5. FillsHead'
      BY <1>1, <2>3 DEF PeerSends, FillsHead
    <2>6. BeatInv'
      BY <1>1, BeatsAside DEF PeerSends
    <2> QED BY <2>4, <2>5, <2>6
  <1>2. CASE PeerCompletes
    <2>1. PICK m \in Telegrams : inq' = [inq EXCEPT ![Len(inq)] = m]
      BY <1>2 DEF PeerCompletes
    <2>2. inq' \in Seq(Telegrams) /\ Len(inq') <= MaxQueue
      <3>1. inq \in Seq(Telegrams) /\ Len(inq) <= MaxQueue
        BY DEF Wires
      <3>2. Len(inq) \in 1 .. Len(inq)
        BY <1>2, <3>1 DEF PeerCompletes, Complete
      <3> QED BY <2>1, <3>1, <3>2, ExceptSeq
    <2>3. Wires'
      BY <1>2, <2>2 DEF PeerCompletes, Wires
    <2>4. FillsHead'
      BY <1>2 DEF PeerCompletes, FillsHead
    <2>5. BeatInv'
      BY <1>2, BeatsAside DEF PeerCompletes
    <2> QED BY <2>3, <2>4, <2>5
  <1>3. CASE PeerCloses
    <2>1. Wires' /\ FillsHead'
      BY <1>3 DEF PeerCloses, Wires, FillsHead
    <2>2. BeatInv'
      BY <1>3, BeatsAside DEF PeerCloses
    <2> QED BY <2>1, <2>2
  <1> QED BY <1>1, <1>2, <1>3

LEMMA DieStep == ASSUME IInv, Die PROVE IInv'
  <1> USE DEF IInv, Die, thread
  <1>1. Wires' /\ FillsHead'
    BY Emptiness DEF Wires, FillsHead
  <1>2. BeatInv'
    BY BeatsAside
  <1> QED BY <1>1, <1>2

\* Steps of OnReceive that end the call without touching a mailbox.
LEMMA CallSteps ==
  ASSUME IInv,
         \/ ReceiveInit \/ ReceiveValid \/ ReceiveQuit \/ ReceivePing
         \/ Stall \/ FillLater
  PROVE  IInv'
  <1> USE DEF IInv, Receives
  <1>1. /\ filling' = "none"
        /\ UNCHANGED <<alive, debug, framed, sent, mail, visit, taken>>
        /\ bValid' \in BOOLEAN
        /\ closed' \in {"no", "peer", "quit", "heartbeat"}
    BY DEF ReceiveInit, ReceiveValid, ReceiveQuit, ReceivePing, Stall, FillLater,
           ProcessHeartbeat, Wires
  <1>2. inq' \in Seq(Telegrams) /\ Len(inq') <= MaxQueue
    <2>1. CASE ReceiveInit
      <3> DEFINE junk == [t |-> "?", n |-> 0, len |-> "whole"]
      <3>1. junk \in Telegrams
        BY DEF Telegrams, Plain
      <3>2. /\ inq' = <<junk>> \o Tail(inq)
            /\ inq # <<>> /\ Tail(inq) \in Seq(Telegrams)
            /\ Len(Tail(inq)) = Len(inq) - 1
        BY <2>1 DEF ReceiveInit, Wires
      <3> HIDE DEF junk
      <3>3. <<junk>> \in Seq(Telegrams) /\ Len(<<junk>>) = 1
        BY <3>1
      <3> QED BY <3>2, <3>3, ConcatProperties, BoundsAssumption DEF Wires
    <2>2. CASE ReceiveValid \/ ReceiveQuit \/ ReceivePing
      BY <2>2, HeadAndTail DEF ReceiveValid, ReceiveQuit, ReceivePing, Consume
    <2>3. CASE Stall \/ FillLater
      BY <2>3 DEF Stall, FillLater, Wires
    <2> QED BY <2>1, <2>2, <2>3
  <1>3. Wires' /\ FillsHead'
    BY <1>1, <1>2 DEF Wires, FillsHead
  <1>4. /\ closed # "heartbeat"
        /\ \E consumed \in BOOLEAN, now \in {closed, "quit"} :
              ProcessHeartbeat(consumed, now)
    BY DEF ReceiveInit, ReceiveValid, ReceiveQuit, ReceivePing, Stall, FillLater,
           BeatInv, ClosedAtRest
  <1>5. BeatInv'
    BY <1>1, <1>4, HeartbeatStep
  <1> QED BY <1>3, <1>5

LEMMA OpenStep == ASSUME IInv, Open PROVE IInv'
  <1> USE DEF IInv, Open, Receives
  <1>1. Wires' /\ FillsHead'
    BY DEF Wires, FillsHead, Boxes, Numbered
  <1>2. BeatInv'
    BY BeatsAside
  <1> QED BY <1>1, <1>2

LEMMA FillStep == ASSUME IInv, Fill \/ FillShort PROVE IInv'
  <1> USE DEF IInv, Fill, FillShort
  <1>1. /\ Head(inq) \in Telegrams
        /\ Tail(inq) \in Seq(Telegrams) /\ Len(Tail(inq)) <= MaxQueue
        /\ Head(inq).t = filling
    BY HeadAndTail DEF FillsHead
  <1>2. Head(inq).n \in 0 .. MaxSent
    BY <1>1, TelegramTypes
  <1>3. Wires'
    BY <1>1, <1>2, Emptiness DEF Wires, Consume, ProcessHeartbeat
  <1>4. FillsHead'
    BY <1>2 DEF FillsHead, Wires, Numbered, Boxes
  <1>5. closed # "heartbeat"
    BY DEF BeatInv, ClosedAtRest
  <1>6. BeatInv'
    BY <1>5, HeartbeatStep
  <1> QED BY <1>3, <1>4, <1>6

\* The network thread takes from the mailboxes and touches nothing else.
LEMMA NetworkSteps ==
  ASSUME IInv,
         \/ StartVisit \/ NetworkThreadSpins \/ GetServerInfo
         \/ \E k \in Numbered : NothingThere(k)
         \/ GetFileRequest \/ GetFileReply
  PROVE  IInv'
  <1> USE DEF IInv, thread
  <1>1. UNCHANGED <<alive, debug, framed, sent, inq, thread>>
    BY DEF StartVisit, NetworkThreadSpins, GetServerInfo, NothingThere, GetFileRequest, GetFileReply
  <1>2. visit' \in Boxes \cup {"away", "never"}
    BY DEF StartVisit, NetworkThreadSpins, GetServerInfo, NothingThere, GetFileRequest, GetFileReply,
           AfterBox, Boxes
  <1>3. mail' \in [Boxes -> {Empty, Half} \cup (0 .. MaxSent)]
    BY DEF StartVisit, NetworkThreadSpins, GetServerInfo, NothingThere, GetFileRequest, GetFileReply,
           Relayed, Wires, Boxes, Numbered
  <1>4. taken' \in [Numbered -> Seq(0 .. MaxSent)]
    <2>1. ASSUME NEW k \in Numbered, mail[k] # Empty, taken' = TakenAfter(k)
          PROVE  taken' \in [Numbered -> Seq(0 .. MaxSent)]
      <3>1. CASE ~framed \/ mail[k] = Half
        BY <2>1, <3>1 DEF TakenAfter, Wires
      <3>2. CASE framed /\ mail[k] # Half
        <4>1. mail[k] \in 0 .. MaxSent
          BY <2>1, <3>2 DEF Wires, Numbered, Boxes
        <4>2. taken' = [taken EXCEPT ![k] = Append(@, mail[k])]
          BY <2>1, <3>2 DEF TakenAfter
        <4>3. Append(taken[k], mail[k]) \in Seq(0 .. MaxSent)
          BY <4>1 DEF Wires
        <4> QED BY <4>2, <4>3 DEF Wires
      <3> QED BY <3>1, <3>2
    <2>2. CASE GetFileRequest
      BY <2>1, <2>2 DEF GetFileRequest, Numbered
    <2>3. CASE GetFileReply
      BY <2>1, <2>3 DEF GetFileReply, Numbered
    <2> QED BY <2>2, <2>3 DEF StartVisit, NetworkThreadSpins, GetServerInfo, NothingThere, Wires
  <1>5. Wires' /\ FillsHead'
    BY <1>1, <1>2, <1>3, <1>4 DEF Wires, FillsHead
  <1>6. BeatInv'
    BY <1>1, BeatsAside
  <1> QED BY <1>5, <1>6

LEMMA StepIInv == ASSUME IInv, [Next]_vars PROVE IInv'
  <1>1. CASE \E m \in Telegrams : PeerSends(m)
    BY <1>1, PeerSteps
  <1>2. CASE PeerCompletes \/ PeerCloses
    BY <1>2, PeerSteps
  <1>3. CASE OnReceive
    BY <1>3, CallSteps, OpenStep, FillStep, DieStep
    DEF OnReceive, ReceiveUnexpected, FillCrashes
  <1>4. CASE ProcessNodes
    BY <1>4, NetworkSteps, DieStep
    DEF ProcessNodes, GetFileRequestCrashes, GetFileReplyCrashes
  <1>5. CASE UNCHANGED vars
    <2>1. Wires' /\ FillsHead'
      BY <1>5 DEF IInv, Wires, FillsHead, vars, thread
    <2>2. BeatInv'
      BY <1>5, BeatsAside DEF IInv, vars, thread
    <2> QED BY <2>1, <2>2 DEF IInv
  <1> QED BY <1>1, <1>2, <1>3, <1>4, <1>5 DEF Next

THEOREM Inductive == Spec => []IInv
  BY InitIInv, StepIInv, PTL DEF Spec

\* Type correctness, with the number of missed beats below MISS as long as the
\* connection is open (node.cpp:573-593).
THEOREM TypeCorrect == Spec => []TypeOK
  <1>1. IInv => TypeOK
    BY DEF IInv, Wires, BeatInv, Counters, BeatsLeft, TypeOK
  <1> QED BY <1>1, Inductive, PTL

\* The heartbeat closes no connection on which something was consumed within
\* the last (MISS - 1) * DELAY calls of OnReceive (node.cpp:209-213, 573-593).
THEOREM LivePeers == Spec => []LivePeerKept
  <1>1. IInv => LivePeerKept
    BY DEF IInv, BeatInv
  <1> QED BY <1>1, Inductive, PTL

-----------------------------------------------------------------------------
(* Requests and replies stay in order.                                     *)

\* A telegram comes to the end of the queue: one of another kind, or the next.
LEMMA AppendInOrder ==
  ASSUME NEW q \in Seq(Telegrams), NEW m \in Telegrams, NEW k,
         NEW lo \in Nat, NEW hi \in Nat, lo <= hi, InOrder(q, k, lo, hi),
         m.t = k => m.n = hi + 1
  PROVE  InOrder(Append(q, m), k, lo, IF m.t = k THEN hi + 1 ELSE hi)
  <1> DEFINE r == Append(q, m)
             At == {i \in DOMAIN q : q[i].t = k}
             Bt == {i \in DOMAIN r : r[i].t = k}
             top == IF m.t = k THEN hi + 1 ELSE hi
  <1>1. /\ DOMAIN q = 1 .. Len(q) /\ DOMAIN r = 1 .. Len(q) + 1 /\ Len(q) \in Nat
        /\ \A i \in 1 .. Len(q) : r[i] = q[i]
        /\ r[Len(q) + 1] = m
    OBVIOUS
  <1> HIDE DEF r
  <1>2. Bt = At \cup (IF m.t = k THEN {Len(q) + 1} ELSE {})
    BY <1>1
  <1>3. /\ {q[i].n : i \in At} = lo + 1 .. hi
        /\ \A i, j \in At : i < j => q[i].n < q[j].n
    BY DEF InOrder
  <1>4. \A i \in At : i \in 1 .. Len(q) /\ r[i] = q[i] /\ q[i].n \in lo + 1 .. hi
    BY <1>1, <1>3
  <1>5. {r[i].n : i \in Bt} = lo + 1 .. top
    <2>1. \A n : n \in {r[i].n : i \in At} <=> n \in lo + 1 .. hi
      BY <1>3, <1>4
    <2> HIDE DEF At, Bt
    <2>2. CASE m.t = k
      <3>1. Bt = At \cup {Len(q) + 1} /\ r[Len(q) + 1].n = hi + 1 /\ top = hi + 1
        BY <1>1, <1>2, <2>2
      <3>2. \A n : n \in {r[i].n : i \in Bt} <=> n \in lo + 1 .. hi \/ n = hi + 1
        BY <2>1, <3>1
      <3>3. \A n : n \in lo + 1 .. hi \/ n = hi + 1 <=> n \in lo + 1 .. top
        BY <3>1
      <3> QED
        BY <3>2, <3>3
    <2>3. CASE m.t # k
      <3>1. Bt = At /\ top = hi
        BY <1>2, <2>3
      <3> QED
        BY <2>1, <3>1
    <2> QED
      BY <2>2, <2>3
  <1>6. \A i, j \in Bt : i < j => r[i].n < r[j].n
    BY <1>1, <1>2, <1>3, <1>4
  <1> QED
    BY <1>5, <1>6 DEF InOrder, r

\* The head of the queue leaves it: one of another kind, or the first that waits.
LEMMA TailInOrder ==
  ASSUME NEW q \in Seq(Telegrams), q # <<>>, NEW k,
         NEW lo \in Nat, NEW hi \in Nat, InOrder(q, k, lo, hi)
  PROVE  /\ Head(q).t = k => Head(q).n = lo + 1 /\ lo < hi
         /\ InOrder(Tail(q), k, IF Head(q).t = k THEN lo + 1 ELSE lo, hi)
  <1> DEFINE r == Tail(q)
             At == {i \in DOMAIN q : q[i].t = k}
             Bt == {i \in DOMAIN r : r[i].t = k}
  <1>1. /\ DOMAIN q = 1 .. Len(q) /\ DOMAIN r = 1 .. Len(q) - 1
        /\ Len(q) \in Nat \ {0} /\ Head(q) = q[1]
        /\ \A i \in 1 .. Len(q) - 1 : r[i] = q[i + 1]
    OBVIOUS
  <1> HIDE DEF r
  <1>2. /\ {q[i].n : i \in At} = lo + 1 .. hi
        /\ \A i, j \in At : i < j => q[i].n < q[j].n
    BY DEF InOrder
  <1>3. /\ \A i \in Bt : i + 1 \in At /\ r[i] = q[i + 1]
        /\ \A i \in At : i # 1 => i - 1 \in Bt /\ r[i - 1] = q[i]
    BY <1>1
  <1>4. \A i, j \in Bt : i < j => r[i].n < r[j].n
    <2> TAKE i, j \in Bt
    <2>1. i < j => i + 1 < j + 1
      BY <1>1
    <2> QED
      BY <1>2, <1>3, <2>1
  <1>5. \A n : n \in {r[i].n : i \in Bt} <=> n \in {q[i].n : i \in At \ {1}}
    <2> TAKE n
    <2>1. ASSUME NEW i \in Bt, n = r[i].n PROVE n \in {q[j].n : j \in At \ {1}}
      <3>1. i + 1 \in At \ {1} /\ n = q[i + 1].n
        BY <1>1, <1>3, <2>1
      <3> QED
        BY <3>1
    <2>2. ASSUME NEW j \in At \ {1}, n = q[j].n PROVE n \in {r[i].n : i \in Bt}
      BY <1>3, <2>2
    <2> QED
      BY <2>1, <2>2
  <1>6. CASE q[1].t = k
    <2>1. 1 \in At /\ q[1].n \in lo + 1 .. hi
      BY <1>1, <1>2, <1>6
    <2>2. \A i \in At \ {1} : 1 < i /\ q[1].n < q[i].n
      BY <1>1, <1>2, <2>1
    <2>3. q[1].n = lo + 1
      <3>1. lo + 1 \in {q[i].n : i \in At}
        BY <1>2, <2>1
      <3>2. PICK i \in At : q[i].n = lo + 1
        BY <3>1
      <3> QED
        BY <2>1, <2>2, <3>2
    <2>4. {r[i].n : i \in Bt} = lo + 1 + 1 .. hi
      <3>1. \A n : n \in {q[i].n : i \in At \ {1}} <=> n \in lo + 1 .. hi /\ n # lo + 1
        BY <1>2, <2>1, <2>2, <2>3
      <3>2. \A n : n \in lo + 1 .. hi /\ n # lo + 1 <=> n \in lo + 1 + 1 .. hi
        OBVIOUS
      <3> HIDE DEF At, Bt
      <3>3. \A n : n \in {r[i].n : i \in Bt} <=> n \in lo + 1 + 1 .. hi
        BY <1>5, <3>1, <3>2
      <3> QED
        BY <3>3
    <2> QED
      BY <1>1, <1>4, <1>6, <2>1, <2>3, <2>4 DEF InOrder, r
  <1>7. CASE q[1].t # k
    <2>1. 1 \notin At
      BY <1>7
    <2>2. {r[i].n : i \in Bt} = lo + 1 .. hi
      BY <1>2, <1>5, <2>1
    <2> QED
      BY <1>1, <1>4, <1>7, <2>2 DEF InOrder, r
  <1> QED
    BY <1>6, <1>7

\* Telegrams arrive in full, or turn into others that are of none of the two kinds.
LEMMA ReplaceInOrder ==
  ASSUME NEW q, NEW r, DOMAIN r = DOMAIN q, NEW k, NEW lo, NEW hi,
         \A i \in DOMAIN q : (r[i].t = k <=> q[i].t = k) /\ (q[i].t = k => r[i].n = q[i].n),
         InOrder(q, k, lo, hi)
  PROVE  InOrder(r, k, lo, hi)
  <1>1. {i \in DOMAIN r : r[i].t = k} = {i \in DOMAIN q : q[i].t = k}
    OBVIOUS
  <1>2. {r[i].n : i \in {j \in DOMAIN r : r[j].t = k}} = {q[i].n : i \in {j \in DOMAIN q : q[j].t = k}}
    BY <1>1
  <1> QED
    BY <1>1, <1>2 DEF InOrder

-----------------------------------------------------------------------------
\* What MailInOrder says of one kind, from parts a step may have changed.
Kind(k) ==
  LET read == taken[k] \o InMail(k) IN
  /\ read = [i \in 1 .. Len(read) |-> i]
  /\ Len(read) <= sent[k]
  /\ InOrder(inq, k, Len(read), sent[k])

LEMMA ReadTypes ==
  ASSUME IInv, NEW k \in Numbered
  PROVE  /\ InMail(k) \in Seq(0 .. MaxSent)
         /\ taken[k] \o InMail(k) \in Seq(0 .. MaxSent)
         /\ Len(taken[k] \o InMail(k)) \in Nat
         /\ sent[k] \in Nat
         /\ inq \in Seq(Telegrams)
  <1>1. InMail(k) \in Seq(0 .. MaxSent)
    <2>1. mail[k] \in {Empty, Half} \/ mail[k] \in 0 .. MaxSent
      BY DEF IInv, Wires, Numbered, Boxes
    <2>2. CASE mail[k] \in {Empty, Half}
      <3>1. InMail(k) = <<>>
        BY <2>2 DEF InMail
      <3> QED
        BY <3>1
    <2>3. CASE mail[k] \notin {Empty, Half}
      <3>1. InMail(k) = <<mail[k]>> /\ mail[k] \in 0 .. MaxSent
        BY <2>1, <2>3 DEF InMail
      <3> QED
        BY <3>1
    <2> QED
      BY <2>2, <2>3
  <1>2. taken[k] \in Seq(0 .. MaxSent) /\ sent[k] \in 0 .. MaxSent /\ inq \in Seq(Telegrams)
    BY DEF IInv, Wires
  <1>3. taken[k] \o InMail(k) \in Seq(0 .. MaxSent)
    BY <1>1, <1>2
  <1>4. sent[k] \in Nat
    BY <1>2, BoundsAssumption
  <1> QED
    BY <1>1, <1>2, <1>3, <1>4

\* Nothing of kind k has been read, and the queue holds as much of it as before.
LEMMA KindUnread ==
  ASSUME NEW k, Kind(k), UNCHANGED <<taken[k], mail[k]>>,
         sent'[k] = sent[k],
         InOrder(inq, k, Len(taken[k] \o InMail(k)), sent[k])
           => InOrder(inq', k, Len(taken[k] \o InMail(k)), sent[k])
  PROVE  Kind(k)'
  <1>1. InMail(k)' = InMail(k)
    BY DEF InMail
  <1> QED
    BY <1>1 DEF Kind

LEMMA PeerMail ==
  ASSUME IInv, MailInOrder,
         \/ \E m \in Telegrams : PeerSends(m)
         \/ PeerCompletes
         \/ PeerCloses
  PROVE  MailInOrder'
  <1> SUFFICES ASSUME alive, framed, NEW k \in Numbered PROVE Kind(k)'
    BY DEF MailInOrder, Kind, PeerSends, PeerCompletes, PeerCloses
  <1>0. Kind(k)
    BY DEF MailInOrder, Kind
  <1> DEFINE lo == Len(taken[k] \o InMail(k))
  <1>1. lo \in Nat /\ sent[k] \in Nat /\ lo <= sent[k] /\ inq \in Seq(Telegrams)
    BY <1>0, ReadTypes DEF Kind
  <1>2. ASSUME NEW m \in Telegrams, PeerSends(m) PROVE Kind(k)'
    <2>1. /\ inq' = Append(inq, m)
          /\ m.t = k => m.n = sent[k] + 1
          /\ sent'[k] = IF k = m.t THEN sent[k] + 1 ELSE sent[k]
          /\ UNCHANGED <<mail, taken>>
      BY <1>2 DEF PeerSends
    <2>2. InOrder(inq, k, lo, sent[k])
      BY <1>0 DEF Kind
    <2> HIDE DEF lo
    <2>3. InOrder(inq', k, lo, sent'[k])
      BY <1>1, <2>1, <2>2, AppendInOrder
    <2>4. InMail(k)' = InMail(k) /\ lo' = lo
      BY <2>1 DEF InMail, lo
    <2>5. lo <= sent'[k]
      BY <1>1, <2>1
    <2> QED
      BY <1>0, <2>1, <2>3, <2>4, <2>5 DEF Kind, lo
  <1>3. CASE PeerCompletes
    <2>1. PICK m \in Telegrams : /\ m.t = inq[Len(inq)].t /\ m.n = inq[Len(inq)].n
                                 /\ inq' = [inq EXCEPT ![Len(inq)] = m]
      BY <1>3 DEF PeerCompletes
    <2>2. /\ DOMAIN inq' = DOMAIN inq
          /\ \A i \in DOMAIN inq : inq'[i].t = inq[i].t /\ inq'[i].n = inq[i].n
      BY <2>1
    <2>3. ASSUME NEW a, InOrder(inq, k, a, sent[k]) PROVE InOrder(inq', k, a, sent[k])
      BY <2>2, <2>3, ReplaceInOrder
    <2>4. UNCHANGED <<taken, mail, sent>>
      BY <1>3 DEF PeerCompletes
    <2> QED
      BY <1>0, <2>3, <2>4, KindUnread
  <1>4. CASE PeerCloses
    BY <1>0, <1>4, KindUnread DEF PeerCloses
  <1> QED
    BY <1>2, <1>3, <1>4

LEMMA OtherKindMail ==
  ASSUME IInv, MailInOrder,
         \/ ReceiveInit \/ ReceiveValid \/ ReceiveQuit \/ ReceivePing
         \/ Stall \/ FillLater \/ Open
  PROVE  MailInOrder'
  <1> SUFFICES ASSUME alive, framed, NEW k \in Numbered PROVE Kind(k)'
    BY DEF MailInOrder, Kind, ReceiveInit, ReceiveValid, ReceiveQuit, ReceivePing, Stall,
           FillLater, Open
  <1>0. Kind(k)
    BY DEF MailInOrder, Kind
  <1> DEFINE lo == Len(taken[k] \o InMail(k))
  <1>1. lo \in Nat /\ sent[k] \in Nat /\ inq \in Seq(Telegrams)
    BY <1>0, ReadTypes DEF Kind
  <1>2. UNCHANGED <<taken, sent>>
    BY DEF ReceiveInit, ReceiveValid, ReceiveQuit, ReceivePing, Stall, FillLater, Open
  <1>3. CASE ReceiveInit
    <2> DEFINE junk == [t |-> "?", n |-> 0, len |-> "whole"]
    <2>1. /\ inq # <<>> /\ Head(inq).t \in {"I", "J"} /\ inq' = <<junk>> \o Tail(inq)
          /\ UNCHANGED mail
      BY <1>3 DEF ReceiveInit, Receives
    <2>2. /\ DOMAIN inq' = DOMAIN inq /\ inq'[1] = junk /\ inq[1] = Head(inq)
          /\ \A i \in DOMAIN inq : i # 1 => inq'[i] = inq[i]
      BY <1>1, <2>1
    <2>3. junk.t \notin Numbered /\ k \in {"F", "G"}
      BY DEF Numbered
    <2> HIDE DEF junk
    <2>4. \A i \in DOMAIN inq : (inq'[i].t = k <=> inq[i].t = k)
                                /\ (inq[i].t = k => inq'[i].n = inq[i].n)
      BY <2>1, <2>2, <2>3
    <2>5. ASSUME NEW a, InOrder(inq, k, a, sent[k]) PROVE InOrder(inq', k, a, sent[k])
      BY <2>2, <2>4, <2>5, ReplaceInOrder
    <2> QED
      BY <1>0, <1>2, <2>1, <2>5, KindUnread
  <1>4. CASE ReceiveValid \/ ReceiveQuit \/ ReceivePing
    <2>1. /\ inq # <<>> /\ inq' = Tail(inq) /\ UNCHANGED mail
          /\ Head(inq).t # k
      BY <1>4 DEF ReceiveValid, ReceiveQuit, ReceivePing, Receives, Consume, Numbered
    <2>2. InOrder(inq, k, lo, sent[k]) => InOrder(inq', k, lo, sent[k])
      <3> HIDE DEF lo
      <3> QED
        BY <1>1, <2>1, TailInOrder
    <2> QED
      BY <1>0, <1>2, <2>1, <2>2, KindUnread
  <1>5. CASE Stall \/ FillLater
    BY <1>0, <1>2, <1>5, KindUnread DEF Stall, FillLater
  <1>6. CASE Open
    <2>1. InMail(k)' = InMail(k) /\ UNCHANGED inq
      BY <1>6 DEF Open, InMail, MailboxFree, IInv, Wires
    <2> QED
      BY <1>0, <1>2, <2>1 DEF Kind
  <1> QED
    BY <1>3, <1>4, <1>5, <1>6

\* What is filled in is the next of its kind.
LEMMA FillMail ==
  ASSUME IInv, MailInOrder, Fill \/ (FillShort /\ framed')
  PROVE  MailInOrder'
  <1> SUFFICES ASSUME alive, framed, NEW k \in Numbered PROVE Kind(k)'
    BY DEF MailInOrder, Kind, Fill, FillShort
  <1>0. Kind(k)
    BY DEF MailInOrder, Kind
  <1> DEFINE lo == Len(taken[k] \o InMail(k))
  <1>1. lo \in Nat /\ sent[k] \in Nat /\ inq \in Seq(Telegrams)
    BY <1>0, ReadTypes DEF Kind
  <1>2. UNCHANGED <<taken, sent>> /\ inq' = Tail(inq) /\ inq # <<>> /\ Head(inq).t = filling
    BY DEF Fill, FillShort, Consume, IInv, FillsHead
  <1>3. InOrder(inq, k, lo, sent[k])
    BY <1>0 DEF Kind
  <1>4. /\ Head(inq).t = k => Head(inq).n = lo + 1 /\ lo < sent[k]
        /\ InOrder(inq', k, IF Head(inq).t = k THEN lo + 1 ELSE lo, sent[k])
    <2> HIDE DEF lo
    <2> QED
      BY <1>1, <1>2, <1>3, TailInOrder
  <1>5. CASE filling = k
    <2>1. mail[k] = Half /\ mail'[k] = Head(inq).n /\ Head(inq).n \notin {Empty, Half}
      <3>1. mail[k] = Half
        BY <1>5 DEF Fill, FillShort, Numbered
      <3>2. mail'[k] = Head(inq).n
        BY <1>5, <3>1 DEF Fill, FillShort, IInv, Wires, Boxes, Numbered
      <3>3. Head(inq).n \in Nat
        BY <1>1, <1>2, <1>4, <1>5
      <3> QED
        BY <3>1, <3>2, <3>3, MailboxAssumption
    <2>2. InMail(k) = <<>> /\ InMail(k)' = <<lo + 1>>
      BY <1>2, <1>4, <1>5, <2>1 DEF InMail
    <2>3. taken[k] \in Seq(0 .. MaxSent) /\ taken[k] = [i \in 1 .. Len(taken[k]) |-> i]
          /\ lo = Len(taken[k])
      BY <1>0, <2>2 DEF Kind, IInv, Wires
    <2>4. (taken[k] \o InMail(k))' = [i \in 1 .. lo + 1 |-> i]
      BY <1>2, <2>2, <2>3
    <2>5. Len((taken[k] \o InMail(k))') = lo + 1
      BY <1>2, <2>2, <2>3
    <2> QED
      BY <1>1, <1>2, <1>4, <1>5, <2>4, <2>5 DEF Kind
  <1>6. CASE filling # k
    <2>1. mail'[k] = mail[k]
      BY <1>6 DEF Fill, FillShort, IInv, Wires, Boxes, Numbered
    <2> QED
      BY <1>0, <1>2, <1>4, <1>6, <2>1, KindUnread
  <1> QED
    BY <1>5, <1>6

\* What is taken is what was in the mailbox.
LEMMA NetworkMail ==
  ASSUME IInv, MailInOrder,
         \/ StartVisit \/ NetworkThreadSpins \/ GetServerInfo
         \/ \E k \in Numbered : NothingThere(k)
         \/ GetFileRequest \/ GetFileReply
  PROVE  MailInOrder'
  <1> SUFFICES ASSUME alive, framed, NEW k \in Numbered PROVE Kind(k)'
    BY DEF MailInOrder, Kind, StartVisit, NetworkThreadSpins, GetServerInfo, NothingThere, GetFileRequest,
           GetFileReply
  <1>0. Kind(k)
    BY DEF MailInOrder, Kind
  <1>1. UNCHANGED <<sent, inq>>
    BY DEF StartVisit, NetworkThreadSpins, GetServerInfo, NothingThere, GetFileRequest, GetFileReply
  <1>2. ASSUME NEW b \in Numbered, mail[b] # Empty, mail' = Relayed(b), taken' = TakenAfter(b)
        PROVE  taken'[k] \o InMail(k)' = taken[k] \o InMail(k)
    <2>1. /\ mail'[k] = IF k = b THEN Empty ELSE mail[k]
          /\ taken'[k] = IF k = b /\ mail[k] # Half THEN Append(taken[k], mail[k])
                                                    ELSE taken[k]
      BY <1>2 DEF Relayed, TakenAfter, IInv, Wires, Boxes, Numbered
    <2>2. taken[k] \in Seq(0 .. MaxSent)
      BY DEF IInv, Wires
    <2>3. CASE k = b /\ mail[k] # Half
      <3>1. InMail(k) = <<mail[k]>> /\ InMail(k)' = <<>> /\ mail[k] \in 0 .. MaxSent
        BY <1>2, <2>1, <2>3 DEF InMail, IInv, Wires, Numbered, Boxes
      <3>2. Append(taken[k], mail[k]) \in Seq(0 .. MaxSent)
        BY <2>2, <3>1
      <3> QED
        BY <2>1, <2>2, <2>3, <3>1, <3>2
    <2>4. CASE k = b /\ mail[k] = Half
      BY <2>1, <2>4 DEF InMail
    <2>5. CASE k # b
      BY <2>1, <2>5 DEF InMail
    <2> QED
      BY <2>3, <2>4, <2>5
  <1>3. taken'[k] \o InMail(k)' = taken[k] \o InMail(k)
    <2>1. CASE StartVisit \/ NetworkThreadSpins \/ GetServerInfo \/ \E b \in Numbered : NothingThere(b)
      BY <2>1 DEF StartVisit, NetworkThreadSpins, GetServerInfo, NothingThere, InMail, IInv, Wires, Boxes,
         Numbered
    <2>2. CASE GetFileRequest
      BY <1>2, <2>2 DEF GetFileRequest, Numbered
    <2>3. CASE GetFileReply
      BY <1>2, <2>3 DEF GetFileReply, Numbered
    <2> QED
      BY <2>1, <2>2, <2>3
  <1> QED
    BY <1>0, <1>1, <1>3 DEF Kind

LEMMA StepMail == ASSUME IInv, MailInOrder, [Next]_vars PROVE MailInOrder'
  <1>1. CASE \/ Die \/ ReceiveUnexpected \/ FillCrashes
             \/ GetFileRequestCrashes \/ GetFileReplyCrashes
    BY <1>1 DEF Die, ReceiveUnexpected, FillCrashes, GetFileRequestCrashes,
       GetFileReplyCrashes, MailInOrder
  <1>2. CASE UNCHANGED vars
    <2> SUFFICES ASSUME alive, framed, NEW k \in Numbered PROVE Kind(k)'
      BY <1>2 DEF vars, MailInOrder, Kind
    <2>1. Kind(k) /\ UNCHANGED <<sent, inq, taken, mail>>
      BY <1>2 DEF vars, MailInOrder, Kind
    <2> QED
      BY <2>1 DEF Kind, InMail
  <1>3. CASE FillShort /\ ~framed'
    BY <1>3 DEF MailInOrder
  <1> QED
    BY <1>1, <1>2, <1>3, PeerMail, OtherKindMail, FillMail, NetworkMail
    DEF Next, OnReceive, ProcessNodes

LEMMA InitMail == Init => MailInOrder
  <1> SUFFICES ASSUME Init, NEW k \in Numbered
               PROVE  /\ taken[k] \o InMail(k) = <<>>
                      /\ sent[k] = 0
                      /\ InOrder(inq, k, 0, 0)
    BY DEF MailInOrder
  <1>1. taken[k] = <<>> /\ InMail(k) = <<>> /\ sent[k] = 0 /\ inq = <<>>
    BY Emptiness DEF Init, NoneTaken, NoneSent, InMail
  <1>2. {i \in DOMAIN inq : inq[i].t = k} = {} /\ 0 + 1 .. 0 = {}
    BY <1>1
  <1> QED
    BY <1>1, <1>2 DEF InOrder

\* Until the bytes that a short reply lacked are read as telegrams, no request and
\* no reply is lost, repeated or overtaken by another of its kind on its way to the
\* network thread, for any number of them, any bound of the queue and any heartbeat
\* (node.cpp:620-622, 637-680, 688-732, 738-760).
THEOREM MailStaysInOrder == Spec => []MailInOrder
  BY InitIInv, StepIInv, InitMail, StepMail, PTL DEF Spec
=============================================================================
