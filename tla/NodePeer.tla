------------------------------ MODULE NodePeer ------------------------------
(***************************************************************************)
(* One accepted Node (src/src/node.cpp): the peer at the other end, the    *)
(* Node's own socket thread, which handles a telegram per call of          *)
(* OnReceive, and the network thread, which in ProcessNodes empties the    *)
(* Node's three mailboxes (_pServerInfo, _pFileRequest, _pFileReply).      *)
(*                                                                         *)
(* OnReceive locks the Node, the network thread's getters do not. A        *)
(* telegram for a mailbox is therefore handled in two steps: the object is *)
(* published (Open), then filled in (Fill), and the network thread can     *)
(* come between. What it does with what it takes (RelayFileRequest,        *)
(* RelayFileReply, ReplyFileFound) is part of the step that takes it. The  *)
(* network thread may also never come back to this Node (NodeList:         *)
(* RemoveClosedNodes).                                                     *)
(*                                                                         *)
(* A reply that lacks no more than an address, six bytes, is taken as if   *)
(* it were complete. It depends on DevPlus what becomes of the bytes that  *)
(* are missing when they arrive (`framed`).                                *)
(*                                                                         *)
(* Left out: the transfer telegrams L, A, N, C, D and K.                   *)
(***************************************************************************)
EXTENDS Integers, Sequences

CONSTANTS
  Empty,                  \* nothing in a mailbox: the null pointer
  Half,                   \* an object there that is not (completely) filled in
  MaxQueue,               \* bound: telegrams received and not yet handled
  MaxSent,                \* bound: file requests, and replies, the peer sends
  NODE_HEARTBEAT_DELAY,   \* node.cpp:44
  NODE_HEARTBEAT_MISS     \* node.cpp:45

ASSUME MailboxAssumption   == Empty \notin Nat /\ Half \notin Nat /\ Empty # Half
ASSUME BoundsAssumption    == MaxQueue \in Nat /\ MaxSent \in Nat
ASSUME HeartbeatAssumption == /\ NODE_HEARTBEAT_DELAY \in Nat \ {0}
                              /\ NODE_HEARTBEAT_MISS \in Nat \ {0}

VARIABLES
  alive,     \* the daemon has not aborted or crashed
  debug,     \* the build has ASSERT
  sent,      \* while framed, numbers of the last request and reply it began to send
  framed,    \* what is received is read from where telegrams start
  inq,       \* telegrams received and not yet consumed
  closed,    \* "no", or who closed the connection
  bValid,    \* _Status.bValid
  mail,      \* the three mailboxes
  filling,   \* the mailbox the socket thread is filling in, or "none"
  nDelay,    \* _Heartbeat.nDelay
  nBeats,    \* _Heartbeat.nBeats
  barren,    \* calls of OnReceive since one that consumed something, up to Patience
  visit,     \* the mailbox the network thread looks at next, or "away"
  taken      \* while framed, requests and replies the network thread has taken

beats  == <<nDelay, nBeats, barren>>
thread == <<closed, bValid, filling, beats>>
vars   == <<alive, debug, sent, framed, inq, thread, mail, visit, taken>>

\* Boxes by the letter of their telegram. Requests and replies are numbered, so
\* that the model can tell them apart: files, hops and hosts are not kept.
Boxes    == {"S", "F", "G"}
Numbered == {"F", "G"}

\* "I" announces version 1, "J" another one, "P" is a ping or its reply, "?"
\* any first byte the switch of OnReceive does not know. A telegram has
\* arrived "stub" (too little to look at), "part" (the header of F or G), "short"
\* (all of G but six bytes, or fewer) or "whole". A reply has at least one host.
\* Number 0 is what is read as a request or reply where none starts.
Plain == {"I", "J", "V", "Q", "P", "?"}

Telegrams ==
  [t : Plain, n : {0}, len : {"whole"}]
    \cup [t : {"I", "S"}, n : {0}, len : {"stub", "whole"}]
    \cup [t : Numbered, n : 0 .. MaxSent, len : {"stub", "part", "whole"}]
    \cup [t : {"G"}, n : 0 .. MaxSent, len : {"short"}]

Arrived == [stub |-> 0, part |-> 1, short |-> 2, whole |-> 3]

\* The fewest calls without consumption after which the heartbeat may close.
Patience == (NODE_HEARTBEAT_MISS - 1) * NODE_HEARTBEAT_DELAY

TypeOK ==
  /\ alive \in BOOLEAN /\ debug \in BOOLEAN
  /\ sent \in [Numbered -> 0 .. MaxSent]
  /\ framed \in BOOLEAN
  /\ inq \in Seq(Telegrams) /\ Len(inq) <= MaxQueue
  /\ closed \in {"no", "peer", "quit", "heartbeat"}
  /\ bValid \in BOOLEAN
  /\ mail \in [Boxes -> {Empty, Half} \cup (0 .. MaxSent)]
  /\ filling \in Boxes \cup {"none"}
  /\ nDelay \in 0 .. NODE_HEARTBEAT_DELAY - 1
  /\ nBeats \in Nat /\ (closed = "no" => nBeats < NODE_HEARTBEAT_MISS)
  /\ barren \in 0 .. Patience
  /\ visit \in Boxes \cup {"away", "never"}
  /\ taken \in [Numbered -> Seq(0 .. MaxSent)]

NoneSent  == [k \in Numbered |-> 0]
NoMail    == [k \in Boxes |-> Empty]
NoneTaken == [k \in Numbered |-> <<>>]

Init ==
  /\ alive = TRUE
  /\ debug \in BOOLEAN
  /\ sent = NoneSent
  /\ framed = TRUE
  /\ inq = <<>>
  /\ closed = "no"
  /\ bValid = FALSE
  /\ mail = NoMail
  /\ filling = "none"
  /\ nDelay = 0 /\ nBeats = 0 /\ barren = 0
  /\ visit = "away"
  /\ taken = NoneTaken

-----------------------------------------------------------------------------
(* The peer.                                                               *)

CanSend ==
  /\ alive
  /\ closed = "no"

Complete == \A i \in DOMAIN inq : inq[i].len = "whole"

\* What the peer sends, or what is read of it where no telegram starts.
PeerSends(m) ==
  /\ CanSend
  /\ Complete
  /\ Len(inq) < MaxQueue
  /\ m.t \in Numbered => m.n = IF framed THEN sent[m.t] + 1 ELSE 0
  /\ inq' = Append(inq, m)
  /\ sent' = [k \in Numbered |-> IF framed /\ k = m.t THEN m.n ELSE sent[k]]
  /\ UNCHANGED <<alive, debug, framed, thread, mail, visit, taken>>

\* More of the last telegram arrives. A call of OnReceive that is under way
\* works with the length it was given, so this waits for its end.
PeerCompletes ==
  /\ CanSend
  /\ ~Complete
  /\ filling = "none"
  /\ \E m \in Telegrams :
       LET last == inq[Len(inq)] IN
       /\ m.t = last.t /\ m.n = last.n
       /\ Arrived[m.len] > Arrived[last.len]
       /\ inq' = [inq EXCEPT ![Len(inq)] = m]
  /\ UNCHANGED <<alive, debug, framed, sent, thread, mail, visit, taken>>

PeerCloses ==
  /\ CanSend
  /\ closed' = "peer"
  /\ UNCHANGED <<alive, debug, framed, sent, inq, bValid, filling, beats, mail, visit, taken>>

-----------------------------------------------------------------------------
(* The socket thread.                                                      *)

\* An assertion that fails, or a null pointer that is used: the daemon is gone,
\* and with it its queue and mailboxes.
Die ==
  /\ alive' = FALSE
  /\ sent' = NoneSent
  /\ inq' = <<>>
  /\ mail' = NoMail
  /\ taken' = NoneTaken
  /\ UNCHANGED <<debug, framed, thread, visit>>

\* A connection closed by the peer while a call is under way lets it finish.
Receives(kinds) ==
  /\ alive
  /\ closed = "no"
  /\ filling = "none"
  /\ inq # <<>>
  /\ Head(inq).t \in kinds

\* Mutant of ClearedBeats: a telegram that has been handled does not count.
BeatsKept(consumed) == nBeats

ClearedBeats(consumed) == IF consumed THEN 0 ELSE nBeats

\* Mutant of BeatDue: the delay runs but no beat falls due.
BeatForgotten == nDelay < 0

BeatDue == nDelay + 1 >= NODE_HEARTBEAT_DELAY

\* Mutant of Missed: one beat too many is waited for.
MissedLate(count) == count > NODE_HEARTBEAT_MISS

Missed(count) == count >= NODE_HEARTBEAT_MISS

\* The end of OnReceive. nLastCheck is never assigned, so that after the
\* first second every call counts; `now` is the connection before the beat.
ProcessHeartbeat(consumed, now) ==
  LET count == ClearedBeats(consumed) + (IF BeatDue THEN 1 ELSE 0) IN
  /\ nDelay' = IF nDelay + 1 >= NODE_HEARTBEAT_DELAY THEN 0 ELSE nDelay + 1
  /\ nBeats' = count
  /\ barren' = IF consumed THEN 0
               ELSE IF barren < Patience THEN barren + 1 ELSE Patience
  /\ closed' = IF BeatDue /\ Missed(count) /\ now = "no"
               THEN "heartbeat" ELSE now

Consume == inq' = Tail(inq)

\* INIT has four bytes, of which three are consumed: the last byte of the
\* port stays. No telegram starts with that of the ports in use (8048, 8049).
\* A refused peer is told so and may try again.
ReceiveInit ==
  /\ Receives({"I", "J"})
  /\ Head(inq).len = "whole"
  /\ debug => ~bValid
  /\ bValid' = (bValid \/ Head(inq).t = "I")
  /\ inq' = <<[t |-> "?", n |-> 0, len |-> "whole"]>> \o Tail(inq)
  /\ ProcessHeartbeat(TRUE, closed)
  /\ UNCHANGED <<alive, debug, framed, sent, filling, mail, visit, taken>>

ReceiveValid ==
  /\ Receives({"V"})
  /\ ~debug
  /\ bValid' = TRUE
  /\ Consume
  /\ ProcessHeartbeat(TRUE, closed)
  /\ UNCHANGED <<alive, debug, framed, sent, filling, mail, visit, taken>>

ReceiveQuit ==
  /\ Receives({"Q"})
  /\ ~debug
  /\ Consume
  /\ ProcessHeartbeat(TRUE, "quit")
  /\ UNCHANGED <<alive, debug, framed, sent, bValid, filling, mail, visit, taken>>

\* A ping, its reply, or an unknown command.
ReceivePing ==
  /\ Receives({"P", "?"})
  /\ Head(inq).t = "P" /\ debug => bValid
  /\ Consume
  /\ ProcessHeartbeat(TRUE, closed)
  /\ UNCHANGED <<alive, debug, framed, sent, bValid, filling, mail, visit, taken>>

\* The assertions on the handshake. An accepted Node never sends INIT, so
\* that no V and no Q is ever expected.
ReceiveUnexpected ==
  /\ debug
  /\ \/ Receives({"I", "J"}) /\ bValid
     \/ Receives({"V", "Q"})
     \/ Receives(Boxes \cup {"P"}) /\ ~bValid
  /\ Die

\* Mutant of MailboxFree: what is in the mailbox is overwritten.
MailboxIgnored(k) == k \in Boxes

MailboxFree(k) == mail[k] = Empty

\* "Sometimes we can only handle one of a type of message at a time, so we
\* leave any others in the incoming data queue" (node.cpp:171).
Stall ==
  /\ Receives(Boxes \cup {"I"})
  /\ \/ Head(inq).len = "stub"
     \/ Head(inq).t \in Boxes /\ ~MailboxFree(Head(inq).t)
  /\ debug => (bValid <=> Head(inq).t \in Boxes)
  /\ ProcessHeartbeat(FALSE, closed)
  /\ UNCHANGED <<alive, debug, framed, sent, inq, bValid, filling, mail, visit, taken>>

\* `_pFileRequest = new strFileRequest`, and its like.
Open ==
  /\ Receives(Boxes)
  /\ Head(inq).len # "stub"
  /\ MailboxFree(Head(inq).t)
  /\ debug => bValid
  /\ mail' = [mail EXCEPT ![Head(inq).t] = Half]
  /\ filling' = Head(inq).t
  /\ UNCHANGED <<alive, debug, framed, sent, inq, closed, bValid, beats, visit, taken>>

\* The object has been taken away, a request has no address to add, or an
\* address ends in a zero byte and fails the assertion of Address::Set, or its
\* bytes lie behind what has been received.
FillCrashes ==
  /\ alive
  /\ filling # "none"
  /\ \/ mail[filling] = Empty
     \/ filling = "F" /\ Head(inq).len = "whole" /\ mail["S"] = Empty
     \/ debug /\ Head(inq).len = "whole"
     \/ Head(inq).len = "short"
  /\ Die

\* The name or the hosts, of a reply more than one, are still to arrive: the object
\* stays as it is.
FillLater ==
  /\ alive
  /\ filling # "none"
  /\ mail[filling] = Half
  /\ Head(inq).len = "part"
  /\ filling' = "none"
  /\ ProcessHeartbeat(FALSE, closed)
  /\ UNCHANGED <<alive, debug, framed, sent, inq, bValid, mail, visit, taken>>

\* An address that has been taken away (and leaked) meanwhile may do no harm:
\* a request or reply is looked up again after every call, an address is not.
Fill ==
  /\ alive
  /\ filling # "none"
  /\ mail[filling] = Half \/ filling = "S"
  /\ Head(inq).len = "whole"
  /\ filling = "F" => mail["S"] # Empty
  /\ mail' = [mail EXCEPT ![filling] = IF @ = Half THEN Head(inq).n ELSE @]
  /\ filling' = "none"
  /\ Consume
  /\ ProcessHeartbeat(TRUE, closed)
  /\ UNCHANGED <<alive, debug, framed, sent, bValid, visit, taken>>

\* ProcessFileGot leaves one address out of the length it asks for, not out of the
\* one it consumes: the missing bytes are dropped when they come, or read as
\* telegrams, and nothing is numbered any more.
FillShort ==
  /\ alive
  /\ filling = "G"
  /\ mail["G"] = Half
  /\ Head(inq).len = "short"
  /\ mail' = [mail EXCEPT !["G"] = Head(inq).n]
  /\ filling' = "none"
  /\ framed' \in {framed, FALSE}
  /\ sent' = IF framed' THEN sent ELSE NoneSent
  /\ taken' = IF framed' THEN taken ELSE NoneTaken
  /\ Consume
  /\ ProcessHeartbeat(TRUE, closed)
  /\ UNCHANGED <<alive, debug, bValid, visit>>

OnReceive ==
  \/ ReceiveInit \/ ReceiveValid \/ ReceiveQuit \/ ReceivePing
  \/ ReceiveUnexpected
  \/ Stall \/ Open \/ FillCrashes \/ FillLater \/ Fill \/ FillShort

-----------------------------------------------------------------------------
(* The network thread in ProcessNodes, at this Node.                       *)

StartVisit ==
  /\ alive
  /\ closed = "no"
  /\ visit = "away"
  /\ visit' = "S"
  /\ UNCHANGED <<alive, debug, framed, sent, inq, thread, mail, taken>>

\* RemoveClosedNodes comes to a closed node behind an open one.
NetworkThreadSpins ==
  /\ alive
  /\ visit = "away"
  /\ visit' = "never"
  /\ UNCHANGED <<alive, debug, framed, sent, inq, thread, mail, taken>>

\* Clears the mailbox and returns the null pointer.
GetServerInfo ==
  /\ alive
  /\ visit = "S"
  /\ mail' = [mail EXCEPT !["S"] = Empty]
  /\ visit' = "F"
  /\ UNCHANGED <<alive, debug, framed, sent, inq, thread, taken>>

\* Mutant of AfterBox: replies are forgotten.
NoBoxAfter(k) == "away"

AfterBox(k) == IF k = "F" THEN "G" ELSE "away"

NothingThere(k) ==
  /\ alive
  /\ visit = k
  /\ mail[k] = Empty
  /\ visit' = AfterBox(k)
  /\ UNCHANGED <<alive, debug, framed, sent, inq, thread, mail, taken>>

\* Relaying calls GetServerInfo of every open node and gets null pointers, so
\* that nothing is sent and the addresses are gone.
Relayed(k) ==
  [mail EXCEPT ![k] = Empty, !["S"] = IF closed = "no" THEN Empty ELSE @]

TakenAfter(k) ==
  [taken EXCEPT ![k] = IF ~framed \/ mail[k] = Half THEN @ ELSE Append(@, mail[k])]

\* A request is let go when its file is neither on the file list nor in the
\* cache, and a half one when it has no hops.
GetFileRequest ==
  /\ alive
  /\ visit = "F"
  /\ mail["F"] # Empty
  /\ mail["F"] # Half => ~debug
  /\ mail' = Relayed("F")
  /\ taken' = TakenAfter("F")
  /\ visit' = AfterBox("F")
  /\ UNCHANGED <<alive, debug, framed, sent, inq, thread>>

\* Otherwise: the port of the address added last is 0 and asserted not to be,
\* a name on the file list is null, a file in the cache is answered with an
\* address that is no longer there, or a half request has hops without hosts.
GetFileRequestCrashes ==
  /\ alive
  /\ visit = "F"
  /\ mail["F"] # Empty
  /\ Die

GetFileReply ==
  /\ alive
  /\ visit = "G"
  /\ mail["G"] \notin {Empty, Half}
  /\ mail' = Relayed("G")
  /\ taken' = TakenAfter("G")
  /\ visit' = AfterBox("G")
  /\ UNCHANGED <<alive, debug, framed, sent, inq, thread>>

\* A half reply has no hosts to look for.
GetFileReplyCrashes ==
  /\ alive
  /\ visit = "G"
  /\ mail["G"] = Half
  /\ Die

ProcessNodes ==
  \/ StartVisit \/ NetworkThreadSpins \/ GetServerInfo
  \/ \E k \in Numbered : NothingThere(k)
  \/ GetFileRequest \/ GetFileRequestCrashes
  \/ GetFileReply \/ GetFileReplyCrashes

-----------------------------------------------------------------------------
Next ==
  \/ \E m \in Telegrams : PeerSends(m)
  \/ PeerCompletes \/ PeerCloses
  \/ OnReceive
  \/ ProcessNodes

\* DevPlus offers what is left in the queue again ("process it again another
\* time", node.cpp:548) and the network thread keeps calling OnIdle, unless it
\* spins. The peer owes nothing.
Spec == Init /\ [][Next]_vars /\ WF_vars(OnReceive) /\ WF_vars(ProcessNodes)

-----------------------------------------------------------------------------
(* Properties.                                                             *)

InMail(k) == IF mail[k] \in {Empty, Half} THEN <<>> ELSE <<mail[k]>>

\* The telegrams of kind k in the queue q are those numbered lo + 1 to hi, each
\* once, in the order of their numbers.
InOrder(q, k, lo, hi) ==
  LET At == {i \in DOMAIN q : q[i].t = k} IN
  /\ {q[i].n : i \in At} = lo + 1 .. hi
  /\ \A i, j \in At : i < j => q[i].n < q[j].n

\* No request and no reply of the peer is lost, repeated or overtaken by
\* another of its kind on its way through queue and mailbox to the network
\* thread, whatever arrives in pieces in between, until a reply that lacked up to
\* six bytes has been taken and they are read as telegrams (node.cpp:620-622,
\* 637-680, 688-732, 738-760).
MailInOrder ==
  alive /\ framed =>
    \A k \in Numbered :
      LET read == taken[k] \o InMail(k) IN
      /\ read = [i \in 1 .. Len(read) |-> i]
      /\ Len(read) <= sent[k]
      /\ InOrder(inq, k, Len(read), sent[k])

\* The heartbeat closes no connection whose telegrams it has been able to
\* handle within the last MISS - 1 beats (node.cpp:203-207, 573-594).
LivePeerKept == closed = "heartbeat" => barren = Patience

\* What the peer has sent is consumed, or the connection does not last: a
\* telegram that stays incomplete or finds its mailbox taken for ever does
\* not hold up the Node (node.cpp:170-176, 573-594).
NothingStuck ==
  \/ []<>(inq = <<>> \/ closed # "no" \/ ~alive)
  \/ []<><<inq # <<>> /\ Consume>>_vars

\* A request or reply that has been read does not stay in its mailbox for ever,
\* unless the connection or the daemon ends or the network thread spins
\* (network.cpp:440, 460).
MailTaken ==
  \A k \in Numbered :
    []<>(mail[k] \in {Empty, Half} \/ closed # "no" \/ ~alive \/ visit = "never")

\* A peer that falls silent loses its connection: "If we dont get a ping reply,
\* or any other communications, then after so many seconds we will timeout the
\* connection and close it" (node.cpp:570).
SilentPeerDropped ==
  \/ <>(closed # "no" \/ ~alive)
  \/ []<><<PeerCompletes \/ \E m \in Telegrams : PeerSends(m)>>_vars
=============================================================================
