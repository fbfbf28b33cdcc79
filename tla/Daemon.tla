------------------------------- MODULE Daemon -------------------------------
(***************************************************************************)
(* The life of the daemon process: OnStartup and OnShutdown of its main    *)
(* program (src/src/pacsrvd.cpp), the construction and destruction of the  *)
(* Server and the Network (server.cpp, network.cpp), what they take from   *)
(* the Config (config.cpp) and the Logger (logger.cpp), whose rotation of  *)
(* the log files is LogRotation. The actors:                               *)
(*                                                                         *)
(*   - the main thread, one lock held or let go per step;                  *)
(*   - the Server's and the Network's own threads, started by Listen,      *)
(*     which call OnIdle and OnAccept until the base class destructor      *)
(*     waits for them, after ~Server or ~Network has done its work;        *)
(*     Either may stay in a callback for ever: the Network's in its         *)
(*     RemoveClosedNodes (NodeList), the Server's then in RunQuery;         *)
(*   - the user, who interrupts the daemon, and the system, which can kill *)
(*     it at any step (a failed fopen or ASSERT ends it just so).          *)
(*                                                                         *)
(* What the threads do with clients, nodes and files is in ClientTable,    *)
(* NodeList and QueryPath.                                                 *)
(***************************************************************************)
EXTENDS LogRotation

VARIABLES
  main,         \* "off", or where the main thread is
  nInstances,   \* _nInstances: Logger objects that exist
  pFile,        \* _pFile: "null", an "open" file, or one that is "closed"
  pIniFile,     \* _pIniFile is not null
  listening,    \* _bListening of the Server and of the Network
  alive,        \* those of them whose own destructor has not run
  thread,       \* "none", "idle", "wait" (for the object's lock), "in" it, "stuck"
                \* in it, "ended"
  logger,       \* the thread has a Logger on its stack
  debug         \* ASSERT is compiled in

Threads == {"server", "network"}

shared  == <<nInstances, pFile, pIniFile>>
objects == <<listening, alive>>
threads == <<thread, logger>>
dvars   == <<vars, main, shared, objects, threads, debug>>

DaemonTypeOK ==
  /\ TypeOK
  /\ main \in {"off", "rotate", "config", "network", "server", "check", "run", "stop",
               "~network", "join_network", "join_server", "release", "close", "exit"}
  /\ nInstances \in 0 .. 4
  /\ pFile \in {"null", "open", "closed"}
  /\ pIniFile \in BOOLEAN
  /\ listening \in SUBSET Threads /\ alive \in SUBSET Threads
  /\ thread \in [Threads -> {"none", "idle", "wait", "in", "stuck", "ended"}]
  /\ logger \in [Threads -> BOOLEAN]
  /\ debug \in BOOLEAN

DaemonInit ==
  /\ Init
  /\ main = "off"
  /\ nInstances = 0 /\ pFile = "null" /\ pIniFile = FALSE
  /\ listening = {} /\ alive = {}
  /\ thread = [t \in Threads |-> "none"]
  /\ logger = [t \in Threads |-> FALSE]
  /\ debug \in BOOLEAN

\* The process is gone, and with it all its memory.
Gone ==
  /\ Stop
  /\ main' = "off"
  /\ nInstances' = 0 /\ pFile' = "null" /\ pIniFile' = FALSE
  /\ listening' = {} /\ alive' = {}
  /\ thread' = [t \in Threads |-> "none"]
  /\ logger' = [t \in Threads |-> FALSE]
  /\ UNCHANGED debug

-----------------------------------------------------------------------------
(* The Logger.                                                             *)

\* Mutant of FileAfter: every Logger closes the file.
FileAfterAny(n) == "closed"

\* ~Logger leaves n of them. The pointer to a closed file is kept.
FileAfter(n) == IF n = 0 THEN "closed" ELSE pFile

NewLogger == nInstances' = nInstances + 1 /\ UNCHANGED pFile

Left == nInstances - 1

DeleteLogger ==
  /\ nInstances' = Left
  /\ pFile' = FileAfter(Left)

-----------------------------------------------------------------------------
(* OnStartup.                                                              *)

Boot ==
  /\ main = "off"
  /\ Start
  /\ NewLogger
  /\ main' = "rotate"
  /\ UNCHANGED <<pIniFile, objects, threads, debug>>

Rotate ==
  /\ main = "rotate"
  /\ Unlink \/ Shift \/ Park
  /\ UNCHANGED <<main, shared, objects, threads, debug>>

OpenLog ==
  /\ main = "rotate"
  /\ Open
  /\ pFile' = "open"
  /\ main' = "config"
  /\ UNCHANGED <<nInstances, pIniFile, objects, threads, debug>>

\* Whether there is such a file is not looked at.
LoadConfig ==
  /\ main = "config"
  /\ pIniFile' = TRUE
  /\ main' = "network"
  /\ UNCHANGED <<vars, nInstances, pFile, objects, threads, debug>>

\* An object of class t is constructed, and listens when there is a port in the
\* configuration that nobody else listens on.
Constructs(t) ==
  /\ alive' = alive \cup {t}
  /\ \/ UNCHANGED <<listening, thread>>
     \/ /\ listening' = listening \cup {t}
        /\ thread' = [thread EXCEPT ![t] = "idle"]

\* Server::Server as far as the Network's constructor has returned. Its Logger.
NewNetwork ==
  /\ main = "network"
  /\ Constructs("network")
  /\ NewLogger
  /\ main' = "server"
  /\ UNCHANGED <<vars, pIniFile, logger, debug>>

NewServer ==
  /\ main = "server"
  /\ IF "network" \in listening
       THEN Constructs("server")
       ELSE alive' = alive \cup {"server"} /\ UNCHANGED <<listening, thread>>
  /\ DeleteLogger
  /\ main' = "check"
  /\ UNCHANGED <<vars, pIniFile, logger, debug>>

Serves == "server" \in listening

\* Shutdown(2) if it does not.
CheckListening ==
  /\ main = "check"
  /\ main' = IF Serves THEN "run" ELSE "stop"
  /\ UNCHANGED <<vars, shared, objects, threads, debug>>

OnCtrlBreak ==
  /\ main = "run"
  /\ main' = "stop"
  /\ UNCHANGED <<vars, shared, objects, threads, debug>>

-----------------------------------------------------------------------------
(* OnShutdown.                                                             *)

HeldByThread(t) == thread[t] \in {"in", "stuck"}

\* ~Server takes the Server's lock and keeps it; its Logger.
StopServer ==
  /\ main = "stop"
  /\ ~HeldByThread("server")
  /\ NewLogger
  /\ main' = "~network"
  /\ UNCHANGED <<vars, pIniFile, objects, threads, debug>>

\* ~Network, under its lock, frees its lists.
StopNetwork ==
  /\ main = "~network"
  /\ ~HeldByThread("network")
  /\ alive' = alive \ {"network"}
  /\ main' = "join_network"
  /\ UNCHANGED <<vars, shared, listening, threads, debug>>

Joined(t) == thread[t] \in {"none", "ended"}

\* The Network is no more, and ~Server lets its lock go.
EndServer ==
  /\ main = "join_network"
  /\ Joined("network")
  /\ DeleteLogger
  /\ alive' = alive \ {"server"}
  /\ main' = "join_server"
  /\ UNCHANGED <<vars, pIniFile, listening, threads, debug>>

JoinServer ==
  /\ main = "join_server"
  /\ Joined("server")
  /\ main' = "release"
  /\ UNCHANGED <<vars, shared, objects, threads, debug>>

Release ==
  /\ main = "release"
  /\ pIniFile' = FALSE
  /\ main' = "close"
  /\ UNCHANGED <<vars, nInstances, pFile, objects, threads, debug>>

CloseLog ==
  /\ main = "close"
  /\ DeleteLogger
  /\ main' = "exit"
  /\ UNCHANGED <<vars, pIniFile, objects, threads, debug>>

Exit == main = "exit" /\ Gone

MainThread ==
  \/ Rotate \/ OpenLog \/ LoadConfig \/ NewNetwork \/ NewServer \/ CheckListening
  \/ StopServer \/ StopNetwork \/ EndServer \/ JoinServer \/ Release \/ CloseLog
  \/ Exit

-----------------------------------------------------------------------------
(* The threads of the Server and the Network.                              *)

\* Mutant of HeldByMain: the Server's thread is waited for before the lock is let go.
HeldTooLong(t) ==
  t = "server" /\ main \in {"~network", "join_network", "join_server"}

\* The main thread has the lock of object t.
HeldByMain(t) ==
  t = "server" /\ main \in {"~network", "join_network"}

\* OnIdle or OnAccept of the object is called, as long as it is one, and comes to
\* its Lock. The Server's make a Logger first, the Network's only OnAccept.
Enter(t) ==
  /\ thread[t] = "idle"
  /\ t \in alive
  /\ thread' = [thread EXCEPT ![t] = "wait"]
  /\ \/ NewLogger /\ logger' = [logger EXCEPT ![t] = TRUE]
     \/ t = "network" /\ UNCHANGED <<nInstances, pFile, logger>>
  /\ UNCHANGED <<vars, main, pIniFile, objects, debug>>

GetLock(t) ==
  /\ thread[t] = "wait"
  /\ ~HeldByMain(t)
  /\ t \in alive
  /\ thread' = [thread EXCEPT ![t] = "in"]
  /\ UNCHANGED <<vars, main, shared, objects, logger, debug>>

\* What a thread does that had waited for the destructor to let go of the lock, with
\* what is left of the object. OnAccept adds to a list that nobody frees;
\* ProcessClients asserts that there is a Network, and else finds an empty table.
\* OnIdle of the Network asserts that there is a list of files, and else calls it
\* through the null pointer, if five seconds have passed.
Survives(t) == t = "server" \/ logger[t] \/ ~debug

Perishes(t) == IF t = "server" THEN debug ELSE ~logger[t]

GetLockLate(t) ==
  /\ thread[t] = "wait"
  /\ ~HeldByMain(t)
  /\ t \notin alive
  /\ \/ /\ Survives(t)
        /\ thread' = [thread EXCEPT ![t] = "in"]
        /\ UNCHANGED <<vars, main, shared, objects, logger, debug>>
     \/ Perishes(t) /\ Gone

Return(t) ==
  /\ thread[t] = "in"
  /\ thread' = [thread EXCEPT ![t] = "idle"]
  /\ logger' = [logger EXCEPT ![t] = FALSE]
  /\ IF logger[t] THEN DeleteLogger ELSE UNCHANGED <<nInstances, pFile>>
  /\ UNCHANGED <<vars, main, pIniFile, objects, debug>>

\* RemoveClosedNodes, which OnIdle calls, does not end. The Server's thread waits for
\* the Network's lock in RunQuery.
Sticks(t) ==
  /\ thread[t] = "in"
  /\ IF t = "network" THEN t \in alive /\ ~logger[t] ELSE thread["network"] = "stuck"
  /\ thread' = [thread EXCEPT ![t] = "stuck"]
  /\ UNCHANGED <<vars, main, shared, objects, logger, debug>>

\* The base class destructor of object t waits for its thread.
Joining(t) ==
  main = IF t = "server" THEN "join_server" ELSE "join_network"

End(t) ==
  /\ thread[t] = "idle"
  /\ Joining(t)
  /\ thread' = [thread EXCEPT ![t] = "ended"]
  /\ UNCHANGED <<vars, main, shared, objects, logger, debug>>

Thread(t) ==
  Enter(t) \/ GetLock(t) \/ GetLockLate(t) \/ Return(t) \/ Sticks(t) \/ End(t)

Killed == main # "off" /\ Gone

DaemonNext ==
  \/ MainThread \/ Boot \/ OnCtrlBreak \/ Killed
  \/ \E t \in Threads : Thread(t)

\* The main thread goes on, and gets each lock that is free again and again; so do
\* the threads. Nobody has to start, interrupt or kill the daemon.
DaemonFairness ==
  /\ SF_dvars(MainThread)
  /\ \A t \in Threads : WF_dvars(Thread(t))

DaemonSpec == DaemonInit /\ [][DaemonNext]_dvars /\ DaemonFairness

-----------------------------------------------------------------------------
(* Properties.                                                             *)

\* Whoever holds a Logger can write: the file that all of them share is not closed
\* under a thread by the Logger of another (logger.cpp:67-81, 146-148).
LogOpen ==
  /\ main \notin {"off", "rotate", "exit"} => pFile = "open"
  /\ \A t \in Threads : logger[t] => pFile = "open"

\* A shutdown comes to its end, whatever else the threads are doing, unless the
\* Network's spins with its lock: ~Server keeps its own lock while it waits for the
\* Network's thread, and must not while it waits for its own (server.cpp:85-114,
\* network.cpp:117-143).
ShutdownEnds == main = "stop" ~> (main = "off" \/ thread["network"] = "stuck")
=============================================================================
