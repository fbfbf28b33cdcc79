---------------------------- MODULE DaemonProofs ----------------------------
(***************************************************************************)
(* Theorems about Daemon, for every number of logs kept and of starts. The *)
(* daemon's use of the Logger is a LogRotation, so that what is proved of  *)
(* that holds for it; and the file is open for as long as a Logger exists, *)
(* as _nInstances is the number of Loggers that exist.                     *)
(***************************************************************************)
EXTENDS Daemon, TLAPS

(* The rotation: the order of the renames is safe against being cut short   *)
(* anywhere, any number of times.                                           *)

\* Every log is from a run there has been, an earlier one while the new one has
\* not opened its own, and the file the next rename moves another one to does
\* not exist.
Vacant ==
  /\ \A f \in Files : disk[f] <= runs
  /\ pc \in {"unlink", "shift", "open"} => \A f \in Files : disk[f] < runs
  /\ pc = "shift" => disk[i] = 0
  /\ pc = "open" => disk[Current] = 0

IInv == TypeOK /\ Ordered /\ OwnLog /\ Vacant

LEMMA InitIInv == Init => IInv
  BY MaxAssumption, RunsAssumption
  DEF Init, IInv, TypeOK, Ordered, OwnLog, Vacant, Files, Current

\* What a rename to a vacant name does, file by file.
LEMMA RenameFile ==
  ASSUME TypeOK, NEW from \in Files, NEW to \in Files, from # to,
         disk[to] = 0, Rename(from, to)
  PROVE  /\ disk' \in [Files -> 0 .. MaxRuns]
         /\ disk'[from] = 0
         /\ disk'[to] = disk[from]
         /\ \A f \in Files \ {from, to} : disk'[f] = disk[f]
  BY DEF TypeOK, Rename

\* Moving a log up by one leaves the order as it is.
LEMMA RenameOrdered ==
  ASSUME TypeOK, Ordered, NEW from \in Files, from + 1 \in Files,
         disk[from + 1] = 0, Rename(from, from + 1)
  PROVE  Ordered'
  <1>1. /\ disk'[from] = 0
        /\ disk'[from + 1] = disk[from]
        /\ \A f \in Files \ {from, from + 1} : disk'[f] = disk[f]
    BY RenameFile DEF Files, Current
  <1> SUFFICES ASSUME NEW f \in Files, NEW g \in Files, f < g,
                      disk'[f] # 0, disk'[g] # 0
               PROVE  disk'[f] > disk'[g]
    BY DEF Ordered
  <1>2. CASE f = from + 1
    BY <1>1, <1>2, MaxAssumption DEF Ordered, Files, Current
  <1>3. CASE g = from + 1
    BY <1>1, <1>3, MaxAssumption DEF Ordered, Files, Current
  <1>4. CASE f # from + 1 /\ g # from + 1
    BY <1>1, <1>4 DEF Ordered
  <1> QED BY <1>2, <1>3, <1>4

LEMMA ShiftIInv == ASSUME IInv, Shift PROVE IInv'
  <1> USE MaxAssumption DEF Shift, IInv, Files, Current
  <1>1. i - 1 \in Files /\ i \in Files /\ i - 1 # i /\ disk[i] = 0
    BY DEF TypeOK, Vacant
  <1>2. /\ disk' \in [Files -> 0 .. MaxRuns]
        /\ disk'[i - 1] = 0
        /\ \A f \in Files : disk'[f] < runs
    <2>1. /\ disk' \in [Files -> 0 .. MaxRuns]
          /\ disk'[i - 1] = 0
          /\ disk'[i] = disk[i - 1]
          /\ \A f \in Files \ {i - 1, i} : disk'[f] = disk[f]
      <3> HIDE DEF Files
      <3> QED BY <1>1, RenameFile
    <2> QED BY <1>1, <2>1 DEF TypeOK, Vacant
  <1>3. TypeOK'
    BY <1>2 DEF TypeOK
  <1>4. Ordered'
    BY <1>1, RenameOrdered
  <1>5. OwnLog' /\ Vacant'
    BY <1>2 DEF TypeOK, OwnLog, Vacant
  <1> QED BY <1>3, <1>4, <1>5

LEMMA ParkIInv == ASSUME IInv, Park PROVE IInv'
  <1> USE MaxAssumption DEF Park, IInv, Files, Current
  <1>1. Current \in Files /\ Current + 1 = 0 /\ 0 \in Files /\ disk[0] = 0
    BY DEF Vacant
  <1>2. /\ disk' \in [Files -> 0 .. MaxRuns]
        /\ disk'[Current] = 0
        /\ \A f \in Files : disk'[f] < runs
    BY <1>1, RenameFile DEF TypeOK, Vacant
  <1>3. TypeOK'
    BY <1>2 DEF TypeOK
  <1>4. Ordered'
    BY <1>1, RenameOrdered
  <1>5. OwnLog' /\ Vacant'
    BY <1>2 DEF TypeOK, OwnLog, Vacant
  <1> QED BY <1>3, <1>4, <1>5

LEMMA OpenIInv == ASSUME IInv, Open PROVE IInv'
  <1> USE MaxAssumption, RunsAssumption DEF Open, IInv, Files, Current
  <1>1. disk' = [disk EXCEPT ![Current] = runs]
    BY DEF Vacant
  <1>2. TypeOK'
    BY <1>1 DEF TypeOK
  <1>3. Ordered'
    BY <1>1 DEF TypeOK, Ordered, Vacant
  <1>4. OwnLog' /\ Vacant'
    BY <1>1 DEF TypeOK, OwnLog, Vacant
  <1> QED BY <1>2, <1>3, <1>4

LEMMA NextIInv == IInv /\ [Next]_vars => IInv'
  <1> SUFFICES ASSUME IInv, [Next]_vars PROVE IInv'
    OBVIOUS
  <1>1. CASE Start
    <2> USE <1>1 DEF Start, IInv
    <2>1. TypeOK'
      BY RunsAssumption DEF TypeOK
    <2>2. Ordered' /\ OwnLog' /\ Vacant'
      BY RunsAssumption DEF TypeOK, Ordered, OwnLog, Vacant
    <2> QED BY <2>1, <2>2
  <1>2. CASE Unlink
    <2> USE <1>2, MaxAssumption DEF Unlink, FirstIndex, IInv, Files, Current
    <2>1. TypeOK'
      BY RunsAssumption DEF TypeOK
    <2>2. Ordered' /\ OwnLog' /\ Vacant'
      BY DEF TypeOK, Ordered, OwnLog, Vacant
    <2> QED BY <2>1, <2>2
  <1>3. CASE Shift
    BY <1>3, ShiftIInv
  <1>4. CASE Park
    BY <1>4, ParkIInv
  <1>5. CASE Open
    BY <1>5, OpenIInv
  <1>6. CASE Stop \/ UNCHANGED vars
    BY <1>6 DEF Stop, vars, IInv, TypeOK, Ordered, OwnLog, Vacant
  <1> QED BY <1>1, <1>2, <1>3, <1>4, <1>5, <1>6 DEF Next

LEMMA Inductive == Spec => []IInv
  BY InitIInv, NextIInv, PTL DEF Spec

\* Logs stay sorted by age however often rotations are cut short.
THEOREM LogsOrdered == Spec => []Ordered
  BY Inductive, PTL DEF IInv

\* A run never writes into the log of an earlier run.
THEOREM RunHasItsLog == Spec => []OwnLog
  BY Inductive, PTL DEF IInv

\* A rotation removes the log numbered nMax and no other, as every rename goes
\* to a name that is vacant by then.
THEOREM NothingOverwritten == Spec => OnlyLastRemoved
  <1> DEFINE Kept == \A f \in Files :
        disk[f] # 0 /\ (\A g \in Files : disk'[g] # disk[f]) => f = nMax
  <1>1. IInv /\ [Next]_vars => [Kept]_vars
    <2> SUFFICES ASSUME IInv, Next PROVE Kept
      OBVIOUS
    <2> USE MaxAssumption DEF IInv, Files, Current
    <2>1. CASE UNCHANGED disk
      BY <2>1
    <2>2. CASE Unlink
      BY <2>2 DEF Unlink, TypeOK
    <2>3. CASE Shift
      <3>1. i - 1 \in Files /\ i \in Files /\ disk[i] = 0
        BY <2>3 DEF Shift, TypeOK, Vacant
      <3>2. /\ disk'[i] = disk[i - 1]
            /\ \A f \in Files \ {i - 1, i} : disk'[f] = disk[f]
        BY <2>3, <3>1, RenameFile DEF Shift, TypeOK
      <3> QED BY <3>1, <3>2
    <2>4. CASE Park
      <3>1. Current \in Files /\ 0 \in Files /\ disk[0] = 0
        BY <2>4 DEF Park, Vacant
      <3>2. /\ disk'[0] = disk[Current]
            /\ \A f \in Files \ {Current, 0} : disk'[f] = disk[f]
        BY <2>4, <3>1, RenameFile DEF Park
      <3> QED BY <3>1, <3>2
    <2>5. CASE Open
      BY <2>5 DEF Open, TypeOK, Vacant
    <2> QED BY <2>1, <2>2, <2>3, <2>4, <2>5 DEF Next, Start, Stop
  <1> QED BY <1>1, Inductive, PTL DEF Spec, OnlyLastRemoved

-----------------------------------------------------------------------------
(* The daemon's steps are steps of the rotation.                            *)

LEMMA StepRotates == ASSUME [DaemonNext]_dvars PROVE [Next]_vars
  <1>1. CASE MainThread
    BY <1>1 DEF MainThread, Rotate, OpenLog, LoadConfig, NewNetwork, NewServer,
       CheckListening, StopServer, StopNetwork, EndServer, JoinServer, Release, CloseLog,
       Exit, Gone, Next
  <1>2. CASE Boot \/ OnCtrlBreak \/ Killed \/ UNCHANGED dvars
    BY <1>2 DEF Boot, OnCtrlBreak, Killed, Gone, dvars, Next
  <1>3. ASSUME NEW t \in Threads, Thread(t) PROVE [Next]_vars
    BY <1>3 DEF Thread, Enter, GetLock, GetLockLate, Return, Sticks, End, Gone, Next
  <1> QED
    BY <1>1, <1>2, <1>3 DEF DaemonNext

\* The daemon treats its log files as LogRotation says (logger.cpp:86-135).
THEOREM Rotates == DaemonSpec => Spec
  <1>1. DaemonInit => Init
    BY DEF DaemonInit
  <1> QED
    BY <1>1, StepRotates, PTL DEF DaemonSpec, Spec

\* Hence its logs stay sorted by age, however often it is killed in a rotation.
THEOREM DaemonLogsOrdered == DaemonSpec => []Ordered
  BY Rotates, LogsOrdered

\* No run of the daemon writes to the log of an earlier one.
THEOREM DaemonHasItsLog == DaemonSpec => []OwnLog
  BY Rotates, RunHasItsLog

\* Only the log with the highest number is ever lost.
THEOREM DaemonOverwritesNothing == DaemonSpec => OnlyLastRemoved
  BY Rotates, NothingOverwritten

-----------------------------------------------------------------------------
(* The Loggers.                                                            *)

\* Those of the main thread: OnStartup's, NewNetwork's and StopServer's.
MainLoggers ==
  IF main \in {"off", "exit"} THEN 0
  ELSE IF main \in {"server", "~network", "join_network"} THEN 2 ELSE 1

ThreadLogger(t) == IF logger[t] THEN 1 ELSE 0

Counted == nInstances = MainLoggers + ThreadLogger("server") + ThreadLogger("network")

\* A thread makes its Logger when it calls the object, and deletes it before it
\* returns; it calls nothing before there is an object, nor once it has gone.
Scoped ==
  /\ \A t \in Threads : logger[t] => thread[t] \in {"wait", "in", "stuck"}
  /\ main \in {"off", "rotate", "config", "network"} =>
       alive = {} /\ \A t \in Threads : thread[t] = "none"
  /\ main = "server" => "server" \notin alive /\ thread["server"] = "none"
  /\ main \in {"join_server", "release", "close", "exit"} => alive = {}
  /\ main = "join_network" => "network" \notin alive

WellTyped ==
  /\ main \in {"off", "rotate", "config", "network", "server", "check", "run", "stop",
               "~network", "join_network", "join_server", "release", "close", "exit"}
  /\ pFile \in {"null", "open", "closed"}
  /\ pIniFile \in BOOLEAN
  /\ listening \in SUBSET Threads
  /\ alive \in SUBSET Threads
  /\ thread \in [Threads -> {"none", "idle", "wait", "in", "stuck", "ended"}]
  /\ logger \in [Threads -> BOOLEAN]
  /\ debug \in BOOLEAN

DInv == WellTyped /\ Counted /\ Scoped /\ LogOpen

LEMMA LoggerNumbers ==
  /\ MainLoggers \in 0 .. 2 /\ MainLoggers' \in 0 .. 2
  /\ \A t \in Threads : ThreadLogger(t) \in 0 .. 1 /\ ThreadLogger(t)' \in 0 .. 1
  BY DEF MainLoggers, ThreadLogger

LEMMA InstancesNat == DInv => nInstances \in 0 .. 4
  <1>1. "server" \in Threads /\ "network" \in Threads
    BY DEF Threads
  <1> QED
    BY <1>1, LoggerNumbers DEF DInv, Counted

\* The main thread makes or deletes a Logger.
LEMMA MainCounts ==
  ASSUME DInv, UNCHANGED logger, nInstances' = nInstances + (MainLoggers' - MainLoggers)
  PROVE  Counted'
  <1>1. \A t \in Threads : ThreadLogger(t)' = ThreadLogger(t)
    BY DEF ThreadLogger
  <1>2. "server" \in Threads /\ "network" \in Threads
    BY DEF Threads
  <1> QED
    BY <1>1, <1>2, LoggerNumbers DEF DInv, Counted

\* Thread t does.
LEMMA ThreadCounts ==
  ASSUME DInv, UNCHANGED main, NEW t \in Threads,
         nInstances' = nInstances + (ThreadLogger(t)' - ThreadLogger(t)),
         \A u \in Threads \ {t} : logger'[u] <=> logger[u]
  PROVE  Counted'
  <1>1. \A u \in Threads \ {t} : ThreadLogger(u)' = ThreadLogger(u)
    BY DEF ThreadLogger
  <1>2. MainLoggers' = MainLoggers
    BY DEF MainLoggers
  <1>3. t = "server" \/ t = "network"
    BY DEF Threads
  <1>4. "server" \in Threads /\ "network" \in Threads /\ "server" # "network"
    BY DEF Threads
  <1>5. CASE t = "server"
    <2>1. ThreadLogger("network")' = ThreadLogger("network")
      BY <1>1, <1>4, <1>5
    <2> QED
      BY <1>2, <1>4, <1>5, <2>1, LoggerNumbers DEF DInv, Counted
  <1>6. CASE t = "network"
    <2>1. ThreadLogger("server")' = ThreadLogger("server")
      BY <1>1, <1>4, <1>6
    <2> QED
      BY <1>2, <1>4, <1>6, <2>1, LoggerNumbers DEF DInv, Counted
  <1> QED
    BY <1>3, <1>5, <1>6

\* A process that is gone, and one that has not been started.
LEMMA OffDInv ==
  ASSUME main' = "off", nInstances' = 0, pFile' = "null", pIniFile' = FALSE,
         listening' = {}, alive' = {},
         thread' = [t \in Threads |-> "none"],
         logger' = [t \in Threads |-> FALSE],
         debug' \in BOOLEAN
  PROVE  DInv'
  <1>1. \A t \in Threads : ~logger'[t] /\ thread'[t] = "none"
    OBVIOUS
  <1>2. WellTyped'
    BY DEF WellTyped
  <1>3. Counted'
    BY <1>1 DEF Counted, MainLoggers, ThreadLogger, Threads
  <1> QED
    BY <1>1, <1>2, <1>3 DEF DInv, Scoped, LogOpen

LEMMA InitDInv == DaemonInit => DInv
  <1> SUFFICES ASSUME DaemonInit PROVE DInv
    OBVIOUS
  <1>1. \A t \in Threads : ~logger[t] /\ thread[t] = "none"
    BY DEF DaemonInit
  <1>2. WellTyped
    BY DEF DaemonInit, WellTyped
  <1>3. Counted
    BY <1>1 DEF DaemonInit, Counted, MainLoggers, ThreadLogger, Threads
  <1> QED
    BY <1>1, <1>2, <1>3 DEF DaemonInit, DInv, Scoped, LogOpen

LEMMA GoneDInv == ASSUME DInv, Gone PROVE DInv'
  BY OffDInv DEF Gone, DInv, WellTyped

-----------------------------------------------------------------------------
\* Before there are any threads.
LEMMA StartupDInv ==
  ASSUME DInv, Boot \/ Rotate \/ OpenLog \/ LoadConfig PROVE DInv'
  <1> USE DEF Boot, Rotate, OpenLog, LoadConfig, NewLogger, shared, objects, threads
  <1>1. \A t \in Threads : ~logger[t] /\ thread[t] = "none"
    BY DEF DInv, WellTyped, Scoped
  <1>2. WellTyped'
    BY DEF DInv, WellTyped
  <1>3. Counted'
    <2>1. CASE Boot
      <3>1. MainLoggers = 0 /\ MainLoggers' = 1
        BY <2>1 DEF MainLoggers
      <3> QED
        BY <2>1, <3>1, InstancesNat, MainCounts
    <2>2. CASE Rotate \/ OpenLog \/ LoadConfig
      <3>1. MainLoggers = 1 /\ MainLoggers' = 1
        BY <2>2 DEF MainLoggers
      <3> QED
        BY <2>2, <3>1, InstancesNat, MainCounts
    <2> QED
      BY <2>1, <2>2
  <1>4. Scoped'
    BY <1>1 DEF DInv, Scoped
  <1>5. LogOpen'
    BY <1>1 DEF DInv, LogOpen
  <1> QED
    BY <1>2, <1>3, <1>4, <1>5 DEF DInv

LEMMA NewNetworkDInv == ASSUME DInv, NewNetwork PROVE DInv'
  <1> USE DEF NewNetwork, Constructs, NewLogger
  <1>1. \A t \in Threads : ~logger[t]
    BY DEF DInv, WellTyped, Scoped
  <1>2. WellTyped'
    BY DEF DInv, WellTyped, Threads
  <1>3. Counted'
    <2>1. nInstances' = nInstances + (MainLoggers' - MainLoggers)
      BY DEF MainLoggers
    <2> QED
      BY <2>1, MainCounts
  <1>4. thread'["server"] = "none" /\ "server" \notin alive'
    BY DEF DInv, WellTyped, Scoped, Threads
  <1>5. Scoped' /\ LogOpen'
    BY <1>1, <1>4 DEF DInv, Scoped, LogOpen
  <1> QED
    BY <1>2, <1>3, <1>5 DEF DInv

\* One of two Loggers of the main thread, which leaves one: the file stays open.
LEMMA DeleteSecond ==
  ASSUME DInv, MainLoggers = 2, DeleteLogger
  PROVE  /\ nInstances' = nInstances - 1
         /\ pFile' = pFile
  <1>1. Left > 0
    BY DEF DInv, Counted, ThreadLogger, Left
  <1> QED
    BY <1>1 DEF DeleteLogger, Left, FileAfter

LEMMA NewServerDInv == ASSUME DInv, NewServer PROVE DInv'
  <1> USE DEF NewServer, Constructs
  <1>1. nInstances' = nInstances - 1 /\ pFile' = pFile
    BY DeleteSecond DEF MainLoggers
  <1>2. WellTyped'
    BY <1>1 DEF DInv, WellTyped, Threads
  <1>3. Counted'
    <2>1. nInstances' = nInstances + (MainLoggers' - MainLoggers)
      BY <1>1, InstancesNat DEF MainLoggers
    <2> QED
      BY <2>1, MainCounts
  <1>4. Scoped'
    <2>1. ASSUME NEW t \in Threads, logger'[t] PROVE thread'[t] \in {"wait", "in", "stuck"}
      <3>1. thread[t] \in {"wait", "in", "stuck"}
        BY <2>1 DEF DInv, Scoped
      <3>2. CASE t = "network"
        BY <3>1, <3>2 DEF DInv, WellTyped
      <3>3. CASE t = "server"
        BY <3>1, <3>3 DEF DInv, Scoped
      <3> QED
        BY <3>2, <3>3 DEF Threads
    <2> QED
      BY <2>1 DEF Scoped
  <1>5. LogOpen'
    BY <1>1 DEF DInv, LogOpen
  <1> QED
    BY <1>2, <1>3, <1>4, <1>5 DEF DInv

LEMMA RunningDInv ==
  ASSUME DInv,
         CheckListening \/ OnCtrlBreak \/ StopServer \/ StopNetwork \/ JoinServer \/ Release
  PROVE  DInv'
  <1> USE DEF CheckListening, OnCtrlBreak, StopServer, StopNetwork, JoinServer, Release,
              HeldByThread, NewLogger, shared, objects, threads
  <1>1. WellTyped'
    BY DEF DInv, WellTyped
  <1>2. Counted'
    <2>1. CASE StopServer
      <3>1. MainLoggers = 1 /\ MainLoggers' = 2
        BY <2>1 DEF MainLoggers
      <3> QED
        BY <2>1, <3>1, InstancesNat, MainCounts
    <2>2. CASE StopNetwork
      <3>1. MainLoggers = 2 /\ MainLoggers' = 2
        BY <2>2 DEF MainLoggers
      <3>2. UNCHANGED <<nInstances, logger>>
        BY <2>2
      <3>3. nInstances \in Int
        BY InstancesNat
      <3>4. nInstances' = nInstances + (MainLoggers' - MainLoggers)
        BY <3>1, <3>2, <3>3
      <3> QED
        BY <3>2, <3>4, MainCounts
    <2>3. CASE CheckListening \/ OnCtrlBreak \/ JoinServer \/ Release
      <3>1. MainLoggers = 1 /\ MainLoggers' = 1
        BY <2>3 DEF MainLoggers
      <3>2. UNCHANGED <<nInstances, logger>>
        BY <2>3
      <3>3. nInstances \in Int
        BY InstancesNat
      <3>4. nInstances' = nInstances + (MainLoggers' - MainLoggers)
        BY <3>1, <3>2, <3>3
      <3> QED
        BY <3>2, <3>4, MainCounts
    <2> QED
      BY <2>1, <2>2, <2>3
  <1>3. Scoped'
    BY DEF DInv, Scoped
  <1>4. LogOpen'
    BY DEF DInv, LogOpen
  <1> QED
    BY <1>1, <1>2, <1>3, <1>4 DEF DInv

LEMMA EndServerDInv == ASSUME DInv, EndServer PROVE DInv'
  <1> USE DEF EndServer, objects, threads
  <1>1. nInstances' = nInstances - 1 /\ pFile' = pFile
    BY DeleteSecond DEF MainLoggers
  <1>2. WellTyped'
    BY <1>1 DEF DInv, WellTyped
  <1>3. Counted'
    <2>1. MainLoggers = 2 /\ MainLoggers' = 1
      BY DEF MainLoggers
    <2>2. nInstances \in Int
      BY InstancesNat
    <2>3. nInstances' = nInstances + (MainLoggers' - MainLoggers)
      BY <1>1, <2>1, <2>2
    <2>4. UNCHANGED logger
      OBVIOUS
    <2> QED
      BY <2>3, <2>4, MainCounts
  <1>4. alive' = {}
    BY DEF DInv, WellTyped, Scoped, Threads
  <1>5. Scoped' /\ LogOpen'
    BY <1>1, <1>4 DEF DInv, Scoped, LogOpen
  <1> QED
    BY <1>2, <1>3, <1>5 DEF DInv

\* The last of the main thread: the file is closed if no thread has one.
LEMMA CloseLogDInv == ASSUME DInv, CloseLog PROVE DInv'
  <1> USE DEF CloseLog, DeleteLogger, Left, objects, threads
  <1>1. nInstances' = ThreadLogger("server") + ThreadLogger("network")
    BY DEF DInv, Counted, MainLoggers, ThreadLogger
  <1>2. pFile' \in {pFile, "closed"}
    BY DEF FileAfter
  <1>3. WellTyped'
    BY <1>2 DEF DInv, WellTyped
  <1>4. Counted'
    BY <1>1 DEF Counted, MainLoggers, ThreadLogger
  <1>5. Scoped'
    BY DEF DInv, Scoped
  <1>6. LogOpen'
    <2>1. (\E t \in Threads : logger[t]) => nInstances' # 0
      BY <1>1 DEF ThreadLogger, Threads
    <2>2. (\E t \in Threads : logger[t]) => pFile' = "open"
      BY <2>1 DEF FileAfter, DInv, LogOpen
    <2> QED
      BY <2>2 DEF LogOpen
  <1> QED
    BY <1>3, <1>4, <1>5, <1>6 DEF DInv

-----------------------------------------------------------------------------
LEMMA EnterDInv == ASSUME DInv, NEW t \in Threads, Enter(t) PROVE DInv'
  <1> USE DEF Enter, objects
  <1>1. ~logger[t]
    BY DEF DInv, Scoped
  <1>2. main \notin {"off", "rotate", "exit"} /\ pFile = "open" /\ pFile' = pFile
    BY DEF DInv, Scoped, LogOpen, NewLogger
  <1>3. WellTyped' /\ Scoped'
    <2>1. WellTyped'
      BY <1>2 DEF DInv, WellTyped
    <2>2. /\ thread'[t] = "wait" /\ t \in alive
          /\ \A u \in Threads \ {t} :
               thread'[u] = thread[u] /\ (logger'[u] <=> logger[u])
      BY DEF DInv, WellTyped
    <2>3. \A u \in Threads : logger'[u] => thread'[u] \in {"wait", "in", "stuck"}
      BY <2>2 DEF DInv, Scoped
    <2>4. main = "server" => thread'["server"] = "none"
      BY <2>2 DEF DInv, Scoped, Threads
    <2> QED
      BY <2>1, <2>2, <2>3, <2>4 DEF DInv, Scoped
  <1>4. Counted'
    <2>1. CASE NewLogger /\ logger' = [logger EXCEPT ![t] = TRUE]
      <3>1. ThreadLogger(t) = 0 /\ ThreadLogger(t)' = 1
        BY <1>1, <2>1 DEF ThreadLogger, DInv, WellTyped
      <3>2. \A u \in Threads \ {t} : logger'[u] <=> logger[u]
        BY <2>1 DEF DInv, WellTyped
      <3> QED
        BY <2>1, <3>1, <3>2, ThreadCounts DEF NewLogger
    <2>2. CASE UNCHANGED <<nInstances, pFile, logger>>
      BY <2>2 DEF DInv, Counted, MainLoggers, ThreadLogger
    <2> QED
      BY <2>1, <2>2
  <1>5. LogOpen'
    BY <1>2 DEF DInv, LogOpen
  <1> QED
    BY <1>3, <1>4, <1>5 DEF DInv

LEMMA LockDInv ==
  ASSUME DInv, NEW t \in Threads, GetLock(t) \/ GetLockLate(t) \/ Sticks(t) \/ End(t)
  PROVE  DInv'
  <1>1. CASE Gone
    BY <1>1, GoneDInv
  <1>2. CASE GetLock(t) \/ (GetLockLate(t) /\ ~Gone) \/ Sticks(t) \/ End(t)
    <2> USE <1>2 DEF GetLock, GetLockLate, Sticks, End, shared, objects
    <2>1. /\ UNCHANGED <<main, shared, objects, logger, debug>>
          /\ thread' \in [Threads -> {"none", "idle", "wait", "in", "stuck", "ended"}]
          /\ \A u \in Threads \ {t} : thread'[u] = thread[u]
          /\ thread[t] # "none"
          /\ thread[t] # "idle" => thread'[t] \in {"in", "stuck"}
          /\ thread[t] = "idle" => ~logger[t]
      BY DEF DInv, WellTyped, Scoped
    <2>2. WellTyped'
      BY <2>1 DEF DInv, WellTyped
    <2>3. Counted'
      BY <2>1 DEF DInv, Counted, MainLoggers, ThreadLogger
    <2>4. main = "server" => thread'["server"] = "none"
      BY <2>1 DEF DInv, Scoped, Threads
    <2>5. Scoped'
      BY <2>1, <2>4 DEF DInv, Scoped
    <2>6. LogOpen'
      BY <2>1 DEF DInv, LogOpen
    <2> QED
      BY <2>2, <2>3, <2>5, <2>6 DEF DInv
  <1> QED
    BY <1>1, <1>2

LEMMA ReturnDInv == ASSUME DInv, NEW t \in Threads, Return(t) PROVE DInv'
  <1> USE DEF Return, objects
  <1>1. /\ \A u \in Threads : logger'[u] <=> logger[u] /\ u # t
        /\ \A u \in Threads \ {t} : thread'[u] = thread[u]
        /\ thread[t] = "in"
    BY DEF DInv, WellTyped
  <1>2. Counted'
    <2>1. nInstances' = nInstances + (ThreadLogger(t)' - ThreadLogger(t))
      <3>1. CASE logger[t]
        BY <1>1, <3>1, LoggerNumbers
        DEF ThreadLogger, DeleteLogger, Left, DInv, Counted, Threads
      <3>2. CASE ~logger[t]
        BY <1>1, <3>2, LoggerNumbers DEF ThreadLogger, DInv, Counted, Threads
      <3> QED
        BY <3>1, <3>2
    <2> QED
      BY <1>1, <2>1, ThreadCounts
  <1>3. pFile' = pFile \/ (pFile' = "closed" /\ nInstances' = 0)
    BY DEF DeleteLogger, FileAfter
  <1>4. WellTyped'
    BY <1>3 DEF DInv, WellTyped
  <1>5. main = "server" => thread'["server"] = "none"
    BY <1>1 DEF DInv, Scoped, Threads
  <1>6. Scoped'
    BY <1>1, <1>5 DEF DInv, Scoped
  <1>7. LogOpen'
    <2>1. CASE pFile' = pFile
      BY <1>1, <2>1 DEF DInv, LogOpen
    <2>2. CASE nInstances' = 0
      <3>1. MainLoggers' = 0 /\ \A u \in Threads : ~logger'[u]
        <4>1. "server" \in Threads /\ "network" \in Threads
          BY DEF Threads
        <4>2. /\ MainLoggers' = 0
              /\ ThreadLogger("server")' = 0 /\ ThreadLogger("network")' = 0
          BY <1>2, <2>2, <4>1, LoggerNumbers DEF Counted
        <4> QED
          BY <4>2 DEF ThreadLogger, Threads
      <3> QED
        BY <3>1 DEF LogOpen, MainLoggers
    <2> QED
      BY <1>3, <2>1, <2>2
  <1> QED
    BY <1>2, <1>4, <1>6, <1>7 DEF DInv

LEMMA NextDInv == DInv /\ [DaemonNext]_dvars => DInv'
  <1> SUFFICES ASSUME DInv, [DaemonNext]_dvars PROVE DInv'
    OBVIOUS
  <1>1. CASE MainThread \/ Boot \/ OnCtrlBreak \/ Killed
    BY <1>1, GoneDInv, StartupDInv, NewNetworkDInv, NewServerDInv, RunningDInv,
       EndServerDInv, CloseLogDInv
    DEF MainThread, Killed, Exit
  <1>2. ASSUME NEW t \in Threads, Thread(t) PROVE DInv'
    BY <1>2, EnterDInv, LockDInv, ReturnDInv DEF Thread
  <1>3. CASE UNCHANGED dvars
    BY <1>3 DEF dvars, shared, objects, threads, DInv, WellTyped, Counted, MainLoggers,
       ThreadLogger, Scoped, LogOpen
  <1> QED
    BY <1>1, <1>2, <1>3 DEF DaemonNext

LEMMA DaemonInductive == DaemonSpec => []DInv
  BY InitDInv, NextDInv, PTL DEF DaemonSpec

\* Nobody finds the log closed who holds a Logger (logger.cpp:67-81): not the main
\* thread while it shuts down, nor a thread that comes late to its lock.
THEOREM LogStaysOpen == DaemonSpec => []LogOpen
  BY DaemonInductive, PTL DEF DInv

\* Every reachable state is well typed: no more than four Loggers at a time.
THEOREM DaemonTypeCorrect == DaemonSpec => []DaemonTypeOK
  <1>1. DInv /\ TypeOK => DaemonTypeOK
    BY InstancesNat DEF DInv, WellTyped, DaemonTypeOK
  <1>2. IInv => TypeOK
    BY DEF IInv
  <1> QED
    BY <1>1, <1>2, Rotates, Inductive, DaemonInductive, PTL
=============================================================================
