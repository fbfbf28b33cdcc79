---------------------------- MODULE LogRotation ----------------------------
(***************************************************************************)
(* The rotation of log files when the daemon starts: Logger::Init and      *)
(* Logger::CycleLogs (src/src/logger.cpp), one system call per step, with  *)
(* the process killed between any two of them and started again.           *)
(*                                                                         *)
(* The current log is file Current, "<name>-00" to "<name>-<nMax>" are the *)
(* files 0 .. nMax. A file is known by the run of the daemon that created  *)
(* it; 0 means that there is no such file. The calls themselves succeed:   *)
(* the code ignores their results.                                         *)
(***************************************************************************)
EXTENDS Integers

CONSTANTS
  nMax,      \* _nMax, 30 in the daemon (pacsrvd.cpp)
  MaxRuns    \* bound: starts of the daemon

ASSUME MaxAssumption  == nMax \in Nat \ {0}
ASSUME RunsAssumption == MaxRuns \in Nat

Current == -1

Files == Current .. nMax

VARIABLES
  disk,      \* [Files -> the run that created the file, or 0]
  pc,        \* "down", or the next call of Init and CycleLogs, or "up"
  i,         \* loop variable of CycleLogs
  runs       \* times the daemon has been started

vars == <<disk, pc, i, runs>>

TypeOK ==
  /\ disk \in [Files -> 0 .. MaxRuns]
  /\ pc \in {"down", "unlink", "shift", "open", "up"}
  /\ i \in 0 .. nMax
  /\ runs \in 0 .. MaxRuns

Init ==
  /\ disk = [f \in Files |-> 0]
  /\ pc = "down"
  /\ i = 0
  /\ runs = 0

-----------------------------------------------------------------------------
\* Mutant of Rename: the old name stays.
Link(from, to) ==
  disk' = [disk EXCEPT ![to] = IF disk[from] = 0 THEN disk[to] ELSE disk[from]]

\* rename(2) replaces `to`, and does nothing when there is no `from`.
Rename(from, to) ==
  disk' = IF disk[from] = 0 THEN disk
          ELSE [disk EXCEPT ![to] = disk[from], ![from] = 0]

\* Mutants of FirstIndex: the loop starts one too low, one too high.
FirstIndexLow == nMax - 1

FirstIndexHigh == nMax + 1

FirstIndex == nMax

Start ==
  /\ pc = "down"
  /\ runs < MaxRuns
  /\ runs' = runs + 1
  /\ pc' = "unlink"
  /\ UNCHANGED <<disk, i>>

Unlink ==
  /\ pc = "unlink"
  /\ disk' = [disk EXCEPT ![nMax] = 0]
  /\ i' = FirstIndex
  /\ pc' = "shift"
  /\ UNCHANGED runs

Shift ==
  /\ pc = "shift"
  /\ i > 0
  /\ i' = i - 1
  /\ Rename(i - 1, i)
  /\ UNCHANGED <<pc, runs>>

\* Mutant of Park: the current log is not moved out of the way.
LeaveCurrent ==
  /\ pc = "shift"
  /\ i = 0
  /\ pc' = "open"
  /\ UNCHANGED <<disk, i, runs>>

Park ==
  /\ pc = "shift"
  /\ i = 0
  /\ Rename(Current, 0)
  /\ pc' = "open"
  /\ UNCHANGED <<i, runs>>

\* fopen(file, "a") creates the file or goes on with the one that is there.
Open ==
  /\ pc = "open"
  /\ disk' = [disk EXCEPT ![Current] = IF @ = 0 THEN runs ELSE @]
  /\ pc' = "up"
  /\ UNCHANGED <<i, runs>>

\* The daemon ends, in order or not, or is killed half way through Init.
Stop ==
  /\ pc # "down"
  /\ pc' = "down"
  /\ UNCHANGED <<disk, i, runs>>

Next == Start \/ Unlink \/ Shift \/ Park \/ Open \/ Stop

Spec == Init /\ [][Next]_vars

-----------------------------------------------------------------------------
(* Properties.                                                             *)

\* The higher its number, the older a log, and no log is there twice, wherever
\* earlier rotations were interrupted (logger.cpp:118-132).
Ordered ==
  \A f, g \in Files :
    f < g /\ disk[f] # 0 /\ disk[g] # 0 => disk[f] > disk[g]

\* No rename ever runs over another log: only the log numbered nMax goes.
OnlyLastRemoved ==
  [][\A f \in Files :
       disk[f] # 0 /\ (\A g \in Files : disk'[g] # disk[f]) => f = nMax]_vars

\* A run writes to a log of its own, never to the end of an older one, although the file is opened for appending (logger.cpp:102, 130-132).
OwnLog == pc = "up" => disk[Current] = runs
=============================================================================
