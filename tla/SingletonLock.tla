---------------------------- MODULE SingletonLock ----------------------------
(***************************************************************************)
(* The lock that keeps a service from running twice                        *)
(* (app/Base/utils/Singleton.py): a named mutex on Windows, a locked PID   *)
(* file elsewhere.  Kernel objects are what the calls of the module make   *)
(* of them: a mutex lives as long as a handle to it is open, a file that   *)
(* is unlinked lives on for those who have it open, and the kernel drops   *)
(* the handles and locks of a process that dies.                           *)
(*                                                                         *)
(* No caller passes a port, so the port check is left out, and so are      *)
(* files that cannot be opened.                                            *)
(***************************************************************************)
EXTENDS Naturals, FiniteSets

CONSTANTS
  Processes,  \* process ids; one that is free again is given out again
  Files,      \* inodes
  None,       \* no file, no pid
  Settings    \* of "windows" (the mutex), "launcher" (the PID file, with one launcher
              \* that starts one process at a time) and "overlap" (the PID file)

ASSUME SingletonAssumption ==
  /\ None \notin Processes \cup Files
  /\ Settings \subseteq {"windows", "launcher", "overlap"}

VARIABLES
  setting,  \* where the service runs
  pc,       \* per process: "off", where it is in acquire() or release(), "held"
  file,     \* the inode behind pid_file, or None
  text,     \* the pid each inode holds, or None
  flock,    \* the process that has each inode locked, or None
  fd,       \* the inode a process has open, or None
  handles,  \* the processes with a handle to the mutex
  sole      \* history: the holders that have been alone since they took the lock

vars == <<setting, pc, file, text, flock, fd, handles, sole>>

Goto(p, l)  == pc' = [pc EXCEPT ![p] = l]
Holds(p)    == pc[p] \in {"write", "held"}
Running(p)  == pc[p] # "off"
Unused      == {f \in Files : f # file /\ \A p \in Processes : fd[p] # f}
PidInFile   == IF file = None THEN None ELSE text[file]

Init ==
  /\ setting \in Settings
  /\ pc = [p \in Processes |-> "off"] /\ handles = {}
  /\ file = None /\ text = [f \in Files |-> None] /\ flock = text
  /\ fd = [p \in Processes |-> None]
  /\ sole = {}

-----------------------------------------------------------------------------
\* acquire(): where it goes depends on the platform.
Begin(p) == Goto(p, IF setting = "windows" THEN "create" ELSE "read")

Start(p) ==
  /\ pc[p] = "off"
  /\ setting = "launcher" => \A q \in Processes : pc[q] \in {"off", "held", "unlink"}
  /\ Begin(p)
  /\ UNCHANGED <<setting, file, text, flock, fd, handles>>

\* _cleanup_stale_lock: the pid in the file, and whether that process runs.
StaleAnyway == TRUE
MayLock == PidInFile = None \/ ~Running(PidInFile)

ReadPidFile(p) ==
  /\ pc[p] = "read"
  /\ Goto(p, IF ~MayLock THEN "refused"
             ELSE IF PidInFile = None THEN "open" ELSE "clean")
  /\ UNCHANGED <<setting, file, text, flock, fd, handles>>

\* ... which unlinks whatever is there by now,
UnlinkStale(p) ==
  /\ pc[p] = "clean" /\ Goto(p, "open")
  /\ file' = None
  /\ UNCHANGED <<setting, text, flock, fd, handles>>

\* _FileLock.acquire: open for writing creates or empties the file,
OpenFile(p) ==
  /\ pc[p] = "open" /\ Goto(p, "lock")
  /\ \/ file # None /\ fd' = [fd EXCEPT ![p] = file] /\ UNCHANGED file
     \/ file = None /\ \E f \in Unused : file' = f /\ fd' = [fd EXCEPT ![p] = f]
  /\ text' = [text EXCEPT ![file'] = None]
  /\ UNCHANGED <<setting, flock, handles>>

\* lockf does not wait,
Lockf(p) ==
  \/ flock[fd[p]] = None /\ Goto(p, "write")
     /\ flock' = [flock EXCEPT ![fd[p]] = p] /\ UNCHANGED fd
  \/ flock[fd[p]] # None /\ Goto(p, "refused")
     /\ fd' = [fd EXCEPT ![p] = None] /\ UNCHANGED flock
LockFile(p) ==
  /\ pc[p] = "lock" /\ Lockf(p)
  /\ UNCHANGED <<setting, file, text, handles>>

\* CreateMutexW opens the mutex when it exists, and the handle is closed again.
CreateUnchecked(p) == Goto(p, "write")
Created(p) == Goto(p, IF handles = {} THEN "write" ELSE "close")
CreateMutex(p) ==
  /\ pc[p] = "create" /\ Created(p)
  /\ handles' = handles \cup {p}
  /\ UNCHANGED <<setting, file, text, flock, fd>>
CloseHandle(p) ==
  /\ pc[p] = "close" /\ Goto(p, "refused")
  /\ handles' = handles \ {p}
  /\ UNCHANGED <<setting, file, text, flock, fd>>

\* The holder writes its pid, on Windows into a file nobody keeps open.
WritePid(p) ==
  /\ pc[p] = "write" /\ Goto(p, "held")
  /\ \/ setting # "windows" /\ text' = [text EXCEPT ![fd[p]] = p] /\ UNCHANGED file
     \/ setting = "windows" /\ \E f \in IF file = None THEN Unused ELSE {file} :
          file' = f /\ text' = [text EXCEPT ![f] = p]
  /\ UNCHANGED <<setting, flock, fd, handles>>

\* release(): first the lock, then the file.
ReleaseLock(p) ==
  /\ pc[p] = "held" /\ Goto(p, "unlink")
  /\ handles' = handles \ {p}
  /\ flock' = [f \in Files |-> IF flock[f] = p THEN None ELSE flock[f]]
  /\ fd' = [fd EXCEPT ![p] = None]
  /\ UNCHANGED <<setting, file, text>>
UnlinkPid(p) ==
  /\ pc[p] = "unlink" /\ Goto(p, "off")
  /\ file' = None
  /\ UNCHANGED <<setting, text, flock, fd, handles>>

\* A refused process exits; any process may be killed.
End(p) ==
  /\ pc[p] # "off" /\ Goto(p, "off")
  /\ handles' = handles \ {p}
  /\ flock' = [f \in Files |-> IF flock[f] = p THEN None ELSE flock[f]]
  /\ fd' = [fd EXCEPT ![p] = None]
  /\ UNCHANGED <<setting, file, text>>

\* Who holds the lock, under the name of the PID file, while no other process runs.
Alone(p) ==
  /\ pc[p] = "held" /\ \A q \in Processes \ {p} : ~Running(q)
  /\ setting # "windows" => fd[p] = file
Remember == sole' = {p \in Processes : pc'[p] = "held" /\ (p \in sole \/ Alone(p)')}

Process(p) ==
  /\ \/ Start(p)
     \/ ReadPidFile(p) \/ UnlinkStale(p) \/ OpenFile(p) \/ LockFile(p)
     \/ CreateMutex(p) \/ CloseHandle(p)
     \/ WritePid(p) \/ ReleaseLock(p) \/ UnlinkPid(p)
     \/ End(p)
  /\ Remember

Next == \E p \in Processes : Process(p)
Spec == Init /\ [][Next]_vars

-----------------------------------------------------------------------------
TypeOK ==
  /\ pc \in [Processes -> {"off", "create", "close", "read", "clean", "open", "lock",
                           "write", "held", "unlink", "refused"}]
  /\ file \in Files \cup {None}
  /\ text \in [Files -> Processes \cup {None}]
  /\ flock \in [Files -> Processes \cup {None}]
  /\ fd \in [Processes -> Files \cup {None}]
  /\ handles \in SUBSET Processes

\* "Keeps services from being started twice" (Singleton.py:2): of the processes between
\* acquire() and release() there is one.  True of the mutex, not of the PID file.
OneHolder == \A p, q \in Processes : Holds(p) /\ Holds(q) => p = q

\* What is true of both: a service that has been alone, with its PID file in place,
\* is not joined by a second one, however many start at once, are refused or are
\* killed, and whatever pids are used again.
NeverJoined == \A p \in sole : \A q \in Processes : Holds(q) => q = p

\* acquire() turns a process away only while another holds the lock or is after it.
TurnedAway(l) == l \in {"close", "refused"}
RefusalTrue ==
  [][\A p \in Processes : ~TurnedAway(pc[p]) /\ TurnedAway(pc'[p])
                            => \E q \in Processes \ {p} : Running(q)]_vars
=============================================================================
