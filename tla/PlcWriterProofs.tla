--------------------------- MODULE PlcWriterProofs ---------------------------
(***************************************************************************)
(* However many threads share a PLC session, one socket is open: a caller  *)
(* at work has the lock, and the sockets are those of the session and of   *)
(* the connection it has just failed to make.  The writer and the bridge   *)
(* only use the session, and the lock of the service, as those are meant   *)
(* to be used, so that what holds of them holds of the two programs.       *)
(***************************************************************************)
EXTENDS PlcWriter, TLAPS

-----------------------------------------------------------------------------
(* The lock of the service.  On Windows it excludes any number of          *)
(* processes: who holds it has the mutex open, and nobody creates a mutex  *)
(* that is open.                                                           *)

\* Whoever holds the lock has a handle, and only the steps of the mutex are taken.
MutexInv ==
  /\ pc \in [Processes -> {"off", "create", "close", "write", "held", "unlink", "refused"}]
  /\ \A p \in Processes : Holds(p) => p \in handles
  /\ OneHolder

\* The invariant holds initially: no process runs.
LEMMA MutexInit == Init /\ setting = "windows" => MutexInv
  BY DEF Init, MutexInv, Holds, OneHolder

\* A step of a process keeps the invariant on Windows.
LEMMA MutexStep ==
  ASSUME setting = "windows", NEW p \in Processes, MutexInv, Process(p)
  PROVE  MutexInv'
<1> USE DEF MutexInv, Goto, Holds
<1>1. CASE Start(p)
  BY <1>1 DEF Start, Begin, OneHolder
<1>2. CASE ReadPidFile(p) \/ UnlinkStale(p) \/ OpenFile(p) \/ LockFile(p)
  BY <1>2 DEF ReadPidFile, UnlinkStale, OpenFile, LockFile
<1>3. CASE CreateMutex(p)
  <2>1. CASE handles = {}
    <3>1. \A q \in Processes : Holds(q)' => q = p
      BY <1>3, <2>1 DEF CreateMutex, Created
    <3> QED
      BY <1>3, <2>1, <3>1 DEF CreateMutex, Created, OneHolder
  <2>2. CASE handles # {}
    BY <1>3, <2>2 DEF CreateMutex, Created, OneHolder
  <2> QED
    BY <2>1, <2>2
<1>4. CASE CloseHandle(p)
  BY <1>4 DEF CloseHandle, OneHolder
<1>5. CASE WritePid(p)
  BY <1>5 DEF WritePid, OneHolder
<1>6. CASE ReleaseLock(p)
  BY <1>6 DEF ReleaseLock, OneHolder
<1>7. CASE UnlinkPid(p)
  BY <1>7 DEF UnlinkPid, OneHolder
<1>8. CASE End(p)
  BY <1>8 DEF End, OneHolder
<1> QED
  BY <1>1, <1>2, <1>3, <1>4, <1>5, <1>6, <1>7, <1>8 DEF Process

\* On Windows a service never runs twice: of any number of processes that start, are
\* refused, die and leave, one is between acquire() and release() (Singleton.py).
THEOREM RunsOnce == Spec => [](setting = "windows" => OneHolder)
<1> DEFINE OnWindows == setting = "windows" => MutexInv
<1>1. Init => OnWindows
  BY MutexInit
<1>2. OnWindows /\ [Next]_vars => OnWindows'
  <2> SUFFICES ASSUME OnWindows, [Next]_vars, setting' = "windows" PROVE MutexInv'
    OBVIOUS
  <2>1. CASE Next
    <3>1. PICK p \in Processes : Process(p)
      BY <2>1 DEF Next
    <3>2. setting = "windows"
      BY <3>1 DEF Process, Start, ReadPidFile, UnlinkStale, OpenFile, LockFile,
                  CreateMutex, CloseHandle, WritePid, ReleaseLock, UnlinkPid, End
    <3> QED
      BY <3>1, <3>2, MutexStep
  <2>2. CASE UNCHANGED vars
    BY <2>2 DEF vars, MutexInv, Holds, OneHolder
  <2> QED
    BY <2>1, <2>2
<1>3. OnWindows => (setting = "windows" => OneHolder)
  BY DEF MutexInv
<1> QED
  BY <1>1, <1>2, <1>3, PTL DEF Spec

\* Who holds the lock has it, the one that has written its pid under that pid; a PID
\* file that somebody has open is an inode.
LockInv ==
  /\ setting = "windows" => MutexInv
  /\ setting # "windows" =>
       /\ file \in Files \cup {None} /\ fd \in [Processes -> Files \cup {None}]
       /\ text \in [Files -> Processes \cup {None}] /\ flock \in [Files -> Processes \cup {None}]
       /\ pc \in [Processes -> {"off", "read", "clean", "open", "lock", "write", "held",
                                "unlink", "refused"}]
       /\ \A p \in Processes : pc[p] \in {"lock", "write", "held"} => fd[p] \in Files
       /\ \A p \in Processes : Holds(p) => flock[fd[p]] = p
       /\ \A p \in Processes : pc[p] = "held" => text[fd[p]] \in {p, None}

\* Beside a holder that has been alone, others only get as far as its mutex, or as the
\* PID file that it has locked.
SoleInv ==
  \A p \in sole :
    /\ p \in Processes /\ pc[p] = "held"
    /\ setting = "windows" =>
         \A q \in Processes \ {p} : pc[q] \in {"off", "create", "close", "refused"}
    /\ setting # "windows" =>
         /\ fd[p] = file
         /\ \A q \in Processes \ {p} : /\ pc[q] \in {"off", "read", "open", "lock", "refused"}
                                       /\ pc[q] = "lock" => fd[q] = file

\* Every step of a process with a PID file keeps the lock with its holder.
LEMMA FileStep ==
  ASSUME setting # "windows", NEW p \in Processes, LockInv, Process(p)
  PROVE  LockInv'
<1> USE SingletonAssumption DEF LockInv, Goto, Holds, Running
<1>1. CASE Start(p)
  BY <1>1 DEF Start, Begin
<1>2. CASE ReadPidFile(p)
  BY <1>2 DEF ReadPidFile
<1>3. CASE UnlinkStale(p)
  BY <1>3 DEF UnlinkStale
<1>4. CASE OpenFile(p)
  BY <1>4 DEF OpenFile, Unused
<1>5. CASE LockFile(p)
  BY <1>5 DEF LockFile, Lockf
<1>6. CASE CreateMutex(p) \/ CloseHandle(p)
  BY <1>6 DEF CreateMutex, CloseHandle
<1>7. CASE WritePid(p)
  BY <1>7 DEF WritePid
<1>8. CASE ReleaseLock(p)
  BY <1>8 DEF ReleaseLock
<1>9. CASE UnlinkPid(p)
  BY <1>9 DEF UnlinkPid
<1>10. CASE End(p)
  BY <1>10 DEF End
<1> QED
  BY <1>1, <1>2, <1>3, <1>4, <1>5, <1>6, <1>7, <1>8, <1>9, <1>10 DEF Process

\* No step of another process gets past a holder that has been alone, and a process that
\* is alone now holds the file it has locked.
LEMMA SoleStep ==
  ASSUME NEW p \in Processes, LockInv, SoleInv, Process(p)
  PROVE  SoleInv'
<1>1. setting' = setting /\ setting \in {"windows"} \cup {setting}
  BY DEF Process, Start, ReadPidFile, UnlinkStale, OpenFile, LockFile, CreateMutex, CloseHandle,
         WritePid, ReleaseLock, UnlinkPid, End
<1>2. ASSUME NEW h \in sole, pc'[h] = "held"
      PROVE  /\ setting = "windows" =>
                  \A q \in Processes \ {h} : pc'[q] \in {"off", "create", "close", "refused"}
             /\ setting # "windows" =>
                  /\ fd'[h] = file'
                  /\ \A q \in Processes \ {h} :
                        /\ pc'[q] \in {"off", "read", "open", "lock", "refused"}
                        /\ pc'[q] = "lock" => fd'[q] = file'
  <2>0. h \in Processes /\ pc[h] = "held"
    BY <1>2 DEF SoleInv
  <2>1. CASE setting = "windows"
    BY <1>2, <2>0, <2>1 DEF SoleInv, LockInv, MutexInv, Holds, Goto, Process, Start, Begin,
       ReadPidFile, UnlinkStale, OpenFile, LockFile, CreateMutex, Created, CloseHandle,
       WritePid, ReleaseLock, UnlinkPid, End
  <2>2. CASE setting # "windows"
    <3> USE SingletonAssumption, <1>2, <2>0, <2>2 DEF SoleInv, LockInv, Holds, Goto, Running
    <3>1. CASE p = h
      BY <3>1 DEF Process, Start, ReadPidFile, UnlinkStale, OpenFile, LockFile, CreateMutex,
         CloseHandle, WritePid, ReleaseLock, UnlinkPid, End
    <3>2. CASE p # h /\ Start(p)
      BY <3>2 DEF Start, Begin
    <3>3. CASE p # h /\ ReadPidFile(p)
      BY <3>3 DEF ReadPidFile, MayLock, PidInFile
    <3>4. CASE p # h /\ OpenFile(p)
      BY <3>4 DEF OpenFile
    <3>5. CASE p # h /\ LockFile(p)
      BY <3>5 DEF LockFile, Lockf
    <3>6. CASE p # h /\ End(p)
      BY <3>6 DEF End
    <3>7. CASE p # h /\ pc[p] \notin {"off", "read", "open", "lock", "refused"}
      BY <3>7
    <3> QED
      BY <3>1, <3>2, <3>3, <3>4, <3>5, <3>6, <3>7 DEF Process, UnlinkStale, CreateMutex,
         CloseHandle, WritePid, ReleaseLock, UnlinkPid
  <2> QED
    BY <2>1, <2>2
<1>3. ASSUME NEW h \in Processes, Alone(h)'
      PROVE  /\ setting = "windows" =>
                  \A q \in Processes \ {h} : pc'[q] \in {"off", "create", "close", "refused"}
             /\ setting # "windows" =>
                  /\ fd'[h] = file'
                  /\ \A q \in Processes \ {h} :
                        /\ pc'[q] \in {"off", "read", "open", "lock", "refused"}
                        /\ pc'[q] = "lock" => fd'[q] = file'
  BY <1>1, <1>3 DEF Alone, Running
<1>4. sole' = {h \in Processes : pc'[h] = "held" /\ (h \in sole \/ Alone(h)')}
  BY DEF Process, Remember
<1> QED
  BY <1>1, <1>2, <1>3, <1>4 DEF SoleInv

\* A service that has been alone, with a mutex or with its PID file in place, is not
\* joined by a second one, however many start at once, are refused or are killed, and
\* whatever pids are used again (Singleton.py, acquire and release).
THEOREM RunsUnjoined == Spec => []NeverJoined
<1>1. Init => LockInv /\ SoleInv
  BY MutexInit, SingletonAssumption DEF Init, LockInv, SoleInv, Holds
<1>2. LockInv /\ SoleInv /\ [Next]_vars => LockInv' /\ SoleInv'
  <2> SUFFICES ASSUME LockInv, SoleInv, [Next]_vars PROVE LockInv' /\ SoleInv'
    OBVIOUS
  <2>1. ASSUME NEW p \in Processes, Process(p) PROVE LockInv' /\ SoleInv'
    <3>1. setting' = setting
      BY <2>1 DEF Process, Start, ReadPidFile, UnlinkStale, OpenFile, LockFile, CreateMutex,
         CloseHandle, WritePid, ReleaseLock, UnlinkPid, End
    <3>2. CASE setting = "windows"
      BY <2>1, <3>1, <3>2, MutexStep, SoleStep DEF LockInv
    <3>3. CASE setting # "windows"
      BY <2>1, <3>3, FileStep, SoleStep
    <3> QED
      BY <3>2, <3>3
  <2>2. CASE UNCHANGED vars
    BY <2>2 DEF vars, LockInv, SoleInv, MutexInv, Holds, OneHolder
  <2> QED
    BY <2>1, <2>2 DEF Next
<1>3. LockInv /\ SoleInv => NeverJoined
  BY DEF LockInv, SoleInv, NeverJoined, Holds
<1> QED
  BY <1>1, <1>2, <1>3, PTL DEF Spec

-----------------------------------------------------------------------------
(* The session. *)

SessionShape ==
  /\ client \in Clients \cup {NoClient} /\ fresh \in Clients \cup {NoClient}
  /\ target \in Targets
  /\ socket \in [Clients -> Targets \cup {NoClient}]
  /\ at \in [Callers -> Working \cup {"idle", "queue", "failed"}]
  /\ op \in [Callers -> Ops]
SessionInv ==
  /\ SessionShape
  /\ \A c \in Callers : at[c] \in Working => lock = c
  /\ \A c \in Callers : at[c] = "reset" => op[c] \in Targets
  /\ \A c \in Callers : at[c] = "undo" => fresh # NoClient
  /\ fresh # NoClient =>
       client = NoClient /\ \E c \in Callers : lock = c /\ at[c] \in {"undo", "hung"}
  /\ \A s \in Clients : socket[s] # NoClient => s \in {client, fresh}
  /\ client # NoClient => socket[client] = target

\* The manager begins without a client.
LEMMA SessionStarts == SessionInit => SessionInv
  BY SessionAssumption DEF SessionInit, SessionInv, SessionShape, Working, Ops

\* A caller with the lock at any place but a failed or hanging ConnectServer finds no
\* client but the session's.
LEMMA NoFresh ==
  ASSUME SessionInv, NEW c \in Callers, at[c] \in Working \ {"undo", "hung"}
  PROVE  fresh = NoClient
  BY DEF SessionInv

\* SafeClose of the one open client leaves no socket open.
LEMMA ClosesAll ==
  ASSUME SessionInv, NEW s \in Clients \cup {NoClient}, SafeClose(s),
         \A t \in Clients : socket[t] # NoClient => t = s
  PROVE  /\ socket' \in [Clients -> Targets \cup {NoClient}]
         /\ \A t \in Clients : socket'[t] = NoClient
  BY SessionAssumption DEF SessionInv, SessionShape, SafeClose

\* A step of a call keeps the invariant.
LEMMA ServeStep ==
  ASSUME SessionInv, NEW c \in Callers, Serve(c) PROVE SessionInv'
<1> USE SessionAssumption DEF Move, Working
<1>1. CASE Take(c)
  BY <1>1 DEF SessionInv, SessionShape, Take
<1>2. CASE Busy(c)
  BY <1>2 DEF SessionInv, SessionShape, Busy
<1>3. CASE Reset(c)
  <2>1. fresh = NoClient
    BY <1>3, NoFresh DEF Reset
  <2>2. \A t \in Clients : socket[t] # NoClient => t = client
    BY <2>1 DEF SessionInv
  <2>3. /\ socket' \in [Clients -> Targets \cup {NoClient}]
        /\ \A t \in Clients : socket'[t] = NoClient
    BY <1>3, <2>2, ClosesAll DEF Reset, Dropped, SessionInv, SessionShape
  <2>4. op[c] \in Targets
    BY <1>3 DEF Reset, SessionInv
  <2> QED
    BY <1>3, <2>1, <2>3, <2>4 DEF SessionInv, SessionShape, Reset
<1>4. CASE Reuse(c)
  BY <1>4, NoFresh DEF SessionInv, SessionShape, Reuse, Connected
<1>5. CASE Connect(c)
  <2>1. fresh = NoClient /\ client = NoClient /\ lock = c
    BY <1>5, NoFresh DEF Connect, SessionInv
  <2>2. PICK s \in Clients \ Open :
          /\ socket' = [socket EXCEPT ![s] = target]
          /\ \/ Move(c, Connected(c)) /\ client' = s /\ fresh' = fresh
             \/ Move(c, "undo") /\ fresh' = s /\ client' = client
             \/ Move(c, "hung") /\ fresh' = s /\ client' = client
    BY <1>5 DEF Connect
  <2>3. lock' = lock /\ target' = target /\ op' = op
    BY <1>5 DEF Connect
  <2> QED
    BY <2>1, <2>2, <2>3 DEF SessionInv, SessionShape, Connected
<1>6. CASE Undo(c)
  <2>1. client = NoClient /\ \A t \in Clients : socket[t] # NoClient => t = fresh
    BY <1>6 DEF Undo, SessionInv
  <2>2. /\ socket' \in [Clients -> Targets \cup {NoClient}]
        /\ \A t \in Clients : socket'[t] = NoClient
    BY <1>6, <2>1, ClosesAll DEF Undo, Failed, SessionInv, SessionShape
  <2> QED
    BY <1>6, <2>1, <2>2 DEF SessionInv, SessionShape, Undo, Retry
<1>7. CASE SdkReturns(c) \/ SdkFails(c) \/ SdkHangs(c)
  BY <1>7, NoFresh DEF SessionInv, SessionShape, SdkReturns, SdkFails, SdkHangs, Sdk
<1>8. CASE Drop(c)
  <2>1. fresh = NoClient
    BY <1>8, NoFresh DEF Drop
  <2>2. \A t \in Clients : socket[t] # NoClient => t = client
    BY <2>1 DEF SessionInv
  <2>3. /\ socket' \in [Clients -> Targets \cup {NoClient}]
        /\ \A t \in Clients : socket'[t] = NoClient
    BY <1>8, <2>2, ClosesAll DEF Drop, Dropped, SessionInv, SessionShape
  <2> QED
    BY <1>8, <2>1, <2>3 DEF SessionInv, SessionShape, Drop, Retry
<1>9. CASE Answer(c)
  BY <1>9, NoFresh DEF SessionInv, SessionShape, Answer
<1> QED
  BY <1>1, <1>2, <1>3, <1>4, <1>5, <1>6, <1>7, <1>8, <1>9 DEF Serve

\* A caller that asks, and a process that ends, keep the invariant.
LEMMA AskStep ==
  ASSUME SessionInv, NEW c \in Callers, NEW o \in Ops, Ask(c, o) PROVE SessionInv'
  BY SessionAssumption DEF SessionInv, SessionShape, Ask, Move, Working
\* A restart closes the socket and forgets the calls.
LEMMA RestartStep ==
  ASSUME SessionInv, Restarted PROVE SessionInv'
  BY SessionAssumption DEF SessionInv, SessionShape, Restarted, Working

\* Every step keeps the invariant.
LEMMA SessionStep == SessionInv /\ [SessionNext]_session => SessionInv'
<1> SUFFICES ASSUME SessionInv, [SessionNext]_session PROVE SessionInv'
  OBVIOUS
<1>1. CASE UNCHANGED session
  BY <1>1 DEF session, SessionInv, SessionShape
<1>2. CASE SessionNext
  BY <1>2, ServeStep, AskStep, RestartStep DEF SessionNext, Restart
<1> QED
  BY <1>1, <1>2

\* The invariant leaves room for one socket.
LEMMA SessionIsOne == SessionInv => OneSession
  BY SessionAssumption DEF SessionInv, SessionShape, OneSession, Open

\* PLCConnectionManager owns one session: for any number of threads, failures, hangs
\* and changes of the address, one socket is open, and it leads to that address.
THEOREM SessionSafe == SessionSpec => []OneSession
  BY SessionStarts, SessionStep, SessionIsOne, PTL DEF SessionSpec

-----------------------------------------------------------------------------
\* A step of the writer or of the bridge is one of the session, or does not touch it.
LEMMA StepOfSession == [PlcNext]_plcVars => [SessionNext]_session
<1> SUFFICES ASSUME [PlcNext]_plcVars PROVE [SessionNext]_session
  OBVIOUS
<1> USE WriterAssumption
<1>1. CASE UNCHANGED plcVars
  BY <1>1 DEF plcVars
<1>2. CASE Starts \/ Telegram \/ Changes \/ Land
  BY <1>2 DEF Starts, Telegram, Changes, Land
<1>3. CASE Bridge
  BY <1>3 DEF Bridge, Request, SessionNext, Ops
<1>4. ASSUME NEW p \in Processes, Polls(p) PROVE [SessionNext]_session
  <2>1. CASE Enters(p)
    BY <2>1 DEF Enters
  <2>2. CASE Dies(p)
    BY <2>2 DEF Dies, SessionNext, Restart
  <2>3. CASE GetCurrent(p) \/ FindRow(p) \/ Compare(p)
    BY <2>3 DEF GetCurrent, FindRow, Compare, SessionNext, Ops
  <2>4. CASE GetWidth(p) \/ AddPositions(p) \/ WriteDone(p)
    BY <2>4 DEF GetWidth, AddPositions, WriteDone, SessionNext, Serve
  <2>5. CASE Session(p)
    BY <2>5 DEF Session, Turns, Breaks, SessionNext, Serve
  <2> QED
    BY <1>4, <2>1, <2>2, <2>3, <2>4, <2>5 DEF Polls
<1> QED
  BY <1>1, <1>2, <1>3, <1>4 DEF PlcNext

\* ... and one of the lock, or does not touch it.
LEMMA StepOfLock == [PlcNext]_plcVars => [Next]_vars
<1> SUFFICES ASSUME [PlcNext]_plcVars PROVE [Next]_vars
  OBVIOUS
<1>1. CASE UNCHANGED plcVars
  BY <1>1 DEF plcVars
<1>2. CASE Starts \/ Telegram \/ Changes \/ Land \/ Bridge
  BY <1>2 DEF Starts, Telegram, Changes, Land, Bridge
<1>3. ASSUME NEW p \in Processes, Polls(p) PROVE [Next]_vars
  <2>1. CASE Enters(p)
    BY <2>1 DEF Enters, Next, Process
  <2>2. CASE Dies(p)
    BY <2>2 DEF Dies, Next, Process
  <2>3. CASE GetCurrent(p) \/ GetWidth(p) \/ FindRow(p) \/ AddPositions(p)
             \/ Compare(p) \/ WriteDone(p) \/ Session(p)
    BY <2>3 DEF GetCurrent, GetWidth, FindRow, AddPositions, Compare, WriteDone, Session
  <2> QED
    BY <1>3, <2>1, <2>2, <2>3 DEF Polls
<1> QED
  BY <1>1, <1>2, <1>3 DEF PlcNext

\* The writer and the bridge keep to one session each, no writer that has been alone is
\* joined by another, and on Windows one polls at most: the programs implement the
\* session and the lock they are built on.
THEOREM ProgramsSafe ==
  PlcSpec => [](OneSession /\ NeverJoined /\ (setting = "windows" => OneHolder))
<1>1. PlcInit => SessionInit /\ Init
  BY DEF PlcInit
<1>2. PlcSpec => SessionSpec /\ Spec
  BY <1>1, StepOfSession, StepOfLock, PTL DEF PlcSpec, SessionSpec, Spec
<1> QED
  BY <1>2, SessionSafe, RunsOnce, RunsUnjoined, PTL
=============================================================================
