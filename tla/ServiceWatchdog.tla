--------------------------- MODULE ServiceWatchdog ---------------------------
(***************************************************************************)
(* A watchdog process and the service process it supervises.  Three watch  *)
(* a heartbeat file: those of the PLC width writer                         *)
(* (app/plcServer/write_plc_watchdog, plc_writer_heartbeat, writePLC), the *)
(* 3D algorithm (app/algorithm_runtime/watchdog, runtime_heartbeat, main)  *)
(* and the 2D algorithm (app/algorithm_runtime_2D/watchdog,                *)
(* runtime_heartbeat, server).  Two ask /health: those of the PLC bridge   *)
(* (app/plcServer/watchdog, main), which takes any answer, as that of the  *)
(* API server does (app/Server/watchdog), and of the capture service       *)
(* (app/CapTrue/watchdog, CapAll, Server), which compares pid and token.   *)
(* They have the same loop, and differ in what happens to a service whose  *)
(* watchdog has died: the writer ends itself, a new 3D process ends the    *)
(* old one, any other new process gives way.                               *)
(*                                                                         *)
(* Time is abstracted: delays and grace periods end at some time, and a    *)
(* service that can still run threads writes its heartbeat at least once   *)
(* between two checks and never lets it get stale.  The instance locks of  *)
(* watchdog and service are taken as the mutexes they are on Windows       *)
(* (SingletonLock): `holder` has the one of the service, which for a       *)
(* service with /health is its port, and there is one watchdog at a time.  *)
(***************************************************************************)
EXTENDS Naturals, FiniteSets

CONSTANTS
  Pids,       \* process ids of the service
  None,       \* no process
  Kinds,      \* of "writer", "3d", "2d", "plc" and "capture"
  Threshold,  \* FAILURE_THRESHOLD
  MaxFaults   \* model bound: deaths, hangs, interrupts and takeovers that fail

ASSUME WatchdogAssumption ==
  /\ None \notin Pids
  /\ Kinds \subseteq {"writer", "3d", "2d", "plc", "capture"}
  /\ Threshold \in Nat \ {0} /\ MaxFaults \in Nat

VARIABLES
  kind,     \* which service it is
  pc,       \* watchdog: "down", "start", "poll", "check", "terminate", "kill", "reap"
  child,    \* its process, or None
  failures, \* consecutive_failures
  grace,    \* STARTUP_GRACE has not passed
  closing,  \* it stops its process to exit
  st,       \* per pid: "dead", "boot", "wait" (for the lock after a takeover), "up",
            \* or "killed", not dead yet
  mode,     \* "ok", "overdue": an activity is past its deadline, or /health says it
            \* is stuck, "starved": no thread of the process runs
  orphan,   \* the watchdog of the process has died
  holder,   \* who has the lock of the service, or None
  hb,       \* the heartbeat file: of which pid (or None), fresh, with an overdue activity
  beaten,   \* who has written it since the last check
  well,     \* history: processes up that were never overdue, starved or ended by another
  faults    \* counted against MaxFaults

dog     == <<pc, child, failures, grace, closing>>
service == <<st, mode, orphan, holder, well>>
vars    == <<kind, dog, service, hb, beaten, faults>>

\* The service ends itself when its watchdog dies; a new service process ends the
\* one that holds the lock.
Guardian == kind = "writer"
Takeover == kind = "3d"
Web      == kind \in {"plc", "capture"}      \* watched by /health

NoBeat  == [pid |-> None, fresh |-> FALSE, overdue |-> FALSE]
Alive   == {p \in Pids : st[p] \in {"boot", "wait", "up"}}
Threads == {p \in Pids : st[p] = "up" /\ mode[p] # "starved"}
Writers == IF Web THEN {} ELSE Threads
Fault   == faults < MaxFaults /\ faults' = faults + 1

Init ==
  /\ kind \in Kinds
  /\ pc = "start" /\ child = None /\ failures = 0 /\ grace = FALSE /\ closing = FALSE
  /\ st = [p \in Pids |-> "dead"] /\ mode = [p \in Pids |-> "ok"]
  /\ orphan = [p \in Pids |-> FALSE] /\ holder = None /\ well = {}
  /\ hb = NoBeat /\ beaten = {} /\ faults = 0

-----------------------------------------------------------------------------
\* start_writer_process: the old heartbeat is removed, when that is possible.
StartChild ==
  /\ pc = "start" /\ pc' = "poll"
  /\ \E p \in Pids :
       /\ st[p] = "dead" /\ child' = p
       /\ st' = [st EXCEPT ![p] = "boot"] /\ mode' = [mode EXCEPT ![p] = "ok"]
       /\ orphan' = [orphan EXCEPT ![p] = FALSE]
  /\ hb' \in {NoBeat, hb}
  /\ beaten' = beaten \ {child'}
  /\ failures' = 0 /\ grace' = TRUE
  /\ UNCHANGED <<kind, closing, holder, well, faults>>

\* process.poll(), before the sleep of CHECK_INTERVAL.
Poll ==
  /\ pc = "poll"
  /\ \/ st[child] = "dead" /\ pc' = "start" /\ child' = None
     \/ st[child] # "dead" /\ pc' = "check" /\ UNCHANGED child
  /\ UNCHANGED <<kind, failures, grace, closing, service, hb, beaten, faults>>

\* A process that does not hang comes up within its grace.
GraceEnds ==
  /\ grace /\ child # None
  /\ ~ (st[child] \in {"boot", "wait"} /\ mode[child] = "ok")
  /\ grace' = FALSE
  /\ UNCHANGED <<kind, pc, child, failures, closing, service, hb, beaten,
                 faults>>

\* heartbeat_health; plc_service_healthy takes the answer of whoever has the port for
\* that of its process, capture_service_healthy compares pid and token.
AnyAnswer(p)  == TRUE
Expected(p)   == kind = "capture" => p = child
HealthAnswer  == \E p \in Pids : st[p] = "up" /\ mode[p] = "ok" /\ Expected(p)
FileHealthy   == hb.pid = child /\ hb.fresh /\ ~hb.overdue
Healthy       == IF Web THEN HealthAnswer ELSE FileHealthy

Patience(n) == n < Threshold
Check ==
  /\ pc = "check" /\ Writers \subseteq beaten
  /\ \/ grace /\ pc' = "poll" /\ UNCHANGED failures
     \/ ~grace /\ Healthy /\ pc' = "poll" /\ failures' = 0
     \/ /\ ~grace /\ ~Healthy
        /\ failures' = failures + 1
        /\ pc' = IF Patience(failures') THEN "poll" ELSE "terminate"
  /\ beaten' = {}
  /\ UNCHANGED <<kind, child, grace, closing, service, hb, faults>>

\* stop_writer_process: terminate, after STOP_TIMEOUT kill, after another give up.
Killed(p) == st' = [st EXCEPT ![p] = IF @ = "dead" THEN @ ELSE "killed"]
Terminate ==
  /\ pc = "terminate" /\ pc' = "kill"
  /\ Killed(child) \/ UNCHANGED st
  /\ UNCHANGED <<kind, child, failures, grace, closing, mode, orphan, holder,
                 well, hb, beaten, faults>>
KillNot == pc' = "reap" /\ UNCHANGED st
KillNow == pc' = "reap" /\ Killed(child)
Kill ==
  /\ pc = "kill" /\ KillNow
  /\ UNCHANGED <<kind, child, failures, grace, closing, mode, orphan, holder,
                 well, hb, beaten, faults>>
Reap ==
  /\ pc = "reap" /\ pc' = IF closing THEN "down" ELSE "start"
  /\ child' = None /\ failures' = 0 /\ closing' = FALSE
  /\ UNCHANGED <<kind, grace, service, hb, beaten, faults>>

\* KeyboardInterrupt: the process is stopped before the watchdog exits.
Interrupt ==
  /\ pc \in {"start", "poll", "check"} /\ Fault
  /\ \/ child # None /\ pc' = "terminate" /\ closing' = TRUE
     \/ child = None /\ pc' = "down" /\ UNCHANGED closing
  /\ UNCHANGED <<kind, child, failures, grace, service, hb, beaten>>

\* The watchdog dies; its launcher starts another.
WatchdogDies ==
  /\ pc # "down" /\ pc' = "down" /\ Fault
  /\ child' = None /\ closing' = FALSE /\ failures' = 0 /\ grace' = FALSE
  /\ orphan' = [p \in Pids |-> orphan[p] \/ p \in Alive]
  /\ UNCHANGED <<kind, st, mode, holder, well, hb, beaten>>
WatchdogStarts ==
  /\ pc = "down" /\ pc' = "start"
  /\ UNCHANGED <<kind, child, failures, grace, closing, service, hb, beaten,
                 faults>>

Watchdog == StartChild \/ Poll \/ GraceEnds \/ Check \/ Terminate \/ Kill \/ Reap

-----------------------------------------------------------------------------
Exit(p) ==
  /\ st' = [st EXCEPT ![p] = "dead"]
  /\ holder' = IF holder = p THEN None ELSE holder
  /\ well' = well \ {p}
  /\ UNCHANGED <<kind, mode, orphan>>

\* The lock of the service, before its heartbeat starts.
ComeUp(p) ==
  /\ holder' = p /\ st' = [st EXCEPT ![p] = "up"]
  /\ well' = IF mode[p] = "ok" THEN well \cup {p} ELSE well
  /\ UNCHANGED <<kind, mode, orphan>>
ComesUpAnyhow == TRUE
MayComeUp == holder = None
TakeLock(p) ==
  /\ st[p] \in {"boot", "wait"} /\ mode[p] = "ok"
  /\ MayComeUp /\ ComeUp(p)
  /\ UNCHANGED <<kind, dog, hb, beaten, faults>>
GiveWay(p) ==
  /\ mode[p] = "ok" /\ ~MayComeUp
  /\ st[p] = "wait" \/ (st[p] = "boot" /\ ~Takeover)
  /\ Exit(p)
  /\ UNCHANGED <<kind, dog, hb, beaten, faults>>

\* _acquire_runtime_lock of 3D: end the holder, wait, try once more.
EndNobody(p) == st' = [st EXCEPT ![p] = "wait"]
EndHolder(p) == st' = [st EXCEPT ![holder] = "killed", ![p] = "wait"]
TakeOver(p) ==
  /\ Takeover /\ st[p] = "boot" /\ mode[p] = "ok" /\ ~MayComeUp
  /\ EndHolder(p) /\ well' = well \ {holder}
  /\ UNCHANGED <<kind, mode, orphan, holder, dog, hb, beaten, faults>>
\* ... or it cannot, as the pid file is gone, names another or taskkill fails, and exits.
TakeOverFails(p) ==
  /\ Takeover /\ st[p] = "boot" /\ mode[p] = "ok" /\ ~MayComeUp
  /\ Fault /\ Exit(p)
  /\ UNCHANGED <<kind, dog, hb, beaten>>

\* The heartbeat thread writes the file.
Beat(p) ==
  /\ p \in Writers
  /\ hb' = [pid |-> p, fresh |-> TRUE, overdue |-> mode[p] = "overdue"]
  /\ beaten' = beaten \cup {p}
  /\ UNCHANGED <<kind, dog, service, faults>>

\* The file gets stale unless the process that wrote it can still write.
Expire ==
  /\ hb.fresh /\ hb.pid \notin Threads
  /\ hb' = [hb EXCEPT !.fresh = FALSE]
  /\ UNCHANGED <<kind, dog, service, beaten, faults>>

\* A native call does not return by its deadline, which the file contains ...
Hang(p) ==
  /\ p \in Alive /\ mode[p] = "ok" /\ Fault
  /\ mode' = [mode EXCEPT ![p] = "overdue"] /\ well' = well \ {p}
  /\ hb' = [hb EXCEPT !.overdue = @ \/ hb.pid = p]
  /\ UNCHANGED <<kind, dog, st, orphan, holder, beaten>>
\* ... or keeps the threads of the process from running, which its guardian counts on.
Starve(p) ==
  /\ ~Guardian /\ p \in Alive /\ mode[p] = "ok" /\ Fault
  /\ mode' = [mode EXCEPT ![p] = "starved"] /\ well' = well \ {p}
  /\ UNCHANGED <<kind, dog, st, orphan, holder, hb, beaten>>
\* It returns after all.
Return(p) ==
  /\ p \in Alive /\ mode[p] # "ok"
  /\ mode' = [mode EXCEPT ![p] = "ok"]
  /\ UNCHANGED <<kind, dog, st, orphan, holder, well, hb, beaten, faults>>

\* _guard_parent of the writer.
Guarded(p) == Guardian /\ p \in Threads
Guard(p) ==
  /\ Guarded(p) /\ orphan[p] /\ Exit(p)
  /\ UNCHANGED <<kind, dog, hb, beaten, faults>>

\* A process crashes, or a killed one is gone.
Crash(p) ==
  /\ p \in Alive /\ Fault /\ Exit(p)
  /\ UNCHANGED <<kind, dog, hb, beaten>>
Gone(p) ==
  /\ st[p] = "killed" /\ Exit(p)
  /\ UNCHANGED <<kind, dog, hb, beaten, faults>>

Live(p) ==
  \/ TakeLock(p) \/ GiveWay(p) \/ TakeOver(p)
  \/ Beat(p) \/ Guard(p) \/ Gone(p)

Next ==
  \/ Watchdog \/ Expire
  \/ Interrupt \/ WatchdogDies \/ WatchdogStarts
  \/ \E p \in Pids : \/ Live(p) \/ TakeOverFails(p)
                    \/ Hang(p) \/ Starve(p) \/ Return(p) \/ Crash(p)

Spec == Init /\ [][Next]_vars

\* The watchdog's loop and its grace go on, its launcher starts it, a process boots,
\* writes, notices the death of its watchdog and is gone once it is killed.
FairSpec ==
  /\ Spec
  /\ WF_vars(StartChild \/ Poll \/ Check \/ Terminate \/ Kill \/ Reap)
  /\ WF_vars(GraceEnds) /\ WF_vars(WatchdogStarts) /\ WF_vars(Expire)
  /\ \A p \in Pids :
       /\ WF_vars(TakeLock(p) \/ GiveWay(p) \/ TakeOver(p))
       /\ WF_vars(p \notin beaten /\ Beat(p)) /\ WF_vars(Guard(p)) /\ WF_vars(Gone(p))

-----------------------------------------------------------------------------
TypeOK ==
  /\ pc \in {"down", "start", "poll", "check", "terminate", "kill", "reap"}
  /\ child \in Pids \cup {None} /\ (child = None <=> pc \in {"down", "start"})
  /\ failures \in 0 .. Threshold /\ grace \in BOOLEAN /\ closing \in BOOLEAN
  /\ st \in [Pids -> {"dead", "boot", "wait", "up", "killed"}]
  /\ mode \in [Pids -> {"ok", "overdue", "starved"}]
  /\ orphan \in [Pids -> BOOLEAN] /\ holder \in Pids \cup {None}
  /\ hb \in [pid : Pids \cup {None}, fresh : BOOLEAN, overdue : BOOLEAN]
  /\ beaten \in SUBSET Pids /\ well \in SUBSET Pids /\ faults \in 0 .. MaxFaults

\* The watchdog never decides to stop a service that came up in time and was never
\* stuck or ended by a new process, whatever else its processes write and hold.
HealthyKept ==
  [][pc = "check" /\ pc' = "terminate" /\ ~closing' => child \notin well]_vars

\* A process the watchdog has let go of is dead, will be or outlived its watchdog.
NoneLeftBehind == \A p \in Alive : p = child \/ orphan[p]

\* Whatever died or hung, a service that works comes back under a watchdog, unless one
\* that outlived its watchdog keeps the lock and nothing of the code ends it; and a
\* process that is stuck is given up, unless another one may answer for it.
Supervised == child # None /\ st[child] = "up" /\ mode[child] = "ok"
Leftover   == ~Guardian /\ ~Takeover /\ \E p \in Alive : orphan[p]
RunsSupervised ==
  /\ []<>(Supervised \/ Leftover)
  /\ \A p \in Pids :
       (child = p /\ mode[p] # "ok" /\ kind # "plc") ~> (child # p \/ mode[p] = "ok")

\* A service that is stuck and does not recover is replaced.
HungReplaced ==
  \A p \in Pids : (st[p] = "up" /\ mode[p] # "ok") ~> (st[p] # "up" \/ mode[p] = "ok")
=============================================================================
