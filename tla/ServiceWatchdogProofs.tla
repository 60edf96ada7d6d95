------------------------ MODULE ServiceWatchdogProofs ------------------------
(***************************************************************************)
(* For any number of processes, any threshold and any number of faults: a  *)
(* watchdog never stops a service that works, and leaves none behind.      *)
(***************************************************************************)
EXTENDS ServiceWatchdog, TLAPS

\* The types of what the invariant speaks of.
DogTypes ==
  /\ pc \in {"down", "start", "poll", "check", "terminate", "kill", "reap"}
  /\ child \in Pids \cup {None} /\ (child = None <=> pc \in {"down", "start"})
  /\ closing \in BOOLEAN
  /\ st \in [Pids -> {"dead", "boot", "wait", "up", "killed"}]
  /\ mode \in [Pids -> {"ok", "overdue", "starved"}]
  /\ orphan \in [Pids -> BOOLEAN] /\ holder \in Pids \cup {None}
  /\ hb \in [pid : Pids \cup {None}, fresh : BOOLEAN, overdue : BOOLEAN]
  /\ beaten \in SUBSET Pids /\ well \in SUBSET Pids

\* Only the holder of the service's lock is up, and writes the heartbeat.
UpIsHolder == \A p \in Pids : st[p] = "up" => holder = p

\* A process that boots has not written its heartbeat.
BootIsSilent == \A p \in Pids : st[p] \in {"boot", "wait"} => p \notin beaten

\* A process that works is up, or killed because the watchdog exits.
WellIsUp ==
  \A p \in well :
    /\ mode[p] = "ok" /\ st[p] \in {"up", "killed"}
    /\ p = child /\ pc \in {"poll", "check"} => st[p] = "up"

\* The heartbeat of a process that works is its own, fresh and in time.
FileIsCurrent ==
  child \in well /\ child \in beaten /\ pc \in {"poll", "check"} =>
    hb.pid = child /\ hb.fresh /\ ~hb.overdue

\* A process given up is no longer alive.
ReapedIsDead == pc = "reap" => child \notin Alive

DogInv ==
  /\ DogTypes /\ UpIsHolder /\ BootIsSilent /\ WellIsUp /\ FileIsCurrent
  /\ ReapedIsDead /\ NoneLeftBehind

\* The invariant holds initially: no process runs.
LEMMA DogInit == Init => DogInv
<1> SUFFICES ASSUME Init PROVE DogInv
  OBVIOUS
<1>1. hb \in [pid : Pids \cup {None}, fresh : BOOLEAN, overdue : BOOLEAN]
  BY DEF Init, NoBeat
<1>2. DogTypes
  BY <1>1 DEF Init, DogTypes
<1>3. UpIsHolder /\ BootIsSilent /\ WellIsUp /\ FileIsCurrent
  BY DEF Init, UpIsHolder, BootIsSilent, WellIsUp, FileIsCurrent
<1>4. ReapedIsDead /\ NoneLeftBehind
  BY DEF Init, ReapedIsDead, NoneLeftBehind, Alive
<1> QED
  BY <1>2, <1>3, <1>4 DEF DogInv

\* A step of the watchdog, its death or a heartbeat that gets stale keep the invariant.
LEMMA DogSteps ==
  ASSUME DogInv, Watchdog \/ Interrupt \/ WatchdogDies \/ WatchdogStarts \/ Expire
  PROVE  DogInv'
<1> USE WatchdogAssumption DEF DogInv
<1>1. CASE StartChild
  <2>1. DogTypes'
    <3>1. hb' \in [pid : Pids \cup {None}, fresh : BOOLEAN, overdue : BOOLEAN]
      <4>1. NoBeat \in [pid : Pids \cup {None}, fresh : BOOLEAN, overdue : BOOLEAN]
        BY DEF NoBeat
      <4> QED
        BY <1>1, <4>1 DEF DogTypes, StartChild
    <3>2. child' \in Pids /\ pc' = "poll" /\ beaten' \in SUBSET Pids
      BY <1>1 DEF DogTypes, StartChild
    <3> QED
      BY <1>1, <3>1, <3>2 DEF DogTypes, StartChild
  <2>2. UpIsHolder' /\ BootIsSilent' /\ ReapedIsDead' /\ NoneLeftBehind'
    BY <1>1 DEF DogTypes, UpIsHolder, BootIsSilent, ReapedIsDead, NoneLeftBehind, Alive,
               StartChild, NoBeat
  <2>3. WellIsUp' /\ FileIsCurrent'
    BY <1>1 DEF DogTypes, UpIsHolder, BootIsSilent, WellIsUp, FileIsCurrent,
               StartChild, NoBeat
  <2> QED
    BY <2>1, <2>2, <2>3
<1>2. CASE Poll
  <2>1. DogTypes'
    BY <1>2 DEF DogTypes, Poll, service
  <2>2. UpIsHolder' /\ BootIsSilent' /\ ReapedIsDead' /\ NoneLeftBehind'
    BY <1>2 DEF DogTypes, UpIsHolder, BootIsSilent, ReapedIsDead, NoneLeftBehind, Alive,
               Poll, service
  <2>3. WellIsUp' /\ FileIsCurrent'
    BY <1>2 DEF DogTypes, UpIsHolder, BootIsSilent, WellIsUp, FileIsCurrent,
               Poll, service
  <2> QED
    BY <2>1, <2>2, <2>3
<1>3. CASE GraceEnds
  <2>1. DogTypes'
    BY <1>3 DEF DogTypes, GraceEnds, service
  <2>2. UpIsHolder' /\ BootIsSilent' /\ ReapedIsDead' /\ NoneLeftBehind'
    BY <1>3 DEF DogTypes, UpIsHolder, BootIsSilent, ReapedIsDead, NoneLeftBehind, Alive,
               GraceEnds, service
  <2>3. WellIsUp' /\ FileIsCurrent'
    BY <1>3 DEF DogTypes, UpIsHolder, BootIsSilent, WellIsUp, FileIsCurrent,
               GraceEnds, service
  <2> QED
    BY <2>1, <2>2, <2>3
<1>4. CASE Check
  <2>1. DogTypes'
    BY <1>4 DEF DogTypes, Check, service
  <2>2. UpIsHolder' /\ BootIsSilent' /\ ReapedIsDead' /\ NoneLeftBehind'
    BY <1>4 DEF DogTypes, UpIsHolder, BootIsSilent, ReapedIsDead, NoneLeftBehind, Alive,
               Check, service
  <2>3. WellIsUp' /\ FileIsCurrent'
    BY <1>4 DEF DogTypes, UpIsHolder, BootIsSilent, WellIsUp, FileIsCurrent,
               Check, service
  <2> QED
    BY <2>1, <2>2, <2>3
<1>5. CASE Terminate
  <2>1. DogTypes'
    BY <1>5 DEF DogTypes, Terminate, Killed
  <2>2. UpIsHolder' /\ BootIsSilent' /\ ReapedIsDead' /\ NoneLeftBehind'
    BY <1>5 DEF DogTypes, UpIsHolder, BootIsSilent, ReapedIsDead, NoneLeftBehind, Alive,
               Terminate, Killed
  <2>3. WellIsUp' /\ FileIsCurrent'
    BY <1>5 DEF DogTypes, UpIsHolder, BootIsSilent, WellIsUp, FileIsCurrent,
               Terminate, Killed
  <2> QED
    BY <2>1, <2>2, <2>3
<1>6. CASE Kill
  <2>1. DogTypes'
    BY <1>6 DEF DogTypes, Kill, KillNow, Killed
  <2>2. UpIsHolder' /\ BootIsSilent' /\ ReapedIsDead' /\ NoneLeftBehind'
    BY <1>6 DEF DogTypes, UpIsHolder, BootIsSilent, ReapedIsDead, NoneLeftBehind, Alive,
               Kill, KillNow, Killed
  <2>3. WellIsUp' /\ FileIsCurrent'
    BY <1>6 DEF DogTypes, UpIsHolder, BootIsSilent, WellIsUp, FileIsCurrent,
               Kill, KillNow, Killed
  <2> QED
    BY <2>1, <2>2, <2>3
<1>7. CASE Reap
  <2>1. DogTypes'
    BY <1>7 DEF DogTypes, Reap, service
  <2>2. UpIsHolder' /\ BootIsSilent' /\ ReapedIsDead' /\ NoneLeftBehind'
    BY <1>7 DEF DogTypes, UpIsHolder, BootIsSilent, ReapedIsDead, NoneLeftBehind, Alive,
               Reap, service
  <2>3. WellIsUp' /\ FileIsCurrent'
    BY <1>7 DEF DogTypes, UpIsHolder, BootIsSilent, WellIsUp, FileIsCurrent,
               Reap, service
  <2> QED
    BY <2>1, <2>2, <2>3
<1>8. CASE Interrupt
  <2>1. DogTypes'
    BY <1>8 DEF DogTypes, Interrupt, service
  <2>2. UpIsHolder' /\ BootIsSilent' /\ ReapedIsDead' /\ NoneLeftBehind'
    BY <1>8 DEF DogTypes, UpIsHolder, BootIsSilent, ReapedIsDead, NoneLeftBehind, Alive,
               Interrupt, service
  <2>3. WellIsUp' /\ FileIsCurrent'
    BY <1>8 DEF DogTypes, UpIsHolder, BootIsSilent, WellIsUp, FileIsCurrent,
               Interrupt, service
  <2> QED
    BY <2>1, <2>2, <2>3
<1>9. CASE WatchdogDies
  <2>1. DogTypes'
    BY <1>9 DEF DogTypes, WatchdogDies
  <2>2. UpIsHolder' /\ BootIsSilent' /\ ReapedIsDead' /\ NoneLeftBehind'
    BY <1>9 DEF DogTypes, UpIsHolder, BootIsSilent, ReapedIsDead, NoneLeftBehind, Alive,
               WatchdogDies
  <2>3. WellIsUp' /\ FileIsCurrent'
    BY <1>9 DEF DogTypes, UpIsHolder, BootIsSilent, WellIsUp, FileIsCurrent,
               WatchdogDies
  <2> QED
    BY <2>1, <2>2, <2>3
<1>10. CASE WatchdogStarts
  <2>1. DogTypes'
    BY <1>10 DEF DogTypes, WatchdogStarts, service
  <2>2. UpIsHolder' /\ BootIsSilent' /\ ReapedIsDead' /\ NoneLeftBehind'
    BY <1>10 DEF DogTypes, UpIsHolder, BootIsSilent, ReapedIsDead, NoneLeftBehind, Alive,
               WatchdogStarts, service
  <2>3. WellIsUp' /\ FileIsCurrent'
    BY <1>10 DEF DogTypes, UpIsHolder, BootIsSilent, WellIsUp, FileIsCurrent,
               WatchdogStarts, service
  <2> QED
    BY <2>1, <2>2, <2>3
<1>11. CASE Expire
  <2>1. DogTypes'
    BY <1>11 DEF DogTypes, Expire, dog, service, Threads
  <2>2. UpIsHolder' /\ BootIsSilent' /\ ReapedIsDead' /\ NoneLeftBehind'
    BY <1>11 DEF DogTypes, UpIsHolder, BootIsSilent, ReapedIsDead, NoneLeftBehind, Alive,
               Expire, dog, service, Threads
  <2>3. WellIsUp' /\ FileIsCurrent'
    BY <1>11 DEF DogTypes, UpIsHolder, BootIsSilent, WellIsUp, FileIsCurrent,
               Expire, dog, service, Threads
  <2> QED
    BY <2>1, <2>2, <2>3
<1> QED
  BY <1>1, <1>2, <1>3, <1>4, <1>5, <1>6, <1>7, <1>8, <1>9, <1>10, <1>11 DEF Watchdog

\* A step of a service process keeps the invariant.
LEMMA ServiceSteps ==
  ASSUME DogInv, NEW p \in Pids,
         Live(p) \/ TakeOverFails(p) \/ Hang(p) \/ Starve(p) \/ Return(p) \/ Crash(p)
  PROVE  DogInv'
<1> USE WatchdogAssumption DEF DogInv
<1>1. CASE TakeLock(p)
  <2>1. DogTypes'
    BY <1>1 DEF DogTypes, TakeLock, ComeUp, MayComeUp, dog
  <2>2. UpIsHolder' /\ BootIsSilent' /\ ReapedIsDead' /\ NoneLeftBehind'
    BY <1>1 DEF DogTypes, UpIsHolder, BootIsSilent, ReapedIsDead, NoneLeftBehind, Alive,
               TakeLock, ComeUp, MayComeUp, dog
  <2>3. WellIsUp' /\ FileIsCurrent'
    BY <1>1 DEF DogTypes, UpIsHolder, BootIsSilent, WellIsUp, FileIsCurrent,
               TakeLock, ComeUp, MayComeUp, dog
  <2> QED
    BY <2>1, <2>2, <2>3
<1>2. CASE GiveWay(p)
  <2>1. DogTypes'
    BY <1>2 DEF DogTypes, GiveWay, Exit, dog
  <2>2. UpIsHolder' /\ BootIsSilent' /\ ReapedIsDead' /\ NoneLeftBehind'
    BY <1>2 DEF DogTypes, UpIsHolder, BootIsSilent, ReapedIsDead, NoneLeftBehind, Alive,
               GiveWay, Exit, dog
  <2>3. WellIsUp' /\ FileIsCurrent'
    BY <1>2 DEF DogTypes, UpIsHolder, BootIsSilent, WellIsUp, FileIsCurrent,
               GiveWay, Exit, dog
  <2> QED
    BY <2>1, <2>2, <2>3
<1>3. CASE TakeOver(p)
  <2>1. DogTypes'
    BY <1>3 DEF DogTypes, TakeOver, EndHolder, MayComeUp, dog
  <2>2. UpIsHolder' /\ BootIsSilent' /\ ReapedIsDead' /\ NoneLeftBehind'
    BY <1>3 DEF DogTypes, UpIsHolder, BootIsSilent, ReapedIsDead, NoneLeftBehind, Alive,
               TakeOver, EndHolder, MayComeUp, dog
  <2>3. WellIsUp' /\ FileIsCurrent'
    BY <1>3 DEF DogTypes, UpIsHolder, BootIsSilent, WellIsUp, FileIsCurrent,
               TakeOver, EndHolder, MayComeUp, dog
  <2> QED
    BY <2>1, <2>2, <2>3
<1>4. CASE Beat(p)
  <2>1. DogTypes'
    BY <1>4 DEF DogTypes, Beat, dog, service, Threads, Writers
  <2>2. UpIsHolder' /\ BootIsSilent' /\ ReapedIsDead' /\ NoneLeftBehind'
    BY <1>4 DEF DogTypes, UpIsHolder, BootIsSilent, ReapedIsDead, NoneLeftBehind, Alive,
               Beat, dog, service, Threads, Writers
  <2>3. WellIsUp' /\ FileIsCurrent'
    BY <1>4 DEF DogTypes, UpIsHolder, BootIsSilent, WellIsUp, FileIsCurrent,
               Beat, dog, service, Threads, Writers
  <2> QED
    BY <2>1, <2>2, <2>3
<1>5. CASE Hang(p)
  <2>1. DogTypes'
    BY <1>5 DEF DogTypes, Hang, dog
  <2>2. UpIsHolder' /\ BootIsSilent' /\ ReapedIsDead' /\ NoneLeftBehind'
    BY <1>5 DEF DogTypes, UpIsHolder, BootIsSilent, ReapedIsDead, NoneLeftBehind, Alive,
               Hang, dog
  <2>3. WellIsUp' /\ FileIsCurrent'
    BY <1>5 DEF DogTypes, UpIsHolder, BootIsSilent, WellIsUp, FileIsCurrent,
               Hang, dog
  <2> QED
    BY <2>1, <2>2, <2>3
<1>6. CASE Starve(p)
  <2>1. DogTypes'
    BY <1>6 DEF DogTypes, Starve, dog
  <2>2. UpIsHolder' /\ BootIsSilent' /\ ReapedIsDead' /\ NoneLeftBehind'
    BY <1>6 DEF DogTypes, UpIsHolder, BootIsSilent, ReapedIsDead, NoneLeftBehind, Alive,
               Starve, dog
  <2>3. WellIsUp' /\ FileIsCurrent'
    BY <1>6 DEF DogTypes, UpIsHolder, BootIsSilent, WellIsUp, FileIsCurrent,
               Starve, dog
  <2> QED
    BY <2>1, <2>2, <2>3
<1>7. CASE Return(p)
  <2>1. DogTypes'
    BY <1>7 DEF DogTypes, Return, dog
  <2>2. UpIsHolder' /\ BootIsSilent' /\ ReapedIsDead' /\ NoneLeftBehind'
    BY <1>7 DEF DogTypes, UpIsHolder, BootIsSilent, ReapedIsDead, NoneLeftBehind, Alive,
               Return, dog
  <2>3. WellIsUp' /\ FileIsCurrent'
    BY <1>7 DEF DogTypes, UpIsHolder, BootIsSilent, WellIsUp, FileIsCurrent,
               Return, dog
  <2> QED
    BY <2>1, <2>2, <2>3
<1>8. CASE Guard(p)
  <2>1. DogTypes'
    BY <1>8 DEF DogTypes, Guard, Exit, dog
  <2>2. UpIsHolder' /\ BootIsSilent' /\ ReapedIsDead' /\ NoneLeftBehind'
    BY <1>8 DEF DogTypes, UpIsHolder, BootIsSilent, ReapedIsDead, NoneLeftBehind, Alive,
               Guard, Exit, dog
  <2>3. WellIsUp' /\ FileIsCurrent'
    BY <1>8 DEF DogTypes, UpIsHolder, BootIsSilent, WellIsUp, FileIsCurrent,
               Guard, Exit, dog
  <2> QED
    BY <2>1, <2>2, <2>3
<1>9. CASE Crash(p)
  <2>1. DogTypes'
    BY <1>9 DEF DogTypes, Crash, Exit, dog
  <2>2. UpIsHolder' /\ BootIsSilent' /\ ReapedIsDead' /\ NoneLeftBehind'
    BY <1>9 DEF DogTypes, UpIsHolder, BootIsSilent, ReapedIsDead, NoneLeftBehind, Alive,
               Crash, Exit, dog
  <2>3. WellIsUp' /\ FileIsCurrent'
    BY <1>9 DEF DogTypes, UpIsHolder, BootIsSilent, WellIsUp, FileIsCurrent,
               Crash, Exit, dog
  <2> QED
    BY <2>1, <2>2, <2>3
<1>10. CASE Gone(p)
  <2>1. DogTypes'
    BY <1>10 DEF DogTypes, Gone, Exit, dog
  <2>2. UpIsHolder' /\ BootIsSilent' /\ ReapedIsDead' /\ NoneLeftBehind'
    BY <1>10 DEF DogTypes, UpIsHolder, BootIsSilent, ReapedIsDead, NoneLeftBehind, Alive,
               Gone, Exit, dog
  <2>3. WellIsUp' /\ FileIsCurrent'
    BY <1>10 DEF DogTypes, UpIsHolder, BootIsSilent, WellIsUp, FileIsCurrent,
               Gone, Exit, dog
  <2> QED
    BY <2>1, <2>2, <2>3
<1>11. CASE TakeOverFails(p)
  <2>1. DogTypes'
    BY <1>11 DEF DogTypes, TakeOverFails, Exit, dog
  <2>2. UpIsHolder' /\ BootIsSilent' /\ ReapedIsDead' /\ NoneLeftBehind'
    BY <1>11 DEF DogTypes, UpIsHolder, BootIsSilent, ReapedIsDead, NoneLeftBehind, Alive,
               TakeOverFails, Exit, dog
  <2>3. WellIsUp' /\ FileIsCurrent'
    BY <1>11 DEF DogTypes, UpIsHolder, BootIsSilent, WellIsUp, FileIsCurrent,
               TakeOverFails, Exit, dog
  <2> QED
    BY <2>1, <2>2, <2>3
<1> QED
  BY <1>1, <1>2, <1>3, <1>4, <1>5, <1>6, <1>7, <1>8, <1>9, <1>10, <1>11 DEF Live

\* So does every step.
LEMMA DogStep == DogInv /\ [Next]_vars => DogInv'
<1> SUFFICES ASSUME DogInv, [Next]_vars PROVE DogInv'
  OBVIOUS
<1>1. CASE Next
  BY <1>1, DogSteps, ServiceSteps DEF Next
<1>2. CASE UNCHANGED vars
  BY <1>2 DEF vars, dog, service, DogInv, DogTypes, UpIsHolder, BootIsSilent, WellIsUp,
              FileIsCurrent, ReapedIsDead, NoneLeftBehind, Alive
<1> QED
  BY <1>1, <1>2

\* The invariant holds throughout.
LEMMA DogInvariant == Spec => []DogInv
  BY DogInit, DogStep, PTL DEF Spec

\* A process the watchdog has let go of is dead, will be or outlived its watchdog:
\* stop_writer_process and stop_algorithm_process leave none running.
THEOREM NothingStrays == Spec => []NoneLeftBehind
<1>1. DogInv => NoneLeftBehind
  BY DEF DogInv
<1> QED
  BY DogInvariant, <1>1, PTL

\* No step of the supervisor decides to stop a service that came up in time and was
\* never stuck or ended by a new process.
THEOREM HealthyStays == Spec => HealthyKept
<1>1. DogInv /\ [Next]_vars =>
        [pc = "check" /\ pc' = "terminate" /\ ~closing' => child \notin well]_vars
  <2> SUFFICES ASSUME DogInv, Next, pc = "check", pc' = "terminate", ~closing', child \in well
               PROVE  FALSE
    OBVIOUS
  <2> USE DEF DogInv
  <2>1. CASE Check
    <3>1. child \in Pids /\ child \in Threads /\ st[child] = "up" /\ mode[child] = "ok"
      BY <2>1 DEF WellIsUp, Threads, DogTypes
    <3>2. Healthy
      <4>1. CASE Web
        BY <3>1, <4>1 DEF Healthy, HealthAnswer, Expected
      <4>2. CASE ~Web
        BY <2>1, <3>1, <4>2 DEF Check, FileIsCurrent, Writers, Healthy, FileHealthy
      <4> QED
        BY <4>1, <4>2
    <3> QED
      BY <2>1, <3>2 DEF Check
  <2>2. CASE StartChild \/ Poll \/ GraceEnds \/ Terminate \/ Kill \/ Reap \/ WatchdogDies
             \/ WatchdogStarts \/ Expire
    BY <2>2 DEF StartChild, Poll, GraceEnds, Terminate, Kill, Reap, WatchdogDies,
                WatchdogStarts, Expire, dog
  <2>3. CASE Interrupt
    BY <2>3 DEF Interrupt, DogTypes
  <2>4. CASE \E p \in Pids : \/ Live(p) \/ TakeOverFails(p)
                            \/ Hang(p) \/ Starve(p) \/ Return(p) \/ Crash(p)
    BY <2>4 DEF Live, TakeLock, GiveWay, TakeOver, TakeOverFails, Beat, Guard, Gone, Hang, Starve, Return,
                Crash, dog
  <2> QED
    BY <2>1, <2>2, <2>3, <2>4 DEF Next, Watchdog
<1> QED
  BY DogInvariant, <1>1, PTL DEF Spec, HealthyKept
=============================================================================
