----------------------------- MODULE ImageSaver -----------------------------
(***************************************************************************)
(* The asynchronous image saver of the 3D algorithm process                *)
(* (app/algorithm_runtime/SplicingService/ImageSaver.py): producers queue  *)
(* save tasks, workers write them and acknowledge, a collector thread      *)
(* drains the acknowledgements, flush() waits for the tasks queued before  *)
(* it and join() shuts everything down.                                    *)
(*                                                                         *)
(* A task is its number; image data, paths and messages are left out.      *)
(* The collector's get and its update under the lock are one step.         *)
(***************************************************************************)
EXTENDS Integers, FiniteSets, Sequences

CONSTANTS
  Adders,       \* threads calling add()
  Workers,      \* the save workers (processes or threads)
  MaxTasks,     \* model bound: task numbers 0..MaxTasks-1
  QueueMax,     \* ImageSaverQueueSize
  AckMax,       \* ack_queue_size
  FailureMax,   \* MAX_FAILURE_RECORDS
  SaverScenarios  \* each a set of what may happen in one behaviour: "fail" (a
                  \* save raises), "kill" (a worker process dies), "collector"
                  \* (the collector's get raises), "join"

ASSUME SaverAssumption ==
  /\ MaxTasks \in Nat /\ QueueMax \in Nat \ {0} /\ AckMax \in Nat \ {0}
  /\ FailureMax \in Nat
  /\ IsFiniteSet(Workers)
  /\ SaverScenarios \subseteq SUBSET {"fail", "kill", "collector", "join"}

Tasks == 0..(MaxTasks - 1)
Stop  == -1                       \* the None that ends a worker
Ack   == [task : Tasks, ok : BOOLEAN]

VARIABLES
  saverEvents, \* the scenario of the behaviour, chosen at its start
  closed,      \* _closed
  nextId,      \* _next_task_id
  pending,     \* _pending_task_ids
  failed,      \* the keys of _failed_task_ids
  overflow,    \* the tasks counted by _failed_task_overflow
  queue,       \* self.queue
  ackQueue,    \* self.ack_queue
  ackFailure,  \* _ack_failure_event
  collector,   \* _ack_thread: "run" or "dead"
  adder,       \* each _put_save_task call: "idle", "checked", "put", "full"
  adderTask,   \* the number it reserved
  worker,      \* "idle", "save", "ok" or "error" (to acknowledge), "done", "dead"
  workerTask,  \* the task it took
  readerLost,  \* a killed worker holds the reader lock of self.queue
  flusher,     \* who holds _flush_lock: "none", "caller" or "join"
  before,      \* flush_before_task_id
  joiner,      \* join(): "idle", "flush", "send", "wait", "done"
  stopsSent,   \* sent_stop_count
  accepted,    \* history: tasks whose add() returned True
  saved,       \* history: tasks written without error
  tried,       \* history: tasks a worker finished with, written or failed
  reported,    \* history: failures a flush() answered with False
  okBefore,    \* history: flush_before_task_id of the last flush() that was True
  joinClean    \* history: join()'s flush found nothing left to wait for

taskVars  == <<nextId, pending, failed, overflow>>
ackVars   == <<ackQueue, ackFailure, collector>>
adderVars == <<adder, adderTask>>
workVars  == <<worker, workerTask, readerLost, saved, tried>>
flushVars == <<flusher, before, reported, okBefore>>
joinVars  == <<closed, joiner, stopsSent, joinClean>>
saverVars == <<saverEvents, taskVars, queue, ackVars, adderVars, workVars,
               flushVars, joinVars, accepted>>

SaverInit ==
  /\ saverEvents \in SaverScenarios
  /\ nextId = 0 /\ pending = {} /\ failed = {} /\ overflow = {}
  /\ queue = <<>> /\ ackQueue = <<>> /\ ackFailure = FALSE /\ collector = "run"
  /\ adder = [a \in Adders |-> "idle"] /\ adderTask = [a \in Adders |-> 0]
  /\ worker = [w \in Workers |-> "idle"] /\ workerTask = [w \in Workers |-> 0]
  /\ readerLost = FALSE /\ saved = {} /\ tried = {}
  /\ flusher = "none" /\ before = 0 /\ reported = {} /\ okBefore = 0
  /\ closed = FALSE /\ joiner = "idle" /\ stopsSent = 0 /\ joinClean = FALSE
  /\ accepted = {}

-----------------------------------------------------------------------------
\* _put_save_task.  The collector's health is read before the lock is taken.
AddCheck(a) ==
  /\ adder[a] = "idle"
  /\ ~ackFailure /\ collector = "run"
  /\ adder' = [adder EXCEPT ![a] = "checked"]
  /\ UNCHANGED <<saverEvents, taskVars, queue, ackVars, adderTask, workVars,
                 flushVars, joinVars, accepted>>

AddRefused(a) ==
  /\ adder[a] = "checked" /\ closed
  /\ adder' = [adder EXCEPT ![a] = "idle"]
  /\ UNCHANGED <<saverEvents, taskVars, queue, ackVars, adderTask, workVars,
                 flushVars, joinVars, accepted>>

AddReserve(a) ==
  /\ adder[a] = "checked" /\ ~closed /\ nextId < MaxTasks
  /\ adderTask' = [adderTask EXCEPT ![a] = nextId]
  /\ nextId' = nextId + 1
  /\ pending' = pending \cup {nextId}
  /\ adder' = [adder EXCEPT ![a] = "put"]
  /\ UNCHANGED <<saverEvents, failed, overflow, queue, ackVars, workVars,
                 flushVars, joinVars, accepted>>

AddPut(a) ==
  /\ adder[a] = "put" /\ Len(queue) < QueueMax
  /\ queue' = Append(queue, adderTask[a])
  /\ accepted' = accepted \cup {adderTask[a]}
  /\ adder' = [adder EXCEPT ![a] = "idle"]
  /\ UNCHANGED <<saverEvents, taskVars, ackVars, adderTask, workVars,
                 flushVars, joinVars>>

\* queue.put timed out with Full ...
AddFull(a) ==
  /\ adder[a] = "put" /\ Len(queue) = QueueMax
  /\ adder' = [adder EXCEPT ![a] = "full"]
  /\ UNCHANGED <<saverEvents, taskVars, queue, ackVars, adderTask, workVars,
                 flushVars, joinVars, accepted>>

\* ... and the number is given up again.
AddDiscard(a) ==
  /\ adder[a] = "full"
  /\ pending' = pending \ {adderTask[a]}
  /\ adder' = [adder EXCEPT ![a] = "idle"]
  /\ UNCHANGED <<saverEvents, nextId, failed, overflow, queue, ackVars,
                 adderTask, workVars, flushVars, joinVars, accepted>>

-----------------------------------------------------------------------------
\* _save_images.  In process mode queue.get() waits under the queue's reader lock.
WorkerGet(w) ==
  /\ worker[w] = "idle" /\ queue # <<>> /\ ~readerLost
  /\ queue' = Tail(queue)
  /\ IF Head(queue) = Stop
     THEN worker' = [worker EXCEPT ![w] = "done"] /\ UNCHANGED workerTask
     ELSE /\ worker' = [worker EXCEPT ![w] = "save"]
          /\ workerTask' = [workerTask EXCEPT ![w] = Head(queue)]
  /\ UNCHANGED <<saverEvents, taskVars, ackVars, adderVars, readerLost, saved, tried,
                 flushVars, joinVars, accepted>>

WorkerSave(w) ==
  /\ worker[w] = "save"
  /\ \/ /\ worker' = [worker EXCEPT ![w] = "ok"]
        /\ saved' = saved \cup {workerTask[w]}
     \/ /\ "fail" \in saverEvents
        /\ worker' = [worker EXCEPT ![w] = "error"]
        /\ saved' = saved
  /\ tried' = tried \cup {workerTask[w]}
  /\ UNCHANGED <<saverEvents, taskVars, queue, ackVars, adderVars, workerTask,
                 readerLost, flushVars, joinVars, accepted>>

\* ack_queue.put((task_id, error)), or Full after the same timeout.
AckOf(w) == [task |-> workerTask[w], ok |-> worker[w] = "ok"]

WorkerAckBlocking(w) ==
  /\ worker[w] \in {"ok", "error"}
  /\ Len(ackQueue) < AckMax
  /\ ackQueue' = Append(ackQueue, AckOf(w))
  /\ worker' = [worker EXCEPT ![w] = "idle"]
  /\ UNCHANGED <<saverEvents, taskVars, queue, ackFailure, collector,
                 adderVars, workerTask, readerLost, saved, tried, flushVars,
                 joinVars, accepted>>
WorkerAck(w) ==
  /\ worker[w] \in {"ok", "error"}
  /\ \/ /\ Len(ackQueue) < AckMax
        /\ ackQueue' = Append(ackQueue, AckOf(w))
        /\ UNCHANGED ackFailure
     \/ /\ Len(ackQueue) = AckMax
        /\ ackFailure' = TRUE
        /\ UNCHANGED ackQueue
  /\ worker' = [worker EXCEPT ![w] = "idle"]
  /\ UNCHANGED <<saverEvents, taskVars, queue, collector, adderVars, workerTask,
                 readerLost, saved, tried, flushVars, joinVars, accepted>>

\* A worker process is killed (out of memory, or terminate() in _join).  One that
\* is inside queue.get(), with or without a task, never gives its lock back.
WorkerKilled(w) ==
  /\ "kill" \in saverEvents
  /\ worker[w] \notin {"done", "dead"}
  /\ worker' = [worker EXCEPT ![w] = "dead"]
  /\ \/ UNCHANGED readerLost
     \/ worker[w] \in {"idle", "save"} /\ readerLost' = TRUE
  /\ UNCHANGED <<saverEvents, taskVars, queue, ackVars, adderVars, workerTask,
                 saved, tried, flushVars, joinVars, accepted>>

-----------------------------------------------------------------------------
\* _collect_acknowledgements
CollectAck ==
  /\ collector = "run" /\ ackQueue # <<>>
  /\ LET ack == Head(ackQueue)
     IN  /\ pending' = pending \ {ack.task}
         /\ IF ack.ok THEN UNCHANGED <<failed, overflow>>
            ELSE IF Cardinality(failed) < FailureMax
            THEN failed' = failed \cup {ack.task} /\ UNCHANGED overflow
            ELSE overflow' = overflow \cup {ack.task} /\ UNCHANGED failed
  /\ ackQueue' = Tail(ackQueue)
  /\ UNCHANGED <<saverEvents, nextId, queue, ackFailure, collector, adderVars,
                 workVars, flushVars, joinVars, accepted>>

CollectorFails ==
  /\ "collector" \in saverEvents /\ collector = "run"
  /\ collector' = "dead"
  /\ UNCHANGED <<saverEvents, taskVars, queue, ackQueue, ackFailure, adderVars,
                 workVars, flushVars, joinVars, accepted>>

-----------------------------------------------------------------------------
\* flush(), called by the pipeline or by join().
FlushBegin(f) ==
  /\ flusher = "none"
  /\ f = "join" => joiner = "flush"
  /\ flusher' = f
  /\ before' = nextId
  /\ UNCHANGED <<saverEvents, taskVars, queue, ackVars, adderVars, workVars,
                 reported, okBefore, joinVars, accepted>>

NoWaiting  == {}
WaitingFor == {t \in pending : t < before}

\* flush() returns to join(), which goes on whatever the answer was.
BackToJoin(clean) ==
  /\ flusher' = "none"
  /\ IF flusher = "join"
     THEN joiner' = "send" /\ joinClean' = clean
     ELSE UNCHANGED <<joiner, joinClean>>
  /\ UNCHANGED <<closed, stopsSent>>

\* Nothing is left to wait for: True, or False once with the failures.
FlushReturn ==
  /\ flusher # "none" /\ WaitingFor = {}
  /\ LET failures == {t \in failed : t < before}
     IN  /\ failed' = failed \ failures
         /\ overflow' = {}
         /\ reported' = reported \cup failures \cup overflow
         /\ okBefore' = IF failures = {} /\ overflow = {} THEN before ELSE okBefore
  /\ BackToJoin(TRUE)
  /\ UNCHANGED <<saverEvents, nextId, pending, queue, ackVars, adderVars,
                 workVars, before, accepted>>

\* False: the collector is unavailable, or the deadline passed.
FlushGivesUp ==
  /\ flusher # "none" /\ WaitingFor # {}
  /\ BackToJoin(FALSE)
  /\ UNCHANGED <<saverEvents, taskVars, queue, ackVars, adderVars, workVars,
                 before, reported, okBefore, accepted>>

-----------------------------------------------------------------------------
\* join(): closes the saver, flushes and sends one None per worker.
JoinBeginOpen ==
  /\ "join" \in saverEvents /\ joiner = "idle"
  /\ joiner' = "flush"
  /\ UNCHANGED <<saverEvents, taskVars, queue, ackVars, adderVars, workVars,
                 flushVars, closed, stopsSent, joinClean, accepted>>
JoinBegin ==
  /\ "join" \in saverEvents /\ joiner = "idle"
  /\ closed' = TRUE /\ joiner' = "flush"
  /\ UNCHANGED <<saverEvents, taskVars, queue, ackVars, adderVars, workVars,
                 flushVars, stopsSent, joinClean, accepted>>

JoinSend ==
  /\ joiner = "send" /\ stopsSent < Cardinality(Workers)
  /\ Len(queue) < QueueMax
  /\ queue' = Append(queue, Stop)
  /\ stopsSent' = stopsSent + 1
  /\ UNCHANGED <<saverEvents, taskVars, ackVars, adderVars, workVars,
                 flushVars, closed, joiner, joinClean, accepted>>

\* Every None was sent, or the queue stayed full until the deadline.
JoinSent ==
  /\ joiner = "send"
  /\ stopsSent = Cardinality(Workers) \/ Len(queue) = QueueMax
  /\ joiner' = "wait"
  /\ UNCHANGED <<saverEvents, taskVars, queue, ackVars, adderVars, workVars,
                 flushVars, closed, stopsSent, joinClean, accepted>>

\* The workers ended or were given up; the collector is stopped.
JoinEnd ==
  /\ joiner = "wait"
  /\ joiner' = "done" /\ collector' = "dead"
  /\ UNCHANGED <<saverEvents, taskVars, queue, ackQueue, ackFailure, adderVars,
                 workVars, flushVars, closed, stopsSent, joinClean, accepted>>

SaveWork(w) == WorkerGet(w) \/ WorkerSave(w) \/ WorkerAck(w)

SaverNext ==
  \/ \E a \in Adders : \/ AddCheck(a) \/ AddRefused(a) \/ AddReserve(a)
                       \/ AddPut(a) \/ AddFull(a) \/ AddDiscard(a)
  \/ \E w \in Workers : SaveWork(w) \/ WorkerKilled(w)
  \/ CollectAck \/ CollectorFails
  \/ \E f \in {"caller", "join"} : FlushBegin(f)
  \/ FlushReturn \/ FlushGivesUp
  \/ JoinBegin \/ JoinSend \/ JoinSent \/ JoinEnd

SaverSpec == SaverInit /\ [][SaverNext]_saverVars

\* The workers and the collector keep running.
SaverFairSpec ==
  /\ SaverSpec /\ WF_saverVars(CollectAck)
  /\ \A w \in Workers : WF_saverVars(SaveWork(w))

-----------------------------------------------------------------------------
SaverTypeOK ==
  /\ closed \in BOOLEAN
  /\ nextId \in 0..MaxTasks
  /\ pending \subseteq Tasks /\ failed \subseteq Tasks /\ overflow \subseteq Tasks
  /\ queue \in Seq(Tasks \cup {Stop}) /\ Len(queue) <= QueueMax
  /\ ackQueue \in Seq(Ack) /\ Len(ackQueue) <= AckMax
  /\ ackFailure \in BOOLEAN /\ collector \in {"run", "dead"}
  /\ adder \in [Adders -> {"idle", "checked", "put", "full"}]
  /\ adderTask \in [Adders -> Nat]
  /\ \A a \in Adders : adder[a] \in {"put", "full"} => adderTask[a] \in Tasks
  /\ worker \in [Workers -> {"idle", "save", "ok", "error", "done", "dead"}]
  /\ readerLost \in BOOLEAN
  /\ workerTask \in [Workers -> Nat]
  /\ \A w \in Workers : worker[w] \in {"save", "ok", "error"} => workerTask[w] \in Tasks
  /\ flusher \in {"none", "caller", "join"}
  /\ before \in 0..MaxTasks /\ okBefore \in 0..MaxTasks
  /\ joiner \in {"idle", "flush", "send", "wait", "done"}
  /\ stopsSent \in 0..Cardinality(Workers)
  /\ joinClean \in BOOLEAN
  /\ accepted \subseteq Tasks /\ saved \subseteq Tasks /\ tried \subseteq Tasks
  /\ reported \subseteq Tasks

\* "Wait until every save queued before this call has completed"
\* (ImageSaver.py:242): after a flush() that answered True, every task accepted
\* before it is on disk, unless an earlier flush() already reported its failure.
FlushComplete ==
  \A t \in accepted : t < okBefore => t \in saved \cup reported

\* Shutdown: when join()'s flush came to its end, the workers leave no accepted
\* task behind their None, even if add() raced with join().
CleanJoinLosesNothing == joinClean => accepted \subseteq tried

\* Every accepted task is eventually written or fails, also when the collector has
\* died and the acknowledgement queue is full, and also after a worker was killed in
\* the middle of a save: until join(), that takes only the task in its hands.  A
\* worker killed inside queue.get() instead ends all saving, as does the last one.
AcceptedTried ==
  \A t \in Tasks :
    t \in accepted ~> \/ t \in tried \/ closed \/ readerLost
                      \/ \E w \in Workers : worker[w] = "dead" /\ workerTask[w] = t
                      \/ \A w \in Workers : worker[w] = "dead"

=============================================================================
