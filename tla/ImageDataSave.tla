--------------------------- MODULE ImageDataSave ---------------------------
(***************************************************************************)
(* The per-camera save worker of the capture service                       *)
(* (app/CapTrue/ImageDataSave.py).                                         *)
(*                                                                         *)
(* Actors: the thread delivering coil triggers (trigger_init/trigger_in),  *)
(* the 3D and the 2D capture threads calling put(), the thread calling     *)
(* stop(), the worker running run(), and the watchdog that may kill the    *)
(* process, after which a new process starts on the same disk.             *)
(*                                                                         *)
(* A frame is identified by coil, kind and reserved index; pixels and file *)
(* contents are abstracted away.  Statistics (dropped_buffers, timestamps, *)
(* created_files, log throttling) are left out.                            *)
(***************************************************************************)
EXTENDS Integers, FiniteSets, Sequences, Functions

CONSTANTS
  Coils,          \* coil ids
  QueueMax,       \* Queue(maxsize=30)
  MaxSaveIndex,   \* CAPTURE_MAX_SAVE_INDEX
  CacheSize,      \* CAPTURE_INDEX_CACHE_SIZE
  MaxBytes,       \* CAPTURE_SAVE_QUEUE_MAX_BYTES, 0 disables the budget
  FrameBytes,     \* _buffer_nbytes of a frame of each kind
  AreaSkip,       \* DaHengBuffer.if_save_index: lower indices are not stored
  RawFiles,       \* should_store_capture_raw_files()
  IndexBound,     \* model bound: no index at or above it is reserved
  Scenarios,      \* each a set of what may happen in one behaviour: "disk" (a file
                  \* write fails), "restart" (the process is killed), "stop"
                  \* (stop() is called)
  None            \* Python's None

Kinds    == {"sick", "area"}
Index    == 0..IndexBound
Frame    == [coil : Coils, kind : Kinds, idx : Index]
Folders  == {"json", "3d", "2d", "area"}
File     == [coil : Coils, folder : Folders, idx : Index]
Job      == [frame : Frame, todo : Seq(Folders \cup {"db"})]
Sentinel == None

ASSUME SaveAssumption ==
  /\ IsFiniteSet(Coils)
  /\ None \notin Coils \cup Kinds \cup {"stop"} \cup Frame \cup Job
  /\ QueueMax \in Nat \ {0}
  /\ MaxSaveIndex \in Nat
  /\ CacheSize \in Nat \ {0}
  /\ MaxBytes \in Nat
  /\ FrameBytes \in [Kinds -> Nat]
  /\ AreaSkip \in Nat
  /\ RawFiles \in BOOLEAN
  /\ IndexBound \in Nat
  /\ Scenarios \subseteq SUBSET {"disk", "restart", "stop"}

VARIABLES
  events,       \* the scenario of the behaviour, chosen at its start
  active,       \* active_coil_id
  saveIndex,    \* save_index ("sick") and save_index_2d ("area")
  highWater,    \* capture_index_high_water: next index per coil and kind
  age,          \* position of a coil in the OrderedDict, 0 = moved to the end
                \* last, CacheSize = not in the dictionary
  queue,        \* self.queue
  queuedBytes,  \* self.queued_bytes
  running,      \* self.running
  stopEnqueued, \* self.stop_signal_enqueued
  stopLock,     \* holder of self.stop_lock
  put,          \* the put() call in progress of each capture thread
  stopper,      \* where the stop() call is
  job,          \* the frame the worker saves and the parts still to write
  worker,       \* "run" until the sentinel is taken, then "done"
  disk          \* files of the camera's save folder

indexVars == <<active, saveIndex, highWater, age>>
stopVars  == <<running, stopEnqueued, stopLock, stopper>>
vars == <<events, indexVars, queue, queuedBytes, stopVars, put, job, worker,
          disk>>

-----------------------------------------------------------------------------
\* The folders whose file names _next_saved_index scans hold frames of one kind.
KindOf(folder) == IF folder = "area" THEN "area" ELSE "sick"

\* max(indices, default=-1) + 1: the least index above every file of the coil.
NextSavedIndex(c, k) ==
  LET free == {n \in 0..(IndexBound + 1) :
                 \A g \in disk : g.coil = c /\ KindOf(g.folder) = k => g.idx < n}
  IN  CHOOSE n \in free : \A m \in free : n <= m

Larger(a, b) == IF a >= b THEN a ELSE b

Cached(c) == age[c] < CacheSize

\* _store_high_water: c moves to the most recent end; the coils that were more
\* recent than c move back by one, and the one pushed to CacheSize is evicted.
StoreHighWater(c, value) ==
  /\ highWater' = [highWater EXCEPT ![c] = value]
  /\ age' = [d \in Coils |-> IF d = c THEN 0
                             ELSE IF age[d] < age[c] THEN age[d] + 1
                             ELSE age[d]]

\* The folders a frame is stored under, in the order save() writes them, and
\* the database row last.
Parts(f) ==
  IF f.kind = "sick"
  THEN IF RawFiles THEN <<"json", "3d", "2d", "db">> ELSE <<"2d", "db">>
  ELSE IF f.idx < AreaSkip THEN <<>> ELSE <<"area">>

FileOf(f, folder) == [coil |-> f.coil, folder |-> folder, idx |-> f.idx]
-----------------------------------------------------------------------------
Init ==
  /\ events \in Scenarios
  /\ active = None
  /\ saveIndex = [k \in Kinds |-> 0]
  /\ highWater = [c \in Coils |-> [k \in Kinds |-> 0]]
  /\ age = [c \in Coils |-> CacheSize]
  /\ queue = <<>>
  /\ queuedBytes = 0
  /\ running = TRUE
  /\ stopEnqueued = FALSE
  /\ stopLock = None
  /\ put = [k \in Kinds |-> None]
  /\ stopper = "idle"
  /\ job = None
  /\ worker = "run"
  /\ disk = {}

\* The indices _resume_capture_indices continues from: never below what was
\* reserved in this process nor below what is on disk.
ResumeFromMemory(c) == IF Cached(c) THEN highWater[c] ELSE [k \in Kinds |-> 0]
ResumeIndices(c) ==
  LET known == IF Cached(c) THEN highWater[c] ELSE [k \in Kinds |-> 0]
  IN  [k \in Kinds |-> Larger(known[k], NextSavedIndex(c, k))]

\* trigger_init and trigger_in: _resume_capture_indices under index_lock.
Trigger(c) ==
  LET next == ResumeIndices(c)
  IN  /\ saveIndex' = next
      /\ StoreHighWater(c, next)
      /\ active' = c
      /\ UNCHANGED <<events, queue, queuedBytes, stopVars, put, job, worker, disk>>

\* The indices _reserve_capture_index starts from.
HighWaterOfDisk(c) == [k \in Kinds |-> NextSavedIndex(c, k)]
HighWaterOf(c) ==
  IF Cached(c) THEN highWater[c]
  ELSE [k \in Kinds |-> NextSavedIndex(c, k)]

\* Only frames of the active coil move save_index and save_index_2d.
ActiveIndex(c, next) == IF c = active THEN next ELSE saveIndex

\* put(): _reserve_capture_index under index_lock, then the index limit.
Reserve(k, c) ==
  LET next == HighWaterOf(c)
      idx  == next[k]
      new  == [next EXCEPT ![k] = idx + 1]
  IN  /\ put[k] = None
      /\ idx < IndexBound
      /\ StoreHighWater(c, new)
      /\ saveIndex' = ActiveIndex(c, new)
      /\ put' = IF idx < MaxSaveIndex
                THEN [put EXCEPT ![k] = [coil |-> c, kind |-> k, idx |-> idx]]
                ELSE put
      /\ UNCHANGED <<events, active, queue, queuedBytes, stopVars, job, worker, disk>>

OverBudget(k) ==
  /\ MaxBytes > 0 /\ FrameBytes[k] > 0
  /\ queuedBytes > 0 /\ queuedBytes + FrameBytes[k] > MaxBytes

\* _queue_buffer takes stop_lock and refuses the frame when the worker is
\* stopping or the byte budget is spent.
QueueBufferRefuse(k) ==
  /\ put[k] # None /\ stopLock = None
  /\ ~running \/ OverBudget(k)
  /\ put' = [put EXCEPT ![k] = None]
  /\ UNCHANGED <<events, indexVars, queue, queuedBytes, stopVars, job, worker,
                 disk>>

\* _queue_buffer reserves the bytes and, holding stop_lock, starts queue.put.
QueueBufferBeginStopped(k) ==
  /\ put[k] # None /\ stopLock = None
  /\ ~OverBudget(k)
  /\ queuedBytes' = queuedBytes + FrameBytes[k]
  /\ stopLock' = k
  /\ UNCHANGED <<events, indexVars, queue, running, stopEnqueued, stopper, put,
                 job, worker, disk>>
QueueBufferBegin(k) ==
  /\ put[k] # None /\ stopLock = None
  /\ running /\ ~OverBudget(k)
  /\ queuedBytes' = queuedBytes + FrameBytes[k]
  /\ stopLock' = k
  /\ UNCHANGED <<events, indexVars, queue, running, stopEnqueued, stopper, put,
                 job, worker, disk>>

QueueBufferAccept(k) ==
  /\ stopLock = k
  /\ Len(queue) < QueueMax
  /\ queue' = Append(queue, put[k])
  /\ put' = [put EXCEPT ![k] = None]
  /\ stopLock' = None
  /\ UNCHANGED <<events, indexVars, queuedBytes, running, stopEnqueued, stopper,
                 job, worker, disk>>

\* _release_queue_memory
ReleaseQueueMemory(n) ==
  queuedBytes' = IF queuedBytes >= n THEN queuedBytes - n ELSE 0

\* queue.put timed out with queue.Full.
QueueBufferFullKeepBytes(k) ==
  /\ stopLock = k
  /\ Len(queue) = QueueMax
  /\ put' = [put EXCEPT ![k] = None]
  /\ stopLock' = None
  /\ UNCHANGED <<events, indexVars, queue, queuedBytes, running, stopEnqueued,
                 stopper, job, worker, disk>>
QueueBufferFull(k) ==
  /\ stopLock = k
  /\ Len(queue) = QueueMax
  /\ ReleaseQueueMemory(FrameBytes[k])
  /\ put' = [put EXCEPT ![k] = None]
  /\ stopLock' = None
  /\ UNCHANGED <<events, indexVars, queue, running, stopEnqueued, stopper, job,
                 worker, disk>>

\* stop() enters: the flag is cleared at once; a second call with the sentinel
\* already queued returns.
StopBegin ==
  /\ "stop" \in events
  /\ stopper = "idle" /\ stopLock = None
  /\ running' = FALSE
  /\ IF stopEnqueued THEN UNCHANGED <<stopLock, stopper>>
                     ELSE stopLock' = "stop" /\ stopper' = "put"
  /\ UNCHANGED <<events, indexVars, queue, queuedBytes, stopEnqueued, put, job,
                 worker, disk>>

StopEnqueue ==
  /\ stopper = "put"
  /\ Len(queue) < QueueMax
  /\ queue' = Append(queue, Sentinel)
  /\ stopEnqueued' = TRUE
  /\ stopper' = "idle" /\ stopLock' = None
  /\ UNCHANGED <<events, indexVars, queuedBytes, running, put, job, worker,
                 disk>>

\* queue.put(None) raised Full ...
StopFullMarked ==
  /\ stopper = "put"
  /\ Len(queue) = QueueMax
  /\ stopper' = "full" /\ stopEnqueued' = TRUE
  /\ UNCHANGED <<events, indexVars, queue, queuedBytes, running, stopLock, put,
                 job, worker, disk>>
StopFull ==
  /\ stopper = "put"
  /\ Len(queue) = QueueMax
  /\ stopper' = "full"
  /\ UNCHANGED <<events, indexVars, queue, queuedBytes, running, stopEnqueued,
                 stopLock, put, job, worker, disk>>

\* ... and the loop tries again, or finds the deadline passed and gives up.
StopRetry ==
  /\ stopper = "full"
  /\ stopper' = "put"
  /\ UNCHANGED <<events, indexVars, queue, queuedBytes, running, stopEnqueued,
                 stopLock, put, job, worker, disk>>

StopTimeout ==
  /\ stopper = "full"
  /\ stopper' = "idle" /\ stopLock' = None
  /\ UNCHANGED <<events, indexVars, queue, queuedBytes, running, stopEnqueued,
                 put, job, worker, disk>>

-----------------------------------------------------------------------------
\* run(): the worker takes a frame, or the sentinel and ends.
WorkerGet ==
  /\ worker = "run" /\ job = None /\ queue # <<>>
  /\ queue' = Tail(queue)
  /\ IF Head(queue) = Sentinel
     THEN /\ worker' = "done" /\ running' = FALSE
          /\ UNCHANGED job
     ELSE /\ job' = [frame |-> Head(queue), todo |-> Parts(Head(queue))]
          /\ UNCHANGED <<worker, running>>
  /\ UNCHANGED <<events, indexVars, queuedBytes, stopEnqueued, stopLock,
                 stopper, put, disk>>

\* save(): one part is attempted.  Every part has its own try/except, so a
\* failure moves on to the next one; the database row may always fail.
SavePart ==
  /\ job # None /\ job.todo # <<>>
  /\ LET part == Head(job.todo)
         file == FileOf(job.frame, part)
     IN  \/ disk' = IF part = "db" THEN disk ELSE disk \cup {file}
         \/ "disk" \in events /\ disk' = disk
  /\ job' = [frame |-> job.frame, todo |-> Tail(job.todo)]
  /\ UNCHANGED <<events, indexVars, queue, queuedBytes, stopVars, put, worker>>

\* The finally clause of run(): the frame's bytes are given back.
SaveEnd ==
  /\ job # None /\ job.todo = <<>>
  /\ ReleaseQueueMemory(FrameBytes[job.frame.kind])
  /\ job' = None
  /\ UNCHANGED <<events, indexVars, queue, stopVars, put, worker, disk>>

\* The process is killed and started again: only the disk survives.
Restart ==
  /\ "restart" \in events
  /\ active' = None
  /\ saveIndex' = [k \in Kinds |-> 0]
  /\ highWater' = [c \in Coils |-> [k \in Kinds |-> 0]]
  /\ age' = [c \in Coils |-> CacheSize]
  /\ queue' = <<>> /\ queuedBytes' = 0
  /\ running' = TRUE /\ stopEnqueued' = FALSE
  /\ stopLock' = None /\ stopper' = "idle"
  /\ put' = [k \in Kinds |-> None]
  /\ job' = None /\ worker' = "run"
  /\ UNCHANGED <<events, disk>>

Worker == WorkerGet \/ SavePart \/ SaveEnd

Next ==
  \/ \E c \in Coils : Trigger(c)
  \/ \E k \in Kinds, c \in Coils : Reserve(k, c)
  \/ \E k \in Kinds :
        \/ QueueBufferRefuse(k) \/ QueueBufferBegin(k)
        \/ QueueBufferAccept(k) \/ QueueBufferFull(k)
  \/ StopBegin \/ StopEnqueue \/ StopFull \/ StopRetry \/ StopTimeout
  \/ Worker
  \/ Restart

Spec == Init /\ [][Next]_vars

\* The worker thread keeps running: every file or database call it makes
\* returns or raises.
FairSpec == Spec /\ WF_vars(Worker)

-----------------------------------------------------------------------------
Held(k)   == {put[k]} \ {None}
InQueue   == {queue[i] : i \in DOMAIN queue} \ {Sentinel}
InJob     == IF job = None THEN {} ELSE {job.frame}
Pending   == InQueue \cup InJob \cup UNION {Held(k) : k \in Kinds}
Stored    == {[coil |-> g.coil, kind |-> KindOf(g.folder), idx |-> g.idx] :
                g \in disk}

TypeOK ==
  /\ active \in Coils \cup {None}
  /\ saveIndex \in [Kinds -> Nat]
  /\ highWater \in [Coils -> [Kinds -> Nat]]
  /\ age \in [Coils -> 0..CacheSize]
  /\ queue \in Seq(Frame \cup {Sentinel})
  /\ Len(queue) <= QueueMax
  /\ queuedBytes \in Nat
  /\ running \in BOOLEAN /\ stopEnqueued \in BOOLEAN
  /\ stopLock \in Kinds \cup {"stop", None}
  /\ put \in [Kinds -> Frame \cup {None}]
  /\ stopper \in {"idle", "put", "full"}
  /\ job \in Job \cup {None}
  /\ worker \in {"run", "done"}
  /\ disk \subseteq File

\* "resume capture without overwriting existing frames" (ImageDataSave.py:177):
\* no two frames on their way to the disk carry the same coil, kind and index,
\* and no file a frame is going to write exists already.  It must survive coil
\* switches, late frames of an earlier coil, failed writes and restarts.
NoOverwrite ==
  /\ \A i, j \in DOMAIN queue : queue[i] = queue[j] => i = j
  /\ InQueue \cap InJob = {}
  /\ \A k \in Kinds : Held(k) \cap (InQueue \cup InJob) = {}
  /\ \A f \in Pending \ InJob : f \notin Stored
  /\ job # None =>
       \A i \in DOMAIN job.todo : FileOf(job.frame, job.todo[i]) \notin disk

\* The byte budget is exact: queued_bytes is the size of the frames in the
\* queue, of the one being saved and of the one being put; the max(..., 0) of
\* _release_queue_memory never hides a double release.
BytesExact ==
  LET count(k) == Cardinality({i \in DOMAIN queue : queue[i] # Sentinel
                                                  /\ queue[i].kind = k})
                  + (IF job # None /\ job.frame.kind = k THEN 1 ELSE 0)
                  + (IF stopLock = k THEN 1 ELSE 0)
  IN  queuedBytes = FrameBytes["sick"] * count("sick")
                    + FrameBytes["area"] * count("area")

\* stop() and put() racing on stop_lock: the sentinel is queued once, behind
\* every accepted frame, and the worker leaves nothing behind when it exits.
NothingBehindSentinel ==
  /\ \A i \in DOMAIN queue : queue[i] = Sentinel => i = Len(queue) /\ stopEnqueued
  /\ worker = "done" => queue = <<>> /\ job = None /\ stopEnqueued
  /\ stopEnqueued => ~running

\* Why the sentinel comes last: whoever holds stop_lock decides alone.
StopInv ==
  /\ stopper # "idle" <=> stopLock = "stop"
  /\ stopper # "idle" => ~stopEnqueued /\ ~running
  /\ \A k \in Kinds : stopLock = k => running /\ ~stopEnqueued /\ put[k] # None
  /\ \A k \in Kinds : put[k] # None => put[k].kind = k
  /\ NothingBehindSentinel

\* Why no index is reused: the next index of a coil lies above its frames on their
\* way, and above its files while the dictionary has it ...
IndexInv ==
  /\ \A f \in Pending : f.idx < highWater[f.coil][f.kind]
  /\ \A g \in disk : Cached(g.coil) => g.idx < highWater[g.coil][KindOf(g.folder)]
  /\ job # None =>
       /\ \A i, j \in DOMAIN job.todo : job.todo[i] = job.todo[j] => i = j
       /\ \A i \in DOMAIN job.todo :
            job.todo[i] # "db" => KindOf(job.todo[i]) = job.frame.kind

\* ... as long as no coil with a frame on its way is evicted.
PendingCached == \A f \in Pending : Cached(f.coil)

\* Once stop() has queued its sentinel the worker drains the queue and ends.
StopDrains ==
  stopEnqueued /\ "restart" \notin events ~> (worker = "done" /\ queue = <<>>)

\* The save worker implements the write-once frame store.
Store == INSTANCE FrameStore
           WITH pending <- Pending, stored <- Stored
RefinesFrameStore == Store!Spec

=============================================================================
