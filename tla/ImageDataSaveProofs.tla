------------------------ MODULE ImageDataSaveProofs ------------------------
(***************************************************************************)
(* Theorems about the capture save worker, for every set of coils, queue   *)
(* length, index limit, byte budget and set of faults.                     *)
(***************************************************************************)
EXTENDS ImageDataSave, QueueLemmas, TLAPS

-----------------------------------------------------------------------------
(* What _next_saved_index and save() compute. *)

\* The index taken from the disk is a natural number above every stored index.
LEMMA NextSavedIndexBound ==
  ASSUME TypeOK, NEW c \in Coils, NEW k \in Kinds
  PROVE  /\ NextSavedIndex(c, k) \in Nat
         /\ \A g \in disk : g.coil = c /\ KindOf(g.folder) = k
                              => g.idx < NextSavedIndex(c, k)
<1> DEFINE free == {n \in 0..(IndexBound + 1) :
                 \A g \in disk : g.coil = c /\ KindOf(g.folder) = k => g.idx < n}
<1>1. IndexBound + 1 \in free
  BY SaveAssumption DEF TypeOK, File, Index
<1>2. free \subseteq Nat /\ free # {}
  <2>1. 0..(IndexBound + 1) \subseteq Nat
    OBVIOUS
  <2> QED
    BY <1>1, <2>1
<1>4. \E n \in free : \A m \in free : n <= m
  BY <1>2, LeastNatural
<1>5. NextSavedIndex(c, k) \in free
  BY <1>4 DEF NextSavedIndex
<1> QED
  BY <1>2, <1>5

\* save() writes into the known folders and the database, each once, and every
\* file it writes counts for the kind of its frame.
LEMMA PartsFacts ==
  ASSUME NEW f \in Frame
  PROVE  /\ Parts(f) \in Seq(Folders \cup {"db"})
         /\ \A i, j \in DOMAIN Parts(f) : Parts(f)[i] = Parts(f)[j] => i = j
         /\ \A i \in DOMAIN Parts(f) :
              Parts(f)[i] # "db" => KindOf(Parts(f)[i]) = f.kind
<1>1. CASE f.kind = "sick" /\ RawFiles
  <2>1. Parts(f) = <<"json", "3d", "2d", "db">>
    BY <1>1 DEF Parts
  <2> QED
    BY <1>1, <2>1 DEF Folders, KindOf
<1>2. CASE f.kind = "sick" /\ ~RawFiles
  <2>1. Parts(f) = <<"2d", "db">>
    BY <1>2 DEF Parts
  <2> QED
    BY <1>2, <2>1 DEF Folders, KindOf
<1>3. CASE f.kind = "area"
  <2>1. CASE f.idx < AreaSkip
    <3>1. Parts(f) = <<>>
      BY <1>3, <2>1 DEF Parts
    <3>2. Parts(f) \in Seq(Folders \cup {"db"}) /\ DOMAIN Parts(f) = {}
      BY <3>1, EmptyQueue
    <3> QED
      BY <3>2
  <2>2. CASE ~(f.idx < AreaSkip)
    <3>1. Parts(f) = <<"area">>
      BY <1>3, <2>2 DEF Parts
    <3> QED
      BY <1>3, <3>1 DEF Folders, KindOf
  <2> QED
    BY <2>1, <2>2
<1> QED
  BY <1>1, <1>2, <1>3 DEF Frame, Kinds

-----------------------------------------------------------------------------
(* Type correctness. *)

\* Storing natural numbers keeps the dictionary well typed.
LEMMA StoreHighWaterType ==
  ASSUME TypeOK, NEW c \in Coils, NEW value \in [Kinds -> Nat],
         StoreHighWater(c, value)
  PROVE  highWater' \in [Coils -> [Kinds -> Nat]] /\ age' \in [Coils -> 0..CacheSize]
<1>1. highWater' \in [Coils -> [Kinds -> Nat]]
  BY DEF TypeOK, StoreHighWater
<1>2. age' \in [Coils -> 0..CacheSize]
  BY SaveAssumption DEF TypeOK, StoreHighWater
<1> QED
  BY <1>1, <1>2

\* The indices the save worker resumes from, and starts a reservation from.
LEMMA StartIndicesType ==
  ASSUME TypeOK, NEW c \in Coils
  PROVE  ResumeIndices(c) \in [Kinds -> Nat] /\ HighWaterOf(c) \in [Kinds -> Nat]
BY NextSavedIndexBound DEF TypeOK, ResumeIndices, HighWaterOf, Larger

\* The queue of a new process.
LEMMA NoQueue == <<>> \in Seq(Frame \cup {Sentinel}) /\ Len(<<>>) <= QueueMax
BY EmptyQueue, SaveAssumption

\* The save worker's variables always have the types of the Python attributes,
\* and its queue never exceeds its maxsize.
THEOREM TypeCorrect == Spec => []TypeOK
<1>1. Init => TypeOK
  <2> SUFFICES ASSUME Init PROVE TypeOK
    OBVIOUS
  <2>1. queue \in Seq(Frame \cup {Sentinel}) /\ Len(queue) <= QueueMax
    BY NoQueue DEF Init
  <2>2. age \in [Coils -> 0..CacheSize]
    BY SaveAssumption DEF Init
  <2> QED
    BY <2>1, <2>2 DEF Init, TypeOK
<1>2. TypeOK /\ [Next]_vars => TypeOK'
  <2> SUFFICES ASSUME TypeOK, [Next]_vars PROVE TypeOK'
    OBVIOUS
  <2>1. ASSUME NEW c \in Coils, Trigger(c) PROVE TypeOK'
    BY <2>1, StartIndicesType, StoreHighWaterType DEF Trigger, TypeOK, stopVars
  <2>2. ASSUME NEW k \in Kinds, NEW c \in Coils, Reserve(k, c) PROVE TypeOK'
    <3> DEFINE next == HighWaterOf(c)
               new  == [next EXCEPT ![k] = next[k] + 1]
    <3>1. next \in [Kinds -> Nat] /\ next[k] \in Nat /\ new \in [Kinds -> Nat]
      BY StartIndicesType
    <3>2. highWater' \in [Coils -> [Kinds -> Nat]] /\ age' \in [Coils -> 0..CacheSize]
      BY <2>2, <3>1, StoreHighWaterType DEF Reserve
    <3>3. [coil |-> c, kind |-> k, idx |-> next[k]] \in Frame
      BY <2>2, <3>1, SaveAssumption DEF Reserve, Frame, Index
    <3>4. put' \in [Kinds -> Frame \cup {None}]
      BY <2>2, <3>3 DEF Reserve, TypeOK
    <3>5. saveIndex' \in [Kinds -> Nat]
      BY <2>2, <3>1 DEF Reserve, TypeOK, ActiveIndex
    <3> QED
      BY <2>2, <3>2, <3>4, <3>5 DEF Reserve, TypeOK, stopVars
  <2>3. ASSUME NEW k \in Kinds, QueueBufferRefuse(k) PROVE TypeOK'
    BY <2>3 DEF QueueBufferRefuse, TypeOK, stopVars, indexVars
  <2>4. ASSUME NEW k \in Kinds, QueueBufferBegin(k) PROVE TypeOK'
    BY <2>4, SaveAssumption DEF QueueBufferBegin, TypeOK, indexVars
  <2>5. ASSUME NEW k \in Kinds, QueueBufferAccept(k) PROVE TypeOK'
    BY <2>5, SaveAssumption DEF QueueBufferAccept, TypeOK, indexVars, Sentinel
  <2>6. ASSUME NEW k \in Kinds, QueueBufferFull(k) PROVE TypeOK'
    <3>1. FrameBytes[k] \in Nat
      BY SaveAssumption
    <3>2. queuedBytes' \in Nat
      BY <2>6, <3>1 DEF QueueBufferFull, TypeOK, ReleaseQueueMemory
    <3> QED
      BY <2>6, <3>2 DEF QueueBufferFull, TypeOK, indexVars
  <2>7. CASE StopBegin
    BY <2>7 DEF StopBegin, TypeOK, indexVars
  <2>8. CASE StopEnqueue
    BY <2>8, SaveAssumption DEF StopEnqueue, TypeOK, indexVars
  <2>9. CASE StopFull \/ StopRetry \/ StopTimeout
    BY <2>9 DEF StopFull, StopRetry, StopTimeout, TypeOK, indexVars
  <2>10. CASE WorkerGet
    <3>1. Tail(queue) \in Seq(Frame \cup {Sentinel}) /\ Len(Tail(queue)) <= QueueMax
          /\ Head(queue) \in Frame \cup {Sentinel}
      BY <2>10, SaveAssumption DEF WorkerGet, TypeOK
    <3>2. Head(queue) # Sentinel => Parts(Head(queue)) \in Seq(Folders \cup {"db"})
      BY <3>1, PartsFacts
    <3>3. CASE Head(queue) = Sentinel
      BY <2>10, <3>1, <3>3 DEF WorkerGet, TypeOK, indexVars
    <3>4. CASE Head(queue) # Sentinel
      <4>1. [frame |-> Head(queue), todo |-> Parts(Head(queue))]
              \in Job
        BY <3>1, <3>2, <3>4 DEF Job
      <4> QED
        BY <2>10, <3>1, <3>4, <4>1 DEF WorkerGet, TypeOK, indexVars
    <3> QED
      BY <3>3, <3>4
  <2>11. CASE SavePart
    <3>1. job \in Job
          /\ job.frame \in Frame /\ job.todo \in Seq(Folders \cup {"db"})
      BY <2>11 DEF SavePart, TypeOK, Job
    <3>2. Head(job.todo) \in Folders \cup {"db"} /\ Tail(job.todo) \in Seq(Folders \cup {"db"})
      BY <2>11, <3>1 DEF SavePart
    <3>3. Head(job.todo) # "db" => FileOf(job.frame, Head(job.todo)) \in File
      BY <3>1, <3>2 DEF FileOf, File, Frame
    <3>4. disk' \subseteq File
      BY <2>11, <3>3 DEF SavePart, TypeOK
    <3>5. job' \in Job
      BY <2>11, <3>1, <3>2 DEF SavePart, Job
    <3> QED
      BY <2>11, <3>4, <3>5 DEF SavePart, TypeOK, indexVars, stopVars
  <2>12. CASE SaveEnd
    <3>1. FrameBytes[job.frame.kind] \in Nat
      BY <2>12, SaveAssumption DEF SaveEnd, TypeOK, Job, Frame
    <3> QED
      BY <2>12, <3>1 DEF SaveEnd, TypeOK, indexVars, stopVars, ReleaseQueueMemory
  <2>13. CASE Restart
    <3>1. queue' \in Seq(Frame \cup {Sentinel}) /\ Len(queue') <= QueueMax
      BY <2>13, NoQueue DEF Restart
    <3>2. age' \in [Coils -> 0..CacheSize]
      BY <2>13, SaveAssumption DEF Restart
    <3> QED
      BY <2>13, <3>1, <3>2 DEF Restart, TypeOK
  <2>14. CASE UNCHANGED vars
    BY <2>14 DEF TypeOK, vars, indexVars, stopVars
  <2> QED
    BY <2>1, <2>2, <2>3, <2>4, <2>5, <2>6, <2>7, <2>8, <2>9, <2>10, <2>11,
       <2>12, <2>13, <2>14 DEF Next, Worker
<1> QED
  BY <1>1, <1>2, PTL DEF Spec

-----------------------------------------------------------------------------
(* The sentinel. *)

\* What the holders of stop_lock guarantee is inductive.
LEMMA StopInvariant == Spec => []StopInv
<1>1. Init => StopInv
  <2> SUFFICES ASSUME Init PROVE StopInv
    OBVIOUS
  <2>1. DOMAIN queue = {}
    BY EmptyQueue DEF Init
  <2> QED
    BY <2>1, SaveAssumption DEF Init, StopInv, NothingBehindSentinel, Kinds
<1>2. TypeOK /\ StopInv /\ [Next]_vars => StopInv'
  <2> SUFFICES ASSUME TypeOK, StopInv, [Next]_vars PROVE StopInv'
    OBVIOUS
  <2> USE SaveAssumption DEF StopInv, NothingBehindSentinel
  <2>1. ASSUME NEW c \in Coils, Trigger(c) PROVE StopInv'
    BY <2>1 DEF Trigger, stopVars
  <2>2. ASSUME NEW k \in Kinds, NEW c \in Coils, Reserve(k, c) PROVE StopInv'
    BY <2>2 DEF Reserve, stopVars, TypeOK
  <2>3. ASSUME NEW k \in Kinds, QueueBufferRefuse(k) PROVE StopInv'
    BY <2>3 DEF QueueBufferRefuse, stopVars, TypeOK
  <2>4. ASSUME NEW k \in Kinds, QueueBufferBegin(k) PROVE StopInv'
    BY <2>4 DEF QueueBufferBegin, TypeOK, Kinds
  <2>5. ASSUME NEW k \in Kinds, QueueBufferAccept(k) PROVE StopInv'
    <3>1. put[k] \in Frame /\ put[k] # Sentinel /\ ~stopEnqueued /\ running
      BY <2>5 DEF QueueBufferAccept, TypeOK, Sentinel
    <3>2. /\ DOMAIN queue = 1..Len(queue) /\ Len(queue) \in Nat
          /\ DOMAIN queue' = 1..(Len(queue) + 1)
          /\ \A i \in 1..Len(queue) : queue'[i] = queue[i]
          /\ queue'[Len(queue) + 1] = put[k]
      BY <2>5, <3>1, PutFacts DEF QueueBufferAccept, TypeOK
    <3>3. \A i \in DOMAIN queue' : queue'[i] # Sentinel
      BY <3>1, <3>2
    <3> QED
      BY <2>5, <3>1, <3>3 DEF QueueBufferAccept, TypeOK, Kinds
  <2>6. ASSUME NEW k \in Kinds, QueueBufferFull(k) PROVE StopInv'
    BY <2>6 DEF QueueBufferFull, TypeOK, Kinds
  <2>7. CASE StopBegin
    BY <2>7 DEF StopBegin, TypeOK, Kinds
  <2>8. CASE StopEnqueue
    BY <2>8, PutFacts DEF StopEnqueue, TypeOK, Kinds
  <2>9. CASE StopFull \/ StopRetry \/ StopTimeout
    BY <2>9 DEF StopFull, StopRetry, StopTimeout, TypeOK, Kinds
  <2>10. CASE WorkerGet
    <3>1. /\ Len(queue) \in Nat \ {0} /\ DOMAIN queue = 1..Len(queue)
          /\ Head(queue) = queue[1]
          /\ queue' \in Seq(Frame \cup {Sentinel}) /\ Len(queue') = Len(queue) - 1
          /\ DOMAIN queue' = 1..(Len(queue) - 1)
          /\ \A i \in 1..(Len(queue) - 1) : queue'[i] = queue[i + 1]
      BY <2>10, GetFacts DEF WorkerGet, TypeOK
    <3>2. \A i \in DOMAIN queue' : queue'[i] = Sentinel => i = Len(queue') /\ stopEnqueued
      BY <3>1
    <3>3. CASE Head(queue) = Sentinel
      <4>1. Len(queue) = 1 /\ stopEnqueued
        BY <3>1, <3>3
      <4>2. queue' = <<>>
        BY <3>1, <4>1, EmptySeq
      <4> QED
        BY <2>10, <3>2, <3>3, <4>1, <4>2 DEF WorkerGet, TypeOK, Kinds
    <3>4. CASE Head(queue) # Sentinel
      BY <2>10, <3>2, <3>4 DEF WorkerGet, TypeOK, Kinds
    <3> QED
      BY <3>3, <3>4
  <2>11. CASE SavePart
    BY <2>11 DEF SavePart, TypeOK, stopVars
  <2>12. CASE SaveEnd
    BY <2>12 DEF SaveEnd, TypeOK, stopVars
  <2>13. CASE Restart
    <3>1. DOMAIN queue' = {}
      BY <2>13, EmptyQueue DEF Restart
    <3> QED
      BY <2>13, <3>1 DEF Restart, Kinds
  <2>14. CASE UNCHANGED vars
    BY <2>14 DEF vars, indexVars, stopVars
  <2> QED
    BY <2>1, <2>2, <2>3, <2>4, <2>5, <2>6, <2>7, <2>8, <2>9, <2>10, <2>11,
       <2>12, <2>13, <2>14 DEF Next, Worker
<1> QED
  BY <1>1, <1>2, TypeCorrect, PTL DEF Spec

\* stop() and put() racing on stop_lock: the sentinel is queued once, behind
\* every accepted frame, and nothing is left when the worker exits.
THEOREM SentinelLast == Spec => []NothingBehindSentinel
<1>1. StopInv => NothingBehindSentinel
  BY DEF StopInv
<1> QED
  BY <1>1, StopInvariant, PTL

-----------------------------------------------------------------------------
(* No index is handed out twice. *)

\* What is on its way are frames.
LEMMA PendingType ==
  ASSUME TypeOK
  PROVE  Pending \subseteq Frame
<1>1. InQueue \subseteq Frame
  BY DEF TypeOK, InQueue
<1>2. InJob \subseteq Frame
  BY DEF TypeOK, InJob, Job
<1>3. \A k \in Kinds : Held(k) \subseteq Frame
  BY DEF TypeOK, Held
<1> QED
  BY <1>1, <1>2, <1>3 DEF Pending

\* Storing indices that are not below the old ones nor below the files keeps
\* every pending and stored frame below its coil's next index.
LEMMA StoreKeepsIndices ==
  ASSUME TypeOK, IndexInv, PendingCached,
         NEW c \in Coils, NEW value \in [Kinds -> Nat], StoreHighWater(c, value),
         Cached(c) => \A k \in Kinds : highWater[c][k] <= value[k],
         \A g \in disk : g.coil = c => g.idx < value[KindOf(g.folder)]
  PROVE  /\ highWater'[c] = value
         /\ \A f \in Pending : f.idx < highWater'[f.coil][f.kind]
         /\ \A g \in disk : Cached(g.coil)' => g.idx < highWater'[g.coil][KindOf(g.folder)]
<1>1. \A d \in Coils : d # c /\ Cached(d)' => Cached(d)
  BY SaveAssumption DEF StoreHighWater, TypeOK, Cached
<1>2. highWater'[c] = value /\ \A d \in Coils : d # c => highWater'[d] = highWater[d]
  BY DEF StoreHighWater, TypeOK
<1>3. ASSUME NEW f \in Pending
      PROVE  f.idx < highWater'[f.coil][f.kind]
  <2>1. f.coil \in Coils /\ f.kind \in Kinds /\ f.idx \in Nat
    BY PendingType, SaveAssumption DEF Frame, Index
  <2>2. Cached(f.coil) /\ f.idx < highWater[f.coil][f.kind]
    BY DEF IndexInv, PendingCached
  <2>3. CASE f.coil = c
    <3>1. highWater[c][f.kind] \in Nat /\ value[f.kind] \in Nat
      BY <2>1 DEF TypeOK
    <3> QED
      BY <1>2, <2>1, <2>2, <2>3, <3>1
  <2>4. CASE f.coil # c
    BY <1>2, <2>1, <2>2, <2>4
  <2> QED
    BY <2>3, <2>4
<1>4. ASSUME NEW g \in disk, Cached(g.coil)'
      PROVE  g.idx < highWater'[g.coil][KindOf(g.folder)]
  <2>1. g.coil \in Coils
    BY DEF TypeOK, File
  <2>2. CASE g.coil = c
    BY <1>2, <2>2
  <2>3. CASE g.coil # c
    BY <1>1, <1>2, <1>4, <2>1, <2>3 DEF IndexInv
  <2> QED
    BY <2>2, <2>3
<1> QED
  BY <1>2, <1>3, <1>4

\* Neither resuming a coil nor reserving a frame goes below what was reserved
\* or stored before.
LEMMA StartIndicesAbove ==
  ASSUME TypeOK, IndexInv, NEW c \in Coils
  PROVE  /\ Cached(c) => \A k \in Kinds : /\ highWater[c][k] <= ResumeIndices(c)[k]
                                          /\ highWater[c][k] = HighWaterOf(c)[k]
         /\ \A g \in disk : g.coil = c =>
              /\ g.idx < ResumeIndices(c)[KindOf(g.folder)]
              /\ g.idx < HighWaterOf(c)[KindOf(g.folder)]
<1>1. \A k \in Kinds : NextSavedIndex(c, k) \in Nat
  BY NextSavedIndexBound
<1>2. \A k \in Kinds : highWater[c][k] \in Nat
  BY DEF TypeOK
<1>3. Cached(c) => \A k \in Kinds : /\ highWater[c][k] <= ResumeIndices(c)[k]
                                    /\ highWater[c][k] = HighWaterOf(c)[k]
  BY <1>1, <1>2 DEF ResumeIndices, HighWaterOf, Larger
<1>4. ASSUME NEW g \in disk, g.coil = c
      PROVE  /\ g.idx < ResumeIndices(c)[KindOf(g.folder)]
             /\ g.idx < HighWaterOf(c)[KindOf(g.folder)]
  <2>1. KindOf(g.folder) \in Kinds /\ g.idx \in Nat
    BY SaveAssumption DEF KindOf, Kinds, TypeOK, File, Index
  <2>2. g.idx < NextSavedIndex(c, KindOf(g.folder))
    BY <1>4, <2>1, NextSavedIndexBound
  <2>3. Cached(c) => g.idx < highWater[c][KindOf(g.folder)]
    BY <1>4 DEF IndexInv
  <2> QED
    BY <1>1, <1>2, <2>1, <2>2, <2>3 DEF ResumeIndices, HighWaterOf, Larger
<1> QED
  BY <1>3, <1>4

\* Steps that leave the dictionary and the disk alone and add no pending frame.
LEMMA QuietStep ==
  ASSUME IndexInv, UNCHANGED <<highWater, age, disk>>, Pending' \subseteq Pending
  PROVE  /\ \A f \in Pending' : f.idx < highWater'[f.coil][f.kind]
         /\ \A g \in disk' : Cached(g.coil)' => g.idx < highWater'[g.coil][KindOf(g.folder)]
         /\ Stored' = Stored
<1>1. \A d : Cached(d)' <=> Cached(d)
  BY DEF Cached
<1> QED
  BY <1>1 DEF IndexInv, Stored

\* One step keeps the frames on their way distinct and off the disk.
LEMMA IndexStep ==
  ASSUME TypeOK, StopInv, PendingCached, IndexInv, NoOverwrite, [Next]_vars,
         StopInv', TypeOK'
  PROVE  IndexInv' /\ NoOverwrite'
<1> USE DEF NoOverwrite
<1>1. ASSUME NEW c \in Coils, Trigger(c) PROVE IndexInv' /\ NoOverwrite'
  <2>1. /\ \A f \in Pending : f.idx < highWater'[f.coil][f.kind]
        /\ \A g \in disk : Cached(g.coil)' => g.idx < highWater'[g.coil][KindOf(g.folder)]
    <3>1. StoreHighWater(c, ResumeIndices(c))
      BY <1>1 DEF Trigger
    <3> QED
      BY <3>1, StartIndicesType, StartIndicesAbove, StoreKeepsIndices
  <2>2. UNCHANGED <<queue, put, job, disk>>
    BY <1>1 DEF Trigger
  <2>3. /\ Pending' = Pending /\ InQueue' = InQueue /\ InJob' = InJob /\ Stored' = Stored
        /\ \A k \in Kinds : Held(k)' = Held(k)
    BY <2>2 DEF Pending, InQueue, InJob, Held, Stored
  <2> QED
    BY <2>1, <2>2, <2>3 DEF IndexInv
<1>2. ASSUME NEW k \in Kinds, NEW c \in Coils, Reserve(k, c) PROVE IndexInv' /\ NoOverwrite'
  <2> DEFINE next == HighWaterOf(c)
             new  == [next EXCEPT ![k] = next[k] + 1]
             fr   == [coil |-> c, kind |-> k, idx |-> next[k]]
  <2>1. /\ next \in [Kinds -> Nat] /\ next[k] \in Nat /\ new \in [Kinds -> Nat]
        /\ \A j \in Kinds : next[j] <= new[j] /\ next[j] \in Nat
        /\ new[k] = next[k] + 1
    BY StartIndicesType
  <2>2. Cached(c) => \A j \in Kinds : highWater[c][j] <= new[j]
    BY <2>1, StartIndicesAbove
  <2>3. \A g \in disk : g.coil = c => g.idx < new[KindOf(g.folder)]
    <3> SUFFICES ASSUME NEW g \in disk, g.coil = c PROVE g.idx < new[KindOf(g.folder)]
      OBVIOUS
    <3>1. KindOf(g.folder) \in Kinds /\ g.idx \in Nat
      BY SaveAssumption DEF KindOf, Kinds, TypeOK, File, Index
    <3>2. g.idx < next[KindOf(g.folder)]
      BY StartIndicesAbove
    <3> QED
      BY <2>1, <3>1, <3>2
  <2>4. /\ highWater'[c] = new
        /\ \A f \in Pending : f.idx < highWater'[f.coil][f.kind]
        /\ \A g \in disk : Cached(g.coil)' => g.idx < highWater'[g.coil][KindOf(g.folder)]
    <3>1. StoreHighWater(c, new)
      BY <1>2 DEF Reserve
    <3> QED
      BY <2>1, <2>2, <2>3, <3>1, StoreKeepsIndices
  <2>5. UNCHANGED <<queue, job, disk>> /\ put[k] = None
        /\ (put' = put \/ put' = [put EXCEPT ![k] = fr])
    BY <1>2 DEF Reserve
  <2>6. fr \notin Pending
    <3> SUFFICES ASSUME fr \in Pending PROVE FALSE
      OBVIOUS
    <3>1. Cached(c) /\ next[k] < highWater[c][k]
      BY DEF IndexInv, PendingCached
    <3>2. highWater[c][k] = next[k]
      BY <3>1, StartIndicesAbove
    <3> QED
      BY <2>1, <3>1, <3>2
  <2>7. fr \notin Stored
    <3> SUFFICES ASSUME NEW g \in disk, g.coil = c, KindOf(g.folder) = k, g.idx = next[k]
                 PROVE  FALSE
      BY DEF Stored
    <3>1. g.idx < next[k]
      BY StartIndicesAbove
    <3> QED
      BY <2>1, <3>1
  <2>8. InQueue' = InQueue /\ InJob' = InJob /\ Stored' = Stored
    BY <2>5 DEF InQueue, InJob, Stored
  <2>9. \A j \in Kinds : Held(j)' \subseteq Held(j) \cup {fr}
    BY <2>5 DEF Held, TypeOK
  <2>10. Pending' \subseteq Pending \cup {fr}
    BY <2>8, <2>9 DEF Pending
  <2>11. \A f \in Pending' : f.idx < highWater'[f.coil][f.kind]
    <3>1. fr.coil = c /\ fr.kind = k /\ fr.idx = next[k]
      OBVIOUS
    <3>2. next[k] < highWater'[c][k]
      BY <2>1, <2>4
    <3>3. \A f \in Pending' : f \in Pending \/ f = fr
      BY <2>10
    <3> HIDE DEF fr
    <3>4. ASSUME NEW f, f = fr
          PROVE  f.idx < highWater'[f.coil][f.kind]
      BY <3>1, <3>2, <3>4
    <3> QED
      BY <2>4, <3>3, <3>4
  <2>12. IndexInv'
    BY <2>4, <2>5, <2>11 DEF IndexInv
  <2>13. InQueue \subseteq Pending /\ InJob \subseteq Pending
    BY DEF Pending
  <2> HIDE DEF fr
  <2>14. NoOverwrite'
    BY <2>5, <2>6, <2>7, <2>8, <2>9, <2>10, <2>13
  <2> QED
    BY <2>12, <2>14
<1>3. ASSUME NEW k \in Kinds, QueueBufferRefuse(k) \/ QueueBufferFull(k)
      PROVE  IndexInv' /\ NoOverwrite'
  <2>1. UNCHANGED <<highWater, age, queue, job, disk>> /\ put' = [put EXCEPT ![k] = None]
    BY <1>3 DEF QueueBufferRefuse, QueueBufferFull, indexVars
  <2>2. /\ InQueue' = InQueue /\ InJob' = InJob
        /\ \A j \in Kinds : Held(j)' \subseteq Held(j)
    BY <2>1 DEF InQueue, InJob, Held, TypeOK
  <2>3. Pending' \subseteq Pending
    BY <2>2 DEF Pending
  <2> QED
    BY <2>1, <2>2, <2>3, QuietStep DEF IndexInv
<1>4. ASSUME NEW k \in Kinds, QueueBufferBegin(k) PROVE IndexInv' /\ NoOverwrite'
  <2>1. UNCHANGED <<highWater, age, queue, put, job, disk>>
    BY <1>4 DEF QueueBufferBegin, indexVars
  <2>2. /\ InQueue' = InQueue /\ InJob' = InJob
        /\ \A j \in Kinds : Held(j)' = Held(j)
    BY <2>1 DEF InQueue, InJob, Held
  <2>3. Pending' = Pending
    BY <2>2 DEF Pending
  <2> QED
    BY <2>1, <2>2, <2>3, QuietStep DEF IndexInv
<1>5. ASSUME NEW k \in Kinds, QueueBufferAccept(k) PROVE IndexInv' /\ NoOverwrite'
  <2>1. /\ UNCHANGED <<highWater, age, job, disk>> /\ put' = [put EXCEPT ![k] = None]
        /\ put[k] \in Frame /\ put[k] # None
    BY <1>5 DEF QueueBufferAccept, indexVars, StopInv, TypeOK
  <2>2. /\ DOMAIN queue = 1..Len(queue) /\ Len(queue) \in Nat
        /\ DOMAIN queue' = 1..(Len(queue) + 1)
        /\ \A i \in 1..Len(queue) : queue'[i] = queue[i]
        /\ queue'[Len(queue) + 1] = put[k]
    BY <1>5, <2>1, PutFacts DEF QueueBufferAccept, TypeOK
  <2>3. InQueue' = InQueue \cup {put[k]}
    BY <2>1, <2>2 DEF InQueue, Sentinel
  <2>4. /\ InJob' = InJob /\ Held(k) = {put[k]}
        /\ \A j \in Kinds : Held(j)' = IF j = k THEN {} ELSE Held(j)
    BY <2>1 DEF InJob, Held, TypeOK
  <2>5. \A j \in Kinds : j # k => put[k] \notin Held(j)
    BY <2>1, SaveAssumption DEF Held, StopInv
  <2>6. Pending' \subseteq Pending /\ put[k] \in Pending /\ InJob \subseteq Pending
    BY <2>3, <2>4 DEF Pending
  <2>7. \A i \in DOMAIN queue : queue[i] # put[k]
    BY <2>1, <2>4, SaveAssumption DEF InQueue, Sentinel
  <2>8. \A i, j \in DOMAIN queue' : queue'[i] = queue'[j] => i = j
    BY <2>2, <2>7
  <2>9. Stored' = Stored
    BY <2>1 DEF Stored
  <2>10. NoOverwrite'
    BY <2>1, <2>3, <2>4, <2>5, <2>6, <2>8, <2>9
  <2> QED
    BY <2>1, <2>6, <2>10, QuietStep DEF IndexInv
<1>6. CASE StopBegin \/ StopFull \/ StopRetry \/ StopTimeout
  <2>1. UNCHANGED <<highWater, age, queue, put, job, disk>>
    BY <1>6 DEF StopBegin, StopFull, StopRetry, StopTimeout, indexVars
  <2>2. /\ InQueue' = InQueue /\ InJob' = InJob
        /\ \A j \in Kinds : Held(j)' = Held(j)
    BY <2>1 DEF InQueue, InJob, Held
  <2>3. Pending' = Pending
    BY <2>2 DEF Pending
  <2> QED
    BY <2>1, <2>2, <2>3, QuietStep DEF IndexInv
<1>7. CASE StopEnqueue
  <2>1. UNCHANGED <<highWater, age, put, job, disk>> /\ ~stopEnqueued
    BY <1>7 DEF StopEnqueue, indexVars, StopInv
  <2>2. /\ DOMAIN queue = 1..Len(queue) /\ Len(queue) \in Nat
        /\ DOMAIN queue' = 1..(Len(queue) + 1)
        /\ \A i \in 1..Len(queue) : queue'[i] = queue[i]
        /\ queue'[Len(queue) + 1] = Sentinel
    BY <1>7, PutFacts DEF StopEnqueue, TypeOK
  <2>3. /\ InQueue' = InQueue /\ InJob' = InJob
        /\ \A j \in Kinds : Held(j)' = Held(j)
    BY <2>1, <2>2 DEF InQueue, InJob, Held
  <2>4. Pending' = Pending
    BY <2>3 DEF Pending
  <2>5. \A i \in DOMAIN queue : queue[i] # Sentinel
    BY <2>1 DEF StopInv, NothingBehindSentinel
  <2>6. \A i, j \in DOMAIN queue' : queue'[i] = queue'[j] => i = j
    BY <2>2, <2>5
  <2> QED
    BY <2>1, <2>3, <2>4, <2>6, QuietStep DEF IndexInv
<1>8. CASE WorkerGet
  <2>1. UNCHANGED <<highWater, age, put, disk>> /\ job = None
    BY <1>8 DEF WorkerGet, indexVars
  <2>2. /\ Len(queue) \in Nat \ {0} /\ DOMAIN queue = 1..Len(queue)
        /\ Head(queue) = queue[1] /\ Head(queue) \in Frame \cup {Sentinel}
        /\ DOMAIN queue' = 1..(Len(queue) - 1)
        /\ \A i \in 1..(Len(queue) - 1) : queue'[i] = queue[i + 1]
    BY <1>8, GetFacts DEF WorkerGet, TypeOK
  <2>3. \A i, j \in DOMAIN queue' : queue'[i] = queue'[j] => i = j
    BY <2>2
  <2>4. InQueue' \subseteq InQueue /\ Head(queue) \notin InQueue'
    <3>1. InQueue' \subseteq InQueue
      BY <2>2 DEF InQueue
    <3>2. \A i \in DOMAIN queue' : queue'[i] # Head(queue)
      BY <2>2
    <3> QED
      BY <3>1, <3>2 DEF InQueue
  <2>5. \A j \in Kinds : Held(j)' = Held(j)
    BY <2>1 DEF Held
  <2>6. CASE Head(queue) = Sentinel
    <3>1. job' = None /\ InJob' = {} /\ InJob = {}
      BY <1>8, <2>1, <2>6 DEF WorkerGet, InJob
    <3>2. Pending' \subseteq Pending
      BY <2>4, <2>5, <3>1 DEF Pending
    <3> QED
      BY <2>1, <2>3, <2>4, <2>5, <3>1, <3>2, QuietStep DEF IndexInv
  <2>7. CASE Head(queue) # Sentinel
    <3> DEFINE fr == Head(queue)
    <3>1. job' = [frame |-> fr, todo |-> Parts(fr)] /\ job' # None
      <4>1. job' = [frame |-> fr, todo |-> Parts(fr)]
        BY <1>8, <2>7 DEF WorkerGet
      <4>2. fr \in Frame /\ Parts(fr) \in Seq(Folders \cup {"db"})
        BY <2>2, <2>7, PartsFacts
      <4>3. job' \in Job
        BY <4>1, <4>2 DEF Job
      <4> QED
        BY <4>1, <4>3, SaveAssumption
    <3>2. fr \in InQueue /\ fr \in Frame /\ InJob = {} /\ InJob' = {fr}
      BY <2>1, <2>2, <2>7, <3>1 DEF InQueue, InJob
    <3>3. Pending' \subseteq Pending
      BY <2>4, <2>5, <3>2 DEF Pending
    <3>4. fr \in Pending /\ fr \notin Stored /\ \A j \in Kinds : fr \notin Held(j)
      BY <3>2 DEF Pending
    <3>5. \A i \in DOMAIN Parts(fr) : FileOf(fr, Parts(fr)[i]) \notin disk
      <4> SUFFICES ASSUME NEW i \in DOMAIN Parts(fr), FileOf(fr, Parts(fr)[i]) \in disk
                   PROVE  FALSE
        OBVIOUS
      <4> DEFINE g == FileOf(fr, Parts(fr)[i])
      <4>1. g \in File /\ g.folder = Parts(fr)[i] /\ g.coil = fr.coil /\ g.idx = fr.idx
        BY DEF TypeOK, FileOf
      <4>2. Parts(fr)[i] # "db"
        BY <4>1 DEF File, Folders
      <4>3. KindOf(g.folder) = fr.kind
        BY <3>2, <4>1, <4>2, PartsFacts
      <4>4. [coil |-> g.coil, kind |-> KindOf(g.folder), idx |-> g.idx] \in Stored
        BY DEF Stored
      <4>5. [coil |-> g.coil, kind |-> KindOf(g.folder), idx |-> g.idx] = fr
        BY <3>2, <4>1, <4>3 DEF Frame
      <4> QED
        BY <3>4, <4>4, <4>5
    <3>6. job'.frame = fr /\ job'.todo = Parts(fr)
      BY <3>1
    <3> HIDE DEF fr
    <3>7. NoOverwrite'
      <4>1. Stored' = Stored
        BY <2>1 DEF Stored
      <4>2. InQueue' \cap InJob' = {}
        BY <2>4, <3>2 DEF fr
      <4>3. \A j \in Kinds : Held(j)' \cap (InQueue' \cup InJob') = {}
        BY <2>4, <2>5, <3>2, <3>4
      <4>4. \A f \in Pending' \ InJob' : f \notin Stored'
        BY <2>1, <3>2, <3>3, <4>1
      <4> QED
        BY <2>1, <2>3, <3>5, <3>6, <4>2, <4>3, <4>4
    <3>8. IndexInv'
      BY <2>1, <3>2, <3>3, <3>6, QuietStep, PartsFacts DEF IndexInv
    <3> QED
      BY <3>7, <3>8
  <2> QED
    BY <2>6, <2>7
<1>9. CASE SavePart
  <2> DEFINE fr   == job.frame
             part == Head(job.todo)
             file == FileOf(fr, part)
  <2>1. /\ UNCHANGED <<highWater, age, queue, put>> /\ job # None
        /\ fr \in Frame /\ job.todo \in Seq(Folders \cup {"db"}) /\ job.todo # <<>>
        /\ job' = [frame |-> fr, todo |-> Tail(job.todo)] /\ job' # None
    <3>1. /\ UNCHANGED <<highWater, age, queue, put>> /\ job # None /\ job.todo # <<>>
          /\ job' = [frame |-> fr, todo |-> Tail(job.todo)]
      BY <1>9 DEF SavePart, indexVars
    <3>2. fr \in Frame /\ job.todo \in Seq(Folders \cup {"db"})
      BY <3>1 DEF TypeOK, Job
    <3>3. job' \in Job
      BY <3>1, <3>2, GetFacts DEF Job
    <3> QED
      BY <3>1, <3>2, <3>3, SaveAssumption
  <2>2. disk' = disk \/ (part # "db" /\ disk' = disk \cup {file})
    BY <1>9 DEF SavePart
  <2>3. /\ part = job.todo[1] /\ 1 \in DOMAIN job.todo
        /\ DOMAIN job.todo = 1..Len(job.todo) /\ Len(job.todo) \in Nat \ {0}
        /\ job'.frame = fr /\ job'.todo = Tail(job.todo)
        /\ DOMAIN job'.todo = 1..(Len(job.todo) - 1)
        /\ \A i \in 1..(Len(job.todo) - 1) : job'.todo[i] = job.todo[i + 1]
    BY <2>1, GetFacts
  <2>4. /\ InQueue' = InQueue /\ InJob' = InJob /\ InJob = {fr}
        /\ \A j \in Kinds : Held(j)' = Held(j)
    BY <2>1, <2>3 DEF InQueue, InJob, Held
  <2>5. Pending' = Pending /\ fr \in Pending
    BY <2>4 DEF Pending
  <2>6. /\ file.coil = fr.coil /\ file.folder = part /\ file.idx = fr.idx
        /\ part # "db" => KindOf(file.folder) = fr.kind
    BY <2>1, <2>3 DEF FileOf, IndexInv
  <2> HIDE DEF fr, part, file
  <2>7. Stored' \subseteq Stored \cup {fr}
    <3>1. part # "db" => [coil |-> file.coil, kind |-> KindOf(file.folder), idx |-> file.idx] = fr
      BY <2>1, <2>6 DEF Frame
    <3> QED
      BY <2>2, <3>1 DEF Stored
  <2>8. \A i \in DOMAIN job'.todo : FileOf(fr, job'.todo[i]) \notin disk'
    <3> SUFFICES ASSUME NEW i \in 1..(Len(job.todo) - 1)
                 PROVE  FileOf(fr, job.todo[i + 1]) \notin disk'
      BY <2>3
    <3>1. i + 1 \in DOMAIN job.todo /\ i + 1 # 1
      BY <2>3
    <3>2. FileOf(fr, job.todo[i + 1]) \notin disk
      BY <2>1, <3>1 DEF fr
    <3>3. job.todo[i + 1] # part
      BY <2>1, <2>3, <3>1 DEF IndexInv
    <3>4. FileOf(fr, job.todo[i + 1]).folder = job.todo[i + 1]
      BY DEF FileOf
    <3>5. FileOf(fr, job.todo[i + 1]) # file
      BY <2>6, <3>3, <3>4
    <3> QED
      BY <2>2, <3>2, <3>5
  <2>9. NoOverwrite'
    <3>1. \A f \in Pending' \ InJob' : f \notin Stored'
      BY <2>4, <2>5, <2>7
    <3> QED
      BY <2>1, <2>3, <2>4, <2>8, <3>1
  <2>10. IndexInv'
    <3>1. \A d : Cached(d)' <=> Cached(d)
      BY <2>1 DEF Cached
    <3>3. fr.idx < highWater[fr.coil][fr.kind]
      BY <2>5 DEF IndexInv
    <3>4. \A g \in disk' : Cached(g.coil)' => g.idx < highWater'[g.coil][KindOf(g.folder)]
      <4>1. part # "db" => file.idx < highWater[file.coil][KindOf(file.folder)]
        BY <2>6, <3>3
      <4> QED
        BY <2>1, <2>2, <3>1, <4>1 DEF IndexInv
    <3>5. /\ \A i, j \in DOMAIN job'.todo : job'.todo[i] = job'.todo[j] => i = j
          /\ \A i \in DOMAIN job'.todo :
               job'.todo[i] # "db" => KindOf(job'.todo[i]) = job'.frame.kind
      <4>1. \A i \in DOMAIN job'.todo : i + 1 \in DOMAIN job.todo /\ job'.todo[i] = job.todo[i + 1]
        BY <2>3
      <4>2. /\ \A i, j \in DOMAIN job.todo : job.todo[i] = job.todo[j] => i = j
            /\ \A i \in DOMAIN job.todo :
                 job.todo[i] # "db" => KindOf(job.todo[i]) = job.frame.kind
        BY <2>1 DEF IndexInv
      <4>3. job'.frame = job.frame
        BY <2>3 DEF fr
      <4>4. \A i \in DOMAIN job'.todo : i \in Int
        BY <2>3
      <4>5. \A i, j \in DOMAIN job'.todo : job'.todo[i] = job'.todo[j] => i = j
        BY <4>1, <4>2, <4>4
      <4> QED
        BY <4>1, <4>2, <4>3, <4>5
    <3>6. \A f \in Pending' : f.idx < highWater'[f.coil][f.kind]
      BY <2>1, <2>5 DEF IndexInv
    <3> QED
      BY <3>4, <3>5, <3>6 DEF IndexInv
  <2> QED
    BY <2>9, <2>10
<1>10. CASE SaveEnd
  <2>1. UNCHANGED <<highWater, age, queue, put, disk>> /\ job' = None
    BY <1>10 DEF SaveEnd, indexVars
  <2>2. /\ InQueue' = InQueue /\ InJob' = {}
        /\ \A j \in Kinds : Held(j)' = Held(j)
    BY <2>1 DEF InQueue, InJob, Held
  <2>3. Pending' \subseteq Pending /\ Pending' \cap InJob = {}
    BY <2>2 DEF Pending
  <2> QED
    BY <2>1, <2>2, <2>3, QuietStep DEF IndexInv
<1>11. CASE Restart
  <2>1. /\ age' = [d \in Coils |-> CacheSize] /\ disk' = disk /\ job' = None
        /\ put' = [k \in Kinds |-> None]
    BY <1>11 DEF Restart
  <2>2. DOMAIN queue' = {}
    BY <1>11, EmptyQueue DEF Restart
  <2>3. /\ InQueue' = {} /\ InJob' = {}
        /\ \A j \in Kinds : Held(j)' = {}
    BY <2>1, <2>2 DEF InQueue, InJob, Held
  <2>4. Pending' = {}
    BY <2>3 DEF Pending
  <2>5. \A d \in Coils : ~Cached(d)'
    BY <2>1, SaveAssumption DEF Cached
  <2>6. \A g \in disk' : g.coil \in Coils
    BY <2>1 DEF TypeOK, File
  <2> QED
    BY <2>1, <2>2, <2>3, <2>4, <2>5, <2>6 DEF IndexInv
<1>12. CASE UNCHANGED vars
  <2>1. UNCHANGED <<highWater, age, queue, put, job, disk>>
    BY <1>12 DEF vars, indexVars
  <2>2. /\ InQueue' = InQueue /\ InJob' = InJob
        /\ \A j \in Kinds : Held(j)' = Held(j)
    BY <2>1 DEF InQueue, InJob, Held
  <2>3. Pending' = Pending
    BY <2>2 DEF Pending
  <2> QED
    BY <2>1, <2>2, <2>3, QuietStep DEF IndexInv
<1> QED
  BY <1>1, <1>2, <1>3, <1>4, <1>5, <1>6, <1>7, <1>8, <1>9, <1>10, <1>11, <1>12
     DEF Next, Worker

\* While no coil with a frame on its way is evicted, no frame is on its way twice.
LEMMA IndexInvariant == Spec /\ []PendingCached => [](IndexInv /\ NoOverwrite)
<1>1. Init => IndexInv /\ NoOverwrite
  <2> SUFFICES ASSUME Init PROVE IndexInv /\ NoOverwrite
    OBVIOUS
  <2>1. DOMAIN queue = {} /\ InQueue = {} /\ InJob = {}
    BY EmptyQueue DEF Init, InQueue, InJob
  <2>2. \A k \in Kinds : Held(k) = {}
    BY DEF Init, Held
  <2>3. Pending = {}
    BY <2>1, <2>2 DEF Pending
  <2>4. \A c \in Coils : ~Cached(c)
    BY SaveAssumption DEF Init, Cached
  <2> QED
    BY <2>1, <2>2, <2>3, <2>4 DEF Init, IndexInv, NoOverwrite
<1>2. TypeOK /\ TypeOK' /\ StopInv /\ StopInv' /\ PendingCached /\ IndexInv /\ NoOverwrite
        /\ [Next]_vars => IndexInv' /\ NoOverwrite'
  BY IndexStep
<1> QED
  BY <1>1, <1>2, TypeCorrect, StopInvariant, PTL DEF Spec

\* "resume capture without overwriting existing frames", whatever the size of the
\* high-water dictionary: as long as it evicts no coil that has a frame on its way, no
\* two frames on their way to the disk share coil, kind and index, and none of them is
\* on disk already, through coil switches, late frames, failed writes and restarts.
THEOREM EvictionAloneOverwrites == Spec /\ []PendingCached => []NoOverwrite
BY IndexInvariant, PTL

-----------------------------------------------------------------------------
(* The save worker implements the write-once frame store. *)

\* A step that moves no frame and writes no file is a stuttering step of the store.
LEMMA StoreStutters ==
  ASSUME Pending' = Pending, disk' = disk
  PROVE  [Store!Next]_Store!storeVars
<1>1. Stored' = Stored
  BY DEF Stored
<1> QED
  BY <1>1 DEF Store!storeVars

\* What of the store the queue, the job and the calls hold.
LEMMA Parked ==
  ASSUME UNCHANGED <<queue, put, job>>
  PROVE  Pending' = Pending
  BY DEF Pending, InQueue, InJob, Held

\* A capture thread gives up the frame it holds: nobody else has it.
LEMMA PutGivenUp ==
  ASSUME TypeOK, StopInv, NoOverwrite, NEW k \in Kinds, put[k] # None,
         put' = [put EXCEPT ![k] = None], UNCHANGED <<queue, job, disk>>
  PROVE  [Store!Next]_Store!storeVars
<1> DEFINE fr == put[k]
<1>1. fr \in Frame /\ Held(k) = {fr} /\ fr \in Pending
  BY DEF TypeOK, Held, Pending
<1>2. InQueue' = InQueue /\ InJob' = InJob /\ Stored' = Stored
  BY DEF InQueue, InJob, Stored
<1>3. \A j \in Kinds : Held(j)' = IF j = k THEN {} ELSE Held(j)
  BY DEF Held, TypeOK
<1>4. fr \notin InQueue /\ fr \notin InJob
  BY <1>1 DEF NoOverwrite
<1>5. \A j \in Kinds : j # k => fr \notin Held(j)
  BY <1>1, SaveAssumption DEF Held, StopInv
<1> HIDE DEF fr
<1>6. Pending' = Pending \ {fr}
  <2>1. \A f : f \in Pending <=> \/ f \in InQueue \cup InJob
                                 \/ \E j \in Kinds : f \in Held(j)
    BY DEF Pending
  <2>2. \A f : f \in Pending' <=> \/ f \in InQueue \cup InJob
                                  \/ \E j \in Kinds : j # k /\ f \in Held(j)
    BY <1>2, <1>3 DEF Pending
  <2>3. \A f : f \in Held(k) <=> f = fr
    BY <1>1
  <2> QED
    BY <1>4, <1>5, <2>1, <2>2, <2>3
<1>7. Store!Release(fr)
  BY <1>1, <1>2, <1>6 DEF Store!Release
<1> QED
  BY <1>1, <1>7 DEF Store!Next

\* Every step of the worker and its callers is a step of the store: reserving an
\* index accepts the frame, a refused or lost one is released, a written file stores
\* it, the end of its job releases it, a killed process crashes the store.
LEMMA StoreStep ==
  ASSUME TypeOK, StopInv, PendingCached, IndexInv, NoOverwrite, [Next]_vars, TypeOK'
  PROVE  [Store!Next]_Store!storeVars
<1>1. ASSUME NEW c \in Coils, Trigger(c) PROVE [Store!Next]_Store!storeVars
  BY <1>1, Parked, StoreStutters DEF Trigger
<1>2. ASSUME NEW k \in Kinds, NEW c \in Coils, Reserve(k, c)
      PROVE  [Store!Next]_Store!storeVars
  <2> DEFINE next == HighWaterOf(c)
             fr   == [coil |-> c, kind |-> k, idx |-> next[k]]
  <2>1. /\ UNCHANGED <<queue, job, disk>> /\ put[k] = None
        /\ (put' = put \/ put' = [put EXCEPT ![k] = fr])
    BY <1>2 DEF Reserve
  <2>2. CASE put' = put
    BY <2>1, <2>2, Parked, StoreStutters
  <2>3. CASE put' = [put EXCEPT ![k] = fr] /\ put' # put
    <3>1. fr.coil = c /\ fr.kind = k /\ fr.idx = next[k] /\ next[k] \in Nat
      BY StartIndicesType
    <3>2. fr \notin Pending
      <4> SUFFICES ASSUME fr \in Pending PROVE FALSE
        OBVIOUS
      <4>1. Cached(c) /\ next[k] < highWater[c][k]
        BY <3>1 DEF IndexInv, PendingCached
      <4>2. highWater[c][k] = next[k]
        BY <4>1, StartIndicesAbove
      <4> QED
        BY <3>1, <4>1, <4>2
    <3>3. fr \notin Stored
      <4> SUFFICES ASSUME NEW g \in disk, g.coil = c, KindOf(g.folder) = k, g.idx = next[k]
                   PROVE  FALSE
        BY DEF Stored
      <4>1. g.idx < next[k]
        BY StartIndicesAbove
      <4> QED
        BY <3>1, <4>1
    <3>4. fr \in Frame /\ fr # None
      <4>1. put'[k] = fr /\ put'[k] \in Frame \cup {None}
        BY <2>3 DEF TypeOK
      <4>2. fr # put[k]
        BY <2>3 DEF TypeOK
      <4> QED
        BY <2>1, <4>1, <4>2
    <3>5. InQueue' = InQueue /\ InJob' = InJob /\ Stored' = Stored
      BY <2>1 DEF InQueue, InJob, Stored
    <3> HIDE DEF fr
    <3>6. Held(k) = {} /\ \A j \in Kinds : Held(j)' = IF j = k THEN {fr} ELSE Held(j)
      BY <2>1, <2>3, <3>4 DEF Held, TypeOK
    <3>7. Pending' = Pending \cup {fr}
      <4>1. \A f : f \in Pending <=> \/ f \in InQueue \cup InJob
                                     \/ \E j \in Kinds : j # k /\ f \in Held(j)
        BY <3>6 DEF Pending
      <4>2. \A f : f \in Pending' <=> \/ f \in InQueue \cup InJob \/ f = fr
                                      \/ \E j \in Kinds : j # k /\ f \in Held(j)
        BY <3>5, <3>6 DEF Pending
      <4> QED
        BY <4>1, <4>2
    <3>8. Store!Accept(fr)
      BY <3>2, <3>3, <3>5, <3>7 DEF Store!Accept
    <3> QED
      BY <3>4, <3>8 DEF Store!Next
  <2> QED
    BY <2>1, <2>2, <2>3
<1>3. ASSUME NEW k \in Kinds, QueueBufferRefuse(k) \/ QueueBufferFull(k)
      PROVE  [Store!Next]_Store!storeVars
  <2>1. /\ UNCHANGED <<queue, job, disk>> /\ put' = [put EXCEPT ![k] = None]
        /\ put[k] # None
    BY <1>3 DEF QueueBufferRefuse, QueueBufferFull, StopInv
  <2> QED
    BY <2>1, PutGivenUp
<1>4. ASSUME NEW k \in Kinds, QueueBufferBegin(k) PROVE [Store!Next]_Store!storeVars
  BY <1>4, Parked, StoreStutters DEF QueueBufferBegin
<1>5. ASSUME NEW k \in Kinds, QueueBufferAccept(k) PROVE [Store!Next]_Store!storeVars
  <2>1. /\ UNCHANGED <<job, disk>> /\ put' = [put EXCEPT ![k] = None]
        /\ put[k] \in Frame /\ put[k] # None
    BY <1>5 DEF QueueBufferAccept, StopInv, TypeOK
  <2>2. /\ DOMAIN queue = 1..Len(queue) /\ Len(queue) \in Nat
        /\ DOMAIN queue' = 1..(Len(queue) + 1)
        /\ \A i \in 1..Len(queue) : queue'[i] = queue[i]
        /\ queue'[Len(queue) + 1] = put[k]
    BY <1>5, <2>1, PutFacts DEF QueueBufferAccept, TypeOK
  <2>3. InQueue' = InQueue \cup {put[k]} /\ InJob' = InJob
    BY <2>1, <2>2 DEF InQueue, InJob, Sentinel
  <2>4. /\ Held(k) = {put[k]}
        /\ \A j \in Kinds : Held(j)' = IF j = k THEN {} ELSE Held(j)
    BY <2>1 DEF Held, TypeOK
  <2>5. Pending' = Pending
    BY <2>3, <2>4 DEF Pending
  <2> QED
    BY <2>1, <2>5, StoreStutters
<1>6. CASE StopBegin \/ StopFull \/ StopRetry \/ StopTimeout
  BY <1>6, Parked, StoreStutters DEF StopBegin, StopFull, StopRetry, StopTimeout
<1>7. CASE StopEnqueue
  <2>1. UNCHANGED <<put, job, disk>>
    BY <1>7 DEF StopEnqueue
  <2>2. /\ DOMAIN queue = 1..Len(queue) /\ Len(queue) \in Nat
        /\ DOMAIN queue' = 1..(Len(queue) + 1)
        /\ \A i \in 1..Len(queue) : queue'[i] = queue[i]
        /\ queue'[Len(queue) + 1] = Sentinel
    BY <1>7, PutFacts DEF StopEnqueue, TypeOK
  <2>3. InQueue' = InQueue
    BY <2>2 DEF InQueue
  <2>4. Pending' = Pending
    BY <2>1, <2>3 DEF Pending, InJob, Held
  <2> QED
    BY <2>1, <2>4, StoreStutters
<1>8. CASE WorkerGet
  <2>1. UNCHANGED <<put, disk>> /\ job = None
    BY <1>8 DEF WorkerGet
  <2>2. /\ Len(queue) \in Nat \ {0} /\ DOMAIN queue = 1..Len(queue)
        /\ Head(queue) = queue[1] /\ Head(queue) \in Frame \cup {Sentinel}
        /\ DOMAIN queue' = 1..(Len(queue) - 1)
        /\ \A i \in 1..(Len(queue) - 1) : queue'[i] = queue[i + 1]
    BY <1>8, GetFacts DEF WorkerGet, TypeOK
  <2>3. InQueue \cup {Sentinel} = InQueue' \cup {Head(queue), Sentinel}
    <3>1. \A i \in DOMAIN queue' : i + 1 \in DOMAIN queue /\ queue'[i] = queue[i + 1]
      BY <2>2
    <3>2. \A i \in DOMAIN queue : i = 1 \/ (i - 1 \in DOMAIN queue' /\ queue'[i - 1] = queue[i])
      BY <2>2
    <3>3. 1 \in DOMAIN queue
      BY <2>2
    <3>4. InQueue' \subseteq InQueue
      BY <3>1 DEF InQueue
    <3>5. Head(queue) \in InQueue \cup {Sentinel}
      BY <2>2, <3>3 DEF InQueue
    <3>6. InQueue \subseteq InQueue' \cup {Head(queue)}
      BY <2>2, <3>2 DEF InQueue
    <3> QED
      BY <3>4, <3>5, <3>6
  <2>4. Sentinel \notin InQueue /\ Sentinel \notin InQueue'
    BY DEF InQueue
  <2>5. CASE Head(queue) = Sentinel
    <3>1. job' = job
      BY <1>8, <2>5 DEF WorkerGet
    <3>2. InQueue' = InQueue
      BY <2>3, <2>4, <2>5
    <3>3. Pending' = Pending
      BY <2>1, <3>1, <3>2 DEF Pending, InJob, Held
    <3> QED
      BY <2>1, <3>3, StoreStutters
  <2>6. CASE Head(queue) # Sentinel
    <3>1. job' = [frame |-> Head(queue), todo |-> Parts(Head(queue))]
      BY <1>8, <2>6 DEF WorkerGet
    <3>2. job' # None
      <4>1. Head(queue) \in Frame
        BY <2>2, <2>6
      <4>2. job' \in Job
        BY <3>1, <4>1, PartsFacts DEF Job
      <4> QED
        BY <4>2, SaveAssumption
    <3>3. InJob = {} /\ InJob' = {Head(queue)}
      BY <2>1, <3>1, <3>2 DEF InJob
    <3>4. InQueue = InQueue' \cup {Head(queue)}
      BY <2>3, <2>4, <2>6
    <3>5. Pending' = Pending
      BY <2>1, <3>3, <3>4 DEF Pending, Held
    <3> QED
      BY <2>1, <3>5, StoreStutters
  <2> QED
    BY <2>5, <2>6
<1>9. CASE SavePart
  <2> DEFINE fr   == job.frame
             part == Head(job.todo)
             file == FileOf(fr, part)
  <2>1. /\ UNCHANGED <<queue, put>> /\ job # None /\ job.todo # <<>>
        /\ job' = [frame |-> fr, todo |-> Tail(job.todo)]
        /\ (disk' = disk \/ (part # "db" /\ disk' = disk \cup {file}))
    BY <1>9 DEF SavePart
  <2>2. fr \in Frame /\ job.todo \in Seq(Folders \cup {"db"})
    BY <2>1 DEF TypeOK, Job
  <2>3. part = job.todo[1] /\ 1 \in DOMAIN job.todo
    BY <2>1, <2>2, GetFacts
  <2>4. job' # None /\ job'.frame = fr
    <3>1. job' \in Job
      BY <2>1, <2>2, GetFacts DEF Job
    <3> QED
      BY <2>1, <3>1, SaveAssumption
  <2>5. Pending' = Pending /\ fr \in Pending
    BY <2>1, <2>4 DEF Pending, InQueue, InJob, Held
  <2>6. /\ file.coil = fr.coil /\ file.folder = part /\ file.idx = fr.idx
        /\ part # "db" => KindOf(part) = fr.kind
    BY <2>1, <2>3 DEF FileOf, IndexInv
  <2>7. CASE disk' = disk
    BY <2>5, <2>7, StoreStutters
  <2>8. CASE part # "db" /\ disk' = disk \cup {file}
    <3>1. [coil |-> file.coil, kind |-> KindOf(file.folder), idx |-> file.idx] = fr
      BY <2>2, <2>6, <2>8 DEF Frame
    <3> HIDE DEF fr, part, file
    <3>2. Stored' = Stored \cup {fr}
      BY <2>8, <3>1 DEF Stored
    <3>3. Store!Store(fr)
      BY <2>5, <3>2 DEF Store!Store
    <3> QED
      BY <2>2, <3>3 DEF Store!Next
  <2> QED
    BY <2>1, <2>7, <2>8
<1>10. CASE SaveEnd
  <2> DEFINE fr == job.frame
  <2>1. UNCHANGED <<queue, put, disk>> /\ job # None /\ job' = None /\ fr \in Frame
    BY <1>10 DEF SaveEnd, TypeOK, Job
  <2>2. /\ InQueue' = InQueue /\ InJob = {fr} /\ InJob' = {} /\ Stored' = Stored
        /\ \A j \in Kinds : Held(j)' = Held(j)
    BY <2>1 DEF InQueue, InJob, Held, Stored
  <2> HIDE DEF fr
  <2>3. fr \notin InQueue /\ \A j \in Kinds : fr \notin Held(j)
    BY <2>2 DEF NoOverwrite
  <2>4. fr \in Pending /\ Pending' = Pending \ {fr}
    <3>1. \A f : f \in Pending <=> \/ f \in InQueue \/ f = fr
                                   \/ \E j \in Kinds : f \in Held(j)
      BY <2>2 DEF Pending
    <3>2. \A f : f \in Pending' <=> \/ f \in InQueue
                                    \/ \E j \in Kinds : f \in Held(j)
      BY <2>2 DEF Pending
    <3> QED
      BY <2>3, <3>1, <3>2
  <2>5. Store!Release(fr)
    BY <2>2, <2>4 DEF Store!Release
  <2> QED
    BY <2>1, <2>5 DEF Store!Next
<1>11. CASE Restart
  <2>1. disk' = disk /\ job' = None /\ put' = [k \in Kinds |-> None] /\ DOMAIN queue' = {}
    BY <1>11, EmptyQueue DEF Restart
  <2>2. Pending' = {} /\ Stored' = Stored
    BY <2>1 DEF Pending, InQueue, InJob, Held, Stored
  <2> QED
    BY <2>2 DEF Store!Next, Store!Crash
<1>12. CASE UNCHANGED vars
  BY <1>12, Parked, StoreStutters DEF vars
<1> QED
  BY <1>1, <1>2, <1>3, <1>4, <1>5, <1>6, <1>7, <1>8, <1>9, <1>10, <1>11, <1>12
     DEF Next, Worker

\* As long as no coil with a frame on its way is evicted, the save worker implements
\* the write-once frame store: whatever the threads, the watchdog and the disk do, a
\* frame's identity is handed out only while nothing has it, and what is stored stays
\* stored.
THEOREM ImplementsFrameStore == Spec /\ []PendingCached => RefinesFrameStore
<1>1. Init => Store!Init
  <2> SUFFICES ASSUME Init PROVE Store!Init
    OBVIOUS
  <2>1. DOMAIN queue = {} /\ disk = {}
    BY EmptyQueue DEF Init
  <2>2. Pending = {} /\ Stored = {}
    BY <2>1 DEF Init, Pending, InQueue, InJob, Held, Stored
  <2> QED
    BY <2>2 DEF Store!Init
<1>2. TypeOK /\ TypeOK' /\ StopInv /\ PendingCached /\ IndexInv /\ NoOverwrite
        /\ [Next]_vars => [Store!Next]_Store!storeVars
  BY StoreStep
<1> QED
  BY <1>1, <1>2, TypeCorrect, StopInvariant, IndexInvariant, PTL
     DEF Spec, RefinesFrameStore, Store!Spec

-----------------------------------------------------------------------------
(* The byte budget. *)

OfKind(k) == {f \in Frame : f.kind = k}

\* The frames of each kind whose bytes are taken: queued, being saved, being put.
Frames == [k \in Kinds |-> CountIn(queue, OfKind(k))
                           + (IF job # None /\ job.frame.kind = k THEN 1 ELSE 0)
                           + (IF stopLock = k THEN 1 ELSE 0)]
SizeOf(m) == FrameBytes["sick"] * m["sick"] + FrameBytes["area"] * m["area"]

\* The numbers of frames are natural numbers.
LEMMA FramesType == TypeOK => Frames \in [Kinds -> Nat]
<1> SUFFICES ASSUME TypeOK, NEW k \in Kinds
             PROVE  CountIn(queue, OfKind(k))
                      + (IF job # None /\ job.frame.kind = k THEN 1 ELSE 0)
                      + (IF stopLock = k THEN 1 ELSE 0) \in Nat
  BY DEF Frames
<1>1. CountIn(queue, OfKind(k)) \in Nat
  BY CountType DEF TypeOK
<1> QED
  BY <1>1

\* The budget is exact when it is the size of these frames.
LEMMA BytesOfFrames == TypeOK => (BytesExact <=> queuedBytes = SizeOf(Frames))
<1> SUFFICES ASSUME TypeOK PROVE BytesExact <=> queuedBytes = SizeOf(Frames)
  OBVIOUS
<1>1. ASSUME NEW k \in Kinds
      PROVE  Cardinality({i \in DOMAIN queue : queue[i] # Sentinel /\ queue[i].kind = k})
               = CountIn(queue, OfKind(k))
  <2>1. \A i \in DOMAIN queue : queue[i] \in Frame \cup {Sentinel}
    BY DEF TypeOK
  <2>2. Sentinel \notin Frame
    BY SaveAssumption DEF Sentinel
  <2>3. {i \in DOMAIN queue : queue[i] # Sentinel /\ queue[i].kind = k}
          = {i \in DOMAIN queue : queue[i] \in OfKind(k)}
    BY <2>1, <2>2 DEF OfKind
  <2> QED
    BY <2>3 DEF CountIn
<1> QED
  BY <1>1 DEF BytesExact, SizeOf, Frames, Kinds

\* A frame more takes its bytes.
LEMMA OneFrameMore ==
  ASSUME NEW m \in [Kinds -> Nat], NEW n \in [Kinds -> Nat], NEW k \in Kinds,
         \A j \in Kinds : n[j] = m[j] + (IF j = k THEN 1 ELSE 0)
  PROVE  SizeOf(n) = SizeOf(m) + FrameBytes[k] /\ SizeOf(m) \in Nat
<1>1. \A b, a \in Nat : b * (a + 1) = b * a + b /\ b * a \in Nat
  OBVIOUS
<1>2. "sick" \in Kinds /\ "area" \in Kinds /\ (k = "sick" \/ k = "area")
  BY DEF Kinds
<1>3. FrameBytes["sick"] \in Nat /\ FrameBytes["area"] \in Nat
  BY <1>2, SaveAssumption
<1>4. m["sick"] \in Nat /\ m["area"] \in Nat
  BY <1>2
<1>5. FrameBytes["sick"] * m["sick"] \in Nat /\ FrameBytes["area"] * m["area"] \in Nat
  BY <1>1, <1>3, <1>4
<1>6. CASE k = "sick"
  <2>1. n["sick"] = m["sick"] + 1 /\ n["area"] = m["area"]
    BY <1>2, <1>4, <1>6
  <2>2. FrameBytes["sick"] * n["sick"] = FrameBytes["sick"] * m["sick"] + FrameBytes["sick"]
    BY <1>1, <1>3, <1>4, <2>1
  <2> QED
    BY <1>3, <1>5, <1>6, <2>1, <2>2 DEF SizeOf
<1>7. CASE k = "area"
  <2>1. n["area"] = m["area"] + 1 /\ n["sick"] = m["sick"]
    BY <1>2, <1>4, <1>7
  <2>2. FrameBytes["area"] * n["area"] = FrameBytes["area"] * m["area"] + FrameBytes["area"]
    BY <1>1, <1>3, <1>4, <2>1
  <2> QED
    BY <1>3, <1>5, <1>7, <2>1, <2>2 DEF SizeOf
<1> QED
  BY <1>2, <1>6, <1>7

\* Every step takes the bytes of the frame it puts and gives back those of the
\* frame it is done with.
LEMMA BytesStep ==
  ASSUME TypeOK, StopInv, TypeOK', [Next]_vars, queuedBytes = SizeOf(Frames)
  PROVE  queuedBytes' = SizeOf(Frames)'
<1>0. Frames \in [Kinds -> Nat] /\ (Frames \in [Kinds -> Nat])'
  BY FramesType, PTL
<1>1. UNCHANGED <<queue, job, stopLock, queuedBytes>> => queuedBytes' = SizeOf(Frames)'
  BY DEF SizeOf, Frames
<1>2. ASSUME NEW c \in Coils, Trigger(c) PROVE queuedBytes' = SizeOf(Frames)'
  BY <1>1, <1>2 DEF Trigger, stopVars
<1>3. ASSUME NEW k \in Kinds, NEW c \in Coils, Reserve(k, c)
      PROVE  queuedBytes' = SizeOf(Frames)'
  BY <1>1, <1>3 DEF Reserve, stopVars
<1>4. ASSUME NEW k \in Kinds, QueueBufferRefuse(k) PROVE queuedBytes' = SizeOf(Frames)'
  BY <1>1, <1>4 DEF QueueBufferRefuse, stopVars
<1>5. ASSUME NEW k \in Kinds, QueueBufferBegin(k) PROVE queuedBytes' = SizeOf(Frames)'
  <2>1. \A j \in Kinds : Frames'[j] = Frames[j] + (IF j = k THEN 1 ELSE 0)
    <3>1. UNCHANGED <<queue, job>> /\ stopLock = None /\ stopLock' = k
      BY <1>5 DEF QueueBufferBegin
    <3>2. \A j \in Kinds : CountIn(queue, OfKind(j)) \in Nat
      BY CountType DEF TypeOK
    <3> QED
      BY <3>1, <3>2, SaveAssumption DEF Frames
  <2>2. SizeOf(Frames') = SizeOf(Frames) + FrameBytes[k]
    BY <1>0, <2>1, OneFrameMore
  <2> QED
    BY <1>5, <2>2 DEF QueueBufferBegin, SizeOf
<1>6. ASSUME NEW k \in Kinds, QueueBufferAccept(k) PROVE queuedBytes' = SizeOf(Frames)'
  <2>1. /\ job' = job /\ queuedBytes' = queuedBytes
        /\ stopLock = k /\ stopLock' = None /\ queue' = Append(queue, put[k])
    BY <1>6 DEF QueueBufferAccept
  <2>2. put[k] \in Frame /\ put[k].kind = k
    BY <2>1 DEF StopInv, TypeOK
  <2>3. \A j \in Kinds : CountIn(queue', OfKind(j))
                           = CountIn(queue, OfKind(j)) + (IF j = k THEN 1 ELSE 0)
    <3> SUFFICES ASSUME NEW j \in Kinds
                 PROVE  CountIn(queue', OfKind(j))
                          = CountIn(queue, OfKind(j)) + (IF j = k THEN 1 ELSE 0)
      OBVIOUS
    <3>1. queue \in Seq(Frame \cup {Sentinel}) /\ put[k] \in Frame \cup {Sentinel}
      BY <2>2 DEF TypeOK
    <3>2. CountIn(queue', OfKind(j))
            = CountIn(queue, OfKind(j)) + (IF put[k] \in OfKind(j) THEN 1 ELSE 0)
      BY <2>1, <3>1, CountPut
    <3> QED
      BY <2>2, <3>2 DEF OfKind
  <2>4. \A j \in Kinds : CountIn(queue, OfKind(j)) \in Nat
    BY CountType DEF TypeOK
  <2>5. Frames' = Frames
    BY <2>1, <2>3, <2>4, SaveAssumption DEF Frames
  <2> QED
    BY <2>1, <2>5 DEF SizeOf
<1>7. ASSUME NEW k \in Kinds, QueueBufferFull(k) PROVE queuedBytes' = SizeOf(Frames)'
  <2>1. \A j \in Kinds : Frames[j] = Frames'[j] + (IF j = k THEN 1 ELSE 0)
    <3>1. UNCHANGED <<queue, job>> /\ stopLock = k /\ stopLock' = None
      BY <1>7 DEF QueueBufferFull
    <3>2. \A j \in Kinds : CountIn(queue, OfKind(j)) \in Nat
      BY CountType DEF TypeOK
    <3> QED
      BY <3>1, <3>2, SaveAssumption DEF Frames
  <2>2. SizeOf(Frames) = SizeOf(Frames') + FrameBytes[k] /\ SizeOf(Frames') \in Nat
    BY <1>0, <2>1, OneFrameMore
  <2>3. FrameBytes[k] \in Nat
    BY SaveAssumption
  <2> QED
    BY <1>7, <2>2, <2>3 DEF QueueBufferFull, ReleaseQueueMemory, SizeOf
<1>8. CASE StopBegin \/ StopFull \/ StopRetry \/ StopTimeout
  <2>1. /\ UNCHANGED <<queue, job, queuedBytes>>
        /\ stopLock' # stopLock => {stopLock, stopLock'} = {"stop", None}
    BY <1>8 DEF StopBegin, StopFull, StopRetry, StopTimeout, StopInv
  <2>2. "stop" \notin Kinds /\ None \notin Kinds
    BY SaveAssumption DEF Kinds
  <2>3. Frames' = Frames
    BY <2>1, <2>2 DEF Frames
  <2> QED
    BY <2>1, <2>3 DEF SizeOf
<1>9. CASE StopEnqueue
  <2>1. /\ job' = job /\ queuedBytes' = queuedBytes
        /\ stopLock = "stop" /\ stopLock' = None /\ queue' = Append(queue, Sentinel)
    BY <1>9 DEF StopEnqueue, StopInv
  <2>2. "stop" \notin Kinds /\ None \notin Kinds /\ Sentinel \notin Frame
    BY SaveAssumption DEF Kinds, Sentinel
  <2>3. \A j \in Kinds : CountIn(queue', OfKind(j)) = CountIn(queue, OfKind(j))
    <3> SUFFICES ASSUME NEW j \in Kinds
                 PROVE  CountIn(queue', OfKind(j)) = CountIn(queue, OfKind(j))
      OBVIOUS
    <3>1. Sentinel \notin OfKind(j)
      BY <2>2 DEF OfKind
    <3>2. CountIn(queue, OfKind(j)) \in Nat
      BY CountType DEF TypeOK
    <3>3. CountIn(queue', OfKind(j))
            = CountIn(queue, OfKind(j)) + (IF Sentinel \in OfKind(j) THEN 1 ELSE 0)
      <4>1. queue \in Seq(Frame \cup {Sentinel}) /\ Sentinel \in Frame \cup {Sentinel}
        BY DEF TypeOK
      <4> QED
        BY <2>1, <4>1, CountPut
    <3> QED
      BY <3>1, <3>2, <3>3
  <2>4. Frames' = Frames
    BY <2>1, <2>2, <2>3 DEF Frames
  <2> QED
    BY <2>1, <2>4 DEF SizeOf
<1>10. CASE WorkerGet
  <2>1. /\ queue # <<>> /\ queue' = Tail(queue) /\ job = None
        /\ UNCHANGED <<stopLock, queuedBytes>> /\ Head(queue) \in Frame \cup {Sentinel}
    BY <1>10, GetFacts DEF WorkerGet, TypeOK
  <2>2. ASSUME NEW j \in Kinds
        PROVE  /\ CountIn(queue, OfKind(j)) = CountIn(queue', OfKind(j))
                                  + (IF Head(queue) \in OfKind(j) THEN 1 ELSE 0)
               /\ CountIn(queue', OfKind(j)) \in Nat
    BY <2>1, CountGet, CountType DEF TypeOK
  <2>3. CASE Head(queue) = Sentinel
    <3>1. \A j \in Kinds : Head(queue) \notin OfKind(j)
      BY <2>3, SaveAssumption DEF OfKind, Sentinel
    <3>2. job' = job
      BY <1>10, <2>3 DEF WorkerGet
    <3>3. Frames' = Frames
      BY <2>1, <2>2, <3>1, <3>2 DEF Frames
    <3> QED
      BY <2>1, <3>3 DEF SizeOf
  <2>4. CASE Head(queue) # Sentinel
    <3>1. job' = [frame |-> Head(queue), todo |-> Parts(Head(queue))]
      BY <1>10, <2>4 DEF WorkerGet
    <3>2. job' # None /\ job'.frame = Head(queue) /\ Head(queue) \in Frame
      <4>1. Head(queue) \in Frame
        BY <2>1, <2>4
      <4>2. job' \in Job
        BY <3>1, <4>1, PartsFacts DEF Job
      <4> QED
        BY <3>1, <4>1, <4>2, SaveAssumption
    <3>3. \A j \in Kinds : Head(queue) \in OfKind(j) <=> job'.frame.kind = j
      BY <3>2 DEF OfKind
    <3>4. Frames' = Frames
      BY <2>1, <2>2, <3>2, <3>3 DEF Frames
    <3> QED
      BY <2>1, <3>4 DEF SizeOf
  <2> QED
    BY <2>3, <2>4
<1>11. CASE SavePart
  <2>1. /\ UNCHANGED <<queue, stopLock, queuedBytes>> /\ job # None
        /\ job' = [frame |-> job.frame, todo |-> Tail(job.todo)]
    BY <1>11 DEF SavePart, stopVars
  <2>2. job' # None /\ job'.frame = job.frame
    <3>1. job \in Job /\ job.todo \in Seq(Folders \cup {"db"}) /\ job.todo # <<>>
      BY <1>11, <2>1 DEF SavePart, TypeOK, Job
    <3>2. Tail(job.todo) \in Seq(Folders \cup {"db"})
      BY <3>1, GetFacts
    <3>3. job' \in Job
      BY <2>1, <3>1, <3>2 DEF Job
    <3> QED
      BY <2>1, <3>3, SaveAssumption
  <2>3. Frames' = Frames
    BY <2>1, <2>2 DEF Frames
  <2> QED
    BY <2>1, <2>3 DEF SizeOf
<1>12. CASE SaveEnd
  <2> DEFINE k == job.frame.kind
  <2>1. UNCHANGED <<queue, stopLock>> /\ job # None /\ job' = None /\ k \in Kinds
    BY <1>12 DEF SaveEnd, stopVars, TypeOK, Job, Frame
  <2>2. \A j \in Kinds : Frames[j] = Frames'[j] + (IF j = k THEN 1 ELSE 0)
    <3>1. \A j \in Kinds : CountIn(queue, OfKind(j)) \in Nat
      BY CountType DEF TypeOK
    <3> QED
      BY <2>1, <3>1 DEF Frames
  <2>3. SizeOf(Frames) = SizeOf(Frames') + FrameBytes[k] /\ SizeOf(Frames') \in Nat
    BY <1>0, <2>1, <2>2, OneFrameMore
  <2>4. FrameBytes[k] \in Nat
    BY <2>1, SaveAssumption
  <2> QED
    BY <1>12, <2>3, <2>4 DEF SaveEnd, ReleaseQueueMemory, SizeOf
<1>13. CASE Restart
  <2>1. queue' = <<>> /\ job' = None /\ stopLock' = None /\ queuedBytes' = 0
    BY <1>13 DEF Restart
  <2>2. \A j \in Kinds : Frames'[j] = 0
    BY <2>1, CountEmpty, SaveAssumption DEF Frames
  <2>3. SizeOf(Frames') = 0
    BY <2>2, SaveAssumption DEF SizeOf, Kinds
  <2> QED
    BY <2>1, <2>3 DEF SizeOf
<1>14. CASE UNCHANGED vars
  BY <1>1, <1>14 DEF vars, stopVars
<1> QED
  BY <1>2, <1>3, <1>4, <1>5, <1>6, <1>7, <1>8, <1>9, <1>10, <1>11, <1>12, <1>13,
     <1>14 DEF Next, Worker

\* The byte budget never drifts: queued_bytes is the size of the frames queued, being
\* saved and being put, through full queues, failed writes, stops and restarts, so
\* that the floor of _release_queue_memory is never reached by a double release.
THEOREM BudgetExact == Spec => []BytesExact
<1>1. Init /\ TypeOK => queuedBytes = SizeOf(Frames)
  <2> SUFFICES ASSUME Init PROVE queuedBytes = SizeOf(Frames)
    OBVIOUS
  <2>1. \A j \in Kinds : Frames[j] = 0
    BY CountEmpty, SaveAssumption DEF Init, Frames
  <2>2. SizeOf(Frames) = 0
    BY <2>1, SaveAssumption DEF SizeOf, Kinds
  <2> QED
    BY <2>2 DEF Init
<1>2. TypeOK /\ TypeOK' /\ StopInv /\ queuedBytes = SizeOf(Frames) /\ [Next]_vars
        => (queuedBytes = SizeOf(Frames))'
  BY BytesStep
<1>3. TypeOK /\ queuedBytes = SizeOf(Frames) => BytesExact
  BY BytesOfFrames
<1> QED
  BY <1>1, <1>2, <1>3, TypeCorrect, StopInvariant, PTL DEF Spec
=============================================================================
