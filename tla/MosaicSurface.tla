---------------------------- MODULE MosaicSurface ----------------------------
(***************************************************************************)
(* One surface of the 3D algorithm: the thread ImageMosaic                 *)
(* (app/algorithm_runtime/SplicingService/ImageMosaic.py), its cameras,    *)
(* threads DataFolder (DataFolder.py), and the coordinator that asks the   *)
(* surface for one coil after another.  Between any two threads there are  *)
(* a request queue and a result queue of one place each (Base/property/    *)
(* WorkerBase.py), every wait has a deadline, and a result is recognised   *)
(* by its coil id alone.                                                   *)
(*                                                                         *)
(* Images are abstract: of a camera's data the model keeps the coil, the   *)
(* frames it was read by, and whether it is complete.                      *)
(***************************************************************************)
EXTENDS Naturals, Sequences

CONSTANTS
  NCam,        \* the cameras are 1..NCam, in the order of dataFolderList
  Coils,       \* coil ids
  MaxRequest,  \* model bound: requests of the coordinator
  Scenarios,   \* each a set of what may happen in one behaviour: "fails" (a camera
               \* cannot read a coil), "noPlan" (the frames of a coil cannot be
               \* listed), "late" (frames of a coil arrive after it was first
               \* processed), "stop"
  None         \* Python's None

ASSUME SurfaceAssumption ==
  /\ NCam \in Nat \ {0} /\ MaxRequest \in Nat
  /\ Scenarios \subseteq SUBSET {"fails", "noPlan", "late", "stop"}

Cameras == 1..NCam
Frames  == {"early", "all"}       \* the frames on disk, hence those of a plan

Work == [coil : Coils, plan : Frames \cup {None}]
Data == [coil : Coils, plan : Frames, kind : {"full", "partial", "none"}]

ASSUME NoneAssumption == None \notin Coils \cup Work \cup Data

VARIABLES
  events,     \* the scenario of the behaviour, chosen at its start
  frames,     \* the frames of each coil on disk
  coord,      \* the coordinator: "idle", "put", "others" (it waits for another
              \* surface), "get"
  asked,      \* the coil it asks for
  answer,     \* what get_data returned to it
  requests,   \* counted against the model bound
  slow,       \* a deadline has passed since the coordinator's last request
  producer, consumer,  \* the queues of the surface
  running,    \* _running
  stopper,    \* request_stop: "no", "put", "done"
  surface,    \* the surface: "top", "get", "plan", "ask", "collect", "stitch",
              \* "answer", "stop", "done"
  item,       \* the work item it handles
  next,       \* the camera it turns to next
  datas,      \* what it has from the cameras before that
  result,     \* the DataIntegration it puts
  stopEvent,  \* _stop_event of the cameras
  camQ, camOut,  \* the queues of the cameras
  cam,        \* each camera: "get", "work", "publish", "done"
  camItem,    \* the work item it handles
  camData     \* the data it publishes

coordVars   == <<coord, asked, answer, requests>>
surfaceVars == <<surface, item, next, datas, result>>
camVars     == <<cam, camItem, camData>>
stopVars    == <<running, stopper, stopEvent>>
queues      == <<producer, consumer, camQ, camOut>>
vars == <<events, frames, slow, coordVars, surfaceVars, camVars, stopVars,
          queues>>

Init ==
  /\ events \in Scenarios
  /\ frames = [c \in Coils |-> "early"]
  /\ coord = "idle" /\ asked = None /\ answer = None /\ requests = 0 /\ slow = FALSE
  /\ producer = <<>> /\ consumer = <<>> /\ running = TRUE /\ stopper = "no"
  /\ surface = "top" /\ item = None /\ next = 1 /\ datas = <<>> /\ result = None
  /\ stopEvent = FALSE
  /\ camQ = [c \in Cameras |-> <<>>] /\ camOut = [c \in Cameras |-> <<>>]
  /\ cam = [c \in Cameras |-> "get"]
  /\ camItem = [c \in Cameras |-> None] /\ camData = [c \in Cameras |-> None]

-----------------------------------------------------------------------------
\* The coordinator.  set_coil_id empties the result queue, then puts.
Request(c) ==
  /\ coord = "idle" /\ requests < MaxRequest
  /\ requests' = requests + 1
  /\ coord' = "put" /\ asked' = c /\ answer' = None /\ slow' = FALSE
  /\ consumer' = <<>>
  /\ UNCHANGED <<events, frames, surfaceVars, camVars, stopVars, producer, camQ,
                 camOut>>

PutRequest ==
  /\ coord = "put" /\ producer = <<>>
  /\ producer' = <<asked>>
  /\ coord' = "others"
  /\ UNCHANGED <<events, frames, slow, asked, answer, requests, surfaceVars,
                 camVars, stopVars, consumer, camQ, camOut>>

PutTimeout ==
  /\ coord = "put" /\ producer # <<>>
  /\ coord' = "idle"
  /\ slow' = TRUE
  /\ UNCHANGED <<events, frames, asked, answer, requests, surfaceVars, camVars,
                 stopVars, queues>>

OthersAnswered ==
  /\ coord = "others"
  /\ coord' = "get"
  /\ UNCHANGED <<events, frames, slow, asked, answer, requests, surfaceVars,
                 camVars, stopVars, queues>>

\* get_data: results of other coils are dropped.
Accept(r) == r.coil = asked

GetResult ==
  /\ coord = "get" /\ consumer # <<>>
  /\ consumer' = <<>>
  /\ IF Accept(Head(consumer))
     THEN coord' = "idle" /\ answer' = Head(consumer)
     ELSE UNCHANGED <<coord, answer>>
  /\ UNCHANGED <<events, frames, slow, asked, requests, surfaceVars, camVars,
                 stopVars, producer, camQ, camOut>>

GetTimeout ==
  /\ coord = "get"
  /\ coord' = "idle"
  /\ slow' = TRUE
  /\ UNCHANGED <<events, frames, asked, answer, requests, surfaceVars, camVars,
                 stopVars, queues>>

\* request_stop, by another thread.
RequestStop ==
  /\ "stop" \in events /\ stopper = "no"
  /\ running' = FALSE /\ stopper' = "put"
  /\ UNCHANGED <<events, frames, slow, coordVars, surfaceVars, camVars,
                 stopEvent, queues>>

PutSentinel ==
  /\ stopper = "put" /\ producer = <<>>
  /\ producer' = <<None>> /\ stopper' = "done"
  /\ UNCHANGED <<events, frames, slow, coordVars, surfaceVars, camVars, running,
                 stopEvent, consumer, camQ, camOut>>

SentinelTimeout ==
  /\ stopper = "put" /\ producer # <<>>
  /\ stopper' = "done"
  /\ UNCHANGED <<events, frames, slow, coordVars, surfaceVars, camVars, running,
                 stopEvent, queues>>

\* More frames of a coil are saved after it was first read.
LateFrames(c) ==
  /\ "late" \in events /\ frames[c] = "early"
  /\ frames' = [frames EXCEPT ![c] = "all"]
  /\ UNCHANGED <<events, slow, coordVars, surfaceVars, camVars, stopVars,
                 queues>>

-----------------------------------------------------------------------------
\* The surface's loop.
LoopsForever == surface' = "get"
LoopOrStop == surface' = IF running THEN "get" ELSE "stop"

Top ==
  /\ surface = "top"
  /\ LoopOrStop
  /\ UNCHANGED <<events, frames, slow, coordVars, item, next, datas, result,
                 camVars, stopVars, queues>>

GetWork ==
  /\ surface = "get" /\ producer # <<>>
  /\ producer' = <<>>
  /\ IF Head(producer) = None
     THEN surface' = "stop" /\ UNCHANGED item
     ELSE surface' = "plan" /\ item' = [coil |-> Head(producer), plan |-> None]
  /\ UNCHANGED <<events, frames, slow, coordVars, next, datas, result, camVars,
                 stopVars, consumer, camQ, camOut>>

Answer(ok) ==
  /\ surface' = "answer"
  /\ result' = [coil |-> item.coil, ok |-> ok, datas |-> IF ok THEN datas ELSE <<>>]

\* __getAllData__: the frames of all cameras are aligned first, which may fail;
\* without a plan each camera chooses its own frames.
ReadPlan ==
  /\ surface = "plan"
  /\ \/ /\ item' = [item EXCEPT !.plan = frames[item.coil]]
        /\ surface' = "ask" /\ UNCHANGED result
     \/ /\ "noPlan" \in events
        /\ surface' = "ask" /\ UNCHANGED <<item, result>>
     \/ "fails" \in events /\ Answer(FALSE) /\ UNCHANGED item
  /\ next' = 1 /\ datas' = <<>>
  /\ UNCHANGED <<events, frames, slow, coordVars, camVars, stopVars, queues>>

\* Each camera is asked in turn,
Advance(phase) ==
  IF next = NCam THEN surface' = phase /\ next' = 1
                 ELSE UNCHANGED surface /\ next' = next + 1

Ask ==
  /\ surface = "ask" /\ camQ[next] = <<>>
  /\ camQ' = [camQ EXCEPT ![next] = <<item>>]
  /\ Advance("collect")
  /\ UNCHANGED <<events, frames, slow, coordVars, item, datas, result, camVars,
                 stopVars, producer, consumer, camOut>>

AskTimeout ==
  /\ surface = "ask" /\ camQ[next] # <<>>
  /\ Answer(FALSE)
  /\ slow' = TRUE
  /\ UNCHANGED <<events, frames, coordVars, item, next, datas, camVars,
                 stopVars, queues>>

\* then each camera's result is taken in turn; those of other coils are dropped.
TakeAll(d) == TRUE
Takes(d) == d.coil = item.coil

Collect ==
  /\ surface = "collect" /\ camOut[next] # <<>>
  /\ LET d == Head(camOut[next])
     IN IF Takes(d) THEN datas' = Append(datas, d) /\ Advance("stitch")
                    ELSE UNCHANGED <<datas, surface, next>>
  /\ camOut' = [camOut EXCEPT ![next] = <<>>]
  /\ UNCHANGED <<events, frames, slow, coordVars, item, result, camVars,
                 stopVars, producer, consumer, camQ>>

CollectTimeout ==
  /\ surface = "collect"
  /\ Answer(FALSE)
  /\ slow' = TRUE
  /\ UNCHANGED <<events, frames, coordVars, item, next, datas, camVars,
                 stopVars, queues>>

\* set_original_data raises for a camera without metadata, __stitching__ leaves
\* out cameras without images and raises when none is left, and saving may fail.
Stitch ==
  /\ surface = "stitch"
  /\ LET kinds == {datas[c].kind : c \in Cameras}
     IN \/ Answer("none" \notin kinds /\ "full" \in kinds)
        \/ "fails" \in events /\ Answer(FALSE)
  /\ UNCHANGED <<events, frames, slow, coordVars, item, next, datas, camVars,
                 stopVars, queues>>

\* The result is put, or dropped when the queue stays full.
PutResult ==
  /\ surface = "answer" /\ consumer = <<>>
  /\ consumer' = <<result>>
  /\ surface' = "top"
  /\ item' = None /\ result' = None /\ datas' = <<>> /\ next' = 1
  /\ UNCHANGED <<events, frames, slow, coordVars, camVars, stopVars, producer,
                 camQ, camOut>>

ResultTimeout ==
  /\ surface = "answer" /\ consumer # <<>>
  /\ surface' = "top"
  /\ item' = None /\ result' = None /\ datas' = <<>> /\ next' = 1
  /\ slow' = TRUE
  /\ UNCHANGED <<events, frames, coordVars, camVars, stopVars, queues>>

\* _shutdown_workers: every camera is told, by the event and by a sentinel when
\* its queue has room.
Shutdown ==
  /\ surface = "stop"
  /\ stopEvent' = TRUE
  /\ camQ' = [c \in Cameras |-> IF camQ[c] = <<>> THEN <<None>> ELSE camQ[c]]
  /\ surface' = "done"
  /\ UNCHANGED <<events, frames, slow, coordVars, item, next, datas, result,
                 camVars, running, stopper, producer, consumer, camOut>>

-----------------------------------------------------------------------------
\* A camera.
CamGet(c) ==
  /\ cam[c] = "get" /\ camQ[c] # <<>>
  /\ camQ' = [camQ EXCEPT ![c] = <<>>]
  /\ IF Head(camQ[c]) = None
     THEN cam' = [cam EXCEPT ![c] = "done"] /\ UNCHANGED camItem
     ELSE /\ cam' = [cam EXCEPT ![c] = "work"]
          /\ camItem' = [camItem EXCEPT ![c] = Head(camQ[c])]
  /\ UNCHANGED <<events, frames, slow, coordVars, surfaceVars, camData,
                 stopVars, producer, consumer, camOut>>

CamStop(c) ==
  /\ cam[c] = "get" /\ stopEvent
  /\ cam' = [cam EXCEPT ![c] = "done"]
  /\ UNCHANGED <<events, frames, slow, coordVars, surfaceVars, camItem, camData,
                 stopVars, queues>>

\* Reading may fail before the metadata is there, or after it and before the
\* images are; what there is is published all the same.
CamWork(c) ==
  /\ cam[c] = "work"
  /\ \E kind \in {"full", "partial", "none"} :
       /\ kind = "full" \/ "fails" \in events
       /\ camData' = [camData EXCEPT ![c] =
            [coil |-> camItem[c].coil, kind |-> kind,
             plan |-> IF camItem[c].plan = None THEN frames[camItem[c].coil]
                                                ELSE camItem[c].plan]]
  /\ cam' = [cam EXCEPT ![c] = "publish"]
  /\ camItem' = [camItem EXCEPT ![c] = None]
  /\ UNCHANGED <<events, frames, slow, coordVars, surfaceVars, stopVars,
                 queues>>

PublishedOnce(c) ==
  /\ cam' = [cam EXCEPT ![c] = "done"]
  /\ camData' = [camData EXCEPT ![c] = None]
  /\ UNCHANGED <<events, frames, slow, coordVars, surfaceVars, camItem,
                 stopVars, producer, consumer, camQ>>
Published(c) ==
  /\ cam' = [cam EXCEPT ![c] = "get"]
  /\ camData' = [camData EXCEPT ![c] = None]
  /\ UNCHANGED <<events, frames, slow, coordVars, surfaceVars, camItem,
                 stopVars, producer, consumer, camQ>>

Publish(c) ==
  /\ cam[c] = "publish" /\ camOut[c] = <<>>
  /\ camOut' = [camOut EXCEPT ![c] = <<camData[c]>>]
  /\ Published(c)

\* _publish_result on a queue that stays full: one result is taken out, and the
\* new one finds room, for no other thread puts.
KeepOld(c) == UNCHANGED camOut
PutNew(c) == camOut' = [camOut EXCEPT ![c] = <<camData[c]>>]

Replace(c) ==
  /\ cam[c] = "publish" /\ camOut[c] # <<>>
  /\ PutNew(c)
  /\ Published(c)

-----------------------------------------------------------------------------
\* Waits that end without what was waited for.
Slow == PutTimeout \/ GetTimeout \/ AskTimeout \/ CollectTimeout \/ ResultTimeout

Coordinator == PutRequest \/ OthersAnswered \/ GetResult
Surface ==
  Top \/ GetWork \/ ReadPlan \/ Ask \/ Collect \/ Stitch \/ PutResult \/ Shutdown
Camera(c) == CamGet(c) \/ CamStop(c) \/ CamWork(c) \/ Publish(c) \/ Replace(c)
Stopper == PutSentinel \/ SentinelTimeout

Next ==
  \/ \E c \in Coils : Request(c) \/ LateFrames(c)
  \/ Coordinator \/ RequestStop \/ Stopper \/ Surface \/ Slow
  \/ \E c \in Cameras : Camera(c)

Spec == Init /\ [][Next]_vars

\* Every thread that can go on does.  Of the deadlines only the one of
\* _publish_result is needed, and after request_stop those of the surface: a
\* thread may have to wait.
FairSpec ==
  /\ Spec /\ WF_vars(Coordinator) /\ WF_vars(Surface) /\ WF_vars(Stopper)
  /\ \A c \in Cameras : WF_vars(Camera(c))
  /\ WF_vars(~running /\ (AskTimeout \/ CollectTimeout \/ ResultTimeout))

-----------------------------------------------------------------------------
Result == [coil : Coils, ok : BOOLEAN, datas : Seq(Data)]

\* Every variable has its type.
TypeOK ==
  /\ frames \in [Coils -> Frames]
  /\ coord \in {"idle", "put", "others", "get"} /\ asked \in Coils \cup {None}
  /\ answer \in Result \cup {None} /\ requests \in 0..MaxRequest
  /\ slow \in BOOLEAN
  /\ producer \in {<<>>} \cup {<<x>> : x \in Coils \cup {None}}
  /\ consumer = <<>> \/ (Len(consumer) = 1 /\ consumer[1] \in Result)
  /\ running \in BOOLEAN /\ stopEvent \in BOOLEAN /\ stopper \in {"no", "put", "done"}
  /\ surface \in {"top", "get", "plan", "ask", "collect", "stitch", "answer", "stop",
                  "done"}
  /\ item \in Work \cup {None} /\ next \in Cameras
  /\ datas \in Seq(Data) /\ result \in Result \cup {None}
  /\ camQ \in [Cameras -> {<<>>} \cup {<<x>> : x \in Work \cup {None}}]
  /\ camOut \in [Cameras -> {<<>>} \cup {<<d>> : d \in Data}]
  /\ cam \in [Cameras -> {"get", "work", "publish", "done"}]
  /\ camItem \in [Cameras -> Work \cup {None}]
  /\ camData \in [Cameras -> Data \cup {None}]

\* A result the coordinator accepts was made for the coil it asked for, from data
\* of that coil and of every camera: leftovers of earlier coils, in any of the
\* queues, are not mixed in (get_data of ImageMosaic and of DataFolder).
CoilsMatch ==
  answer # None =>
    /\ answer.coil = asked
    /\ answer.ok => /\ Len(answer.datas) = NCam
                    /\ \A c \in Cameras : answer.datas[c].coil = asked

\* The newest request a camera has been given, wherever it is by now: waiting, in
\* work, being published or answered.
Newest(c) ==
  IF camQ[c] # <<>> THEN camQ[c][1]
  ELSE IF cam[c] = "work" THEN camItem[c]
  ELSE IF cam[c] = "publish" THEN camData[c]
  ELSE IF camOut[c] # <<>> THEN camOut[c][1] ELSE None

\* While the surface waits for a camera's data of a coil, the newest request the
\* camera has been given is for that coil and not yet answered: neither is it among
\* the results thrown away when a queue is full (DataFolder._publish_result), nor
\* taken with those of other coils.
NoLostResult ==
  surface = "collect" =>
    \A c \in next..NCam : Newest(c) # None /\ Newest(c).coil = item.coil

\* Whatever deadlines passed before, whatever requests were given up and results
\* left behind: a request during which no deadline passes gets its result.
Recovers == coord = "get" ~> (coord # "get" \/ slow \/ ~running)

\* After request_stop the surface and its cameras end, also when its sentinel
\* found the queue full.
StopEnds ==
  ~running ~> (surface = "done" /\ \A c \in Cameras : cam[c] = "done")

\* The cameras of a result were read by one plan: "Map each camera sequence onto a
\* shared line-scan time axis" (capture_paths.py, align_capture_frame_sequences).
FramesAligned ==
  (answer # None /\ answer.ok) =>
    \A c, d \in Cameras : answer.datas[c].plan = answer.datas[d].plan

=============================================================================
