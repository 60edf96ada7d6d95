--------------------------- MODULE SplicingProofs ---------------------------
(***************************************************************************)
(* The coordinator of SplicingService, and its two parts that hand data on *)
(* through queues.                                                         *)
(*                                                                         *)
(* The coordinator: for any number of coils, any history and any restarts, *)
(* the cursor leaves no coil behind.                                       *)
(*                                                                         *)
(* A 3D surface: for any number of cameras and any coils, results of one   *)
(* coil are never mixed into those of another, and a camera's result that  *)
(* is waited for is never thrown away.                                     *)
(*                                                                         *)
(* The image saver: for any adders, workers and queue sizes, a flush() or  *)
(* join() that reports success has lost nothing.                           *)
(***************************************************************************)
EXTENDS MosaicCoordinator, MosaicSurface, ImageSaver, QueueLemmas, TLAPS

\* The types of what travels through the queues.
QueueTypes ==
  /\ camQ \in [Cameras -> Seq(Work \cup {None})]
  /\ camOut \in [Cameras -> Seq(Data)]
  /\ cam \in [Cameras -> {"get", "work", "publish", "done"}]
  /\ camItem \in [Cameras -> Work \cup {None}]
  /\ camData \in [Cameras -> Data \cup {None}]
  /\ producer \in Seq(Coils \cup {None})
  /\ frames \in [Coils -> Frames] /\ asked \in Coils \cup {None}

\* A camera in work has an item, one that publishes has data; queues hold at most
\* one element.
CameraBusy ==
  \A c \in Cameras :
    /\ cam[c] = "work" => camItem[c] \in Work
    /\ cam[c] = "publish" => camData[c] \in Data
    /\ Len(camQ[c]) <= 1 /\ Len(camOut[c]) <= 1

\* What the surface has so far is the item's coil, camera by camera.
Collected ==
  /\ next \in Cameras /\ datas \in Seq(Data)
  /\ surface \in {"plan", "ask", "collect", "stitch", "answer"} => item \in Work
  /\ surface = "ask" => datas = <<>>
  /\ surface = "collect" => Len(datas) = next - 1
  /\ surface = "stitch" => Len(datas) = NCam
  /\ surface \in {"ask", "collect", "stitch"} =>
       \A i \in 1..Len(datas) : datas[i].coil = item.coil

\* A result without error has the data of every camera, all of its coil.
Whole(r) ==
  r.ok => /\ Len(r.datas) = NCam
          /\ \A c \in Cameras : r.datas[c].coil = r.coil

WholeResults ==
  /\ surface = "answer" => result \in Result /\ Whole(result)
  /\ consumer \in Seq(Result) /\ \A i \in 1..Len(consumer) : Whole(consumer[i])
  /\ answer # None => Whole(answer) /\ answer.coil = asked

\* The newest request of every camera already asked, and not yet collected from, is
\* for the coil of the item.
OnItsWay(c) == Newest(c) # None /\ Newest(c).coil = item.coil

Pipeline ==
  /\ surface = "ask" => \A c \in 1..(next - 1) : OnItsWay(c)
  /\ surface = "collect" => \A c \in next..NCam : OnItsWay(c)

SurfaceInv == QueueTypes /\ CameraBusy /\ Collected /\ WholeResults /\ Pipeline

\* A step that changes neither the surface, nor a camera, nor what is answered.
LEMMA Aside ==
  ASSUME SurfaceInv, producer' \in Seq(Coils \cup {None}), frames' \in [Coils -> Frames],
         UNCHANGED <<asked, answer, surfaceVars, camVars, consumer, camQ, camOut>>
  PROVE  SurfaceInv'
BY DEF SurfaceInv, QueueTypes, CameraBusy, Collected, WholeResults, Pipeline, OnItsWay,
   Newest, surfaceVars, camVars, Whole

\* The invariant holds initially: the queues are empty.
LEMMA SurfaceInit == Init => SurfaceInv
BY SurfaceAssumption DEF Init, SurfaceInv, QueueTypes, CameraBusy, Collected,
   WholeResults, Pipeline, Cameras, Frames

\* The coordinator, the thread that stops the surface, and frames that arrive.
LEMMA Outside ==
  ASSUME SurfaceInv,
         \/ \E c \in Coils : Request(c) \/ LateFrames(c)
         \/ Coordinator \/ RequestStop \/ Stopper \/ PutTimeout \/ GetTimeout
         \/ UNCHANGED vars
  PROVE  SurfaceInv'
<1>1. ASSUME NEW c \in Coils, Request(c) PROVE SurfaceInv'
  BY <1>1 DEF Request, SurfaceInv, QueueTypes, CameraBusy, Collected, WholeResults,
     Pipeline, OnItsWay, Newest, surfaceVars, camVars, Whole
<1>2. ASSUME NEW c \in Coils, LateFrames(c) PROVE SurfaceInv'
  BY <1>2, Aside DEF LateFrames, SurfaceInv, QueueTypes, Frames, coordVars, queues
<1>3. CASE GetResult
  <2>1. /\ consumer # <<>> /\ consumer' = <<>>
        /\ Head(consumer) = consumer[1] /\ Len(consumer) # 0
    BY <1>3 DEF GetResult, SurfaceInv, WholeResults
  <2>2. Whole(Head(consumer))
    BY <2>1 DEF SurfaceInv, WholeResults
  <2>3. answer' # None => Whole(answer)' /\ answer'.coil = asked'
    <3>1. CASE Accept(Head(consumer))
      BY <1>3, <2>2, <3>1 DEF GetResult, Accept, Whole
    <3>2. CASE ~Accept(Head(consumer))
      BY <1>3, <3>2 DEF GetResult, SurfaceInv, WholeResults, Whole
    <3> QED
      BY <3>1, <3>2
  <2> QED
    BY <1>3, <2>1, <2>3 DEF GetResult, SurfaceInv, QueueTypes, CameraBusy, Collected,
       WholeResults, Pipeline, OnItsWay, Newest, surfaceVars, camVars, Whole
<1>4. CASE PutRequest
  <2>1. producer' \in Seq(Coils \cup {None}) /\ frames' \in [Coils -> Frames]
    BY <1>4 DEF PutRequest, SurfaceInv, QueueTypes
  <2> QED
    BY <1>4, <2>1, Aside DEF PutRequest
<1>5. CASE OthersAnswered \/ PutTimeout \/ GetTimeout \/ RequestStop \/ SentinelTimeout
           \/ UNCHANGED vars
  <2>1. UNCHANGED <<producer, frames>>
    BY <1>5 DEF OthersAnswered, PutTimeout, GetTimeout, RequestStop, SentinelTimeout,
       vars, queues
  <2>2. UNCHANGED <<asked, answer, surfaceVars, camVars, consumer, camQ, camOut>>
    BY <1>5 DEF OthersAnswered, PutTimeout, GetTimeout, RequestStop, SentinelTimeout,
       vars, queues, coordVars
  <2> QED
    BY <2>1, <2>2, Aside DEF SurfaceInv, QueueTypes
<1>6. CASE PutSentinel
  <2>1. producer' \in Seq(Coils \cup {None}) /\ frames' \in [Coils -> Frames]
    BY <1>6 DEF PutSentinel, SurfaceInv, QueueTypes
  <2> QED
    BY <1>6, <2>1, Aside DEF PutSentinel, coordVars
<1> QED
  BY <1>1, <1>2, <1>3, <1>4, <1>5, <1>6 DEF Coordinator, Stopper

-----------------------------------------------------------------------------
\* A result made of complete data is whole.
LEMMA Answered ==
  ASSUME SurfaceInv, NEW ok \in BOOLEAN, Answer(ok), item \in Work,
         ok => surface = "stitch", UNCHANGED <<frames, coordVars, camVars, queues>>,
         next' \in Cameras, datas' \in Seq(Data), item' \in Work
  PROVE  SurfaceInv'
<1>1. result' \in Result /\ Whole(result')
  BY DEF Answer, Result, SurfaceInv, Collected, Whole, Work, Cameras
<1> QED
  BY <1>1 DEF SurfaceInv, QueueTypes, CameraBusy, Collected, WholeResults, Pipeline,
     Answer, coordVars, camVars, queues, Whole

\* The surface.
LEMMA Surfaces ==
  ASSUME SurfaceInv, Surface \/ AskTimeout \/ CollectTimeout \/ ResultTimeout
  PROVE  SurfaceInv'
<1> USE SurfaceAssumption
<1>1. CASE Top
  BY <1>1 DEF Top, LoopOrStop, SurfaceInv, QueueTypes, CameraBusy, Collected,
     WholeResults, Whole, Pipeline, coordVars, camVars, queues
<1>2. CASE PutResult \/ ResultTimeout
  <2>1. 1 \in Cameras /\ surface' = "top" /\ next' = 1 /\ datas' = <<>>
    BY <1>2 DEF PutResult, ResultTimeout, Cameras
  <2>2. consumer' \in Seq(Result) /\ \A i \in 1..Len(consumer') : Whole(consumer'[i])
    <3>1. CASE PutResult
      <4>1. consumer' = <<result>> /\ result \in Result /\ Whole(result)
        BY <3>1 DEF PutResult, SurfaceInv, WholeResults
      <4> QED
        BY <4>1
    <3>2. CASE ResultTimeout
      BY <3>2 DEF ResultTimeout, SurfaceInv, WholeResults, queues
    <3> QED
      BY <1>2, <3>1, <3>2
  <2>3. UNCHANGED <<frames, asked, answer, camVars, producer, camQ, camOut>>
    BY <1>2 DEF PutResult, ResultTimeout, queues, coordVars
  <2>4. Collected' /\ Pipeline'
    BY <2>1 DEF Collected, Pipeline
  <2>5. WholeResults'
    BY <2>1, <2>2, <2>3 DEF SurfaceInv, WholeResults, Whole
  <2> QED
    BY <2>3, <2>4, <2>5 DEF SurfaceInv, QueueTypes, CameraBusy, camVars
<1>3. CASE GetWork
  <2>1. /\ producer' = <<>> /\ surface' \in {"stop", "plan"}
        /\ UNCHANGED <<frames, coordVars, next, datas, result, camVars, consumer,
                       camQ, camOut>>
    BY <1>3 DEF GetWork
  <2>2. surface' = "plan" => item' \in Work
    BY <1>3 DEF GetWork, Work, SurfaceInv, QueueTypes
  <2>3. Collected'
    BY <2>1, <2>2 DEF SurfaceInv, Collected
  <2> QED
    BY <2>1, <2>3 DEF SurfaceInv, QueueTypes, CameraBusy, WholeResults, Whole, Pipeline,
       coordVars, camVars
<1>4. CASE ReadPlan
  <2>1. item \in Work /\ item' \in Work /\ 1 \in Cameras
    <3>1. item \in Work /\ 1 \in Cameras
      BY <1>4, SurfaceAssumption DEF ReadPlan, SurfaceInv, Collected, Cameras
    <3>2. frames[item.coil] \in Frames
      BY <3>1 DEF SurfaceInv, QueueTypes, Work
    <3>3. CASE UNCHANGED item
      BY <3>1, <3>3
    <3>4. CASE item' = [item EXCEPT !.plan = frames[item.coil]]
      BY <3>1, <3>2, <3>4 DEF Work
    <3> QED
      BY <1>4, <3>1, <3>3, <3>4 DEF ReadPlan
  <2>2. CASE Answer(FALSE)
    <3>1. /\ UNCHANGED <<frames, coordVars, camVars, queues>>
          /\ next' \in Cameras /\ datas' \in Seq(Data)
      BY <1>4, <2>1 DEF ReadPlan
    <3> QED
      BY <2>1, <2>2, <3>1, Answered
  <2>3. CASE surface' = "ask" /\ UNCHANGED result
    BY <1>4, <2>1, <2>3 DEF ReadPlan, SurfaceInv, QueueTypes, CameraBusy, Collected,
       WholeResults, Whole, Pipeline, coordVars, camVars, queues
  <2> QED
    BY <1>4, <2>2, <2>3 DEF ReadPlan
<1>5. CASE Ask
  <2>1. /\ surface = "ask" /\ item \in Work /\ datas = <<>> /\ next \in 1..NCam
        /\ UNCHANGED <<frames, coordVars, item, datas, result, camVars, producer,
                       consumer, camOut>>
        /\ camQ' = [camQ EXCEPT ![next] = <<item>>]
    BY <1>5 DEF Ask, SurfaceInv, Collected, Cameras
  <2>2. \/ surface' = "collect" /\ next' = 1 /\ next = NCam
        \/ surface' = "ask" /\ next' = next + 1 /\ next < NCam
    BY <1>5, <2>1 DEF Ask, Advance
  <2>3. QueueTypes' /\ CameraBusy'
    BY <2>1 DEF SurfaceInv, QueueTypes, CameraBusy, Cameras, camVars, coordVars
  <2>4. Collected' /\ WholeResults'
    BY <2>1, <2>2 DEF SurfaceInv, Collected, WholeResults, Whole, Cameras, coordVars
  <2>5. \A c \in 1..next : OnItsWay(c)'
    <3>1. ASSUME NEW c \in 1..next, c = next PROVE OnItsWay(c)'
      BY <2>1, <3>1, NoneAssumption DEF OnItsWay, Newest, SurfaceInv, QueueTypes, Cameras
    <3>2. ASSUME NEW c \in 1..next, c # next PROVE OnItsWay(c)'
      BY <2>1, <3>2 DEF OnItsWay, Newest, SurfaceInv, Pipeline, QueueTypes, Cameras,
         camVars
    <3> QED
      BY <3>1, <3>2
  <2>6. Pipeline'
    BY <2>1, <2>2, <2>5 DEF Pipeline
  <2> QED
    BY <2>3, <2>4, <2>6 DEF SurfaceInv
<1>6. CASE AskTimeout \/ CollectTimeout \/ Stitch
  <2>1. /\ surface \in {"ask", "collect", "stitch"} /\ item \in Work
        /\ UNCHANGED <<frames, coordVars, item, next, datas, camVars, queues>>
        /\ next \in Cameras /\ datas \in Seq(Data)
    BY <1>6 DEF AskTimeout, CollectTimeout, Stitch, SurfaceInv, Collected
  <2>2. CASE Answer(FALSE)
    BY <2>1, <2>2, Answered
  <2>3. CASE ~Answer(FALSE)
    <3>1. surface = "stitch" /\ \E ok \in BOOLEAN : Answer(ok)
      BY <1>6, <2>3 DEF AskTimeout, CollectTimeout, Stitch
    <3> QED
      BY <2>1, <3>1, Answered
  <2> QED
    BY <2>2, <2>3
<1>7. CASE Collect
  <2> DEFINE d == Head(camOut[next])
  <2>1. /\ surface = "collect" /\ item \in Work /\ next \in 1..NCam
        /\ Len(datas) = next - 1
        /\ UNCHANGED <<frames, coordVars, item, result, camVars, producer, consumer,
                       camQ>>
        /\ camOut' = [camOut EXCEPT ![next] = <<>>] /\ camOut[next] # <<>>
    BY <1>7 DEF Collect, SurfaceInv, Collected, Cameras
  <2>2. d \in Data /\ d = camOut[next][1]
    BY <2>1 DEF SurfaceInv, QueueTypes, Cameras
  <2>3. \/ Takes(d) /\ datas' = Append(datas, d) /\ Advance("stitch")
        \/ ~Takes(d) /\ UNCHANGED <<datas, surface, next>>
    BY <1>7 DEF Collect
  <2>4. QueueTypes' /\ CameraBusy'
    BY <2>1 DEF SurfaceInv, QueueTypes, CameraBusy, Cameras, camVars, coordVars
  <2>5. WholeResults'
    BY <2>1, <2>3 DEF SurfaceInv, WholeResults, Whole, coordVars, Advance
  <2>6. CASE Takes(d)
    <3>1. \/ surface' = "stitch" /\ next' = 1 /\ next = NCam
          \/ surface' = "collect" /\ next' = next + 1 /\ next < NCam
      BY <2>1, <2>3, <2>6 DEF Advance
    <3>2. /\ datas' \in Seq(Data) /\ Len(datas') = next
          /\ \A i \in 1..Len(datas') : datas'[i].coil = item.coil
      <4>1. datas \in Seq(Data) /\ \A i \in 1..Len(datas) : datas[i].coil = item.coil
        BY <2>1 DEF SurfaceInv, Collected
      <4>2. datas' = Append(datas, d) /\ d.coil = item.coil
        BY <2>3, <2>6 DEF Takes
      <4> HIDE DEF d
      <4> QED
        BY <2>1, <2>2, <4>1, <4>2
    <3>3. Collected'
      BY <2>1, <3>1, <3>2 DEF Collected, Cameras
    <3>4. ASSUME NEW c \in (next + 1)..NCam PROVE OnItsWay(c)'
      <4>1. c \in Cameras /\ c # next /\ OnItsWay(c)
        BY <2>1 DEF SurfaceInv, Pipeline, Cameras
      <4>2. camOut'[c] = camOut[c] /\ camQ' = camQ /\ item' = item
        BY <2>1, <4>1 DEF SurfaceInv, QueueTypes
      <4> QED
        BY <2>1, <4>1, <4>2 DEF OnItsWay, Newest, camVars
    <3>5. Pipeline'
      BY <2>1, <3>1, <3>4 DEF Pipeline
    <3> QED
      BY <2>4, <2>5, <3>3, <3>5 DEF SurfaceInv
  <2>7. CASE ~Takes(d)
    <3>1. Collected'
      BY <2>1, <2>3, <2>7 DEF SurfaceInv, Collected
    <3>2. ASSUME NEW c \in next..NCam PROVE OnItsWay(c)'
      <4>1. c \in Cameras /\ OnItsWay(c) /\ camQ' = camQ /\ item' = item
        BY <2>1 DEF SurfaceInv, Pipeline, Cameras
      <4>2. CASE c = next
        BY <2>1, <2>2, <2>7, <4>1, <4>2 DEF OnItsWay, Newest, Takes, camVars
      <4>3. CASE c # next
        <5>1. camOut'[c] = camOut[c]
          BY <2>1, <4>1, <4>3 DEF SurfaceInv, QueueTypes
        <5> QED
          BY <2>1, <4>1, <5>1 DEF OnItsWay, Newest, camVars
      <4> QED
        BY <4>2, <4>3
    <3>3. Pipeline'
      BY <2>1, <2>3, <2>7, <3>2 DEF Pipeline
    <3> QED
      BY <2>4, <2>5, <3>1, <3>3 DEF SurfaceInv
  <2> QED
    BY <2>6, <2>7
<1>8. CASE Shutdown
  <2>1. /\ surface' = "done" /\ surface = "stop"
        /\ UNCHANGED <<frames, coordVars, item, next, datas, result, camVars, producer,
                       consumer, camOut>>
        /\ camQ' = [c \in Cameras |-> IF camQ[c] = <<>> THEN <<None>> ELSE camQ[c]]
    BY <1>8 DEF Shutdown
  <2>2. QueueTypes' /\ CameraBusy'
    <3>1. /\ camQ' \in [Cameras -> Seq(Work \cup {None})]
          /\ \A c \in Cameras : Len(camQ'[c]) <= 1
      <4>1. <<None>> \in Seq(Work \cup {None}) /\ Len(<<None>>) = 1
        OBVIOUS
      <4> QED
        <5>1. \A c \in Cameras : camQ[c] \in Seq(Work \cup {None}) /\ Len(camQ[c]) <= 1
          BY DEF SurfaceInv, QueueTypes, CameraBusy
        <5>2. ASSUME NEW c \in Cameras
              PROVE  camQ'[c] \in Seq(Work \cup {None}) /\ Len(camQ'[c]) <= 1
          <6>1. camQ'[c] = camQ[c] \/ camQ'[c] = <<None>>
            BY <2>1
          <6>2. CASE camQ'[c] = camQ[c]
            BY <5>1, <6>2
          <6>3. CASE camQ'[c] = <<None>>
            BY <4>1, <6>3
          <6> QED
            BY <6>1, <6>2, <6>3
        <5> QED
          BY <2>1, <5>2
    <3> QED
      BY <2>1, <3>1 DEF SurfaceInv, QueueTypes, CameraBusy, camVars, coordVars
  <2> QED
    BY <2>1, <2>2 DEF SurfaceInv, Collected, WholeResults, Whole, Pipeline, coordVars
<1> QED
  BY <1>1, <1>2, <1>3, <1>4, <1>5, <1>6, <1>7, <1>8 DEF Surface

\* What a camera reads is data of the coil it was given.
LEMMA Reads ==
  ASSUME SurfaceInv, NEW c \in Cameras, CamWork(c)
  PROVE  \E d \in Data : camData' = [camData EXCEPT ![c] = d] /\ d.coil = camItem[c].coil
<1>1. camItem[c] \in Work
  BY DEF CamWork, SurfaceInv, CameraBusy
<1> DEFINE plan == IF camItem[c].plan = None THEN frames[camItem[c].coil]
                                           ELSE camItem[c].plan
<1>2. camItem[c].coil \in Coils /\ plan \in Frames
  BY <1>1 DEF Work, SurfaceInv, QueueTypes
<1>3. PICK kind \in {"full", "partial", "none"} :
        camData' = [camData EXCEPT ![c] =
                     [coil |-> camItem[c].coil, kind |-> kind, plan |-> plan]]
  BY DEF CamWork
<1> HIDE DEF plan
<1>4. [coil |-> camItem[c].coil, kind |-> kind, plan |-> plan] \in Data
  BY <1>2 DEF Data
<1> QED
  BY <1>3, <1>4

\* A step of a camera moves its newest request along.
LEMMA CameraStep ==
  ASSUME SurfaceInv, NEW c \in Cameras, Camera(c)
  PROVE  SurfaceInv'
<1>1. QueueTypes' /\ CameraBusy'
  <2>1. CASE CamGet(c)
    <3>1. Head(camQ[c]) \in Work \cup {None}
      BY <2>1 DEF CamGet, SurfaceInv, QueueTypes
    <3>2. QueueTypes'
      <4>1. camQ' = [camQ EXCEPT ![c] = <<>>] /\ <<>> \in Seq(Work \cup {None})
        BY <2>1 DEF CamGet
      <4>2. CASE Head(camQ[c]) = None
        BY <2>1, <4>1, <4>2 DEF CamGet, SurfaceInv, QueueTypes, coordVars
      <4>3. CASE Head(camQ[c]) # None
        BY <2>1, <3>1, <4>1, <4>3 DEF CamGet, SurfaceInv, QueueTypes, coordVars
      <4> QED
        BY <4>2, <4>3
    <3>3. CameraBusy'
      BY <2>1, <3>1 DEF CamGet, SurfaceInv, QueueTypes, CameraBusy, coordVars
    <3> QED
      BY <3>2, <3>3
  <2>2. CASE CamStop(c)
    BY <2>2 DEF CamStop, SurfaceInv, QueueTypes, CameraBusy, coordVars, queues
  <2>3. CASE CamWork(c)
    <3>1. PICK d \in Data : camData' = [camData EXCEPT ![c] = d]
      BY <2>3, Reads
    <3>2. QueueTypes'
      BY <2>3, <3>1 DEF CamWork, SurfaceInv, QueueTypes, coordVars, queues
    <3>3. CameraBusy'
      BY <2>3, <3>1 DEF CamWork, SurfaceInv, QueueTypes, CameraBusy, coordVars, queues
    <3> QED
      BY <3>2, <3>3
  <2>4. CASE Publish(c) \/ Replace(c)
    <3>1. /\ cam[c] = "publish" /\ Published(c)
          /\ camOut' = [camOut EXCEPT ![c] = <<camData[c]>>]
      BY <2>4 DEF Publish, Replace, PutNew
    <3>2. camData[c] \in Data
      BY <3>1 DEF SurfaceInv, CameraBusy
    <3>3. QueueTypes'
      BY <3>1, <3>2 DEF Published, SurfaceInv, QueueTypes, coordVars
    <3>4. CameraBusy'
      BY <3>1, <3>2 DEF Published, SurfaceInv, QueueTypes, CameraBusy, coordVars
    <3> QED
      BY <3>3, <3>4
  <2> QED
    BY <2>1, <2>2, <2>3, <2>4 DEF Camera
<1>2. Collected' /\ WholeResults'
  BY DEF Camera, CamGet, CamStop, CamWork, Publish, Replace, Published, SurfaceInv,
     Collected, WholeResults, Whole, coordVars, surfaceVars, queues
<1>3. UNCHANGED <<surface, item, next>>
  BY DEF Camera, CamGet, CamStop, CamWork, Publish, Replace, Published, surfaceVars
<1>4. ASSUME NEW d \in Cameras, OnItsWay(d) PROVE OnItsWay(d)'
  <2>1. CASE d # c
    BY <1>3, <1>4, <2>1 DEF Camera, CamGet, CamStop, CamWork, Publish, Replace, Published,
       PutNew, OnItsWay, Newest, SurfaceInv, QueueTypes, queues, camVars
  <2>2. CASE d = c /\ CamGet(c)
    BY <1>3, <1>4, <2>2 DEF CamGet, OnItsWay, Newest, SurfaceInv, QueueTypes, CameraBusy
  <2>3. CASE d = c /\ CamStop(c)
    BY <1>3, <1>4, <2>3 DEF CamStop, OnItsWay, Newest, SurfaceInv, QueueTypes, queues
  <2>4. CASE d = c /\ CamWork(c)
    <3>1. PICK x \in Data : /\ camData' = [camData EXCEPT ![c] = x]
                            /\ x.coil = camItem[c].coil
      BY <2>4, Reads
    <3> QED
      BY <1>3, <1>4, <2>4, <3>1, NoneAssumption DEF CamWork, OnItsWay, Newest, SurfaceInv,
         QueueTypes, queues
  <2>5. CASE d = c /\ (Publish(c) \/ Replace(c))
    <3>1. /\ cam[c] = "publish" /\ Published(c)
          /\ camOut' = [camOut EXCEPT ![c] = <<camData[c]>>]
      BY <2>5 DEF Publish, Replace, PutNew
    <3>2. camQ' = camQ /\ camOut'[c] = <<camData[c]>> /\ cam'[c] = "get"
      BY <3>1 DEF Published, SurfaceInv, QueueTypes
    <3> QED
      <4>1. Newest(c)' = Newest(c)
        BY <3>1, <3>2 DEF Newest
      <4> QED
        BY <1>3, <1>4, <2>5, <4>1 DEF OnItsWay
  <2> QED
    BY <2>1, <2>2, <2>3, <2>4, <2>5 DEF Camera
<1>5. Pipeline'
  <2>1. next \in 1..NCam
    BY DEF SurfaceInv, Collected, Cameras
  <2> QED
    BY <1>3, <1>4, <2>1, SurfaceAssumption DEF SurfaceInv, Pipeline, Cameras
<1> QED
  BY <1>1, <1>2, <1>5 DEF SurfaceInv

\* It holds in every state, of any behaviour.
LEMMA SurfaceInductive == Spec => []SurfaceInv
<1>1. SurfaceInv /\ [Next]_vars => SurfaceInv'
  BY Outside, Surfaces, CameraStep DEF Next, Slow
<1> QED
  BY SurfaceInit, <1>1, PTL DEF Spec

\* A result the coordinator accepts is of the coil it asked for and so is the data
\* of every camera in it (get_data of ImageMosaic and of DataFolder).
THEOREM CoilsNeverMixed == Spec => []CoilsMatch
<1>1. SurfaceInv => CoilsMatch
  BY DEF SurfaceInv, WholeResults, Whole, CoilsMatch
<1> QED
  BY <1>1, SurfaceInductive, PTL

\* What the surface waits for is still on its way (DataFolder._publish_result).
THEOREM ResultsArrive == Spec => []NoLostResult
<1>1. SurfaceInv => NoLostResult
  BY DEF SurfaceInv, Pipeline, OnItsWay, NoLostResult
<1> QED
  BY <1>1, SurfaceInductive, PTL

-----------------------------------------------------------------------------
(* The asynchronous image saver. *)

Putting(a) == adder[a] \in {"put", "full"}
Holding(w) == worker[w] \in {"save", "ok", "error"}

\* A number an add() still works on is pending and not accepted, and no other add() has
\* it; everything further on, in the queue, at a worker or acknowledged, is accepted.
TasksInOrder ==
  /\ accepted \cup pending \subseteq 0..(nextId - 1)
  /\ \A a \in Adders : Putting(a) => adderTask[a] \in pending \ accepted
  /\ \A a, b \in Adders : Putting(a) /\ Putting(b) /\ a # b => adderTask[a] # adderTask[b]
  /\ \A i \in 1..Len(queue) : queue[i] \in accepted \cup {Stop}
  /\ \A w \in Workers : Holding(w) => workerTask[w] \in accepted
  /\ \A i \in 1..Len(ackQueue) : ackQueue[i].task \in accepted

\* What is acknowledged was tried, and saved if it says so; an accepted task that is not
\* pending was tried, and is saved or its failure is known.
TasksTried ==
  /\ \A w \in Workers : /\ worker[w] \in {"ok", "error"} => workerTask[w] \in tried
                        /\ worker[w] = "ok" => workerTask[w] \in saved
  /\ \A i \in 1..Len(ackQueue) : /\ ackQueue[i].task \in tried
                                 /\ ackQueue[i].ok => ackQueue[i].task \in saved
  /\ accepted \ pending \subseteq tried
  /\ accepted \ pending \subseteq saved \cup failed \cup overflow \cup reported

\* No number before a flush() is handed out again, and join() closes the saver before its
\* own flush.
FlushInOrder ==
  /\ before <= nextId /\ okBefore <= nextId
  /\ \A t \in pending : t >= okBefore
  /\ joiner # "idle" => closed
  /\ flusher = "join" => joiner = "flush" /\ before = nextId
  /\ joinClean => joiner # "idle" /\ pending = {}

SaverInv == SaverTypeOK /\ TasksInOrder /\ TasksTried /\ FlushInOrder
            /\ FlushComplete /\ CleanJoinLosesNothing

\* The invariant holds initially: nothing is accepted.
LEMMA SaverStarts == SaverInit => SaverInv
<1> SUFFICES ASSUME SaverInit PROVE SaverInv
  OBVIOUS
<1> USE SaverAssumption DEF SaverInit
<1>1. Cardinality(Workers) \in Nat
  BY FS_CardinalityType
<1>2. SaverTypeOK
  <2>1. <<>> \in Seq(Tasks \cup {Stop}) /\ <<>> \in Seq(Ack) /\ Len(<<>>) = 0
    BY EmptyQueue
  <2>2. queue \in Seq(Tasks \cup {Stop}) /\ Len(queue) <= QueueMax
        /\ ackQueue \in Seq(Ack) /\ Len(ackQueue) <= AckMax
    BY <2>1
  <2>3. /\ nextId \in 0..MaxTasks /\ before \in 0..MaxTasks /\ okBefore \in 0..MaxTasks
        /\ stopsSent \in 0..Cardinality(Workers)
    BY <1>1
  <2>4. /\ adder \in [Adders -> {"idle", "checked", "put", "full"}] /\ adderTask \in [Adders -> Nat]
        /\ worker \in [Workers -> {"idle", "save", "ok", "error", "done", "dead"}]
        /\ workerTask \in [Workers -> Nat]
    OBVIOUS
  <2> QED
    BY <2>2, <2>3, <2>4 DEF SaverTypeOK
<1> QED
  BY <1>2 DEF SaverInv, TasksInOrder, TasksTried, FlushInOrder, FlushComplete,
     CleanJoinLosesNothing, Putting, Holding

\* Every step keeps the types.
LEMMA SaverTypes == SaverInv /\ [SaverNext]_saverVars => SaverTypeOK'
<1> SUFFICES ASSUME SaverInv, [SaverNext]_saverVars PROVE SaverTypeOK'
  OBVIOUS
<1>0. SaverTypeOK /\ Cardinality(Workers) \in Nat
  BY SaverAssumption, FS_CardinalityType DEF SaverInv
<1> USE <1>0, SaverAssumption
    DEF SaverTypeOK, taskVars, ackVars, adderVars, workVars, flushVars, joinVars, Tasks
<1>1. ASSUME NEW a \in Adders, AddCheck(a) PROVE SaverTypeOK'
  BY <1>1 DEF AddCheck
<1>2. ASSUME NEW a \in Adders, AddRefused(a) PROVE SaverTypeOK'
  BY <1>2 DEF AddRefused
<1>3. ASSUME NEW a \in Adders, AddReserve(a) PROVE SaverTypeOK'
  BY <1>3 DEF AddReserve
<1>4. ASSUME NEW a \in Adders, AddPut(a) PROVE SaverTypeOK'
  <2>1. adderTask[a] \in Tasks /\ queue \in Seq(Tasks \cup {Stop})
    BY <1>4 DEF AddPut
  <2>2. queue' \in Seq(Tasks \cup {Stop}) /\ Len(queue') <= QueueMax
    <3> HIDE DEF Tasks
    <3> QED
      BY <1>4, <2>1 DEF AddPut
  <2> QED
    BY <1>4, <2>1, <2>2 DEF AddPut
<1>5. ASSUME NEW a \in Adders, AddFull(a) PROVE SaverTypeOK'
  BY <1>5 DEF AddFull
<1>6. ASSUME NEW a \in Adders, AddDiscard(a) PROVE SaverTypeOK'
  BY <1>6 DEF AddDiscard
<1>7. ASSUME NEW w \in Workers, WorkerGet(w) PROVE SaverTypeOK'
  <2>1. queue \in Seq(Tasks \cup {Stop}) /\ queue # <<>> /\ queue' = Tail(queue)
    BY <1>7 DEF WorkerGet
  <2>2. /\ queue' \in Seq(Tasks \cup {Stop}) /\ Len(queue') <= QueueMax
        /\ Head(queue) \in Tasks \cup {Stop}
    <3> HIDE DEF Tasks
    <3> QED
      BY <2>1
  <2>3. /\ worker' \in [Workers -> {"idle", "save", "ok", "error", "done", "dead"}]
        /\ workerTask' \in [Workers -> Nat]
        /\ \A v \in Workers : worker'[v] \in {"save", "ok", "error"} => workerTask'[v] \in Tasks
    <3>1. CASE Head(queue) = Stop
      <4>1. worker' = [worker EXCEPT ![w] = "done"] /\ workerTask' = workerTask
        BY <1>7, <3>1 DEF WorkerGet
      <4> HIDE DEF Tasks
      <4> QED
        BY <4>1
    <3>2. CASE Head(queue) # Stop
      <4>1. /\ worker' = [worker EXCEPT ![w] = "save"] /\ workerTask' = [workerTask EXCEPT ![w] = Head(queue)]
            /\ Head(queue) \in Tasks
        BY <1>7, <2>2, <3>2 DEF WorkerGet
      <4> HIDE DEF Tasks
      <4>2. Head(queue) \in Nat
        BY <4>1 DEF Tasks
      <4> QED
        BY <4>1, <4>2
    <3> QED
      BY <3>1, <3>2
  <2> QED
    BY <1>7, <2>2, <2>3 DEF WorkerGet
<1>8. ASSUME NEW w \in Workers, WorkerSave(w) PROVE SaverTypeOK'
  <2>1. /\ worker' \in [Workers -> {"idle", "save", "ok", "error", "done", "dead"}]
        /\ \A v \in Workers : worker'[v] \in {"save", "ok", "error"} => worker[v] \in {"save", "ok", "error"}
        /\ workerTask[w] \in Tasks
    BY <1>8 DEF WorkerSave
  <2>2. saved' \subseteq Tasks /\ tried' \subseteq Tasks
    BY <1>8, <2>1 DEF WorkerSave
  <2> QED
    BY <1>8, <2>1, <2>2 DEF WorkerSave
<1>9. ASSUME NEW w \in Workers, WorkerAck(w) PROVE SaverTypeOK'
  <2>1. AckOf(w) \in Ack
    BY <1>9 DEF WorkerAck, AckOf, Ack
  <2>2. ackQueue' \in Seq(Ack) /\ Len(ackQueue') <= AckMax /\ ackFailure' \in BOOLEAN
    <3>1. CASE Len(ackQueue) < AckMax /\ ackQueue' = Append(ackQueue, AckOf(w)) /\ UNCHANGED ackFailure
      <4>1. ackQueue' \in Seq(Ack) /\ Len(ackQueue') = Len(ackQueue) + 1
        BY <2>1, <3>1, PutFacts
      <4> QED
        BY <3>1, <4>1
    <3>2. CASE ackFailure' = TRUE /\ UNCHANGED ackQueue
      BY <3>2
    <3> QED
      BY <1>9, <3>1, <3>2 DEF WorkerAck
  <2> QED
    BY <1>9, <2>2 DEF WorkerAck
<1>10. ASSUME NEW w \in Workers, WorkerKilled(w) PROVE SaverTypeOK'
  <2>1. readerLost' \in BOOLEAN
    BY <1>10 DEF WorkerKilled
  <2>2. worker' \in [Workers -> {"idle", "save", "ok", "error", "done", "dead"}]
    BY <1>10 DEF WorkerKilled
  <2> QED
    BY <1>10, <2>1, <2>2 DEF WorkerKilled
<1>11. CASE CollectAck
  <2>1. ackQueue \in Seq(Ack) /\ ackQueue # <<>> /\ ackQueue' = Tail(ackQueue)
    BY <1>11 DEF CollectAck
  <2>2. ackQueue' \in Seq(Ack) /\ Len(ackQueue') <= AckMax /\ Head(ackQueue) \in Ack
    BY <2>1
  <2>3. Head(ackQueue).task \in Tasks
    BY <2>2 DEF Ack
  <2>4. pending' \subseteq Tasks /\ failed' \subseteq Tasks /\ overflow' \subseteq Tasks
    BY <1>11, <2>3 DEF CollectAck
  <2> QED
    BY <1>11, <2>2, <2>4 DEF CollectAck
<1>12. CASE CollectorFails
  BY <1>12 DEF CollectorFails
<1>13. ASSUME NEW f \in {"caller", "join"}, FlushBegin(f) PROVE SaverTypeOK'
  BY <1>13 DEF FlushBegin
<1>14. CASE FlushReturn
  BY <1>14 DEF FlushReturn, BackToJoin
<1>15. CASE FlushGivesUp
  BY <1>15 DEF FlushGivesUp, BackToJoin
<1>16. CASE JoinBegin
  BY <1>16 DEF JoinBegin
<1>17. CASE JoinSend
  BY <1>17 DEF JoinSend
<1>18. CASE JoinSent
  BY <1>18 DEF JoinSent
<1>19. CASE JoinEnd
  BY <1>19 DEF JoinEnd
<1>20. CASE UNCHANGED saverVars
  BY <1>20 DEF saverVars
<1> QED
  BY <1>1, <1>2, <1>3, <1>4, <1>5, <1>6, <1>7, <1>8, <1>9, <1>10, <1>11, <1>12, <1>13,
     <1>14, <1>15, <1>16, <1>17, <1>18, <1>19, <1>20 DEF SaverNext, SaveWork

\* Every step keeps the invariant.
LEMMA SaverStep == SaverInv /\ [SaverNext]_saverVars => SaverInv'
<1> SUFFICES ASSUME SaverInv, [SaverNext]_saverVars PROVE SaverInv'
  OBVIOUS
<1>0. SaverTypeOK /\ SaverTypeOK'
  BY SaverTypes DEF SaverInv
<1>a. /\ nextId \in Nat /\ before \in Nat /\ okBefore \in Nat
      /\ queue \in Seq(Tasks \cup {Stop}) /\ ackQueue \in Seq(Ack)
      /\ adder \in [Adders -> {"idle", "checked", "put", "full"}]
      /\ adderTask \in [Adders -> Nat]
      /\ worker \in [Workers -> {"idle", "save", "ok", "error", "done", "dead"}]
      /\ workerTask \in [Workers -> Nat] /\ Stop \notin Nat
      /\ flusher \in {"none", "caller", "join"} /\ joinClean \in BOOLEAN
      /\ accepted \subseteq Nat /\ pending \subseteq Nat
  <2>1. Tasks \subseteq Nat /\ Stop \notin Nat
    BY SaverAssumption DEF Tasks, Stop
  <2>2. /\ nextId \in 0..MaxTasks /\ before \in 0..MaxTasks /\ okBefore \in 0..MaxTasks
        /\ accepted \subseteq Tasks /\ pending \subseteq Tasks
    BY <1>0 DEF SaverTypeOK
  <2>3. /\ queue \in Seq(Tasks \cup {Stop}) /\ ackQueue \in Seq(Ack)
        /\ adder \in [Adders -> {"idle", "checked", "put", "full"}]
        /\ adderTask \in [Adders -> Nat]
        /\ worker \in [Workers -> {"idle", "save", "ok", "error", "done", "dead"}]
        /\ workerTask \in [Workers -> Nat]
        /\ flusher \in {"none", "caller", "join"} /\ joinClean \in BOOLEAN
    BY <1>0 DEF SaverTypeOK
  <2> QED
    BY <2>1, <2>2, <2>3, SaverAssumption
<1> USE <1>0, <1>a
    DEF taskVars, ackVars, adderVars, workVars, flushVars, joinVars, SaverInv,
        TasksInOrder, TasksTried, FlushInOrder, FlushComplete, CleanJoinLosesNothing,
        Putting, Holding
<1>1. ASSUME NEW a \in Adders, AddCheck(a) PROVE SaverInv'
  BY <1>1 DEF AddCheck
<1>2. ASSUME NEW a \in Adders, AddRefused(a) PROVE SaverInv'
  BY <1>2 DEF AddRefused
<1>3. ASSUME NEW a \in Adders, AddReserve(a) PROVE SaverInv'
  BY <1>3 DEF AddReserve
<1>4. ASSUME NEW a \in Adders, AddPut(a) PROVE SaverInv'
  <2>1. /\ Len(queue') = Len(queue) + 1
        /\ \A i \in 1..Len(queue') : queue'[i] = IF i <= Len(queue) THEN queue[i] ELSE adderTask[a]
    BY <1>4 DEF AddPut
  <2>2. \A i \in 1..Len(queue') : queue'[i] \in accepted' \cup {Stop}
    BY <1>4, <2>1 DEF AddPut
  <2>3. TasksInOrder'
    BY <1>4, <2>2 DEF AddPut
  <2>4. adderTask[a] \in pending /\ accepted' = accepted \cup {adderTask[a]} /\ adderTask[a] \in Nat
    BY <1>4 DEF AddPut
  <2>5. TasksTried'
    BY <1>4, <2>4 DEF AddPut
  <2>6. FlushInOrder'
    BY <1>4 DEF AddPut
  <2>7. FlushComplete' /\ CleanJoinLosesNothing'
    BY <1>4, <2>4 DEF AddPut
  <2> QED
    BY <2>3, <2>5, <2>6, <2>7
<1>5. ASSUME NEW a \in Adders, AddFull(a) PROVE SaverInv'
  BY <1>5 DEF AddFull
<1>6. ASSUME NEW a \in Adders, AddDiscard(a) PROVE SaverInv'
  BY <1>6 DEF AddDiscard
<1>7. ASSUME NEW w \in Workers, WorkerGet(w) PROVE SaverInv'
  <2>1. /\ \A i \in 1..Len(queue') : i + 1 \in 1..Len(queue) /\ queue'[i] = queue[i + 1]
        /\ Head(queue) = queue[1] /\ 1 \in 1..Len(queue)
    BY <1>7 DEF WorkerGet
  <2>2. \A i \in 1..Len(queue') : queue'[i] \in accepted \cup {Stop}
    BY <2>1
  <2>3. Head(queue) \in accepted \cup {Stop}
    BY <2>1
  <2>4. TasksInOrder'
    BY <1>7, <2>2, <2>3 DEF WorkerGet
  <2>5. TasksTried' /\ FlushInOrder' /\ FlushComplete' /\ CleanJoinLosesNothing'
    BY <1>7 DEF WorkerGet
  <2> QED
    BY <2>4, <2>5
<1>8. ASSUME NEW w \in Workers, WorkerSave(w) PROVE SaverInv'
  BY <1>8 DEF WorkerSave
<1>9. ASSUME NEW w \in Workers, WorkerAck(w) PROVE SaverInv'
  <2>1. AckOf(w).task = workerTask[w] /\ AckOf(w).ok = (worker[w] = "ok")
    BY DEF AckOf
  <2>2. \A i \in 1..Len(ackQueue') : ackQueue'[i] = AckOf(w)
                                     \/ (i \in 1..Len(ackQueue) /\ ackQueue'[i] = ackQueue[i])
    <3>1. ackQueue' = ackQueue \/ ackQueue' = Append(ackQueue, AckOf(w))
      BY <1>9 DEF WorkerAck
    <3> QED
      BY <3>1
  <2>3. \A v \in Workers : worker'[v] = IF v = w THEN "idle" ELSE worker[v]
    BY <1>9 DEF WorkerAck
  <2>4. workerTask[w] \in accepted /\ workerTask[w] \in tried /\ (worker[w] = "ok" => workerTask[w] \in saved)
    BY <1>9 DEF WorkerAck
  <2>5. TasksInOrder'
    BY <1>9, <2>1, <2>2, <2>3, <2>4 DEF WorkerAck
  <2>6. TasksTried'
    BY <1>9, <2>1, <2>2, <2>3, <2>4 DEF WorkerAck
  <2>7. FlushInOrder' /\ FlushComplete' /\ CleanJoinLosesNothing'
    BY <1>9 DEF WorkerAck
  <2> QED
    BY <2>5, <2>6, <2>7
<1>10. ASSUME NEW w \in Workers, WorkerKilled(w) PROVE SaverInv'
  BY <1>10 DEF WorkerKilled
<1>11. CASE CollectAck
  <2> DEFINE ack == Head(ackQueue)
  <2>1. /\ \A i \in 1..Len(ackQueue') : i + 1 \in 1..Len(ackQueue) /\ ackQueue'[i] = ackQueue[i + 1]
        /\ ack = ackQueue[1] /\ 1 \in 1..Len(ackQueue)
    BY <1>11 DEF CollectAck
  <2>2. ack.task \in accepted /\ ack.task \in tried /\ (ack.ok => ack.task \in saved)
    BY <2>1
  <2>3. \A i \in 1..Len(ackQueue') : /\ ackQueue'[i].task \in accepted /\ ackQueue'[i].task \in tried
                                     /\ ackQueue'[i].ok => ackQueue'[i].task \in saved
    BY <2>1
  <2>4. /\ pending' = pending \ {ack.task} /\ failed \subseteq failed' /\ overflow \subseteq overflow'
        /\ ack.ok \/ ack.task \in failed' \cup overflow'
    BY <1>11 DEF CollectAck
  <2> HIDE DEF ack
  <2>5. TasksInOrder'
    BY <1>11, <2>2, <2>3, <2>4 DEF CollectAck
  <2>6. TasksTried'
    BY <1>11, <2>2, <2>3, <2>4 DEF CollectAck
  <2>7. FlushInOrder' /\ FlushComplete' /\ CleanJoinLosesNothing'
    BY <1>11, <2>4 DEF CollectAck
  <2> QED
    BY <2>5, <2>6, <2>7
<1>12. CASE CollectorFails
  BY <1>12 DEF CollectorFails
<1>13. ASSUME NEW f \in {"caller", "join"}, FlushBegin(f) PROVE SaverInv'
  BY <1>13 DEF FlushBegin
<1>14. CASE FlushReturn
  BY <1>14 DEF FlushReturn, BackToJoin, WaitingFor
<1>15. CASE FlushGivesUp
  BY <1>15 DEF FlushGivesUp, BackToJoin
<1>16. CASE JoinBegin
  BY <1>16 DEF JoinBegin
<1>17. CASE JoinSend
  BY <1>17 DEF JoinSend
<1>18. CASE JoinSent
  BY <1>18 DEF JoinSent
<1>19. CASE JoinEnd
  BY <1>19 DEF JoinEnd
<1>20. CASE UNCHANGED saverVars
  BY <1>20 DEF saverVars
<1> QED
  BY <1>1, <1>2, <1>3, <1>4, <1>5, <1>6, <1>7, <1>8, <1>9, <1>10, <1>11, <1>12, <1>13,
     <1>14, <1>15, <1>16, <1>17, <1>18, <1>19, <1>20 DEF SaverNext, SaveWork

\* A True flush() answers for every task reserved before it: each is saved, or its
\* failure was already reported by an earlier flush() (ImageSaver.flush).
THEOREM FlushWaits == SaverSpec => []FlushComplete
<1>1. SaverInv => FlushComplete
  BY DEF SaverInv
<1> QED
  BY <1>1, SaverStarts, SaverStep, PTL DEF SaverSpec

\* A join() whose flush had nothing left to wait for leaves no accepted task that no
\* worker has tried (ImageSaver.join and add, which may race).
THEOREM JoinDrains == SaverSpec => []CleanJoinLosesNothing
<1>1. SaverInv => CleanJoinLosesNothing
  BY DEF SaverInv
<1> QED
  BY <1>1, SaverStarts, SaverStep, PTL DEF SaverSpec

-----------------------------------------------------------------------------
(* The coordinator's main loop. *)

\* A coil whose record a new pass keeps.
Near(c) == c \in Window(latest) /\ latest <= c + ClearAfter

InWork  == pc \in {"work", "record"}
Listing == pc = "coil" \/ (InWork /\ ~redoing)

LoopShape ==
  /\ latest \in 0..MaxCoil /\ startCoilId \in Nat /\ maxId \in Nat
  /\ coilTable \in Seq(Ids) /\ redetectQueue \in Seq(Ids) /\ listData \in Seq(Ids)

\* Nothing is known of coils beyond the newest one.
LoopKnows ==
  /\ maxId <= latest /\ startCoilId <= latest
  /\ \A c \in rows : c <= latest
  /\ \A c \in ToSet(redetectQueue) : c <= latest

\* The cursor stands on the coil in work, the listed coils follow on it, and the queue is
\* popped only after all that is recorded or asked for.
LoopInStep ==
  /\ InWork => coil = startCoilId /\ coil \in Ids
  /\ Listing => \A i \in 1..Len(listData) : /\ listData[i] = startCoilId + i
                                            /\ listData[i] <= latest
  /\ pc = "pop" => \A c \in rows \cup ToSet(redetectQueue) : c <= startCoilId

\* Neither a recorded coil nor the cursor has an unrecorded one behind it, other than
\* those that addCoil refused.
Settled == rows \cup unrecorded
NoGap == \A d \in rows, c \in Ids : c <= d /\ Near(c) => c \in Settled
Kept  == \A c \in Ids : c <= startCoilId /\ Near(c) => c \in Settled \/ (InWork /\ coil = c)

LoopInv == LoopShape /\ LoopKnows /\ LoopInStep /\ NoGap /\ Kept

\* Nothing is asked for before it is recorded.
Calm == "early" \notin incidents

loopState == <<latest, coilTable, redetectQueue, startCoilId, maxId, pc, listData, coil,
               redoing, unrecorded>>

\* The least and the greatest of a set of ids.
LEMMA Extremes ==
  ASSUME NEW S, S \subseteq Ids, S # {}
  PROVE  /\ Min(S) \in S /\ \A y \in S : Min(S) <= y
         /\ Max(S) \in S /\ \A y \in S : y <= Max(S)
<1> USE CoordinatorAssumption DEF Ids
<1>0. S \subseteq Nat /\ \A x \in S : x <= MaxCoil
  OBVIOUS
<1>1. \E x \in S : \A y \in S : x <= y
  BY <1>0, LeastNatural
<1>2. \E x \in S : \A y \in S : x >= y
  <2> DEFINE T == {MaxCoil - x : x \in S}
  <2>1. T \subseteq Nat /\ T # {}
    <3>1. \A x \in S : MaxCoil - x \in Nat
      BY <1>0
    <3> QED
      BY <3>1
  <2>2. PICK t \in T : \A u \in T : t <= u
    <3> HIDE DEF T
    <3> QED
      BY <2>1, LeastNatural
  <2>3. PICK x \in S : t = MaxCoil - x
    OBVIOUS
  <2>4. ASSUME NEW y \in S PROVE x >= y
    <3>1. MaxCoil - x <= MaxCoil - y
      BY <2>2, <2>3
    <3> QED
      BY <1>0, <3>1
  <2> QED
    BY <2>4
<1>3. Min(S) \in S /\ \A y \in S : Min(S) <= y
  BY <1>1 DEF Min
<1>4. Max(S) \in S /\ \A y \in S : Max(S) >= y
  BY <1>2 DEF Max
<1>5. \A y \in S : y <= Max(S)
  BY <1>4
<1> QED
  BY <1>3, <1>4, <1>5

\* The ids of an interval, oldest and newest first.
LEMMA Ranges ==
  ASSUME NEW a \in Ids, NEW b \in Ids, a <= b
  PROVE  /\ Ascending(a..b) \in Seq(Ids) /\ Len(Ascending(a..b)) = b - a + 1
         /\ \A i \in 1..(b - a + 1) : Ascending(a..b)[i] = a - 1 + i
         /\ Descending(a..b) \in Seq(Ids) /\ ToSet(Descending(a..b)) = a..b
<1> USE CoordinatorAssumption DEF Ids
<1>1. Cardinality(a..b) = b - a + 1
  BY FS_Interval
<1>2. Min(a..b) = a /\ Max(a..b) = b
  <2>1. a \in a..b /\ b \in a..b /\ a..b \subseteq Ids
    OBVIOUS
  <2>2. Min(a..b) \in a..b /\ Min(a..b) <= a /\ Max(a..b) \in a..b /\ b <= Max(a..b)
    BY <2>1, Extremes
  <2> QED
    BY <2>2
<1>3. /\ Ascending(a..b) = [i \in 1..(b - a + 1) |-> a - 1 + i]
      /\ Descending(a..b) = [i \in 1..(b - a + 1) |-> b + 1 - i]
  BY <1>1, <1>2 DEF Ascending, Descending
<1>4. b - a + 1 \in Nat /\ \A i \in 1..(b - a + 1) : a - 1 + i \in Ids /\ b + 1 - i \in Ids
  OBVIOUS
<1>5. Descending(a..b) \in Seq(Ids) /\ DOMAIN Descending(a..b) = 1..(b - a + 1)
  BY <1>3, <1>4
<1>6. ToSet(Descending(a..b)) = a..b
  <2>1. ToSet(Descending(a..b)) = {b + 1 - i : i \in 1..(b - a + 1)}
    BY <1>3 DEF ToSet
  <2>2. ASSUME NEW x \in a..b PROVE \E i \in 1..(b - a + 1) : x = b + 1 - i
    <3>1. b + 1 - x \in 1..(b - a + 1) /\ x = b + 1 - (b + 1 - x)
      OBVIOUS
    <3> QED
      BY <3>1
  <2>3. ASSUME NEW i \in 1..(b - a + 1) PROVE b + 1 - i \in a..b
    OBVIOUS
  <2>4. {b + 1 - i : i \in 1..(b - a + 1)} = a..b
    <3> HIDE CoordinatorAssumption DEF Ids
    <3> QED
      BY <2>2, <2>3, Zenon
  <2> QED
    BY <2>1, <2>4
<1> QED
  BY <1>3, <1>4, <1>5, <1>6

\* Appending to a sequence and taking its head, as sets.
LEMMA SetPut ==
  ASSUME NEW q \in Seq(Ids), NEW c \in Ids
  PROVE  ToSet(Append(q, c)) = ToSet(q) \cup {c}
<1>1. /\ DOMAIN Append(q, c) = 1..(Len(q) + 1) /\ DOMAIN q = 1..Len(q) /\ Len(q) \in Nat
      /\ \A i \in 1..Len(q) : Append(q, c)[i] = q[i]
      /\ Append(q, c)[Len(q) + 1] = c
  BY PutFacts
<1>2. ASSUME NEW x \in ToSet(q) PROVE x \in ToSet(Append(q, c))
  <2>1. PICK i \in 1..Len(q) : q[i] = x
    BY <1>1 DEF ToSet
  <2>2. i \in DOMAIN Append(q, c) /\ Append(q, c)[i] = x
    BY <1>1, <2>1
  <2> QED
    BY <2>2 DEF ToSet
<1>3. ASSUME NEW x \in ToSet(Append(q, c)) PROVE x \in ToSet(q) \cup {c}
  <2>1. PICK i \in 1..(Len(q) + 1) : Append(q, c)[i] = x
    BY <1>1 DEF ToSet
  <2> QED
    BY <1>1, <2>1 DEF ToSet
<1>4. c \in ToSet(Append(q, c))
  BY <1>1 DEF ToSet
<1> QED
  BY <1>2, <1>3, <1>4

\* Taking the head of a queue adds nothing to it.
LEMMA SetGet ==
  ASSUME NEW q \in Seq(Ids), q # <<>>
  PROVE  Head(q) \in ToSet(q) /\ ToSet(Tail(q)) \subseteq ToSet(q)
<1>1. /\ Len(q) \in Nat \ {0} /\ DOMAIN q = 1..Len(q) /\ Head(q) = q[1]
      /\ DOMAIN Tail(q) = 1..(Len(q) - 1)
      /\ \A i \in 1..(Len(q) - 1) : Tail(q)[i] = q[i + 1]
  BY GetFacts
<1>2. \A i \in 1..(Len(q) - 1) : Tail(q)[i] = q[i + 1] /\ i + 1 \in 1..Len(q)
  BY <1>1
<1> QED
  BY <1>1, <1>2 DEF ToSet

\* clear_by_coil_id removes at most the coil's own row.
LEMMA ClearFacts ==
  ASSUME NEW q \in Seq(Ids), NEW c \in Ids
  PROVE  /\ RemoveFirst(q, c) \in Seq(Ids)
         /\ ToSet(RemoveFirst(q, c)) \subseteq ToSet(q)
         /\ ToSet(q) \ {c} \subseteq ToSet(RemoveFirst(q, c))
<1> DEFINE I == {i \in 1..Len(q) : q[i] = c}
           k == Min(I)
           a == SubSeq(q, 1, k - 1)
           b == SubSeq(q, k + 1, Len(q))
<1>0. Len(q) \in Nat /\ DOMAIN q = 1..Len(q) /\ \A i \in 1..Len(q) : q[i] \in Ids
  OBVIOUS
<1>1. CASE I = {}
  <2>1. RemoveFirst(q, c) = q
    BY <1>1 DEF RemoveFirst
  <2> QED
    BY <2>1
<1>2. CASE I # {}
  <2>1. k \in 1..Len(q) /\ q[k] = c
    <3>1. I \subseteq Nat
      BY <1>0
    <3>2. \E x \in I : \A y \in I : x <= y
      <4> HIDE DEF I
      <4> QED
        BY <1>2, <3>1, LeastNatural
    <3>3. Min(I) \in I
      BY <3>2 DEF Min
    <3> QED
      BY <3>3
  <2>2. RemoveFirst(q, c) = a \o b
    BY <1>2 DEF RemoveFirst, RemoveAt, SelectInSeq
  <2> HIDE DEF k, I
  <2>3. /\ a \in Seq(Ids) /\ Len(a) = k - 1
        /\ \A i \in 1..(k - 1) : a[i] = q[i]
    <3>1. \A i \in 1..(k - 1) : q[i] \in Ids
      BY <1>0, <2>1
    <3>2. /\ a \in Seq(Ids) /\ Len(a) = IF 1 <= k - 1 THEN k - 1 - 1 + 1 ELSE 0
          /\ \A i \in 1..(k - 1 - 1 + 1) : a[i] = q[1 + i - 1]
      BY <2>1, <3>1, SubSeqProperties
    <3>3. (IF 1 <= k - 1 THEN k - 1 - 1 + 1 ELSE 0) = k - 1 /\ k - 1 - 1 + 1 = k - 1
      BY <2>1
    <3>4. \A i \in 1..(k - 1) : 1 + i - 1 = i
      BY <2>1
    <3> QED
      BY <3>2, <3>3, <3>4
  <2>4. /\ b \in Seq(Ids) /\ Len(b) = Len(q) - k
        /\ \A i \in 1..(Len(q) - k) : b[i] = q[k + i]
    <3>1. \A i \in (k + 1)..Len(q) : q[i] \in Ids
      BY <1>0, <2>1
    <3>2. /\ b \in Seq(Ids)
          /\ Len(b) = IF k + 1 <= Len(q) THEN Len(q) - (k + 1) + 1 ELSE 0
          /\ \A i \in 1..(Len(q) - (k + 1) + 1) : b[i] = q[k + 1 + i - 1]
      BY <1>0, <2>1, <3>1, SubSeqProperties
    <3>3. /\ (IF k + 1 <= Len(q) THEN Len(q) - (k + 1) + 1 ELSE 0) = Len(q) - k
          /\ Len(q) - (k + 1) + 1 = Len(q) - k
      <4> DEFINE n == Len(q)
      <4>1. n \in Nat /\ k \in Nat /\ k <= n
        BY <1>0, <2>1
      <4> HIDE DEF n
      <4>2. /\ (IF k + 1 <= n THEN n - (k + 1) + 1 ELSE 0) = n - k
            /\ n - (k + 1) + 1 = n - k
        BY <4>1
      <4> QED
        BY <4>2 DEF n
    <3>4. \A i \in 1..(Len(q) - k) : k + 1 + i - 1 = k + i
      BY <1>0, <2>1
    <3> QED
      BY <3>2, <3>3, <3>4
  <2> DEFINE r == a \o b
  <2> HIDE DEF a, b
  <2>5. /\ r \in Seq(Ids) /\ Len(r) = Len(a) + Len(b)
        /\ \A i \in 1..(Len(a) + Len(b)) : r[i] = IF i <= Len(a) THEN a[i] ELSE b[i - Len(a)]
    BY <2>3, <2>4, ConcatProperties
  <2> HIDE DEF r
  <2>6. Len(r) = Len(q) - 1 /\ DOMAIN r = 1..(Len(q) - 1)
    BY <1>0, <2>1, <2>3, <2>4, <2>5
  <2>7. ASSUME NEW i \in 1..(Len(q) - 1)
        PROVE  r[i] = IF i < k THEN q[i] ELSE q[i + 1]
    <3>1. r[i] = IF i <= k - 1 THEN a[i] ELSE b[i - (k - 1)]
      BY <1>0, <2>1, <2>3, <2>4, <2>5
    <3>2. CASE i < k
      <4>1. i \in 1..(k - 1)
        BY <2>1, <3>2
      <4> QED
        BY <2>1, <2>3, <3>1, <3>2, <4>1
    <3>3. CASE ~(i < k)
      <4>1. i - (k - 1) \in 1..(Len(q) - k) /\ k + (i - (k - 1)) = i + 1 /\ ~(i <= k - 1)
        BY <1>0, <2>1, <3>3
      <4>2. b[i - (k - 1)] = q[k + (i - (k - 1))]
        BY <2>4, <4>1
      <4> QED
        BY <3>1, <3>3, <4>1, <4>2
    <3> QED
      BY <3>2, <3>3
  <2>8. ASSUME NEW x \in ToSet(r) PROVE x \in ToSet(q)
    <3>1. PICK i \in 1..(Len(q) - 1) : r[i] = x
      BY <2>6 DEF ToSet
    <3>2. x = IF i < k THEN q[i] ELSE q[i + 1]
      BY <2>7, <3>1
    <3>3. i \in 1..Len(q) /\ i + 1 \in 1..Len(q)
      BY <1>0
    <3> QED
      BY <1>0, <3>2, <3>3 DEF ToSet
  <2>9. ASSUME NEW x \in ToSet(q), x # c PROVE x \in ToSet(r)
    <3>1. PICK i \in 1..Len(q) : q[i] = x
      BY <1>0 DEF ToSet
    <3>2. i # k
      BY <2>1, <2>9, <3>1
    <3>3. CASE i < k
      <4>1. i \in 1..(Len(q) - 1)
        BY <1>0, <2>1, <3>3
      <4>2. r[i] = x
        BY <2>7, <3>1, <3>3, <4>1
      <4> QED
        BY <2>6, <4>1, <4>2 DEF ToSet
    <3>4. CASE i > k
      <4>1. i - 1 \in 1..(Len(q) - 1) /\ ~(i - 1 < k) /\ i - 1 + 1 = i
        BY <1>0, <2>1, <3>4
      <4>2. r[i - 1] = q[i - 1 + 1]
        BY <2>7, <4>1
      <4> QED
        BY <2>6, <3>1, <4>1, <4>2 DEF ToSet
    <3> QED
      BY <2>1, <3>2, <3>3, <3>4
  <2> QED
    BY <2>2, <2>5, <2>8, <2>9 DEF r
<1> QED
  BY <1>1, <1>2

\* The cursor moves back to missing outputs, or on to the history window.
LEMMA StartFacts ==
  ASSUME coilTable \in Seq(Ids), NEW m \in 0..MaxCoil, NEW start \in Nat, start <= m,
         NEW waits
  PROVE  /\ StartOf(m, start, waits) \in Nat /\ StartOf(m, start, waits) <= m
         /\ StartOf(m, start, waits) <= start \/ StartOf(m, start, waits) <= Minus(m, History)
<1> USE CoordinatorAssumption DEF Ids
<1> DEFINE s == Limited(start, m)
<1>1. s \in Nat /\ s <= m /\ (s <= start \/ s <= Minus(m, History))
  BY DEF Limited, Minus
<1> HIDE DEF s
<1>2. CASE Missing(m, waits) = {}
  BY <1>1, <1>2 DEF StartOf, Rewound, s
<1>3. CASE Missing(m, waits) # {}
  <2>1. Missing(m, waits) \subseteq Ids /\ rows \subseteq Ids
    BY DEF Missing, Window, rows, ToSet
  <2>2. Max(Missing(m, waits)) \in Missing(m, waits)
    BY <1>3, <2>1, Extremes
  <2>3. Max(Missing(m, waits)) \in Stretch(m, waits)
    <3>1. \A d \in rows : ~(Max(Missing(m, waits)) < d /\ d < Max(Missing(m, waits)))
      BY <2>1, <2>2
    <3> QED
      BY <2>2, <3>1 DEF Stretch
  <2>4. Stretch(m, waits) \subseteq Ids
    BY <2>1 DEF Stretch
  <2>5. Min(Stretch(m, waits)) \in Ids
    BY <2>3, <2>4, Extremes
  <2>6. Min(Stretch(m, waits)) - 1 \in Nat
    BY <2>5
  <2>7. Min(Stretch(m, waits)) - 1 < s => Min(Stretch(m, waits)) - 1 <= s
    BY <1>1, <2>6
  <2>8. Rewound(m, s, waits) \in Nat /\ Rewound(m, s, waits) <= s
    BY <1>1, <2>6, <2>7 DEF Rewound
  <2>9. Minus(m, History) \in Nat
    BY DEF Minus
  <2> DEFINE t == Rewound(m, s, waits)
  <2> HIDE DEF t
  <2>10. t \in Nat /\ t <= m /\ (t <= start \/ t <= Minus(m, History))
    BY <1>1, <2>8, <2>9 DEF t
  <2> QED
    BY <2>10 DEF StartOf, t, s
<1> QED
  BY <1>2, <1>3

\* Clearing leaves the rows of all coils that are near.
LEMMA ClearKeeps ==
  ASSUME LoopShape, LoopKnows, NEW c \in Ids, Clear(c)
  PROVE  /\ coilTable' \in Seq(Ids) /\ rows' \subseteq rows
         /\ \A d \in rows : Near(d) => d \in rows'
<1>1. CASE Cleared(c)
  <2>1. coilTable' = RemoveFirst(coilTable, c)
    BY <1>1 DEF Clear
  <2>2. ~Near(c)
    BY <1>1, CoordinatorAssumption DEF Cleared, Near, LoopKnows, LoopShape, Ids
  <2> QED
    BY <2>1, <2>2, ClearFacts DEF LoopShape, rows
<1>2. CASE ~Cleared(c)
  BY <1>2 DEF Clear, LoopShape, rows
<1> QED
  BY <1>1, <1>2

\* Rows and queue hold ids of coils.
LEMMA RowIds ==
  ASSUME LoopShape
  PROVE  rows \subseteq Ids /\ ToSet(redetectQueue) \subseteq Ids
BY DEF LoopShape, rows, ToSet

\* Nothing that the invariant speaks of changes.
LEMMA LoopAside ==
  ASSUME LoopInv, UNCHANGED loopState PROVE LoopInv'
BY DEF LoopInv, LoopShape, LoopKnows, LoopInStep, NoGap, Settled, Kept, loopState, rows, InWork,
       Listing, Near, Window

\* Only the place in the loop changes, to one where nothing is listed or worked on.
LEMMA LoopGoesOn ==
  ASSUME LoopInv, pc' \notin {"coil", "work", "record", "pop"}, ~InWork,
         UNCHANGED <<latest, coilTable, redetectQueue, startCoilId, maxId, coil, unrecorded>>,
         listData' \in Seq(Ids)
  PROVE  LoopInv'
<1>1. LoopShape' /\ LoopKnows'
  BY DEF LoopInv, LoopShape, LoopKnows, rows
<1>2. LoopInStep'
  BY DEF LoopInStep, InWork, Listing
<1>3. NoGap' /\ Kept'
  BY DEF LoopInv, NoGap, Settled, Kept, rows, InWork, Near, Window
<1> QED
  BY <1>1, <1>2, <1>3 DEF LoopInv

\* The steps of the plant, the loop and the API thread.
LEMMA ArrivalStep ==
  ASSUME LoopInv, CoilArrives PROVE LoopInv'
<1> USE CoordinatorAssumption DEF LoopInv, CoilArrives, tables, redetect, cursor, work, bounds
<1>1. LoopShape'
  BY DEF LoopShape
<1>2. LoopKnows'
  BY RowIds DEF LoopKnows, LoopShape, rows, Ids
<1>3. LoopInStep'
  <2>1. \A i \in 1..Len(listData) : listData[i] \in Ids
    BY DEF LoopShape
  <2> QED
    BY <2>1 DEF LoopInStep, LoopShape, rows, InWork, Listing, Ids
<1>4. ASSUME NEW c \in Ids, c <= latest, Near(c)' PROVE Near(c)
  BY <1>4 DEF Near, Window, Minus, LoopShape, Ids
<1>5. NoGap'
  <2> SUFFICES ASSUME NEW d \in rows', NEW c \in Ids, c <= d, Near(c)' PROVE c \in Settled'
    BY DEF NoGap, Settled
  <2>1. d \in rows /\ d \in Ids /\ d <= latest
    BY RowIds DEF rows, LoopKnows
  <2>2. c <= latest
    BY <2>1 DEF Ids, LoopShape
  <2> QED
    BY <1>4, <2>1, <2>2 DEF NoGap, Settled, rows
<1>6. Kept'
  <2> SUFFICES ASSUME NEW c \in Ids, c <= startCoilId', Near(c)'
               PROVE  c \in Settled' \/ (InWork' /\ coil' = c)
    BY DEF Kept, Settled
  <2>1. c <= latest
    BY DEF Ids, LoopShape, LoopKnows
  <2> QED
    BY <1>4, <2>1 DEF Kept, Settled, rows, InWork
<1> QED
  BY <1>1, <1>2, <1>3, <1>5, <1>6

\* The cursor is moved back or on.
LEMMA TopStep ==
  ASSUME LoopInv, LoopTop PROVE LoopInv'
<1> USE CoordinatorAssumption DEF LoopInv, LoopTop, tables, redetect, cursor, work, bounds
<1>1. /\ startCoilId' \in Nat /\ startCoilId' <= latest
      /\ startCoilId' <= startCoilId \/ startCoilId' <= Minus(latest, History)
  BY StartFacts DEF LoopShape, LoopKnows
<1>2. LoopShape' /\ LoopKnows'
  BY <1>1 DEF LoopShape, LoopKnows, rows
<1>3. LoopInStep'
  BY DEF LoopInStep, InWork, Listing
<1>4. NoGap'
  BY DEF NoGap, Settled, rows, Near, Window
<1>5. Kept'
  <2> SUFFICES ASSUME NEW c \in Ids, c <= startCoilId', Near(c)' PROVE c \in Settled'
    BY DEF Kept, Settled
  <2>1. Near(c) /\ c > Minus(latest, History) /\ Minus(latest, History) \in Nat
    BY DEF Near, Window, Minus, LoopShape
  <2>2. c <= startCoilId
    BY <1>1, <2>1 DEF Ids, LoopShape
  <2> QED
    BY <2>1, <2>2 DEF Kept, Settled, InWork, rows
<1> QED
  BY <1>2, <1>3, <1>4, <1>5

\* The coils behind the cursor are listed, or there are none.
LEMMA ListStep ==
  ASSUME LoopInv, LoopList PROVE LoopInv'
<1> USE CoordinatorAssumption DEF LoopInv, LoopList, tables, redetect, cursor, bounds
<1> DEFINE new == {c \in Ids : c > startCoilId /\ c <= latest /\ c <= startCoilId + History}
           k   == IF latest <= startCoilId + History THEN latest ELSE startCoilId + History
<1>1. CASE new = {}
  <2>1. ASSUME NEW c \in rows \cup ToSet(redetectQueue) PROVE c <= startCoilId
    <3>1. c \in Ids /\ c <= latest
      BY RowIds DEF LoopKnows
    <3>2. CASE c > startCoilId
      <4>1. startCoilId + 1 \in new
        BY <3>1, <3>2 DEF LoopShape, Ids
      <4> QED
        BY <1>1, <4>1
    <3> QED
      BY <3>1, <3>2 DEF LoopShape, Ids
  <2>2. listData' = <<>> /\ listData' \in Seq(Ids) /\ pc' \in {"pop", "top"}
    BY <1>1, EmptyQueue
  <2>3. LoopShape' /\ LoopKnows'
    BY <2>2 DEF LoopShape, LoopKnows, rows
  <2>4. LoopInStep'
    BY <2>1, <2>2 DEF LoopInStep, InWork, Listing, rows
  <2>5. NoGap' /\ Kept'
    BY <2>2 DEF NoGap, Settled, Kept, rows, Near, Window, InWork
  <2> QED
    BY <2>3, <2>4, <2>5
<1>2. CASE new # {}
  <2>1. startCoilId + 1 \in Ids /\ k \in Ids /\ startCoilId + 1 <= k /\ k <= latest
    BY <1>2 DEF LoopShape, Ids
  <2>2. new = (startCoilId + 1)..k
    BY <2>1 DEF LoopShape, Ids
  <2> HIDE DEF new, k
  <2>3. listData' = Ascending((startCoilId + 1)..k) /\ pc' = "coil"
    BY <1>2, <2>2 DEF new
  <2>4. /\ listData' \in Seq(Ids) /\ Len(listData') = k - (startCoilId + 1) + 1
        /\ \A i \in 1..(k - (startCoilId + 1) + 1) : listData'[i] = startCoilId + i
    <3> DEFINE a == startCoilId + 1
    <3>1. a \in Ids /\ a <= k /\ listData' = Ascending(a..k) /\ a = startCoilId + 1
      BY <2>1, <2>3
    <3> HIDE DEF a
    <3>2. /\ Ascending(a..k) \in Seq(Ids) /\ Len(Ascending(a..k)) = k - a + 1
          /\ \A i \in 1..(k - a + 1) : Ascending(a..k)[i] = a - 1 + i
      BY <2>1, <3>1, Ranges
    <3>3. \A i \in 1..(k - a + 1) : listData'[i] = startCoilId + i
      <4>1. ASSUME NEW i \in 1..(k - a + 1) PROVE a - 1 + i = startCoilId + i
        BY <3>1 DEF LoopShape, Ids
      <4> QED
        BY <3>1, <3>2, <4>1
    <3>4. Len(listData') = k - (startCoilId + 1) + 1
      BY <3>1, <3>2
    <3> QED
      BY <3>1, <3>2, <3>3, <3>4
  <2>5. LoopShape' /\ LoopKnows'
    BY <2>4 DEF LoopShape, LoopKnows, rows
  <2>6. ASSUME NEW i \in 1..Len(listData')
        PROVE  listData'[i] = startCoilId + i /\ listData'[i] <= latest
    <3>1. i \in 1..(k - (startCoilId + 1) + 1) /\ startCoilId \in Nat /\ k \in Nat /\ latest \in Nat
      BY <2>1, <2>4 DEF LoopShape, Ids
    <3>2. listData'[i] = startCoilId + i
      BY <2>4, <3>1
    <3> QED
      BY <2>1, <3>1, <3>2
  <2>7. LoopInStep'
    BY <2>3, <2>6 DEF LoopInStep, InWork, Listing
  <2>8. NoGap' /\ Kept'
    BY <2>3 DEF NoGap, Settled, Kept, rows, Near, Window, InWork
  <2> QED
    BY <2>5, <2>7, <2>8
<1> QED
  BY <1>1, <1>2

\* A coil is taken into work: the next one listed, or one that is asked for again.
LEMMA TakeStep ==
  ASSUME LoopInv, NEW c \in Ids, c <= latest, c <= startCoilId + 1,
         ~InWork, pc' = "work", coil' = c, startCoilId' = c, Clear(c),
         UNCHANGED <<latest, maxId, unrecorded>>,
         redetectQueue' \in Seq(Ids), ToSet(redetectQueue') \subseteq ToSet(redetectQueue),
         listData' \in Seq(Ids),
         ~redoing' => \A i \in 1..Len(listData') : /\ listData'[i] = c + i
                                                   /\ listData'[i] <= latest
  PROVE  LoopInv'
<1> USE DEF LoopInv
<1>1. /\ coilTable' \in Seq(Ids) /\ rows' \subseteq rows
      /\ \A d \in rows : Near(d) => d \in rows'
  BY ClearKeeps
<1>2. LoopShape' /\ LoopKnows'
  BY <1>1 DEF LoopShape, LoopKnows, Ids
<1>3. LoopInStep'
  BY DEF LoopInStep, InWork, Listing
<1>4. \A d : Near(d)' <=> Near(d)
  BY DEF Near, Window
<1>5. NoGap'
  BY <1>1, <1>4 DEF NoGap, Settled
<1>6. Kept'
  <2> SUFFICES ASSUME NEW d \in Ids, d <= startCoilId', Near(d)', d # c PROVE d \in Settled'
    BY DEF Kept, Settled, InWork
  <2>1. d <= startCoilId
    BY DEF Ids, LoopShape
  <2> QED
    BY <1>1, <1>4, <2>1 DEF Kept, Settled
<1> QED
  BY <1>2, <1>3, <1>5, <1>6

\* The next coil of the list is taken, or the list is given up.
LEMMA CoilStep ==
  ASSUME LoopInv, CoilBegin PROVE LoopInv'
<1> USE CoordinatorAssumption DEF CoilBegin, redetect, bounds
<1>1. CASE listData = <<>> \/ ~Ready(Head(listData))
  <2>1. listData' = <<>>
    BY <1>1
  <2>2. listData' \in Seq(Ids)
    BY <2>1, EmptyQueue
  <2> QED
    BY <1>1, <2>2, LoopGoesOn DEF InWork
<1>2. CASE ~(listData = <<>> \/ ~Ready(Head(listData)))
  <2> DEFINE c == Head(listData)
  <2>1. /\ Len(listData) \in Nat \ {0} /\ c = listData[1] /\ c \in Ids
        /\ Tail(listData) \in Seq(Ids) /\ Len(Tail(listData)) = Len(listData) - 1
        /\ \A i \in 1..(Len(listData) - 1) : Tail(listData)[i] = listData[i + 1]
    BY <1>2, GetFacts DEF LoopInv, LoopShape
  <2>2. /\ coil' = c /\ listData' = Tail(listData) /\ startCoilId' = c /\ Clear(coil')
        /\ redoing' = FALSE /\ pc' = "work" /\ pc = "coil"
        /\ UNCHANGED <<latest, maxId, redetectQueue, unrecorded>>
    BY <1>2
  <2> HIDE DEF c
  <2>3. \A i \in 1..Len(listData) : listData[i] = startCoilId + i /\ listData[i] <= latest
    BY <2>2 DEF LoopInv, LoopInStep, Listing
  <2>4. c = startCoilId + 1 /\ c <= latest
    BY <2>1, <2>3
  <2>5. ASSUME NEW i \in 1..Len(listData')
        PROVE  listData'[i] = c + i /\ listData'[i] <= latest
    <3>1. i \in 1..(Len(listData) - 1) /\ i + 1 \in 1..Len(listData)
      BY <2>1, <2>2
    <3>2. listData'[i] = listData[i + 1]
      BY <2>1, <2>2, <3>1
    <3>3. listData[i + 1] = startCoilId + (i + 1) /\ listData[i + 1] <= latest
      BY <2>3, <3>1
    <3> QED
      BY <2>4, <3>1, <3>2, <3>3 DEF LoopInv, LoopShape
  <2>6. c <= startCoilId + 1
    BY <2>4 DEF LoopInv, LoopShape
  <2>7. Clear(c)
    BY <2>2 DEF Clear, Cleared
  <2> QED
    BY <2>1, <2>2, <2>4, <2>5, <2>6, <2>7, TakeStep DEF InWork, LoopInv, LoopShape
<1> QED
  BY <1>1, <1>2

\* The work on a coil changes no row.
LEMMA WorkStep ==
  ASSUME LoopInv, CoilWork PROVE LoopInv'
BY DEF LoopInv, CoilWork, LoopShape, LoopKnows, LoopInStep, NoGap, Settled, Kept, rows, InWork,
       Listing, Near, Window, redetect, cursor

\* The coil in work gets its row.
LEMMA RecordStep ==
  ASSUME LoopInv, CoilRecord PROVE LoopInv'
<1> USE DEF CoilRecord, redetect, bounds
<1>1. coil \in Ids /\ coil = startCoilId /\ coil <= latest /\ InWork
  BY DEF LoopInv, LoopInStep, InWork, LoopKnows
<1>2. coilTable' \in Seq(Ids) /\ rows' = rows \cup {coil}
  <2>1. CASE coil \in rows
    BY <2>1 DEF LoopInv, LoopShape, rows
  <2>2. CASE coil \notin rows
    BY <1>1, <2>2, SetPut, PutFacts DEF LoopInv, LoopShape, rows
  <2> QED
    BY <2>1, <2>2
<1>3. pc' = "count" \/ (pc' = "coil" /\ ~redoing)
  BY DEF AfterCoil
<1>4. LoopShape' /\ LoopKnows'
  BY <1>1, <1>2 DEF LoopInv, LoopShape, LoopKnows
<1>5. LoopInStep'
  BY <1>1, <1>3 DEF LoopInv, LoopInStep, InWork, Listing
<1>6. \A d : Near(d)' <=> Near(d)
  BY DEF Near, Window
<1>7. NoGap'
  <2> SUFFICES ASSUME NEW d \in rows', NEW c \in Ids, c <= d, Near(c)' PROVE c \in Settled'
    BY DEF NoGap, Settled
  <2>1. CASE d \in rows
    BY <1>2, <1>6, <2>1 DEF LoopInv, NoGap, Settled
  <2>2. CASE d = coil
    BY <1>1, <1>2, <1>6, <2>2 DEF LoopInv, Kept, Settled
  <2> QED
    BY <1>2, <2>1, <2>2
<1>8. Kept'
  BY <1>2, <1>6 DEF LoopInv, Kept, Settled
<1> QED
  BY <1>4, <1>5, <1>7, <1>8 DEF LoopInv

\* addCoil raises: the coil in work is left without its row.
LEMMA RefusedStep ==
  ASSUME LoopInv, CoilFails PROVE LoopInv'
<1> USE DEF CoilFails, tables, redetect, cursor
<1>1. coil \in unrecorded' /\ unrecorded \subseteq unrecorded' /\ rows' = rows
  BY DEF rows
<1>2. LoopShape' /\ LoopKnows'
  BY <1>1 DEF LoopInv, LoopShape, LoopKnows
<1>3. pc' = "clear" \/ (pc' = "coil" /\ ~redoing)
  OBVIOUS
<1>4. LoopInStep'
  BY <1>3 DEF LoopInv, LoopInStep, InWork, Listing
<1>5. \A c : Near(c)' <=> Near(c)
  BY DEF Near, Window
<1>6. NoGap' /\ Kept'
  BY <1>1, <1>5 DEF LoopInv, NoGap, Kept, Settled
<1> QED
  BY <1>2, <1>4, <1>6 DEF LoopInv

\* A coil is taken from the re-detection queue.
LEMMA PopStep ==
  ASSUME LoopInv, RePop PROVE LoopInv'
<1> USE DEF RePop, bounds
<1>1. CASE redetectQueue = <<>>
  BY <1>1, LoopGoesOn DEF InWork, LoopInv, LoopShape
<1>2. CASE redetectQueue # <<>>
  <2> DEFINE c == Head(redetectQueue)
  <2>1. /\ c \in Ids /\ c \in ToSet(redetectQueue)
        /\ Tail(redetectQueue) \in Seq(Ids)
        /\ ToSet(Tail(redetectQueue)) \subseteq ToSet(redetectQueue)
    BY <1>2, GetFacts, SetGet DEF LoopInv, LoopShape
  <2>2. /\ coil' = c /\ redetectQueue' = Tail(redetectQueue) /\ startCoilId' = c
        /\ Clear(coil') /\ redoing' = TRUE /\ pc' = "work" /\ pc = "pop"
        /\ UNCHANGED <<latest, maxId, listData, unrecorded>>
    BY <1>2
  <2> HIDE DEF c
  <2>3. c <= latest /\ c <= startCoilId + 1
    BY <2>1, <2>2 DEF LoopInv, LoopKnows, LoopInStep, LoopShape, Ids
  <2>4. Clear(c)
    BY <2>2 DEF Clear, Cleared
  <2> QED
    BY <2>1, <2>2, <2>3, <2>4, TakeStep DEF InWork, LoopInv, LoopShape
<1> QED
  BY <1>1, <1>2

\* Coils that are recorded are asked for again.
LEMMA AskStep ==
  ASSUME LoopInv, redetectQueue' \in Seq(Ids),
         ToSet(redetectQueue') \subseteq ToSet(redetectQueue) \cup rows,
         UNCHANGED <<latest, coilTable, startCoilId, maxId, pc, listData, coil, redoing,
                     unrecorded>>
  PROVE  LoopInv'
<1> USE DEF LoopInv
<1>1. LoopShape' /\ LoopKnows'
  BY DEF LoopShape, LoopKnows, rows
<1>2. LoopInStep'
  BY DEF LoopInStep, InWork, Listing, rows
<1>3. NoGap' /\ Kept'
  BY DEF NoGap, Settled, Kept, rows, Near, Window, InWork
<1> QED
  BY <1>1, <1>2, <1>3

\* A range of recorded coils is asked for.
LEMMA RangeStep ==
  ASSUME LoopInv, Calm, NEW first \in Ids, NEW last \in Ids, RangeQueue(first, last)
  PROVE  LoopInv'
<1> USE DEF RangeQueue, tables, cursor, work, bounds
<1>1. Requestable \subseteq rows
  BY DEF Requestable, Calm
<1>2. CASE first <= last
  <2>0. first \in first..last
    BY <1>2, CoordinatorAssumption DEF Ids
  <2>1. first..last # {} /\ first..last \subseteq rows
    BY <1>1, <2>0
  <2>2. redetectQueue' = Descending(first..last)
    BY <2>1
  <2>3. redetectQueue' \in Seq(Ids) /\ ToSet(redetectQueue') = first..last
    BY <1>2, <2>2, Ranges
  <2> QED
    BY <2>1, <2>3, AskStep
<1>3. CASE ~(first <= last)
  <2>1. first..last = {}
    BY <1>3, CoordinatorAssumption DEF Ids
  <2>2. redetectQueue' = <<>>
    BY <2>1
  <2>3. redetectQueue' \in Seq(Ids) /\ ToSet(redetectQueue') = {}
    BY <2>2, EmptyQueue DEF ToSet
  <2> QED
    BY <2>3, AskStep
<1> QED
  BY <1>2, <1>3

\* A single recorded coil is asked for.
LEMMA SingleStep ==
  ASSUME LoopInv, Calm, NEW c \in Ids, SetRedetection(c)
  PROVE  LoopInv'
<1> USE DEF SetRedetection, tables, cursor, work, bounds
<1>1. c \in rows
  BY DEF Requestable, Calm
<1>2. redetectQueue' \in Seq(Ids) /\ ToSet(redetectQueue') = ToSet(redetectQueue) \cup {c}
  BY SetPut, PutFacts DEF LoopInv, LoopShape
<1> QED
  BY <1>1, <1>2, AskStep

\* The first cursor stands in the table, or at the edge of the window.
LEMMA CursorFacts ==
  ASSUME coilTable \in Seq(Ids), latest \in 0..MaxCoil, \A c \in rows : c <= latest
  PROVE  /\ FirstCursor \in Nat /\ FirstCursor <= latest
         /\ \/ FirstCursor = 0
            \/ rows # {} /\ lastRow \in rows /\ FirstCursor <= lastRow
            \/ FirstCursor <= Minus(latest, History)
<1> USE CoordinatorAssumption
<1>1. latest \in Nat /\ rows \subseteq Ids
  BY DEF rows, ToSet
<1>2. CASE rows = {} \/ latest = 0
  BY <1>1, <1>2 DEF FirstCursor
<1>3. CASE ~(rows = {} \/ latest = 0)
  <2>1. coilTable # <<>>
    BY <1>3, EmptyQueue DEF rows, ToSet
  <2>2. lastRow \in rows
    BY <2>1, GetFacts DEF lastRow, Last, rows, ToSet
  <2>3. lastRow \in Nat /\ lastRow <= latest
    BY <1>1, <2>2 DEF Ids
  <2> DEFINE s == StartOf(latest, lastRow, {})
  <2> HIDE DEF s
  <2>4. s \in Nat /\ s <= latest /\ (s <= lastRow \/ s <= Minus(latest, History))
    BY <1>1, <2>3, StartFacts DEF s
  <2>5. FirstCursor = s
    BY <1>3 DEF FirstCursor, s
  <2> QED
    BY <1>3, <2>2, <2>4, <2>5
<1> QED
  BY <1>2, <1>3

\* A restart finds its place from the newest row of the table.
LEMMA RestartStep ==
  ASSUME LoopInv, Crash PROVE LoopInv'
<1> USE CoordinatorAssumption DEF LoopInv
<1>1. UNCHANGED <<latest, coilTable, unrecorded>> /\ startCoilId' = FirstCursor
  BY DEF Crash, tables
<1>2. listData' \in Seq(Ids) /\ redetectQueue' \in Seq(Ids) /\ ToSet(redetectQueue') = {}
  BY EmptyQueue DEF ToSet, Crash
<1>3. LoopShape' /\ LoopKnows'
  BY <1>1, <1>2, CursorFacts DEF LoopShape, LoopKnows, rows, Crash
<1>4. LoopInStep'
  BY DEF LoopInStep, InWork, Listing, Crash
<1>5. \A c : Near(c)' <=> Near(c)
  BY <1>1 DEF Near, Window
<1>6. NoGap'
  BY <1>1, <1>5 DEF NoGap, Settled, rows
<1>7. Kept'
  <2> SUFFICES ASSUME NEW c \in Ids, c <= startCoilId', Near(c)' PROVE c \in Settled'
    BY DEF Kept
  <2>1. Near(c) /\ c > Minus(latest, History) /\ c # 0
    BY <1>5 DEF Near, Window, Ids
  <2>2. Minus(latest, History) \in Nat /\ FirstCursor \in Nat
    BY CursorFacts DEF Minus, LoopShape, LoopKnows
  <2>3. lastRow \in rows /\ FirstCursor <= lastRow
    BY <1>1, <2>1, <2>2, CursorFacts DEF Ids, LoopShape, LoopKnows
  <2>4. c <= lastRow
    BY <1>1, <2>2, <2>3, RowIds DEF Ids
  <2> QED
    BY <1>1, <2>1, <2>3, <2>4 DEF NoGap, Settled, rows
<1> QED
  BY <1>3, <1>4, <1>6, <1>7

\* Every step keeps the invariant.
LEMMA LoopInductive ==
  ASSUME LoopInv, Calm, [LoopNext]_loopVars PROVE LoopInv'
<1> USE DEF loopState, tables, redetect, apiVars, cursor, work, bounds
<1>1. CASE CoilArrives
  BY <1>1, ArrivalStep
<1>2. ASSUME NEW c \in Ids, CaptureEnds(c) \/ GraceOver(c) \/ RetryDue(c) PROVE LoopInv'
  BY <1>2, LoopAside DEF CaptureEnds, GraceOver, RetryDue
<1>3. ASSUME NEW c \in Ids, SetRedetection(c) PROVE LoopInv'
  BY <1>3, SingleStep
<1>4. ASSUME NEW first \in Ids, NEW last \in Ids, RangeQueue(first, last) PROVE LoopInv'
  BY <1>4, RangeStep
<1>5. CASE RangeRequest
  BY <1>5, LoopAside DEF RangeRequest, RangeTotal, RangeDone, RangeRunning
<1>6. CASE MainLoop
  <2>1. CASE LoopTop
    BY <2>1, TopStep
  <2>2. CASE LoopList
    BY <2>2, ListStep
  <2>3. CASE CoilBegin
    BY <2>3, CoilStep
  <2>4. CASE CoilWork
    BY <2>4, WorkStep
  <2>5. CASE CoilRecord
    BY <2>5, RecordStep
  <2>6. CASE CoilFails
    BY <2>6, RefusedStep
  <2>7. CASE RePop
    BY <2>7, PopStep
  <2>8. CASE ReCount \/ ReStore \/ ReEnd
    BY <2>8, LoopGoesOn DEF ReCount, ReStore, ReEnd, InWork, LoopInv, LoopShape
  <2> QED
    BY <1>6, <2>1, <2>2, <2>3, <2>4, <2>5, <2>6, <2>7, <2>8 DEF MainLoop
<1>7. CASE Crash
  BY <1>7, RestartStep
<1>8. CASE UNCHANGED loopVars
  BY <1>8, LoopAside DEF loopVars
<1> QED
  BY <1>1, <1>2, <1>3, <1>4, <1>5, <1>6, <1>7, <1>8 DEF LoopNext

\* The cursor leaves no coil behind (ImageMosaicThread.run): whatever restarts, rewinds to
\* missing outputs, cleared records, refused rows and re-detections of recorded coils come
\* together, a coil of the history window that the cursor has reached has a row, is in work
\* or was refused by addCoil.  A request for a coil not recorded yet can take the cursor past
\* others; hence the hypothesis.
THEOREM NoCoilLeftBehind == LoopSpec => []("early" \notin incidents => NoCoilForgotten)
<1>1. LoopInit => (Calm => LoopInv)
  <2> SUFFICES ASSUME LoopInit PROVE LoopInv
    OBVIOUS
  <2>1. latest \in 0..MaxCoil
    BY CoordinatorAssumption DEF LoopInit
  <2>2. coilTable \in Seq(Ids) /\ rows = 1..latest
    <3>1. coilTable = [i \in 1..latest |-> i] /\ latest \in Nat /\ 1..latest \subseteq Ids
      BY <2>1, CoordinatorAssumption DEF LoopInit, Ids
    <3>2. coilTable \in Seq(Ids) /\ DOMAIN coilTable = 1..latest
      BY <3>1
    <3> QED
      BY <3>1, <3>2 DEF rows, ToSet
  <2>3. /\ ToSet(redetectQueue) = {} /\ redetectQueue \in Seq(Ids) /\ listData \in Seq(Ids)
    BY EmptyQueue DEF LoopInit, ToSet
  <2>4. FirstCursor \in Nat /\ FirstCursor <= latest
    BY <2>1, <2>2, CursorFacts
  <2> QED
    BY <2>1, <2>2, <2>3, <2>4, CoordinatorAssumption
    DEF LoopInit, LoopInv, LoopShape, LoopKnows, LoopInStep, NoGap, Settled, Kept, InWork, Listing,
        Near, Window, Ids
<1>2. (Calm => LoopInv) /\ [LoopNext]_loopVars => (Calm => LoopInv)'
  <2> SUFFICES ASSUME Calm => LoopInv, [LoopNext]_loopVars, Calm' PROVE LoopInv'
    OBVIOUS
  <2>1. incidents' = incidents
    BY DEF LoopNext, loopVars, CoilArrives, CaptureEnds, GraceOver, RetryDue, SetRedetection,
       RangeQueue, RangeRequest, RangeTotal, RangeDone, RangeRunning, MainLoop, LoopTop,
       LoopList, CoilBegin, CoilWork, CoilRecord, CoilFails, RePop, ReCount, ReStore, ReEnd,
       Crash
  <2> QED
    BY <2>1, LoopInductive DEF Calm
<1>3. (Calm => LoopInv) => ("early" \notin incidents => NoCoilForgotten)
  <2> SUFFICES ASSUME Calm => LoopInv, "early" \notin incidents,
                      NEW c \in Window(latest), c <= startCoilId, latest <= c + ClearAfter
               PROVE  c \in rows \cup unrecorded \/ (pc \in {"work", "record"} /\ coil = c)
    BY DEF NoCoilForgotten
  <2>1. LoopInv /\ c \in Ids /\ Near(c)
    BY DEF Calm, Near, Window
  <2> QED
    BY <2>1 DEF LoopInv, Kept, Settled, InWork
<1> QED
  BY <1>1, <1>2, <1>3, PTL DEF LoopSpec

=============================================================================
