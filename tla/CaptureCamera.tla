--------------------------- MODULE CaptureCamera ---------------------------
(***************************************************************************)
(* The coil switch together with the driver of one camera's 2D half: the   *)
(* capture thread takes its frames from the driver's queue, and a switch   *)
(* that has missed too many of them asks the driver to reconnect.          *)
(*                                                                         *)
(* A behaviour either plays the driver step by step (detail), or lets      *)
(* frames come as they like and workers fail and die.                      *)
(***************************************************************************)
EXTENDS CaptureSwitch, CameraDriver

CONSTANT Driven  \* the camera whose driver is played

ASSUME CameraAssumption == Driven \in Cams /\ MaxCoil > 1

VARIABLE detail  \* whether the driver is played

cameraVars == <<vars, driver, detail>>

\* The driver is played from where one more switch without a frame is too many.
Missing ==
  /\ last = MaxCoil - 1 /\ sigCoil = last /\ sigPc = "poll" /\ polled = last
  /\ todo = None /\ regFunc = Cams /\ call = [w \in Callers |-> None]
  /\ life = [c \in Cams |-> "up"]
  /\ coil = [c \in Cams |-> last] /\ saver = coil /\ told = coil
  /\ closed = [c \in Cams |-> last - 1]
  /\ running = [c \in Cams |-> TRUE]
  /\ missed = [c \in Cams |-> MissLimit - 1] /\ dry = missed
  /\ frameSince = [c \in Cams |-> FALSE] /\ reconnect = frameSince
  /\ th = [c \in Cams |-> Idle] /\ stored = [c \in Cams |-> None]
  /\ late = {} /\ refused = {}

CameraInit ==
  /\ detail \in BOOLEAN /\ (IF detail THEN Missing ELSE Init)
  /\ DriverInit

\* The steps of the service but for the callbacks and for taking a frame.
Around ==
  \/ NewCoil \/ Signal
  \/ \E c \in Cams :
        \/ WaitFrame(c) \/ SnapshotCoil(c) \/ DropFrame(c)
  \/ PutFrame(Driven, "2d")

\* on_signal asks a camera to reconnect that is connected.
Connected == phase \in {"stream", "fetch", "put", "fail", "hung"}
Asks      == reconnect'[Driven] /\ ~reconnect[Driven]
CallBack(w) ==
  /\ OnSignal(w) /\ ~OnSignalFail(w) /\ (Asks => Connected)
  /\ IF Asks THEN Requested ELSE UNCHANGED <<event, asked>>
  /\ UNCHANGED <<phase, cam, capter, opened, sdk, user, queue2d, trouble, asks>>

\* The frames' contents do not matter here.
PutAny == \E frame \in {1} : Put(frame)
Driver ==
  \/ AskReconnect \/ Worker \/ PutAny
  \/ \E u \in Users : SetParams(u) \/ UseSdk(u)

CameraNext ==
  /\ UNCHANGED detail
  /\ \/ ~detail /\ Next /\ UNCHANGED driver
     \/ detail /\ Around /\ UNCHANGED driver
     \/ detail /\ \E w \in Callers : CallBack(w)
     \/ detail /\ FrameArrives(Driven) /\ TakeFrame
     \/ detail /\ Driver /\ UNCHANGED vars

\* The Signal thread and a registering worker keep running, the quiet wait ends
\* after SIGNAL_SWITCH_MAX_WAIT_SECONDS at the latest; the driver's thread and a
\* parameter change go on, too.
CameraSpec ==
  /\ CameraInit /\ [][CameraNext]_cameraVars
  /\ WF_cameraVars(Signal /\ UNCHANGED <<driver, detail>>)
  /\ \A w \in Callers :
        /\ WF_cameraVars(~detail /\ OnSignal(w) /\ UNCHANGED <<driver, detail>>)
        /\ WF_cameraVars(detail /\ CallBack(w) /\ UNCHANGED detail)
  /\ \A c \in Cams : WF_cameraVars(RegisterInit(c) /\ UNCHANGED <<driver, detail>>)
  /\ WF_cameraVars(detail /\ (Worker \/ PutAny) /\ UNCHANGED <<vars, detail>>)
  /\ \A u \in Users : WF_cameraVars(detail /\ UseSdk(u) /\ UNCHANGED <<vars, detail>>)
=============================================================================
