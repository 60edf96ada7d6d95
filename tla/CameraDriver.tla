---------------------------- MODULE CameraDriver ----------------------------
(***************************************************************************)
(* The driver of a 2D camera (DaHengCamera in app/CapTrue/Camera.py): a    *)
(* thread of its own connects to the device, fetches frames and keeps the  *)
(* latest of them in a queue.  API threads set parameters through the same *)
(* SDK handle, under the same lock, and anyone may ask for a reconnect.    *)
(*                                                                         *)
(* The vendor's calls may fail, take longer than the deadline of the       *)
(* cleanup, or never return.  A device is opened exclusively.  Parameters, *)
(* temperatures and the state shown are left out: the worker refreshes     *)
(* them from its own handle, status requests with a lock they do not wait  *)
(* for.                                                                    *)
(***************************************************************************)
EXTENDS Naturals, Sequences, FiniteSets

CONSTANTS
  Users,      \* API threads that set parameters
  Handles,    \* SDK handles; a released one is made anew
  NoHandle,   \* no handle, no owner
  QueueSize,  \* max_queue_size
  MaxTrouble, \* bound: failures and hangs of the SDK
  MaxAsk,     \* bound: requests of API threads
  Slow        \* whether a parameter change may outlast the cleanup's deadline

ASSUME DriverAssumption ==
  /\ NoHandle \notin Handles \cup Users /\ "worker" \notin Users \cup {NoHandle}
  /\ QueueSize \in Nat \ {0} /\ MaxTrouble \in Nat /\ MaxAsk \in Nat
  /\ Slow \in BOOLEAN

VARIABLES
  phase,    \* where run() is
  cam,      \* its local handle, or NoHandle
  capter,   \* self.capter: the handle the API threads use, or NoHandle
  opened,   \* the handles that have the device open
  sdk,      \* the owner of _sdk_lock: "worker", a user or NoHandle
  user,     \* per API thread: "idle", "using" or "hung"
  event,    \* _reconnect_event
  queue2d,  \* frame_queue
  trouble,  \* how much has failed
  asks,     \* how often API threads have asked or set parameters
  asked     \* history: a reconnect was asked for since the last connect began

driver == <<phase, cam, capter, opened, sdk, user, event, queue2d, trouble, asks, asked>>

Phase(l)  == phase' = l
Trouble   == trouble < MaxTrouble /\ trouble' = trouble + 1

DriverInit ==
  /\ phase = "clear" /\ cam = NoHandle /\ capter = NoHandle /\ opened = {}
  /\ sdk = NoHandle /\ user = [u \in Users |-> "idle"]
  /\ event = FALSE /\ asked = FALSE
  /\ queue2d = <<>> /\ trouble = 0 /\ asks = 0

-----------------------------------------------------------------------------
\* request_reconnect
Requested == event' = TRUE /\ asked' = TRUE
AskReconnect ==
  /\ asks < MaxAsk /\ asks' = asks + 1 /\ Requested
  /\ UNCHANGED <<phase, cam, capter, opened, sdk, user, queue2d, trouble>>

\* Each round of run() begins with a clear event and a new handle ...
ClearsLast  == FALSE
ClearsFirst == TRUE
ClearEvent ==
  /\ phase = "clear" /\ Phase("connect")
  /\ event' = (event /\ ~ClearsFirst) /\ asked' = FALSE
  /\ UNCHANGED <<cam, capter, opened, sdk, user, queue2d, trouble, asks>>

\* ... _create_camera, which fails as long as another handle has the device;
Create ==
  /\ phase = "connect"
  /\ \/ opened = {} /\ Phase("publish") /\ UNCHANGED trouble
        /\ \E h \in Handles : cam' = h /\ opened' = {h}
     \/ opened # {} /\ Phase("fail") /\ UNCHANGED <<cam, opened, trouble>>
     \/ Trouble /\ phase' \in {"fail", "hung"} /\ UNCHANGED <<cam, opened>>
  /\ UNCHANGED <<capter, sdk, user, event, queue2d, asks, asked>>

\* ... the handle is shown to the API threads, and old frames are dropped.
Publish ==
  /\ phase = "publish" /\ sdk = NoHandle /\ Phase("stream")
  /\ capter' = cam /\ queue2d' = <<>>
  /\ event' = (event /\ ClearsFirst)
  /\ UNCHANGED <<cam, opened, sdk, user, trouble, asks, asked>>

\* The loop: a reconnect that was asked for is an error like any other.
Turn ==
  /\ phase = "stream"
  /\ \/ event /\ Phase("fail") /\ UNCHANGED sdk
     \/ ~event /\ sdk = NoHandle /\ Phase("fetch") /\ sdk' = "worker"
  /\ UNCHANGED <<cam, capter, opened, user, event, queue2d, trouble, asks, asked>>

\* A frame, no trigger within the timeout, an error, or no return.
Fetch ==
  /\ phase = "fetch"
  /\ \/ phase' \in {"put", "stream"} /\ sdk' = NoHandle /\ UNCHANGED trouble
     \/ Trouble /\ Phase("fail") /\ sdk' = NoHandle
     \/ Trouble /\ Phase("hung") /\ UNCHANGED sdk
  /\ UNCHANGED <<cam, capter, opened, user, event, queue2d, asks, asked>>

\* _put_latest_frame: a full queue loses its oldest frame.
Put(frame) ==
  /\ phase = "put"
  /\ IF Len(queue2d) < QueueSize
     THEN Phase("stream") /\ queue2d' = Append(queue2d, frame)
     ELSE Phase("put") /\ queue2d' = Tail(queue2d)
  /\ UNCHANGED <<cam, capter, opened, sdk, user, event, trouble, asks, asked>>

\* get_last_frame, called by the capture thread.
TakeFrame ==
  /\ queue2d # <<>> /\ queue2d' = Tail(queue2d)
  /\ UNCHANGED <<phase, cam, capter, opened, sdk, user, event, trouble, asks, asked>>

\* The exception handler drops the frames; the cleanup takes the handle away from
\* the API threads, or gives up after a second when one of them keeps the lock,
Fail ==
  /\ phase = "fail" /\ Phase("detach") /\ queue2d' = <<>>
  /\ UNCHANGED <<cam, capter, opened, sdk, user, event, trouble, asks, asked>>
GivesUp == \E u \in Users : sdk = u /\ (Slow \/ user[u] = "hung")
ReleasesAnyhow == "release"
AfterGivingUp  == "backoff"
Detach ==
  /\ phase = "detach"
  /\ \/ /\ sdk = NoHandle /\ Phase("release")
        /\ capter' = IF capter = cam THEN NoHandle ELSE capter
        /\ UNCHANGED cam
     \/ /\ GivesUp /\ Phase(AfterGivingUp) /\ UNCHANGED capter
        /\ cam' = IF AfterGivingUp = "backoff" THEN NoHandle ELSE cam
  /\ UNCHANGED <<opened, sdk, user, event, queue2d, trouble, asks, asked>>

\* and only a handle that was taken away is released.
Release ==
  /\ phase = "release" /\ Phase("backoff")
  /\ opened' = opened \ {cam} /\ cam' = NoHandle
  /\ UNCHANGED <<capter, sdk, user, event, queue2d, trouble, asks, asked>>
Backoff ==
  /\ phase = "backoff" /\ Phase("clear")
  /\ UNCHANGED <<cam, capter, opened, sdk, user, event, queue2d, trouble, asks, asked>>

\* The worker's steps but for the frame it puts.
Worker ==
  \/ ClearEvent \/ Create \/ Publish \/ Turn \/ Fetch \/ Fail \/ Detach \/ Release \/ Backoff

-----------------------------------------------------------------------------
\* set_params; without the lock in time or without a handle it only raises.
Become(u, l) == user' = [user EXCEPT ![u] = l]
Others == UNCHANGED <<phase, cam, capter, opened, event, queue2d, asked>>
SetParams(u) ==
  /\ user[u] = "idle" /\ Become(u, "using") /\ Others /\ UNCHANGED trouble
  /\ asks < MaxAsk /\ asks' = asks + 1
  /\ sdk = NoHandle /\ capter # NoHandle /\ sdk' = u
UseSdk(u) ==
  /\ user[u] = "using" /\ Others /\ UNCHANGED asks
  /\ \/ Become(u, "idle") /\ sdk' = NoHandle /\ UNCHANGED trouble
     \/ Trouble /\ Become(u, "hung") /\ UNCHANGED sdk

DriverNext ==
  \/ AskReconnect \/ Worker \/ TakeFrame \/ \E frame \in {1} : Put(frame)
  \/ \E u \in Users : SetParams(u) \/ UseSdk(u)
DriverSpec ==
  /\ DriverInit /\ [][DriverNext]_driver
  /\ WF_driver(Worker) /\ WF_driver(\E frame \in {1} : Put(frame))
  /\ \A u \in Users : WF_driver(UseSdk(u))

-----------------------------------------------------------------------------
Hung == phase = "hung" \/ \E u \in Users : user[u] = "hung"

\* No SDK call goes to a handle that was released, or is released under it,
\* although the worker may drop its handle while an API thread uses it.
HandleOpen ==
  /\ phase \in {"publish", "stream", "fetch", "put"} => cam \in opened
  /\ \A u \in Users : user[u] \in {"using", "hung"} => capter \in opened

\* Every reconnect that is asked for, whenever that is, is followed by a connect that
\* begins later, unless a call of the SDK never returns.
ReconnectHonoured == asked ~> ~asked \/ Hung

\* A camera that lost its connection gets it back when the SDK does not fail any more.
Reconnects == []<>(phase = "stream" \/ Hung)
=============================================================================
