------------------------ MODULE CaptureCameraProofs ------------------------
(***************************************************************************)
(* Theorems about the coil switch and the driver of a 2D camera, for any   *)
(* number of cameras, coils, API threads and SDK handles.                  *)
(***************************************************************************)
EXTENDS CaptureCamera, TLAPS

-----------------------------------------------------------------------------
(* The driver. *)

\* Whoever uses the SDK has its lock; the handle shown to the API threads has the
\* device open, and the one about to be released is shown no more.
DriverInv ==
  /\ phase \in {"publish", "stream", "fetch", "put"} => cam \in opened
  /\ phase = "fetch" => sdk = "worker"
  /\ user \in [Users -> {"idle", "using", "hung"}]
  /\ \A u \in Users : user[u] # "idle" => sdk = u /\ capter # NoHandle
  /\ capter # NoHandle => capter \in opened
  /\ phase = "release" /\ capter # NoHandle => capter # cam

\* A step of the driver, of an API thread or of the thread that takes frames.
LEMMA DriverStep == DriverInv /\ [DriverNext]_driver => DriverInv'
<1> SUFFICES ASSUME DriverInv, [DriverNext]_driver PROVE DriverInv'
  OBVIOUS
<1> USE DriverAssumption DEF DriverInv, Phase
<1>1. CASE AskReconnect
  BY <1>1 DEF AskReconnect
<1>2. CASE ClearEvent
  BY <1>2 DEF ClearEvent
<1>3. CASE Create
  BY <1>3 DEF Create, Trouble
<1>4. CASE Publish
  BY <1>4 DEF Publish
<1>5. CASE Turn
  BY <1>5 DEF Turn
<1>6. CASE Fetch
  BY <1>6 DEF Fetch, Trouble
<1>7. CASE Fail
  BY <1>7 DEF Fail
<1>8. CASE Detach
  BY <1>8 DEF Detach, GivesUp, AfterGivingUp
<1>9. CASE Release
  BY <1>9 DEF Release
<1>10. CASE Backoff
  BY <1>10 DEF Backoff
<1>11. CASE TakeFrame
  BY <1>11 DEF TakeFrame
<1>12. ASSUME NEW frame \in {1}, Put(frame) PROVE DriverInv'
  BY <1>12 DEF Put
<1>13. ASSUME NEW u \in Users, SetParams(u) PROVE DriverInv'
  BY <1>13 DEF SetParams, Become, Others
<1>14. ASSUME NEW u \in Users, UseSdk(u) PROVE DriverInv'
  BY <1>14 DEF UseSdk, Become, Others, Trouble
<1>15. CASE UNCHANGED driver
  BY <1>15 DEF driver
<1> QED
  BY <1>1, <1>2, <1>3, <1>4, <1>5, <1>6, <1>7, <1>8, <1>9, <1>10, <1>11, <1>12,
     <1>13, <1>14, <1>15 DEF DriverNext, Worker

\* The driver begins without a handle.
LEMMA DriverStarts == DriverInit => DriverInv
  BY DEF DriverInit, DriverInv

\* No call of the SDK meets a handle that was released, or one that is released under
\* it, however the worker, its cleanup and the API threads interleave and whatever
\* fails or hangs (Camera.py:1131 "The acquisition thread owns and releases the SDK
\* handle").
THEOREM HandlesStayOpen == DriverSpec => []HandleOpen
<1>1. DriverInv => HandleOpen
  BY DEF DriverInv, HandleOpen
<1> QED
  BY <1>1, DriverStarts, DriverStep, PTL DEF DriverSpec

-----------------------------------------------------------------------------
(* The callbacks. *)

CallsPc == {"coil", "save", "run"}

\* A registering worker runs on_signal("init") for itself; Signal calls a worker that
\* is registered, with the event of the switch it delivers.
CallInv ==
  /\ TypeOK
  /\ \A c \in Cams : life[c] = "register" <=> call[c] # None
  /\ \A c \in Cams : call[c] # None =>
       call[c].cam = c /\ call[c].type = "init" /\ call[c].pc \in CallsPc
  /\ todo # None => sigPc \in {"init", "in", "out"} /\ todo \subseteq regFunc
  /\ call["signal"] # None =>
       /\ todo # None /\ call["signal"].cam \in regFunc \ todo
       /\ call["signal"].type = sigPc /\ call["signal"].coil = sigCoil
       /\ sigPc # "in" => call["signal"].pc \in CallsPc
       /\ sigPc = "out" => call["signal"].pc # "save"

\* The callback of c is at pc.
CalledAt(c, pc) == call["signal"] # None /\ call["signal"].cam = c /\ call["signal"].pc = pc

\* While no 2D frame has come since the last trigger in, the counter of missed frames
\* is not above the number of such triggers, nor is what a callback is about to write.
MissInv ==
  \A c \in Cams : ~frameSince[c] =>
    /\ missed[c] <= dry[c]
    /\ CalledAt(c, "count") => Count(call["signal"].n) <= dry[c]

\* The coils of a switch come in order; a worker that registers while Signal goes from
\* one coil to the next is late, any other runs on_signal for the coil of Signal.
OrderInv ==
  /\ sigCoil <= last /\ polled <= last
  /\ sigPc \in {"quiet", "out", "set"} => sigCoil < polled
  /\ sigCoil = 0 => sigPc = "poll" /\ regFunc = {}
  /\ \A c \in Cams \ late : Registering(c) => sigPc \notin {"out", "set"}
  /\ \A c \in Cams \ late : call[c] # None => call[c].coil = sigCoil

\* Thread w is in a callback of c; the one of Signal is called.
InCall(c, w) == call[w] # None /\ call[w].cam = c
Called(c)    == InCall(c, "signal")
\* c has had the callback of the event being delivered.
Over(c)    == todo # None /\ c \notin todo /\ ~Called(c)
\* No thread is in a callback of c, and none is due.
Rests(c)   == life[c] = "up" /\ ~Called(c) /\ (sigPc \in {"poll", "quiet"} \/ Over(c))
\* How far a callback of an event that starts the capture has got with c.
Half(c, pc) ==
  /\ pc # "coil" => coil[c] = sigCoil
  /\ pc \notin {"coil", "save"} => saver[c] = sigCoil
  /\ pc \notin CallsPc => running[c]
\* A worker that is not late: after triggerOut it does not capture, and otherwise only
\* for the coil of Signal; Signal and the worker itself may be in on_signal at once.
SwitchOf(c) ==
  /\ sigPc = "set" \/ (sigPc = "out" /\ Over(c)) => ~running[c]
  /\ sigPc \notin {"out", "set"} =>
       /\ running[c] => coil[c] = sigCoil /\ saver[c] = sigCoil
       /\ \A w \in Callers : InCall(c, w) => Half(c, call[w].pc)
       /\ Rests(c) => Follows(c, sigCoil)
SwitchInv == \A c \in regFunc \ late : SwitchOf(c)

\* A frame is bound to a coil its camera was switched in to, or to a later one.
FrameInv ==
  \A c \in Cams :
    /\ told[c] <= coil[c] /\ told[c] <= sigCoil
    /\ call[c] # None => told[c] <= call[c].coil
    /\ th[c].pc # "check" => life[c] = "up"
    /\ th[c].pc = "arrived" => th[c].told <= told[c]
    /\ th[c].pc = "read" => th[c].told <= th[c].coil
    /\ stored[c] # None => stored[c].coil >= stored[c].told

Places == {"coil", "save", "run", "miss", "count", "limit"}

\* Going on changes the call of the thread itself.
LEMMA GoesOn ==
  ASSUME TypeOK, NEW w \in Callers, call[w] # None, NEW pc \in Places, NEW n \in 0..MissLimit,
         call' = [call EXCEPT ![w] = [call[w] EXCEPT !.pc = pc, !.n = n]]
  PROVE  /\ call[w] \in Call /\ call'[w] \in Call /\ call'[w] # None
         /\ call'[w].cam = call[w].cam /\ call'[w].type = call[w].type
         /\ call'[w].coil = call[w].coil /\ call'[w].pc = pc /\ call'[w].n = n
         /\ \A v \in Callers : v # w => call'[v] = call[v]
         /\ call' \in [Callers -> Call \cup {None}]
<1> DEFINE k == call[w]
           r == [k EXCEPT !.pc = pc, !.n = n]
<1>1. k \in Call /\ call \in [Callers -> Call \cup {None}]
  BY DEF TypeOK
<1>2. call' = [call EXCEPT ![w] = r]
  OBVIOUS
<1> HIDE DEF k
<1>3. /\ r \in Call /\ r # None
      /\ r.cam = k.cam /\ r.type = k.type /\ r.coil = k.coil /\ r.pc = pc /\ r.n = n
  <2>1. r \in Call
    BY <1>1 DEF Call, Places
  <2>2. r # None
    BY <2>1, SwitchAssumption
  <2>3. r.cam = k.cam /\ r.type = k.type /\ r.coil = k.coil /\ r.pc = pc /\ r.n = n
    BY <1>1 DEF Call
  <2> QED
    BY <2>1, <2>2, <2>3
<1> HIDE DEF r
<1>4. call'[w] = r /\ \A v \in Callers : v # w => call'[v] = call[v]
  BY <1>1, <1>2
<1>5. call' \in [Callers -> Call \cup {None}]
  BY <1>1, <1>2, <1>3
<1> QED
  BY <1>1, <1>3, <1>4, <1>5 DEF k

\* A callback moves on to its next place; nothing else of the call changes.
LEMMA GotoFacts ==
  ASSUME TypeOK, NEW w \in Callers, call[w] # None, NEW pc \in Places, Goto(w, pc)
  PROVE  /\ call[w] \in Call /\ call'[w] \in Call /\ call'[w] # None
         /\ call'[w].cam = call[w].cam /\ call'[w].type = call[w].type
         /\ call'[w].coil = call[w].coil /\ call'[w].pc = pc /\ call'[w].n = call[w].n
         /\ \A v \in Callers : v # w => call'[v] = call[v]
         /\ call' \in [Callers -> Call \cup {None}]
<1>1. call[w] \in Call /\ call[w].n \in 0..MissLimit
  BY DEF TypeOK, Call
<1>2. [call[w] EXCEPT !.pc = pc] = [call[w] EXCEPT !.pc = pc, !.n = call[w].n]
  BY <1>1 DEF Call
<1>3. call' = [call EXCEPT ![w] = [call[w] EXCEPT !.pc = pc, !.n = call[w].n]]
  BY <1>2 DEF Goto
<1> QED
  BY <1>1, <1>3, GoesOn

\* What a step of on_signal in thread w does to the calls in progress: its own call
\* goes on with the same camera, event and coil, or returns.
LEMMA CallMoves ==
  ASSUME CallInv, NEW w \in Callers, OnSignal(w)
  PROVE  /\ call[w] # None /\ call[w] \in Call
         /\ call' \in [Callers -> Call \cup {None}]
         /\ \A v \in Callers : v # w => call'[v] = call[v]
         /\ \/ /\ call'[w] # None /\ call'[w] \in Call /\ life' = life
               /\ call'[w].cam = call[w].cam /\ call'[w].type = call[w].type
               /\ call'[w].coil = call[w].coil
               /\ call[w].type # "in" => call'[w].pc \in {"save", "run"}
               /\ call[w].type = "out" => call'[w].pc = "run"
               /\ call[w].pc \notin CallsPc => call'[w].pc \in {"count", "limit"}
            \/ /\ call'[w] = None
               /\ life' = IF w = "signal" THEN life ELSE [life EXCEPT ![w] = "up"]
         /\ UNCHANGED <<last, sigVars, regFunc, th, stored>>
<1> USE SwitchAssumption DEF CallInv, At
<1>1. call[w] # None /\ call[w] \in Call /\ call \in [Callers -> Call \cup {None}]
  BY DEF OnSignal, OnSignalCoil, OnSignalSave, OnSignalFail, OnSignalRun, OnSignalMiss,
         OnSignalCount, OnSignalLimit, TypeOK
<1>2. UNCHANGED <<last, sigVars, regFunc, th, stored>>
  BY DEF OnSignal, OnSignalCoil, OnSignalSave, OnSignalFail, OnSignalRun, OnSignalMiss,
         OnSignalCount, OnSignalLimit
<1>0. call[w].type # "in" => call[w].pc \in CallsPc
  BY <1>1 DEF Callers
<1>3. ASSUME NEW pc \in Places, Goto(w, pc)
      PROVE  /\ call'[w] # None /\ call'[w] \in Call /\ call'[w].pc = pc
             /\ call'[w].cam = call[w].cam /\ call'[w].type = call[w].type
             /\ call'[w].coil = call[w].coil
             /\ call' \in [Callers -> Call \cup {None}]
             /\ \A v \in Callers : v # w => call'[v] = call[v]
  BY <1>1, <1>3, GotoFacts
<1>4. ASSUME Return(w)
      PROVE  /\ call'[w] = None
             /\ life' = IF w = "signal" THEN life ELSE [life EXCEPT ![w] = "up"]
             /\ call' \in [Callers -> Call \cup {None}]
             /\ \A v \in Callers : v # w => call'[v] = call[v]
  BY <1>1, <1>4 DEF Return
<1>5. CASE OnSignalCoil(w)
  <2>1. life' = life /\ call[w].pc = "coil" /\ \E pc \in Places :
          Goto(w, pc) /\ pc = IF call[w].type = "out" THEN "run" ELSE "save"
    BY <1>5 DEF OnSignalCoil, Places
  <2> QED
    BY <1>1, <1>2, <1>3, <2>1 DEF CallsPc
<1>6. CASE OnSignalSave(w)
  <2>1. life' = life /\ call[w].pc = "save" /\ \E pc \in Places : Goto(w, pc) /\ pc = "run"
    BY <1>6 DEF OnSignalSave, Places
  <2> QED
    BY <1>1, <1>2, <1>3, <2>1 DEF CallsPc
<1>7. CASE OnSignalFail(w)
  BY <1>1, <1>2, <1>4, <1>7 DEF OnSignalFail
<1>8. CASE OnSignalRun(w)
  <2>1. call[w].pc = "run" /\ \/ Return(w)
                              \/ (life' = life /\ call[w].type = "in" /\ \E pc \in Places : Goto(w, pc))
    BY <1>8 DEF OnSignalRun, Places
  <2> QED
    BY <1>1, <1>2, <1>3, <1>4, <2>1 DEF CallsPc
<1>9. CASE OnSignalMiss(w)
  <2> DEFINE n == missed[call[w].cam]
  <2>1. n \in 0..MissLimit
    BY <1>1 DEF TypeOK, Call
  <2>2. \/ Return(w)
        \/ /\ life' = life
           /\ call' = [call EXCEPT ![w] = [call[w] EXCEPT !.pc = "count", !.n = n]]
    BY <1>9 DEF OnSignalMiss
  <2> HIDE DEF n
  <2>3. CASE Return(w)
    BY <1>1, <1>2, <1>4, <2>3
  <2>4. CASE /\ life' = life
             /\ call' = [call EXCEPT ![w] = [call[w] EXCEPT !.pc = "count", !.n = n]]
    <3>1. call[w].type = "in"
      BY <1>0, <1>9 DEF OnSignalMiss, CallsPc
    <3> QED
      BY <1>1, <1>2, <2>1, <2>4, <3>1, GoesOn DEF Places
  <2> QED
    BY <2>2, <2>3, <2>4
<1>10. CASE OnSignalCount(w)
  <2>1. life' = life /\ call[w].type = "in" /\ \E pc \in Places : Goto(w, pc) /\ pc = "limit"
    BY <1>0, <1>10 DEF OnSignalCount, Places, CallsPc
  <2> QED
    BY <1>1, <1>2, <1>3, <2>1 DEF CallsPc
<1>11. CASE OnSignalLimit(w)
  BY <1>1, <1>2, <1>4, <1>11 DEF OnSignalLimit
<1> QED
  BY <1>5, <1>6, <1>7, <1>8, <1>9, <1>10, <1>11 DEF OnSignal

\* A callback keeps the types of what it sets.
LEMMA OnSignalTypes ==
  ASSUME CallInv, NEW w \in Callers, OnSignal(w)
  PROVE  TypeOK'
<1> USE SwitchAssumption DEF Coil0
<1>1. /\ call[w] \in Call /\ call' \in [Callers -> Call \cup {None}]
      /\ UNCHANGED <<last, sigVars, regFunc, th, stored>>
      /\ life' = life \/ life' = IF w = "signal" THEN life ELSE [life EXCEPT ![w] = "up"]
      /\ w # "signal" => w \in Cams /\ life[w] = "register"
  BY CallMoves DEF CallInv, Callers
<1>2. call[w].cam \in Cams /\ call[w].coil \in Coil0 /\ call[w].n \in 0..MissLimit
  BY <1>1 DEF Call
<1>3. TypeOK
  BY DEF CallInv
<1>4. \A n \in 0..MissLimit : Count(n) \in 0..MissLimit
  BY DEF Count
<1>5. /\ life' \in [Cams -> {"off", "append", "register", "up", "dead"}]
      /\ regFunc' = {c \in Cams : life'[c] \notin {"off", "dead"}}
  <2>1. /\ life \in [Cams -> {"off", "append", "register", "up", "dead"}]
        /\ regFunc = {c \in Cams : life[c] \notin {"off", "dead"}}
    BY <1>3 DEF TypeOK
  <2>2. \A c \in Cams : life'[c] \in {"off", "dead"} <=> life[c] \in {"off", "dead"}
    BY <1>1, <2>1
  <2> QED
    BY <1>1, <2>1, <2>2
<1>6. /\ coil' \in [Cams -> Coil0] /\ saver' \in [Cams -> Coil0]
      /\ running' \in [Cams -> BOOLEAN]
      /\ missed' \in [Cams -> 0..MissLimit] /\ dry' \in [Cams -> 0..MissLimit]
      /\ frameSince' \in [Cams -> BOOLEAN] /\ reconnect' \in [Cams -> BOOLEAN]
      /\ told' \in [Cams -> Coil0] /\ closed' \in [Cams -> Coil0]
  <2> USE <1>2, <1>3 DEF TypeOK, missVars, capVars, history
  <2>1. CASE OnSignalCoil(w)
    BY <2>1 DEF OnSignalCoil
  <2>2. CASE OnSignalSave(w)
    BY <2>2 DEF OnSignalSave
  <2>3. CASE OnSignalFail(w)
    BY <2>3 DEF OnSignalFail
  <2>4. CASE OnSignalRun(w)
    BY <2>4 DEF OnSignalRun
  <2>5. CASE OnSignalMiss(w)
    BY <1>4, <2>5 DEF OnSignalMiss
  <2>6. CASE OnSignalCount(w)
    BY <1>4, <2>6 DEF OnSignalCount
  <2>7. CASE OnSignalLimit(w)
    <3>1. UNCHANGED <<capVars, frameSince, dry, history>>
      BY <2>7 DEF OnSignalLimit
    <3>2. \/ UNCHANGED <<missed, reconnect>>
          \/ /\ missed' = [missed EXCEPT ![call[w].cam] = 0]
             /\ reconnect' = [reconnect EXCEPT ![call[w].cam] = TRUE]
      BY <2>7 DEF OnSignalLimit
    <3>3. CASE UNCHANGED <<missed, reconnect>>
      BY <3>1, <3>3
    <3>4. CASE /\ missed' = [missed EXCEPT ![call[w].cam] = 0]
               /\ reconnect' = [reconnect EXCEPT ![call[w].cam] = TRUE]
      <4>1. missed' \in [Cams -> 0..MissLimit]
        BY <3>4
      <4>2. reconnect' \in [Cams -> BOOLEAN]
        BY <3>4
      <4> QED
        BY <3>1, <4>1, <4>2
    <3> QED
      BY <3>2, <3>3, <3>4
  <2> QED
    BY <2>1, <2>2, <2>3, <2>4, <2>5, <2>6, <2>7 DEF OnSignal
<1>7. late' \in SUBSET Cams /\ refused' \in SUBSET Cams
  <2>1. late' = late /\ refused' \subseteq refused \cup {call[w].cam}
    BY DEF OnSignal, OnSignalCoil, OnSignalSave, OnSignalFail, OnSignalRun, OnSignalMiss,
       OnSignalCount, OnSignalLimit, history
  <2> QED
    BY <1>2, <1>3, <2>1 DEF TypeOK
<1> QED
  BY <1>1, <1>3, <1>5, <1>6, <1>7 DEF TypeOK, sigVars

Thread == [pc : {"check", "wait", "arrived", "read"}, coil : Coil0, told : Coil0, closed : Coil0]

\* Every step keeps the types.
LEMMA TypeStep == CallInv /\ [Next]_vars => TypeOK'
<1> SUFFICES ASSUME CallInv, [Next]_vars PROVE TypeOK'
  OBVIOUS
<1>0. TypeOK
  BY DEF CallInv
<1> USE SwitchAssumption DEF Coil0, sigVars, capVars, missVars, history
<1>1. CASE NewCoil
  BY <1>0, <1>1 DEF TypeOK, NewCoil
<1>2. CASE Poll
  BY <1>0, <1>2 DEF TypeOK, Poll
<1>3. CASE QuietOver
  BY <1>0, <1>3 DEF TypeOK, QuietOver
<1>4. CASE TriggerBegin
  BY <1>0, <1>4 DEF TypeOK, TriggerBegin
<1>5. CASE TriggerEnd
  <2>1. /\ sigPc' \in {"poll", "quiet", "set", "init", "in", "out"}
        /\ todo' \in (SUBSET Cams) \cup {None}
    BY <1>5 DEF TriggerEnd
  <2> QED
    BY <1>0, <1>5, <2>1 DEF TypeOK, TriggerEnd
<1>6. CASE SetCoil
  BY <1>0, <1>6 DEF TypeOK, SetCoil
<1>7. ASSUME NEW c \in Cams, TriggerNext(c) PROVE TypeOK'
  <2>1. sigPc \in {"init", "in", "out"} /\ todo \in SUBSET Cams
    BY <1>0, <1>7 DEF CallInv, TriggerNext, TypeOK
  <2>2. [cam |-> c, type |-> sigPc, coil |-> sigCoil, pc |-> "coil", n |-> 0] \in Call
    BY <1>0, <2>1 DEF TypeOK, Call
  <2> QED
    BY <1>0, <1>7, <2>1, <2>2 DEF TypeOK, TriggerNext, Callers
<1>8. ASSUME NEW w \in Callers, OnSignal(w) PROVE TypeOK'
  BY <1>8, OnSignalTypes
<1>9. ASSUME NEW c \in Cams, RegisterAppend(c) PROVE TypeOK'
  BY <1>0, <1>9 DEF TypeOK, RegisterAppend
<1>10. ASSUME NEW c \in Cams, RegisterInit(c) PROVE TypeOK'
  <2>1. [cam |-> c, type |-> "init", coil |-> sigCoil, pc |-> "coil", n |-> 0] \in Call
    BY <1>0 DEF TypeOK, Call
  <2> QED
    BY <1>0, <1>10, <2>1 DEF TypeOK, RegisterInit, Callers
<1>11. ASSUME NEW c \in Cams, Die(c) PROVE TypeOK'
  <2>1. call' \in [Callers -> Call \cup {None}]
    BY <1>0, <1>11 DEF TypeOK, Die
  <2>2. todo' \in (SUBSET Cams) \cup {None}
    BY <1>0, <1>11 DEF TypeOK, Die
  <2> QED
    BY <1>0, <1>11, <2>1, <2>2 DEF TypeOK, Die, Idle
<1>12. ASSUME NEW c \in Cams, WaitFrame(c) PROVE TypeOK'
  <2>1. th' \in [Cams -> Thread]
    <3>1. th \in [Cams -> Thread] /\ coil[c] \in Coil0 /\ told[c] \in Coil0 /\ closed[c] \in Coil0
      BY <1>0 DEF TypeOK, Thread
    <3>2. \A t \in Thread : /\ [t EXCEPT !.pc = "wait", !.coil = coil[c]] \in Thread
                            /\ [t EXCEPT !.pc = "read", !.coil = coil[c]] \in Thread
                            /\ [t EXCEPT !.pc = "arrived", !.told = told[c], !.closed = closed[c]] \in Thread
      BY <3>1 DEF Thread
    <3>3. th[c] \in Thread
      BY <3>1
    <3> QED
      BY <1>12, <3>1, <3>2, <3>3 DEF WaitFrame
  <2> QED
    BY <1>0, <1>12, <2>1 DEF TypeOK, Thread, WaitFrame
<1>13. ASSUME NEW c \in Cams, FrameArrives(c) PROVE TypeOK'
  <2>1. th' \in [Cams -> Thread]
    <3>1. th \in [Cams -> Thread] /\ coil[c] \in Coil0 /\ told[c] \in Coil0 /\ closed[c] \in Coil0
      BY <1>0 DEF TypeOK, Thread
    <3>2. \A t \in Thread : /\ [t EXCEPT !.pc = "wait", !.coil = coil[c]] \in Thread
                            /\ [t EXCEPT !.pc = "read", !.coil = coil[c]] \in Thread
                            /\ [t EXCEPT !.pc = "arrived", !.told = told[c], !.closed = closed[c]] \in Thread
      BY <3>1 DEF Thread
    <3>3. th[c] \in Thread
      BY <3>1
    <3> QED
      BY <1>13, <3>1, <3>2, <3>3 DEF FrameArrives
  <2> QED
    BY <1>0, <1>13, <2>1 DEF TypeOK, Thread, FrameArrives
<1>14. ASSUME NEW c \in Cams, SnapshotCoil(c) PROVE TypeOK'
  <2>1. th' \in [Cams -> Thread]
    <3>1. th \in [Cams -> Thread] /\ coil[c] \in Coil0 /\ told[c] \in Coil0 /\ closed[c] \in Coil0
      BY <1>0 DEF TypeOK, Thread
    <3>2. \A t \in Thread : /\ [t EXCEPT !.pc = "wait", !.coil = coil[c]] \in Thread
                            /\ [t EXCEPT !.pc = "read", !.coil = coil[c]] \in Thread
                            /\ [t EXCEPT !.pc = "arrived", !.told = told[c], !.closed = closed[c]] \in Thread
      BY <3>1 DEF Thread
    <3>3. th[c] \in Thread
      BY <3>1
    <3> QED
      BY <1>14, <3>1, <3>2, <3>3 DEF SnapshotCoil
  <2> QED
    BY <1>0, <1>14, <2>1 DEF TypeOK, Thread, SnapshotCoil
<1>15. ASSUME NEW c \in Cams, DropFrame(c) PROVE TypeOK'
  BY <1>0, <1>15 DEF TypeOK, DropFrame, Idle
<1>16. ASSUME NEW c \in Cams, NEW kind \in {"2d", "3d"}, PutFrame(c, kind) PROVE TypeOK'
  <2>1. th' \in [Cams -> Thread]
    BY <1>0, <1>16 DEF TypeOK, Thread, PutFrame, Idle
  <2>2. stored' \in [Cams -> [coil : Coil0, told : Coil0, closed : Coil0] \cup {None}]
    BY <1>0, <1>16 DEF TypeOK, PutFrame
  <2>3. /\ missed' \in [Cams -> 0..MissLimit] /\ dry' \in [Cams -> 0..MissLimit]
        /\ frameSince' \in [Cams -> BOOLEAN] /\ reconnect' \in [Cams -> BOOLEAN]
    <3>1. \/ UNCHANGED missVars
          \/ /\ missed' = [missed EXCEPT ![c] = 0] /\ dry' = [dry EXCEPT ![c] = 0]
             /\ frameSince' = [frameSince EXCEPT ![c] = TRUE] /\ UNCHANGED reconnect
      BY <1>16 DEF PutFrame
    <3>2. CASE UNCHANGED missVars
      BY <1>0, <3>2 DEF TypeOK
    <3>3. CASE /\ missed' = [missed EXCEPT ![c] = 0] /\ dry' = [dry EXCEPT ![c] = 0]
               /\ frameSince' = [frameSince EXCEPT ![c] = TRUE] /\ UNCHANGED reconnect
      <4>1. missed' \in [Cams -> 0..MissLimit] /\ dry' \in [Cams -> 0..MissLimit]
        BY <1>0, <3>3 DEF TypeOK
      <4>2. frameSince' \in [Cams -> BOOLEAN] /\ reconnect' \in [Cams -> BOOLEAN]
        BY <1>0, <3>3 DEF TypeOK
      <4> QED
        BY <4>1, <4>2
    <3> QED
      BY <3>1, <3>2, <3>3
  <2> QED
    BY <1>0, <1>16, <2>1, <2>2, <2>3 DEF TypeOK, Thread, PutFrame
<1>17. CASE UNCHANGED vars
  BY <1>0, <1>17 DEF TypeOK, vars
<1> QED
  BY <1>1, <1>2, <1>3, <1>4, <1>5, <1>6, <1>7, <1>8, <1>9, <1>10, <1>11, <1>12,
     <1>13, <1>14, <1>15, <1>16, <1>17 DEF Next, Signal

\* A call that begins.
LEMMA CallBegins ==
  ASSUME TypeOK, NEW c \in Cams, NEW type \in {"init", "in", "out"}
  PROVE  LET new == [cam |-> c, type |-> type, coil |-> sigCoil, pc |-> "coil", n |-> 0]
         IN  new \in Call /\ new # None
BY SwitchAssumption DEF TypeOK, Call

\* Every step keeps the calls in order.
LEMMA CallStep == CallInv /\ [Next]_vars => CallInv'
<1> SUFFICES ASSUME CallInv, [Next]_vars PROVE CallInv'
  OBVIOUS
<1>0. TypeOK /\ TypeOK'
  BY TypeStep DEF CallInv
<1>a. /\ call \in [Callers -> Call \cup {None}] /\ Cams \subseteq Callers
      /\ "signal" \in Callers /\ "signal" \notin Cams
      /\ life \in [Cams -> {"off", "append", "register", "up", "dead"}]
      /\ regFunc = {c \in Cams : life[c] \notin {"off", "dead"}}
      /\ None \notin Call /\ (regFunc # None /\ todo \in (SUBSET Cams) \cup {None})
  <2>1. regFunc # None
    BY <1>0, SwitchAssumption DEF TypeOK
  <2> QED
    BY <1>0, <2>1, SwitchAssumption DEF TypeOK, Callers
<1>b. ASSUME UNCHANGED <<call, life, todo, sigPc, regFunc, sigCoil>> PROVE CallInv'
  BY <1>0, <1>b DEF CallInv
<1>1. CASE NewCoil
  BY <1>b, <1>1 DEF NewCoil, sigVars
<1>2. CASE Poll
  BY <1>0, <1>2 DEF Poll, CallInv
<1>3. CASE QuietOver
  BY <1>0, <1>3 DEF QuietOver, CallInv
<1>4. CASE TriggerBegin
  BY <1>0, <1>a, <1>4 DEF TriggerBegin, CallInv
<1>5. CASE TriggerEnd
  BY <1>0, <1>5 DEF TriggerEnd, CallInv
<1>6. CASE SetCoil
  BY <1>0, <1>6 DEF SetCoil, CallInv
<1>7. ASSUME NEW c \in Cams, TriggerNext(c) PROVE CallInv'
  <2>1. sigPc \in {"init", "in", "out"} /\ todo # None /\ todo \subseteq regFunc
    BY <1>7 DEF TriggerNext, CallInv
  <2> DEFINE new == [cam |-> c, type |-> sigPc, coil |-> sigCoil, pc |-> "coil", n |-> 0]
  <2>2. new # None
    BY <1>0, <2>1, CallBegins
  <2>3. new.cam = c /\ new.type = sigPc /\ new.coil = sigCoil /\ new.pc = "coil"
    OBVIOUS
  <2>4. call' = [call EXCEPT !["signal"] = new]
    BY <1>7 DEF TriggerNext
  <2> HIDE DEF new
  <2>5. call'["signal"] = new /\ \A d \in Cams : call'[d] = call[d]
    BY <1>a, <2>4
  <2>6. todo' # None /\ todo' = todo \ {c}
    BY <1>0, <1>a, <1>7, SwitchAssumption DEF TriggerNext
  <2> QED
    BY <1>0, <1>a, <1>7, <2>1, <2>2, <2>3, <2>5, <2>6 DEF TriggerNext, CallInv, CallsPc
<1>8. ASSUME NEW w \in Callers, OnSignal(w) PROVE CallInv'
  BY <1>0, <1>a, <1>8, CallMoves DEF CallInv, CallsPc, sigVars, Callers
<1>9. ASSUME NEW c \in Cams, RegisterAppend(c) PROVE CallInv'
  BY <1>0, <1>a, <1>9 DEF RegisterAppend, CallInv, sigVars
<1>10. ASSUME NEW c \in Cams, RegisterInit(c) PROVE CallInv'
  <2> DEFINE new == [cam |-> c, type |-> "init", coil |-> sigCoil, pc |-> "coil", n |-> 0]
  <2>1. new # None
    BY <1>0, CallBegins
  <2>2. new.cam = c /\ new.type = "init" /\ new.pc = "coil"
    OBVIOUS
  <2>3. call' = [call EXCEPT ![c] = new]
    BY <1>10 DEF RegisterInit
  <2> HIDE DEF new
  <2>4. call'[c] = new /\ \A w \in Callers : w # c => call'[w] = call[w]
    BY <1>a, <2>3
  <2> QED
    BY <1>0, <1>a, <1>10, <2>1, <2>2, <2>4 DEF RegisterInit, CallInv, CallsPc, sigVars, Callers
<1>11. ASSUME NEW c \in Cams, Die(c) PROVE CallInv'
  <2>1. /\ \A d \in Cams : call'[d] = call[d]
        /\ call'["signal"] # None => call' = call /\ call["signal"].cam # c
    BY <1>a, <1>11 DEF Die
  <2>2. /\ todo' # None <=> todo # None
        /\ todo # None => todo' = todo \ {c}
    BY <1>a, <1>11, SwitchAssumption DEF Die
  <2>3. /\ regFunc' = regFunc \ {c}
        /\ \A d \in Cams : life'[d] = "register" <=> life[d] = "register"
        /\ UNCHANGED <<sigPc, sigCoil>>
    BY <1>a, <1>11 DEF Die
  <2> QED
    BY <1>0, <1>a, <2>1, <2>2, <2>3 DEF CallInv
<1>12. ASSUME NEW c \in Cams, WaitFrame(c) PROVE CallInv'
  BY <1>b, <1>12 DEF WaitFrame, sigVars
<1>13. ASSUME NEW c \in Cams, FrameArrives(c) PROVE CallInv'
  BY <1>b, <1>13 DEF FrameArrives, sigVars
<1>14. ASSUME NEW c \in Cams, SnapshotCoil(c) PROVE CallInv'
  BY <1>b, <1>14 DEF SnapshotCoil, sigVars
<1>15. ASSUME NEW c \in Cams, DropFrame(c) PROVE CallInv'
  BY <1>b, <1>15 DEF DropFrame, sigVars
<1>16. ASSUME NEW c \in Cams, NEW kind \in {"2d", "3d"}, PutFrame(c, kind) PROVE CallInv'
  BY <1>b, <1>16 DEF PutFrame, sigVars
<1>17. CASE UNCHANGED vars
  BY <1>b, <1>17 DEF vars, sigVars
<1> QED
  BY <1>1, <1>2, <1>3, <1>4, <1>5, <1>6, <1>7, <1>8, <1>9, <1>10, <1>11, <1>12,
     <1>13, <1>14, <1>15, <1>16, <1>17 DEF Next, Signal

-----------------------------------------------------------------------------
(* The counter of missed frames. *)

\* Every step keeps the counter below the history, also when the 2D thread clears it
\* between the reading and the writing of a callback.
LEMMA MissStep == CallInv /\ MissInv /\ [Next]_vars => MissInv'
<1> SUFFICES ASSUME CallInv, MissInv, [Next]_vars PROVE MissInv'
  OBVIOUS
<1>0. TypeOK /\ CallInv'
  BY CallStep DEF CallInv
<1>a. /\ call \in [Callers -> Call \cup {None}] /\ "signal" \notin Cams
      /\ missed \in [Cams -> 0..MissLimit] /\ dry \in [Cams -> 0..MissLimit]
      /\ frameSince \in [Cams -> BOOLEAN] /\ MissLimit \in Nat
  BY <1>0, SwitchAssumption DEF TypeOK
<1>b. ASSUME UNCHANGED <<missed, dry, frameSince>>,
             \A c \in Cams : ~CalledAt(c, "count")' \/ call'["signal"] = call["signal"]
      PROVE  MissInv'
  BY <1>b DEF MissInv, CalledAt
<1>c. \A n, d \in 0..MissLimit : /\ Count(n) \in 0..MissLimit
                                /\ n <= Count(n) /\ (n <= d => Count(n) <= Count(d))
  BY <1>a DEF Count
<1>1. CASE NewCoil
  BY <1>b, <1>1 DEF NewCoil, missVars
<1>2. CASE Poll
  BY <1>b, <1>2 DEF Poll, missVars
<1>3. CASE QuietOver
  BY <1>b, <1>3 DEF QuietOver, missVars
<1>4. CASE TriggerBegin
  BY <1>b, <1>4 DEF TriggerBegin, missVars
<1>5. CASE TriggerEnd
  BY <1>b, <1>5 DEF TriggerEnd, missVars
<1>6. CASE SetCoil
  BY <1>b, <1>6 DEF SetCoil, missVars
<1>7. ASSUME NEW c \in Cams, TriggerNext(c) PROVE MissInv'
  <2>1. call'["signal"].pc = "coil"
    BY <1>a, <1>7 DEF TriggerNext, Callers
  <2> QED
    BY <1>b, <1>7, <2>1 DEF TriggerNext, missVars, CalledAt
<1>8. ASSUME NEW w \in Callers, OnSignal(w) PROVE MissInv'
  <2>0. /\ call[w] # None /\ call[w] \in Call /\ call[w].cam \in Cams
        /\ call[w].n \in 0..MissLimit
        /\ \A v \in Callers : v # w => call'[v] = call[v]
    BY <1>8, CallMoves DEF Call
  <2>1. \A pc \in Places : Goto(w, pc) => call'[w].pc = pc
    BY <1>0, <2>0, GotoFacts
  <2>2. Return(w) => call'[w] = None
    BY <1>a DEF Return
  <2>3. w # "signal" => w \in Cams /\ call[w].pc \in CallsPc
    BY <2>0 DEF CallInv, Callers
  <2>4. CASE OnSignalCoil(w)
    BY <1>b, <2>0, <2>1, <2>4 DEF OnSignalCoil, missVars, CalledAt, Places, Callers
  <2>5. CASE OnSignalSave(w)
    BY <1>b, <2>0, <2>1, <2>5 DEF OnSignalSave, missVars, CalledAt, Places, Callers
  <2>6. CASE OnSignalFail(w)
    BY <1>b, <2>0, <2>2, <2>6 DEF OnSignalFail, missVars, CalledAt, Callers
  <2>7. CASE OnSignalRun(w)
    BY <1>b, <2>0, <2>1, <2>2, <2>7 DEF OnSignalRun, missVars, CalledAt, Places, Callers
  <2>8. CASE OnSignalMiss(w)
    <3>1. w = "signal"
      BY <2>3, <2>8 DEF OnSignalMiss, At, CallsPc
    <3> DEFINE c == call[w].cam
    <3>2. /\ dry' = [dry EXCEPT ![c] = Count(@)] /\ frameSince' = [frameSince EXCEPT ![c] = FALSE]
          /\ \/ frameSince[c] /\ missed' = [missed EXCEPT ![c] = 0] /\ call'[w] = None
             \/ ~frameSince[c] /\ missed' = missed /\ call'[w].cam = c /\ call'[w].n = missed[c]
      <4>1. "count" \in Places /\ missed[c] \in 0..MissLimit
        BY <1>a, <2>0 DEF Places
      <4>2. ~frameSince[c] =>
              call' = [call EXCEPT ![w] = [call[w] EXCEPT !.pc = "count", !.n = missed[c]]]
        BY <2>8 DEF OnSignalMiss
      <4>3. ASSUME ~frameSince[c] PROVE call'[w].cam = c /\ call'[w].n = missed[c]
        <5> DEFINE n == missed[c]
        <5>1. call' = [call EXCEPT ![w] = [call[w] EXCEPT !.pc = "count", !.n = n]]
          BY <4>2, <4>3
        <5>2. n \in 0..MissLimit
          BY <4>1
        <5> HIDE DEF n
        <5>3. call'[w].cam = call[w].cam /\ call'[w].n = n
          BY <1>0, <2>0, <5>1, <5>2, GoesOn DEF Places
        <5> QED
          BY <5>3 DEF n
      <4> QED
        BY <2>2, <2>8, <4>3 DEF OnSignalMiss
    <3>3. c \in Cams
      BY <2>0
    <3> HIDE DEF c
    <3>4. ASSUME NEW d \in Cams, ~frameSince'[d]
          PROVE  missed'[d] <= dry'[d] /\ (CalledAt(d, "count")' => Count(call'["signal"].n) <= dry'[d])
      <4>1. /\ missed[d] \in 0..MissLimit /\ dry[d] \in 0..MissLimit
            /\ ~frameSince[d] => missed[d] <= dry[d]
        BY <1>a DEF MissInv
      <4>2. CASE d = c
        <5>1. CASE frameSince[c]
          BY <1>a, <1>c, <3>1, <3>2, <3>3, <4>1, <4>2, <5>1 DEF CalledAt
        <5>2. CASE ~frameSince[c]
          <6>1. missed'[d] = missed[d] /\ dry'[d] = Count(dry[d]) /\ call'["signal"].n = missed[d]
            BY <1>a, <3>1, <3>2, <4>2, <5>2
          <6>2. /\ missed[d] <= dry[d] /\ dry[d] <= Count(dry[d]) /\ Count(dry[d]) \in 0..MissLimit
                /\ Count(missed[d]) <= Count(dry[d])
            BY <1>c, <4>1, <4>2, <5>2
          <6> QED
            BY <1>a, <4>1, <6>1, <6>2
        <5> QED
          BY <5>1, <5>2
      <4>3. CASE d # c
        <5>1. ~CalledAt(d, "count")'
          BY <3>1, <3>2, <4>3 DEF CalledAt
        <5>2. missed'[d] = missed[d] /\ dry'[d] = dry[d] /\ frameSince'[d] = frameSince[d]
          BY <1>a, <3>2, <4>3
        <5> QED
          BY <3>4, <4>1, <5>1, <5>2
      <4> QED
        BY <4>2, <4>3
    <3> QED
      BY <3>4 DEF MissInv
  <2>9. CASE OnSignalCount(w)
    <3>1. w = "signal"
      BY <2>3, <2>9 DEF OnSignalCount, At, CallsPc
    <3>2. /\ missed' = [missed EXCEPT ![call[w].cam] = Count(call[w].n)]
          /\ UNCHANGED <<dry, frameSince>> /\ call'[w].pc = "limit" /\ call[w].pc = "count"
      BY <2>1, <2>9 DEF OnSignalCount, Places, At
    <3> QED
      BY <1>a, <2>0, <3>1, <3>2 DEF MissInv, CalledAt
  <2>10. CASE OnSignalLimit(w)
    <3>1. w = "signal"
      BY <2>3, <2>10 DEF OnSignalLimit, At, CallsPc
    <3>2. /\ missed' = missed \/ missed' = [missed EXCEPT ![call[w].cam] = 0]
          /\ UNCHANGED <<dry, frameSince>> /\ call'[w] = None
      BY <2>2, <2>10 DEF OnSignalLimit
    <3>3. \A d \in Cams : missed'[d] = missed[d] \/ missed'[d] = 0
      BY <1>a, <3>2
    <3> QED
      BY <1>a, <3>1, <3>2, <3>3 DEF MissInv, CalledAt
  <2> QED
    BY <1>8, <2>4, <2>5, <2>6, <2>7, <2>8, <2>9, <2>10 DEF OnSignal
<1>9. ASSUME NEW c \in Cams, RegisterAppend(c) PROVE MissInv'
  <2>1. ~CalledAt(c, "count")'
    BY <1>0, <1>9 DEF RegisterAppend, CallInv, TypeOK, CalledAt
  <2> QED
    BY <1>a, <1>9, <2>1 DEF RegisterAppend, MissInv, CalledAt
<1>10. ASSUME NEW c \in Cams, RegisterInit(c) PROVE MissInv'
  BY <1>a, <1>b, <1>10 DEF RegisterInit, missVars, CalledAt, Callers
<1>11. ASSUME NEW c \in Cams, Die(c) PROVE MissInv'
  BY <1>a, <1>b, <1>11 DEF Die, missVars, CalledAt, Callers
<1>12. ASSUME NEW c \in Cams, WaitFrame(c) PROVE MissInv'
  BY <1>b, <1>12 DEF WaitFrame, missVars
<1>13. ASSUME NEW c \in Cams, FrameArrives(c) PROVE MissInv'
  BY <1>b, <1>13 DEF FrameArrives, missVars
<1>14. ASSUME NEW c \in Cams, SnapshotCoil(c) PROVE MissInv'
  BY <1>b, <1>14 DEF SnapshotCoil, missVars
<1>15. ASSUME NEW c \in Cams, DropFrame(c) PROVE MissInv'
  BY <1>b, <1>15 DEF DropFrame, missVars
<1>16. ASSUME NEW c \in Cams, NEW kind \in {"2d", "3d"}, PutFrame(c, kind) PROVE MissInv'
  BY <1>a, <1>b, <1>16 DEF PutFrame, missVars, MissInv, CalledAt
<1>17. CASE UNCHANGED vars
  BY <1>b, <1>17 DEF vars, missVars
<1> QED
  BY <1>1, <1>2, <1>3, <1>4, <1>5, <1>6, <1>7, <1>8, <1>9, <1>10, <1>11, <1>12,
     <1>13, <1>14, <1>15, <1>16, <1>17 DEF Next, Signal

\* A step of the service that asks for a reconnect.
Justified == \A c \in Cams : reconnect'[c] /\ ~reconnect[c] => dry'[c] = MissLimit
\* Every step satisfies the action property.
LEMMA JustifiedStep == CallInv /\ MissInv /\ [Next]_vars => Justified \/ UNCHANGED vars
<1> SUFFICES ASSUME CallInv, MissInv, Next PROVE Justified
  OBVIOUS
<1>0. TypeOK
  BY DEF CallInv
<1>1. ASSUME NEW w \in Callers, OnSignalLimit(w) PROVE Justified
  <2>1. call[w].cam \in Cams
    BY <1>1, CallMoves DEF OnSignal, Call
  <2>2. \A c \in Cams : reconnect'[c] /\ ~reconnect[c] =>
          missed[c] = MissLimit /\ ~frameSince[c] /\ dry' = dry
    BY <1>0, <1>1, <2>1 DEF OnSignalLimit, TypeOK
  <2> QED
    BY <1>0, <2>2, SwitchAssumption DEF MissInv, TypeOK, Justified
<1>2. ASSUME NEW w \in Callers, OnSignal(w), ~OnSignalLimit(w) PROVE UNCHANGED reconnect
  BY <1>2 DEF OnSignal, OnSignalCoil, OnSignalSave, OnSignalFail, OnSignalRun,
     OnSignalMiss, OnSignalCount, missVars
<1>3. ASSUME NEW c \in Cams, RegisterAppend(c) PROVE Justified
  BY <1>0, <1>3 DEF RegisterAppend, TypeOK, Justified
<1>4. ASSUME NEW c \in Cams, NEW kind \in {"2d", "3d"}, PutFrame(c, kind) PROVE UNCHANGED reconnect
  BY <1>4 DEF PutFrame, missVars
<1>5. ASSUME NEW c \in Cams,
             \/ RegisterInit(c) \/ Die(c) \/ WaitFrame(c) \/ FrameArrives(c) \/ SnapshotCoil(c)
             \/ DropFrame(c) \/ TriggerNext(c)
      PROVE  UNCHANGED reconnect
  BY <1>5 DEF RegisterInit, Die, WaitFrame, FrameArrives, SnapshotCoil, DropFrame, TriggerNext,
     missVars
<1>6. ASSUME NewCoil \/ Poll \/ QuietOver \/ TriggerBegin \/ TriggerEnd \/ SetCoil
      PROVE  UNCHANGED reconnect
  BY <1>6 DEF NewCoil, Poll, QuietOver, TriggerBegin, TriggerEnd, SetCoil, missVars
<1> QED
  BY <1>1, <1>2, <1>3, <1>4, <1>5, <1>6 DEF Next, Signal, Justified

\* The service begins without calls and without missed frames.
LEMMA SwitchStarts == Init => CallInv /\ MissInv
<1> SUFFICES ASSUME Init PROVE CallInv /\ MissInv
  OBVIOUS
<1> USE SwitchAssumption DEF Init, Coil0
<1>1. TypeOK
  BY DEF TypeOK, Idle
<1> QED
  BY <1>1 DEF CallInv, MissInv, CalledAt, Callers

\* A camera is asked to reconnect only after MissLimit switches in without a 2D frame,
\* however the 2D thread, the Signal thread and registering workers interleave
\* (CapTure.py: the missed-frame counter of the 2D camera).
THEOREM ReconnectsAreJustified == Spec => ReconnectJustified
<1>1. Justified \/ UNCHANGED vars => [Justified]_vars
  OBVIOUS
<1> QED
  BY <1>1, SwitchStarts, CallStep, MissStep, JustifiedStep, PTL
  DEF Spec, ReconnectJustified, Justified

-----------------------------------------------------------------------------
(* The coils. *)

\* Every step keeps the coils of a switch in order.
LEMMA OrderStep == CallInv /\ OrderInv /\ [Next]_vars => OrderInv'
<1> SUFFICES ASSUME CallInv, OrderInv, [Next]_vars PROVE OrderInv'
  OBVIOUS
<1>0. TypeOK /\ CallInv'
  BY CallStep DEF CallInv
<1>a. /\ call \in [Callers -> Call \cup {None}] /\ Cams \subseteq Callers
      /\ "signal" \in Callers /\ "signal" \notin Cams
      /\ life \in [Cams -> {"off", "append", "register", "up", "dead"}]
      /\ regFunc = {c \in Cams : life[c] \notin {"off", "dead"}}
      /\ last \in Nat /\ sigCoil \in Nat /\ polled \in Nat
  BY <1>0, SwitchAssumption DEF TypeOK, Callers, Coil0
<1>b. ASSUME UNCHANGED <<last, sigCoil, polled, sigPc, regFunc, life, call, late>> PROVE OrderInv'
  BY <1>b DEF OrderInv, Registering
<1>c. \A c \in Cams : call[c] # None => Registering(c)
  BY DEF CallInv, Registering
<1> USE DEF sigVars, history
<1>1. CASE NewCoil
  BY <1>a, <1>1 DEF NewCoil, OrderInv, Registering
<1>2. CASE Poll
  <2>1. sigCoil = 0 => \A c \in Cams : call[c] = None
    BY <1>a, <1>c DEF OrderInv, Registering
  <2> QED
    BY <1>a, <1>2, <2>1 DEF Poll, OrderInv, Registering
<1>3. CASE QuietOver
  <2>1. \A c \in Cams \ late' : ~Registering(c) /\ ~Registering(c)' /\ call'[c] = None
    BY <1>3, <1>c DEF QuietOver, Registering
  <2> QED
    BY <1>a, <1>3, <2>1 DEF QuietOver, OrderInv
<1>4. CASE TriggerBegin
  BY <1>b, <1>4 DEF TriggerBegin
<1>5. CASE TriggerEnd
  <2>1. /\ UNCHANGED <<last, sigCoil, polled, regFunc, life, call, late>>
        /\ sigPc' = IF sigPc = "out" THEN "set" ELSE "poll"
    BY <1>5 DEF TriggerEnd
  <2> QED
    BY <1>a, <2>1 DEF OrderInv, Registering
<1>6. CASE SetCoil
  <2>1. \A c \in Cams \ late : call[c] = None
    BY <1>6, <1>c DEF SetCoil, OrderInv
  <2> QED
    BY <1>a, <1>6, <2>1 DEF SetCoil, OrderInv, Registering
<1>7. ASSUME NEW c \in Cams, TriggerNext(c) PROVE OrderInv'
  <2>1. \A d \in Cams : call'[d] = call[d]
    BY <1>a, <1>7 DEF TriggerNext
  <2> QED
    BY <1>a, <1>7, <2>1 DEF TriggerNext, OrderInv, Registering
<1>8. ASSUME NEW w \in Callers, OnSignal(w) PROVE OrderInv'
  <2>1. /\ UNCHANGED <<last, sigCoil, polled, sigPc, regFunc>>
        /\ \A d \in Cams : call'[d] # None => call[d] # None /\ call'[d].coil = call[d].coil
        /\ life' = life \/ life' = IF w = "signal" THEN life ELSE [life EXCEPT ![w] = "up"]
    BY <1>a, <1>8, CallMoves
  <2>2. \A d \in Cams : life'[d] = life[d] \/ life'[d] = "up"
    BY <1>a, <2>1
  <2>3. late' = late
    BY <1>8 DEF OnSignal, OnSignalCoil, OnSignalSave, OnSignalFail, OnSignalRun, OnSignalMiss,
       OnSignalCount, OnSignalLimit
  <2> QED
    BY <1>a, <2>1, <2>2, <2>3 DEF OrderInv, Registering
<1>9. ASSUME NEW c \in Cams, RegisterAppend(c) PROVE OrderInv'
  <2>1. /\ UNCHANGED <<last, sigVars, call>> /\ sigCoil # 0
        /\ \A d \in Cams : d # c => life'[d] = life[d]
        /\ late' = IF sigPc \in {"out", "set"} THEN late \cup {c} ELSE late \ {c}
    BY <1>a, <1>9 DEF RegisterAppend
  <2>2. call[c] = None
    BY <1>9 DEF RegisterAppend, CallInv
  <2> QED
    BY <1>a, <2>1, <2>2 DEF OrderInv, Registering
<1>10. ASSUME NEW c \in Cams, RegisterInit(c) PROVE OrderInv'
  <2>1. \A d \in Cams : IF d = c THEN call'[d].coil = sigCoil ELSE call'[d] = call[d]
    BY <1>a, <1>10 DEF RegisterInit
  <2>2. UNCHANGED <<last, sigVars, regFunc, late>> /\ \A d \in Cams : Registering(d)' <=> Registering(d)
    BY <1>a, <1>10 DEF RegisterInit, Registering
  <2> QED
    BY <1>a, <2>1, <2>2 DEF OrderInv
<1>11. ASSUME NEW c \in Cams, Die(c) PROVE OrderInv'
  <2>1. /\ \A d \in Cams : call'[d] = call[d] /\ (Registering(d)' => Registering(d))
        /\ regFunc' \subseteq regFunc
    BY <1>a, <1>11 DEF Die, Registering
  <2> QED
    BY <1>a, <1>11, <2>1 DEF Die, OrderInv
<1>12. ASSUME NEW c \in Cams, WaitFrame(c) PROVE OrderInv'
  BY <1>b, <1>12 DEF WaitFrame
<1>13. ASSUME NEW c \in Cams, FrameArrives(c) PROVE OrderInv'
  BY <1>b, <1>13 DEF FrameArrives
<1>14. ASSUME NEW c \in Cams, SnapshotCoil(c) PROVE OrderInv'
  BY <1>b, <1>14 DEF SnapshotCoil
<1>15. ASSUME NEW c \in Cams, DropFrame(c) PROVE OrderInv'
  BY <1>b, <1>15 DEF DropFrame
<1>16. ASSUME NEW c \in Cams, NEW kind \in {"2d", "3d"}, PutFrame(c, kind) PROVE OrderInv'
  BY <1>b, <1>16 DEF PutFrame
<1>17. CASE UNCHANGED vars
  BY <1>b, <1>17 DEF vars
<1> QED
  BY <1>1, <1>2, <1>3, <1>4, <1>5, <1>6, <1>7, <1>8, <1>9, <1>10, <1>11, <1>12,
     <1>13, <1>14, <1>15, <1>16, <1>17 DEF Next, Signal

\* A callback is in the thread of Signal, or in that of the registering worker itself;
\* unless its worker is late it is for the coil of Signal.
LEMMA WhoCalls ==
  ASSUME CallInv, OrderInv, NEW w \in Callers, call[w] # None, NEW c \in Cams, c = call[w].cam
  PROVE  /\ c \in regFunc /\ InCall(c, w)
         /\ \/ /\ w = "signal" /\ call[w].coil = sigCoil /\ sigPc = call[w].type
               /\ todo # None /\ c \notin todo /\ sigPc \in {"init", "in", "out"}
            \/ /\ w = c /\ life[c] = "register" /\ call[w].type = "init" /\ call[w].pc \in CallsPc
               /\ c \notin late => call[w].coil = sigCoil /\ sigPc \notin {"out", "set"}
<1>a. /\ life \in [Cams -> {"off", "append", "register", "up", "dead"}]
      /\ regFunc = {d \in Cams : life[d] \notin {"off", "dead"}}
  BY DEF CallInv, TypeOK
<1>1. CASE w = "signal"
  BY <1>a, <1>1 DEF CallInv, InCall
<1>2. CASE w # "signal"
  <2>1. w \in Cams /\ c = w /\ life[c] = "register" /\ call[w].type = "init"
        /\ call[w].pc \in CallsPc
    BY <1>a, <1>2 DEF CallInv, Callers
  <2> QED
    BY <1>a, <2>1 DEF OrderInv, Registering, InCall
<1> QED
  BY <1>1, <1>2

\* Nothing of d's switch changes.
LEMMA SwitchSame ==
  ASSUME NEW d \in Cams, SwitchOf(d), UNCHANGED <<sigPc, sigCoil>>,
         coil'[d] = coil[d], saver'[d] = saver[d], running'[d] = running[d],
         life'[d] = life[d], d \in refused => d \in refused',
         \A w \in Callers : InCall(d, w)' => InCall(d, w) /\ call'[w] = call[w],
         Called(d)' <=> Called(d), Over(d)' => Over(d)
  PROVE  SwitchOf(d)'
<1>1. \A w \in Callers : InCall(d, w)' => InCall(d, w) /\ call'[w].pc = call[w].pc
  OBVIOUS
<1> HIDE DEF InCall
<1>2. Rests(d)' => Rests(d)
  BY DEF Rests
<1>3. \A pc : Half(d, pc)' <=> Half(d, pc)
  BY DEF Half
<1> QED
  BY <1>1, <1>2, <1>3 DEF SwitchOf, Follows, Half

\* A step of on_signal takes its camera one step further through the switch.
LEMMA OnSignalSwitches ==
  ASSUME CallInv, OrderInv, SwitchInv, NEW w \in Callers, OnSignal(w)
  PROVE  SwitchInv'
<1>c. PICK c \in Cams : c = call[w].cam
  BY CallMoves DEF Call
<1>0. /\ c = call[w].cam /\ call[w] # None /\ call[w] \in Call /\ c \in Cams
      /\ \A v \in Callers : v # w => call'[v] = call[v]
      /\ UNCHANGED <<last, sigCoil, sigPc, polled, todo, regFunc>>
  BY <1>c, CallMoves DEF Call, sigVars
<1>a. /\ call \in [Callers -> Call \cup {None}] /\ Cams \subseteq Callers
      /\ "signal" \in Callers /\ "signal" \notin Cams
      /\ life \in [Cams -> {"off", "append", "register", "up", "dead"}]
      /\ regFunc = {d \in Cams : life[d] \notin {"off", "dead"}}
      /\ coil \in [Cams -> Coil0] /\ saver \in [Cams -> Coil0] /\ running \in [Cams -> BOOLEAN]
      /\ late \subseteq Cams /\ refused \subseteq Cams
      /\ TypeOK
  BY SwitchAssumption DEF CallInv, TypeOK, Callers
<1>1. /\ c \in regFunc /\ InCall(c, w)
      /\ \/ /\ w = "signal" /\ call[w].coil = sigCoil /\ sigPc = call[w].type
            /\ todo # None /\ c \notin todo /\ sigPc \in {"init", "in", "out"}
         \/ /\ w = c /\ life[c] = "register" /\ call[w].type = "init" /\ call[w].pc \in CallsPc
            /\ c \notin late => call[w].coil = sigCoil /\ sigPc \notin {"out", "set"}
  BY <1>0, WhoCalls
<1>2. /\ late' = late
      /\ \A d \in Cams : d # c => /\ coil'[d] = coil[d] /\ saver'[d] = saver[d]
                                  /\ running'[d] = running[d]
                                  /\ d \in refused <=> d \in refused'
  BY <1>0, <1>a DEF OnSignal, OnSignalCoil, OnSignalSave, OnSignalFail, OnSignalRun,
     OnSignalMiss, OnSignalCount, OnSignalLimit, capVars, history
<1>3. /\ call'[w] # None => call'[w].cam = c
      /\ \A d \in Cams : d # c => life'[d] = life[d]
      /\ life'[c] = life[c] \/ life'[c] = "up"
  BY <1>0, <1>1, <1>a, CallMoves
<1>4. ASSUME NEW d \in Cams, d # c, SwitchOf(d) PROVE SwitchOf(d)'
  <2>1. \A v \in Callers : InCall(d, v)' <=> InCall(d, v) /\ call'[v] = call[v]
    BY <1>0, <1>3, <1>4 DEF InCall
  <2>2. Called(d)' <=> Called(d)
    BY <1>a, <1>0, <1>3, <1>4 DEF InCall, Called
  <2>3. Over(d)' <=> Over(d)
    BY <1>0, <2>2 DEF Over
  <2> QED
    BY <1>0, <1>2, <1>3, <1>4, <2>1, <2>2, <2>3, SwitchSame
\* What is left of the other callback of c.
<1>5. \A v \in Callers : InCall(c, v)' =>
        v = w \/ (InCall(c, v) /\ call'[v].pc = call[v].pc)
  BY <1>0 DEF InCall
<1>6. ASSUME c \notin late PROVE SwitchOf(c)'
  <2>0. SwitchOf(c) /\ call[w].coil = sigCoil
    BY <1>1, <1>6 DEF SwitchInv
  <2>1. CASE sigPc = "out"
    <3>1. w = "signal" /\ call[w].type = "out"
      BY <1>1, <1>6, <2>1
    <3>2. call[w].pc \in {"coil", "run"}
      BY <1>0, <2>1, <3>1 DEF CallInv, CallsPc
    <3>3. CASE OnSignalCoil(w)
      <4>1. Goto(w, "run") /\ "run" \in Places
        BY <3>1, <3>3 DEF OnSignalCoil, Places
      <4>2. call'[w] # None /\ call'[w].cam = c
        BY <1>0, <1>a, <4>1, GotoFacts
      <4>3. Called(c)'
        BY <3>1, <4>2 DEF Called, InCall
      <4> QED
        BY <1>0, <2>1, <4>3 DEF SwitchOf, Over
    <3>4. CASE OnSignalRun(w)
      <4>1. ~running'[c]
        BY <1>0, <1>a, <3>1, <3>4 DEF OnSignalRun
      <4> QED
        BY <1>0, <2>1, <4>1 DEF SwitchOf
    <3> QED
      BY <3>2, <3>3, <3>4 DEF OnSignal, OnSignalSave, OnSignalFail, OnSignalMiss, OnSignalCount,
         OnSignalLimit, At
  <2>2. CASE sigPc # "out"
    <3>0. /\ sigPc \notin {"out", "set"} /\ call[w].type # "out"
          /\ running[c] => coil[c] = sigCoil /\ saver[c] = sigCoil
          /\ \A v \in Callers : InCall(c, v) => Half(c, call[v].pc)
          /\ Half(c, call[w].pc)
      BY <1>1, <1>6, <2>0, <2>2 DEF SwitchOf
    \* The callback goes on, ...
    <3>a. ASSUME NEW pc \in Places, Goto(w, pc), life' = life, Half(c, pc)',
                 running'[c] => coil'[c] = sigCoil /\ saver'[c] = sigCoil,
                 \A pl \in Places : Half(c, pl) => Half(c, pl)'
          PROVE  SwitchOf(c)'
      <4>1. call'[w] # None /\ call'[w].pc = pc
        BY <1>0, <1>a, <3>a, GotoFacts
      <4>2. ~Rests(c)'
        <5>1. CASE w = "signal"
          BY <1>3, <4>1, <5>1 DEF Rests, Called, InCall
        <5>2. CASE w # "signal"
          BY <1>1, <3>a, <5>2 DEF Rests
        <5> QED
          BY <5>1, <5>2
      <4>3. \A v \in Callers : InCall(c, v)' => Half(c, call[v].pc)'
        <5>1. SUFFICES ASSUME NEW v \in Callers, InCall(c, v)' PROVE Half(c, call[v].pc)'
          OBVIOUS
        <5>2. CASE v = w
          BY <3>a, <4>1, <5>2 DEF Half
        <5>3. CASE v # w
          <6>1. InCall(c, v) /\ call'[v].pc = call[v].pc
            BY <1>5, <5>1, <5>3
          <6>2. call[v].pc \in Places
            BY <1>a, <6>1 DEF InCall, Call, Places
          <6>3. PICK pl \in Places : pl = call[v].pc
            BY <6>2
          <6>4. Half(c, pl)
            BY <3>0, <6>1, <6>3
          <6>5. Half(c, pl)'
            BY <3>a, <6>4
          <6> QED
            BY <6>1, <6>3, <6>5 DEF Half
        <5> QED
          BY <5>2, <5>3
      <4> QED
        BY <1>0, <3>0, <3>a, <4>2, <4>3 DEF SwitchOf
    \* ... or ends with c on the coil of Signal, capturing or refused.
    <3>b. ASSUME Return(w), coil'[c] = sigCoil, running'[c] \/ c \in refused',
                 running'[c] => saver'[c] = sigCoil,
                 \A pl \in Places : Half(c, pl) => Half(c, pl)'
          PROVE  SwitchOf(c)'
      <4>1. call'[w] = None
        BY <1>a, <3>b DEF Return
      <4>2. \A v \in Callers : InCall(c, v)' => Half(c, call[v].pc)'
        <5>1. SUFFICES ASSUME NEW v \in Callers, InCall(c, v)' PROVE Half(c, call[v].pc)'
          OBVIOUS
        <5>2. InCall(c, v) /\ call'[v].pc = call[v].pc
          BY <1>5, <4>1, <5>1 DEF InCall
        <5>3. call[v].pc \in Places
          BY <1>a, <5>2 DEF InCall, Call, Places
        <5>4. PICK pl \in Places : pl = call[v].pc
          BY <5>3
        <5>5. Half(c, pl)
          BY <3>0, <5>2, <5>4
        <5>6. Half(c, pl)'
          BY <3>b, <5>5
        <5> QED
          BY <5>2, <5>4, <5>6 DEF Half
      <4> QED
        BY <1>0, <3>0, <3>b, <4>2 DEF SwitchOf, Follows
    <3>1. CASE OnSignalCoil(w)
      <4>1. /\ coil'[c] = sigCoil /\ running'[c] = running[c] /\ saver'[c] = saver[c]
            /\ life' = life /\ Goto(w, "save") /\ "save" \in Places
        BY <1>0, <1>a, <2>0, <3>0, <3>1 DEF OnSignalCoil, Places
      <4>2. \A pl \in Places : Half(c, pl) => Half(c, pl)'
        BY <1>0, <4>1 DEF Half
      <4>3. Half(c, "save")'
        BY <1>0, <4>1 DEF Half, CallsPc
      <4> QED
        BY <3>0, <3>a, <4>1, <4>2, <4>3
    <3>2. CASE OnSignalSave(w)
      <4>1. /\ saver'[c] = sigCoil /\ running'[c] = running[c] /\ coil'[c] = coil[c]
            /\ life' = life /\ call[w].pc = "save" /\ Goto(w, "run") /\ "run" \in Places
        BY <1>0, <1>a, <2>0, <3>2 DEF OnSignalSave, At, Places
      <4>2. coil[c] = sigCoil
        BY <3>0, <4>1 DEF Half
      <4>3. \A pl \in Places : Half(c, pl) => Half(c, pl)'
        BY <1>0, <4>1, <4>2 DEF Half
      <4>4. Half(c, "run")'
        BY <1>0, <4>1, <4>2 DEF Half, CallsPc
      <4> QED
        BY <3>0, <3>a, <4>1, <4>2, <4>3, <4>4
    <3>3. CASE OnSignalFail(w)
      <4>1. /\ UNCHANGED <<coil, running, saver>> /\ call[w].pc = "save" /\ Return(w)
            /\ c \in refused'
        BY <1>0, <3>3 DEF OnSignalFail, At, capVars
      <4>2. coil[c] = sigCoil
        BY <3>0, <4>1 DEF Half
      <4>3. \A pl \in Places : Half(c, pl) => Half(c, pl)'
        BY <1>0, <4>1 DEF Half
      <4> QED
        BY <3>0, <3>b, <4>1, <4>2, <4>3
    <3>4. CASE OnSignalRun(w)
      <4>1. /\ UNCHANGED <<coil, saver>> /\ running'[c] /\ call[w].pc = "run"
            /\ Return(w) \/ (life' = life /\ Goto(w, "miss") /\ "miss" \in Places)
        BY <1>0, <1>a, <3>0, <3>4 DEF OnSignalRun, At, Places
      <4>2. coil[c] = sigCoil /\ saver[c] = sigCoil
        BY <3>0, <4>1 DEF Half
      <4>3. \A pl \in Places : Half(c, pl) => Half(c, pl)'
        BY <1>0, <4>1, <4>2 DEF Half
      <4>4. Half(c, "miss")'
        BY <1>0, <4>1, <4>2 DEF Half
      <4> QED
        BY <3>a, <3>b, <4>1, <4>2, <4>3, <4>4
    <3>5. ASSUME OnSignalMiss(w) \/ OnSignalCount(w) \/ OnSignalLimit(w) PROVE SwitchOf(c)'
      <4>1. UNCHANGED <<coil, running, saver>> /\ call[w].pc \in {"miss", "count", "limit"}
        BY <3>5 DEF OnSignalMiss, OnSignalCount, OnSignalLimit, At, capVars
      <4>2. coil[c] = sigCoil /\ saver[c] = sigCoil /\ running[c]
        BY <3>0, <4>1 DEF Half, CallsPc
      <4>3. \A v \in Callers : InCall(c, v)' => Half(c, call[v].pc)'
        BY <1>0, <4>1, <4>2 DEF Half
      <4> QED
        BY <1>0, <3>0, <4>1, <4>2, <4>3 DEF SwitchOf, Follows
    <3> QED
      BY <3>1, <3>2, <3>3, <3>4, <3>5 DEF OnSignal
  <2> QED
    BY <2>1, <2>2
<1> QED
  BY <1>0, <1>a, <1>2, <1>4, <1>6 DEF SwitchInv

\* Every step keeps each camera where the switch has it.
LEMMA SwitchStep == CallInv /\ OrderInv /\ SwitchInv /\ [Next]_vars => SwitchInv'
<1> SUFFICES ASSUME CallInv, OrderInv, SwitchInv, [Next]_vars PROVE SwitchInv'
  OBVIOUS
<1>a. /\ call \in [Callers -> Call \cup {None}] /\ Cams \subseteq Callers
      /\ "signal" \in Callers /\ "signal" \notin Cams
      /\ life \in [Cams -> {"off", "append", "register", "up", "dead"}]
      /\ regFunc = {d \in Cams : life[d] \notin {"off", "dead"}} /\ regFunc # None
      /\ coil \in [Cams -> Coil0] /\ saver \in [Cams -> Coil0] /\ running \in [Cams -> BOOLEAN]
      /\ late \subseteq Cams /\ refused \subseteq Cams
      /\ TypeOK
  <2>1. regFunc \in SUBSET Cams
    BY DEF CallInv, TypeOK
  <2> QED
    BY <2>1, SwitchAssumption DEF CallInv, TypeOK, Callers
<1>b. ASSUME NEW d \in regFunc \ late, UNCHANGED <<sigPc, sigCoil, todo, call>>,
             coil'[d] = coil[d], saver'[d] = saver[d], running'[d] = running[d],
             life'[d] = life[d], d \in refused => d \in refused'
      PROVE  SwitchOf(d)'
  <2>1. d \in Cams /\ SwitchOf(d) /\ (Called(d)' <=> Called(d)) /\ (Over(d)' <=> Over(d))
    BY <1>a, <1>b DEF SwitchInv, Over, Called, InCall
  <2> QED
    BY <1>b, <2>1, SwitchSame DEF InCall
<1>c. ASSUME UNCHANGED <<sigPc, sigCoil, todo, capVars, life, call, regFunc, late, refused>>
      PROVE  SwitchInv'
  BY <1>c, <1>b DEF SwitchInv, capVars
<1>f. todo = None => call["signal"] = None
  BY DEF CallInv
\* Signal itself moves when it is in no callback.
<1>d. ASSUME UNCHANGED <<capVars, life, call, refused>>, call["signal"] = None,
             NEW d \in regFunc \ late,
             sigPc' = "set" \/ (sigPc' = "out" /\ Over(d)') => ~running[d],
             sigPc' \notin {"out", "set"} =>
               /\ sigPc \notin {"out", "set"} /\ sigCoil' = sigCoil
               /\ sigPc' \in {"poll", "quiet"} \/ Over(d)' => sigPc \in {"poll", "quiet"} \/ Over(d)
      PROVE  SwitchOf(d)'
  <2>1. SwitchOf(d) /\ ~Called(d)
    BY <1>d DEF SwitchInv, Called, InCall
  <2>2. \A w \in Callers : InCall(d, w)' => InCall(d, w) /\ call'[w].pc = call[w].pc
    BY <1>d DEF InCall
  <2>3. CASE sigPc' \in {"out", "set"}
    BY <1>d, <2>3 DEF SwitchOf, capVars
  <2>4. CASE sigPc' \notin {"out", "set"}
    <3>1. /\ sigCoil' = sigCoil /\ sigPc \notin {"out", "set"}
          /\ coil' = coil /\ running' = running /\ saver' = saver /\ refused' = refused
      BY <1>d, <2>4 DEF capVars
    <3>2. Rests(d)' => Rests(d)
      BY <1>d, <2>1, <2>4 DEF Rests
    <3> HIDE DEF InCall
    <3> QED
      BY <2>1, <2>2, <2>4, <3>1, <3>2 DEF SwitchOf, Follows, Half
  <2> QED
    BY <2>3, <2>4
<1> USE DEF sigVars, history
<1>1. CASE NewCoil
  BY <1>c, <1>1 DEF NewCoil
<1>2. CASE Poll
  <2>1. /\ call["signal"] = None /\ UNCHANGED <<capVars, life, call, regFunc, late, refused>>
        /\ sigPc = "poll"
    BY <1>2 DEF Poll, CallInv
  <2>2. sigCoil = 0 => regFunc = {}
    BY DEF OrderInv
  <2>3. sigCoil # 0 => sigPc' = "quiet" /\ sigCoil' = sigCoil
    BY <1>2 DEF Poll
  <2> QED
    BY <1>d, <2>1, <2>2, <2>3 DEF SwitchInv
<1>3. CASE QuietOver
  <2>1. call["signal"] = None /\ UNCHANGED <<capVars, life, call, sigCoil, todo, regFunc, refused>>
        /\ sigPc = "quiet" /\ sigPc' = "out" /\ todo = None
    BY <1>3 DEF QuietOver, CallInv
  <2>2. \A d \in regFunc : ~Over(d)'
    BY <2>1 DEF Over
  <2>3. ASSUME NEW d \in regFunc PROVE SwitchOf(d)'
    BY <2>1, <2>2, <2>3 DEF SwitchOf
  <2> QED
    BY <2>1, <2>3 DEF SwitchInv
<1>4. CASE TriggerBegin
  <2>1. /\ call["signal"] = None
        /\ UNCHANGED <<capVars, life, call, sigCoil, sigPc, regFunc, late, refused>>
        /\ todo' = regFunc /\ sigPc \in {"init", "in", "out"}
    BY <1>4, <1>f DEF TriggerBegin
  <2>2. \A d \in regFunc : ~Over(d)'
    BY <1>a, <2>1 DEF Over
  <2> QED
    BY <1>d, <2>1, <2>2 DEF SwitchInv
<1>5. CASE TriggerEnd
  <2>1. call["signal"] = None /\ UNCHANGED <<capVars, life, call, sigCoil, regFunc, late, refused>>
        /\ todo = {} /\ sigPc' = IF sigPc = "out" THEN "set" ELSE "poll"
    BY <1>5 DEF TriggerEnd
  <2>2. todo # None
    BY <2>1, SwitchAssumption
  <2>3. \A d \in Cams : Over(d)
    BY <2>1, <2>2 DEF Over, Called, InCall
  <2>4. sigPc # "set"
    BY <2>2 DEF CallInv
  <2>5. \A d \in regFunc \ late : sigPc = "out" => ~running[d]
    BY <1>a, <2>3 DEF SwitchInv, SwitchOf
  <2> QED
    BY <1>a, <1>d, <2>1, <2>3, <2>4, <2>5 DEF SwitchInv
<1>6. CASE SetCoil
  <2>1. call["signal"] = None /\ UNCHANGED <<capVars, life, call, regFunc, late, refused>>
        /\ todo' = None /\ sigPc = "set" /\ sigPc' = "in"
    BY <1>6 DEF SetCoil, CallInv
  <2>2. ASSUME NEW d \in regFunc \ late PROVE SwitchOf(d)'
    <3>1. ~running[d]
      BY <2>1 DEF SwitchInv, SwitchOf
    <3>2. \A w \in Callers : ~InCall(d, w)'
      <4>1. call[d] = None
        BY <1>a, <2>1 DEF OrderInv, CallInv, Registering
      <4> QED
        BY <1>a, <2>1, <4>1 DEF InCall, CallInv, Callers
    <3>3. ~Rests(d)'
      BY <2>1 DEF Rests, Over
    <3> QED
      BY <2>1, <3>1, <3>2, <3>3 DEF SwitchOf, capVars
  <2> QED
    BY <2>1, <2>2 DEF SwitchInv
<1>7. ASSUME NEW c \in Cams, TriggerNext(c) PROVE SwitchInv'
  <2>1. /\ UNCHANGED <<capVars, life, sigCoil, sigPc, regFunc, late, refused>> /\ todo # None
        /\ call["signal"] = None
        /\ c \in todo /\ todo' = todo \ {c} /\ sigPc \in {"init", "in", "out"} /\ todo' # None
    BY <1>a, <1>7, SwitchAssumption DEF TriggerNext, CallInv
  <2>2. call'["signal"] # None /\ call'["signal"].cam = c /\ call'["signal"].pc = "coil"
        /\ \A d \in Cams : call'[d] = call[d]
    <3> DEFINE new == [cam |-> c, type |-> sigPc, coil |-> sigCoil, pc |-> "coil", n |-> 0]
    <3>1. new # None
      BY <1>a, <2>1, CallBegins
    <3>2. new.cam = c /\ new.pc = "coil"
      OBVIOUS
    <3>3. call' = [call EXCEPT !["signal"] = new]
      BY <1>7 DEF TriggerNext
    <3> HIDE DEF new
    <3> QED
      BY <1>a, <3>1, <3>2, <3>3
  <2>3. ASSUME NEW d \in regFunc \ late PROVE SwitchOf(d)'
    <3>0. SwitchOf(d) /\ d \in Cams
      BY <1>a DEF SwitchInv
    <3>1. Over(d)' <=> Over(d)
      BY <2>1, <2>2 DEF Over, Called, InCall
    <3>2. \A w \in Callers : InCall(d, w)' =>
            call'[w].pc = "coil" \/ (InCall(d, w) /\ call'[w].pc = call[w].pc)
      BY <2>2 DEF InCall, Callers
    <3>3. Rests(d)' => Rests(d)
      BY <2>1, <3>1 DEF Rests, Called, InCall
    <3>4. /\ coil' = coil /\ running' = running /\ saver' = saver /\ refused' = refused
          /\ sigCoil' = sigCoil /\ sigPc' = sigPc
      BY <2>1 DEF capVars
    <3>5. \A pc : (Half(d, pc) => Half(d, pc)') /\ (pc = "coil" => Half(d, pc)')
      BY <3>4 DEF Half, CallsPc
    <3> QED
      BY <3>0, <3>1, <3>2, <3>3, <3>4 DEF SwitchOf, Follows, Half, CallsPc
  <2> QED
    BY <2>1, <2>3 DEF SwitchInv
<1>8. ASSUME NEW w \in Callers, OnSignal(w) PROVE SwitchInv'
  BY <1>8, OnSignalSwitches
<1>9. ASSUME NEW c \in Cams, RegisterAppend(c) PROVE SwitchInv'
  <2>1. /\ UNCHANGED <<sigVars, call>> /\ regFunc' = regFunc \cup {c} /\ c \notin regFunc
        /\ ~running'[c] /\ life'[c] = "append"
        /\ late' = IF sigPc \in {"out", "set"} THEN late \cup {c} ELSE late \ {c}
        /\ \A d \in Cams : d # c => /\ coil'[d] = coil[d] /\ saver'[d] = saver[d]
                                    /\ running'[d] = running[d] /\ life'[d] = life[d]
                                    /\ d \in refused => d \in refused'
    BY <1>a, <1>9 DEF RegisterAppend
  <2>2. \A w \in Callers : ~InCall(c, w)'
    BY <1>a, <2>1 DEF CallInv, InCall, Callers
  <2>3. c \notin late' => SwitchOf(c)'
    BY <2>1, <2>2 DEF SwitchOf, Rests
  <2>4. ASSUME NEW d \in regFunc \ late, d # c PROVE SwitchOf(d)'
    BY <1>a, <1>b, <2>1, <2>4
  <2> QED
    BY <1>a, <2>1, <2>3, <2>4 DEF SwitchInv
<1>10. ASSUME NEW c \in Cams, RegisterInit(c) PROVE SwitchInv'
  <2>1. /\ UNCHANGED <<sigVars, regFunc, capVars, late, refused>>
        /\ \A w \in Callers : w # c => call'[w] = call[w]
        /\ \A d \in Cams : d # c => life'[d] = life[d]
        /\ life'[c] = "register" /\ call'[c].pc = "coil" /\ call'[c].cam = c
    BY <1>a, <1>10 DEF RegisterInit
  <2>2. ASSUME NEW d \in regFunc \ late PROVE SwitchOf(d)'
    <3>0. SwitchOf(d) /\ d \in Cams
      BY <1>a DEF SwitchInv
    <3>1. (Called(d)' <=> Called(d)) /\ (Over(d)' <=> Over(d))
      BY <1>a, <2>1 DEF Over, Called, InCall
    <3>2. \A w \in Callers : InCall(d, w)' =>
            call'[w].pc = "coil" \/ (InCall(d, w) /\ call'[w].pc = call[w].pc)
      BY <2>1 DEF InCall
    <3>3. Rests(d)' => Rests(d)
      BY <2>1, <3>0, <3>1 DEF Rests
    <3>4. /\ coil' = coil /\ running' = running /\ saver' = saver /\ refused' = refused
          /\ sigCoil' = sigCoil /\ sigPc' = sigPc
      BY <2>1 DEF capVars
    <3> QED
      BY <3>0, <3>1, <3>2, <3>3, <3>4 DEF SwitchOf, Follows, Half, CallsPc
  <2> QED
    BY <2>1, <2>2 DEF SwitchInv
<1>11. ASSUME NEW c \in Cams, Die(c) PROVE SwitchInv'
  <2>0. regFunc' = regFunc \ {c} /\ UNCHANGED <<late, refused>>
    BY <1>11 DEF Die
  <2>1. ASSUME NEW d \in regFunc \ late, d # c PROVE SwitchOf(d)'
    <3>0. SwitchOf(d) /\ d \in Cams
      BY <1>a, <2>1 DEF SwitchInv
    <3>1. /\ coil'[d] = coil[d] /\ saver'[d] = saver[d] /\ running'[d] = running[d]
          /\ life'[d] = life[d] /\ UNCHANGED <<sigPc, sigCoil>>
      BY <1>a, <1>11, <2>1, <3>0 DEF Die
    <3>2. \A w \in Callers : InCall(d, w)' <=> InCall(d, w) /\ call'[w] = call[w]
      BY <1>a, <1>11, <2>1 DEF Die, InCall
    <3>3. Called(d)' <=> Called(d)
      BY <1>a, <1>11, <2>1 DEF Die, Called, InCall
    <3>4. Over(d)' <=> Over(d)
      <4>1. todo # None => todo \ {c} # None
        BY <1>a, SwitchAssumption DEF TypeOK
      <4> QED
        BY <1>11, <2>1, <3>3, <4>1 DEF Die, Over
    <3> QED
      BY <2>0, <3>0, <3>1, <3>2, <3>3, <3>4, SwitchSame
  <2> QED
    BY <2>0, <2>1 DEF SwitchInv
<1>12. ASSUME NEW c \in Cams, WaitFrame(c) PROVE SwitchInv'
  BY <1>c, <1>12 DEF WaitFrame
<1>13. ASSUME NEW c \in Cams, FrameArrives(c) PROVE SwitchInv'
  BY <1>c, <1>13 DEF FrameArrives
<1>14. ASSUME NEW c \in Cams, SnapshotCoil(c) PROVE SwitchInv'
  BY <1>c, <1>14 DEF SnapshotCoil
<1>15. ASSUME NEW c \in Cams, DropFrame(c) PROVE SwitchInv'
  BY <1>c, <1>15 DEF DropFrame
<1>16. ASSUME NEW c \in Cams, NEW kind \in {"2d", "3d"}, PutFrame(c, kind) PROVE SwitchInv'
  BY <1>c, <1>16 DEF PutFrame
<1>17. CASE UNCHANGED vars
  BY <1>c, <1>17 DEF vars
<1> QED
  BY <1>1, <1>2, <1>3, <1>4, <1>5, <1>6, <1>7, <1>8, <1>9, <1>10, <1>11, <1>12,
     <1>13, <1>14, <1>15, <1>16, <1>17 DEF Next, Signal

\* Every step keeps the frames bound to the coils their cameras were switched in to.
LEMMA FrameStep ==
  CallInv /\ OrderInv /\ SwitchInv /\ FrameInv /\ [Next]_vars => FrameInv'
<1> SUFFICES ASSUME CallInv, OrderInv, SwitchInv, FrameInv, [Next]_vars PROVE FrameInv'
  OBVIOUS
<1>a. /\ life \in [Cams -> {"off", "append", "register", "up", "dead"}]
      /\ coil \in [Cams -> Nat] /\ told \in [Cams -> Nat]
      /\ th \in [Cams -> [pc : {"check", "wait", "arrived", "read"}, coil : Nat,
                        told : Nat, closed : Nat]]
      /\ stored \in [Cams -> [coil : Nat, told : Nat, closed : Nat] \cup {None}]
      /\ sigCoil \in Nat /\ last \in Nat /\ polled \in Nat /\ "signal" \notin Cams
      /\ call \in [Callers -> Call \cup {None}] /\ Cams \subseteq Callers
      /\ None \notin Call /\ \A k \in Call : k.coil \in Nat
  BY SwitchAssumption DEF CallInv, TypeOK, Coil0, Call, Callers
<1>b. ASSUME UNCHANGED <<told, coil, life, th, stored>>, sigCoil <= sigCoil', sigCoil' \in Nat,
             \A d \in Cams : call'[d] = call[d]
      PROVE  FrameInv'
  BY <1>a, <1>b DEF FrameInv
<1> USE DEF sigVars, capVars, history
<1>1. CASE NewCoil
  BY <1>a, <1>b, <1>1 DEF NewCoil
<1>2. CASE Poll
  BY <1>a, <1>b, <1>2 DEF Poll
<1>3. CASE QuietOver
  BY <1>a, <1>b, <1>3 DEF QuietOver
<1>4. CASE TriggerBegin
  BY <1>a, <1>b, <1>4 DEF TriggerBegin
<1>5. CASE TriggerEnd
  BY <1>a, <1>b, <1>5 DEF TriggerEnd
<1>6. CASE SetCoil
  BY <1>a, <1>b, <1>6 DEF SetCoil, OrderInv
<1>7. ASSUME NEW c \in Cams, TriggerNext(c) PROVE FrameInv'
  BY <1>a, <1>b, <1>7 DEF TriggerNext
<1>8. ASSUME NEW w \in Callers, OnSignal(w) PROVE FrameInv'
  <2>0. PICK c \in Cams : c = call[w].cam
    BY <1>8, CallMoves DEF Call
  <2>1. /\ call[w] # None /\ call[w] \in Call /\ UNCHANGED <<th, stored, sigCoil>>
        /\ life' = life \/ life' = IF w = "signal" THEN life ELSE [life EXCEPT ![w] = "up"]
        /\ \A d \in Cams : call'[d] # None => call[d] # None /\ call'[d].coil = call[d].coil
    BY <1>a, <1>8, CallMoves
  <2>2. \A d \in Cams : life'[d] = life[d] \/ life'[d] = "up"
    BY <1>a, <2>1
  <2>3. /\ c \in regFunc /\ InCall(c, w)
        /\ \/ /\ w = "signal" /\ call[w].coil = sigCoil /\ sigPc = call[w].type
              /\ todo # None /\ c \notin todo /\ sigPc \in {"init", "in", "out"}
           \/ /\ w = c /\ life[c] = "register" /\ call[w].type = "init" /\ call[w].pc \in CallsPc
              /\ c \notin late => call[w].coil = sigCoil /\ sigPc \notin {"out", "set"}
    BY <2>0, <2>1, WhoCalls
  <2>4. CASE OnSignalCoil(w)
    <3>1. coil' = [coil EXCEPT ![c] = call[w].coil] /\ UNCHANGED told
      BY <2>0, <2>4 DEF OnSignalCoil
    <3>2. told[c] <= call[w].coil /\ call[w].coil \in Nat
      BY <1>a, <2>1, <2>3 DEF FrameInv
    <3> QED
      BY <1>a, <2>1, <2>2, <3>1, <3>2 DEF FrameInv
  <2>5. CASE OnSignalRun(w)
    <3>1. /\ UNCHANGED coil
          /\ \/ told' = told
             \/ /\ w = "signal" /\ call[w].type # "out" /\ c \notin late
                /\ told' = [told EXCEPT ![c] = sigCoil]
      BY <2>0, <2>3, <2>5 DEF OnSignalRun
    <3>2. CASE told' = told
      BY <1>a, <2>1, <2>2, <3>1, <3>2 DEF FrameInv
    <3>3. CASE told' # told
      <4>1. w = "signal" /\ call[w].type # "out" /\ c \notin late
            /\ told' = [told EXCEPT ![c] = sigCoil]
        BY <3>1, <3>3
      <4>2. Half(c, "run")
        BY <2>3, <2>5, <4>1 DEF SwitchInv, SwitchOf, OnSignalRun, At
      <4>3. coil[c] = sigCoil
        BY <4>2 DEF Half
      <4>4. call[c] # None => call[c].coil = sigCoil
        BY <4>1 DEF OrderInv
      <4>5. told[c] <= sigCoil
        BY DEF FrameInv
      <4> QED
        BY <1>a, <2>1, <2>2, <3>1, <4>1, <4>3, <4>4, <4>5 DEF FrameInv
    <3> QED
      BY <3>2, <3>3
  <2>6. CASE ~OnSignalCoil(w) /\ ~OnSignalRun(w)
    <3>1. UNCHANGED <<coil, told>>
      BY <1>8, <2>6 DEF OnSignal, OnSignalSave, OnSignalFail, OnSignalMiss, OnSignalCount, OnSignalLimit
    <3> QED
      BY <1>a, <2>1, <2>2, <3>1 DEF FrameInv
  <2> QED
    BY <2>4, <2>5, <2>6
<1>9. ASSUME NEW c \in Cams, RegisterAppend(c) PROVE FrameInv'
  <2>1. call' = call /\ call[c] = None
    BY <1>9 DEF RegisterAppend, CallInv
  <2> QED
    BY <1>a, <1>9, <2>1 DEF RegisterAppend, FrameInv
<1>10. ASSUME NEW c \in Cams, RegisterInit(c) PROVE FrameInv'
  <2>1. \A d \in Cams : IF d = c THEN call'[d].coil = sigCoil ELSE call'[d] = call[d]
    BY <1>a, <1>10 DEF RegisterInit
  <2> QED
    BY <1>a, <1>10, <2>1 DEF RegisterInit, FrameInv
<1>11. ASSUME NEW c \in Cams, Die(c) PROVE FrameInv'
  <2>1. \A d \in Cams : call'[d] = call[d]
    BY <1>a, <1>11 DEF Die
  <2> QED
    BY <1>a, <1>11, <2>1 DEF Die, FrameInv, Idle
<1>12. ASSUME NEW c \in Cams, WaitFrame(c) PROVE FrameInv'
  <2>1. \A d \in Cams : IF d = c THEN th'[d].pc = "wait" ELSE th'[d] = th[d]
    BY <1>a, <1>12 DEF WaitFrame
  <2> QED
    BY <1>a, <1>12, <2>1 DEF WaitFrame, FrameInv
<1>13. ASSUME NEW c \in Cams, FrameArrives(c) PROVE FrameInv'
  <2>1. \A d \in Cams : IF d = c THEN th'[d].pc = "arrived" /\ th'[d].told = told[d]
                                ELSE th'[d] = th[d]
    BY <1>a, <1>13 DEF FrameArrives
  <2> QED
    BY <1>a, <1>13, <2>1 DEF FrameArrives, FrameInv
<1>14. ASSUME NEW c \in Cams, SnapshotCoil(c) PROVE FrameInv'
  <2>1. \A d \in Cams : IF d = c THEN /\ th'[d].pc = "read" /\ th'[d].told = th[d].told
                                     /\ th'[d].coil = coil[d] /\ th[d].told <= coil[d]
                                ELSE th'[d] = th[d]
    <3>1. th[c].told <= told[c] /\ told[c] <= coil[c]
      BY <1>14 DEF SnapshotCoil, FrameInv
    <3> QED
      BY <1>a, <1>14, <3>1 DEF SnapshotCoil
  <2> QED
    BY <1>a, <1>14, <2>1 DEF SnapshotCoil, FrameInv
<1>15. ASSUME NEW c \in Cams, DropFrame(c) PROVE FrameInv'
  BY <1>a, <1>15 DEF DropFrame, FrameInv, Idle
<1>16. ASSUME NEW c \in Cams, NEW kind \in {"2d", "3d"}, PutFrame(c, kind) PROVE FrameInv'
  BY <1>a, <1>16 DEF PutFrame, FrameInv, Idle
<1>17. CASE UNCHANGED vars
  BY <1>a, <1>b, <1>17 DEF vars
<1> QED
  BY <1>1, <1>2, <1>3, <1>4, <1>5, <1>6, <1>7, <1>8, <1>9, <1>10, <1>11, <1>12,
     <1>13, <1>14, <1>15, <1>16, <1>17 DEF Next, Signal

\* All of the coil switch.
CoilInv == OrderInv /\ SwitchInv /\ FrameInv
\* Every step keeps what concerns coils.
LEMMA CoilStep == CallInv /\ CoilInv /\ [Next]_vars => CoilInv'
BY OrderStep, SwitchStep, FrameStep DEF CoilInv

\* Initially nobody is registered, and no coil is told.
LEMMA CoilStarts == Init => CoilInv
  BY SwitchAssumption
  DEF Init, CoilInv, OrderInv, SwitchInv, FrameInv, Registering, Idle, Callers

\* What the invariants say of a worker between two polls and of a stored frame.
LEMMA CoilSays == CallInv /\ CoilInv => OnCurrentCoil /\ FrameUsesNewCoil
<1> SUFFICES ASSUME CallInv, CoilInv PROVE OnCurrentCoil /\ FrameUsesNewCoil
  OBVIOUS
<1>1. FrameUsesNewCoil
  BY DEF CoilInv, FrameInv, FrameUsesNewCoil
<1>2. ASSUME NEW c \in Cams, Settled(c), c \notin late
      PROVE  Follows(c, sigCoil) /\ (running[c] => saver[c] = sigCoil)
  <2>1. call["signal"] = None /\ c \in regFunc
    BY <1>2 DEF Settled, CallInv, TypeOK
  <2>2. Rests(c)
    BY <1>2, <2>1 DEF Rests, Settled, Called, InCall
  <2> QED
    BY <1>2, <2>1, <2>2 DEF CoilInv, SwitchInv, SwitchOf, Settled
<1> QED
  BY <1>1, <1>2 DEF OnCurrentCoil

\* Between two polls every living worker is on the coil of Signal and captures for it
\* unless its trigger failed (Signal.py, run), and a frame is bound to a coil its camera
\* was switched in to, or to a later one (CapTure.py:95 "bind at arrival time"): whenever
\* workers register, with a switch in progress or not; only a worker that registered
\* across the switch itself is let off, until the next one.
THEOREM WorkersFollowSignal == Spec => []OnCurrentCoil /\ []FrameUsesNewCoil
<1>1. CallInv /\ CoilInv /\ [Next]_vars => CallInv' /\ CoilInv'
  BY CallStep, CoilStep
<1> QED
  BY <1>1, SwitchStarts, CoilStarts, CoilSays, PTL DEF Spec

-----------------------------------------------------------------------------
(* The coil switch and the driver together. *)

\* A behaviour may begin one switch before a camera has missed too many frames.
LEMMA CameraStarts == CameraInit => CallInv /\ MissInv /\ CoilInv /\ DriverInv
<1> SUFFICES ASSUME Missing PROVE CallInv /\ MissInv /\ CoilInv
  BY SwitchStarts, CoilStarts, DriverStarts DEF CameraInit
<1> USE SwitchAssumption, CameraAssumption
<1>1. TypeOK
  BY DEF Missing, TypeOK, Coil0, Idle
<1>2. CallInv
  BY <1>1 DEF Missing, CallInv, Callers
<1>3. MissInv
  BY DEF Missing, MissInv, CalledAt, Callers
<1>4. CoilInv
  <2>1. OrderInv
    BY DEF Missing, OrderInv, Registering, Callers
  <2>2. SwitchInv
    BY DEF Missing, SwitchInv, SwitchOf, Follows, InCall, Called, Rests
  <2>3. FrameInv
    BY DEF Missing, FrameInv, Idle, Callers
  <2> QED
    BY <2>1, <2>2, <2>3 DEF CoilInv
<1> QED
  BY <1>2, <1>3, <1>4

\* A step of the two is one of the coil switch, and of the driver one of its own, but
\* for the callback that asks for a reconnect.
LEMMA CameraSteps ==
  [CameraNext]_cameraVars =>
    /\ [Next]_vars
    /\ [DriverNext]_driver
       \/ UNCHANGED <<phase, cam, capter, opened, sdk, user, queue2d, trouble, asks>>
<1> SUFFICES ASSUME CameraNext
             PROVE  /\ [Next]_vars
                    /\ [DriverNext]_driver
                       \/ UNCHANGED <<phase, cam, capter, opened, sdk, user, queue2d, trouble, asks>>
  BY DEF cameraVars
<1>1. Around => Next
  BY CameraAssumption DEF Around, Next
<1>2. ASSUME NEW w \in Callers, CallBack(w)
      PROVE  Next /\ UNCHANGED <<phase, cam, capter, opened, sdk, user, queue2d, trouble, asks>>
  BY <1>2 DEF CallBack, Next
<1>3. FrameArrives(Driven) /\ TakeFrame => Next /\ DriverNext
  BY CameraAssumption DEF Next, DriverNext
<1>4. Driver => DriverNext
  BY DEF Driver, DriverNext, PutAny
<1> QED
  BY <1>1, <1>2, <1>3, <1>4 DEF CameraNext

\* Also the callbacks that ask for a reconnect leave the handles alone.
LEMMA CameraDriverStep == DriverInv /\ [CameraNext]_cameraVars => DriverInv'
<1>1. DriverInv /\ UNCHANGED <<phase, cam, capter, opened, sdk, user, queue2d, trouble, asks>>
      => DriverInv'
  BY DEF DriverInv
<1> QED
  BY <1>1, DriverStep, CameraSteps

\* The theorems above hold of the coil switch with the driver, too: a switch that asks
\* for a reconnect in the middle of anything, a worker that takes its frames from the
\* driver, and API threads at the same handle.
THEOREM CameraHandlesStayOpen == CameraSpec => []HandleOpen
<1>1. DriverInv => HandleOpen
  BY DEF DriverInv, HandleOpen
<1> QED
  BY <1>1, CameraStarts, CameraDriverStep, PTL DEF CameraSpec

\* With the driver, too, the callbacks of a switch ask for a reconnect only after enough
\* switches without a frame, wherever the driver stands (CapTure.py, Camera.py).
THEOREM CameraReconnectsJustified == CameraSpec => ReconnectJustified
<1>1. Justified \/ UNCHANGED vars => [Justified]_vars
  OBVIOUS
<1>2. [CameraNext]_cameraVars => [Next]_vars
  BY CameraSteps
<1> QED
  BY <1>1, <1>2, CameraStarts, CallStep, MissStep, JustifiedStep, PTL
  DEF CameraSpec, ReconnectJustified, Justified

\* With the driver, too, every worker that did not register across the last switch is on
\* the coil that Signal has switched to, and captures for it unless its trigger failed.
THEOREM CameraWorkersFollow == CameraSpec => []OnCurrentCoil
<1>1. CallInv /\ CoilInv /\ [CameraNext]_cameraVars => CallInv' /\ CoilInv'
  BY CallStep, CoilStep, CameraSteps
<1> QED
  BY <1>1, CameraStarts, CoilSays, PTL DEF CameraSpec

\* With the driver, too, a frame from its queue is stored under a coil not older than the
\* one its worker was told when the frame arrived, whenever workers register.
THEOREM CameraFramesBound == CameraSpec => []FrameUsesNewCoil
<1>1. CallInv /\ CoilInv /\ [CameraNext]_cameraVars => CallInv' /\ CoilInv'
  BY CallStep, CoilStep, CameraSteps
<1> QED
  BY <1>1, CameraStarts, CoilSays, PTL DEF CameraSpec
=============================================================================
