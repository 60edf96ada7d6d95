--------------------------- MODULE CaptureSwitch ---------------------------
(***************************************************************************)
(* How a coil switch reaches the cameras: the Signal thread                *)
(* (app/CapTrue/Signal.py), the CapTure objects it calls back and their    *)
(* capture threads (app/CapTrue/CapTure.py), and the supervisor that       *)
(* rebuilds a dead worker (app/CapTrue/CapAll.py).                         *)
(*                                                                         *)
(* on_signal takes several steps and may run in two threads at once: in    *)
(* the Signal thread, and in the thread of a worker that registers.  Every *)
(* attribute access of another thread may fall between two of its steps.   *)
(* Status fields, log throttling and activity tokens are left out.         *)
(***************************************************************************)
EXTENDS Naturals, FiniteSets

CONSTANTS
  Cams,        \* the configured cameras
  MaxCoil,     \* model bound: coils 1..MaxCoil reach the database, in order
  MissLimit,   \* triggers in without a 2D frame before a reconnect (10)
  Events,      \* which of "io" (trigger_init/trigger_in raises) and "die" (a
               \* capture worker ends) may happen
  None         \* Python's None

Coil0   == 0..MaxCoil                       \* 0 stands for no coil
Callers == Cams \cup {"signal"}
Call    == [cam : Cams, type : {"init", "in", "out"}, coil : Coil0,
            pc : {"coil", "save", "run", "miss", "count", "limit"},
            n : 0..MissLimit]

ASSUME SwitchAssumption ==
  /\ MaxCoil \in Nat \ {0}
  /\ MissLimit \in Nat \ {0}
  /\ Events \subseteq {"io", "die"}
  /\ "signal" \notin Cams
  /\ None \notin Call /\ \A cams \in SUBSET Cams : None # cams

VARIABLES
  last,       \* the newest coil in the database, Coil.get_last_coil()
  sigCoil,    \* Signal.coil
  sigPc,      \* where Signal.run is: "poll", the quiet wait, "set" (before
              \* self.coil = coil), or the event _trigger delivers
  polled,     \* the coil read before the quiet wait
  todo,       \* the callbacks _trigger still has to call, None before the copy
  regFunc,    \* Signal.regFunc
  call,       \* the on_signal call each thread is in
  life,       \* a worker: off, append and register (signal.register), up, dead
  coil,       \* CapTure.coil
  running,    \* CapTure.captureRunning
  saver,      \* dataSave.active_coil_id
  missed,     \* missed_in_without_frame, capped at MissLimit
  frameSince, \* last_frame_time_2d lies after the last trigger in
  reconnect,  \* camera_2d.request_reconnect() was called
  th,         \* the capture thread: where it is, the coil it read, and what
              \* had been told to the worker when its frame arrived
  stored,     \* the last frame given to dataSave.put
  told,       \* history: last coil Signal switched the worker in to, unless late
  closed,     \* history: last coil Signal switched the worker out of
  late,       \* history: the workers that were registering while Signal went from
              \* triggerOut of one coil to self.coil of the next, since that switch
  refused,    \* history: the workers whose last trigger raised
  dry         \* history: switches in since the last 2D frame, capped

sigVars  == <<sigCoil, sigPc, polled, todo>>
capVars  == <<coil, running, saver>>
missVars == <<missed, frameSince, reconnect, dry>>
history  == <<told, closed, late, refused>>
vars == <<last, sigVars, regFunc, call, life, capVars, missVars, th, stored,
          history>>

Idle == [pc |-> "check", coil |-> 0, told |-> 0, closed |-> 0]

Init ==
  /\ last = 0 /\ sigCoil = 0 /\ sigPc = "poll" /\ polled = 0 /\ todo = None
  /\ regFunc = {}
  /\ call = [w \in Callers |-> None]
  /\ life = [c \in Cams |-> "off"]
  /\ coil = [c \in Cams |-> 0]
  /\ running = [c \in Cams |-> FALSE]
  /\ saver = [c \in Cams |-> 0]
  /\ missed = [c \in Cams |-> 0] /\ dry = [c \in Cams |-> 0]
  /\ frameSince = [c \in Cams |-> FALSE]
  /\ reconnect = [c \in Cams |-> FALSE]
  /\ th = [c \in Cams |-> Idle]
  /\ stored = [c \in Cams |-> None]
  /\ told = [c \in Cams |-> 0] /\ closed = [c \in Cams |-> 0]
  /\ late = {} /\ refused = {}

-----------------------------------------------------------------------------
\* The plant: level 2 writes the next coil to the database.
NewCoil ==
  /\ last < MaxCoil
  /\ last' = last + 1
  /\ UNCHANGED <<sigVars, regFunc, call, life, capVars, missVars, th, stored,
                 history>>

\* One round of Signal.run: the first coil is announced with "init"; another
\* coil starts the wait for quiet cameras.
Poll ==
  /\ sigPc = "poll" /\ last # 0 /\ last # sigCoil
  /\ IF sigCoil = 0
     THEN sigCoil' = last /\ sigPc' = "init" /\ UNCHANGED polled
     ELSE polled' = last /\ sigPc' = "quiet" /\ UNCHANGED sigCoil
  /\ UNCHANGED <<last, todo, regFunc, call, life, capVars, missVars, th, stored,
                 history>>

\* The cameras were quiet for 3 s, or SIGNAL_SWITCH_MAX_WAIT_SECONDS passed.
\* Workers that are registering now are late for this switch.
Registering(c) == life[c] \in {"append", "register"}
QuietOverUnforced ==
  /\ sigPc = "quiet" /\ \A c \in Cams : th[c].pc = "check"
  /\ sigPc' = "out"
  /\ late' = {c \in Cams : Registering(c)}
  /\ UNCHANGED <<last, sigCoil, polled, todo, regFunc, call, life, capVars,
                 missVars, th, stored, told, closed, refused>>
QuietOver ==
  /\ sigPc = "quiet"
  /\ sigPc' = "out"
  /\ late' = {c \in Cams : Registering(c)}
  /\ UNCHANGED <<last, sigCoil, polled, todo, regFunc, call, life, capVars,
                 missVars, th, stored, told, closed, refused>>

\* _trigger: list(self.regFunc), then one callback after the other.
TriggerBegin ==
  /\ sigPc \in {"init", "in", "out"} /\ todo = None
  /\ todo' = regFunc
  /\ UNCHANGED <<last, sigCoil, sigPc, polled, regFunc, call, life, capVars,
                 missVars, th, stored, history>>

TriggerNext(c) ==
  /\ todo # None /\ call["signal"] = None
  /\ c \in todo
  /\ todo' = todo \ {c}
  /\ call' = [call EXCEPT !["signal"] =
                [cam |-> c, type |-> sigPc, coil |-> sigCoil, pc |-> "coil",
                 n |-> 0]]
  /\ UNCHANGED <<last, sigCoil, sigPc, polled, regFunc, life, capVars, missVars,
                 th, stored, history>>

TriggerEnd ==
  /\ todo = {} /\ call["signal"] = None
  /\ todo' = None
  /\ sigPc' = IF sigPc = "out" THEN "set" ELSE "poll"
  /\ UNCHANGED <<last, sigCoil, polled, regFunc, call, life, capVars, missVars,
                 th, stored, history>>

\* self.coil = coil, between triggerOut and triggerIn.
SetCoil ==
  /\ sigPc = "set"
  /\ sigCoil' = polled
  /\ sigPc' = "in"
  /\ UNCHANGED <<last, polled, todo, regFunc, call, life, capVars, missVars, th,
                 stored, history>>

Signal == \/ Poll \/ QuietOver \/ TriggerBegin \/ TriggerEnd \/ SetCoil
          \/ \E c \in Cams : TriggerNext(c)

-----------------------------------------------------------------------------
\* on_signal, run by thread w: the Signal thread or the registering worker.
At(w, pc) == call[w] # None /\ call[w].pc = pc
Goto(w, pc) == call' = [call EXCEPT ![w].pc = pc]
\* The call returns to its caller; a registering worker is then up.
Return(w) ==
  /\ call' = [call EXCEPT ![w] = None]
  /\ life' = IF w = "signal" THEN life ELSE [life EXCEPT ![w] = "up"]

OnSignalCoil(w) ==
  /\ At(w, "coil")
  /\ coil' = [coil EXCEPT ![call[w].cam] = call[w].coil]
  /\ Goto(w, IF call[w].type = "out" THEN "run" ELSE "save")
  /\ refused' = refused \ {call[w].cam}
  /\ UNCHANGED <<last, sigVars, regFunc, life, running, saver, missVars, th,
                 stored, told, closed, late>>

\* dataSave.trigger_init / trigger_in; the caller swallows an exception.
OnSignalSave(w) ==
  /\ At(w, "save")
  /\ saver' = [saver EXCEPT ![call[w].cam] = call[w].coil]
  /\ Goto(w, "run")
  /\ UNCHANGED <<last, sigVars, regFunc, life, coil, running, missVars, th,
                 stored, history>>

OnSignalFail(w) ==
  /\ "io" \in Events
  /\ At(w, "save")
  /\ Return(w)
  /\ refused' = refused \cup {call[w].cam}
  /\ UNCHANGED <<last, sigVars, regFunc, capVars, missVars, th, stored, told,
                 closed, late>>

OnSignalRun(w) ==
  /\ At(w, "run")
  /\ LET c == call[w].cam
         k == call[w].coil
     IN  /\ running' = [running EXCEPT ![c] = call[w].type # "out"]
         /\ closed' = IF w = "signal" /\ call[w].type = "out"
                      THEN [closed EXCEPT ![c] = k] ELSE closed
         /\ told' = IF w = "signal" /\ call[w].type # "out" /\ c \notin late
                    THEN [told EXCEPT ![c] = k] ELSE told
  /\ IF call[w].type = "in" THEN Goto(w, "miss") /\ UNCHANGED life
                            ELSE Return(w)
  /\ UNCHANGED <<last, sigVars, regFunc, coil, saver, missVars, th, stored, late,
                 refused>>

Count(n) == IF n < MissLimit THEN n + 1 ELSE n

\* A switch in with a 2D frame since the one before clears the counter; without
\* one the counter is read ...
OnSignalMiss(w) ==
  /\ At(w, "miss")
  /\ LET c == call[w].cam
     IN  /\ dry' = [dry EXCEPT ![c] = Count(@)]
         /\ frameSince' = [frameSince EXCEPT ![c] = FALSE]
         /\ IF frameSince[c]
            THEN missed' = [missed EXCEPT ![c] = 0] /\ Return(w)
            ELSE /\ call' = [call EXCEPT ![w] = [@ EXCEPT !.pc = "count", !.n = missed[c]]]
                 /\ UNCHANGED <<missed, life>>
  /\ UNCHANGED <<last, sigVars, regFunc, capVars, reconnect, th, stored, history>>

\* ... and written back (+= is two accesses) ...
OnSignalCount(w) ==
  /\ At(w, "count")
  /\ missed' = [missed EXCEPT ![call[w].cam] = Count(call[w].n)]
  /\ Goto(w, "limit")
  /\ UNCHANGED <<last, sigVars, regFunc, life, capVars, frameSince, reconnect,
                 dry, th, stored, history>>

\* ... and at the limit a connected camera whose last frame is old enough is
\* asked to reconnect.
OnSignalLimitAnyAge(w) ==
  /\ At(w, "limit")
  /\ LET c == call[w].cam
     IN  \/ UNCHANGED <<missed, reconnect>>
         \/ /\ missed[c] = MissLimit
            /\ missed' = [missed EXCEPT ![c] = 0]
            /\ reconnect' = [reconnect EXCEPT ![c] = TRUE]
  /\ Return(w)
  /\ UNCHANGED <<last, sigVars, regFunc, capVars, frameSince, dry, th, stored,
                 history>>
OnSignalLimit(w) ==
  /\ At(w, "limit")
  /\ LET c == call[w].cam
     IN  \/ UNCHANGED <<missed, reconnect>>
         \/ /\ missed[c] = MissLimit /\ ~frameSince[c]
            /\ missed' = [missed EXCEPT ![c] = 0]
            /\ reconnect' = [reconnect EXCEPT ![c] = TRUE]
  /\ Return(w)
  /\ UNCHANGED <<last, sigVars, regFunc, capVars, frameSince, dry, th, stored,
                 history>>

OnSignal(w) == \/ OnSignalCoil(w) \/ OnSignalSave(w) \/ OnSignalFail(w)
               \/ OnSignalRun(w) \/ OnSignalMiss(w)
               \/ OnSignalCount(w) \/ OnSignalLimit(w)

-----------------------------------------------------------------------------
\* main() waits for Signal.coil before it starts the workers, and the
\* supervisor replaces a dead one, whatever Signal is doing: run() creates the
\* saver and appends on_signal to regFunc.
RegisterAppend(c) ==
  /\ life[c] \in {"off", "dead"} /\ sigCoil # 0
  /\ life' = [life EXCEPT ![c] = "append"]
  /\ regFunc' = regFunc \cup {c}
  /\ coil' = [coil EXCEPT ![c] = 0]
  /\ running' = [running EXCEPT ![c] = FALSE]
  /\ saver' = [saver EXCEPT ![c] = 0]
  /\ missed' = [missed EXCEPT ![c] = 0] /\ dry' = [dry EXCEPT ![c] = 0]
  /\ frameSince' = [frameSince EXCEPT ![c] = FALSE]
  /\ reconnect' = [reconnect EXCEPT ![c] = FALSE]
  /\ told' = [told EXCEPT ![c] = 0] /\ closed' = [closed EXCEPT ![c] = 0]
  /\ late' = IF sigPc \in {"out", "set"} THEN late \cup {c} ELSE late \ {c}
  /\ refused' = refused \ {c}
  /\ UNCHANGED <<last, sigVars, call, th, stored>>

\* register evaluates self.coil and calls on_signal("init", coil).
RegisterSilently(c) ==
  /\ life[c] = "append"
  /\ life' = [life EXCEPT ![c] = "up"]
  /\ UNCHANGED <<last, sigVars, regFunc, call, capVars, missVars, th, stored,
                 history>>
RegisterInit(c) ==
  /\ life[c] = "append"
  /\ life' = [life EXCEPT ![c] = "register"]
  /\ call' = [call EXCEPT ![c] =
                [cam |-> c, type |-> "init", coil |-> sigCoil, pc |-> "coil",
                 n |-> 0]]
  /\ UNCHANGED <<last, sigVars, regFunc, capVars, missVars, th, stored, history>>

\* The worker ends and releases itself.  A callback Signal still delivers to the
\* discarded object changes nothing anyone reads.
Die(c) ==
  /\ "die" \in Events /\ life[c] = "up"
  /\ life' = [life EXCEPT ![c] = "dead"]
  /\ running' = [running EXCEPT ![c] = FALSE]
  /\ regFunc' = regFunc \ {c}
  /\ th' = [th EXCEPT ![c] = Idle]
  /\ todo' = IF todo = None THEN None ELSE todo \ {c}
  /\ call' = IF call["signal"] # None /\ call["signal"].cam = c
             THEN [call EXCEPT !["signal"] = None] ELSE call
  /\ UNCHANGED <<last, sigCoil, sigPc, polled, coil, saver, missVars, stored,
                 history>>

-----------------------------------------------------------------------------
\* The capture loop: get_active_coil() gates the wait for a frame ...
WaitFrame(c) ==
  /\ life[c] = "up" /\ th[c].pc = "check"
  /\ running[c] /\ coil[c] # 0
  /\ th' = [th EXCEPT ![c] = [@ EXCEPT !.pc = "wait", !.coil = coil[c]]]
  /\ UNCHANGED <<last, sigVars, regFunc, call, life, capVars, missVars, stored,
                 history>>

\* ... the frame arrives ...
FrameArrives(c) ==
  /\ th[c].pc = "wait"
  /\ th' = [th EXCEPT ![c] = [@ EXCEPT !.pc = "arrived", !.told = told[c],
                                       !.closed = closed[c]]]
  /\ UNCHANGED <<last, sigVars, regFunc, call, life, capVars, missVars, stored,
                 history>>

\* ... and _get_active_coil_snapshot reads parent.coil, then captureRunning.
SnapshotKeepsCoil(c) ==
  /\ th[c].pc = "arrived"
  /\ th' = [th EXCEPT ![c].pc = "read"]
  /\ UNCHANGED <<last, sigVars, regFunc, call, life, capVars, missVars, stored,
                 history>>
SnapshotCoil(c) ==
  /\ th[c].pc = "arrived"
  /\ th' = [th EXCEPT ![c] = [@ EXCEPT !.pc = "read", !.coil = coil[c]]]
  /\ UNCHANGED <<last, sigVars, regFunc, call, life, capVars, missVars, stored,
                 history>>

DropFrame(c) ==
  /\ th[c].pc = "read"
  /\ ~running[c] \/ th[c].coil = 0
  /\ th' = [th EXCEPT ![c] = Idle]
  /\ UNCHANGED <<last, sigVars, regFunc, call, life, capVars, missVars, stored,
                 history>>

\* bf.setCoil(coil); dataSave.put(bf).  A 2D frame also resets the counter.
PutFrame(c, kind) ==
  /\ th[c].pc = "read"
  /\ running[c] /\ th[c].coil # 0
  /\ stored' = [stored EXCEPT ![c] = [coil |-> th[c].coil, told |-> th[c].told,
                                      closed |-> th[c].closed]]
  /\ th' = [th EXCEPT ![c] = Idle]
  /\ IF kind = "2d"
     THEN /\ missed' = [missed EXCEPT ![c] = 0]
          /\ dry' = [dry EXCEPT ![c] = 0]
          /\ frameSince' = [frameSince EXCEPT ![c] = TRUE]
          /\ UNCHANGED reconnect
     ELSE UNCHANGED missVars
  /\ UNCHANGED <<last, sigVars, regFunc, call, life, capVars, history>>

Next ==
  \/ NewCoil \/ Signal
  \/ \E w \in Callers : OnSignal(w)
  \/ \E c \in Cams :
        \/ RegisterAppend(c) \/ RegisterInit(c) \/ Die(c)
        \/ WaitFrame(c) \/ FrameArrives(c) \/ SnapshotCoil(c) \/ DropFrame(c)
        \/ \E kind \in {"2d", "3d"} : PutFrame(c, kind)

Spec == Init /\ [][Next]_vars

-----------------------------------------------------------------------------
TypeOK ==
  /\ last \in Coil0 /\ sigCoil \in Coil0 /\ polled \in Coil0
  /\ sigPc \in {"poll", "quiet", "set", "init", "in", "out"}
  /\ todo \in (SUBSET Cams) \cup {None}
  /\ call \in [Callers -> Call \cup {None}]
  /\ life \in [Cams -> {"off", "append", "register", "up", "dead"}]
  /\ regFunc = {c \in Cams : life[c] \notin {"off", "dead"}}
  /\ coil \in [Cams -> Coil0] /\ saver \in [Cams -> Coil0]
  /\ running \in [Cams -> BOOLEAN]
  /\ missed \in [Cams -> 0..MissLimit] /\ dry \in [Cams -> 0..MissLimit]
  /\ frameSince \in [Cams -> BOOLEAN] /\ reconnect \in [Cams -> BOOLEAN]
  /\ th \in [Cams -> [pc : {"check", "wait", "arrived", "read"}, coil : Coil0,
                      told : Coil0, closed : Coil0]]
  /\ stored \in [Cams -> [coil : Coil0, told : Coil0, closed : Coil0] \cup {None}]
  /\ told \in [Cams -> Coil0] /\ closed \in [Cams -> Coil0]
  /\ late \in SUBSET Cams /\ refused \in SUBSET Cams

\* "A frame wait can span a coil switch; bind at arrival time" (CapTure.py:95):
\* a frame that arrives once its camera was switched in to a coil is never
\* stored under an earlier coil.  A worker that registered while the switch went
\* on may be left on the old coil; it counts again from the next switch on.
FrameUsesNewCoil ==
  \A c \in Cams : stored[c] # None => stored[c].coil >= stored[c].told

\* test_capture_coil_switch.py:287 (test_3d_frame_is_discarded_when_capture_
\* stops_during_get_buffer): a frame that arrives after its camera was switched
\* out of a coil is not stored under that coil.
StoppedFrameDiscarded ==
  \A c \in Cams : stored[c] # None => stored[c].coil > stored[c].closed

\* Between two polls every worker is on the coil Signal last switched to: the
\* coil frames are bound to, the one the saver counts indices for, and capturing
\* unless the trigger of this very coil failed - a failed trigger costs one coil,
\* and what a late registration left behind is put right by the next switch.
Settled(c) == sigPc = "poll" /\ life[c] = "up"
Follows(c, k) == coil[c] = k /\ (running[c] \/ c \in refused)
OnCurrentCoil ==
  \A c \in Cams : Settled(c) /\ c \notin late =>
    Follows(c, sigCoil) /\ (running[c] => saver[c] = sigCoil)

\* test_capture_coil_switch.py:222 (test_2d_frame_uses_new_coil_when_coil_
\* switches_during_get_last_frame) without the exception: between two polls
\* every worker that captures binds its frames to Signal's coil.
CaptureFollowsSignal ==
  \A c \in Cams : Settled(c) /\ running[c] => coil[c] = sigCoil

\* The counter of missed frames is reset by the 2D thread and by the Signal
\* thread: a reconnect interrupts a camera only after MissLimit switches in with
\* no 2D frame at all.
ReconnectJustified ==
  [][ \A c \in Cams : reconnect'[c] /\ ~reconnect[c] => dry'[c] = MissLimit ]_vars

\* Every coil that stays the newest one reaches every living worker that was
\* not registering during the switch, and the worker captures for it unless the
\* trigger failed.
SwitchCompletes ==
  \A k \in 1..MaxCoil :
    last = k ~> \/ last > k
                \/ \A c \in Cams : life[c] = "up" /\ c \notin late => Follows(c, k)

=============================================================================
