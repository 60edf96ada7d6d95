------------------------------ MODULE PlcWriter ------------------------------
(***************************************************************************)
(* The two programs that talk to the PLC, and the level-2 link.            *)
(*                                                                         *)
(* The width writer (app/plcServer/writePLC.py) takes the service's lock   *)
(* and then polls: it asks the link for the coil that is current, and      *)
(* brings the width in the PLC in line with it through a PLC session of    *)
(* its own.  The link (app/Communication) makes the coil of each telegram  *)
(* the current one.  The bridge (app/plcServer/main.py) has a session for  *)
(* the threads that serve its requests.                                    *)
(*                                                                         *)
(* What a poll does commutes with what other processes do to the lock, and *)
(* writer and bridge share nothing but the PLC.  A behaviour therefore     *)
(* plays one scene: processes "start" and leave, one writer does "poll",   *)
(* or the "bridge" serves.  The coil data of a telegram is its width; the  *)
(* positions that are stored for a coil that has left, and whether its row *)
(* is found, are left out, but not that they are read from the PLC.        *)
(***************************************************************************)
EXTENDS SingletonLock, PlcSession

CONSTANTS
  Threads,     \* of the bridge
  Supervised,  \* the process ids of the writer that polls; one runs at a time
  MaxCoil,     \* bound: telegrams
  MaxChange    \* bound: how often the width changes in the PLC by itself

ASSUME WriterAssumption ==
  /\ Callers = Threads \cup Processes /\ Supervised \subseteq Processes
  /\ MaxCoil \in Nat /\ MaxChange \in Nat

VARIABLES
  scene,    \* "start", "poll" or "bridge"
  current,  \* DecodeData.currentCoil: the number of its telegram, 0 before the first
  width,    \* the width in the PLC
  late,     \* widths whose write failed here and may still arrive there
  changes,  \* how often the width has changed by itself
  step,     \* where poll_once stands, "sleep" between two calls
  coil,     \* the coil poll_once was told
  oldWidth, \* the width it read
  oldId     \* the coil of the last poll that ended well, 0 for ""

polling == <<step, coil, oldWidth, oldId>>
plc     == <<width, late, changes>>
Widths  == 0..2
Width(k) == IF k = 0 THEN 0 ELSE 1 + (k % 2)

plcVars == <<vars, session, scene, current, plc, polling>>

PlcInit ==
  /\ Init /\ SessionInit
  /\ scene \in {"start", "poll", "bridge"}
  /\ scene # "start" => setting = "windows"
  /\ booting = (scene = "bridge")
  /\ current = 0 /\ width = 0 /\ late = {} /\ changes = 0
  /\ step = "sleep" /\ coil = 0 /\ oldWidth = 0 /\ oldId = 0

-----------------------------------------------------------------------------
\* DecodeData; a telegram that TCP has split or joined is dropped for its length.
Telegram ==
  /\ scene = "poll" /\ current < MaxCoil /\ current' = current + 1
  /\ UNCHANGED <<vars, session, scene, plc, polling>>

\* The PLC changes the width by itself, or a write reaches it although its
\* session was given up, or never does.
Changes ==
  /\ scene = "poll" /\ changes < MaxChange /\ changes' = changes + 1
  /\ width' \in Widths \ {width}
  /\ UNCHANGED <<vars, session, scene, current, late, polling>>
Land ==
  /\ \E w \in late : late' = late \ {w} /\ width' \in {w, width}
  /\ UNCHANGED <<vars, session, scene, current, changes, polling>>

-----------------------------------------------------------------------------
\* The writer's process: it starts, takes the lock and polls, and is replaced by
\* its watchdog when it hangs, or dies.
Enters(p) ==
  /\ \/ p \in Supervised /\ (\A q \in Processes : pc[q] = "off") /\ Start(p)
     \/ CreateMutex(p) \/ WritePid(p)
  /\ Remember /\ UNCHANGED <<session, polling>>
Dies(p) ==
  /\ pc[p] = "held" /\ End(p) /\ Remember
  /\ \/ Fault
     \/ Unharmed /\ at[p] = "hung"
  /\ Restarted /\ UNCHANGED booting
  /\ step' = "sleep" /\ coil' = 0 /\ oldWidth' = 0 /\ oldId' = 0

\* poll_once: the current coil, if there is one, then the width in the PLC.
GetCurrent(p) ==
  /\ pc[p] = "held" /\ step = "sleep" /\ current # 0
  /\ step' = "width" /\ coil' = current /\ Ask(p, "read")
  /\ UNCHANGED <<vars, oldWidth, oldId>>

\* An answer of the session moves poll_once on; an error ends it with old_id as
\* it was.
Goes(l)   == step' = l /\ UNCHANGED <<coil, oldId>>
ReturnsOld == step' = "sleep" /\ UNCHANGED <<coil, oldWidth, oldId>>
GetWidth(p) ==
  /\ step = "width" /\ Answer(p) /\ UNCHANGED vars
  /\ \/ at[p] = "done" /\ UNCHANGED oldWidth
        /\ Goes(IF oldId # coil /\ oldId # 0 THEN "row" ELSE "compare")
     \/ at[p] = "failed" /\ ReturnsOld

\* add_plc for the coil that has left: when its row is found the three positions
\* are read, here in one call; whatever fails is logged.
FindRow(p) ==
  /\ step = "row" /\ UNCHANGED <<vars, oldWidth>>
  /\ \/ Goes("positions") /\ Ask(p, "read")
     \/ Goes("compare") /\ UNCHANGED session
AddPositions(p) ==
  /\ step = "positions" /\ Answer(p) /\ Goes("compare") /\ UNCHANGED <<vars, oldWidth>>

\* The width is written when it differs.
WriteNewCoil == oldId # coil
WriteNeeded  == oldWidth # Width(coil)
ReturnsNew  == step' = "sleep" /\ oldId' = coil /\ UNCHANGED <<coil, oldWidth>>
Compare(p) ==
  /\ step = "compare" /\ UNCHANGED vars
  /\ \/ WriteNeeded /\ Goes("write") /\ UNCHANGED oldWidth /\ Ask(p, "write")
     \/ ~WriteNeeded /\ ReturnsNew /\ UNCHANGED session
WriteDone(p) ==
  /\ step = "write" /\ Answer(p) /\ UNCHANGED vars
  /\ \/ at[p] = "done" /\ ReturnsNew
     \/ at[p] = "failed" /\ ReturnsOld

\* The session's own steps.  A write that fails may have been carried out, or be
\* on its way.
Turns(p)  == Take(p) \/ Reuse(p) \/ Connect(p) \/ Undo(p) \/ Drop(p)
Breaks(p) == SdkFails(p) \/ SdkHangs(p)
Session(p) ==
  /\ pc[p] = "held" /\ UNCHANGED <<vars, changes, step, coil, oldId>>
  /\ \/ Turns(p) /\ UNCHANGED <<width, late, oldWidth>>
     \/ op[p] = "read" /\ UNCHANGED <<width, late>>
        /\ \/ SdkReturns(p) /\ oldWidth' = IF step = "width" THEN width ELSE oldWidth
           \/ Breaks(p) /\ UNCHANGED oldWidth
     \/ op[p] = "write" /\ UNCHANGED oldWidth
        /\ \/ SdkReturns(p) /\ width' = Width(coil) /\ UNCHANGED late
           \/ Breaks(p) /\ width' \in {width, Width(coil)}
              /\ late' \in {late, late \cup {Width(coil)}}

Polls(p) ==
  /\ scene = "poll" /\ UNCHANGED <<scene, current>>
  /\ \/ UNCHANGED plc /\ (Enters(p) \/ Dies(p) \/ GetCurrent(p))
     \/ UNCHANGED plc /\ pc[p] = "held"
        /\ (GetWidth(p) \/ FindRow(p) \/ AddPositions(p) \/ Compare(p) \/ WriteDone(p))
     \/ Session(p)

-----------------------------------------------------------------------------
\* The bridge: a request reads, or configures an address.
Request(c) == Serve(c) \/ \E o \in {"connect", "read"} \cup Targets : Ask(c, o)
Bridge ==
  /\ scene = "bridge" /\ UNCHANGED <<vars, scene, current, plc, polling>>
  /\ \/ \E c \in Threads : Request(c)
     \/ Restart /\ booting'

\* The lock by itself.
Starts ==
  /\ scene = "start" /\ UNCHANGED <<session, scene, current, plc, polling>>
  /\ Next

PlcNext ==
  \/ Starts \/ Bridge \/ Telegram \/ Changes \/ Land
  \/ \E p \in Processes : Polls(p)

\* The threads of the bridge and the writer go on, its watchdog starts a new
\* writer, and what is on its way arrives or is lost.  That a process which hangs
\* is replaced is only needed of the writer's watchdog.
PlcSpec ==
  /\ PlcInit /\ [][PlcNext]_plcVars
  /\ \A c \in Threads : WF_plcVars(scene = "bridge" /\ Bridge /\ Serve(c))
  /\ \A p \in Supervised : WF_plcVars(Polls(p))
  /\ WF_plcVars(Land)

-----------------------------------------------------------------------------
\* The width in the PLC becomes and stays that of the coil that stays current,
\* whatever polls fail, however often a write whose answer was lost is sent again
\* (server.py:344) or arrives late, although the writer is replaced in between.
WidthFollows == scene = "poll" => <>[](current # 0 => width = Width(current))

\* A caller of the session is answered, with an error if need be, although the
\* SDK hangs in the call of another or fails with its lock held.
RequestsAnswered ==
  \A c \in Threads : at[c] = "queue" ~> at[c] \in {"idle", "done", "failed", "hung"}
=============================================================================
