-------------------------- MODULE MosaicCoordinator --------------------------
(***************************************************************************)
(* The main loop of the 3D algorithm: ImageMosaicThread                    *)
(* (app/algorithm_runtime/SplicingService/ImageMosaicThread.py) follows    *)
(* the table of coils with its cursor startCoilId, rewinds the cursor to   *)
(* coils whose output files are missing, where that is configured, and     *)
(* works off the re-detection queue that the API thread replaces and       *)
(* extends.                                                                *)
(*                                                                         *)
(* Coil ids are consecutive.  What happens to a coil between set_coil_id   *)
(* and addCoil is one outcome: whether its output files exist afterwards.  *)
(***************************************************************************)
EXTENDS Naturals, SequencesExt

CONSTANTS
  MaxCoil,     \* model bound: coil ids 1..MaxCoil
  History,     \* maxHistoryCoilCount
  ClearAfter,  \* a coil further behind has its records cleared (2 in the code)
  Reprocess,   \* REPROCESS_MISSING_OUTPUTS
  QueueLimit,  \* MAX_RE_DETECTION_COIL_COUNT
  MaxFail,     \* model bound: coils processed without complete output
  MaxCrash,    \* model bound: restarts of the process
  MaxRedetect, \* model bound: re-detection requests
  LoopScenarios
               \* each with the number of coils on record when the service is first
               \* started and the set of what may happen: "partial" (a coil not
               \* fully captured may yield files), "noFiles" (one fully captured may
               \* not), "dbFails" (addCoil raises), "kill", "redetect" (a recorded
               \* coil is asked for), "early" (so is one not recorded yet)

ASSUME CoordinatorAssumption ==
  /\ MaxCoil \in Nat \ {0} /\ History \in Nat \ {0} /\ MaxFail \in Nat
  /\ ClearAfter \in Nat /\ Reprocess \in BOOLEAN /\ QueueLimit \in Nat
  /\ MaxCrash \in Nat /\ MaxRedetect \in Nat
  /\ LoopScenarios \subseteq
       [recorded : 0..MaxCoil,
        may : SUBSET {"partial", "noFiles", "dbFails", "kill", "redetect", "early"}]

Ids == 1..MaxCoil

VARIABLES
  incidents,    \* what may happen in the behaviour, chosen at its start
  latest,       \* newest id in SecondaryCoil (0: none)
  captured,     \* coils whose capture is complete
  coilTable,    \* SecondaryCoilIds of the Coil table, in the order of its rows
  outputs,      \* coils with all output files
  recent,       \* rows detected within the grace period
  startCoilId,  \* the cursor
  retryAfter,   \* _missing_output_retry_after: coils not retried yet
  pc,           \* "top", "list", "coil", "work", "record", "pop", "redo",
                \* "count", "clear"
  maxId,        \* max_secondary_coil_id as read at the top of the loop
  listData,     \* the coils of this iteration still to be handled
  coil,         \* the coil being processed
  redoing,      \* it is a re-detection
  redetectQueue, total, done, redetecting,  \* re_detection_*
  counted,      \* re_detection_done as read by `+= 1`
  api,          \* a range request: "idle" or the assignment that comes next
  range,        \* its ids
  fails, crashes, redetects,    \* counted against the model bounds
  unrecorded    \* history: coils for which addCoil has raised

tables   == <<latest, captured, coilTable, outputs, recent>>
redetect == <<redetectQueue, total, done, redetecting>>
apiVars  == <<api, range, redetects>>
cursor   == <<startCoilId, retryAfter, maxId>>
work     == <<pc, listData, coil, redoing, counted>>
bounds   == <<fails, crashes, unrecorded>>
loopVars == <<incidents, tables, redetect, apiVars, cursor, work, bounds>>

rows    == ToSet(coilTable)
lastRow == IF coilTable = <<>> THEN 0 ELSE Last(coilTable)

Minus(a, b) == IF a > b THEN a - b ELSE 0
Window(m)   == {c \in Ids : c > Minus(m, History) /\ c <= m}

\* The ids of a finite range, newest first; oldest first.
Descending(S) == [i \in 1..Cardinality(S) |-> Max(S) + 1 - i]
Ascending(S)  == [i \in 1..Cardinality(S) |-> Min(S) - 1 + i]

\* _find_missing_output_cursor: from the newest row down, the oldest coil of the
\* first stretch of coils without output.  Coils in `waits` have their retry ahead.
CanRewind(c, waits) == c \notin recent /\ c \in captured /\ c \notin waits
Missing(m, waits) == {c \in rows \cap Window(m) : CanRewind(c, waits) /\ c \notin outputs}
Stretch(m, waits) ==
  {c \in Missing(m, waits) :
     ~ \E d \in rows \cap outputs :
         CanRewind(d, waits) /\ c < d /\ d < Max(Missing(m, waits))}
Rewound(m, start, waits) ==
  IF Reprocess /\ Missing(m, waits) # {} /\ Min(Stretch(m, waits)) - 1 < start
  THEN Min(Stretch(m, waits)) - 1 ELSE start

\* _limit_history_start_id
Limited(start, m) == IF start < Minus(m, History) THEN Minus(m, History) ELSE start

StartOf(m, start, waits) == Rewound(m, Limited(start, m), waits)

\* __init__ takes the cursor from the newest row; no retry times are known.
FirstCursor == IF rows = {} \/ latest = 0 THEN 0 ELSE StartOf(latest, lastRow, {})

\* Some of the coils on record may lack their output.
LoopInit ==
  /\ \E s \in LoopScenarios : incidents = s.may /\ latest = s.recorded
  /\ captured = 1..latest /\ coilTable = [i \in 1..latest |-> i]
  /\ outputs \in SUBSET (1..latest) /\ recent = {}
  /\ startCoilId = FirstCursor /\ retryAfter = {} /\ maxId = 0
  /\ pc = "top" /\ listData = <<>> /\ coil = 0 /\ redoing = FALSE /\ counted = 0
  /\ redetectQueue = <<>> /\ total = 0 /\ done = 0 /\ redetecting = FALSE
  /\ api = "idle" /\ range = {} /\ redetects = 0
  /\ fails = 0 /\ crashes = 0 /\ unrecorded = {}

-----------------------------------------------------------------------------
\* The rest of the plant: a coil is registered, its capture ends.
CoilArrives ==
  /\ latest < MaxCoil
  /\ latest' = latest + 1
  /\ UNCHANGED <<incidents, captured, coilTable, outputs, recent, redetect,
                 apiVars, cursor, work, bounds>>

CaptureEnds(c) ==
  /\ c <= latest /\ c \notin captured
  /\ captured' = captured \cup {c}
  /\ UNCHANGED <<incidents, latest, coilTable, outputs, recent, redetect, apiVars,
                 cursor, work, bounds>>

\* Time passes: MISSING_OUTPUT_GRACE_SECONDS (which nothing asks about while
\* all recorded coils have their files), MISSING_OUTPUT_RETRY_SECONDS.
GraceOver(c) ==
  /\ ~(rows \subseteq outputs)
  /\ c \in recent /\ recent' = recent \ {c}
  /\ UNCHANGED <<incidents, latest, captured, coilTable, outputs, redetect,
                 apiVars, cursor, work, bounds>>
RetryDue(c) ==
  /\ c \in retryAfter /\ retryAfter' = retryAfter \ {c}
  /\ UNCHANGED <<incidents, tables, redetect, apiVars, startCoilId, maxId, work,
                 bounds>>

-----------------------------------------------------------------------------
\* run: read the newest id, move the cursor ...
LoopTop ==
  /\ pc = "top" /\ latest > 0
  /\ maxId' = latest
  /\ startCoilId' = StartOf(latest, startCoilId, retryAfter)
  /\ pc' = "list"
  /\ UNCHANGED <<incidents, tables, redetect, apiVars, retryAfter, listData, coil,
                 redoing, counted, bounds>>

\* ... and list the coils behind it.
LoopList ==
  /\ pc = "list"
  /\ LET new == {c \in Ids : c > startCoilId /\ c <= latest /\ c <= startCoilId + History}
     IN  /\ listData' = IF new = {} THEN <<>> ELSE Ascending(new)
         /\ pc' = IF new # {} THEN "coil" ELSE IF redetectQueue # <<>> THEN "pop" ELSE "top"
  /\ UNCHANGED <<incidents, tables, redetect, apiVars, cursor, coil, redoing,
                 counted, bounds>>

\* clear_by_coil_id, for coils that are far behind; a coil has one row.
Cleared(c) == maxId > c + ClearAfter
Clear(c) ==
  /\ coilTable' = IF Cleared(c) THEN RemoveFirst(coilTable, c) ELSE coilTable
  /\ recent' = IF Cleared(c) THEN recent \ {c} ELSE recent

\* _process_secondary_coil: only the newest coil waits for its capture.
Ready(c) == c < maxId \/ c \in captured

\* The cursor moved on although the capture is not complete; nothing cleared.
CoilBeginEarly ==
  /\ pc = "coil"
  /\ IF listData = <<>>
     THEN /\ pc' = "top" /\ UNCHANGED <<listData, startCoilId, coil, redoing>>
     ELSE /\ startCoilId' = Head(listData)
          /\ redoing' = FALSE
          /\ IF Ready(Head(listData))
             THEN coil' = Head(listData) /\ listData' = Tail(listData) /\ pc' = "work"
             ELSE pc' = "top" /\ listData' = <<>> /\ UNCHANGED coil
  /\ UNCHANGED <<incidents, tables, redetect, apiVars, retryAfter, maxId, counted,
                 bounds>>

CoilBegin ==
  /\ pc = "coil"
  /\ IF listData = <<>> \/ ~Ready(Head(listData))
     THEN /\ pc' = "top" /\ listData' = <<>>
          /\ UNCHANGED <<startCoilId, coil, redoing, coilTable, recent>>
     ELSE /\ coil' = Head(listData) /\ listData' = Tail(listData)
          /\ startCoilId' = coil' /\ Clear(coil')
          /\ redoing' = FALSE /\ pc' = "work"
  /\ UNCHANGED <<incidents, latest, captured, outputs, redetect, apiVars,
                 retryAfter, maxId, counted, bounds>>

\* Mosaic, detection and saving, up to the database.
CoilWork ==
  /\ pc = "work"
  /\ \/ /\ coil \in captured \/ "partial" \in incidents
        /\ outputs' = outputs \cup {coil} /\ UNCHANGED fails
     \/ /\ coil \in captured => "noFiles" \in incidents /\ fails < MaxFail
        /\ fails' = IF coil \in captured THEN fails + 1 ELSE fails
        /\ UNCHANGED outputs
  /\ pc' = "record"
  /\ UNCHANGED <<incidents, latest, captured, coilTable, recent, redetect, apiVars,
                 cursor, listData, coil, redoing, counted, crashes, unrecorded>>

\* addCoil, then _update_missing_output_retry; an exception only ends this coil.
AfterCoil == pc' = IF redoing THEN "count" ELSE "coil"
RetryOf ==
  IF ~Reprocess THEN retryAfter
  ELSE IF coil \in outputs THEN retryAfter \ {coil} ELSE retryAfter \cup {coil}

CoilRecord ==
  /\ pc = "record"
  /\ coilTable' = IF coil \in rows THEN coilTable ELSE Append(coilTable, coil)
  /\ recent' = recent \cup {coil}
  /\ retryAfter' = RetryOf
  /\ AfterCoil
  /\ UNCHANGED <<incidents, latest, captured, outputs, redetect, apiVars,
                 startCoilId, maxId, listData, coil, redoing, counted, bounds>>

CoilFails ==
  /\ pc = "record" /\ "dbFails" \in incidents
  /\ unrecorded' = unrecorded \cup {coil}
  /\ pc' = IF redoing THEN "clear" ELSE "coil"
  /\ UNCHANGED <<incidents, tables, redetect, apiVars, cursor, listData, coil,
                 redoing, counted, fails, crashes>>

-----------------------------------------------------------------------------
\* The re-detection queue, looked at when no new coil was listed.  The API may
\* have replaced it by an empty one since.
RePop ==
  /\ pc = "pop"
  /\ redetecting' = TRUE
  /\ IF redetectQueue = <<>>
     THEN /\ pc' = "clear"
          /\ UNCHANGED <<redetectQueue, coil, redoing, startCoilId, coilTable, recent>>
     ELSE /\ coil' = Head(redetectQueue) /\ redetectQueue' = Tail(redetectQueue)
          /\ startCoilId' = coil' /\ Clear(coil')
          /\ redoing' = TRUE /\ pc' = "work"
  /\ UNCHANGED <<incidents, latest, captured, outputs, total, done, apiVars,
                 retryAfter, maxId, listData, counted, bounds>>

\* re_detection_done += 1
ReCount ==
  /\ pc = "count"
  /\ counted' = done /\ pc' = "redo"
  /\ UNCHANGED <<incidents, tables, redetect, apiVars, cursor, listData, coil,
                 redoing, bounds>>
ReStore ==
  /\ pc = "redo"
  /\ done' = counted + 1 /\ pc' = "clear"
  /\ UNCHANGED <<incidents, tables, redetectQueue, total, redetecting, apiVars, cursor,
                 listData, coil, redoing, counted, bounds>>
ReEnd ==
  /\ pc = "clear"
  /\ redetecting' = IF redetectQueue = <<>> THEN FALSE ELSE redetecting
  /\ pc' = "top" /\ redoing' = FALSE
  /\ UNCHANGED <<incidents, tables, redetectQueue, total, done, apiVars, cursor, listData,
                 coil, counted, bounds>>

MainLoop ==
  \/ LoopTop \/ LoopList \/ CoilBegin \/ CoilWork \/ CoilRecord \/ CoilFails
  \/ RePop \/ ReCount \/ ReStore \/ ReEnd

-----------------------------------------------------------------------------
\* What the user asks for: coils of the list on the screen, or any coil.
Requestable ==
  IF "early" \in incidents THEN 1..latest ELSE IF "redetect" \in incidents THEN rows ELSE {}

\* set_re_detection_by_coil_id, one assignment after the other; the range may
\* hold no coil ...
RangeQueue(first, last) ==
  /\ incidents \cap {"redetect", "early"} # {}
  /\ api = "idle" /\ redetects < MaxRedetect /\ redetects' = redetects + 1
  /\ first..last \subseteq Requestable /\ range' = first..last
  /\ Cardinality(range') <= QueueLimit
  /\ redetectQueue' = IF range' = {} THEN <<>> ELSE Descending(range')
  /\ api' = "total"
  /\ UNCHANGED <<incidents, tables, total, done, redetecting, cursor, work, bounds>>
RangeTotal ==
  /\ api = "total" /\ total' = Cardinality(range) /\ api' = "done"
  /\ UNCHANGED <<incidents, tables, redetectQueue, done, redetecting, range, redetects, cursor,
                 work, bounds>>
RangeDone ==
  /\ api = "done" /\ done' = 0 /\ api' = "redetecting"
  /\ UNCHANGED <<incidents, tables, redetectQueue, total, redetecting, range, redetects, cursor,
                 work, bounds>>
RangeRunning ==
  /\ api = "redetecting" /\ redetecting' = FALSE /\ api' = "idle" /\ range' = {}
  /\ UNCHANGED <<incidents, tables, redetectQueue, total, done, redetects, cursor, work,
                 bounds>>
RangeRequest == RangeTotal \/ RangeDone \/ RangeRunning

\* ... and set_re_detection of a single coil.
SetRedetection(c) ==
  /\ api = "idle" /\ redetects < MaxRedetect /\ c \in Requestable
  /\ c \notin ToSet(redetectQueue) /\ Len(redetectQueue) < QueueLimit
  /\ redetects' = redetects + 1
  /\ redetectQueue' = Append(redetectQueue, c) /\ total' = total + 1
  /\ UNCHANGED <<incidents, tables, done, redetecting, api, range, cursor, work,
                 bounds>>

\* The process is killed and started again: __init__.
Crash ==
  /\ "kill" \in incidents /\ crashes < MaxCrash /\ crashes' = crashes + 1
  /\ retryAfter' = {}
  /\ maxId' = 0
  /\ startCoilId' = FirstCursor
  /\ pc' = "top" /\ listData' = <<>> /\ coil' = 0 /\ redoing' = FALSE /\ counted' = 0
  /\ redetectQueue' = <<>> /\ total' = 0 /\ done' = 0 /\ redetecting' = FALSE
  /\ api' = "idle" /\ range' = {}
  /\ UNCHANGED <<incidents, tables, redetects, fails, unrecorded>>

LoopNext ==
  \/ CoilArrives
  \/ \E c \in Ids : CaptureEnds(c) \/ GraceOver(c) \/ RetryDue(c) \/ SetRedetection(c)
  \/ \E first, last \in Ids : RangeQueue(first, last)
  \/ RangeRequest \/ MainLoop \/ Crash

LoopSpec == LoopInit /\ [][LoopNext]_loopVars

\* The loop runs on, captures end, grace and retry times pass.
LoopFairSpec ==
  /\ LoopSpec /\ WF_loopVars(MainLoop) /\ WF_loopVars(RangeRequest)
  /\ WF_loopVars(\E c \in Ids : CaptureEnds(c))
  /\ WF_loopVars(\E c \in Ids : GraceOver(c)) /\ WF_loopVars(\E c \in Ids : RetryDue(c))

-----------------------------------------------------------------------------
LoopTypeOK ==
  /\ latest \in 0..MaxCoil /\ startCoilId \in 0..MaxCoil
  /\ maxId \in 0..MaxCoil /\ coil \in 0..MaxCoil
  /\ captured \subseteq Ids /\ coilTable \in Seq(Ids) /\ IsInjective(coilTable) /\ outputs \subseteq Ids
  /\ recent \subseteq rows /\ retryAfter \subseteq Ids /\ range \subseteq Ids
  /\ pc \in {"top", "list", "coil", "work", "record", "pop", "redo", "count", "clear"}
  /\ listData \in Seq(Ids) /\ redetectQueue \in Seq(Ids)
  /\ redoing \in BOOLEAN /\ redetecting \in BOOLEAN
  /\ total \in Nat /\ done \in Nat /\ counted \in Nat
  /\ api \in {"idle", "total", "done", "redetecting"}
  /\ unrecorded \subseteq Ids /\ fails \in 0..MaxFail /\ crashes \in 0..MaxCrash /\ redetects \in 0..MaxRedetect

\* The cursor never leaves an unrecorded coil of the history window behind, also when
\* the process is restarted after a re-detection has reordered the table: the coil it
\* has passed is recorded, being processed, or one that addCoil has refused.  A coil
\* whose record clear_by_coil_id may have deleted for another go is not spoken of: a
\* restart before the new record loses it.
NoCoilForgotten ==
  \A c \in Window(latest) :
    c <= startCoilId /\ latest <= c + ClearAfter =>
      c \in rows \cup unrecorded \/ (pc \in {"work", "record"} /\ coil = c)

\* New data, then re-detection (ImageMosaicThread.py:578): a coil that is
\* recorded with its output does not come back as new data.
OnlineIsNew ==
  [][ pc = "coil" /\ pc' = "work" => coil' \notin rows \cap outputs ]_loopVars


=============================================================================
