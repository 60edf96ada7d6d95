---------------------------- MODULE AreaPipeline ----------------------------
(***************************************************************************)
(* The 2D pipeline from the folder scan to the AREA files of a coil        *)
(* (app/algorithm_runtime_2D: server.py, JoinWork, SurfaceWork, SaverWork, *)
(* SurfaceConfig): the scanner finds a coil whose output is missing and    *)
(* gives it to JoinWork, which gives it to its surfaces; a surface takes   *)
(* the one memory slot, loads its cameras, detects, stores the defects and *)
(* has its saver write the files, whose markers tell a finished output     *)
(* from a partial one after a restart.                                     *)
(*                                                                         *)
(* The workers' queues are those of WorkBase: DedupExact there makes the   *)
(* pending set of a worker its queued and active coils.  Input frames are  *)
(* a version number per surface and coil (0: incomplete or not yet quiet); *)
(* an image, a defect list or a file is the set of versions it was made    *)
(* from.                                                                   *)
(***************************************************************************)
EXTENDS Naturals, FiniteSets, Sequences

CONSTANTS
  SurfaceSeq,  \* the surfaces in the order of the configuration
  Coils,       \* coil ids
  Cameras,     \* number of cameras of a surface
  MaxVersion,  \* model bound: versions 0..MaxVersion of a surface's input
  MaxUpset,    \* model bound: restarts and manual rejoins
  Scenarios,   \* each a set of what may happen in one behaviour: "grows" (frames are
               \* added to complete input), "rejoin" (manual rejoin), "kill",
               \* "cameraFails", "maskFails", "detectFails", "saveFails",
               \* "joinTimeout", "saveTimeout"
  None         \* Python's None

Surfaces == {SurfaceSeq[i] : i \in DOMAIN SurfaceSeq}

\* The surfaces are the keys of a dictionary.
ASSUME PipelineAssumption ==
  /\ Cameras \in Nat \ {0} /\ MaxVersion \in Nat /\ MaxUpset \in Nat
  /\ SurfaceSeq \in Seq(Surfaces)
  /\ \A i, j \in DOMAIN SurfaceSeq : SurfaceSeq[i] = SurfaceSeq[j] => i = j
  /\ None \notin Coils
  /\ Scenarios \subseteq SUBSET {"grows", "rejoin", "kill", "cameraFails", "maskFails",
                                "detectFails", "saveFails", "joinTimeout", "saveTimeout"}

Versions == 0..MaxVersion
Image    == SUBSET Versions

VARIABLES
  events,   \* the scenario of the behaviour, chosen at its start
  source,   \* the input of each surface and coil on disk
  disk,     \* its output files: the AREA picture, its tiles and preview, the
            \* AREA_MASK picture with its own, .area_complete, .area_in_progress
  defects,  \* its defects in the database
  joinQ, surfQ, saveQ,  \* queue_in of JoinWork, the surfaces and their savers
  join,     \* JoinWork: the coil, how many surfaces it went through, and
            \* those whose answer it waits for
  surf,     \* each SurfaceWork: what it does, the coil, whether join asked
            \* for it, the source snapshot, cameras loaded, the image
  slot,     \* the surface holding SURFACE_PIPELINE_SEMAPHORE
  saver,    \* each SaverWork: what it does, coil, image, whether a mask came with it
  scan,     \* the scanner: the coil it looks at and the next probe
  upsets   \* restarts and manual rejoins so far

stores == <<source, disk, defects, upsets>>
vars == <<events, stores, joinQ, surfQ, saveQ, join, surf, slot, saver, scan>>

JoinIdle == [coil |-> None, next |-> 1, waiting |-> {}]
SurfIdle == [pc |-> "get", coil |-> None, asked |-> FALSE, snapshot |-> 0,
             loaded |-> 0, image |-> {}]
SaveIdle == [pc |-> "get", coil |-> None, image |-> {}, masked |-> FALSE]
ScanIdle == [coil |-> None, probe |-> 1]
NoOutput == [area |-> {}, rest |-> {}, mask |-> {}, done |-> FALSE, prog |-> FALSE]

Fresh ==
  /\ joinQ' = <<>> /\ surfQ' = [s \in Surfaces |-> <<>>]
  /\ saveQ' = [s \in Surfaces |-> <<>>]
  /\ join' = JoinIdle /\ surf' = [s \in Surfaces |-> SurfIdle] /\ slot' = None
  /\ saver' = [s \in Surfaces |-> SaveIdle] /\ scan' = ScanIdle

Init ==
  /\ events \in Scenarios
  /\ source = [s \in Surfaces |-> [c \in Coils |-> 0]]
  /\ disk = [s \in Surfaces |-> [c \in Coils |-> NoOutput]]
  /\ defects = [s \in Surfaces |-> [c \in Coils |-> {}]]
  /\ upsets = 0
  /\ joinQ = <<>> /\ surfQ = [s \in Surfaces |-> <<>>]
  /\ saveQ = [s \in Surfaces |-> <<>>]
  /\ join = JoinIdle /\ surf = [s \in Surfaces |-> SurfIdle] /\ slot = None
  /\ saver = [s \in Surfaces |-> SaveIdle] /\ scan = ScanIdle

-----------------------------------------------------------------------------
\* pending_work_ids of each worker.
CoilsIn(q)      == {q[i].coil : i \in DOMAIN q}
JoinPending    == {joinQ[i] : i \in DOMAIN joinQ} \cup ({join.coil} \ {None})
SurfPending(s) == CoilsIn(surfQ[s]) \cup ({surf[s].coil} \ {None})
SavePending(s) == CoilsIn(saveQ[s]) \cup ({saver[s].coil} \ {None})

\* source_complete; area_output_complete
SourceComplete(s, c) == source[s][c] > 0
OutputComplete(s, c) ==
  /\ disk[s][c].area # {}
  /\ disk[s][c].done \/ ~disk[s][c].prog

\* The capture service adds frames.
Capture(s, c) ==
  /\ source[s][c] < MaxVersion /\ (SourceComplete(s, c) => "grows" \in events)
  /\ source' = [source EXCEPT ![s][c] = @ + 1]
  /\ UNCHANGED <<events, disk, defects, upsets, joinQ, surfQ, saveQ, join, surf,
                 slot, saver, scan>>

-----------------------------------------------------------------------------
\* The scanner: has_pending_work asks JoinWork, then each surface and its saver,
\* one lock at a time ...
Probes == [i \in 1..(1 + 2 * Len(SurfaceSeq)) |->
             IF i = 1 THEN <<"join">>
             ELSE <<IF i % 2 = 0 THEN "surface" ELSE "saver", SurfaceSeq[i \div 2]>>]
PendingAt(p) ==
  CASE p[1] = "join"    -> JoinPending
    [] p[1] = "surface" -> SurfPending(p[2])
    [] p[1] = "saver"   -> SavePending(p[2])

ChildrenFirst == Probes[Len(Probes) + 1 - scan.probe]
Probed == Probes[scan.probe]

ScanBegin(c) ==
  /\ scan.coil = None
  /\ scan' = [coil |-> c, probe |-> 1]
  /\ UNCHANGED <<events, stores, joinQ, surfQ, saveQ, join, surf, slot, saver>>

ScanProbe ==
  /\ scan.coil # None /\ scan.probe <= Len(Probes)
  /\ scan' = IF scan.coil \in PendingAt(Probed) THEN ScanIdle
             ELSE [scan EXCEPT !.probe = @ + 1]
  /\ UNCHANGED <<events, stores, joinQ, surfQ, saveQ, join, surf, slot, saver>>

\* ... and queues the coil when an output is missing whose input is complete.
NeedsWork(c) == \E s \in Surfaces : ~OutputComplete(s, c) /\ SourceComplete(s, c)
ScanDecide ==
  /\ scan.coil # None /\ scan.probe = Len(Probes) + 1
  /\ joinQ' = IF NeedsWork(scan.coil) /\ scan.coil \notin JoinPending
              THEN Append(joinQ, scan.coil) ELSE joinQ
  /\ scan' = ScanIdle
  /\ UNCHANGED <<events, stores, surfQ, saveQ, join, surf, slot, saver>>

\* add_work of a surface, for JoinWork or for /area/rejoin.
Submit(s, c, byJoin) ==
  surfQ' = [surfQ EXCEPT ![s] = Append(@, [coil |-> c, asked |-> byJoin])]

Rejoin(s, c) ==
  /\ "rejoin" \in events /\ c \notin SurfPending(s)
  /\ upsets < MaxUpset /\ upsets' = upsets + 1
  /\ Submit(s, c, FALSE)
  /\ UNCHANGED <<events, source, disk, defects, joinQ, saveQ, join, surf, slot,
                 saver, scan>>

-----------------------------------------------------------------------------
\* JoinWork.run
JoinGet ==
  /\ join.coil = None /\ joinQ # <<>>
  /\ join' = [JoinIdle EXCEPT !.coil = Head(joinQ)]
  /\ joinQ' = Tail(joinQ)
  /\ UNCHANGED <<events, stores, surfQ, saveQ, surf, slot, saver, scan>>

JoinSubmit ==
  /\ join.coil # None /\ join.next <= Len(SurfaceSeq)
  /\ LET s == SurfaceSeq[join.next]
         submit == /\ ~OutputComplete(s, join.coil) /\ SourceComplete(s, join.coil)
                   /\ join.coil \notin SurfPending(s)
     IN  IF submit
         THEN /\ Submit(s, join.coil, TRUE)
              /\ join' = [join EXCEPT !.next = @ + 1, !.waiting = @ \cup {s}]
         ELSE join' = [join EXCEPT !.next = @ + 1] /\ UNCHANGED surfQ
  /\ UNCHANGED <<events, stores, joinQ, saveQ, surf, slot, saver, scan>>

\* All answers are there, or SURFACE_RESULT_TIMEOUT has passed.
JoinFinish ==
  /\ join.coil # None /\ join.next > Len(SurfaceSeq)
  /\ join.waiting = {} \/ "joinTimeout" \in events
  /\ join' = JoinIdle
  /\ UNCHANGED <<events, stores, joinQ, surfQ, saveQ, surf, slot, saver, scan>>

Join == JoinGet \/ JoinSubmit \/ JoinFinish

-----------------------------------------------------------------------------
\* SurfaceWork.run.  To(s, pc) moves on; a `continue` or an exception goes to
\* the finally clause.
To(s, pc) == surf' = [surf EXCEPT ![s].pc = pc]

SurfGet(s) ==
  /\ surf[s].pc = "get" /\ surfQ[s] # <<>>
  /\ surf' = [surf EXCEPT ![s] =
       [SurfIdle EXCEPT !.pc = "acquire", !.coil = Head(surfQ[s]).coil,
                        !.asked = Head(surfQ[s]).asked]]
  /\ surfQ' = [surfQ EXCEPT ![s] = Tail(@)]
  /\ UNCHANGED <<events, stores, joinQ, saveQ, join, slot, saver, scan>>

SurfAcquire(s) ==
  /\ surf[s].pc = "acquire" /\ slot = None
  /\ slot' = s
  /\ LET c == surf[s].coil
     IN  IF SourceComplete(s, c)
         THEN surf' = [surf EXCEPT ![s] =
                         [@ EXCEPT !.snapshot = source[s][c], !.pc = "load"]]
         ELSE To(s, "finally")
  /\ UNCHANGED <<events, stores, joinQ, surfQ, saveQ, join, saver, scan>>

\* One camera after the other hands in its frames, or fails.
SurfLoad(s) ==
  /\ surf[s].pc = "load" /\ surf[s].loaded < Cameras
  /\ \/ surf' = [surf EXCEPT ![s] =
          [@ EXCEPT !.loaded = surf[s].loaded + 1,
                    !.image = surf[s].image \cup {source[s][surf[s].coil]}]]
     \/ "cameraFails" \in events /\ To(s, "finally")
  /\ UNCHANGED <<events, stores, joinQ, surfQ, saveQ, join, slot, saver, scan>>

InputUnchanged(s) == source[s][surf[s].coil] = surf[s].snapshot

SurfLoaded(s) ==
  /\ surf[s].pc = "load" /\ surf[s].loaded = Cameras
  /\ To(s, IF InputUnchanged(s) THEN "detect" ELSE "finally")
  /\ UNCHANGED <<events, stores, joinQ, surfQ, saveQ, join, slot, saver, scan>>

SurfDetect(s) ==
  /\ surf[s].pc = "detect"
  /\ \/ To(s, IF InputUnchanged(s) THEN "persist" ELSE "finally")
     \/ "detectFails" \in events /\ To(s, "finally")
  /\ UNCHANGED <<events, stores, joinQ, surfQ, saveQ, join, slot, saver, scan>>

\* replace_defects in one transaction.
SurfPersistSwallow(s) ==
  /\ surf[s].pc = "persist"
  /\ \/ defects' = [defects EXCEPT ![s][surf[s].coil] = surf[s].image]
     \/ "detectFails" \in events /\ UNCHANGED defects
  /\ To(s, "save")
  /\ UNCHANGED <<events, source, disk, upsets, joinQ, surfQ, saveQ, join, slot,
                 saver, scan>>
SurfPersist(s) ==
  /\ surf[s].pc = "persist"
  /\ \/ /\ defects' = [defects EXCEPT ![s][surf[s].coil] = surf[s].image]
        /\ To(s, "save")
     \/ "detectFails" \in events /\ To(s, "finally") /\ UNCHANGED defects
  /\ UNCHANGED <<events, source, disk, upsets, joinQ, surfQ, saveQ, join, slot,
                 saver, scan>>

\* save_wolk.add_work: refused for a coil the saver still has, or a full queue.
\* join_images gives no mask along when the join of the masks failed.
Masks == {m \in BOOLEAN : m \/ "maskFails" \in events}
SurfSave(s) ==
  /\ surf[s].pc = "save"
  /\ LET c == surf[s].coil
     IN  IF c \notin SavePending(s) /\ saveQ[s] = <<>>
         THEN /\ \E m \in Masks :
                   saveQ' = [saveQ EXCEPT ![s] = Append(@,
                               [coil |-> c, image |-> surf[s].image, masked |-> m])]
              /\ surf' = [surf EXCEPT ![s] = [@ EXCEPT !.pc = "wait", !.image = {}]]
         ELSE To(s, "finally") /\ UNCHANGED saveQ
  /\ UNCHANGED <<events, stores, joinQ, surfQ, join, slot, saver, scan>>

\* wait_for_completion
SurfWait(s) ==
  /\ surf[s].pc = "wait"
  /\ surf[s].coil \notin SavePending(s) \/ "saveTimeout" \in events
  /\ To(s, "finally")
  /\ UNCHANGED <<events, stores, joinQ, surfQ, saveQ, join, slot, saver, scan>>
\* finally: the answer reaches JoinWork if it still waits for it, the coil is no
\* longer pending, and the slot is given back.
SurfFinally(s) ==
  /\ surf[s].pc = "finally"
  /\ join' = IF surf[s].asked /\ surf[s].coil = join.coil
             THEN [join EXCEPT !.waiting = @ \ {s}] ELSE join
  /\ surf' = [surf EXCEPT ![s] = [SurfIdle EXCEPT !.pc = "release"]]
  /\ UNCHANGED <<events, stores, joinQ, surfQ, saveQ, slot, saver, scan>>

SurfKeep(s) ==
  /\ surf[s].pc = "release" /\ To(s, "get")
  /\ UNCHANGED <<events, stores, joinQ, surfQ, saveQ, join, slot, saver, scan>>
SurfRelease(s) ==
  /\ surf[s].pc = "release"
  /\ slot' = None
  /\ To(s, "get")
  /\ UNCHANGED <<events, stores, joinQ, surfQ, saveQ, join, saver, scan>>

Surface(s) ==
  \/ SurfGet(s) \/ SurfAcquire(s) \/ SurfLoad(s) \/ SurfLoaded(s) \/ SurfDetect(s)
  \/ SurfPersist(s) \/ SurfSave(s) \/ SurfWait(s) \/ SurfFinally(s) \/ SurfRelease(s)

-----------------------------------------------------------------------------
\* SaverWork.run
SaverGet(s) ==
  /\ saver[s].pc = "get" /\ saveQ[s] # <<>>
  /\ saver' = [saver EXCEPT ![s] =
       [pc |-> "begin", coil |-> Head(saveQ[s]).coil, image |-> Head(saveQ[s]).image,
        masked |-> Head(saveQ[s]).masked]]
  /\ saveQ' = [saveQ EXCEPT ![s] = Tail(@)]
  /\ UNCHANGED <<events, stores, joinQ, surfQ, join, surf, slot, scan>>

\* One file operation, after which the saver goes on at `to`; any may fail, which
\* leaves the files as they are.
FileStep(s, from, to, output) ==
  /\ saver[s].pc = from
  /\ \/ /\ disk' = [disk EXCEPT ![s][saver[s].coil] = output]
        /\ saver' = [saver EXCEPT ![s].pc = to]
     \/ /\ "saveFails" \in events
        /\ saver' = [saver EXCEPT ![s].pc = "finally"] /\ UNCHANGED disk
  /\ UNCHANGED <<events, source, defects, upsets, joinQ, surfQ, saveQ, join,
                 surf, slot, scan>>

Files(s) == disk[s][saver[s].coil]
SaverBegin(s) == FileStep(s, "begin", "mark", [Files(s) EXCEPT !.done = FALSE])
SaverSkipMark(s) == FileStep(s, "mark", "area", Files(s))
SaverMark(s) == FileStep(s, "mark", "area", [Files(s) EXCEPT !.prog = TRUE])
\* _save_area_image replaces the picture, then its tiles one by one, then its
\* preview; AREA_MASK only if there is a mask.
SaverArea(s) == FileStep(s, "area", "tiles", [Files(s) EXCEPT !.area = saver[s].image])
SaverTiles(s) ==
  FileStep(s, "tiles", "rest", [Files(s) EXCEPT !.rest = @ \cup saver[s].image])
SaverRest(s) ==
  FileStep(s, "rest", IF saver[s].masked THEN "mask" ELSE "complete",
           [Files(s) EXCEPT !.rest = saver[s].image])
SaverMask(s) ==
  FileStep(s, "mask", "maskRest", [Files(s) EXCEPT !.mask = @ \cup saver[s].image])
SaverMaskRest(s) ==
  FileStep(s, "maskRest", "complete", [Files(s) EXCEPT !.mask = saver[s].image])
SaverComplete(s) == FileStep(s, "complete", "clear", [Files(s) EXCEPT !.done = TRUE])
SaverClear(s) == FileStep(s, "clear", "finally", [Files(s) EXCEPT !.prog = FALSE])

SaverFinally(s) ==
  /\ saver[s].pc = "finally"
  /\ saver' = [saver EXCEPT ![s] = SaveIdle]
  /\ UNCHANGED <<events, stores, joinQ, surfQ, saveQ, join, surf, slot, scan>>

Saver(s) ==
  \/ SaverGet(s) \/ SaverBegin(s) \/ SaverMark(s) \/ SaverArea(s) \/ SaverTiles(s)
  \/ SaverRest(s) \/ SaverMask(s) \/ SaverMaskRest(s) \/ SaverComplete(s)
  \/ SaverClear(s) \/ SaverFinally(s)

\* The process ends anywhere and is started again.
Crash ==
  /\ "kill" \in events /\ upsets < MaxUpset
  /\ upsets' = upsets + 1
  /\ Fresh
  /\ UNCHANGED <<events, source, disk, defects>>

Next ==
  \/ \E s \in Surfaces, c \in Coils : Capture(s, c) \/ Rejoin(s, c)
  \/ (\E c \in Coils : ScanBegin(c)) \/ ScanProbe \/ ScanDecide
  \/ Join
  \/ \E s \in Surfaces : Surface(s) \/ Saver(s)
  \/ Crash

Spec == Init /\ [][Next]_vars

\* Threads run on; the scanner comes back to every coil of its window.
FairSpec ==
  /\ Spec
  /\ \A c \in Coils : SF_vars(ScanBegin(c))
  /\ WF_vars(ScanProbe) /\ WF_vars(ScanDecide) /\ WF_vars(Join)
  /\ \A s \in Surfaces : WF_vars(Saver(s)) /\ WF_vars(Surface(s))

-----------------------------------------------------------------------------
TypeOK ==
  /\ source \in [Surfaces -> [Coils -> Versions]]
  /\ disk \in [Surfaces -> [Coils ->
       [area : Image, rest : Image, mask : Image, done : BOOLEAN, prog : BOOLEAN]]]
  /\ defects \in [Surfaces -> [Coils -> Image]]
  /\ upsets \in 0..MaxUpset
  /\ joinQ \in Seq(Coils)
  /\ \A s \in Surfaces :
       /\ surfQ[s] \in Seq([coil : Coils, asked : BOOLEAN])
       /\ saveQ[s] \in Seq([coil : Coils, image : Image, masked : BOOLEAN])
       /\ Len(saveQ[s]) <= 1
  /\ join \in [coil : Coils \cup {None}, next : 1..(Len(SurfaceSeq) + 1),
               waiting : SUBSET Surfaces]
  /\ surf \in [Surfaces ->
       [pc : {"get", "acquire", "load", "detect", "persist", "save", "wait",
              "finally", "release"},
        coil : Coils \cup {None}, asked : BOOLEAN, snapshot : Versions,
        loaded : 0..Cameras, image : Image]]
  /\ saver \in [Surfaces ->
       [pc : {"get", "begin", "mark", "area", "tiles", "rest", "mask", "maskRest",
              "complete", "clear", "finally"},
        coil : Coils \cup {None}, image : Image, masked : BOOLEAN]]
  /\ slot \in Surfaces \cup {None}
  /\ scan \in [coil : Coils \cup {None}, probe : 1..(Len(Probes) + 1)]

\* An output the pipeline regards as complete is whole: its AREA picture shows one
\* state of the capture, however the frames changed while the cameras were read,
\* and its tiles and preview are those of this picture, wherever the process was
\* killed or a write failed (test_saver_leaves_partial_marker_when_post_area_save_fails).
\* So is its mask, unless a join of masks may fail: the code then finishes the
\* output without touching AREA_MASK, which may be missing or from an earlier run.
CompleteIsWhole ==
  \A s \in Surfaces, c \in Coils :
    OutputComplete(s, c) =>
      /\ disk[s][c].area = disk[s][c].rest
      /\ Cardinality(disk[s][c].area) = 1
      /\ "maskFails" \notin events => disk[s][c].mask = disk[s][c].area

\* The defects in the database are those of the picture shown with them, unless a
\* finished coil was joined again by hand.
DefectsMatchArea == "rejoin" \notin events =>
  \A s \in Surfaces, c \in Coils :
    OutputComplete(s, c) => defects[s][c] = disk[s][c].area

\* A coil the scanner found idle is in no worker's hands, although it asked them
\* one after the other while work moved between them, unless it was asked for.
ScanSawIdle ==
  "rejoin" \notin events /\ scan.coil # None /\ scan.probe = Len(Probes) + 1
    => \A i \in DOMAIN Probes : scan.coil \notin PendingAt(Probes[i])

\* SurfaceWork.py:261: "S and L each transiently own gigabytes of decoded and
\* joined image data.  Keep the complete surface lifecycle, including
\* asynchronous AREA saving, within one bounded memory slot."
Owns(s) == surf[s].image # {} \/ saveQ[s] # <<>> \/ saver[s].image # {}
OneMemorySlot == \A s, t \in Surfaces : Owns(s) /\ Owns(t) => s = t

\* Every coil with complete input gets its complete output in the end, also when
\* the process is killed at any point on the way, unless something fails again and
\* again.
Undisturbed == events \cap {"cameraFails", "detectFails", "saveFails"} = {}
EventuallyComplete ==
  \A s \in Surfaces, c \in Coils :
    SourceComplete(s, c) /\ Undisturbed ~> OutputComplete(s, c)

=============================================================================
