----------------------------- MODULE AreaProofs -----------------------------
(***************************************************************************)
(* The AREA pictures, how they are made and how they are served, for any   *)
(* surfaces, cameras, coils, versions and restarts (AreaPipeline) and any  *)
(* threads and keys (SingleFlight): an output that counts as complete is   *)
(* whole and shown with its own defects, a coil the scanner found idle is  *)
(* in no worker's hands, and concurrent misses of the cache lead to one    *)
(* load whose waiters are all woken.                                       *)
(***************************************************************************)
EXTENDS AreaPipeline, SingleFlight, QueueLemmas, TLAPS

-----------------------------------------------------------------------------
(* The states of the workers, and what each step does to them. *)

SurfPlaces == {"get", "acquire", "load", "detect", "persist", "save", "wait", "finally",
               "release"}
SavePlaces == {"get", "begin", "mark", "area", "tiles", "rest", "mask", "maskRest",
               "complete", "clear", "finally"}
SurfState == [pc : SurfPlaces, coil : Coils \cup {None}, asked : BOOLEAN,
              snapshot : Versions, loaded : 0..Cameras, image : Image]
SaveState == [pc : SavePlaces, coil : Coils \cup {None}, image : Image, masked : BOOLEAN]
Output    == [area : Image, rest : Image, mask : Image, done : BOOLEAN, prog : BOOLEAN]
JoinState == [coil : Coils \cup {None}, next : 1..(Len(SurfaceSeq) + 1),
              waiting : SUBSET Surfaces]
ScanState == [coil : Coils \cup {None}, probe : 1..(Len(Probes) + 1)]
SurfItem  == [coil : Coils, asked : BOOLEAN]
SaveItem  == [coil : Coils, image : Image, masked : BOOLEAN]

AreaTypes ==
  /\ source \in [Surfaces -> [Coils -> Versions]]
  /\ disk \in [Surfaces -> [Coils -> Output]]
  /\ defects \in [Surfaces -> [Coils -> Image]]
  /\ joinQ \in Seq(Coils)
  /\ surfQ \in [Surfaces -> Seq(SurfItem)]
  /\ saveQ \in [Surfaces -> Seq(SaveItem)]
  /\ join \in JoinState
  /\ surf \in [Surfaces -> SurfState]
  /\ saver \in [Surfaces -> SaveState]
  /\ scan \in ScanState

\* A surface at work has a coil.
AtWork ==
  /\ \A s \in Surfaces : surf[s].pc \notin {"get", "release"} => surf[s].coil \in Coils
  /\ \A s \in Surfaces : saver[s].pc # "get" => saver[s].coil \in Coils
Shape == AreaTypes /\ AtWork

\* The surfaces are those of the configuration, and the probes number them.
LEMMA Configured ==
  /\ Len(SurfaceSeq) \in Nat /\ DOMAIN SurfaceSeq = 1..Len(SurfaceSeq)
  /\ \A i \in 1..Len(SurfaceSeq) : SurfaceSeq[i] \in Surfaces
  /\ Len(Probes) = 1 + 2 * Len(SurfaceSeq)
  BY PipelineAssumption DEF Surfaces, Probes

\* The records the workers begin with.
LEMMA IdleRecords ==
  /\ SurfIdle \in SurfState /\ SurfIdle.pc = "get" /\ SurfIdle.coil = None
  /\ SurfIdle.loaded = 0 /\ SurfIdle.image = {}
  /\ SaveIdle \in SaveState /\ SaveIdle.pc = "get" /\ SaveIdle.coil = None
  /\ JoinIdle \in JoinState /\ JoinIdle.coil = None /\ JoinIdle.next = 1
  /\ ScanIdle \in ScanState /\ ScanIdle.coil = None /\ ScanIdle.probe = 1
  BY PipelineAssumption, Configured
     DEF SurfIdle, SurfState, SurfPlaces, SaveIdle, SaveState, SavePlaces, JoinIdle,
         JoinState, ScanIdle, ScanState, Versions, Image

\* What a step of a surface does to its record: it keeps its coil from SurfGet to
\* SurfFinally.
Moved(s) ==
  /\ surf' \in [Surfaces -> SurfState]
  /\ \A t \in Surfaces \ {s} : surf'[t] = surf[t]
Goes(s, places) ==
  /\ surf'[s].pc \in places /\ surf'[s].coil = surf[s].coil
  /\ surf'[s].image = surf[s].image

\* The record of one surface is replaced.
LEMMA SurfaceSet ==
  ASSUME Shape, NEW s \in Surfaces, NEW r \in SurfState, surf' = [surf EXCEPT ![s] = r]
  PROVE  Moved(s) /\ surf'[s] = r
  BY DEF Shape, AreaTypes, Moved

\* A surface moves on to another place.
LEMMA SurfaceTo ==
  ASSUME Shape, NEW s \in Surfaces, NEW l \in SurfPlaces, To(s, l)
  PROVE  Moved(s) /\ Goes(s, {l}) /\ surf'[s].snapshot = surf[s].snapshot
  BY DEF Shape, AreaTypes, To, SurfState, Moved, Goes

\* SurfGet: the record of the new coil.
LEMMA SurfaceGets ==
  ASSUME Shape, NEW s \in Surfaces, SurfGet(s)
  PROVE  /\ Moved(s) /\ surfQ[s] # <<>> /\ surf[s].pc = "get"
         /\ surf'[s].pc = "acquire" /\ surf'[s].coil = Head(surfQ[s]).coil
         /\ surf'[s].loaded = 0 /\ surf'[s].image = {} /\ surf'[s].coil \in Coils
<1>1. Head(surfQ[s]) \in SurfItem /\ surfQ[s] # <<>> /\ surf[s].pc = "get"
  BY GetFacts DEF SurfGet, Shape, AreaTypes
<1> DEFINE r == [SurfIdle EXCEPT !.pc = "acquire", !.coil = Head(surfQ[s]).coil,
                                 !.asked = Head(surfQ[s]).asked]
<1>2. /\ r \in SurfState /\ r.pc = "acquire" /\ r.coil = Head(surfQ[s]).coil
      /\ r.loaded = 0 /\ r.image = {} /\ r.coil \in Coils
  BY <1>1, IdleRecords DEF SurfState, SurfItem, SurfPlaces
<1>3. surf' = [surf EXCEPT ![s] = r]
  BY DEF SurfGet
<1> HIDE DEF r
<1> QED
  BY <1>1, <1>2, <1>3, SurfaceSet

\* SurfAcquire: the snapshot is taken, or the coil is given up.
LEMMA SurfaceAcquires ==
  ASSUME Shape, NEW s \in Surfaces, SurfAcquire(s), surf[s].coil \in Coils
  PROVE  /\ Moved(s) /\ Goes(s, {"load", "finally"}) /\ surf'[s].loaded = surf[s].loaded
         /\ surf'[s].pc = "load" => surf'[s].snapshot = source[s][surf[s].coil]
<1> DEFINE r == [surf[s] EXCEPT !.snapshot = source[s][surf[s].coil], !.pc = "load"]
<1>1. surf[s] \in SurfState /\ source[s][surf[s].coil] \in Versions
  BY DEF Shape, AreaTypes
<1>2. /\ r \in SurfState /\ r.pc = "load" /\ r.coil = surf[s].coil /\ r.loaded = surf[s].loaded
      /\ r.image = surf[s].image /\ r.snapshot = source[s][surf[s].coil]
  BY <1>1 DEF SurfState, SurfPlaces
<1>3. CASE surf' = [surf EXCEPT ![s] = r]
  <2> HIDE DEF r
  <2> QED
    BY <1>2, <1>3, SurfaceSet DEF Goes
<1>4. CASE To(s, "finally")
  <2>1. surf' = [surf EXCEPT ![s] = [surf[s] EXCEPT !.pc = "finally"]]
    BY <1>4 DEF To
  <2>2. [surf[s] EXCEPT !.pc = "finally"].loaded = surf[s].loaded
    BY <1>1 DEF SurfState
  <2>3. surf'[s].loaded = surf[s].loaded
    BY <2>1, <2>2 DEF Shape, AreaTypes
  <2> QED
    BY <1>4, <2>3, SurfaceTo DEF SurfPlaces, Goes
<1> QED
  BY <1>3, <1>4 DEF SurfAcquire

\* SurfLoad: the present version joins the picture, or the coil is given up.
LEMMA SurfaceLoads ==
  ASSUME Shape, NEW s \in Surfaces, SurfLoad(s), surf[s].coil \in Coils
  PROVE  /\ Moved(s) /\ surf'[s].coil = surf[s].coil /\ surf[s].pc = "load"
         /\ \/ surf'[s].pc = "finally"
            \/ /\ surf'[s].pc = "load" /\ surf'[s].snapshot = surf[s].snapshot
               /\ surf'[s].image = surf[s].image \cup {source[s][surf[s].coil]}
<1> DEFINE v == source[s][surf[s].coil]
           r == [surf[s] EXCEPT !.loaded = surf[s].loaded + 1, !.image = surf[s].image \cup {v}]
<1>1. surf[s] \in SurfState /\ v \in Versions
  BY DEF Shape, AreaTypes
<1>2. CASE surf[s].loaded < Cameras /\ surf' = [surf EXCEPT ![s] = r]
  <2> HIDE DEF v
  <2>1. surf[s].loaded + 1 \in 0..Cameras /\ surf[s].image \cup {v} \in Image
    BY <1>1, <1>2, PipelineAssumption DEF SurfState, Image
  <2>2. ASSUME NEW a \in 0..Cameras, NEW b \in Image,
               surf' = [surf EXCEPT ![s] = [surf[s] EXCEPT !.loaded = a, !.image = b]]
        PROVE  /\ Moved(s) /\ surf'[s].coil = surf[s].coil /\ surf'[s].image = b
               /\ surf'[s].pc = surf[s].pc /\ surf'[s].snapshot = surf[s].snapshot
    <3> DEFINE q == [surf[s] EXCEPT !.loaded = a, !.image = b]
    <3>1. /\ q \in SurfState /\ q.coil = surf[s].coil /\ q.image = b /\ q.pc = surf[s].pc
          /\ q.snapshot = surf[s].snapshot
      BY <1>1 DEF SurfState
    <3>2. surf' = [surf EXCEPT ![s] = q]
      BY <2>2
    <3> HIDE DEF q
    <3> QED
      BY <3>1, <3>2, SurfaceSet
  <2>3. surf' = [surf EXCEPT ![s] = [surf[s] EXCEPT !.loaded = surf[s].loaded + 1,
                                                    !.image = surf[s].image \cup {v}]]
    BY <1>2
  <2>4. surf[s].pc = "load"
    BY DEF SurfLoad
  <2> QED
    BY <2>1, <2>2, <2>3, <2>4 DEF v
<1>3. CASE To(s, "finally")
  BY <1>3, SurfaceTo DEF SurfPlaces, Goes, SurfLoad
<1>4. surf[s].loaded < Cameras /\ (surf' = [surf EXCEPT ![s] = r] \/ To(s, "finally"))
  BY DEF SurfLoad
<1> HIDE DEF r, v
<1> QED
  BY <1>2, <1>3, <1>4

\* What a surface hands to its saver, with or without a mask.
Picture(s, m) == [coil |-> surf[s].coil, image |-> surf[s].image, masked |-> m]

\* SurfSave: the saver gets coil and picture, or the coil is given up.
LEMMA SurfaceHandsOver ==
  ASSUME Shape, NEW s \in Surfaces, SurfSave(s), surf[s].coil \in Coils
  PROVE  /\ Moved(s) /\ surf'[s].coil = surf[s].coil /\ surf[s].pc = "save"
         /\ \/ /\ surf'[s].pc = "wait" /\ surf[s].coil \notin SavePending(s) /\ saveQ[s] = <<>>
               /\ \E m \in Masks : /\ saveQ' = [saveQ EXCEPT ![s] = <<Picture(s, m)>>]
                                   /\ Picture(s, m) \in SaveItem
            \/ surf'[s].pc = "finally" /\ UNCHANGED saveQ
<1>1. surf[s] \in SurfState
  BY DEF Shape, AreaTypes
<1>2. CASE /\ surf[s].coil \notin SavePending(s) /\ saveQ[s] = <<>>
           /\ \E m \in Masks : saveQ' = [saveQ EXCEPT ![s] = Append(@, Picture(s, m))]
           /\ surf' = [surf EXCEPT ![s] = [@ EXCEPT !.pc = "wait", !.image = {}]]
  <2>0. PICK m \in Masks : saveQ' = [saveQ EXCEPT ![s] = Append(@, Picture(s, m))]
    BY <1>2
  <2> DEFINE i == Picture(s, m)
             r == [surf[s] EXCEPT !.pc = "wait", !.image = {}]
  <2>1. r \in SurfState /\ r.pc = "wait" /\ r.coil = surf[s].coil
    BY <1>1 DEF SurfState, SurfPlaces, Image
  <2>2. i \in SaveItem
    BY <1>1 DEF SurfState, SaveItem, Masks, Picture
  <2>3. surf' = [surf EXCEPT ![s] = r] /\ saveQ' = [saveQ EXCEPT ![s] = Append(<<>>, i)]
    BY <1>2, <2>0
  <2>4. Append(<<>>, i) = <<i>>
    OBVIOUS
  <2>5. surf[s].pc = "save"
    BY DEF SurfSave
  <2>6. Moved(s) /\ surf'[s] = r
    <3> HIDE DEF r
    <3> QED
      BY <2>1, <2>3, SurfaceSet
  <2> QED
    BY <1>2, <2>1, <2>2, <2>3, <2>4, <2>5, <2>6
<1>3. CASE To(s, "finally") /\ UNCHANGED saveQ
  BY <1>3, SurfaceTo DEF SurfPlaces, Goes, SurfSave
<1> QED
  BY <1>2, <1>3 DEF SurfSave, Picture

\* SurfFinally: the coil is no longer pending.
LEMMA SurfaceEnds ==
  ASSUME Shape, NEW s \in Surfaces, SurfFinally(s)
  PROVE  /\ Moved(s) /\ surf'[s].pc = "release" /\ surf'[s].coil = None
         /\ join' \in JoinState /\ join'.coil = join.coil /\ join'.next = join.next
<1>1. surf' = [surf EXCEPT ![s] = [SurfIdle EXCEPT !.pc = "release"]]
  BY DEF SurfFinally
<1>2. LET r == [SurfIdle EXCEPT !.pc = "release"]
      IN  r \in SurfState /\ r.pc = "release" /\ r.coil = None
  BY IdleRecords DEF SurfState, SurfPlaces
<1>3. join \in JoinState /\ join.waiting \ {s} \in SUBSET Surfaces
  BY DEF Shape, AreaTypes, JoinState
<1>4. join' \in JoinState /\ join'.coil = join.coil /\ join'.next = join.next
  <2>1. CASE join' = join
    BY <1>3, <2>1
  <2>2. CASE join' = [join EXCEPT !.waiting = join.waiting \ {s}]
    BY <1>3, <2>2 DEF JoinState
  <2> QED
    BY <2>1, <2>2 DEF SurfFinally
<1> QED
  BY <1>1, <1>2, <1>4, SurfaceSet

\* The steps in between: SurfLoaded, SurfDetect, SurfPersist, SurfWait, SurfRelease.
LEMMA SurfaceGoes ==
  ASSUME Shape, NEW s \in Surfaces
  PROVE  /\ SurfLoaded(s) =>
              Moved(s) /\ Goes(s, IF InputUnchanged(s) THEN {"detect"} ELSE {"finally"})
         /\ SurfDetect(s) => Moved(s) /\ Goes(s, {"persist", "finally"})
         /\ SurfPersist(s) => Moved(s) /\ Goes(s, {"save", "finally"})
         /\ SurfWait(s) => Moved(s) /\ Goes(s, {"finally"})
         /\ SurfRelease(s) => Moved(s) /\ Goes(s, {"get"})
  BY SurfaceTo DEF SurfPlaces, Goes, SurfLoaded, SurfDetect, SurfPersist, SurfWait, SurfRelease

\* What a step of a saver does.
SaverMoved(s) ==
  /\ saver' \in [Surfaces -> SaveState]
  /\ \A t \in Surfaces \ {s} : saver'[t] = saver[t]

\* A saver takes the next picture, and with it the coil it is of.
LEMMA SaverGets ==
  ASSUME Shape, NEW s \in Surfaces, SaverGet(s)
  PROVE  /\ SaverMoved(s) /\ saver'[s].pc = "begin" /\ saver'[s].coil = Head(saveQ[s]).coil
         /\ saver'[s].image = Head(saveQ[s]).image /\ saver'[s].coil \in Coils
         /\ saver'[s].masked = Head(saveQ[s]).masked
<1>1. Head(saveQ[s]) \in SaveItem
  BY GetFacts DEF SaverGet, Shape, AreaTypes
<1>2. [pc |-> "begin", coil |-> Head(saveQ[s]).coil, image |-> Head(saveQ[s]).image,
       masked |-> Head(saveQ[s]).masked] \in SaveState
  BY <1>1 DEF SaveItem, SaveState, SavePlaces
<1> QED
  BY <1>1, <1>2 DEF SaverGet, SaverMoved, Shape, AreaTypes, SaveItem

\* SaverFinally: the coil is no longer pending.
LEMMA SaverEnds ==
  ASSUME Shape, NEW s \in Surfaces, SaverFinally(s)
  PROVE  SaverMoved(s) /\ saver'[s].pc = "get" /\ saver'[s].coil = None
  BY IdleRecords DEF SaverFinally, SaverMoved, Shape, AreaTypes

\* A file operation writes its output or, with all that follow, nothing.
LEMMA FileMoves ==
  ASSUME Shape, NEW s \in Surfaces, NEW from, NEW to \in SavePlaces, NEW o \in Output,
         FileStep(s, from, to, o), saver[s].coil \in Coils
  PROVE  /\ SaverMoved(s) /\ saver[s].pc = from
         /\ saver'[s].coil = saver[s].coil /\ saver'[s].image = saver[s].image
         /\ saver'[s].masked = saver[s].masked
         /\ \A t \in Surfaces, c \in Coils :
              <<t, c>> # <<s, saver[s].coil>> => disk'[t][c] = disk[t][c]
         /\ disk' \in [Surfaces -> [Coils -> Output]]
         /\ \/ saver'[s].pc = to /\ Files(s)' = o
            \/ saver'[s].pc = "finally" /\ UNCHANGED disk
<1>1. ASSUME NEW l \in SavePlaces, saver' = [saver EXCEPT ![s].pc = l]
      PROVE  /\ SaverMoved(s) /\ saver'[s].coil = saver[s].coil /\ saver'[s].pc = l
             /\ saver'[s].image = saver[s].image /\ saver'[s].masked = saver[s].masked
  BY <1>1 DEF Shape, AreaTypes, SaverMoved, SaveState
<1>2. CASE /\ disk' = [disk EXCEPT ![s][saver[s].coil] = o]
           /\ saver' = [saver EXCEPT ![s].pc = to]
  <2>1. disk'[s][saver[s].coil] = o /\ disk' \in [Surfaces -> [Coils -> Output]]
    BY <1>2 DEF Shape, AreaTypes
  <2>2. \A t \in Surfaces, c \in Coils :
           <<t, c>> # <<s, saver[s].coil>> => disk'[t][c] = disk[t][c]
    BY <1>2 DEF Shape, AreaTypes
  <2>3. Files(s)' = o
    BY <1>1, <1>2, <2>1 DEF Files
  <2> QED
    BY <1>1, <1>2, <2>1, <2>2, <2>3 DEF FileStep
<1>3. CASE saver' = [saver EXCEPT ![s].pc = "finally"] /\ UNCHANGED disk
  BY <1>1, <1>3 DEF FileStep, SavePlaces, Shape, AreaTypes
<1> QED
  BY <1>2, <1>3 DEF FileStep

\* What the steps of the queues' users do.
LEMMA Submits ==
  ASSUME Shape, NEW s \in Surfaces, NEW c \in Coils, NEW a \in BOOLEAN, Submit(s, c, a)
  PROVE  /\ surfQ' \in [Surfaces -> Seq(SurfItem)]
         /\ surfQ'[s] = Append(surfQ[s], [coil |-> c, asked |-> a])
         /\ [coil |-> c, asked |-> a] \in SurfItem
         /\ \A t \in Surfaces \ {s} : surfQ'[t] = surfQ[t]
<1> DEFINE i == [coil |-> c, asked |-> a]
<1>1. i \in SurfItem
  BY DEF SurfItem
<1>2. surfQ \in [Surfaces -> Seq(SurfItem)]
  BY DEF Shape, AreaTypes
<1>3. surfQ' = [surfQ EXCEPT ![s] = Append(surfQ[s], i)]
  BY DEF Submit
<1> HIDE DEF i
<1>4. Append(surfQ[s], i) \in Seq(SurfItem)
  BY <1>1, <1>2, PutFacts
<1>5. /\ surfQ' \in [Surfaces -> Seq(SurfItem)] /\ surfQ'[s] = Append(surfQ[s], i)
      /\ \A t \in Surfaces \ {s} : surfQ'[t] = surfQ[t]
  BY <1>2, <1>3, <1>4
<1> QED
  BY <1>1, <1>5 DEF i

\* JoinGet: the coil at the front is taken.
LEMMA JoinGets ==
  ASSUME Shape, JoinGet
  PROVE  /\ join' \in JoinState /\ join'.coil = Head(joinQ) /\ join'.next = 1
         /\ joinQ' \in Seq(Coils) /\ join'.coil \in Coils
<1>1. Head(joinQ) \in Coils /\ Tail(joinQ) \in Seq(Coils)
  BY GetFacts DEF JoinGet, Shape, AreaTypes
<1> QED
  BY <1>1, IdleRecords DEF JoinGet, JoinState

\* JoinSubmit: the next surface gets the coil, or is skipped.
LEMMA JoinSubmits ==
  ASSUME Shape, JoinSubmit
  PROVE  /\ join.next \in 1..Len(SurfaceSeq) /\ join.coil \in Coils
         /\ join' \in JoinState /\ join'.coil = join.coil /\ join'.next = join.next + 1
         /\ LET s == SurfaceSeq[join.next]
            IN  \/ /\ Submit(s, join.coil, TRUE) /\ join.coil \notin SurfPending(s)
                   /\ ~OutputComplete(s, join.coil)
                \/ UNCHANGED surfQ
<1>1. join \in JoinState
  BY DEF Shape, AreaTypes
<1>2. join.next \in 1..Len(SurfaceSeq) /\ join.coil \in Coils
  BY <1>1, Configured DEF JoinSubmit, JoinState
<1>3. SurfaceSeq[join.next] \in Surfaces
  BY <1>2, Configured
<1>4. ASSUME NEW n \in 1..(Len(SurfaceSeq) + 1), NEW w \in SUBSET Surfaces,
             join' = [join EXCEPT !.next = n, !.waiting = w]
      PROVE  join' \in JoinState /\ join'.coil = join.coil /\ join'.next = n
  BY <1>1, <1>4 DEF JoinState
<1>5. ASSUME NEW n \in 1..(Len(SurfaceSeq) + 1), join' = [join EXCEPT !.next = n]
      PROVE  join' \in JoinState /\ join'.coil = join.coil /\ join'.next = n
  BY <1>1, <1>5 DEF JoinState
<1>6. join.next + 1 \in 1..(Len(SurfaceSeq) + 1)
  BY <1>2, Configured
<1>7. join.waiting \cup {SurfaceSeq[join.next]} \in SUBSET Surfaces
  BY <1>1, <1>3 DEF JoinState
<1>8. \/ /\ Submit(SurfaceSeq[join.next], join.coil, TRUE)
         /\ join.coil \notin SurfPending(SurfaceSeq[join.next])
         /\ ~OutputComplete(SurfaceSeq[join.next], join.coil)
         /\ join' = [join EXCEPT !.next = join.next + 1,
                                 !.waiting = join.waiting \cup {SurfaceSeq[join.next]}]
      \/ UNCHANGED surfQ /\ join' = [join EXCEPT !.next = join.next + 1]
  BY DEF JoinSubmit
<1>9. join' \in JoinState /\ join'.coil = join.coil /\ join'.next = join.next + 1
  <2>1. CASE join' = [join EXCEPT !.next = join.next + 1,
                                  !.waiting = join.waiting \cup {SurfaceSeq[join.next]}]
    BY <2>1, <1>4, <1>6, <1>7
  <2>2. CASE join' = [join EXCEPT !.next = join.next + 1]
    BY <2>2, <1>5, <1>6
  <2> QED
    BY <2>1, <2>2, <1>8
<1> QED
  BY <1>2, <1>8, <1>9

\* ScanProbe: one more place does not have the coil, or the scan ends.
LEMMA ScanProbes ==
  ASSUME Shape, ScanProbe
  PROVE  /\ scan' \in ScanState /\ scan.probe \in 1..Len(Probes) /\ scan.coil \in Coils
         /\ \/ scan'.coil = None
            \/ /\ scan'.coil = scan.coil /\ scan'.probe = scan.probe + 1
               /\ scan.coil \notin PendingAt(Probed)
<1>1. scan \in ScanState
  BY DEF Shape, AreaTypes
<1>2. Len(Probes) \in Nat
  BY Configured
<1>3. scan.probe \in 1..Len(Probes) /\ scan.coil \in Coils
  BY <1>1, <1>2 DEF ScanProbe, ScanState
<1>4. CASE scan' = ScanIdle
  BY <1>3, <1>4, IdleRecords
<1>5. CASE scan' = [scan EXCEPT !.probe = scan.probe + 1] /\ scan.coil \notin PendingAt(Probed)
  BY <1>1, <1>2, <1>3, <1>5 DEF ScanState
<1> QED
  BY <1>4, <1>5 DEF ScanProbe

\* ScanBegin: nothing asked yet.
LEMMA ScanBegins ==
  ASSUME Shape, NEW c \in Coils, ScanBegin(c)
  PROVE  scan' \in ScanState /\ scan'.coil = c /\ scan'.probe = 1
  BY Configured DEF ScanBegin, ScanState

\* ScanDecide: JoinWork gets the coil, or nothing happens.
LEMMA ScanDecides ==
  ASSUME Shape, ScanDecide
  PROVE  /\ scan' = ScanIdle /\ scan.coil \in Coils /\ scan.probe = Len(Probes) + 1
         /\ joinQ' \in Seq(Coils)
         /\ \/ joinQ' = Append(joinQ, scan.coil) /\ scan.coil \notin JoinPending
            \/ joinQ' = joinQ
<1>1. joinQ \in Seq(Coils) /\ scan \in ScanState
  BY DEF Shape, AreaTypes
<1>2. scan.coil \in Coils
  BY <1>1 DEF ScanDecide, ScanState
<1>3. Append(joinQ, scan.coil) \in Seq(Coils)
  BY <1>1, <1>2, PutFacts
<1> QED
  BY <1>1, <1>2, <1>3 DEF ScanDecide

\* SurfGet and SaverGet take the front of their queues.
LEMMA SurfQGets ==
  ASSUME Shape, NEW s \in Surfaces, SurfGet(s)
  PROVE  /\ surfQ' \in [Surfaces -> Seq(SurfItem)] /\ surfQ'[s] = Tail(surfQ[s])
         /\ \A t \in Surfaces \ {s} : surfQ'[t] = surfQ[t]
<1>1. Tail(surfQ[s]) \in Seq(SurfItem)
  BY GetFacts DEF SurfGet, Shape, AreaTypes
<1> QED
  BY <1>1 DEF SurfGet, Shape, AreaTypes

\* Its queue is then one item shorter.
LEMMA SaveQGets ==
  ASSUME Shape, NEW s \in Surfaces, SaverGet(s)
  PROVE  /\ saveQ' \in [Surfaces -> Seq(SaveItem)] /\ saveQ'[s] = Tail(saveQ[s])
         /\ \A t \in Surfaces \ {s} : saveQ'[t] = saveQ[t]
<1>1. Tail(saveQ[s]) \in Seq(SaveItem)
  BY GetFacts DEF SaverGet, Shape, AreaTypes
<1> QED
  BY <1>1 DEF SaverGet, Shape, AreaTypes

\* SurfPersist: the defects of its coil become those of its picture.
LEMMA Persists ==
  ASSUME Shape, NEW s \in Surfaces, SurfPersist(s), surf[s].coil \in Coils
  PROVE  /\ defects' \in [Surfaces -> [Coils -> Image]]
         /\ surf'[s].pc = "save" => defects'[s][surf[s].coil] = surf[s].image
         /\ \A t \in Surfaces, c \in Coils :
              <<t, c>> # <<s, surf[s].coil>> => defects'[t][c] = defects[t][c]
<1>1. surf[s] \in SurfState /\ surf[s].image \in Image
  BY DEF Shape, AreaTypes, SurfState
<1>2. CASE defects' = [defects EXCEPT ![s][surf[s].coil] = surf[s].image]
  BY <1>1, <1>2 DEF Shape, AreaTypes
<1>3. CASE UNCHANGED defects /\ To(s, "finally")
  BY <1>3, SurfaceTo DEF Shape, AreaTypes, SurfPlaces, Goes
<1> QED
  BY <1>2, <1>3 DEF SurfPersist

\* A file operation writes one file or marker.
Writes(s, from, to, o) ==
  \/ from = "begin"    /\ to = "mark"     /\ o = [Files(s) EXCEPT !.done = FALSE]
  \/ from = "mark"     /\ to = "area"     /\ o = [Files(s) EXCEPT !.prog = TRUE]
  \/ from = "area"     /\ to = "tiles"    /\ o = [Files(s) EXCEPT !.area = saver[s].image]
  \/ from = "tiles"    /\ to = "rest"     /\ o = [Files(s) EXCEPT !.rest = @ \cup saver[s].image]
  \/ /\ from = "rest"  /\ to = (IF saver[s].masked THEN "mask" ELSE "complete")
     /\ o = [Files(s) EXCEPT !.rest = saver[s].image]
  \/ from = "mask"     /\ to = "maskRest" /\ o = [Files(s) EXCEPT !.mask = @ \cup saver[s].image]
  \/ from = "maskRest" /\ to = "complete" /\ o = [Files(s) EXCEPT !.mask = saver[s].image]
  \/ from = "complete" /\ to = "clear"    /\ o = [Files(s) EXCEPT !.done = TRUE]
  \/ from = "clear"    /\ to = "finally"  /\ o = [Files(s) EXCEPT !.prog = FALSE]

FileOps(s) == SaverBegin(s) \/ SaverMark(s) \/ SaverArea(s) \/ SaverTiles(s)
              \/ SaverRest(s) \/ SaverMask(s) \/ SaverMaskRest(s)
              \/ SaverComplete(s) \/ SaverClear(s)

\* Every file operation of a saver, for its own coil.
LEMMA FileOp ==
  ASSUME Shape, NEW s \in Surfaces, FileOps(s)
  PROVE  /\ SaverMoved(s) /\ saver[s].coil \in Coils
         /\ saver'[s].coil = saver[s].coil /\ saver'[s].image = saver[s].image
         /\ saver'[s].masked = saver[s].masked
         /\ saver[s].pc \notin {"get", "finally"}
         /\ \A t \in Surfaces, c \in Coils :
              <<t, c>> # <<s, saver[s].coil>> => disk'[t][c] = disk[t][c]
         /\ disk' \in [Surfaces -> [Coils -> Output]] /\ Files(s) \in Output
         /\ \/ Writes(s, saver[s].pc, saver'[s].pc, Files(s)')
            \/ saver'[s].pc = "finally" /\ UNCHANGED disk
         /\ UNCHANGED <<events, source, defects, upsets, joinQ, surfQ, saveQ, join, surf,
                        slot, scan>>
<1> DEFINE others == <<events, source, defects, upsets, joinQ, surfQ, saveQ, join, surf,
                       slot, scan>>
<1>a. PICK from \in SavePlaces, to \in SavePlaces :
        \E o : FileStep(s, from, to, o) /\ Writes(s, from, to, o)
  <2>1. CASE SaverBegin(s)
    BY <2>1 DEF SaverBegin, Writes, SavePlaces
  <2>2. CASE SaverMark(s)
    BY <2>2 DEF SaverMark, Writes, SavePlaces
  <2>3. CASE SaverArea(s)
    BY <2>3 DEF SaverArea, Writes, SavePlaces
  <2>4. CASE SaverRest(s)
    BY <2>4 DEF SaverRest, Writes, SavePlaces
  <2>7. CASE SaverTiles(s)
    BY <2>7 DEF SaverTiles, Writes, SavePlaces
  <2>8. CASE SaverMask(s)
    BY <2>8 DEF SaverMask, Writes, SavePlaces
  <2>9. CASE SaverMaskRest(s)
    BY <2>9 DEF SaverMaskRest, Writes, SavePlaces
  <2>5. CASE SaverComplete(s)
    BY <2>5 DEF SaverComplete, Writes, SavePlaces
  <2>6. CASE SaverClear(s)
    BY <2>6 DEF SaverClear, Writes, SavePlaces
  <2> QED
    BY <2>1, <2>2, <2>3, <2>4, <2>5, <2>6, <2>7, <2>8, <2>9 DEF FileOps
<1>0. PICK o : FileStep(s, from, to, o) /\ Writes(s, from, to, o)
  BY <1>a
<1>1. saver[s].pc = from /\ UNCHANGED others /\ from \notin {"get", "finally"}
  BY <1>0 DEF FileStep, Writes
<1>2. saver[s].coil \in Coils /\ saver[s] \in SaveState
  BY <1>1 DEF Shape, AtWork, AreaTypes
<1>3. Files(s) \in Output /\ saver[s].image \in Image
  BY <1>2 DEF Files, Shape, AreaTypes, SaveState
<1>4. /\ [Files(s) EXCEPT !.done = FALSE] \in Output /\ [Files(s) EXCEPT !.prog = TRUE] \in Output
      /\ [Files(s) EXCEPT !.area = saver[s].image] \in Output
      /\ [Files(s) EXCEPT !.rest = saver[s].image] \in Output
      /\ [Files(s) EXCEPT !.rest = @ \cup saver[s].image] \in Output
      /\ [Files(s) EXCEPT !.mask = saver[s].image] \in Output
      /\ [Files(s) EXCEPT !.mask = @ \cup saver[s].image] \in Output
      /\ [Files(s) EXCEPT !.done = TRUE] \in Output /\ [Files(s) EXCEPT !.prog = FALSE] \in Output
  BY <1>3 DEF Output, Image
<1>5. o \in Output
  BY <1>0, <1>4 DEF Writes
<1>6. /\ SaverMoved(s)
      /\ saver'[s].coil = saver[s].coil /\ saver'[s].image = saver[s].image
      /\ saver'[s].masked = saver[s].masked
      /\ \A t \in Surfaces, c \in Coils :
           <<t, c>> # <<s, saver[s].coil>> => disk'[t][c] = disk[t][c]
      /\ disk' \in [Surfaces -> [Coils -> Output]]
      /\ \/ saver'[s].pc = to /\ Files(s)' = o
         \/ saver'[s].pc = "finally" /\ UNCHANGED disk
  BY <1>0, <1>2, <1>5, FileMoves
<1>7. \/ Writes(s, saver[s].pc, saver'[s].pc, Files(s)')
      \/ saver'[s].pc = "finally" /\ UNCHANGED disk
  BY <1>0, <1>1, <1>6
<1> QED
  BY <1>1, <1>2, <1>3, <1>6, <1>7

\* What a step of a surface leaves alone, and the types of the rest.
LEMMA SurfaceMoves ==
  ASSUME Shape, NEW s \in Surfaces, Surface(s)
  PROVE  /\ Moved(s) /\ UNCHANGED <<events, source, disk, joinQ, saver, scan>>
         /\ surf'[s].pc \notin {"get", "release"} => surf'[s].coil \in Coils
         /\ surfQ' \in [Surfaces -> Seq(SurfItem)]
         /\ saveQ' \in [Surfaces -> Seq(SaveItem)]
         /\ join' \in JoinState /\ join'.coil = join.coil /\ join'.next = join.next
         /\ defects' \in [Surfaces -> [Coils -> Image]]
<1> USE DEF stores
<1>1. surf[s].pc \notin {"get", "release"} => surf[s].coil \in Coils
  BY DEF Shape, AtWork
<1>2. /\ surfQ \in [Surfaces -> Seq(SurfItem)]
      /\ saveQ \in [Surfaces -> Seq(SaveItem)]
      /\ join \in JoinState
      /\ defects \in [Surfaces -> [Coils -> Image]]
  BY DEF Shape, AreaTypes
<1>3. CASE SurfGet(s)
  BY <1>2, <1>3, SurfaceGets, SurfQGets DEF SurfGet
<1>4. CASE SurfAcquire(s)
  BY <1>1, <1>2, <1>4, SurfaceAcquires DEF SurfAcquire, Goes
<1>5. CASE SurfLoad(s)
  BY <1>1, <1>2, <1>5, SurfaceLoads DEF SurfLoad
<1>6. CASE SurfLoaded(s)
  BY <1>1, <1>2, <1>6, SurfaceGoes DEF SurfLoaded, Goes
<1>7. CASE SurfDetect(s)
  BY <1>1, <1>2, <1>7, SurfaceGoes DEF SurfDetect, Goes
<1>8. CASE SurfPersist(s)
  BY <1>1, <1>2, <1>8, SurfaceGoes, Persists DEF SurfPersist, Goes
<1>9. CASE SurfSave(s)
  <2>1. surf[s].coil \in Coils
    BY <1>1, <1>9 DEF SurfSave
  <2>2. saveQ' \in [Surfaces -> Seq(SaveItem)]
    <3>1. ASSUME NEW i \in SaveItem, saveQ' = [saveQ EXCEPT ![s] = <<i>>]
          PROVE  saveQ' \in [Surfaces -> Seq(SaveItem)]
      BY <3>1, <1>2
    <3>2. (\E i \in SaveItem : saveQ' = [saveQ EXCEPT ![s] = <<i>>]) \/ UNCHANGED saveQ
      BY <1>9, <2>1, SurfaceHandsOver
    <3> QED
      BY <1>2, <3>1, <3>2
  <2> QED
    BY <1>2, <1>9, <2>1, <2>2, SurfaceHandsOver DEF SurfSave
<1>10. CASE SurfWait(s)
  BY <1>1, <1>2, <1>10, SurfaceGoes DEF SurfWait, Goes
<1>11. CASE SurfFinally(s)
  BY <1>2, <1>11, SurfaceEnds DEF SurfFinally
<1>12. CASE SurfRelease(s)
  BY <1>2, <1>12, SurfaceGoes DEF SurfRelease, Goes
<1> QED
  BY <1>3, <1>4, <1>5, <1>6, <1>7, <1>8, <1>9, <1>10, <1>11, <1>12 DEF Surface

\* What a step of a saver leaves alone, and the types of the rest.
LEMMA SaverMoves ==
  ASSUME Shape, NEW s \in Surfaces, Saver(s)
  PROVE  /\ SaverMoved(s) /\ UNCHANGED <<events, source, defects, joinQ, surfQ, join, surf, scan>>
         /\ saver'[s].pc # "get" => saver'[s].coil \in Coils
         /\ saveQ' \in [Surfaces -> Seq(SaveItem)]
         /\ disk' \in [Surfaces -> [Coils -> Output]]
<1> USE DEF stores
<1>1. /\ saveQ \in [Surfaces -> Seq(SaveItem)]
      /\ disk \in [Surfaces -> [Coils -> Output]]
  BY DEF Shape, AreaTypes
<1>2. CASE SaverGet(s)
  BY <1>1, <1>2, SaverGets, SaveQGets DEF SaverGet
<1>3. CASE FileOps(s)
  BY <1>1, <1>3, FileOp
<1>4. CASE SaverFinally(s)
  BY <1>1, <1>4, SaverEnds DEF SaverFinally
<1> QED
  BY <1>2, <1>3, <1>4 DEF Saver, FileOps

\* A restart.
LEMMA FreshShape ==
  ASSUME Shape, Crash
  PROVE  Shape'
<1>1. /\ events' = events /\ source' = source /\ disk' = disk /\ defects' = defects
      /\ joinQ' = <<>> /\ surfQ' = [s \in Surfaces |-> <<>>]
      /\ saveQ' = [s \in Surfaces |-> <<>>]
      /\ join' = JoinIdle /\ surf' = [s \in Surfaces |-> SurfIdle]
      /\ saver' = [s \in Surfaces |-> SaveIdle] /\ scan' = ScanIdle
  BY DEF Crash, Fresh
<1>2. <<>> \in Seq(Coils) /\ <<>> \in Seq(SurfItem) /\ <<>> \in Seq(SaveItem)
  BY EmptyQueue
<1>3. AreaTypes'
  BY <1>1, <1>2, IdleRecords DEF Shape, AreaTypes, ScanState, Probes
<1>4. AtWork'
  BY <1>1, IdleRecords DEF AtWork
<1> QED
  BY <1>3, <1>4 DEF Shape

\* The capture only adds.
LEMMA CaptureMoves ==
  ASSUME Shape, NEW s \in Surfaces, NEW c \in Coils, Capture(s, c)
  PROVE  /\ source' \in [Surfaces -> [Coils -> Versions]]
         /\ \A t \in Surfaces, d \in Coils : source[t][d] <= source'[t][d]
<1>1. source[s][c] + 1 \in Versions
  BY PipelineAssumption DEF Capture, Shape, AreaTypes, Versions
<1>2. source' = [source EXCEPT ![s] = [source[s] EXCEPT ![c] = source[s][c] + 1]]
  BY DEF Capture
<1> QED
  BY <1>1, <1>2 DEF Shape, AreaTypes, Versions

\* The types hold initially and are kept by every step.
LEMMA ShapeInit == Init => Shape
<1> SUFFICES ASSUME Init PROVE Shape
  OBVIOUS
<1>1. <<>> \in Seq(Coils) /\ <<>> \in Seq(SurfItem) /\ <<>> \in Seq(SaveItem)
  BY EmptyQueue
<1>2. NoOutput \in Output /\ 0 \in Versions
  BY PipelineAssumption DEF NoOutput, Output, Image, Versions
<1>3. AreaTypes
  BY <1>1, <1>2, IdleRecords DEF Init, AreaTypes, Image
<1>4. AtWork
  BY IdleRecords DEF AtWork, Init
<1> QED
  BY <1>3, <1>4 DEF Shape

\* Every step keeps the shape of the state.
LEMMA ShapeStep ==
  ASSUME Shape, [Next]_vars
  PROVE  Shape'
<1> USE DEF stores
<1>1. ASSUME NEW s \in Surfaces, NEW c \in Coils, Capture(s, c)
      PROVE  Shape'
  BY <1>1, CaptureMoves DEF Shape, AreaTypes, AtWork, Capture
<1>2. ASSUME NEW s \in Surfaces, NEW c \in Coils, Rejoin(s, c)
      PROVE  Shape'
  BY <1>2, Submits DEF Shape, AreaTypes, AtWork, Rejoin
<1>3. ASSUME NEW c \in Coils, ScanBegin(c)
      PROVE  Shape'
  BY <1>3, ScanBegins DEF Shape, AreaTypes, AtWork, ScanBegin
<1>4. CASE ScanProbe
  BY <1>4, ScanProbes DEF Shape, AreaTypes, AtWork, ScanProbe
<1>5. CASE ScanDecide
  BY <1>5, ScanDecides, IdleRecords DEF Shape, AreaTypes, AtWork, ScanDecide
<1>6. CASE JoinGet
  BY <1>6, JoinGets DEF Shape, AreaTypes, AtWork, JoinGet
<1>7. CASE JoinSubmit
  <2>1. surfQ' \in [Surfaces -> Seq(SurfItem)]
    BY <1>7, JoinSubmits, Submits, Configured DEF Shape, AreaTypes
  <2> QED
    BY <1>7, <2>1, JoinSubmits DEF Shape, AreaTypes, AtWork, JoinSubmit
<1>8. CASE JoinFinish
  BY <1>8, IdleRecords DEF Shape, AreaTypes, AtWork, JoinFinish
<1>9. ASSUME NEW s \in Surfaces, Surface(s)
      PROVE  Shape'
  BY <1>9, SurfaceMoves DEF Shape, AreaTypes, AtWork, Moved
<1>10. ASSUME NEW s \in Surfaces, Saver(s)
       PROVE  Shape'
  BY <1>10, SaverMoves DEF Shape, AreaTypes, AtWork, SaverMoved
<1>11. CASE Crash
  BY <1>11, FreshShape
<1>12. CASE UNCHANGED vars
  BY <1>12 DEF Shape, AreaTypes, AtWork, vars
<1> QED
  BY <1>1, <1>2, <1>3, <1>4, <1>5, <1>6, <1>7, <1>8, <1>9, <1>10, <1>11, <1>12 DEF Next, Join

-----------------------------------------------------------------------------
(* A picture is of one version, and what counts as complete is whole. *)

Singleton(image) == \E v \in Versions : image = {v}

\* While its cameras are read, a surface has seen versions from its snapshot to the
\* present one; the picture it goes on with is of one version.
ReadInv(s) ==
  /\ surf[s].pc = "acquire" => surf[s].loaded = 0 /\ surf[s].image = {}
  /\ surf[s].pc = "load" =>
       /\ surf[s].snapshot <= source[s][surf[s].coil]
       /\ \A v \in surf[s].image :
            surf[s].snapshot <= v /\ v <= source[s][surf[s].coil]
       /\ surf[s].loaded > 0 => surf[s].image # {}
  /\ surf[s].pc \in {"detect", "persist", "save"} => Singleton(surf[s].image)

\* A saver has the picture of one version, and its files are not complete from the
\* first marker to the last.
WriteInv(s) ==
  /\ \A i \in 1..Len(saveQ[s]) : Singleton(saveQ[s][i].image) /\ saveQ[s][i].masked \in Masks
  /\ saver[s].pc \notin {"get", "finally"} =>
       Singleton(saver[s].image) /\ saver[s].masked \in Masks
  /\ saver[s].pc \in {"mark", "area", "tiles", "rest", "mask", "maskRest", "complete"}
       => ~Files(s).done
  /\ saver[s].pc \in {"area", "tiles", "rest", "mask", "maskRest", "complete"} => Files(s).prog
  /\ saver[s].pc \in {"tiles", "rest", "mask", "maskRest", "complete", "clear"}
       => Files(s).area = saver[s].image
  /\ saver[s].pc \in {"mask", "maskRest", "complete", "clear"} => Files(s).rest = saver[s].image
  /\ saver[s].pc \in {"complete", "clear"} /\ "maskFails" \notin events
       => Files(s).mask = saver[s].image

Whole(s, c) ==
  OutputComplete(s, c) =>
    /\ disk[s][c].area = disk[s][c].rest /\ Singleton(disk[s][c].area)
    /\ "maskFails" \notin events => disk[s][c].mask = disk[s][c].area

AreaInv ==
  /\ Shape
  /\ \A s \in Surfaces : ReadInv(s) /\ WriteInv(s)
  /\ \A s \in Surfaces, c \in Coils : Whole(s, c)

\* The input only grows.
LEMMA SourceGrows ==
  ASSUME Shape, [Next]_vars
  PROVE  \A t \in Surfaces, c \in Coils :
           /\ source[t][c] \in Nat /\ source'[t][c] \in Nat /\ source[t][c] <= source'[t][c]
<1> USE DEF stores
<1>1. \A t \in Surfaces, c \in Coils : source[t][c] \in Nat
  BY DEF Shape, AreaTypes, Versions
<1>2. \A t \in Surfaces, c \in Coils : source'[t][c] \in Nat
  BY ShapeStep DEF Shape, AreaTypes, Versions
<1>3. ASSUME NEW s \in Surfaces, NEW c \in Coils, Capture(s, c)
      PROVE  \A t \in Surfaces, d \in Coils : source[t][d] <= source'[t][d]
  BY <1>3, CaptureMoves
<1>4. CASE source' = source
  BY <1>1, <1>4
<1>5. ASSUME NEW s \in Surfaces, Surface(s) \/ Saver(s)
      PROVE  source' = source
  BY <1>5, SurfaceMoves, SaverMoves
<1> QED
  BY <1>1, <1>2, <1>3, <1>4, <1>5
     DEF Next, Rejoin, ScanBegin, ScanProbe, ScanDecide, Join, JoinGet, JoinSubmit,
         JoinFinish, Crash, vars

\* Which steps touch a surface.
LEMMA SurfaceAlone ==
  ASSUME Shape, [Next]_vars, NEW s \in Surfaces
  PROVE  surf'[s] = surf[s] \/ Surface(s) \/ Crash
<1>1. ASSUME NEW t \in Surfaces, Surface(t) \/ Saver(t)
      PROVE  surf'[s] = surf[s] \/ Surface(s)
  BY <1>1, SurfaceMoves, SaverMoves DEF Moved
<1>2. ASSUME NEW t \in Surfaces, NEW c \in Coils, Capture(t, c) \/ Rejoin(t, c)
      PROVE  surf' = surf
  BY <1>2 DEF Capture, Rejoin
<1> QED
  BY <1>1, <1>2
     DEF Next, ScanBegin, ScanProbe, ScanDecide, Join, JoinGet, JoinSubmit,
         JoinFinish, vars

\* Reading: a picture that passed the checks is of one version.
LEMMA ReadStep ==
  ASSUME Shape, [Next]_vars, NEW s \in Surfaces, ReadInv(s)
  PROVE  ReadInv(s)'
<1>1. surf[s] \in SurfState /\ (surf[s].pc \notin {"get", "release"} => surf[s].coil \in Coils)
  BY DEF Shape, AreaTypes, AtWork
<1>2. surf[s].snapshot \in Nat /\ surf[s].image \subseteq Nat
  BY <1>1 DEF SurfState, Versions, Image
<1>3. CASE surf'[s] = surf[s]
  <2>1. surf[s].pc = "load" =>
          /\ source[s][surf[s].coil] \in Nat /\ source'[s][surf[s].coil] \in Nat
          /\ source[s][surf[s].coil] <= source'[s][surf[s].coil]
    BY <1>1, SourceGrows
  <2> QED
    BY <1>2, <1>3, <2>1 DEF ReadInv, Singleton
<1>4. CASE Crash
  BY <1>4, IdleRecords DEF Crash, Fresh, ReadInv
<1>5. CASE Surface(s)
  <2>0. source' = source
    BY <1>5, SurfaceMoves
  <2>1. CASE SurfGet(s)
    BY <2>1, SurfaceGets DEF ReadInv
  <2>2. CASE SurfAcquire(s)
    <3>1. surf[s].pc = "acquire"
      BY <2>2 DEF SurfAcquire
    <3>2. /\ surf'[s].pc \in {"load", "finally"} /\ surf'[s].coil = surf[s].coil
          /\ surf'[s].image = surf[s].image /\ surf'[s].loaded = surf[s].loaded
          /\ surf'[s].pc = "load" => surf'[s].snapshot = source[s][surf[s].coil]
      BY <1>1, <2>2, <3>1, SurfaceAcquires DEF Goes
    <3>3. source[s][surf[s].coil] \in Nat
      BY <1>1, <3>1, SourceGrows
    <3> QED
      BY <2>0, <3>1, <3>2, <3>3 DEF ReadInv
  <2>3. CASE SurfLoad(s)
    <3>1. surf[s].pc = "load"
      BY <2>3 DEF SurfLoad
    <3>2. /\ surf'[s].coil = surf[s].coil
          /\ \/ surf'[s].pc = "finally"
             \/ /\ surf'[s].pc = "load" /\ surf'[s].snapshot = surf[s].snapshot
                /\ surf'[s].image = surf[s].image \cup {source[s][surf[s].coil]}
      BY <1>1, <2>3, <3>1, SurfaceLoads
    <3>3. source[s][surf[s].coil] \in Nat
      BY <1>1, <3>1, SourceGrows
    <3> QED
      BY <2>0, <3>1, <3>2, <3>3 DEF ReadInv
  <2>4. CASE SurfLoaded(s)
    <3>1. /\ surf[s].pc = "load" /\ surf[s].loaded = Cameras
          /\ surf'[s].image = surf[s].image
          /\ surf'[s].pc \in {"detect", "finally"}
          /\ surf'[s].pc = "detect" => source[s][surf[s].coil] = surf[s].snapshot
      BY <2>4, SurfaceGoes DEF Goes, SurfLoaded, InputUnchanged
    <3>2. surf[s].image # {} /\ surf[s].image \subseteq Versions
      BY <1>1, <3>1, PipelineAssumption DEF ReadInv, SurfState, Image
    <3>3. ASSUME surf'[s].pc = "detect"
          PROVE  \A v \in surf[s].image : v = surf[s].snapshot
      BY <1>2, <3>1, <3>3 DEF ReadInv
    <3> QED
      BY <3>1, <3>2, <3>3 DEF ReadInv, Singleton
  <2>5. CASE SurfDetect(s)
    BY <2>5, SurfaceGoes DEF Goes, SurfDetect, ReadInv, Singleton
  <2>6. CASE SurfPersist(s)
    BY <2>6, SurfaceGoes DEF Goes, SurfPersist, ReadInv, Singleton
  <2>7. CASE SurfSave(s)
    <3>1. surf'[s].pc \in {"wait", "finally"}
      BY <1>1, <2>7, SurfaceHandsOver DEF SurfSave
    <3> QED
      BY <3>1 DEF ReadInv
  <2>8. CASE SurfWait(s)
    BY <2>8, SurfaceGoes DEF Goes, ReadInv
  <2>9. CASE SurfFinally(s)
    BY <2>9, SurfaceEnds DEF ReadInv
  <2>10. CASE SurfRelease(s)
    BY <2>10, SurfaceGoes DEF Goes, ReadInv
  <2> QED
    BY <1>5, <2>1, <2>2, <2>3, <2>4, <2>5, <2>6, <2>7, <2>8, <2>9, <2>10 DEF Surface
<1> QED
  BY <1>3, <1>4, <1>5, SurfaceAlone

\* Which steps touch a saver and its files.
LEMMA SaverAlone ==
  ASSUME Shape, [Next]_vars, NEW s \in Surfaces
  PROVE  \/ saver'[s] = saver[s] /\ saveQ'[s] = saveQ[s] /\ UNCHANGED <<disk, surf>>
         \/ /\ saver'[s] = saver[s] /\ saveQ'[s] = saveQ[s]
            /\ \A c \in Coils : disk'[s][c] = disk[s][c]
         \/ SurfSave(s) \/ Saver(s) \/ Crash
<1> USE DEF stores
<1>1. ASSUME NEW t \in Surfaces, Surface(t)
      PROVE  \/ saver' = saver /\ saveQ'[s] = saveQ[s] /\ disk' = disk
             \/ SurfSave(s)
  <2>1. CASE SurfSave(t)
    <3>1. surf[t].coil \in Coils
      BY <2>1 DEF SurfSave, Shape, AtWork
    <3>2. CASE t # s
      BY <2>1, <3>1, <3>2, SurfaceHandsOver DEF SurfSave, Shape, AreaTypes
    <3> QED
      BY <2>1, <3>2
  <2>2. CASE UNCHANGED <<saver, saveQ, disk>>
    BY <2>2
  <2> QED
    BY <1>1, <2>1, <2>2
       DEF Surface, SurfGet, SurfAcquire, SurfLoad, SurfLoaded, SurfDetect,
           SurfPersist, SurfWait, SurfFinally, SurfRelease
<1>2. ASSUME NEW t \in Surfaces, Saver(t), t # s
      PROVE  /\ saver'[s] = saver[s] /\ saveQ'[s] = saveQ[s]
             /\ \A c \in Coils : disk'[s][c] = disk[s][c]
  <2>1. CASE SaverGet(t)
    BY <1>2, <2>1, SaverGets, SaveQGets DEF SaverMoved, SaverGet
  <2>2. CASE FileOps(t)
    BY <1>2, <2>2, FileOp DEF SaverMoved
  <2>3. CASE SaverFinally(t)
    BY <1>2, <2>3, SaverEnds DEF SaverMoved, SaverFinally
  <2> QED
    BY <1>2, <2>1, <2>2, <2>3 DEF Saver, FileOps
<1>3. ASSUME NEW t \in Surfaces, NEW c \in Coils, Capture(t, c) \/ Rejoin(t, c)
      PROVE  UNCHANGED <<saver, saveQ, disk>>
  BY <1>3 DEF Capture, Rejoin
<1> QED
  BY <1>1, <1>2, <1>3
     DEF Next, ScanBegin, ScanProbe, ScanDecide, Join, JoinGet, JoinSubmit,
         JoinFinish, vars

\* The scenario stays, and with it whether a join of masks may fail.
LEMMA MasksStay ==
  ASSUME [Next]_vars
  PROVE  events' = events /\ Masks' = Masks
<1>1. ASSUME NEW s \in Surfaces, Surface(s) \/ Saver(s)
      PROVE  events' = events
  BY <1>1 DEF Surface, SurfGet, SurfAcquire, SurfLoad, SurfLoaded, SurfDetect,
              SurfPersist, SurfSave, SurfWait, SurfFinally, SurfRelease, Saver,
              SaverGet, SaverFinally, FileStep, SaverBegin, SaverMark, SaverArea,
              SaverTiles, SaverRest, SaverMask, SaverMaskRest, SaverComplete, SaverClear
<1>2. events' = events
  BY <1>1 DEF Next, Capture, Rejoin, ScanBegin, ScanProbe, ScanDecide, Join, JoinGet,
              JoinSubmit, JoinFinish, Crash, vars
<1> QED
  BY <1>2 DEF Masks

\* Writing: the markers say what has been written.
LEMMA WriteStep ==
  ASSUME Shape, [Next]_vars, NEW s \in Surfaces, ReadInv(s), WriteInv(s)
  PROVE  WriteInv(s)'
<1>0. events' = events /\ Masks' = Masks
  BY MasksStay
<1>1. saveQ[s] \in Seq(SaveItem)
  BY DEF Shape, AreaTypes
<1>2. CASE /\ saver'[s] = saver[s] /\ saveQ'[s] = saveQ[s]
           /\ \A c \in Coils : disk'[s][c] = disk[s][c]
  <2>1. saver[s].pc # "get" => Files(s)' = Files(s)
    BY <1>2 DEF Files, Shape, AtWork
  <2> QED
    BY <1>0, <1>2, <2>1 DEF WriteInv, Singleton
<1>3. CASE SurfSave(s)
  <2>1. surf[s].coil \in Coils /\ Singleton(surf[s].image)
    BY <1>3 DEF SurfSave, Shape, AtWork, ReadInv
  <2>2. /\ surf[s].pc = "save" /\ saver' = saver /\ disk' = disk
        /\ \/ saveQ' = saveQ
           \/ \E i \in SaveItem : /\ i.image = surf[s].image /\ i.masked \in Masks
                                  /\ saveQ' = [saveQ EXCEPT ![s] = <<i>>]
    BY <1>3, <2>1, SurfaceHandsOver DEF SurfSave, stores, Picture
  <2>3. ASSUME NEW i \in SaveItem, i.image = surf[s].image, i.masked \in Masks,
               saveQ' = [saveQ EXCEPT ![s] = <<i>>]
        PROVE  \A j \in 1..Len(saveQ'[s]) :
                 Singleton(saveQ'[s][j].image) /\ saveQ'[s][j].masked \in Masks
    <3>1. saveQ'[s] = <<i>>
      BY <2>3 DEF Shape, AreaTypes
    <3> QED
      BY <2>1, <2>3, <3>1
  <2>4. \A j \in 1..Len(saveQ'[s]) :
           Singleton(saveQ'[s][j].image) /\ saveQ'[s][j].masked \in Masks
    BY <2>2, <2>3 DEF WriteInv
  <2> QED
    BY <1>0, <2>2, <2>4 DEF WriteInv, Files, Singleton
<1>4. CASE Crash
  <2>1. saveQ'[s] = <<>> /\ saver'[s].pc = "get"
    BY <1>4, IdleRecords DEF Crash, Fresh
  <2> QED
    BY <2>1 DEF WriteInv
<1>5. CASE SaverGet(s)
  <2>1. /\ saveQ[s] # <<>> /\ saveQ'[s] = Tail(saveQ[s]) /\ saver'[s].pc = "begin"
        /\ saver'[s].image = Head(saveQ[s]).image /\ saver'[s].masked = Head(saveQ[s]).masked
    BY <1>5, SaverGets, SaveQGets DEF SaverGet
  <2>2. Singleton(saver'[s].image) /\ saver'[s].masked \in Masks
    BY <1>1, <2>1, GetFacts DEF WriteInv
  <2>3. \A i \in 1..Len(saveQ'[s]) :
           Singleton(saveQ'[s][i].image) /\ saveQ'[s][i].masked \in Masks
    BY <1>1, <2>1, GetFacts DEF WriteInv
  <2> QED
    BY <1>0, <2>1, <2>2, <2>3 DEF WriteInv, Singleton
<1>6. CASE FileOps(s)
  <2>1. /\ saver'[s].coil = saver[s].coil /\ saver'[s].image = saver[s].image
        /\ saver'[s].masked = saver[s].masked
        /\ saver[s].pc \notin {"get", "finally"} /\ saveQ' = saveQ /\ Files(s) \in Output
        /\ Writes(s, saver[s].pc, saver'[s].pc, Files(s)') \/ saver'[s].pc = "finally"
    BY <1>6, FileOp
  <2>2. CASE saver'[s].pc = "finally"
    BY <1>0, <2>1, <2>2 DEF WriteInv, Singleton
  <2>3. CASE Writes(s, saver[s].pc, saver'[s].pc, Files(s)')
    BY <1>0, <2>1, <2>3 DEF WriteInv, Singleton, Writes, Output, Masks
  <2> QED
    BY <2>1, <2>2, <2>3
<1>7. CASE SaverFinally(s)
  BY <1>0, <1>7, SaverEnds DEF SaverFinally, WriteInv, Singleton
<1> QED
  BY <1>2, <1>3, <1>4, <1>5, <1>6, <1>7, SaverAlone DEF Saver, FileOps

\* What counts as complete stays whole.
LEMMA WholeStep ==
  ASSUME Shape, [Next]_vars, NEW s \in Surfaces, WriteInv(s), NEW c \in Coils, Whole(s, c)
  PROVE  Whole(s, c)'
<1>0. events' = events
  BY MasksStay
<1>1. CASE disk'[s][c] = disk[s][c]
  BY <1>0, <1>1 DEF Whole, OutputComplete, Singleton
<1>2. CASE FileOps(s) /\ saver[s].coil = c
  <2>1. /\ saver'[s].coil = c /\ Files(s) \in Output /\ saver[s].pc \notin {"get", "finally"}
        /\ \/ Writes(s, saver[s].pc, saver'[s].pc, Files(s)')
           \/ UNCHANGED disk
    BY <1>2, FileOp
  <2>2. Files(s) = disk[s][c] /\ Files(s)' = disk'[s][c]
    BY <1>2, <2>1 DEF Files
  <2>3. CASE Writes(s, saver[s].pc, saver'[s].pc, Files(s)')
    BY <1>0, <2>1, <2>2, <2>3 DEF Writes, WriteInv, Whole, OutputComplete, Singleton, Output
  <2> QED
    BY <1>1, <2>1, <2>3
<1>3. CASE FileOps(s) /\ saver[s].coil # c
  BY <1>1, <1>3, FileOp
<1>4. CASE SurfSave(s) \/ SaverGet(s) \/ SaverFinally(s) \/ Crash
  BY <1>1, <1>4 DEF SurfSave, SaverGet, SaverFinally, Crash, stores
<1> QED
  BY <1>1, <1>2, <1>3, <1>4, SaverAlone DEF Saver, FileOps

\* Both, and what counts as complete, for every reachable state.
LEMMA AreaInvariant == Spec => []AreaInv
<1>1. Init => AreaInv
  <2> SUFFICES ASSUME Init PROVE AreaInv
    OBVIOUS
  <2>1. \A s \in Surfaces : saveQ[s] = <<>> /\ surf[s].pc = "get" /\ saver[s].pc = "get"
    BY IdleRecords DEF Init
  <2>2. \A s \in Surfaces, c \in Coils : disk[s][c].area = {}
    BY DEF Init, NoOutput
  <2> QED
    BY <2>1, <2>2, ShapeInit DEF AreaInv, ReadInv, WriteInv, Whole, OutputComplete
<1>2. AreaInv /\ [Next]_vars => AreaInv'
  BY ShapeStep, ReadStep, WriteStep, WholeStep DEF AreaInv
<1> QED
  BY <1>1, <1>2, PTL DEF Spec

\* What OutputComplete accepts shows one state of the capture, and its tiles and preview
\* are of that picture, also with manual rejoins, timeouts, failures and restarts; so is
\* the mask wherever no join of masks fails (SurfaceWork, SaverWork).
THEOREM PicturesAreWhole == Spec => []CompleteIsWhole
<1>1. ASSUME AreaInv, NEW s \in Surfaces, NEW c \in Coils, OutputComplete(s, c)
      PROVE  /\ disk[s][c].area = disk[s][c].rest /\ Cardinality(disk[s][c].area) = 1
             /\ "maskFails" \notin events => disk[s][c].mask = disk[s][c].area
  <2>1. /\ disk[s][c].area = disk[s][c].rest /\ Singleton(disk[s][c].area)
        /\ "maskFails" \notin events => disk[s][c].mask = disk[s][c].area
    BY <1>1 DEF AreaInv, Whole
  <2>2. PICK v \in Versions : disk[s][c].area = {v}
    BY <2>1 DEF Singleton
  <2> QED
    BY <2>1, <2>2, FS_Singleton
<1>2. AreaInv => CompleteIsWhole
  BY <1>1 DEF CompleteIsWhole
<1> QED
  BY <1>2, AreaInvariant, PTL

-----------------------------------------------------------------------------
(* Coils go from the scanner to JoinWork, the surfaces and the savers. *)

\* The coils in a queue.
LEMMA CoilsPut ==
  ASSUME NEW S, NEW q \in Seq(S), NEW e \in S
  PROVE  CoilsIn(Append(q, e)) = CoilsIn(q) \cup {e.coil}
<1>1. DOMAIN q = 1..Len(q) /\ Len(q) \in Nat
  OBVIOUS
<1>2. ASSUME NEW x \in CoilsIn(Append(q, e))
      PROVE  x \in CoilsIn(q) \cup {e.coil}
  BY <1>1, PutFacts DEF CoilsIn
<1>3. ASSUME NEW x \in CoilsIn(q) \cup {e.coil}
      PROVE  x \in CoilsIn(Append(q, e))
  <2>1. CASE x = e.coil
    BY <1>1, <2>1, PutFacts DEF CoilsIn
  <2>2. CASE x \in CoilsIn(q)
    BY <1>1, <2>2, PutFacts DEF CoilsIn
  <2> QED
    BY <2>1, <2>2
<1> QED
  BY <1>2, <1>3

\* The coils of a queue when its head is taken.
LEMMA CoilsGet ==
  ASSUME NEW S, NEW q \in Seq(S), q # <<>>
  PROVE  Head(q).coil \in CoilsIn(q) /\ CoilsIn(Tail(q)) \subseteq CoilsIn(q)
<1>1. Head(q).coil \in CoilsIn(q)
  BY GetFacts DEF CoilsIn
<1>2. ASSUME NEW i \in DOMAIN Tail(q)
      PROVE  i + 1 \in DOMAIN q /\ Tail(q)[i] = q[i + 1]
  BY GetFacts
<1>3. CoilsIn(Tail(q)) \subseteq CoilsIn(q)
  BY <1>2 DEF CoilsIn
<1> QED
  BY <1>1, <1>3

\* Where a surface has its coil and not yet handed it to the saver.
AskedPlaces == {"acquire", "load", "detect", "persist", "save"}

\* How a surface goes on with its coil.
LEMMA SurfaceFlow ==
  ASSUME Shape, NEW s \in Surfaces, Surface(s)
  PROVE  \/ SurfGet(s)
         \/ /\ surfQ' = surfQ /\ surf'[s].coil \in {surf[s].coil, None}
            /\ surf'[s].pc \in AskedPlaces =>
                 surf[s].pc \in AskedPlaces /\ surf'[s].coil = surf[s].coil
            /\ SurfSave(s) => surf'[s].pc \notin AskedPlaces
            /\ surf'[s].pc = "save" => SurfPersist(s)
<1> USE DEF AskedPlaces
<1>1. surf[s].pc \notin {"get", "release"} => surf[s].coil \in Coils
  BY DEF Shape, AtWork
<1>2. CASE SurfAcquire(s)
  <2>1. surf'[s].pc \in {"load", "finally"} /\ surf'[s].coil = surf[s].coil
    BY <1>1, <1>2, SurfaceAcquires DEF SurfAcquire, Goes
  <2> QED
    BY <1>2, <2>1 DEF SurfAcquire, SurfSave
<1>3. CASE SurfLoad(s)
  <2>1. surf'[s].pc \in {"load", "finally"} /\ surf'[s].coil = surf[s].coil
    BY <1>1, <1>3, SurfaceLoads DEF SurfLoad
  <2> QED
    BY <1>3, <2>1 DEF SurfLoad, SurfSave
<1>4. CASE SurfLoaded(s)
  <2>1. surf'[s].pc \in {"detect", "finally"} /\ surf'[s].coil = surf[s].coil
    BY <1>4, SurfaceGoes DEF Goes
  <2> QED
    BY <1>4, <2>1 DEF SurfLoaded, SurfSave
<1>5. CASE SurfDetect(s)
  <2>1. surf'[s].pc \in {"persist", "finally"} /\ surf'[s].coil = surf[s].coil
    BY <1>5, SurfaceGoes DEF Goes
  <2> QED
    BY <1>5, <2>1 DEF SurfDetect, SurfSave
<1>6. CASE SurfPersist(s)
  <2>1. surf'[s].pc \in {"save", "finally"} /\ surf'[s].coil = surf[s].coil
    BY <1>6, SurfaceGoes DEF Goes
  <2> QED
    BY <1>6, <2>1 DEF SurfPersist, SurfSave
<1>7. CASE SurfSave(s)
  <2>1. surf'[s].pc \in {"wait", "finally"} /\ surf'[s].coil = surf[s].coil
    BY <1>1, <1>7, SurfaceHandsOver DEF SurfSave
  <2> QED
    BY <1>7, <2>1 DEF SurfSave
<1>8. CASE SurfWait(s)
  <2>1. surf'[s].pc = "finally" /\ surf'[s].coil = surf[s].coil
    BY <1>8, SurfaceGoes DEF Goes
  <2> QED
    BY <1>8, <2>1 DEF SurfWait
<1>9. CASE SurfFinally(s)
  BY <1>9, SurfaceEnds DEF SurfFinally
<1>10. CASE SurfRelease(s)
  <2>1. surf'[s].pc = "get" /\ surf'[s].coil = surf[s].coil
    BY <1>10, SurfaceGoes DEF Goes
  <2> QED
    BY <1>10, <2>1 DEF SurfRelease
<1> QED
  BY <1>2, <1>3, <1>4, <1>5, <1>6, <1>7, <1>8, <1>9, <1>10 DEF Surface

\* What is pending at a surface, its saver and JoinWork only moves on.
LEMMA SurfPendingStep ==
  ASSUME Shape, [Next]_vars, "rejoin" \notin events, NEW s \in Surfaces
  PROVE  \/ SurfPending(s)' \subseteq SurfPending(s)
         \/ /\ JoinSubmit /\ s = SurfaceSeq[join.next]
            /\ SurfPending(s)' \subseteq SurfPending(s) \cup {join.coil}
<1> USE DEF stores
<1>0. surfQ[s] \in Seq(SurfItem)
  BY DEF Shape, AreaTypes
<1>1. CASE surfQ'[s] = surfQ[s] /\ surf'[s].coil \in {surf[s].coil, None}
  BY <1>1 DEF SurfPending
<1>2. CASE Crash
  BY <1>2, IdleRecords DEF Crash, Fresh, SurfPending, CoilsIn
<1>3. CASE SurfGet(s)
  <2>1. /\ surfQ[s] # <<>> /\ surfQ'[s] = Tail(surfQ[s])
        /\ surf'[s].coil = Head(surfQ[s]).coil
    BY <1>3, SurfaceGets, SurfQGets
  <2>2. CoilsIn(surfQ'[s]) \cup {surf'[s].coil} \subseteq CoilsIn(surfQ[s])
    BY <1>0, <2>1, CoilsGet
  <2> QED
    BY <2>2 DEF SurfPending
<1>4. CASE JoinSubmit
  <2>1. SurfaceSeq[join.next] \in Surfaces /\ surf' = surf
    BY <1>4, JoinSubmits, Configured DEF JoinSubmit
  <2>2. CASE s # SurfaceSeq[join.next]
    BY <1>1, <1>4, <2>1, <2>2, JoinSubmits, Submits
  <2>3. CASE s = SurfaceSeq[join.next] /\ Submit(s, join.coil, TRUE)
    <3> DEFINE it == [coil |-> join.coil, asked |-> TRUE]
    <3>1. join.coil \in Coils
      BY <1>4, JoinSubmits
    <3>2. surfQ'[s] = Append(surfQ[s], it) /\ it \in SurfItem /\ it.coil = join.coil
      BY <2>3, <3>1, Submits
    <3> HIDE DEF it
    <3>3. CoilsIn(surfQ'[s]) = CoilsIn(surfQ[s]) \cup {join.coil}
      BY <1>0, <3>2, CoilsPut
    <3> QED
      BY <1>4, <2>1, <2>3, <3>3 DEF SurfPending
  <2> QED
    BY <1>1, <1>4, <2>1, <2>2, <2>3, JoinSubmits
<1>5. ASSUME NEW t \in Surfaces, Surface(t), t # s
      PROVE  surfQ'[s] = surfQ[s] /\ surf'[s].coil = surf[s].coil
  <2>1. surf'[s] = surf[s]
    BY <1>5, SurfaceMoves DEF Moved
  <2> QED
    BY <1>5, <2>1, SurfaceFlow, SurfQGets
<1>6. CASE Surface(s)
  BY <1>1, <1>3, <1>6, SurfaceFlow
<1>7. ASSUME NEW t \in Surfaces, Saver(t)
      PROVE  UNCHANGED <<surfQ, surf>>
  BY <1>7, SaverMoves
<1>8. ASSUME NEW t \in Surfaces, NEW c \in Coils, Capture(t, c) \/ Rejoin(t, c)
      PROVE  UNCHANGED <<surfQ, surf>>
  BY <1>8 DEF Capture, Rejoin
<1> QED
  BY <1>1, <1>2, <1>4, <1>5, <1>6, <1>7, <1>8
     DEF Next, ScanBegin, ScanProbe, ScanDecide, Join, JoinGet, JoinFinish, vars

\* The saver gets a coil only from its surface.
LEMMA SavePendingStep ==
  ASSUME Shape, [Next]_vars, NEW s \in Surfaces
  PROVE  \/ SavePending(s)' \subseteq SavePending(s)
         \/ /\ SurfSave(s) /\ surf[s].coil \in SurfPending(s)
            /\ SavePending(s)' = SavePending(s) \cup {surf[s].coil}
<1>0. saveQ[s] \in Seq(SaveItem)
  BY DEF Shape, AreaTypes
<1>1. CASE saver'[s] = saver[s] /\ saveQ'[s] = saveQ[s]
  BY <1>1 DEF SavePending
<1>2. CASE Crash
  BY <1>2, IdleRecords DEF Crash, Fresh, SavePending, CoilsIn
<1>3. CASE SurfSave(s)
  <2>1. surf[s].coil \in Coils /\ surf[s].coil # None
    BY <1>3, PipelineAssumption DEF SurfSave, Shape, AtWork
  <2>2. ASSUME NEW i \in SaveItem, i.coil = surf[s].coil, saveQ[s] = <<>>,
               saveQ' = [saveQ EXCEPT ![s] = <<i>>]
        PROVE  CoilsIn(saveQ'[s]) = CoilsIn(saveQ[s]) \cup {surf[s].coil}
    <3>1. saveQ'[s] = Append(saveQ[s], i)
      BY <2>2 DEF Shape, AreaTypes
    <3>2. CoilsIn(Append(saveQ[s], i)) = CoilsIn(saveQ[s]) \cup {i.coil}
      BY <1>0, CoilsPut
    <3> QED
      BY <2>2, <3>1, <3>2
  <2>3. CASE UNCHANGED saveQ
    BY <1>1, <1>3, <2>3 DEF SurfSave
  <2>4. CASE CoilsIn(saveQ'[s]) = CoilsIn(saveQ[s]) \cup {surf[s].coil}
    <3>1. saver' = saver /\ surf[s].coil \in SurfPending(s)
      BY <1>3, <2>1 DEF SurfSave, SurfPending
    <3>2. SavePending(s)' = SavePending(s) \cup {surf[s].coil}
      BY <2>4, <3>1 DEF SavePending
    <3> QED
      BY <1>3, <3>1, <3>2
  <2>5. \/ UNCHANGED saveQ
        \/ /\ saveQ[s] = <<>>
           /\ \E i \in SaveItem : i.coil = surf[s].coil /\ saveQ' = [saveQ EXCEPT ![s] = <<i>>]
    BY <1>3, <2>1, SurfaceHandsOver DEF Picture
  <2> QED
    BY <2>2, <2>3, <2>4, <2>5
<1>4. CASE SaverGet(s)
  <2>1. /\ saveQ[s] # <<>> /\ saveQ'[s] = Tail(saveQ[s])
        /\ saver'[s].coil = Head(saveQ[s]).coil
    BY <1>4, SaverGets, SaveQGets DEF SaverGet
  <2>2. CoilsIn(saveQ'[s]) \cup {saver'[s].coil} \subseteq CoilsIn(saveQ[s])
    BY <1>0, <2>1, CoilsGet
  <2> QED
    BY <2>2 DEF SavePending
<1>5. CASE FileOps(s)
  <2>1. saver'[s].coil = saver[s].coil /\ saveQ' = saveQ
    BY <1>5, FileOp
  <2> QED
    BY <2>1 DEF SavePending
<1>6. CASE SaverFinally(s)
  <2>1. saver'[s].coil = None /\ saveQ' = saveQ
    BY <1>6, SaverEnds DEF SaverFinally
  <2> QED
    BY <2>1 DEF SavePending
<1> QED
  BY <1>1, <1>2, <1>3, <1>4, <1>5, <1>6, SaverAlone DEF Saver, FileOps

\* JoinWork gets a coil only from the scanner.
LEMMA JoinPendingStep ==
  ASSUME Shape, [Next]_vars
  PROVE  JoinPending' \subseteq JoinPending \/ ScanDecide
<1> USE DEF stores
<1>1. CASE joinQ' = joinQ /\ join'.coil \in {join.coil, None}
  BY <1>1 DEF JoinPending
<1>2. CASE Crash
  BY <1>2, IdleRecords DEF Crash, Fresh, JoinPending
<1>3. CASE JoinGet
  <2>0. joinQ \in Seq(Coils) /\ joinQ # <<>>
    BY <1>3 DEF Shape, AreaTypes, JoinGet
  <2>1. joinQ' = Tail(joinQ) /\ join'.coil = Head(joinQ)
    BY <1>3, JoinGets DEF JoinGet
  <2>2. 1 \in DOMAIN joinQ /\ Head(joinQ) = joinQ[1]
    BY <2>0, GetFacts
  <2>3. ASSUME NEW i \in DOMAIN joinQ'
        PROVE  i + 1 \in DOMAIN joinQ /\ joinQ'[i] = joinQ[i + 1]
    BY <2>0, <2>1, GetFacts
  <2> QED
    BY <2>1, <2>2, <2>3 DEF JoinPending
<1>4. CASE JoinSubmit
  BY <1>1, <1>4, JoinSubmits DEF JoinSubmit
<1>5. CASE JoinFinish
  BY <1>1, <1>5, IdleRecords DEF JoinFinish
<1>6. ASSUME NEW t \in Surfaces, Surface(t)
      PROVE  joinQ' = joinQ /\ join'.coil \in {join.coil, None}
  BY <1>6, SurfaceMoves
<1>7. ASSUME NEW t \in Surfaces, Saver(t)
      PROVE  UNCHANGED <<joinQ, join>>
  BY <1>7, SaverMoves
<1>8. ASSUME NEW t \in Surfaces, NEW c \in Coils, Capture(t, c) \/ Rejoin(t, c)
      PROVE  UNCHANGED <<joinQ, join>>
  BY <1>8 DEF Capture, Rejoin
<1> QED
  BY <1>1, <1>2, <1>3, <1>4, <1>5, <1>6, <1>7, <1>8
     DEF Next, ScanBegin, ScanProbe, Join, vars

\* The scanner asks JoinWork first, and each surface before its saver.
LEMMA ProbeOrder ==
  /\ Len(Probes) \in Nat \ {0} /\ Probes[1] = <<"join">>
  /\ \A i \in 2..Len(Probes) : \E s \in Surfaces :
       \/ Probes[i] = <<"surface", s>>
       \/ i > 2 /\ Probes[i] = <<"saver", s>> /\ Probes[i - 1] = <<"surface", s>>
  /\ \A s \in Surfaces : \E i, j \in 1..Len(Probes) :
       Probes[i] = <<"surface", s>> /\ Probes[j] = <<"saver", s>>
<1> DEFINE n == Len(SurfaceSeq)
<1>1. n \in Nat /\ Len(Probes) = 1 + 2 * n /\ \A k \in 1..n : SurfaceSeq[k] \in Surfaces
  BY Configured
<1>2. \A i \in 1..(1 + 2 * n) :
        Probes[i] = IF i = 1 THEN <<"join">>
                    ELSE <<IF i % 2 = 0 THEN "surface" ELSE "saver", SurfaceSeq[i \div 2]>>
  BY DEF Probes
<1>3. Probes[1] = <<"join">>
  BY <1>1, <1>2
<1>4. ASSUME NEW k \in 1..n
      PROVE  /\ 2 * k \in 2..(1 + 2 * n) /\ 2 * k + 1 \in 3..(1 + 2 * n)
             /\ Probes[2 * k] = <<"surface", SurfaceSeq[k]>>
             /\ Probes[2 * k + 1] = <<"saver", SurfaceSeq[k]>>
  <2>1. 2 * k \in 2..(1 + 2 * n) /\ 2 * k + 1 \in 3..(1 + 2 * n)
    BY <1>1
  <2>2. (2 * k) % 2 = 0 /\ (2 * k) \div 2 = k /\ (2 * k + 1) % 2 = 1 /\ (2 * k + 1) \div 2 = k
    BY <1>1
  <2>3. 2 * k \in 1..(1 + 2 * n) /\ 2 * k # 1 /\ 2 * k + 1 \in 1..(1 + 2 * n) /\ 2 * k + 1 # 1
    BY <1>1, <2>1
  <2>4. Probes[2 * k] = <<"surface", SurfaceSeq[k]>>
    BY <1>2, <2>2, <2>3
  <2>5. Probes[2 * k + 1] = <<"saver", SurfaceSeq[k]>>
    <3> DEFINE m == 2 * k + 1
    <3>1. m \in 1..(1 + 2 * n) /\ m # 1 /\ m % 2 # 0 /\ m \div 2 = k
      BY <2>2, <2>3
    <3> HIDE DEF m
    <3>2. Probes[m] = <<"saver", SurfaceSeq[k]>>
      BY <1>2, <3>1
    <3> QED
      BY <3>2 DEF m
  <2> QED
    BY <2>1, <2>4, <2>5
<1>5. ASSUME NEW i \in 2..(1 + 2 * n)
      PROVE  \E k \in 1..n : i = 2 * k \/ i = 2 * k + 1
  <2>1. i \div 2 \in 1..n /\ (i = 2 * (i \div 2) \/ i = 2 * (i \div 2) + 1)
    BY <1>1
  <2> QED
    BY <2>1
<1>6. ASSUME NEW i \in 2..Len(Probes)
      PROVE  \E s \in Surfaces :
               \/ Probes[i] = <<"surface", s>>
               \/ i > 2 /\ Probes[i] = <<"saver", s>> /\ Probes[i - 1] = <<"surface", s>>
  <2>1. PICK k \in 1..n : i = 2 * k \/ i = 2 * k + 1
    BY <1>1, <1>5
  <2>2. CASE i = 2 * k
    BY <1>1, <1>4, <2>2
  <2>3. CASE i = 2 * k + 1
    <3>1. i - 1 = 2 * k /\ i > 2 /\ SurfaceSeq[k] \in Surfaces
      BY <1>1, <2>3
    <3>2. Probes[i] = <<"saver", SurfaceSeq[k]>> /\ Probes[i - 1] = <<"surface", SurfaceSeq[k]>>
      BY <1>4, <2>3, <3>1
    <3> QED
      BY <3>1, <3>2
  <2> QED
    BY <2>1, <2>2, <2>3
<1>7. ASSUME NEW s \in Surfaces
      PROVE  \E i, j \in 1..Len(Probes) :
               Probes[i] = <<"surface", s>> /\ Probes[j] = <<"saver", s>>
  <2>1. PICK k \in 1..n : SurfaceSeq[k] = s
    BY Configured DEF Surfaces
  <2>2. 2 * k \in 1..(1 + 2 * n) /\ 2 * k + 1 \in 1..(1 + 2 * n)
    BY <1>1
  <2> QED
    BY <1>1, <1>4, <2>1, <2>2
<1>8. Len(Probes) \in Nat \ {0}
  BY <1>1
<1> HIDE DEF n
<1> QED
  BY <1>3, <1>6, <1>7, <1>8

\* Where the scanner has asked, its coil does not turn up again.
ProbeInv ==
  scan.coil # None =>
    \A i \in 1..Len(Probes) : i < scan.probe => scan.coil \notin PendingAt(Probes[i])

\* A coil moves from JoinWork to a surface to its saver, as the scanner asks.
LEMMA ProbeStep ==
  ASSUME Shape, [Next]_vars, "rejoin" \notin events, ProbeInv
  PROVE  ProbeInv'
<1> USE DEF stores
<1>0. scan \in ScanState /\ None \notin Coils
  BY PipelineAssumption DEF Shape, AreaTypes
<1>1. ASSUME scan' = scan, ~ScanDecide, scan.coil # None,
             NEW i \in 1..Len(Probes), i < scan.probe
      PROVE  scan'.coil \notin PendingAt(Probes[i])'
  <2>1. ASSUME NEW j \in 1..i
        PROVE  scan.coil \notin PendingAt(Probes[j])
    <3>1. scan.probe \in Nat /\ Len(Probes) \in Nat
      BY <1>0, ProbeOrder DEF ScanState
    <3>2. j \in 1..Len(Probes) /\ j < scan.probe
      BY <1>1, <3>1
    <3> QED
      BY <1>1, <3>2 DEF ProbeInv
  <2>2. scan.coil \notin JoinPending /\ scan.coil \notin JoinPending'
    <3>1. scan.coil \notin JoinPending
      BY <2>1, ProbeOrder DEF PendingAt
    <3> QED
      BY <1>1, <3>1, JoinPendingStep
  <2>3. ASSUME NEW s \in Surfaces, scan.coil \notin SurfPending(s)
        PROVE  scan.coil \notin SurfPending(s)'
    <3>1. CASE SurfPending(s)' \subseteq SurfPending(s)
      BY <2>3, <3>1
    <3>2. CASE JoinSubmit /\ SurfPending(s)' \subseteq SurfPending(s) \cup {join.coil}
      <4>1. join.coil # scan.coil
        BY <2>2, <3>2, JoinSubmits, <1>0 DEF JoinPending
      <4>2. SurfPending(s)' \subseteq SurfPending(s) \cup {join.coil}
        BY <3>2
      <4> QED
        BY <2>3, <4>1, <4>2
    <3> QED
      BY <3>1, <3>2, SurfPendingStep
  <2>4. CASE i = 1
    BY <1>1, <2>2, <2>4, ProbeOrder DEF PendingAt
  <2>5. CASE i # 1
    <3>1. PICK s \in Surfaces :
            \/ Probes[i] = <<"surface", s>>
            \/ i > 2 /\ Probes[i] = <<"saver", s>> /\ Probes[i - 1] = <<"surface", s>>
      <4>1. i \in 2..Len(Probes)
        BY <2>5
      <4> QED
        BY <4>1, ProbeOrder
    <3>2. CASE Probes[i] = <<"surface", s>>
      <4>1. scan.coil \notin SurfPending(s)
        BY <2>1, <3>2 DEF PendingAt
      <4> QED
        BY <1>1, <2>3, <3>2, <4>1 DEF PendingAt
    <3>3. CASE i > 2 /\ Probes[i] = <<"saver", s>> /\ Probes[i - 1] = <<"surface", s>>
      <4>1. scan.coil \notin SavePending(s) /\ scan.coil \notin SurfPending(s)
        <5>1. i - 1 \in 1..i
          BY <3>3
        <5> QED
          BY <2>1, <3>3, <5>1 DEF PendingAt
      <4>2. scan.coil \notin SavePending(s)'
        BY <4>1, SavePendingStep
      <4> QED
        BY <1>1, <3>3, <4>2 DEF PendingAt
    <3> QED
      BY <3>1, <3>2, <3>3
  <2> QED
    BY <2>4, <2>5
<1>2. CASE scan' = scan /\ ~ScanDecide
  BY <1>1, <1>2 DEF ProbeInv
<1>3. ASSUME NEW c \in Coils, ScanBegin(c)
      PROVE  ProbeInv'
  BY <1>3, ScanBegins, ProbeOrder DEF ProbeInv
<1>4. CASE ScanProbe
  <2>1. CASE scan'.coil = None
    BY <2>1 DEF ProbeInv
  <2>2. CASE /\ scan'.coil = scan.coil /\ scan'.probe = scan.probe + 1
             /\ scan.coil \notin PendingAt(Probed)
    <3>1. ASSUME NEW i \in 1..Len(Probes), i < scan.probe + 1
          PROVE  scan.coil \notin PendingAt(Probes[i])
      <4>1. i < scan.probe \/ Probes[i] = Probed
        BY <1>0, <3>1, ProbeOrder DEF Probed, ScanState
      <4> QED
        BY <1>0, <1>4, <2>2, <4>1, ScanProbes DEF ProbeInv
    <3>2. ASSUME NEW i \in 1..Len(Probes)
          PROVE  PendingAt(Probes[i])' = PendingAt(Probes[i])
      BY <1>4 DEF ScanProbe, PendingAt, JoinPending, SurfPending, SavePending, CoilsIn
    <3> QED
      BY <2>2, <3>1, <3>2 DEF ProbeInv
  <2> QED
    BY <1>4, <2>1, <2>2, ScanProbes
<1>5. CASE ScanDecide
  BY <1>5, ScanDecides, IdleRecords DEF ProbeInv
<1>6. CASE Crash
  BY <1>6, IdleRecords DEF Crash, Fresh, ProbeInv
<1>7. ASSUME NEW t \in Surfaces, Surface(t) \/ Saver(t)
      PROVE  scan' = scan
  BY <1>7, SaverMoves, SurfaceMoves
<1>8. ASSUME NEW t \in Surfaces, NEW c \in Coils, Capture(t, c) \/ Rejoin(t, c)
      PROVE  scan' = scan
  BY <1>8 DEF Capture, Rejoin
<1> QED
  BY <1>2, <1>3, <1>4, <1>5, <1>6, <1>7, <1>8
     DEF Next, Join, JoinGet, JoinSubmit, JoinFinish, vars

Idle(s, c) == c \notin SurfPending(s) /\ c \notin SavePending(s)

\* A coil in nobody's hands at a surface gets there only through JoinWork.
LEMMA IdleStep ==
  ASSUME Shape, [Next]_vars, "rejoin" \notin events, NEW s \in Surfaces, NEW c, Idle(s, c)
  PROVE  Idle(s, c)' \/ (JoinSubmit /\ s = SurfaceSeq[join.next] /\ c = join.coil)
<1>1. c \notin SavePending(s)'
  BY SavePendingStep DEF Idle
<1> QED
  BY <1>1, SurfPendingStep DEF Idle

\* A coil that waits for JoinWork, once, is in no other hands, nor is the one it has,
\* at the surfaces it did not come to yet.
Waits(c) == \E i \in 1..Len(joinQ) : joinQ[i] = c
Due(s, c) ==
  Waits(c) \/ (c = join.coil /\ \E i \in join.next..Len(SurfaceSeq) : SurfaceSeq[i] = s)
JoinInv ==
  /\ \A i, j \in 1..Len(joinQ) : joinQ[i] = joinQ[j] => i = j
  /\ \A c \in Coils : Waits(c) => c # join.coil
  /\ \A s \in Surfaces, c \in Coils : Due(s, c) => Idle(s, c)

\* Steps that leave JoinWork alone.
LEMMA JoinKept ==
  ASSUME Shape, [Next]_vars, "rejoin" \notin events, JoinInv, ~JoinSubmit,
         joinQ' = joinQ,
         join'.coil = None \/ (join'.coil = join.coil /\ join'.next = join.next)
  PROVE  JoinInv'
<1>1. None \notin Coils
  BY PipelineAssumption
<1>2. ASSUME NEW s \in Surfaces, NEW c \in Coils, Due(s, c)'
      PROVE  Idle(s, c)'
  <2>1. Due(s, c)
    BY <1>1, <1>2 DEF Due, Waits
  <2> QED
    BY <2>1, IdleStep DEF JoinInv
<1>3. \A c \in Coils : Waits(c)' => c # join'.coil
  BY <1>1 DEF JoinInv, Waits
<1> QED
  BY <1>2, <1>3 DEF JoinInv

\* A coil comes to JoinWork only when the scanner found it idle.
LEMMA JoinStep ==
  ASSUME Shape, [Next]_vars, "rejoin" \notin events, ProbeInv, JoinInv
  PROVE  JoinInv'
<1> USE DEF stores
<1>0. joinQ \in Seq(Coils) /\ join \in JoinState /\ Len(SurfaceSeq) \in Nat /\ None \notin Coils
  BY Configured, PipelineAssumption DEF Shape, AreaTypes
<1>1. CASE JoinGet
  <2>1. /\ joinQ # <<>> /\ join'.coil = Head(joinQ) /\ join'.next = 1 /\ joinQ' = Tail(joinQ)
        /\ UNCHANGED <<surfQ, saveQ, surf, saver>>
    BY <1>1, JoinGets DEF JoinGet
  <2>2. /\ Len(joinQ) \in Nat \ {0} /\ Len(joinQ') = Len(joinQ) - 1 /\ join'.coil = joinQ[1]
        /\ \A i \in 1..Len(joinQ') : joinQ'[i] = joinQ[i + 1]
    BY <1>0, <2>1, GetFacts
  <2>3. \A s \in Surfaces, c \in Coils : Idle(s, c)' <=> Idle(s, c)
    BY <2>1 DEF Idle, SurfPending, SavePending, CoilsIn
  <2>4. \A i, j \in 1..Len(joinQ') : joinQ'[i] = joinQ'[j] => i = j
    <3>1. ASSUME NEW i \in 1..Len(joinQ'), NEW j \in 1..Len(joinQ'), joinQ'[i] = joinQ'[j]
          PROVE  i = j
      <4>1. i + 1 \in 1..Len(joinQ) /\ j + 1 \in 1..Len(joinQ) /\ joinQ[i + 1] = joinQ[j + 1]
        BY <2>2, <3>1
      <4>2. i + 1 = j + 1
        BY <4>1 DEF JoinInv
      <4> QED
        BY <4>2
    <3> QED
      BY <3>1
  <2>5. ASSUME NEW c \in Coils, Waits(c)'
        PROVE  Waits(c) /\ c # join'.coil
    <3>1. PICK i \in 1..Len(joinQ') : joinQ'[i] = c
      BY <2>5 DEF Waits
    <3>2. i + 1 \in 1..Len(joinQ) /\ i + 1 # 1 /\ 1 \in 1..Len(joinQ) /\ joinQ[i + 1] = c
      BY <2>2, <3>1
    <3>3. joinQ[i + 1] # joinQ[1]
      BY <3>2 DEF JoinInv
    <3> QED
      BY <2>2, <3>2, <3>3 DEF Waits
  <2>6. ASSUME NEW s \in Surfaces, NEW c \in Coils, Due(s, c)'
        PROVE  Idle(s, c)'
    <3>1. Waits(c)
      <4>1. CASE Waits(c)'
        BY <2>5, <4>1
      <4>2. CASE c = join'.coil
        BY <2>2, <4>2 DEF Waits
      <4> QED
        BY <2>6, <4>1, <4>2 DEF Due
    <3> QED
      BY <2>3, <3>1 DEF JoinInv, Due
  <2> QED
    BY <2>4, <2>5, <2>6 DEF JoinInv
<1>2. CASE JoinSubmit
  <2>1. /\ join.next \in 1..Len(SurfaceSeq) /\ join.coil \in Coils
        /\ join'.coil = join.coil /\ join'.next = join.next + 1 /\ joinQ' = joinQ
    BY <1>2, JoinSubmits DEF JoinSubmit
  <2>2. ASSUME NEW s \in Surfaces, NEW c \in Coils, Due(s, c)'
        PROVE  Idle(s, c)'
    <3>1. CASE Waits(c)
      BY <3>1, IdleStep DEF JoinInv, Due
    <3>2. CASE ~Waits(c)
      <4>1. PICK i \in (join.next + 1)..Len(SurfaceSeq) : SurfaceSeq[i] = s /\ c = join.coil
        BY <2>1, <2>2, <3>2 DEF Due, Waits
      <4>2. i \in 1..Len(SurfaceSeq) /\ i \in join.next..Len(SurfaceSeq) /\ i # join.next
        BY <1>0, <2>1
      <4>3. s # SurfaceSeq[join.next]
        BY <2>1, <4>1, <4>2, PipelineAssumption, Configured
      <4>4. Idle(s, c)
        BY <4>1, <4>2 DEF JoinInv, Due
      <4> QED
        BY <4>3, <4>4, IdleStep
    <3> QED
      BY <3>1, <3>2
  <2>3. \A c \in Coils : Waits(c)' => c # join'.coil
    BY <2>1 DEF JoinInv, Waits
  <2> QED
    BY <2>1, <2>2, <2>3 DEF JoinInv
<1>3. CASE JoinFinish
  <2>1. join'.coil = None /\ joinQ' = joinQ /\ ~JoinSubmit
    BY <1>0, <1>3, IdleRecords DEF JoinFinish, JoinSubmit, JoinState
  <2> QED
    BY <2>1, JoinKept
<1>4. CASE ScanDecide
  <2>0. UNCHANGED <<join, surfQ, saveQ, surf, saver>> /\ scan.coil \in Coils
    BY <1>4, ScanDecides DEF ScanDecide
  <2>1. \A s \in Surfaces, c \in Coils : Idle(s, c)' <=> Idle(s, c)
    BY <2>0 DEF Idle, SurfPending, SavePending, CoilsIn
  <2>2. CASE joinQ' = joinQ
    <3>2. ASSUME NEW s \in Surfaces, NEW c \in Coils, Due(s, c)'
          PROVE  Idle(s, c)'
      BY <2>0, <2>1, <2>2, <3>2 DEF JoinInv, Due, Waits
    <3>3. \A c \in Coils : Waits(c)' => c # join'.coil
      BY <2>0, <2>2 DEF JoinInv, Waits
    <3> QED
      BY <2>2, <3>2, <3>3 DEF JoinInv
  <2>3. CASE joinQ' = Append(joinQ, scan.coil) /\ scan.coil \notin JoinPending
    <3>1. /\ Len(joinQ) \in Nat /\ Len(joinQ') = Len(joinQ) + 1
          /\ \A i \in 1..Len(joinQ) : joinQ'[i] = joinQ[i]
          /\ joinQ'[Len(joinQ) + 1] = scan.coil
      BY <1>0, <2>0, <2>3, PutFacts
    <3>2. /\ \A i \in 1..Len(joinQ) : joinQ[i] # scan.coil
          /\ join.coil # scan.coil
      BY <1>0, <2>0, <2>3 DEF JoinPending
    <3>3. \A s \in Surfaces : Idle(s, scan.coil)
      <4>1. scan.coil # None /\ \A i \in 1..Len(Probes) : i < scan.probe
        BY <1>0, <1>4, <2>0, ScanDecides, ProbeOrder
      <4>2. \A i \in 1..Len(Probes) : scan.coil \notin PendingAt(Probes[i])
        BY <4>1 DEF ProbeInv
      <4> QED
        BY <4>2, ProbeOrder DEF Idle, PendingAt
    <3>4. \A i \in 1..Len(joinQ') : i \in 1..Len(joinQ) \/ i = Len(joinQ) + 1
      BY <3>1
    <3>5. \A i, j \in 1..Len(joinQ') : joinQ'[i] = joinQ'[j] => i = j
      BY <3>1, <3>2, <3>4 DEF JoinInv
    <3>6. \A c \in Coils : Waits(c)' => Waits(c) \/ c = scan.coil
      BY <3>1, <3>4 DEF Waits
    <3>7. \A c \in Coils : Waits(c)' => c # join'.coil
      BY <2>0, <3>2, <3>6 DEF JoinInv
    <3>8. ASSUME NEW s \in Surfaces, NEW c \in Coils, Due(s, c)'
          PROVE  Idle(s, c)'
      <4>1. Due(s, c) \/ c = scan.coil
        BY <2>0, <3>6, <3>8 DEF Due
      <4> QED
        BY <2>1, <3>3, <4>1 DEF JoinInv
    <3> QED
      BY <3>5, <3>7, <3>8 DEF JoinInv
  <2> QED
    BY <1>4, <2>2, <2>3, ScanDecides
<1>5. CASE Crash
  <2>1. joinQ' = <<>> /\ join'.coil = None
    BY <1>5, IdleRecords DEF Crash, Fresh
  <2> QED
    BY <1>0, <2>1 DEF JoinInv, Due, Waits
<1>6. ASSUME NEW t \in Surfaces, Surface(t)
      PROVE  joinQ' = joinQ /\ join'.coil = join.coil /\ join'.next = join.next
  BY <1>6, SurfaceMoves
<1>7. ASSUME NEW t \in Surfaces, Saver(t)
      PROVE  UNCHANGED <<joinQ, join>>
  BY <1>7, SaverMoves
<1>8. ASSUME NEW t \in Surfaces, NEW c \in Coils, Capture(t, c) \/ Rejoin(t, c)
      PROVE  UNCHANGED <<joinQ, join>>
  BY <1>8 DEF Capture, Rejoin
<1>9. \/ JoinGet \/ JoinSubmit \/ JoinFinish \/ ScanDecide \/ Crash
      \/ joinQ' = joinQ /\ join'.coil = join.coil /\ join'.next = join.next
  BY <1>6, <1>7, <1>8 DEF Next, ScanBegin, ScanProbe, Join, vars
<1> QED
  BY <1>1, <1>2, <1>3, <1>4, <1>5, <1>9, JoinKept

Asked(s, c) == c \in CoilsIn(surfQ[s]) \/ (surf[s].pc \in AskedPlaces /\ c = surf[s].coil)

\* A surface has each coil once, and until it has handed its coil to the saver, the
\* saver does not have it and its output is not complete.
HandInv(s) ==
  /\ \A i, j \in 1..Len(surfQ[s]) : surfQ[s][i].coil = surfQ[s][j].coil => i = j
  /\ surf[s].coil \notin CoilsIn(surfQ[s])
  /\ \A c \in Coils : Asked(s, c) => c \notin SavePending(s) /\ ~OutputComplete(s, c)

\* The defects of a coil are those of the picture that goes to its files.
PicsInv(s) ==
  /\ surf[s].pc = "save" => defects[s][surf[s].coil] = surf[s].image
  /\ \A i \in 1..Len(saveQ[s]) : defects[s][saveQ[s][i].coil] = saveQ[s][i].image
  /\ saver[s].pc \notin {"get", "finally"} => defects[s][saver[s].coil] = saver[s].image

Match(s, c) == OutputComplete(s, c) => defects[s][c] = disk[s][c].area

\* Which steps touch the coils of a surface.
LEMMA SurfaceOthers ==
  ASSUME Shape, [Next]_vars, "rejoin" \notin events, NEW s \in Surfaces
  PROVE  \/ surfQ'[s] = surfQ[s] /\ surf'[s] = surf[s]
         \/ Surface(s)
         \/ Crash
         \/ /\ JoinSubmit /\ s = SurfaceSeq[join.next] /\ Submit(s, join.coil, TRUE)
            /\ ~OutputComplete(s, join.coil) /\ surf' = surf
<1>1. ASSUME NEW t \in Surfaces, Surface(t), t # s
      PROVE  surfQ'[s] = surfQ[s] /\ surf'[s] = surf[s]
  <2>1. surf'[s] = surf[s]
    BY <1>1, SurfaceMoves DEF Moved
  <2> QED
    BY <1>1, <2>1, SurfaceFlow, SurfQGets
<1>2. ASSUME NEW t \in Surfaces, Saver(t)
      PROVE  UNCHANGED <<surfQ, surf>>
  BY <1>2, SaverMoves
<1>3. ASSUME NEW t \in Surfaces, NEW c \in Coils, Capture(t, c) \/ Rejoin(t, c)
      PROVE  UNCHANGED <<surfQ, surf>>
  BY <1>3 DEF Capture, Rejoin
<1>4. CASE JoinSubmit
  <2>1. surf' = surf /\ SurfaceSeq[join.next] \in Surfaces /\ join.coil \in Coils
    BY <1>4, JoinSubmits, Configured DEF JoinSubmit
  <2> QED
    BY <1>4, <2>1, JoinSubmits, Submits
<1> QED
  BY <1>1, <1>2, <1>3, <1>4
     DEF Next, ScanBegin, ScanProbe, ScanDecide, Join, JoinGet, JoinFinish, vars

\* How coils come to a surface and go on from there.
LEMMA AskedStep ==
  ASSUME Shape, [Next]_vars, "rejoin" \notin events, JoinInv, NEW s \in Surfaces, HandInv(s)
  PROVE  /\ \A i, j \in 1..Len(surfQ'[s]) : surfQ'[s][i].coil = surfQ'[s][j].coil => i = j
         /\ surf'[s].coil \notin CoilsIn(surfQ'[s])
         /\ \A c \in Coils : Asked(s, c)' =>
              \/ Asked(s, c) /\ ~(SurfSave(s) /\ c = surf[s].coil)
              \/ c \notin SavePending(s) /\ ~OutputComplete(s, c) /\ ~SurfSave(s)
<1>0. surfQ[s] \in Seq(SurfItem) /\ None \notin Coils
  BY PipelineAssumption DEF Shape, AreaTypes
<1>1. /\ DOMAIN surfQ[s] = 1..Len(surfQ[s]) /\ CoilsIn(surfQ[s]) \subseteq Coils
      /\ Len(surfQ[s]) \in Nat
  <2>1. DOMAIN surfQ[s] = 1..Len(surfQ[s]) /\ Len(surfQ[s]) \in Nat
    BY <1>0
  <2>2. \A i \in 1..Len(surfQ[s]) : surfQ[s][i] \in SurfItem
    BY <1>0
  <2>3. \A it \in SurfItem : it.coil \in Coils
    BY DEF SurfItem
  <2> QED
    BY <2>1, <2>2, <2>3 DEF CoilsIn
<1>2. CASE surfQ'[s] = surfQ[s] /\ surf'[s] = surf[s] /\ ~Surface(s)
  BY <1>2 DEF HandInv, Asked, Surface
<1>3. CASE SurfGet(s)
  <2>1. /\ surfQ[s] # <<>> /\ surfQ'[s] = Tail(surfQ[s]) /\ surf[s].pc = "get"
        /\ surf'[s].coil = Head(surfQ[s]).coil
    BY <1>3, SurfaceGets, SurfQGets
  <2>2. /\ Len(surfQ'[s]) = Len(surfQ[s]) - 1 /\ surf'[s].coil = surfQ[s][1].coil
        /\ DOMAIN surfQ'[s] = 1..Len(surfQ'[s]) /\ 1 \in 1..Len(surfQ[s])
    BY <1>0, <2>1, GetFacts
  <2>3. ASSUME NEW i \in 1..Len(surfQ'[s])
        PROVE  i + 1 \in 1..Len(surfQ[s]) /\ surfQ'[s][i] = surfQ[s][i + 1] /\ i + 1 # 1
    BY <1>0, <1>1, <2>1, <2>2, GetFacts
  <2>4. ASSUME NEW i \in 1..Len(surfQ'[s]), NEW j \in 1..Len(surfQ'[s]),
               surfQ'[s][i].coil = surfQ'[s][j].coil
        PROVE  i = j
    <3>1. /\ i + 1 \in 1..Len(surfQ[s]) /\ j + 1 \in 1..Len(surfQ[s])
          /\ surfQ[s][i + 1].coil = surfQ[s][j + 1].coil
      BY <2>3, <2>4
    <3>2. i + 1 = j + 1
      BY <3>1 DEF HandInv
    <3> QED
      BY <3>2
  <2>5. surf'[s].coil \notin CoilsIn(surfQ'[s])
    <3>1. ASSUME NEW i \in 1..Len(surfQ'[s])
          PROVE  surfQ'[s][i].coil # surf'[s].coil
      BY <2>2, <2>3 DEF HandInv
    <3> QED
      BY <2>2, <3>1 DEF CoilsIn
  <2>6. CoilsIn(surfQ'[s]) \cup {surf'[s].coil} \subseteq CoilsIn(surfQ[s])
    BY <1>0, <2>1, CoilsGet
  <2> QED
    BY <2>1, <2>4, <2>5, <2>6 DEF Asked, SurfSave
<1>4. CASE Surface(s) /\ ~SurfGet(s)
  <2>1. /\ surfQ' = surfQ /\ surf'[s].coil \in {surf[s].coil, None}
        /\ surf'[s].pc \in AskedPlaces =>
             surf[s].pc \in AskedPlaces /\ surf'[s].coil = surf[s].coil
        /\ SurfSave(s) => surf'[s].pc \notin AskedPlaces
    BY <1>4, SurfaceFlow
  <2> QED
    BY <1>0, <1>1, <2>1 DEF HandInv, Asked
<1>5. CASE Crash
  <2>1. surfQ'[s] = <<>> /\ surf'[s].pc = "get"
    BY <1>5, IdleRecords DEF Crash, Fresh
  <2> QED
    BY <2>1, EmptyQueue DEF Asked, AskedPlaces, CoilsIn
<1>6. CASE /\ JoinSubmit /\ s = SurfaceSeq[join.next] /\ Submit(s, join.coil, TRUE)
           /\ ~OutputComplete(s, join.coil) /\ surf' = surf
  <2> DEFINE it == [coil |-> join.coil, asked |-> TRUE]
  <2>1. join.coil \in Coils /\ Idle(s, join.coil)
    <3>1. join.coil \in Coils /\ join.next \in 1..Len(SurfaceSeq)
      BY <1>6, JoinSubmits
    <3>2. Due(s, join.coil)
      BY <1>6, <3>1, Configured DEF Due
    <3> QED
      BY <3>1, <3>2 DEF JoinInv
  <2>2. surfQ'[s] = Append(surfQ[s], it) /\ it \in SurfItem /\ it.coil = join.coil
    BY <1>6, <2>1, Submits
  <2> HIDE DEF it
  <2>3. CoilsIn(surfQ'[s]) = CoilsIn(surfQ[s]) \cup {join.coil}
    BY <1>0, <2>2, CoilsPut
  <2>4. /\ join.coil \notin CoilsIn(surfQ[s]) /\ join.coil # surf[s].coil
        /\ join.coil \notin SavePending(s)
    BY <1>0, <2>1 DEF Idle, SurfPending
  <2>5. /\ Len(surfQ'[s]) = Len(surfQ[s]) + 1
        /\ \A i \in 1..Len(surfQ[s]) : surfQ'[s][i] = surfQ[s][i]
        /\ surfQ'[s][Len(surfQ[s]) + 1].coil = join.coil
    BY <1>0, <2>2, PutFacts
  <2>6. \A i \in 1..Len(surfQ'[s]) : i \in 1..Len(surfQ[s]) \/ i = Len(surfQ[s]) + 1
    BY <1>1, <2>5
  <2>7. \A i \in 1..Len(surfQ[s]) : surfQ[s][i].coil # join.coil
    BY <1>1, <2>4 DEF CoilsIn
  <2>8. \A i, j \in 1..Len(surfQ'[s]) : surfQ'[s][i].coil = surfQ'[s][j].coil => i = j
    BY <2>5, <2>6, <2>7 DEF HandInv
  <2>9. ~SurfSave(s) \/ surfQ'[s] = surfQ[s]
    BY DEF SurfSave
  <2>10. surf'[s].coil \notin CoilsIn(surfQ'[s])
    BY <1>6, <2>3, <2>4 DEF HandInv
  <2> QED
    BY <1>6, <2>3, <2>4, <2>8, <2>9, <2>10 DEF Asked
<1> QED
  BY <1>2, <1>3, <1>4, <1>5, <1>6, SurfaceOthers

\* The output of a coil the saver does not have stays as it is.
LEMMA OutputStep ==
  ASSUME Shape, [Next]_vars, NEW s \in Surfaces, NEW c \in Coils, c \notin SavePending(s)
  PROVE  OutputComplete(s, c)' <=> OutputComplete(s, c)
<1>1. CASE disk'[s][c] = disk[s][c]
  BY <1>1 DEF OutputComplete
<1>2. CASE FileOps(s)
  <2>1. saver[s].coil # c
    BY <1>2, FileOp, PipelineAssumption DEF SavePending
  <2> QED
    BY <1>1, <1>2, <2>1, FileOp
<1>3. CASE SurfSave(s) \/ SaverGet(s) \/ SaverFinally(s) \/ Crash
  BY <1>1, <1>3 DEF SurfSave, SaverGet, SaverFinally, Crash, stores
<1> QED
  BY <1>1, <1>2, <1>3, SaverAlone DEF Saver, FileOps

\* Until the hand-over the saver does not have the coil.
LEMMA HandStep ==
  ASSUME Shape, [Next]_vars, "rejoin" \notin events, JoinInv, NEW s \in Surfaces, HandInv(s)
  PROVE  HandInv(s)'
<1>1. ASSUME NEW c \in Coils, Asked(s, c)'
      PROVE  c \notin SavePending(s)' /\ ~OutputComplete(s, c)'
  <2>1. c \notin SavePending(s) /\ ~OutputComplete(s, c) /\ ~(SurfSave(s) /\ c = surf[s].coil)
    BY <1>1, AskedStep DEF HandInv
  <2> QED
    BY <2>1, OutputStep, SavePendingStep
<1> QED
  BY <1>1, AskedStep DEF HandInv

\* The defects change only when a surface stores them.
LEMMA DefectsStep ==
  ASSUME Shape, [Next]_vars, NEW s \in Surfaces, NEW c \in Coils
  PROVE  \/ defects'[s][c] = defects[s][c]
         \/ SurfPersist(s) /\ c = surf[s].coil
<1> USE DEF stores
<1>1. ASSUME NEW t \in Surfaces, SurfPersist(t)
      PROVE  defects'[s][c] = defects[s][c] \/ (SurfPersist(s) /\ c = surf[s].coil)
  <2>1. surf[t].coil \in Coils
    BY <1>1 DEF SurfPersist, Shape, AtWork
  <2>2. \A u \in Surfaces, d \in Coils :
          <<u, d>> # <<t, surf[t].coil>> => defects'[u][d] = defects[u][d]
    BY <1>1, <2>1, Persists
  <2> QED
    BY <1>1, <2>2
<1>2. ASSUME NEW t \in Surfaces, Surface(t), ~SurfPersist(t)
      PROVE  defects' = defects
  BY <1>2 DEF Surface, SurfGet, SurfAcquire, SurfLoad, SurfLoaded, SurfDetect,
              SurfSave, SurfWait, SurfFinally, SurfRelease
<1>3. ASSUME NEW t \in Surfaces, Saver(t)
      PROVE  defects' = defects
  BY <1>3, SaverMoves
<1>4. ASSUME NEW t \in Surfaces, NEW d \in Coils, Capture(t, d) \/ Rejoin(t, d)
      PROVE  defects' = defects
  BY <1>4 DEF Capture, Rejoin
<1> QED
  BY <1>1, <1>2, <1>3, <1>4
     DEF Next, ScanBegin, ScanProbe, ScanDecide, Join, JoinGet, JoinSubmit,
         JoinFinish, Crash, vars

\* Defects and picture travel together.
LEMMA PicsStep ==
  ASSUME Shape, [Next]_vars, "rejoin" \notin events, NEW s \in Surfaces,
         HandInv(s), PicsInv(s)
  PROVE  PicsInv(s)'
<1>0. saveQ[s] \in Seq(SaveItem)
  BY DEF Shape, AreaTypes
<1>1. /\ Len(saveQ[s]) \in Nat /\ DOMAIN saveQ[s] = 1..Len(saveQ[s])
      /\ \A i \in 1..Len(saveQ[s]) : saveQ[s][i].coil \in Coils
  <2>1. \A i \in 1..Len(saveQ[s]) : saveQ[s][i] \in SaveItem
    BY <1>0
  <2> QED
    BY <1>0, <2>1 DEF SaveItem
<1>2. saver[s].pc # "get" => saver[s].coil \in Coils
  BY DEF Shape, AtWork
<1>3. CASE SurfPersist(s)
  <2>1. /\ surf[s].pc = "persist" /\ surf[s].coil \in Coils
        /\ UNCHANGED <<saver, saveQ>>
    BY <1>3 DEF SurfPersist, Shape, AtWork
  <2>2. surf[s].coil \notin SavePending(s)
    BY <2>1 DEF HandInv, Asked, AskedPlaces
  <2>3. surf'[s].pc = "save" =>
          defects'[s][surf[s].coil] = surf[s].image
    BY <1>3, <2>1, Persists
  <2>4. surf'[s].coil = surf[s].coil /\ surf'[s].image = surf[s].image
    BY <1>3, SurfaceGoes DEF Goes
  <2>5. ASSUME NEW c \in Coils, c \in SavePending(s)
        PROVE  defects'[s][c] = defects[s][c]
    BY <2>2, <2>5, DefectsStep
  <2>6. ASSUME NEW i \in 1..Len(saveQ[s])
        PROVE  saveQ[s][i].coil \in SavePending(s)
    BY <1>1 DEF SavePending, CoilsIn
  <2>7. saver[s].pc # "get" => saver[s].coil \in SavePending(s)
    BY <1>2, PipelineAssumption DEF SavePending
  <2> QED
    BY <1>1, <1>2, <2>1, <2>3, <2>4, <2>5, <2>6, <2>7 DEF PicsInv
<1>4. CASE ~SurfPersist(s)
  <2>1. \A c \in Coils : defects'[s][c] = defects[s][c]
    BY <1>4, DefectsStep
  <2>2. surf'[s].pc = "save" => defects'[s][surf'[s].coil] = surf'[s].image
    <3>1. CASE Surface(s)
      BY <1>4, <3>1, SurfaceFlow, SurfaceGets
    <3>2. CASE surf'[s] = surf[s]
      <4>1. surf[s].pc = "save" => surf[s].coil \in Coils
        BY DEF Shape, AtWork
      <4> QED
        BY <2>1, <3>2, <4>1 DEF PicsInv
    <3>3. CASE Crash
      BY <3>3, IdleRecords DEF Crash, Fresh
    <3> QED
      BY <3>1, <3>2, <3>3, SurfaceAlone
  <2>3. CASE saver'[s] = saver[s] /\ saveQ'[s] = saveQ[s]
    BY <1>1, <1>2, <2>1, <2>2, <2>3 DEF PicsInv
  <2>4. CASE SurfSave(s)
    <3>1. /\ surf[s].pc = "save" /\ surf[s].coil \in Coils /\ saver' = saver
          /\ defects[s][surf[s].coil] = surf[s].image
      BY <2>4 DEF SurfSave, Shape, AtWork, PicsInv
    <3>2. ASSUME NEW i \in SaveItem, i.coil = surf[s].coil, i.image = surf[s].image,
                 saveQ' = [saveQ EXCEPT ![s] = <<i>>]
          PROVE  PicsInv(s)'
      <4>1. saveQ'[s] = <<i>>
        BY <3>2 DEF Shape, AreaTypes
      <4>2. \A j \in 1..Len(saveQ'[s]) : defects'[s][saveQ'[s][j].coil] = saveQ'[s][j].image
        BY <2>1, <3>1, <3>2, <4>1
      <4> QED
        BY <1>2, <2>1, <2>2, <3>1, <4>2 DEF PicsInv
    <3>3. \/ UNCHANGED saveQ
          \/ \E i \in SaveItem : /\ i.coil = surf[s].coil /\ i.image = surf[s].image
                                 /\ saveQ' = [saveQ EXCEPT ![s] = <<i>>]
      BY <2>4, <3>1, SurfaceHandsOver DEF Picture
    <3> QED
      BY <2>3, <3>1, <3>2, <3>3
  <2>5. CASE SaverGet(s)
    <3>1. /\ saveQ[s] # <<>> /\ saveQ'[s] = Tail(saveQ[s])
          /\ saver'[s].coil = Head(saveQ[s]).coil /\ saver'[s].image = Head(saveQ[s]).image
      BY <2>5, SaverGets, SaveQGets DEF SaverGet
    <3>2. Head(saveQ[s]) = saveQ[s][1] /\ 1 \in 1..Len(saveQ[s])
      BY <1>0, <3>1, GetFacts
    <3>3. ASSUME NEW i \in 1..Len(saveQ'[s])
          PROVE  i + 1 \in 1..Len(saveQ[s]) /\ saveQ'[s][i] = saveQ[s][i + 1]
      BY <1>0, <3>1, GetFacts
    <3>4. ASSUME NEW i \in 1..Len(saveQ'[s])
          PROVE  defects'[s][saveQ'[s][i].coil] = saveQ'[s][i].image
      <4>1. /\ saveQ[s][i + 1].coil \in Coils
            /\ defects[s][saveQ[s][i + 1].coil] = saveQ[s][i + 1].image
        BY <1>1, <3>3 DEF PicsInv
      <4> QED
        BY <2>1, <3>3, <4>1
    <3>5. defects'[s][saver'[s].coil] = saver'[s].image
      BY <1>1, <2>1, <3>1, <3>2 DEF PicsInv
    <3> QED
      BY <2>2, <3>4, <3>5 DEF PicsInv
  <2>6. CASE FileOps(s)
    <3>1. /\ saver'[s].coil = saver[s].coil /\ saver'[s].image = saver[s].image
          /\ saver[s].pc \notin {"get", "finally"} /\ saveQ' = saveQ
      BY <2>6, FileOp
    <3> QED
      BY <1>1, <1>2, <2>1, <2>2, <3>1 DEF PicsInv
  <2>7. CASE SaverFinally(s)
    <3>1. saver'[s].pc = "get" /\ saveQ' = saveQ
      BY <2>7, SaverEnds DEF SaverFinally
    <3> QED
      BY <1>1, <2>1, <2>2, <3>1 DEF PicsInv
  <2>8. CASE Crash
    <3>1. saveQ'[s] = <<>> /\ saver'[s].pc = "get"
      BY <2>8, IdleRecords DEF Crash, Fresh
    <3> QED
      BY <2>2, <3>1 DEF PicsInv
  <2> QED
    BY <2>3, <2>4, <2>5, <2>6, <2>7, <2>8, SaverAlone DEF Saver, FileOps
<1> QED
  BY <1>3, <1>4

\* What counts as complete is shown with its own defects.
LEMMA MatchStep ==
  ASSUME Shape, [Next]_vars, "rejoin" \notin events, NEW s \in Surfaces,
         WriteInv(s), HandInv(s), PicsInv(s), NEW c \in Coils, Match(s, c)
  PROVE  Match(s, c)'
<1>1. CASE disk'[s][c] = disk[s][c]
  <2>1. CASE SurfPersist(s) /\ c = surf[s].coil
    BY <1>1, <2>1 DEF SurfPersist, HandInv, Asked, AskedPlaces, Match, OutputComplete
  <2> QED
    BY <1>1, <2>1, DefectsStep DEF Match, OutputComplete
<1>2. CASE FileOps(s) /\ saver[s].coil = c
  <2>1. /\ saver'[s].coil = c /\ Files(s) \in Output /\ saver[s].pc \notin {"get", "finally"}
        /\ UNCHANGED <<defects, surf>>
        /\ \/ Writes(s, saver[s].pc, saver'[s].pc, Files(s)')
           \/ UNCHANGED disk
    BY <1>2, FileOp
  <2>2. /\ Files(s) = disk[s][c] /\ Files(s)' = disk'[s][c]
        /\ defects'[s][c] = saver[s].image /\ defects[s][c] = saver[s].image
    BY <1>2, <2>1 DEF Files, PicsInv
  <2>3. CASE Writes(s, saver[s].pc, saver'[s].pc, Files(s)')
    BY <2>1, <2>2, <2>3 DEF Writes, WriteInv, Match, OutputComplete, Output
  <2> QED
    BY <1>1, <2>1, <2>3
<1>3. CASE FileOps(s) /\ saver[s].coil # c
  BY <1>1, <1>3, FileOp
<1>4. CASE SurfSave(s) \/ SaverGet(s) \/ SaverFinally(s) \/ Crash
  BY <1>1, <1>4 DEF SurfSave, SaverGet, SaverFinally, Crash, stores
<1> QED
  BY <1>1, <1>2, <1>3, <1>4, SaverAlone DEF Saver, FileOps

\* Without a manual rejoin, all of it.
ScanAlone ==
  "rejoin" \notin events =>
    /\ ProbeInv /\ JoinInv
    /\ \A s \in Surfaces : HandInv(s) /\ PicsInv(s)
    /\ \A s \in Surfaces, c \in Coils : Match(s, c)

\* The invariants hold together: each step of one needs the others.
LEMMA ScanAloneInvariant == Spec => []ScanAlone
<1>1. Init => ScanAlone
  <2> SUFFICES ASSUME Init PROVE ScanAlone
    OBVIOUS
  <2>1. \A s \in Surfaces : /\ surfQ[s] = <<>> /\ surf[s].pc = "get" /\ surf[s].coil = None
                            /\ saveQ[s] = <<>> /\ saver[s].pc = "get"
    BY IdleRecords DEF Init
  <2>2. joinQ = <<>> /\ join.coil = None /\ scan.coil = None
    BY IdleRecords DEF Init
  <2>3. \A s \in Surfaces, c \in Coils : disk[s][c].area = {}
    BY DEF Init, NoOutput
  <2>4. \A s \in Surfaces : CoilsIn(surfQ[s]) = {}
    BY <2>1, EmptyQueue DEF CoilsIn
  <2>5. ProbeInv /\ JoinInv
    BY <2>2, PipelineAssumption DEF ProbeInv, JoinInv, Due, Waits
  <2>6. \A s \in Surfaces : HandInv(s) /\ PicsInv(s)
    BY <2>1, <2>4 DEF HandInv, PicsInv, Asked, AskedPlaces
  <2> QED
    BY <2>3, <2>5, <2>6 DEF ScanAlone, Match, OutputComplete
<1>2. AreaInv /\ ScanAlone /\ [Next]_vars => ScanAlone'
  <2> SUFFICES ASSUME AreaInv, ScanAlone, [Next]_vars, "rejoin" \notin events'
               PROVE  ScanAlone'
    BY DEF ScanAlone
  <2>1. events' = events
    <3>1. ASSUME NEW t \in Surfaces, Surface(t) \/ Saver(t)
          PROVE  events' = events
      BY <3>1, SurfaceMoves, SaverMoves DEF AreaInv
    <3> QED
      BY <3>1 DEF Next, Capture, Rejoin, ScanBegin, ScanProbe, ScanDecide, Join, JoinGet,
                  JoinSubmit, JoinFinish, Crash, vars
  <2>2. ProbeInv' /\ JoinInv'
    BY <2>1, ProbeStep, JoinStep DEF ScanAlone, AreaInv
  <2>3. \A s \in Surfaces : HandInv(s)' /\ PicsInv(s)'
    BY <2>1, HandStep, PicsStep DEF ScanAlone, AreaInv
  <2>4. \A s \in Surfaces, c \in Coils : Match(s, c)'
    BY <2>1, MatchStep DEF ScanAlone, AreaInv
  <2> QED
    BY <2>2, <2>3, <2>4 DEF ScanAlone
<1> QED
  BY <1>1, <1>2, AreaInvariant, PTL DEF Spec

\* Unless a coil was joined by hand, the defects in the database are those of the
\* picture on disk, although they are stored first (SurfaceWork.py:334).
THEOREM DefectsFollowPicture == Spec => []DefectsMatchArea
<1>1. ScanAlone => DefectsMatchArea
  BY DEF ScanAlone, Match, DefectsMatchArea
<1> QED
  BY <1>1, ScanAloneInvariant, PTL

\* Unless a coil was joined by hand, has_pending_work misses no coil, although it asks
\* the workers one after the other while coils move between them (JoinWork.py:48).
THEOREM IdleCoilsAreIdle == Spec => []ScanSawIdle
<1>1. Shape /\ ScanAlone => ScanSawIdle
  <2> SUFFICES ASSUME Shape, ScanAlone, "rejoin" \notin events, scan.coil # None,
                      scan.probe = Len(Probes) + 1, NEW i \in DOMAIN Probes
               PROVE  scan.coil \notin PendingAt(Probes[i])
    BY DEF ScanSawIdle
  <2>1. Len(Probes) \in Nat /\ DOMAIN Probes = 1..Len(Probes)
    BY Configured DEF Probes
  <2> QED
    BY <2>1 DEF ScanAlone, ProbeInv
<1>2. AreaInv => Shape
  BY DEF AreaInv
<1> QED
  BY <1>1, <1>2, AreaInvariant, ScanAloneInvariant, PTL

-----------------------------------------------------------------------------
(* The cache that serves the pictures (SingleFlight). *)

\* The types of what the flights are made of; the cache does not matter here.
FlightTypes ==
  /\ pending \in [Keys -> Callers \cup {Nobody}]
  /\ waitsFor \in [Callers -> Callers \cup {Nobody}]
  /\ pc \in [Callers -> {"idle", "lookup", "wait", "load", "store", "finally"}]
  /\ asked \in [Callers -> Keys \cup {Nobody}]
  /\ \A c \in Callers : pc[c] # "idle" => asked[c] \in Keys

\* Who waits has its pc at the wait.
WaitersWait == \A c \in Callers : waitsFor[c] # Nobody => pc[c] = "wait"

FlightInv == FlightTypes /\ WaitersWait /\ OneFlight /\ NoLostWakeup

\* The inductive invariant holds initially: nobody loads, nobody waits.
LEMMA FlightStarts == FlightInit => FlightInv
<1> SUFFICES ASSUME FlightInit PROVE FlightInv
  OBVIOUS
<1>1. FlightTypes
  BY DEF FlightInit, FlightTypes
<1>2. WaitersWait /\ OneFlight /\ NoLostWakeup
  BY DEF FlightInit, WaitersWait, OneFlight, NoLostWakeup, InFlight
<1> QED
  BY <1>1, <1>2 DEF FlightInv

\* A step of a caller keeps the inductive invariant.
LEMMA FlightCaller ==
  ASSUME NEW c \in Callers, FlightInv, Caller(c)
  PROVE  FlightInv'
<1> USE SingleFlightAssumption DEF FlightInv, FlightTypes
<1>1. CASE Call(c)
  <2>1. FlightTypes'
    BY <1>1 DEF Call
  <2>2. WaitersWait'
    BY <1>1 DEF Call, WaitersWait
  <2>3. OneFlight'
    BY <1>1 DEF Call, OneFlight, InFlight
  <2>4. NoLostWakeup'
    BY <1>1 DEF Call, NoLostWakeup, WaitersWait
  <2> QED
    BY <2>1, <2>2, <2>3, <2>4
<1>2. CASE Hit(c)
  BY <1>2 DEF Hit, Return, WaitersWait, OneFlight, NoLostWakeup, InFlight
<1>3. CASE Lead(c)
  <2>1. FlightTypes' /\ WaitersWait'
    BY <1>3 DEF Lead, WaitersWait
  <2>2. OneFlight'
    BY <1>3 DEF Lead, OneFlight, InFlight
  <2>3. NoLostWakeup'
    BY <1>3 DEF Lead, NoLostWakeup
  <2> QED
    BY <2>1, <2>2, <2>3
<1>4. CASE Follow(c)
  BY <1>4 DEF Follow, WaitersWait, OneFlight, NoLostWakeup, InFlight
<1>5. CASE Woken(c)
  BY <1>5 DEF Woken, WaitersWait, OneFlight, NoLostWakeup, InFlight
<1>6. CASE WaitTimeout(c)
  BY <1>6 DEF WaitTimeout, Return, WaitersWait, OneFlight, NoLostWakeup, InFlight
<1>7. CASE Load(c)
  BY <1>7 DEF Load, WaitersWait, OneFlight, NoLostWakeup, InFlight
<1>8. CASE Store(c)
  BY <1>8 DEF Store, WaitersWait, OneFlight, NoLostWakeup, InFlight
<1>9. CASE Finally(c)
  <2>1. pending[asked[c]] = c
    BY <1>9 DEF Finally, OneFlight, InFlight
  <2>2. FlightTypes' /\ WaitersWait'
    BY <1>9 DEF Finally, Return, Set, WaitersWait
  <2>3. OneFlight'
    BY <1>9, <2>1 DEF Finally, Return, Set, OneFlight, InFlight
  <2>4. NoLostWakeup'
    BY <1>9, <2>1 DEF Finally, Return, Set, NoLostWakeup
  <2> QED
    BY <2>2, <2>3, <2>4
<1> QED
  BY <1>1, <1>2, <1>3, <1>4, <1>5, <1>6, <1>7, <1>8, <1>9 DEF Caller

\* Expiry, rebuilds and clears leave the flights alone.
LEMMA FlightRest ==
  ASSUME FlightInv, Expire \/ Clear \/ (\E k \in Keys : Rebuild(k)) \/ UNCHANGED flightVars
  PROVE  FlightInv'
BY DEF FlightInv, FlightTypes, WaitersWait, OneFlight, NoLostWakeup, InFlight,
       Expire, Clear, Rebuild, flightVars, calls, files

\* The invariant holds in every state, of any behaviour.
LEMMA FlightInductive == FlightSpec => []FlightInv
<1>1. FlightInv /\ [FlightNext]_flightVars => FlightInv'
  BY FlightCaller, FlightRest DEF FlightNext
<1> QED
  BY FlightStarts, <1>1, PTL DEF FlightSpec

\* Concurrent misses of a key lead to one load (wrapper in bounded_cache.py).
THEOREM FlightsCoalesce == FlightSpec => []OneFlight
BY FlightInductive, PTL DEF FlightInv

\* The event a caller waits for is set, or its flight is still on its way.
THEOREM WakeupsArrive == FlightSpec => []NoLostWakeup
BY FlightInductive, PTL DEF FlightInv

=============================================================================
