---------------------------- MODULE RecoveryScan ----------------------------
(***************************************************************************)
(* The scanner of the 2D service (app/algorithm_runtime_2D/server.py and   *)
(* JoinService/RecoveryQueue.py): a thread that looks at the newest coils  *)
(* on every pass and works off a history queue of all others, a few coils  *)
(* at a time; POST /area/scan runs the first half on a thread of its own.  *)
(*                                                                         *)
(* What a coil goes through after it is queued is AreaPipeline; here it is *)
(* in flight until its surfaces have their output or failed.  Coil ids are *)
(* 1..newest, so the newest is the largest.                                *)
(***************************************************************************)
EXTENDS Naturals, FiniteSets, Sequences, SequencesExt

CONSTANTS
  Surfaces,    \* keys of join_config.surfaces
  MaxCoil,     \* model bound: coils that ever arrive
  ScanLimit,   \* scanLimit: folders listed, at most HistoryMax
  HistoryMax,  \* MAX_RECOVERY_COILS
  LiveLimit,   \* liveScanLimit: coils looked at on every pass
  Checks,      \* HISTORY_CHECKS_PER_SCAN
  MaxDepth,    \* maxQueueDepth
  MaxFail,     \* model bound: coils whose work fails
  MaxManual    \* model bound: calls of POST /area/scan

ASSUME ScanAssumption ==
  /\ MaxCoil \in Nat \ {0} /\ HistoryMax \in Nat \ {0}
  /\ ScanLimit \in 1..HistoryMax /\ LiveLimit \in 1..HistoryMax
  /\ Checks \in Nat \ {0} /\ MaxDepth \in Nat \ {0}
  /\ MaxFail \in Nat /\ MaxManual \in Nat

Coils    == 1..MaxCoil
Scanners == {"auto", "manual"}

VARIABLES
  newest,       \* coils 1..newest have a folder
  source,       \* surfaces of a coil with complete and quiet input
  output,       \* surfaces of a coil with complete output
  inflight,     \* pending_coil_ids of JoinWork and everything below it
  history,      \* history_candidates
  known,        \* history_known_ids
  retry,        \* coils with an entry in retry_state
  cooling,      \* coils whose last nextRetryTime lies ahead
  scanRunning,  \* scanRunning
  pc,           \* what each scanner does
  half,         \* which half of its pass the scanner thread is in
  left,         \* candidates it still has to look at
  checks,       \* checks left in take_next_history_candidate
  fails, manuals  \* failures and manual scans so far

disk == <<newest, source, output>>
queue == <<history, known>>
scanVars == <<disk, inflight, queue, retry, cooling, scanRunning, pc,
          half, left, checks, fails, manuals>>

ScanInit ==
  /\ newest \in Coils
  /\ source \in [Coils -> SUBSET Surfaces]
  /\ output \in [Coils -> SUBSET Surfaces]
  /\ \A c \in Coils : output[c] \subseteq source[c] /\ (c > newest => source[c] = {})
  /\ inflight = {} /\ history = <<>> /\ known = {} /\ retry = {} /\ cooling = {}
  /\ scanRunning = FALSE /\ half = "live"
  /\ pc = [s \in Scanners |-> IF s = "auto" THEN "init" ELSE "idle"]
  /\ left = [s \in Scanners |-> <<>>] /\ checks = 0
  /\ fails = 0 /\ manuals = 0

-----------------------------------------------------------------------------
\* The rest of the system: coils and frames arrive, a coil's work ends, a
\* backoff runs out.
NewCoil ==
  /\ newest < MaxCoil /\ newest' = newest + 1
  /\ UNCHANGED <<source, output, inflight, queue, retry, cooling,
                 scanRunning, pc, half, left, checks, fails, manuals>>

Captured(c, f) ==
  /\ c <= newest /\ f \notin source[c]
  /\ source' = [source EXCEPT ![c] = @ \cup {f}]
  /\ UNCHANGED <<newest, output, inflight, queue, retry, cooling,
                 scanRunning, pc, half, left, checks, fails, manuals>>

WorkDone(c) ==
  /\ c \in inflight /\ inflight' = inflight \ {c}
  /\ output' = [output EXCEPT ![c] = source[c]]
  /\ UNCHANGED <<newest, source, queue, retry, cooling, scanRunning,
                 pc, half, left, checks, fails, manuals>>

WorkFails(c) ==
  /\ c \in inflight /\ fails < MaxFail
  /\ inflight' = inflight \ {c} /\ fails' = fails + 1
  /\ \E f \in SUBSET (source[c] \ output[c]) :
       /\ f # source[c] \ output[c]
       /\ output' = [output EXCEPT ![c] = @ \cup f]
  /\ UNCHANGED <<newest, source, queue, retry, cooling, scanRunning,
                 pc, half, left, checks, manuals>>

BackoffOver(c) ==
  /\ c \in cooling /\ cooling' = cooling \ {c}
  /\ UNCHANGED <<disk, inflight, queue, retry, scanRunning, pc, half, left,
                 checks, fails, manuals>>

-----------------------------------------------------------------------------
Take(seq, n) == SubSeq(seq, 1, IF Len(seq) < n THEN Len(seq) ELSE n)

\* _source_coil_ids: the newest folders, newest first.
SourceCoilIds ==
  Take([i \in 1..newest |-> newest + 1 - i], ScanLimit)

\* _coil_needs_work: the coil is looked at once, its answer given here ...
NeedsWork(c) ==
  /\ c \notin inflight
  /\ source[c] \ output[c] # {}
  /\ ~(c \in retry /\ c \in cooling)
Processed(c) == c \notin inflight /\ output[c] = Surfaces

\* ... and its entry in retry_state dropped when nothing is left to do.
ForgetRetry(c) == retry' = IF Processed(c) THEN retry \ {c} ELSE retry

QueueHasCapacity == Cardinality(inflight) < MaxDepth

\* merge_history_candidates: unknown coils to the front, the end cut off.
Merged ==
  Take(SelectSeq(SourceCoilIds, LAMBDA c : c \notin known) \o history, HistoryMax)
MergedKnown(h) == ToSet(h)
Pruned(h) == retry \cap MergedKnown(h)

-----------------------------------------------------------------------------
\* _init_history_candidates by the scanner thread: the list is read before the
\* lock is taken, and takes the place of what a manual scan has merged.
InitList ==
  /\ pc["auto"] = "init"
  /\ left' = [left EXCEPT !["auto"] = SourceCoilIds]
  /\ pc' = [pc EXCEPT !["auto"] = "replace"]
  /\ UNCHANGED <<disk, inflight, queue, retry, cooling, scanRunning, half,
                 checks, fails, manuals>>

InitReplace ==
  /\ pc["auto"] = "replace"
  /\ history' = left["auto"] /\ known' = ToSet(history')
  /\ retry' = retry \cap known' /\ left' = [left EXCEPT !["auto"] = <<>>]
  /\ pc' = [pc EXCEPT !["auto"] = "live"]
  /\ UNCHANGED <<disk, inflight, cooling, scanRunning, half, checks, fails, manuals>>

\* _scan_and_enqueue gives way to one that runs ...
GiveWay(s, next) ==
  /\ scanRunning /\ pc' = [pc EXCEPT ![s] = next]
  /\ UNCHANGED <<queue, retry, scanRunning, half, left, checks>>

Always == TRUE
ScanFree == ~scanRunning

\* ... or merges what the disk holds and takes the newest coils.
LiveBegin(s) ==
  /\ ScanFree /\ scanRunning' = TRUE
  /\ history' = Merged /\ known' = MergedKnown(Merged) /\ retry' = Pruned(Merged)
  /\ left' = [left EXCEPT ![s] = Take(SourceCoilIds, LiveLimit)]
  /\ pc' = [pc EXCEPT ![s] = "enqueue"] /\ UNCHANGED checks

LiveScan ==
  /\ pc["auto"] = "live"
  /\ \/ LiveBegin("auto") /\ half' = "live"
     \/ GiveWay("auto", "history")
  /\ UNCHANGED <<disk, inflight, cooling, fails, manuals>>

ManualScan ==
  /\ pc["manual"] = "idle" /\ manuals < MaxManual /\ manuals' = manuals + 1
  /\ \/ LiveBegin("manual") /\ UNCHANGED half
     \/ GiveWay("manual", "idle")
  /\ UNCHANGED <<disk, inflight, cooling, fails>>

\* The scanner thread goes on with the history while nothing is pending.
HistorySkip ==
  /\ pc["auto"] = "history" /\ ~QueueHasCapacity
  /\ pc' = [pc EXCEPT !["auto"] = "wait"]
  /\ UNCHANGED <<disk, inflight, queue, retry, cooling, scanRunning, half, left,
                 checks, fails, manuals>>

HistoryScan ==
  /\ pc["auto"] = "history" /\ QueueHasCapacity
  /\ \/ GiveWay("auto", "wait")
     \/ /\ ScanFree /\ scanRunning' = TRUE /\ half' = "history"
        /\ checks' = Len(Take(history, Checks))
        /\ pc' = [pc EXCEPT !["auto"] = "check"]
        /\ UNCHANGED <<queue, retry, left>>
  /\ UNCHANGED <<disk, inflight, cooling, fails, manuals>>

\* take_next_history_candidate: one coil evaluated, kept at the end unless it
\* is processed, and returned when it needs work.
HistoryCheck ==
  /\ pc["auto"] = "check" /\ checks > 0
  /\ LET c == Head(history) IN
       /\ history' = (IF Processed(c) THEN Tail(history) ELSE Append(Tail(history), c))
       /\ ForgetRetry(c)
       /\ checks' = (IF NeedsWork(c) THEN 0 ELSE checks - 1)
       /\ left' = [left EXCEPT !["auto"] = IF NeedsWork(c) THEN <<c>> ELSE <<>>]
  /\ pc' = [pc EXCEPT !["auto"] = IF checks' = 0 THEN "enqueue" ELSE "check"]
  /\ UNCHANGED <<disk, inflight, known, cooling, scanRunning, half, fails, manuals>>

HistoryEmpty ==
  /\ pc["auto"] = "check" /\ checks = 0
  /\ pc' = [pc EXCEPT !["auto"] = "enqueue"]
  /\ UNCHANGED <<disk, inflight, queue, retry, cooling, scanRunning, half, left,
                 checks, fails, manuals>>

-----------------------------------------------------------------------------
\* _enqueue_candidates: the loop ends with the list or without room ...
AfterScan(s) == IF s = "manual" THEN "idle"
                ELSE IF half = "live" THEN "history" ELSE "wait"

FinishSilently(s) ==
  /\ left' = [left EXCEPT ![s] = <<>>] /\ pc' = [pc EXCEPT ![s] = AfterScan(s)]
  /\ UNCHANGED scanRunning
FinishScan(s) ==
  /\ scanRunning' = FALSE /\ left' = [left EXCEPT ![s] = <<>>]
  /\ pc' = [pc EXCEPT ![s] = AfterScan(s)]

ScanEnd(s) ==
  /\ pc[s] = "enqueue"
  /\ left[s] = <<>> \/ ~QueueHasCapacity
  /\ FinishScan(s)
  /\ UNCHANGED <<disk, inflight, queue, retry, cooling, half, checks, fails, manuals>>

\* ... skips a coil that needs nothing now ...
Candidate(s) ==
  /\ pc[s] = "enqueue" /\ left[s] # <<>> /\ QueueHasCapacity
  /\ LET c == Head(left[s]) IN
       /\ ForgetRetry(c)
       /\ IF NeedsWork(c)
            THEN pc' = [pc EXCEPT ![s] = "put"] /\ UNCHANGED left
            ELSE left' = [left EXCEPT ![s] = Tail(@)] /\ UNCHANGED pc
  /\ UNCHANGED <<disk, inflight, queue, cooling, scanRunning, half, checks, fails, manuals>>

\* ... and gives the others to JoinWork, which refuses one it already has.
Enqueue(s) ==
  /\ pc[s] = "put"
  /\ LET c == Head(left[s]) IN
       IF c \in inflight
         THEN FinishScan(s) /\ UNCHANGED <<inflight, retry, cooling>>
         ELSE /\ inflight' = inflight \cup {c}
              /\ retry' = retry \cup {c} /\ cooling' = cooling \cup {c}
              /\ left' = [left EXCEPT ![s] = Tail(@)]
              /\ pc' = [pc EXCEPT ![s] = "enqueue"] /\ UNCHANGED scanRunning
  /\ UNCHANGED <<disk, queue, half, checks, fails, manuals>>

\* scanner_stop_event.wait(scanInterval)
Wait ==
  /\ pc["auto"] = "wait" /\ pc' = [pc EXCEPT !["auto"] = "live"]
  /\ UNCHANGED <<disk, inflight, queue, retry, cooling, scanRunning, half, left,
                 checks, fails, manuals>>

Scan(s) == ScanEnd(s) \/ Candidate(s) \/ Enqueue(s)
AutoScan == \/ InitList \/ InitReplace \/ LiveScan \/ HistorySkip \/ HistoryScan
        \/ HistoryCheck \/ HistoryEmpty \/ Wait \/ Scan("auto")

ScanNext ==
  \/ AutoScan \/ ManualScan \/ Scan("manual") \/ NewCoil
  \/ \E c \in Coils :
       \/ WorkDone(c) \/ WorkFails(c) \/ BackoffOver(c)
       \/ \E f \in Surfaces : Captured(c, f)

ScanSpec == ScanInit /\ [][ScanNext]_scanVars

\* The threads run, JoinWork ends what it was given, time passes.
ScanFairSpec ==
  /\ ScanSpec /\ WF_scanVars(AutoScan) /\ WF_scanVars(Scan("manual"))
  /\ \A c \in Coils : WF_scanVars(WorkDone(c)) /\ WF_scanVars(BackoffOver(c))

-----------------------------------------------------------------------------
ScanTypeOK ==
  /\ newest \in Coils /\ source \in [Coils -> SUBSET Surfaces]
  /\ output \in [Coils -> SUBSET Surfaces] /\ inflight \subseteq Coils
  /\ history \in Seq(Coils) /\ known \subseteq Coils /\ retry \subseteq Coils
  /\ cooling \subseteq Coils /\ scanRunning \in BOOLEAN
  /\ half \in {"live", "history"}
  /\ pc \in [Scanners -> {"init", "replace", "live", "history", "check", "enqueue",
                          "put", "wait", "idle"}]
  /\ left \in [Scanners -> Seq(Coils)] /\ checks \in 0..Checks
  /\ fails \in 0..MaxFail /\ manuals \in 0..MaxManual

\* Two scans never fill the pipeline beyond maxQueueDepth: the flag in
\* _scan_and_enqueue keeps the test of the capacity and add_work together.
DepthKept == Cardinality(inflight) <= MaxDepth

\* A coil whose input is complete and whose output is missing gets its output,
\* wherever it stands among the ScanLimit newest (_auto_scan_loop).
AllProcessed ==
  \A c \in Coils : source[c] \ output[c] # {} ~> source[c] \ output[c] = {}

=============================================================================
