------------------------------ MODULE WorkBase ------------------------------
(***************************************************************************)
(* The ticketed work queue every stage of the 2D algorithm is built from   *)
(* (app/algorithm_runtime_2D/JoinService/WorkBase.py): add_work with       *)
(* deduplication, the worker loop of a stage that answers each request     *)
(* (CameraWork.run, SurfaceWork.run), get() of a result by ticket, and     *)
(* request_stop.                                                           *)
(*                                                                         *)
(* A result carries the ticket it was made for, so the ticket stands for   *)
(* the value too.  Critical sections of add_work that follow one another   *)
(* under the submission lock are one step; heartbeat activities are left   *)
(* out.                                                                    *)
(***************************************************************************)
EXTENDS Naturals, FiniteSets, Sequences

CONSTANTS
  Callers,     \* threads that add work and wait for its result
  Ids,         \* work ids (coil ids)
  MaxToken,    \* model bound: tickets 1..MaxToken are handed out
  InMax,       \* maxsize of queue_in (10)
  OutMax,      \* maxsize of queue_out (10)
  Scenarios,   \* each a set of what may happen in one behaviour: "timeout" (a get
               \* passes its deadline), "stop" (request_stop), "die" (the worker
               \* thread ends by an exception)
  None         \* Python's None

Ticket == [id : Ids, token : 1..MaxToken]
Stop   == None                    \* _STOP_SENTINEL

ASSUME WorkAssumption ==
  /\ None \notin Callers \cup Ticket
  /\ MaxToken \in Nat /\ InMax \in Nat \ {0} /\ OutMax \in Nat \ {0}
  /\ Scenarios \subseteq SUBSET {"timeout", "stop", "die"}

VARIABLES
  events,       \* the scenario of the behaviour, chosen at its start
  accepting,    \* _accepting_work
  stopEvent,    \* _stop_event
  lock,         \* the caller holding _submission_lock in queue_in.put
  token,        \* the last token of _ticket_counter
  pendingIds,   \* _pending_work_ids
  outstanding,  \* _outstanding_tickets
  results,      \* _result_tickets
  deferred,     \* _deferred_results
  queueIn,      \* queue_in
  queueOut,     \* queue_out
  worker,       \* the worker loop: "get", "work", "set", "put", "finish", "done"
  active,       \* the request it handles
  caller,       \* each caller: "idle", "add", "take", "poll", "defer", "giveUp"
  ticket,       \* the ticket it waits for
  held,         \* the foreign result it took from queue_out
  answer        \* what its last get() returned

qVars   == <<lock, token, pendingIds, queueIn>>
resVars == <<outstanding, results, deferred, queueOut>>
vars == <<events, accepting, stopEvent, qVars, resVars, worker, active, caller,
          ticket, held, answer>>

Init ==
  /\ events \in Scenarios
  /\ accepting = TRUE /\ stopEvent = FALSE /\ lock = None /\ token = 0
  /\ pendingIds = {} /\ outstanding = {} /\ results = {} /\ deferred = {}
  /\ queueIn = <<>> /\ queueOut = <<>>
  /\ worker = "get" /\ active = None
  /\ caller = [c \in Callers |-> "idle"] /\ ticket = [c \in Callers |-> None]
  /\ held = [c \in Callers |-> None] /\ answer = [c \in Callers |-> None]

-----------------------------------------------------------------------------
\* add_work: a duplicate of a queued or active id is skipped; otherwise the id
\* is reserved and a fresh ticket becomes outstanding.
MayAddAgain(id) == TRUE
MayAdd(id) == id \notin pendingIds

AddWork(c, id) ==
  /\ caller[c] = "idle" /\ lock = None
  /\ accepting /\ worker # "dead"
  /\ token < MaxToken
  /\ MayAdd(id)
  /\ token' = token + 1
  /\ pendingIds' = pendingIds \cup {id}
  /\ ticket' = [ticket EXCEPT ![c] = [id |-> id, token |-> token']]
  /\ outstanding' = outstanding \cup {ticket'[c]}
  /\ lock' = c
  /\ caller' = [caller EXCEPT ![c] = "add"]
  /\ UNCHANGED <<events, accepting, stopEvent, results, deferred, queueIn,
                 queueOut, worker, active, held, answer>>

\* The first caller to find the worker thread dead closes the queue.
AddFindsDead ==
  /\ lock = None /\ accepting /\ worker = "dead"
  /\ accepting' = FALSE
  /\ UNCHANGED <<events, stopEvent, qVars, resVars, worker, active, caller,
                 ticket, held, answer>>

AddPut(c) ==
  /\ caller[c] = "add" /\ Len(queueIn) < InMax
  /\ queueIn' = Append(queueIn, ticket[c])
  /\ lock' = None
  /\ caller' = [caller EXCEPT ![c] = "take"]
  /\ UNCHANGED <<events, accepting, stopEvent, token, pendingIds, resVars,
                 worker, active, ticket, held, answer>>

\* queue_in stayed full: the reservation is rolled back.
AddFull(c) ==
  /\ caller[c] = "add" /\ Len(queueIn) = InMax
  /\ outstanding' = outstanding \ {ticket[c]}
  /\ pendingIds' = pendingIds \ {ticket[c].id}
  /\ lock' = None
  /\ caller' = [caller EXCEPT ![c] = "idle"]
  /\ ticket' = [ticket EXCEPT ![c] = None]
  /\ UNCHANGED <<events, accepting, stopEvent, token, results, deferred,
                 queueIn, queueOut, worker, active, held, answer>>

\* request_stop waits for the submission lock, so the sentinel comes after every
\* accepted request; with the queue full the event alone stops the worker.
RequestStop ==
  /\ "stop" \in events /\ accepting /\ lock = None
  /\ accepting' = FALSE /\ stopEvent' = TRUE
  /\ queueIn' = IF Len(queueIn) < InMax THEN Append(queueIn, Stop) ELSE queueIn
  /\ UNCHANGED <<events, lock, token, pendingIds, resVars, worker, active,
                 caller, ticket, held, answer>>

-----------------------------------------------------------------------------
\* get_next_work and mark_started.
WorkerGetEager ==
  /\ worker = "get"
  /\ IF stopEvent \/ (queueIn # <<>> /\ Head(queueIn) = Stop)
     THEN worker' = "done" /\ UNCHANGED <<active, queueIn>>
     ELSE /\ queueIn # <<>> /\ queueIn' = Tail(queueIn)
          /\ active' = Head(queueIn) /\ worker' = "work"
  /\ UNCHANGED <<events, accepting, stopEvent, lock, token, pendingIds, resVars,
                 caller, ticket, held, answer>>
WorkerGet ==
  /\ worker = "get"
  /\ IF queueIn = <<>>
     THEN stopEvent /\ worker' = "done" /\ UNCHANGED <<active, queueIn>>
     ELSE /\ queueIn' = Tail(queueIn)
          /\ IF Head(queueIn) = Stop
             THEN worker' = "done" /\ UNCHANGED active
             ELSE active' = Head(queueIn) /\ worker' = "work"
  /\ UNCHANGED <<events, accepting, stopEvent, lock, token, pendingIds, resVars,
                 caller, ticket, held, answer>>

WorkerWork ==
  /\ worker = "work"
  /\ worker' = "set"
  /\ UNCHANGED <<events, accepting, stopEvent, qVars, resVars, active, caller,
                 ticket, held, answer>>

\* set(): a result nobody waits for any more is dropped; otherwise the ticket is
\* marked as having a result ...
SetCheck ==
  /\ worker = "set"
  /\ IF active \in outstanding
     THEN results' = results \cup {active} /\ worker' = "put"
     ELSE worker' = "finish" /\ UNCHANGED results
  /\ UNCHANGED <<events, accepting, stopEvent, qVars, outstanding, deferred,
                 queueOut, active, caller, ticket, held, answer>>

Release(t) ==
  /\ outstanding' = outstanding \ {t}
  /\ results' = results \ {t}
  /\ deferred' = deferred \ {t}

\* ... and the result is put, or given up when queue_out stays full.
SetPut ==
  /\ worker = "put"
  /\ worker' = "finish"
  /\ \/ /\ Len(queueOut) < OutMax
        /\ queueOut' = Append(queueOut, active)
        /\ UNCHANGED <<outstanding, results, deferred>>
     \/ /\ Len(queueOut) = OutMax
        /\ Release(active) /\ UNCHANGED queueOut
  /\ UNCHANGED <<events, accepting, stopEvent, qVars, active, caller, ticket,
                 held, answer>>

\* mark_finished
MarkFinished ==
  /\ worker = "finish"
  /\ pendingIds' = pendingIds \ {active.id}
  /\ IF active \in results
     THEN UNCHANGED <<outstanding, deferred>>
     ELSE outstanding' = outstanding \ {active} /\ deferred' = deferred \ {active}
  /\ active' = None
  /\ worker' = "get"
  /\ UNCHANGED <<events, accepting, stopEvent, lock, token, queueIn, results,
                 queueOut, caller, ticket, held, answer>>

\* The thread ends by an exception after its finally clause (DEBUG re-raises).
WorkerDies ==
  /\ "die" \in events /\ worker = "get"
  /\ worker' = "dead"
  /\ UNCHANGED <<events, accepting, stopEvent, qVars, resVars, active, caller,
                 ticket, held, answer>>

Worker == WorkerGet \/ WorkerWork \/ SetCheck \/ SetPut \/ MarkFinished

-----------------------------------------------------------------------------
\* get(expected_ticket): first the results other callers put aside ...
GetDeferred(c) ==
  /\ caller[c] = "take"
  /\ IF ticket[c] \in deferred
     THEN /\ Release(ticket[c])
          /\ answer' = [answer EXCEPT ![c] = ticket[c]]
          /\ caller' = [caller EXCEPT ![c] = "idle"]
          /\ ticket' = [ticket EXCEPT ![c] = None]
     ELSE /\ caller' = [caller EXCEPT ![c] = "poll"]
          /\ UNCHANGED <<outstanding, results, deferred, answer, ticket>>
  /\ UNCHANGED <<events, accepting, stopEvent, qVars, queueOut, worker, active,
                 held>>

\* ... then queue_out, where the next result may belong to someone else ...
SameId(r, t)   == r.id = t.id
Expected(r, t) == r = t

GetResult(c) ==
  /\ caller[c] = "poll" /\ queueOut # <<>>
  /\ queueOut' = Tail(queueOut)
  /\ LET r == Head(queueOut)
     IN  IF Expected(r, ticket[c])
         THEN /\ Release(r)
              /\ answer' = [answer EXCEPT ![c] = r]
              /\ caller' = [caller EXCEPT ![c] = "idle"]
              /\ ticket' = [ticket EXCEPT ![c] = None]
              /\ UNCHANGED held
         ELSE /\ held' = [held EXCEPT ![c] = r]
              /\ caller' = [caller EXCEPT ![c] = "defer"]
              /\ UNCHANGED <<outstanding, results, deferred, answer, ticket>>
  /\ UNCHANGED <<events, accepting, stopEvent, qVars, worker, active>>

\* ... and is put aside for its owner while that one still waits.
GetDiscard(c) ==
  /\ caller[c] = "defer"
  /\ held' = [held EXCEPT ![c] = None]
  /\ caller' = [caller EXCEPT ![c] = "take"]
  /\ UNCHANGED <<events, accepting, stopEvent, qVars, resVars, worker, active,
                 ticket, answer>>
GetDefer(c) ==
  /\ caller[c] = "defer"
  /\ deferred' = IF held[c] \in outstanding THEN deferred \cup {held[c]} ELSE deferred
  /\ held' = [held EXCEPT ![c] = None]
  /\ caller' = [caller EXCEPT ![c] = "take"]
  /\ UNCHANGED <<events, accepting, stopEvent, qVars, outstanding, results,
                 queueOut, worker, active, ticket, answer>>

\* queue_out is empty: poll again ...
GetRetry(c) ==
  /\ caller[c] = "poll" /\ queueOut = <<>> /\ ~stopEvent
  /\ caller' = [caller EXCEPT ![c] = "take"]
  /\ UNCHANGED <<events, accepting, stopEvent, qVars, resVars, worker, active,
                 ticket, held, answer>>

\* ... or give up, after a stop or once the deadline has passed ...
GetGiveUp(c) ==
  /\ caller[c] = "poll" /\ queueOut = <<>>
  /\ stopEvent \/ "timeout" \in events
  /\ caller' = [caller EXCEPT ![c] = "giveUp"]
  /\ UNCHANGED <<events, accepting, stopEvent, qVars, resVars, worker, active,
                 ticket, held, answer>>

\* ... abandoning the ticket.
Abandon(c) ==
  /\ caller[c] = "giveUp"
  /\ Release(ticket[c])
  /\ answer' = [answer EXCEPT ![c] = None]
  /\ caller' = [caller EXCEPT ![c] = "idle"]
  /\ ticket' = [ticket EXCEPT ![c] = None]
  /\ UNCHANGED <<events, accepting, stopEvent, qVars, queueOut, worker, active,
                 held>>

Get(c) ==
  \/ GetDeferred(c) \/ GetResult(c) \/ GetDefer(c)
  \/ GetRetry(c) \/ GetGiveUp(c) \/ Abandon(c)

Next ==
  \/ \E c \in Callers :
        \/ \E id \in Ids : AddWork(c, id)
        \/ AddPut(c) \/ AddFull(c) \/ Get(c)
  \/ AddFindsDead \/ RequestStop \/ Worker \/ WorkerDies

Spec == Init /\ [][Next]_vars

\* The worker keeps running, and a put ends, by its timeout if need be.
FairSpec ==
  /\ Spec /\ WF_vars(Worker)
  /\ \A c \in Callers : WF_vars(AddPut(c) \/ AddFull(c))

-----------------------------------------------------------------------------
Waiting(c) == caller[c] \in {"take", "poll", "defer", "giveUp"}
Queued  == {queueIn[i] : i \in DOMAIN queueIn} \ {Stop}
Active  == {active} \ {None}
InOut   == {queueOut[i] : i \in DOMAIN queueOut}
Adding  == {ticket[c] : c \in {d \in Callers : caller[d] = "add"}}
Owners  == Queued \cup Active \cup Adding     \* what reserves a coil
HeldBy  == {held[c] : c \in Callers} \ {None}

TypeOK ==
  /\ accepting \in BOOLEAN /\ stopEvent \in BOOLEAN
  /\ lock \in Callers \cup {None}
  /\ token \in 0..MaxToken
  /\ pendingIds \subseteq Ids
  /\ outstanding \subseteq Ticket /\ results \subseteq Ticket
  /\ deferred \subseteq Ticket
  /\ queueIn \in Seq(Ticket \cup {Stop}) /\ Len(queueIn) <= InMax
  /\ queueOut \in Seq(Ticket) /\ Len(queueOut) <= OutMax
  /\ worker \in {"get", "work", "set", "put", "finish", "done", "dead"}
  /\ active \in Ticket \cup {None}
  /\ caller \in [Callers -> {"idle", "add", "take", "poll", "defer", "giveUp"}]
  /\ ticket \in [Callers -> Ticket \cup {None}]
  /\ held \in [Callers -> Ticket \cup {None}]
  /\ answer \in [Callers -> Ticket \cup {None}]

\* "test_work_results_use_submission_ticket_for_same_coil_retry"
\* (test_alg_2d_runtime.py:186): a retry of a coil whose first attempt timed out
\* never gets the first attempt's late result.
AnswerIsOwn ==
  [][ \A c \in Callers : answer'[c] # answer[c] => answer'[c] \in {None, ticket[c]} ]_vars

\* A coil is queued or in work at most once, and the pending set the scheduler
\* and the status page read names exactly those coils.
DedupExact ==
  /\ pendingIds = {t.id : t \in Owners}
  /\ \A t, u \in Owners : t.id = u.id => t = u
  /\ \A i, j \in DOMAIN queueIn : queueIn[i] = queueIn[j] => i = j

\* "test_concurrent_work_result_waiters_do_not_steal_each_others_results"
\* (test_alg_2d_runtime.py:282): a finished result its owner still waits for is
\* in queue_out, put aside for it, or in the hands of a caller about to do so.
ResultNotStolen ==
  \A c \in Callers :
    Waiting(c) /\ ticket[c] \in results =>
      \/ ticket[c] \in InOut \cup deferred \cup HeldBy
      \/ worker = "put" /\ active = ticket[c]

\* request_stop: every request accepted before it is worked off, also when the
\* sentinel did not fit into the queue, unless the worker dies.
StopDrains == stopEvent ~> (worker = "done" /\ Queued = {}) \/ worker = "dead"

\* "test_concurrent_work_result_waiters_do_not_steal_each_others_results"
\* (test_alg_2d_runtime.py:282), for waiters that have a deadline: a get() does
\* not give up while its result, made in time, is in another waiter's hands.
NoResultMissed ==
  [][ \A c \in Callers :
        caller[c] = "poll" /\ caller'[c] = "giveUp"
          => ticket[c] \notin deferred \cup HeldBy ]_vars

=============================================================================
