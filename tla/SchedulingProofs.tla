-------------------------- MODULE SchedulingProofs --------------------------
(***************************************************************************)
(* How the 2D algorithm gets its coils.  The queues of a stage: a coil is  *)
(* in a stage at most once, and no waiter takes another one's result away, *)
(* for any number of callers, any sizes of the two queues, and also when   *)
(* waits time out, the stage is stopped or its thread dies.  The scanner   *)
(* that feeds the first stage: it never fills the pipeline beyond its      *)
(* depth, however its passes and those asked for by hand meet.             *)
(***************************************************************************)
EXTENDS WorkBase, RecoveryScan, QueueLemmas, TLAPS

Busy == {"work", "set", "put", "finish"}

WorkShape ==
  /\ token \in 0..MaxToken
  /\ lock \in Callers \cup {None}
  /\ queueIn \in Seq(Ticket \cup {None}) /\ queueOut \in Seq(Ticket)
  /\ active \in Ticket \cup {None}
  /\ ticket \in [Callers -> Ticket \cup {None}]
  /\ held \in [Callers -> Ticket \cup {None}]
  /\ caller \in [Callers -> {"idle", "add", "take", "poll", "defer", "giveUp"}]

\* The lock admits one adder, and its ticket is on no other place; the sentinel comes
\* last; the worker has a request exactly between mark_started and mark_finished.
QueueInv ==
  /\ \A c \in Callers : caller[c] = "add" => lock = c /\ ticket[c] \in Ticket
  /\ \A c \in Callers : caller[c] = "add" => ticket[c] \notin Queued \cup Active \cup results
  /\ active \notin Queued
  /\ active # None <=> worker \in Busy
  /\ accepting => \A i \in DOMAIN queueIn : queueIn[i] # None

\* A result belongs to a ticket still outstanding, and no ticket is from the future.
TicketInv ==
  /\ results \subseteq outstanding
  /\ \A t \in outstanding \cup Owners : t.token \in 0..token
  /\ \A c \in Callers : held[c] # None => caller[c] = "defer"

WorkInv == WorkShape /\ QueueInv /\ TicketInv /\ DedupExact /\ ResultNotStolen

\* The invariant holds in every state, of any behaviour.
LEMMA WorkAlways == Spec => []WorkInv
<1> USE WorkAssumption
<1>1. Init => WorkInv
  <2> SUFFICES ASSUME Init PROVE WorkInv
    OBVIOUS
  <2>1. queueIn \in Seq(Ticket \cup {None}) /\ queueOut \in Seq(Ticket) /\ DOMAIN queueIn = {}
    BY EmptyQueue DEF Init
  <2>2. Owners = {} /\ Queued = {} /\ Active = {}
    BY <2>1 DEF Init, Owners, Queued, Active, Adding
  <2> QED
    BY <2>1, <2>2 DEF Init, WorkInv, WorkShape, QueueInv, TicketInv, DedupExact,
       ResultNotStolen, Waiting, Busy
<1>2. WorkInv /\ [Next]_vars => WorkInv'
  <2> SUFFICES ASSUME WorkInv, [Next]_vars PROVE WorkInv'
    OBVIOUS
  <2> USE DEF WorkInv
  \* What a step says of the reservations when it moves no ticket.
  <2>1. ASSUME UNCHANGED <<pendingIds, queueIn, active>>,
               \A d \in Callers : /\ caller'[d] = "add" <=> caller[d] = "add"
                                  /\ caller[d] = "add" => ticket'[d] = ticket[d]
        PROVE  /\ Queued' = Queued /\ Active' = Active /\ Owners' = Owners
               /\ DedupExact'
    <3>1. Queued' = Queued /\ Active' = Active
      BY <2>1 DEF Queued, Active
    <3>2. Adding' = Adding
      BY <2>1 DEF Adding
    <3> QED
      BY <2>1, <3>1, <3>2 DEF Owners, DedupExact
  <2>2. ASSUME NEW c \in Callers, NEW id \in Ids, AddWork(c, id) PROVE WorkInv'
    <3> DEFINE t == [id |-> id, token |-> token']
    <3>1. /\ t \in Ticket /\ t.id = id /\ t.token = token + 1 /\ token' = token + 1
          /\ ticket'[c] = t /\ \A d \in Callers \ {c} : ticket'[d] = ticket[d]
      BY <2>2 DEF AddWork, WorkShape, Ticket
    <3> HIDE DEF t
    <3>2. t \notin Owners /\ t \notin outstanding
      BY <3>1 DEF TicketInv, WorkShape
    <3>3. Queued' = Queued /\ Active' = Active /\ queueIn' = queueIn /\ active' = active
      BY <2>2 DEF AddWork, Queued, Active
    <3>4. Adding' = {t}
      <4>1. \A d \in Callers : caller'[d] = "add" <=> d = c
        BY <2>2 DEF AddWork, WorkShape, QueueInv
      <4> QED
        BY <3>1, <4>1 DEF Adding
    <3>5. Owners' = Owners \cup {t}
      <4>1. Adding = {}
        BY <2>2 DEF AddWork, QueueInv, Adding
      <4> QED
        BY <3>3, <3>4, <4>1 DEF Owners
    <3>6. DedupExact'
      <4>1. \A u \in Owners : u.id # id
        BY <2>2 DEF AddWork, MayAdd, DedupExact
      <4> QED
        BY <2>2, <3>1, <3>3, <3>5, <4>1 DEF AddWork, DedupExact
    <3>7. WorkShape'
      BY <2>2, <3>1 DEF AddWork, WorkShape
    <3>8. QueueInv'
      <4>1. t \notin Queued \cup Active \cup results
        BY <3>2 DEF Owners, TicketInv
      <4> QED
        BY <2>2, <3>1, <3>3, <4>1 DEF AddWork, QueueInv, WorkShape
    <3>9. TicketInv'
      <4>1. outstanding' = outstanding \cup {t} /\ results' = results /\ held' = held
        BY <2>2, <3>1 DEF AddWork
      <4>2. \A u \in outstanding' \cup Owners' : u.token \in 0..token'
        BY <3>1, <3>5, <4>1 DEF TicketInv, WorkShape
      <4> QED
        BY <2>2, <4>1, <4>2 DEF AddWork, TicketInv, WorkShape
    <3>10. ResultNotStolen'
      BY <2>2, <3>1 DEF AddWork, WorkShape, ResultNotStolen, InOut, HeldBy, Waiting
    <3> QED
      BY <3>6, <3>7, <3>8, <3>9, <3>10
  <2>3. ASSUME NEW c \in Callers, AddPut(c) PROVE WorkInv'
    <3>1. /\ ticket[c] \in Ticket /\ ticket[c] # None /\ ticket[c] \notin Queued \cup Active
          /\ ticket[c] \notin results
      BY <2>3 DEF AddPut, QueueInv
    <3>2. /\ queueIn' \in Seq(Ticket \cup {None}) /\ Len(queueIn) \in Nat
          /\ DOMAIN queueIn = 1..Len(queueIn) /\ DOMAIN queueIn' = 1..(Len(queueIn) + 1)
          /\ \A i \in 1..Len(queueIn) : queueIn'[i] = queueIn[i]
          /\ queueIn'[Len(queueIn) + 1] = ticket[c]
      BY <2>3, <3>1, PutFacts DEF AddPut, WorkShape
    <3>3. Queued' = Queued \cup {ticket[c]}
      BY <3>1, <3>2 DEF Queued, Stop
    <3>4. Active' = Active
      BY <2>3 DEF AddPut, Active
    <3>5. Adding = {ticket[c]} /\ Adding' = {}
      <4>1. \A d \in Callers : (caller[d] = "add" <=> d = c) /\ caller'[d] # "add"
        BY <2>3 DEF AddPut, WorkShape, QueueInv
      <4> QED
        BY <4>1 DEF Adding
    <3>6. Owners' = Owners
      BY <3>3, <3>4, <3>5 DEF Owners
    <3>7. \A i, j \in DOMAIN queueIn' : queueIn'[i] = queueIn'[j] => i = j
      <4>1. \A i \in DOMAIN queueIn : queueIn[i] # ticket[c]
        BY <3>1 DEF Queued, Stop
      <4> QED
        BY <3>2, <4>1 DEF DedupExact
    <3>8. DedupExact'
      BY <2>3, <3>6, <3>7 DEF AddPut, DedupExact
    <3>9. WorkShape'
      BY <2>3, <3>2 DEF AddPut, resVars, WorkShape
    <3>10. QueueInv'
      <4>1. \A d \in Callers : caller'[d] # "add"
        BY <2>3 DEF AddPut, WorkShape, QueueInv
      <4>2. active' \notin Queued' /\ (active' # None <=> worker' \in Busy)
        BY <2>3, <3>1, <3>3 DEF AddPut, QueueInv, Active
      <4>3. accepting' => \A i \in DOMAIN queueIn' : queueIn'[i] # None
        BY <2>3, <3>1, <3>2 DEF AddPut, QueueInv
      <4> QED
        BY <4>1, <4>2, <4>3 DEF QueueInv
    <3>11. TicketInv'
      BY <2>3, <3>6 DEF AddPut, resVars, TicketInv, WorkShape
    <3>12. ResultNotStolen'
      BY <2>3, <3>1 DEF AddPut, resVars, WorkShape, ResultNotStolen, InOut, HeldBy, Waiting
    <3> QED
      BY <3>8, <3>9, <3>10, <3>11, <3>12
  <2>4. ASSUME NEW c \in Callers, AddFull(c) PROVE WorkInv'
    <3>1. ticket[c] \in Ticket /\ ticket[c] \notin Queued \cup Active \cup results
      BY <2>4 DEF AddFull, QueueInv
    <3>2. Queued' = Queued /\ Active' = Active /\ queueIn' = queueIn
      BY <2>4 DEF AddFull, Queued, Active
    <3>3. Adding = {ticket[c]} /\ Adding' = {}
      <4>1. \A d \in Callers : (caller[d] = "add" <=> d = c) /\ caller'[d] # "add"
        BY <2>4 DEF AddFull, WorkShape, QueueInv
      <4> QED
        BY <4>1 DEF Adding
    <3>4. Owners' = Owners \ {ticket[c]} /\ ticket[c] \in Owners
      BY <3>1, <3>2, <3>3 DEF Owners
    <3>5. DedupExact'
      BY <2>4, <3>2, <3>4 DEF AddFull, DedupExact
    <3>6. WorkShape' /\ QueueInv'
      BY <2>4, <3>2 DEF AddFull, WorkShape, QueueInv
    <3>7. TicketInv' /\ ResultNotStolen'
      BY <2>4, <3>1, <3>4 DEF AddFull, WorkShape, TicketInv, ResultNotStolen, InOut, HeldBy, Waiting
    <3> QED
      BY <3>5, <3>6, <3>7
  <2>5. ASSUME NEW c \in Callers, GetDeferred(c) PROVE WorkInv'
    <3>1. Queued' = Queued /\ Active' = Active /\ Owners' = Owners /\ DedupExact'
      BY <2>5, <2>1 DEF GetDeferred, qVars, WorkShape
    <3>2. WorkShape'
      BY <2>5 DEF GetDeferred, qVars, WorkShape
    <3>3. QueueInv'
      BY <2>5, <3>1 DEF GetDeferred, qVars, WorkShape, QueueInv, Release
    <3>4. TicketInv'
      BY <2>5, <3>1 DEF GetDeferred, qVars, WorkShape, TicketInv, Release
    <3>5. ResultNotStolen'
      BY <2>5 DEF GetDeferred, qVars, WorkShape, TicketInv, ResultNotStolen, Release, InOut, HeldBy, Waiting
    <3> QED
      BY <3>1, <3>2, <3>3, <3>4, <3>5
  <2>6. ASSUME NEW c \in Callers, GetResult(c) PROVE WorkInv'
    <3>1. Queued' = Queued /\ Active' = Active /\ Owners' = Owners /\ DedupExact'
      BY <2>6, <2>1 DEF GetResult, qVars, WorkShape
    <3>2. /\ Head(queueOut) \in Ticket /\ queueOut' \in Seq(Ticket)
          /\ InOut = InOut' \cup {Head(queueOut)}
      <4>1. queueOut # <<>> /\ queueOut \in Seq(Ticket) /\ queueOut' = Tail(queueOut)
        BY <2>6 DEF GetResult, WorkShape
      <4>2. /\ Head(queueOut) \in Ticket /\ queueOut' \in Seq(Ticket)
            /\ Head(queueOut) = queueOut[1] /\ Len(queueOut) \in Nat \ {0}
            /\ DOMAIN queueOut = 1..Len(queueOut) /\ DOMAIN queueOut' = 1..(Len(queueOut) - 1)
            /\ \A i \in 1..(Len(queueOut) - 1) : queueOut'[i] = queueOut[i + 1]
        BY <4>1, GetFacts
      <4>3. \A i \in DOMAIN queueOut : i = 1 \/ (i - 1 \in DOMAIN queueOut' /\ (i - 1) + 1 = i)
        BY <4>2
      <4>4. \A i \in DOMAIN queueOut' : i + 1 \in DOMAIN queueOut
        BY <4>2
      <4>5. 1 \in DOMAIN queueOut
        BY <4>2
      <4> QED
        BY <4>2, <4>3, <4>4, <4>5 DEF InOut
    <3> DEFINE r == Head(queueOut)
    <3>3. /\ caller[c] = "poll" /\ held[c] = None
          /\ UNCHANGED <<events, accepting, stopEvent, qVars, worker, active>>
      BY <2>6 DEF GetResult, TicketInv
    <3>4. CASE /\ r = ticket[c] /\ Release(r) /\ caller' = [caller EXCEPT ![c] = "idle"]
               /\ ticket' = [ticket EXCEPT ![c] = None] /\ held' = held
      <4> HIDE DEF r
      <4>1. WorkShape' /\ QueueInv'
        BY <3>1, <3>2, <3>3, <3>4 DEF qVars, WorkShape, QueueInv, Release
      <4>2. TicketInv'
        BY <3>1, <3>3, <3>4 DEF qVars, WorkShape, TicketInv, Release
      <4>3. ResultNotStolen'
        BY <3>2, <3>3, <3>4 DEF r, WorkShape, ResultNotStolen, Release, HeldBy, Waiting
      <4> QED
        BY <3>1, <4>1, <4>2, <4>3
    <3>5. CASE /\ held' = [held EXCEPT ![c] = r] /\ caller' = [caller EXCEPT ![c] = "defer"]
               /\ r # ticket[c] /\ UNCHANGED <<outstanding, results, deferred, ticket>>
      <4>1. r \in Ticket /\ InOut = InOut' \cup {r}
        BY <3>2
      <4> HIDE DEF r
      <4>2. WorkShape' /\ QueueInv'
        BY <3>1, <3>2, <3>3, <3>5, <4>1 DEF qVars, WorkShape, QueueInv
      <4>3. TicketInv'
        BY <3>1, <3>3, <3>5 DEF qVars, WorkShape, TicketInv
      <4>4. HeldBy' = HeldBy \cup {r}
        BY <3>3, <3>5, <4>1 DEF HeldBy, WorkShape
      <4>5. ResultNotStolen'
        BY <3>3, <3>5, <4>1, <4>4 DEF WorkShape, ResultNotStolen, Waiting
      <4> QED
        BY <3>1, <4>2, <4>3, <4>5
    <3> QED
      BY <2>6, <3>4, <3>5 DEF GetResult, Expected
  <2>7. ASSUME NEW c \in Callers, GetDefer(c) PROVE WorkInv'
    <3>1. Queued' = Queued /\ Active' = Active /\ Owners' = Owners /\ DedupExact'
      BY <2>7, <2>1 DEF GetDefer, qVars, WorkShape
    <3>2. WorkShape'
      BY <2>7 DEF GetDefer, qVars, WorkShape
    <3>3. QueueInv'
      BY <2>7, <3>1 DEF GetDefer, qVars, WorkShape, QueueInv
    <3>4. TicketInv'
      BY <2>7, <3>1 DEF GetDefer, qVars, WorkShape, TicketInv
    <3>5. ResultNotStolen'
      BY <2>7 DEF GetDefer, qVars, WorkShape, TicketInv, ResultNotStolen, InOut, HeldBy, Waiting
    <3> QED
      BY <3>1, <3>2, <3>3, <3>4, <3>5
  <2>8. ASSUME NEW c \in Callers, GetRetry(c) \/ GetGiveUp(c) PROVE WorkInv'
    <3>1. Queued' = Queued /\ Active' = Active /\ Owners' = Owners /\ DedupExact'
      BY <2>8, <2>1 DEF GetRetry, GetGiveUp, qVars, WorkShape
    <3>2. WorkShape' /\ QueueInv'
      BY <2>8, <3>1 DEF GetRetry, GetGiveUp, qVars, resVars, WorkShape, QueueInv
    <3>3. TicketInv' /\ ResultNotStolen'
      BY <2>8, <3>1 DEF GetRetry, GetGiveUp, qVars, resVars, WorkShape, TicketInv, ResultNotStolen,
         InOut, HeldBy, Waiting
    <3> QED
      BY <3>1, <3>2, <3>3
  <2>9. ASSUME NEW c \in Callers, Abandon(c) PROVE WorkInv'
    <3>1. Queued' = Queued /\ Active' = Active /\ Owners' = Owners /\ DedupExact'
      BY <2>9, <2>1 DEF Abandon, qVars, WorkShape
    <3>2. WorkShape' /\ QueueInv'
      BY <2>9, <3>1 DEF Abandon, qVars, WorkShape, QueueInv, Release
    <3>3. TicketInv' /\ ResultNotStolen'
      BY <2>9, <3>1 DEF Abandon, qVars, WorkShape, TicketInv, ResultNotStolen, Release, InOut, HeldBy, Waiting
    <3> QED
      BY <3>1, <3>2, <3>3
  <2>10. CASE AddFindsDead \/ WorkerDies
    <3>1. Queued' = Queued /\ Active' = Active /\ Owners' = Owners /\ DedupExact'
      BY <2>10, <2>1 DEF AddFindsDead, WorkerDies, qVars
    <3> QED
      BY <2>10, <3>1 DEF AddFindsDead, WorkerDies, qVars, resVars, WorkShape, QueueInv, TicketInv,
         ResultNotStolen, InOut, HeldBy, Waiting, Busy
  <2>11. CASE RequestStop
    <3>1. \A d \in Callers : caller[d] # "add"
      BY <2>11 DEF RequestStop, QueueInv
    <3>2. /\ queueIn' \in Seq(Ticket \cup {None}) /\ Queued' = Queued
          /\ \A i, j \in DOMAIN queueIn' : queueIn'[i] = queueIn'[j] => i = j
      <4>1. CASE queueIn' = queueIn
        BY <4>1 DEF Queued, WorkShape, DedupExact
      <4>2. CASE queueIn' = Append(queueIn, None)
        <5>1. /\ queueIn' \in Seq(Ticket \cup {None}) /\ Len(queueIn) \in Nat
              /\ DOMAIN queueIn = 1..Len(queueIn) /\ DOMAIN queueIn' = 1..(Len(queueIn) + 1)
              /\ \A i \in 1..Len(queueIn) : queueIn'[i] = queueIn[i]
              /\ queueIn'[Len(queueIn) + 1] = None
          BY <4>2, PutFacts DEF WorkShape
        <5>2. Queued' = Queued
          BY <5>1 DEF Queued, Stop
        <5>3. \A i \in DOMAIN queueIn : queueIn[i] # None
          BY <2>11 DEF RequestStop, QueueInv
        <5> QED
          BY <5>1, <5>2, <5>3 DEF DedupExact
      <4> QED
        BY <2>11, <4>1, <4>2 DEF RequestStop, Stop
    <3>3. Active' = Active /\ Owners' = Owners
      BY <2>11, <3>2 DEF RequestStop, Active, Owners, Adding
    <3>4. DedupExact'
      BY <2>11, <3>2, <3>3 DEF RequestStop, DedupExact
    <3>5. WorkShape' /\ QueueInv'
      BY <2>11, <3>1, <3>2 DEF RequestStop, resVars, WorkShape, QueueInv
    <3>6. TicketInv' /\ ResultNotStolen'
      BY <2>11, <3>3 DEF RequestStop, resVars, WorkShape, TicketInv, ResultNotStolen, InOut, HeldBy, Waiting
    <3> QED
      BY <3>4, <3>5, <3>6
  <2>12. CASE WorkerGet
    <3>1. CASE UNCHANGED <<queueIn, active>> /\ worker' = "done"
      <4>1. Queued' = Queued /\ Active' = Active /\ Owners' = Owners /\ DedupExact'
        BY <2>12, <3>1, <2>1 DEF WorkerGet
      <4> QED
        BY <2>12, <3>1, <4>1 DEF WorkerGet, resVars, WorkShape, QueueInv, TicketInv,
           ResultNotStolen, InOut, HeldBy, Waiting, Busy
    <3>2. CASE queueIn # <<>> /\ queueIn' = Tail(queueIn)
      <4> DEFINE h == Head(queueIn)
      <4>1. /\ h = queueIn[1] /\ h \in Ticket \cup {None} /\ queueIn' \in Seq(Ticket \cup {None})
            /\ Len(queueIn) \in Nat \ {0}
            /\ DOMAIN queueIn = 1..Len(queueIn) /\ DOMAIN queueIn' = 1..(Len(queueIn) - 1)
            /\ \A i \in 1..(Len(queueIn) - 1) : queueIn'[i] = queueIn[i + 1]
        BY <3>2, GetFacts DEF WorkShape
      <4>2. /\ active = None
            /\ \/ h = None /\ worker' = "done" /\ active' = active
               \/ h # None /\ worker' = "work" /\ active' = h
        BY <2>12, <3>2 DEF WorkerGet, Stop, QueueInv, Busy
      <4> HIDE DEF h
      <4>3. \A i \in DOMAIN queueIn' : i + 1 \in DOMAIN queueIn /\ queueIn'[i] = queueIn[i + 1]
                                        /\ queueIn'[i] # h
        BY <4>1 DEF DedupExact
      <4>4. Queued' = Queued \ {h}
        <5>1. ASSUME NEW i \in DOMAIN queueIn, i # 1
              PROVE  i - 1 \in DOMAIN queueIn' /\ queueIn'[i - 1] = queueIn[i]
          <6>1. i - 1 \in 1..(Len(queueIn) - 1) /\ (i - 1) + 1 = i
            BY <4>1, <5>1
          <6> QED
            BY <4>1, <6>1
        <5> QED
          BY <4>1, <4>3, <5>1 DEF Queued
      <4>5. h # None => h \in Queued
        BY <4>1 DEF Queued, Stop
      <4>6. Owners' = Owners
        <5>1. Adding' = Adding /\ None \notin Queued
          BY <2>12 DEF WorkerGet, Adding, Queued, Stop
        <5> QED
          BY <4>2, <4>4, <4>5, <5>1 DEF Owners, Active
      <4>7. DedupExact'
        <5>1. \A i, j \in DOMAIN queueIn' : queueIn'[i] = queueIn'[j] => i = j
          <6> SUFFICES ASSUME NEW i \in DOMAIN queueIn', NEW j \in DOMAIN queueIn', queueIn'[i] = queueIn'[j]
                       PROVE  i = j
            OBVIOUS
          <6>1. i + 1 = j + 1
            BY <4>3 DEF DedupExact
          <6> QED
            BY <4>1, <6>1
        <5> QED
          BY <2>12, <4>6, <5>1 DEF WorkerGet, DedupExact
      <4>8. WorkShape'
        BY <2>12, <4>1, <4>2 DEF WorkerGet, resVars, WorkShape
      <4>9. QueueInv'
        <5>1. UNCHANGED <<caller, ticket, results, lock, accepting>>
          BY <2>12 DEF WorkerGet, resVars
        <5>2. Active' \subseteq Queued \cup Active /\ None \notin Queued
          BY <4>2, <4>5 DEF Active, Queued, Stop
        <5>3. active' \notin Queued' /\ (active' # None <=> worker' \in Busy)
          BY <4>2, <4>4, <5>2 DEF Busy
        <5>4. accepting => \A i \in DOMAIN queueIn' : queueIn'[i] # None
          BY <4>3 DEF QueueInv
        <5> QED
          BY <4>4, <5>1, <5>2, <5>3, <5>4 DEF QueueInv
      <4>10. TicketInv' /\ ResultNotStolen'
        BY <2>12, <4>2, <4>6 DEF WorkerGet, resVars, WorkShape, TicketInv, ResultNotStolen, InOut,
           HeldBy, Waiting
      <4> QED
        BY <4>7, <4>8, <4>9, <4>10
    <3> QED
      BY <2>12, <3>1, <3>2 DEF WorkerGet
  <2>13. CASE WorkerWork \/ SetCheck
    <3>1. Queued' = Queued /\ Active' = Active /\ Owners' = Owners /\ DedupExact'
      BY <2>13, <2>1 DEF WorkerWork, SetCheck, qVars
    <3>2. WorkShape' /\ QueueInv'
      BY <2>13, <3>1 DEF WorkerWork, SetCheck, qVars, resVars, WorkShape, QueueInv, Busy, Active
    <3>3. TicketInv' /\ ResultNotStolen'
      BY <2>13, <3>1 DEF WorkerWork, SetCheck, qVars, resVars, WorkShape, TicketInv, ResultNotStolen,
         InOut, HeldBy, Waiting, QueueInv, Busy
    <3> QED
      BY <3>1, <3>2, <3>3
  <2>14. CASE SetPut
    <3>1. Queued' = Queued /\ Active' = Active /\ Owners' = Owners /\ DedupExact'
      BY <2>14, <2>1 DEF SetPut, qVars
    <3>2. active \in Ticket
      BY <2>14 DEF SetPut, QueueInv, WorkShape, Busy
    <3>3. CASE queueOut' = Append(queueOut, active) /\ UNCHANGED <<outstanding, results, deferred>>
      <4>1. queueOut' \in Seq(Ticket) /\ InOut' = InOut \cup {active}
        <5>1. /\ queueOut' \in Seq(Ticket) /\ Len(queueOut) \in Nat
              /\ DOMAIN queueOut = 1..Len(queueOut) /\ DOMAIN queueOut' = 1..(Len(queueOut) + 1)
              /\ \A i \in 1..Len(queueOut) : queueOut'[i] = queueOut[i]
              /\ queueOut'[Len(queueOut) + 1] = active
          BY <3>2, <3>3, PutFacts DEF WorkShape
        <5> QED
          BY <5>1 DEF InOut
      <4>2. WorkShape' /\ QueueInv'
        BY <2>14, <3>1, <3>3, <4>1 DEF SetPut, qVars, WorkShape, QueueInv, Busy
      <4>3. TicketInv' /\ ResultNotStolen'
        BY <2>14, <3>1, <3>3, <4>1 DEF SetPut, qVars, WorkShape, TicketInv, ResultNotStolen, HeldBy, Waiting
      <4> QED
        BY <3>1, <4>2, <4>3
    <3>4. CASE Release(active) /\ queueOut' = queueOut
      <4>1. WorkShape' /\ QueueInv'
        BY <2>14, <3>1, <3>4 DEF SetPut, qVars, WorkShape, QueueInv, Busy, Release
      <4>2. TicketInv' /\ ResultNotStolen'
        BY <2>14, <3>1, <3>4 DEF SetPut, qVars, WorkShape, TicketInv, ResultNotStolen, InOut, HeldBy,
           Waiting, Release
      <4> QED
        BY <3>1, <4>1, <4>2
    <3> QED
      BY <2>14, <3>3, <3>4 DEF SetPut
  <2>15. CASE MarkFinished
    <3>1. active \in Ticket /\ active # None /\ Active = {active} /\ Active' = {}
      BY <2>15 DEF MarkFinished, QueueInv, WorkShape, Busy, Active
    <3>2. Queued' = Queued /\ Adding' = Adding /\ queueIn' = queueIn
      BY <2>15 DEF MarkFinished, Queued, Adding
    <3>3. active \notin Queued \cup Adding
      BY <3>1 DEF QueueInv, Adding
    <3>4. Owners' = Owners \ {active} /\ active \in Owners
      BY <3>1, <3>2, <3>3 DEF Owners
    <3>5. DedupExact'
      BY <2>15, <3>2, <3>4 DEF MarkFinished, DedupExact
    <3>6. WorkShape' /\ QueueInv'
      BY <2>15, <3>1, <3>2 DEF MarkFinished, WorkShape, QueueInv, Busy, Queued, Stop
    <3>7. TicketInv' /\ ResultNotStolen'
      BY <2>15, <3>1, <3>4 DEF MarkFinished, WorkShape, TicketInv, ResultNotStolen, InOut, HeldBy, Waiting
    <3> QED
      BY <3>5, <3>6, <3>7
  <2>16. CASE UNCHANGED vars
    <3>1. Queued' = Queued /\ Active' = Active /\ Owners' = Owners /\ DedupExact'
      BY <2>16, <2>1 DEF vars, qVars
    <3> QED
      BY <2>16, <3>1 DEF vars, qVars, resVars, WorkShape, QueueInv, TicketInv,
         ResultNotStolen, InOut, HeldBy, Waiting, Busy
  <2> QED
    BY <2>2, <2>3, <2>4, <2>5, <2>6, <2>7, <2>8, <2>9, <2>10, <2>11, <2>12, <2>13, <2>14, <2>15,
       <2>16 DEF Next, Get, Worker
<1> QED
  BY <1>1, <1>2, PTL DEF Spec

\* For every number of callers and every size of the queues: a coil is queued or in work
\* at most once, and the pending set names exactly those coils.
THEOREM CoilQueuedOnce == Spec => []DedupExact
<1>1. WorkInv => DedupExact
  BY DEF WorkInv
<1> QED
  BY <1>1, WorkAlways, PTL

\* Likewise, a finished result is never lost to its waiter while two threads take from
\* the same queue.
THEOREM ResultsKept == Spec => []ResultNotStolen
<1>1. WorkInv => ResultNotStolen
  BY DEF WorkInv
<1> QED
  BY <1>1, WorkAlways, PTL

\* Only get() moves an answer, and only to what the caller waits for.
LEMMA AnswerStep ==
  ASSUME answer \in [Callers -> Ticket \cup {None}], ticket \in [Callers -> Ticket \cup {None}],
         [Next]_vars
  PROVE  /\ answer' \in [Callers -> Ticket \cup {None}]
         /\ \A c \in Callers : answer'[c] # answer[c] => answer'[c] \in {None, ticket[c]}
<1>1. ASSUME NEW d \in Callers, NEW a \in {None, ticket[d]}, answer' = [answer EXCEPT ![d] = a]
      PROVE  /\ answer' \in [Callers -> Ticket \cup {None}]
             /\ \A c \in Callers : answer'[c] # answer[c] => answer'[c] \in {None, ticket[c]}
  BY <1>1
<1>2. \/ UNCHANGED answer
      \/ \E d \in Callers : \E a \in {None, ticket[d]} : answer' = [answer EXCEPT ![d] = a]
  <2>1. ASSUME NEW d \in Callers, Get(d)
        PROVE  \/ UNCHANGED answer
               \/ \E a \in {None, ticket[d]} : answer' = [answer EXCEPT ![d] = a]
    BY <2>1 DEF Get, GetDeferred, GetResult, GetDefer, GetRetry, GetGiveUp, Abandon, Expected
  <2>2. ASSUME NEW d \in Callers, NEW id \in Ids, AddWork(d, id) \/ AddPut(d) \/ AddFull(d)
        PROVE  UNCHANGED answer
    BY <2>2 DEF AddWork, AddPut, AddFull
  <2>3. ASSUME AddFindsDead \/ RequestStop \/ Worker \/ WorkerDies \/ UNCHANGED vars
        PROVE  UNCHANGED answer
    BY <2>3 DEF AddFindsDead, RequestStop, Worker, WorkerGet, WorkerWork, SetCheck, SetPut,
       MarkFinished, WorkerDies, vars
  <2>4. ASSUME NEW d \in Callers, AddPut(d) \/ AddFull(d) PROVE UNCHANGED answer
    BY <2>4 DEF AddPut, AddFull
  <2> QED
    BY <2>1, <2>2, <2>3, <2>4 DEF Next
<1> QED
  BY <1>1, <1>2

\* A retry of a coil never gets the late result of the attempt before it: whatever a get()
\* returns is made for the ticket its caller holds (WorkBase.get).
THEOREM AnswersAreOwn == Spec => AnswerIsOwn
<1> DEFINE Own == answer \in [Callers -> Ticket \cup {None}]
           Moved == \A c \in Callers : answer'[c] # answer[c] => answer'[c] \in {None, ticket[c]}
<1>1. Init => Own
  BY DEF Init
<1>2. WorkInv /\ Own /\ [Next]_vars => Own' /\ Moved
  BY AnswerStep DEF WorkInv, WorkShape
<1> QED
  BY <1>1, <1>2, WorkAlways, PTL DEF Spec, AnswerIsOwn

-----------------------------------------------------------------------------
(* The recovery scanner. *)

Scanning == {"check", "enqueue", "put"}
ScanPlaces ==
  {"init", "replace", "live", "history", "check", "enqueue", "put", "wait", "idle"}

\* scanRunning is set while a scanner is in its pass, which admits one of them; only that
\* one adds to what is in flight, after it found room.
ScanInv ==
  /\ IsFiniteSet(inflight) /\ pc \in [Scanners -> ScanPlaces] /\ scanRunning \in BOOLEAN
  /\ \A s \in Scanners : pc[s] \in Scanning => scanRunning
  /\ \A s, t \in Scanners : pc[s] \in Scanning /\ pc[t] \in Scanning => s = t
  /\ \A s \in Scanners : pc[s] = "put" => QueueHasCapacity
  /\ DepthKept

\* The invariant holds initially: nothing is in flight.
LEMMA ScanStarts == ScanInit => ScanInv
<1> SUFFICES ASSUME ScanInit PROVE ScanInv
  OBVIOUS
<1>1. IsFiniteSet(inflight) /\ DepthKept
  BY FS_EmptySet, ScanAssumption DEF ScanInit, DepthKept
<1>2. pc \in [Scanners -> ScanPlaces] /\ \A s \in Scanners : pc[s] \in {"init", "idle"}
  BY DEF ScanInit, ScanPlaces, Scanners
<1> QED
  BY <1>1, <1>2 DEF ScanInit, ScanInv, Scanning

\* What is in flight only shrinks, and no scanner moves.
LEMMA ScanAside ==
  ASSUME ScanInv, pc' = pc, scanRunning' = scanRunning, inflight' \subseteq inflight
  PROVE  ScanInv'
<1>1. /\ IsFiniteSet(inflight') /\ Cardinality(inflight') <= Cardinality(inflight)
      /\ Cardinality(inflight') \in Nat /\ Cardinality(inflight) \in Nat
  BY FS_Subset, FS_CardinalityType DEF ScanInv
<1> QED
  BY <1>1, ScanAssumption DEF ScanInv, QueueHasCapacity, DepthKept

\* A scanner moves and the flag with it.
LEMMA ScanMoves ==
  ASSUME ScanInv, NEW s \in Scanners, NEW l \in ScanPlaces, pc' = [pc EXCEPT ![s] = l],
         inflight' = inflight, scanRunning' \in BOOLEAN,
         \/ l \in Scanning /\ scanRunning' /\ (pc[s] \in Scanning \/ ~scanRunning)
         \/ l \notin Scanning /\ pc[s] \notin Scanning /\ scanRunning' = scanRunning
         \/ l \notin Scanning /\ pc[s] \in Scanning,
         l = "put" => QueueHasCapacity
  PROVE  ScanInv'
  BY DEF ScanInv, QueueHasCapacity, DepthKept

\* A scanner puts the coil it has in hand: its own test of the room still holds.
LEMMA ScanPuts ==
  ASSUME ScanInv, NEW s \in Scanners, pc[s] = "put", NEW c, c \notin inflight,
         inflight' = inflight \cup {c}, pc' = [pc EXCEPT ![s] = "enqueue"],
         UNCHANGED scanRunning
  PROVE  ScanInv'
<1>1. /\ IsFiniteSet(inflight') /\ Cardinality(inflight') = Cardinality(inflight) + 1
      /\ Cardinality(inflight) \in Nat
  BY FS_AddElement, FS_CardinalityType DEF ScanInv
<1>2. Cardinality(inflight) < MaxDepth
  BY DEF ScanInv, QueueHasCapacity
<1>3. \A t \in Scanners : pc'[t] # "put"
  BY DEF ScanInv, Scanning
<1> QED
  BY <1>1, <1>2, <1>3, ScanAssumption DEF ScanInv, DepthKept, Scanning, ScanPlaces

\* Every step of the scanners, the clock and JoinWork keeps it.
LEMMA ScanStep == ScanInv /\ [ScanNext]_scanVars => ScanInv'
<1> SUFFICES ASSUME ScanInv, [ScanNext]_scanVars PROVE ScanInv'
  OBVIOUS
<1>0. /\ "auto" \in Scanners /\ "manual" \in Scanners /\ scanRunning \in BOOLEAN
      /\ \A s \in Scanners : pc[s] \in ScanPlaces
  BY DEF ScanInv, Scanners
<1> USE <1>0 DEF Scanning, ScanPlaces
<1>1. CASE \/ NewCoil \/ UNCHANGED scanVars
           \/ \E c \in Coils : \/ WorkDone(c) \/ WorkFails(c) \/ BackoffOver(c)
                               \/ \E f \in Surfaces : Captured(c, f)
  BY <1>1, ScanAside DEF NewCoil, scanVars, WorkDone, WorkFails, BackoffOver, Captured
<1>2. CASE InitList
  BY <1>2, ScanMoves DEF InitList, queue, disk
<1>3. CASE InitReplace
  BY <1>3, ScanMoves DEF InitReplace, disk
<1>4. CASE LiveScan
  BY <1>4, ScanMoves DEF LiveScan, LiveBegin, GiveWay, ScanFree
<1>5. CASE ManualScan
  BY <1>5, ScanMoves DEF ManualScan, LiveBegin, GiveWay, ScanFree, ScanInv
<1>6. CASE HistorySkip \/ Wait
  BY <1>6, ScanMoves DEF HistorySkip, Wait
<1>7. CASE HistoryScan
  BY <1>7, ScanMoves DEF HistoryScan, GiveWay, ScanFree
<1>8. CASE HistoryCheck \/ HistoryEmpty
  <2>1. pc["auto"] \in Scanning /\ scanRunning
    BY <1>8 DEF HistoryCheck, HistoryEmpty, ScanInv
  <2>2. PICK l \in {"check", "enqueue"} : pc' = [pc EXCEPT !["auto"] = l]
    BY <1>8 DEF HistoryCheck, HistoryEmpty
  <2> QED
    BY <1>8, <2>1, <2>2, ScanMoves DEF HistoryCheck, HistoryEmpty
<1>9. ASSUME NEW s \in Scanners, Scan(s) PROVE ScanInv'
  <2>1. PICK l \in {"idle", "history", "wait"} : AfterScan(s) = l
    BY DEF AfterScan
  <2>2. pc[s] \in Scanning => scanRunning
    BY DEF ScanInv
  <2>3. CASE ScanEnd(s)
    BY <2>1, <2>3, ScanMoves DEF ScanEnd, FinishScan
  <2>4. CASE Candidate(s)
    <3>1. pc' = [pc EXCEPT ![s] = "put"] \/ pc' = [pc EXCEPT ![s] = "enqueue"]
      BY <2>4 DEF Candidate, ScanInv
    <3>2. inflight' = inflight /\ scanRunning' = scanRunning /\ QueueHasCapacity
      BY <2>4 DEF Candidate
    <3> QED
      BY <2>2, <2>4, <3>1, <3>2, ScanMoves DEF Candidate
  <2>5. CASE Enqueue(s)
    <3> DEFINE c == Head(left[s])
    <3>1. CASE c \in inflight
      BY <2>1, <2>5, <3>1, ScanMoves DEF Enqueue, FinishScan
    <3>2. CASE c \notin inflight
      BY <2>5, <3>2, ScanPuts DEF Enqueue
    <3> QED
      BY <3>1, <3>2
  <2> QED
    BY <1>9, <2>3, <2>4, <2>5 DEF Scan
<1> QED
  BY <1>1, <1>2, <1>3, <1>4, <1>5, <1>6, <1>7, <1>8, <1>9 DEF ScanNext, AutoScan

\* However many coils, passes and calls of POST /area/scan: scanRunning keeps the test of
\* the capacity and add_work together (server.py, _scan_and_enqueue).
THEOREM ScanKeepsDepth == ScanSpec => []DepthKept
<1>1. ScanInv => DepthKept
  BY DEF ScanInv
<1> QED
  BY <1>1, ScanStarts, ScanStep, PTL DEF ScanSpec
=============================================================================
