----------------------------- MODULE PlcSession -----------------------------
(***************************************************************************)
(* PLCConnectionManager (app/plcServer/server.py): the one session to the  *)
(* PLC that the threads of a process share.  The vendor's SDK is not       *)
(* thread-safe, may fail with its own lock left held, and may never        *)
(* return.  One lock with a deadline serializes the callers.               *)
(*                                                                         *)
(* The bridge serves reads and changes of the PLC's address from a pool    *)
(* of threads, the width writer reads and writes from its only one.        *)
(***************************************************************************)
EXTENDS Naturals, FiniteSets

CONSTANTS
  Callers,   \* threads that call the manager
  Clients,   \* SDK clients; a closed one is made anew
  Targets,   \* PLC addresses: ip, rack and slot
  Default,   \* the address in the configuration
  NoClient,  \* no client, no target, no owner
  MaxFault   \* bound: failures and hangs of the SDK, restarts of the process

ASSUME SessionAssumption ==
  /\ NoClient \notin Callers \cup Clients \cup Targets
  /\ Default \in Targets
  /\ MaxFault \in Nat

VARIABLES
  lock,     \* the caller that has _lock, or NoClient
  target,   \* _target
  client,   \* _client when _connected, else NoClient
  fresh,    \* the client whose ConnectServer failed or hangs, or NoClient
  socket,   \* per client the target its socket is open to, or NoClient
  jammed,   \* clients whose interactiveLock an exception left held
  at,       \* per caller: "idle", or where its call stands
  op,       \* per caller: "connect", "read", "write" or the target to configure
  attempt,  \* per caller: the attempt of _execute it is in
  booting,  \* main() of the bridge has yet to try initialize_plc
  faults    \* how many faults have happened

session == <<lock, target, client, fresh, socket, jammed, at, op, attempt, booting, faults>>
Ops     == {"connect", "read", "write"} \cup Targets
Open    == {s \in Clients : socket[s] # NoClient}
Working == {"reset", "connect", "undo", "sdk", "drop", "done", "hung"}

Move(c, l)    == at' = [at EXCEPT ![c] = l]
Unharmed      == faults' = faults
Fault         == faults < MaxFault /\ faults' = faults + 1

SessionInit ==
  /\ lock = NoClient /\ target = Default /\ client = NoClient /\ fresh = NoClient
  /\ socket = [s \in Clients |-> NoClient] /\ jammed = {}
  /\ at = [c \in Callers |-> "idle"] /\ op = [c \in Callers |-> "read"]
  /\ attempt = [c \in Callers |-> 1]
  /\ booting \in BOOLEAN /\ faults = 0

-----------------------------------------------------------------------------
\* A call begins.  main() connects before the service listens.
Ask(c, o) ==
  /\ at[c] = "idle" /\ Move(c, "queue")
  /\ booting <=> o = "connect"
  /\ booting => \A d \in Callers : at[d] = "idle"
  /\ op' = [op EXCEPT ![c] = o] /\ attempt' = [attempt EXCEPT ![c] = 1]
  /\ UNCHANGED <<lock, target, client, fresh, socket, jammed, booting, faults>>

\* _acquire: the lock, or PLCBusyError when it was not free in time.
Take(c) ==
  /\ at[c] = "queue" /\ lock = NoClient /\ lock' = c
  /\ Move(c, IF op[c] \in Targets THEN "reset" ELSE "connect")
  /\ UNCHANGED <<target, client, fresh, socket, jammed, op, attempt, booting, faults>>
Busy(c) ==
  /\ at[c] = "queue" /\ lock # NoClient /\ Move(c, "failed")
  /\ UNCHANGED <<lock, target, client, fresh, socket, jammed, op, attempt, booting, faults>>

\* _safe_close: ConnectClose waits for the SDK's lock; when an exception left it
\* held, the socket is closed by force.
NeverForces(s) == FALSE
ForcesClose(s) == s \in jammed
CanClose(s)    == s # NoClient /\ s \in jammed => ForcesClose(s)
SafeClose(s)   ==
  /\ CanClose(s)
  /\ socket' = [t \in Clients |-> IF t = s THEN NoClient ELSE socket[t]]
  /\ jammed' = jammed \ {s}

\* configure: _disconnect_locked, then the new target.
DropsNone == NoClient
Dropped   == client
Reset(c) ==
  /\ at[c] = "reset" /\ Move(c, "connect")
  /\ SafeClose(Dropped) /\ client' = NoClient
  /\ target' = op[c]
  /\ UNCHANGED <<lock, fresh, op, attempt, booting, faults>>

\* _connect_locked: the session there is, or a new client.
Connected(c) == IF op[c] \in {"read", "write"} THEN "sdk" ELSE "done"
Reuse(c) ==
  /\ at[c] = "connect" /\ client # NoClient /\ Move(c, Connected(c))
  /\ UNCHANGED <<lock, target, client, fresh, socket, jammed, op, attempt, booting, faults>>
Connect(c) ==
  /\ at[c] = "connect" /\ client = NoClient
  /\ \E s \in Clients \ Open :
       /\ socket' = [socket EXCEPT ![s] = target]
       /\ \/ Move(c, Connected(c)) /\ client' = s /\ UNCHANGED <<fresh, jammed, faults>>
          \/ Fault /\ Move(c, "undo") /\ fresh' = s /\ UNCHANGED client
             /\ jammed' \in {jammed, jammed \cup {s}}
          \/ Fault /\ Move(c, "hung") /\ fresh' = s /\ UNCHANGED <<client, jammed>>
  /\ UNCHANGED <<lock, target, op, attempt, booting>>

\* _execute tries twice; connect and configure once.
Retry(c) ==
  /\ attempt' = [attempt EXCEPT ![c] = 2]
  /\ Move(c, IF op[c] \in {"read", "write"} /\ attempt[c] = 1 THEN "connect" ELSE "failed")

\* A client that did not connect is closed.
Failed == fresh
Undo(c) ==
  /\ at[c] = "undo" /\ Retry(c)
  /\ SafeClose(Failed) /\ fresh' = NoClient
  /\ UNCHANGED <<lock, target, client, op, booting, faults>>

\* The callback of read() or write(): the SDK answers, fails, or never returns.
Sdk == UNCHANGED <<lock, target, client, fresh, socket, op, attempt, booting>>
SdkReturns(c) ==
  /\ at[c] = "sdk" /\ Move(c, "done") /\ Sdk /\ UNCHANGED <<jammed, faults>>
SdkFails(c) ==
  /\ at[c] = "sdk" /\ Move(c, "drop") /\ Sdk /\ Fault
  /\ jammed' \in {jammed, jammed \cup {client}}
SdkHangs(c) ==
  /\ at[c] = "sdk" /\ Move(c, "hung") /\ Sdk /\ Fault /\ UNCHANGED jammed

\* _disconnect_locked after a failure, whatever the failure was.
Drop(c) ==
  /\ at[c] = "drop" /\ Retry(c)
  /\ SafeClose(Dropped) /\ client' = NoClient
  /\ UNCHANGED <<lock, target, fresh, op, booting, faults>>

\* The lock is released and the caller has its value or its error.
Answer(c) ==
  /\ at[c] \in {"done", "failed"} /\ Move(c, "idle")
  /\ lock' = IF lock = c THEN NoClient ELSE lock
  /\ booting' = (booting /\ op[c] # "connect")
  /\ UNCHANGED <<target, client, fresh, socket, jammed, op, attempt, faults>>

\* The watchdog replaces a process that reports itself stuck, or the process
\* dies: the kernel closes its sockets, its calls are gone.
Restarted ==
  /\ lock' = NoClient /\ target' = Default /\ client' = NoClient /\ fresh' = NoClient
  /\ socket' = [s \in Clients |-> NoClient] /\ jammed' = {}
  /\ at' = [c \in Callers |-> "idle"] /\ booting' \in BOOLEAN
  /\ UNCHANGED <<op, attempt>>
Restart ==
  /\ \/ Fault
     \/ Unharmed /\ \E c \in Callers : at[c] = "hung"
  /\ Restarted

Serve(c) ==
  \/ Take(c) \/ Busy(c) \/ Reset(c) \/ Reuse(c) \/ Connect(c) \/ Undo(c)
  \/ SdkReturns(c) \/ SdkFails(c) \/ SdkHangs(c) \/ Drop(c) \/ Answer(c)

SessionNext ==
  \/ \E c \in Callers : Serve(c) \/ \E o \in Ops : Ask(c, o)
  \/ Restart
SessionSpec == SessionInit /\ [][SessionNext]_session

-----------------------------------------------------------------------------
SessionTypeOK ==
  /\ lock \in Callers \cup {NoClient} /\ target \in Targets
  /\ client \in Clients \cup {NoClient} /\ fresh \in Clients \cup {NoClient}
  /\ socket \in [Clients -> Targets \cup {NoClient}] /\ jammed \in SUBSET Clients
  /\ at \in [Callers -> Working \cup {"idle", "queue", "failed"}]
  /\ op \in [Callers -> Ops] /\ attempt \in [Callers -> 1..2]
  /\ booting \in BOOLEAN /\ faults \in Nat

\* "Own one PLC session" (server.py:160): whatever fails or is configured, and
\* however callers follow on each other, no second socket to the PLC is open, and
\* calls go to the address that was configured last.
OneSession ==
  /\ \A s, t \in Open : s = t
  /\ client # NoClient => socket[client] = target
=============================================================================
