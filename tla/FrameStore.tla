----------------------------- MODULE FrameStore -----------------------------
(***************************************************************************)
(* What a camera's save worker promises: a frame identity (coil, kind and  *)
(* index) is handed out only while no frame with that identity is pending  *)
(* or stored, so storing a frame never overwrites another one.  Frames may *)
(* be given up (a full queue, a failed write, a killed process); what is   *)
(* stored stays stored.                                                    *)
(***************************************************************************)
CONSTANT Frame

VARIABLES pending, stored

storeVars == <<pending, stored>>

Init == pending = {} /\ stored = {}

Accept(f) ==
  /\ f \notin pending \cup stored
  /\ pending' = pending \cup {f}
  /\ UNCHANGED stored

Store(f) ==
  /\ f \in pending
  /\ stored' = stored \cup {f}
  /\ UNCHANGED pending

Release(f) ==
  /\ f \in pending
  /\ pending' = pending \ {f}
  /\ UNCHANGED stored

Crash ==
  /\ pending' = {}
  /\ UNCHANGED stored

Next ==
  \/ \E f \in Frame : Accept(f) \/ Store(f) \/ Release(f)
  \/ Crash

Spec == Init /\ [][Next]_storeVars

=============================================================================
