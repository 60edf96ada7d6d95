---------------------------- MODULE SingleFlight ----------------------------
(***************************************************************************)
(* The image and data caches of the API service: singleflight_cached over  *)
(* a MemoryBoundedTTLCache (app/Server/cache/bounded_cache.py), and the    *)
(* request that rebuilds the tiles of a picture and clears the cache       *)
(* (app/Server/api/ApiImageServer.py).                                     *)
(*                                                                         *)
(* A value is the version of the file it was loaded from.                  *)
(***************************************************************************)
EXTENDS Naturals, SequencesExt

CONSTANTS
  Callers,     \* threads of the service
  Keys,        \* what they ask for
  Nobody,      \* no caller
  SizeOf,      \* estimate_value_size of the value of a key
  MaxBytes,    \* maxsize
  MaxEntries,  \* max_entries
  MaxRebuilds, \* model bound: rebuilds of files
  MaxFail      \* model bound: loads that raise

ASSUME SingleFlightAssumption ==
  /\ Nobody \notin Callers /\ SizeOf \in [Keys -> Nat \ {0}]
  /\ MaxBytes \in Nat \ {0} /\ MaxEntries \in Nat \ {0}
  /\ MaxRebuilds \in Nat /\ MaxFail \in Nat

VARIABLES
  onDisk,   \* version of the file of each key
  cache,    \* the entries, the one to expire first at the head
  pending,  \* the caller whose event is in `pending` for a key, or Nobody
  pc,       \* per caller: "idle", "lookup", "wait", "load", "store", "finally"
  asked,    \* the key it asks for, or Nobody
  value,    \* the version its load returned
  waitsFor, \* whose event it waits for, Nobody when that is set
  since,    \* cleared[key] when its call began
  cleared,  \* version of each file at the last clear
  clearing, \* a rebuild has yet to clear the cache
  fails     \* counted against MaxFail

calls == <<pc, asked, value, waitsFor, since>>
files == <<onDisk, cleared, clearing>>
flightVars == <<calls, files, cache, pending, fails>>

Cached(k)   == \E i \in DOMAIN cache : cache[i].key = k
EntryOf(k)  == CHOOSE e \in ToSet(cache) : e.key = k
Bytes(c)    == FoldSeq(LAMBDA e, n : SizeOf[e.key] + n, 0, c)

FlightInit ==
  /\ onDisk = [k \in Keys |-> 0] /\ cleared = onDisk /\ clearing = FALSE
  /\ cache = <<>> /\ pending = [k \in Keys |-> Nobody]
  /\ pc = [c \in Callers |-> "idle"] /\ asked = [c \in Callers |-> Nobody]
  /\ value = [c \in Callers |-> 0] /\ since = value
  /\ waitsFor = [c \in Callers |-> Nobody]
  /\ fails = 0

-----------------------------------------------------------------------------
\* The call ends.
Return(c) ==
  /\ pc' = [pc EXCEPT ![c] = "idle"]
  /\ asked' = [asked EXCEPT ![c] = Nobody] /\ since' = [since EXCEPT ![c] = 0]

\* wrapper: under cache_lock, a hit, the own flight or the event of another.
Call(c) ==
  /\ pc[c] = "idle" /\ \E k \in Keys : asked' = [asked EXCEPT ![c] = k]
  /\ since' = [since EXCEPT ![c] = cleared[asked'[c]]]
  /\ pc' = [pc EXCEPT ![c] = "lookup"]
  /\ UNCHANGED <<value, waitsFor, files, cache, pending, fails>>

Hit(c) ==
  /\ pc[c] = "lookup" /\ Cached(asked[c])
  /\ Return(c)
  /\ UNCHANGED <<value, waitsFor, files, cache, pending, fails>>

LeadAlways(c) ==
  /\ pc[c] = "lookup" /\ ~Cached(asked[c])
  /\ pending' = [pending EXCEPT ![asked[c]] = c]
  /\ pc' = [pc EXCEPT ![c] = "load"]
  /\ UNCHANGED <<asked, value, waitsFor, since, files, cache, fails>>

Lead(c) ==
  /\ pc[c] = "lookup" /\ ~Cached(asked[c]) /\ pending[asked[c]] = Nobody
  /\ pending' = [pending EXCEPT ![asked[c]] = c]
  /\ pc' = [pc EXCEPT ![c] = "load"]
  /\ UNCHANGED <<asked, value, waitsFor, since, files, cache, fails>>

Follow(c) ==
  /\ pc[c] = "lookup" /\ ~Cached(asked[c]) /\ pending[asked[c]] # Nobody
  /\ waitsFor' = [waitsFor EXCEPT ![c] = pending[asked[c]]]
  /\ pc' = [pc EXCEPT ![c] = "wait"]
  /\ UNCHANGED <<asked, value, since, files, cache, pending, fails>>

\* event.wait returns, or times out and the call raises.
Woken(c) ==
  /\ pc[c] = "wait" /\ waitsFor[c] = Nobody
  /\ pc' = [pc EXCEPT ![c] = "lookup"]
  /\ UNCHANGED <<asked, value, waitsFor, since, files, cache, pending, fails>>
WaitTimeout(c) ==
  /\ pc[c] = "wait" /\ waitsFor[c] # Nobody
  /\ waitsFor' = [waitsFor EXCEPT ![c] = Nobody]
  /\ Return(c)
  /\ UNCHANGED <<value, files, cache, pending, fails>>

\* function(...) reads the file, or raises.
Load(c) ==
  /\ pc[c] = "load"
  /\ \/ /\ value' = [value EXCEPT ![c] = onDisk[asked[c]]]
        /\ pc' = [pc EXCEPT ![c] = "store"] /\ UNCHANGED fails
     \/ /\ fails < MaxFail /\ fails' = fails + 1
        /\ pc' = [pc EXCEPT ![c] = "finally"] /\ UNCHANGED value
  /\ UNCHANGED <<asked, waitsFor, since, files, cache, pending>>

\* cache[key] = value; the oldest entries make room, a value that is too large
\* is not kept.
Evicted(c, size) ==
  LET fits(n) == Bytes(SubSeq(c, n, Len(c))) + size <= MaxBytes
      first   == CHOOSE n \in 1..(Len(c) + 1) : fits(n) /\ \A m \in 1..(n - 1) : ~fits(m)
  IN  SubSeq(c, first, Len(c))
Limited(c) == IF Len(c) > MaxEntries THEN SubSeq(c, Len(c) - MaxEntries + 1, Len(c)) ELSE c
Put(k, v) ==
  LET others == SelectSeq(cache, LAMBDA e : e.key # k)
  IN  IF SizeOf[k] > MaxBytes THEN cache
      ELSE Limited(Append(Evicted(others, SizeOf[k]), [key |-> k, version |-> v]))

Store(c) ==
  /\ pc[c] = "store"
  /\ cache' = Put(asked[c], value[c])
  /\ pc' = [pc EXCEPT ![c] = "finally"]
  /\ UNCHANGED <<asked, value, waitsFor, since, files, pending, fails>>

\* finally: pending.pop and event.set, under the lock.
NotSet(c) == waitsFor
Set(c) == [w \in Callers |-> IF waitsFor[w] = c THEN Nobody ELSE waitsFor[w]]

\* An exception leaves the flight pending.
FinallyOnSuccess(c) ==
  /\ pc[c] = "finally"
  /\ IF Cached(asked[c])
     THEN pending' = [pending EXCEPT ![asked[c]] = Nobody] /\ waitsFor' = Set(c)
     ELSE UNCHANGED <<pending, waitsFor>>
  /\ Return(c)
  /\ value' = [value EXCEPT ![c] = 0]
  /\ UNCHANGED <<files, cache, fails>>

Finally(c) ==
  /\ pc[c] = "finally"
  /\ pending' = [pending EXCEPT ![asked[c]] = Nobody]
  /\ waitsFor' = Set(c)
  /\ Return(c)
  /\ value' = [value EXCEPT ![c] = 0]
  /\ UNCHANGED <<files, cache, fails>>

Caller(c) ==
  Call(c) \/ Hit(c) \/ Lead(c) \/ Follow(c) \/ Woken(c) \/ WaitTimeout(c)
  \/ Load(c) \/ Store(c) \/ Finally(c)

-----------------------------------------------------------------------------
\* An entry's time to live ends.
Expire ==
  /\ cache # <<>> /\ cache' = Tail(cache)
  /\ UNCHANGED <<calls, files, pending, fails>>

\* rebuild_area_tile_cache_api: new files, then clear_cache.
Rebuild(k) ==
  /\ ~clearing /\ MapThenSumSet(LAMBDA j : onDisk[j], Keys) < MaxRebuilds
  /\ onDisk' = [onDisk EXCEPT ![k] = onDisk[k] + 1] /\ clearing' = TRUE
  /\ UNCHANGED <<calls, cleared, cache, pending, fails>>
Clear ==
  /\ clearing /\ clearing' = FALSE
  /\ cache' = <<>> /\ cleared' = onDisk
  /\ UNCHANGED <<calls, onDisk, pending, fails>>

FlightNext ==
  \/ \E c \in Callers : Caller(c)
  \/ \E k \in Keys : Rebuild(k)
  \/ Expire \/ Clear

FlightSpec == FlightInit /\ [][FlightNext]_flightVars

\* A call that has begun goes on; nobody has to call, and no wait has to time out.
Running(c) ==
  Hit(c) \/ Lead(c) \/ Follow(c) \/ Woken(c) \/ Load(c) \/ Store(c) \/ Finally(c)
FlightFairSpec == FlightSpec /\ \A c \in Callers : WF_flightVars(Running(c))

-----------------------------------------------------------------------------
FlightTypeOK ==
  /\ onDisk \in [Keys -> 0..MaxRebuilds] /\ cleared \in [Keys -> 0..MaxRebuilds]
  /\ clearing \in BOOLEAN /\ fails \in 0..MaxFail
  /\ cache \in Seq([key : Keys, version : 0..MaxRebuilds])
  /\ pending \in [Keys -> Callers \cup {Nobody}]
  /\ waitsFor \in [Callers -> Callers \cup {Nobody}]
  /\ pc \in [Callers -> {"idle", "lookup", "wait", "load", "store", "finally"}]
  /\ asked \in [Callers -> Keys \cup {Nobody}]
  /\ value \in [Callers -> 0..MaxRebuilds] /\ since \in [Callers -> 0..MaxRebuilds]

InFlight(c) == pc[c] \in {"load", "store", "finally"}

\* Concurrent misses are coalesced: a key is loaded by one caller at a time, the
\* one whose event the others find.
OneFlight ==
  /\ \A c \in Callers : InFlight(c) => pending[asked[c]] = c
  /\ \A k \in Keys : pending[k] # Nobody => InFlight(pending[k]) /\ asked[pending[k]] = k

\* No wake-up is lost: a caller waits for an event that is set, or for a flight
\* that will set it.
NoLostWakeup ==
  \A c \in Callers : waitsFor[c] # Nobody => pending[asked[c]] = waitsFor[c]

\* "cleared AREA tile memory cache" (ApiImageServer.py:436): a call that begins
\* after the clear is not served from the files before it.
ClearedIsGone ==
  [][\A c \in Callers : Hit(c) => EntryOf(asked[c]).version >= since[c]]_flightVars

\* When no new requests come in, every call ends, also those that wait for a
\* flight whose load raises; with requests coming in, a waiting call may find
\* another flight each time it wakes up.
CallsEnd ==
  <>[][\A c \in Callers : ~Call(c)]_flightVars =>
     \A c \in Callers : (pc[c] # "idle") ~> (pc[c] = "idle")

=============================================================================
