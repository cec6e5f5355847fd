--------------------------- MODULE MappingPool ---------------------------
(***************************************************************************)
(* OrbwebLanMappingPool and its OrbwebStablePort listeners (orbweb/pool.py)*)
(*                                                                         *)
(* Home Assistant asks the pool for a stable loopback endpoint per camera  *)
(* and camera port; media clients connect to it and are bridged to the     *)
(* camera's current mapping, which is opened on demand and replaced when   *)
(* it has failed.  Opening takes several network awaits under the camera's *)
(* lock; async_close may run at any of them.  A mapping is an opaque       *)
(* object here (PortMapping models its inside); the opener is external and *)
(* either returns a live mapping or raises and leaves nothing behind.      *)
(***************************************************************************)
EXTENDS Naturals, FiniteSets

CONSTANTS
    Hosts,          \* cameras with an Orbweb identity
    RemotePorts,    \* camera ports asked for
    Callers,        \* tasks calling async_get_stable_mapping
    Clients,        \* tasks that ask for a mapping
    Preparers,      \* those of command clients (async_prepare); the others are
                    \* handlers of loopback clients of stable ports
    Maps,           \* mapping objects the opener may return
    None,           \* no mapping, no lock holder
    WaitsForClients \* Server.wait_closed waits for clients (Python >= 3.12.1)

ASSUME ConstantsAssumption ==
    /\ None \notin Maps \cup Callers \cup Clients
    /\ Preparers \subseteq Clients
    /\ WaitsForClients \in BOOLEAN

Keys == Hosts \X RemotePorts   \* the keys of _stable_ports

VARIABLES
    closing,      \* progress of async_close; _closed is closing # "open"
    pooled,       \* _mappings: the stored mapping of each host
    mapState,     \* "unused", "live", "failed" (terminal_error) or "closed" (its
                  \* async_close was called, so is_closed holds)
    mapHost,      \* the camera a mapping was opened for
    lock,         \* holder of each _locks[host]
    handler,      \* each client's _async_handle_client task
    stableLock,   \* holder of each _stable_locks[host]
    caller,       \* each caller of async_get_stable_mapping
    published,    \* keys of _stable_ports
    listening,    \* number of listening stable ports started for each key
    stopping      \* stable ports whose async_close is waiting for the server

vars == <<closing, pooled, mapState, mapHost, lock, handler, stableLock, caller,
          published, listening, stopping>>

NoKey == <<>>
Busy == {"enter", "wait", "open", "dial", "redial", "relay"}

\* Every variable keeps its type: no third attempt of a handler, no listener
\* stopped more often than it was started.
TypeOK ==
    /\ closing \in {"open", "closing", "closed"}
    /\ pooled \in [Hosts -> Maps \cup {None}]
    /\ mapState \in [Maps -> {"unused", "live", "failed", "closed"}]
    /\ mapHost \in [Maps -> Hosts \cup {None}]
    /\ lock \in [Hosts -> Clients \cup {None}]
    /\ handler \in [Clients -> [pc : Busy \cup {"idle", "gone"},
                                key : Keys \cup {NoKey}, attempt : {0, 1},
                                map : Maps \cup {None}, tried : SUBSET Maps]]
    /\ stableLock \in [Hosts -> Callers \cup {None}]
    /\ caller \in [Callers -> [pc : {"idle", "wait", "start", "returned", "raised"},
                               key : Keys \cup {NoKey}]]
    /\ published \subseteq Keys
    /\ listening \in [Keys -> Nat]
    /\ stopping \subseteq Keys

Init ==
    /\ closing = "open"
    /\ pooled = [h \in Hosts |-> None]
    /\ mapState = [m \in Maps |-> "unused"]
    /\ mapHost = [m \in Maps |-> None]
    /\ lock = [h \in Hosts |-> None]
    /\ handler = [c \in Clients |-> [pc |-> "idle", key |-> NoKey, attempt |-> 0,
                                     map |-> None, tried |-> {}]]
    /\ stableLock = [h \in Hosts |-> None]
    /\ caller = [r \in Callers |-> [pc |-> "idle", key |-> NoKey]]
    /\ published = {}
    /\ listening = [k \in Keys |-> 0]
    /\ stopping = {}

\* Mutant: _closed is set at the end of async_close.
ClosedLate == closing = "closed"

\* _closed, set by async_close before anything else.
Closed == closing # "open"
Host(k) == k[1]

\* Mutant: range(3).
ThreeAttempts == 3

\* range(2) of _async_connect_upstream.
Attempts == 2
Live(m) == m # None /\ mapState[m] \in {"live", "failed"}
Healthy(m) == m # None /\ mapState[m] = "live"

\* Mutants: the old mapping is not closed, or not when it has failed.
KeepsMap(m, states) == states
ClosesHealthy(m, states) == IF Healthy(m) THEN [states EXCEPT ![m] = "closed"] ELSE states

\* OrbwebPortMapping.async_close: idempotent.
CloseMap(m, states) == IF Live(m) THEN [states EXCEPT ![m] = "closed"] ELSE states

\* Mutant: no lock is taken.
AlwaysFree(h) == h \in Hosts

\* The asyncio locks of a camera, and the port stored for a key.
Free(h) == lock[h] = None
StableFree(h) == stableLock[h] = None
Stored(k) == k \in published

poolVars == <<pooled, mapState, mapHost, lock>>
stableVars == <<stableLock, caller, published, listening>>

-----------------------------------------------------------------------------
(* async_get_stable_mapping *)

AskStable(r, k) ==
    /\ caller[r].pc = "idle"
    /\ caller' = [caller EXCEPT ![r] = [pc |-> IF Closed THEN "raised" ELSE "wait",
                                        key |-> k]]
    /\ UNCHANGED <<closing, poolVars, handler, stableLock, published, listening,
                   stopping>>

\* The lock is free: re-check, return the port that exists, or start one.
TakeStableLock(r) ==
    LET k == caller[r].key IN
    /\ caller[r].pc = "wait"
    /\ StableFree(Host(k))
    /\ IF Closed \/ Stored(k)
       THEN /\ caller' = [caller EXCEPT ![r].pc = IF Closed THEN "raised" ELSE "returned"]
            /\ UNCHANGED stableLock
       ELSE /\ caller' = [caller EXCEPT ![r].pc = "start"]
            /\ stableLock' = [stableLock EXCEPT ![Host(k)] = r]
    /\ UNCHANGED <<closing, poolVars, handler, published, listening, stopping>>

\* async_start returned: the listener is stored without looking at _closed.
StableStarted(r) ==
    LET k == caller[r].key IN
    /\ caller[r].pc = "start"
    /\ listening' = [listening EXCEPT ![k] = @ + 1]
    /\ published' = published \cup {k}
    /\ stableLock' = [stableLock EXCEPT ![Host(k)] = None]
    /\ caller' = [caller EXCEPT ![r].pc = "returned"]
    /\ UNCHANGED <<closing, poolVars, handler, stopping>>

\* start_server raised OSError.
StableFailed(r) ==
    /\ caller[r].pc = "start"
    /\ stableLock' = [stableLock EXCEPT ![Host(caller[r].key)] = None]
    /\ caller' = [caller EXCEPT ![r].pc = "raised"]
    /\ UNCHANGED <<closing, poolVars, handler, published, listening, stopping>>

-----------------------------------------------------------------------------
(* _async_handle_client, _async_connect_upstream and async_get_mapping *)

Connect(c, k) ==
    /\ c \notin Preparers
    /\ handler[c].pc = "idle"
    /\ listening[k] > 0
    /\ k \notin stopping
    /\ handler' = [handler EXCEPT ![c] = [@ EXCEPT !.pc = "enter", !.key = k]]
    /\ UNCHANGED <<closing, poolVars, stableVars, stopping>>

\* A command client calls async_prepare (commands.py:40): it asks for the mapping
\* of a camera; the port of the key plays no part.
Prepare(c, k) ==
    /\ c \in Preparers
    /\ handler[c].pc = "idle"
    /\ handler' = [handler EXCEPT ![c] = [@ EXCEPT !.pc = "enter", !.key = k]]
    /\ UNCHANGED <<closing, poolVars, stableVars, stopping>>

\* What a task does once async_get_mapping returned: a handler dials the mapping,
\* a preparation is over.
Got(c) == IF c \in Preparers THEN "gone" ELSE "dial"

\* async_get_mapping up to the lock.
EnterGet(c) ==
    /\ handler[c].pc = "enter"
    /\ handler' = [handler EXCEPT ![c].pc = IF Closed THEN "gone" ELSE "wait"]
    /\ UNCHANGED <<closing, poolVars, stableVars, stopping>>

\* The lock is free: re-check, hand out a healthy mapping, or close the stored
\* one and go on to open another while holding the lock.
TakeLock(c) ==
    LET h == Host(handler[c].key) IN
    /\ handler[c].pc = "wait"
    /\ Free(h)
    /\ \/ /\ Closed
          /\ handler' = [handler EXCEPT ![c].pc = "gone"]
          /\ UNCHANGED <<lock, mapState>>
       \/ /\ ~Closed /\ Healthy(pooled[h])
          /\ handler' = [handler EXCEPT ![c] = [@ EXCEPT !.pc = Got(c), !.map = pooled[h]]]
          /\ UNCHANGED <<lock, mapState>>
       \/ /\ ~Closed /\ ~Healthy(pooled[h])
          /\ handler' = [handler EXCEPT ![c].pc = "open"]
          /\ lock' = [lock EXCEPT ![h] = c]
          /\ mapState' = CloseMap(pooled[h], mapState)
    /\ UNCHANGED <<closing, pooled, mapHost, stableVars, stopping>>

\* The opener returned: the mapping is stored without looking at _closed.
Opened(c, m) ==
    LET h == Host(handler[c].key) IN
    /\ handler[c].pc = "open"
    /\ mapState[m] = "unused"
    /\ mapState' = [mapState EXCEPT ![m] = "live"]
    /\ mapHost' = [mapHost EXCEPT ![m] = h]
    /\ pooled' = [pooled EXCEPT ![h] = m]
    /\ lock' = [lock EXCEPT ![h] = None]
    /\ handler' = [handler EXCEPT ![c] = [@ EXCEPT !.pc = Got(c), !.map = m]]
    /\ UNCHANGED <<closing, stableVars, stopping>>

\* Mutant: the lock is not released on an error.
OpenFailedLocked(c) ==
    /\ handler[c].pc = "open"
    /\ handler' = [handler EXCEPT ![c].pc = "gone"]
    /\ UNCHANGED <<closing, poolVars, stableVars, stopping>>

\* Rendezvous, route lookup or the opener raised.
OpenFailed(c) ==
    /\ handler[c].pc = "open"
    /\ lock' = [lock EXCEPT ![Host(handler[c].key)] = None]
    /\ handler' = [handler EXCEPT ![c].pc = "gone"]
    /\ UNCHANGED <<closing, pooled, mapState, mapHost, stableVars, stopping>>

\* The timer of a preparation cancels it where it waits, for the lock or with it:
\* "async with lock" releases it.
PrepareTimeout(c) ==
    /\ c \in Preparers
    /\ handler[c].pc \in {"wait", "open"}
    /\ handler' = [handler EXCEPT ![c].pc = "gone"]
    /\ lock' = [h \in Hosts |-> IF lock[h] = c THEN None ELSE lock[h]]
    /\ UNCHANGED <<closing, pooled, mapState, mapHost, stableVars, stopping>>

Dialled(c) ==
    /\ handler[c].pc = "dial"
    /\ Live(handler[c].map)
    /\ handler' = [handler EXCEPT ![c].pc = "relay"]
    /\ UNCHANGED <<closing, poolVars, stableVars, stopping>>

\* OSError from open_connection: the mapping is closed.
DialFailed(c) ==
    /\ handler[c].pc = "dial"
    /\ mapState' = CloseMap(handler[c].map, mapState)
    /\ handler' = [handler EXCEPT ![c] = [@ EXCEPT !.pc = "redial",
                       !.tried = handler[c].tried \cup {handler[c].map}]]
    /\ UNCHANGED <<closing, pooled, mapHost, lock, stableVars, stopping>>

\* That close is over, which other tasks may have long overtaken: one retry.
Redial(c) ==
    /\ handler[c].pc = "redial"
    /\ handler' = [handler EXCEPT ![c] =
           IF handler[c].attempt + 1 = Attempts THEN [@ EXCEPT !.pc = "gone"]
           ELSE [@ EXCEPT !.pc = "enter", !.map = None, !.attempt = handler[c].attempt + 1]]
    /\ UNCHANGED <<closing, poolVars, stableVars, stopping>>

\* Either side of the bridge ended.
RelayEnds(c) ==
    /\ handler[c].pc = "relay"
    /\ handler' = [handler EXCEPT ![c].pc = "gone"]
    /\ UNCHANGED <<closing, poolVars, stableVars, stopping>>

-----------------------------------------------------------------------------
(* The mappings, and async_close *)

\* A mapping stops on its own: terminal_error is set, then its async_close runs.
MapFails(m) ==
    /\ mapState[m] = "live"
    /\ mapState' = [mapState EXCEPT ![m] = "failed"]
    /\ UNCHANGED <<closing, pooled, mapHost, lock, handler, stableVars, stopping>>

MapCloses(m) ==
    /\ mapState[m] = "failed"
    /\ mapState' = [mapState EXCEPT ![m] = "closed"]
    /\ UNCHANGED <<closing, pooled, mapHost, lock, handler, stableVars, stopping>>

\* async_close up to its gather: the flag, the snapshots, and the synchronous
\* part of every close it gathers.
PoolClose ==
    /\ closing = "open"
    /\ closing' = "closing"
    /\ stopping' = published
    /\ published' = {}
    /\ pooled' = [h \in Hosts |-> None]
    /\ mapState' = [m \in Maps |->
          IF \E h \in Hosts : pooled[h] = m /\ Live(m) THEN "closed" ELSE mapState[m]]
    /\ UNCHANGED <<mapHost, lock, handler, stableLock, caller, listening>>

Bridged(k) == {c \in Clients \ Preparers : handler[c].pc \in Busy /\ handler[c].key = k}

\* OrbwebStablePort.async_close after server.wait_closed: writers are closed
\* and client tasks cancelled only now.
StableStops(k) ==
    /\ k \in stopping
    /\ WaitsForClients => Bridged(k) = {}
    /\ stopping' = stopping \ {k}
    /\ listening' = [listening EXCEPT ![k] = @ - 1]
    /\ handler' = [c \in Clients |->
          IF c \in Bridged(k) THEN [handler[c] EXCEPT !.pc = "gone"] ELSE handler[c]]
    /\ lock' = [h \in Hosts |-> IF lock[h] \in Bridged(k) THEN None ELSE lock[h]]
    /\ UNCHANGED <<closing, pooled, mapState, mapHost, stableLock, caller, published>>

PoolClosed ==
    /\ closing = "closing"
    /\ stopping = {}
    /\ closing' = "closed"
    /\ UNCHANGED <<poolVars, handler, stableVars, stopping>>

-----------------------------------------------------------------------------
StableStep(r) == TakeStableLock(r) \/ StableStarted(r) \/ StableFailed(r)

\* How what is done under the lock ends, and what a task does by itself;
\* RelayEnds is up to its peers.
Opening(c) == (\E m \in Maps : Opened(c, m)) \/ OpenFailed(c)
HandlerStep(c) == EnterGet(c) \/ TakeLock(c) \/ Dialled(c) \/ DialFailed(c)

Next ==
    \/ \E r \in Callers : (\E k \in Keys : AskStable(r, k)) \/ StableStep(r)
    \/ \E c \in Clients :
          \/ \E k \in Keys : Connect(c, k) \/ Prepare(c, k)
          \/ HandlerStep(c)
          \/ Opening(c)
          \/ PrepareTimeout(c)
          \/ Redial(c)
          \/ RelayEnds(c)
    \/ \E m \in Maps : MapFails(m) \/ MapCloses(m)
    \/ PoolClose
    \/ \E k \in Keys : StableStops(k)
    \/ PoolClosed

Spec == Init /\ [][Next]_vars

\* Tasks run; dials and server starts are local and end; the timer of a
\* preparation fires; the locks are FIFO, hence strong fairness on taking one.
\* Media clients stay connected as long as they like, but a closed mapping ends
\* its relays.  Nothing says that an opener ends, or the close of a mapping.
Fairness ==
    /\ \A r \in Callers : SF_vars(TakeStableLock(r)) /\ WF_vars(StableStep(r))
    /\ \A c \in Clients :
         /\ SF_vars(TakeLock(c)) /\ WF_vars(HandlerStep(c)) /\ WF_vars(PrepareTimeout(c))
         /\ WF_vars(~Live(handler[c].map) /\ RelayEnds(c))
    /\ \A k \in Keys : WF_vars(StableStops(k))
    /\ WF_vars(PoolClosed)

FairSpec == Spec /\ Fairness

-----------------------------------------------------------------------------
(* Safety *)

\* A camera has at most one transport at a time, whatever clients, failures,
\* retries and closes interleave: a replaced one is closed first.
OneTransport ==
    \A m, n \in Maps : Live(m) /\ Live(n) /\ mapHost[m] = mapHost[n] => m = n

\* From the moment a handler sets out to replace a camera's mapping until its
\* opener is over, no mapping of the camera is live and no other handler is at it.
OpenAlone ==
    \A c \in Clients : handler[c].pc = "open" =>
        /\ \A m \in Maps : Live(m) => mapHost[m] # Host(handler[c].key)
        /\ \A d \in Clients : handler[d].pc = "open" /\ d # c =>
              Host(handler[d].key) # Host(handler[c].key)

\* The retry of _async_connect_upstream never dials the mapping that refused it,
\* and a client dials mappings of its own camera only.
RetryIsFresh ==
    \A c \in Clients : handler[c].pc = "dial" =>
        /\ handler[c].map \notin handler[c].tried
        /\ mapHost[handler[c].map] = Host(handler[c].key)

\* "Keep one loopback port stable": callers never get two listeners for a key.
OneListener == \A k \in Keys : listening[k] <= 1

\* A published endpoint outlives every transport behind it, until the pool closes.
EndpointStable ==
    [][\A k \in published : closing' = "open" => k \in published' /\ listening'[k] = listening[k]]_vars

\* After async_close began nobody starts to replace a mapping: requests that
\* waited for the lock are rejected too.  (One that already holds the lock goes
\* on: see NothingOwnedAfterClose.)
NoOpenAfterClose ==
    [][\A c \in Clients :
          handler'[c].pc = "open" /\ handler[c].pc # "open" => closing = "open"]_vars

\* The docstring of async_close (pool.py:268), "Close every owned mapping":
\* a mapping opened, or a listener started, while it ran is closed as well.
NothingOwnedAfterClose ==
    closing = "closed" =>
        /\ \A m \in Maps : ~Live(m)
        /\ \A k \in Keys : listening[k] = 0

(* Refinement *)

\* Who opens the link of a camera, and its transports.
LinkOpener(h) == {c \in Clients : handler[c].pc = "open" /\ Host(handler[c].key) = h}
LinkUp(h)     == {m \in Maps : mapState[m] = "live" /\ mapHost[m] = h}
LinkFailed(h) == {m \in Maps : mapState[m] = "failed" /\ mapHost[m] = h}

Links == INSTANCE CameraLinks WITH
    Openers <- Clients, Transports <- Maps,
    accepting <- closing = "open",
    opener <- [h \in Hosts |-> LinkOpener(h)],
    up <- [h \in Hosts |-> LinkUp(h)],
    failed <- [h \in Hosts |-> LinkFailed(h)]

\* The two locks, the retry and async_close (pool.py:162-295) implement the
\* promise of CameraLinks: one opener, one link per camera, none begun after the
\* close, which drops them all at once.
ImplementsLinks == Links!Spec

(* Liveness *)

Asks(c) == handler[c].pc \in {"enter", "wait", "open", "dial"}

\* A handler's opener runs for the camera that c has asked for, perhaps c's own.
OpenerRuns(c) ==
    handler[c].pc # "idle" /\ LinkOpener(Host(handler[c].key)) \ Preparers # {}

\* A task that asks for a camera's mapping is bridged or dismissed, or comes to
\* close a mapping it could not dial, however many others wait for the same
\* camera, whatever preparations are cancelled with the lock in their hands, and
\* however often mappings fail.  It waits for no more than the opener of a handler,
\* which no timer covers (see LanOpener): each time one ends, for good or ill, the
\* claim begins anew, and so it does after that close (see PortMapping).
ClientAnswered ==
    \A c \in Clients : Asks(c) ~> ~Asks(c) \/ OpenerRuns(c)

\* async_close ends, also while media clients stay connected: it closes "every
\* active relay" itself (pool.py:98).
PoolCloseEnds == closing = "closing" ~> closing = "closed"
=============================================================================
