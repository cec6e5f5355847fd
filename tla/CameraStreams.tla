---------------------------- MODULE CameraStreams ----------------------------
(***************************************************************************)
(* Normalised streams over the reloads of the entry: the restream manager  *)
(* of each setup (restream.py), the camera entities that ask it for an     *)
(* endpoint (camera.py), async_unload_entry (__init__.py), and go2rtc,     *)
(* which knows streams by a name that every setup gives to the same key.   *)
(*                                                                         *)
(* A setup has one source for a key, the stable port of its pool, so the   *)
(* number of the setup stands for it.  Requests that are under way are not *)
(* cancelled by the unload.                                                *)
(***************************************************************************)
EXTENDS Integers, FiniteSets

CONSTANTS
    Keys,       \* normalised cameras
    Requests,   \* calls of stream_source and refresh tasks, each used once
    MaxSetups,
    NoOne

ASSUME NoOneAssumption == NoOne \notin Requests
ASSUME SetupsAssumption == MaxSetups \in Nat \ {0}

VARIABLES
    setup, phase,      \* number of the setup; loaded, or what the unload awaits
    request,           \* each request: stage, key, setup, whether a refresh task
    refresh,           \* _orbweb_refresh_task of each key's entity
    lock,              \* _lock of each manager
    names,             \* _names and _sources of each manager
    doomed,            \* names the close has yet to delete
    failed,            \* <<setup, key>>: deletions that failed
    late,              \* requests that had not the lock when the names were taken
    registered         \* go2rtc: the source of each name, 0 for none

vars == <<setup, phase, request, refresh, lock, names, doomed, failed, late, registered>>

Setups == 1 .. MaxSetups
Stages == {"idle", "mapping", "queued", "adding", "added", "over", "dropped"}
Active == {"mapping", "queued", "adding", "added"}
Phases == {"loaded", "closing", "deleting", "pool", "closed"}

InStage(r, stages) == request[r].stage \in stages
Own(r) == request[r].setup
Key(r) == request[r].key

\* Every variable keeps its type; a lock is held by the request whose call of
\* go2rtc is under way; an entity knows its refresh task while it runs.
TypeOK ==
    /\ setup \in Setups /\ phase \in Phases
    /\ request \in [Requests -> [stage : Stages, key : Keys, setup : Setups, refresh : BOOLEAN]]
    /\ refresh \in [Keys -> Requests \cup {NoOne}]
    /\ lock \in [Setups -> Requests \cup {NoOne}]
    /\ \A r \in Requests : lock[Own(r)] = r <=> InStage(r, {"adding", "added"})
    /\ names \in [Setups -> SUBSET Keys]
    /\ doomed \subseteq Keys
    /\ failed \subseteq Setups \X Keys /\ late \subseteq Requests
    /\ registered \in [Keys -> Setups \cup {0}]

Init ==
    /\ setup = 1 /\ phase = "loaded"
    /\ \E k \in Keys : request = [r \in Requests |->
           [stage |-> "idle", key |-> k, setup |-> 1, refresh |-> FALSE]]
    /\ refresh = [k \in Keys |-> NoOne]
    /\ lock = [g \in Setups |-> NoOne]
    /\ names = [g \in Setups |-> {}]
    /\ doomed = {} /\ failed = {} /\ late = {}
    /\ registered = [k \in Keys |-> 0]

-----------------------------------------------------------------------------
(* camera.py *)

Asked(r, k, isRefresh) ==
    request' = [request EXCEPT ![r] =
        [stage |-> "mapping", key |-> k, setup |-> setup, refresh |-> isRefresh]]

\* stream_source: the stream, a snapshot or go2rtc asks for the source.
StreamSource(r, k) ==
    /\ phase = "loaded" /\ InStage(r, {"idle"})
    /\ Asked(r, k, FALSE)
    /\ UNCHANGED <<setup, phase, refresh, lock, names, doomed, failed, late, registered>>

\* Mutant: the task that already runs is not looked at.
AlwaysIdle(k) == TRUE

NoRefresh(k) == refresh[k] = NoOne

\* _async_handle_stream_update: the stream reports that it is unavailable.
StreamUpdate(r, k) ==
    /\ phase = "loaded" /\ InStage(r, {"idle"})
    /\ NoRefresh(k)
    /\ Asked(r, k, TRUE)
    /\ refresh' = [refresh EXCEPT ![k] = r]
    /\ UNCHANGED <<setup, phase, lock, names, doomed, failed, late, registered>>

\* The request is over; a refresh task is forgotten by its entity whatever
\* happened (the entity of an earlier setup has its own field).
Over(r, stage) ==
    /\ request' = [request EXCEPT ![r].stage = stage, ![r].refresh = FALSE]
    /\ refresh' = [k \in Keys |-> IF refresh[k] = r THEN NoOne ELSE refresh[k]]

\* The pool gives the stable endpoint, perhaps after its close (a call that has
\* passed the check goes on), or fails.
Mapped(r) ==
    /\ InStage(r, {"mapping"})
    /\ request' = [request EXCEPT ![r].stage = "queued"]
    /\ UNCHANGED <<setup, phase, refresh, lock, names, doomed, failed, late, registered>>
MappingFails(r) ==
    /\ InStage(r, {"mapping"})
    /\ Over(r, "over")
    /\ UNCHANGED <<setup, phase, lock, names, doomed, failed, late, registered>>

-----------------------------------------------------------------------------
(* restream.py: async_get_endpoint *)

\* Mutants: the source is remembered before go2rtc has it; an error keeps the
\* lock.
AtOnce == TRUE
Kept(g) == lock[g]

RememberedFirst == FALSE
Released(g) == NoOne

Store(r) == names' = [names EXCEPT ![Own(r)] = @ \cup {Key(r)}]

\* The lock is free and the source is the remembered one: no call of go2rtc.
Known(r) ==
    /\ InStage(r, {"queued"}) /\ lock[Own(r)] = NoOne
    /\ Key(r) \in names[Own(r)]
    /\ Over(r, "over")
    /\ UNCHANGED <<setup, phase, lock, names, doomed, failed, late, registered>>

Add(r) ==
    /\ InStage(r, {"queued"}) /\ lock[Own(r)] = NoOne
    /\ Key(r) \notin names[Own(r)]
    /\ lock' = [lock EXCEPT ![Own(r)] = r]
    /\ request' = [request EXCEPT ![r].stage = "adding"]
    /\ IF RememberedFirst THEN Store(r) ELSE UNCHANGED names
    /\ UNCHANGED <<setup, phase, refresh, doomed, failed, late, registered>>

Go2rtcAdds(r) ==
    /\ InStage(r, {"adding"})
    /\ registered' = [registered EXCEPT ![Key(r)] = Own(r)]
    /\ request' = [request EXCEPT ![r].stage = "added"]
    /\ UNCHANGED <<setup, phase, refresh, lock, names, doomed, failed, late>>

AddReturns(r) ==
    /\ InStage(r, {"added"})
    /\ Store(r)
    /\ lock' = [lock EXCEPT ![Own(r)] = NoOne]
    /\ Over(r, "over")
    /\ UNCHANGED <<setup, phase, doomed, failed, late, registered>>

\* go2rtc answers with an error, or not in time: the camera uses its source
\* as it is.
AddFails(r) ==
    /\ InStage(r, {"adding", "added"})
    /\ lock' = [lock EXCEPT ![Own(r)] = Released(Own(r))]
    /\ Over(r, IF InStage(r, {"added"}) THEN "dropped" ELSE "over")
    /\ UNCHANGED <<setup, phase, names, doomed, failed, late, registered>>

\* The caller goes away; a task the entity has created is not cancelled.
Cancel(r) ==
    /\ InStage(r, Active) /\ ~request[r].refresh
    /\ lock' = [g \in Setups |-> IF lock[g] = r THEN NoOne ELSE lock[g]]
    /\ Over(r, IF InStage(r, {"added"}) THEN "dropped" ELSE "over")
    /\ UNCHANGED <<setup, phase, names, doomed, failed, late, registered>>

-----------------------------------------------------------------------------
(* async_unload_entry and restream.py: async_close *)

\* The platforms are unloaded; their entities ask for nothing more.
Unload ==
    /\ phase = "loaded"
    /\ phase' = "closing"
    /\ refresh' = [k \in Keys |-> NoOne]
    /\ UNCHANGED <<setup, request, lock, names, doomed, failed, late, registered>>

\* Mutant: the names are taken without the lock.
Unlocked == TRUE

CloseHasLock == lock[setup] = NoOne

TakeNames ==
    /\ phase = "closing"
    /\ CloseHasLock
    /\ phase' = "deleting"
    /\ doomed' = names[setup]
    /\ names' = [names EXCEPT ![setup] = {}]
    /\ late' = late \cup {r \in Requests : Own(r) = setup /\ InStage(r, {"mapping", "queued"})}
    /\ UNCHANGED <<setup, request, refresh, lock, failed, registered>>

\* One after the other: the deletion is answered, or it fails, perhaps after
\* go2rtc has carried it out.
Delete(k) ==
    /\ phase = "deleting" /\ k \in doomed
    /\ doomed' = doomed \ {k}
    /\ registered' = [registered EXCEPT ![k] = 0]
    /\ UNCHANGED <<setup, phase, request, refresh, lock, names, failed, late>>
DeleteFails(k) ==
    /\ phase = "deleting" /\ k \in doomed
    /\ doomed' = doomed \ {k}
    /\ registered' \in {registered, [registered EXCEPT ![k] = 0]}
    /\ failed' = failed \cup {<<setup, k>>}
    /\ UNCHANGED <<setup, phase, request, refresh, lock, names, late>>

\* Errors of the deletions are logged; the pool is closed whatever they were.
Closed ==
    /\ phase = "deleting" /\ doomed = {}
    /\ phase' = "pool"
    /\ UNCHANGED <<setup, request, refresh, lock, names, doomed, failed, late, registered>>

\* The pool's close returns, which it may never do: it waits for the clients of
\* its stable ports (PoolCloseEnds of MappingPool).
PoolClosed ==
    /\ phase = "pool"
    /\ phase' = "closed"
    /\ UNCHANGED <<setup, request, refresh, lock, names, doomed, failed, late, registered>>

SetupAgain ==
    /\ phase = "closed" /\ setup < MaxSetups
    /\ setup' = setup + 1 /\ phase' = "loaded"
    /\ UNCHANGED <<request, refresh, lock, names, doomed, failed, late, registered>>

-----------------------------------------------------------------------------
Serving(r) ==
    Mapped(r) \/ MappingFails(r) \/ Known(r) \/ Add(r) \/ AddReturns(r) \/ AddFails(r)

Closing == TakeNames \/ (\E k \in Keys : Delete(k) \/ DeleteFails(k)) \/ Closed

Next ==
    \/ \E r \in Requests :
          \/ Serving(r) \/ Go2rtcAdds(r) \/ Cancel(r)
          \/ \E k \in Keys : StreamSource(r, k) \/ StreamUpdate(r, k)
    \/ Unload \/ Closing \/ PoolClosed \/ SetupAgain

Spec == Init /\ [][Next]_vars

\* asyncio.Lock is first come first served, and every call of go2rtc ends with
\* an answer or an error; nothing is assumed of the pool's close.
Fairness ==
    /\ \A r \in Requests : WF_vars(AddReturns(r) \/ AddFails(r))
    /\ SF_vars(TakeNames) /\ WF_vars(Closing)

FairSpec == Spec /\ Fairness

-----------------------------------------------------------------------------
(* Safety *)

\* go2rtc keeps a stream of a closed manager only if its deletion failed, or
\* its request was cancelled or failed after go2rtc had carried it out, or had
\* not the lock when the manager took its names; while the manager is open it
\* knows every other stream, or holds the lock to register it.
Accounted ==
    \A k \in Keys : registered[k] # 0 =>
        \/ <<registered[k], k>> \in failed
        \/ \E r \in Requests : /\ Own(r) = registered[k] /\ Key(r) = k
                               /\ r \in late \/ InStage(r, {"dropped"})
        \/ /\ registered[k] = setup
           /\ \/ phase \in {"loaded", "closing"} /\ k \in names[setup]
              \/ phase = "deleting" /\ k \in doomed
              \/ phase \in {"loaded", "closing"} /\ lock[setup] # NoOne /\ Key(lock[setup]) = k

\* A stream that the manager of the loaded setup remembers is the one go2rtc
\* serves, unless a request of an earlier setup outlived its close.
ServedFromThisSetup ==
    phase = "loaded" =>
        \A k \in names[setup] : registered[k] = setup \/ \E r \in late : Key(r) = k

\* An entity never has two refresh tasks.
OneRefresh ==
    \A r, s \in Requests :
        /\ request[r].refresh /\ InStage(r, Active) /\ request[s].refresh /\ InStage(s, Active)
        /\ Key(r) = Key(s) /\ Own(r) = Own(s)
        => r = s

(* Liveness *)

\* The unload gets past the close of the streams, whatever requests are under
\* way, wherever they go away and whatever fails in go2rtc.  That the pool's
\* close, which it awaits next, returns as well is not claimed.
RestreamCloseEnds == phase = "closing" ~> phase = "pool"
=============================================================================
