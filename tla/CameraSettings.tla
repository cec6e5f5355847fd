------------------------- MODULE CameraSettings -------------------------
(***************************************************************************)
(* One setting of one camera (brightness, night vision, ...) between the   *)
(* service calls that write it and the coordinator that polls it:          *)
(* HubbleLocalClient (local.py) and HubbleOrbwebCommandClient              *)
(* (orbweb/commands.py), the coordinators (coordinator.py) and the setters *)
(* of the entities (select.py, number.py, switch.py).                      *)
(*                                                                         *)
(* Every request holds the client's lock from the connection to the answer *)
(* or the timeout.  The camera carries a request out at some point of it,  *)
(* and possibly after the client gave up.  The value of the setting is     *)
(* represented by its version: how many writes the camera has executed.    *)
(***************************************************************************)
EXTENDS Integers

CONSTANTS
    Setters, \* service calls, each of which writes the setting once
    Poll,    \* the update of the coordinator
    NoOne

ASSUME ActorsAssumption ==
    Poll \notin Setters /\ NoOne \notin Setters \cup {Poll}

VARIABLES
    kind,      \* the client: "local" remembers values, "orbweb" does not
    camera,    \* version of the setting in the camera
    holder,    \* who holds _request_lock
    setter,    \* where each service call is
    written,   \* the version each call produced
    overdue,   \* calls given up whose request may still reach the camera
    stage,     \* the getter async_update (or update) has come to
    request,   \* the request of that getter
    reply,     \* the camera's answer under way to it
    cache,     \* the local client's remembered value
    loaded,    \* _metadata_loaded
    view, ok,  \* the snapshot the update is to return
    shown, available, \* coordinator.data, what the entity displays
    since, asOf \* camera when the running poll, and the shown one, began

calls     == <<setter, written, overdue>>
poll      == <<stage, request, reply, loaded, view, ok, since>>
published == <<shown, available, asOf>>
vars      == <<kind, camera, holder, calls, poll, cache, published>>

Unknown == -1
Versions == 0 .. camera
Requests == {"metadata", "before", "value", "after"}

\* Every variable keeps its type; no version is newer than the camera's, and
\* a call that was answered has written one.
TypeOK ==
    /\ kind \in {"local", "orbweb"}
    /\ camera \in Nat
    /\ holder \in Setters \cup {Poll, NoOne}
    /\ setter \in [Setters -> {"idle", "waiting", "sent", "executed", "done", "failed"}]
    /\ written \in [Setters -> Versions]
    /\ \A s \in Setters : setter[s] \in {"executed", "done"} => written[s] > 0
    /\ overdue \subseteq Setters
    /\ stage \in Requests \cup {"idle", "prepare", "gather"}
    /\ request \in {"none", "waiting", "sent", "answered"}
    /\ reply \in Versions /\ loaded \in BOOLEAN
    /\ view \in Versions \cup {Unknown} /\ ok \in BOOLEAN
    /\ cache \in Versions \cup {Unknown}
    /\ shown \in Versions \cup {Unknown} /\ available \in BOOLEAN
    /\ since \in Versions /\ asOf \in Versions

Init ==
    /\ kind \in {"local", "orbweb"}
    /\ camera = 0 /\ holder = NoOne
    /\ setter = [s \in Setters |-> "idle"]
    /\ written = [s \in Setters |-> 0]
    /\ overdue = {}
    /\ stage = "idle" /\ request = "none" /\ reply = 0
    /\ cache = Unknown /\ loaded = FALSE
    /\ view = Unknown /\ ok = FALSE
    /\ shown = Unknown /\ available = FALSE
    /\ since = 0 /\ asOf = 0

-----------------------------------------------------------------------------
(* The request lock: async with self._request_lock, asyncio.timeout(...) *)

\* Mutants: requests are not serialised; a failed request keeps the lock.
NeverHeld == TRUE
Kept == holder

LockFree == holder = NoOne
Released == NoOne

-----------------------------------------------------------------------------
(* Service calls *)

\* The entity's setter, down to the wait for the lock.
Call(s) ==
    /\ setter[s] = "idle"
    /\ setter' = [setter EXCEPT ![s] = "waiting"]
    /\ UNCHANGED <<kind, camera, holder, written, overdue, poll, cache, published>>

\* A value the entity or the client does not accept: no request is made.
CallRejected(s) ==
    /\ setter[s] = "idle"
    /\ setter' = [setter EXCEPT ![s] = "failed"]
    /\ UNCHANGED <<kind, camera, holder, written, overdue, poll, cache, published>>

SetterSends(s) ==
    /\ setter[s] = "waiting"
    /\ LockFree
    /\ holder' = s
    /\ setter' = [setter EXCEPT ![s] = "sent"]
    /\ UNCHANGED <<kind, camera, written, overdue, poll, cache, published>>

CameraExecutes(s) ==
    /\ setter[s] = "sent"
    /\ camera' = camera + 1
    /\ written' = [written EXCEPT ![s] = camera + 1]
    /\ setter' = [setter EXCEPT ![s] = "executed"]
    /\ UNCHANGED <<kind, holder, overdue, poll, cache, published>>

\* Mutant: the result the camera reports is not looked at.
AnyAnswer(s) == setter[s] \in {"sent", "executed"}

\* The camera's result is 0.
Accepted(s) == setter[s] = "executed"

\* The answer arrives.  The lock is released and the value remembered with no
\* await between; a refresh is then requested, see PollBegins.
SetterConfirmed(s) ==
    /\ Accepted(s)
    /\ setter' = [setter EXCEPT ![s] = "done"]
    /\ cache' = IF kind = "local" THEN written[s] ELSE cache
    /\ holder' = Released
    /\ UNCHANGED <<kind, camera, written, overdue, poll, published>>

\* Refused, lost, malformed or timed out: the entity raises.
SetterFails(s) ==
    /\ setter[s] \in {"sent", "executed"}
    /\ setter' = [setter EXCEPT ![s] = "failed"]
    /\ overdue' \in IF setter[s] = "sent" THEN {overdue, overdue \cup {s}} ELSE {overdue}
    /\ holder' = Released
    /\ UNCHANGED <<kind, camera, written, poll, cache, published>>

\* The camera carries out a request whose client has given up.
OverdueExecutes(s) ==
    /\ s \in overdue
    /\ overdue' = overdue \ {s}
    /\ camera' = camera + 1
    /\ UNCHANGED <<kind, holder, setter, written, poll, cache, published>>

-----------------------------------------------------------------------------
(* The update of the coordinator *)

FirstStage ==
    CASE kind = "orbweb" -> "prepare"
      [] kind = "local" /\ loaded -> "before"
      [] OTHER -> "metadata"

\* Mutant: a value once read is not read again.
NextStageOnce ==
    CASE stage \in {"metadata", "prepare"} -> "before"
      [] stage = "before" -> IF shown = Unknown THEN "value" ELSE "after"
      [] stage = "value" -> "after"
      [] OTHER -> "gather"

\* The getters in order: those before this setting, the setting, the others.
NextStage ==
    CASE stage \in {"metadata", "prepare"} -> "before"
      [] stage = "before" -> "value"
      [] stage = "value" -> "after"
      [] OTHER -> "gather"

\* The update has its snapshot (gather waits for the other cameras).
Snapshot(value, fine) ==
    /\ stage' = "gather" /\ request' = "none"
    /\ view' = value /\ ok' = fine
    /\ UNCHANGED loaded

\* One getter is over.  The local update reads the fields it returns at its
\* end, the Orbweb update collects them in local variables.
Advance(value) ==
    LET collected == IF kind = "orbweb" /\ stage = "value" THEN value ELSE view
    IN  /\ cache' = IF kind = "local" /\ stage = "value" THEN value ELSE cache
        /\ loaded' = (loaded \/ stage = "metadata")
        /\ stage' = NextStage
        /\ IF NextStage = "gather"
           THEN /\ request' = "none" /\ ok' = TRUE
                /\ view' = IF kind = "local" THEN cache' ELSE collected
           ELSE request' = "waiting" /\ view' = collected /\ UNCHANGED ok

\* The interval of the coordinator is over or a setter asked for a refresh;
\* the coordinator runs one update at a time.
PollBegins ==
    /\ stage = "idle"
    /\ stage' = FirstStage
    /\ request' = "waiting"
    /\ view' = Unknown
    /\ since' = camera
    /\ UNCHANGED <<kind, camera, holder, calls, reply, cache, loaded, ok, published>>

\* async_prepare: the mapping of the camera is there or cannot be opened.
Prepared ==
    /\ stage = "prepare"
    /\ stage' = NextStage
    /\ UNCHANGED <<kind, camera, holder, calls, request, reply, cache, loaded, view, ok,
                   since, published>>
PrepareFails ==
    /\ stage = "prepare"
    /\ Snapshot(Unknown, FALSE)
    /\ UNCHANGED <<kind, camera, holder, calls, reply, cache, since, published>>

PollSends ==
    /\ stage \in Requests /\ request = "waiting"
    /\ LockFree
    /\ holder' = Poll
    /\ request' = "sent"
    /\ UNCHANGED <<kind, camera, calls, stage, reply, cache, loaded, view, ok, since, published>>

CameraAnswers ==
    /\ request = "sent"
    /\ request' = "answered"
    /\ reply' = camera
    /\ UNCHANGED <<kind, camera, holder, calls, stage, cache, loaded, view, ok, since, published>>

PollReceives ==
    /\ request = "answered"
    /\ holder' = Released
    /\ Advance(reply)
    /\ UNCHANGED <<kind, camera, calls, reply, since, published>>

\* No usable answer: the field is None.  Over Orbweb whatever went wrong.
PollMisses ==
    /\ request = "answered" \/ (request = "sent" /\ kind = "orbweb")
    /\ holder' = Released
    /\ Advance(Unknown)
    /\ UNCHANGED <<kind, camera, calls, reply, since, published>>

\* Mutant: the camera counts as available while it cannot be reached.
Reachable == TRUE

Unreachable == FALSE

\* The local client could not connect or timed out: the whole update ends.
PollAborts ==
    /\ kind = "local"
    /\ request \in {"sent", "answered"}
    /\ holder' = Released
    /\ Snapshot(cache, Unreachable)
    /\ UNCHANGED <<kind, camera, calls, reply, cache, since, published>>

\* gather returned.  With this setting unknown, the other getters decide
\* whether the camera is available.
Publish ==
    /\ stage = "gather"
    /\ stage' = "idle"
    /\ shown' = view
    /\ available' \in IF ok /\ view = Unknown THEN BOOLEAN ELSE {ok}
    /\ asOf' = since
    /\ UNCHANGED <<kind, camera, holder, calls, request, reply, cache, loaded, view, ok, since>>

-----------------------------------------------------------------------------
Setting(s) ==
    \/ Call(s) \/ CallRejected(s) \/ SetterSends(s) \/ CameraExecutes(s)
    \/ SetterConfirmed(s) \/ SetterFails(s) \/ OverdueExecutes(s)

Polling ==
    \/ PollBegins \/ Prepared \/ PrepareFails \/ PollSends \/ CameraAnswers
    \/ PollReceives \/ PollMisses \/ PollAborts \/ Publish

Next == Polling \/ \E s \in Setters : Setting(s)

Spec == Init /\ [][Next]_vars

\* asyncio.Lock is first come first served, every request ends at the latest
\* with its timeout, and the interval timer starts polls for ever.
Fairness ==
    /\ SF_vars(PollSends)
    /\ WF_vars(PollBegins) /\ WF_vars(Publish)
    /\ WF_vars(Prepared \/ PrepareFails)
    /\ WF_vars(PollReceives \/ PollMisses \/ PollAborts)
    /\ \A s \in Setters : SF_vars(SetterSends(s)) /\ WF_vars(SetterConfirmed(s) \/ SetterFails(s))

FairSpec == Spec /\ Fairness

-----------------------------------------------------------------------------
(* Safety *)

\* The local client's remembered value is never older than a setting the
\* camera has confirmed to a caller, whatever polls were under way.
ConfirmedRemembered ==
    \A s \in Setters :
        kind = "local" /\ setter[s] = "done" /\ cache # Unknown => cache >= written[s]

\* An entity that is available displays nothing older than the poll it shows:
\* remembered values of an update that failed half-way never pass for fresh.
FreshWhenAvailable == available /\ shown # Unknown => shown >= asOf

\* What the coordinator publishes never goes back to an older setting, whether
\* it was polled, or remembered from a confirmed call.
ShownNeverBack == [][shown # Unknown /\ shown' # Unknown => shown' >= shown]_vars

(* Liveness *)

\* A service call that waits for the lock is answered: it succeeds or raises.
ServiceEnds == \A s \in Setters : setter[s] = "waiting" ~> setter[s] \in {"done", "failed"}

\* When the settings stop changing, an available entity displays what the
\* camera has, even after calls that failed but were carried out.
Converges == <>[](available /\ shown # Unknown => shown = camera)
=============================================================================
