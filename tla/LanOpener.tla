---------------------------- MODULE LanOpener ----------------------------
(***************************************************************************)
(* Opening one direct LAN mapping: async_open_lan_rtsp_mapping             *)
(* (orbweb/lan_client.py) with the listener it owns                        *)
(* (direct_tunnel.py, direct_listeners.py), the candidate race             *)
(* (direct_race.py) and the signaling session (direct_client.py).          *)
(*                                                                         *)
(* The opener binds listeners, registers them, and then runs two tasks:    *)
(* the control exchange and the accept task, which waits for the camera's  *)
(* candidates, races inbound against outbound sockets, closes the          *)
(* listener, authenticates the winner and puts a port mapping on it.  Each *)
(* can fail, time out or be cancelled at any await.  The module is about   *)
(* ownership: what is still open when the opener has returned or raised.   *)
(***************************************************************************)
EXTENDS FiniteSets

CONSTANTS
    Inbound,         \* sockets the camera may open to the listener
    Outbound,        \* candidate pairs dialled by the race
    None,
    Authenticates,   \* a camera password is configured
    WaitsForClients, \* Server.wait_closed waits for clients (Python >= 3.12.1)
    Faults           \* what may go wrong in this instance

ASSUME ConstantsAssumption ==
    /\ Inbound \cap Outbound = {}
    /\ None \notin Inbound \cup Outbound
    /\ Authenticates \in BOOLEAN /\ WaitsForClients \in BOOLEAN
    /\ Faults \subseteq {"setup", "control", "auth", "cancel", "socket", "camera_leaves"}

VARIABLES
    opener,      \* where async_open_lan_rtsp_mapping is suspended
    outcome,     \* what it will do once its finally clause is over: return,
                 \* or raise what stopped it
    established, \* established_mapping is not None
    control,     \* the control task
    accept,      \* the accept task: async_accept_port_mapping
    winner,      \* the socket the race chose
    listenerClosed, \* OrbwebDirectTunnelListener._closed
    pool,        \* the DirectListenerPool
    session,     \* the signaling socket
    controlSock, \* the control socket
    taken,       \* the inbound socket pool.async_accept returned to the race
    inb, outb,   \* the sockets of the race
    mapping      \* the port mapping

tasks == <<opener, outcome, established, control, accept>>
parts == <<listenerClosed, pool, session, controlSock>>
race  == <<winner, taken, inb, outb>>
vars  == <<tasks, parts, race, mapping>>

\* What makes the opener enter its except clause.
Causes == {"control", "accept", "auth", "cancelled"}

\* Every variable keeps its type.
TypeOK ==
    /\ opener \in {"bind", "register", "unbind", "dial", "exchange", "auth",
                   "stopping", "unmapping", "closing", "returned", "raised"}
    /\ outcome \in {"pending", "return", "socket"} \cup Causes
    /\ established \in BOOLEAN
    /\ control \in {"none", "run", "ok", "failed"}
    /\ accept \in {"none", "forward", "race", "settle", "drain", "handshake",
                   "local", "leaving", "done", "failed"}
    /\ winner \in Inbound \cup Outbound \cup {None}
    /\ listenerClosed \in BOOLEAN
    /\ pool \in {"none", "listening", "closing", "closed", "abandoned"}
    /\ session \in {"none", "open", "closed"}
    /\ controlSock \in {"none", "open", "closed"}
    /\ taken \in Inbound \cup {None}
    /\ inb \in [Inbound -> {"none", "open", "closed"}]
    /\ outb \in [Outbound -> {"none", "dialling", "open", "closed"}]
    /\ mapping \in {"none", "live", "closed"}

Init ==
    /\ opener = "bind" /\ outcome = "pending" /\ established = FALSE
    /\ control = "none" /\ accept = "none"
    /\ winner = None /\ taken = None
    /\ listenerClosed = FALSE /\ pool = "none"
    /\ session = "none" /\ controlSock = "none"
    /\ inb = [i \in Inbound |-> "none"]
    /\ outb = [o \in Outbound |-> "none"]
    /\ mapping = "none"

-----------------------------------------------------------------------------
(* Helpers *)

\* listener.async_close up to its first await, unless it was called before.
BeginListenerClose ==
    /\ listenerClosed' = TRUE
    /\ session' = IF listenerClosed THEN session ELSE "closed"
    /\ pool' = IF listenerClosed THEN pool ELSE "closing"

\* Mutant: a second caller waits for a close that was interrupted.
SettledClosed == pool = "closed"

\* It returns once the pool is closed; a second caller returns at once.
ListenerSettled == pool \in {"closed", "abandoned"}

OpenInbound == {i \in Inbound : inb[i] = "open"}

\* Mutants: the inbound loser is forgotten; only dials under way are cancelled.
CloseDialled(keep) ==
    /\ outb' = [o \in Outbound |->
          IF outb[o] \in {"dialling", "open"} /\ o \notin keep THEN "closed" ELSE outb[o]]
    /\ UNCHANGED inb
CancelDialling(keep) ==
    /\ inb' = [i \in Inbound |-> IF i = taken /\ i \notin keep THEN "closed" ELSE inb[i]]
    /\ outb' = [o \in Outbound |-> IF outb[o] = "dialling" THEN "closed" ELSE outb[o]]

\* The sockets of the race become closed, those in keep excepted.
CloseRaced(keep) ==
    /\ inb' = [i \in Inbound |-> IF i = taken /\ i \notin keep THEN "closed" ELSE inb[i]]
    /\ outb' = [o \in Outbound |->
          IF outb[o] \in {"dialling", "open"} /\ o \notin keep THEN "closed" ELSE outb[o]]

\* Mutant: the socket is not closed when its handshake fails.
KeepWinner == UNCHANGED <<inb, outb>>

CloseWinner ==
    /\ inb' = IF winner \in Inbound THEN [inb EXCEPT ![winner] = "closed"] ELSE inb
    /\ outb' = IF winner \in Outbound THEN [outb EXCEPT ![winner] = "closed"] ELSE outb

-----------------------------------------------------------------------------
(* Setup: async_open_direct_tunnel_listener *)

Bind ==
    /\ opener = "bind"
    /\ \/ /\ pool' = "listening"
          /\ opener' = "register"
       \/ /\ "setup" \in Faults \/ "cancel" \in Faults
          /\ opener' = "raised"
          /\ UNCHANGED pool
    /\ UNCHANGED <<outcome, established, control, accept, listenerClosed, session,
                   controlSock, race, mapping>>

\* async_open_direct_listener: the accept task starts with the session it gives.
Register ==
    /\ opener = "register"
    /\ session' = "open"
    /\ accept' = "forward"
    /\ opener' = "dial"
    /\ UNCHANGED <<outcome, established, control, listenerClosed, pool, controlSock,
                   race, mapping>>

\* Refused, timed out or cancelled: the pool is closed before raising.
RegisterFailed ==
    /\ opener = "register"
    /\ "setup" \in Faults \/ "cancel" \in Faults
    /\ opener' = "unbind"
    /\ pool' = "closing"
    /\ UNCHANGED <<outcome, established, control, accept, listenerClosed, session,
                   controlSock, race, mapping>>

Unbound ==
    /\ opener = "unbind"
    /\ pool = "closed"
    /\ opener' = "raised"
    /\ UNCHANGED <<outcome, established, control, accept, parts, race, mapping>>

\* _on_client: the camera connects to a listener.
CameraConnects(i) ==
    /\ pool = "listening"
    /\ inb[i] = "none"
    /\ inb' = [inb EXCEPT ![i] = "open"]
    /\ UNCHANGED <<tasks, parts, winner, taken, outb, mapping>>

\* The camera drops a socket it opened.
CameraLeaves(i) ==
    /\ "camera_leaves" \in Faults
    /\ inb[i] = "open"
    /\ inb' = [inb EXCEPT ![i] = "closed"]
    /\ UNCHANGED <<tasks, parts, winner, taken, outb, mapping>>

\* DirectListenerPool.async_close after server.wait_closed: only now are the
\* accepted sockets nobody took closed.
PoolCloses ==
    /\ pool = "closing"
    /\ WaitsForClients => OpenInbound = {}
    /\ pool' = "closed"
    /\ inb' = [i \in Inbound |-> IF i \in OpenInbound /\ i # taken THEN "closed" ELSE inb[i]]
    /\ UNCHANGED <<tasks, listenerClosed, session, controlSock, winner, taken,
                   outb, mapping>>

-----------------------------------------------------------------------------
(* The accept task *)

Forwarded ==
    /\ accept = "forward"
    /\ accept' = "race"
    /\ outb' = [o \in Outbound |-> "dialling"]
    /\ UNCHANGED <<opener, outcome, established, control, parts, winner, taken,
                   inb, mapping>>

\* async_wait_for_forward timed out or was refused.
ForwardFailed ==
    /\ accept = "forward"
    /\ accept' = "leaving"
    /\ BeginListenerClose
    /\ UNCHANGED <<opener, outcome, established, control, controlSock, race, mapping>>

RaceAccepts(i) ==
    /\ accept = "race"
    /\ taken = None
    /\ inb[i] = "open"
    /\ taken' = i
    /\ UNCHANGED <<tasks, parts, winner, inb, outb, mapping>>

RaceDials(o) ==
    /\ accept = "race"
    /\ outb[o] = "dialling"
    /\ outb' = [outb EXCEPT ![o] = "open"]
    /\ UNCHANGED <<tasks, parts, winner, taken, inb, mapping>>

\* An OSError of one candidate does not end the race.
RaceDialFails(o) ==
    /\ accept = "race"
    /\ outb[o] = "dialling"
    /\ outb' = [outb EXCEPT ![o] = "closed"]
    /\ UNCHANGED <<tasks, parts, winner, taken, inb, mapping>>

\* A task of the race has a socket: those that still dial are cancelled.
RaceWon(w) ==
    /\ accept = "race"
    /\ (w \in Inbound /\ w = taken) \/ (w \in Outbound /\ outb[w] = "open")
    /\ winner' = w
    /\ accept' = "settle"
    /\ outb' = [o \in Outbound |-> IF outb[o] = "dialling" THEN "closed" ELSE outb[o]]
    /\ UNCHANGED <<opener, outcome, established, control, parts, taken, inb, mapping>>

\* The losers are closed and the winner is handed to the accept task, which
\* closes the listener before it goes on.
RaceSettled ==
    /\ accept = "settle"
    /\ CloseRaced({winner})
    /\ accept' = "drain"
    /\ BeginListenerClose
    /\ UNCHANGED <<opener, outcome, established, control, controlSock, winner, taken,
                   mapping>>

\* Nobody has connected within the timeout of the race.
RaceTimeout ==
    /\ accept = "race"
    /\ CloseRaced({})
    /\ accept' = "leaving"
    /\ BeginListenerClose
    /\ UNCHANGED <<opener, outcome, established, control, controlSock, winner, taken, mapping>>

Drained ==
    /\ accept = "drain"
    /\ ListenerSettled
    /\ accept' = "handshake"
    /\ UNCHANGED <<opener, outcome, established, control, parts, race, mapping>>

\* The camera has not dropped the socket that won.
WinnerUp == winner \in Inbound => inb[winner] = "open"

Handshaken ==
    /\ accept = "handshake"
    /\ WinnerUp
    /\ accept' = "local"
    /\ UNCHANGED <<opener, outcome, established, control, parts, race, mapping>>

\* async_open_port_mapping owns the socket from here on.
Mapped ==
    /\ accept = "local"
    /\ accept' = "done"
    /\ mapping' = "live"
    /\ UNCHANGED <<opener, outcome, established, control, parts, race>>

\* The key exchange failed or timed out, or the loopback bind failed: finally
\* closes the winner.
HandshakeFailed ==
    /\ accept \in {"handshake", "local"}
    /\ accept' = "failed"
    /\ CloseWinner
    /\ UNCHANGED <<opener, outcome, established, control, parts, winner, taken,
                   mapping>>

\* The finally clause after its await of the listener.
AcceptLeaves ==
    /\ accept = "leaving"
    /\ ListenerSettled
    /\ accept' = "failed"
    /\ UNCHANGED <<opener, outcome, established, control, parts, race, mapping>>

-----------------------------------------------------------------------------
(* Control, authentication and cleanup of the opener *)

\* _async_open_control_connection: one of the two rendezvous servers answers.
ControlConnected ==
    /\ opener = "dial"
    /\ opener' = "exchange"
    /\ control' = "run"
    /\ controlSock' = "open"
    /\ UNCHANGED <<outcome, established, accept, listenerClosed, pool, session, race,
                   mapping>>

ControlDone ==
    /\ control = "run"
    /\ \/ control' = "ok"
       \/ "control" \in Faults /\ control' = "failed"
    /\ UNCHANGED <<opener, outcome, established, accept, parts, race, mapping>>

\* _async_require_both returned: the mapping is remembered only here.
BothDone ==
    /\ opener = "exchange"
    /\ control = "ok" /\ accept = "done"
    /\ established' = TRUE
    /\ IF Authenticates
       THEN opener' = "auth" /\ UNCHANGED <<outcome, listenerClosed, session, pool>>
       ELSE opener' = "closing" /\ outcome' = "return" /\ BeginListenerClose
    /\ UNCHANGED <<control, accept, controlSock, race, mapping>>

Authenticated ==
    /\ opener = "auth"
    /\ opener' = "closing"
    /\ outcome' = "return"
    /\ BeginListenerClose
    /\ UNCHANGED <<established, control, accept, controlSock, race, mapping>>

OpenerFails(cause) ==
    CASE cause = "control" ->
           \/ opener = "dial" /\ "control" \in Faults
           \/ opener = "exchange" /\ control = "failed"
      [] cause = "accept" -> opener = "exchange" /\ accept = "failed"
      [] cause = "auth" -> opener = "auth" /\ "auth" \in Faults
      [] cause = "cancelled" ->
           opener \in {"dial", "exchange", "auth"} /\ "cancel" \in Faults

\* task.cancel() on the accept task, delivered at the await it is suspended at.
\* A listener close interrupted in its await is never resumed.
CancelAccept ==
    CASE accept = "forward" ->
           accept' = "leaving" /\ BeginListenerClose /\ UNCHANGED <<inb, outb>>
      [] accept = "race" ->
           accept' = "leaving" /\ BeginListenerClose /\ CloseRaced({})
      [] accept = "settle" ->
           accept' = "leaving" /\ BeginListenerClose /\ UNCHANGED <<inb, outb>>
      [] accept = "drain" ->
           /\ accept' = "failed" /\ CloseWinner
           /\ pool' = IF pool = "closing" THEN "abandoned" ELSE pool
           /\ UNCHANGED <<listenerClosed, session>>
      [] accept \in {"handshake", "local"} ->
           accept' = "failed" /\ CloseWinner /\ UNCHANGED <<listenerClosed, session, pool>>
      [] accept = "leaving" ->
           /\ accept' = "failed"
           /\ pool' = IF pool = "closing" THEN "abandoned" ELSE pool
           /\ UNCHANGED <<listenerClosed, session, inb, outb>>
      [] OTHER -> UNCHANGED <<accept, listenerClosed, session, pool, inb, outb>>

\* except BaseException: cancel what still runs, then gather it.
OpenerStops(cause) ==
    /\ OpenerFails(cause)
    /\ opener' = "stopping"
    /\ outcome' = cause
    /\ control' = IF control = "run" THEN "failed" ELSE control
    /\ CancelAccept
    /\ UNCHANGED <<established, controlSock, winner, taken, mapping>>

\* Both tasks are over: a mapping that is remembered is closed before finally,
\* whose close of the listener returns at once (the accept task called it).
OpenerStopped ==
    /\ opener = "stopping"
    /\ accept \in {"done", "failed"}
    /\ IF established
       THEN /\ opener' = "unmapping" /\ mapping' = "closed"
            /\ UNCHANGED <<listenerClosed, session, pool>>
       ELSE /\ opener' = "closing" /\ BeginListenerClose
            /\ UNCHANGED mapping
    /\ UNCHANGED <<outcome, established, control, accept, controlSock, race>>

\* The mapping's async_close ends with its socket.
Unmapped ==
    /\ opener = "unmapping"
    /\ CloseWinner
    /\ opener' = "closing"
    /\ BeginListenerClose
    /\ UNCHANGED <<outcome, established, control, accept, controlSock, winner, taken, mapping>>

Verdict == IF outcome = "return" THEN "returned" ELSE "raised"

\* finally closes the control socket.  wait_closed may raise an OSError that is
\* no ConnectionError, also when there is a mapping to return.
OpenerEnds ==
    /\ opener = "closing"
    /\ ListenerSettled
    /\ controlSock' = IF controlSock = "open" THEN "closed" ELSE controlSock
    /\ \/ opener' = Verdict /\ UNCHANGED outcome
       \/ /\ "socket" \in Faults /\ outcome = "return"
          /\ outcome' = "socket" /\ opener' = "raised"
    /\ UNCHANGED <<established, control, accept, listenerClosed, pool, session, race,
                   mapping>>

\* The opener is cancelled while it cleans up: in the gather of its tasks, which
\* still waits for them and cancels them again, in the close of the mapping, in
\* wait_closed of the control socket, or in the close of listeners that were
\* refused.  What the awaited call had still to do is not done.
CleanupCancelled ==
    /\ "cancel" \in Faults
    /\ outcome' = "cancelled"
    /\ \/ /\ opener = "stopping" /\ ~established
          /\ CancelAccept
          /\ UNCHANGED <<opener, controlSock>>
       \/ /\ opener \in {"stopping", "unmapping"} /\ established
          /\ opener' = "closing" /\ BeginListenerClose
          /\ UNCHANGED <<accept, controlSock, inb, outb>>
       \/ /\ opener = "closing" /\ controlSock = "open"
          /\ opener' = "raised" /\ controlSock' = "closed"
          /\ UNCHANGED <<accept, listenerClosed, pool, session, inb, outb>>
       \/ /\ opener = "unbind" /\ pool = "closing"
          /\ opener' = "raised" /\ pool' = "abandoned"
          /\ UNCHANGED <<accept, listenerClosed, session, controlSock, inb, outb>>
    /\ UNCHANGED <<established, control, winner, taken, mapping>>

-----------------------------------------------------------------------------
Setup  == Bind \/ Register \/ RegisterFailed \/ Unbound \/ PoolCloses
Racing ==
    \/ \E i \in Inbound : RaceAccepts(i)
    \/ \E o \in Outbound : RaceDials(o) \/ RaceDialFails(o)
    \/ \E w \in Inbound \cup Outbound : RaceWon(w)
    \/ RaceSettled
    \/ RaceTimeout
Accepting ==
    \/ Forwarded \/ ForwardFailed \/ Drained \/ Handshaken \/ Mapped
    \/ HandshakeFailed \/ AcceptLeaves
Owner ==
    \/ ControlConnected \/ BothDone \/ Authenticated
    \/ \E cause \in Causes : OpenerStops(cause)
    \/ OpenerStopped \/ Unmapped \/ OpenerEnds

Next ==
    \/ Setup
    \/ \E i \in Inbound : CameraConnects(i) \/ CameraLeaves(i)
    \/ Racing
    \/ Accepting
    \/ ControlDone
    \/ Owner
    \/ CleanupCancelled

Spec == Init /\ [][Next]_vars

\* Every await of the opener and its tasks ends or times out; only the wait
\* for the listening servers has no timeout of its own.
Fairness ==
    /\ WF_vars(Setup) /\ WF_vars(Racing) /\ WF_vars(Accepting)
    /\ WF_vars(ControlDone) /\ WF_vars(Owner)

FairSpec == Spec /\ Fairness

-----------------------------------------------------------------------------
(* Safety *)

OpenSockets == OpenInbound \cup {o \in Outbound : outb[o] \in {"dialling", "open"}}

\* A returned mapping is live on its own socket, and nothing else the opener
\* or its tasks opened is left: no listener, no session, no losing candidate.
ReturnsOnlyTheMapping ==
    opener = "returned" =>
        /\ mapping = "live" /\ established
        /\ OpenSockets \subseteq {winner}
        /\ pool = "closed" /\ session = "closed" /\ controlSock = "closed"

\* When the opener raises, its session and its control socket are closed, however
\* often it was cancelled.  Unless it was cancelled, or the control exchange or the
\* close of the control socket failed (see NoOrphanMapping), so is everything else.
RaisesClean ==
    opener = "raised" =>
        /\ session # "open" /\ controlSock # "open"
        /\ outcome \notin {"control", "cancelled", "socket"} =>
              /\ mapping # "live"
              /\ OpenSockets = {}
              /\ pool \in {"none", "closed"}

\* The race hands over one socket: once the winner is taken every other
\* candidate that connected or still dials is closed, never the winner.
OneSocketWins ==
    accept \in {"drain", "handshake", "local"} /\ opener # "stopping" =>
        /\ winner \in Inbound => taken = winner
        /\ {o \in Outbound : outb[o] # "closed"} \subseteq {winner}
        /\ taken # None /\ taken # winner => inb[taken] = "closed"

\* No failure leaves the camera's mapping behind ("shared ownership cleanup", the
\* subject of OrbwebLanClientTests).
NoOrphanMapping == opener = "raised" => mapping # "live"

(* Liveness *)

\* The opener ends: the caller of the pool holds the camera's lock meanwhile.
OpenerTerminates == opener \notin {"returned", "raised"} ~> opener \in {"returned", "raised"}
=============================================================================
