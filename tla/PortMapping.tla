--------------------------- MODULE PortMapping ---------------------------
(***************************************************************************)
(* OrbwebPortMapping (orbweb/port_mapping.py): loopback TCP clients        *)
(* multiplexed over one established tunnel to a camera.                    *)
(*                                                                         *)
(* The mapping runs a receive loop, a keepalive loop and one forward task  *)
(* per accepted client on one asyncio event loop.  A step of the model is  *)
(* what a task does between two awaits at which it can be suspended.       *)
(* Payloads are abstracted to their sequence number; a frame carries the   *)
(* client connection it belongs to, from which the code's header fields    *)
(* (request id, ports) are read, so that a misrouted frame is visible.     *)
(* The camera and the local clients are external.                          *)
(***************************************************************************)
EXTENDS Integers, Sequences, FiniteSets

CONSTANTS
    Conns,       \* client connections; each is accepted at most once
    NoConn,      \* "no stream"
    Ports,       \* camera ports exposed on the loopback interface
    IdSpace,     \* number of request ids, 2^31 in the code
    MaxRetired,  \* MAX_RETIRED_STREAMS
    MaxMissed,   \* MAX_MISSED_KEEPALIVES
    MaxSend,     \* bound: chunks a local client sends
    MaxReceive,  \* bound: data frames the camera sends on a stream
    Beating,     \* FALSE: no run of this instance lasts a keepalive delay
    Faults       \* the environment's misfortunes of this instance

ASSUME ConstantsAssumption ==
    /\ NoConn \notin Conns
    /\ Ports # {}
    /\ IdSpace \in Nat \ {0}
    /\ MaxRetired \in Nat \ {0}
    /\ MaxMissed \in Nat
    /\ MaxSend \in Nat
    /\ MaxReceive \in Nat
    /\ Beating \in BOOLEAN
    /\ Faults \subseteq {"client_reset", "client_stalls", "tunnel_lost",
                   "camera_dead", "camera_stray", "owner_close"}

\* Values of the operation field (tunnel.py): a sequence number, or a control.
DISCONNECT_RESPONSE == -2
DISCONNECT_CONFIRM  == -3
DISCONNECT_REQUEST  == -4
Operations == Nat \cup {DISCONNECT_RESPONSE, DISCONNECT_CONFIRM, DISCONNECT_REQUEST}

Ids == 0 .. IdSpace - 1
Packets == [cmd : {"ACCESS", "DATA", "KEEPALIVE"}, op : Operations,
            conn : Conns \cup {NoConn}]
Access(c) == [cmd |-> "ACCESS", op |-> 0, conn |-> c]
Frame(c, op) == [cmd |-> "DATA", op |-> op, conn |-> c]
Keepalive == [cmd |-> "KEEPALIVE", op |-> 0, conn |-> NoConn]

VARIABLES
    \* the mapping
    stream,       \* the fields of each connection's _MappedStream
    task,         \* where each connection's forward task is suspended
    failed,       \* connections whose forward task is leaving with an error
    streams,      \* values of _streams
    retired,      \* values of _retired_streams
    retirements,  \* how many streams were retired: the insertion order
    nextId,       \* _next_request_id
    rx,           \* the receive loop
    ka,           \* the keepalive loop: "on" or "off"
    missed,       \* _missed_keepalives
    terminal,     \* _terminal_error
    closing,      \* progress of async_close
    owned,        \* the streams async_close took over
    \* the sockets
    sock,         \* the mapping's side of each loopback socket
    client,       \* the local client's side
    got,          \* frames written to the local client
    up, down,     \* the tunnel socket, to and from the camera
    \* the camera
    cam, camAlive

mapping == <<stream, task, failed, streams, retired, retirements, nextId, rx,
             ka, missed, terminal, closing, owned>>
sockets == <<sock, client, got>>
camera  == <<cam, camAlive>>
vars    == <<mapping, sockets, up, down, camera>>

Errors == {"none", "unknown", "mismatch", "sequence", "late_data",
           "local_reset", "keepalive", "transport"}

\* Mutant: _closed is set at the end of async_close.
ClosedLate == closing = "closed"

\* _closed, set by async_close before anything else.
Closed == closing # "open"
Idle == [pc |-> "loop", conn |-> NoConn, remove |-> FALSE]
Ended == [pc |-> "ended", conn |-> NoConn, remove |-> FALSE]

\* The states of a stream, of its forward task, of the receive loop, of the
\* bytes a client received, and of the camera's end of a stream.
StreamStates == [id : Ids, port : Ports, sendSeq : Nat, recvSeq : Nat,
                 remoteDisconnect : BOOLEAN, retiredAt : Nat]
TaskStates == {"none", "announce", "read", "send", "request", "close", "done"}
RxStates == [pc : {"loop", "deliver", "respond", "confirm", "stop", "await", "ended"},
             conn : Conns \cup {NoConn}, remove : BOOLEAN]
Delivered == [conn : Conns, op : Nat]
CameraStates == [state : {"none", "open", "gone"}, sendSeq : Nat, recvSeq : Nat,
                 requested : BOOLEAN, answered : BOOLEAN]

\* Every variable keeps its type; in particular _next_request_id and the ids it
\* gives stay below IdSpace when they wrap (port_mapping.py:175).
TypeOK ==
    /\ stream \in [Conns -> StreamStates]
    /\ task \in [Conns -> TaskStates]
    /\ failed \subseteq Conns
    /\ streams \subseteq Conns
    /\ retired \subseteq Conns
    /\ retirements \in Nat
    /\ nextId \in Ids
    /\ rx \in RxStates
    /\ ka \in {"on", "off"}
    /\ missed \in Nat
    /\ terminal \in Errors
    /\ closing \in {"open", "closing", "closed"}
    /\ owned \subseteq Conns
    /\ sock \in [Conns -> {"none", "open", "closing", "lost"}]
    /\ client \in [Conns -> {"none", "open", "eof", "stalled", "reset"}]
    /\ got \in [Conns -> Seq(Delivered)]
    /\ up \in Seq(Packets)
    /\ down \in Seq(Packets)
    /\ cam \in [Conns -> CameraStates]
    /\ camAlive \in BOOLEAN

Init ==
    /\ stream = [c \in Conns |->
          [id |-> 0, port |-> CHOOSE p \in Ports : TRUE, sendSeq |-> 0,
           recvSeq |-> 0, remoteDisconnect |-> FALSE, retiredAt |-> 0]]
    /\ task = [c \in Conns |-> "none"]
    /\ failed = {}
    /\ streams = {}
    /\ retired = {}
    /\ retirements = 0
    /\ nextId = 0
    /\ rx = Idle
    /\ ka = "on"
    /\ missed = 0
    /\ terminal = "none"
    /\ closing = "open"
    /\ owned = {}
    /\ sock = [c \in Conns |-> "none"]
    /\ client = [c \in Conns |-> "none"]
    /\ got = [c \in Conns |-> <<>>]
    /\ up = <<>>
    /\ down = <<>>
    /\ cam = [c \in Conns |-> [state |-> "none", sendSeq |-> 0, recvSeq |-> 0,
                               requested |-> FALSE, answered |-> FALSE]]
    /\ camAlive = TRUE

-----------------------------------------------------------------------------
(* Helpers *)

\* _fail: the first error is kept; the close it schedules is CloseBegin.
Fail(error) ==
    terminal' = IF terminal = "none" THEN error ELSE terminal

ActiveIds == {stream[c].id : c \in streams}

\* Mutant: the mask of _next_request_id is forgotten.
NextIdUnmasked(id) == id + 1

NextIdAfter(id) == (id + 1) % IdSpace

\* How far _allocate_request_id walks from _next_request_id to id.
Distance(id) == (id - nextId + IdSpace) % IdSpace

\* Mutant: the next id is taken whether or not a stream still has it.
NextAnyway(id) == id = nextId

\* _allocate_request_id: the first id from nextId on that names no open stream.
Allocatable(id) ==
    /\ id \notin ActiveIds
    /\ \A other \in Ids : Distance(other) < Distance(id) => other \in ActiveIds

\* Mutant: writer.close() is forgotten.
NotClosing(s) == s

Closing(s) == IF s = "open" THEN "closing" ELSE s

\* The finally clause of _async_forward_local, up to its first await.
Finally(c) ==
    IF ~Closed /\ ~stream[c].remoteDisconnect THEN "request" ELSE "close"

\* Where a forward task is after task.cancel(): inside try it enters finally,
\* inside finally it is over.  (A task that has not run its first step is over
\* at once; its stream is unknown to the camera and its writer is closed by the
\* caller, so that the request it would send here is the only difference.)
Cancelled(c) ==
    CASE task[c] \in {"announce", "read", "send"} -> Finally(c)
      [] task[c] \in {"request", "close"} -> "done"
      [] OTHER -> task[c]

-----------------------------------------------------------------------------
(* Loopback clients *)

\* _on_local_client on an open mapping.
Accept(c, p) ==
    /\ client[c] = "none"
    /\ ~Closed
    /\ \E id \in Ids :
          /\ Allocatable(id)
          /\ nextId' = NextIdAfter(id)
          /\ retired' = {r \in retired : stream[r].id # id}
          /\ stream' = [stream EXCEPT ![c] = [@ EXCEPT !.id = id, !.port = p]]
    /\ streams' = streams \cup {c}
    /\ task' = [task EXCEPT ![c] = "announce"]
    /\ client' = [client EXCEPT ![c] = "open"]
    /\ sock' = [sock EXCEPT ![c] = "open"]
    /\ UNCHANGED <<failed, retirements, rx, ka, missed, terminal, closing, owned,
                   got, up, down, camera>>

\* _on_local_client on a mapping that is closing: the socket is closed.
Reject(c) ==
    /\ client[c] = "none"
    /\ closing = "closing"
    /\ client' = [client EXCEPT ![c] = "open"]
    /\ sock' = [sock EXCEPT ![c] = "closing"]
    /\ UNCHANGED <<mapping, got, up, down, camera>>

\* The client half-closes or closes its socket in an orderly way.
ClientEof(c) ==
    /\ client[c] = "open"
    /\ sock[c] = "open"
    /\ client' = [client EXCEPT ![c] = "eof"]
    /\ UNCHANGED <<mapping, sock, got, up, down, camera>>

\* The client's socket is reset.
ClientReset(c) ==
    /\ "client_reset" \in Faults
    /\ client[c] \in {"open", "eof", "stalled"}
    /\ sock[c] \in {"open", "closing"}
    /\ client' = [client EXCEPT ![c] = "reset"]
    /\ sock' = [sock EXCEPT ![c] = "lost"]
    /\ UNCHANGED <<mapping, got, up, down, camera>>

\* The client stays connected and reads no more, with data still to be flushed
\* to it.  (One that had ended its stream before is read to that end first.)
ClientStall(c) ==
    /\ "client_stalls" \in Faults
    /\ got[c] # <<>>
    /\ \/ client[c] = "open" /\ sock[c] \in {"open", "closing"}
       \/ client[c] = "eof" /\ sock[c] = "closing"
    /\ client' = [client EXCEPT ![c] = "stalled"]
    /\ UNCHANGED <<mapping, sock, got, up, down, camera>>

\* A socket the mapping closed is flushed and gone (connection_lost).  Nothing
\* but its client makes this happen: see Fairness.
SocketLost(c) ==
    /\ sock[c] = "closing"
    /\ sock' = [sock EXCEPT ![c] = "lost"]
    /\ UNCHANGED <<mapping, client, got, up, down, camera>>

-----------------------------------------------------------------------------
(* The forward task of a stream: _async_forward_local *)

ForwardAnnounce(c) ==
    /\ task[c] = "announce"
    /\ up' = Append(up, Access(c))
    /\ task' = [task EXCEPT ![c] = "read"]
    /\ UNCHANGED <<stream, failed, streams, retired, retirements, nextId, rx, ka,
                   missed, terminal, closing, owned, sockets, down, camera>>

\* A chunk was read: the sequence number is taken before the write lock.
ForwardRead(c) ==
    /\ task[c] = "read"
    /\ client[c] \in {"open", "eof", "stalled"}
    /\ stream[c].sendSeq < MaxSend
    /\ stream' = [stream EXCEPT ![c].sendSeq = @ + 1]
    /\ task' = [task EXCEPT ![c] = "send"]
    /\ UNCHANGED <<failed, streams, retired, retirements, nextId, rx, ka, missed,
                   terminal, closing, owned, sockets, up, down, camera>>

\* Mutant: the sequence number is read again after the increment.
ForwardSendNext(c) ==
    /\ task[c] = "send"
    /\ up' = Append(up, Frame(c, stream[c].sendSeq))
    /\ task' = [task EXCEPT ![c] = "read"]
    /\ UNCHANGED <<stream, failed, streams, retired, retirements, nextId, rx, ka,
                   missed, terminal, closing, owned, sockets, down, camera>>

ForwardSend(c) ==
    /\ task[c] = "send"
    /\ up' = Append(up, Frame(c, stream[c].sendSeq - 1))
    /\ task' = [task EXCEPT ![c] = "read"]
    /\ UNCHANGED <<stream, failed, streams, retired, retirements, nextId, rx, ka,
                   missed, terminal, closing, owned, sockets, down, camera>>

\* read() returned b"" or raised: the loop is left for the finally clause.
ForwardEnd(c) ==
    /\ task[c] = "read"
    /\ client[c] \in {"eof", "reset"}
    /\ task' = [task EXCEPT ![c] = Finally(c)]
    /\ failed' = IF client[c] = "reset" THEN failed \cup {c} ELSE failed
    /\ sock' = IF Finally(c) = "close" THEN [sock EXCEPT ![c] = Closing(@)] ELSE sock
    /\ UNCHANGED <<stream, streams, retired, retirements, nextId, rx, ka, missed,
                   terminal, closing, owned, client, got, up, down, camera>>

\* finally: the local end is gone first, so ask the camera to disconnect.
ForwardRequest(c) ==
    /\ task[c] = "request"
    /\ up' = Append(up, Frame(c, DISCONNECT_REQUEST))
    /\ task' = [task EXCEPT ![c] = "close"]
    /\ sock' = [sock EXCEPT ![c] = Closing(@)]
    /\ UNCHANGED <<stream, failed, streams, retired, retirements, nextId, rx, ka,
                   missed, terminal, closing, owned, client, got, down, camera>>

\* wait_closed returned; then _local_task_done.
ForwardDone(c) ==
    /\ task[c] = "close"
    /\ sock[c] = "lost"
    /\ task' = [task EXCEPT ![c] = "done"]
    /\ IF c \in failed /\ ~Closed THEN Fail("local_reset") ELSE UNCHANGED terminal
    /\ UNCHANGED <<stream, failed, streams, retired, retirements, nextId, rx, ka,
                   missed, closing, owned, sockets, up, down, camera>>

-----------------------------------------------------------------------------
(* The receive loop: _async_receive_loop and _async_dispatch_frame *)

\* The loop is at readexactly and the head of down is a whole packet.
Receiving == rx.pc = "loop" /\ down # <<>>
Received == Head(down)

RxKeepalive ==
    /\ Receiving
    /\ Received.cmd = "KEEPALIVE"
    /\ missed' = 0
    /\ down' = Tail(down)
    /\ UNCHANGED <<stream, task, failed, streams, retired, retirements, nextId, rx,
                   ka, terminal, closing, owned, sockets, up, camera>>

\* Mutant: streams are looked up by their ports alone.
SameAnyId(c) == c \in Conns

\* A frame's request id and ports are those its connection was announced with.
SameId(c)    == stream[c].id = stream[Received.conn].id
SamePorts(c) == stream[c].port = stream[Received.conn].port

\* A frame for no open stream: late frames of a retired one are discarded.
RxUnknown ==
    /\ Receiving
    /\ Received.cmd = "DATA"
    /\ \A c \in streams : ~SameId(c)
    /\ down' = Tail(down)
    /\ IF \E r \in retired : SameId(r) /\ SamePorts(r)
       THEN UNCHANGED <<rx, terminal>>
       ELSE rx' = Ended /\ Fail("unknown")
    /\ UNCHANGED <<stream, task, failed, streams, retired, retirements, nextId,
                   ka, missed, closing, owned, sockets, up, camera>>

RxMismatch(c) ==
    /\ Receiving
    /\ Received.cmd = "DATA"
    /\ SameId(c) /\ ~SamePorts(c)
    /\ down' = Tail(down)
    /\ rx' = Ended
    /\ Fail("mismatch")
    /\ UNCHANGED <<stream, task, failed, streams, retired, retirements, nextId,
                   ka, missed, closing, owned, sockets, up, camera>>

\* A frame routed to open stream c.
Routed(c) == Receiving /\ Received.cmd = "DATA" /\ SameId(c) /\ SamePorts(c)

\* Mutant: gaps in the sequence are accepted.
NotBefore(c) == Received.op >= stream[c].recvSeq

InSequence(c) == Received.op = stream[c].recvSeq

\* Why drain() fails on a lost socket: the client reset it, or it was closed.
DrainError(c) == IF client[c] = "reset" THEN "local_reset" ELSE "late_data"

RxBadSequence(c) ==
    /\ Routed(c)
    /\ Received.op >= 0
    /\ ~InSequence(c)
    /\ down' = Tail(down)
    /\ rx' = Ended
    /\ Fail("sequence")
    /\ UNCHANGED <<stream, task, failed, streams, retired, retirements, nextId,
                   ka, missed, closing, owned, sockets, up, camera>>

\* Data in sequence: write, then drain (which fails at once on a lost socket).
RxData(c) ==
    /\ Routed(c)
    /\ Received.op >= 0
    /\ InSequence(c)
    /\ down' = Tail(down)
    /\ stream' = [stream EXCEPT ![c].recvSeq = @ + 1]
    /\ IF sock[c] = "open"
       THEN got' = [got EXCEPT ![c] = Append(@, [conn |-> Received.conn, op |-> Received.op])]
       ELSE UNCHANGED got
    /\ IF sock[c] = "lost"
       THEN rx' = Ended /\ Fail(DrainError(c))
       ELSE rx' = [pc |-> "deliver", conn |-> c, remove |-> FALSE] /\ UNCHANGED terminal
    /\ UNCHANGED <<task, failed, streams, retired, retirements, nextId, ka, missed,
                   closing, owned, sock, client, up, camera>>

\* drain() returns, or raises if the socket was lost while it waited.
RxDrained ==
    /\ rx.pc = "deliver"
    /\ \/ rx' = Idle /\ UNCHANGED terminal
       \/ /\ sock[rx.conn] = "lost"
          /\ rx' = Ended
          /\ Fail(DrainError(rx.conn))
    /\ UNCHANGED <<stream, task, failed, streams, retired, retirements, nextId, ka,
                   missed, closing, owned, sockets, up, down, camera>>

\* Mutant: only a confirmation removes the stream.
RemovesLast(op) == op = DISCONNECT_CONFIRM

\* Of the three controls only a request leaves the stream in the table.
Removes(op) == op # DISCONNECT_REQUEST

\* A disconnect control for open stream c.
RxControl(c) ==
    /\ Routed(c)
    /\ Received.op < 0
    /\ down' = Tail(down)
    /\ stream' = IF Received.op = DISCONNECT_REQUEST
                 THEN [stream EXCEPT ![c].remoteDisconnect = TRUE] ELSE stream
    /\ rx' = [pc |-> CASE Received.op = DISCONNECT_REQUEST -> "respond"
                       [] Received.op = DISCONNECT_RESPONSE -> "confirm"
                       [] Received.op = DISCONNECT_CONFIRM -> "stop",
              conn |-> c, remove |-> Removes(Received.op)]
    /\ UNCHANGED <<task, failed, streams, retired, retirements, nextId, ka, missed,
                   terminal, closing, owned, sockets, up, camera>>

\* The answer to a control is sent before the local stream is stopped.
RxAnswer ==
    /\ rx.pc \in {"respond", "confirm"}
    /\ up' = Append(up, Frame(rx.conn, IF rx.pc = "respond" THEN DISCONNECT_RESPONSE
                                                          ELSE DISCONNECT_CONFIRM))
    /\ rx' = [rx EXCEPT !.pc = "stop"]
    /\ UNCHANGED <<stream, task, failed, streams, retired, retirements, nextId, ka,
                   missed, terminal, closing, owned, sockets, down, camera>>

\* A forward task that is cancelled in wait_closed() takes the future with it
\* that every later wait_closed() of this writer awaits.
CancelsWaitClosed(c) == task[c] = "close" /\ sock[c] # "lost"

\* _async_stop_local_stream: cancel the forward task; its writer is closed by
\* its finally clause or, once it is over, by the caller.  If the caller's own
\* wait_closed() was cancelled that way, CancelledError leaves the receive loop
\* as if the loop itself were cancelled: nothing is retired and nothing fails.
RxStop ==
    /\ rx.pc = "stop"
    /\ rx' = IF CancelsWaitClosed(rx.conn) THEN Ended ELSE [rx EXCEPT !.pc = "await"]
    /\ task' = [task EXCEPT ![rx.conn] = Cancelled(rx.conn)]
    /\ failed' = failed \ {rx.conn}
    /\ sock' = IF Cancelled(rx.conn) = "request" THEN sock
               ELSE [sock EXCEPT ![rx.conn] = Closing(@)]
    /\ UNCHANGED <<stream, streams, retired, retirements, nextId, ka, missed,
                   terminal, closing, owned, client, got, up, down, camera>>

\* The entry a full _retired_streams gives up: the one inserted first.
Oldest == CHOOSE r \in retired :
              \A s \in retired : stream[r].retiredAt <= stream[s].retiredAt

\* Mutants: retired streams are not remembered, or not once there are many.
RetireNothing(c) == retired \ {c}
RetireFirst(c) == IF Cardinality(retired) >= MaxRetired THEN retired ELSE retired \cup {c}

\* What _retired_streams holds once c joined it.
Retire(c) ==
    (IF Cardinality(retired) >= MaxRetired THEN retired \ {Oldest} ELSE retired) \cup {c}

\* _async_stop_local_stream after its awaits: with remove, the stream is retired.
RxStopped ==
    /\ rx.pc = "await"
    /\ task[rx.conn] = "done"
    /\ sock[rx.conn] = "lost"
    /\ rx' = Idle
    /\ IF rx.remove
       THEN /\ streams' = streams \ {rx.conn}
            /\ retired' = Retire(rx.conn)
            /\ retirements' = retirements + 1
            /\ stream' = [stream EXCEPT ![rx.conn].retiredAt = retirements + 1]
       ELSE UNCHANGED <<streams, retired, retirements, stream>>
    /\ UNCHANGED <<task, failed, nextId, ka, missed, terminal, closing, owned,
                   sockets, up, down, camera>>

\* The tunnel socket ends or breaks under the receive loop.
TunnelLost ==
    /\ "tunnel_lost" \in Faults
    /\ rx.pc = "loop"
    /\ rx' = Ended
    /\ Fail("transport")
    /\ UNCHANGED <<stream, task, failed, streams, retired, retirements, nextId, ka,
                   missed, closing, owned, sockets, up, down, camera>>

-----------------------------------------------------------------------------
(* Keepalives and close *)

\* Mutant: the loop ends quietly when the camera stays silent.
KeepaliveRoundQuiet ==
    /\ Beating
    /\ ka = "on"
    /\ missed' = missed + 1
    /\ ka' = IF missed + 1 > MaxMissed THEN "off" ELSE ka
    /\ UNCHANGED <<stream, task, failed, streams, retired, retirements, nextId, rx,
                   terminal, closing, owned, sockets, up, down, camera>>

\* _async_keepalive_loop, one round.  The packet itself is not modelled: the
\* camera sends its own keepalives whatever it receives.
KeepaliveRound ==
    /\ Beating
    /\ ka = "on"
    /\ missed' = missed + 1
    /\ IF missed + 1 > MaxMissed
       THEN ka' = "off" /\ Fail("keepalive")
       ELSE UNCHANGED <<ka, terminal>>
    /\ UNCHANGED <<stream, task, failed, streams, retired, retirements, nextId, rx,
                   closing, owned, sockets, up, down, camera>>

\* async_close up to its first await, called by the owner or for _fail.
CloseBegin ==
    /\ closing = "open"
    /\ terminal # "none" \/ "owner_close" \in Faults
    /\ closing' = "closing"
    /\ rx' = Ended
    /\ ka' = "off"
    /\ owned' = streams
    /\ streams' = {}
    /\ retired' = {}
    /\ stream' = [c \in Conns |-> IF c \in streams
                    THEN [stream[c] EXCEPT !.remoteDisconnect = TRUE] ELSE stream[c]]
    /\ task' = [c \in Conns |->
                  IF c \notin streams THEN task[c]
                  ELSE CASE task[c] \in {"announce", "read", "send"} -> "close"
                         [] task[c] \in {"request", "close"} -> "done"
                         [] OTHER -> task[c]]
    /\ sock' = [c \in Conns |-> IF c \in streams THEN Closing(sock[c]) ELSE sock[c]]
    /\ UNCHANGED <<failed, retirements, nextId, missed, terminal, client, got,
                   up, down, camera>>

\* async_close after its awaits: the tasks and sockets it took over are over,
\* and no socket the servers accepted is left (Python 3.12.1 and later).
CloseEnd ==
    /\ closing = "closing"
    /\ \A c \in owned : task[c] = "done"
    /\ \A c \in Conns : sock[c] \in {"none", "lost"}
    /\ closing' = "closed"
    /\ up' = <<>>
    /\ down' = <<>>
    /\ UNCHANGED <<stream, task, failed, streams, retired, retirements, nextId, rx,
                   ka, missed, terminal, owned, sockets, camera>>

-----------------------------------------------------------------------------
(* The camera's end of the tunnel (external), as the code expects it *)

CamUp == camAlive /\ closing # "closed"

\* The camera answers a request with a response, a response with a confirm.
CamReceive ==
    /\ CamUp
    /\ up # <<>>
    /\ up' = Tail(up)
    /\ LET p == Head(up) IN
         \/ /\ p.cmd = "ACCESS"
            /\ cam' = [cam EXCEPT ![p.conn].state = "open"]
            /\ UNCHANGED down
         \/ /\ p.cmd = "DATA" /\ p.op >= 0
            /\ cam' = [cam EXCEPT ![p.conn].recvSeq = @ + 1]
            /\ UNCHANGED down
         \/ /\ p.cmd = "DATA" /\ p.op = DISCONNECT_REQUEST
            /\ cam' = [cam EXCEPT ![p.conn].answered = TRUE]
            /\ down' = Append(down, Frame(p.conn, DISCONNECT_RESPONSE))
         \/ /\ p.cmd = "DATA" /\ p.op = DISCONNECT_RESPONSE
            /\ cam' = [cam EXCEPT ![p.conn].state = "gone"]
            /\ down' = Append(down, Frame(p.conn, DISCONNECT_CONFIRM))
         \/ /\ p.cmd = "DATA" /\ p.op = DISCONNECT_CONFIRM
            /\ cam' = [cam EXCEPT ![p.conn].state = "gone"]
            /\ UNCHANGED down
    /\ UNCHANGED <<mapping, sockets, camAlive>>

\* Media and replies flow until the camera learns the stream is over, also
\* after it has answered a disconnect request.
CamData(c) ==
    /\ CamUp
    /\ cam[c].state = "open"
    /\ ~cam[c].requested
    /\ cam[c].sendSeq < MaxReceive
    /\ cam' = [cam EXCEPT ![c].sendSeq = @ + 1]
    /\ down' = Append(down, Frame(c, cam[c].sendSeq))
    /\ UNCHANGED <<mapping, sockets, up, camAlive>>

CamRequest(c) ==
    /\ CamUp
    /\ cam[c].state = "open"
    /\ ~cam[c].requested /\ ~cam[c].answered
    /\ cam' = [cam EXCEPT ![c].requested = TRUE]
    /\ down' = Append(down, Frame(c, DISCONNECT_REQUEST))
    /\ UNCHANGED <<mapping, sockets, up, camAlive>>

\* Bound: one keepalive in flight.
CamKeepalive ==
    /\ CamUp
    /\ Beating
    /\ \A i \in 1 .. Len(down) : down[i] # Keepalive
    /\ down' = Append(down, Keepalive)
    /\ UNCHANGED <<mapping, sockets, up, camera>>

\* A camera that lost its own bookkeeping: any frame for a stream it knew.
CamStray(c) ==
    /\ "camera_stray" \in Faults
    /\ CamUp
    /\ cam[c].state # "none"
    /\ cam[c].sendSeq < MaxReceive
    /\ cam' = [cam EXCEPT ![c].sendSeq = @ + 1]
    /\ \E op \in 0 .. MaxReceive \cup {DISCONNECT_RESPONSE, DISCONNECT_CONFIRM,
                                       DISCONNECT_REQUEST} :
          down' = Append(down, Frame(c, op))
    /\ UNCHANGED <<mapping, sockets, up, camAlive>>

CamDie ==
    /\ "camera_dead" \in Faults
    /\ CamUp
    /\ camAlive' = FALSE
    /\ UNCHANGED <<mapping, sockets, up, down, cam>>

-----------------------------------------------------------------------------
Client == \E c \in Conns :
    \/ \E p \in Ports : Accept(c, p)
    \/ Reject(c)
    \/ ClientEof(c)
    \/ ClientReset(c)
    \/ ClientStall(c)
    \/ SocketLost(c)

Forward == \E c \in Conns :
    \/ ForwardAnnounce(c)
    \/ ForwardRead(c)
    \/ ForwardSend(c)
    \/ ForwardEnd(c)
    \/ ForwardRequest(c)
    \/ ForwardDone(c)

Dispatch ==
    \/ RxKeepalive
    \/ RxUnknown
    \/ \E c \in streams : RxMismatch(c) \/ RxBadSequence(c) \/ RxData(c) \/ RxControl(c)

Receive == Dispatch \/ RxDrained \/ RxAnswer \/ RxStop \/ RxStopped

Camera ==
    \/ CamReceive
    \/ \E c \in Conns : CamData(c) \/ CamRequest(c) \/ CamStray(c)
    \/ CamKeepalive
    \/ CamDie

Next ==
    \/ Client
    \/ Forward
    \/ Receive
    \/ TunnelLost
    \/ KeepaliveRound
    \/ CloseBegin
    \/ CloseEnd
    \/ Camera

Spec == Init /\ [][Next]_vars

\* A client that does not read keeps what was written to it from being flushed,
\* and so its socket from being gone and a drain() from returning.
Unread(c) == client[c] = "stalled" /\ sock[c] # "lost"
HeldUp == rx.pc = "deliver" /\ Unread(rx.conn)

\* The event loop runs every ready task; closed sockets whose client reads are
\* flushed; a live camera answers; a failed mapping runs the close it scheduled.
Fairness ==
    /\ \A c \in Conns :
         /\ WF_vars(ForwardAnnounce(c)) /\ WF_vars(ForwardSend(c))
         /\ WF_vars(ForwardEnd(c)) /\ WF_vars(ForwardRequest(c))
         /\ WF_vars(ForwardDone(c)) /\ WF_vars(~Unread(c) /\ SocketLost(c))
    /\ WF_vars(~HeldUp /\ Receive)
    /\ WF_vars(KeepaliveRound)
    /\ WF_vars(terminal # "none" /\ CloseBegin)
    /\ WF_vars(CloseEnd)
    /\ WF_vars(CamReceive)

FairSpec == Spec /\ Fairness

-----------------------------------------------------------------------------
(* Safety *)

\* A request id names at most one stream among the open and the retired ones,
\* also after the ids wrapped around: a frame is routed to one stream or to none.
IdsUnique ==
    \A c, d \in streams \cup retired :
        stream[c].id = stream[d].id => c = d

\* What a local client receives is, in order and without gaps, what the camera
\* sent on that client's own stream, whatever streams open and close meanwhile.
LocalIntegrity ==
    \A c \in Conns : got[c] = [i \in 1 .. Len(got[c]) |-> [conn |-> c, op |-> i - 1]]

\* Even from a camera that sends stray frames, and after the request ids
\* wrapped, a local client receives only frames with its own request id and
\* ports, numbered from zero without gaps: the mapping stops rather than guess.
StraysNeverReorder ==
    \A c \in Conns : \A i \in 1 .. Len(got[c]) :
        /\ got[c][i].op = i - 1
        /\ stream[got[c][i].conn].id = stream[c].id
        /\ stream[got[c][i].conn].port = stream[c].port

\* What the camera will receive of a stream is its announcement, then its data
\* frames in sequence, then nothing but controls once a disconnect was asked.
UpOrdered ==
    \A i \in 1 .. Len(up) :
        LET c == up[i].conn
            earlier(P(_)) == {j \in 1 .. i - 1 : up[j].conn = c /\ P(up[j])}
            access(p) == p.cmd = "ACCESS"
            data(p) == p.cmd = "DATA" /\ p.op >= 0
            request(p) == p.op = DISCONNECT_REQUEST
        IN  /\ ~access(up[i]) => cam[c].state # "none" \/ earlier(access) # {}
            /\ data(up[i]) =>
                 /\ up[i].op = cam[c].recvSeq + Cardinality(earlier(data))
                 /\ ~cam[c].answered
                 /\ earlier(request) = {}

\* A camera that follows the disconnect handshake is never taken for one that
\* breaks the protocol, however its frames cross those of the mapping.
NoProtocolError == terminal \notin {"unknown", "mismatch", "sequence"}

\* Late frames are recognised for each of the last MaxRetired streams that
\* ended, as long as their request id was not allocated again.
RetiredWindow ==
    ~Closed => \A c \in Conns :
        /\ stream[c].retiredAt > 0
        /\ stream[c].retiredAt > retirements - MaxRetired
        => \/ c \in retired
           \/ \E d \in Conns \ {c} :
                /\ stream[d].id = stream[c].id
                /\ d \in streams \/ stream[d].retiredAt > stream[c].retiredAt

\* When async_close is over nothing of the mapping is left: no forward task,
\* no loop, no loopback socket, no entry in the tables, whoever closed it and
\* in whatever state the streams were.
NothingAfterClose ==
    closing = "closed" =>
        /\ \A c \in Conns : task[c] \in {"none", "done"} /\ sock[c] \in {"none", "lost"}
        /\ streams = {} /\ retired = {}
        /\ rx = Ended /\ ka = "off"

\* The claim of test_forwards_tcp_and_completes_native_disconnect: late data
\* of a closed local consumer must not tear down the tunnel.
LateDataHarmless == terminal # "late_data"

(* Liveness *)

\* Once the mapping asks the camera to end a stream the stream leaves the table:
\* by the handshake or, when a client that does not read holds up the receive
\* loop or the loop is lost in the middle of it, with the whole mapping, which
\* the missing keepalives then end.
DisconnectCompletes == \A c \in Conns : task[c] = "request" ~> c \notin streams

\* The socket of a client that never reads again nor leaves is never gone.
StalledForGood == \E c \in Conns : [](Unread(c) /\ sock[c] = "closing")

\* A failed mapping, or one whose camera has gone silent, ends up fully closed,
\* also when its receive loop is held up; unless a client stays for good that
\* does not read.
FailureCloses ==
    terminal # "none" \/ ~camAlive ~> closing = "closed" \/ StalledForGood

\* async_close ends, whatever the camera does and whatever the tasks it cancels
\* were doing; only a client that stays without reading can hold it up.
CloseCompletes == closing = "closing" ~> closing = "closed" \/ StalledForGood

(* Claims of the repository that the code does not keep: no run checks them *)

\* "Return the protocol or transport error that stopped the mapping"
\* (port_mapping.py:132): a receive loop that stopped has left its error.
StopLeavesError == rx.pc = "ended" /\ ~Closed => terminal # "none"

\* "shutdown cannot wait on its own sockets" (port_mapping.py:446).
ShutdownNeverWaits == closing = "closing" ~> closing = "closed"
=============================================================================
