------------------------ MODULE PortMappingProofs ------------------------
(***************************************************************************)
(* Proofs about PortMapping, for any number of connections, ports, request *)
(* ids and retired streams, from any behaviour of the camera and of the    *)
(* clients.                                                                *)
(***************************************************************************)
EXTENDS PortMapping, SequenceTheorems, FunctionTheorems, FiniteSetTheorems, TLAPS

-----------------------------------------------------------------------------
(* The inductive invariant *)

\* The connections a client has made.
Known == {c \in Conns : client[c] # "none"}

\* A connection that was not made yet has left no trace.
Untouched ==
    \A c \in Conns \ Known :
        /\ c \notin streams \cup retired
        /\ task[c] = "none" /\ sock[c] = "none"
        /\ got[c] = <<>> /\ stream[c].recvSeq = 0
        /\ cam[c].state = "none"

\* A chunk that waits to be sent has its sequence number.
SendCounted == \A c \in Conns : task[c] = "send" => stream[c].sendSeq > 0

\* Packets name connections that were made.
FramesKnown ==
    /\ \A i \in DOMAIN up : up[i].conn \in Known
    /\ \A i \in DOMAIN down : down[i].cmd = "DATA" => down[i].conn \in Known
    /\ \A c \in Conns : \A i \in DOMAIN got[c] : got[c][i].conn \in Known

\* The receive loop works on a stream of the table.
RxOnOpen == rx.pc \notin {"loop", "ended"} => rx.conn \in streams

\* The two tables are disjoint, and so are the ids in them.
IdsApart == streams \cap retired = {} /\ IdsUnique

\* A forward task that still runs is in the table, or was taken over by the close.
TasksOwned ==
    \A c \in Conns : task[c] \notin {"none", "done"} =>
        c \in streams \/ (Closed /\ c \in owned)

\* A mapping that closes has empty tables and no loops.
AfterClose ==
    /\ Closed => streams = {} /\ retired = {} /\ rx = Ended /\ ka = "off"
    /\ closing = "closed" => \A c \in Conns : sock[c] \in {"none", "lost"}
    /\ closing = "closed" => \A c \in Conns : task[c] \in {"none", "done"}

\* While the socket of a stream is open its client was given every frame that
\* was counted.
AllWritten ==
    \A c \in Conns : sock[c] = "open" => Len(got[c]) = stream[c].recvSeq

IInv ==
    /\ TypeOK
    /\ Untouched
    /\ SendCounted
    /\ FramesKnown
    /\ RxOnOpen
    /\ IdsApart
    /\ TasksOwned
    /\ AfterClose
    /\ AllWritten
    /\ StraysNeverReorder

-----------------------------------------------------------------------------
(* Type correctness *)

\* Request ids are allocated below IdSpace, and wrap.
LEMMA IdsType ==
    /\ 0 \in Ids
    /\ \A id \in Ids : NextIdAfter(id) \in Ids
BY ConstantsAssumption DEF Ids, NextIdAfter

\* Packets are built from connections and operations.
LEMMA PacketsType ==
    /\ \A c \in Conns : Access(c) \in Packets
    /\ \A c \in Conns, op \in Operations : Frame(c, op) \in Packets
    /\ Keepalive \in Packets
    /\ Nat \subseteq Operations
    /\ {DISCONNECT_REQUEST, DISCONNECT_RESPONSE, DISCONNECT_CONFIRM} \subseteq Operations
BY DEF Packets, Access, Frame, Keepalive, Operations

\* A failure keeps terminal an error.
LEMMA FailType ==
    ASSUME TypeOK, NEW error \in Errors, Fail(error)
    PROVE  terminal' \in Errors
BY DEF Fail, TypeOK

\* The head of the tunnel and what is left of it.
LEMMA ReceivedType ==
    ASSUME TypeOK, down # <<>>
    PROVE  Received \in Packets /\ Tail(down) \in Seq(Packets)
BY DEF TypeOK, Received

\* A data frame names a connection that was made.
LEMMA ReceivedKnown ==
    ASSUME IInv, down # <<>>, Received.cmd = "DATA"
    PROVE  Received.conn \in Known /\ Received.conn \in Conns
<1>1. 1 \in DOMAIN down /\ Received = down[1]
  BY DEF IInv, TypeOK, Received
<1> QED
  BY <1>1 DEF IInv, FramesKnown, Known

\* Counting on a stream, or on the camera's end of one, keeps its type.
LEMMA StreamCount ==
    ASSUME NEW f \in [Conns -> StreamStates], NEW c \in Conns, NEW n \in Nat
    PROVE  /\ [f EXCEPT ![c].sendSeq = n] \in [Conns -> StreamStates]
           /\ [f EXCEPT ![c].recvSeq = n] \in [Conns -> StreamStates]
           /\ [f EXCEPT ![c].retiredAt = n] \in [Conns -> StreamStates]
           /\ f[c].sendSeq + 1 \in Nat /\ f[c].recvSeq + 1 \in Nat
BY DEF StreamStates

\* Counting on the camera's end of a stream keeps its type.
LEMMA CameraCount ==
    ASSUME NEW f \in [Conns -> CameraStates], NEW c \in Conns, NEW n \in Nat
    PROVE  /\ [f EXCEPT ![c].sendSeq = n] \in [Conns -> CameraStates]
           /\ [f EXCEPT ![c].recvSeq = n] \in [Conns -> CameraStates]
           /\ f[c].sendSeq \in Nat
           /\ f[c].sendSeq + 1 \in Nat /\ f[c].recvSeq + 1 \in Nat
BY DEF CameraStates

\* The turns of the disconnect handshake keep the type of the camera's end.
LEMMA CameraTurn ==
    ASSUME NEW f \in [Conns -> CameraStates], NEW c \in Conns
    PROVE  /\ [f EXCEPT ![c].state = "open"] \in [Conns -> CameraStates]
           /\ [f EXCEPT ![c].state = "gone"] \in [Conns -> CameraStates]
           /\ [f EXCEPT ![c].answered = TRUE] \in [Conns -> CameraStates]
BY DEF CameraStates

\* The two states the receive loop is left in by a frame it is done with.
LEMMA RxIdleType == Idle \in RxStates /\ Ended \in RxStates
BY DEF RxStates, Idle, Ended

\* The invariant holds initially.
LEMMA InitInv == Init => IInv
<1> SUFFICES ASSUME Init PROVE IInv
  OBVIOUS
<1>1. TypeOK
  BY IdsType, ConstantsAssumption DEF Init, TypeOK, Idle, Errors, StreamStates, TaskStates, RxStates, CameraStates
<1>2. Untouched /\ SendCounted /\ RxOnOpen /\ IdsApart /\ TasksOwned /\ AllWritten
  BY DEF Init, Untouched, SendCounted, RxOnOpen, IdsApart, IdsUnique, TasksOwned, AllWritten, Idle
<1>3. FramesKnown /\ AfterClose /\ StraysNeverReorder
  BY DEF Init, FramesKnown, AfterClose, StraysNeverReorder, Closed
<1> QED
  BY <1>1, <1>2, <1>3 DEF IInv

\* Accept keeps the types.
LEMMA AcceptType ==
    ASSUME IInv, NEW c \in Conns, NEW p \in Ports, Accept(c, p)
    PROVE  TypeOK'
<1>1. PICK id \in Ids :
      nextId' = NextIdAfter(id) /\ retired' = {r \in retired : stream[r].id # id}
      /\ stream' = [stream EXCEPT ![c] = [@ EXCEPT !.id = id, !.port = p]]
  BY DEF Accept
<1>2. stream' \in [Conns -> StreamStates]
  BY <1>1 DEF IInv, TypeOK, StreamStates
<1> QED
  BY <1>1, <1>2, IdsType DEF IInv, TypeOK, Accept, TaskStates, camera

\* Reject keeps the types.
LEMMA RejectType ==
    ASSUME IInv, NEW c \in Conns, Reject(c)
    PROVE  TypeOK'
BY FailType
DEF IInv, TypeOK, Reject, mapping, sockets, camera

\* ClientEof keeps the types.
LEMMA ClientEofType ==
    ASSUME IInv, NEW c \in Conns, ClientEof(c)
    PROVE  TypeOK'
BY FailType
DEF IInv, TypeOK, ClientEof, mapping, sockets, camera

\* ClientReset keeps the types.
LEMMA ClientResetType ==
    ASSUME IInv, NEW c \in Conns, ClientReset(c)
    PROVE  TypeOK'
BY FailType
DEF IInv, TypeOK, ClientReset, mapping, sockets, camera

\* ClientStall keeps the types.
LEMMA ClientStallType ==
    ASSUME IInv, NEW c \in Conns, ClientStall(c)
    PROVE  TypeOK'
BY FailType
DEF IInv, TypeOK, ClientStall, mapping, sockets, camera

\* SocketLost keeps the types.
LEMMA SocketLostType ==
    ASSUME IInv, NEW c \in Conns, SocketLost(c)
    PROVE  TypeOK'
BY FailType
DEF IInv, TypeOK, SocketLost, mapping, sockets, camera

\* ForwardAnnounce keeps the types.
LEMMA ForwardAnnounceType ==
    ASSUME IInv, NEW c \in Conns, ForwardAnnounce(c)
    PROVE  TypeOK'
BY PacketsType, FailType
DEF IInv, TypeOK, ForwardAnnounce, mapping, sockets, camera, TaskStates

\* ForwardRead keeps the types.
LEMMA ForwardReadType ==
    ASSUME IInv, NEW c \in Conns, ForwardRead(c)
    PROVE  TypeOK'
<1>1. stream' \in [Conns -> StreamStates]
  <2>1. stream' = [stream EXCEPT ![c].sendSeq = stream[c].sendSeq + 1]
    BY DEF ForwardRead
  <2> QED
    BY <2>1, StreamCount DEF IInv, TypeOK
<1> QED
  BY <1>1 DEF IInv, TypeOK, ForwardRead, TaskStates, sockets, camera

\* ForwardSend keeps the types.
LEMMA ForwardSendType ==
    ASSUME IInv, NEW c \in Conns, ForwardSend(c)
    PROVE  TypeOK'
<1>1. stream[c].sendSeq - 1 \in Nat
  BY DEF IInv, TypeOK, ForwardSend, StreamStates, SendCounted
<1>2. up' \in Seq(Packets)
  BY <1>1, PacketsType DEF IInv, TypeOK, ForwardSend
<1> QED
  BY <1>2 DEF IInv, TypeOK, ForwardSend, TaskStates, sockets, camera

\* ForwardEnd keeps the types.
LEMMA ForwardEndType ==
    ASSUME IInv, NEW c \in Conns, ForwardEnd(c)
    PROVE  TypeOK'
BY FailType
DEF IInv, TypeOK, ForwardEnd, mapping, sockets, camera, TaskStates, Finally, Closing

\* ForwardRequest keeps the types.
LEMMA ForwardRequestType ==
    ASSUME IInv, NEW c \in Conns, ForwardRequest(c)
    PROVE  TypeOK'
BY PacketsType, FailType
DEF IInv, TypeOK, ForwardRequest, mapping, sockets, camera, TaskStates, Closing

\* ForwardDone keeps the types.
LEMMA ForwardDoneType ==
    ASSUME IInv, NEW c \in Conns, ForwardDone(c)
    PROVE  TypeOK'
BY FailType
DEF IInv, TypeOK, ForwardDone, mapping, sockets, camera, TaskStates, Errors

\* RxKeepalive keeps the types.
LEMMA RxKeepaliveType ==
    ASSUME IInv, RxKeepalive
    PROVE  TypeOK'
<1>1. down' \in Seq(Packets)
  BY ReceivedType DEF IInv, RxKeepalive, Receiving
<1> QED
  BY <1>1 DEF IInv, TypeOK, RxKeepalive, sockets, camera

\* RxUnknown keeps the types.
LEMMA RxUnknownType ==
    ASSUME IInv, RxUnknown
    PROVE  TypeOK'
<1>1. down' \in Seq(Packets)
  BY ReceivedType DEF IInv, RxUnknown, Receiving
<1>2. rx' \in RxStates
  BY RxIdleType DEF IInv, TypeOK, RxUnknown
<1>3. terminal' \in Errors
  BY FailType DEF IInv, TypeOK, RxUnknown, Errors
<1> QED
  BY <1>1, <1>2, <1>3 DEF IInv, TypeOK, RxUnknown, sockets, camera

\* RxMismatch keeps the types.
LEMMA RxMismatchType ==
    ASSUME IInv, NEW c \in streams, RxMismatch(c)
    PROVE  TypeOK'
<1>1. down' \in Seq(Packets)
  BY ReceivedType DEF IInv, RxMismatch, Receiving
<1>2. rx' \in RxStates
  BY RxIdleType DEF IInv, TypeOK, RxMismatch
<1>3. terminal' \in Errors
  BY FailType DEF IInv, TypeOK, RxMismatch, Errors
<1> QED
  BY <1>1, <1>2, <1>3 DEF IInv, TypeOK, RxMismatch, sockets, camera

\* RxBadSequence keeps the types.
LEMMA RxBadSequenceType ==
    ASSUME IInv, NEW c \in streams, RxBadSequence(c)
    PROVE  TypeOK'
<1>1. down' \in Seq(Packets)
  BY ReceivedType DEF IInv, RxBadSequence, Receiving, Routed
<1>2. rx' \in RxStates
  BY RxIdleType DEF IInv, TypeOK, RxBadSequence
<1>3. terminal' \in Errors
  BY FailType DEF IInv, TypeOK, RxBadSequence, Errors
<1> QED
  BY <1>1, <1>2, <1>3 DEF IInv, TypeOK, RxBadSequence, sockets, camera

\* RxData keeps the types.
LEMMA RxDataType ==
    ASSUME IInv, NEW c \in streams, RxData(c)
    PROVE  TypeOK'
<1>1. Received \in Packets /\ down' \in Seq(Packets)
  BY ReceivedType DEF IInv, RxData, Routed, Receiving
<1>2. Received.conn \in Conns /\ Received.op \in Nat
  BY <1>1, ReceivedKnown DEF RxData, Routed, Receiving, Packets, Operations,
     DISCONNECT_REQUEST, DISCONNECT_RESPONSE, DISCONNECT_CONFIRM
<1>3. c \in Conns /\ stream' \in [Conns -> StreamStates]
  <2>1. c \in Conns /\ stream' = [stream EXCEPT ![c].recvSeq = stream[c].recvSeq + 1]
    BY DEF IInv, TypeOK, RxData
  <2> QED
    BY <2>1, StreamCount DEF IInv, TypeOK
<1>4. got' \in [Conns -> Seq(Delivered)]
  <2> DEFINE e == [conn |-> Received.conn, op |-> Received.op]
  <2>1. e \in Delivered /\ got \in [Conns -> Seq(Delivered)]
    BY <1>2 DEF IInv, TypeOK, Delivered
  <2>2. Append(got[c], e) \in Seq(Delivered)
    BY <1>3, <2>1
  <2>3. got' = got \/ got' = [got EXCEPT ![c] = Append(got[c], e)]
    BY DEF RxData
  <2> HIDE DEF e
  <2> QED
    BY <1>3, <2>1, <2>2, <2>3
<1>5. rx' \in RxStates
  <2>1. [pc |-> "deliver", conn |-> c, remove |-> FALSE] \in RxStates
    BY <1>3 DEF RxStates
  <2> QED
    BY <2>1, RxIdleType DEF RxData
<1>6. terminal' \in Errors
  BY FailType DEF IInv, TypeOK, RxData, DrainError, Errors
<1> QED
  BY <1>1, <1>3, <1>4, <1>5, <1>6 DEF IInv, TypeOK, RxData, camera

\* RxControl keeps the types.
LEMMA RxControlType ==
    ASSUME IInv, NEW c \in streams, RxControl(c)
    PROVE  TypeOK'
<1>1. Received \in Packets /\ down' \in Seq(Packets)
  BY ReceivedType DEF IInv, RxControl, Routed, Receiving
<1>2. c \in Conns /\ stream' \in [Conns -> StreamStates]
  BY DEF IInv, TypeOK, RxControl, StreamStates
<1>3. Received.op \in {DISCONNECT_REQUEST, DISCONNECT_RESPONSE, DISCONNECT_CONFIRM}
  BY <1>1 DEF RxControl, Packets, Operations
<1>4. rx' \in RxStates
  BY <1>2, <1>3 DEF RxControl, RxStates, Removes, DISCONNECT_REQUEST, DISCONNECT_RESPONSE,
     DISCONNECT_CONFIRM
<1> QED
  BY <1>1, <1>2, <1>4 DEF IInv, TypeOK, RxControl, sockets, camera

\* RxDrained keeps the types.
LEMMA RxDrainedType ==
    ASSUME IInv, RxDrained
    PROVE  TypeOK'
<1>1. rx' \in RxStates
  BY RxIdleType DEF RxDrained
<1>2. terminal' \in Errors
  BY FailType DEF IInv, TypeOK, RxDrained, DrainError, Errors
<1> QED
  BY <1>1, <1>2 DEF IInv, TypeOK, RxDrained, sockets, camera

\* RxAnswer keeps the types.
LEMMA RxAnswerType ==
    ASSUME IInv, RxAnswer
    PROVE  TypeOK'
<1>1. rx.conn \in Conns
  BY DEF IInv, TypeOK, RxOnOpen, RxAnswer
<1>2. up' \in Seq(Packets)
  BY <1>1, PacketsType DEF IInv, TypeOK, RxAnswer
<1>3. rx' \in RxStates
  BY DEF IInv, TypeOK, RxAnswer, RxStates
<1> QED
  BY <1>2, <1>3 DEF IInv, TypeOK, RxAnswer, sockets, camera

\* RxStop keeps the types.
LEMMA RxStopType ==
    ASSUME IInv, RxStop
    PROVE  TypeOK'
<1>1. rx \in RxStates /\ rx.pc # "loop" /\ rx' \in RxStates
  BY DEF IInv, TypeOK, RxStop, RxStates, Ended
<1>2. task' \in [Conns -> TaskStates]
  BY DEF IInv, TypeOK, RxStop, TaskStates, Cancelled, Finally
<1>3. sock' \in [Conns -> {"none", "open", "closing", "lost"}]
  BY DEF IInv, TypeOK, RxStop, Closing
<1> QED
  BY <1>1, <1>2, <1>3 DEF IInv, TypeOK, RxStop, camera

\* RxStopped keeps the types.
LEMMA RxStoppedType ==
    ASSUME IInv, RxStopped
    PROVE  TypeOK'
<1>1. rx.conn \in Conns
  BY DEF IInv, TypeOK, RxOnOpen, RxStopped
<1>2. rx' \in RxStates
  BY RxIdleType DEF RxStopped
<1>3. CASE rx.remove
  <2>1. retired' \subseteq Conns
    <3>1. retired' \subseteq retired \cup {rx.conn}
      BY <1>3 DEF RxStopped, Retire
    <3> QED
      BY <1>1, <3>1 DEF IInv, TypeOK
  <2>2. stream' \in [Conns -> StreamStates] /\ retirements' \in Nat
    <3>1. /\ stream' = [stream EXCEPT ![rx.conn].retiredAt = retirements + 1]
          /\ retirements' = retirements + 1
      BY <1>3 DEF RxStopped
    <3>2. retirements + 1 \in Nat
      BY DEF IInv, TypeOK
    <3> QED
      BY <1>1, <3>1, <3>2, StreamCount DEF IInv, TypeOK
  <2> QED
    BY <1>2, <1>3, <2>1, <2>2 DEF IInv, TypeOK, RxStopped, sockets, camera
<1>4. CASE ~rx.remove
  BY <1>2, <1>4 DEF IInv, TypeOK, RxStopped, sockets, camera
<1> QED
  BY <1>3, <1>4

\* TunnelLost keeps the types.
LEMMA TunnelLostType ==
    ASSUME IInv, TunnelLost
    PROVE  TypeOK'
BY FailType
DEF IInv, TypeOK, TunnelLost, mapping, sockets, camera, RxStates, Ended, Errors

\* KeepaliveRound keeps the types.
LEMMA KeepaliveRoundType ==
    ASSUME IInv, KeepaliveRound
    PROVE  TypeOK'
BY FailType
DEF IInv, TypeOK, KeepaliveRound, mapping, sockets, camera, Errors

\* CloseBegin keeps the types.
LEMMA CloseBeginType ==
    ASSUME IInv, CloseBegin
    PROVE  TypeOK'
BY FailType
DEF IInv, TypeOK, CloseBegin, mapping, sockets, camera, RxStates, Ended, StreamStates, TaskStates, Closing

\* CloseEnd keeps the types.
LEMMA CloseEndType ==
    ASSUME IInv, CloseEnd
    PROVE  TypeOK'
BY FailType
DEF IInv, TypeOK, CloseEnd, mapping, sockets, camera

\* CamReceive keeps the types.
LEMMA CamReceiveType ==
    ASSUME IInv, CamReceive
    PROVE  TypeOK'
<1> DEFINE p == Head(up)
<1>1. p \in Packets /\ Tail(up) \in Seq(Packets) /\ p.conn \in Conns
  <2>1. up \in Seq(Packets) /\ up # <<>> /\ p = up[1] /\ 1 \in DOMAIN up
    BY DEF IInv, TypeOK, CamReceive
  <2> QED
    BY <2>1 DEF IInv, FramesKnown, Known
<1>2. cam' \in [Conns -> CameraStates]
  <2>1. cam \in [Conns -> CameraStates] /\ cam[p.conn].recvSeq + 1 \in Nat
    BY <1>1, CameraCount DEF IInv, TypeOK
  <2>2. \/ cam' = [cam EXCEPT ![p.conn].state = "open"]
        \/ cam' = [cam EXCEPT ![p.conn].recvSeq = cam[p.conn].recvSeq + 1]
        \/ cam' = [cam EXCEPT ![p.conn].answered = TRUE]
        \/ cam' = [cam EXCEPT ![p.conn].state = "gone"]
    BY DEF CamReceive
  <2> HIDE DEF p
  <2>3. [cam EXCEPT ![p.conn].recvSeq = cam[p.conn].recvSeq + 1] \in [Conns -> CameraStates]
    BY <1>1, <2>1, CameraCount
  <2> QED
    BY <1>1, <2>1, <2>2, <2>3, CameraTurn
<1>3. down' \in Seq(Packets)
  <2>1. /\ down \in Seq(Packets)
        /\ Frame(p.conn, DISCONNECT_RESPONSE) \in Packets
        /\ Frame(p.conn, DISCONNECT_CONFIRM) \in Packets
    BY <1>1, PacketsType DEF IInv, TypeOK
  <2>2. \/ down' = down
        \/ down' = Append(down, Frame(p.conn, DISCONNECT_RESPONSE))
        \/ down' = Append(down, Frame(p.conn, DISCONNECT_CONFIRM))
    BY DEF CamReceive
  <2> QED
    BY <2>1, <2>2
<1> QED
  BY <1>1, <1>2, <1>3 DEF IInv, TypeOK, CamReceive, mapping, sockets

\* CamData keeps the types.
LEMMA CamDataType ==
    ASSUME IInv, NEW c \in Conns, CamData(c)
    PROVE  TypeOK'
<1>1. cam' \in [Conns -> CameraStates]
  <2>1. cam' = [cam EXCEPT ![c].sendSeq = cam[c].sendSeq + 1]
    BY DEF CamData
  <2> QED
    BY <2>1, CameraCount DEF IInv, TypeOK
<1>2. down' \in Seq(Packets)
  BY PacketsType DEF IInv, TypeOK, CamData, CameraStates
<1> QED
  BY <1>1, <1>2 DEF IInv, TypeOK, CamData, mapping, sockets

\* CamRequest keeps the types.
LEMMA CamRequestType ==
    ASSUME IInv, NEW c \in Conns, CamRequest(c)
    PROVE  TypeOK'
<1>1. cam' \in [Conns -> CameraStates]
  BY DEF IInv, TypeOK, CamRequest, CameraStates
<1>2. down' \in Seq(Packets)
  BY PacketsType DEF IInv, TypeOK, CamRequest, CameraStates
<1> QED
  BY <1>1, <1>2 DEF IInv, TypeOK, CamRequest, mapping, sockets

\* CamStray keeps the types.
LEMMA CamStrayType ==
    ASSUME IInv, NEW c \in Conns, CamStray(c)
    PROVE  TypeOK'
<1>1. cam' \in [Conns -> CameraStates]
  <2>1. cam' = [cam EXCEPT ![c].sendSeq = cam[c].sendSeq + 1]
    BY DEF CamStray
  <2> QED
    BY <2>1, CameraCount DEF IInv, TypeOK
<1>2. down' \in Seq(Packets)
  BY PacketsType DEF IInv, TypeOK, CamStray, CameraStates
<1> QED
  BY <1>1, <1>2 DEF IInv, TypeOK, CamStray, mapping, sockets

\* CamKeepalive keeps the types.
LEMMA CamKeepaliveType ==
    ASSUME IInv, CamKeepalive
    PROVE  TypeOK'
BY PacketsType, FailType
DEF IInv, TypeOK, CamKeepalive, mapping, sockets, camera

\* CamDie keeps the types.
LEMMA CamDieType ==
    ASSUME IInv, CamDie
    PROVE  TypeOK'
BY PacketsType, FailType
DEF IInv, TypeOK, CamDie, mapping, sockets, camera

\* Every step keeps the types.
LEMMA TypeStep == IInv /\ [Next]_vars => TypeOK'
<1> SUFFICES ASSUME IInv, [Next]_vars PROVE TypeOK'
  OBVIOUS
<1>1. CASE Client
  BY <1>1, AcceptType, RejectType, ClientEofType, ClientResetType,
     ClientStallType, SocketLostType DEF Client
<1>2. CASE Forward
  BY <1>2, ForwardAnnounceType, ForwardReadType, ForwardSendType, ForwardEndType,
     ForwardRequestType, ForwardDoneType DEF Forward
<1>3. CASE Receive \/ TunnelLost
  BY <1>3, RxKeepaliveType, RxUnknownType, RxMismatchType, RxBadSequenceType, RxDataType,
     RxControlType, RxDrainedType, RxAnswerType, RxStopType, RxStoppedType, TunnelLostType
  DEF Receive, Dispatch
<1>4. CASE KeepaliveRound \/ CloseBegin \/ CloseEnd
  BY <1>4, KeepaliveRoundType, CloseBeginType, CloseEndType
<1>5. CASE Camera
  BY <1>5, CamReceiveType, CamDataType, CamRequestType, CamStrayType, CamKeepaliveType,
     CamDieType DEF Camera
<1>6. CASE UNCHANGED vars
  BY <1>6 DEF IInv, TypeOK, vars, mapping, sockets, camera
<1> QED
  BY <1>1, <1>2, <1>3, <1>4, <1>5, <1>6 DEF Next

-----------------------------------------------------------------------------
(* The parts of the invariant that steps disturb *)

\* A client connects at most once: connections stay made.
LEMMA KnownGrows ==
    ASSUME IInv, [Next]_vars
    PROVE  Known \subseteq Known'
<1>1. CASE UNCHANGED client
  BY <1>1 DEF Known
<1>2. ASSUME NEW c \in Conns,
             (\E p \in Ports : Accept(c, p)) \/ Reject(c) \/ ClientEof(c) \/ ClientReset(c)
             \/ ClientStall(c)
      PROVE  Known \subseteq Known'
  BY <1>2 DEF IInv, TypeOK, Known, Accept, Reject, ClientEof, ClientReset, ClientStall
<1> QED
  BY <1>1, <1>2 DEF Next, vars, mapping, sockets, camera, Client, Forward, Receive, Dispatch,
     Camera, SocketLost, ForwardAnnounce, ForwardRead, ForwardSend, ForwardEnd, ForwardRequest,
     ForwardDone, RxKeepalive, RxUnknown, RxMismatch, RxBadSequence, RxData, RxControl,
     RxDrained, RxAnswer, RxStop, RxStopped, TunnelLost, KeepaliveRound, CloseBegin, CloseEnd,
     CamReceive, CamData, CamRequest, CamStray, CamKeepalive, CamDie

\* Accepting a client sets the id and port of its stream, and of no other.
LEMMA AcceptFields ==
    ASSUME IInv, NEW c \in Conns, NEW p \in Ports, Accept(c, p)
    PROVE  /\ \A d \in Conns \ {c} : stream'[d] = stream[d]
           /\ \A d \in Conns : stream'[d].sendSeq = stream[d].sendSeq
           /\ \A d \in Conns : stream'[d].recvSeq = stream[d].recvSeq
<1>1. PICK id \in Ids : stream' = [stream EXCEPT ![c] = [@ EXCEPT !.id = id, !.port = p]]
  BY DEF Accept
<1>2. stream \in [Conns -> StreamStates]
  BY DEF IInv, TypeOK
<1> QED
  BY <1>1, <1>2 DEF StreamStates

\* Retiring a stream leaves its id and ports alone.
LEMMA RxStoppedIds ==
    ASSUME IInv, RxStopped
    PROVE  /\ rx.conn \in streams
           /\ \A d \in Conns : stream'[d].id = stream[d].id /\ stream'[d].port = stream[d].port
           /\ \A d \in Conns : stream'[d].recvSeq = stream[d].recvSeq
           /\ \A d \in Conns : stream'[d].sendSeq = stream[d].sendSeq
<1>1. rx.conn \in streams /\ stream \in [Conns -> StreamStates] /\ streams \subseteq Conns
  BY DEF IInv, TypeOK, RxOnOpen, RxStopped
<1>2. stream' = stream \/ stream' = [stream EXCEPT ![rx.conn].retiredAt = retirements + 1]
  BY DEF RxStopped
<1> QED
  BY <1>1, <1>2 DEF StreamStates

\* What the ids and ports of the streams depend on: only Accept sets them.
LEMMA IdsFixed ==
    ASSUME IInv, [Next]_vars
    PROVE  \/ \E c \in Conns, p \in Ports : Accept(c, p)
           \/ \A d \in Conns : stream'[d].id = stream[d].id /\ stream'[d].port = stream[d].port
<1> DEFINE Fixed == \A d \in Conns :
                      stream'[d].id = stream[d].id /\ stream'[d].port = stream[d].port
<1>1. CASE UNCHANGED stream
  BY <1>1
<1>2. ASSUME NEW c \in Conns, ForwardRead(c) \/ RxData(c) \/ RxControl(c)
      PROVE  Fixed
  <2>1. stream \in [Conns -> StreamStates]
    BY DEF IInv, TypeOK
  <2>2. \/ stream' = [stream EXCEPT ![c].sendSeq = stream[c].sendSeq + 1]
        \/ stream' = [stream EXCEPT ![c].recvSeq = stream[c].recvSeq + 1]
        \/ stream' = [stream EXCEPT ![c].remoteDisconnect = TRUE]
        \/ stream' = stream
    BY <1>2 DEF ForwardRead, RxData, RxControl
  <2> QED
    BY <2>1, <2>2 DEF StreamStates
<1>3. CASE RxStopped
  BY <1>3, RxStoppedIds
<1>4. CASE CloseBegin
  BY <1>4 DEF IInv, TypeOK, StreamStates, CloseBegin
<1>5. streams \subseteq Conns
  BY DEF IInv, TypeOK
<1> QED
  BY <1>1, <1>2, <1>3, <1>4, <1>5 DEF Next, vars, mapping, sockets, camera, Client, Forward, Receive,
     Dispatch, Camera, Reject, ClientEof, ClientReset, ClientStall, SocketLost, ForwardAnnounce, ForwardSend,
     ForwardEnd, ForwardRequest, ForwardDone, RxKeepalive, RxUnknown, RxMismatch, RxBadSequence,
     RxDrained, RxAnswer, RxStop, TunnelLost, KeepaliveRound, CloseEnd,
     CamReceive, CamData, CamRequest, CamStray, CamKeepalive, CamDie

\* A request id is allocated to one stream, and taken from the retired one that
\* had it; a stream is retired once.
LEMMA IdsApartStep == IInv /\ [Next]_vars => IdsApart'
<1> SUFFICES ASSUME IInv, [Next]_vars PROVE IdsApart'
  OBVIOUS
<1> USE DEF IInv, IdsApart, IdsUnique
<1>1. ASSUME NEW c \in Conns, NEW p \in Ports, Accept(c, p)
      PROVE  IdsApart'
  <2>1. PICK id \in Ids :
        Allocatable(id) /\ retired' = {r \in retired : stream[r].id # id}
        /\ stream' = [stream EXCEPT ![c] = [@ EXCEPT !.id = id, !.port = p]]
    BY <1>1 DEF Accept
  <2>2. streams' = streams \cup {c} /\ c \notin streams \cup retired
    BY <1>1 DEF Accept, Untouched, Known
  <2>3. /\ stream'[c].id = id
        /\ \A d \in Conns \ {c} : stream'[d].id = stream[d].id
    BY <2>1 DEF TypeOK, StreamStates
  <2>4. \A d \in streams : stream[d].id # id
    BY <2>1 DEF Allocatable, ActiveIds
  <2> QED
    BY <2>1, <2>2, <2>3, <2>4 DEF TypeOK
<1>2. CASE RxStopped
  <2>1. rx.conn \in streams
    BY <1>2 DEF RxStopped, RxOnOpen
  <2>2. \/ UNCHANGED <<streams, retired>>
        \/ streams' = streams \ {rx.conn} /\ retired' \subseteq retired \cup {rx.conn}
    BY <1>2 DEF RxStopped, Retire
  <2>3. \A d \in Conns : stream'[d].id = stream[d].id
    BY <1>2, RxStoppedIds
  <2>4. streams \subseteq Conns /\ retired \subseteq Conns
    BY DEF TypeOK
  <2>5. streams' \cup retired' \subseteq streams \cup retired /\ streams' \cap retired' = {}
    BY <2>1, <2>2
  <2> QED
    BY <2>3, <2>4, <2>5
<1>3. CASE CloseBegin
  BY <1>3 DEF CloseBegin
<1>4. CASE UNCHANGED <<streams, retired>> /\ \A c \in Conns, p \in Ports : ~Accept(c, p)
  <2>1. \A d \in Conns : stream'[d].id = stream[d].id
    BY <1>4, IdsFixed
  <2> QED
    BY <1>4, <2>1 DEF TypeOK
<1> QED
  BY <1>1, <1>2, <1>3, <1>4 DEF Next, vars, mapping, sockets, camera, Client, Forward, Receive,
     Dispatch, Camera, Reject, ClientEof, ClientReset, ClientStall, SocketLost, ForwardAnnounce, ForwardRead,
     ForwardSend, ForwardEnd, ForwardRequest, ForwardDone, RxKeepalive, RxUnknown, RxMismatch,
     RxBadSequence, RxData, RxControl, RxDrained, RxAnswer, RxStop, TunnelLost, KeepaliveRound,
     CloseEnd, CamReceive, CamData, CamRequest, CamStray, CamKeepalive, CamDie

\* The receive loop never loses its stream under its feet.
LEMMA RxOnOpenStep == IInv /\ [Next]_vars => RxOnOpen'
<1> SUFFICES ASSUME IInv, [Next]_vars PROVE RxOnOpen'
  OBVIOUS
<1> USE DEF IInv, RxOnOpen
<1>1. ASSUME NEW c \in streams, RxData(c) \/ RxControl(c)
      PROVE  RxOnOpen'
  BY <1>1 DEF RxData, RxControl, Idle, Ended
<1>2. CASE RxAnswer \/ RxStop
  <2>1. rx \in RxStates /\ rx.pc \notin {"loop", "ended"} /\ streams' = streams
    BY <1>2 DEF TypeOK, RxAnswer, RxStop
  <2>2. rx' = [rx EXCEPT !.pc = "stop"] \/ rx' = [rx EXCEPT !.pc = "await"] \/ rx' = Ended
    BY <1>2 DEF RxAnswer, RxStop
  <2> QED
    BY <2>1, <2>2 DEF RxStates, Ended
<1>3. CASE RxStopped \/ CloseBegin \/ TunnelLost \/ RxDrained
  BY <1>3 DEF RxStopped, CloseBegin, TunnelLost, RxDrained, Idle, Ended
<1>4. CASE RxUnknown \/ \E c \in streams : RxMismatch(c) \/ RxBadSequence(c)
  BY <1>4 DEF RxUnknown, RxMismatch, RxBadSequence, Ended
<1>5. CASE rx' = rx /\ streams \subseteq streams'
  BY <1>5
<1> QED
  BY <1>1, <1>2, <1>3, <1>4, <1>5 DEF Next, vars, mapping, sockets, camera, Client, Forward, Receive,
     Dispatch, Camera, Accept, Reject, ClientEof, ClientReset, ClientStall, SocketLost, ForwardAnnounce, ForwardRead,
     ForwardSend, ForwardEnd, ForwardRequest, ForwardDone, RxKeepalive, KeepaliveRound,
     CloseEnd, CamReceive, CamData, CamRequest, CamStray, CamKeepalive, CamDie

\* A forward task that runs is in the table, or taken over by the close: the
\* table loses a stream only when its task is done.
LEMMA TasksOwnedStep == IInv /\ [Next]_vars => TasksOwned'
<1> SUFFICES ASSUME IInv, [Next]_vars PROVE TasksOwned'
  OBVIOUS
<1> USE DEF IInv, TasksOwned, Closed
<1>1. ASSUME NEW c \in Conns, NEW p \in Ports, Accept(c, p)
      PROVE  TasksOwned'
  BY <1>1 DEF Accept, TypeOK
<1>2. ASSUME NEW c \in Conns, \/ ForwardAnnounce(c) \/ ForwardRead(c) \/ ForwardSend(c)
                              \/ ForwardEnd(c) \/ ForwardRequest(c) \/ ForwardDone(c)
      PROVE  TasksOwned'
  <2>1. /\ task[c] \notin {"none", "done"}
        /\ \A d \in Conns \ {c} : task'[d] = task[d]
        /\ UNCHANGED <<streams, closing, owned>>
    BY <1>2 DEF TypeOK, ForwardAnnounce, ForwardRead, ForwardSend, ForwardEnd, ForwardRequest,
       ForwardDone
  <2> QED
    BY <2>1
<1>3. CASE RxStop
  <2>1. rx.conn \in streams /\ \A d \in Conns \ {rx.conn} : task'[d] = task[d]
    BY <1>3 DEF RxStop, RxOnOpen, TypeOK
  <2> QED
    BY <1>3, <2>1 DEF RxStop
<1>4. CASE RxStopped
  BY <1>4 DEF RxStopped
<1>5. CASE CloseBegin
  BY <1>5 DEF CloseBegin, TypeOK
<1>6. CASE CloseEnd
  BY <1>6 DEF CloseEnd
<1>7. CASE UNCHANGED <<task, streams, closing, owned>>
  BY <1>7
<1> QED
  BY <1>1, <1>2, <1>3, <1>4, <1>5, <1>6, <1>7 DEF Next, vars, mapping, sockets, camera, Client,
     Forward, Receive, Dispatch, Camera, Reject, ClientEof, ClientReset, ClientStall, SocketLost, RxKeepalive,
     RxUnknown, RxMismatch, RxBadSequence, RxData, RxControl, RxDrained, RxAnswer, TunnelLost,
     KeepaliveRound, CamReceive, CamData, CamRequest, CamStray, CamKeepalive, CamDie

\* What async_close leaves behind stays empty, and what it waits for is over.
LEMMA AfterCloseStep == IInv /\ [Next]_vars => AfterClose'
<1> SUFFICES ASSUME IInv, [Next]_vars PROVE AfterClose'
  OBVIOUS
<1> USE DEF IInv, AfterClose, Closed
<1>1. CASE CloseBegin
  BY <1>1 DEF CloseBegin
<1>2. CASE CloseEnd
  BY <1>2 DEF CloseEnd, TasksOwned, sockets
<1>3. CASE closing = "open" /\ closing' = "open"
  BY <1>3
<1>4. CASE closing # "open" /\ closing' = closing
  <2>0. ka = "off" /\ rx.pc = "ended"
    BY <1>4 DEF Ended
  <2>1. UNCHANGED <<streams, retired, rx, ka>>
    <3>1. CASE Client \/ Forward
      BY <1>4, <3>1 DEF mapping, Client, Forward, Accept, Reject, ClientEof, ClientReset, ClientStall, SocketLost,
         ForwardAnnounce, ForwardRead, ForwardSend, ForwardEnd, ForwardRequest, ForwardDone
    <3>2. ~Receive /\ ~TunnelLost /\ ~KeepaliveRound /\ ~CloseBegin
      BY <1>4, <2>0 DEF Receive, Dispatch, RxKeepalive, RxUnknown, RxMismatch, RxBadSequence,
         RxData, RxControl, RxDrained, RxAnswer, RxStop, RxStopped, TunnelLost, KeepaliveRound,
         CloseBegin, Receiving, Routed
    <3>3. CASE CloseEnd \/ Camera \/ UNCHANGED vars
      BY <3>3 DEF vars, mapping, Camera, CloseEnd, CamReceive, CamData, CamRequest, CamStray,
         CamKeepalive, CamDie
    <3> QED
      BY <3>1, <3>2, <3>3 DEF Next
  <2>2. ASSUME closing = "closed", NEW c \in Conns
        PROVE  sock'[c] \in {"none", "lost"} /\ task'[c] \in {"none", "done"}
    <3>1. ASSUME NEW d \in Conns, ClientReset(d) \/ ClientStall(d) \/ SocketLost(d)
          PROVE  sock'[c] \in {"none", "lost"} /\ task'[c] \in {"none", "done"}
      BY <2>2, <3>1 DEF ClientReset, ClientStall, SocketLost, TypeOK, mapping
    <3>2. CASE UNCHANGED <<sock, task>>
      BY <2>2, <3>2
    <3>3. \A d \in Conns : task[d] \in {"none", "done"}
      BY <2>2
    <3> QED
      BY <1>4, <2>2, <3>1, <3>2, <3>3 DEF Next, vars, mapping, sockets, camera, Client, Forward, Receive,
         Dispatch, Camera, Accept, Reject, ClientEof, ForwardAnnounce, ForwardRead, ForwardSend,
         ForwardEnd, ForwardRequest, ForwardDone, RxKeepalive, RxUnknown, RxMismatch, RxBadSequence,
         RxData, RxControl, RxDrained, RxAnswer, RxStop, RxStopped, TunnelLost, KeepaliveRound,
         CloseBegin, CloseEnd, CamReceive, CamData, CamRequest, CamStray, CamKeepalive, CamDie,
         Receiving, Routed, Ended
  <2> QED
    BY <1>4, <2>1, <2>2
<1>5. closing' = closing \/ CloseBegin \/ CloseEnd
  BY DEF Next, vars, mapping, sockets, camera, Client, Forward, Receive, Dispatch, Camera,
     Accept, Reject, ClientEof, ClientReset, ClientStall, SocketLost, ForwardAnnounce, ForwardRead, ForwardSend,
     ForwardEnd, ForwardRequest, ForwardDone, RxKeepalive, RxUnknown, RxMismatch, RxBadSequence,
     RxData, RxControl, RxDrained, RxAnswer, RxStop, RxStopped, TunnelLost, KeepaliveRound,
     CamReceive, CamData, CamRequest, CamStray, CamKeepalive, CamDie
<1> QED
  BY <1>1, <1>2, <1>3, <1>4, <1>5

\* A sequence number is taken before the chunk waits for the write lock.
LEMMA SendCountedStep == IInv /\ [Next]_vars => SendCounted'
<1> SUFFICES ASSUME IInv, [Next]_vars PROVE SendCounted'
  OBVIOUS
<1> USE DEF IInv, SendCounted
<1>0. stream \in [Conns -> StreamStates] /\ task \in [Conns -> TaskStates]
  BY DEF TypeOK
<1>1. ASSUME NEW c \in Conns, ForwardRead(c)
      PROVE  SendCounted'
  <2>1. /\ stream' = [stream EXCEPT ![c].sendSeq = stream[c].sendSeq + 1]
        /\ task' = [task EXCEPT ![c] = "send"]
    BY <1>1 DEF ForwardRead
  <2>2. stream'[c].sendSeq = stream[c].sendSeq + 1 /\ stream[c].sendSeq \in Nat
    BY <2>1, <1>0 DEF StreamStates
  <2>3. \A d \in Conns \ {c} : stream'[d] = stream[d] /\ task'[d] = task[d]
    BY <2>1, <1>0
  <2> QED
    BY <2>2, <2>3
<1>2. ASSUME \A d \in Conns : stream'[d].sendSeq = stream[d].sendSeq,
             \A d \in Conns : task'[d] # "send" \/ task'[d] = task[d]
      PROVE  SendCounted'
  BY <1>2
<1>3. \/ \E c \in Conns : ForwardRead(c)
      \/ \A d \in Conns : stream'[d].sendSeq = stream[d].sendSeq
  <2>1. ASSUME NEW c \in Conns, RxData(c) \/ RxControl(c)
        PROVE  \A d \in Conns : stream'[d].sendSeq = stream[d].sendSeq
    <3>1. \/ stream' = [stream EXCEPT ![c].recvSeq = stream[c].recvSeq + 1]
          \/ stream' = [stream EXCEPT ![c].remoteDisconnect = TRUE]
          \/ stream' = stream
      BY <2>1 DEF RxData, RxControl
    <3> QED
      BY <3>1, <1>0 DEF StreamStates
  <2>0. ASSUME NEW c \in Conns, NEW p \in Ports, Accept(c, p)
        PROVE  \A d \in Conns : stream'[d].sendSeq = stream[d].sendSeq
    BY <2>0, AcceptFields
  <2>2. CASE RxStopped
    BY <2>2, RxStoppedIds
  <2>3. CASE CloseBegin
    BY <2>3, <1>0 DEF CloseBegin, StreamStates
  <2>4. CASE UNCHANGED stream
    BY <2>4
  <2> QED
    BY <2>0, <2>1, <2>2, <2>3, <2>4 DEF TypeOK, Next, vars, mapping, sockets, camera, Client, Forward,
       Receive, Dispatch, Camera, Reject, ClientEof, ClientReset, ClientStall, SocketLost, ForwardAnnounce,
       ForwardSend, ForwardEnd, ForwardRequest, ForwardDone, RxKeepalive, RxUnknown, RxMismatch,
       RxBadSequence, RxDrained, RxAnswer, RxStop, TunnelLost, KeepaliveRound, CloseEnd, CamReceive,
       CamData, CamRequest, CamStray, CamKeepalive, CamDie
<1>4. \/ \E c \in Conns : ForwardRead(c)
      \/ \A d \in Conns : task'[d] # "send" \/ task'[d] = task[d]
  <2>1. ASSUME NEW c \in Conns, \/ ForwardAnnounce(c) \/ ForwardSend(c) \/ ForwardEnd(c)
                                \/ ForwardRequest(c) \/ ForwardDone(c)
                                \/ \E p \in Ports : Accept(c, p)
        PROVE  \A d \in Conns : task'[d] # "send" \/ task'[d] = task[d]
    BY <2>1, <1>0 DEF ForwardAnnounce, ForwardSend, ForwardEnd, ForwardRequest, ForwardDone, Accept,
       Finally
  <2>2. CASE RxStop
    BY <2>2, <1>0 DEF RxStop, Cancelled, Finally
  <2>3. CASE CloseBegin
    BY <2>3 DEF CloseBegin
  <2>4. CASE UNCHANGED task
    BY <2>4
  <2> QED
    BY <2>1, <2>2, <2>3, <2>4 DEF Next, vars, mapping, sockets, camera, Client, Forward,
       Receive, Dispatch, Camera, Reject, ClientEof, ClientReset, ClientStall, SocketLost,
       RxKeepalive, RxUnknown, RxMismatch, RxBadSequence, RxData, RxControl,
       RxDrained, RxAnswer, RxStopped, TunnelLost, KeepaliveRound, CloseEnd, CamReceive,
       CamData, CamRequest, CamStray, CamKeepalive, CamDie
<1> QED
  BY <1>1, <1>2, <1>3, <1>4

\* Only the receive loop counts a frame of a stream of the table.
LEMMA RecvSeqFixed ==
    ASSUME IInv, [Next]_vars
    PROVE  \/ \E c \in streams : RxData(c)
           \/ \A d \in Conns : stream'[d].recvSeq = stream[d].recvSeq
<1> DEFINE Fixed == \A d \in Conns : stream'[d].recvSeq = stream[d].recvSeq
<1>0. stream \in [Conns -> StreamStates] /\ streams \subseteq Conns
  BY DEF IInv, TypeOK
<1>1. ASSUME NEW c \in Conns, NEW p \in Ports, Accept(c, p)
      PROVE  Fixed
  BY <1>1, AcceptFields
<1>2. ASSUME NEW c \in Conns, ForwardRead(c) \/ RxControl(c)
      PROVE  Fixed
  <2>1. \/ stream' = [stream EXCEPT ![c].sendSeq = stream[c].sendSeq + 1]
        \/ stream' = [stream EXCEPT ![c].remoteDisconnect = TRUE]
        \/ stream' = stream
    BY <1>2 DEF ForwardRead, RxControl
  <2> QED
    BY <2>1, <1>0 DEF StreamStates
<1>3. CASE RxStopped
  BY <1>3, RxStoppedIds
<1>4. CASE CloseBegin
  BY <1>4, <1>0 DEF CloseBegin, StreamStates
<1>5. CASE UNCHANGED stream
  BY <1>5
<1> QED
  BY <1>0, <1>1, <1>2, <1>3, <1>4, <1>5 DEF Next, vars, mapping, sockets, camera, Client, Forward,
     Receive, Dispatch, Camera, Reject, ClientEof, ClientReset, ClientStall, SocketLost, ForwardAnnounce,
     ForwardSend, ForwardEnd, ForwardRequest, ForwardDone, RxKeepalive, RxUnknown, RxMismatch,
     RxBadSequence, RxDrained, RxAnswer, RxStop, TunnelLost, KeepaliveRound, CloseEnd, CamReceive,
     CamData, CamRequest, CamStray, CamKeepalive, CamDie

\* A socket is opened for a client that was not known, and never again.
LEMMA SocketsClose ==
    ASSUME IInv, [Next]_vars, NEW c \in Conns, sock'[c] = "open"
    PROVE  sock[c] = "open" \/ c \notin Known
<1>0. sock \in [Conns -> {"none", "open", "closing", "lost"}] /\ streams \subseteq Conns
  BY DEF IInv, TypeOK
<1>1. ASSUME NEW d \in Conns, NEW p \in Ports, Accept(d, p)
      PROVE  sock[c] = "open" \/ c \notin Known
  BY <1>0, <1>1 DEF Accept, Known
<1>2. ASSUME NEW d \in Conns, \/ Reject(d) \/ ClientReset(d) \/ ClientStall(d) \/ SocketLost(d)
                              \/ ForwardEnd(d) \/ ForwardRequest(d)
      PROVE  sock[c] = "open"
  BY <1>0, <1>2 DEF Reject, ClientReset, ClientStall, SocketLost, ForwardEnd, ForwardRequest, Closing
<1>3. CASE RxStop
  BY <1>0, <1>3 DEF RxStop, Closing
<1>4. CASE CloseBegin
  BY <1>0, <1>4 DEF CloseBegin, Closing
<1>5. CASE UNCHANGED sock
  BY <1>5
<1> QED
  BY <1>1, <1>2, <1>3, <1>4, <1>5 DEF Next, vars, mapping, sockets, camera, Client, Forward,
     Receive, Dispatch, Camera, ClientEof, ForwardAnnounce, ForwardRead,
     ForwardSend, ForwardDone, RxKeepalive, RxUnknown, RxMismatch,
     RxBadSequence, RxData, RxControl, RxDrained, RxAnswer, RxStopped, TunnelLost, KeepaliveRound,
     CloseEnd, CamReceive, CamData, CamRequest, CamStray, CamKeepalive, CamDie

\* Nothing is written to a local client but by RxData.
LEMMA GotFixed ==
    ASSUME [Next]_vars
    PROVE  got' = got \/ \E c \in streams : RxData(c)
BY DEF Next, vars, mapping, sockets, camera, Client, Forward, Receive, Dispatch, Camera, Accept,
   Reject, ClientEof, ClientReset, ClientStall, SocketLost, ForwardAnnounce, ForwardRead, ForwardSend, ForwardEnd,
   ForwardRequest, ForwardDone, RxKeepalive, RxUnknown, RxMismatch, RxBadSequence, RxControl,
   RxDrained, RxAnswer, RxStop, RxStopped, TunnelLost, KeepaliveRound, CloseBegin, CloseEnd,
   CamReceive, CamData, CamRequest, CamStray, CamKeepalive, CamDie

\* What RxData does to the stream and to its client.
LEMMA RxDataEffect ==
    ASSUME IInv, NEW c \in streams, RxData(c)
    PROVE  /\ c \in Conns /\ Received.conn \in Known /\ Received.op = stream[c].recvSeq
           /\ stream[Received.conn].id = stream[c].id /\ stream[Received.conn].port = stream[c].port
           /\ stream'[c].recvSeq = stream[c].recvSeq + 1
           /\ \A d \in Conns \ {c} : stream'[d] = stream[d] /\ got'[d] = got[d]
           /\ sock' = sock
           /\ \/ sock[c] # "open" /\ got'[c] = got[c]
              \/ /\ sock[c] = "open"
                 /\ got'[c] = Append(got[c], [conn |-> Received.conn, op |-> Received.op])
<1>1. c \in Conns /\ stream \in [Conns -> StreamStates] /\ got \in [Conns -> Seq(Delivered)]
  BY DEF IInv, TypeOK
<1>2. Received.conn \in Known
  BY ReceivedKnown DEF RxData, Routed, Receiving
<1>3. Received.op = stream[c].recvSeq /\ stream[c].id = stream[Received.conn].id
      /\ stream[c].port = stream[Received.conn].port /\ sock' = sock
  BY DEF RxData, Routed, SameId, SamePorts, InSequence
<1>4. stream' = [stream EXCEPT ![c].recvSeq = stream[c].recvSeq + 1]
  BY DEF RxData
<1>5. stream'[c].recvSeq = stream[c].recvSeq + 1 /\ \A d \in Conns \ {c} : stream'[d] = stream[d]
  BY <1>1, <1>4 DEF StreamStates
<1>6. /\ \A d \in Conns \ {c} : got'[d] = got[d]
      /\ \/ sock[c] # "open" /\ got'[c] = got[c]
         \/ /\ sock[c] = "open"
            /\ got'[c] = Append(got[c], [conn |-> Received.conn, op |-> Received.op])
  BY <1>1 DEF RxData
<1> QED
  BY <1>1, <1>2, <1>3, <1>5, <1>6

\* What the camera knows of a stream comes from packets that name it.
LEMMA CamKnown ==
    ASSUME IInv, [Next]_vars, NEW c \in Conns, c \notin Known
    PROVE  cam'[c].state = "none"
<1>0. cam \in [Conns -> CameraStates] /\ cam[c].state = "none"
  BY DEF IInv, TypeOK, Untouched
<1>1. CASE CamReceive
  <2>1. up \in Seq(Packets) /\ up # <<>> /\ Head(up) = up[1] /\ 1 \in DOMAIN up
    BY <1>1 DEF IInv, TypeOK, CamReceive
  <2>2. Head(up).conn \in Known
    BY <2>1 DEF IInv, FramesKnown
  <2>3. \/ cam' = [cam EXCEPT ![Head(up).conn].state = "open"]
        \/ cam' = [cam EXCEPT ![Head(up).conn].recvSeq = cam[Head(up).conn].recvSeq + 1]
        \/ cam' = [cam EXCEPT ![Head(up).conn].answered = TRUE]
        \/ cam' = [cam EXCEPT ![Head(up).conn].state = "gone"]
    BY <1>1 DEF CamReceive
  <2>4. cam'[c] = cam[c]
    BY <1>0, <2>2, <2>3
  <2> QED
    BY <1>0, <2>4
<1>2. ASSUME NEW d \in Conns, CamData(d) \/ CamRequest(d) \/ CamStray(d)
      PROVE  cam'[c].state = "none"
  <2>1. \/ cam' = [cam EXCEPT ![d].sendSeq = cam[d].sendSeq + 1]
        \/ cam' = [cam EXCEPT ![d].requested = TRUE]
    BY <1>2 DEF CamData, CamRequest, CamStray
  <2> QED
    BY <1>0, <2>1 DEF CameraStates
<1>3. CASE UNCHANGED cam
  BY <1>0, <1>3
<1> QED
  BY <1>1, <1>2, <1>3 DEF Next, vars, mapping, sockets, camera, Client, Forward, Receive, Dispatch,
     Camera, Accept, Reject, ClientEof, ClientReset, ClientStall, SocketLost, ForwardAnnounce, ForwardRead,
     ForwardSend, ForwardEnd, ForwardRequest, ForwardDone, RxKeepalive, RxUnknown, RxMismatch,
     RxBadSequence, RxData, RxControl, RxDrained, RxAnswer, RxStop, RxStopped, TunnelLost,
     KeepaliveRound, CloseBegin, CloseEnd, CamKeepalive, CamDie

\* A connection has a forward task and a socket once its client was accepted.
LEMMA TaskKnown ==
    ASSUME IInv, [Next]_vars, NEW c \in Conns, c \notin Known'
    PROVE  task'[c] = "none" /\ sock'[c] = "none"
<1>0. /\ task \in [Conns -> TaskStates] /\ task[c] = "none"
      /\ sock \in [Conns -> {"none", "open", "closing", "lost"}] /\ sock[c] = "none"
      /\ c \notin streams /\ streams \subseteq Conns
  BY KnownGrows DEF IInv, TypeOK, Untouched
<1>1. ASSUME NEW d \in Conns, (\E p \in Ports : Accept(d, p)) \/ Reject(d)
      PROVE  task'[c] = "none" /\ sock'[c] = "none"
  <2>1. d # c
    BY <1>1 DEF IInv, TypeOK, Known, Accept, Reject
  <2> QED
    BY <1>0, <1>1, <2>1 DEF Accept, Reject, mapping
<1>2. ASSUME NEW d \in Conns, \/ ForwardAnnounce(d) \/ ForwardRead(d) \/ ForwardSend(d)
                              \/ ForwardEnd(d) \/ ForwardRequest(d) \/ ForwardDone(d)
                              \/ ClientReset(d) \/ ClientStall(d) \/ SocketLost(d)
      PROVE  task'[c] = "none" /\ sock'[c] = "none"
  <2>1. d # c
    BY <1>0, <1>2 DEF ForwardAnnounce, ForwardRead, ForwardSend, ForwardEnd, ForwardRequest,
       ForwardDone, ClientReset, ClientStall, SocketLost
  <2> QED
    BY <1>0, <1>2, <2>1 DEF ForwardAnnounce, ForwardRead, ForwardSend, ForwardEnd, ForwardRequest,
       ForwardDone, ClientReset, ClientStall, SocketLost, mapping, sockets
<1>3. CASE RxStop
  <2>1. rx.conn # c
    BY <1>0, <1>3 DEF IInv, RxOnOpen, RxStop
  <2> QED
    BY <1>0, <1>3, <2>1 DEF RxStop
<1>4. CASE CloseBegin
  BY <1>0, <1>4 DEF CloseBegin
<1>5. CASE UNCHANGED <<task, sock>>
  BY <1>0, <1>5
<1> QED
  BY <1>1, <1>2, <1>3, <1>4, <1>5 DEF Next, vars, mapping, sockets, camera, Client, Forward, Receive,
     Dispatch, Camera, ClientEof, RxKeepalive, RxUnknown, RxMismatch, RxBadSequence, RxData,
     RxControl, RxDrained, RxAnswer, RxStopped, TunnelLost, KeepaliveRound, CloseEnd, CamReceive,
     CamData, CamRequest, CamStray, CamKeepalive, CamDie

\* Only a client that was accepted enters the tables.
LEMMA TablesKnown ==
    ASSUME IInv, [Next]_vars, NEW c \in Conns, c \notin Known'
    PROVE  c \notin streams' \cup retired'
<1>0. c \notin streams \cup retired
  BY KnownGrows DEF IInv, Untouched
<1>1. ASSUME NEW d \in Conns, NEW p \in Ports, Accept(d, p)
      PROVE  c \notin streams' \cup retired'
  <2>1. d # c
    BY <1>1 DEF IInv, TypeOK, Known, Accept
  <2> QED
    BY <1>0, <1>1, <2>1 DEF Accept
<1>2. CASE RxStopped
  <2>1. rx.conn # c
    BY <1>0, <1>2 DEF IInv, RxOnOpen, RxStopped
  <2> QED
    BY <1>0, <1>2, <2>1 DEF RxStopped, Retire
<1>3. CASE CloseBegin
  BY <1>3 DEF CloseBegin
<1>4. CASE UNCHANGED <<streams, retired>>
  BY <1>0, <1>4
<1> QED
  BY <1>1, <1>2, <1>3, <1>4 DEF Next, vars, mapping, sockets, camera, Client, Forward, Receive,
     Dispatch, Camera, Reject, ClientEof, ClientReset, ClientStall, SocketLost, ForwardAnnounce, ForwardRead,
     ForwardSend, ForwardEnd, ForwardRequest, ForwardDone, RxKeepalive, RxUnknown, RxMismatch,
     RxBadSequence, RxData, RxControl, RxDrained, RxAnswer, RxStop, TunnelLost, KeepaliveRound,
     CloseEnd, CamReceive, CamData, CamRequest, CamStray, CamKeepalive, CamDie

\* A connection that is not made leaves no trace.
LEMMA UntouchedStep == IInv /\ [Next]_vars => Untouched'
<1> SUFFICES ASSUME IInv, [Next]_vars, NEW c \in Conns, c \notin Known'
             PROVE  /\ c \notin streams' \cup retired'
                    /\ task'[c] = "none" /\ sock'[c] = "none"
                    /\ got'[c] = <<>> /\ stream'[c].recvSeq = 0
                    /\ cam'[c].state = "none"
  BY DEF Untouched
<1>1. c \notin Known /\ got[c] = <<>> /\ stream[c].recvSeq = 0 /\ c \notin streams
  BY KnownGrows DEF IInv, Untouched
<1>2. got'[c] = <<>> /\ stream'[c].recvSeq = 0
  <2>1. ASSUME NEW d \in streams, RxData(d)
        PROVE  got'[c] = <<>> /\ stream'[c].recvSeq = 0
    BY <1>1, <2>1, RxDataEffect
  <2>2. CASE \A d \in streams : ~RxData(d)
    BY <1>1, <2>2, GotFixed, RecvSeqFixed
  <2> QED
    BY <2>1, <2>2
<1> QED
  BY <1>1, <1>2, CamKnown, TaskKnown, TablesKnown

\* What a queue of packets becomes when one is taken or put.
LEMMA QueueSteps ==
    ASSUME NEW q \in Seq(Packets), NEW q2 \in Seq(Packets), NEW C, NEW K, NEW L, K \subseteq L,
           \A i \in DOMAIN q : q[i].cmd \in C => q[i].conn \in K,
           \/ q2 = q \/ q2 = <<>>
           \/ q # <<>> /\ q2 = Tail(q)
           \/ \E p \in Packets : /\ p.cmd \in C => p.conn \in K
                                 /\ q2 = Append(q, p)
    PROVE  \A i \in DOMAIN q2 : q2[i].cmd \in C => q2[i].conn \in L
<1>1. CASE q2 = q \/ q2 = <<>>
  BY <1>1
<1>2. CASE q # <<>> /\ q2 = Tail(q)
  <2>1. \A i \in DOMAIN q2 : i + 1 \in DOMAIN q /\ q2[i] = q[i + 1]
    BY <1>2
  <2> QED
    BY <2>1
<1>3. ASSUME NEW p \in Packets, p.cmd \in C => p.conn \in K, q2 = Append(q, p)
      PROVE  \A i \in DOMAIN q2 : q2[i].cmd \in C => q2[i].conn \in L
  <2>1. \A i \in DOMAIN q2 : (i \in DOMAIN q /\ q2[i] = q[i]) \/ q2[i] = p
    BY <1>3
  <2> QED
    BY <1>3, <2>1
<1> QED
  BY <1>1, <1>2, <1>3

\* What a step does to the packets for the camera.
LEMMA UpEffect ==
    ASSUME IInv, [Next]_vars
    PROVE  \/ up' = up \/ up' = <<>>
           \/ up # <<>> /\ up' = Tail(up)
           \/ \E p \in Packets : /\ p.conn \in Known
                                 /\ up' = Append(up, p)
<1> DEFINE Sent == \E p \in Packets : /\ p.conn \in Known
                                      /\ up' = Append(up, p)
<1>1. ASSUME NEW c \in Conns, ForwardAnnounce(c) \/ ForwardSend(c) \/ ForwardRequest(c)
      PROVE  Sent
  <2>1. c \in Known
    BY <1>1 DEF IInv, Untouched, ForwardAnnounce, ForwardSend, ForwardRequest
  <2>2. CASE ForwardAnnounce(c)
    <3>1. Access(c) \in Packets /\ Access(c).conn = c /\ up' = Append(up, Access(c))
      BY <2>2, PacketsType DEF ForwardAnnounce, Access
    <3> QED
      BY <2>1, <3>1
  <2>3. CASE ForwardSend(c)
    <3>1. stream[c].sendSeq - 1 \in Nat
      BY <2>3 DEF IInv, TypeOK, ForwardSend, StreamStates, SendCounted
    <3> DEFINE f == Frame(c, stream[c].sendSeq - 1)
    <3>2. f \in Packets
      BY <3>1, PacketsType
    <3>3. f.conn = c
      BY DEF Frame
    <3>4. up' = Append(up, f)
      BY <2>3 DEF ForwardSend
    <3> HIDE DEF f
    <3> QED
      BY <2>1, <3>2, <3>3, <3>4
  <2>4. CASE ForwardRequest(c)
    <3> DEFINE f == Frame(c, DISCONNECT_REQUEST)
    <3>1. f \in Packets /\ f.conn = c
      BY PacketsType DEF Frame
    <3>2. up' = Append(up, f)
      BY <2>4 DEF ForwardRequest
    <3> HIDE DEF f
    <3> QED
      BY <2>1, <3>1, <3>2
  <2> QED
    BY <1>1, <2>2, <2>3, <2>4
<1>2. CASE RxAnswer
  <2>1. rx.conn \in Known /\ rx.conn \in Conns
    BY <1>2 DEF IInv, TypeOK, Untouched, RxOnOpen, RxAnswer
  <2> DEFINE f(op) == Frame(rx.conn, op)
  <2>2. up' = Append(up, f(DISCONNECT_RESPONSE)) \/ up' = Append(up, f(DISCONNECT_CONFIRM))
    BY <1>2 DEF RxAnswer
  <2>3. /\ f(DISCONNECT_RESPONSE) \in Packets /\ f(DISCONNECT_CONFIRM) \in Packets
        /\ f(DISCONNECT_RESPONSE).conn = rx.conn /\ f(DISCONNECT_CONFIRM).conn = rx.conn
    BY <2>1, PacketsType DEF Frame
  <2> HIDE DEF f
  <2> QED
    BY <2>1, <2>2, <2>3
<1>3. CASE CamReceive
  BY <1>3 DEF CamReceive
<1>4. CASE CloseEnd
  BY <1>4 DEF CloseEnd
<1>5. CASE UNCHANGED up
  BY <1>5
<1> QED
  BY <1>1, <1>2, <1>3, <1>4, <1>5 DEF Next, vars, mapping, sockets, camera, Client, Forward, Receive,
     Dispatch, Camera, Accept, Reject, ClientEof, ClientReset, ClientStall, SocketLost, ForwardRead, ForwardEnd,
     ForwardDone, RxKeepalive, RxUnknown, RxMismatch, RxBadSequence, RxData, RxControl, RxDrained,
     RxStop, RxStopped, TunnelLost, KeepaliveRound, CloseBegin, CamData, CamRequest, CamStray,
     CamKeepalive, CamDie

\* What a step does to the packets for the mapping.
LEMMA DownEffect ==
    ASSUME IInv, [Next]_vars
    PROVE  \/ down' = down \/ down' = <<>>
           \/ down # <<>> /\ down' = Tail(down)
           \/ \E p \in Packets : /\ p.cmd \in {"DATA"} => p.conn \in Known
                                 /\ down' = Append(down, p)
<1> DEFINE Sent == \E p \in Packets : /\ p.cmd \in {"DATA"} => p.conn \in Known
                                      /\ down' = Append(down, p)
<1>1. ASSUME NEW c \in Conns, CamData(c) \/ CamRequest(c) \/ CamStray(c)
      PROVE  Sent
  <2>1. c \in Known
    BY <1>1 DEF IInv, Untouched, CamData, CamRequest, CamStray
  <2>2. PICK op \in Operations : down' = Append(down, Frame(c, op))
    <3>1. CASE CamData(c)
      <4>1. cam[c].sendSeq \in Operations
        BY CameraCount, PacketsType DEF IInv, TypeOK
      <4> QED
        BY <3>1, <4>1 DEF CamData
    <3>2. CASE CamRequest(c)
      BY <3>2, PacketsType DEF CamRequest
    <3>3. CASE CamStray(c)
      <4>1. PICK op \in 0 .. MaxReceive \cup {DISCONNECT_RESPONSE, DISCONNECT_CONFIRM,
                                              DISCONNECT_REQUEST} :
                 down' = Append(down, Frame(c, op))
        BY <3>3 DEF CamStray
      <4>2. op \in Operations
        BY <4>1, ConstantsAssumption DEF Operations
      <4> QED
        BY <4>1, <4>2
    <3> QED
      BY <1>1, <3>1, <3>2, <3>3
  <2> DEFINE f == Frame(c, op)
  <2>3. f \in Packets /\ f.conn = c /\ down' = Append(down, f)
    BY <2>2, PacketsType DEF Frame
  <2> HIDE DEF f
  <2> QED
    BY <2>1, <2>3
<1>2. CASE CamKeepalive
  <2>1. Keepalive \in Packets /\ Keepalive.cmd \notin {"DATA"}
    BY PacketsType DEF Keepalive
  <2>2. down' = Append(down, Keepalive)
    BY <1>2 DEF CamKeepalive
  <2> QED
    BY <2>1, <2>2
<1>3. CASE CamReceive
  <2> DEFINE f(op) == Frame(Head(up).conn, op)
  <2>1. up \in Seq(Packets) /\ up # <<>> /\ Head(up) = up[1] /\ 1 \in DOMAIN up
    BY <1>3 DEF IInv, TypeOK, CamReceive
  <2>2. Head(up).conn \in Known /\ Head(up).conn \in Conns
    BY <2>1 DEF IInv, FramesKnown, Known
  <2>3. \/ down' = down \/ down' = Append(down, f(DISCONNECT_RESPONSE))
        \/ down' = Append(down, f(DISCONNECT_CONFIRM))
    BY <1>3 DEF CamReceive
  <2>4. /\ f(DISCONNECT_RESPONSE) \in Packets /\ f(DISCONNECT_CONFIRM) \in Packets
        /\ f(DISCONNECT_RESPONSE).conn = Head(up).conn
        /\ f(DISCONNECT_CONFIRM).conn = Head(up).conn
    BY <2>2, PacketsType DEF Frame
  <2> HIDE DEF f
  <2> QED
    BY <2>2, <2>3, <2>4
<1>4. CASE CloseEnd
  BY <1>4 DEF CloseEnd
<1>5. CASE down # <<>> /\ down' = Tail(down)
  BY <1>5
<1>6. CASE UNCHANGED down
  BY <1>6
<1> QED
  BY <1>1, <1>2, <1>3, <1>4, <1>5, <1>6 DEF Next, vars, mapping, sockets, camera, Client, Forward,
     Receive, Dispatch, Camera, Accept, Reject, ClientEof, ClientReset, ClientStall, SocketLost, ForwardAnnounce,
     ForwardRead, ForwardSend, ForwardEnd, ForwardRequest, ForwardDone, RxKeepalive, RxUnknown,
     RxMismatch, RxBadSequence, RxData, RxControl, RxDrained, RxAnswer, RxStop, RxStopped, TunnelLost,
     KeepaliveRound, CloseBegin, CamDie, Receiving, Routed

\* Packets and deliveries go on naming connections that were made.
LEMMA FramesKnownStep == IInv /\ [Next]_vars => FramesKnown'
<1> SUFFICES ASSUME IInv, [Next]_vars PROVE FramesKnown'
  OBVIOUS
<1> DEFINE K == Known  L == Known'
<1>0. /\ K \subseteq L /\ streams \subseteq Conns /\ up \in Seq(Packets)
      /\ up' \in Seq(Packets) /\ down \in Seq(Packets) /\ down' \in Seq(Packets)
      /\ got \in [Conns -> Seq(Delivered)] /\ got' \in [Conns -> Seq(Delivered)]
  BY KnownGrows, TypeStep DEF IInv, TypeOK
<1>1. \A i \in DOMAIN up' : up'[i].conn \in L
  <2> DEFINE C == {"ACCESS", "DATA", "KEEPALIVE"}
  <2>1. \A i \in DOMAIN up : up[i].cmd \in C => up[i].conn \in K
    BY DEF IInv, FramesKnown
  <2>2. \A i \in DOMAIN up' : up'[i].cmd \in C
    <3>1. \A i \in DOMAIN up' : up'[i] \in Packets
      BY <1>0
    <3>2. \A p \in Packets : p.cmd \in C
      BY DEF Packets
    <3> QED
      BY <3>1, <3>2
  <2>3. \/ up' = up \/ up' = <<>>
        \/ up # <<>> /\ up' = Tail(up)
        \/ \E p \in Packets : (p.cmd \in C => p.conn \in K) /\ up' = Append(up, p)
    BY UpEffect
  <2> HIDE DEF C, K, L
  <2>4. \A i \in DOMAIN up' : up'[i].cmd \in C => up'[i].conn \in L
    <3>1. up \in Seq(Packets) /\ up' \in Seq(Packets) /\ K \subseteq L
      BY <1>0
    <3> QED
      BY ONLY <2>1, <2>3, <3>1, QueueSteps
  <2> QED
    BY <2>2, <2>4
<1>2. \A i \in DOMAIN down' : down'[i].cmd = "DATA" => down'[i].conn \in L
  <2> DEFINE C == {"DATA"}
  <2>1. \A i \in DOMAIN down : down[i].cmd \in C => down[i].conn \in K
    BY DEF IInv, FramesKnown
  <2>2. \/ down' = down \/ down' = <<>>
        \/ down # <<>> /\ down' = Tail(down)
        \/ \E p \in Packets : (p.cmd \in C => p.conn \in K) /\ down' = Append(down, p)
    BY DownEffect
  <2> HIDE DEF C, K, L
  <2>3. \A i \in DOMAIN down' : down'[i].cmd \in C => down'[i].conn \in L
    BY <1>0, <2>1, <2>2, QueueSteps
  <2> QED
    BY <2>3 DEF C
<1>3. \A c \in Conns : \A i \in DOMAIN got'[c] : got'[c][i].conn \in L
  <2>1. ASSUME NEW d \in streams, RxData(d), NEW c \in Conns, NEW i \in DOMAIN got'[c]
        PROVE  got'[c][i].conn \in L
    <3> DEFINE e == [conn |-> Received.conn, op |-> Received.op]
    <3>1. /\ e.conn \in K
          /\ got'[c] = got[c] \/ got'[c] = Append(got[c], e)
      BY <2>1, RxDataEffect
    <3>2. got[c] \in Seq(Delivered)
      BY <1>0
    <3> HIDE DEF e
    <3>3. (i \in DOMAIN got[c] /\ got'[c][i] = got[c][i]) \/ got'[c][i] = e
      BY <2>1, <3>1, <3>2
    <3> QED
      BY <1>0, <3>1, <3>3 DEF IInv, FramesKnown
  <2>2. CASE got' = got
    BY <1>0, <2>2 DEF IInv, FramesKnown
  <2> QED
    BY <2>1, <2>2, GotFixed
<1> QED
  BY <1>1, <1>2, <1>3 DEF FramesKnown

\* The counter of a stream counts what its client was given.
LEMMA AllWrittenStep == IInv /\ [Next]_vars => AllWritten'
<1> SUFFICES ASSUME IInv, [Next]_vars, NEW c \in Conns, sock'[c] = "open"
             PROVE  Len(got'[c]) = stream'[c].recvSeq
  BY DEF AllWritten
<1>0. /\ streams \subseteq Conns /\ got \in [Conns -> Seq(Delivered)]
      /\ stream \in [Conns -> StreamStates]
  BY DEF IInv, TypeOK
<1>1. Len(got[c]) = stream[c].recvSeq
  <2>1. CASE sock[c] = "open"
    BY <2>1 DEF IInv, AllWritten
  <2>2. CASE c \notin Known
    BY <2>2 DEF IInv, Untouched
  <2> QED
    BY <2>1, <2>2, SocketsClose
<1>2. ASSUME NEW d \in streams, RxData(d)
      PROVE  Len(got'[c]) = stream'[c].recvSeq
  <2>1. CASE c = d
    <3> DEFINE e == [conn |-> Received.conn, op |-> Received.op]
    <3>1. got'[c] = Append(got[c], e) /\ stream'[c].recvSeq = stream[c].recvSeq + 1
      BY <1>2, <2>1, RxDataEffect
    <3> HIDE DEF e
    <3>2. Len(got'[c]) = Len(got[c]) + 1
      BY <1>0, <3>1
    <3> QED
      BY <1>1, <3>1, <3>2
  <2>2. CASE c # d
    BY <1>1, <1>2, <2>2, RxDataEffect
  <2> QED
    BY <2>1, <2>2
<1>3. CASE \A d \in streams : ~RxData(d)
  BY <1>1, <1>3, GotFixed, RecvSeqFixed
<1> QED
  BY <1>2, <1>3

\* A client is given the next frame with its own id and ports, or none; and
\* the id and ports of a stream its client was given frames of do not change.
LEMMA StraysStep == IInv /\ [Next]_vars => StraysNeverReorder'
<1> SUFFICES ASSUME IInv, [Next]_vars, NEW c \in Conns, NEW i \in 1 .. Len(got'[c])
             PROVE  /\ got'[c][i].op = i - 1
                    /\ stream'[got'[c][i].conn].id = stream'[c].id
                    /\ stream'[got'[c][i].conn].port = stream'[c].port
  BY DEF StraysNeverReorder
<1> DEFINE Good(s, f, n) == /\ f.op = n - 1
                            /\ s[f.conn].id = s[c].id
                            /\ s[f.conn].port = s[c].port
<1>0. /\ streams \subseteq Conns /\ got \in [Conns -> Seq(Delivered)]
      /\ stream \in [Conns -> StreamStates]
  BY DEF IInv, TypeOK
<1>1. ASSUME NEW j \in 1 .. Len(got[c])
      PROVE  Good(stream, got[c][j], j) /\ got[c][j].conn \in Known /\ c \in Known
  <2>1. j \in DOMAIN got[c] /\ got[c] # <<>>
    BY <1>0
  <2> QED
    BY <2>1 DEF IInv, StraysNeverReorder, FramesKnown, Untouched
<1>2. ASSUME NEW d \in streams, RxData(d)
      PROVE  Good(stream', got'[c][i], i)
  <2> DEFINE e == [conn |-> Received.conn, op |-> Received.op]
  <2>1. \A x \in Conns : stream'[x].id = stream[x].id /\ stream'[x].port = stream[x].port
    <3>1. stream' = [stream EXCEPT ![d].recvSeq = stream[d].recvSeq + 1]
      BY <1>2 DEF RxData
    <3> QED
      BY <1>0, <3>1 DEF StreamStates
  <2>2. CASE got'[c] = got[c]
    <3>1. Good(stream, got[c][i], i) /\ got[c][i].conn \in Conns /\ got'[c][i] = got[c][i]
      BY <1>1, <2>2 DEF Known
    <3> QED
      BY <2>1, <3>1
  <2>3. CASE c = d /\ sock[c] = "open" /\ got'[c] = Append(got[c], e)
    <3>1. /\ Good(stream, e, Len(got[c]) + 1) /\ e.conn \in Conns
      <4>1. /\ e.conn \in Conns /\ e.op = stream[c].recvSeq
            /\ stream[e.conn].id = stream[c].id /\ stream[e.conn].port = stream[c].port
        BY <1>2, <2>3, RxDataEffect DEF Known
      <4>2. Len(got[c]) = stream[c].recvSeq /\ Len(got[c]) \in Nat
        BY <1>0, <2>3 DEF IInv, AllWritten
      <4> HIDE DEF e
      <4> QED
        BY <4>1, <4>2
    <3> HIDE DEF e
    <3>2. \/ i \in 1 .. Len(got[c]) /\ got'[c][i] = got[c][i]
          \/ i = Len(got[c]) + 1 /\ got'[c][i] = e
      BY <1>0, <2>3
    <3>3. CASE i \in 1 .. Len(got[c]) /\ got'[c][i] = got[c][i]
      <4>1. Good(stream, got[c][i], i) /\ got[c][i].conn \in Conns
        BY <1>1, <3>3 DEF Known
      <4> QED
        BY <2>1, <3>3, <4>1
    <3>4. CASE i = Len(got[c]) + 1 /\ got'[c][i] = e
      BY <2>1, <3>1, <3>4
    <3> QED
      BY <3>2, <3>3, <3>4
  <2> QED
    BY <1>2, <2>2, <2>3, RxDataEffect
<1>3. CASE got' = got
  <2>1. Good(stream, got[c][i], i) /\ got[c][i].conn \in Known /\ c \in Known
    BY <1>1, <1>3
  <2>2. \A x \in Known : stream'[x].id = stream[x].id /\ stream'[x].port = stream[x].port
    <3>1. ASSUME NEW d \in Conns, NEW p \in Ports, Accept(d, p), NEW x \in Known
          PROVE  stream'[x].id = stream[x].id /\ stream'[x].port = stream[x].port
      BY <3>1, AcceptFields DEF Accept, Known
    <3> QED
      BY <3>1, IdsFixed DEF Known
  <2> QED
    BY <1>3, <2>1, <2>2
<1> QED
  BY <1>2, <1>3, GotFixed

-----------------------------------------------------------------------------
(* Invariance *)

\* Every step keeps the invariant.
LEMMA NextInv == IInv /\ [Next]_vars => IInv'
BY TypeStep, UntouchedStep, SendCountedStep, FramesKnownStep, RxOnOpenStep, IdsApartStep,
   TasksOwnedStep, AfterCloseStep, AllWrittenStep, StraysStep DEF IInv

\* The invariant the theorems below follow from: it holds initially and every
\* step of the mapping, its clients and the camera keeps it.
THEOREM Invariance == Spec => []IInv
BY InitInv, NextInv, PTL DEF Spec

\* Every variable keeps its type; in particular the request ids given to
\* streams stay below 2^31 when they wrap.
THEOREM TypeCorrect == Spec => []TypeOK
<1>1. IInv => TypeOK
  BY DEF IInv
<1> QED
  BY <1>1, Invariance, PTL

\* A request id names at most one open or retired stream, however many streams
\* came and went and how often the ids wrapped.
THEOREM IdsUniqueTheorem == Spec => []IdsUnique
<1>1. IInv => IdsUnique
  BY DEF IInv, IdsApart
<1> QED
  BY <1>1, Invariance, PTL

\* When async_close is over no task, loop, loopback socket or table entry of
\* the mapping is left.
THEOREM NothingAfterCloseTheorem == Spec => []NothingAfterClose
<1>1. IInv => NothingAfterClose
  BY DEF IInv, AfterClose, Closed, NothingAfterClose
<1> QED
  BY <1>1, Invariance, PTL

\* Whatever frames the camera sends, a local client is given frames of its own
\* request id and ports only, numbered from zero without gaps.
THEOREM StraysNeverReorderTheorem == Spec => []StraysNeverReorder
<1>1. IInv => StraysNeverReorder
  BY DEF IInv
<1> QED
  BY <1>1, Invariance, PTL
-----------------------------------------------------------------------------
(* The window of retired streams *)

\* A stream is retired once, after the ones retired before it, and what is
\* remembered of the retired ones never exceeds MaxRetired entries.
RetiredInOrder ==
    /\ IsFiniteSet(retired) /\ Cardinality(retired) <= MaxRetired
    /\ \A c \in Conns : stream[c].retiredAt <= retirements
    /\ \A c \in Conns : c \in streams \/ c \notin Known => stream[c].retiredAt = 0
    /\ \A c \in retired : stream[c].retiredAt > 0
    /\ \A c, d \in Conns :
          stream[c].retiredAt = stream[d].retiredAt /\ stream[c].retiredAt > 0 => c = d

WindowInv == RetiredInOrder /\ RetiredWindow

\* What the window depends on changes in three actions only.
LEMMA WindowFixed ==
    ASSUME IInv, [Next]_vars
    PROVE  \/ \E c \in Conns, p \in Ports : Accept(c, p)
           \/ RxStopped /\ rx.remove
           \/ CloseBegin
           \/ /\ UNCHANGED <<streams, retired, retirements, Closed>>
              /\ \A d \in Conns : /\ stream'[d].id = stream[d].id
                                  /\ stream'[d].retiredAt = stream[d].retiredAt
<1> DEFINE Fixed == \A d \in Conns : /\ stream'[d].id = stream[d].id
                                     /\ stream'[d].retiredAt = stream[d].retiredAt
<1>1. ASSUME UNCHANGED stream
      PROVE  Fixed
  BY <1>1
<1>2. ASSUME NEW c \in Conns, ForwardRead(c) \/ RxData(c) \/ RxControl(c)
      PROVE  Fixed
  <2>1. stream \in [Conns -> StreamStates]
    BY DEF IInv, TypeOK
  <2>2. \/ stream' = [stream EXCEPT ![c].sendSeq = stream[c].sendSeq + 1]
        \/ stream' = [stream EXCEPT ![c].recvSeq = stream[c].recvSeq + 1]
        \/ stream' = [stream EXCEPT ![c].remoteDisconnect = TRUE]
        \/ stream' = stream
    BY <1>2 DEF ForwardRead, RxData, RxControl
  <2> QED
    BY <2>1, <2>2 DEF StreamStates
<1>3. \/ \E c \in Conns, p \in Ports : Accept(c, p)
      \/ RxStopped /\ rx.remove
      \/ CloseBegin
      \/ /\ UNCHANGED <<streams, retired, retirements, Closed>>
         /\ \/ UNCHANGED stream
            \/ \E c \in Conns : ForwardRead(c)
            \/ \E c \in streams : RxData(c) \/ RxControl(c)
  BY DEF Next, vars, mapping, sockets, camera, Client, Forward, Receive, Dispatch, Camera, Reject,
     ClientEof, ClientReset, ClientStall, SocketLost, ForwardAnnounce, ForwardRead, ForwardSend, ForwardEnd,
     ForwardRequest, ForwardDone, RxKeepalive, RxUnknown, RxMismatch, RxBadSequence, RxData, RxControl,
     RxDrained, RxAnswer, RxStop, RxStopped, TunnelLost, KeepaliveRound, CloseEnd, CamReceive, CamData,
     CamRequest, CamStray, CamKeepalive, CamDie, Closed
<1>4. streams \subseteq Conns
  BY DEF IInv, TypeOK
<1> QED
  BY <1>1, <1>2, <1>3, <1>4

\* A new stream has not been retired, and takes its id from a retired one at
\* most.
LEMMA AcceptWindow ==
    ASSUME IInv, WindowInv, NEW c \in Conns, NEW p \in Ports, Accept(c, p)
    PROVE  WindowInv'
<1>1. PICK id \in Ids :
      Allocatable(id) /\ nextId' = NextIdAfter(id) /\ retired' = {r \in retired : stream[r].id # id}
      /\ stream' = [stream EXCEPT ![c] = [@ EXCEPT !.id = id, !.port = p]]
  BY DEF Accept
<1> USE DEF IInv, WindowInv, RetiredInOrder
<1>2. /\ streams' = streams \cup {c} /\ retirements' = retirements /\ ~Closed
      /\ c \notin Known /\ c \notin streams \cup retired /\ stream[c].retiredAt = 0
  BY DEF Accept, Untouched, Known
<1>3. /\ stream'[c].id = id
      /\ \A d \in Conns : stream'[d].retiredAt = stream[d].retiredAt
      /\ \A d \in Conns \ {c} : stream'[d].id = stream[d].id
  BY <1>1 DEF TypeOK, StreamStates
<1>4. Known \subseteq Known'
  BY DEF TypeOK, Known, Accept
<1>5. IsFiniteSet(retired') /\ Cardinality(retired') <= MaxRetired
  <2>1. retired' \in SUBSET retired
    BY <1>1
  <2>2. Cardinality(retired') \in Nat /\ Cardinality(retired) \in Nat /\ MaxRetired \in Nat
    BY <2>1, FS_Subset, FS_CardinalityType, ConstantsAssumption
  <2> QED
    BY <2>1, <2>2, FS_Subset
<1>6. RetiredInOrder'
  BY <1>1, <1>2, <1>3, <1>4, <1>5 DEF TypeOK
<1>7. RetiredWindow'
  <2> SUFFICES ASSUME NEW r \in Conns, stream'[r].retiredAt > 0,
                      stream'[r].retiredAt > retirements' - MaxRetired, r \notin retired'
               PROVE  \E d \in Conns \ {r} :
                         /\ stream'[d].id = stream'[r].id
                         /\ d \in streams' \/ stream'[d].retiredAt > stream'[r].retiredAt
    BY DEF RetiredWindow
  <2>1. r # c /\ stream'[r].id = stream[r].id
    BY <1>2, <1>3
  <2>2. CASE r \in retired
    BY <1>1, <1>2, <1>3, <2>1, <2>2
  <2>3. CASE r \notin retired
    <3>1. PICK d \in Conns \ {r} :
             /\ stream[d].id = stream[r].id
             /\ d \in streams \/ stream[d].retiredAt > stream[r].retiredAt
      BY <1>2, <1>3, <2>3 DEF RetiredWindow
    <3>2. d # c
      BY <1>2, <1>3, <3>1 DEF TypeOK, StreamStates
    <3> QED
      BY <1>2, <1>3, <2>1, <3>1, <3>2
  <2> QED
    BY <2>2, <2>3
<1> QED
  BY <1>6, <1>7

\* A set of numbers that is not empty has a least element.
LEMMA LeastElement ==
    ASSUME NEW S \in SUBSET Nat, S # {}
    PROVE  \E h \in S : \A g \in S : h <= g
<1> DEFINE R == {ss \in Nat \X Nat : ss[1] < ss[2]}
<1>1. IsWellFoundedOn(R, Nat)
  BY NatLessThanWellFounded DEF OpToRel
<1>2. PICK h \in S : \A g \in S : ~(<<g, h>> \in R)
  <2> HIDE DEF R
  <2> QED
    BY <1>1, WFMin
<1>3. \A g \in S : ~(g < h)
  BY <1>2
<1> QED
  BY <1>3

\* The entry that is given up was retired before every other one.
LEMMA OldestFirst ==
    ASSUME IInv, retired # {}
    PROVE  /\ Oldest \in retired
           /\ \A s \in retired : stream[Oldest].retiredAt <= stream[s].retiredAt
<1> DEFINE S == {stream[r].retiredAt : r \in retired}
<1>1. S \in SUBSET Nat /\ S # {}
  BY DEF IInv, TypeOK, StreamStates
<1>2. PICK h \in S : \A g \in S : h <= g
  <2> HIDE DEF S
  <2> QED
    BY <1>1, LeastElement
<1>3. \E r \in retired : \A s \in retired : stream[r].retiredAt <= stream[s].retiredAt
  BY <1>2
<1> QED
  BY <1>3 DEF Oldest

\* What a full table gives up was retired before the last MaxRetired streams.
LEMMA OldestOutOfWindow ==
    ASSUME IInv, RetiredInOrder, Cardinality(retired) >= MaxRetired
    PROVE  /\ Oldest \in retired
           /\ stream[Oldest].retiredAt <= retirements + 1 - MaxRetired
<1> DEFINE old == stream[Oldest].retiredAt
           f == [r \in retired |-> stream[r].retiredAt]
<1>1. /\ retired # {} /\ IsFiniteSet(retired) /\ Cardinality(retired) \in Nat
      /\ MaxRetired \in Nat /\ retirements \in Nat
  BY FS_EmptySet, FS_CardinalityType, ConstantsAssumption DEF RetiredInOrder, IInv, TypeOK
<1>2. Oldest \in retired /\ \A s \in retired : old <= stream[s].retiredAt
  BY <1>1, OldestFirst
<1>3. /\ old \in Nat /\ old <= retirements
      /\ \A s \in retired : stream[s].retiredAt \in Nat /\ stream[s].retiredAt <= retirements
  BY <1>2 DEF IInv, TypeOK, StreamStates, RetiredInOrder
<1>4. f \in [retired -> old .. retirements]
  BY <1>2, <1>3
<1>5. \A x, y \in retired : f[x] = f[y] => x = y
  BY DEF IInv, TypeOK, RetiredInOrder
<1> HIDE DEF old, f
<1>6. /\ IsFiniteSet(old .. retirements)
      /\ Cardinality(old .. retirements) = retirements - old + 1
  <2>1. old \in Int /\ retirements \in Int /\ ~(old > retirements)
    BY <1>1, <1>3
  <2> QED
    BY <2>1, FS_Interval
<1>7. ~(Cardinality(old .. retirements) < Cardinality(retired))
  <2> DEFINE T == old .. retirements
  <2>1. IsFiniteSet(T) /\ IsFiniteSet(retired) /\ f \in [retired -> T]
    BY <1>1, <1>4, <1>6
  <2> HIDE DEF T
  <2>2. ~(Cardinality(T) < Cardinality(retired))
    BY <1>5, <2>1, FS_PigeonHole
  <2> QED
    BY <2>2 DEF T
<1>8. old <= retirements + 1 - MaxRetired
  BY <1>1, <1>3, <1>6, <1>7
<1> QED
  BY <1>2, <1>8 DEF old

\* Retiring a stream keeps the window when what it gives up is out of it.
LEMMA WindowKept ==
    ASSUME IInv, WindowInv, RxStopped, rx.remove, rx.conn \in retired',
           \A r \in retired : \/ r \in retired'
                              \/ ~(stream'[r].retiredAt > retirements' - MaxRetired)
    PROVE  RetiredWindow'
<1> DEFINE k == rx.conn
<1>1. /\ k \in streams /\ k \in Conns /\ streams' = streams \ {k}
      /\ retirements' = retirements + 1 /\ closing' = closing
      /\ stream' = [stream EXCEPT ![k].retiredAt = retirements + 1]
  BY RxStoppedIds DEF RxStopped, IInv, TypeOK
<1>2. /\ stream'[k].retiredAt = retirements + 1
      /\ \A d \in Conns \ {k} : stream'[d].retiredAt = stream[d].retiredAt
      /\ \A d \in Conns : stream'[d].id = stream[d].id
      /\ \A d \in Conns : stream[d].retiredAt \in Nat /\ stream[d].retiredAt <= retirements
      /\ retirements \in Nat /\ MaxRetired \in Nat
  BY <1>1, ConstantsAssumption DEF IInv, TypeOK, StreamStates, WindowInv, RetiredInOrder
<1> HIDE DEF k
<1> SUFFICES ASSUME ~Closed, NEW r \in Conns, stream'[r].retiredAt > 0,
                    stream'[r].retiredAt > retirements' - MaxRetired, r \notin retired'
             PROVE  \E d \in Conns \ {r} :
                       /\ stream'[d].id = stream'[r].id
                       /\ d \in streams' \/ stream'[d].retiredAt > stream'[r].retiredAt
  BY <1>1 DEF RetiredWindow, Closed
<1>3. r # k /\ r \notin retired
  BY DEF k
<1>4. PICK d \in Conns \ {r} : /\ stream[d].id = stream[r].id
                               /\ d \in streams \/ stream[d].retiredAt > stream[r].retiredAt
  BY <1>1, <1>2, <1>3 DEF WindowInv, RetiredWindow
<1>5. stream'[d].id = stream'[r].id /\ stream'[r].retiredAt = stream[r].retiredAt
  BY <1>2, <1>3, <1>4
<1>6. d \in streams' \/ stream'[d].retiredAt > stream'[r].retiredAt
  <2>1. CASE d = k
    <3>1. stream'[d].retiredAt = retirements + 1 /\ stream[r].retiredAt <= retirements
      BY <1>2, <2>1
    <3> QED
      BY <1>2, <1>5, <3>1
  <2>2. CASE d # k
    BY <1>1, <1>2, <1>4, <1>5, <2>2
  <2> QED
    BY <2>1, <2>2
<1> QED
  BY <1>5, <1>6

\* A stream that is retired may push the oldest one out, which by then is out
\* of the window.
LEMMA RetireWindow ==
    ASSUME IInv, WindowInv, RxStopped, rx.remove
    PROVE  WindowInv'
<1> DEFINE k == rx.conn
<1> USE DEF IInv, WindowInv
<1>1. /\ k \in streams /\ k \in Conns /\ streams' = streams \ {k} /\ retired' = Retire(k)
      /\ retirements' = retirements + 1 /\ closing' = closing /\ client' = client
      /\ stream' = [stream EXCEPT ![k].retiredAt = retirements + 1]
  BY RxStoppedIds DEF RxStopped, TypeOK, sockets
<1>2. /\ stream'[k].retiredAt = retirements + 1
      /\ \A d \in Conns \ {k} : stream'[d].retiredAt = stream[d].retiredAt
      /\ \A d \in Conns : stream'[d].id = stream[d].id
      /\ \A d \in Conns : stream[d].retiredAt \in Nat
      /\ retirements \in Nat /\ retired \subseteq Conns /\ streams \subseteq Conns
  BY <1>1 DEF TypeOK, StreamStates
<1>3. k \in Known /\ k \notin retired /\ stream[k].retiredAt = 0 /\ Known' = Known
  BY <1>1 DEF RetiredInOrder, Known, Untouched, IdsApart
<1>4. MaxRetired \in Nat \ {0} /\ Cardinality(retired) \in Nat
  BY ConstantsAssumption, FS_CardinalityType DEF RetiredInOrder
<1> HIDE DEF k
<1>5. CASE Cardinality(retired) >= MaxRetired
  <2>1. Oldest \in retired /\ stream[Oldest].retiredAt <= retirements + 1 - MaxRetired
    BY <1>5, OldestOutOfWindow
  <2>2. retired' = (retired \ {Oldest}) \cup {k}
    BY <1>1, <1>5 DEF Retire
  <2>3. IsFiniteSet(retired') /\ Cardinality(retired') <= MaxRetired
    <3>1. /\ IsFiniteSet(retired \ {Oldest})
          /\ Cardinality(retired \ {Oldest}) = Cardinality(retired) - 1
      BY <2>1, FS_RemoveElement DEF RetiredInOrder
    <3>2. /\ IsFiniteSet(retired')
          /\ Cardinality(retired') = Cardinality(retired \ {Oldest}) + 1
      BY <1>3, <2>2, <3>1, FS_AddElement
    <3> QED
      BY <1>4, <3>1, <3>2 DEF RetiredInOrder
  <2>4. RetiredInOrder'
    BY <1>1, <1>2, <1>3, <2>2, <2>3 DEF RetiredInOrder
  <2>5. \A r \in retired : r \in retired' \/ ~(stream'[r].retiredAt > retirements' - MaxRetired)
    <3>1. ~(stream[Oldest].retiredAt > retirements' - MaxRetired)
      BY <1>1, <1>2, <1>4, <2>1
    <3> QED
      BY <1>2, <1>3, <2>1, <2>2, <3>1
  <2> HIDE DEF IInv
  <2> QED
    BY <1>1, <1>2, <1>3, <2>2, <2>4, <2>5, WindowKept DEF k
<1>6. CASE ~(Cardinality(retired) >= MaxRetired)
  <2>1. retired' = retired \cup {k}
    BY <1>1, <1>6 DEF Retire
  <2>2. IsFiniteSet(retired') /\ Cardinality(retired') <= MaxRetired
    <3>1. IsFiniteSet(retired') /\ Cardinality(retired') = Cardinality(retired) + 1
      BY <1>3, <2>1, FS_AddElement DEF RetiredInOrder
    <3> QED
      BY <1>4, <1>6, <3>1
  <2>3. RetiredInOrder'
    BY <1>1, <1>2, <1>3, <2>1, <2>2 DEF RetiredInOrder
  <2>4. \A r \in retired : r \in retired'
    BY <2>1
  <2> HIDE DEF IInv
  <2> QED
    BY <1>1, <1>2, <1>3, <2>1, <2>3, <2>4, WindowKept DEF k
<1> QED
  BY <1>5, <1>6

\* Every step keeps the window.
LEMMA WindowStep == IInv /\ WindowInv /\ [Next]_vars => WindowInv'
<1> SUFFICES ASSUME IInv, WindowInv, [Next]_vars PROVE WindowInv'
  OBVIOUS
<1>1. Known \subseteq Known' /\ streams \subseteq Conns /\ retired \subseteq Conns
  BY KnownGrows DEF IInv, TypeOK
<1>2. ASSUME NEW c \in Conns, NEW p \in Ports, Accept(c, p)
      PROVE  WindowInv'
  BY <1>2, AcceptWindow
<1>3. CASE RxStopped /\ rx.remove
  BY <1>3, RetireWindow
<1>4. CASE CloseBegin
  <2>1. /\ streams' = {} /\ retired' = {} /\ retirements' = retirements /\ Closed'
        /\ \A d \in Conns : stream'[d].retiredAt = stream[d].retiredAt
    BY <1>4 DEF CloseBegin, IInv, TypeOK, StreamStates, Closed
  <2>2. IsFiniteSet({}) /\ Cardinality({}) <= MaxRetired
    BY FS_EmptySet, ConstantsAssumption
  <2>3. RetiredInOrder'
    BY <1>1, <2>1, <2>2 DEF WindowInv, RetiredInOrder
  <2> QED
    BY <2>1, <2>3 DEF WindowInv, RetiredWindow
<1>5. CASE /\ UNCHANGED <<streams, retired, retirements, Closed>>
           /\ \A d \in Conns : /\ stream'[d].id = stream[d].id
                               /\ stream'[d].retiredAt = stream[d].retiredAt
  <2>1. RetiredInOrder'
    BY <1>1, <1>5 DEF WindowInv, RetiredInOrder
  <2>2. RetiredWindow'
    BY <1>1, <1>5 DEF WindowInv, RetiredWindow
  <2> QED
    BY <2>1, <2>2 DEF WindowInv
<1> QED
  BY <1>2, <1>3, <1>4, <1>5, WindowFixed

\* Late frames are recognised for each of the last MaxRetired streams that
\* ended, as long as their request id was not allocated again.
THEOREM RetiredWindowTheorem == Spec => []RetiredWindow
<1>1. Init => WindowInv
  BY FS_EmptySet, ConstantsAssumption DEF Init, WindowInv, RetiredInOrder, RetiredWindow, Known
<1>2. WindowInv => RetiredWindow
  BY DEF WindowInv
<1> QED
  BY <1>1, <1>2, Invariance, WindowStep, PTL DEF Spec

\* What is remembered of streams that ended is bounded, also when streams come
\* and go for ever (port_mapping.py:354-356).
THEOREM RetiredBounded == Spec => [](Cardinality(retired) <= MaxRetired)
<1>1. Init => WindowInv
  BY FS_EmptySet, ConstantsAssumption DEF Init, WindowInv, RetiredInOrder, RetiredWindow, Known
<1>2. WindowInv => Cardinality(retired) <= MaxRetired
  BY DEF WindowInv, RetiredInOrder
<1> QED
  BY <1>1, <1>2, Invariance, WindowStep, PTL DEF Spec

-----------------------------------------------------------------------------
(* While the request ids last *)

\* The connections that were given a stream, and how many there are.
Accepted == {c \in Conns : task[c] # "none"}
Given == Cardinality(Accepted)

\* Before the ids wrap the next one is the number of streams there were; each
\* of these has its own id below it; and only they were given frames.
IdsCounted ==
    /\ IsFiniteSet(Accepted)
    /\ nextId = Given % IdSpace
    /\ \A c \in Accepted : stream[c].id < Given
    /\ \A c, d \in Accepted : stream[c].id = stream[d].id => c = d
    /\ streams \subseteq Accepted
    /\ ~Closed => Known \subseteq Accepted
    /\ \A c \in Conns : \A i \in DOMAIN got[c] : c \in Accepted /\ got[c][i].conn \in Accepted

\* Only a client that is accepted makes a connection accepted.
LEMMA AcceptedFixed ==
    ASSUME IInv, IdsCounted, [Next]_vars
    PROVE  \/ \E c \in Conns, p \in Ports : Accept(c, p)
           \/ /\ Accepted' = Accepted /\ nextId' = nextId /\ streams' \subseteq streams
              /\ \A c \in Conns : stream'[c].id = stream[c].id
              /\ ~Closed' => ~Closed /\ Known' \subseteq Known
<1> DEFINE Kept == \A c \in Conns : task'[c] = "none" <=> task[c] = "none"
<1>0. task \in [Conns -> TaskStates] /\ streams \subseteq Conns /\ streams \subseteq Accepted
  BY DEF IInv, TypeOK, IdsCounted
<1>1. ASSUME NEW c \in Conns, \/ ForwardAnnounce(c) \/ ForwardRead(c) \/ ForwardSend(c)
                              \/ ForwardEnd(c) \/ ForwardRequest(c) \/ ForwardDone(c)
      PROVE  Kept
  BY <1>0, <1>1 DEF ForwardAnnounce, ForwardRead, ForwardSend, ForwardEnd, ForwardRequest,
     ForwardDone, Finally
<1>2. ASSUME RxStop
      PROVE  Kept
  <2>1. rx.conn \in Accepted
    BY <1>0, <1>2 DEF IInv, RxOnOpen, RxStop
  <2> QED
    BY <1>0, <1>2, <2>1 DEF RxStop, Cancelled, Finally, Accepted
<1>3. ASSUME CloseBegin
      PROVE  Kept
  BY <1>0, <1>3 DEF CloseBegin, Accepted
<1>4. ASSUME UNCHANGED task
      PROVE  Kept
  BY <1>4
<1>5. CASE \E c \in Conns, p \in Ports : Accept(c, p)
  BY <1>5
<1>6. CASE ~ \E c \in Conns, p \in Ports : Accept(c, p)
  <2>1. Kept
    BY <1>1, <1>2, <1>3, <1>4, <1>6 DEF Next, vars, mapping, sockets, camera, Client, Forward,
       Receive, Dispatch, Camera, Reject, ClientEof, ClientReset, ClientStall, SocketLost, RxKeepalive,
       RxUnknown, RxMismatch, RxBadSequence, RxData, RxControl, RxDrained, RxAnswer, RxStopped,
       TunnelLost, KeepaliveRound, CloseEnd, CamReceive, CamData, CamRequest, CamStray,
       CamKeepalive, CamDie
  <2>2. nextId' = nextId /\ streams' \subseteq streams
    BY <1>6 DEF Next, vars, mapping, sockets, camera, Client, Forward, Receive, Dispatch, Camera,
       Reject, ClientEof, ClientReset, ClientStall, SocketLost, ForwardAnnounce, ForwardRead, ForwardSend,
       ForwardEnd, ForwardRequest, ForwardDone, RxKeepalive, RxUnknown, RxMismatch, RxBadSequence,
       RxData, RxControl, RxDrained, RxAnswer, RxStop, RxStopped, TunnelLost, KeepaliveRound,
       CloseBegin, CloseEnd, CamReceive, CamData, CamRequest, CamStray, CamKeepalive, CamDie
  <2>3. ~Closed' => ~Closed
    BY DEF Closed, Next, vars, mapping, sockets, camera, Client, Forward, Receive, Dispatch, Camera,
       Accept, Reject, ClientEof, ClientReset, ClientStall, SocketLost, ForwardAnnounce, ForwardRead,
       ForwardSend, ForwardEnd, ForwardRequest, ForwardDone, RxKeepalive, RxUnknown, RxMismatch,
       RxBadSequence, RxData, RxControl, RxDrained, RxAnswer, RxStop, RxStopped, TunnelLost,
       KeepaliveRound, CloseBegin, CloseEnd, CamReceive, CamData, CamRequest, CamStray,
       CamKeepalive, CamDie
  <2>4. ~Closed => Known' \subseteq Known
    <3>1. CASE \E c \in Conns : ClientEof(c) \/ ClientReset(c) \/ ClientStall(c)
      BY <3>1 DEF IInv, TypeOK, Known, ClientEof, ClientReset, ClientStall
    <3>2. CASE \E c \in Conns : Reject(c)
      BY <3>2 DEF Reject, Closed
    <3>3. CASE UNCHANGED client
      BY <3>3 DEF Known
    <3> QED
      BY <1>6, <3>1, <3>2, <3>3 DEF Next, vars, mapping, sockets, camera, Client, Forward, Receive,
         Dispatch, Camera, SocketLost, ForwardAnnounce, ForwardRead, ForwardSend, ForwardEnd,
         ForwardRequest, ForwardDone, RxKeepalive, RxUnknown, RxMismatch, RxBadSequence, RxData,
         RxControl, RxDrained, RxAnswer, RxStop, RxStopped, TunnelLost, KeepaliveRound, CloseBegin,
         CloseEnd, CamReceive, CamData, CamRequest, CamStray, CamKeepalive, CamDie
  <2> QED
    BY <1>6, <2>1, <2>2, <2>3, <2>4, IdsFixed DEF Accepted
<1> QED
  BY <1>5, <1>6

\* Remainders of numbers below the divisor, and of such a number one turn on.
LEMMA SmallRemainder ==
    ASSUME NEW n \in Nat \ {0}, NEW a \in Nat, a < n
    PROVE  a % n = a /\ (a + n) % n = a
<1>1. a % n = a
  BY SMTT(20)
<1> DEFINE q == (a + n) \div n
           r == (a + n) % n
<1>2. a + n = n * q + r /\ 0 <= r /\ r < n /\ q \in Int /\ r \in Int
  OBVIOUS
<1> HIDE DEF q, r
<1>3. q <= 1
  <2> SUFFICES ASSUME q >= 2 PROVE FALSE
    BY <1>2
  <2>1. n * q >= 2 * n
    BY <1>2
  <2> QED
    BY <1>2, <2>1
<1>4. q >= 1
  <2> SUFFICES ASSUME q <= 0 PROVE FALSE
    BY <1>2
  <2>1. n * q <= 0
    BY <1>2
  <2> QED
    BY <1>2, <2>1
<1>5. q = 1
  BY <1>2, <1>3, <1>4
<1>6. r = a
  BY <1>2, <1>5
<1> QED
  BY <1>1, <1>6 DEF r

\* The walk of _allocate_request_id starts at _next_request_id.
LEMMA DistanceFromNext ==
    ASSUME TypeOK, NEW id \in Ids
    PROVE  Distance(nextId) = 0 /\ (id # nextId => 0 < Distance(id))
<1>1. /\ IdSpace \in Nat \ {0} /\ id \in Nat /\ id < IdSpace
      /\ nextId \in Nat /\ nextId < IdSpace
  BY ConstantsAssumption DEF TypeOK, Ids
<1>2. Distance(nextId) = 0
  <2>1. nextId - nextId + IdSpace = 0 + IdSpace /\ 0 \in Nat /\ 0 < IdSpace
    BY <1>1
  <2>2. (0 + IdSpace) % IdSpace = 0
    BY <1>1, <2>1, SmallRemainder
  <2> QED
    BY <2>1, <2>2 DEF Distance
<1>3. CASE id > nextId
  <2> DEFINE a == id - nextId
  <2>1. a \in Nat /\ a < IdSpace /\ 0 < a
    BY <1>1, <1>3
  <2> HIDE DEF a
  <2>2. (a + IdSpace) % IdSpace = a
    BY <1>1, <2>1, SmallRemainder
  <2> QED
    BY <1>2, <2>1, <2>2 DEF Distance, a
<1>4. CASE id < nextId
  <2> DEFINE a == id - nextId + IdSpace
  <2>1. a \in Nat /\ a < IdSpace /\ 0 < a
    BY <1>1, <1>4
  <2> HIDE DEF a
  <2>2. a % IdSpace = a
    BY <1>1, <2>1, SmallRemainder
  <2> QED
    BY <1>2, <2>1, <2>2 DEF Distance, a
<1> QED
  BY <1>1, <1>2, <1>3, <1>4

\* Until the ids wrap _next_request_id names no open stream and is taken.
LEMMA AcceptCounted ==
    ASSUME IInv, IdsCounted, IsFiniteSet(Conns), Cardinality(Conns) <= IdSpace,
           NEW c \in Conns, NEW p \in Ports, Accept(c, p)
    PROVE  /\ c \notin Accepted /\ Given < IdSpace /\ Given \in Nat
           /\ stream'[c].id = Given
<1>1. PICK id \in Ids :
      Allocatable(id) /\ nextId' = NextIdAfter(id)
      /\ stream' = [stream EXCEPT ![c] = [@ EXCEPT !.id = id, !.port = p]]
  BY DEF Accept
<1>2. c \notin Accepted
  BY DEF IInv, Untouched, Known, Accept, Accepted
<1>3. Given < IdSpace /\ Given \in Nat
  <2>1. /\ IsFiniteSet(Accepted \cup {c})
        /\ Cardinality(Accepted \cup {c}) = Given + 1 /\ Given \in Nat
    BY <1>2, FS_AddElement, FS_CardinalityType DEF IdsCounted, Given
  <2>2. Accepted \cup {c} \in SUBSET Conns
    BY DEF Accepted
  <2>3. Cardinality(Accepted \cup {c}) <= Cardinality(Conns)
    BY <2>2, FS_Subset
  <2>4. Cardinality(Conns) \in Nat /\ IdSpace \in Nat
    BY FS_CardinalityType, ConstantsAssumption
  <2> QED
    BY <2>1, <2>3, <2>4
<1>4. nextId = Given
  BY <1>3, SmallRemainder, ConstantsAssumption DEF IdsCounted
<1>5. id = nextId
  <2>1. nextId \notin ActiveIds
    <3>1. \A d \in streams : stream[d].id < Given /\ stream[d].id \in Nat
      BY DEF IdsCounted, IInv, TypeOK, StreamStates, Ids
    <3> QED
      BY <1>3, <1>4, <3>1 DEF ActiveIds
  <2>2. nextId \in Ids /\ Distance(nextId) = 0
    BY DistanceFromNext DEF IInv, TypeOK
  <2>3. id # nextId => 0 < Distance(id)
    BY DistanceFromNext DEF IInv
  <2> QED
    BY <1>1, <2>1, <2>2, <2>3 DEF Allocatable
<1>6. stream'[c].id = id
  BY <1>1 DEF IInv, TypeOK, StreamStates
<1> QED
  BY <1>2, <1>3, <1>4, <1>5, <1>6

\* Every step keeps the count, as long as there are ids for all connections.
LEMMA IdsCountedStep ==
    ASSUME IsFiniteSet(Conns), Cardinality(Conns) <= IdSpace
    PROVE  IInv /\ IdsCounted /\ [Next]_vars => IdsCounted'
<1> SUFFICES ASSUME IInv, IdsCounted, [Next]_vars PROVE IdsCounted'
  OBVIOUS
<1>0. IInv'
  BY NextInv
<1>1. ASSUME NEW c \in Conns, NEW p \in Ports, Accept(c, p)
      PROVE  IdsCounted'
  <2>1. PICK id \in Ids :
        nextId' = NextIdAfter(id) /\ retired' = {r \in retired : stream[r].id # id}
        /\ stream' = [stream EXCEPT ![c] = [@ EXCEPT !.id = id, !.port = p]]
    BY <1>1 DEF Accept
  <2>2. /\ c \notin Accepted /\ Given < IdSpace /\ Given \in Nat /\ stream'[c].id = Given
    BY <1>1, AcceptCounted
  <2>3. /\ \A d \in Conns \ {c} : stream'[d].id = stream[d].id
        /\ Accepted' = Accepted \cup {c} /\ Known' = Known \cup {c}
        /\ streams' = streams \cup {c} /\ got' = got /\ ~Closed
    <3>1. \A d \in Conns \ {c} : stream'[d].id = stream[d].id
      BY <2>1 DEF IInv, TypeOK, StreamStates
    <3>2. /\ task' = [task EXCEPT ![c] = "announce"] /\ client' = [client EXCEPT ![c] = "open"]
          /\ task \in [Conns -> TaskStates]
          /\ client \in [Conns -> {"none", "open", "eof", "stalled", "reset"}]
      BY <1>1 DEF Accept, IInv, TypeOK
    <3>3. Accepted' = Accepted \cup {c} /\ Known' = Known \cup {c}
      BY <3>2 DEF Accepted, Known
    <3> QED
      BY <1>1, <3>1, <3>3 DEF Accept
  <2>4. IsFiniteSet(Accepted') /\ Given' = Given + 1
    BY <2>2, <2>3, FS_AddElement DEF IdsCounted, Given
  <2>5. nextId' = Given' % IdSpace
    <3>1. stream'[c].id = id
      BY <2>1 DEF IInv, TypeOK, StreamStates
    <3> QED
      BY <2>1, <2>2, <2>4, <3>1 DEF NextIdAfter
  <2>6. \A d \in Accepted : stream[d].id < Given /\ stream[d].id \in Nat /\ d \in Conns /\ d # c
    BY <2>2 DEF IdsCounted, Accepted, IInv, TypeOK, StreamStates, Ids
  <2>7. \A d \in Accepted' : stream'[d].id < Given'
    <3>1. stream'[c].id < Given'
      BY <2>2, <2>4
    <3>2. ASSUME NEW d \in Accepted
          PROVE  stream'[d].id < Given'
      <4>1. stream'[d].id = stream[d].id /\ stream[d].id < Given /\ stream[d].id \in Nat
        BY <2>3, <2>6
      <4> QED
        BY <2>2, <2>4, <4>1
    <3> QED
      BY <2>3, <3>1, <3>2
  <2>8. \A d, e \in Accepted' : stream'[d].id = stream'[e].id => d = e
    BY <2>2, <2>3, <2>6 DEF IdsCounted
  <2>9. /\ streams' \subseteq Accepted' /\ (~Closed' => Known' \subseteq Accepted')
        /\ \A d \in Conns : \A i \in DOMAIN got'[d] :
              d \in Accepted' /\ got'[d][i].conn \in Accepted'
    BY <2>3 DEF IdsCounted
  <2> QED
    BY <2>4, <2>5, <2>7, <2>8, <2>9 DEF IdsCounted
<1>2. CASE /\ Accepted' = Accepted /\ nextId' = nextId /\ streams' \subseteq streams
           /\ \A c \in Conns : stream'[c].id = stream[c].id
           /\ ~Closed' => ~Closed /\ Known' \subseteq Known
  <2>1. Given' = Given /\ Accepted \subseteq Conns
    BY <1>2 DEF Given, Accepted
  <2>2. \A c \in Conns : \A i \in DOMAIN got'[c] :
           c \in Accepted /\ got'[c][i].conn \in Accepted
    <3>1. ASSUME NEW d \in streams, RxData(d), NEW c \in Conns, NEW i \in DOMAIN got'[c]
          PROVE  c \in Accepted /\ got'[c][i].conn \in Accepted
      <4> DEFINE e == [conn |-> Received.conn, op |-> Received.op]
      <4>1. ~Closed
        BY <3>1 DEF IInv, AfterClose, RxData, Routed, Receiving, Ended
      <4>2. Received.conn \in Accepted /\ d \in Accepted /\ e.conn = Received.conn
        BY <3>1, <4>1, RxDataEffect DEF IdsCounted
      <4>3. got'[c] = got[c] \/ (c = d /\ got'[c] = Append(got[c], e))
        BY <3>1, RxDataEffect
      <4>4. got[c] \in Seq(Delivered)
        BY DEF IInv, TypeOK
      <4> HIDE DEF e
      <4>5. (i \in DOMAIN got[c] /\ got'[c][i] = got[c][i]) \/ (c = d /\ got'[c][i] = e)
        BY <3>1, <4>3, <4>4
      <4> QED
        BY <4>2, <4>5 DEF IdsCounted
    <3>2. CASE got' = got
      BY <3>2 DEF IdsCounted
    <3> QED
      BY <3>1, <3>2, GotFixed
  <2> QED
    BY <1>2, <2>1, <2>2 DEF IdsCounted
<1> QED
  BY <1>1, <1>2, AcceptedFixed

\* No connection is accepted initially.
LEMMA InitCounted == Init => IdsCounted
<1> SUFFICES ASSUME Init PROVE IdsCounted
  OBVIOUS
<1>1. Accepted = {} /\ Known = {} /\ streams = {} /\ nextId = 0
  BY DEF Init, Accepted, Known
<1>2. IsFiniteSet(Accepted) /\ Given = 0
  BY <1>1, FS_EmptySet DEF Given
<1>3. 0 % IdSpace = 0
  BY ConstantsAssumption
<1>4. \A c \in Conns : got[c] = <<>>
  BY DEF Init
<1> QED
  BY <1>1, <1>2, <1>3, <1>4 DEF IdsCounted

\* As long as the mapping accepted no more clients than there are request ids
\* (2^31 in the code), a client receives exactly what the camera sent on its
\* own stream, in order and without gaps, even from a camera that sends strays.
THEOREM LocalIntegrityTheorem ==
    ASSUME IsFiniteSet(Conns), Cardinality(Conns) <= IdSpace
    PROVE  Spec => []LocalIntegrity
<1>1. Init => IdsCounted
  BY InitCounted
<1>2. IInv /\ IdsCounted => LocalIntegrity
  <2> SUFFICES ASSUME IInv, IdsCounted, NEW c \in Conns
               PROVE  got[c] = [i \in 1 .. Len(got[c]) |-> [conn |-> c, op |-> i - 1]]
    BY DEF LocalIntegrity
  <2>1. got[c] \in Seq(Delivered)
    BY DEF IInv, TypeOK
  <2>2. ASSUME NEW i \in 1 .. Len(got[c])
        PROVE  got[c][i] = [conn |-> c, op |-> i - 1]
    <3>1. got[c][i].op = i - 1 /\ stream[got[c][i].conn].id = stream[c].id
      BY DEF IInv, StraysNeverReorder
    <3>2. i \in DOMAIN got[c] /\ got[c][i] \in Delivered
      BY <2>1
    <3>3. got[c][i].conn = c
      BY <3>1, <3>2 DEF IdsCounted
    <3> QED
      BY <3>1, <3>2, <3>3 DEF Delivered
  <2> QED
    BY <2>1, <2>2
<1>3. IInv /\ IdsCounted /\ [Next]_vars => IdsCounted'
  BY IdsCountedStep
<1> QED
  BY <1>1, <1>2, <1>3, Invariance, PTL DEF Spec
-----------------------------------------------------------------------------
(* What the camera will receive *)

\* What a queue q to a camera whose books are m holds of connection c before
\* position i: data, the announcement unless it was received, a request to end.
Data(p, c) == p.conn = c /\ p.cmd = "DATA" /\ p.op >= 0
DataBefore(q, c, i) == {j \in 1 .. i - 1 : Data(q[j], c)}
Told(q, m, c, i) ==
    m[c].state # "none" \/ \E j \in 1 .. i - 1 : q[j].conn = c /\ q[j].cmd = "ACCESS"
Asked(q, c, i) == \E j \in 1 .. i - 1 : q[j].conn = c /\ q[j].op = DISCONNECT_REQUEST

\* The packet at position i comes in its order.
OrderedAt(q, m, i) ==
    /\ q[i].cmd = "ACCESS" => q[i].op = 0
    /\ q[i].cmd # "ACCESS" => Told(q, m, q[i].conn, i)
    /\ Data(q[i], q[i].conn) =>
          /\ q[i].op = m[q[i].conn].recvSeq + Cardinality(DataBefore(q, q[i].conn, i))
          /\ ~m[q[i].conn].answered /\ ~Asked(q, q[i].conn, i)
Ordered(q, m) == \A i \in 1 .. Len(q) : OrderedAt(q, m, i)

\* UpOrdered, with the auxiliary definitions above.
LEMMA UpOrderedIs == TypeOK /\ Ordered(up, cam) => UpOrdered
<1> SUFFICES ASSUME TypeOK, Ordered(up, cam) PROVE UpOrdered
  OBVIOUS
<1>1. \A i \in 1 .. Len(up) : \A j \in 1 .. i - 1 : up[i] \in Packets /\ up[j] \in Packets
  BY DEF TypeOK
<1>2. ASSUME NEW i \in 1 .. Len(up), NEW c
      PROVE  /\ DataBefore(up, c, i) = {j \in 1 .. i - 1 : up[j].conn = c /\ (up[j].cmd = "DATA" /\ up[j].op >= 0)}
             /\ ~Asked(up, c, i) <=> {j \in 1 .. i - 1 : up[j].conn = c /\ up[j].op = DISCONNECT_REQUEST} = {}
             /\ Told(up, cam, c, i) <=> \/ cam[c].state # "none"
                                        \/ {j \in 1 .. i - 1 : up[j].conn = c /\ up[j].cmd = "ACCESS"} # {}
  BY DEF DataBefore, Asked, Told, Data
<1> SUFFICES ASSUME NEW i \in 1 .. Len(up)
             PROVE  LET c == up[i].conn
                        earlier(P(_)) == {j \in 1 .. i - 1 : up[j].conn = c /\ P(up[j])}
                        access(p) == p.cmd = "ACCESS"
                        data(p) == p.cmd = "DATA" /\ p.op >= 0
                        request(p) == p.op = DISCONNECT_REQUEST
                    IN  /\ ~access(up[i]) => cam[c].state # "none" \/ earlier(access) # {}
                        /\ data(up[i]) =>
                             /\ up[i].op = cam[c].recvSeq + Cardinality(earlier(data))
                             /\ ~cam[c].answered
                             /\ earlier(request) = {}
  BY DEF UpOrdered
<1>3. OrderedAt(up, cam, i)
  BY DEF Ordered
<1>4. up[i].cmd # "ACCESS" => \/ cam[up[i].conn].state # "none"
                              \/ {j \in 1 .. i - 1 : up[j].conn = up[i].conn /\ up[j].cmd = "ACCESS"} # {}
  BY <1>2, <1>3 DEF OrderedAt
<1>5. ASSUME up[i].cmd = "DATA" /\ up[i].op >= 0
      PROVE  /\ up[i].op = cam[up[i].conn].recvSeq
                   + Cardinality({j \in 1 .. i - 1 : up[j].conn = up[i].conn /\ (up[j].cmd = "DATA" /\ up[j].op >= 0)})
             /\ ~cam[up[i].conn].answered
             /\ {j \in 1 .. i - 1 : up[j].conn = up[i].conn /\ up[j].op = DISCONNECT_REQUEST} = {}
  BY <1>2, <1>3, <1>5 DEF OrderedAt, Data
<1> QED
  BY <1>4, <1>5

\* The data of a connection are counted.
LEMMA DataCounted ==
    ASSUME NEW q, NEW c, NEW i \in Nat
    PROVE  IsFiniteSet(DataBefore(q, c, i)) /\ Cardinality(DataBefore(q, c, i)) \in Nat
<1>1. DataBefore(q, c, i) \in SUBSET (1 .. i - 1) /\ IsFiniteSet(1 .. i - 1)
  BY FS_Interval DEF DataBefore
<1> QED
  BY <1>1, FS_Subset, FS_CardinalityType

\* What a packet that is put changes: nothing before it.
LEMMA PutBefore ==
    ASSUME NEW q \in Seq(Packets), NEW p \in Packets, NEW m, NEW c, NEW i \in 1 .. Len(q) + 1
    PROVE  /\ DataBefore(Append(q, p), c, i) = DataBefore(q, c, i)
           /\ Told(Append(q, p), m, c, i) <=> Told(q, m, c, i)
           /\ Asked(Append(q, p), c, i) <=> Asked(q, c, i)
<1>1. \A j \in 1 .. i - 1 : Append(q, p)[j] = q[j]
  OBVIOUS
<1> QED
  BY <1>1 DEF DataBefore, Told, Asked

\* What all of the queue holds once a packet was put.
LEMMA PutAfter ==
    ASSUME NEW q \in Seq(Packets), NEW p \in Packets, NEW m, NEW c
    PROVE  LET Q == Append(q, p)
           IN  /\ Len(Q) = Len(q) + 1
               /\ Cardinality(DataBefore(Q, c, Len(Q) + 1))
                    = Cardinality(DataBefore(q, c, Len(q) + 1)) + IF Data(p, c) THEN 1 ELSE 0
               /\ Told(Q, m, c, Len(Q) + 1)
                    <=> Told(q, m, c, Len(q) + 1) \/ (p.conn = c /\ p.cmd = "ACCESS")
               /\ Asked(Q, c, Len(Q) + 1)
                    <=> Asked(q, c, Len(q) + 1) \/ (p.conn = c /\ p.op = DISCONNECT_REQUEST)
<1> DEFINE Q == Append(q, p)  n == Len(q) + 1
           S == DataBefore(q, c, n)
<1>1. /\ Len(Q) = n /\ n \in Nat /\ Q[n] = p /\ \A j \in 1 .. n - 1 : Q[j] = q[j]
      /\ 1 .. (n + 1) - 1 = (1 .. n - 1) \cup {n} /\ n \notin 1 .. n - 1
  OBVIOUS
<1> HIDE DEF Q, n
<1>2. /\ Told(Q, m, c, n + 1) <=> Told(q, m, c, n) \/ (p.conn = c /\ p.cmd = "ACCESS")
      /\ Asked(Q, c, n + 1) <=> Asked(q, c, n) \/ (p.conn = c /\ p.op = DISCONNECT_REQUEST)
  BY <1>1 DEF Told, Asked
<1>3. DataBefore(Q, c, n + 1) = IF Data(p, c) THEN S \cup {n} ELSE S
  BY <1>1 DEF DataBefore
<1>4. IsFiniteSet(S) /\ Cardinality(S) \in Nat /\ n \notin S
  BY <1>1, DataCounted DEF DataBefore
<1> HIDE DEF S
<1>5. Cardinality(DataBefore(Q, c, n + 1)) = Cardinality(S) + IF Data(p, c) THEN 1 ELSE 0
  <2>1. Cardinality(S \cup {n}) = Cardinality(S) + 1
    BY <1>4, FS_AddElement
  <2> QED
    BY <1>3, <1>4, <2>1
<1> QED
  BY <1>1, <1>2, <1>5 DEF Q, n, S

\* What the queue holds before a position once its first packet was taken.
LEMMA TakenBefore ==
    ASSUME NEW q \in Seq(Packets), q # <<>>, NEW m, NEW c, NEW i \in 1 .. Len(q)
    PROVE  LET p == Head(q)
           IN  /\ Cardinality(DataBefore(q, c, i + 1))
                    = Cardinality(DataBefore(Tail(q), c, i)) + IF Data(p, c) THEN 1 ELSE 0
               /\ Told(q, m, c, i + 1)
                    <=> Told(Tail(q), m, c, i) \/ (p.conn = c /\ p.cmd = "ACCESS")
               /\ Asked(q, c, i + 1)
                    <=> Asked(Tail(q), c, i) \/ (p.conn = c /\ p.op = DISCONNECT_REQUEST)
<1> DEFINE p == Head(q)
           T == Tail(q)
           B == DataBefore(q, c, i + 1)
           A == DataBefore(T, c, i)
           f == [j \in A |-> j + 1]
<1>1. /\ p = q[1] /\ i \in Nat
      /\ \A j \in 1 .. i - 1 : T[j] = q[j + 1] /\ j + 1 \in 1 .. (i + 1) - 1
      /\ \A k \in 1 .. (i + 1) - 1 : k = 1 \/ (k - 1 \in 1 .. i - 1 /\ q[k] = T[k - 1] /\ k = (k - 1) + 1)
      /\ 1 \in 1 .. (i + 1) - 1
  OBVIOUS
<1> HIDE DEF p, T
<1>2. Told(q, m, c, i + 1) <=> Told(T, m, c, i) \/ (p.conn = c /\ p.cmd = "ACCESS")
  BY <1>1 DEF Told
<1>3. Asked(q, c, i + 1) <=> Asked(T, c, i) \/ (p.conn = c /\ p.op = DISCONNECT_REQUEST)
  BY <1>1 DEF Asked
<1>4. /\ A \subseteq 1 .. i - 1 /\ (1 \in B <=> Data(p, c))
      /\ \A j \in A : j + 1 \in B \ {1}
      /\ \A k \in B \ {1} : k - 1 \in A /\ k = (k - 1) + 1
  BY <1>1 DEF DataBefore
<1>5. IsFiniteSet(A) /\ IsFiniteSet(B) /\ Cardinality(A) \in Nat /\ Cardinality(B) \in Nat
  BY <1>1, DataCounted
<1> HIDE DEF A, B
<1>6. f \in Bijection(A, B \ {1})
  <2>1. f \in [A -> B \ {1}]
    BY <1>4
  <2>2. \A x, y \in A : f[x] = f[y] => x = y
    BY <1>4
  <2>3. \A k \in B \ {1} : \E j \in A : f[j] = k
    BY <1>4
  <2> QED
    BY <2>1, <2>2, <2>3, Fun_IsBij
<1>7. Cardinality(B \ {1}) = Cardinality(A)
  BY <1>5, <1>6, FS_Bijection DEF ExistsBijection
<1>8. Cardinality(B) = Cardinality(A) + IF Data(p, c) THEN 1 ELSE 0
  <2>1. 1 \in B => Cardinality(B \ {1}) = Cardinality(B) - 1
    BY <1>5, FS_RemoveElement
  <2>2. 1 \notin B => Cardinality(B \ {1}) = Cardinality(B)
    <3>1. 1 \notin B => B \ {1} = B
      OBVIOUS
    <3> QED
      BY <3>1, Zenon
  <2>3. CASE Data(p, c)
    <3>1. Cardinality(B) = Cardinality(A) + 1
      BY <1>4, <1>5, <1>7, <2>1, <2>3
    <3> QED
      BY <2>3, <3>1
  <2>4. CASE ~Data(p, c)
    <3>1. Cardinality(B) = Cardinality(A) + 0
      BY <1>4, <1>5, <1>7, <2>2, <2>4
    <3> QED
      BY <2>4, <3>1
  <2> QED
    BY <2>3, <2>4
<1> QED
  BY <1>2, <1>3, <1>8 DEF p, T, A, B

\* A packet that comes in its order is put after packets in order.
LEMMA PutOrdered ==
    ASSUME NEW q \in Seq(Packets), NEW p \in Packets, NEW m, Ordered(q, m),
           p.cmd = "ACCESS" => p.op = 0,
           p.cmd # "ACCESS" => Told(q, m, p.conn, Len(q) + 1),
           Data(p, p.conn) =>
              /\ p.op = m[p.conn].recvSeq + Cardinality(DataBefore(q, p.conn, Len(q) + 1))
              /\ ~m[p.conn].answered /\ ~Asked(q, p.conn, Len(q) + 1)
    PROVE  Ordered(Append(q, p), m)
<1> DEFINE Q == Append(q, p)
<1>1. /\ 1 .. Len(Q) = (1 .. Len(q)) \cup {Len(q) + 1} /\ Q[Len(q) + 1] = p
      /\ \A i \in 1 .. Len(q) : Q[i] = q[i] /\ i \in 1 .. Len(q) + 1
      /\ Len(q) + 1 \in 1 .. Len(q) + 1
  OBVIOUS
<1>2. \A c : \A i \in 1 .. Len(q) + 1 :
         /\ DataBefore(Q, c, i) = DataBefore(q, c, i)
         /\ Told(Q, m, c, i) <=> Told(q, m, c, i)
         /\ Asked(Q, c, i) <=> Asked(q, c, i)
  BY PutBefore
<1> HIDE DEF Q
<1>3. ASSUME NEW i \in 1 .. Len(q)
      PROVE  OrderedAt(Q, m, i)
  BY <1>1, <1>2 DEF Ordered, OrderedAt
<1>4. OrderedAt(Q, m, Len(q) + 1)
  BY <1>1, <1>2 DEF OrderedAt
<1> QED
  BY <1>1, <1>3, <1>4 DEF Ordered, Q

\* What the camera's books become when it takes packet p, of connections C.
Books(m, p, m2, C) ==
    \A c \in C :
        /\ m2[c].recvSeq = m[c].recvSeq + IF Data(p, c) THEN 1 ELSE 0
        /\ m2[c].state # "none" <=>
              m[c].state # "none" \/ (p.conn = c /\ p.cmd = "ACCESS")
        /\ m2[c].answered <=>
              m[c].answered \/ (p.conn = c /\ p.op = DISCONNECT_REQUEST)

\* What was sent of a connection does not depend on how much of it was received.
LEMMA TakenSame ==
    ASSUME NEW q \in Seq(Packets), q # <<>>, NEW m, NEW m2, NEW c \in Conns,
           m[c].recvSeq \in Nat, Books(m, Head(q), m2, Conns), NEW i \in 1 .. Len(q)
    PROVE  /\ m[c].recvSeq + Cardinality(DataBefore(q, c, i + 1))
                = m2[c].recvSeq + Cardinality(DataBefore(Tail(q), c, i))
           /\ Told(q, m, c, i + 1) <=> Told(Tail(q), m2, c, i)
           /\ m[c].answered \/ Asked(q, c, i + 1)
                <=> m2[c].answered \/ Asked(Tail(q), c, i)
<1> DEFINE p == Head(q)
<1>1. /\ Cardinality(DataBefore(q, c, i + 1))
           = Cardinality(DataBefore(Tail(q), c, i)) + IF Data(p, c) THEN 1 ELSE 0
      /\ Told(q, m, c, i + 1) <=> Told(Tail(q), m, c, i) \/ (p.conn = c /\ p.cmd = "ACCESS")
      /\ Asked(q, c, i + 1)
           <=> Asked(Tail(q), c, i) \/ (p.conn = c /\ p.op = DISCONNECT_REQUEST)
  BY TakenBefore
<1>2. Cardinality(DataBefore(Tail(q), c, i)) \in Nat
  BY DataCounted
<1>3. /\ m2[c].recvSeq = m[c].recvSeq + IF Data(p, c) THEN 1 ELSE 0
      /\ m2[c].state # "none" <=> m[c].state # "none" \/ (p.conn = c /\ p.cmd = "ACCESS")
      /\ m2[c].answered <=> m[c].answered \/ (p.conn = c /\ p.op = DISCONNECT_REQUEST)
  BY DEF Books
<1> HIDE DEF p
<1>4. m[c].recvSeq + Cardinality(DataBefore(q, c, i + 1))
        = m2[c].recvSeq + Cardinality(DataBefore(Tail(q), c, i))
  <2>1. CASE Data(p, c)
    <3>1. /\ Cardinality(DataBefore(q, c, i + 1)) = Cardinality(DataBefore(Tail(q), c, i)) + 1
          /\ m2[c].recvSeq = m[c].recvSeq + 1
      BY <1>1, <1>3, <2>1
    <3> QED
      BY <1>2, <3>1
  <2>2. CASE ~Data(p, c)
    <3>1. /\ Cardinality(DataBefore(q, c, i + 1)) = Cardinality(DataBefore(Tail(q), c, i)) + 0
          /\ m2[c].recvSeq = m[c].recvSeq + 0
      BY <1>1, <1>3, <2>2
    <3> QED
      BY <1>2, <3>1
  <2> QED
    BY <2>1, <2>2
<1>5. Told(q, m, c, i + 1) <=> Told(Tail(q), m2, c, i)
  BY <1>1, <1>3 DEF Told
<1>6. m[c].answered \/ Asked(q, c, i + 1) <=> m2[c].answered \/ Asked(Tail(q), c, i)
  BY <1>1, <1>3
<1> QED
  BY <1>4, <1>5, <1>6

\* Packets in order stay so when the first is taken.
LEMMA TakeOrdered ==
    ASSUME NEW q \in Seq(Packets), q # <<>>, NEW m, NEW m2, Ordered(q, m),
           \A i \in DOMAIN q : q[i].conn \in Conns,
           \A c \in Conns : m[c].recvSeq \in Nat,
           Books(m, Head(q), m2, Conns)
    PROVE  Ordered(Tail(q), m2)
<1> SUFFICES ASSUME NEW i \in 1 .. Len(Tail(q)) PROVE OrderedAt(Tail(q), m2, i)
  BY DEF Ordered
<1>1. /\ i \in 1 .. Len(q) /\ i + 1 \in 1 .. Len(q) /\ i + 1 \in DOMAIN q
      /\ Tail(q)[i] = q[i + 1]
  OBVIOUS
<1> DEFINE c == q[i + 1].conn
<1>2. OrderedAt(q, m, i + 1) /\ c \in Conns /\ m[c].recvSeq \in Nat
  BY <1>1 DEF Ordered
<1>3. /\ m[c].recvSeq + Cardinality(DataBefore(q, c, i + 1))
           = m2[c].recvSeq + Cardinality(DataBefore(Tail(q), c, i))
      /\ Told(q, m, c, i + 1) <=> Told(Tail(q), m2, c, i)
      /\ m[c].answered \/ Asked(q, c, i + 1)
           <=> m2[c].answered \/ Asked(Tail(q), c, i)
  BY <1>1, <1>2, TakenSame
<1> QED
  BY <1>1, <1>2, <1>3 DEF OrderedAt

\* Only what the camera receives is entered in its books.
LEMMA BooksFixed ==
    ASSUME IInv, [Next]_vars
    PROVE  \/ CamReceive
           \/ \A c \in Conns : /\ cam'[c].state = cam[c].state
                               /\ cam'[c].recvSeq = cam[c].recvSeq
                               /\ cam'[c].answered = cam[c].answered
<1> DEFINE Kept == \A c \in Conns : /\ cam'[c].state = cam[c].state
                                    /\ cam'[c].recvSeq = cam[c].recvSeq
                                    /\ cam'[c].answered = cam[c].answered
<1>1. ASSUME NEW d \in Conns, CamData(d) \/ CamRequest(d) \/ CamStray(d)
      PROVE  Kept
  <2>1. \/ cam' = [cam EXCEPT ![d].sendSeq = cam[d].sendSeq + 1]
        \/ cam' = [cam EXCEPT ![d].requested = TRUE]
    BY <1>1 DEF CamData, CamRequest, CamStray
  <2>2. cam \in [Conns -> CameraStates]
    BY DEF IInv, TypeOK
  <2> QED
    BY <2>1, <2>2 DEF CameraStates
<1>2. CASE UNCHANGED cam
  BY <1>2
<1> QED
  BY <1>1, <1>2 DEF Next, vars, mapping, sockets, camera, Client, Forward, Receive, Dispatch,
     Camera, Accept, Reject, ClientEof, ClientReset, ClientStall, SocketLost, ForwardAnnounce, ForwardRead,
     ForwardSend, ForwardEnd, ForwardRequest, ForwardDone, RxKeepalive, RxUnknown, RxMismatch,
     RxBadSequence, RxData, RxControl, RxDrained, RxAnswer, RxStop, RxStopped, TunnelLost,
     KeepaliveRound, CloseBegin, CloseEnd, CamKeepalive, CamDie

\* The first packet for the camera.
LEMMA HeadOfUp ==
    ASSUME IInv, Ordered(up, cam), CamReceive
    PROVE  /\ up \in Seq(Packets) /\ up # <<>> /\ up' = Tail(up)
           /\ Head(up) \in Packets /\ Head(up).conn \in Conns
           /\ Head(up).cmd = "ACCESS" => Head(up).op = 0
           /\ Head(up).cmd # "ACCESS" => cam[Head(up).conn].state # "none"
<1>1. up \in Seq(Packets) /\ up # <<>> /\ up' = Tail(up)
  BY DEF IInv, TypeOK, CamReceive
<1>2. Head(up) = up[1] /\ 1 \in DOMAIN up /\ 1 \in 1 .. Len(up) /\ Head(up) \in Packets
  BY <1>1
<1>3. OrderedAt(up, cam, 1) /\ Head(up).conn \in Conns
  BY <1>2 DEF Ordered, IInv, FramesKnown, Known
<1> QED
  BY <1>1, <1>2, <1>3 DEF OrderedAt, Told

\* What the camera enters in its books.
LEMMA CamReceiveBooks ==
    ASSUME IInv, Ordered(up, cam), CamReceive
    PROVE  Books(cam, Head(up), cam', Conns)
<1> DEFINE p == Head(up)
<1>1. p \in Packets /\ p.conn \in Conns /\ (p.cmd = "ACCESS" => p.op = 0)
  BY HeadOfUp
<1>2. \/ p.cmd = "ACCESS" /\ cam' = [cam EXCEPT ![p.conn].state = "open"]
      \/ p.cmd = "DATA" /\ p.op >= 0
         /\ cam' = [cam EXCEPT ![p.conn].recvSeq = cam[p.conn].recvSeq + 1]
      \/ p.cmd = "DATA" /\ p.op = DISCONNECT_REQUEST
         /\ cam' = [cam EXCEPT ![p.conn].answered = TRUE]
      \/ p.cmd = "DATA" /\ p.op \in {DISCONNECT_RESPONSE, DISCONNECT_CONFIRM}
         /\ cam' = [cam EXCEPT ![p.conn].state = "gone"] /\ cam[p.conn].state # "none"
  BY HeadOfUp DEF CamReceive
<1> HIDE DEF p
<1>3. cam \in [Conns -> CameraStates]
  BY DEF IInv, TypeOK
<1> SUFFICES ASSUME NEW c \in Conns
             PROVE  /\ cam'[c].recvSeq = cam[c].recvSeq + IF Data(p, c) THEN 1 ELSE 0
                    /\ cam'[c].state # "none" <=>
                          cam[c].state # "none" \/ (p.conn = c /\ p.cmd = "ACCESS")
                    /\ cam'[c].answered <=>
                          cam[c].answered \/ (p.conn = c /\ p.op = DISCONNECT_REQUEST)
  BY DEF Books, p
<1>4. cam[c].recvSeq \in Nat /\ cam[c].answered \in BOOLEAN /\ cam[c].recvSeq + 0 = cam[c].recvSeq
  BY <1>3 DEF CameraStates
<1>5. CASE p.conn # c
  <2>1. cam'[c] = cam[c] /\ ~Data(p, c)
    BY <1>2, <1>3, <1>5 DEF Data
  <2> QED
    BY <1>4, <1>5, <2>1
<1>6. CASE p.conn = c /\ p.cmd = "ACCESS"
  <2>1. /\ cam'[c].state = "open" /\ cam'[c].recvSeq = cam[c].recvSeq
        /\ cam'[c].answered = cam[c].answered
    BY <1>2, <1>3, <1>6 DEF CameraStates
  <2>2. ~Data(p, c) /\ p.op # DISCONNECT_REQUEST
    BY <1>1, <1>6 DEF Data, DISCONNECT_REQUEST
  <2> QED
    BY <1>4, <1>6, <2>1, <2>2
<1>7. CASE p.conn = c /\ p.cmd = "DATA" /\ p.op >= 0
  <2>1. /\ cam'[c].state = cam[c].state /\ cam'[c].recvSeq = cam[c].recvSeq + 1
        /\ cam'[c].answered = cam[c].answered
    BY <1>2, <1>3, <1>7 DEF CameraStates, DISCONNECT_REQUEST, DISCONNECT_RESPONSE, DISCONNECT_CONFIRM
  <2>2. Data(p, c) /\ p.op # DISCONNECT_REQUEST
    BY <1>7 DEF Data, DISCONNECT_REQUEST
  <2> QED
    BY <1>7, <2>1, <2>2
<1>8. CASE p.conn = c /\ p.cmd = "DATA" /\ p.op = DISCONNECT_REQUEST
  <2>1. /\ cam'[c].state = cam[c].state /\ cam'[c].recvSeq = cam[c].recvSeq
        /\ cam'[c].answered = TRUE
    BY <1>2, <1>3, <1>8 DEF CameraStates, DISCONNECT_REQUEST, DISCONNECT_RESPONSE, DISCONNECT_CONFIRM
  <2>2. ~Data(p, c)
    BY <1>8 DEF Data, DISCONNECT_REQUEST
  <2> QED
    BY <1>4, <1>8, <2>1, <2>2
<1>9. CASE p.conn = c /\ p.cmd = "DATA" /\ p.op \in {DISCONNECT_RESPONSE, DISCONNECT_CONFIRM}
  <2>1. /\ cam'[c].state = "gone" /\ cam'[c].recvSeq = cam[c].recvSeq
        /\ cam'[c].answered = cam[c].answered /\ cam[c].state # "none"
    BY <1>2, <1>3, <1>9 DEF CameraStates, DISCONNECT_REQUEST, DISCONNECT_RESPONSE, DISCONNECT_CONFIRM
  <2>2. ~Data(p, c) /\ p.op # DISCONNECT_REQUEST
    BY <1>9 DEF Data, DISCONNECT_REQUEST, DISCONNECT_RESPONSE, DISCONNECT_CONFIRM
  <2> QED
    BY <1>4, <1>9, <2>1, <2>2
<1> QED
  BY <1>2, <1>5, <1>6, <1>7, <1>8, <1>9

\* The connections the camera was told of; it sends frames of these only, and
\* the receive loop works on these only.
Greeted == {c \in Conns : cam[c].state # "none"}
Announced ==
    /\ \A i \in DOMAIN down : down[i].cmd \in {"DATA"} => down[i].conn \in Greeted
    /\ rx.pc \notin {"loop", "ended"} => rx.conn \in Greeted

\* The camera never forgets that it was told of a connection.
LEMMA GreetedGrows ==
    ASSUME IInv, Ordered(up, cam), [Next]_vars
    PROVE  Greeted \subseteq Greeted'
BY BooksFixed, CamReceiveBooks DEF Greeted, Books

\* What the camera sends is of a connection it was told of.
LEMMA GreetedFrames ==
    ASSUME IInv, Announced, Ordered(up, cam), [Next]_vars
    PROVE  \/ down' = down \/ down' = <<>>
           \/ down # <<>> /\ down' = Tail(down)
           \/ \E p \in Packets : /\ p.cmd \in {"DATA"} => p.conn \in Greeted
                                 /\ down' = Append(down, p)
<1> DEFINE Sent == \E p \in Packets : /\ p.cmd \in {"DATA"} => p.conn \in Greeted
                                      /\ down' = Append(down, p)
<1>1. ASSUME NEW c \in Conns, CamData(c) \/ CamRequest(c) \/ CamStray(c)
      PROVE  Sent
  <2>1. c \in Greeted
    BY <1>1 DEF Greeted, CamData, CamRequest, CamStray
  <2>2. PICK op : down' = Append(down, Frame(c, op))
    BY <1>1 DEF CamData, CamRequest, CamStray
  <2> DEFINE f == Frame(c, op)
  <2>3. down \in Seq(Packets) /\ down' \in Seq(Packets)
    BY NextInv DEF IInv, TypeOK
  <2>4. down' = Append(down, f) /\ f.conn = c
    BY <2>2 DEF Frame
  <2> HIDE DEF f
  <2>5. f \in Packets
    <3>1. down'[Len(down) + 1] = f /\ Len(down') = Len(down) + 1
      BY <2>3, <2>4
    <3> QED
      BY <2>3, <3>1
  <2> QED
    BY <2>1, <2>4, <2>5
<1>2. CASE CamKeepalive
  <2>1. Keepalive \in Packets /\ Keepalive.cmd \notin {"DATA"}
    BY PacketsType DEF Keepalive
  <2>2. down' = Append(down, Keepalive)
    BY <1>2 DEF CamKeepalive
  <2> QED
    BY <2>1, <2>2
<1>3. CASE CamReceive
  <2> DEFINE f(op) == Frame(Head(up).conn, op)
  <2>1. \/ down' = down
        \/ Head(up).cmd = "DATA" /\ down' = Append(down, f(DISCONNECT_RESPONSE))
        \/ Head(up).cmd = "DATA" /\ down' = Append(down, f(DISCONNECT_CONFIRM))
    BY <1>3 DEF CamReceive
  <2>2. /\ f(DISCONNECT_RESPONSE) \in Packets /\ f(DISCONNECT_CONFIRM) \in Packets
        /\ f(DISCONNECT_RESPONSE).conn = Head(up).conn
        /\ f(DISCONNECT_CONFIRM).conn = Head(up).conn
    BY <1>3, HeadOfUp, PacketsType DEF Frame
  <2>3. Head(up).cmd = "DATA" => Head(up).conn \in Greeted
    BY <1>3, HeadOfUp DEF Greeted
  <2> HIDE DEF f
  <2> QED
    BY <2>1, <2>2, <2>3
<1>4. CASE down' = <<>> \/ down' = down
  BY <1>4
<1>5. CASE down # <<>> /\ down' = Tail(down)
  BY <1>5
<1> QED
  BY <1>1, <1>2, <1>3, <1>4, <1>5 DEF Next, vars, mapping, sockets, camera, Client, Forward,
     Receive, Dispatch, Camera, Accept, Reject, ClientEof, ClientReset, ClientStall, SocketLost, ForwardAnnounce,
     ForwardRead, ForwardSend, ForwardEnd, ForwardRequest, ForwardDone, RxKeepalive, RxUnknown,
     RxMismatch, RxBadSequence, RxData, RxControl, RxDrained, RxAnswer, RxStop, RxStopped, TunnelLost,
     KeepaliveRound, CloseBegin, CloseEnd, CamDie, Receiving, Routed

\* While the ids last a frame is routed to the stream it was sent on.
LEMMA RoutedToOwn ==
    ASSUME IInv, IdsCounted, NEW c \in streams, Routed(c)
    PROVE  Received.conn = c /\ down # <<>> /\ Received.cmd = "DATA"
<1>1. ~Closed /\ down # <<>> /\ Received.cmd = "DATA"
  BY DEF IInv, AfterClose, Routed, Receiving, Ended
<1>2. Received.conn \in Accepted /\ c \in Accepted
  BY <1>1, ReceivedKnown DEF IdsCounted
<1> QED
  BY <1>1, <1>2 DEF IdsCounted, Routed, SameId

\* Frames, and the receive loop, stay with connections the camera was told of.
LEMMA AnnouncedStep ==
    ASSUME IInv, IdsCounted, Announced, Ordered(up, cam), [Next]_vars
    PROVE  Announced'
<1>0. down \in Seq(Packets) /\ down' \in Seq(Packets) /\ Greeted \subseteq Greeted'
  BY GreetedGrows, NextInv DEF IInv, TypeOK
<1>1. \A i \in DOMAIN down' : down'[i].cmd \in {"DATA"} => down'[i].conn \in Greeted'
  <2>1. \A i \in DOMAIN down : down[i].cmd \in {"DATA"} => down[i].conn \in Greeted
    BY DEF Announced
  <2>2. \A C, K, L : /\ K \subseteq L
                     /\ \A i \in DOMAIN down : down[i].cmd \in C => down[i].conn \in K
                     /\ \/ down' = down \/ down' = <<>>
                        \/ down # <<>> /\ down' = Tail(down)
                        \/ \E p \in Packets : /\ p.cmd \in C => p.conn \in K
                                              /\ down' = Append(down, p)
                     => \A i \in DOMAIN down' : down'[i].cmd \in C => down'[i].conn \in L
    BY <1>0, QueueSteps
  <2> QED
    BY <1>0, <2>1, <2>2, GreetedFrames
<1>2. rx'.pc \notin {"loop", "ended"} => rx'.conn \in Greeted'
  <2>1. ASSUME NEW c \in streams, RxData(c) \/ RxControl(c)
        PROVE  rx'.pc \notin {"loop", "ended"} => rx'.conn \in Greeted'
    <3>1. Received.conn = c /\ down # <<>> /\ Received.cmd = "DATA"
      BY <2>1, RoutedToOwn DEF RxData, RxControl
    <3>2. 1 \in DOMAIN down /\ Received = down[1]
      BY <1>0, <3>1 DEF Received
    <3>3. c \in Greeted
      BY <3>1, <3>2 DEF Announced
    <3>4. rx' = Ended \/ rx'.conn = c
      BY <2>1 DEF RxData, RxControl
    <3> QED
      BY <1>0, <3>3, <3>4 DEF Ended
  <2>2. CASE (RxAnswer \/ RxStop) /\ rx' # Ended
    <3>1. rx' = [rx EXCEPT !.pc = "stop"] \/ rx' = [rx EXCEPT !.pc = "await"]
      BY <2>2 DEF RxAnswer, RxStop
    <3>2. rx'.conn = rx.conn /\ rx.pc \notin {"loop", "ended"}
      BY <2>2, <3>1 DEF IInv, TypeOK, RxStates, RxAnswer, RxStop
    <3> QED
      BY <1>0, <3>2 DEF Announced
  <2>3. CASE rx' = Idle \/ rx' = Ended
    BY <2>3 DEF Idle, Ended
  <2>4. CASE UNCHANGED rx
    BY <1>0, <2>4 DEF Announced
  <2> QED
    BY <2>1, <2>2, <2>3, <2>4 DEF Next, vars, mapping, sockets, camera, Client, Forward, Receive,
       Dispatch, Camera, Accept, Reject, ClientEof, ClientReset, ClientStall, SocketLost, ForwardAnnounce,
       ForwardRead, ForwardSend, ForwardEnd, ForwardRequest, ForwardDone, RxKeepalive, RxUnknown,
       RxMismatch, RxBadSequence, RxDrained, RxStopped, TunnelLost, KeepaliveRound, CloseBegin,
       CloseEnd, CamReceive, CamData, CamRequest, CamStray, CamKeepalive, CamDie
<1> QED
  BY <1>1, <1>2 DEF Announced

\* A forward task in state t that counted s chunks has announced c to a queue q
\* with books m, asked for no end of it yet, and put what it counted.
SendOk(t, s, q, m, c) ==
    LET sent == m[c].recvSeq + Cardinality(DataBefore(q, c, Len(q) + 1))
    IN  /\ t \in {"read", "send", "request"} => Told(q, m, c, Len(q) + 1)
        /\ t \notin {"close", "done"} => ~(m[c].answered \/ Asked(q, c, Len(q) + 1))
        /\ t \in {"none", "announce", "read"} => s = sent
        /\ t = "send" => s = sent + 1
SendInv ==
    closing # "closed" =>
        \A c \in Conns : SendOk(task[c], stream[c].sendSeq, up, cam, c)

\* What a forward task does while it puts no packet.
Moves(c) ==
    \/ task'[c] = task[c] /\ stream'[c].sendSeq = stream[c].sendSeq
    \/ task'[c] \in {"close", "done"}
    \/ /\ task[c] = "none" /\ task'[c] = "announce"
       /\ stream'[c].sendSeq = stream[c].sendSeq
    \/ /\ task[c] = "read" /\ task'[c] = "send"
       /\ stream'[c].sendSeq = stream[c].sendSeq + 1
    \/ /\ task[c] \in {"announce", "read", "send"} /\ task'[c] = "request"
       /\ task[c] = "announce" => cam[c].state # "none"

\* Which step puts or takes packets, and what the others do to the tasks.
LEMMA SendMoves ==
    ASSUME IInv, Announced, [Next]_vars
    PROVE  \/ \E c \in Conns : ForwardAnnounce(c) \/ ForwardSend(c) \/ ForwardRequest(c)
           \/ RxAnswer \/ CamReceive \/ CloseEnd
           \/ up' = up /\ \A c \in Conns : Moves(c)
<1> DEFINE Quiet == \A c \in Conns : Moves(c)
<1>0. /\ stream \in [Conns -> StreamStates] /\ task \in [Conns -> TaskStates]
      /\ streams \subseteq Conns
  BY DEF IInv, TypeOK
<1>1. ASSUME NEW c \in Conns, NEW p \in Ports, Accept(c, p)
      PROVE  Quiet
  <2>1. /\ task' = [task EXCEPT ![c] = "announce"]
        /\ \A d \in Conns : stream'[d].sendSeq = stream[d].sendSeq
    BY <1>1, AcceptFields DEF Accept
  <2>2. task[c] = "none"
    BY <1>1 DEF IInv, Untouched, Known, Accept
  <2> QED
    BY <1>0, <2>1, <2>2 DEF Moves
<1>2. ASSUME NEW c \in Conns, ForwardRead(c)
      PROVE  Quiet
  <2>1. /\ stream' = [stream EXCEPT ![c].sendSeq = stream[c].sendSeq + 1]
        /\ task' = [task EXCEPT ![c] = "send"] /\ task[c] = "read"
    BY <1>2 DEF ForwardRead
  <2>2. stream'[c].sendSeq = stream[c].sendSeq + 1 /\ task'[c] = "send"
    BY <2>1, <1>0 DEF StreamStates
  <2>3. \A d \in Conns \ {c} : stream'[d] = stream[d] /\ task'[d] = task[d]
    BY <2>1, <1>0
  <2> QED
    BY <2>1, <2>2, <2>3 DEF Moves
<1>3. ASSUME NEW c \in Conns, ForwardEnd(c) \/ ForwardDone(c)
      PROVE  Quiet
  BY <1>0, <1>3 DEF ForwardEnd, ForwardDone, Finally, Moves
<1>4. ASSUME RxStop
      PROVE  Quiet
  <2>1. rx.conn \in Conns /\ cam[rx.conn].state # "none"
    BY <1>4 DEF RxStop, Announced, Greeted
  <2>2. /\ task' = [task EXCEPT ![rx.conn] = Cancelled(rx.conn)] /\ stream' = stream
        /\ Cancelled(rx.conn) = CASE task[rx.conn] \in {"announce", "read", "send"} -> Finally(rx.conn)
                                  [] task[rx.conn] \in {"request", "close"} -> "done"
                                  [] OTHER -> task[rx.conn]
    BY <1>4 DEF RxStop, Cancelled
  <2>3. Moves(rx.conn)
    BY <1>0, <2>1, <2>2 DEF Moves, Finally
  <2> QED
    BY <1>0, <2>2, <2>3 DEF Moves
<1>5. ASSUME CloseBegin
      PROVE  Quiet
  <2> SUFFICES ASSUME NEW c \in Conns PROVE Moves(c)
    OBVIOUS
  <2>1. stream'[c].sendSeq = stream[c].sendSeq
    BY <1>0, <1>5 DEF CloseBegin, StreamStates
  <2>2. task'[c] = task[c] \/ task'[c] \in {"close", "done"}
    BY <1>0, <1>5 DEF CloseBegin
  <2> QED
    BY <2>1, <2>2 DEF Moves
<1>6. ASSUME UNCHANGED task, \A d \in Conns : stream'[d].sendSeq = stream[d].sendSeq
      PROVE  Quiet
  BY <1>6 DEF Moves
<1>7. ASSUME NEW c \in Conns, RxData(c) \/ RxControl(c)
      PROVE  \A d \in Conns : stream'[d].sendSeq = stream[d].sendSeq
  <2>1. \/ stream' = [stream EXCEPT ![c].recvSeq = stream[c].recvSeq + 1]
        \/ stream' = [stream EXCEPT ![c].remoteDisconnect = TRUE]
        \/ stream' = stream
    BY <1>7 DEF RxData, RxControl
  <2> QED
    BY <2>1, <1>0 DEF StreamStates
<1>8. ASSUME RxStopped
      PROVE  Quiet
  BY <1>6, <1>8, RxStoppedIds DEF RxStopped
<1>9. ASSUME UNCHANGED <<task, stream>>
      PROVE  Quiet
  BY <1>9 DEF Moves
<1>10. ASSUME NEW c \in Conns, RxData(c) \/ RxControl(c)
       PROVE  Quiet
  BY <1>6, <1>7, <1>10 DEF RxData, RxControl
<1>11. \/ \E c \in Conns : ForwardAnnounce(c) \/ ForwardSend(c) \/ ForwardRequest(c)
       \/ RxAnswer \/ CamReceive \/ CloseEnd \/ up' = up
  BY DEF Next, vars, mapping, sockets, camera, Client, Forward, Receive, Dispatch, Camera,
     Accept, Reject, ClientEof, ClientReset, ClientStall, SocketLost, ForwardRead, ForwardEnd, ForwardDone,
     RxKeepalive, RxUnknown, RxMismatch, RxBadSequence, RxData, RxControl, RxDrained, RxStop,
     RxStopped, TunnelLost, KeepaliveRound, CloseBegin, CamData, CamRequest, CamStray,
     CamKeepalive, CamDie
<1>12. \/ \E c \in Conns : ForwardAnnounce(c) \/ ForwardSend(c) \/ ForwardRequest(c)
       \/ RxAnswer \/ CamReceive \/ CloseEnd \/ Quiet
  BY <1>0, <1>1, <1>2, <1>3, <1>4, <1>5, <1>8, <1>9, <1>10 DEF Next, vars, mapping, sockets, camera,
     Client, Forward, Receive, Dispatch, Camera, Reject, ClientEof, ClientReset, ClientStall, SocketLost,
     RxKeepalive, RxUnknown, RxMismatch, RxBadSequence, RxDrained, TunnelLost, KeepaliveRound,
     CamData, CamRequest, CamStray, CamKeepalive, CamDie
<1> QED
  BY <1>11, <1>12

\* A packet of another connection does not matter.
LEMMA SendOther ==
    ASSUME NEW t, NEW s, NEW q \in Seq(Packets), NEW p \in Packets, NEW m, NEW c,
           p.conn # c, SendOk(t, s, q, m, c)
    PROVE  SendOk(t, s, Append(q, p), m, c)
<1> DEFINE Q == Append(q, p)
<1>1. /\ Len(Q) + 1 = (Len(q) + 1) + 1 /\ ~Data(p, c)
      /\ Cardinality(DataBefore(Q, c, Len(Q) + 1))
           = Cardinality(DataBefore(q, c, Len(q) + 1)) + IF Data(p, c) THEN 1 ELSE 0
      /\ Told(Q, m, c, Len(Q) + 1)
           <=> Told(q, m, c, Len(q) + 1) \/ (p.conn = c /\ p.cmd = "ACCESS")
      /\ Asked(Q, c, Len(Q) + 1)
           <=> Asked(q, c, Len(q) + 1) \/ (p.conn = c /\ p.op = DISCONNECT_REQUEST)
  BY PutAfter DEF Data
<1>2. Cardinality(DataBefore(q, c, Len(q) + 1)) \in Nat
  BY DataCounted
<1> HIDE DEF Q
<1>3. Cardinality(DataBefore(Q, c, Len(Q) + 1)) = Cardinality(DataBefore(q, c, Len(q) + 1))
  <2>1. Cardinality(DataBefore(Q, c, Len(Q) + 1))
          = Cardinality(DataBefore(q, c, Len(q) + 1)) + 0
    BY <1>1
  <2> QED
    BY <1>2, <2>1
<1> QED
  BY <1>1, <1>3 DEF SendOk, Q

\* Books that agree on a connection serve it alike.
LEMMA SendBooks ==
    ASSUME NEW t, NEW s, NEW q, NEW m, NEW m2, NEW c,
           m2[c].state = m[c].state, m2[c].recvSeq = m[c].recvSeq,
           m2[c].answered = m[c].answered
    PROVE  SendOk(t, s, q, m2, c) <=> SendOk(t, s, q, m, c)
BY DEF SendOk, Told

\* The announcement, a chunk, the request and an answer are put in their turn.
LEMMA SendPut ==
    ASSUME NEW s \in Nat, NEW q \in Seq(Packets), NEW m, NEW c \in Conns, m[c].recvSeq \in Nat
    PROVE  /\ SendOk("announce", s, q, m, c) => SendOk("read", s, Append(q, Access(c)), m, c)
           /\ s > 0 /\ SendOk("send", s, q, m, c)
                 => SendOk("read", s, Append(q, Frame(c, s - 1)), m, c)
           /\ \A t2 \in {"close", "done"} : \A q2 : SendOk(t2, s, q2, m, c)
           /\ \A op \in {DISCONNECT_RESPONSE, DISCONNECT_CONFIRM} : \A t :
                 SendOk(t, s, q, m, c) => SendOk(t, s, Append(q, Frame(c, op)), m, c)
<1> DEFINE n(r) == Cardinality(DataBefore(r, c, Len(r) + 1))
<1>0. n(q) \in Nat
  BY DataCounted
<1>1. ASSUME NEW p \in Packets, p.conn = c
      PROVE  LET Q == Append(q, p)
             IN  /\ Data(p, c) => n(Q) = n(q) + 1
                 /\ ~Data(p, c) => n(Q) = n(q)
                 /\ Told(Q, m, c, Len(Q) + 1) <=> Told(q, m, c, Len(q) + 1) \/ p.cmd = "ACCESS"
                 /\ Asked(Q, c, Len(Q) + 1)
                      <=> Asked(q, c, Len(q) + 1) \/ p.op = DISCONNECT_REQUEST
  <2> DEFINE Q == Append(q, p)
  <2>1. /\ n(Q) = n(q) + IF Data(p, c) THEN 1 ELSE 0
        /\ Told(Q, m, c, Len(Q) + 1)
             <=> Told(q, m, c, Len(q) + 1) \/ (p.conn = c /\ p.cmd = "ACCESS")
        /\ Asked(Q, c, Len(Q) + 1)
             <=> Asked(q, c, Len(q) + 1) \/ (p.conn = c /\ p.op = DISCONNECT_REQUEST)
    BY PutAfter
  <2> HIDE DEF Q, n
  <2>2. Data(p, c) => n(Q) = n(q) + 1
    BY <2>1
  <2>3. ~Data(p, c) => n(Q) = n(q) + 0
    BY <2>1
  <2>4. n(q) + 0 = n(q)
    BY <1>0
  <2> QED
    BY <1>1, <2>1, <2>2, <2>3, <2>4 DEF Q
<1> HIDE DEF n
<1>2. ASSUME SendOk("announce", s, q, m, c)
      PROVE  SendOk("read", s, Append(q, Access(c)), m, c)
  <2> DEFINE p == Access(c)
  <2>1. /\ p \in Packets /\ p.conn = c /\ p.cmd = "ACCESS" /\ ~Data(p, c)
        /\ p.op # DISCONNECT_REQUEST
    BY PacketsType DEF Access, Data, DISCONNECT_REQUEST
  <2> HIDE DEF p
  <2> QED
    BY <1>1, <1>2, <2>1 DEF SendOk, n, p
<1>3. ASSUME s > 0, SendOk("send", s, q, m, c)
      PROVE  SendOk("read", s, Append(q, Frame(c, s - 1)), m, c)
  <2> DEFINE p == Frame(c, s - 1)
  <2>1. s - 1 \in Nat
    BY <1>3
  <2>2. p \in Packets /\ p.conn = c /\ Data(p, c) /\ p.op # DISCONNECT_REQUEST
    BY <2>1, PacketsType DEF Frame, Data, DISCONNECT_REQUEST
  <2> HIDE DEF p
  <2>3. s = m[c].recvSeq + n(q) + 1 /\ n(Append(q, p)) = n(q) + 1
    BY <1>1, <1>3, <2>2 DEF SendOk, n
  <2>4. s = m[c].recvSeq + n(Append(q, p))
    BY <1>0, <2>3
  <2>5. Told(Append(q, p), m, c, Len(Append(q, p)) + 1)
    BY <1>1, <1>3, <2>2 DEF SendOk
  <2>6. ~(m[c].answered \/ Asked(Append(q, p), c, Len(Append(q, p)) + 1))
    BY <1>1, <1>3, <2>2 DEF SendOk
  <2> QED
    BY <2>4, <2>5, <2>6 DEF SendOk, n, p
<1>4. ASSUME NEW t2 \in {"close", "done"}, NEW q2
      PROVE  SendOk(t2, s, q2, m, c)
  BY DEF SendOk
<1>5. ASSUME NEW t, NEW op \in {DISCONNECT_RESPONSE, DISCONNECT_CONFIRM}, SendOk(t, s, q, m, c)
      PROVE  SendOk(t, s, Append(q, Frame(c, op)), m, c)
  <2> DEFINE p == Frame(c, op)
  <2>1. p \in Packets /\ p.conn = c /\ ~Data(p, c) /\ p.op # DISCONNECT_REQUEST
    BY PacketsType DEF Frame, Data, DISCONNECT_REQUEST, DISCONNECT_RESPONSE, DISCONNECT_CONFIRM
  <2> HIDE DEF p
  <2>2. /\ n(Append(q, p)) = n(q)
        /\ Told(q, m, c, Len(q) + 1) => Told(Append(q, p), m, c, Len(Append(q, p)) + 1)
        /\ Asked(Append(q, p), c, Len(Append(q, p)) + 1) => Asked(q, c, Len(q) + 1)
    BY <1>1, <2>1
  <2> QED
    BY <1>5, <2>2 DEF SendOk, n, p
<1> QED
  BY <1>2, <1>3, <1>4, <1>5

\* A forward task that puts no packet keeps what it counted.
LEMMA SendMoved ==
    ASSUME NEW c \in Conns, Moves(c), SendOk(task[c], stream[c].sendSeq, up, cam, c)
    PROVE  SendOk(task'[c], stream'[c].sendSeq, up, cam, c)
<1>1. CASE task'[c] = task[c] /\ stream'[c].sendSeq = stream[c].sendSeq
  BY <1>1
<1>2. CASE task'[c] \in {"close", "done"}
  BY <1>2 DEF SendOk
<1>3. CASE /\ task[c] = "none" /\ task'[c] = "announce"
           /\ stream'[c].sendSeq = stream[c].sendSeq
  BY <1>3 DEF SendOk
<1>4. CASE /\ task[c] = "read" /\ task'[c] = "send"
           /\ stream'[c].sendSeq = stream[c].sendSeq + 1
  BY <1>4 DEF SendOk
<1>5. CASE /\ task[c] \in {"announce", "read", "send"} /\ task'[c] = "request"
           /\ task[c] = "announce" => cam[c].state # "none"
  BY <1>5 DEF SendOk, Told
<1> QED
  BY <1>1, <1>2, <1>3, <1>4, <1>5 DEF Moves

\* Which task a packet is put by, and which packet: an answer by no task.
Puts(c, p) ==
    \/ ForwardAnnounce(c) /\ p = Access(c)
    \/ ForwardSend(c) /\ p = Frame(c, stream[c].sendSeq - 1)
    \/ ForwardRequest(c) /\ p = Frame(c, DISCONNECT_REQUEST)
    \/ /\ RxAnswer /\ rx.conn = c
       /\ \E op \in {DISCONNECT_RESPONSE, DISCONNECT_CONFIRM} : p = Frame(c, op)

\* A step puts one packet, or takes one, or is one of the moves above.
LEMMA QueueOfUp ==
    ASSUME IInv, Announced, [Next]_vars
    PROVE  \/ \E c \in Conns, p \in Packets : Puts(c, p) /\ up' = Append(up, p)
           \/ CamReceive \/ CloseEnd
           \/ up' = up /\ \A c \in Conns : Moves(c)
<1>1. ASSUME NEW c \in Conns, ForwardAnnounce(c) \/ ForwardSend(c) \/ ForwardRequest(c)
      PROVE  \E p \in Packets : Puts(c, p) /\ up' = Append(up, p)
  <2>1. CASE ForwardAnnounce(c)
    BY <2>1, PacketsType DEF ForwardAnnounce, Puts
  <2>2. CASE ForwardSend(c)
    <3>1. stream[c].sendSeq - 1 \in Nat
      BY <2>2 DEF IInv, TypeOK, ForwardSend, StreamStates, SendCounted
    <3>2. Frame(c, stream[c].sendSeq - 1) \in Packets
      BY <3>1, PacketsType
    <3> QED
      BY <2>2, <3>2 DEF ForwardSend, Puts
  <2>3. CASE ForwardRequest(c)
    BY <2>3, PacketsType DEF ForwardRequest, Puts
  <2> QED
    BY <1>1, <2>1, <2>2, <2>3
<1>2. ASSUME RxAnswer
      PROVE  \E c \in Conns, p \in Packets : Puts(c, p) /\ up' = Append(up, p)
  <2>1. rx.conn \in Conns
    BY <1>2 DEF IInv, TypeOK, RxOnOpen, RxAnswer
  <2>2. PICK op \in {DISCONNECT_RESPONSE, DISCONNECT_CONFIRM} :
        up' = Append(up, Frame(rx.conn, op))
    BY <1>2 DEF RxAnswer
  <2>3. Frame(rx.conn, op) \in Packets
    BY <2>1, PacketsType
  <2>4. Puts(rx.conn, Frame(rx.conn, op))
    BY <1>2 DEF Puts
  <2> QED
    BY <2>1, <2>2, <2>3, <2>4
<1> QED
  BY <1>1, <1>2, SendMoves

\* What a step that puts a packet leaves alone.
LEMMA PutFixed ==
    ASSUME IInv, NEW c \in Conns, NEW p \in Packets, Puts(c, p)
    PROVE  /\ cam' = cam /\ closing' = closing /\ stream' = stream /\ p.conn = c
           /\ \A d \in Conns \ {c} : task'[d] = task[d]
           /\ RxAnswer => task'[c] = task[c]
           /\ ForwardAnnounce(c) \/ ForwardSend(c) => task'[c] = "read"
           /\ ForwardRequest(c) => task'[c] = "close"
           /\ closing # "closed"
<1>1. task \in [Conns -> TaskStates]
  BY DEF IInv, TypeOK
<1>2. p.conn = c
  BY DEF Puts, Access, Frame
<1>3. closing # "closed"
  BY DEF Puts, IInv, AfterClose, Closed, Ended, RxAnswer, ForwardAnnounce, ForwardSend, ForwardRequest
<1> QED
  BY <1>1, <1>2, <1>3 DEF Puts, camera, RxAnswer, ForwardAnnounce, ForwardSend, ForwardRequest

\* Forward tasks keep their books with the camera.
LEMMA SendInvStep ==
    ASSUME IInv, Announced, Ordered(up, cam), SendInv, [Next]_vars
    PROVE  SendInv'
<1> SUFFICES ASSUME closing' # "closed", NEW c \in Conns
             PROVE  SendOk(task'[c], stream'[c].sendSeq, up', cam', c)
  BY DEF SendInv
<1>0. /\ up \in Seq(Packets) /\ cam[c].recvSeq \in Nat /\ stream[c].sendSeq \in Nat
      /\ task[c] = "send" => stream[c].sendSeq > 0
  BY DEF IInv, TypeOK, CameraStates, StreamStates, SendCounted
<1>1. ASSUME NEW d \in Conns, NEW p \in Packets, Puts(d, p), up' = Append(up, p)
      PROVE  SendOk(task'[c], stream'[c].sendSeq, up', cam', c)
  <2>1. /\ cam' = cam /\ stream' = stream /\ p.conn = d
        /\ SendOk(task[c], stream[c].sendSeq, up, cam, c)
    BY <1>1, PutFixed DEF SendInv
  <2>2. CASE c # d
    <3>1. task'[c] = task[c]
      BY <1>1, <2>2, PutFixed
    <3> QED
      BY <1>0, <1>1, <2>1, <2>2, <3>1, SendOther
  <2>3. CASE c = d
    <3>1. CASE ForwardAnnounce(c) /\ p = Access(c)
      <4>1. task[c] = "announce" /\ task'[c] = "read"
        BY <1>1, <2>3, <3>1, PutFixed DEF ForwardAnnounce
      <4> QED
        BY <1>0, <1>1, <2>1, <3>1, <4>1, SendPut
    <3>2. CASE ForwardSend(c) /\ p = Frame(c, stream[c].sendSeq - 1)
      <4>1. task[c] = "send" /\ task'[c] = "read"
        BY <1>1, <2>3, <3>2, PutFixed DEF ForwardSend
      <4> QED
        BY <1>0, <1>1, <2>1, <3>2, <4>1, SendPut
    <3>3. CASE ForwardRequest(c)
      <4>1. task'[c] = "close"
        BY <1>1, <2>3, <3>3, PutFixed
      <4> QED
        BY <1>0, <2>1, <4>1, SendPut
    <3>4. CASE /\ RxAnswer /\ rx.conn = c
               /\ \E op \in {DISCONNECT_RESPONSE, DISCONNECT_CONFIRM} : p = Frame(c, op)
      <4>1. task'[c] = task[c]
        BY <1>1, <2>3, <3>4, PutFixed
      <4>2. PICK op \in {DISCONNECT_RESPONSE, DISCONNECT_CONFIRM} : p = Frame(c, op)
        BY <3>4
      <4>3. SendOk(task[c], stream[c].sendSeq, Append(up, Frame(c, op)), cam, c)
        BY <1>0, <2>1, SendPut
      <4> QED
        BY <1>1, <2>1, <4>1, <4>2, <4>3
    <3> QED
      BY <1>1, <2>3, <3>1, <3>2, <3>3, <3>4 DEF Puts
  <2> QED
    BY <2>2, <2>3
<1>2. CASE CamReceive
  <2>1. /\ up # <<>> /\ up' = Tail(up) /\ task' = task /\ stream' = stream /\ closing' = closing
        /\ Books(cam, Head(up), cam', Conns)
    BY <1>2, HeadOfUp, CamReceiveBooks DEF CamReceive, mapping
  <2>2. Len(up) \in 1 .. Len(up) /\ Len(up') + 1 = Len(up)
    BY <1>0, <2>1
  <2>3. /\ cam[c].recvSeq + Cardinality(DataBefore(up, c, Len(up) + 1))
             = cam'[c].recvSeq + Cardinality(DataBefore(up', c, Len(up') + 1))
        /\ Told(up, cam, c, Len(up) + 1) <=> Told(up', cam', c, Len(up') + 1)
        /\ cam[c].answered \/ Asked(up, c, Len(up) + 1)
             <=> cam'[c].answered \/ Asked(up', c, Len(up') + 1)
    <3>1. /\ cam[c].recvSeq + Cardinality(DataBefore(up, c, Len(up) + 1))
               = cam'[c].recvSeq + Cardinality(DataBefore(Tail(up), c, Len(up)))
          /\ Told(up, cam, c, Len(up) + 1) <=> Told(Tail(up), cam', c, Len(up))
          /\ cam[c].answered \/ Asked(up, c, Len(up) + 1)
               <=> cam'[c].answered \/ Asked(Tail(up), c, Len(up))
      BY <1>0, <2>1, <2>2, TakenSame
    <3> QED
      BY <2>1, <2>2, <3>1
  <2> QED
    BY <2>1, <2>3 DEF SendInv, SendOk
<1>3. CASE CloseEnd
  BY <1>3 DEF CloseEnd
<1>4. ASSUME up' = up, \A d \in Conns : Moves(d), ~CamReceive
      PROVE  SendOk(task'[c], stream'[c].sendSeq, up', cam', c)
  <2>1. closing # "closed"
    BY <1>4 DEF Next, vars, mapping, sockets, camera, Client, Forward, Receive, Dispatch, Camera,
       Accept, Reject, ClientEof, ClientReset, ClientStall, SocketLost, ForwardAnnounce, ForwardRead,
       ForwardSend, ForwardEnd, ForwardRequest, ForwardDone, RxKeepalive, RxUnknown, RxMismatch,
       RxBadSequence, RxData, RxControl, RxDrained, RxAnswer, RxStop, RxStopped, TunnelLost,
       KeepaliveRound, CloseBegin, CloseEnd, CamData, CamRequest, CamStray, CamKeepalive, CamDie
  <2>2. SendOk(task'[c], stream'[c].sendSeq, up, cam, c)
    BY <1>4, <2>1, SendMoved DEF SendInv
  <2> QED
    BY <1>4, <2>2, BooksFixed, SendBooks
<1> QED
  BY <1>1, <1>2, <1>3, <1>4, QueueOfUp

\* Packets for the camera stay in order.
LEMMA OrderedStep ==
    ASSUME IInv, Announced, Ordered(up, cam), SendInv, [Next]_vars
    PROVE  Ordered(up', cam')
<1>0. /\ up \in Seq(Packets) /\ \A i \in DOMAIN up : up[i].conn \in Conns
      /\ \A c \in Conns : cam[c].recvSeq \in Nat /\ stream[c].sendSeq \in Nat
  BY DEF IInv, TypeOK, CameraStates, StreamStates, FramesKnown, Known
<1>1. ASSUME NEW c \in Conns, NEW p \in Packets, Puts(c, p), up' = Append(up, p)
      PROVE  Ordered(up', cam')
  <2>1. cam' = cam /\ p.conn = c /\ SendOk(task[c], stream[c].sendSeq, up, cam, c)
    BY <1>1, PutFixed DEF SendInv
  <2>2. /\ p.cmd = "ACCESS" => p.op = 0
        /\ p.cmd # "ACCESS" => Told(up, cam, c, Len(up) + 1)
        /\ Data(p, c) =>
              /\ p.op = cam[c].recvSeq + Cardinality(DataBefore(up, c, Len(up) + 1))
              /\ ~cam[c].answered /\ ~Asked(up, c, Len(up) + 1)
    <3>1. CASE p = Access(c)
      BY <3>1 DEF Access, Data
    <3>2. CASE ForwardSend(c) /\ p = Frame(c, stream[c].sendSeq - 1)
      <4>1. task[c] = "send" /\ p.cmd = "DATA" /\ p.op = stream[c].sendSeq - 1
        BY <3>2 DEF ForwardSend, Frame
      <4>2. Cardinality(DataBefore(up, c, Len(up) + 1)) \in Nat
        BY <1>0, DataCounted
      <4>3. /\ Told(up, cam, c, Len(up) + 1)
            /\ ~(cam[c].answered \/ Asked(up, c, Len(up) + 1))
            /\ stream[c].sendSeq
                 = cam[c].recvSeq + Cardinality(DataBefore(up, c, Len(up) + 1)) + 1
        BY <2>1, <4>1 DEF SendOk
      <4>4. p.op = cam[c].recvSeq + Cardinality(DataBefore(up, c, Len(up) + 1))
        BY <1>0, <4>1, <4>2, <4>3
      <4> QED
        BY <4>1, <4>3, <4>4
    <3>3. CASE ForwardRequest(c) /\ p = Frame(c, DISCONNECT_REQUEST)
      BY <2>1, <3>3 DEF ForwardRequest, SendOk, Frame, Data, DISCONNECT_REQUEST
    <3>4. CASE /\ RxAnswer /\ rx.conn = c
               /\ \E op \in {DISCONNECT_RESPONSE, DISCONNECT_CONFIRM} : p = Frame(c, op)
      BY <3>4 DEF RxAnswer, Announced, Greeted, Told, Frame, Data, DISCONNECT_RESPONSE,
         DISCONNECT_CONFIRM
    <3> QED
      BY <1>1, <3>1, <3>2, <3>3, <3>4 DEF Puts
  <2> QED
    BY <1>0, <1>1, <2>1, <2>2, PutOrdered
<1>2. CASE CamReceive
  BY <1>0, <1>2, HeadOfUp, CamReceiveBooks, TakeOrdered
<1>3. CASE CloseEnd
  <2>1. up' = <<>>
    BY <1>3 DEF CloseEnd
  <2> QED
    BY <2>1 DEF Ordered
<1>4. CASE up' = up /\ ~CamReceive
  <2>1. \A i \in 1 .. Len(up) : OrderedAt(up, cam, i) /\ up[i].conn \in Conns
    BY <1>0 DEF Ordered
  <2> QED
    BY <1>4, <2>1, BooksFixed DEF Ordered, OrderedAt, Told
<1> QED
  BY <1>1, <1>2, <1>3, <1>4, QueueOfUp

\* As long as the mapping accepted no more clients than there are request ids,
\* the camera receives of each stream its announcement, then its data frames in
\* sequence, then nothing but controls once a disconnect was asked, whatever
\* the camera itself sends.
THEOREM UpOrderedTheorem ==
    ASSUME IsFiniteSet(Conns), Cardinality(Conns) <= IdSpace
    PROVE  Spec => []UpOrdered
<1> DEFINE UpInv == IdsCounted /\ Announced /\ SendInv /\ Ordered(up, cam)
<1>1. Init => UpInv
  <2> SUFFICES ASSUME Init PROVE Announced /\ SendInv /\ Ordered(up, cam)
    BY InitCounted
  <2>1. up = <<>> /\ down = <<>> /\ rx.pc = "loop"
    BY DEF Init, Idle
  <2>2. Announced /\ Ordered(up, cam)
    BY <2>1 DEF Announced, Ordered
  <2>3. ASSUME NEW c \in Conns
        PROVE  SendOk(task[c], stream[c].sendSeq, up, cam, c)
    <3>1. /\ task[c] = "none" /\ stream[c].sendSeq = 0
          /\ cam[c].recvSeq = 0 /\ cam[c].answered = FALSE
      BY DEF Init
    <3>2. DataBefore(up, c, Len(up) + 1) = {} /\ ~Asked(up, c, Len(up) + 1)
      BY <2>1 DEF DataBefore, Asked
    <3>3. Cardinality(DataBefore(up, c, Len(up) + 1)) = 0
      BY <3>2, FS_EmptySet
    <3> QED
      BY <3>1, <3>2, <3>3 DEF SendOk
  <2> QED
    BY <2>2, <2>3 DEF SendInv
<1>2. IInv /\ UpInv /\ [Next]_vars => UpInv'
  BY IdsCountedStep, AnnouncedStep, SendInvStep, OrderedStep
<1>3. IInv /\ UpInv => UpOrdered
  BY UpOrderedIs DEF IInv
<1> QED
  BY <1>1, <1>2, <1>3, Invariance, PTL DEF Spec

-----------------------------------------------------------------------------
(* A camera that follows the protocol *)

\* Of connection c, r data frames were received and s sent; those on queue q
\* are the ones in between, in sequence.
InTransit(r, s, q, c) ==
    /\ s = r + Cardinality(DataBefore(q, c, Len(q) + 1))
    /\ \A i \in 1 .. Len(q) : Data(q[i], c) => q[i].op = r + Cardinality(DataBefore(q, c, i))

\* The next frame in sequence may be put, and a packet that is no data of c.
LEMMA TransitPut ==
    ASSUME NEW q \in Seq(Packets), NEW p \in Packets, NEW c, NEW r \in Nat, NEW s \in Nat,
           InTransit(r, s, q, c)
    PROVE  /\ ~Data(p, c) => InTransit(r, s, Append(q, p), c)
           /\ Data(p, c) /\ p.op = s => InTransit(r, s + 1, Append(q, p), c)
<1> DEFINE Q == Append(q, p)
           n == Cardinality(DataBefore(q, c, Len(q) + 1))
<1>1. /\ 1 .. Len(Q) = (1 .. Len(q)) \cup {Len(q) + 1} /\ Q[Len(q) + 1] = p
      /\ \A i \in 1 .. Len(q) : Q[i] = q[i] /\ i \in 1 .. Len(q) + 1
      /\ Len(q) + 1 \in 1 .. Len(q) + 1
  OBVIOUS
<1>2. \A i \in 1 .. Len(q) + 1 : DataBefore(Q, c, i) = DataBefore(q, c, i)
  BY PutBefore
<1>3. n \in Nat /\ Cardinality(DataBefore(Q, c, Len(Q) + 1)) = n + IF Data(p, c) THEN 1 ELSE 0
  <2>1. ASSUME NEW m
        PROVE  /\ Cardinality(DataBefore(Q, c, Len(Q) + 1)) = n + IF Data(p, c) THEN 1 ELSE 0
               /\ Told(Q, m, c, Len(Q) + 1)
                    <=> Told(q, m, c, Len(q) + 1) \/ (p.conn = c /\ p.cmd = "ACCESS")
    BY PutAfter
  <2>2. Len(q) + 1 \in Nat
    OBVIOUS
  <2> HIDE DEF Q
  <2> QED
    BY <2>1, <2>2, DataCounted
<1>4. \A i \in 1 .. Len(q) : Data(Q[i], c) => Q[i].op = r + Cardinality(DataBefore(Q, c, i))
  BY <1>1, <1>2 DEF InTransit
<1>5. s = r + n
  BY DEF InTransit
<1>6. Cardinality(DataBefore(Q, c, Len(q) + 1)) = n
  BY <1>1, <1>2
<1> HIDE DEF Q, n
<1>7. CASE ~Data(p, c)
  <2>1. s = r + Cardinality(DataBefore(Q, c, Len(Q) + 1))
    <3>1. Cardinality(DataBefore(Q, c, Len(Q) + 1)) = n + 0
      BY <1>3, <1>7
    <3> QED
      BY <1>3, <1>5, <3>1
  <2>2. \A i \in 1 .. Len(Q) : Data(Q[i], c) => Q[i].op = r + Cardinality(DataBefore(Q, c, i))
    BY <1>1, <1>4, <1>7
  <2> QED
    BY <1>7, <2>1, <2>2 DEF InTransit, Q
<1>8. CASE Data(p, c) /\ p.op = s
  <2>1. s + 1 = r + Cardinality(DataBefore(Q, c, Len(Q) + 1))
    <3>1. Cardinality(DataBefore(Q, c, Len(Q) + 1)) = n + 1
      BY <1>3, <1>8
    <3> QED
      BY <1>3, <1>5, <3>1
  <2>2. \A i \in 1 .. Len(Q) : Data(Q[i], c) => Q[i].op = r + Cardinality(DataBefore(Q, c, i))
    BY <1>1, <1>4, <1>5, <1>6, <1>8
  <2> QED
    BY <1>8, <2>1, <2>2 DEF InTransit, Q
<1> QED
  BY <1>7, <1>8

\* The first data frame of c is the next to be received.
LEMMA TransitTake ==
    ASSUME NEW q \in Seq(Packets), q # <<>>, NEW c, NEW r \in Nat, NEW s \in Nat,
           InTransit(r, s, q, c)
    PROVE  /\ ~Data(Head(q), c) => InTransit(r, s, Tail(q), c)
           /\ Data(Head(q), c) => Head(q).op = r /\ InTransit(r + 1, s, Tail(q), c)
<1> DEFINE p == Head(q)
           T == Tail(q)
           n(i) == Cardinality(DataBefore(T, c, i))
<1>1. /\ p = q[1] /\ 1 \in 1 .. Len(q) /\ Len(T) + 1 = Len(q) /\ Len(q) \in 1 .. Len(q)
      /\ \A i \in 1 .. Len(T) : i \in 1 .. Len(q) /\ i + 1 \in 1 .. Len(q) /\ T[i] = q[i + 1]
      /\ Len(T) + 1 \in Nat
  OBVIOUS
<1>2. \A i \in 1 .. Len(q) :
         /\ Cardinality(DataBefore(q, c, i + 1)) = n(i) + IF Data(p, c) THEN 1 ELSE 0
         /\ n(i) \in Nat
  <2> SUFFICES ASSUME NEW i \in 1 .. Len(q)
               PROVE  /\ Cardinality(DataBefore(q, c, i + 1)) = n(i) + IF Data(p, c) THEN 1 ELSE 0
                      /\ n(i) \in Nat
    OBVIOUS
  <2>1. ASSUME NEW m
        PROVE  /\ Cardinality(DataBefore(q, c, i + 1)) = n(i) + IF Data(p, c) THEN 1 ELSE 0
               /\ Told(q, m, c, i + 1)
                    <=> Told(T, m, c, i) \/ (p.conn = c /\ p.cmd = "ACCESS")
    BY TakenBefore
  <2>2. n(i) \in Nat
    BY DataCounted
  <2> QED
    BY <2>1, <2>2
<1>3. Data(p, c) => p.op = r
  <2>1. DataBefore(q, c, 1) = {}
    BY DEF DataBefore
  <2>2. Cardinality(DataBefore(q, c, 1)) = 0
    BY <2>1, FS_EmptySet
  <2> QED
    BY <1>1, <2>2 DEF InTransit
<1>4. /\ s = r + Cardinality(DataBefore(q, c, Len(q) + 1))
      /\ \A i \in 1 .. Len(T) :
            Data(T[i], c) => T[i].op = r + Cardinality(DataBefore(q, c, i + 1))
  BY <1>1 DEF InTransit
<1> HIDE DEF p, T, n
<1>5. ASSUME NEW k \in {r, r + 1}, \A i \in 1 .. Len(q) : r + Cardinality(DataBefore(q, c, i + 1)) = k + n(i)
      PROVE  InTransit(k, s, T, c)
  BY <1>1, <1>4, <1>5 DEF InTransit, n
<1>6. ASSUME Data(p, c), NEW i \in 1 .. Len(q)
      PROVE  r + Cardinality(DataBefore(q, c, i + 1)) = (r + 1) + n(i)
  <2>1. Cardinality(DataBefore(q, c, i + 1)) = n(i) + 1
    BY <1>2, <1>6
  <2> QED
    BY <1>2, <2>1
<1>7. ASSUME ~Data(p, c), NEW i \in 1 .. Len(q)
      PROVE  r + Cardinality(DataBefore(q, c, i + 1)) = r + n(i)
  <2>1. Cardinality(DataBefore(q, c, i + 1)) = n(i) + 0
    BY <1>2, <1>7
  <2> QED
    BY <1>2, <2>1
<1>8. Data(p, c) => InTransit(r + 1, s, T, c)
  BY <1>5, <1>6
<1>9. ~Data(p, c) => InTransit(r, s, T, c)
  BY <1>5, <1>7
<1> QED
  BY <1>3, <1>8, <1>9 DEF p, T

\* There are no more retired streams than there were retirements.
RetiredFew == IsFiniteSet(retired) /\ Cardinality(retired) <= retirements

\* What a step does to the tables of a mapping that stays open.
LEMMA TablesEffect ==
    ASSUME IInv, [Next]_vars, ~Closed'
    PROVE  \/ \E c \in Conns, p \in Ports : Accept(c, p)
           \/ RxStopped
           \/ streams' = streams /\ retired' = retired /\ retirements' = retirements
BY DEF Next, vars, mapping, sockets, camera, Client, Forward, Receive, Dispatch, Camera, Reject,
   ClientEof, ClientReset, ClientStall, SocketLost, ForwardAnnounce, ForwardRead, ForwardSend, ForwardEnd,
   ForwardRequest, ForwardDone, RxKeepalive, RxUnknown, RxMismatch, RxBadSequence, RxData, RxControl,
   RxDrained, RxAnswer, RxStop, TunnelLost, KeepaliveRound, CloseBegin, CloseEnd, CamReceive, CamData,
   CamRequest, CamStray, CamKeepalive, CamDie, Closed

\* Every step keeps them few, and the count of retirements never falls.
LEMMA RetiredFewStep ==
    ASSUME IInv, RetiredFew, [Next]_vars
    PROVE  RetiredFew' /\ retirements <= retirements'
<1>0. retirements \in Nat /\ Cardinality(retired) \in Nat
  BY FS_CardinalityType DEF IInv, TypeOK, RetiredFew
<1>1. ASSUME NEW S, S \subseteq retired, retired' = S, retirements' = retirements
      PROVE  RetiredFew' /\ retirements <= retirements'
  <2>1. IsFiniteSet(S) /\ Cardinality(S) <= Cardinality(retired) /\ Cardinality(S) \in Nat
    BY <1>1, FS_Subset, FS_CardinalityType DEF RetiredFew
  <2> QED
    BY <1>0, <1>1, <2>1 DEF RetiredFew
<1>2. CASE \E c \in Conns, p \in Ports : Accept(c, p)
  <2>1. PICK id : retired' = {r \in retired : stream[r].id # id} /\ retirements' = retirements
    BY <1>2 DEF Accept
  <2> QED
    BY <1>1, <2>1
<1>3. CASE RxStopped /\ rx.remove
  <2>1. retired' = Retire(rx.conn) /\ retirements' = retirements + 1
    BY <1>3 DEF RxStopped
  <2>2. PICK S \in SUBSET retired : retired' = S \cup {rx.conn}
    BY <2>1 DEF Retire
  <2>3. IsFiniteSet(S) /\ Cardinality(S) <= Cardinality(retired) /\ Cardinality(S) \in Nat
    BY FS_Subset, FS_CardinalityType DEF RetiredFew
  <2>4. /\ IsFiniteSet(S \cup {rx.conn}) /\ Cardinality(S \cup {rx.conn}) \in Nat
        /\ Cardinality(S \cup {rx.conn}) <= Cardinality(S) + 1
    BY <2>3, FS_AddElement
  <2> QED
    BY <1>0, <2>1, <2>2, <2>3, <2>4 DEF RetiredFew
<1>4. CASE CloseBegin
  BY <1>1, <1>4 DEF CloseBegin
<1>5. CASE retired' = retired /\ retirements' = retirements
  BY <1>1, <1>5
<1> QED
  BY <1>2, <1>3, <1>4, <1>5 DEF Next, vars, mapping, sockets, camera, Client, Forward, Receive,
     Dispatch, Camera, Reject, ClientEof, ClientReset, ClientStall, SocketLost, ForwardAnnounce, ForwardRead,
     ForwardSend, ForwardEnd, ForwardRequest, ForwardDone, RxKeepalive, RxUnknown, RxMismatch,
     RxBadSequence, RxData, RxControl, RxDrained, RxAnswer, RxStop, RxStopped, TunnelLost,
     KeepaliveRound, CloseEnd, CamReceive, CamData, CamRequest, CamStray, CamKeepalive, CamDie

\* While no stream was forgotten each connection is open or remembered.
Listed == ~Closed => Accepted \subseteq streams \cup retired

\* The first MaxRetired streams to end are remembered, while the ids last.
LEMMA ListedStep ==
    ASSUME IsFiniteSet(Conns), Cardinality(Conns) <= IdSpace, IInv, IdsCounted, RetiredFew,
           Listed, [Next]_vars, ~Closed', retirements' <= MaxRetired
    PROVE  Listed' /\ retired \subseteq retired'
<1>0. ~Closed
  BY AcceptedFixed DEF Accept
<1>1. ASSUME NEW c \in Conns, NEW p \in Ports, Accept(c, p)
      PROVE  Listed' /\ retired \subseteq retired'
  <2>1. PICK id \in Ids :
        retired' = {r \in retired : stream[r].id # id}
        /\ stream' = [stream EXCEPT ![c] = [@ EXCEPT !.id = id, !.port = p]]
    BY <1>1 DEF Accept
  <2>2. id = Given /\ Given \in Nat
    <3>1. stream'[c].id = id
      BY <2>1 DEF IInv, TypeOK, StreamStates
    <3> QED
      BY <1>1, <3>1, AcceptCounted
  <2>3. retired \subseteq Accepted
    BY <1>0 DEF IInv, TypeOK, Untouched, IdsCounted
  <2>4. \A r \in retired : stream[r].id < Given /\ stream[r].id \in Nat
    BY <2>3 DEF IdsCounted, IInv, TypeOK, StreamStates, Ids
  <2>5. retired' = retired
    BY <2>1, <2>2, <2>4
  <2>6. /\ streams' = streams \cup {c} /\ task' = [task EXCEPT ![c] = "announce"]
        /\ task \in [Conns -> TaskStates]
    BY <1>1 DEF Accept, IInv, TypeOK
  <2> QED
    BY <1>0, <2>5, <2>6 DEF Listed, Accepted
<1>2. CASE RxStopped
  <2>1. task' = task
    BY <1>2 DEF RxStopped
  <2>2. CASE ~rx.remove
    BY <1>0, <1>2, <2>1, <2>2 DEF RxStopped, Listed, Accepted
  <2>3. CASE rx.remove
    <3>1. /\ retirements' = retirements + 1 /\ retired' = Retire(rx.conn)
          /\ streams' = streams \ {rx.conn}
      BY <1>2, <2>3 DEF RxStopped
    <3>2. ~(Cardinality(retired) >= MaxRetired)
      <4>1. /\ retirements \in Nat /\ MaxRetired \in Nat /\ Cardinality(retired) \in Nat
            /\ Cardinality(retired) <= retirements
        BY ConstantsAssumption, FS_CardinalityType DEF IInv, TypeOK, RetiredFew
      <4> QED
        BY <3>1, <4>1
    <3>3. retired' = retired \cup {rx.conn}
      BY <3>1, <3>2 DEF Retire
    <3> QED
      BY <1>0, <2>1, <3>1, <3>3 DEF Listed, Accepted
  <2> QED
    BY <2>2, <2>3
<1>3. CASE /\ streams' = streams /\ retired' = retired
           /\ ~ \E c \in Conns, p \in Ports : Accept(c, p)
  <2>1. Accepted' = Accepted
    BY <1>3, AcceptedFixed
  <2> QED
    BY <1>0, <1>3, <2>1 DEF Listed
<1> QED
  BY <1>1, <1>2, <1>3, TablesEffect

\* The data frames for the mapping are those in between what each stream
\* received and what the camera sent on it, in sequence.
InBooks ==
    ~Closed => \A c \in Conns \ retired :
        InTransit(stream[c].recvSeq, cam[c].sendSeq, down, c)

\* The receive loop finds no fault with a camera that sends what is in the books.
LEMMA HonestFrames ==
    ASSUME IInv, IdsCounted, Listed, InBooks
    PROVE  /\ \A c \in streams : ~RxMismatch(c) /\ ~RxBadSequence(c)
           /\ RxUnknown => Received.conn \in retired /\ terminal' = terminal
<1>0. down \in Seq(Packets) /\ streams \subseteq Conns
      /\ \A c \in Conns : stream[c].recvSeq \in Nat /\ cam[c].sendSeq \in Nat
  BY DEF IInv, TypeOK, StreamStates, CameraStates
<1>1. ASSUME Receiving, Received.cmd = "DATA"
      PROVE  ~Closed /\ Received.conn \in Accepted /\ Received.conn \in Conns
  <2>1. ~Closed /\ down # <<>>
    BY <1>1 DEF IInv, AfterClose, Receiving, Ended
  <2> QED
    BY <1>1, <2>1, ReceivedKnown DEF IdsCounted
<1>2. ASSUME NEW c \in streams, RxMismatch(c)
      PROVE  FALSE
  <2>1. Received.conn = c
    BY <1>1, <1>2 DEF IdsCounted, RxMismatch, SameId
  <2> QED
    BY <1>2, <2>1 DEF RxMismatch, SamePorts
<1>3. ASSUME NEW c \in streams, RxBadSequence(c)
      PROVE  FALSE
  <2>1. Received.conn = c /\ down # <<>> /\ Received.cmd = "DATA" /\ ~Closed
    BY <1>1, <1>3, RoutedToOwn DEF RxBadSequence, Routed
  <2>2. c \notin retired /\ c \in Conns
    BY <1>0 DEF IInv, IdsApart
  <2>3. Data(Head(down), c)
    BY <1>3, <2>1 DEF RxBadSequence, Data, Received
  <2>4. InTransit(stream[c].recvSeq, cam[c].sendSeq, down, c)
    BY <2>1, <2>2 DEF InBooks
  <2>5. Head(down).op = stream[c].recvSeq
    BY <1>0, <2>1, <2>2, <2>3, <2>4, TransitTake
  <2> QED
    BY <1>3, <2>5 DEF RxBadSequence, InSequence, Received
<1>4. ASSUME RxUnknown
      PROVE  Received.conn \in retired /\ terminal' = terminal
  <2>1. Received.conn \notin streams
    BY <1>4 DEF RxUnknown, SameId
  <2>2. Received.conn \in retired
    BY <1>1, <1>4, <2>1 DEF Listed, RxUnknown
  <2>3. SameId(Received.conn) /\ SamePorts(Received.conn)
    BY DEF SameId, SamePorts
  <2> QED
    BY <1>4, <2>2, <2>3 DEF RxUnknown
<1> QED
  BY <1>2, <1>3, <1>4

\* The steps that take a frame from the tunnel.
Takes ==
    \/ RxKeepalive \/ RxUnknown
    \/ \E c \in streams : RxMismatch(c) \/ RxBadSequence(c) \/ RxData(c) \/ RxControl(c)

\* What the camera counts and sends, as long as it follows the protocol.
LEMMA HonestMoves ==
    ASSUME IInv, [Next]_vars, "camera_stray" \notin Faults, ~Closed'
    PROVE  \/ \E c \in Conns : CamData(c)
           \/ /\ \A c \in Conns : cam'[c].sendSeq = cam[c].sendSeq
              /\ \/ Takes
                 \/ down' = down
                 \/ \E p : down' = Append(down, p) /\ \A c \in Conns : ~Data(p, c)
<1> DEFINE Kept == \A c \in Conns : cam'[c].sendSeq = cam[c].sendSeq
           Sent == \E p : down' = Append(down, p) /\ \A c \in Conns : ~Data(p, c)
<1>0. cam \in [Conns -> CameraStates]
  BY DEF IInv, TypeOK
<1>1. ASSUME NEW d \in Conns, CamRequest(d)
      PROVE  Kept /\ Sent
  <2>1. cam' = [cam EXCEPT ![d].requested = TRUE]
    BY <1>1 DEF CamRequest
  <2>2. Kept
    BY <1>0, <2>1 DEF CameraStates
  <2>3. \A c \in Conns : ~Data(Frame(d, DISCONNECT_REQUEST), c)
    BY DEF Data, Frame, DISCONNECT_REQUEST
  <2> QED
    BY <1>1, <2>2, <2>3 DEF CamRequest
<1>2. ASSUME CamReceive
      PROVE  Kept /\ (down' = down \/ Sent)
  <2> DEFINE k == Head(up).conn
  <2>1. \/ cam' = [cam EXCEPT ![k].state = "open"]
        \/ cam' = [cam EXCEPT ![k].recvSeq = cam[k].recvSeq + 1]
        \/ cam' = [cam EXCEPT ![k].answered = TRUE]
        \/ cam' = [cam EXCEPT ![k].state = "gone"]
    BY <1>2 DEF CamReceive
  <2>2. Kept
    BY <1>0, <2>1 DEF CameraStates
  <2>3. \/ down' = down
        \/ down' = Append(down, Frame(k, DISCONNECT_RESPONSE))
        \/ down' = Append(down, Frame(k, DISCONNECT_CONFIRM))
    BY <1>2 DEF CamReceive
  <2>4. \A c \in Conns : /\ ~Data(Frame(k, DISCONNECT_RESPONSE), c)
                         /\ ~Data(Frame(k, DISCONNECT_CONFIRM), c)
    BY DEF Data, Frame, DISCONNECT_RESPONSE, DISCONNECT_CONFIRM
  <2> QED
    BY <2>2, <2>3, <2>4
<1>3. ASSUME CamKeepalive
      PROVE  Kept /\ Sent
  <2>1. \A c \in Conns : ~Data(Keepalive, c)
    BY DEF Data, Keepalive
  <2> QED
    BY <1>3, <2>1 DEF CamKeepalive, camera
<1>4. ASSUME Takes
      PROVE  Kept
  BY <1>4 DEF Takes, camera, RxKeepalive, RxUnknown, RxMismatch, RxBadSequence, RxData, RxControl
<1>5. ASSUME UNCHANGED <<cam, down>>
      PROVE  Kept /\ down' = down
  BY <1>5
<1>6. ~CloseEnd
  BY DEF CloseEnd, Closed
<1> QED
  BY <1>1, <1>2, <1>3, <1>4, <1>5, <1>6 DEF Next, vars, mapping, sockets, camera, Client, Forward,
     Receive, Dispatch, Camera, Accept, Reject, ClientEof, ClientReset, ClientStall, SocketLost, ForwardAnnounce,
     ForwardRead, ForwardSend, ForwardEnd, ForwardRequest, ForwardDone, RxDrained, RxAnswer, RxStop,
     RxStopped, TunnelLost, KeepaliveRound, CloseBegin, CamStray, CamDie, Takes

\* The books stay right.
LEMMA InBooksStep ==
    ASSUME IInv, IdsCounted, Listed, InBooks, [Next]_vars, "camera_stray" \notin Faults,
           ~Closed', retired \subseteq retired'
    PROVE  InBooks'
<1> SUFFICES ASSUME NEW c \in Conns, c \notin retired'
             PROVE  InTransit(stream'[c].recvSeq, cam'[c].sendSeq, down', c)
  BY DEF InBooks
<1>0. /\ down \in Seq(Packets) /\ down' \in Seq(Packets)
      /\ stream[c].recvSeq \in Nat /\ cam[c].sendSeq \in Nat /\ c \notin retired
      /\ cam \in [Conns -> CameraStates]
  BY NextInv DEF IInv, TypeOK, StreamStates, CameraStates
<1>1. InTransit(stream[c].recvSeq, cam[c].sendSeq, down, c)
  BY <1>0, AcceptedFixed DEF InBooks, Accept
<1>2. ASSUME NEW p, down' = Append(down, p)
      PROVE  p \in Packets
  <2>1. down'[Len(down) + 1] = p /\ Len(down') = Len(down) + 1
    BY <1>0, <1>2
  <2> QED
    BY <1>0, <2>1
<1>3. ASSUME NEW d \in Conns, CamData(d)
      PROVE  InTransit(stream'[c].recvSeq, cam'[c].sendSeq, down', c)
  <2> DEFINE p == Frame(d, cam[d].sendSeq)
  <2>1. /\ down' = Append(down, p) /\ stream' = stream
        /\ cam' = [cam EXCEPT ![d].sendSeq = cam[d].sendSeq + 1]
    BY <1>3 DEF CamData, mapping
  <2>2. p \in Packets
    BY <1>2, <2>1
  <2>3. CASE c = d
    <3>1. cam'[c].sendSeq = cam[c].sendSeq + 1
      BY <1>0, <2>1, <2>3 DEF CameraStates
    <3>2. Data(p, c) /\ p.op = cam[c].sendSeq
      BY <1>0, <2>3 DEF Data, Frame
    <3> HIDE DEF p
    <3> QED
      BY <1>0, <1>1, <2>1, <2>2, <3>1, <3>2, TransitPut
  <2>4. CASE c # d
    <3>1. cam'[c].sendSeq = cam[c].sendSeq
      BY <1>0, <2>1, <2>4
    <3>2. ~Data(p, c)
      BY <2>4 DEF Data, Frame
    <3> HIDE DEF p
    <3> QED
      BY <1>0, <1>1, <2>1, <2>2, <3>1, <3>2, TransitPut
  <2> QED
    BY <2>3, <2>4
<1>4. ASSUME Takes, cam'[c].sendSeq = cam[c].sendSeq
      PROVE  InTransit(stream'[c].recvSeq, cam'[c].sendSeq, down', c)
  <2>1. down # <<>> /\ down' = Tail(down)
    BY <1>4 DEF Takes, RxKeepalive, RxUnknown, RxMismatch, RxBadSequence, RxData, RxControl, Routed,
       Receiving
  <2>2. CASE \E d \in streams : RxData(d)
    <3>1. PICK d \in streams : RxData(d)
      BY <2>2
    <3>2. /\ Received.conn = d /\ Received.cmd = "DATA" /\ Received.op >= 0
          /\ stream'[d].recvSeq = stream[d].recvSeq + 1
          /\ \A e \in Conns \ {d} : stream'[e] = stream[e]
      BY <3>1, RoutedToOwn, RxDataEffect DEF RxData
    <3>3. Data(Head(down), c) <=> c = d
      BY <3>2 DEF Data, Received
    <3> QED
      BY <1>0, <1>1, <1>4, <2>1, <3>2, <3>3, TransitTake
  <2>3. CASE ~ \E d \in streams : RxData(d)
    <3>1. stream'[c].recvSeq = stream[c].recvSeq
      BY <2>3, RecvSeqFixed
    <3>2. ~Data(Head(down), c)
      <4>1. CASE RxKeepalive
        BY <4>1 DEF RxKeepalive, Received, Data
      <4>2. CASE RxUnknown
        BY <1>0, <4>2, HonestFrames DEF Received, Data
      <4>3. CASE \E d \in streams : RxControl(d)
        <5>1. Received \in Packets
          BY <2>1, ReceivedType DEF IInv
        <5>2. Received.op \in Int
          BY <5>1 DEF Packets, Operations, DISCONNECT_REQUEST, DISCONNECT_RESPONSE,
             DISCONNECT_CONFIRM
        <5>3. Received.op < 0
          BY <4>3 DEF RxControl
        <5> QED
          BY <5>2, <5>3 DEF Received, Data
      <4> QED
        BY <1>4, <2>3, <4>1, <4>2, <4>3, HonestFrames DEF Takes
    <3> QED
      BY <1>0, <1>1, <1>4, <2>1, <3>1, <3>2, TransitTake
  <2> QED
    BY <2>2, <2>3
<1>5. ASSUME ~Takes, cam'[c].sendSeq = cam[c].sendSeq,
             \/ down' = down
             \/ \E p : down' = Append(down, p) /\ \A d \in Conns : ~Data(p, d)
      PROVE  InTransit(stream'[c].recvSeq, cam'[c].sendSeq, down', c)
  <2>1. stream'[c].recvSeq = stream[c].recvSeq
    BY <1>5, RecvSeqFixed DEF Takes
  <2>2. CASE down' = down
    BY <1>1, <1>5, <2>1, <2>2
  <2>3. ASSUME NEW p, down' = Append(down, p), \A d \in Conns : ~Data(p, d)
        PROVE  InTransit(stream'[c].recvSeq, cam'[c].sendSeq, down', c)
    <3>1. p \in Packets /\ ~Data(p, c)
      BY <1>2, <2>3
    <3> QED
      BY <1>0, <1>1, <1>5, <2>1, <2>3, <3>1, TransitPut
  <2> QED
    BY <1>5, <2>2, <2>3
<1> QED
  BY <1>3, <1>4, <1>5, HonestMoves

\* A step that fails the mapping over the protocol takes a frame to do so.
LEMMA ErrorEffect ==
    ASSUME [Next]_vars, NoProtocolError, ~NoProtocolError'
    PROVE  (RxUnknown /\ terminal' # terminal)
           \/ \E c \in streams : RxMismatch(c) \/ RxBadSequence(c)
<1>1. ASSUME NEW e \in {"late_data", "local_reset", "keepalive", "transport"}, Fail(e)
      PROVE  FALSE
  BY <1>1 DEF Fail, NoProtocolError
<1>2. \A c : DrainError(c) \in {"late_data", "local_reset"}
  BY DEF DrainError
<1>3. terminal' # terminal
  BY DEF NoProtocolError
<1> QED
  BY <1>1, <1>2, <1>3 DEF Next, vars, mapping, sockets, camera, Client, Forward, Receive, Dispatch,
     Camera, Accept, Reject, ClientEof, ClientReset, ClientStall, SocketLost, ForwardAnnounce, ForwardRead,
     ForwardSend, ForwardEnd, ForwardRequest, ForwardDone, RxKeepalive, RxData, RxControl, RxDrained,
     RxAnswer, RxStop, RxStopped, TunnelLost, KeepaliveRound, CloseBegin, CloseEnd, CamReceive,
     CamData, CamRequest, CamStray, CamKeepalive, CamDie

\* A camera that follows the protocol and the disconnect handshake is never
\* taken for one that breaks it, whatever clients do and however the tunnel
\* ends, as long as there were no more clients than request ids and no stream
\* has had to be forgotten (256 are remembered).
THEOREM NoProtocolErrorTheorem ==
    ASSUME IsFiniteSet(Conns), Cardinality(Conns) <= IdSpace, "camera_stray" \notin Faults
    PROVE  Spec => [](retirements <= MaxRetired => NoProtocolError)
<1> DEFINE Honest == retirements <= MaxRetired => Listed /\ InBooks /\ NoProtocolError
<1>1. Init => IdsCounted /\ RetiredFew /\ Honest
  <2> SUFFICES ASSUME Init PROVE RetiredFew /\ Listed /\ InBooks /\ NoProtocolError
    BY InitCounted
  <2>1. retired = {} /\ retirements = 0 /\ down = <<>> /\ Accepted = {} /\ terminal = "none"
    BY DEF Init, Accepted
  <2>2. RetiredFew /\ Listed /\ NoProtocolError
    BY <2>1, FS_EmptySet DEF RetiredFew, Listed, NoProtocolError
  <2>3. ASSUME NEW c \in Conns
        PROVE  InTransit(stream[c].recvSeq, cam[c].sendSeq, down, c)
    <3>1. stream[c].recvSeq = 0 /\ cam[c].sendSeq = 0
      BY DEF Init
    <3>2. DataBefore(down, c, Len(down) + 1) = {}
      BY <2>1 DEF DataBefore
    <3>3. Cardinality(DataBefore(down, c, Len(down) + 1)) = 0
      BY <3>2, FS_EmptySet
    <3> QED
      BY <2>1, <3>1, <3>3 DEF InTransit
  <2> QED
    BY <2>2, <2>3 DEF InBooks
<1>2. IInv /\ IdsCounted /\ RetiredFew /\ Honest /\ [Next]_vars
        => (IdsCounted /\ RetiredFew /\ Honest)'
  <2> SUFFICES ASSUME IInv, IdsCounted, RetiredFew, Honest, [Next]_vars, retirements' <= MaxRetired
               PROVE  (Listed /\ InBooks /\ NoProtocolError)'
    BY IdsCountedStep, RetiredFewStep
  <2>1. Listed /\ InBooks /\ NoProtocolError
    <3>1. retirements <= retirements' /\ retirements \in Nat /\ retirements' \in Nat
          /\ MaxRetired \in Nat
      BY RetiredFewStep, NextInv, ConstantsAssumption DEF IInv, TypeOK
    <3> QED
      BY <3>1
  <2>2. NoProtocolError'
    BY <2>1, ErrorEffect, HonestFrames
  <2>3. CASE Closed'
    BY <2>2, <2>3 DEF Listed, InBooks
  <2>4. CASE ~Closed'
    BY <2>1, <2>2, <2>4, ListedStep, InBooksStep
  <2> QED
    BY <2>3, <2>4
<1>3. Honest => (retirements <= MaxRetired => NoProtocolError)
  OBVIOUS
<1> QED
  BY <1>1, <1>2, <1>3, Invariance, PTL DEF Spec
=============================================================================
