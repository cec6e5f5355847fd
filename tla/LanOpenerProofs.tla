---------------------------- MODULE LanOpenerProofs ----------------------------
(***************************************************************************)
(* Proofs about LanOpener, for any sets of candidates, any faults and both *)
(* behaviours of Server.wait_closed.  The invariant follows the listener,  *)
(* the race and the mapping from owner to owner: which of them a place of  *)
(* the opener or of the accept task implies to be open, closed or handed   *)
(* on.                                                                     *)
(***************************************************************************)
EXTENDS LanOpener, TLAPS

\* Until the session is there, nothing but the listener has begun.
SetupInv ==
    accept = "none" =>
        /\ opener \in {"bind", "register", "unbind", "raised"}
        /\ control = "none" /\ ~established /\ winner = None /\ taken = None
        /\ ~listenerClosed /\ session = "none" /\ controlSock = "none" /\ mapping = "none"
        /\ \A o \in Outbound : outb[o] = "none"
        /\ opener = "bind" => pool = "none"
        /\ opener = "register" => pool = "listening"
        /\ opener = "unbind" => pool \in {"closing", "closed"}
        /\ opener = "raised" =>
              \/ pool \in {"none", "closed"}
              \/ pool = "abandoned" /\ outcome = "cancelled"

\* What the opener will do, and what it knows.
OpenerInv ==
    /\ opener \in {"bind", "register", "unbind"} => accept = "none"
    /\ opener \in {"bind", "register", "unbind", "dial", "exchange", "auth"} => outcome = "pending"
    /\ opener = "stopping" => outcome \in Causes /\ accept \in {"leaving", "done", "failed"}
    /\ opener = "unmapping" =>
          outcome \in Causes /\ established /\ mapping = "closed" /\ accept = "done"
    /\ opener = "closing" => outcome # "pending"
    /\ opener \in {"closing", "returned"} => accept \in {"done", "failed"}
    /\ opener = "returned" => outcome = "return" /\ controlSock = "closed" /\ pool = "closed"
    /\ opener = "raised" => outcome # "return" /\ controlSock # "open"
    /\ opener = "raised" /\ accept # "none" =>
          /\ accept \in {"done", "failed"} /\ pool \in {"closed", "abandoned"}
          /\ outcome \in Causes \cup {"socket"}
    /\ opener \in {"exchange", "auth"} => controlSock = "open"
    /\ opener = "auth" => established
    /\ established => accept = "done" /\ opener \notin {"dial", "exchange"}
    /\ outcome = "return" =>
          /\ established /\ opener \in {"closing", "returned"}
          /\ opener = "closing" => controlSock = "open"
    /\ outcome = "accept" => accept = "failed"
    /\ outcome = "auth" => established
    /\ outcome = "socket" => opener = "raised"

\* The listener is closed by the accept task before it authenticates a socket
\* or fails; only the cancellation of the task abandons a close.
ListenerInv ==
    /\ accept \in {"forward", "race", "settle"} =>
          ~listenerClosed /\ pool = "listening" /\ session = "open"
    /\ accept \in {"leaving", "drain", "handshake", "local", "done", "failed"} =>
          listenerClosed /\ pool \in {"closing", "closed", "abandoned"} /\ session = "closed"
    /\ accept \in {"handshake", "local", "done", "failed"} => pool \in {"closed", "abandoned"}
    /\ pool = "abandoned" => outcome \in {"control", "cancelled"}
    /\ pool = "none" => \A i \in Inbound : inb[i] = "none"
    /\ pool = "closed" => OpenInbound \subseteq {taken}

\* The race has one winner, and every loser is closed when it is handed over.
RaceInv ==
    /\ accept \in {"forward", "race"} => winner = None
    /\ accept = "forward" => taken = None /\ \A o \in Outbound : outb[o] = "none"
    /\ accept \in {"race", "settle"} => \A o \in Outbound : outb[o] # "none"
    /\ accept \in {"settle", "drain", "handshake", "local", "done"} =>
          winner # None /\ (winner \in Inbound => taken = winner)
    /\ accept \in {"drain", "handshake", "local", "done"} =>
          /\ \A o \in Outbound : o # winner => outb[o] = "closed"
          /\ taken # None /\ taken # winner => inb[taken] = "closed"

\* The sockets of the race are closed.
RaceOver ==
    /\ \A o \in Outbound : outb[o] \notin {"dialling", "open"}
    /\ taken # None => inb[taken] # "open"

\* The mapping belongs to an accept task that is done; a failure that is not
\* imposed on the task from outside leaves none of its sockets.
MappingInv ==
    /\ accept # "done" => mapping = "none"
    /\ accept = "done" => mapping \in {"live", "closed"}
    /\ mapping = "closed" => outcome \in Causes
    /\ accept \in {"leaving", "failed"} /\ outcome \notin {"control", "cancelled"} => RaceOver
    /\ established /\ outcome \in Causes \ {"cancelled"} /\ opener \in {"closing", "raised"} =>
          mapping = "closed" /\ RaceOver

IInv == TypeOK /\ SetupInv /\ OpenerInv /\ ListenerInv /\ RaceInv /\ MappingInv

-----------------------------------------------------------------------------
(* The steps *)

\* The listeners are bound, or the opener raises.
LEMMA BindInv ==
  ASSUME IInv, Bind
  PROVE  IInv'
  <1> USE ConstantsAssumption DEF IInv, tasks, parts, race
  <1>1. TypeOK'
    BY DEF TypeOK, Causes, Bind
  <1>2. SetupInv'
    BY DEF SetupInv, OpenerInv, TypeOK, Bind
  <1>3. OpenerInv'
    BY DEF OpenerInv, SetupInv, TypeOK, Causes, Bind
  <1>4. ListenerInv'
    BY DEF ListenerInv, SetupInv, OpenerInv, RaceInv, OpenInbound, TypeOK, Bind
  <1>5. RaceInv'
    BY DEF RaceInv, SetupInv, ListenerInv, OpenerInv, TypeOK, Bind
  <1>6. MappingInv'
    BY DEF MappingInv, RaceOver, SetupInv, OpenerInv, RaceInv, ListenerInv, TypeOK, Causes, Bind
  <1> QED
    BY <1>1, <1>2, <1>3, <1>4, <1>5, <1>6 DEF IInv

\* The session is there and the accept task begins.
LEMMA RegisterInv ==
  ASSUME IInv, Register
  PROVE  IInv'
  <1> USE ConstantsAssumption DEF IInv, tasks, parts, race
  <1>1. TypeOK'
    BY DEF TypeOK, Causes, Register
  <1>2. SetupInv'
    BY DEF SetupInv, TypeOK, Register
  <1>3. OpenerInv'
    BY DEF OpenerInv, SetupInv, TypeOK, Causes, Register
  <1>4. ListenerInv'
    BY DEF ListenerInv, SetupInv, OpenerInv, RaceInv, OpenInbound, TypeOK, Register
  <1>5. RaceInv'
    BY DEF RaceInv, SetupInv, ListenerInv, OpenerInv, TypeOK, Register
  <1>6. MappingInv'
    BY DEF MappingInv, RaceOver, SetupInv, OpenerInv, RaceInv, ListenerInv, TypeOK, Causes,
       Register
  <1> QED
    BY <1>1, <1>2, <1>3, <1>4, <1>5, <1>6 DEF IInv

\* The registration fails, or the opener is cancelled in it.
LEMMA RegisterFailedInv ==
  ASSUME IInv, RegisterFailed
  PROVE  IInv'
  <1> USE ConstantsAssumption DEF IInv, tasks, parts, race
  <1>1. TypeOK'
    BY DEF TypeOK, Causes, RegisterFailed
  <1>2. SetupInv'
    BY DEF SetupInv, TypeOK, RegisterFailed
  <1>3. OpenerInv'
    BY DEF OpenerInv, SetupInv, TypeOK, Causes, RegisterFailed
  <1>4. ListenerInv'
    BY DEF ListenerInv, SetupInv, OpenerInv, RaceInv, OpenInbound, TypeOK, RegisterFailed
  <1>5. RaceInv'
    BY DEF RaceInv, SetupInv, ListenerInv, OpenerInv, TypeOK, RegisterFailed
  <1>6. MappingInv'
    BY DEF MappingInv, RaceOver, SetupInv, OpenerInv, RaceInv, ListenerInv, TypeOK, Causes,
       RegisterFailed
  <1> QED
    BY <1>1, <1>2, <1>3, <1>4, <1>5, <1>6 DEF IInv

\* The listeners are closed again.
LEMMA UnboundInv ==
  ASSUME IInv, Unbound
  PROVE  IInv'
  <1> USE ConstantsAssumption DEF IInv, tasks, parts, race
  <1>1. TypeOK'
    BY DEF TypeOK, Causes, Unbound
  <1>2. SetupInv'
    BY DEF SetupInv, OpenerInv, TypeOK, Unbound
  <1>3. OpenerInv'
    BY DEF OpenerInv, SetupInv, TypeOK, Causes, Unbound
  <1>4. ListenerInv'
    BY DEF ListenerInv, SetupInv, OpenerInv, RaceInv, OpenInbound, TypeOK, Unbound
  <1>5. RaceInv'
    BY DEF RaceInv, SetupInv, ListenerInv, OpenerInv, TypeOK, Unbound
  <1>6. MappingInv'
    BY DEF MappingInv, RaceOver, SetupInv, OpenerInv, RaceInv, ListenerInv, TypeOK, Causes,
       Unbound
  <1> QED
    BY <1>1, <1>2, <1>3, <1>4, <1>5, <1>6 DEF IInv

\* The camera connects.
LEMMA CameraConnectsInv ==
  ASSUME IInv, NEW i \in Inbound, CameraConnects(i)
  PROVE  IInv'
  <1> USE ConstantsAssumption DEF IInv, tasks, parts, race
  <1>1. TypeOK'
    BY DEF TypeOK, Causes, CameraConnects
  <1>2. SetupInv'
    BY DEF SetupInv, TypeOK, CameraConnects
  <1>3. OpenerInv'
    BY DEF OpenerInv, SetupInv, TypeOK, Causes, CameraConnects
  <1>4. ListenerInv'
    BY DEF ListenerInv, SetupInv, OpenerInv, RaceInv, OpenInbound, TypeOK, CameraConnects
  <1>5. RaceInv'
    BY DEF RaceInv, SetupInv, ListenerInv, OpenerInv, TypeOK, CameraConnects
  <1>6. MappingInv'
    BY DEF MappingInv, RaceOver, SetupInv, OpenerInv, RaceInv, ListenerInv, TypeOK, Causes,
       CameraConnects
  <1> QED
    BY <1>1, <1>2, <1>3, <1>4, <1>5, <1>6 DEF IInv

\* The camera drops a socket.
LEMMA CameraLeavesInv ==
  ASSUME IInv, NEW i \in Inbound, CameraLeaves(i)
  PROVE  IInv'
  <1> USE ConstantsAssumption DEF IInv, tasks, parts, race
  <1>1. TypeOK'
    BY DEF TypeOK, Causes, CameraLeaves
  <1>2. SetupInv'
    BY DEF SetupInv, TypeOK, CameraLeaves
  <1>3. OpenerInv'
    BY DEF OpenerInv, SetupInv, TypeOK, Causes, CameraLeaves
  <1>4. ListenerInv'
    BY DEF ListenerInv, SetupInv, OpenerInv, RaceInv, OpenInbound, TypeOK, CameraLeaves
  <1>5. RaceInv'
    BY DEF RaceInv, SetupInv, ListenerInv, OpenerInv, TypeOK, CameraLeaves
  <1>6. MappingInv'
    BY DEF MappingInv, RaceOver, SetupInv, OpenerInv, RaceInv, ListenerInv, TypeOK, Causes,
       CameraLeaves
  <1> QED
    BY <1>1, <1>2, <1>3, <1>4, <1>5, <1>6 DEF IInv

\* The servers are closed, with the sockets nobody took.
LEMMA PoolClosesInv ==
  ASSUME IInv, PoolCloses
  PROVE  IInv'
  <1> USE ConstantsAssumption DEF IInv, tasks, parts, race
  <1>1. TypeOK'
    BY DEF TypeOK, Causes, PoolCloses, OpenInbound
  <1>2. SetupInv'
    BY DEF SetupInv, TypeOK, PoolCloses, OpenInbound
  <1>3. OpenerInv'
    BY DEF OpenerInv, SetupInv, TypeOK, Causes, PoolCloses, OpenInbound
  <1>4. ListenerInv'
    BY DEF ListenerInv, SetupInv, OpenerInv, RaceInv, OpenInbound, TypeOK, PoolCloses, OpenInbound
  <1>5. RaceInv'
    BY DEF RaceInv, SetupInv, ListenerInv, OpenerInv, TypeOK, PoolCloses, OpenInbound
  <1>6. MappingInv'
    BY DEF MappingInv, RaceOver, SetupInv, OpenerInv, RaceInv, ListenerInv, TypeOK, Causes,
       PoolCloses, OpenInbound
  <1> QED
    BY <1>1, <1>2, <1>3, <1>4, <1>5, <1>6 DEF IInv

\* The candidates of the camera are known.
LEMMA ForwardedInv ==
  ASSUME IInv, Forwarded
  PROVE  IInv'
  <1> USE ConstantsAssumption DEF IInv, tasks, parts, race
  <1>1. TypeOK'
    BY DEF TypeOK, Causes, Forwarded
  <1>2. SetupInv'
    BY DEF SetupInv, TypeOK, Forwarded
  <1>3. OpenerInv'
    BY DEF OpenerInv, SetupInv, TypeOK, Causes, Forwarded
  <1>4. ListenerInv'
    BY DEF ListenerInv, SetupInv, OpenerInv, RaceInv, OpenInbound, TypeOK, Forwarded
  <1>5. RaceInv'
    BY DEF RaceInv, SetupInv, ListenerInv, OpenerInv, TypeOK, Forwarded
  <1>6. MappingInv'
    BY DEF MappingInv, RaceOver, SetupInv, OpenerInv, RaceInv, ListenerInv, TypeOK, Causes,
       Forwarded
  <1> QED
    BY <1>1, <1>2, <1>3, <1>4, <1>5, <1>6 DEF IInv

\* They never arrive.
LEMMA ForwardFailedInv ==
  ASSUME IInv, ForwardFailed
  PROVE  IInv'
  <1> USE ConstantsAssumption DEF IInv, tasks, parts, race
  <1>1. TypeOK'
    BY DEF TypeOK, Causes, ForwardFailed, BeginListenerClose
  <1>2. SetupInv'
    BY DEF SetupInv, TypeOK, ForwardFailed, BeginListenerClose
  <1>3. OpenerInv'
    BY DEF OpenerInv, SetupInv, TypeOK, Causes, ForwardFailed, BeginListenerClose
  <1>4. ListenerInv'
    BY DEF ListenerInv, SetupInv, OpenerInv, RaceInv, OpenInbound, TypeOK, ForwardFailed,
       BeginListenerClose
  <1>5. RaceInv'
    BY DEF RaceInv, SetupInv, ListenerInv, OpenerInv, TypeOK, ForwardFailed, BeginListenerClose
  <1>6. MappingInv'
    BY DEF MappingInv, RaceOver, SetupInv, OpenerInv, RaceInv, ListenerInv, TypeOK, Causes,
       ForwardFailed, BeginListenerClose
  <1> QED
    BY <1>1, <1>2, <1>3, <1>4, <1>5, <1>6 DEF IInv

\* The race takes an inbound socket.
LEMMA RaceAcceptsInv ==
  ASSUME IInv, NEW i \in Inbound, RaceAccepts(i)
  PROVE  IInv'
  <1> USE ConstantsAssumption DEF IInv, tasks, parts, race
  <1>1. TypeOK'
    BY DEF TypeOK, Causes, RaceAccepts
  <1>2. SetupInv'
    BY DEF SetupInv, TypeOK, RaceAccepts
  <1>3. OpenerInv'
    BY DEF OpenerInv, SetupInv, TypeOK, Causes, RaceAccepts
  <1>4. ListenerInv'
    BY DEF ListenerInv, SetupInv, OpenerInv, RaceInv, OpenInbound, TypeOK, RaceAccepts
  <1>5. RaceInv'
    BY DEF RaceInv, SetupInv, ListenerInv, OpenerInv, TypeOK, RaceAccepts
  <1>6. MappingInv'
    BY DEF MappingInv, RaceOver, SetupInv, OpenerInv, RaceInv, ListenerInv, TypeOK, Causes,
       RaceAccepts
  <1> QED
    BY <1>1, <1>2, <1>3, <1>4, <1>5, <1>6 DEF IInv

\* A dial ends.
LEMMA RaceDialsInv ==
  ASSUME IInv, NEW o \in Outbound, RaceDials(o)
  PROVE  IInv'
  <1> USE ConstantsAssumption DEF IInv, tasks, parts, race
  <1>1. TypeOK'
    BY DEF TypeOK, Causes, RaceDials
  <1>2. SetupInv'
    BY DEF SetupInv, TypeOK, RaceDials
  <1>3. OpenerInv'
    BY DEF OpenerInv, SetupInv, TypeOK, Causes, RaceDials
  <1>4. ListenerInv'
    BY DEF ListenerInv, SetupInv, OpenerInv, RaceInv, OpenInbound, TypeOK, RaceDials
  <1>5. RaceInv'
    BY DEF RaceInv, SetupInv, ListenerInv, OpenerInv, TypeOK, RaceDials
  <1>6. MappingInv'
    BY DEF MappingInv, RaceOver, SetupInv, OpenerInv, RaceInv, ListenerInv, TypeOK, Causes,
       RaceDials
  <1> QED
    BY <1>1, <1>2, <1>3, <1>4, <1>5, <1>6 DEF IInv

\* A dial fails.
LEMMA RaceDialFailsInv ==
  ASSUME IInv, NEW o \in Outbound, RaceDialFails(o)
  PROVE  IInv'
  <1> USE ConstantsAssumption DEF IInv, tasks, parts, race
  <1>1. TypeOK'
    BY DEF TypeOK, Causes, RaceDialFails
  <1>2. SetupInv'
    BY DEF SetupInv, TypeOK, RaceDialFails
  <1>3. OpenerInv'
    BY DEF OpenerInv, SetupInv, TypeOK, Causes, RaceDialFails
  <1>4. ListenerInv'
    BY DEF ListenerInv, SetupInv, OpenerInv, RaceInv, OpenInbound, TypeOK, RaceDialFails
  <1>5. RaceInv'
    BY DEF RaceInv, SetupInv, ListenerInv, OpenerInv, TypeOK, RaceDialFails
  <1>6. MappingInv'
    BY DEF MappingInv, RaceOver, SetupInv, OpenerInv, RaceInv, ListenerInv, TypeOK, Causes,
       RaceDialFails
  <1> QED
    BY <1>1, <1>2, <1>3, <1>4, <1>5, <1>6 DEF IInv

\* The race has a winner.
LEMMA RaceWonInv ==
  ASSUME IInv, NEW w \in Inbound \cup Outbound, RaceWon(w)
  PROVE  IInv'
  <1> USE ConstantsAssumption DEF IInv, tasks, parts, race
  <1>1. TypeOK'
    BY DEF TypeOK, Causes, RaceWon
  <1>2. SetupInv'
    BY DEF SetupInv, TypeOK, RaceWon
  <1>3. OpenerInv'
    BY DEF OpenerInv, SetupInv, TypeOK, Causes, RaceWon
  <1>4. ListenerInv'
    BY DEF ListenerInv, SetupInv, OpenerInv, RaceInv, OpenInbound, TypeOK, RaceWon
  <1>5. RaceInv'
    BY DEF RaceInv, SetupInv, ListenerInv, OpenerInv, TypeOK, RaceWon
  <1>6. MappingInv'
    BY DEF MappingInv, RaceOver, SetupInv, OpenerInv, RaceInv, ListenerInv, TypeOK, Causes,
       RaceWon
  <1> QED
    BY <1>1, <1>2, <1>3, <1>4, <1>5, <1>6 DEF IInv

\* The losers are closed.
LEMMA RaceSettledInv ==
  ASSUME IInv, RaceSettled
  PROVE  IInv'
  <1> USE ConstantsAssumption DEF IInv, tasks, parts, race
  <1>1. TypeOK'
    BY DEF TypeOK, Causes, RaceSettled, CloseRaced, BeginListenerClose
  <1>2. SetupInv'
    BY DEF SetupInv, TypeOK, RaceSettled, CloseRaced, BeginListenerClose
  <1>3. OpenerInv'
    BY DEF OpenerInv, SetupInv, TypeOK, Causes, RaceSettled, CloseRaced, BeginListenerClose
  <1>4. ListenerInv'
    BY DEF ListenerInv, SetupInv, OpenerInv, RaceInv, OpenInbound, TypeOK, RaceSettled,
       CloseRaced, BeginListenerClose
  <1>5. RaceInv'
    BY DEF RaceInv, SetupInv, ListenerInv, OpenerInv, TypeOK, RaceSettled, CloseRaced,
       BeginListenerClose
  <1>6. MappingInv'
    BY DEF MappingInv, RaceOver, SetupInv, OpenerInv, RaceInv, ListenerInv, TypeOK, Causes,
       RaceSettled, CloseRaced, BeginListenerClose
  <1> QED
    BY <1>1, <1>2, <1>3, <1>4, <1>5, <1>6 DEF IInv

\* The race has no winner.
LEMMA RaceTimeoutInv ==
  ASSUME IInv, RaceTimeout
  PROVE  IInv'
  <1> USE ConstantsAssumption DEF IInv, tasks, parts, race
  <1>1. TypeOK'
    BY DEF TypeOK, Causes, RaceTimeout, CloseRaced, BeginListenerClose
  <1>2. SetupInv'
    BY DEF SetupInv, TypeOK, RaceTimeout, CloseRaced, BeginListenerClose
  <1>3. OpenerInv'
    BY DEF OpenerInv, SetupInv, TypeOK, Causes, RaceTimeout, CloseRaced, BeginListenerClose
  <1>4. ListenerInv'
    BY DEF ListenerInv, SetupInv, OpenerInv, RaceInv, OpenInbound, TypeOK, RaceTimeout,
       CloseRaced, BeginListenerClose
  <1>5. RaceInv'
    BY DEF RaceInv, SetupInv, ListenerInv, OpenerInv, TypeOK, RaceTimeout, CloseRaced,
       BeginListenerClose
  <1>6. MappingInv'
    BY DEF MappingInv, RaceOver, SetupInv, OpenerInv, RaceInv, ListenerInv, TypeOK, Causes,
       RaceTimeout, CloseRaced, BeginListenerClose
  <1> QED
    BY <1>1, <1>2, <1>3, <1>4, <1>5, <1>6 DEF IInv

\* The listener is closed.
LEMMA DrainedInv ==
  ASSUME IInv, Drained
  PROVE  IInv'
  <1> USE ConstantsAssumption DEF IInv, tasks, parts, race
  <1>1. TypeOK'
    BY DEF TypeOK, Causes, Drained, ListenerSettled
  <1>2. SetupInv'
    BY DEF SetupInv, TypeOK, Drained, ListenerSettled
  <1>3. OpenerInv'
    BY DEF OpenerInv, SetupInv, TypeOK, Causes, Drained, ListenerSettled
  <1>4. ListenerInv'
    BY DEF ListenerInv, SetupInv, OpenerInv, RaceInv, OpenInbound, TypeOK, Drained, ListenerSettled
  <1>5. RaceInv'
    BY DEF RaceInv, SetupInv, ListenerInv, OpenerInv, TypeOK, Drained, ListenerSettled
  <1>6. MappingInv'
    BY DEF MappingInv, RaceOver, SetupInv, OpenerInv, RaceInv, ListenerInv, TypeOK, Causes,
       Drained, ListenerSettled
  <1> QED
    BY <1>1, <1>2, <1>3, <1>4, <1>5, <1>6 DEF IInv

\* The winner is authenticated.
LEMMA HandshakenInv ==
  ASSUME IInv, Handshaken
  PROVE  IInv'
  <1> USE ConstantsAssumption DEF IInv, tasks, parts, race
  <1>1. TypeOK'
    BY DEF TypeOK, Causes, Handshaken
  <1>2. SetupInv'
    BY DEF SetupInv, TypeOK, Handshaken
  <1>3. OpenerInv'
    BY DEF OpenerInv, SetupInv, TypeOK, Causes, Handshaken
  <1>4. ListenerInv'
    BY DEF ListenerInv, SetupInv, OpenerInv, RaceInv, OpenInbound, TypeOK, Handshaken
  <1>5. RaceInv'
    BY DEF RaceInv, SetupInv, ListenerInv, OpenerInv, TypeOK, Handshaken
  <1>6. MappingInv'
    BY DEF MappingInv, RaceOver, SetupInv, OpenerInv, RaceInv, ListenerInv, TypeOK, Causes,
       Handshaken
  <1> QED
    BY <1>1, <1>2, <1>3, <1>4, <1>5, <1>6 DEF IInv

\* The mapping is there.
LEMMA MappedInv ==
  ASSUME IInv, Mapped
  PROVE  IInv'
  <1> USE ConstantsAssumption DEF IInv, tasks, parts, race
  <1>1. TypeOK'
    BY DEF TypeOK, Causes, Mapped
  <1>2. SetupInv'
    BY DEF SetupInv, TypeOK, Mapped
  <1>3. OpenerInv'
    BY DEF OpenerInv, SetupInv, TypeOK, Causes, Mapped
  <1>4. ListenerInv'
    BY DEF ListenerInv, SetupInv, OpenerInv, RaceInv, OpenInbound, TypeOK, Mapped
  <1>5. RaceInv'
    BY DEF RaceInv, SetupInv, ListenerInv, OpenerInv, TypeOK, Mapped
  <1>6. MappingInv'
    BY DEF MappingInv, RaceOver, SetupInv, OpenerInv, RaceInv, ListenerInv, TypeOK, Causes, Mapped
  <1> QED
    BY <1>1, <1>2, <1>3, <1>4, <1>5, <1>6 DEF IInv

\* The winner is closed.
LEMMA HandshakeFailedInv ==
  ASSUME IInv, HandshakeFailed
  PROVE  IInv'
  <1> USE ConstantsAssumption DEF IInv, tasks, parts, race
  <1>1. TypeOK'
    BY DEF TypeOK, Causes, HandshakeFailed, CloseWinner
  <1>2. SetupInv'
    BY DEF SetupInv, TypeOK, HandshakeFailed, CloseWinner
  <1>3. OpenerInv'
    BY DEF OpenerInv, SetupInv, TypeOK, Causes, HandshakeFailed, CloseWinner
  <1>4. ListenerInv'
    BY DEF ListenerInv, SetupInv, OpenerInv, RaceInv, OpenInbound, TypeOK, HandshakeFailed,
       CloseWinner
  <1>5. RaceInv'
    BY DEF RaceInv, SetupInv, ListenerInv, OpenerInv, TypeOK, HandshakeFailed, CloseWinner
  <1>6. MappingInv'
    BY DEF MappingInv, RaceOver, SetupInv, OpenerInv, RaceInv, ListenerInv, TypeOK, Causes,
       HandshakeFailed, CloseWinner
  <1> QED
    BY <1>1, <1>2, <1>3, <1>4, <1>5, <1>6 DEF IInv

\* The accept task has failed.
LEMMA AcceptLeavesInv ==
  ASSUME IInv, AcceptLeaves
  PROVE  IInv'
  <1> USE ConstantsAssumption DEF IInv, tasks, parts, race
  <1>1. TypeOK'
    BY DEF TypeOK, Causes, AcceptLeaves, ListenerSettled
  <1>2. SetupInv'
    BY DEF SetupInv, TypeOK, AcceptLeaves, ListenerSettled
  <1>3. OpenerInv'
    BY DEF OpenerInv, SetupInv, TypeOK, Causes, AcceptLeaves, ListenerSettled
  <1>4. ListenerInv'
    BY DEF ListenerInv, SetupInv, OpenerInv, RaceInv, OpenInbound, TypeOK, AcceptLeaves,
       ListenerSettled
  <1>5. RaceInv'
    BY DEF RaceInv, SetupInv, ListenerInv, OpenerInv, TypeOK, AcceptLeaves, ListenerSettled
  <1>6. MappingInv'
    BY DEF MappingInv, RaceOver, SetupInv, OpenerInv, RaceInv, ListenerInv, TypeOK, Causes,
       AcceptLeaves, ListenerSettled
  <1> QED
    BY <1>1, <1>2, <1>3, <1>4, <1>5, <1>6 DEF IInv

\* The control connection is there.
LEMMA ControlConnectedInv ==
  ASSUME IInv, ControlConnected
  PROVE  IInv'
  <1> USE ConstantsAssumption DEF IInv, tasks, parts, race
  <1>1. TypeOK'
    BY DEF TypeOK, Causes, ControlConnected
  <1>2. SetupInv'
    BY DEF SetupInv, TypeOK, ControlConnected
  <1>3. OpenerInv'
    BY DEF OpenerInv, SetupInv, TypeOK, Causes, ControlConnected
  <1>4. ListenerInv'
    BY DEF ListenerInv, SetupInv, OpenerInv, RaceInv, OpenInbound, TypeOK, ControlConnected
  <1>5. RaceInv'
    BY DEF RaceInv, SetupInv, ListenerInv, OpenerInv, TypeOK, ControlConnected
  <1>6. MappingInv'
    BY DEF MappingInv, RaceOver, SetupInv, OpenerInv, RaceInv, ListenerInv, TypeOK, Causes,
       ControlConnected
  <1> QED
    BY <1>1, <1>2, <1>3, <1>4, <1>5, <1>6 DEF IInv

\* The control exchange is over.
LEMMA ControlDoneInv ==
  ASSUME IInv, ControlDone
  PROVE  IInv'
  <1> USE ConstantsAssumption DEF IInv, tasks, parts, race
  <1>1. TypeOK'
    BY DEF TypeOK, Causes, ControlDone
  <1>2. SetupInv'
    BY DEF SetupInv, TypeOK, ControlDone
  <1>3. OpenerInv'
    BY DEF OpenerInv, SetupInv, TypeOK, Causes, ControlDone
  <1>4. ListenerInv'
    BY DEF ListenerInv, SetupInv, OpenerInv, RaceInv, OpenInbound, TypeOK, ControlDone
  <1>5. RaceInv'
    BY DEF RaceInv, SetupInv, ListenerInv, OpenerInv, TypeOK, ControlDone
  <1>6. MappingInv'
    BY DEF MappingInv, RaceOver, SetupInv, OpenerInv, RaceInv, ListenerInv, TypeOK, Causes,
       ControlDone
  <1> QED
    BY <1>1, <1>2, <1>3, <1>4, <1>5, <1>6 DEF IInv

\* Both tasks are over, and the mapping is remembered.
LEMMA BothDoneInv ==
  ASSUME IInv, BothDone
  PROVE  IInv'
  <1> USE ConstantsAssumption DEF IInv, tasks, parts, race
  <1>1. TypeOK'
    <2>1. CASE Authenticates
      BY <2>1 DEF TypeOK, Causes, BothDone
    <2>2. CASE ~Authenticates
      BY <2>2 DEF TypeOK, Causes, BothDone, BeginListenerClose
    <2> QED
      BY <2>1, <2>2
  <1>2. SetupInv'
    BY DEF SetupInv, TypeOK, BothDone, BeginListenerClose
  <1>3. OpenerInv'
    BY DEF OpenerInv, SetupInv, TypeOK, Causes, BothDone, BeginListenerClose
  <1>4. ListenerInv'
    BY DEF ListenerInv, SetupInv, OpenerInv, RaceInv, OpenInbound, TypeOK, BothDone,
       BeginListenerClose
  <1>5. RaceInv'
    BY DEF RaceInv, SetupInv, ListenerInv, OpenerInv, TypeOK, BothDone, BeginListenerClose
  <1>6. MappingInv'
    BY DEF MappingInv, RaceOver, SetupInv, OpenerInv, RaceInv, ListenerInv, TypeOK, Causes,
       BothDone, BeginListenerClose
  <1> QED
    BY <1>1, <1>2, <1>3, <1>4, <1>5, <1>6 DEF IInv

\* The camera has authenticated.
LEMMA AuthenticatedInv ==
  ASSUME IInv, Authenticated
  PROVE  IInv'
  <1> USE ConstantsAssumption DEF IInv, tasks, parts, race
  <1>1. TypeOK'
    BY DEF TypeOK, Causes, Authenticated, BeginListenerClose
  <1>2. SetupInv'
    BY DEF SetupInv, TypeOK, Authenticated, BeginListenerClose
  <1>3. OpenerInv'
    BY DEF OpenerInv, SetupInv, TypeOK, Causes, Authenticated, BeginListenerClose
  <1>4. ListenerInv'
    BY DEF ListenerInv, SetupInv, OpenerInv, RaceInv, OpenInbound, TypeOK, Authenticated,
       BeginListenerClose
  <1>5. RaceInv'
    BY DEF RaceInv, SetupInv, ListenerInv, OpenerInv, TypeOK, Authenticated, BeginListenerClose
  <1>6. MappingInv'
    BY DEF MappingInv, RaceOver, SetupInv, OpenerInv, RaceInv, ListenerInv, TypeOK, Causes,
       Authenticated, BeginListenerClose
  <1> QED
    BY <1>1, <1>2, <1>3, <1>4, <1>5, <1>6 DEF IInv

\* The opener cancels what still runs.
LEMMA OpenerStopsInv ==
  ASSUME IInv, NEW cause \in Causes, OpenerStops(cause)
  PROVE  IInv'
  <1> USE ConstantsAssumption DEF IInv, tasks, parts, race
  <1>1. TypeOK'
    <2>1. CASE accept = "forward"
      BY <2>1 DEF TypeOK, Causes, OpenerStops, CancelAccept, BeginListenerClose, CloseRaced,
         CloseWinner
    <2>2. CASE accept = "race"
      BY <2>2 DEF TypeOK, Causes, OpenerStops, CancelAccept, BeginListenerClose, CloseRaced,
         CloseWinner
    <2>3. CASE accept = "settle"
      BY <2>3 DEF TypeOK, Causes, OpenerStops, CancelAccept, BeginListenerClose, CloseRaced,
         CloseWinner
    <2>4. CASE accept = "drain"
      BY <2>4 DEF TypeOK, Causes, OpenerStops, CancelAccept, BeginListenerClose, CloseRaced,
         CloseWinner
    <2>5. CASE accept \in {"handshake", "local"}
      BY <2>5 DEF TypeOK, Causes, OpenerStops, CancelAccept, BeginListenerClose, CloseRaced,
         CloseWinner
    <2>6. CASE accept = "leaving"
      BY <2>6 DEF TypeOK, Causes, OpenerStops, CancelAccept, BeginListenerClose, CloseRaced,
         CloseWinner
    <2>7. CASE accept \in {"none", "done", "failed"}
      BY <2>7 DEF TypeOK, Causes, OpenerStops, CancelAccept, BeginListenerClose, CloseRaced,
         CloseWinner
    <2> QED
      BY <2>1, <2>2, <2>3, <2>4, <2>5, <2>6, <2>7 DEF TypeOK
  <1>2. SetupInv'
    <2>1. accept' # "none"
      BY DEF OpenerStops, OpenerFails, OpenerInv, SetupInv, TypeOK, Causes, CancelAccept
    <2> QED
      BY <2>1 DEF SetupInv
  <1>3. OpenerInv'
    BY DEF OpenerInv, SetupInv, TypeOK, Causes, OpenerStops, OpenerFails, CancelAccept,
       BeginListenerClose, CloseRaced, CloseWinner
  <1>4. ListenerInv'
    <2>1. CASE accept = "forward"
      BY <2>1 DEF ListenerInv, SetupInv, OpenerInv, RaceInv, OpenInbound, TypeOK, Causes,
         OpenerStops, OpenerFails, CancelAccept, BeginListenerClose, CloseRaced, CloseWinner
    <2>2. CASE accept = "race"
      BY <2>2 DEF ListenerInv, SetupInv, OpenerInv, RaceInv, OpenInbound, TypeOK, Causes,
         OpenerStops, OpenerFails, CancelAccept, BeginListenerClose, CloseRaced, CloseWinner
    <2>3. CASE accept = "settle"
      BY <2>3 DEF ListenerInv, SetupInv, OpenerInv, RaceInv, OpenInbound, TypeOK, Causes,
         OpenerStops, OpenerFails, CancelAccept, BeginListenerClose, CloseRaced, CloseWinner
    <2>4. CASE accept = "drain"
      BY <2>4 DEF ListenerInv, SetupInv, OpenerInv, RaceInv, OpenInbound, TypeOK, Causes,
         OpenerStops, OpenerFails, CancelAccept, BeginListenerClose, CloseRaced, CloseWinner
    <2>5. CASE accept \in {"handshake", "local"}
      BY <2>5 DEF ListenerInv, SetupInv, OpenerInv, RaceInv, OpenInbound, TypeOK, Causes,
         OpenerStops, OpenerFails, CancelAccept, BeginListenerClose, CloseRaced, CloseWinner
    <2>6. CASE accept = "leaving"
      BY <2>6 DEF ListenerInv, SetupInv, OpenerInv, RaceInv, OpenInbound, TypeOK, Causes,
         OpenerStops, OpenerFails, CancelAccept, BeginListenerClose, CloseRaced, CloseWinner
    <2>7. CASE accept \in {"none", "done", "failed"}
      BY <2>7 DEF ListenerInv, SetupInv, OpenerInv, RaceInv, OpenInbound, TypeOK, Causes,
         OpenerStops, OpenerFails, CancelAccept, BeginListenerClose, CloseRaced, CloseWinner
    <2> QED
      BY <2>1, <2>2, <2>3, <2>4, <2>5, <2>6, <2>7 DEF TypeOK
  <1>5. RaceInv'
    BY DEF RaceInv, SetupInv, ListenerInv, OpenerInv, TypeOK, OpenerStops, OpenerFails,
       CancelAccept, BeginListenerClose, CloseRaced, CloseWinner
  <1>6. MappingInv'
    BY DEF MappingInv, RaceOver, SetupInv, OpenerInv, RaceInv, ListenerInv, TypeOK, Causes,
       OpenerStops, OpenerFails, CancelAccept, BeginListenerClose, CloseRaced, CloseWinner
  <1> QED
    BY <1>1, <1>2, <1>3, <1>4, <1>5, <1>6 DEF IInv

\* Both tasks are over after a failure.
LEMMA OpenerStoppedInv ==
  ASSUME IInv, OpenerStopped
  PROVE  IInv'
  <1> USE ConstantsAssumption DEF IInv, tasks, parts, race
  <1>1. TypeOK'
    <2>1. CASE established
      BY <2>1 DEF TypeOK, Causes, OpenerStopped
    <2>2. CASE ~established
      BY <2>2 DEF TypeOK, Causes, OpenerStopped, BeginListenerClose
    <2> QED
      BY <2>1, <2>2
  <1>2. SetupInv'
    BY DEF SetupInv, OpenerInv, TypeOK, OpenerStopped, BeginListenerClose
  <1>3. OpenerInv'
    BY DEF OpenerInv, SetupInv, ListenerInv, TypeOK, Causes, OpenerStopped, BeginListenerClose
  <1>4. ListenerInv'
    BY DEF ListenerInv, SetupInv, OpenerInv, RaceInv, OpenInbound, TypeOK, OpenerStopped, BeginListenerClose
  <1>5. RaceInv'
    BY DEF RaceInv, SetupInv, ListenerInv, OpenerInv, TypeOK, OpenerStopped, BeginListenerClose
  <1>6. MappingInv'
    BY DEF MappingInv, RaceOver, SetupInv, OpenerInv, RaceInv, ListenerInv, TypeOK, Causes,
       OpenerStopped, BeginListenerClose
  <1> QED
    BY <1>1, <1>2, <1>3, <1>4, <1>5, <1>6 DEF IInv

\* The mapping of a failed opener is closed.
LEMMA UnmappedInv ==
  ASSUME IInv, Unmapped
  PROVE  IInv'
  <1> USE ConstantsAssumption DEF IInv, tasks, parts, race
  <1>1. TypeOK'
    BY DEF TypeOK, Causes, Unmapped, CloseWinner, BeginListenerClose
  <1>2. SetupInv'
    BY DEF SetupInv, OpenerInv, TypeOK, Unmapped, CloseWinner, BeginListenerClose
  <1>3. OpenerInv'
    BY DEF OpenerInv, SetupInv, ListenerInv, TypeOK, Causes, Unmapped, CloseWinner, BeginListenerClose
  <1>4. ListenerInv'
    BY DEF ListenerInv, SetupInv, OpenerInv, RaceInv, OpenInbound, TypeOK, Unmapped, CloseWinner, BeginListenerClose
  <1>5. RaceInv'
    BY DEF RaceInv, SetupInv, ListenerInv, OpenerInv, TypeOK, Unmapped, CloseWinner, BeginListenerClose
  <1>6. MappingInv'
    BY DEF MappingInv, RaceOver, SetupInv, OpenerInv, RaceInv, ListenerInv, TypeOK, Causes,
       Unmapped, CloseWinner, BeginListenerClose
  <1> QED
    BY <1>1, <1>2, <1>3, <1>4, <1>5, <1>6 DEF IInv

\* The opener returns or raises.
LEMMA OpenerEndsInv ==
  ASSUME IInv, OpenerEnds
  PROVE  IInv'
  <1> USE ConstantsAssumption DEF IInv, tasks, parts, race
  <1>1. TypeOK'
    BY DEF TypeOK, Causes, OpenerEnds, Verdict, ListenerSettled
  <1>2. SetupInv'
    BY DEF SetupInv, TypeOK, OpenerEnds, Verdict, ListenerSettled
  <1>3. OpenerInv'
    <2>1. CASE outcome = "return"
      BY <2>1 DEF OpenerInv, SetupInv, ListenerInv, TypeOK, Causes, OpenerEnds, Verdict,
         ListenerSettled
    <2>2. CASE outcome # "return"
      BY <2>2 DEF OpenerInv, SetupInv, ListenerInv, TypeOK, Causes, OpenerEnds, Verdict,
         ListenerSettled
    <2> QED
      BY <2>1, <2>2
  <1>4. ListenerInv'
    BY DEF ListenerInv, SetupInv, OpenerInv, RaceInv, OpenInbound, TypeOK, OpenerEnds, Verdict,
       ListenerSettled
  <1>5. RaceInv'
    BY DEF RaceInv, SetupInv, ListenerInv, OpenerInv, TypeOK, OpenerEnds, Verdict, ListenerSettled
  <1>6. MappingInv'
    BY DEF MappingInv, RaceOver, SetupInv, OpenerInv, RaceInv, ListenerInv, TypeOK, Causes,
       OpenerEnds, Verdict, ListenerSettled
  <1> QED
    BY <1>1, <1>2, <1>3, <1>4, <1>5, <1>6 DEF IInv

\* The opener is cancelled in its cleanup.
LEMMA CleanupCancelledInv ==
  ASSUME IInv, CleanupCancelled
  PROVE  IInv'
  <1> USE ConstantsAssumption DEF IInv, tasks, parts, race
  <1>1. TypeOK'
    <2>1. CASE opener = "stopping" /\ ~established /\ accept = "leaving"
      BY <2>1 DEF TypeOK, Causes, CleanupCancelled, CancelAccept
    <2>2. CASE opener = "stopping" /\ ~established /\ accept # "leaving"
      BY <2>2 DEF OpenerInv, TypeOK, Causes, CleanupCancelled, CancelAccept
    <2>3. CASE opener \in {"stopping", "unmapping"} /\ established
      <3>1. /\ opener' = "closing" /\ outcome' = "cancelled" /\ BeginListenerClose
            /\ UNCHANGED <<accept, controlSock, inb, outb, established, control, winner, taken,
                           mapping>>
        BY <2>3 DEF CleanupCancelled
      <3> QED
        BY <3>1 DEF TypeOK, Causes, BeginListenerClose
    <2>4. CASE opener \in {"closing", "unbind"}
      BY <2>4 DEF TypeOK, Causes, CleanupCancelled
    <2> QED
      BY <2>1, <2>2, <2>3, <2>4 DEF CleanupCancelled
  <1>2. SetupInv'
    BY DEF SetupInv, OpenerInv, TypeOK, CleanupCancelled, CancelAccept, BeginListenerClose, CloseRaced, CloseWinner
  <1>3. OpenerInv'
    BY DEF OpenerInv, SetupInv, ListenerInv, TypeOK, Causes, CleanupCancelled, CancelAccept, BeginListenerClose, CloseRaced, CloseWinner
  <1>4. ListenerInv'
    BY DEF ListenerInv, SetupInv, OpenerInv, RaceInv, OpenInbound, TypeOK, CleanupCancelled, CancelAccept, BeginListenerClose, CloseRaced, CloseWinner
  <1>5. RaceInv'
    BY DEF RaceInv, SetupInv, ListenerInv, OpenerInv, TypeOK, CleanupCancelled, CancelAccept, BeginListenerClose, CloseRaced, CloseWinner
  <1>6. MappingInv'
    BY DEF MappingInv, RaceOver, SetupInv, OpenerInv, RaceInv, ListenerInv, TypeOK, Causes,
       CleanupCancelled, CancelAccept, BeginListenerClose, CloseRaced, CloseWinner
  <1> QED
    BY <1>1, <1>2, <1>3, <1>4, <1>5, <1>6 DEF IInv

-----------------------------------------------------------------------------
(* The theorems *)

\* The invariant holds at the start.
LEMMA InitInv == Init => IInv
BY ConstantsAssumption DEF Init, IInv, TypeOK, Causes, SetupInv, OpenerInv, ListenerInv, RaceInv,
   MappingInv, RaceOver, OpenInbound

\* A step that changes nothing preserves the invariant.
LEMMA StutterInv == IInv /\ UNCHANGED vars => IInv'
BY DEF IInv, TypeOK, SetupInv, OpenerInv, ListenerInv, RaceInv, MappingInv, RaceOver, OpenInbound,
   vars, tasks, parts, race

\* Every step preserves the invariant.
LEMMA NextInv == IInv /\ [Next]_vars => IInv'
  <1> SUFFICES ASSUME IInv, [Next]_vars PROVE IInv'
    OBVIOUS
  <1>1. CASE Setup
    BY <1>1, BindInv, RegisterInv, RegisterFailedInv, UnboundInv, PoolClosesInv DEF Setup
  <1>2. CASE \E i \in Inbound : CameraConnects(i) \/ CameraLeaves(i)
    BY <1>2, CameraConnectsInv, CameraLeavesInv
  <1>3. CASE Racing
    BY <1>3, RaceAcceptsInv, RaceDialsInv, RaceDialFailsInv, RaceWonInv, RaceSettledInv,
       RaceTimeoutInv DEF Racing
  <1>4. CASE Accepting
    BY <1>4, ForwardedInv, ForwardFailedInv, DrainedInv, HandshakenInv, MappedInv,
       HandshakeFailedInv, AcceptLeavesInv DEF Accepting
  <1>5. CASE ControlDone
    BY <1>5, ControlDoneInv
  <1>6. CASE Owner
    BY <1>6, ControlConnectedInv, BothDoneInv, AuthenticatedInv, OpenerStopsInv,
       OpenerStoppedInv, UnmappedInv, OpenerEndsInv DEF Owner
  <1>7. CASE CleanupCancelled
    BY <1>7, CleanupCancelledInv
  <1>8. CASE UNCHANGED vars
    BY <1>8, StutterInv
  <1> QED
    BY <1>1, <1>2, <1>3, <1>4, <1>5, <1>6, <1>7, <1>8 DEF Next

\* The inductive invariant holds in every state.
THEOREM Invariance == Spec => []IInv
BY InitInv, NextInv, PTL DEF Spec

\* Every variable keeps its type.
THEOREM TypeCorrect == Spec => []TypeOK
<1>1. IInv => TypeOK
  BY DEF IInv
<1> QED
  BY <1>1, Invariance, PTL

\* The race hands over one socket, and every other candidate is closed by then
\* (orbweb/direct_race.py:25-90).
THEOREM OneSocketWinsTheorem == Spec => []OneSocketWins
<1>1. IInv => OneSocketWins
  BY DEF IInv, RaceInv, OneSocketWins, TypeOK
<1> QED
  BY <1>1, Invariance, PTL

\* What the opener returns is a live mapping on its own socket, and nothing else
\* that it or its tasks opened is left (orbweb/lan_client.py:46-156).
THEOREM ReturnsOnlyTheMappingTheorem == Spec => []ReturnsOnlyTheMapping
<1>1. ASSUME IInv, opener = "returned" PROVE ReturnsOnlyTheMapping
  <2>1. outcome = "return" /\ established /\ accept = "done"
    BY <1>1 DEF IInv, OpenerInv
  <2>2. mapping = "live" /\ pool = "closed" /\ session = "closed" /\ controlSock = "closed"
    BY <1>1, <2>1 DEF IInv, OpenerInv, ListenerInv, MappingInv, Causes
  <2>3. OpenInbound \subseteq {winner}
    BY <1>1, <2>1, <2>2, ConstantsAssumption DEF IInv, ListenerInv, RaceInv, OpenInbound, TypeOK
  <2>4. {o \in Outbound : outb[o] \in {"dialling", "open"}} \subseteq {winner}
    BY <1>1, <2>1 DEF IInv, RaceInv
  <2> QED
    BY <2>1, <2>2, <2>3, <2>4 DEF ReturnsOnlyTheMapping, OpenSockets
<1>2. IInv => ReturnsOnlyTheMapping
  BY <1>1 DEF ReturnsOnlyTheMapping
<1> QED
  BY <1>2, Invariance, PTL

\* An opener that raises has closed its session and its control socket.  One that
\* fails for its setup, the accept task or the authentication, and is not cancelled,
\* leaves nothing open, however the race and the listener's close were
\* interleaved with the failure (orbweb/lan_client.py:137-156).
THEOREM RaisesCleanTheorem == Spec => []RaisesClean
<1>1. ASSUME IInv, opener = "raised" PROVE session # "open" /\ controlSock # "open"
  BY <1>1 DEF IInv, TypeOK, OpenerInv, ListenerInv, SetupInv
<1>2. ASSUME IInv, opener = "raised", outcome \notin {"control", "cancelled", "socket"}
      PROVE  mapping # "live" /\ OpenSockets = {} /\ pool \in {"none", "closed"}
  <2>1. pool \in {"none", "closed"}
    BY <1>2 DEF IInv, TypeOK, OpenerInv, ListenerInv, SetupInv, Causes
  <2>2. mapping # "live" /\ RaceOver
    <3>1. CASE accept = "none"
      BY <1>2, <3>1 DEF IInv, SetupInv, RaceOver
    <3>2. CASE accept = "failed"
      BY <1>2, <3>2 DEF IInv, MappingInv
    <3>3. CASE accept = "done"
      <4>1. outcome = "auth" /\ established
        BY <1>2, <3>3 DEF IInv, OpenerInv, Causes
      <4> QED
        BY <1>2, <4>1 DEF IInv, MappingInv, Causes
    <3> QED
      BY <1>2, <3>1, <3>2, <3>3 DEF IInv, OpenerInv
  <2>3. OpenInbound = {}
    <3>1. CASE pool = "none"
      BY <1>2, <3>1 DEF IInv, ListenerInv, OpenInbound
    <3>2. CASE pool = "closed"
      <4>1. OpenInbound \subseteq {taken}
        BY <1>2, <3>2 DEF IInv, ListenerInv
      <4>2. taken # None => inb[taken] # "open"
        BY <2>2 DEF RaceOver
      <4> SUFFICES ASSUME NEW i \in OpenInbound PROVE FALSE
        OBVIOUS
      <4>3. i \in Inbound /\ inb[i] = "open" /\ i = taken
        BY <4>1 DEF OpenInbound
      <4> QED
        BY <4>2, <4>3, ConstantsAssumption
    <3> QED
      BY <2>1, <3>1, <3>2
  <2> QED
    BY <2>1, <2>2, <2>3 DEF OpenSockets, RaceOver
<1>3. IInv => RaisesClean
  BY <1>1, <1>2 DEF RaisesClean
<1> QED
  BY <1>3, Invariance, PTL
=============================================================================
