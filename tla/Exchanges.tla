------------------------------ MODULE Exchanges ------------------------------
(***************************************************************************)
(* The request and answer exchanges of the integration, each a script of   *)
(* requests whose answers are read from a TCP stream and checked:          *)
(*                                                                         *)
(*   control   async_run_control_exchange         orbweb/control.py        *)
(*   direct    async_open_direct_listener and the wait for the forward     *)
(*   nat       async_detect_nat                   orbweb/nat_client.py     *)
(*   shunt     async_register_with_shunt          orbweb/shunt_client.py   *)
(*   login     async_authenticate_camera          orbweb/authentication.py *)
(*   offer     async_negotiate_tunnel_key         orbweb/handshake.py      *)
(*   accept    async_accept_tunnel_key            orbweb/handshake.py      *)
(*   lookup    async_get_servers                  orbweb/rendezvous.py     *)
(*   job       _async_get_command                 cloud.py                 *)
(*                                                                         *)
(* A behaviour is one call of one of them.  A packet arrives in two parts, *)
(* so a read can be interrupted between its header and its payload.  The   *)
(* peer may answer, refuse, garble, answer for another client, answer      *)
(* again, hang up or stay silent, and the caller may be cancelled.         *)
(***************************************************************************)
EXTENDS Integers, Sequences, FiniteSets

CONSTANTS
    Ports,      \* local ports
    NoPort,     \* none: the operating system chooses
    MaxPolls,   \* JOB_POLL_ATTEMPTS
    MaxSends,   \* bound: how often shunt sends its registration
    MaxCopies   \* bound: answers the peer gives again

ASSUME PortsAssumption == NoPort \notin Ports
ASSUME BoundsAssumption == MaxPolls \in Nat \ {0} /\ MaxSends \in Nat \ {0} /\ MaxCopies \in Nat

VARIABLES
    kind, step, pc,     \* the exchange, its request, and where it is
    got,                \* the answers it has accepted
    outcome,
    port, from,         \* _run_probes: probe_local_port, actual_local_port
    polls,              \* polls of the job that were sent
    half,               \* the packet whose header was read, or none
    task,               \* response_task of the shunt client is running
    finally,            \* what the finally clauses have yet to end
    up, dropped,        \* own connections; connections the peer has ended
    inbox,              \* parts of packets on each connection
    owes, answered,     \* requests the peer has to answer, and has answered
    sends, copies,
    honest              \* the peer has kept to the protocol

client == <<step, pc, got, outcome, port, from, polls, half, task, finally, up>>
peer   == <<dropped, inbox, owes, answered, copies, honest>>
vars   == <<kind, client, peer, sends>>

-----------------------------------------------------------------------------
(* The scripts *)

ControlScript == <<"register", "nic", "host", "deregister">>
DirectScript  == <<"address", "forward">>
NatScript     == <<"info", "probe1", "probe2", "probe3", "probe4", "query">>
JobScript     == <<"publish", "poll">>

Script == [control |-> ControlScript, direct |-> DirectScript, nat |-> NatScript, job |-> JobScript,
           shunt |-> <<"shunt">>, login |-> <<"login">>, lookup |-> <<"lookup">>,
           offer |-> <<"offer">>, accept |-> <<"accept">>]

Kinds  == DOMAIN Script
Probes == {"probe1", "probe2", "probe3", "probe4"}
Http   == {"publish", "poll", "lookup"}
Asks   == UNION {{Script[k][i] : i \in DOMAIN Script[k]} : k \in Kinds}

Ask == Script[kind][step]

\* What is read first is the peer's; everything else answers a request.
Unasked == {"forward", "accept"}

\* Connections: the caller's own, the one of the exchange, the one of a probe.
Callers == {"control", "offer", "accept"}
Lines   == {"caller", "main", "probe"}
Line(a) == IF kind \in Callers THEN "caller" ELSE IF a \in Probes THEN "probe" ELSE "main"

\* Probes and HTTP requests have a connection each.
Fresh(a) == a \in Probes \cup Http

\* Exchanges that end by a timer of their own, or of each of their requests.
Timed == Kinds \ Callers

(* The answers *)

Rejectable == {"register", "nic", "host", "address", "forward", "shunt", "login"} \cup Http
Identified == {"nic", "forward", "info", "query", "shunt"}

\* own: of this client, and well formed.  pending: the job is not done.
\* open: the NAT server saw the client's own address (behind is 0).
Sorts(a) == {"own", "malformed"}
    \cup (IF a \in Rejectable THEN {"rejected"} ELSE {})
    \cup (IF a \in Identified THEN {"foreign"} ELSE {})
    \cup (IF a = "poll" THEN {"pending"} ELSE {})
    \cup (IF a = "info" THEN {"open"} ELSE {})
Good == {"own", "pending", "open"}

AllSorts == Good \cup {"malformed", "rejected", "foreign"}
Packet   == [ask : Asks, sort : AllSorts]
Nothing  == [ask |-> "none", sort |-> "none"]
Garbage  == [ask |-> "none", sort |-> "malformed"]

\* Mutant: parse_nat_info_response takes both commands; its callers rely on it.
WantedByParser(a) == IF a = "query" THEN {"info", "query"} ELSE {a}

\* The command that the step insists on.
Wanted(a) == {a}

-----------------------------------------------------------------------------
Outcomes == {"none", "returned", "protocol", "rejected", "transport", "timeout", "cancelled"}
Places   == {"open", "send", "read", "reply", "release", "sleep", "closing", "over"}

\* Every variable keeps its type, and no bound is passed.
TypeOK ==
    /\ kind \in Kinds /\ step \in DOMAIN Script[kind] /\ pc \in Places
    /\ got \in Seq([ask : Asks, sort : Good, from : Ports \cup {NoPort}])
    /\ outcome \in Outcomes
    /\ port \in Ports \cup {NoPort} /\ from \in Ports \cup {NoPort}
    /\ polls \in 0 .. MaxPolls /\ half \in Packet \cup {Nothing, Garbage} /\ task \in BOOLEAN
    /\ finally \in Seq({"probe", "task", "main"})
    /\ up \subseteq Lines /\ dropped \subseteq Lines
    /\ inbox \in [Lines -> Seq([packet : Packet, part : {1, 2}])]
    /\ owes \in [Asks -> Nat] /\ answered \subseteq Asks
    /\ sends \in 0 .. MaxSends /\ copies \in 0 .. MaxCopies /\ honest \in BOOLEAN

Starts(k) == IF k \notin Callers THEN "open" ELSE IF k = "accept" THEN "read" ELSE "send"

Init ==
    /\ kind \in Kinds /\ step = 1 /\ pc = Starts(kind)
    /\ got = <<>> /\ outcome = "none"
    /\ port = NoPort /\ from = NoPort /\ polls = 0
    /\ half = Nothing /\ task = FALSE /\ finally = <<>>
    /\ up = IF kind \in Callers THEN {"caller"} ELSE {}
    /\ dropped = {}
    /\ inbox = [l \in Lines |-> <<>>]
    /\ owes = [a \in Asks |-> IF a = "accept" /\ kind = "accept" THEN 1 ELSE 0]
    /\ answered = {} /\ sends = 0 /\ copies = 0 /\ honest = TRUE

-----------------------------------------------------------------------------
(* Leaving *)

\* Mutant: a probe that fails leaves its connection.
NoProbe == <<>>

\* The finally clauses around the place where the client is.
ProbeFinally == IF Ask \in Probes /\ pc \in {"send", "read", "release"} THEN <<"probe">> ELSE <<>>
MainFinally ==
    IF kind \in Callers \/ (pc = "open" /\ (step = 1 \/ Ask \in Http)) \/ pc = "sleep"
    THEN <<>>
    ELSE IF kind = "shunt" THEN <<"task", "main">> ELSE <<"main">>

\* The call is left with a result or an exception.
Finish(result) ==
    /\ outcome' = result /\ pc' = "closing"
    /\ finally' = ProbeFinally \o MainFinally
    /\ half' = Nothing

\* A finally clause: the reader task is cancelled and awaited, a connection is
\* closed and its end awaited.
EndFinally ==
    /\ pc = "closing" /\ finally # <<>>
    /\ finally' = Tail(finally)
    /\ task' = (task /\ Head(finally) # "task")
    /\ up' = up \ {Head(finally)}
    /\ UNCHANGED <<kind, step, pc, got, outcome, port, from, polls, half, peer, sends>>

Over ==
    /\ pc = "closing" /\ finally = <<>>
    /\ pc' = "over"
    /\ UNCHANGED <<kind, step, got, outcome, port, from, polls, half, task, finally, up, peer, sends>>

\* The timer of nat and shunt covers the closing, too; that of an HTTP request
\* ends with its answer.
TimerRuns ==
    \/ kind \in {"nat", "shunt"} /\ pc # "over"
    \/ kind \in {"direct", "login"} /\ pc \notin {"closing", "over"}
    \/ Ask \in Http /\ pc \in {"open", "send", "read"}

\* The timer or the caller ends the await that is under way; what is closed
\* stays closed, and the remaining finally clauses run.  Where the shunt client
\* awaits its cancelled task, both are suppressed with the task's own.
Interrupted(result) ==
    /\ \/ pc \notin {"closing", "over"} /\ Finish(result)
       \/ /\ pc = "closing" /\ ~task /\ finally # <<>>
          /\ outcome' = result
          /\ UNCHANGED <<pc, finally, half>>
    /\ UNCHANGED <<kind, step, got, port, from, polls, task, up, peer, sends>>

Timeout == TimerRuns /\ Interrupted("timeout")
Cancel  == Interrupted("cancelled")

-----------------------------------------------------------------------------
(* The client *)

Open ==
    /\ pc = "open"
    /\ \E p \in IF Ask \in Probes THEN Ports ELSE {NoPort} :
          /\ from' = p
          /\ port' = IF port = NoPort THEN p ELSE port
          /\ honest' = (honest /\ p \in {NoPort, port'})
    /\ up' = up \cup {Line(Ask)}
    /\ dropped' = dropped \ {Line(Ask)}
    /\ inbox' = [inbox EXCEPT ![Line(Ask)] = <<>>]
    /\ task' = (kind = "shunt")
    /\ pc' = "send"
    /\ UNCHANGED <<kind, step, got, outcome, polls, half, finally, owes, answered, sends, copies>>

\* Refused, unreachable, or the local port is still in use.
OpenFails ==
    /\ pc = "open"
    /\ Finish("transport")
    /\ UNCHANGED <<kind, step, got, port, from, polls, task, up, peer, sends>>

\* Mutant: a probe from another port is as good.
AnyPort == TRUE

SamePort == from \in {NoPort, port}

\* Mutant: polls without end.
NeverCounted(n) == n

Counted(n) == n + 1

Send ==
    /\ pc = "send" /\ SamePort
    /\ owes' = [owes EXCEPT ![Ask] = @ + 1]
    /\ polls' = IF Ask = "poll" THEN Counted(polls) ELSE polls
    /\ sends' = IF kind = "shunt" THEN sends + 1 ELSE sends
    /\ pc' = "read"
    /\ UNCHANGED <<kind, step, got, outcome, port, from, half, task, finally, up,
                   dropped, inbox, answered, copies, honest>>

WrongPort ==
    /\ pc = "send" /\ ~SamePort
    /\ Finish("protocol")
    /\ UNCHANGED <<kind, step, got, port, from, polls, task, up, peer, sends>>

\* Mutant: the read is cancelled and begun again with every request.
Restarted == Nothing

KeptRead == half

\* The shunt client registers again every 100 ms; its read goes on.
Resend ==
    /\ kind = "shunt" /\ pc = "read" /\ sends < MaxSends
    /\ owes' = [owes EXCEPT ![Ask] = @ + 1]
    /\ sends' = sends + 1
    /\ half' = KeptRead
    /\ UNCHANGED <<kind, step, pc, got, outcome, port, from, polls, task, finally, up,
                   dropped, inbox, answered, copies, honest>>

\* A connection the peer has ended fails the drain, or the read once what has
\* arrived was read.
TransportFails ==
    /\ Line(Ask) \in dropped
    /\ \/ pc \in {"send", "reply"}
       \/ pc = "read" /\ (kind = "shunt" \/ inbox[Line(Ask)] = <<>>)
    /\ Finish("transport")
    /\ UNCHANGED <<kind, step, got, port, from, polls, task, up, peer, sends>>

Arrived == pc = "read" /\ inbox[Line(Ask)] # <<>>

First == Head(inbox[Line(Ask)])
Take  == inbox' = [inbox EXCEPT ![Line(Ask)] = Tail(@)]

\* Payload bytes that are read as a header give no command and no length.
ReadHeader ==
    /\ half = Nothing /\ Arrived
    /\ Take
    /\ half' = IF First.part = 1 THEN First.packet ELSE Garbage
    /\ UNCHANGED <<kind, step, pc, got, outcome, port, from, polls, task, finally, up,
                   dropped, owes, answered, sends, copies, honest>>

\* After the answer to the last request, or without a NAT to detect.
Complete == half.sort = "open" \/ step = Len(Script[kind])

Follows == IF Fresh(Ask) THEN "release" ELSE IF Script[kind][step + 1] \in Unasked THEN "read"
           ELSE IF Fresh(Script[kind][step + 1]) THEN "open" ELSE "send"

Accepted ==
    /\ half.ask \in Wanted(Ask) /\ half.sort \in {"own", "open"}
    /\ got' = Append(got, [ask |-> half.ask, sort |-> half.sort, from |-> from])
    /\ IF kind = "accept"
       THEN pc' = "reply" /\ half' = Nothing /\ UNCHANGED <<step, outcome, finally>>
       ELSE IF Complete THEN Finish("returned") /\ UNCHANGED step
       ELSE /\ pc' = Follows /\ half' = Nothing
            /\ step' = IF Fresh(Ask) THEN step ELSE step + 1
            /\ UNCHANGED <<outcome, finally>>

\* The job has not ended: another poll, while there are any.
Pending ==
    /\ half.ask = Ask /\ half.sort = "pending"
    /\ IF polls < MaxPolls
       THEN pc' = "release" /\ half' = Nothing /\ UNCHANGED <<outcome, finally>>
       ELSE Finish("transport")
    /\ UNCHANGED <<step, got>>

Refused ==
    /\ half.ask \in Wanted(Ask) /\ half.sort = "rejected"
    /\ Finish("rejected")
    /\ UNCHANGED <<step, got>>

\* Another command than the one insisted on, or its content is not valid.
Unexpected ==
    /\ half.ask \notin Wanted(Ask) \/ half.sort \in {"malformed", "foreign"}
    /\ Finish("protocol")
    /\ UNCHANGED <<step, got>>

\* The packet is complete; a refusal, a wrong command and a wrong identity end
\* the exchange.
ReadPayload ==
    /\ half # Nothing /\ Arrived
    /\ Take
    /\ Accepted \/ Pending \/ Refused \/ Unexpected
    /\ task' = FALSE
    /\ UNCHANGED <<kind, port, from, polls, up, dropped, owes, answered, sends, copies, honest>>

\* async_accept_tunnel_key writes its answer last.
Reply ==
    /\ pc = "reply"
    /\ Finish("returned")
    /\ UNCHANGED <<kind, step, got, port, from, polls, task, up, peer, sends>>

\* The connection of a probe or an HTTP request is closed after its answer.
Release ==
    /\ pc = "release"
    /\ up' = up \ {Line(Ask)}
    /\ step' = IF step < Len(Script[kind]) THEN step + 1 ELSE step
    /\ pc' = IF kind = "job" THEN "sleep" ELSE IF Fresh(Script[kind][step']) THEN "open" ELSE "send"
    /\ from' = NoPort
    /\ UNCHANGED <<kind, got, outcome, port, polls, half, task, finally, peer, sends>>

Wake ==
    /\ pc = "sleep"
    /\ pc' = "open"
    /\ UNCHANGED <<kind, step, got, outcome, port, from, polls, half, task, finally, up, peer, sends>>

-----------------------------------------------------------------------------
(* The peer *)

Connected(l) == l \in up \ dropped

Parts(p) == <<[packet |-> p, part |-> 1], [packet |-> p, part |-> 2]>>
Deliver(a, sort) ==
    inbox' = [inbox EXCEPT ![Line(a)] = @ \o Parts([ask |-> a, sort |-> sort])]

\* A registered listener is told of the camera's addresses some time later.
Answer(a, sort) ==
    /\ owes[a] > 0 /\ Connected(Line(a)) /\ sort \in Sorts(a)
    /\ Deliver(a, sort)
    /\ owes' = [owes EXCEPT ![a] = @ - 1,
                            !["forward"] = IF a = "address" THEN 1 ELSE IF a = "forward" THEN 0 ELSE @]
    /\ answered' = answered \cup {a}
    /\ honest' = (honest /\ sort \in Good)
    /\ UNCHANGED <<kind, client, dropped, sends, copies>>

\* The same answer again, on a connection where it can be taken for the next.
AnswerAgain(a) ==
    /\ a \in answered \ Http /\ Connected(Line(a)) /\ copies < MaxCopies
    /\ Deliver(a, "own")
    /\ copies' = copies + 1 /\ honest' = FALSE
    /\ UNCHANGED <<kind, client, dropped, owes, answered, sends>>

HangUp(l) ==
    /\ Connected(l)
    /\ dropped' = dropped \cup {l}
    /\ UNCHANGED <<kind, client, inbox, owes, answered, sends, copies, honest>>

-----------------------------------------------------------------------------
Client == \/ Open \/ OpenFails \/ Send \/ WrongPort \/ TransportFails
          \/ ReadHeader \/ ReadPayload \/ Reply \/ Release \/ Wake
          \/ EndFinally \/ Over

Peer == \/ \E a \in Asks : AnswerAgain(a) \/ \E sort \in AllSorts : Answer(a, sort)
        \/ \E l \in Lines : HangUp(l)

Next == Client \/ Resend \/ Timeout \/ Cancel \/ Peer

Spec == Init /\ [][Next]_vars

\* The client goes on when it can, and its timer goes off.
FairSpec == Spec /\ WF_vars(Client) /\ WF_vars(Timeout)

-----------------------------------------------------------------------------
(* Safety *)

\* A call returns only with the answers to its own requests, one for each and
\* in their order, all of this client and all of one probe port: an answer that
\* comes twice is never taken for the next.
AnswersMatch ==
    outcome = "returned" =>
        /\ \/ [i \in DOMAIN got |-> got[i].ask] = Script[kind]
           \/ Len(got) = 1 /\ got[1].sort = "open"
        /\ \A i, j \in DOMAIN got : {got[i].ask, got[j].ask} \subseteq Probes => got[i].from = got[j].from

\* With a peer that keeps to the protocol no call fails for the protocol, however
\* its packets are cut and however often shunt has asked before it is answered.
HonestNeverProtocol == honest => outcome \notin {"protocol", "rejected"}

\* Whatever ends a call, and wherever, its own connections are closed and its
\* reader task has ended.
LeavesNothing == pc = "over" => up \subseteq {"caller"} /\ ~task

(* Liveness *)

\* A call with a timer, or with bounded polls, ends though the peer is silent.
Ends == kind \in Timed ~> pc = "over"
=============================================================================
