---------------------------- MODULE ExchangesProofs ----------------------------
(***************************************************************************)
(* Proofs about Exchanges, for any set of local ports and any bounds.  The *)
(* invariant says where each connection is covered by a finally clause,    *)
(* that the accepted answers are a prefix of the script, and, for a peer   *)
(* that keeps to the protocol, exactly what can be on the wire.            *)
(***************************************************************************)
EXTENDS Exchanges, SequenceTheorems, TLAPS

Running == pc \notin {"closing", "over"}

\* Where the client can be, and what it has counted.
PlaceInv ==
    /\ Running <=> outcome = "none"
    /\ pc # "read" => half = Nothing
    /\ pc = "open" => step = 1 \/ Fresh(Ask)
    /\ pc = "reply" => kind = "accept"
    /\ pc = "sleep" => kind = "job" /\ Ask = "poll"
    /\ pc = "release" => Fresh(Ask) /\ kind \in {"nat", "job"}
    /\ kind # "shunt" \/ pc \in {"open", "send"} => sends = 0
    /\ kind = "job" /\ (pc \in {"open", "send", "release", "sleep"} \/ Ask = "publish") =>
          polls < MaxPolls
    /\ kind \in Callers => pc # "open"

\* A connection of the exchange is up, or the reader task runs, only where the
\* finally clauses end it, or are about to.
CoveredInv ==
    /\ Running =>
          /\ "probe" \in up => Ask \in Probes /\ pc \in {"send", "read", "release"}
          /\ "main" \in up => kind \notin Callers /\ pc # "sleep"
          /\ "main" \in up /\ pc = "open" => step # 1 /\ Ask \notin Http
          /\ task => kind = "shunt" /\ pc \in {"send", "read"}
    /\ finally \in {<<>>, <<"main">>, <<"probe", "main">>, <<"task", "main">>}
    /\ pc = "closing" =>
          /\ "probe" \in up => finally = <<"probe", "main">>
          /\ "main" \in up => finally # <<>>
          /\ task => finally = <<"task", "main">>
    /\ pc = "over" => up \subseteq {"caller"} /\ ~task

\* Only the NAT server says that the client's address is its own.
WireInv ==
    /\ half.sort = "open" => half.ask = "info"
    /\ half.sort = "pending" => half.ask = "poll"
    /\ \A l \in Lines : \A i \in DOMAIN inbox[l] :
          /\ inbox[l][i].packet.sort = "open" => inbox[l][i].packet.ask = "info"
          /\ inbox[l][i].packet.sort = "pending" => inbox[l][i].packet.ask = "poll"

\* The accepted answers are those of the steps that are over, in their order.
AnswersInv ==
    /\ Running =>
          /\ \A i \in DOMAIN got : got[i].ask = Script[kind][i]
          /\ Len(got) = IF pc = "reply" \/ (pc = "release" /\ Ask # "poll")
                         THEN step ELSE step - 1
    /\ outcome = "returned" =>
          \/ Len(got) = Len(Script[kind]) /\ \A i \in DOMAIN got : got[i].ask = Script[kind][i]
          \/ Len(got) = 1 /\ got[1].sort = "open"

\* Every probe that was answered went out from the port of the first.
PortInv ==
    /\ \A i \in DOMAIN got : got[i].ask \in Probes => got[i].from = port /\ port \in Ports
    /\ Ask \in Probes /\ pc \in {"send", "read"} => from \in Ports /\ port \in Ports
    /\ Ask \in Probes /\ pc = "read" => from = port

\* What is on the connection that is read.
Wire == inbox[Line(Ask)]

\* Nothing follows the answer to the step, or, from the n-th part on, only the
\* forward that was owed with it.
Follower(n) ==
    \/ Len(Wire) = n - 1 /\ (Ask = "address" => owes["forward"] = 1)
    \/ /\ Ask = "address" /\ owes["forward"] = 0
       /\ Len(Wire) = n + 1 /\ Wire[n].part = 1 /\ Wire[n + 1].part = 2
       /\ Wire[n].packet.ask = "forward" /\ Wire[n].packet.sort \in Good

\* The one answer to the step is owed, has arrived, or is half read.
OneAnswer ==
    \/ /\ owes[Ask] = 1 /\ (Ask = "address" => owes["forward"] = 0)
       /\ Wire = <<>> /\ half = Nothing
    \/ /\ owes[Ask] = 0 /\ half = Nothing
       /\ Len(Wire) >= 2 /\ Wire[1].part = 1 /\ Wire[2].part = 2
       /\ Wire[1].packet.ask = Ask /\ Wire[1].packet.sort \in Good
       /\ Follower(3)
    \/ /\ owes[Ask] = 0 /\ half.ask = Ask /\ half.sort \in Good
       /\ Len(Wire) >= 1 /\ Wire[1].part = 2
       /\ Follower(2)

\* The answers to the registrations that were repeated arrive whole.
WholeAnswers ==
    /\ half # Nothing => half.ask = Ask /\ half.sort \in Good /\ Wire # <<>>
    /\ \A i \in DOMAIN Wire : Wire[i].packet.ask = Ask /\ Wire[i].packet.sort \in Good
    /\ \A i \in DOMAIN Wire : i + 1 \in DOMAIN Wire => Wire[i].part # Wire[i + 1].part
    /\ Wire # <<>> => Wire[Len(Wire)].part = 2
    /\ Wire # <<>> => Wire[1].part = IF half = Nothing THEN 1 ELSE 2

\* What is owed and on the wire while the peer keeps to the protocol: nothing
\* but the answers to the step.
Awaited ==
    /\ from \in {NoPort, port}
    /\ \A a \in Asks : owes[a] # 0 =>
          pc = "read" /\ (a = Ask \/ (a = "forward" /\ Ask = "address"))
    /\ \A l \in Lines : inbox[l] # <<>> => pc = "read" /\ l = Line(Ask)
    /\ pc = "read" /\ kind = "shunt" => WholeAnswers
    /\ pc = "read" /\ kind # "shunt" => OneAnswer

HonestInv ==
    /\ honest /\ Running => Awaited
    /\ honest => outcome \notin {"protocol", "rejected"}

IInv == TypeOK /\ PlaceInv /\ CoveredInv /\ WireInv /\ AnswersInv /\ PortInv /\ HonestInv

-----------------------------------------------------------------------------
(* The scripts *)

\* The exchanges, by name.
LEMMA KindsAre ==
  Kinds = {"control", "direct", "nat", "job", "shunt", "login", "lookup", "offer", "accept"}
BY DEF Kinds, Script

\* What each exchange asks, in order.
LEMMA ScriptsAre ==
  /\ Script["control"] = <<"register", "nic", "host", "deregister">>
  /\ Script["direct"] = <<"address", "forward">>
  /\ Script["nat"] = <<"info", "probe1", "probe2", "probe3", "probe4", "query">>
  /\ Script["job"] = <<"publish", "poll">>
  /\ Script["shunt"] = <<"shunt">> /\ Script["login"] = <<"login">>
  /\ Script["lookup"] = <<"lookup">> /\ Script["offer"] = <<"offer">>
  /\ Script["accept"] = <<"accept">>
BY DEF Script, ControlScript, DirectScript, NatScript, JobScript

\* The step i of the script k asks for a, and the script has n steps.
At(k, i, a, n) ==
    \/ /\ k = "control" /\ n = 4
       /\ \/ i = 1 /\ a = "register"
          \/ i = 2 /\ a = "nic"
          \/ i = 3 /\ a = "host"
          \/ i = 4 /\ a = "deregister"
    \/ /\ k = "direct" /\ n = 2
       /\ \/ i = 1 /\ a = "address"
          \/ i = 2 /\ a = "forward"
    \/ /\ k = "nat" /\ n = 6
       /\ \/ i = 1 /\ a = "info"
          \/ i = 2 /\ a = "probe1"
          \/ i = 3 /\ a = "probe2"
          \/ i = 4 /\ a = "probe3"
          \/ i = 5 /\ a = "probe4"
          \/ i = 6 /\ a = "query"
    \/ /\ k = "job" /\ n = 2
       /\ \/ i = 1 /\ a = "publish"
          \/ i = 2 /\ a = "poll"
    \/ /\ k \in {"shunt", "login", "lookup", "offer", "accept"} /\ n = 1
       /\ i = 1 /\ a = k

\* The steps of the scripts, by number.
LEMMA StepsAre ==
  ASSUME NEW k \in Kinds, NEW i \in DOMAIN Script[k]
  PROVE  At(k, i, Script[k][i], Len(Script[k]))
  <1> USE ScriptsAre DEF At
  <1>1. CASE k = "control"
    <2>1. i \in 1 .. 4 /\ Len(Script[k]) = 4
      BY <1>1
    <2> QED
      BY <1>1, <2>1
  <1>2. CASE k = "direct"
    <2>1. i \in 1 .. 2 /\ Len(Script[k]) = 2
      BY <1>2
    <2> QED
      BY <1>2, <2>1
  <1>3. CASE k = "nat"
    <2>1. i \in 1 .. 6 /\ Len(Script[k]) = 6
      BY <1>3
    <2> QED
      BY <1>3, <2>1
  <1>4. CASE k = "job"
    <2>1. i \in 1 .. 2 /\ Len(Script[k]) = 2
      BY <1>4
    <2> QED
      BY <1>4, <2>1
  <1>5. CASE k \in {"shunt", "login", "lookup", "offer", "accept"}
    BY <1>5
  <1> QED
    BY <1>1, <1>2, <1>3, <1>4, <1>5, KindsAre

\* A script is a sequence, with as many steps as it has requests.
LEMMA ScriptDomain ==
  ASSUME NEW k \in Kinds
  PROVE  Len(Script[k]) \in Nat \ {0} /\ DOMAIN Script[k] = 1 .. Len(Script[k])
BY KindsAre, ScriptsAre

\* Whatever an exchange can ask.
LEMMA AsksAre ==
  /\ \A k \in Kinds : \A i \in DOMAIN Script[k] : Script[k][i] \in Asks
  /\ "address" \in Asks /\ "forward" \in Asks
  /\ \A a \in Asks : a # "none"
  <1>1. \A k \in Kinds : \A i \in DOMAIN Script[k] : Script[k][i] \in Asks
    BY DEF Asks
  <1>2. 1 \in DOMAIN Script["direct"] /\ 2 \in DOMAIN Script["direct"]
        /\ Script["direct"][1] = "address" /\ Script["direct"][2] = "forward"
    BY ScriptsAre
  <1>3. \A a \in Asks : a # "none"
    BY StepsAre DEF Asks, At
  <1> QED
    BY <1>1, <1>2, <1>3, KindsAre

\* What is asked for at the step.
LEMMA AskIs ==
  ASSUME kind \in Kinds, step \in DOMAIN Script[kind]
  PROVE  /\ Ask \in Asks
         /\ At(kind, step, Ask, Len(Script[kind]))
BY StepsAre, AsksAre DEF Ask

\* And at the next one.
LEMMA NextAskIs ==
  ASSUME kind \in Kinds, step \in DOMAIN Script[kind], step < Len(Script[kind])
  PROVE  /\ step + 1 \in DOMAIN Script[kind]
         /\ Script[kind][step + 1] \in Asks
         /\ At(kind, step + 1, Script[kind][step + 1], Len(Script[kind]))
BY ScriptDomain, StepsAre, AsksAre

\* What the step asks for, with the place of the step in its script.
AskKnown == Ask \in Asks /\ At(kind, step, Ask, Len(Script[kind]))

-----------------------------------------------------------------------------
(* Leaving *)

\* The concatenations and the tails of finally clauses that occur.
LEMMA FinallySequences ==
  /\ <<>> \o <<>> = <<>>
  /\ <<>> \o <<"main">> = <<"main">>
  /\ <<>> \o <<"task", "main">> = <<"task", "main">>
  /\ <<"probe">> \o <<"main">> = <<"probe", "main">>
  /\ Tail(<<"main">>) = <<>> /\ Head(<<"main">>) = "main"
  /\ Tail(<<"probe", "main">>) = <<"main">> /\ Head(<<"probe", "main">>) = "probe"
  /\ Tail(<<"task", "main">>) = <<"main">> /\ Head(<<"task", "main">>) = "task"
  /\ <<"main">> # <<>> /\ <<"probe", "main">> # <<>> /\ <<"task", "main">> # <<>>
  /\ <<"task", "main">> # <<"main">> /\ <<"task", "main">> # <<"probe", "main">>
  /\ <<"main">> # <<"probe", "main">>
  <1>1. /\ <<>> \o <<>> = <<>>
        /\ <<>> \o <<"main">> = <<"main">>
        /\ <<>> \o <<"task", "main">> = <<"task", "main">>
    OBVIOUS
  <1>2. <<"probe">> \o <<"main">> = <<"probe", "main">>
    <2> DEFINE S == {"probe", "main"}
               s == <<"probe">> \o <<"main">>
               t == <<"probe", "main">>
    <2>1. <<"probe">> \in Seq(S) /\ <<"main">> \in Seq(S) /\ t \in Seq(S)
      OBVIOUS
    <2>2. s \in Seq(S) /\ Len(s) = 2 /\ s[1] = "probe" /\ s[2] = "main"
      BY <2>1, ConcatProperties
    <2>3. Len(t) = 2 /\ t[1] = "probe" /\ t[2] = "main"
      OBVIOUS
    <2> HIDE DEF s, t
    <2>4. Len(s) = Len(t) /\ \A i \in 1 .. Len(s) : s[i] = t[i]
      BY <2>2, <2>3
    <2>5. s = t
      BY ONLY <2>1, <2>2, <2>4, SeqEqual
    <2> QED
      BY <2>5 DEF s, t
  <1>3. /\ Tail(<<"main">>) = <<>> /\ Head(<<"main">>) = "main"
        /\ Tail(<<"probe", "main">>) = <<"main">> /\ Head(<<"probe", "main">>) = "probe"
        /\ Tail(<<"task", "main">>) = <<"main">> /\ Head(<<"task", "main">>) = "task"
    OBVIOUS
  <1>4. /\ <<"main">> # <<>> /\ <<"probe", "main">> # <<>> /\ <<"task", "main">> # <<>>
        /\ <<"task", "main">> # <<"main">> /\ <<"task", "main">> # <<"probe", "main">>
        /\ <<"main">> # <<"probe", "main">>
    OBVIOUS
  <1> QED
    BY <1>1, <1>2, <1>3, <1>4

\* They are sequences of the clauses' names.
LEMMA FinallyType ==
  \A f \in {<<>>, <<"main">>, <<"probe", "main">>, <<"task", "main">>} :
      f \in Seq({"probe", "task", "main"})
  <1> DEFINE S == {"probe", "task", "main"}
  <1>1. <<>> \in Seq(S)
    OBVIOUS
  <1>2. <<"main">> \in Seq(S)
    OBVIOUS
  <1>3. <<"probe", "main">> \in Seq(S)
    OBVIOUS
  <1>4. <<"task", "main">> \in Seq(S)
    OBVIOUS
  <1> QED
    BY <1>1, <1>2, <1>3, <1>4

\* A call that is left has a finally clause for everything it opened.
LEMMA FinishCovers ==
  ASSUME IInv, Running, NEW result, Finish(result), kind' = kind, step' = step, up' = up,
         task' => task
  PROVE  CoveredInv'
  <1>1. AskKnown
    BY AskIs DEF IInv, TypeOK, AskKnown
  <1>2. Ask \in Probes => kind = "nat" /\ step > 1 /\ Ask \notin Http
    BY <1>1 DEF AskKnown, At, Probes, Http
  <1>3. kind = "shunt" => step = 1 /\ Ask \notin Probes /\ Ask \notin Http
    BY <1>1 DEF AskKnown, At, Probes, Http
  <1>4. ProbeFinally = IF Ask \in Probes /\ pc \in {"send", "read", "release"}
                       THEN <<"probe">> ELSE <<>>
    BY DEF ProbeFinally
  <1>5. pc' = "closing" /\ finally' = ProbeFinally \o MainFinally
    BY DEF Finish
  <1>6. MainFinally \in {<<>>, <<"main">>, <<"task", "main">>}
    BY DEF MainFinally
  <1>7. ASSUME Ask \in Probes, pc \in {"send", "read", "release"}
        PROVE  finally' = <<"probe", "main">>
    <2>1. MainFinally = <<"main">>
      BY <1>2, <1>7 DEF MainFinally, Callers
    <2> QED
      BY <1>4, <1>5, <1>7, <2>1, FinallySequences
  <1>8. ASSUME ~(Ask \in Probes /\ pc \in {"send", "read", "release"})
        PROVE  finally' = MainFinally
    BY <1>4, <1>5, <1>6, <1>8, FinallySequences
  <1>9. finally' \in {<<>>, <<"main">>, <<"probe", "main">>, <<"task", "main">>}
    BY <1>6, <1>7, <1>8
  <1>10. "probe" \in up => finally' = <<"probe", "main">>
    BY <1>7 DEF IInv, CoveredInv
  <1>11. ASSUME "main" \in up PROVE finally' # <<>>
    <2>1. MainFinally # <<>>
      BY <1>11, FinallySequences DEF IInv, CoveredInv, MainFinally
    <2> QED
      BY <1>7, <1>8, <2>1, FinallySequences
  <1>12. ASSUME task PROVE finally' = <<"task", "main">>
    <2>1. kind = "shunt" /\ pc \in {"send", "read"}
      BY <1>12 DEF IInv, CoveredInv
    <2>2. MainFinally = <<"task", "main">>
      BY <1>3, <2>1 DEF MainFinally, Callers
    <2> QED
      BY <1>3, <1>8, <2>1, <2>2
  <1> QED
    BY <1>5, <1>9, <1>10, <1>11, <1>12 DEF CoveredInv, Running

-----------------------------------------------------------------------------
(* The connections *)

Part == [packet : Packet, part : {1, 2}]

\* Every exchange reads one of the connections.
LEMMA LineType == ASSUME NEW a PROVE Line(a) \in Lines
BY DEF Line, Lines

\* What is on a connection is a finite sequence of parts of packets.
LEMMA WireType ==
  ASSUME TypeOK, NEW l \in Lines
  PROVE  /\ inbox[l] \in Seq(Part) /\ Len(inbox[l]) \in Nat
         /\ DOMAIN inbox[l] = 1 .. Len(inbox[l])
         /\ inbox[l] = <<>> <=> Len(inbox[l]) = 0
         /\ \A i \in DOMAIN inbox[l] :
               inbox[l][i].packet \in Packet /\ inbox[l][i].part \in {1, 2}
  <1>1. inbox[l] \in Seq(Part)
    BY DEF TypeOK, Part
  <1>2. \A i \in 1 .. Len(inbox[l]) : inbox[l][i] \in Part
    BY <1>1, ElementOfSeq
  <1>3. Len(inbox[l]) \in Nat /\ DOMAIN inbox[l] = 1 .. Len(inbox[l])
    BY <1>1, LenProperties
  <1>4. inbox[l] = <<>> <=> Len(inbox[l]) = 0
    BY <1>1, EmptySeq
  <1> QED
    BY <1>1, <1>2, <1>3, <1>4 DEF Part

\* Reading takes the first part of the connection away.
LEMMA TakeLemma ==
  ASSUME TypeOK, Arrived, Take
  PROVE  /\ inbox' \in [Lines -> Seq(Part)]
         /\ Len(Wire) \in Nat /\ Len(Wire) >= 1 /\ First = Wire[1] /\ 1 \in DOMAIN Wire
         /\ Len(inbox'[Line(Ask)]) = Len(Wire) - 1
         /\ DOMAIN inbox'[Line(Ask)] = 1 .. Len(Wire) - 1
         /\ \A i \in DOMAIN inbox'[Line(Ask)] :
               i + 1 \in DOMAIN Wire /\ inbox'[Line(Ask)][i] = Wire[i + 1]
         /\ \A l \in Lines : l # Line(Ask) => inbox'[l] = inbox[l]
  <1>1. Line(Ask) \in Lines
    BY LineType
  <1>2. Wire \in Seq(Part) /\ Wire # <<>> /\ Len(Wire) \in Nat /\ DOMAIN Wire = 1 .. Len(Wire)
    BY <1>1, WireType DEF Wire, Arrived
  <1>3. Len(Wire) >= 1
    BY <1>1, <1>2, WireType DEF Wire
  <1>4. inbox' = [inbox EXCEPT ![Line(Ask)] = Tail(Wire)] /\ inbox \in [Lines -> Seq(Part)]
    BY DEF Take, Wire, TypeOK, Part
  <1>5. Tail(Wire) \in Seq(Part) /\ Len(Tail(Wire)) = Len(Wire) - 1
        /\ \A i \in 1 .. Len(Tail(Wire)) : Tail(Wire)[i] = Wire[i + 1]
    BY <1>2, HeadTailProperties
  <1>6. DOMAIN Tail(Wire) = 1 .. Len(Wire) - 1
    BY <1>5, LenProperties
  <1>7. inbox'[Line(Ask)] = Tail(Wire)
    BY <1>1, <1>4
  <1>8. First = Wire[1]
    BY <1>2 DEF First, Wire
  <1>9. inbox' \in [Lines -> Seq(Part)] /\ \A l \in Lines : l # Line(Ask) => inbox'[l] = inbox[l]
    BY <1>1, <1>4, <1>5
  <1> HIDE DEF Wire
  <1> QED
    BY <1>2, <1>3, <1>5, <1>6, <1>7, <1>8, <1>9

\* A packet arrives in two parts, after what is there.
LEMMA DeliverLemma ==
  ASSUME TypeOK, NEW a \in Asks, NEW sort \in AllSorts, Deliver(a, sort)
  PROVE  /\ inbox' \in [Lines -> Seq(Part)]
         /\ \A l \in Lines : l # Line(a) => inbox'[l] = inbox[l]
         /\ Len(inbox[Line(a)]) \in Nat
         /\ Len(inbox'[Line(a)]) = Len(inbox[Line(a)]) + 2
         /\ DOMAIN inbox'[Line(a)] = 1 .. Len(inbox[Line(a)]) + 2
         /\ \A i \in DOMAIN inbox[Line(a)] : inbox'[Line(a)][i] = inbox[Line(a)][i]
         /\ \A k \in {1, 2} :
               /\ inbox'[Line(a)][Len(inbox[Line(a)]) + k].part = k
               /\ inbox'[Line(a)][Len(inbox[Line(a)]) + k].packet = [ask |-> a, sort |-> sort]
  <1> DEFINE l == Line(a)
             p == [ask |-> a, sort |-> sort]
             new == inbox[l] \o Parts(p)
  <1>1. l \in Lines
    BY LineType
  <1>2. inbox[l] \in Seq(Part) /\ Len(inbox[l]) \in Nat /\ DOMAIN inbox[l] = 1 .. Len(inbox[l])
    BY <1>1, WireType
  <1>3. p \in Packet
    BY DEF Packet
  <1>4. /\ Parts(p) \in Seq(Part) /\ Len(Parts(p)) = 2
        /\ Parts(p)[1] = [packet |-> p, part |-> 1]
        /\ Parts(p)[2] = [packet |-> p, part |-> 2]
    BY <1>3 DEF Parts, Part
  <1>5. inbox' = [inbox EXCEPT ![l] = new] /\ inbox \in [Lines -> Seq(Part)]
    BY DEF Deliver, TypeOK, Part
  <1> HIDE DEF l, p
  <1>6. new \in Seq(Part) /\ Len(new) = Len(inbox[l]) + 2
        /\ \A i \in 1 .. Len(inbox[l]) + 2 :
              new[i] = IF i <= Len(inbox[l]) THEN inbox[l][i] ELSE Parts(p)[i - Len(inbox[l])]
    <2> DEFINE s == inbox[l]
               t == Parts(p)
    <2>1. s \in Seq(Part) /\ t \in Seq(Part) /\ Len(t) = 2 /\ Len(s) \in Nat
      BY <1>2, <1>4
    <2> HIDE DEF s, t
    <2>2. /\ s \o t \in Seq(Part) /\ Len(s \o t) = Len(s) + Len(t)
          /\ \A i \in 1 .. Len(s) + Len(t) :
                (s \o t)[i] = IF i <= Len(s) THEN s[i] ELSE t[i - Len(s)]
      BY <2>1, ConcatProperties
    <2> QED
      BY <2>1, <2>2 DEF s, t
  <1>7. DOMAIN new = 1 .. Len(inbox[l]) + 2
    BY <1>6, LenProperties
  <1> HIDE DEF new
  <1>8. inbox' \in [Lines -> Seq(Part)] /\ inbox'[l] = new
        /\ \A m \in Lines : m # l => inbox'[m] = inbox[m]
    BY <1>1, <1>5, <1>6
  <1>9. \A i \in DOMAIN inbox[l] : new[i] = inbox[l][i]
    BY <1>2, <1>6
  <1>10. new[Len(inbox[l]) + 1] = Parts(p)[1] /\ new[Len(inbox[l]) + 2] = Parts(p)[2]
    BY <1>2, <1>6
  <1>11. \A k \in {1, 2} : new[Len(inbox[l]) + k].part = k /\ new[Len(inbox[l]) + k].packet = p
    BY <1>4, <1>10
  <1> QED
    BY <1>2, <1>6, <1>7, <1>8, <1>9, <1>11 DEF l, p

-----------------------------------------------------------------------------
(* The steps *)

\* A finally clause is over.
LEMMA EndFinallyInv ==
  ASSUME IInv, EndFinally
  PROVE  IInv'
  <1> USE DEF IInv
  <1>1. kind' = kind /\ step' = step
    BY DEF EndFinally, peer
  <1>2. Ask' = Ask
    BY <1>1 DEF Ask
  <1>3. Ask \in Asks /\ At(kind, step, Ask, Len(Script[kind]))
    BY AskIs DEF TypeOK
  <1>4. CoveredInv'
    BY <1>1, <1>2, FinallySequences DEF CoveredInv, TypeOK, Lines, EndFinally, Running
  <1>5. TypeOK'
    BY <1>1, <1>2, <1>3, <1>4, FinallyType, BoundsAssumption
       DEF CoveredInv, TypeOK, EndFinally, peer, Places, Outcomes, Nothing
  <1>6. PlaceInv'
    BY <1>1, <1>2, <1>3 DEF PlaceInv, Running, TypeOK, EndFinally, peer, At, Nothing
  <1>7. WireInv'
    BY <1>1, <1>2, <1>3 DEF WireInv, TypeOK, EndFinally, peer, At, Nothing
  <1>8. AnswersInv'
    BY <1>1, <1>2, <1>3 DEF AnswersInv, PlaceInv, Running, TypeOK, EndFinally, peer, At, Nothing
  <1>9. PortInv'
    BY <1>1, <1>2, <1>3 DEF PortInv, PlaceInv, TypeOK, EndFinally, peer, At, Nothing
  <1>10. HonestInv'
    BY <1>1, <1>2, <1>3
       DEF HonestInv, Awaited, PlaceInv, PortInv, Running, TypeOK, EndFinally, peer, At, Nothing
  <1> QED
    BY <1>4, <1>5, <1>6, <1>7, <1>8, <1>9, <1>10 DEF IInv

\* The call is over.
LEMMA OverInv ==
  ASSUME IInv, Over
  PROVE  IInv'
  <1> USE DEF IInv
  <1>1. kind' = kind /\ step' = step
    BY DEF Over, peer
  <1>2. Ask' = Ask
    BY <1>1 DEF Ask
  <1>3. Ask \in Asks /\ At(kind, step, Ask, Len(Script[kind]))
    BY AskIs DEF TypeOK
  <1>4. CoveredInv'
    BY FinallySequences DEF CoveredInv, TypeOK, Lines, Over, Running
  <1>5. TypeOK'
    BY <1>1, <1>2, <1>3, <1>4, FinallyType, BoundsAssumption
       DEF CoveredInv, TypeOK, Over, peer, Places, Outcomes, Nothing
  <1>6. PlaceInv'
    BY <1>1, <1>2, <1>3 DEF PlaceInv, Running, TypeOK, Over, peer, At, Nothing
  <1>7. WireInv'
    BY <1>1, <1>2, <1>3 DEF WireInv, TypeOK, Over, peer, At, Nothing
  <1>8. AnswersInv'
    BY <1>1, <1>2, <1>3 DEF AnswersInv, PlaceInv, Running, TypeOK, Over, peer, At, Nothing
  <1>9. PortInv'
    BY <1>1, <1>2, <1>3 DEF PortInv, PlaceInv, TypeOK, Over, peer, At, Nothing
  <1>10. HonestInv'
    BY <1>1, <1>2, <1>3
       DEF HonestInv, Awaited, PlaceInv, PortInv, Running, TypeOK, Over, peer, At, Nothing
  <1> QED
    BY <1>4, <1>5, <1>6, <1>7, <1>8, <1>9, <1>10 DEF IInv

\* The timer or the caller interrupts the call.
LEMMA InterruptedInv ==
  ASSUME IInv, NEW result \in {"timeout", "cancelled"}, Interrupted(result)
  PROVE  IInv'
  <1> USE DEF IInv
  <1>1. kind' = kind /\ step' = step
    BY DEF Interrupted, Finish, peer
  <1>2. Ask' = Ask
    BY <1>1 DEF Ask
  <1>3. Ask \in Asks /\ At(kind, step, Ask, Len(Script[kind]))
    BY AskIs DEF TypeOK
  <1>4. CoveredInv'
    <2>1. CASE Running
      BY <1>1, <2>1, FinishCovers DEF Interrupted, Running, peer
    <2>2. CASE ~Running
      BY <1>1, <2>2 DEF CoveredInv, Running, Interrupted, peer
    <2> QED
      BY <2>1, <2>2
  <1>5. TypeOK'
    BY <1>1, <1>2, <1>3, <1>4, FinallyType, BoundsAssumption
       DEF CoveredInv, TypeOK, Interrupted, Finish, peer, Places, Outcomes, Nothing
  <1>6. PlaceInv'
    BY <1>1, <1>2, <1>3 DEF PlaceInv, Running, TypeOK, Interrupted, Finish, peer, At, Nothing
  <1>7. WireInv'
    BY <1>1, <1>2, <1>3 DEF WireInv, TypeOK, Interrupted, Finish, peer, At, Nothing
  <1>8. AnswersInv'
    BY <1>1, <1>2, <1>3
       DEF AnswersInv, PlaceInv, Running, TypeOK, Interrupted, Finish, peer, At, Nothing
  <1>9. PortInv'
    BY <1>1, <1>2, <1>3 DEF PortInv, PlaceInv, TypeOK, Interrupted, Finish, peer, At, Nothing
  <1>10. HonestInv'
    BY <1>1, <1>2, <1>3
       DEF HonestInv, Awaited, PlaceInv, PortInv, Running, TypeOK, Interrupted, Finish, peer,
           At, Nothing
  <1> QED
    BY <1>4, <1>5, <1>6, <1>7, <1>8, <1>9, <1>10 DEF IInv

\* A connection is open.
LEMMA OpenInv ==
  ASSUME IInv, Open
  PROVE  IInv'
  <1> USE DEF IInv
  <1>1. kind' = kind /\ step' = step
    BY DEF Open
  <1>2. Ask' = Ask
    BY <1>1 DEF Ask
  <1>3. Ask \in Asks /\ At(kind, step, Ask, Len(Script[kind]))
    BY AskIs DEF TypeOK
  <1>4. CoveredInv'
    BY <1>1, <1>2, <1>3
       DEF CoveredInv, PlaceInv, Running, TypeOK, Open, At, Line, Probes, Http, Callers, Fresh
  <1>5. TypeOK'
    <2>1. Line(Ask) \in Lines
      BY LineType
    <2>2. inbox \in [Lines -> Seq(Part)] /\ <<>> \in Seq(Part)
      BY EmptySeq DEF TypeOK, Part
    <2>3. inbox' \in [Lines -> Seq(Part)]
      BY <2>1, <2>2 DEF Open
    <2>4. port' \in Ports \cup {NoPort} /\ from' \in Ports \cup {NoPort} /\ honest' \in BOOLEAN
      BY DEF TypeOK, Open
    <2> QED
      BY <1>1, <2>1, <2>3, <2>4 DEF TypeOK, Open, Places, Part
  <1>6. PlaceInv'
    BY <1>1, <1>2, <1>3 DEF PlaceInv, Running, TypeOK, Open, At, Nothing
  <1>7. WireInv'
    BY <1>1, <1>2, <1>3 DEF WireInv, TypeOK, Open, At, Nothing
  <1>8. AnswersInv'
    BY <1>1, <1>2, <1>3 DEF AnswersInv, PlaceInv, Running, TypeOK, Open, At, Nothing
  <1>9. PortInv'
    <2>1. port \in Ports => port' = port
      BY PortsAssumption DEF Open
    <2>2. Ask \in Probes => from' \in Ports /\ port' \in Ports
      BY PortsAssumption DEF Open, TypeOK
    <2> QED
      BY <1>2, <2>1, <2>2 DEF PortInv, Open
  <1>10. HonestInv'
    BY <1>1, <1>2, <1>3
       DEF HonestInv, Awaited, PlaceInv, PortInv, Running, TypeOK, Open, At, Nothing
  <1> QED
    BY <1>4, <1>5, <1>6, <1>7, <1>8, <1>9, <1>10 DEF IInv

\* A connection fails.
LEMMA OpenFailsInv ==
  ASSUME IInv, OpenFails
  PROVE  IInv'
  <1> USE DEF IInv
  <1>1. kind' = kind /\ step' = step
    BY DEF OpenFails, Finish, peer
  <1>2. Ask' = Ask
    BY <1>1 DEF Ask
  <1>3. Ask \in Asks /\ At(kind, step, Ask, Len(Script[kind]))
    BY AskIs DEF TypeOK
  <1>4. CoveredInv'
    BY <1>1, FinishCovers DEF OpenFails, Running
  <1>5. TypeOK'
    BY <1>1, <1>2, <1>3, <1>4, FinallyType, BoundsAssumption
       DEF CoveredInv, TypeOK, OpenFails, Finish, peer, Places, Outcomes, Nothing
  <1>6. PlaceInv'
    BY <1>1, <1>2, <1>3 DEF PlaceInv, Running, TypeOK, OpenFails, Finish, peer, At, Nothing
  <1>7. WireInv'
    BY <1>1, <1>2, <1>3 DEF WireInv, TypeOK, OpenFails, Finish, peer, At, Nothing
  <1>8. AnswersInv'
    BY <1>1, <1>2, <1>3
       DEF AnswersInv, PlaceInv, Running, TypeOK, OpenFails, Finish, peer, At, Nothing
  <1>9. PortInv'
    BY <1>1, <1>2, <1>3 DEF PortInv, PlaceInv, TypeOK, OpenFails, Finish, peer, At, Nothing
  <1>10. HonestInv'
    BY <1>1, <1>2, <1>3
       DEF HonestInv, Awaited, PlaceInv, PortInv, Running, TypeOK, OpenFails, Finish, peer, At,
           Nothing
  <1> QED
    BY <1>4, <1>5, <1>6, <1>7, <1>8, <1>9, <1>10 DEF IInv

\* A request is sent.
LEMMA SendInv ==
  ASSUME IInv, Send
  PROVE  IInv'
  <1> USE DEF IInv
  <1>1. kind' = kind /\ step' = step
    BY DEF Send, Counted
  <1>2. Ask' = Ask
    BY <1>1 DEF Ask
  <1>3. Ask \in Asks /\ At(kind, step, Ask, Len(Script[kind]))
    BY AskIs DEF TypeOK
  <1>4. CoveredInv'
    BY <1>1, <1>2, <1>3 DEF CoveredInv, PlaceInv, Running, TypeOK, Send, Counted, At, Nothing
  <1>5. TypeOK'
    <2>1. owes' \in [Asks -> Nat]
      BY <1>3 DEF TypeOK, Send
    <2>2. polls' \in 0 .. MaxPolls
      BY <1>3, BoundsAssumption DEF TypeOK, PlaceInv, Send, Counted, At
    <2>3. sends' \in 0 .. MaxSends
      BY BoundsAssumption DEF TypeOK, PlaceInv, Send
    <2> QED
      BY <1>1, <2>1, <2>2, <2>3 DEF TypeOK, Send, Places
  <1>6. PlaceInv'
    BY <1>1, <1>2, <1>3 DEF PlaceInv, Running, TypeOK, Send, Counted, At, Nothing
  <1>7. WireInv'
    BY <1>1, <1>2, <1>3 DEF WireInv, TypeOK, Send, Counted, At, Nothing
  <1>8. AnswersInv'
    BY <1>1, <1>2, <1>3 DEF AnswersInv, PlaceInv, Running, TypeOK, Send, Counted, At, Nothing
  <1>9. PortInv'
    BY <1>1, <1>2, PortsAssumption DEF PortInv, Send, SamePort
  <1>10. HonestInv'
    <2>1. Line(Ask)' = Line(Ask) /\ Line(Ask) \in Lines
      BY <1>1, <1>2, LineType DEF Line
    <2>2. ASSUME honest', Running' PROVE Awaited'
      <3>1. honest /\ Running /\ pc = "send" /\ pc' = "read" /\ inbox' = inbox /\ half' = half
            /\ from' = from /\ port' = port
        BY <2>2 DEF Send, Running
      <3>2. Awaited /\ half = Nothing
        BY <3>1 DEF HonestInv, PlaceInv
      <3>3. \A l \in Lines : inbox[l] = <<>>
        BY <3>1, <3>2 DEF Awaited
      <3>4. Wire' = <<>>
        BY <2>1, <3>1, <3>3 DEF Wire
      <3>5. \A a \in Asks : owes[a] = 0
        BY <3>1, <3>2 DEF Awaited
      <3>6. owes'[Ask] = 1 /\ \A a \in Asks : a # Ask => owes'[a] = 0
        BY <1>3, <3>5 DEF Send, TypeOK
      <3>7. OneAnswer'
        BY <1>2, <3>1, <3>2, <3>4, <3>6, AsksAre DEF OneAnswer
      <3>8. WholeAnswers'
        BY <3>1, <3>2, <3>4 DEF WholeAnswers
      <3> QED
        BY <1>2, <3>1, <3>2, <3>3, <3>6, <3>7, <3>8 DEF Awaited
    <2> QED
      BY <2>2 DEF HonestInv, Send
  <1> QED
    BY <1>4, <1>5, <1>6, <1>7, <1>8, <1>9, <1>10 DEF IInv

\* A probe has another port.
LEMMA WrongPortInv ==
  ASSUME IInv, WrongPort
  PROVE  IInv'
  <1> USE DEF IInv
  <1>1. kind' = kind /\ step' = step
    BY DEF WrongPort, Finish, peer
  <1>2. Ask' = Ask
    BY <1>1 DEF Ask
  <1>3. Ask \in Asks /\ At(kind, step, Ask, Len(Script[kind]))
    BY AskIs DEF TypeOK
  <1>4. CoveredInv'
    BY <1>1, FinishCovers DEF WrongPort, Running
  <1>5. TypeOK'
    BY <1>1, <1>2, <1>3, <1>4, FinallyType, BoundsAssumption
       DEF CoveredInv, TypeOK, WrongPort, Finish, peer, Places, Outcomes, Nothing
  <1>6. PlaceInv'
    BY <1>1, <1>2, <1>3 DEF PlaceInv, Running, TypeOK, WrongPort, Finish, peer, At, Nothing
  <1>7. WireInv'
    BY <1>1, <1>2, <1>3 DEF WireInv, TypeOK, WrongPort, Finish, peer, At, Nothing
  <1>8. AnswersInv'
    BY <1>1, <1>2, <1>3
       DEF AnswersInv, PlaceInv, Running, TypeOK, WrongPort, Finish, peer, At, Nothing
  <1>9. PortInv'
    BY <1>1, <1>2, <1>3 DEF PortInv, PlaceInv, TypeOK, WrongPort, Finish, peer, At, Nothing
  <1>10. HonestInv'
    BY DEF HonestInv, Awaited, Running, WrongPort, Finish, SamePort, peer
  <1> QED
    BY <1>4, <1>5, <1>6, <1>7, <1>8, <1>9, <1>10 DEF IInv

\* The connection is lost.
LEMMA TransportFailsInv ==
  ASSUME IInv, TransportFails
  PROVE  IInv'
  <1> USE DEF IInv
  <1>1. kind' = kind /\ step' = step
    BY DEF TransportFails, Finish, peer
  <1>2. Ask' = Ask
    BY <1>1 DEF Ask
  <1>3. Ask \in Asks /\ At(kind, step, Ask, Len(Script[kind]))
    BY AskIs DEF TypeOK
  <1>4. CoveredInv'
    BY <1>1, FinishCovers DEF TransportFails, Running
  <1>5. TypeOK'
    BY <1>1, <1>2, <1>3, <1>4, FinallyType, BoundsAssumption
       DEF CoveredInv, TypeOK, TransportFails, Finish, peer, Places, Outcomes, Nothing
  <1>6. PlaceInv'
    BY <1>1, <1>2, <1>3 DEF PlaceInv, Running, TypeOK, TransportFails, Finish, peer, At, Nothing
  <1>7. WireInv'
    BY <1>1, <1>2, <1>3 DEF WireInv, TypeOK, TransportFails, Finish, peer, At, Nothing
  <1>8. AnswersInv'
    BY <1>1, <1>2, <1>3
       DEF AnswersInv, PlaceInv, Running, TypeOK, TransportFails, Finish, peer, At, Nothing
  <1>9. PortInv'
    BY <1>1, <1>2, <1>3 DEF PortInv, PlaceInv, TypeOK, TransportFails, Finish, peer, At, Nothing
  <1>10. HonestInv'
    BY <1>1, <1>2, <1>3
       DEF HonestInv, Awaited, PlaceInv, PortInv, Running, TypeOK, TransportFails, Finish,
           peer, At, Nothing
  <1> QED
    BY <1>4, <1>5, <1>6, <1>7, <1>8, <1>9, <1>10 DEF IInv

\* The header of a packet is read.
LEMMA ReadHeaderInv ==
  ASSUME IInv, ReadHeader
  PROVE  IInv'
  <1> USE DEF IInv
  <1>1. kind' = kind /\ step' = step
    BY DEF ReadHeader, Arrived, First, Take
  <1>2. Ask' = Ask
    BY <1>1 DEF Ask
  <1>3. Ask \in Asks /\ At(kind, step, Ask, Len(Script[kind]))
    BY AskIs DEF TypeOK
  <1>4. CoveredInv'
    BY <1>1, <1>2, <1>3
       DEF CoveredInv, PlaceInv, Running, TypeOK, ReadHeader, Arrived, First, Take, At, Nothing
  <1>5. TypeOK'
    <2>1. inbox' \in [Lines -> Seq(Part)] /\ First.packet \in Packet
      BY TakeLemma, WireType, LineType DEF ReadHeader, Wire
    <2> QED
      BY <1>1, <2>1 DEF TypeOK, ReadHeader, Part
  <1>6. PlaceInv'
    BY <1>1, <1>2, <1>3
       DEF PlaceInv, Running, TypeOK, ReadHeader, Arrived, First, Take, At, Nothing
  <1>7. WireInv'
    <2>1. /\ First = Wire[1] /\ 1 \in DOMAIN Wire /\ Line(Ask) \in Lines
          /\ \A i \in DOMAIN inbox'[Line(Ask)] :
                i + 1 \in DOMAIN Wire /\ inbox'[Line(Ask)][i] = Wire[i + 1]
          /\ \A l \in Lines : l # Line(Ask) => inbox'[l] = inbox[l]
      BY TakeLemma, LineType DEF ReadHeader
    <2> QED
      BY <2>1 DEF WireInv, ReadHeader, Wire, Garbage
  <1>8. AnswersInv'
    BY <1>1, <1>2, <1>3
       DEF AnswersInv, PlaceInv, Running, TypeOK, ReadHeader, Arrived, First, Take, At, Nothing
  <1>9. PortInv'
    BY <1>1, <1>2, <1>3
       DEF PortInv, PlaceInv, TypeOK, ReadHeader, Arrived, First, Take, At, Nothing
  <1>10. HonestInv'
    <2>1. Line(Ask)' = Line(Ask) /\ Line(Ask) \in Lines
      BY <1>1, <1>2, LineType DEF Line
    <2>2. ASSUME honest', Running' PROVE Awaited'
      <3>1. honest /\ Running /\ pc = "read" /\ pc' = "read" /\ half = Nothing
            /\ owes' = owes /\ from' = from /\ port' = port
            /\ half' = IF First.part = 1 THEN First.packet ELSE Garbage
        BY <2>2 DEF ReadHeader, Running, Arrived
      <3>2. Awaited
        BY <3>1 DEF HonestInv
      <3>3. /\ Len(Wire) \in Nat /\ Len(Wire) >= 1 /\ First = Wire[1] /\ 1 \in DOMAIN Wire
            /\ DOMAIN Wire = 1 .. Len(Wire)
            /\ Len(Wire') = Len(Wire) - 1 /\ DOMAIN Wire' = 1 .. Len(Wire) - 1
            /\ \A i \in DOMAIN Wire' : i + 1 \in DOMAIN Wire /\ Wire'[i] = Wire[i + 1]
            /\ \A l \in Lines : l # Line(Ask) => inbox'[l] = inbox[l]
        BY <2>1, TakeLemma, WireType DEF ReadHeader, Wire
      <3>4. ASSUME kind # "shunt" PROVE OneAnswer'
        <4>1. OneAnswer /\ Wire # <<>>
          BY <3>1, <3>2, <3>4 DEF Awaited, ReadHeader, Arrived, Wire
        <4>2. owes[Ask] = 0 /\ Len(Wire) >= 2 /\ Wire[1].part = 1 /\ Wire[2].part = 2
              /\ Wire[1].packet.ask = Ask /\ Wire[1].packet.sort \in Good /\ Follower(3)
          BY <1>3, <3>1, <4>1, AsksAre DEF OneAnswer, Nothing
        <4>3. half'.ask = Ask /\ half'.sort \in Good /\ Wire'[1].part = 2
          BY <3>1, <3>3, <4>2
        <4>4. Follower(2)'
          BY <1>2, <3>1, <3>3, <4>2 DEF Follower
        <4> QED
          BY <1>2, <3>1, <3>3, <4>2, <4>3, <4>4 DEF OneAnswer
      <3>5. ASSUME kind = "shunt" PROVE WholeAnswers'
        <4>1. WholeAnswers /\ Wire # <<>>
          BY <3>1, <3>2, <3>5 DEF Awaited, ReadHeader, Arrived, Wire
        <4>2. Wire[1].part = 1 /\ half' = Wire[1].packet
          BY <3>1, <3>3, <4>1 DEF WholeAnswers
        <4>3. Len(Wire) # 1
          BY <3>3, <4>1, <4>2 DEF WholeAnswers
        <4>4. half'.ask = Ask /\ half'.sort \in Good /\ half' # Nothing /\ Wire' # <<>>
          BY <1>3, <3>3, <4>1, <4>2, <4>3, AsksAre DEF WholeAnswers, Nothing
        <4>5. Wire'[1].part = 2
          <5>1. 1 \in DOMAIN Wire' /\ Wire'[1] = Wire[2] /\ 2 \in DOMAIN Wire
            BY <3>3, <4>3
          <5>2. Wire[2].part \in {1, 2}
            BY <2>1, <5>1, WireType DEF Wire
          <5> QED
            BY <3>3, <4>1, <4>2, <5>1, <5>2 DEF WholeAnswers
        <4>6. Wire'[Len(Wire')].part = 2
          BY <3>3, <4>1, <4>3 DEF WholeAnswers
        <4> QED
          BY <1>2, <3>3, <4>1, <4>4, <4>5, <4>6 DEF WholeAnswers
      <3> QED
        BY <1>1, <1>2, <2>1, <3>1, <3>2, <3>3, <3>4, <3>5 DEF Awaited
    <2> QED
      BY <2>2 DEF HonestInv, ReadHeader
  <1> QED
    BY <1>4, <1>5, <1>6, <1>7, <1>8, <1>9, <1>10 DEF IInv

\* The answer of the accepting side is written.
LEMMA ReplyInv ==
  ASSUME IInv, Reply
  PROVE  IInv'
  <1> USE DEF IInv
  <1>1. kind' = kind /\ step' = step
    BY DEF Reply, Finish, peer
  <1>2. Ask' = Ask
    BY <1>1 DEF Ask
  <1>3. Ask \in Asks /\ At(kind, step, Ask, Len(Script[kind]))
    BY AskIs DEF TypeOK
  <1>4. CoveredInv'
    BY <1>1, FinishCovers DEF Reply, Running
  <1>5. TypeOK'
    BY <1>1, <1>2, <1>3, <1>4, FinallyType, BoundsAssumption
       DEF CoveredInv, TypeOK, Reply, Finish, peer, Places, Outcomes, Nothing
  <1>6. PlaceInv'
    BY <1>1, <1>2, <1>3 DEF PlaceInv, Running, TypeOK, Reply, Finish, peer, At, Nothing
  <1>7. WireInv'
    BY <1>1, <1>2, <1>3 DEF WireInv, TypeOK, Reply, Finish, peer, At, Nothing
  <1>8. AnswersInv'
    BY <1>1, <1>2, <1>3
       DEF AnswersInv, PlaceInv, Running, TypeOK, Reply, Finish, peer, At, Nothing
  <1>9. PortInv'
    BY <1>1, <1>2, <1>3 DEF PortInv, PlaceInv, TypeOK, Reply, Finish, peer, At, Nothing
  <1>10. HonestInv'
    BY <1>1, <1>2, <1>3
       DEF HonestInv, Awaited, PlaceInv, PortInv, Running, TypeOK, Reply, Finish, peer, At,
           Nothing
  <1> QED
    BY <1>4, <1>5, <1>6, <1>7, <1>8, <1>9, <1>10 DEF IInv

\* The connection of the step is closed.
LEMMA ReleaseInv ==
  ASSUME IInv, Release
  PROVE  IInv'
  <1> USE DEF IInv
  <1>1. kind' = kind
    BY DEF Release
  <1>2. Ask \in Asks /\ At(kind, step, Ask, Len(Script[kind]))
    BY AskIs DEF TypeOK
  <1>3. /\ step' \in DOMAIN Script[kind] /\ Ask' \in Asks
        /\ At(kind, step', Ask', Len(Script[kind]))
        /\ Ask' = Script[kind][step']
    <2>1. step' \in DOMAIN Script[kind]
      BY ScriptDomain DEF TypeOK, Release
    <2> QED
      BY <1>1, <2>1, StepsAre, AsksAre DEF Ask, TypeOK
  <1>4. \/ /\ kind = "nat" /\ Ask \in Probes /\ Ask # "poll"
            /\ step \in 2 .. 5 /\ step' = step + 1
            /\ \/ pc' = "open" /\ Ask' \in Probes
               \/ pc' = "send" /\ Ask' = "query"
        \/ /\ kind = "job" /\ Ask \in Http /\ pc' = "sleep" /\ Ask' = "poll" /\ step' = 2
           /\ step = (IF Ask = "poll" THEN 2 ELSE 1)
    <2>1. CASE kind = "nat"
      <3>0. Ask \in Probes \cup Http
        BY DEF Release, PlaceInv, Fresh
      <3>1. Ask \in Probes /\ Ask # "poll" /\ step \in 2 .. 5 /\ step' = step + 1
        <4>1. step \in 2 .. 5 /\ Len(Script[kind]) = 6 /\ Ask \notin Http
          BY <1>2, <2>1, <3>0 DEF At, Probes, Http
        <4> QED
          BY <3>0, <4>1 DEF Release, Http
      <3>2. Ask' \in Probes \/ Ask' = "query"
        BY <1>3, <2>1, <3>1 DEF At, Probes
      <3>3. \/ pc' = "open" /\ Ask' \in Probes
            \/ pc' = "send" /\ Ask' = "query"
        BY <1>1, <1>3, <2>1, <3>2 DEF Release, Fresh, Probes, Http
      <3> QED
        BY <2>1, <3>1, <3>3
    <2>2. CASE kind = "job"
      <3>1. step = (IF Ask = "poll" THEN 2 ELSE 1) /\ step' = 2 /\ Ask \in Http
        <4>1. CASE step = 1
          <5>1. Ask = "publish" /\ Len(Script[kind]) = 2
            BY <1>2, <2>2, <4>1 DEF At
          <5> QED
            BY <4>1, <5>1 DEF Release, Http
        <4>2. CASE step # 1
          <5>1. step = 2 /\ Ask = "poll" /\ Len(Script[kind]) = 2
            BY <1>2, <2>2, <4>2 DEF At
          <5> QED
            BY <5>1 DEF Release, Http
        <4> QED
          BY <4>1, <4>2
      <3>2. Ask' = "poll"
        BY <1>3, <2>2, <3>1 DEF At
      <3> QED
        BY <2>2, <3>1, <3>2 DEF Release
    <2> QED
      BY <2>1, <2>2 DEF Release, PlaceInv
  <1>5. /\ Line(Ask)' = Line(Ask')
        /\ kind = "nat" => Line(Ask) = "probe"
        /\ kind = "job" => Line(Ask) = "main"
    BY <1>1, <1>4 DEF Line, Callers, Probes, Http
  <1>6. Ask \in Http => Ask \notin Probes
    BY DEF Http, Probes
  <1>7. CoveredInv'
    <2>1. /\ pc = "release" /\ Running /\ up' = up \ {Line(Ask)}
          /\ task' = task /\ finally' = finally
          /\ pc' \in {"open", "send", "sleep"}
      BY <1>4 DEF Release, Running
    <2>2. ~task /\ ("probe" \in up => kind # "job") /\ (pc' \in {"sleep"} => kind = "job")
      BY <1>4, <1>6, <2>1 DEF CoveredInv
    <2>3. "probe" \notin up'
      BY <1>4, <1>5, <2>1, <2>2
    <2>4. "main" \in up' => kind = "nat" /\ pc' # "sleep" /\ step' # 1 /\ Ask' \notin Http
      BY <1>4, <1>5, <2>1, <2>2 DEF Probes, Http
    <2> QED
      BY <1>1, <2>1, <2>2, <2>3, <2>4 DEF CoveredInv, Callers
  <1>8. TypeOK'
    BY <1>1, <1>3 DEF TypeOK, Release, peer, Places
  <1>9. PlaceInv'
    BY <1>1, <1>4 DEF PlaceInv, Running, TypeOK, Release, Callers, Fresh, peer
  <1>10. WireInv'
    BY <1>1, <1>2, <1>3 DEF WireInv, TypeOK, Release, peer, At, Nothing
  <1>11. AnswersInv'
    <2>1. pc = "release" /\ Running /\ got' = got /\ outcome' = outcome
          /\ pc' \in {"open", "send", "sleep"}
      BY <1>4 DEF Release, Running
    <2>2. outcome # "returned" /\ Len(got) = step' - 1
      <3>1. Len(got) = IF Ask # "poll" THEN step ELSE step - 1
        BY <2>1 DEF AnswersInv
      <3> QED
        BY <1>4, <2>1, <3>1 DEF PlaceInv
    <2> QED
      BY <1>1, <2>1, <2>2 DEF AnswersInv
  <1>12. PortInv'
    BY <1>1, <1>2, <1>3
       DEF PortInv, PlaceInv, TypeOK, Release, At, Probes, Http, Fresh, peer
  <1>13. HonestInv'
    BY <1>1, <1>2, <1>3
       DEF HonestInv, Awaited, PlaceInv, PortInv, Running, TypeOK, Release, peer, At, Nothing
  <1> QED
    BY <1>7, <1>8, <1>9, <1>10, <1>11, <1>12, <1>13 DEF IInv

\* The next poll is due.
LEMMA WakeInv ==
  ASSUME IInv, Wake
  PROVE  IInv'
  <1> USE DEF IInv
  <1>1. kind' = kind /\ step' = step
    BY DEF Wake, peer
  <1>2. Ask' = Ask
    BY <1>1 DEF Ask
  <1>3. Ask \in Asks /\ At(kind, step, Ask, Len(Script[kind]))
    BY AskIs DEF TypeOK
  <1>4. CoveredInv'
    BY <1>1, <1>2, <1>3 DEF CoveredInv, PlaceInv, Running, TypeOK, Wake, peer, At, Nothing
  <1>5. TypeOK'
    BY <1>1, <1>2, <1>3, <1>4, FinallyType, BoundsAssumption
       DEF CoveredInv, TypeOK, Wake, peer, Places, Outcomes, Nothing
  <1>6. PlaceInv'
    BY <1>1, <1>2, <1>3 DEF PlaceInv, Running, Wake, Fresh, Http, Callers
  <1>7. WireInv'
    BY <1>1, <1>2, <1>3 DEF WireInv, TypeOK, Wake, peer, At, Nothing
  <1>8. AnswersInv'
    BY <1>1, <1>2, <1>3 DEF AnswersInv, PlaceInv, Running, TypeOK, Wake, peer, At, Nothing
  <1>9. PortInv'
    BY <1>1, <1>2, <1>3 DEF PortInv, PlaceInv, TypeOK, Wake, peer, At, Nothing
  <1>10. HonestInv'
    BY <1>1, <1>2, <1>3
       DEF HonestInv, Awaited, PlaceInv, PortInv, Running, TypeOK, Wake, peer, At, Nothing
  <1> QED
    BY <1>4, <1>5, <1>6, <1>7, <1>8, <1>9, <1>10 DEF IInv

\* The registration is sent again.
LEMMA ResendInv ==
  ASSUME IInv, Resend
  PROVE  IInv'
  <1> USE DEF IInv
  <1>1. kind' = kind /\ step' = step
    BY DEF Resend, KeptRead, peer
  <1>2. Ask' = Ask
    BY <1>1 DEF Ask
  <1>3. Ask \in Asks /\ At(kind, step, Ask, Len(Script[kind]))
    BY AskIs DEF TypeOK
  <1>4. CoveredInv'
    BY <1>1, <1>2, <1>3
       DEF CoveredInv, PlaceInv, Running, TypeOK, Resend, KeptRead, peer, At, Nothing
  <1>5. TypeOK'
    <2>1. owes' \in [Asks -> Nat]
      BY <1>3 DEF TypeOK, Resend
    <2>2. sends' \in 0 .. MaxSends
      BY BoundsAssumption DEF TypeOK, Resend
    <2> QED
      BY <1>1, <2>1, <2>2 DEF TypeOK, Resend, KeptRead
  <1>6. PlaceInv'
    BY <1>1, <1>2, <1>3 DEF PlaceInv, Running, TypeOK, Resend, KeptRead, peer, At, Nothing
  <1>7. WireInv'
    BY <1>1, <1>2, <1>3 DEF WireInv, TypeOK, Resend, KeptRead, peer, At, Nothing
  <1>8. AnswersInv'
    BY <1>1, <1>2, <1>3
       DEF AnswersInv, PlaceInv, Running, TypeOK, Resend, KeptRead, peer, At, Nothing
  <1>9. PortInv'
    BY <1>1, <1>2, <1>3 DEF PortInv, PlaceInv, TypeOK, Resend, KeptRead, peer, At, Nothing
  <1>10. HonestInv'
    <2>1. Line(Ask)' = Line(Ask)
      BY <1>1, <1>2 DEF Line
    <2>2. \A a \in Asks : a # Ask => owes'[a] = owes[a]
      BY DEF Resend, TypeOK
    <2> QED
      BY <1>1, <1>2, <2>1, <2>2
         DEF HonestInv, Awaited, Running, WholeAnswers, Wire, Resend, KeptRead
  <1> QED
    BY <1>4, <1>5, <1>6, <1>7, <1>8, <1>9, <1>10 DEF IInv

\* The peer answers.
LEMMA AnswerInv ==
  ASSUME IInv, NEW a \in Asks, NEW sort \in AllSorts, Answer(a, sort)
  PROVE  IInv'
  <1> USE DEF IInv
  <1>1. kind' = kind /\ step' = step
    BY DEF Answer, Deliver, Parts, client, peer
  <1>2. Ask' = Ask
    BY <1>1 DEF Ask
  <1>3. Ask \in Asks /\ At(kind, step, Ask, Len(Script[kind]))
    BY AskIs DEF TypeOK
  <1>4. CoveredInv'
    BY <1>1, <1>2, <1>3
       DEF CoveredInv, PlaceInv, Running, TypeOK, Answer, Deliver, Parts, client, peer, At,
           Nothing
  <1>5. TypeOK'
    <2>1. inbox' \in [Lines -> Seq(Part)]
      BY DeliverLemma DEF Answer
    <2>2. owes[a] - 1 \in Nat
      BY DEF TypeOK, Answer
    <2>3. owes' \in [Asks -> Nat]
      <3> DEFINE o1 == [owes EXCEPT ![a] = owes[a] - 1]
      <3>1. o1 \in [Asks -> Nat]
        BY <2>2 DEF TypeOK
      <3>2. owes' = [o1 EXCEPT !["forward"] =
                         IF a = "address" THEN 1 ELSE IF a = "forward" THEN 0 ELSE o1["forward"]]
        BY DEF Answer
      <3> HIDE DEF o1
      <3> QED
        BY <3>1, <3>2, AsksAre
    <2> QED
      BY <1>1, <2>1, <2>3 DEF TypeOK, Answer, client, Part
  <1>6. PlaceInv'
    BY <1>1, <1>2, <1>3
       DEF PlaceInv, Running, TypeOK, Answer, Deliver, Parts, client, peer, At, Nothing
  <1>7. WireInv'
    <2>1. \A k \in {1, 2} :
             inbox'[Line(a)][Len(inbox[Line(a)]) + k].packet = [ask |-> a, sort |-> sort]
      BY DeliverLemma DEF Answer, AllSorts, Good
    <2>2. /\ \A l \in Lines : l # Line(a) => inbox'[l] = inbox[l]
          /\ Len(inbox[Line(a)]) \in Nat
          /\ DOMAIN inbox'[Line(a)] = 1 .. Len(inbox[Line(a)]) + 2
          /\ DOMAIN inbox[Line(a)] = 1 .. Len(inbox[Line(a)])
          /\ \A i \in DOMAIN inbox[Line(a)] : inbox'[Line(a)][i] = inbox[Line(a)][i]
      BY DeliverLemma, WireType, LineType DEF Answer, AllSorts, Good
    <2>3. sort = "open" => a = "info"
      BY DEF Answer, Sorts
    <2>4. sort = "pending" => a = "poll"
      BY DEF Answer, Sorts
    <2>5. \A i \in DOMAIN inbox'[Line(a)] :
             \/ i \in DOMAIN inbox[Line(a)]
             \/ \E k \in {1, 2} : i = Len(inbox[Line(a)]) + k
      BY <2>2
    <2>6. ASSUME NEW i \in DOMAIN inbox'[Line(a)]
          PROVE  /\ inbox'[Line(a)][i].packet.sort = "open" =>
                       inbox'[Line(a)][i].packet.ask = "info"
                 /\ inbox'[Line(a)][i].packet.sort = "pending" =>
                       inbox'[Line(a)][i].packet.ask = "poll"
      <3>1. CASE i \in DOMAIN inbox[Line(a)]
        BY <2>2, <3>1, LineType DEF WireInv
      <3>2. CASE \E k \in {1, 2} : i = Len(inbox[Line(a)]) + k
        BY <2>1, <2>3, <2>4, <3>2
      <3> QED
        BY <2>5, <3>1, <3>2
    <2> QED
      BY <2>2, <2>6 DEF WireInv, Answer, client
  <1>8. AnswersInv'
    BY <1>1, <1>2, <1>3
       DEF AnswersInv, PlaceInv, Running, TypeOK, Answer, Deliver, Parts, client, peer, At,
           Nothing
  <1>9. PortInv'
    BY <1>1, <1>2, <1>3
       DEF PortInv, PlaceInv, TypeOK, Answer, Deliver, Parts, client, peer, At, Nothing
  <1>10. HonestInv'
    <2>1. Line(Ask)' = Line(Ask) /\ Line(Ask) \in Lines
      BY <1>1, <1>2, LineType DEF Line
    <2>2. ASSUME honest', Running' PROVE Awaited'
      <3>1. honest /\ Running /\ half' = half /\ pc' = pc /\ from' = from /\ port' = port
            /\ sort \in Good /\ owes[a] # 0
        <4>1. half' = half /\ pc' = pc /\ from' = from /\ port' = port
          BY DEF Answer, client
        <4>2. honest' = (honest /\ sort \in Good)
          BY DEF Answer
        <4>3. owes[a] # 0
          BY DEF Answer, TypeOK
        <4> QED
          BY <2>2, <4>1, <4>2, <4>3 DEF Running
      <3>2. Awaited
        BY <3>1 DEF HonestInv
      <3>3. pc = "read" /\ (a = Ask \/ (a = "forward" /\ Ask = "address"))
        BY <3>1, <3>2 DEF Awaited
      <3>4. Line(a) = Line(Ask)
        BY <3>3 DEF Line, Probes
      <3>5. /\ Len(Wire) \in Nat /\ DOMAIN Wire = 1 .. Len(Wire)
            /\ (Wire = <<>> <=> Len(Wire) = 0)
            /\ Len(Wire') = Len(Wire) + 2 /\ DOMAIN Wire' = 1 .. Len(Wire) + 2
            /\ \A i \in DOMAIN Wire : Wire'[i] = Wire[i]
            /\ Wire'[Len(Wire) + 1].part = 1 /\ Wire'[Len(Wire) + 2].part = 2
            /\ \A k \in {1, 2} : /\ Wire'[Len(Wire) + k].packet.ask = a
                                 /\ Wire'[Len(Wire) + k].packet.sort = sort
            /\ \A l \in Lines : l # Line(Ask) => inbox'[l] = inbox[l]
        <4>1. Deliver(a, sort)
          BY DEF Answer
        <4>2. Wire = inbox[Line(a)] /\ Wire' = inbox'[Line(a)]
          BY <2>1, <3>4 DEF Wire
        <4>3. /\ Len(Wire) \in Nat /\ DOMAIN Wire = 1 .. Len(Wire)
              /\ (Wire = <<>> <=> Len(Wire) = 0)
          BY <2>1, <3>4, <4>2, WireType
        <4>4. /\ Len(Wire') = Len(Wire) + 2 /\ DOMAIN Wire' = 1 .. Len(Wire) + 2
              /\ \A i \in DOMAIN Wire : Wire'[i] = Wire[i]
              /\ \A k \in {1, 2} : /\ Wire'[Len(Wire) + k].part = k
                                   /\ Wire'[Len(Wire) + k].packet = [ask |-> a, sort |-> sort]
              /\ \A l \in Lines : l # Line(Ask) => inbox'[l] = inbox[l]
          BY <3>4, <4>1, <4>2, DeliverLemma
        <4> QED
          BY <4>3, <4>4
      <3>6. /\ owes'[a] = (IF a = "forward" THEN 0 ELSE owes[a] - 1)
            /\ a = "address" => owes'["forward"] = 1
            /\ \A b \in Asks : b # a /\ b # "forward" => owes'[b] = owes[b]
            /\ a # "address" => \A b \in Asks : b # a => owes'[b] = owes[b]
        BY AsksAre DEF Answer, TypeOK
      <3>7. ASSUME kind # "shunt" PROVE OneAnswer'
        <4>1. OneAnswer
          BY <3>2, <3>3, <3>7 DEF Awaited
        <4>2. CASE a = Ask
          <5>1. owes[Ask] = 1 /\ Wire = <<>> /\ half = Nothing
            BY <3>1, <4>1, <4>2 DEF OneAnswer
          <5>2. owes'[Ask] = 0
            BY <3>6, <4>2, <5>1
          <5>3. Wire'[1].part = 1 /\ Wire'[2].part = 2 /\ Len(Wire') = 2
                /\ Wire'[1].packet.ask = Ask /\ Wire'[1].packet.sort \in Good
            BY <3>1, <3>5, <4>2, <5>1
          <5>4. Follower(3)'
            BY <1>2, <3>6, <4>2, <5>3 DEF Follower
          <5> QED
            BY <1>2, <3>1, <5>1, <5>2, <5>3, <5>4 DEF OneAnswer
        <4>3. CASE a # Ask
          <5>1. a = "forward" /\ Ask = "address" /\ owes'[Ask] = owes[Ask] /\ owes'["forward"] = 0
            BY <1>3, <3>3, <3>6, <4>3
          <5>2. CASE half = Nothing
            <6>1. owes[Ask] = 0 /\ Len(Wire) = 2 /\ Wire[1].part = 1 /\ Wire[2].part = 2
                  /\ Wire[1].packet.ask = Ask /\ Wire[1].packet.sort \in Good
              BY <1>3, <3>1, <4>1, <5>1, <5>2, AsksAre DEF OneAnswer, Follower, Nothing
            <6>2. Wire'[1] = Wire[1] /\ Wire'[2] = Wire[2] /\ Len(Wire') = 4
              BY <3>5, <6>1
            <6>3. Wire'[3].part = 1 /\ Wire'[4].part = 2
                  /\ Wire'[3].packet.ask = "forward" /\ Wire'[3].packet.sort \in Good
              BY <3>1, <3>5, <5>1, <6>1
            <6>4. Follower(3)'
              BY <1>2, <5>1, <6>2, <6>3 DEF Follower
            <6> QED
              BY <1>2, <3>1, <5>1, <5>2, <6>1, <6>2, <6>4 DEF OneAnswer
          <5>3. CASE half # Nothing
            <6>1. owes[Ask] = 0 /\ half.ask = Ask /\ half.sort \in Good
                  /\ Len(Wire) = 1 /\ Wire[1].part = 2
              BY <3>1, <4>1, <5>1, <5>3 DEF OneAnswer, Follower
            <6>2. Wire'[1] = Wire[1] /\ Len(Wire') = 3
              BY <3>5, <6>1
            <6>3. Wire'[2].part = 1 /\ Wire'[3].part = 2
                  /\ Wire'[2].packet.ask = "forward" /\ Wire'[2].packet.sort \in Good
              BY <3>1, <3>5, <5>1, <6>1
            <6>4. Follower(2)'
              BY <1>2, <5>1, <6>2, <6>3 DEF Follower
            <6> QED
              BY <1>2, <3>1, <5>1, <6>1, <6>2, <6>4 DEF OneAnswer
          <5> QED
            BY <5>2, <5>3
        <4> QED
          BY <4>2, <4>3
      <3>8. ASSUME kind = "shunt" PROVE WholeAnswers'
        <4>1. WholeAnswers
          BY <3>2, <3>3, <3>8 DEF Awaited
        <4>2. a = Ask
          BY <1>3, <3>3, <3>8 DEF At
        <4>3. Wire' # <<>>
          BY <3>5
        <4>4. ASSUME NEW i \in DOMAIN Wire'
              PROVE  Wire'[i].packet.ask = Ask /\ Wire'[i].packet.sort \in Good
          <5>1. CASE i \in DOMAIN Wire
            BY <3>5, <4>1, <5>1 DEF WholeAnswers
          <5>2. CASE i = Len(Wire) + 1 \/ i = Len(Wire) + 2
            BY <3>1, <3>5, <4>2, <5>2
          <5> QED
            BY <3>5, <5>1, <5>2
        <4>5. ASSUME NEW i \in DOMAIN Wire', i + 1 \in DOMAIN Wire'
              PROVE  Wire'[i].part # Wire'[i + 1].part
          <5>1. CASE i + 1 \in DOMAIN Wire
            <6>1. i \in DOMAIN Wire
              BY <3>5, <4>5, <5>1
            <6> QED
              BY <3>5, <4>1, <5>1, <6>1 DEF WholeAnswers
          <5>2. CASE i = Len(Wire)
            <6>1. i \in DOMAIN Wire /\ Wire # <<>>
              BY <3>5, <4>5, <5>2
            <6> QED
              BY <3>5, <4>1, <5>2, <6>1 DEF WholeAnswers
          <5>3. CASE i = Len(Wire) + 1
            BY <3>5, <5>3
          <5> QED
            BY <3>5, <4>5, <5>1, <5>2, <5>3
        <4>6. Wire'[1].part = IF half' = Nothing THEN 1 ELSE 2
          <5>1. CASE Wire = <<>>
            BY <3>1, <3>5, <4>1, <5>1 DEF WholeAnswers
          <5>2. CASE Wire # <<>>
            <6>1. 1 \in DOMAIN Wire
              BY <3>5, <5>2
            <6> QED
              BY <3>1, <3>5, <4>1, <5>2, <6>1 DEF WholeAnswers
          <5> QED
            BY <5>1, <5>2
        <4>7. half' # Nothing => half'.ask = Ask' /\ half'.sort \in Good
          BY <1>2, <3>1, <4>1 DEF WholeAnswers
        <4> QED
          BY <1>2, <3>1, <3>5, <4>3, <4>4, <4>5, <4>6, <4>7 DEF WholeAnswers, Nothing
      <3> QED
        BY <1>1, <1>2, <2>1, <3>1, <3>2, <3>3, <3>4, <3>5, <3>6, <3>7, <3>8, AsksAre DEF Awaited
    <2> QED
      BY <2>2 DEF HonestInv, Answer, client
  <1> QED
    BY <1>4, <1>5, <1>6, <1>7, <1>8, <1>9, <1>10 DEF IInv

\* The peer answers again.
LEMMA AnswerAgainInv ==
  ASSUME IInv, NEW a \in Asks, AnswerAgain(a)
  PROVE  IInv'
  <1> USE DEF IInv
  <1>1. kind' = kind /\ step' = step
    BY DEF AnswerAgain, Deliver, Parts, client, peer
  <1>2. Ask' = Ask
    BY <1>1 DEF Ask
  <1>3. Ask \in Asks /\ At(kind, step, Ask, Len(Script[kind]))
    BY AskIs DEF TypeOK
  <1>4. CoveredInv'
    BY <1>1, <1>2, <1>3
       DEF CoveredInv, PlaceInv, Running, TypeOK, AnswerAgain, Deliver, Parts, client, peer,
           At, Nothing
  <1>5. TypeOK'
    <2>1. inbox' \in [Lines -> Seq(Part)]
      BY DeliverLemma DEF AnswerAgain, AllSorts, Good
    <2>2. copies' \in 0 .. MaxCopies
      BY BoundsAssumption DEF TypeOK, AnswerAgain
    <2> QED
      BY <1>1, <2>1, <2>2 DEF TypeOK, AnswerAgain, client, Part
  <1>6. PlaceInv'
    BY <1>1, <1>2, <1>3
       DEF PlaceInv, Running, TypeOK, AnswerAgain, Deliver, Parts, client, peer, At, Nothing
  <1>7. WireInv'
    <2>1. \A k \in {1, 2} :
             inbox'[Line(a)][Len(inbox[Line(a)]) + k].packet = [ask |-> a, sort |-> "own"]
      BY DeliverLemma DEF AnswerAgain, AllSorts, Good
    <2>2. /\ \A l \in Lines : l # Line(a) => inbox'[l] = inbox[l]
          /\ Len(inbox[Line(a)]) \in Nat
          /\ DOMAIN inbox'[Line(a)] = 1 .. Len(inbox[Line(a)]) + 2
          /\ DOMAIN inbox[Line(a)] = 1 .. Len(inbox[Line(a)])
          /\ \A i \in DOMAIN inbox[Line(a)] : inbox'[Line(a)][i] = inbox[Line(a)][i]
      BY DeliverLemma, WireType, LineType DEF AnswerAgain, AllSorts, Good
    <2>3. "own" = "open" => a = "info"
      BY DEF AnswerAgain, Sorts
    <2>4. "own" = "pending" => a = "poll"
      BY DEF AnswerAgain, Sorts
    <2>5. \A i \in DOMAIN inbox'[Line(a)] :
             \/ i \in DOMAIN inbox[Line(a)]
             \/ \E k \in {1, 2} : i = Len(inbox[Line(a)]) + k
      BY <2>2
    <2>6. ASSUME NEW i \in DOMAIN inbox'[Line(a)]
          PROVE  /\ inbox'[Line(a)][i].packet.sort = "open" =>
                       inbox'[Line(a)][i].packet.ask = "info"
                 /\ inbox'[Line(a)][i].packet.sort = "pending" =>
                       inbox'[Line(a)][i].packet.ask = "poll"
      <3>1. CASE i \in DOMAIN inbox[Line(a)]
        BY <2>2, <3>1, LineType DEF WireInv
      <3>2. CASE \E k \in {1, 2} : i = Len(inbox[Line(a)]) + k
        BY <2>1, <2>3, <2>4, <3>2
      <3> QED
        BY <2>5, <3>1, <3>2
    <2> QED
      BY <2>2, <2>6 DEF WireInv, AnswerAgain, client
  <1>8. AnswersInv'
    BY <1>1, <1>2, <1>3
       DEF AnswersInv, PlaceInv, Running, TypeOK, AnswerAgain, Deliver, Parts, client, peer,
           At, Nothing
  <1>9. PortInv'
    BY <1>1, <1>2, <1>3
       DEF PortInv, PlaceInv, TypeOK, AnswerAgain, Deliver, Parts, client, peer, At, Nothing
  <1>10. HonestInv'
    BY <1>1, <1>2, <1>3
       DEF HonestInv, Awaited, PlaceInv, PortInv, Running, TypeOK, AnswerAgain, Deliver, Parts,
           client, peer, At, Nothing
  <1> QED
    BY <1>4, <1>5, <1>6, <1>7, <1>8, <1>9, <1>10 DEF IInv

\* The peer ends a connection.
LEMMA HangUpInv ==
  ASSUME IInv, NEW l \in Lines, HangUp(l)
  PROVE  IInv'
  <1> USE DEF IInv
  <1>1. kind' = kind /\ step' = step
    BY DEF HangUp, client, peer
  <1>2. Ask' = Ask
    BY <1>1 DEF Ask
  <1>3. Ask \in Asks /\ At(kind, step, Ask, Len(Script[kind]))
    BY AskIs DEF TypeOK
  <1>4. CoveredInv'
    BY <1>1, <1>2, <1>3
       DEF CoveredInv, PlaceInv, Running, TypeOK, HangUp, client, peer, At, Nothing
  <1>5. TypeOK'
    BY <1>1, <1>4 DEF TypeOK, HangUp, client
  <1>6. PlaceInv'
    BY <1>1, <1>2, <1>3 DEF PlaceInv, Running, TypeOK, HangUp, client, peer, At, Nothing
  <1>7. WireInv'
    BY <1>1, <1>2, <1>3 DEF WireInv, TypeOK, HangUp, client, peer, At, Nothing
  <1>8. AnswersInv'
    BY <1>1, <1>2, <1>3
       DEF AnswersInv, PlaceInv, Running, TypeOK, HangUp, client, peer, At, Nothing
  <1>9. PortInv'
    BY <1>1, <1>2, <1>3 DEF PortInv, PlaceInv, TypeOK, HangUp, client, peer, At, Nothing
  <1>10. HonestInv'
    <2>1. Line(Ask)' = Line(Ask)
      BY <1>1, <1>2 DEF Line
    <2> QED
      BY <1>1, <1>2, <2>1
         DEF HonestInv, Awaited, Running, WholeAnswers, OneAnswer, Follower, Wire, HangUp, client
  <1> QED
    BY <1>4, <1>5, <1>6, <1>7, <1>8, <1>9, <1>10 DEF IInv

\* What is left on the connections when a packet is complete.
LEMMA PayloadWire ==
  ASSUME IInv, ReadPayload
  PROVE  /\ pc = "read" /\ Running /\ kind' = kind /\ ~task'
         /\ inbox' \in [Lines -> Seq(Part)]
         /\ \A l \in Lines : \A i \in DOMAIN inbox'[l] :
               /\ inbox'[l][i].packet.sort = "open" => inbox'[l][i].packet.ask = "info"
               /\ inbox'[l][i].packet.sort = "pending" => inbox'[l][i].packet.ask = "poll"
  <1> USE DEF IInv
  <1>1. pc = "read" /\ kind' = kind /\ ~task'
    BY DEF ReadPayload, Arrived
  <1>2. /\ inbox' \in [Lines -> Seq(Part)] /\ Line(Ask) \in Lines
        /\ \A i \in DOMAIN inbox'[Line(Ask)] :
              i + 1 \in DOMAIN Wire /\ inbox'[Line(Ask)][i] = Wire[i + 1]
        /\ \A l \in Lines : l # Line(Ask) => inbox'[l] = inbox[l]
    BY TakeLemma, LineType DEF ReadPayload
  <1> QED
    BY <1>1, <1>2 DEF WireInv, Wire, Running

\* A call that ends with the packet it has read keeps the invariant.
LEMMA ReadFinishInv ==
  ASSUME IInv, ReadPayload, NEW result \in Outcomes \ {"none"}, Finish(result), step' = step,
         honest => result \notin {"protocol", "rejected"},
         got' \in Seq([ask : Asks, sort : Good, from : Ports \cup {NoPort}]),
         \A i \in DOMAIN got' : got'[i].ask \in Probes => got'[i].from = port /\ port \in Ports,
         AnswersInv'
  PROVE  IInv'
  <1> USE DEF IInv
  <1>1. kind' = kind /\ Running /\ pc = "read" /\ ~task'
    BY PayloadWire
  <1>2. Ask' = Ask
    BY <1>1 DEF Ask
  <1>3. Ask \in Asks /\ At(kind, step, Ask, Len(Script[kind]))
    BY AskIs DEF TypeOK
  <1>4. CoveredInv'
    BY <1>1, FinishCovers DEF ReadPayload
  <1>5. TypeOK'
    BY <1>1, <1>4, PayloadWire, FinallyType
       DEF TypeOK, ReadPayload, Finish, CoveredInv, Places, Nothing, Part
  <1>6. PlaceInv'
    BY <1>1, <1>2 DEF PlaceInv, Running, ReadPayload, Finish
  <1>7. WireInv'
    BY PayloadWire DEF WireInv, Finish, Nothing
  <1>8. PortInv'
    BY <1>2 DEF PortInv, ReadPayload, Finish
  <1>9. HonestInv'
    BY DEF HonestInv, Running, ReadPayload, Finish
  <1> QED
    BY <1>4, <1>5, <1>6, <1>7, <1>8, <1>9

\* An accepted answer is the one to the step.
LEMMA AcceptedAnswer ==
  ASSUME IInv, ReadPayload, Accepted
  PROVE  /\ half.ask = Ask /\ half.sort \in {"own", "open"}
         /\ got' \in Seq([ask : Asks, sort : Good, from : Ports \cup {NoPort}])
         /\ Len(got') = step /\ DOMAIN got' = 1 .. step
         /\ got'[step].sort = half.sort
         /\ \A i \in DOMAIN got' : got'[i].ask = Script[kind][i]
         /\ \A i \in DOMAIN got' : got'[i].ask \in Probes => got'[i].from = port /\ port \in Ports
  <1> DEFINE R == [ask : Asks, sort : Good, from : Ports \cup {NoPort}]
             r == [ask |-> half.ask, sort |-> half.sort, from |-> from]
  <1> USE DEF IInv
  <1>1. pc = "read" /\ Running
    BY PayloadWire
  <1>2. half.ask = Ask /\ half.sort \in {"own", "open"}
    BY DEF Accepted, Wanted
  <1>3. Ask \in Asks /\ step \in Nat
    BY AskIs, ScriptDomain DEF TypeOK
  <1>4. r \in R
    BY <1>2, <1>3 DEF Good, TypeOK
  <1>5. got \in Seq(R) /\ got' = Append(got, r)
    BY DEF TypeOK, Accepted
  <1>6. Len(got) = step - 1
    BY <1>1 DEF AnswersInv
  <1> HIDE DEF r, R
  <1>7. /\ got' \in Seq(R) /\ Len(got') = step /\ got'[step] = r
        /\ \A i \in 1 .. step - 1 : got'[i] = got[i]
    BY <1>3, <1>4, <1>5, <1>6, AppendProperties
  <1>8. DOMAIN got' = 1 .. step /\ DOMAIN got = 1 .. step - 1
    BY <1>5, <1>6, <1>7, LenProperties
  <1>9. r.ask = Ask /\ r.sort = half.sort /\ r.from = from
    BY <1>2 DEF r
  <1>10. \A i \in DOMAIN got' : i = step \/ (i \in DOMAIN got /\ got'[i] = got[i])
    BY <1>3, <1>7, <1>8
  <1>11. \A i \in DOMAIN got' : got'[i].ask = Script[kind][i]
    BY <1>1, <1>7, <1>9, <1>10 DEF AnswersInv, Ask
  <1>12. \A i \in DOMAIN got' : got'[i].ask \in Probes => got'[i].from = port /\ port \in Ports
    BY <1>1, <1>7, <1>9, <1>10 DEF PortInv
  <1> QED
    BY <1>2, <1>7, <1>8, <1>9, <1>11, <1>12 DEF R

\* From a peer that keeps to the protocol it is the only kind of packet, and
\* nothing is left on the wire but the forward that follows the addresses.
LEMMA HonestPayload ==
  ASSUME IInv, ReadPayload, honest
  PROVE  /\ half.ask = Ask /\ half.sort \in Good
         /\ kind # "shunt" =>
               /\ owes[Ask] = 0
               /\ \/ Len(inbox'[Line(Ask)]) = 0 /\ (Ask = "address" => owes["forward"] = 1)
                  \/ /\ Ask = "address" /\ owes["forward"] = 0
                     /\ Len(inbox'[Line(Ask)]) = 2
                     /\ inbox'[Line(Ask)][1].part = 1 /\ inbox'[Line(Ask)][2].part = 2
                     /\ inbox'[Line(Ask)][1].packet.ask = "forward"
                     /\ inbox'[Line(Ask)][1].packet.sort \in Good
  <1> USE DEF IInv
  <1>1. pc = "read" /\ Running /\ half # Nothing /\ Awaited
    BY PayloadWire DEF ReadPayload, HonestInv
  <1>2. CASE kind = "shunt"
    BY <1>1, <1>2 DEF Awaited, WholeAnswers
  <1>3. CASE kind # "shunt"
    <2>1. owes[Ask] = 0 /\ half.ask = Ask /\ half.sort \in Good
          /\ Len(Wire) >= 1 /\ Wire[1].part = 2 /\ Follower(2)
      BY <1>1, <1>3 DEF Awaited, OneAnswer
    <2>2. /\ Len(Wire) \in Nat /\ Len(inbox'[Line(Ask)]) = Len(Wire) - 1
          /\ \A i \in DOMAIN inbox'[Line(Ask)] : inbox'[Line(Ask)][i] = Wire[i + 1]
          /\ DOMAIN inbox'[Line(Ask)] = 1 .. Len(Wire) - 1
      BY TakeLemma DEF ReadPayload
    <2>3. CASE Len(Wire) = 1 /\ (Ask = "address" => owes["forward"] = 1)
      BY <2>1, <2>2, <2>3
    <2>4. CASE /\ Ask = "address" /\ owes["forward"] = 0
               /\ Len(Wire) = 3 /\ Wire[2].part = 1 /\ Wire[3].part = 2
               /\ Wire[2].packet.ask = "forward" /\ Wire[2].packet.sort \in Good
      BY <2>1, <2>2, <2>4
    <2> QED
      BY <2>1, <2>3, <2>4 DEF Follower
  <1> QED
    BY <1>2, <1>3

\* After any other answer nothing is owed and nothing is on the wire.
LEMMA HonestQuiet ==
  ASSUME IInv, ReadPayload, honest, kind # "shunt", Ask # "address"
  PROVE  /\ \A a \in Asks : owes[a] = 0
         /\ \A l \in Lines : inbox'[l] = <<>>
  <1> USE DEF IInv
  <1>1. pc = "read" /\ Running /\ Awaited
    BY PayloadWire DEF HonestInv
  <1>2. \A a \in Asks : owes[a] = 0
    BY <1>1, HonestPayload DEF Awaited
  <1>3. inbox'[Line(Ask)] \in Seq(Part) /\ Len(inbox'[Line(Ask)]) = 0
    BY HonestPayload, PayloadWire, LineType
  <1>4. inbox'[Line(Ask)] = <<>>
    BY <1>3, EmptySeq
  <1>5. \A l \in Lines : l # Line(Ask) => inbox'[l] = <<>>
    BY <1>1, TakeLemma DEF Awaited, ReadPayload
  <1> QED
    BY <1>2, <1>4, <1>5

\* A call that goes on keeps the invariant: it releases the connection of the
\* step, or replies, or turns to the next step.
LEMMA ReadOnInv ==
  ASSUME IInv, ReadPayload, UNCHANGED <<outcome, finally>>, half' = Nothing,
         got' \in Seq([ask : Asks, sort : Good, from : Ports \cup {NoPort}]),
         \A i \in DOMAIN got' : got'[i].ask \in Probes => got'[i].from = port /\ port \in Ports,
         \A i \in DOMAIN got' : got'[i].ask = Script[kind][i],
         \/ /\ step' = step /\ pc' = "release" /\ Fresh(Ask) /\ kind \in {"nat", "job"}
            /\ Len(got') = IF Ask = "poll" THEN step - 1 ELSE step
            /\ kind = "job" => polls < MaxPolls
         \/ step' = step /\ pc' = "reply" /\ kind = "accept" /\ Len(got') = step
         \/ /\ step' = step + 1 /\ step < Len(Script[kind]) /\ pc' = Follows /\ ~Fresh(Ask)
            /\ Len(got') = step
  PROVE  IInv'
  <1> USE DEF IInv
  <1>1. /\ kind' = kind /\ Running /\ pc = "read" /\ ~task' /\ port' = port /\ from' = from
        /\ polls' = polls /\ up' = up /\ sends' = sends /\ honest' = honest /\ owes' = owes
    BY PayloadWire DEF ReadPayload
  <1>2. Ask \in Asks /\ At(kind, step, Ask, Len(Script[kind]))
    BY AskIs DEF TypeOK
  <1>3. step' \in DOMAIN Script[kind] /\ Ask' = Script[kind][step']
        /\ Ask' \in Asks /\ At(kind, step', Ask', Len(Script[kind]))
    <2>1. step' \in DOMAIN Script[kind]
      BY ScriptDomain DEF TypeOK
    <2> QED
      BY <1>1, <2>1, StepsAre, AsksAre DEF Ask, TypeOK
  <1>4. \/ pc' = "release" /\ Ask' = Ask /\ Fresh(Ask) /\ kind \in {"nat", "job"} /\ step' = step
        \/ pc' = "reply" /\ Ask' = Ask /\ kind = "accept" /\ step' = step
        \/ /\ step' = step + 1 /\ ~Fresh(Ask) /\ kind \notin {"shunt", "job", "lookup"}
           /\ \/ pc' = "read" /\ Ask = "address" /\ Ask' = "forward" /\ kind = "direct"
              \/ pc' = "open" /\ Fresh(Ask') /\ Ask' \in Probes /\ Ask = "info" /\ kind = "nat"
              \/ pc' = "send" /\ ~Fresh(Ask') /\ Ask # "address" /\ kind = "control"
    <2>1. CASE step' = step
      BY <1>1, <2>1 DEF Ask, TypeOK
    <2>2. CASE step' # step
      <3>1. step' = step + 1 /\ step < Len(Script[kind]) /\ pc' = Follows /\ ~Fresh(Ask)
        BY <2>2
      <3>2. pc' = IF Ask' \in Unasked THEN "read" ELSE IF Fresh(Ask') THEN "open" ELSE "send"
        BY <1>3, <3>1 DEF Follows
      <3>3. \/ kind = "direct" /\ Ask = "address" /\ Ask' = "forward"
            \/ kind = "nat" /\ Ask = "info" /\ Ask' = "probe1"
            \/ kind = "control" /\ Ask # "address" /\ Ask' \in {"nic", "host", "deregister"}
        BY <1>2, <1>3, <3>1 DEF At, Fresh, Probes, Http
      <3> QED
        BY <3>1, <3>2, <3>3 DEF Unasked, Fresh, Probes, Http
    <2> QED
      BY <2>1, <2>2
  <1>5. CoveredInv'
    <2>1. ASSUME "probe" \in up PROVE pc' = "release" /\ Ask' = Ask /\ Ask \in Probes
      <3>1. Ask \in Probes
        BY <1>1, <2>1 DEF CoveredInv
      <3>2. kind # "accept"
        BY <1>2, <3>1 DEF At, Probes
      <3> QED
        BY <1>4, <3>1, <3>2 DEF Fresh
    <2>2. "main" \in up => kind \notin Callers
      BY <1>1 DEF CoveredInv
    <2>3. pc' = "open" => step' # 1 /\ Ask' \notin Http
      BY <1>2, <1>3, <1>4 DEF Probes, Http, At
    <2> QED
      BY <1>1, <1>4, <2>1, <2>2, <2>3 DEF CoveredInv, Running
  <1>6. TypeOK'
    BY <1>1, <1>3, <1>4, PayloadWire DEF TypeOK, ReadPayload, Places, Part
  <1>7. PlaceInv'
    BY <1>1, <1>4 DEF PlaceInv, Running, Callers
  <1>8. WireInv'
    BY PayloadWire DEF WireInv, Nothing
  <1>9. AnswersInv'
    BY <1>1, <1>4 DEF AnswersInv, PlaceInv, Running, Fresh, Probes, Http
  <1>10. PortInv'
    <2>1. pc' \in {"send", "read"} => Ask' \notin Probes
      BY <1>4 DEF Fresh, Probes
    <2> QED
      BY <1>1, <2>1 DEF PortInv
  <1>11. HonestInv'
    <2>1. ASSUME honest' PROVE Awaited'
      <3>1. honest /\ kind # "shunt" /\ from \in {NoPort, port} /\ Awaited
        BY <1>1, <1>4, <2>1 DEF HonestInv, Awaited
      <3>2. CASE Ask # "address"
        BY <1>1, <1>4, <3>1, <3>2, HonestQuiet DEF Awaited
      <3>3. CASE Ask = "address"
        <4>1. pc' = "read" /\ Ask' = "forward" /\ kind = "direct" /\ Line(Ask)' = Line(Ask)
          <5>1. kind = "direct" /\ ~Fresh(Ask)
            BY <1>2, <3>3 DEF At, Fresh, Probes, Http
          <5>2. pc' = "read" /\ Ask' = "forward"
            BY <1>4, <5>1
          <5> QED
            BY <1>1, <3>3, <5>1, <5>2 DEF Line, Probes, Callers
        <4>2. Wire' = inbox'[Line(Ask)] /\ Wire' \in Seq(Part)
          BY <4>1, PayloadWire, LineType DEF Wire
        <4>3. \/ Len(Wire') = 0 /\ owes["forward"] = 1
              \/ /\ owes["forward"] = 0
                 /\ Len(Wire') = 2 /\ Wire'[1].part = 1 /\ Wire'[2].part = 2
                 /\ Wire'[1].packet.ask = "forward" /\ Wire'[1].packet.sort \in Good
          BY <3>1, <3>3, <4>2, HonestPayload
        <4>4. OneAnswer'
          BY <1>1, <4>1, <4>2, <4>3, EmptySeq DEF OneAnswer, Follower
        <4>5. owes["address"] = 0 /\ \A a \in Asks : owes[a] # 0 => a = "forward"
          BY <1>1, <3>1, <3>3, HonestPayload DEF Awaited
        <4>6. \A l \in Lines : l # Line(Ask) => inbox'[l] = <<>>
          BY <3>1, TakeLemma DEF Awaited, ReadPayload
        <4> QED
          BY <1>1, <3>1, <4>1, <4>4, <4>5, <4>6 DEF Awaited
      <3> QED
        BY <3>2, <3>3
    <2> QED
      BY <1>1, <2>1 DEF HonestInv
  <1> QED
    BY <1>5, <1>6, <1>7, <1>8, <1>9, <1>10, <1>11

\* A packet is complete.
LEMMA ReadPayloadInv ==
  ASSUME IInv, ReadPayload
  PROVE  IInv'
  <1> USE DEF IInv
  <1>1. kind' = kind /\ Running /\ pc = "read"
    BY PayloadWire
  <1>2. Ask \in Asks /\ At(kind, step, Ask, Len(Script[kind]))
    BY AskIs DEF TypeOK
  <1>3. /\ got \in Seq([ask : Asks, sort : Good, from : Ports \cup {NoPort}])
        /\ \A i \in DOMAIN got : got[i].ask = Script[kind][i]
        /\ \A i \in DOMAIN got : got[i].ask \in Probes => got[i].from = port /\ port \in Ports
        /\ Len(got) = step - 1
    BY <1>1 DEF TypeOK, AnswersInv, PortInv
  <1>4. ASSUME NEW result \in {"rejected", "protocol", "transport"}, Finish(result),
               honest => result = "transport", step' = step, got' = got
        PROVE  IInv'
    <2>1. AnswersInv'
      BY <1>1, <1>4 DEF AnswersInv, Running, Finish
    <2> QED
      BY <1>3, <1>4, <2>1, ReadFinishInv DEF Outcomes
  <1>5. CASE Refused
    <2>1. ~honest
      BY <1>5, HonestPayload DEF Refused, Good
    <2> QED
      BY <1>4, <1>5, <2>1 DEF Refused
  <1>6. CASE Unexpected
    <2>1. ~honest
      BY <1>6, HonestPayload DEF Unexpected, Good, Wanted
    <2> QED
      BY <1>4, <1>6, <2>1 DEF Unexpected
  <1>7. CASE Pending
    <2>1. CASE polls < MaxPolls
      <3>1. Ask = "poll" /\ kind = "job"
        BY <1>2, <1>7 DEF Pending, WireInv, At
      <3> QED
        BY <1>3, <1>7, <2>1, <3>1, ReadOnInv DEF Pending, Fresh, Http
    <2>2. CASE ~(polls < MaxPolls)
      BY <1>4, <1>7, <2>2 DEF Pending
    <2> QED
      BY <2>1, <2>2
  <1>8. CASE Accepted
    <2>1. CASE kind = "accept"
      BY <1>8, <2>1, AcceptedAnswer, ReadOnInv DEF Accepted
    <2>2. CASE kind # "accept" /\ Complete
      <3>1. Finish("returned") /\ step' = step
        BY <1>8, <2>2 DEF Accepted
      <3>2. AnswersInv'
        <4>1. CASE half.sort = "open"
          <5>1. step = 1
            BY <1>2, <1>8, <4>1, AcceptedAnswer DEF WireInv, At
          <5> QED
            BY <1>1, <1>8, <3>1, <4>1, <5>1, AcceptedAnswer DEF AnswersInv, Running, Finish
        <4>2. CASE step = Len(Script[kind])
          BY <1>1, <1>8, <3>1, <4>2, AcceptedAnswer DEF AnswersInv, Running, Finish
        <4> QED
          BY <2>2, <4>1, <4>2 DEF Complete
      <3> QED
        BY <1>8, <3>1, <3>2, AcceptedAnswer, ReadFinishInv DEF Outcomes
    <2>3. CASE kind # "accept" /\ ~Complete
      <3>1. /\ pc' = Follows /\ half' = Nothing /\ UNCHANGED <<outcome, finally>>
            /\ step' = IF Fresh(Ask) THEN step ELSE step + 1
        BY <1>8, <2>3 DEF Accepted
      <3>2. step < Len(Script[kind])
        BY <2>3, ScriptDomain DEF Complete, TypeOK
      <3>3. CASE Fresh(Ask)
        <4>1. kind # "lookup" /\ Ask # "poll"
          <5>1. step # Len(Script[kind])
            BY <2>3 DEF Complete
          <5>2. ASSUME kind = "lookup" PROVE FALSE
            BY <1>2, <5>1, <5>2 DEF At
          <5>3. ASSUME Ask = "poll" PROVE FALSE
            <6>1. Len(Script[kind]) = 2 /\ step = 2
              BY <1>2, <5>3 DEF At
            <6> QED
              BY <5>1, <6>1
          <5> QED
            BY <5>2, <5>3
        <4>2. kind = "nat" \/ (kind = "job" /\ Ask = "publish")
          BY <1>2, <3>3, <4>1 DEF At, Fresh, Probes, Http
        <4>3. kind = "job" => polls < MaxPolls
          BY <4>2 DEF PlaceInv
        <4> QED
          BY <1>8, <3>1, <3>3, <4>1, <4>2, <4>3, AcceptedAnswer, ReadOnInv DEF Follows
      <3>4. CASE ~Fresh(Ask)
        BY <1>8, <3>1, <3>2, <3>4, AcceptedAnswer, ReadOnInv
      <3> QED
        BY <3>3, <3>4
    <2> QED
      BY <2>1, <2>2, <2>3
  <1> QED
    BY <1>5, <1>6, <1>7, <1>8 DEF ReadPayload

-----------------------------------------------------------------------------
(* The theorems *)

\* The invariant holds when the call begins.
LEMMA InitInv == Init => IInv
  <1> SUFFICES ASSUME Init PROVE IInv
    OBVIOUS
  <1>1. kind \in Kinds /\ step = 1 /\ step \in DOMAIN Script[kind]
    BY ScriptDomain DEF Init
  <1>2. Ask \in Asks /\ At(kind, step, Ask, Len(Script[kind]))
    BY <1>1, AskIs
  <1>3. pc = (IF kind \notin Callers THEN "open" ELSE IF kind = "accept" THEN "read" ELSE "send")
    BY DEF Init, Starts
  <1>4. pc \in {"open", "read", "send"} /\ Running
    BY <1>3 DEF Running
  <1>5. TypeOK
    <2>1. got \in Seq([ask : Asks, sort : Good, from : Ports \cup {NoPort}])
          /\ finally \in Seq({"probe", "task", "main"})
      BY EmptySeq DEF Init
    <2>2. inbox \in [Lines -> Seq([packet : Packet, part : {1, 2}])]
      BY EmptySeq DEF Init
    <2>3. owes \in [Asks -> Nat]
      BY DEF Init
    <2>4. polls \in 0 .. MaxPolls /\ sends \in 0 .. MaxSends /\ copies \in 0 .. MaxCopies
      BY BoundsAssumption DEF Init
    <2>5. up \subseteq Lines
      BY DEF Init, Lines
    <2> QED
      BY <1>1, <1>4, <2>1, <2>2, <2>3, <2>4, <2>5 DEF TypeOK, Init, Places, Outcomes
  <1>6. PlaceInv
    BY <1>1, <1>2, <1>3, <1>4, BoundsAssumption DEF PlaceInv, Init, Callers
  <1>7. CoveredInv
    BY <1>4 DEF CoveredInv, Init, Callers
  <1>8. WireInv
    BY DEF WireInv, Init, Nothing
  <1>9. AnswersInv
    BY <1>4 DEF AnswersInv, Init
  <1>10. PortInv
    <2>1. Ask \notin Probes
      BY <1>1, <1>2 DEF At, Probes
    <2> QED
      BY <2>1 DEF PortInv, Init
  <1>11. Awaited
    <2>1. Wire = <<>> /\ half = Nothing
      BY LineType DEF Wire, Init
    <2>2. pc = "read" => kind = "accept" /\ Ask = "accept"
      BY <1>2, <1>3 DEF At, Callers
    <2>3. pc = "read" => owes[Ask] = 1 /\ \A a \in Asks : a # Ask => owes[a] = 0
      BY <1>2, <2>2 DEF Init
    <2>4. pc # "read" => \A a \in Asks : owes[a] = 0
      BY <1>3 DEF Init, Callers
    <2> QED
      BY <2>1, <2>2, <2>3, <2>4 DEF Awaited, OneAnswer, Init
  <1> QED
    BY <1>5, <1>6, <1>7, <1>8, <1>9, <1>10, <1>11 DEF IInv, HonestInv, Init

\* A step that changes nothing preserves it.
LEMMA StutterInv == IInv /\ UNCHANGED vars => IInv'
  <1> SUFFICES ASSUME IInv, UNCHANGED vars PROVE IInv'
    OBVIOUS
  <1>1. Ask' = Ask /\ Wire' = Wire /\ Line(Ask)' = Line(Ask)
    BY DEF vars, client, peer, Ask, Wire, Line
  <1>2. TypeOK'
    BY DEF IInv, vars, client, peer, TypeOK
  <1>3. PlaceInv'
    BY <1>1 DEF IInv, vars, client, peer, PlaceInv, Running
  <1>4. CoveredInv'
    BY <1>1 DEF IInv, vars, client, peer, CoveredInv, Running
  <1>5. WireInv' /\ AnswersInv' /\ PortInv'
    BY <1>1 DEF IInv, vars, client, peer, WireInv, AnswersInv, PortInv, Running
  <1>6. HonestInv'
    BY <1>1
       DEF IInv, vars, client, peer, HonestInv, Awaited, OneAnswer, WholeAnswers, Follower, Running
  <1> QED
    BY <1>2, <1>3, <1>4, <1>5, <1>6 DEF IInv

\* Every step preserves it.
LEMMA NextInv == IInv /\ [Next]_vars => IInv'
  <1> SUFFICES ASSUME IInv, [Next]_vars PROVE IInv'
    OBVIOUS
  <1>1. CASE Client
    BY <1>1, OpenInv, OpenFailsInv, SendInv, WrongPortInv, TransportFailsInv, ReadHeaderInv,
       ReadPayloadInv, ReplyInv, ReleaseInv, WakeInv, EndFinallyInv, OverInv DEF Client
  <1>2. CASE Resend
    BY <1>2, ResendInv
  <1>3. CASE Timeout \/ Cancel
    BY <1>3, InterruptedInv DEF Timeout, Cancel
  <1>4. CASE Peer
    BY <1>4, AnswerInv, AnswerAgainInv, HangUpInv DEF Peer
  <1>5. CASE UNCHANGED vars
    BY <1>5, StutterInv
  <1> QED
    BY <1>1, <1>2, <1>3, <1>4, <1>5 DEF Next

\* The inductive invariant holds in every state.
THEOREM Invariance == Spec => []IInv
BY InitInv, NextInv, PTL DEF Spec

\* Every variable keeps its type, and no bound is passed: the polls of a job
\* (cloud.py:436-447) among them.
THEOREM TypeCorrect == Spec => []TypeOK
<1>1. IInv => TypeOK
  BY DEF IInv
<1> QED
  BY <1>1, Invariance, PTL

\* However an exchange is left, by its answers, a refusal, a lost connection, a
\* timer or a cancellation, in its body or in its finally clauses, no connection
\* of its own is left open and no reader task is left running.
THEOREM LeavesNothingTheorem == Spec => []LeavesNothing
<1>1. IInv => LeavesNothing
  BY DEF IInv, CoveredInv, LeavesNothing
<1> QED
  BY <1>1, Invariance, PTL

\* An exchange returns only with the answers to its own requests, one for each
\* and in the order of its script, and the probes all from one port.
THEOREM AnswersMatchTheorem == Spec => []AnswersMatch
<1>1. ASSUME IInv, outcome = "returned" PROVE AnswersMatch
  <2>1. \A i, j \in DOMAIN got : {got[i].ask, got[j].ask} \subseteq Probes =>
           got[i].from = got[j].from
    BY <1>1 DEF IInv, PortInv
  <2>2. ASSUME Len(got) = Len(Script[kind]), \A i \in DOMAIN got : got[i].ask = Script[kind][i]
        PROVE  [i \in DOMAIN got |-> got[i].ask] = Script[kind]
    <3> DEFINE R == [ask : Asks, sort : Good, from : Ports \cup {NoPort}]
    <3>1. got \in Seq(R) /\ kind \in Kinds
      BY <1>1 DEF IInv, TypeOK
    <3>2. DOMAIN got = 1 .. Len(got) /\ DOMAIN Script[kind] = 1 .. Len(Script[kind])
      BY <3>1, LenProperties, ScriptDomain
    <3>3. Script[kind] = [i \in DOMAIN Script[kind] |-> Script[kind][i]]
      BY <3>1, KindsAre, ScriptsAre
    <3> QED
      BY <2>2, <3>2, <3>3
  <2> QED
    BY <1>1, <2>1, <2>2 DEF IInv, AnswersInv, AnswersMatch
<1>2. IInv => AnswersMatch
  BY <1>1 DEF AnswersMatch
<1> QED
  BY <1>2, Invariance, PTL

\* With a peer that keeps to the protocol no exchange fails for the protocol or
\* a refusal, whatever is cut, repeated by shunt, timed out or cancelled.
THEOREM HonestNeverProtocolTheorem == Spec => []HonestNeverProtocol
<1>1. IInv => HonestNeverProtocol
  BY DEF IInv, HonestInv, HonestNeverProtocol
<1> QED
  BY <1>1, Invariance, PTL
=============================================================================
