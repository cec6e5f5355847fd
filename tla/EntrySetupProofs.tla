--------------------------- MODULE EntrySetupProofs ---------------------------
(***************************************************************************)
(* Proofs about EntrySetup, for any cameras, any number of addresses, any  *)
(* accounts and options.  The invariant says that the list of specs names  *)
(* each address once, with the MAC of the camera the cloud has there, and  *)
(* that what the setup has learnt of the LAN is, or was, true of it.       *)
(***************************************************************************)
EXTENDS EntrySetup, FunctionTheorems, FiniteSetTheorems, SequenceTheorems, TLAPS

-----------------------------------------------------------------------------
(* Addresses as a list *)

\* Its place among the members, from 0.
Rank(S, h) == Cardinality({g \in S : g < h})

\* The addresses are finitely many numbers.
LEMMA HostsFinite ==
  ASSUME NEW S \in SUBSET Hosts
  PROVE  S \in SUBSET Nat /\ IsFiniteSet(S) /\ Cardinality(S) \in Nat
  <1>1. IsFiniteSet(S) /\ IsFiniteSet(Hosts)
    BY HostsAssumption, FS_Subset
  <1>2. Cardinality(S) \in Nat /\ Cardinality(Hosts) \in Nat
    BY <1>1, FS_CardinalityType
  <1> QED
    BY <1>1, <1>2, HostsAssumption

\* The places are 0 up to the number of members.
LEMMA RankType ==
  ASSUME NEW S \in SUBSET Nat, IsFiniteSet(S), NEW h \in S
  PROVE  Rank(S, h) \in 0 .. Cardinality(S) - 1
  <1> DEFINE B == {g \in S : g < h}
  <1>1. h \notin B
    OBVIOUS
  <1>2. IsFiniteSet(S \ {h}) /\ Cardinality(S \ {h}) = Cardinality(S) - 1
    BY FS_RemoveElement
  <1>3. B \in SUBSET (S \ {h})
    BY <1>1
  <1>4. IsFiniteSet(B) /\ Cardinality(B) <= Cardinality(S) - 1
    BY <1>2, <1>3, FS_Subset
  <1>5. Cardinality(B) \in Nat
    BY <1>4, FS_CardinalityType
  <1>6. Cardinality(S) \in Nat
    BY FS_CardinalityType
  <1> QED
    BY <1>4, <1>5, <1>6 DEF Rank

\* A greater member has a later place.
LEMMA RankGrows ==
  ASSUME NEW S \in SUBSET Nat, IsFiniteSet(S), NEW g \in S, NEW h \in S, g < h
  PROVE  Rank(S, g) < Rank(S, h)
  <1> DEFINE A == {x \in S : x < g}
             B == {x \in S : x < h}
  <1>1. A \in SUBSET S /\ B \in SUBSET S /\ g \notin A
    OBVIOUS
  <1>2. A \cup {g} \in SUBSET B
    <2>1. \A x \in S : x < g => x < h
      OBVIOUS
    <2> QED
      BY <2>1
  <1>3. IsFiniteSet(A) /\ IsFiniteSet(B) /\ Cardinality(A) \in Nat /\ Cardinality(B) \in Nat
    BY <1>1, FS_Subset, FS_CardinalityType
  <1>4. Cardinality(A \cup {g}) = Cardinality(A) + 1
    BY <1>1, <1>3, FS_AddElement
  <1>5. Cardinality(A \cup {g}) <= Cardinality(B)
    BY <1>2, <1>3, FS_Subset
  <1> QED
    BY <1>3, <1>4, <1>5 DEF Rank

\* Each place is taken: by counting, as no two members share one.
LEMMA RankOnto ==
  ASSUME NEW S \in SUBSET Nat, IsFiniteSet(S), NEW k \in 0 .. Cardinality(S) - 1
  PROVE  \E h \in S : Rank(S, h) = k
  <1> DEFINE T == 0 .. Cardinality(S) - 1
             r == [h \in S |-> Rank(S, h)]
  <1>1. r \in [S -> T]
    BY RankType
  <1>2. \A g, h \in S : r[g] = r[h] => g = h
    <2>1. ASSUME NEW g \in S, NEW h \in S, g # h PROVE Rank(S, g) # Rank(S, h)
      <3>1. g \in Nat /\ h \in Nat /\ Rank(S, g) \in Int /\ Rank(S, h) \in Int
        BY RankType
      <3>2. CASE g < h
        BY <3>1, <3>2, RankGrows
      <3>3. CASE h < g
        BY <3>1, <3>3, RankGrows
      <3> QED
        BY <2>1, <3>1, <3>2, <3>3
    <2> QED
      BY <2>1
  <1>3. r \in Injection(S, T)
    BY <1>1, <1>2, Fun_IsInj
  <1>4. IsFiniteSet(T) /\ Cardinality(T) = Cardinality(S)
    <2>1. Cardinality(S) \in Nat /\ Cardinality(S) - 1 \in Int /\ 0 \in Int
      BY FS_CardinalityType
    <2>2. /\ IsFiniteSet(0 .. Cardinality(S) - 1)
          /\ Cardinality(0 .. Cardinality(S) - 1) =
                IF 0 > Cardinality(S) - 1 THEN 0 ELSE Cardinality(S) - 1 - 0 + 1
      BY <2>1, FS_Interval
    <2> QED
      BY <2>1, <2>2
  <1>5. r \in Surjection(S, T)
    BY <1>3, <1>4, FS_Injection
  <1>6. \E h \in S : r[h] = k
    BY <1>5 DEF Surjection
  <1> QED
    BY <1>6

\* A finite set of numbers has a least and a greatest member.
LEMMA EndsOf ==
  ASSUME NEW S \in SUBSET Nat, IsFiniteSet(S), S # {}
  PROVE  /\ \E h \in S : \A g \in S : h <= g
         /\ \E h \in S : \A g \in S : h >= g
  <1>1. Cardinality(S) \in Nat \ {0}
    BY FS_CardinalityType, FS_EmptySet
  <1>2. PICK h \in S : Rank(S, h) = 0
    BY <1>1, RankOnto
  <1>3. \A g \in S : h <= g
    BY <1>1, <1>2, RankGrows, RankType
  <1>4. Cardinality(S) - 1 \in 0 .. Cardinality(S) - 1
    BY <1>1
  <1>5. PICK k \in S : Rank(S, k) = Cardinality(S) - 1
    BY <1>4, RankOnto
  <1>6. \A g \in S : k >= g
    BY <1>1, <1>5, RankGrows, RankType
  <1> QED
    BY <1>3, <1>6

\* InOrder lists the members of a set, each of them once.
LEMMA InOrderLists ==
  ASSUME NEW S \in SUBSET Hosts
  PROVE  /\ InOrder(S) \in Seq(Hosts) /\ Len(InOrder(S)) = Cardinality(S)
         /\ \A i, j \in DOMAIN InOrder(S) : InOrder(S)[i] = InOrder(S)[j] => i = j
         /\ \A h : h \in S <=> \E i \in DOMAIN InOrder(S) : InOrder(S)[i] = h
  <1> DEFINE n == Cardinality(S)
             s == InOrder(S)
  <1>1. n \in Nat /\ DOMAIN s = 1 .. n
    BY HostsFinite DEF InOrder
  <1>2. \A i \in 1 .. n : s[i] \in S /\ Rank(S, s[i]) = i - 1
    <2> SUFFICES ASSUME NEW i \in 1 .. n PROVE s[i] \in S /\ Rank(S, s[i]) = i - 1
      OBVIOUS
    <2>1. s[i] = CHOOSE h \in S : Rank(S, h) = i - 1
      BY DEF InOrder, Rank
    <2>2. \E h \in S : Rank(S, h) = i - 1
      BY <1>1, HostsFinite, RankOnto
    <2> QED
      BY <2>1, <2>2
  <1>3. s \in [1 .. n -> Hosts]
    <2>1. s = [i \in 1 .. n |-> s[i]]
      BY DEF InOrder
    <2> QED
      BY <1>2, <2>1
  <1>4. s \in Seq(Hosts) /\ Len(s) = n
    BY <1>1, <1>3
  <1>5. \A i, j \in 1 .. n : s[i] = s[j] => i = j
    BY <1>1, <1>2
  <1>6. ASSUME NEW h \in S PROVE \E i \in 1 .. n : s[i] = h
    <2>1. Rank(S, h) \in 0 .. n - 1
      BY HostsFinite, RankType
    <2>2. PICK i \in 1 .. n : Rank(S, h) = i - 1
      <3>1. Rank(S, h) + 1 \in 1 .. n /\ Rank(S, h) = (Rank(S, h) + 1) - 1
        BY <1>1, <2>1
      <3> QED
        BY <3>1
    <2>3. s[i] \in S /\ Rank(S, s[i]) = Rank(S, h)
      BY <1>2, <2>2
    <2>4. s[i] \in Nat /\ h \in Nat /\ ~(s[i] < h) /\ ~(h < s[i])
      BY <2>3, HostsFinite, RankGrows, RankType
    <2> QED
      BY <2>4
  <1> QED
    BY <1>1, <1>2, <1>4, <1>5, <1>6

\* Max returns one of the addresses.
LEMMA MaxIsIn ==
  ASSUME NEW S \in SUBSET Hosts, S # {}
  PROVE  Max(S) \in S
BY HostsFinite, EndsOf DEF Max

-----------------------------------------------------------------------------
(* The discovery *)

Distinct(s) == \A i, j \in DOMAIN s : s[i] = s[j] => i = j
Lists(s, h) == \E i \in DOMAIN s : s[i] = h

\* Lists without repetitions that share nothing make one when joined.
LEMMA ConcatLists ==
  ASSUME NEW s \in Seq(Hosts), NEW t \in Seq(Hosts), Distinct(s), Distinct(t),
         \A h : ~(Lists(s, h) /\ Lists(t, h))
  PROVE  /\ s \o t \in Seq(Hosts) /\ Distinct(s \o t)
         /\ \A h : Lists(s \o t, h) <=> Lists(s, h) \/ Lists(t, h)
  <1> DEFINE u == s \o t
             m == Len(s)
             n == Len(t)
  <1>1. /\ u \in Seq(Hosts) /\ Len(u) = m + n
        /\ \A i \in 1 .. m + n : u[i] = IF i <= m THEN s[i] ELSE t[i - m]
    BY ConcatProperties
  <1>2. /\ m \in Nat /\ n \in Nat
        /\ DOMAIN s = 1 .. m /\ DOMAIN t = 1 .. n /\ DOMAIN u = 1 .. m + n
    BY <1>1, LenProperties
  <1> HIDE DEF u, m, n
  <1>3. \A i \in 1 .. m : u[i] = s[i]
    BY <1>1, <1>2
  <1>4. \A i \in 1 .. n : i + m \in 1 .. m + n /\ u[i + m] = t[i]
    BY <1>1, <1>2
  <1>5. \A h : Lists(u, h) <=> Lists(s, h) \/ Lists(t, h)
    <2>1. ASSUME NEW h, Lists(u, h) PROVE Lists(s, h) \/ Lists(t, h)
      <3>1. PICK i \in 1 .. m + n : u[i] = h
        BY <1>2, <2>1 DEF Lists
      <3>2. CASE i <= m
        <4>1. i \in 1 .. m /\ s[i] = h
          BY <1>2, <1>3, <3>1, <3>2
        <4> QED
          BY <1>2, <4>1 DEF Lists
      <3>3. CASE i > m
        <4>1. i - m \in 1 .. n /\ t[i - m] = h
          BY <1>1, <1>2, <3>1, <3>3
        <4> QED
          BY <1>2, <4>1 DEF Lists
      <3> QED
        BY <1>2, <3>2, <3>3
    <2>2. ASSUME NEW h, Lists(s, h) PROVE Lists(u, h)
      BY <1>2, <1>3, <2>2 DEF Lists
    <2>3. ASSUME NEW h, Lists(t, h) PROVE Lists(u, h)
      BY <1>2, <1>4, <2>3 DEF Lists
    <2> QED
      BY <2>1, <2>2, <2>3
  <1>6. ASSUME NEW i \in 1 .. m + n, NEW j \in 1 .. m + n, u[i] = u[j], i <= j PROVE i = j
    <2>1. CASE j <= m
      <3>1. i \in 1 .. m /\ j \in 1 .. m /\ s[i] = s[j]
        BY <1>2, <1>3, <1>6, <2>1
      <3> QED
        BY <1>2, <3>1 DEF Distinct
    <2>2. CASE i > m
      <3>1. i - m \in 1 .. n /\ j - m \in 1 .. n /\ t[i - m] = t[j - m]
        BY <1>1, <1>2, <1>6, <2>2
      <3> QED
        BY <1>2, <3>1 DEF Distinct
    <2>3. CASE i <= m /\ j > m
      <3>1. i \in 1 .. m /\ j - m \in 1 .. n /\ s[i] = t[j - m]
        BY <1>1, <1>2, <1>6, <2>3
      <3> QED
        BY <1>2, <3>1 DEF Lists
    <2> QED
      BY <1>2, <1>6, <2>1, <2>2, <2>3
  <1>7. Distinct(u)
    BY <1>2, <1>6 DEF Distinct
  <1> QED
    BY <1>1, <1>5, <1>7 DEF u

\* The table has the camera at the address it returns, or nowhere.
LEMMA ArpHostIs ==
  ASSUME NEW table \in [Hosts -> Cameras \cup {Nobody}], NEW c \in Cameras
  PROVE  \/ /\ ArpHost(table, c) \in Hosts /\ table[ArpHost(table, c)] = c
         \/ /\ ArpHost(table, c) = Nobody /\ \A h \in Hosts : table[h] # c
  <1> DEFINE lines == {h \in Hosts : table[h] = c}
  <1>1. CASE lines = {}
    BY <1>1 DEF ArpHost
  <1>2. CASE lines # {}
    <2>1. Max(lines) \in lines
      BY <1>2, MaxIsIn
    <2> QED
      BY <1>2, <2>1 DEF ArpHost
  <1> QED
    BY <1>1, <1>2

\* At most one camera of the cloud owns an address.
LEMMA CloudMacIs ==
  ASSUME NEW table \in [Hosts -> Cameras \cup {Nobody}], NEW h \in Hosts,
         cloud \subseteq Cameras
  PROVE  /\ \/ /\ OwnedAt(table, h) = {} /\ CloudMac(table, h) = Nobody
            \/ OwnedAt(table, h) = {CloudMac(table, h)}
         /\ \A c \in OwnedAt(table, h) : c \in cloud /\ Mac(c) = c /\ table[h] = c
  <1>1. ASSUME NEW c \in OwnedAt(table, h) PROVE c \in cloud /\ Mac(c) = c /\ table[h] = c
    <2>1. c \in cloud /\ Mac(c) = c /\ ArpHost(table, c) = h
      BY <1>1 DEF OwnedAt
    <2>2. h # Nobody
      BY NobodyAssumption
    <2> QED
      BY <2>1, <2>2, ArpHostIs
  <1>2. CASE OwnedAt(table, h) = {}
    BY <1>1, <1>2 DEF CloudMac
  <1>3. CASE OwnedAt(table, h) # {}
    <2>1. CloudMac(table, h) \in OwnedAt(table, h)
      BY <1>3 DEF CloudMac
    <2> QED
      BY <1>1, <2>1
  <1> QED
    BY <1>1, <1>2, <1>3

Specs == [host : Hosts, mac : Cameras \cup {Nobody}]

\* The discovery lists each address once, with the MAC of the cloud camera there.
LEMMA DiscoveredIs ==
  ASSUME NEW table \in [Hosts -> Cameras \cup {Nobody}], NEW verified \in SUBSET Hosts,
         cloud \subseteq Cameras, read.hosts \subseteq Hosts
  PROVE  LET list == Discovered(table, verified) IN
         /\ list \in Seq(Specs)
         /\ \A i, j \in DOMAIN list : list[i].host = list[j].host => i = j
         /\ \A i \in DOMAIN list : list[i].mac = CloudMac(table, list[i].host)
  <1> DEFINE owned == {h \in Hosts \ read.hosts : OwnedAt(table, h) # {}}
             probed == {h \in verified \ read.hosts :
                           /\ OwnedAt(table, h) = {}
                           /\ ArpHost(table, table[h]) = h /\ occupant[h] = table[h]}
             first == InOrder(read.hosts) \o InOrder(owned)
             hosts == first \o InOrder(probed)
  <1>1. \A S \in SUBSET Hosts : /\ InOrder(S) \in Seq(Hosts) /\ Distinct(InOrder(S))
                                /\ \A h : Lists(InOrder(S), h) <=> h \in S
    BY InOrderLists DEF Distinct, Lists
  <1>2. owned \in SUBSET Hosts /\ probed \in SUBSET Hosts
    OBVIOUS
  <1>3. \A h : /\ ~(h \in read.hosts /\ h \in owned)
               /\ ~((h \in read.hosts \/ h \in owned) /\ h \in probed)
    OBVIOUS
  <1>4. Discovered(table, verified) =
           [i \in DOMAIN hosts |-> [host |-> hosts[i], mac |-> CloudMac(table, hosts[i])]]
    BY DEF Discovered
  <1> HIDE DEF owned, probed
  <1>5. /\ first \in Seq(Hosts) /\ Distinct(first)
        /\ \A h : Lists(first, h) <=> h \in read.hosts \/ h \in owned
    BY <1>1, <1>2, <1>3, ConcatLists
  <1> HIDE DEF first
  <1>6. hosts \in Seq(Hosts) /\ Distinct(hosts)
    BY <1>1, <1>2, <1>3, <1>5, ConcatLists
  <1> HIDE DEF hosts
  <1>7. /\ DOMAIN hosts = 1 .. Len(hosts) /\ Len(hosts) \in Nat
        /\ \A i \in DOMAIN hosts : hosts[i] \in Hosts
    BY <1>6
  <1>8. \A h \in Hosts : CloudMac(table, h) \in Cameras \cup {Nobody}
    BY CloudMacIs
  <1> DEFINE D == [i \in 1 .. Len(hosts) |->
                      [host |-> hosts[i], mac |-> CloudMac(table, hosts[i])]]
  <1>9. D \in Seq(Specs)
    BY <1>7, <1>8 DEF Specs
  <1> QED
    BY <1>4, <1>6, <1>7, <1>9 DEF Distinct

-----------------------------------------------------------------------------
(* The inductive invariant *)

\* The setup has discovered the addresses, and has not been unloaded.
Found == pc \in {"local", "rtsp", "commands", "forward", "loaded"}

\* Camera entities apart, what a platform names an entity of a camera.
CommandSuffixes ==
    {"temperature", "wifi_strength", "video_bitrate", "brightness", "brightness_setting",
     "night_vision", "video_bitrate_setting", "ceiling_mount"}

\* No camera is looked up before the account's own are listed.
LookupInv == pc \in {"unloaded", "authenticate", "inventory"} => additional = {}

\* Two addresses never have the same camera, and what the setup has learnt of
\* the LAN is what was, or once was, at an address.
WorldInv ==
    /\ \A g, h \in Hosts : g # h /\ occupant[g] = occupant[h] => occupant[g] = Nobody
    /\ \A h \in Hosts : arp[h] \in {Nobody, occupant[h], former[h]}
    /\ data \subseteq Reachable
    /\ \A h \in direct : occupant[h] # Nobody
    /\ ~Found => arp = NoTable /\ specs = <<>> /\ data = {} /\ direct = {}

\* An address has at most one spec, with the MAC of the cloud camera that the
\* table has there.
SpecsInv ==
    /\ \A i, j \in DOMAIN specs : specs[i].host = specs[j].host => i = j
    /\ \A i \in DOMAIN specs : specs[i].mac = CloudMac(arp, specs[i].host)

\* An entity of an address or of a camera is one the platforms name so.
RegistryShape ==
    \A e \in registry :
        /\ e = <<e[1], e[2]>>
        /\ \/ e[1] \in Hosts /\ e[2] \in LocalSuffixes \cup {"camera"}
           \/ /\ e[1] \in Cameras
              /\ e[2] \in CommandSuffixes \cup UnsupportedSuffixes \cup {"camera"}

\* From the clean-up on, the registry is clean.
RegistryInv ==
    pc \in {"forward", "loaded"} =>
        \A e \in registry :
            e[1] \in SpecHosts \cup OrbwebCommands /\ e[2] # "camera" => e \in Entities

\* The options are read again by a reload, or were edited during the setup.
OptionsInv ==
    /\ listener <=> pc \in {"forward", "loaded"}
    /\ reload => listener
    /\ pc # "unloaded" => read = options \/ missed \/ reload

\* Together they are inductive.
IInv ==
    /\ TypeOK /\ LookupInv /\ WorldInv /\ SpecsInv
    /\ RegistryShape /\ RegistryInv /\ OptionsInv

-----------------------------------------------------------------------------
(* The bindings of a state that satisfies it *)

\* What is known of a spec.
LEMMA SpecIs ==
  ASSUME IInv, NEW i \in DOMAIN specs
  PROVE  /\ specs[i] \in Specs /\ specs[i].host \in SpecHosts
         /\ SpecMac(specs[i].host) = specs[i].mac
         /\ \/ specs[i].mac = Nobody /\ OwnedAt(arp, specs[i].host) = {}
            \/ /\ specs[i].mac \in cloud /\ Mac(specs[i].mac) = specs[i].mac
               /\ OwnedAt(arp, specs[i].host) = {specs[i].mac}
               /\ arp[specs[i].host] = specs[i].mac
  <1> DEFINE h == specs[i].host
  <1>1. /\ specs \in Seq(Specs) /\ cloud \subseteq Cameras
        /\ arp \in [Hosts -> Cameras \cup {Nobody}]
    BY DEF IInv, TypeOK, Specs
  <1>2. specs[i] \in Specs /\ h \in Hosts
    <2>1. specs[i] \in Specs
      BY <1>1
    <2> QED
      BY <2>1 DEF Specs
  <1>3. h \in SpecHosts /\ specs[i].mac = CloudMac(arp, h)
    BY DEF IInv, SpecsInv, SpecHosts
  <1>4. SpecMac(h) = specs[i].mac
    <2> DEFINE s == CHOOSE t \in Range(specs) : t.host = h
    <2>1. \E t \in Range(specs) : t.host = h
      BY DEF Range
    <2>2. s \in Range(specs) /\ s.host = h
      BY <2>1
    <2>3. PICK j \in DOMAIN specs : s = specs[j]
      BY <2>2 DEF Range
    <2>4. j = i
      BY <2>2, <2>3 DEF IInv, SpecsInv
    <2> QED
      BY <2>3, <2>4 DEF SpecMac
  <1> QED
    BY <1>1, <1>2, <1>3, <1>4, CloudMacIs

\* A camera is a spec's by the MAC of the cloud, or because it answered there.
LEMMA StreamMacIs ==
  ASSUME IInv, NEW i \in DOMAIN specs, NEW c \in Cameras, StreamMac(specs[i]) = c
  PROVE  \/ specs[i].mac = c
         \/ specs[i].mac = Nobody /\ LocalData(specs[i].host) /\ occupant[specs[i].host] = c
  <1>1. Nobody \notin Cameras
    BY NobodyAssumption
  <1> QED
    BY <1>1 DEF StreamMac, Seen

\* The spec that represents a camera.
LEMMA FirstIs ==
  ASSUME IInv, NEW c \in Cameras, Representing(c) # {}
  PROVE  \E i \in Representing(c) : FirstHost(c) = specs[i].host
  <1> DEFINE R == Representing(c)
  <1>1. R \subseteq 1 .. Len(specs) /\ Len(specs) \in Nat
    BY DEF Representing, IInv, TypeOK
  <1>2. R \in SUBSET Nat /\ IsFiniteSet(R)
    <2>1. IsFiniteSet(1 .. Len(specs))
      BY <1>1, FS_Interval
    <2> QED
      BY <1>1, <2>1, FS_Subset
  <1>3. \E i \in R : \A j \in R : i <= j
    BY <1>1, <1>2, EndsOf
  <1> QED
    BY <1>3 DEF FirstHost

-----------------------------------------------------------------------------
(* The keys of streams and commands *)

\* A stream is keyed by the address of the spec that represents its camera, or
\* by the camera when there is none.
LEMMA StreamBindingIs ==
  ASSUME IInv, NEW b \in StreamBindings
  PROVE  /\ b.target \in WithCredentials /\ b.target \in Cameras
         /\ \/ b.key = b.target /\ Representing(b.target) = {}
            \/ /\ Representing(b.target) # {} /\ b.key = FirstHost(b.target)
               /\ \E i \in Representing(b.target) : b.key = specs[i].host
  <1>1. \A c \in WithCredentials : c \in Cameras
    BY DEF WithCredentials, IInv, TypeOK
  <1>2. \A key, c : Binding(key, c).key = key /\ Binding(key, c).target = c
    BY DEF Binding
  <1>3. PICK c \in WithCredentials :
           \/ Representing(c) # {} /\ b = Binding(FirstHost(c), c)
           \/ Representing(c) = {} /\ b = Binding(c, c)
    BY DEF StreamBindings
  <1>4. b.target = c
    BY <1>2, <1>3
  <1>5. CASE Representing(c) = {} /\ b = Binding(c, c)
    BY <1>1, <1>2, <1>4, <1>5
  <1>6. CASE Representing(c) # {} /\ b = Binding(FirstHost(c), c)
    <2>1. \E i \in Representing(c) : FirstHost(c) = specs[i].host
      BY <1>1, <1>6, FirstIs
    <2> QED
      BY <1>1, <1>2, <1>4, <1>6, <2>1
  <1> QED
    BY <1>3, <1>5, <1>6

\* The one spec with a MAC of the cloud decides the key of the commands.
LEMMA CommandBindingIs ==
  ASSUME IInv, NEW b \in CommandBindings
  PROVE  /\ b.target \in OrbwebCommands /\ b.target \in Cameras
         /\ \/ b.key = b.target /\ Representing(b.target) = {}
            \/ \E i \in Representing(b.target) : b.key = specs[i].host
  <1>1. \A c \in OrbwebCommands : c \in Cameras /\ c \in cloud /\ Is3667(c)
    BY DEF OrbwebCommands, Candidates, IInv, TypeOK
  <1>2. \A key, c : Binding(key, c).key = key /\ Binding(key, c).target = c
    BY DEF Binding
  <1>3. PICK c \in OrbwebCommands : b = Binding(CommandKey(c), c)
    BY DEF CommandBindings
  <1>4. b.target = c /\ b.key = CommandKey(c) /\ c \in Cameras
    BY <1>1, <1>2, <1>3
  <1>5. \A i \in Representing(c) : specs[i].mac = c
    <2> SUFFICES ASSUME NEW i \in Representing(c) PROVE specs[i].mac = c
      OBVIOUS
    <2>1. i \in DOMAIN specs /\ StreamMac(specs[i]) = c
      BY DEF Representing
    <2>2. CASE LocalData(specs[i].host) /\ occupant[specs[i].host] = c
      <3>1. specs[i].host \in Reachable
        BY <2>2 DEF LocalData, IInv, WorldInv
      <3>2. account[c].model \in LanModels /\ account[c].model = "3667"
        BY <1>1, <2>2, <3>1 DEF Reachable, Is3667
      <3> QED
        BY <3>2, LanModelsAssumption
    <2> QED
      BY <1>4, <2>1, <2>2, StreamMacIs
  <1> DEFINE own == {s \in Range(specs) : Mac(c) = c /\ s.mac = c}
  <1>6. \A i \in DOMAIN specs : specs[i] \in own => i \in Representing(c)
    <2> SUFFICES ASSUME NEW i \in DOMAIN specs, specs[i] \in own PROVE i \in Representing(c)
      OBVIOUS
    <2>1. Mac(c) = c /\ specs[i].mac = c /\ c # Nobody
      BY <1>4, NobodyAssumption
    <2> QED
      BY <2>1 DEF Representing, StreamMac
  <1>7. CASE own = {}
    <2>1. b.key = c
      BY <1>4, <1>7 DEF CommandKey
    <2>2. Representing(c) = {}
      <3> SUFFICES ASSUME NEW i \in Representing(c) PROVE FALSE
        OBVIOUS
      <3>1. specs[i] \in own
        BY <1>5 DEF Representing, Range
      <3> QED
        BY <1>7, <3>1
    <2> QED
      BY <1>3, <1>4, <2>1, <2>2
  <1>8. CASE own # {}
    <2>1. PICK s \in own : b.key = s.host
      BY <1>4, <1>8 DEF CommandKey
    <2>2. PICK i \in DOMAIN specs : s = specs[i]
      BY <2>1 DEF Range
    <2>3. i \in Representing(c)
      BY <1>6, <2>1, <2>2
    <2> QED
      BY <1>3, <1>4, <2>1, <2>2, <2>3
  <1> QED
    BY <1>7, <1>8

\* Two specs that represent a 3667 are one.
LEMMA CommandsHaveOneSpec ==
  ASSUME IInv, NEW c \in OrbwebCommands, NEW i \in Representing(c), NEW j \in Representing(c)
  PROVE  i = j
  <1>1. c \in Cameras /\ Is3667(c)
    BY DEF OrbwebCommands, Candidates, IInv, TypeOK
  <1>2. ASSUME NEW k \in Representing(c)
        PROVE  /\ k \in DOMAIN specs /\ specs[k].host \in Hosts
               /\ ArpHost(arp, c) = specs[k].host
    <2>1. k \in DOMAIN specs /\ StreamMac(specs[k]) = c
      BY DEF Representing
    <2>2. ~(LocalData(specs[k].host) /\ occupant[specs[k].host] = c)
      <3> SUFFICES ASSUME specs[k].host \in data, occupant[specs[k].host] = c PROVE FALSE
        BY DEF LocalData
      <3>1. specs[k].host \in Reachable
        BY DEF IInv, WorldInv
      <3> QED
        BY <1>1, <3>1, LanModelsAssumption DEF Reachable, Is3667
    <2>3. specs[k].mac = c
      BY <1>1, <2>1, <2>2, StreamMacIs
    <2>4. OwnedAt(arp, specs[k].host) = {c} /\ specs[k] \in Specs
      BY <1>1, <2>1, <2>3, SpecIs, NobodyAssumption
    <2> QED
      BY <2>1, <2>4 DEF OwnedAt, Specs
  <1> QED
    BY <1>2 DEF IInv, SpecsInv

Bindings == StreamBindings \cup CommandBindings

\* A key is a camera itself, or the address of a spec of that camera.
LEMMA KeyIs ==
  ASSUME IInv, NEW b \in Bindings
  PROVE  /\ b.target \in Cameras
         /\ \/ b.key = b.target
            \/ \E i \in DOMAIN specs : b.key = specs[i].host /\ StreamMac(specs[i]) = b.target
BY StreamBindingIs, CommandBindingIs DEF Bindings, Representing

\* Bindings with one key open one target.
LEMMA SameKey ==
  ASSUME IInv, NEW x \in Bindings, NEW y \in Bindings, x.key = y.key
  PROVE  x.target = y.target
  <1>1. \A i \in DOMAIN specs : specs[i].host \in Hosts
    BY SpecIs DEF Specs
  <1>2. \A i, j \in DOMAIN specs : specs[i].host = specs[j].host => i = j
    BY DEF IInv, SpecsInv
  <1> QED
    BY <1>1, <1>2, KeyIs, NobodyAssumption

\* Bindings of one camera have one key.
LEMMA SameTarget ==
  ASSUME IInv, NEW x \in Bindings, NEW y \in Bindings, x.target = y.target
  PROVE  x.key = y.key
  <1>1. CASE x \in StreamBindings /\ y \in StreamBindings
    BY <1>1, StreamBindingIs
  <1>2. CASE x \in CommandBindings /\ y \in CommandBindings
    BY <1>2, CommandBindingIs, CommandsHaveOneSpec
  <1>3. CASE x \in StreamBindings /\ y \in CommandBindings
    BY <1>3, StreamBindingIs, CommandBindingIs, CommandsHaveOneSpec
  <1>4. CASE x \in CommandBindings /\ y \in StreamBindings
    BY <1>4, StreamBindingIs, CommandBindingIs, CommandsHaveOneSpec
  <1> QED
    BY <1>1, <1>2, <1>3, <1>4 DEF Bindings

\* There are as many specs as addresses.
LEMMA OneSpecAnAddress ==
  ASSUME IInv
  PROVE  Cardinality(SpecHosts) = Len(specs)
  <1> DEFINE S == 1 .. Len(specs)
             f == [i \in S |-> specs[i].host]
  <1>1. Len(specs) \in Nat /\ DOMAIN specs = S
    BY DEF IInv, TypeOK
  <1>2. IsFiniteSet(S) /\ Cardinality(S) = Len(specs)
    <2>1. /\ IsFiniteSet(1 .. Len(specs))
          /\ Cardinality(1 .. Len(specs)) = IF 1 > Len(specs) THEN 0 ELSE Len(specs) - 1 + 1
      BY <1>1, FS_Interval
    <2> QED
      BY <1>1, <2>1
  <1>3. f \in [S -> SpecHosts]
    BY <1>1 DEF SpecHosts
  <1>4. \A i, j \in S : f[i] = f[j] => i = j
    BY <1>1 DEF IInv, SpecsInv
  <1>5. \A h \in SpecHosts : \E i \in S : f[i] = h
    BY <1>1 DEF SpecHosts
  <1>6. f \in Bijection(S, SpecHosts)
    BY <1>3, <1>4, <1>5, Fun_IsBij
  <1>7. ExistsBijection(S, SpecHosts)
    BY <1>6 DEF ExistsBijection
  <1> QED
    BY <1>2, <1>7, FS_Bijection

\* Hence every key opens the camera it was bound for.
LEMMA RoutesInv == IInv => RoutesOwnCamera
  <1> SUFFICES ASSUME IInv, NEW x \in Bindings, NEW y \in Bindings
               PROVE  /\ PoolTarget(x.key) = x.target
                      /\ x.target = y.target => x.key = y.key
    BY OneSpecAnAddress DEF RoutesOwnCamera, Bindings
  <1>1. PoolTarget(x.key) = x.target
    <2> DEFINE commands == {b \in CommandBindings : b.key = x.key}
               streams == {b \in StreamBindings : b.key = x.key}
    <2>1. \A b \in commands \cup streams : b.target = x.target
      BY SameKey DEF Bindings
    <2>2. commands \cup streams # {}
      BY DEF Bindings
    <2> QED
      BY <2>1, <2>2 DEF PoolTarget
  <1> QED
    BY <1>1, SameTarget

\* While the table is not outdated, the address that represents a camera is
\* where it is.
LEMMA RepresentedWhereItIs ==
  ASSUME IInv, Truthful, NEW c \in Cameras, NEW i \in Representing(c)
  PROVE  specs[i].host \in Hosts /\ occupant[specs[i].host] = c
  <1>1. i \in DOMAIN specs /\ StreamMac(specs[i]) = c
    BY DEF Representing
  <1>2. specs[i].host \in Hosts
    BY <1>1, SpecIs DEF Specs
  <1>3. CASE specs[i].mac = c
    <2>1. arp[specs[i].host] = c /\ c # Nobody
      BY <1>1, <1>3, SpecIs, NobodyAssumption
    <2> QED
      BY <1>2, <2>1 DEF Truthful
  <1> QED
    BY <1>1, <1>2, <1>3, StreamMacIs

\* An address where the setup knows the camera to be represents it.
LEMMA LocatedIsRepresented ==
  ASSUME IInv, Found, Truthful, NEW c \in cloud, Located(c)
  PROVE  /\ c \in Cameras
         /\ \E h \in Hosts : occupant[h] = c /\ \E i \in Representing(c) : specs[i].host = h
  <1>1. c \in Cameras /\ c # Nobody
    BY NobodyAssumption DEF IInv, TypeOK
  <1>2. PICK h \in SpecHosts : occupant[h] = c /\ Mac(c) = c /\ (arp[h] = c \/ LocalData(h))
    BY DEF Located
  <1>3. PICK i \in DOMAIN specs : h = specs[i].host
    BY DEF SpecHosts
  <1>4. h \in Hosts
    BY <1>3, SpecIs DEF Specs
  <1>5. i \in Representing(c)
    <2>1. CASE specs[i].mac = Nobody
      <3>1. OwnedAt(arp, h) = {}
        BY <1>3, <2>1, SpecIs, NobodyAssumption DEF IInv, TypeOK
      <3>2. arp[h] # c
        <4> SUFFICES ASSUME arp[h] = c PROVE FALSE
          OBVIOUS
        <4>1. ArpHost(arp, c) \in Hosts /\ arp[ArpHost(arp, c)] = c
          BY <1>1, <1>4, ArpHostIs DEF IInv, TypeOK
        <4>2. occupant[ArpHost(arp, c)] = c
          BY <1>1, <4>1 DEF Truthful
        <4>3. ArpHost(arp, c) = h
          BY <1>1, <1>2, <1>4, <4>1, <4>2 DEF IInv, WorldInv
        <4> QED
          BY <1>2, <3>1, <4>3 DEF OwnedAt
      <3> QED
        BY <1>2, <1>3, <2>1, <3>2 DEF Representing, StreamMac, Seen
    <2>2. CASE specs[i].mac # Nobody
      <3>1. specs[i].mac = arp[h]
        BY <1>3, <2>2, SpecIs
      <3>2. specs[i].mac = c
        BY <1>2, <1>4, <2>2, <3>1 DEF Truthful
      <3> QED
        BY <1>1, <1>2, <3>2 DEF Representing, StreamMac
    <2> QED
      BY <2>1, <2>2
  <1> QED
    BY <1>1, <1>2, <1>3, <1>4, <1>5

\* Hence each camera with credentials is shown, and once where it is located.
LEMMA ShownInv == IInv => ShownOnce
  <1> SUFFICES ASSUME IInv, Bound, Truthful, NEW c \in WithCredentials
               PROVE  /\ Views(c) # {}
                      /\ Located(c) => Cardinality(Views(c)) = 1
    BY DEF ShownOnce
  <1> DEFINE seen == {h \in direct : occupant[h] = c}
             keys == {b.key : b \in {s \in StreamBindings : s.target = c}}
  <1>1. c \in Cameras /\ c \in cloud /\ c # Nobody /\ Found
    BY NobodyAssumption DEF WithCredentials, IInv, TypeOK, Bound, Found
  <1>2. \A key, d : Binding(key, d).key = key /\ Binding(key, d).target = d
    BY DEF Binding
  <1>3. \A b \in StreamBindings : b.target = c =>
           \/ b.key = c /\ Representing(c) = {}
           \/ Representing(c) # {} /\ b.key = FirstHost(c)
    BY StreamBindingIs
  <1>4. direct \subseteq Hosts
    BY SpecIs DEF IInv, TypeOK, SpecHosts, Specs
  <1>5. Views(c) # {}
    <2>1. CASE Representing(c) = {}
      <3>1. Binding(c, c) \in StreamBindings
        BY <2>1 DEF StreamBindings
      <3> QED
        BY <1>2, <3>1 DEF Views
    <2>2. CASE Representing(c) # {} /\ FirstHost(c) \notin direct
      <3>1. Binding(FirstHost(c), c) \in StreamBindings
        BY <2>2 DEF StreamBindings
      <3> QED
        BY <1>2, <3>1 DEF Views
    <2>3. CASE Representing(c) # {} /\ FirstHost(c) \in direct
      <3>1. PICK i \in Representing(c) : FirstHost(c) = specs[i].host
        BY <1>1, <2>3, FirstIs
      <3>2. occupant[FirstHost(c)] = c
        BY <1>1, <3>1, RepresentedWhereItIs
      <3> QED
        BY <2>3, <3>2 DEF Views
    <2> QED
      BY <2>1, <2>2, <2>3
  <1>6. ASSUME Located(c) PROVE Cardinality(Views(c)) = 1
    <2>1. PICK h \in Hosts : occupant[h] = c /\ \E i \in Representing(c) : specs[i].host = h
      BY <1>1, <1>6, LocatedIsRepresented
    <2>2. \A g \in Hosts : occupant[g] = c => g = h
      BY <1>1, <2>1 DEF IInv, WorldInv
    <2>3. FirstHost(c) = h /\ Representing(c) # {}
      <3>1. PICK i \in Representing(c) : FirstHost(c) = specs[i].host
        BY <1>1, <2>1, FirstIs
      <3> QED
        BY <1>1, <2>2, <3>1, RepresentedWhereItIs
    <2>4. Views(c) \subseteq {h}
      BY <1>3, <1>4, <2>2, <2>3 DEF Views
    <2>5. Views(c) = {h}
      BY <1>5, <2>4
    <2> QED
      BY <2>5, FS_Singleton
  <1> QED
    BY <1>5, <1>6

-----------------------------------------------------------------------------
(* The entities and the registry *)

\* The devices the platforms serve are addresses of specs and cameras.
LEMMA Devices ==
  ASSUME IInv
  PROVE  /\ SpecHosts \subseteq Hosts /\ LocalHosts \subseteq SpecHosts
         /\ ImageHosts \subseteq LocalHosts /\ direct \subseteq SpecHosts
         /\ Candidates \subseteq Cameras /\ OrbwebCommands \subseteq Candidates
         /\ Hosts \cap Cameras = {}
         /\ \A b \in StreamBindings : b.key \in SpecHosts \cup Cameras
  <1>1. SpecHosts \subseteq Hosts
    BY SpecIs DEF SpecHosts, Specs
  <1>2. ASSUME NEW b \in StreamBindings PROVE b.key \in SpecHosts \cup Cameras
    BY StreamBindingIs DEF Representing, SpecHosts
  <1> QED
    BY <1>1, <1>2, NobodyAssumption
       DEF LocalHosts, ImageHosts, Candidates, OrbwebCommands, IInv, TypeOK

\* The entities of the platforms, by the device they are of.
LEMMA EntitiesAre ==
  ASSUME IInv
  PROVE  /\ \A h \in SpecHosts : \A s : s # "camera" =>
               (<<h, s>> \in Entities <=>
                   /\ h \in LocalHosts /\ s \in LocalSuffixes
                   /\ s \in ImageSuffixes => h \in ImageHosts)
         /\ \A c \in Candidates : \A s : s # "camera" =>
               (<<c, s>> \in Entities <=>
                   \/ s \in {"temperature", "wifi_strength", "video_bitrate"}
                   \/ c \in OrbwebCommands /\ s \in CommandSuffixes)
         /\ \A e \in Entities :
               /\ e = <<e[1], e[2]>>
               /\ e[2] = "camera" \/ e[1] \in LocalHosts \cup Candidates
               /\ e[1] \in SpecHosts \cup Cameras
  <1> DEFINE local == LocalHosts \X LocalSuffixes
  <1>1. /\ SpecHosts \subseteq Hosts /\ LocalHosts \subseteq SpecHosts
        /\ ImageHosts \subseteq LocalHosts /\ direct \subseteq SpecHosts
        /\ Candidates \subseteq Cameras /\ OrbwebCommands \subseteq Candidates
        /\ Hosts \cap Cameras = {}
        /\ \A b \in StreamBindings : b.key \in SpecHosts \cup Cameras
    BY Devices
  <1>2. CloudCommands \cup OrbwebCommands = Candidates /\ CloudCommands \subseteq Candidates
    BY <1>1 DEF CloudCommands
  <1>3. ASSUME NEW h \in SpecHosts, NEW s, s # "camera"
        PROVE  <<h, s>> \in Entities <=>
                  /\ h \in LocalHosts /\ s \in LocalSuffixes
                  /\ s \in ImageSuffixes => h \in ImageHosts
    <2>1. h \notin Candidates /\ h \notin OrbwebCommands /\ h \notin CloudCommands
      BY <1>1, <1>2
    <2>2. <<h, s>> \in Sensors <=>
             \/ h \in LocalHosts /\ s \in {"temperature", "wifi_strength", "video_bitrate"}
             \/ h \in ImageHosts /\ s \in {"brightness", "contrast"}
      BY <2>1 DEF Sensors
    <2>3. <<h, s>> \in BinarySensors <=> h \in LocalHosts /\ s = "connectivity"
      BY DEF BinarySensors
    <2>4. <<h, s>> \in Numbers <=>
             h \in ImageHosts /\ s \in {"brightness_setting", "contrast_setting"}
      BY <2>1 DEF Numbers
    <2>5. <<h, s>> \in Selects <=>
             h \in LocalHosts /\ s \in {"night_vision", "video_bitrate_setting"}
      BY <2>1 DEF Selects
    <2>6. <<h, s>> \in Switches <=> h \in LocalHosts /\ s \in {"indicator_led", "ceiling_mount"}
      BY <2>1 DEF Switches
    <2>7. <<h, s>> \notin CameraEntities
      BY <1>3 DEF CameraEntities
    <2> QED
      BY <1>1, <2>2, <2>3, <2>4, <2>5, <2>6, <2>7 DEF Entities, LocalSuffixes, ImageSuffixes
  <1>4. ASSUME NEW c \in Candidates, NEW s, s # "camera"
        PROVE  <<c, s>> \in Entities <=>
                  \/ s \in {"temperature", "wifi_strength", "video_bitrate"}
                  \/ c \in OrbwebCommands /\ s \in CommandSuffixes
    <2>1. c \notin LocalHosts /\ c \notin ImageHosts /\ c \in CloudCommands \cup OrbwebCommands
      BY <1>1, <1>2
    <2>2. <<c, s>> \in Sensors <=>
             \/ s \in {"temperature", "wifi_strength", "video_bitrate"}
             \/ c \in OrbwebCommands /\ s = "brightness"
      BY <2>1 DEF Sensors
    <2>3. <<c, s>> \notin BinarySensors /\ <<c, s>> \notin CameraEntities
      BY <1>4, <2>1 DEF BinarySensors, CameraEntities
    <2>4. <<c, s>> \in Numbers <=> c \in OrbwebCommands /\ s = "brightness_setting"
      BY <2>1 DEF Numbers
    <2>5. <<c, s>> \in Selects <=>
             c \in OrbwebCommands /\ s \in {"night_vision", "video_bitrate_setting"}
      BY <2>1 DEF Selects
    <2>6. <<c, s>> \in Switches <=> c \in OrbwebCommands /\ s = "ceiling_mount"
      BY <2>1 DEF Switches
    <2> QED
      BY <2>2, <2>3, <2>4, <2>5, <2>6 DEF Entities, CommandSuffixes
  <1>5. ASSUME NEW e \in Entities
        PROVE  /\ e = <<e[1], e[2]>>
               /\ e[2] = "camera" \/ e[1] \in LocalHosts \cup Candidates
               /\ e[1] \in SpecHosts \cup Cameras
    <2>1. CASE e \in CameraEntities
      BY <1>1, <2>1 DEF CameraEntities
    <2>2. CASE e \in Sensors \cup BinarySensors
      BY <1>1, <1>2, <2>2 DEF Sensors, BinarySensors
    <2>3. CASE e \in Numbers \cup Selects \cup Switches
      BY <1>1, <1>2, <2>3 DEF Numbers, Selects, Switches
    <2> QED
      BY <2>1, <2>2, <2>3 DEF Entities
  <1> QED
    BY <1>3, <1>4, <1>5

\* The entities are of the shape the registry has.
LEMMA EntitiesShape ==
  ASSUME IInv, NEW e \in Entities
  PROVE  /\ e = <<e[1], e[2]>>
         /\ \/ e[1] \in Hosts /\ e[2] \in LocalSuffixes \cup {"camera"}
            \/ e[1] \in Cameras /\ e[2] \in CommandSuffixes \cup {"camera"}
  <1>1. /\ e = <<e[1], e[2]>>
        /\ e[2] = "camera" \/ e[1] \in LocalHosts \cup Candidates
        /\ e[1] \in SpecHosts \cup Cameras
    BY EntitiesAre
  <1>2. /\ SpecHosts \subseteq Hosts /\ LocalHosts \subseteq SpecHosts
        /\ Candidates \subseteq Cameras
    BY Devices
  <1>3. CASE e[2] = "camera"
    BY <1>1, <1>2, <1>3
  <1>4. CASE e[2] # "camera" /\ e[1] \in LocalHosts
    BY <1>1, <1>2, <1>4, EntitiesAre
  <1>5. CASE e[2] # "camera" /\ e[1] \in Candidates
    BY <1>1, <1>2, <1>5, EntitiesAre DEF CommandSuffixes
  <1> QED
    BY <1>1, <1>3, <1>4, <1>5

\* What the clean-up leaves of the devices that are served is created again.
LEMMA LeftIsServed ==
  ASSUME IInv, NEW e \in registry \ Stale,
         e[1] \in SpecHosts \cup OrbwebCommands, e[2] # "camera"
  PROVE  e \in Entities
  <1>1. /\ e = <<e[1], e[2]>>
        /\ \/ e[1] \in Hosts /\ e[2] \in LocalSuffixes
           \/ e[1] \in Cameras /\ e[2] \in CommandSuffixes \cup UnsupportedSuffixes
    BY DEF IInv, RegistryShape
  <1>2. /\ SpecHosts \subseteq Hosts /\ OrbwebCommands \subseteq Candidates
        /\ Candidates \subseteq Cameras /\ Hosts \cap Cameras = {}
    BY Devices
  <1>3. CASE e[1] \in SpecHosts
    <2>1. e[2] \in LocalSuffixes
      BY <1>1, <1>2, <1>3
    <2>2. e[1] \in LocalHosts /\ (e[2] \in ImageSuffixes => e[1] \in ImageHosts)
      BY <1>1, <1>3, <2>1 DEF Stale
    <2> QED
      BY <1>1, <1>3, <2>1, <2>2, EntitiesAre
  <1>4. CASE e[1] \in OrbwebCommands
    <2>1. e[2] \notin UnsupportedSuffixes
      BY <1>1, <1>4 DEF Stale
    <2> QED
      BY <1>1, <1>2, <1>4, <2>1, EntitiesAre
  <1> QED
    BY <1>3, <1>4

\* The clean-up removes nothing that the platforms create.
LEMMA StaleIsNotServed ==
  ASSUME IInv, NEW e \in Stale
  PROVE  e \notin Entities /\ e[2] # "camera"
  <1>1. /\ SpecHosts \subseteq Hosts /\ LocalHosts \subseteq SpecHosts
        /\ OrbwebCommands \subseteq Candidates
    BY Devices
  <1>2. CASE e \in (SpecHosts \ LocalHosts) \X LocalSuffixes
    <2>1. e = <<e[1], e[2]>> /\ e[1] \in SpecHosts \ LocalHosts /\ e[2] # "camera"
      BY <1>2 DEF LocalSuffixes, ImageSuffixes
    <2> QED
      BY <2>1, EntitiesAre
  <1>3. CASE e \in (LocalHosts \ ImageHosts) \X ImageSuffixes
    <2>1. /\ e = <<e[1], e[2]>> /\ e[1] \in LocalHosts \ ImageHosts
          /\ e[2] \in ImageSuffixes /\ e[2] # "camera"
      BY <1>3 DEF ImageSuffixes
    <2> QED
      BY <1>1, <2>1, EntitiesAre
  <1>4. CASE e \in OrbwebCommands \X UnsupportedSuffixes
    <2>1. /\ e = <<e[1], e[2]>> /\ e[1] \in OrbwebCommands
          /\ e[2] \in {"contrast", "contrast_setting"} /\ e[2] # "camera"
      BY <1>4 DEF UnsupportedSuffixes
    <2> QED
      BY <1>1, <2>1, EntitiesAre DEF CommandSuffixes
  <1> QED
    BY <1>2, <1>3, <1>4 DEF Stale

-----------------------------------------------------------------------------
(* The invariant is inductive *)

\* The initial states satisfy it.
LEMMA InitInv == Init => IInv
  <1> SUFFICES ASSUME Init PROVE IInv
    OBVIOUS
  <1>1. NoTable \in [Hosts -> Cameras \cup {Nobody}] /\ SpecHosts = {}
    BY DEF NoTable, Init, SpecHosts
  <1>2. TypeOK
    <2>1. occupant \in [Hosts -> Cameras \cup {Nobody}]
      BY DEF Init
    <2>2. 0 \in 0 .. MaxChanges
      BY BoundAssumption
    <2>3. specs \in Seq([host : Hosts, mac : Cameras \cup {Nobody}])
      BY DEF Init
    <2>4. \A e \in registry : e[1] \in Hosts \cup Cameras
      BY LeftoversAssumption DEF Init
    <2> QED
      BY <1>1, <2>1, <2>2, <2>3, <2>4 DEF Init, TypeOK
  <1>3. WorldInv
    BY DEF Init, WorldInv, NoTable, Found
  <1>4. LookupInv /\ SpecsInv /\ RegistryInv /\ OptionsInv
    BY DEF Init, LookupInv, SpecsInv, Found, RegistryInv, OptionsInv
  <1>5. RegistryShape
    BY LeftoversAssumption DEF Init, RegistryShape
  <1> QED
    BY <1>2, <1>3, <1>4, <1>5 DEF IInv

\* Up to the discovery nothing is known of the LAN.
Early == Start \/ Authenticate \/ Inventory \/ Subscription \/ Recover \/ Manual \/ Diagnostic

\* The steps before the discovery preserve it.
LEMMA EarlyInv == IInv /\ Early => IInv'
  <1> SUFFICES ASSUME IInv, Early PROVE IInv'
    OBVIOUS
  <1>1. /\ ~Found /\ pc' \in {"authenticate", "inventory", "subscription", "recover", "manual",
                              "diagnostic", "discover", "failed"}
        /\ ~Found'
        /\ UNCHANGED <<world, lan, registry, options, listener, reload>>
    BY DEF Early, Start, Authenticate, Inventory, Subscription, Recover, Manual, Diagnostic,
           Step, Found, flow
  <1>2. specs = <<>> /\ SpecHosts' = SpecHosts /\ Reachable' = Reachable
    BY <1>1 DEF IInv, WorldInv, SpecHosts, Reachable, lan, world
  <1>3. /\ read' \in Options
        /\ \/ pc # "unloaded" /\ read' = read /\ missed' = missed
           \/ pc = "unloaded" /\ read' = options
    BY DEF Early, Start, Authenticate, Inventory, Subscription, Recover, Manual, Diagnostic,
           Step, flow, IInv, TypeOK
  <1>4. missed' \in BOOLEAN /\ changes' = changes
    BY DEF Early, Start, Authenticate, Inventory, Subscription, Recover, Manual, Diagnostic,
           flow, IInv, TypeOK
  <1>5. todo' \subseteq Cameras /\ additional' \subseteq cloud' /\ cloud' \subseteq Cameras
    <2>1. CASE Start \/ Authenticate \/ Diagnostic
      BY <2>1 DEF Start, Authenticate, Diagnostic, found, IInv, TypeOK
    <2>2. CASE Inventory
      BY <2>2 DEF Inventory, Listed, Step, IInv, TypeOK, LookupInv
    <2>3. CASE Subscription
      BY <2>3 DEF Subscription, Listed, IInv, TypeOK
    <2>4. CASE Recover
      BY <2>4, OptionsAssumption DEF Recover, LookedUp, IInv, TypeOK
    <2>5. CASE Manual
      BY <2>5 DEF Manual, LookedUp, IInv, TypeOK
    <2> QED
      BY <2>1, <2>2, <2>3, <2>4, <2>5 DEF Early
  <1>6. TypeOK'
    BY <1>1, <1>2, <1>3, <1>4, <1>5 DEF IInv, TypeOK, world, lan
  <1>7. WorldInv'
    BY <1>1, <1>2 DEF IInv, WorldInv, world, lan, NoTable
  <1>8. LookupInv'
    BY DEF Early, Start, Authenticate, Inventory, Subscription, Recover, Manual, Diagnostic,
           Step, found, IInv, LookupInv
  <1>9. LookupInv' /\ SpecsInv' /\ RegistryShape' /\ RegistryInv'
    BY <1>1, <1>2, <1>8 DEF IInv, SpecsInv, RegistryShape, RegistryInv, lan
  <1>10. OptionsInv'
    BY <1>1, <1>3 DEF IInv, OptionsInv, Found
  <1> QED
    BY <1>6, <1>7, <1>9, <1>10 DEF IInv

\* What the setup derives from what it has learnt stays as long as that does.
LEMMA SameDerived ==
  ASSUME UNCHANGED <<account, occupant, cloud, additional, arp, specs, data, direct>>
  PROVE  /\ SpecHosts' = SpecHosts /\ Reachable' = Reachable
         /\ \A h \in Hosts : /\ OwnedAt(arp, h)' = OwnedAt(arp, h)
                             /\ CloudMac(arp, h)' = CloudMac(arp, h)
         /\ OrbwebCommands' = OrbwebCommands /\ Entities' = Entities
  <1>1. SpecHosts' = SpecHosts /\ Reachable' = Reachable
    BY DEF SpecHosts, Reachable
  <1>2. \A c : Mac(c)' = Mac(c) /\ Is3667(c)' = Is3667(c)
    BY DEF Mac, Is3667
  <1>3. \A h \in Hosts : OwnedAt(arp, h)' = OwnedAt(arp, h)
    BY <1>2 DEF OwnedAt, ArpHost, Max
  <1>4. \A h \in Hosts : CloudMac(arp, h)' = CloudMac(arp, h)
    <2> SUFFICES ASSUME NEW h \in Hosts PROVE CloudMac(arp, h)' = CloudMac(arp, h)
      OBVIOUS
    <2>1. OwnedAt(arp, h)' = OwnedAt(arp, h)
      BY <1>3
    <2>2. CloudMac(arp, h)' = IF OwnedAt(arp, h)' = {} THEN Nobody
                              ELSE CHOOSE c \in OwnedAt(arp, h)' : TRUE
      BY DEF CloudMac
    <2> QED
      BY <2>1, <2>2 DEF CloudMac
  <1>5. Candidates' = Candidates /\ OrbwebCommands' = OrbwebCommands
    BY <1>2 DEF Candidates, OrbwebCommands
  <1>6. \A h \in SpecHosts : SpecMac(h)' = SpecMac(h)
    BY DEF SpecMac
  <1>7. LocalHosts' = LocalHosts
    BY <1>1, <1>2, <1>5, <1>6 DEF LocalHosts
  <1>8. ImageHosts' = ImageHosts
    <2>1. \A h : LocalData(h)' = LocalData(h)
      BY <1>7 DEF LocalData
    <2>2. \A m : CloudModel(m)' = CloudModel(m)
      BY <1>2 DEF CloudModel
    <2>3. LocalHosts \subseteq SpecHosts
      BY DEF LocalHosts
    <2>4. \A h \in LocalHosts : Model(h)' = Model(h)
      BY <1>6, <2>1, <2>2, <2>3 DEF Model
    <2> QED
      BY <1>7, <2>4 DEF ImageHosts
  <1>9. StreamBindings' = StreamBindings
    BY <1>2, <1>7 DEF StreamBindings, WithCredentials, Representing, FirstHost, StreamMac, Seen,
                      LocalData
  <1> QED
    BY <1>1, <1>3, <1>4, <1>5, <1>7, <1>8, <1>9
       DEF Entities, Sensors, BinarySensors, Numbers, Selects, Switches, CameraEntities,
           CloudCommands

\* A table that has been stored owns the addresses it did before.
LEMMA SameOwners ==
  ASSUME UNCHANGED <<account, cloud>>, NEW table, arp' = table, NEW h \in Hosts
  PROVE  OwnedAt(arp, h)' = OwnedAt(table, h) /\ CloudMac(arp, h)' = CloudMac(table, h)
  <1>1. \A c : Mac(c)' = Mac(c)
    BY DEF Mac
  <1>2. OwnedAt(arp, h)' = OwnedAt(table, h)
    BY <1>1 DEF OwnedAt, ArpHost, Max
  <1>3. CloudMac(arp, h)' = IF OwnedAt(arp, h)' = {} THEN Nobody
                            ELSE CHOOSE c \in OwnedAt(arp, h)' : TRUE
    BY DEF CloudMac
  <1> QED
    BY <1>2, <1>3 DEF CloudMac

\* The discovery fills the specs.
LEMMA DiscoverInv == IInv /\ Discover => IInv'
  <1> SUFFICES ASSUME IInv, Discover PROVE IInv'
    OBVIOUS
  <1>1. PICK table \in Tables, verified \in SUBSET Reachable :
           arp' = table /\ specs' = Discovered(table, verified)
    BY DEF Discover
  <1>2. /\ pc = "discover" /\ pc' = "local" /\ ~Found /\ Found'
        /\ UNCHANGED <<world, flow, found, data, direct, read, registry, changes>>
    BY DEF Discover, Step, Found
  <1>3. /\ table \in [Hosts -> Cameras \cup {Nobody}]
        /\ \A h \in Hosts : table[h] \in {Nobody, occupant[h], former[h]}
        /\ verified \in SUBSET Hosts /\ cloud \subseteq Cameras /\ read.hosts \subseteq Hosts
    BY OptionsAssumption DEF Tables, Reachable, IInv, TypeOK
  <1>4. /\ specs' \in Seq(Specs)
        /\ \A i, j \in DOMAIN specs' : specs'[i].host = specs'[j].host => i = j
        /\ \A i \in DOMAIN specs' : specs'[i].mac = CloudMac(table, specs'[i].host)
    BY <1>1, <1>3, DiscoveredIs
  <1>5. \A h \in Hosts : /\ OwnedAt(arp, h)' = OwnedAt(table, h)
                         /\ CloudMac(arp, h)' = CloudMac(table, h)
    BY <1>1, <1>2, SameOwners DEF world, found
  <1>6. \A i \in DOMAIN specs' : specs'[i].host \in Hosts
    <2>1. \A i \in DOMAIN specs' : specs'[i] \in Specs
      BY <1>4
    <2> QED
      BY <2>1 DEF Specs
  <1>7. data = {} /\ direct = {} /\ Reachable' = Reachable
    BY <1>2 DEF IInv, WorldInv, Reachable, world
  <1>8. TypeOK'
    <2>1. direct' \subseteq SpecHosts' /\ data' \subseteq Hosts
      BY <1>2, <1>7
    <2> QED
      BY <1>1, <1>2, <1>3, <1>4, <2>1 DEF IInv, TypeOK, Specs, world, flow, found
  <1>9. LookupInv' /\ RegistryShape' /\ RegistryInv' /\ OptionsInv'
    BY <1>2 DEF IInv, LookupInv, RegistryShape, RegistryInv, OptionsInv, flow, found
  <1>10. WorldInv'
    BY <1>1, <1>2, <1>3, <1>7 DEF IInv, WorldInv, world
  <1>11. SpecsInv'
    BY <1>4, <1>5, <1>6 DEF SpecsInv, SpecHosts
  <1> QED
    BY <1>8, <1>9, <1>10, <1>11 DEF IInv

\* So do the probes of the addresses.
LEMMA LanInv == IInv /\ (LocalRefresh \/ ProbeRtsp) => IInv'
  <1> SUFFICES ASSUME IInv, LocalRefresh \/ ProbeRtsp PROVE IInv'
    OBVIOUS
  <1>1. /\ pc \in {"local", "rtsp"} /\ pc' \in {"rtsp", "commands"} /\ Found /\ Found'
        /\ UNCHANGED <<world, flow, found, arp, specs, read, registry, changes>>
    BY DEF LocalRefresh, ProbeRtsp, Step, Found
  <1>2. /\ SpecHosts' = SpecHosts /\ Reachable' = Reachable
    BY <1>1 DEF SpecHosts, Reachable, world
  <1>3. \A h \in Hosts : /\ OwnedAt(arp, h)' = OwnedAt(arp, h)
                         /\ CloudMac(arp, h)' = CloudMac(arp, h)
    <2>1. PICK table : table = arp
      OBVIOUS
    <2> QED
      BY <1>1, <2>1, SameOwners DEF world, found
  <1>4. data' \subseteq Reachable /\ \A h \in direct' : h \in SpecHosts /\ occupant[h] # Nobody
    BY DEF LocalRefresh, ProbeRtsp, IInv, TypeOK, WorldInv
  <1>5. TypeOK'
    BY <1>1, <1>2, <1>4 DEF IInv, TypeOK, world, flow, found, Reachable
  <1>6. LookupInv' /\ RegistryShape' /\ RegistryInv' /\ OptionsInv'
    BY <1>1 DEF IInv, LookupInv, RegistryShape, RegistryInv, OptionsInv, flow, found
  <1>7. WorldInv'
    BY <1>1, <1>2, <1>4 DEF IInv, WorldInv, world
  <1>8. SpecsInv'
    <2>1. \A i \in DOMAIN specs : specs[i].host \in Hosts
      BY SpecIs DEF Specs
    <2> QED
      BY <1>1, <1>2, <1>3, <2>1 DEF IInv, SpecsInv
  <1> QED
    BY <1>5, <1>6, <1>7, <1>8 DEF IInv

\* The clean-up leaves a registry that the platforms will match.
LEMMA FinishInv == IInv /\ Finish => IInv'
  <1> SUFFICES ASSUME IInv, Finish PROVE IInv'
    OBVIOUS
  <1>1. /\ pc = "commands" /\ pc' = "forward" /\ Found /\ Found'
        /\ registry' = registry \ Stale /\ listener' = TRUE
        /\ UNCHANGED <<world, options, reload, missed, found, lan, read, changes>>
    BY DEF Finish, Step, Found, Listened
  <1>2. /\ SpecHosts' = SpecHosts /\ Reachable' = Reachable
        /\ \A h \in Hosts : /\ OwnedAt(arp, h)' = OwnedAt(arp, h)
                            /\ CloudMac(arp, h)' = CloudMac(arp, h)
        /\ OrbwebCommands' = OrbwebCommands /\ Entities' = Entities
    BY <1>1, SameDerived DEF world, found, lan
  <1>3. TypeOK'
    BY <1>1, <1>2 DEF IInv, TypeOK, world, found, lan
  <1>4. LookupInv' /\ WorldInv'
    BY <1>1, <1>2 DEF IInv, LookupInv, WorldInv, world, found, lan
  <1>5. SpecsInv'
    <2>1. \A i \in DOMAIN specs : specs[i].host \in Hosts
      BY SpecIs DEF Specs
    <2> QED
      BY <1>1, <1>2, <2>1 DEF IInv, SpecsInv, lan
  <1>6. RegistryShape'
    BY <1>1 DEF IInv, RegistryShape
  <1>7. RegistryInv'
    BY <1>1, <1>2, LeftIsServed DEF RegistryInv
  <1>8. OptionsInv'
    BY <1>1 DEF IInv, OptionsInv
  <1> QED
    BY <1>3, <1>4, <1>5, <1>6, <1>7, <1>8 DEF IInv

\* The platforms add entities of the shapes the registry has.
LEMMA ForwardInv == IInv /\ Forward => IInv'
  <1> SUFFICES ASSUME IInv, Forward PROVE IInv'
    OBVIOUS
  <1>1. /\ pc = "forward" /\ pc' = "loaded" /\ Found /\ Found'
        /\ registry' = registry \cup Entities
        /\ UNCHANGED <<world, flow, found, lan, read, changes>>
    BY DEF Forward, Step, Found
  <1>2. /\ SpecHosts' = SpecHosts /\ Reachable' = Reachable
        /\ \A h \in Hosts : /\ OwnedAt(arp, h)' = OwnedAt(arp, h)
                            /\ CloudMac(arp, h)' = CloudMac(arp, h)
        /\ OrbwebCommands' = OrbwebCommands /\ Entities' = Entities
    BY <1>1, SameDerived DEF world, found, lan
  <1>3. RegistryShape'
    BY <1>1, EntitiesShape DEF IInv, RegistryShape
  <1>4. TypeOK'
    <2>1. \A e \in registry' : e[1] \in Hosts \cup Cameras
      BY <1>3 DEF RegistryShape
    <2> QED
      BY <1>1, <1>2, <2>1 DEF IInv, TypeOK, world, flow, found, lan
  <1>5. LookupInv' /\ WorldInv'
    BY <1>1, <1>2 DEF IInv, LookupInv, WorldInv, world, found, lan
  <1>6. SpecsInv'
    <2>1. \A i \in DOMAIN specs : specs[i].host \in Hosts
      BY SpecIs DEF Specs
    <2> QED
      BY <1>1, <1>2, <2>1 DEF IInv, SpecsInv, lan
  <1>7. RegistryInv'
    BY <1>1, <1>2 DEF IInv, RegistryInv
  <1>8. OptionsInv'
    BY <1>1 DEF IInv, OptionsInv, flow
  <1> QED
    BY <1>3, <1>4, <1>5, <1>6, <1>7, <1>8 DEF IInv

\* An edit during the setup counts as missed, a later one asks for a reload.
LEMMA EditInv == IInv /\ Edit => IInv'
  <1> SUFFICES ASSUME IInv, Edit PROVE IInv'
    OBVIOUS
  <1>1. /\ options' \in Options /\ reload' = (reload \/ listener)
        /\ missed' = (missed \/ pc \notin {"unloaded", "forward", "loaded"})
        /\ UNCHANGED <<world, listener, found, lan, pc, read, registry>>
        /\ changes < MaxChanges /\ changes' = changes + 1
    BY DEF Edit, Changed
  <1>2. /\ SpecHosts' = SpecHosts /\ Reachable' = Reachable
        /\ \A h \in Hosts : /\ OwnedAt(arp, h)' = OwnedAt(arp, h)
                            /\ CloudMac(arp, h)' = CloudMac(arp, h)
        /\ OrbwebCommands' = OrbwebCommands /\ Entities' = Entities
    BY <1>1, SameDerived DEF world, found, lan
  <1>3. TypeOK'
    <2>1. reload' \in BOOLEAN /\ missed' \in BOOLEAN /\ changes' \in 0 .. MaxChanges
      BY <1>1, BoundAssumption DEF IInv, TypeOK
    <2> QED
      BY <1>1, <1>2, <2>1 DEF IInv, TypeOK, world, found, lan
  <1>4. LookupInv' /\ WorldInv'
    BY <1>1, <1>2 DEF IInv, LookupInv, WorldInv, Found, world, found, lan
  <1>5. SpecsInv'
    <2>1. \A i \in DOMAIN specs : specs[i].host \in Hosts
      BY SpecIs DEF Specs
    <2> QED
      BY <1>1, <1>2, <2>1 DEF IInv, SpecsInv, Found, lan
  <1>6. RegistryShape' /\ RegistryInv'
    BY <1>1, <1>2 DEF IInv, RegistryShape, RegistryInv
  <1>7. OptionsInv'
    BY <1>1 DEF IInv, OptionsInv
  <1> QED
    BY <1>3, <1>4, <1>5, <1>6, <1>7 DEF IInv

\* An unload forgets everything but the registry and the options.
LEMMA UnloadInv == IInv /\ (Reload \/ Restart) => IInv'
  <1> SUFFICES ASSUME IInv, Reload \/ Restart PROVE IInv'
    OBVIOUS
  <1>1. /\ pc' = "unloaded" /\ ~Found' /\ Unloaded
        /\ UNCHANGED <<world, options, missed, read, registry>>
    BY DEF Reload, Restart, Step, Found
  <1>2. changes' \in 0 .. MaxChanges
    BY BoundAssumption DEF Reload, Restart, Changed, IInv, TypeOK
  <1>3. SpecHosts' = {} /\ NoTable \in [Hosts -> Cameras \cup {Nobody}]
    BY <1>1 DEF SpecHosts, Unloaded, NoTable
  <1>4. TypeOK'
    <2>1. specs' \in Seq([host : Hosts, mac : Cameras \cup {Nobody}])
      BY <1>1 DEF Unloaded
    <2> QED
      BY <1>1, <1>2, <1>3, <2>1 DEF IInv, TypeOK, Unloaded, world
  <1>5. WorldInv'
    BY <1>1 DEF IInv, WorldInv, Unloaded, NoTable, world
  <1>6. LookupInv' /\ SpecsInv' /\ RegistryShape' /\ RegistryInv' /\ OptionsInv'
    BY <1>1 DEF IInv, LookupInv, SpecsInv, RegistryShape, RegistryInv, OptionsInv, Unloaded
  <1> QED
    BY <1>4, <1>5, <1>6 DEF IInv

\* A camera that moves leaves its address and takes a free one.
LEMMA MoveInv == IInv /\ Move => IInv'
  <1> SUFFICES ASSUME IInv, Move PROVE IInv'
    OBVIOUS
  <1>1. /\ pc = "unloaded" /\ pc' = pc /\ ~Found /\ ~Found'
        /\ changes < MaxChanges /\ changes' = changes + 1
        /\ UNCHANGED <<account, flow, found, lan, pc, read, registry>>
    BY DEF Move, Changed, Found
  <1>2. PICK c \in Cameras, g \in Hosts, h \in Hosts \cup {Nobody} :
           /\ occupant[g] = c
           /\ former' = [former EXCEPT ![g] = c]
           /\ h # Nobody => occupant[h] = Nobody
           /\ occupant' = [x \in Hosts |-> CASE x = g -> Nobody [] x = h -> c
                                             [] OTHER -> occupant[x]]
    BY DEF Move
  <1>3. /\ occupant' \in [Hosts -> Cameras \cup {Nobody}]
        /\ former' \in [Hosts -> Cameras \cup {Nobody}]
        /\ changes' \in 0 .. MaxChanges
    BY <1>1, <1>2, BoundAssumption DEF IInv, TypeOK
  <1>4. /\ arp = NoTable /\ specs = <<>> /\ data = {} /\ direct = {}
        /\ UNCHANGED <<arp, specs, data, direct>> /\ SpecHosts' = SpecHosts
    BY <1>1 DEF IInv, WorldInv, lan, SpecHosts
  <1>5. TypeOK'
    BY <1>1, <1>3, <1>4 DEF IInv, TypeOK, flow, found
  <1>6. WorldInv'
    <2>1. ASSUME NEW x \in Hosts, NEW y \in Hosts, x # y, occupant'[x] = occupant'[y]
          PROVE  occupant'[x] = Nobody
      <3>1. \A z \in Hosts : occupant'[z] = IF z = g THEN Nobody
                                             ELSE IF z = h THEN c ELSE occupant[z]
        <4>1. g # h
          BY <1>2, NobodyAssumption
        <4> QED
          BY <1>2, <4>1
      <3>2. \A z \in Hosts : z # g => occupant[z] # c
        BY <1>2, NobodyAssumption DEF IInv, WorldInv
      <3> QED
        BY <2>1, <3>1, <3>2 DEF IInv, WorldInv
    <2> QED
      BY <1>1, <1>4, <2>1 DEF WorldInv, NoTable
  <1>7. LookupInv' /\ SpecsInv' /\ RegistryShape' /\ RegistryInv' /\ OptionsInv'
    BY <1>1, <1>4
       DEF IInv, LookupInv, SpecsInv, RegistryShape, RegistryInv, OptionsInv, flow, found
  <1> QED
    BY <1>5, <1>6, <1>7 DEF IInv

\* A step that changes nothing preserves it.
LEMMA StutterInv == IInv /\ UNCHANGED vars => IInv'
  <1> SUFFICES ASSUME IInv, UNCHANGED vars PROVE IInv'
    OBVIOUS
  <1>1. UNCHANGED <<world, flow, found, lan, pc, read, registry, changes>>
    BY DEF vars
  <1>2. /\ SpecHosts' = SpecHosts /\ Reachable' = Reachable
        /\ \A h \in Hosts : /\ OwnedAt(arp, h)' = OwnedAt(arp, h)
                            /\ CloudMac(arp, h)' = CloudMac(arp, h)
        /\ OrbwebCommands' = OrbwebCommands /\ Entities' = Entities
    BY <1>1, SameDerived DEF world, found, lan
  <1>3. TypeOK'
    BY <1>1, <1>2 DEF IInv, TypeOK, world, flow, found, lan
  <1>4. LookupInv' /\ WorldInv'
    BY <1>1, <1>2 DEF IInv, LookupInv, WorldInv, Found, world, found, lan
  <1>5. SpecsInv'
    <2>1. \A i \in DOMAIN specs : specs[i].host \in Hosts
      BY SpecIs DEF Specs
    <2> QED
      BY <1>1, <1>2, <2>1 DEF IInv, SpecsInv, Found, lan
  <1>6. RegistryShape' /\ RegistryInv' /\ OptionsInv'
    BY <1>1, <1>2 DEF IInv, RegistryShape, RegistryInv, OptionsInv, flow
  <1> QED
    BY <1>3, <1>4, <1>5, <1>6 DEF IInv

\* Every step preserves it.
LEMMA NextInv == IInv /\ [Next]_vars => IInv'
BY EarlyInv, DiscoverInv, LanInv, FinishInv, ForwardInv, EditInv, UnloadInv, MoveInv, StutterInv
   DEF Next, Setup, Early

-----------------------------------------------------------------------------
(* The theorems *)

\* The inductive invariant holds in every state.
THEOREM Invariance == Spec => []IInv
BY InitInv, NextInv, PTL DEF Spec

\* Every variable keeps its type.
THEOREM TypeCorrect == Spec => []TypeOK
<1>1. IInv => TypeOK
  BY DEF IInv
<1> QED
  BY <1>1, Invariance, PTL

\* However little of the cloud and the LAN answers, and however outdated the ARP
\* table: no address is listed twice, the pool opens for every stream and every
\* command of a camera a transport to that camera, and never two to one camera
\* (stream_bindings.py, and the targets __init__.py gives the mapping pool).
THEOREM RoutesOwnCameraTheorem == Spec => []RoutesOwnCamera
BY RoutesInv, Invariance, PTL

\* With a table that is incomplete but not outdated every camera with Orbweb
\* credentials has a camera entity, and only one where the setup has located it.
THEOREM ShownOnceTheorem == Spec => []ShownOnce
BY ShownInv, Invariance, PTL

\* A loaded entry has in the registry, of the addresses it has found and the cameras
\* it commands through Orbweb, only entities that it creates, whatever the setups and
\* releases before have left there; but for camera entities, which the clean-up
\* preserves (__init__.py:433).
THEOREM RegistryCleanTheorem == Spec => []RegistryClean
<1>1. IInv => RegistryClean
  BY DEF IInv, RegistryInv, RegistryClean
<1> QED
  BY <1>1, Invariance, PTL

\* A loaded entry without a reload under way runs with the saved options, but
\* for those saved while its setup ran.
THEOREM OptionsInForceTheorem == Spec => []OptionsInForce
<1>1. IInv => OptionsInForce
  BY DEF IInv, OptionsInv, OptionsInForce
<1> QED
  BY <1>1, Invariance, PTL

\* What the setup takes for the camera at an address it loses is or was there.
LEMMA RemovedHosts ==
  ASSUME IInv, NEW e \in Stale, e[1] \in Hosts
  PROVE  \E c \in {occupant[e[1]], former[e[1]]} \ {Nobody} :
            Is3667(c) \/ (account[c].model = "0667" /\ e[2] \in ImageSuffixes)
  <1> DEFINE h == e[1]
  <1>1. h \notin OrbwebCommands /\ LocalHosts \subseteq SpecHosts
    BY Devices
  <1>2. \/ e \in (SpecHosts \ LocalHosts) \X LocalSuffixes
        \/ e \in (LocalHosts \ ImageHosts) \X ImageSuffixes
    BY <1>1 DEF Stale
  <1>3. PICK i \in DOMAIN specs : specs[i].host = h
    BY <1>1, <1>2 DEF SpecHosts
  <1> DEFINE m == specs[i].mac
  <1>4. SpecMac(h) = m /\ (m = Nobody \/ (m \in cloud /\ Mac(m) = m /\ arp[h] = m))
    BY <1>3, SpecIs
  <1>5. m # Nobody => m \in {occupant[h], former[h]} \ {Nobody}
    BY <1>4 DEF IInv, WorldInv
  <1>6. CASE h \in SpecHosts \ LocalHosts
    <2>1. m \in {Mac(c) : c \in {d \in Candidates : Is3667(d)}} \ {Nobody}
      BY <1>4, <1>6 DEF LocalHosts
    <2>2. PICK c \in Candidates : Is3667(c) /\ Mac(c) = m /\ m # Nobody
      BY <2>1
    <2>3. c = m
      BY <2>2 DEF Mac
    <2> QED
      BY <1>5, <2>2, <2>3
  <1>7. CASE h \in LocalHosts \ ImageHosts /\ e[2] \in ImageSuffixes
    <2>1. Model(h) = "0667"
      BY <1>7 DEF ImageHosts
    <2>2. CASE LocalData(h)
      <3>1. account[occupant[h]].model = "0667"
        BY <2>1, <2>2 DEF Model
      <3>2. occupant[h] # Nobody
        BY <2>2 DEF LocalData, Reachable, IInv, WorldInv
      <3> QED
        BY <1>7, <3>1, <3>2
    <2>3. CASE ~LocalData(h)
      <3>1. CloudModel(m) = "0667"
        BY <1>4, <2>1, <2>3 DEF Model
      <3>2. m \in cloud /\ account[m].model = "0667"
        BY <3>1 DEF CloudModel
      <3>3. m # Nobody
        BY <3>2, NobodyAssumption DEF IInv, TypeOK
      <3> QED
        BY <1>5, <1>7, <3>2, <3>3
    <2> QED
      BY <2>2, <2>3
  <1> QED
    BY <1>2, <1>6, <1>7

\* A setup removes entities of an address only for a 3667 or an unsafe model
\* that is, or was, there; no camera entity, and none that it creates again.
THEOREM RemovedForCauseTheorem == Spec => RemovedForCause
<1> DEFINE Cause ==
      \A e \in registry \ registry' :
          /\ e \notin Entities /\ e[2] # "camera"
          /\ e[1] \in Hosts =>
                \E c \in {occupant[e[1]], former[e[1]]} \ {Nobody} :
                    Is3667(c) \/ (account[c].model = "0667" /\ e[2] \in ImageSuffixes)
<1>1. ASSUME IInv, [Next]_vars PROVE [Cause]_vars
  <2>1. CASE Finish
    <3>1. registry \ registry' \subseteq Stale
      BY <2>1 DEF Finish
    <3> QED
      BY <1>1, <3>1, RemovedHosts, StaleIsNotServed
  <2>2. CASE ~Finish
    <3>1. registry \ registry' = {}
      BY <1>1, <2>2
         DEF Next, Setup, Start, Authenticate, Inventory, Subscription, Recover, Manual,
             Diagnostic, Discover, LocalRefresh, ProbeRtsp, Forward, Edit, Reload, Restart, Move,
             vars
    <3> QED
      BY <3>1
  <2> QED
    BY <2>1, <2>2
<1> QED
  BY <1>1, Invariance, PTL DEF Spec, RemovedForCause
=============================================================================
