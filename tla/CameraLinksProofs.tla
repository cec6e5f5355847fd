-------------------------- MODULE CameraLinksProofs --------------------------
(***************************************************************************)
(* MappingPool implements CameraLinks, for any number of cameras, ports,   *)
(* callers, clients and mapping objects: the initial states map to initial *)
(* states, and every step maps to a step or leaves the links as they are.  *)
(***************************************************************************)
EXTENDS MappingPoolProofs

-----------------------------------------------------------------------------
(* Lemmas *)

\* A step that keeps _closed, the openers and the transports leaves the links.
LEMMA LinksStutter ==
    ASSUME closing' = closing,
           \A h \in Hosts : LinkOpener(h)' = LinkOpener(h),
           \A h \in Hosts : LinkUp(h)' = LinkUp(h) /\ LinkFailed(h)' = LinkFailed(h)
    PROVE  UNCHANGED Links!vars
BY DEF Links!vars

\* Only the state and the camera of the mappings decide what is up or failed.
LEMMA SameTransports ==
    ASSUME UNCHANGED <<mapState, mapHost>>, NEW h \in Hosts
    PROVE  LinkUp(h)' = LinkUp(h) /\ LinkFailed(h)' = LinkFailed(h)
BY DEF LinkUp, LinkFailed

\* A client that neither was nor gets at the opener changes no link.
LEMMA SameOpeners ==
    ASSUME IInv, NEW c \in Clients, handler[c].pc # "open", NEW s, s.pc # "open",
           handler' = [handler EXCEPT ![c] = s], NEW h \in Hosts
    PROVE  LinkOpener(h)' = LinkOpener(h)
<1>1. \A d \in Clients : handler'[d] = IF d = c THEN s ELSE handler[d]
  BY DEF IInv, TypeOK
<1> QED
  BY <1>1 DEF LinkOpener

\* The link of a camera after its stored transport was closed.
LEMMA CloseMapLinks ==
    ASSUME IInv, NEW m \in Maps, Live(m), mapState' = CloseMap(m, mapState),
           mapHost' = mapHost, NEW h \in Hosts
    PROVE  /\ LinkUp(h)' = IF h = mapHost[m] THEN {} ELSE LinkUp(h)
           /\ LinkFailed(h)' = IF h = mapHost[m] THEN {} ELSE LinkFailed(h)
<1>1. \A n \in Maps : mapState'[n] = IF n = m THEN "closed" ELSE mapState[n]
  BY CloseMapStates DEF IInv
<1>2. \A n \in Maps : Live(n) /\ mapHost[n] = mapHost[m] => n = m
  BY DEF IInv, LivePooled
<1>3. None \notin Maps
  BY ConstantsAssumption
<1> QED
  BY <1>1, <1>2, <1>3 DEF LinkUp, LinkFailed, Live

\* Closing a mapping that is not live changes no state.
LEMMA CloseMapNothing ==
    ASSUME NEW m, ~Live(m), mapState' = CloseMap(m, mapState)
    PROVE  mapState' = mapState
BY DEF CloseMap

\* A transport that closes leaves its camera without a link.
LEMMA DropLink ==
    ASSUME IInv, NEW m \in Maps, Live(m), mapState' = CloseMap(m, mapState),
           mapHost' = mapHost, closing' = closing,
           \A h \in Hosts : LinkOpener(h)' = LinkOpener(h)
    PROVE  Links!Next
<1>1. mapHost[m] \in Hosts
  BY DEF IInv, LivePooled
<1>2. Links!Drop(mapHost[m])
  BY <1>1, CloseMapLinks DEF Links!Drop
<1> QED
  BY <1>1, <1>2 DEF Links!Next

-----------------------------------------------------------------------------
(* The steps *)

\* The callers of async_get_stable_mapping open no link.
LEMMA CallersStutter ==
    ASSUME IInv, NEW r \in Callers, (\E k \in Keys : AskStable(r, k)) \/ StableStep(r)
    PROVE  UNCHANGED Links!vars
<1>1. UNCHANGED <<closing, handler, mapState, mapHost>>
  BY DEF StableStep, AskStable, TakeStableLock, StableStarted, StableFailed, poolVars
<1> QED
  BY <1>1, LinksStutter, SameTransports DEF LinkOpener

\* Arriving, the check of _closed, the dial and the relay open no link.
LEMMA ClientStutter ==
    ASSUME IInv, NEW c \in Clients,
           \/ \E k \in Keys : Connect(c, k) \/ Prepare(c, k)
           \/ EnterGet(c) \/ Dialled(c) \/ Redial(c) \/ RelayEnds(c)
    PROVE  UNCHANGED Links!vars
<1>1. handler \in [Clients -> HandlerStates]
  BY DEF IInv, TypeOK, HandlerStates
<1>2. UNCHANGED <<closing, mapState, mapHost>>
  BY DEF Connect, Prepare, EnterGet, Dialled, Redial, RelayEnds, poolVars
<1>3. \A d \in Clients : handler'[d].pc = "open" <=> handler[d].pc = "open"
  BY <1>1 DEF Connect, Prepare, EnterGet, Dialled, Redial, RelayEnds, HandlerStates
<1>4. \A d \in Clients : handler[d].pc = "open" => handler'[d].key = handler[d].key
  BY <1>1 DEF Connect, Prepare, EnterGet, Dialled, Redial, RelayEnds, HandlerStates
<1>5. \A h \in Hosts : LinkOpener(h)' = LinkOpener(h)
  BY <1>3, <1>4 DEF LinkOpener, Host
<1> QED
  BY <1>2, <1>5, LinksStutter, SameTransports

\* The lock was free: nobody opens the link, and a transport that is not healthy
\* is closed before the opener runs.
LEMMA TakeLockLinks ==
    ASSUME IInv, NEW c \in Clients, TakeLock(c)
    PROVE  Links!Next \/ UNCHANGED Links!vars
<1> DEFINE g == Host(handler[c].key)
<1>1. g \in Hosts /\ lock[g] = None /\ handler[c].pc = "wait"
  BY KeyHost DEF IInv, KeysKnown, TakeLock, Free
<1>2. handler \in [Clients -> HandlerStates] /\ None \notin Clients
  BY ConstantsAssumption DEF IInv, TypeOK, HandlerStates
<1>3. UNCHANGED <<closing, mapHost>>
  BY DEF TakeLock
<1>4. CASE handler'[c].pc # "open"
  <2>1. UNCHANGED mapState
    BY <1>2, <1>4 DEF TakeLock, HandlerStates
  <2>2. \A d \in Clients : d # c => handler'[d] = handler[d]
    BY <1>2 DEF TakeLock
  <2>3. \A h \in Hosts : LinkOpener(h)' = LinkOpener(h)
    BY <1>1, <1>4, <2>2 DEF LinkOpener
  <2> QED
    BY <1>3, <2>1, <2>3, LinksStutter, SameTransports
<1>5. CASE handler'[c].pc = "open"
  <2>1. /\ closing = "open" /\ ~Healthy(pooled[g]) /\ mapState' = CloseMap(pooled[g], mapState)
        /\ handler' = [handler EXCEPT ![c].pc = "open"]
    BY <1>2, <1>5 DEF TakeLock, Closed, Got, HandlerStates
  <2>2. \A d \in Clients : handler'[d].key = handler[d].key
                        /\ (d # c => handler'[d] = handler[d])
    BY <1>2, <2>1 DEF HandlerStates
  <2>3. LinkOpener(g) = {}
    BY <1>1, <1>2 DEF LinkOpener, IInv, LockIsOpener
  <2>4. \A h \in Hosts : LinkOpener(h)' = IF h = g THEN {c} ELSE LinkOpener(h)
    BY <1>1, <1>5, <2>2, <2>3 DEF LinkOpener
  <2>5. LinkUp(g) = {}
    BY <1>1, <2>1, ConstantsAssumption DEF IInv, LivePooled, LinkUp, Live, Healthy
  <2>6. \A h \in Hosts : /\ LinkUp(h)' = LinkUp(h)
                         /\ LinkFailed(h)' = IF h = g THEN {} ELSE LinkFailed(h)
    <3>1. CASE Live(pooled[g])
      <4>1. pooled[g] \in Maps /\ mapHost[pooled[g]] = g
        BY <1>1, <3>1 DEF IInv, TypeOK, MapsPlaced, Live
      <4> QED
        BY <1>3, <2>1, <2>5, <3>1, <4>1, CloseMapLinks
    <3>2. CASE ~Live(pooled[g])
      <4>1. mapState' = mapState
        BY <2>1, <3>2, CloseMapNothing
      <4>2. LinkFailed(g) = {}
        BY <1>1, <3>2, ConstantsAssumption DEF IInv, LivePooled, LinkFailed, Live
      <4> QED
        BY <1>3, <4>1, <4>2, SameTransports
    <3> QED
      BY <3>1, <3>2
  <2>7. Links!BeginOpen(g, c)
    BY <1>1, <1>3, <2>1, <2>3, <2>4, <2>5, <2>6 DEF Links!BeginOpen
  <2> QED
    BY <1>1, <2>7 DEF Links!Next
<1> QED
  BY <1>4, <1>5
\* The lock was held for this opener alone: what it returns becomes the link.
LEMMA OpenedLinks ==
    ASSUME IInv, NEW c \in Clients, NEW n \in Maps, Opened(c, n)
    PROVE  Links!Next
<1> DEFINE g == Host(handler[c].key)
<1>1. g \in Hosts /\ handler[c].pc = "open"
  BY KeyHost DEF IInv, KeysKnown, Opened
<1>2. handler \in [Clients -> HandlerStates]
  BY DEF IInv, TypeOK, HandlerStates
<1>3. \A d \in Clients : handler'[d].pc = "open" <=> handler[d].pc = "open" /\ d # c
  BY <1>1, <1>2 DEF Opened, Got, HandlerStates
<1>4. \A d \in Clients : handler'[d].key = handler[d].key
  BY <1>2 DEF Opened, HandlerStates
<1>5. \A d \in Clients : handler[d].pc = "open" /\ Host(handler[d].key) = g => d = c
  BY <1>1 DEF IInv, LockIsOpener
<1>6. \A h \in Hosts : LinkOpener(h)' = IF h = g THEN {} ELSE LinkOpener(h)
  BY <1>3, <1>4, <1>5 DEF LinkOpener
<1>7. \A q \in Maps : Live(q) => mapHost[q] # g
  BY <1>1 DEF IInv, LivePooled, OpenUnpooled
<1>8. LinkUp(g) = {} /\ LinkFailed(g) = {} /\ LinkOpener(g) # {}
  BY <1>1, <1>7, ConstantsAssumption DEF LinkUp, LinkFailed, LinkOpener, Live
<1>9. /\ \A q \in Maps : mapState'[q] = IF q = n THEN "live" ELSE mapState[q]
      /\ \A q \in Maps : mapHost'[q] = IF q = n THEN g ELSE mapHost[q]
      /\ mapState[n] = "unused"
  BY DEF IInv, TypeOK, Opened
<1>10. \A h \in Hosts : /\ LinkUp(h)' = IF h = g THEN {n} ELSE LinkUp(h)
                       /\ LinkFailed(h)' = LinkFailed(h)
  BY <1>8, <1>9 DEF LinkUp, LinkFailed
<1>11. Links!Linked(g, n)
  BY <1>1, <1>6, <1>8, <1>10 DEF Links!Linked, Opened
<1> QED
  BY <1>1, <1>11 DEF Links!Next

\* The camera's opener is over without a link: it raised, or it was cancelled.
LEMMA OpenerLeaves ==
    ASSUME IInv, NEW c \in Clients, handler[c].pc = "open",
           UNCHANGED <<closing, mapState, mapHost>>,
           NEW gone \in SUBSET Clients, c \in gone,
           \A d \in gone : handler[d].pc = "open" => d = c,
           handler' = [d \in Clients |->
               IF d \in gone THEN [handler[d] EXCEPT !.pc = "gone"] ELSE handler[d]]
    PROVE  Links!Next
<1> DEFINE g == Host(handler[c].key)
<1>1. g \in Hosts
  BY KeyHost DEF IInv, KeysKnown
<1>2. handler \in [Clients -> HandlerStates]
  BY DEF IInv, TypeOK, HandlerStates
<1>3. \A d \in Clients : handler'[d].pc = "open" <=> handler[d].pc = "open" /\ d # c
  BY <1>2 DEF HandlerStates
<1>4. \A d \in Clients : handler'[d].key = handler[d].key
  BY <1>2 DEF HandlerStates
<1>5. \A d \in Clients : handler[d].pc = "open" /\ Host(handler[d].key) = g => d = c
  BY DEF IInv, LockIsOpener
<1>6. \A h \in Hosts : LinkOpener(h)' = IF h = g THEN {} ELSE LinkOpener(h)
  BY <1>3, <1>4, <1>5 DEF LinkOpener
<1>7. LinkOpener(g) # {}
  BY DEF LinkOpener
<1>8. Links!NotLinked(g)
  BY <1>1, <1>6, <1>7, SameTransports DEF Links!NotLinked
<1> QED
  BY <1>1, <1>8 DEF Links!Next

\* A failed opener is the only client that leaves.
LEMMA OpenFailedLinks ==
    ASSUME IInv, NEW c \in Clients, OpenFailed(c)
    PROVE  Links!Next
<1>1. handler' = [d \in Clients |->
          IF d \in {c} THEN [handler[d] EXCEPT !.pc = "gone"] ELSE handler[d]]
  BY DEF IInv, TypeOK, OpenFailed
<1>2. handler[c].pc = "open" /\ UNCHANGED <<closing, mapState, mapHost>>
  BY DEF OpenFailed
<1> DEFINE gone == {c}
<1>3. gone \in SUBSET Clients /\ c \in gone /\ \A d \in gone : d = c
  OBVIOUS
<1>4. handler' = [d \in Clients |->
          IF d \in gone THEN [handler[d] EXCEPT !.pc = "gone"] ELSE handler[d]]
  BY <1>1
<1> HIDE DEF gone
<1> QED
  BY <1>2, <1>3, <1>4, OpenerLeaves

\* A cancelled preparation opens no link any more.
LEMMA PrepareTimeoutLinks ==
    ASSUME IInv, NEW c \in Clients, PrepareTimeout(c)
    PROVE  Links!Next \/ UNCHANGED Links!vars
<1>1. handler \in [Clients -> HandlerStates]
  BY DEF IInv, TypeOK, HandlerStates
<1>2. UNCHANGED <<closing, mapState, mapHost>> /\ handler' = [handler EXCEPT ![c].pc = "gone"]
  BY DEF PrepareTimeout
<1>3. CASE handler[c].pc = "open"
  <2> DEFINE gone == {c}
  <2>1. gone \in SUBSET Clients /\ c \in gone /\ \A d \in gone : d = c
    OBVIOUS
  <2>2. handler' = [d \in Clients |->
            IF d \in gone THEN [handler[d] EXCEPT !.pc = "gone"] ELSE handler[d]]
    BY <1>1, <1>2
  <2> HIDE DEF gone
  <2> QED
    BY <1>2, <1>3, <2>1, <2>2, OpenerLeaves
<1>4. CASE handler[c].pc # "open"
  <2>1. \A d \in Clients : /\ handler'[d].pc = "open" <=> handler[d].pc = "open"
                          /\ handler'[d].key = handler[d].key
    BY <1>1, <1>2, <1>4 DEF HandlerStates
  <2>2. \A h \in Hosts : LinkOpener(h)' = LinkOpener(h)
    BY <2>1 DEF LinkOpener
  <2> QED
    BY <1>2, <2>2, LinksStutter, SameTransports
<1> QED
  BY <1>3, <1>4

\* A refused dial drops the link if it is still the one that was dialled.
LEMMA DialFailedLinks ==
    ASSUME IInv, NEW c \in Clients, DialFailed(c)
    PROVE  Links!Next \/ UNCHANGED Links!vars
<1> DEFINE m == handler[c].map
<1>1. handler \in [Clients -> HandlerStates] /\ m \in Maps
  BY DEF IInv, TypeOK, MapsPlaced, HandlerStates, DialFailed
<1>2. UNCHANGED <<closing, mapHost>> /\ mapState' = CloseMap(m, mapState)
  BY DEF DialFailed
<1>3. handler[c].pc # "open" /\ handler'[c].pc # "open"
  BY <1>1 DEF DialFailed, HandlerStates
<1>4. \A d \in Clients : d # c => handler'[d] = handler[d]
  BY <1>1 DEF DialFailed
<1>5. \A h \in Hosts : LinkOpener(h)' = LinkOpener(h)
  BY <1>3, <1>4 DEF LinkOpener
<1>6. CASE Live(m)
  BY <1>1, <1>2, <1>5, <1>6, DropLink
<1>7. CASE ~Live(m)
  <2>1. UNCHANGED mapState
    BY <1>2, <1>7, CloseMapNothing
  <2> QED
    BY <1>2, <1>5, <2>1, LinksStutter, SameTransports
<1> QED
  BY <1>6, <1>7

\* A transport stops, and its close ends.
LEMMA MapLinks ==
    ASSUME IInv, NEW m \in Maps, MapFails(m) \/ MapCloses(m)
    PROVE  Links!Next
<1>1. UNCHANGED <<closing, mapHost, handler>>
  BY DEF MapFails, MapCloses
<1>2. \A h \in Hosts : LinkOpener(h)' = LinkOpener(h)
  BY <1>1 DEF LinkOpener
<1>3. Live(m) /\ mapHost[m] \in Hosts
  BY ConstantsAssumption DEF IInv, LivePooled, MapFails, MapCloses, Live
<1>4. \A n \in Maps : Live(n) /\ mapHost[n] = mapHost[m] => n = m
  BY <1>3 DEF IInv, LivePooled
<1>5. CASE MapFails(m)
  <2>1. \A n \in Maps : mapState'[n] = IF n = m THEN "failed" ELSE mapState[n]
    BY <1>5 DEF IInv, TypeOK, MapFails
  <2>2. LinkUp(mapHost[m]) = {m} /\ LinkFailed(mapHost[m]) = {}
    BY <1>4, <1>5, ConstantsAssumption DEF MapFails, LinkUp, LinkFailed, Live
  <2>3. \A h \in Hosts : /\ LinkUp(h)' = IF h = mapHost[m] THEN {} ELSE LinkUp(h)
                        /\ LinkFailed(h)' = IF h = mapHost[m] THEN {m} ELSE LinkFailed(h)
    BY <1>1, <2>1, <2>2 DEF LinkUp, LinkFailed
  <2>4. Links!Fail(mapHost[m])
    BY <1>1, <1>2, <1>3, <2>2, <2>3 DEF Links!Fail
  <2> QED
    BY <1>3, <2>4 DEF Links!Next
<1>6. CASE MapCloses(m)
  <2>1. mapState' = CloseMap(m, mapState)
    BY <1>3, <1>6 DEF MapCloses, CloseMap
  <2> QED
    BY <1>1, <1>2, <1>3, <2>1, DropLink
<1> QED
  BY <1>5, <1>6

\* async_close takes the flag and the transports in one step; every transport
\* that is not closed is a stored one.
LEMMA PoolCloseLinks ==
    ASSUME IInv, PoolClose
    PROVE  Links!Next
<1>1. closing = "open" /\ closing' # "open" /\ UNCHANGED <<handler, mapHost>>
  BY DEF PoolClose
<1>2. \A m \in Maps : mapState'[m] \notin {"live", "failed"}
  <2> SUFFICES ASSUME NEW m \in Maps PROVE mapState'[m] \notin {"live", "failed"}
    OBVIOUS
  <2>1. mapState'[m] = IF \E h \in Hosts : pooled[h] = m /\ Live(m) THEN "closed" ELSE mapState[m]
    BY DEF PoolClose
  <2>2. CASE Live(m)
    BY <2>1, <2>2 DEF IInv, LivePooled
  <2>3. CASE ~Live(m)
    BY <2>1, <2>3, ConstantsAssumption DEF Live
  <2> QED
    BY <2>2, <2>3
<1>3. \A h \in Hosts : LinkUp(h)' = {} /\ LinkFailed(h)' = {} /\ LinkOpener(h)' = LinkOpener(h)
  BY <1>1, <1>2 DEF LinkUp, LinkFailed, LinkOpener
<1>4. Links!Close
  BY <1>1, <1>3 DEF Links!Close, Links!Unlinked
<1> QED
  BY <1>4 DEF Links!Next

\* A stable port that stops cancels its clients, among them at most one opener.
LEMMA StableStopsLinks ==
    ASSUME IInv, NEW k \in Keys, StableStops(k)
    PROVE  Links!Next \/ UNCHANGED Links!vars
<1>1. /\ UNCHANGED <<closing, mapState, mapHost>>
      /\ handler' = [d \in Clients |->
             IF d \in Bridged(k) THEN [handler[d] EXCEPT !.pc = "gone"] ELSE handler[d]]
  BY DEF StableStops
<1>2. Bridged(k) \in SUBSET Clients
  BY DEF Bridged
<1>3. CASE \E c \in Bridged(k) : handler[c].pc = "open"
  <2>1. PICK c \in Bridged(k) : handler[c].pc = "open"
    BY <1>3
  <2>2. \A d \in Bridged(k) : handler[d].pc = "open" => d = c
    BY <2>1, KeyHost DEF IInv, LockIsOpener, Bridged
  <2> QED
    BY <1>1, <1>2, <2>1, <2>2, OpenerLeaves
<1>4. CASE \A c \in Bridged(k) : handler[c].pc # "open"
  <2>1. handler \in [Clients -> HandlerStates]
    BY DEF IInv, TypeOK, HandlerStates
  <2>2. \A d \in Clients : /\ handler'[d].pc = "open" <=> handler[d].pc = "open"
                          /\ handler'[d].key = handler[d].key
    BY <1>1, <1>4, <2>1 DEF HandlerStates
  <2>3. \A h \in Hosts : LinkOpener(h)' = LinkOpener(h)
    BY <2>2 DEF LinkOpener
  <2> QED
    BY <1>1, <2>3, LinksStutter, SameTransports
<1> QED
  BY <1>3, <1>4

\* The end of the close, and stuttering.
LEMMA QuietLinks ==
    ASSUME PoolClosed \/ UNCHANGED vars
    PROVE  UNCHANGED Links!vars
<1>1. /\ (closing = "open") = (closing' = "open")
      /\ UNCHANGED <<handler, mapState, mapHost>>
  BY DEF PoolClosed, vars, poolVars
<1>2. \A h \in Hosts : LinkOpener(h)' = LinkOpener(h)
  BY <1>1 DEF LinkOpener
<1> QED
  BY <1>1, <1>2, SameTransports DEF Links!vars

\* Every step of the pool is a step of the links, or leaves them.
LEMMA NextLinks ==
    ASSUME IInv, [Next]_vars
    PROVE  [Links!Next]_(Links!vars)
<1>1. ASSUME NEW r \in Callers, (\E k \in Keys : AskStable(r, k)) \/ StableStep(r)
      PROVE  UNCHANGED Links!vars
  BY <1>1, CallersStutter
<1>2. ASSUME NEW c \in Clients,
             \/ \E k \in Keys : Connect(c, k) \/ Prepare(c, k)
             \/ HandlerStep(c) \/ Opening(c) \/ PrepareTimeout(c) \/ Redial(c) \/ RelayEnds(c)
      PROVE  Links!Next \/ UNCHANGED Links!vars
  BY <1>2, ClientStutter, TakeLockLinks, OpenedLinks, OpenFailedLinks, PrepareTimeoutLinks,
     DialFailedLinks DEF HandlerStep, Opening
<1>3. ASSUME NEW m \in Maps, MapFails(m) \/ MapCloses(m)
      PROVE  Links!Next
  BY <1>3, MapLinks
<1>4. CASE PoolClose \/ PoolClosed \/ UNCHANGED vars \/ \E k \in Keys : StableStops(k)
  BY <1>4, PoolCloseLinks, QuietLinks, StableStopsLinks
<1> QED
  BY <1>1, <1>2, <1>3, <1>4 DEF Next

\* Nothing is open, up or failed in the beginning.
LEMMA InitLinks == Init => Links!Init
<1> SUFFICES ASSUME Init PROVE Links!Init
  OBVIOUS
<1>1. \A h \in Hosts : LinkOpener(h) = {} /\ LinkUp(h) = {} /\ LinkFailed(h) = {}
  BY DEF Init, LinkOpener, LinkUp, LinkFailed
<1> QED
  BY <1>1 DEF Init, Links!Init, Links!Unlinked

-----------------------------------------------------------------------------
(* Theorem *)

\* The pool (pool.py:130-295) implements the promise of CameraLinks: one opener
\* and one link per camera, no link begun after the close, none left by it but
\* that of an opener under way.
THEOREM ImplementsLinksTheorem == Spec => ImplementsLinks
<1>1. IInv /\ [Next]_vars => [Links!Next]_(Links!vars)
  BY NextLinks
<1> QED
  BY <1>1, InitLinks, Invariance, PTL DEF Spec, ImplementsLinks, Links!Spec
=============================================================================
