------------------------ MODULE MappingPoolProofs ------------------------
(***************************************************************************)
(* Proofs about MappingPool, for any number of cameras, ports, callers,    *)
(* clients and mapping objects.                                            *)
(***************************************************************************)
EXTENDS MappingPool, TLAPS

-----------------------------------------------------------------------------
(* The inductive invariant *)

\* Whoever asks or connects has named a key.
KeysKnown ==
    /\ \A c \in Clients : handler[c].pc # "idle" => handler[c].key \in Keys
    /\ \A r \in Callers : caller[r].pc # "idle" => caller[r].key \in Keys

\* A camera's lock is held exactly while its opener runs.
LockIsOpener ==
    /\ \A c \in Clients : handler[c].pc = "open" => lock[Host(handler[c].key)] = c
    /\ \A h \in Hosts : lock[h] # None =>
          handler[lock[h]].pc = "open" /\ Host(handler[lock[h]].key) = h

\* A transport that is not closed is the stored one of its camera ...
LivePooled ==
    \A m \in Maps : Live(m) => mapHost[m] \in Hosts /\ pooled[mapHost[m]] = m

\* ... and while an opener runs the stored one is closed.
OpenUnpooled ==
    \A c \in Clients : handler[c].pc = "open" => ~Live(pooled[Host(handler[c].key)])

\* A stored or dialled mapping was opened for its camera.
MapsPlaced ==
    /\ \A h \in Hosts : pooled[h] # None =>
          mapHost[pooled[h]] = h /\ mapState[pooled[h]] # "unused"
    /\ \A c \in Clients : handler[c].pc = "dial" =>
          /\ handler[c].map \in Maps
          /\ mapHost[handler[c].map] = Host(handler[c].key)
          /\ mapState[handler[c].map] # "unused"

\* A mapping that refused a client was closed, and is not dialled again.
TriedClosed ==
    \A c \in Clients :
        /\ \A m \in handler[c].tried : mapState[m] = "closed"
        /\ handler[c].pc = "dial" => handler[c].map \notin handler[c].tried

\* A key has one listener while it is published or being stopped, and none
\* while one is started for it.
Listeners ==
    /\ closing = "open" =>
          stopping = {} /\ \A k \in Keys \ published : listening[k] = 0
    /\ published \cap stopping = {}
    /\ \A k \in published \cup stopping : listening[k] = 1
    /\ \A k \in Keys : listening[k] <= 1
    /\ \A r \in Callers : caller[r].pc = "start" =>
          /\ stableLock[Host(caller[r].key)] = r
          /\ listening[caller[r].key] = 0

IInv ==
    /\ TypeOK
    /\ KeysKnown
    /\ LockIsOpener
    /\ LivePooled
    /\ OpenUnpooled
    /\ MapsPlaced
    /\ TriedClosed
    /\ Listeners

-----------------------------------------------------------------------------
(* Lemmas *)

HandlerStates == [pc : Busy \cup {"idle", "gone"}, key : Keys \cup {NoKey}, attempt : {0, 1},
                  map : Maps \cup {None}, tried : SUBSET Maps]

\* A key names a camera of the pool, and no camera is named by NoKey alone.
LEMMA KeyHost ==
    ASSUME NEW k \in Keys
    PROVE  Host(k) \in Hosts
BY DEF Keys, Host

\* Closing a mapping closes it if it was live or failed, and no other.
LEMMA CloseMapStates ==
    ASSUME NEW m, TypeOK
    PROVE  /\ CloseMap(m, mapState) \in [Maps -> {"unused", "live", "failed", "closed"}]
           /\ \A n \in Maps : CloseMap(m, mapState)[n] =
                 IF n = m /\ Live(n) THEN "closed" ELSE mapState[n]
<1>1. CASE Live(m)
  BY <1>1 DEF CloseMap, TypeOK
<1>2. CASE ~Live(m)
  BY <1>2 DEF CloseMap, TypeOK
<1> QED
  BY <1>1, <1>2

\* The pool starts in the invariant: nothing is stored, opened or locked.
LEMMA InitInv == Init => IInv
<1> SUFFICES ASSUME Init PROVE IInv
  OBVIOUS
<1>1. TypeOK
  BY DEF Init, TypeOK, Busy
<1>2. KeysKnown /\ LockIsOpener /\ OpenUnpooled /\ MapsPlaced /\ TriedClosed
  BY DEF Init, KeysKnown, LockIsOpener, OpenUnpooled, MapsPlaced, TriedClosed
<1>3. LivePooled /\ Listeners
  BY DEF Init, LivePooled, Listeners, Live
<1> QED
  BY <1>1, <1>2, <1>3 DEF IInv

\* Callers of async_get_stable_mapping keep the invariant.
LEMMA AskStableInv ==
    ASSUME IInv, NEW r \in Callers, NEW k \in Keys, AskStable(r, k)
    PROVE  IInv'
<1> USE DEF AskStable, poolVars
<1>1. TypeOK'
  BY DEF IInv, TypeOK
<1>2. KeysKnown' /\ LockIsOpener'
  BY DEF IInv, TypeOK, KeysKnown, LockIsOpener
<1>3. LivePooled' /\ OpenUnpooled' /\ MapsPlaced' /\ TriedClosed'
  BY DEF IInv, LivePooled, OpenUnpooled, MapsPlaced, TriedClosed, Live
<1>4. Listeners'
  BY DEF IInv, TypeOK, Listeners
<1> QED
  BY <1>1, <1>2, <1>3, <1>4 DEF IInv

\* TakeStableLock keeps the invariant.
LEMMA TakeStableLockInv ==
    ASSUME IInv, NEW r \in Callers, TakeStableLock(r)
    PROVE  IInv'
<1> USE DEF TakeStableLock, poolVars
<1> DEFINE k == caller[r].key
<1>0. k \in Keys /\ Host(k) \in Hosts
  BY KeyHost DEF IInv, KeysKnown
<1>1. TypeOK'
  <2>1. CASE Closed \/ Stored(k)
    BY <2>1, <1>0 DEF IInv, TypeOK
  <2>2. CASE ~(Closed \/ Stored(k))
    <3>1. stableLock' = [stableLock EXCEPT ![Host(k)] = r]
          /\ caller' = [caller EXCEPT ![r].pc = "start"]
      BY <2>2
    <3>2. stableLock' \in [Hosts -> Callers \cup {None}]
      BY <3>1, <1>0 DEF IInv, TypeOK
    <3>3. caller' \in [Callers -> [pc : {"idle", "wait", "start", "returned", "raised"},
                                   key : Keys \cup {NoKey}]]
      BY <3>1 DEF IInv, TypeOK
    <3> QED
      BY <3>2, <3>3 DEF IInv, TypeOK
  <2> QED
    BY <2>1, <2>2
<1>2. KeysKnown' /\ LockIsOpener'
  BY DEF IInv, TypeOK, KeysKnown, LockIsOpener
<1>3. LivePooled' /\ OpenUnpooled' /\ MapsPlaced' /\ TriedClosed'
  BY DEF IInv, LivePooled, OpenUnpooled, MapsPlaced, TriedClosed, Live
<1>4. Listeners'
  BY <1>0, KeyHost, ConstantsAssumption DEF IInv, TypeOK, KeysKnown, Listeners, StableFree, Stored, Closed
<1> QED
  BY <1>1, <1>2, <1>3, <1>4 DEF IInv

\* StableStarted keeps the invariant.
LEMMA StableStartedInv ==
    ASSUME IInv, NEW r \in Callers, StableStarted(r)
    PROVE  IInv'
<1> USE DEF StableStarted, poolVars
<1> DEFINE k == caller[r].key
<1>0. k \in Keys /\ Host(k) \in Hosts
  BY KeyHost DEF IInv, KeysKnown
<1>1. TypeOK'
  BY <1>0 DEF IInv, TypeOK
<1>2. KeysKnown' /\ LockIsOpener'
  BY DEF IInv, TypeOK, KeysKnown, LockIsOpener
<1>3. LivePooled' /\ OpenUnpooled' /\ MapsPlaced' /\ TriedClosed'
  BY DEF IInv, LivePooled, OpenUnpooled, MapsPlaced, TriedClosed, Live
<1>4. Listeners'
  BY <1>0, KeyHost, ConstantsAssumption DEF IInv, TypeOK, KeysKnown, Listeners
<1> QED
  BY <1>1, <1>2, <1>3, <1>4 DEF IInv

\* StableFailed keeps the invariant.
LEMMA StableFailedInv ==
    ASSUME IInv, NEW r \in Callers, StableFailed(r)
    PROVE  IInv'
<1> USE DEF StableFailed, poolVars
<1>1. TypeOK'
  BY DEF IInv, TypeOK
<1>2. KeysKnown' /\ LockIsOpener'
  BY DEF IInv, TypeOK, KeysKnown, LockIsOpener
<1>3. LivePooled' /\ OpenUnpooled' /\ MapsPlaced' /\ TriedClosed'
  BY DEF IInv, LivePooled, OpenUnpooled, MapsPlaced, TriedClosed, Live
<1>4. Listeners'
  BY KeyHost, ConstantsAssumption DEF IInv, TypeOK, KeysKnown, Listeners
<1> QED
  BY <1>1, <1>2, <1>3, <1>4 DEF IInv

\* Clients of the stable ports keep the invariant.
LEMMA ConnectInv ==
    ASSUME IInv, NEW c \in Clients, NEW k \in Keys, Connect(c, k)
    PROVE  IInv'
<1> USE DEF Connect, poolVars, stableVars
<1>1. TypeOK'
  <2>1. handler \in [Clients -> HandlerStates]
    BY DEF IInv, TypeOK, HandlerStates
  <2>2. handler' \in [Clients -> HandlerStates]
    BY <2>1 DEF HandlerStates, Busy
  <2> QED
    BY <2>2 DEF IInv, TypeOK, HandlerStates
<1>2. KeysKnown'
  BY DEF IInv, TypeOK, KeysKnown
<1>3. LockIsOpener'
  BY ConstantsAssumption DEF IInv, TypeOK, KeysKnown, LockIsOpener
<1>4. LivePooled' /\ OpenUnpooled'
  BY KeyHost, ConstantsAssumption DEF IInv, TypeOK, KeysKnown, LockIsOpener, LivePooled,
     OpenUnpooled, Live
<1>5. MapsPlaced' /\ TriedClosed'
  BY KeyHost, ConstantsAssumption DEF IInv, TypeOK, KeysKnown, LivePooled, MapsPlaced,
     TriedClosed, Live
<1>6. Listeners'
  BY DEF IInv, TypeOK, Listeners
<1> QED
  BY <1>1, <1>2, <1>3, <1>4, <1>5, <1>6 DEF IInv

\* Preparations of command clients keep the invariant.
LEMMA PrepareInv ==
    ASSUME IInv, NEW c \in Clients, NEW k \in Keys, Prepare(c, k)
    PROVE  IInv'
<1> USE DEF Prepare, poolVars, stableVars
<1>1. TypeOK'
  <2>1. handler \in [Clients -> HandlerStates]
    BY DEF IInv, TypeOK, HandlerStates
  <2>2. handler' \in [Clients -> HandlerStates]
    BY <2>1 DEF HandlerStates, Busy
  <2> QED
    BY <2>2 DEF IInv, TypeOK, HandlerStates
<1>2. KeysKnown'
  BY DEF IInv, TypeOK, KeysKnown
<1>3. LockIsOpener'
  BY ConstantsAssumption DEF IInv, TypeOK, KeysKnown, LockIsOpener
<1>4. LivePooled' /\ OpenUnpooled'
  BY KeyHost, ConstantsAssumption DEF IInv, TypeOK, KeysKnown, LockIsOpener, LivePooled,
     OpenUnpooled, Live
<1>5. MapsPlaced' /\ TriedClosed'
  BY KeyHost, ConstantsAssumption DEF IInv, TypeOK, KeysKnown, LivePooled, MapsPlaced,
     TriedClosed, Live
<1>6. Listeners'
  BY DEF IInv, TypeOK, Listeners
<1> QED
  BY <1>1, <1>2, <1>3, <1>4, <1>5, <1>6 DEF IInv

\* EnterGet keeps the invariant.
LEMMA EnterGetInv ==
    ASSUME IInv, NEW c \in Clients, EnterGet(c)
    PROVE  IInv'
<1> USE DEF EnterGet, poolVars, stableVars
<1>1. TypeOK'
  <2>1. handler \in [Clients -> HandlerStates]
    BY DEF IInv, TypeOK, HandlerStates
  <2>2. handler' \in [Clients -> HandlerStates]
    BY <2>1 DEF HandlerStates, Busy
  <2> QED
    BY <2>2 DEF IInv, TypeOK, HandlerStates
<1>2. KeysKnown'
  BY DEF IInv, TypeOK, KeysKnown
<1>3. LockIsOpener'
  BY ConstantsAssumption DEF IInv, TypeOK, KeysKnown, LockIsOpener, Closed
<1>4. LivePooled' /\ OpenUnpooled'
  BY KeyHost, ConstantsAssumption DEF IInv, TypeOK, KeysKnown, LockIsOpener, LivePooled,
     OpenUnpooled, Live
<1>5. MapsPlaced' /\ TriedClosed'
  BY KeyHost, ConstantsAssumption DEF IInv, TypeOK, KeysKnown, LivePooled, MapsPlaced,
     TriedClosed, Live
<1>6. Listeners'
  BY DEF IInv, TypeOK, Listeners
<1> QED
  BY <1>1, <1>2, <1>3, <1>4, <1>5, <1>6 DEF IInv

\* TakeLock keeps the invariant.
LEMMA TakeLockInv ==
    ASSUME IInv, NEW c \in Clients, TakeLock(c)
    PROVE  IInv'
<1> USE DEF poolVars, stableVars
<1> DEFINE k == handler[c].key
           h == Host(k)
<1>0. k \in Keys /\ h \in Hosts
  BY KeyHost DEF IInv, KeysKnown, TakeLock
<1>a. handler \in [Clients -> HandlerStates]
  BY DEF IInv, TypeOK, HandlerStates
<1>b. UNCHANGED <<closing, pooled, mapHost, stableVars, stopping>>
  BY DEF TakeLock
<1>c. Listeners'
  BY <1>b DEF IInv, TypeOK, Listeners
<1>1. CASE Closed
  <2>1. handler' = [handler EXCEPT ![c].pc = "gone"] /\ UNCHANGED <<lock, mapState>>
    BY <1>1 DEF TakeLock
  <2>2. TypeOK'
    BY <2>1, <1>a, <1>b DEF IInv, TypeOK, HandlerStates
  <2>3. KeysKnown' /\ LockIsOpener'
    BY <2>1, <1>a, <1>b DEF IInv, TypeOK, KeysKnown, LockIsOpener, TakeLock
  <2>4. LivePooled' /\ OpenUnpooled'
    BY <2>1, <1>a, <1>b DEF IInv, LivePooled, OpenUnpooled, Live
  <2>5. MapsPlaced' /\ TriedClosed'
    BY <2>1, <1>a, <1>b DEF IInv, MapsPlaced, TriedClosed
  <2> QED
    BY <2>2, <2>3, <2>4, <2>5, <1>c DEF IInv
<1>2. CASE ~Closed /\ Healthy(pooled[h])
  <2>1. /\ handler' = [handler EXCEPT ![c] = [@ EXCEPT !.pc = Got(c), !.map = pooled[h]]]
        /\ UNCHANGED <<lock, mapState>>
        /\ Got(c) \in {"gone", "dial"}
    BY <1>2 DEF TakeLock, Got
  <2>2. pooled[h] \in Maps /\ mapState[pooled[h]] = "live" /\ mapHost[pooled[h]] = h
    BY <1>0, <1>2 DEF IInv, TypeOK, Healthy, MapsPlaced
  <2>3. handler' \in [Clients -> HandlerStates]
    BY <2>1, <2>2, <1>a DEF HandlerStates, Busy
  <2>4. TypeOK'
    BY <2>1, <2>3, <1>b DEF IInv, TypeOK, HandlerStates
  <2>5. KeysKnown' /\ LockIsOpener'
    BY <2>1, <1>a, <1>b DEF IInv, TypeOK, KeysKnown, LockIsOpener, TakeLock
  <2>6. LivePooled' /\ OpenUnpooled'
    BY <2>1, <1>a, <1>b DEF IInv, LivePooled, OpenUnpooled, Live
  <2>7. MapsPlaced' /\ TriedClosed'
    BY <2>1, <2>2, <1>a, <1>b DEF IInv, MapsPlaced, TriedClosed
  <2> QED
    BY <2>4, <2>5, <2>6, <2>7, <1>c DEF IInv
<1>3. CASE ~Closed /\ ~Healthy(pooled[h])
  <2>1. /\ handler' = [handler EXCEPT ![c].pc = "open"]
        /\ lock' = [lock EXCEPT ![h] = c]
        /\ mapState' = CloseMap(pooled[h], mapState)
        /\ lock[h] = None
    BY <1>3 DEF TakeLock, Free
  <2>2. \A n \in Maps : mapState'[n] = IF n = pooled[h] /\ Live(n) THEN "closed" ELSE mapState[n]
    BY <2>1, CloseMapStates DEF IInv
  <2>3. pooled[h] = None \/ mapState'[pooled[h]] \notin {"live", "failed"}
    BY <2>2, <1>0 DEF IInv, TypeOK, Live
  <2>4. TypeOK'
    <3>1. handler' \in [Clients -> HandlerStates]
      BY <2>1, <1>a DEF HandlerStates, Busy
    <3>2. mapState' \in [Maps -> {"unused", "live", "failed", "closed"}]
      BY <2>1, CloseMapStates DEF IInv
    <3>3. lock' \in [Hosts -> Clients \cup {None}]
      BY <2>1 DEF IInv, TypeOK
    <3> QED
      BY <3>1, <3>2, <3>3, <1>b DEF IInv, TypeOK, HandlerStates
  <2>5. KeysKnown'
    BY <2>1, <1>0, <1>a, <1>b DEF IInv, TypeOK, KeysKnown
  <2>6. LockIsOpener'
    BY <2>1, <1>0, <1>a, KeyHost, ConstantsAssumption DEF IInv, TypeOK, KeysKnown, LockIsOpener
  <2>7. LivePooled'
    BY <2>2, <1>b DEF IInv, LivePooled, Live
  <2>8. OpenUnpooled'
    BY <2>1, <2>2, <2>3, <1>0, <1>a, <1>b, KeyHost DEF IInv, TypeOK, KeysKnown, OpenUnpooled, Live
  <2>9. MapsPlaced'
    BY <2>1, <2>2, <1>a, <1>b DEF IInv, TypeOK, MapsPlaced, Live
  <2>10. TriedClosed'
    BY <2>1, <2>2, <1>a DEF IInv, TypeOK, TriedClosed, HandlerStates, Live
  <2> QED
    BY <2>4, <2>5, <2>6, <2>7, <2>8, <2>9, <2>10, <1>c DEF IInv
<1> QED
  BY <1>1, <1>2, <1>3

\* Opened keeps the invariant.
LEMMA OpenedInv ==
    ASSUME IInv, NEW c \in Clients, NEW m \in Maps, Opened(c, m)
    PROVE  IInv'
<1> USE DEF Opened, poolVars, stableVars
<1> DEFINE k == handler[c].key
<1>0. k \in Keys /\ Host(k) \in Hosts /\ Got(c) \in {"gone", "dial"}
  BY KeyHost DEF IInv, KeysKnown, Got
<1>1. TypeOK'
  <2>1. handler \in [Clients -> HandlerStates]
    BY DEF IInv, TypeOK, HandlerStates
  <2>2. handler' \in [Clients -> HandlerStates]
    BY <2>1, <1>0 DEF HandlerStates, Busy
  <2> QED
    BY <2>2, <1>0 DEF IInv, TypeOK, HandlerStates
<1>2. KeysKnown'
  BY DEF IInv, TypeOK, KeysKnown
<1>3. LockIsOpener'
  BY <1>0, ConstantsAssumption DEF IInv, TypeOK, KeysKnown, LockIsOpener
<1>4. LivePooled' /\ OpenUnpooled'
  <2>1. mapState' = [mapState EXCEPT ![m] = "live"] /\ mapHost' = [mapHost EXCEPT ![m] = Host(k)]
        /\ pooled' = [pooled EXCEPT ![Host(k)] = m]
    OBVIOUS
  <2>2. ASSUME NEW n \in Maps, Live(n)'
        PROVE  mapHost'[n] \in Hosts /\ pooled'[mapHost'[n]] = n
    <3>1. CASE n = m
      BY <2>1, <3>1, <1>0 DEF IInv, TypeOK
    <3>2. CASE n # m
      <4>1. Live(n) /\ mapHost'[n] = mapHost[n]
        BY <2>1, <2>2, <3>2 DEF IInv, TypeOK, Live
      <4>2. mapHost[n] \in Hosts /\ pooled[mapHost[n]] = n /\ mapHost[n] # Host(k)
        BY <4>1 DEF IInv, LivePooled, OpenUnpooled
      <4> QED
        BY <2>1, <4>1, <4>2, <1>0 DEF IInv, TypeOK
    <3> QED
      BY <3>1, <3>2
  <2>3. ASSUME NEW d \in Clients, handler'[d].pc = "open"
        PROVE  ~Live(pooled[Host(handler[d].key)])' 
    <3>1. d # c /\ handler'[d] = handler[d] /\ handler[d].key \in Keys
      BY <2>3, <1>0 DEF IInv, TypeOK, KeysKnown
    <3>2. Host(handler[d].key) # Host(k) /\ Host(handler[d].key) \in Hosts
      BY <2>3, <3>1, KeyHost DEF IInv, LockIsOpener
    <3>3. pooled'[Host(handler'[d].key)] = pooled[Host(handler[d].key)]
      BY <2>1, <3>1, <3>2, <1>0 DEF IInv, TypeOK
    <3>4. ~Live(pooled[Host(handler[d].key)]) /\ pooled[Host(handler[d].key)] # m
      <4>1. ~Live(pooled[Host(handler[d].key)])
        BY <2>3, <3>1 DEF IInv, OpenUnpooled
      <4>2. pooled[Host(handler[d].key)] # None =>
              mapState[pooled[Host(handler[d].key)]] # "unused"
        BY <3>2 DEF IInv, MapsPlaced
      <4>3. mapState[m] = "unused" /\ m # None
        BY ConstantsAssumption
      <4> QED
        BY <4>1, <4>2, <4>3
    <3> QED
      BY <2>1, <3>3, <3>4, <3>2 DEF IInv, TypeOK, Live
  <2> QED
    BY <2>2, <2>3 DEF LivePooled, OpenUnpooled
<1>5. MapsPlaced' /\ TriedClosed'
  BY <1>0, KeyHost, ConstantsAssumption DEF IInv, TypeOK, KeysKnown, LivePooled, MapsPlaced,
     TriedClosed, Live
<1>6. Listeners'
  BY DEF IInv, TypeOK, Listeners
<1> QED
  BY <1>1, <1>2, <1>3, <1>4, <1>5, <1>6 DEF IInv

\* OpenFailed keeps the invariant.
LEMMA OpenFailedInv ==
    ASSUME IInv, NEW c \in Clients, OpenFailed(c)
    PROVE  IInv'
<1> USE DEF OpenFailed, poolVars, stableVars
<1> DEFINE k == handler[c].key
<1>0. k \in Keys /\ Host(k) \in Hosts
  BY KeyHost DEF IInv, KeysKnown
<1>1. TypeOK'
  <2>1. handler \in [Clients -> HandlerStates]
    BY DEF IInv, TypeOK, HandlerStates
  <2>2. handler' \in [Clients -> HandlerStates]
    BY <2>1, <1>0 DEF HandlerStates, Busy
  <2> QED
    BY <2>2, <1>0 DEF IInv, TypeOK, HandlerStates
<1>2. KeysKnown'
  BY DEF IInv, TypeOK, KeysKnown
<1>3. LockIsOpener'
  BY <1>0, ConstantsAssumption DEF IInv, TypeOK, KeysKnown, LockIsOpener
<1>4. LivePooled' /\ OpenUnpooled'
  BY <1>0, KeyHost, ConstantsAssumption DEF IInv, TypeOK, KeysKnown, LockIsOpener, LivePooled,
     OpenUnpooled, Live
<1>5. MapsPlaced' /\ TriedClosed'
  BY <1>0, KeyHost, ConstantsAssumption DEF IInv, TypeOK, KeysKnown, LivePooled, MapsPlaced,
     TriedClosed, Live
<1>6. Listeners'
  BY DEF IInv, TypeOK, Listeners
<1> QED
  BY <1>1, <1>2, <1>3, <1>4, <1>5, <1>6 DEF IInv

\* A cancelled preparation keeps the invariant: its lock goes with it.
LEMMA PrepareTimeoutInv ==
    ASSUME IInv, NEW c \in Clients, PrepareTimeout(c)
    PROVE  IInv'
<1> USE DEF PrepareTimeout, stableVars
<1>1. /\ handler \in [Clients -> HandlerStates]
      /\ handler' = [handler EXCEPT ![c].pc = "gone"] /\ handler[c].pc # "idle"
      /\ \A h \in Hosts : lock'[h] = IF lock[h] = c THEN None ELSE lock[h]
  BY DEF IInv, TypeOK, HandlerStates
<1>2. TypeOK'
  <2>1. handler' \in [Clients -> HandlerStates]
    BY <1>1 DEF HandlerStates
  <2>2. lock' \in [Hosts -> Clients \cup {None}]
    BY DEF IInv, TypeOK
  <2> QED
    BY <2>1, <2>2 DEF IInv, TypeOK, HandlerStates
<1>3. KeysKnown'
  BY <1>1 DEF IInv, KeysKnown, HandlerStates
<1>4. LockIsOpener'
  BY <1>1, KeyHost, ConstantsAssumption DEF IInv, TypeOK, KeysKnown, LockIsOpener, HandlerStates
<1>5. LivePooled' /\ OpenUnpooled'
  BY <1>1 DEF IInv, LivePooled, OpenUnpooled, Live, HandlerStates
<1>6. MapsPlaced' /\ TriedClosed'
  BY <1>1 DEF IInv, MapsPlaced, TriedClosed, HandlerStates
<1>7. Listeners'
  BY DEF IInv, TypeOK, Listeners
<1> QED
  BY <1>2, <1>3, <1>4, <1>5, <1>6, <1>7 DEF IInv

\* Dialled keeps the invariant.
LEMMA DialledInv ==
    ASSUME IInv, NEW c \in Clients, Dialled(c)
    PROVE  IInv'
<1> USE DEF Dialled, poolVars, stableVars
<1>1. TypeOK'
  <2>1. handler \in [Clients -> HandlerStates]
    BY DEF IInv, TypeOK, HandlerStates
  <2>2. handler' \in [Clients -> HandlerStates]
    BY <2>1 DEF HandlerStates, Busy
  <2> QED
    BY <2>2 DEF IInv, TypeOK, HandlerStates
<1>2. KeysKnown'
  BY DEF IInv, TypeOK, KeysKnown
<1>3. LockIsOpener'
  BY ConstantsAssumption DEF IInv, TypeOK, KeysKnown, LockIsOpener
<1>4. LivePooled' /\ OpenUnpooled'
  BY KeyHost, ConstantsAssumption DEF IInv, TypeOK, KeysKnown, LockIsOpener, LivePooled,
     OpenUnpooled, Live
<1>5. MapsPlaced' /\ TriedClosed'
  BY KeyHost, ConstantsAssumption DEF IInv, TypeOK, KeysKnown, LivePooled, MapsPlaced,
     TriedClosed, Live
<1>6. Listeners'
  BY DEF IInv, TypeOK, Listeners
<1> QED
  BY <1>1, <1>2, <1>3, <1>4, <1>5, <1>6 DEF IInv

\* DialFailed keeps the invariant.
LEMMA DialFailedInv ==
    ASSUME IInv, NEW c \in Clients, DialFailed(c)
    PROVE  IInv'
<1> USE DEF poolVars, stableVars
<1> DEFINE m == handler[c].map
<1>1. /\ handler \in [Clients -> HandlerStates]
      /\ m \in Maps /\ mapState[m] # "unused" /\ handler[c].pc = "dial"
  BY DEF IInv, TypeOK, HandlerStates, MapsPlaced, DialFailed
<1>2. UNCHANGED <<closing, pooled, mapHost, lock, stableVars, stopping>>
  BY DEF DialFailed
<1>3. /\ mapState' \in [Maps -> {"unused", "live", "failed", "closed"}]
      /\ \A n \in Maps : mapState'[n] = IF n = m /\ Live(n) THEN "closed" ELSE mapState[n]
  BY CloseMapStates DEF IInv, DialFailed
<1>4. mapState'[m] = "closed"
  BY <1>1, <1>3, ConstantsAssumption DEF IInv, TypeOK, Live
<1>5. \A n \in Maps : Live(n)' => Live(n) /\ n # m
  BY <1>3, <1>4 DEF Live
<1>6. handler' = [handler EXCEPT ![c] = [@ EXCEPT !.pc = "redial",
                     !.tried = handler[c].tried \cup {m}]]
  BY DEF DialFailed
<1>7. handler' \in [Clients -> HandlerStates]
  BY <1>1, <1>6 DEF HandlerStates, Busy
<1>8. TypeOK' /\ KeysKnown' /\ LockIsOpener'
  BY <1>1, <1>2, <1>3, <1>6, <1>7 DEF IInv, TypeOK, KeysKnown, LockIsOpener, HandlerStates
<1>9. LivePooled' /\ OpenUnpooled'
  BY <1>1, <1>2, <1>5, <1>6, KeyHost
  DEF IInv, TypeOK, KeysKnown, LivePooled, OpenUnpooled, Live, HandlerStates
<1>10. MapsPlaced'
  BY <1>1, <1>2, <1>3, <1>6 DEF IInv, TypeOK, MapsPlaced
<1>11. TriedClosed'
  <2>1. handler'[c].tried = handler[c].tried \cup {m} /\ handler'[c].pc = "redial"
    BY <1>1, <1>6 DEF HandlerStates
  <2>2. \A d \in Clients : handler[d].tried \subseteq Maps
    BY <1>1 DEF HandlerStates
  <2>3. \A d \in Clients \ {c} : handler'[d] = handler[d]
    BY <1>1, <1>6
  <2> QED
    BY <2>1, <2>2, <2>3, <1>3, <1>4 DEF IInv, TriedClosed
<1> QED
  BY <1>2, <1>8, <1>9, <1>10, <1>11 DEF IInv, Listeners

\* Redial keeps the invariant: a handler has no third attempt.
LEMMA RedialInv ==
    ASSUME IInv, NEW c \in Clients, Redial(c)
    PROVE  IInv'
<1> USE DEF Redial, poolVars, stableVars
<1>1. handler \in [Clients -> HandlerStates] /\ handler[c].pc = "redial"
  BY DEF IInv, TypeOK, HandlerStates
<1>2. PICK s \in HandlerStates :
          /\ handler' = [handler EXCEPT ![c] = s]
          /\ s.pc \in {"enter", "gone"} /\ s.key = handler[c].key /\ s.tried = handler[c].tried
  <2>1. CASE handler[c].attempt + 1 = Attempts
    <3>1. [handler[c] EXCEPT !.pc = "gone"] \in HandlerStates
      BY <1>1 DEF HandlerStates
    <3> QED
      BY <1>1, <2>1, <3>1 DEF HandlerStates
  <2>2. CASE handler[c].attempt + 1 # Attempts
    <3>1. handler[c].attempt + 1 \in {0, 1}
      BY <1>1, <2>2 DEF HandlerStates, Attempts
    <3>2. [handler[c] EXCEPT !.pc = "enter", !.map = None, !.attempt = handler[c].attempt + 1]
             \in HandlerStates
      BY <1>1, <3>1 DEF HandlerStates, Busy
    <3> QED
      BY <1>1, <2>2, <3>2 DEF HandlerStates
  <2> QED
    BY <2>1, <2>2
<1>3. \A d \in Clients : handler'[d] = IF d = c THEN s ELSE handler[d]
  BY <1>1, <1>2
<1>4. TypeOK'
  <2>1. handler' \in [Clients -> HandlerStates]
    BY <1>1, <1>2
  <2> QED
    BY <2>1 DEF IInv, TypeOK, HandlerStates
<1>5. KeysKnown'
  BY <1>1, <1>2, <1>3 DEF IInv, KeysKnown
<1>6. LockIsOpener'
  BY <1>1, <1>2, <1>3 DEF IInv, TypeOK, LockIsOpener
<1>7. LivePooled' /\ OpenUnpooled'
  BY <1>2, <1>3 DEF IInv, LivePooled, OpenUnpooled, Live
<1>8. MapsPlaced' /\ TriedClosed'
  BY <1>2, <1>3 DEF IInv, MapsPlaced, TriedClosed
<1>9. Listeners'
  BY DEF IInv, TypeOK, Listeners
<1> QED
  BY <1>4, <1>5, <1>6, <1>7, <1>8, <1>9 DEF IInv

\* RelayEnds keeps the invariant.
LEMMA RelayEndsInv ==
    ASSUME IInv, NEW c \in Clients, RelayEnds(c)
    PROVE  IInv'
<1> USE DEF RelayEnds, poolVars, stableVars
<1>1. TypeOK'
  <2>1. handler \in [Clients -> HandlerStates]
    BY DEF IInv, TypeOK, HandlerStates
  <2>2. handler' \in [Clients -> HandlerStates]
    BY <2>1 DEF HandlerStates
  <2> QED
    BY <2>2 DEF IInv, TypeOK, HandlerStates
<1>2. KeysKnown'
  BY DEF IInv, TypeOK, KeysKnown
<1>3. LockIsOpener'
  BY ConstantsAssumption DEF IInv, TypeOK, KeysKnown, LockIsOpener
<1>4. LivePooled' /\ OpenUnpooled'
  BY KeyHost, ConstantsAssumption DEF IInv, TypeOK, KeysKnown, LockIsOpener, LivePooled,
     OpenUnpooled, Live
<1>5. MapsPlaced' /\ TriedClosed'
  BY KeyHost, ConstantsAssumption DEF IInv, TypeOK, KeysKnown, LivePooled, MapsPlaced,
     TriedClosed, Live
<1>6. Listeners'
  BY DEF IInv, TypeOK, Listeners
<1> QED
  BY <1>1, <1>2, <1>3, <1>4, <1>5, <1>6 DEF IInv

\* MapFails keeps the invariant.
LEMMA MapFailsInv ==
    ASSUME IInv, NEW m \in Maps, MapFails(m)
    PROVE  IInv'
<1> USE DEF MapFails, poolVars, stableVars
<1>1. TypeOK'
  BY DEF IInv, TypeOK, Busy
<1>2. KeysKnown'
  BY DEF IInv, TypeOK, KeysKnown
<1>3. LockIsOpener'
  BY ConstantsAssumption DEF IInv, TypeOK, KeysKnown, LockIsOpener
<1>4. LivePooled' /\ OpenUnpooled'
  BY KeyHost, ConstantsAssumption DEF IInv, TypeOK, KeysKnown, LockIsOpener, LivePooled,
     OpenUnpooled, Live
<1>5. MapsPlaced' /\ TriedClosed'
  BY KeyHost, ConstantsAssumption DEF IInv, TypeOK, KeysKnown, LivePooled, MapsPlaced,
     TriedClosed, Live
<1>6. Listeners'
  BY DEF IInv, TypeOK, Listeners
<1> QED
  BY <1>1, <1>2, <1>3, <1>4, <1>5, <1>6 DEF IInv

\* MapCloses keeps the invariant.
LEMMA MapClosesInv ==
    ASSUME IInv, NEW m \in Maps, MapCloses(m)
    PROVE  IInv'
<1> USE DEF MapCloses, poolVars, stableVars
<1>1. TypeOK'
  BY DEF IInv, TypeOK, Busy
<1>2. KeysKnown'
  BY DEF IInv, TypeOK, KeysKnown
<1>3. LockIsOpener'
  BY ConstantsAssumption DEF IInv, TypeOK, KeysKnown, LockIsOpener
<1>4. LivePooled' /\ OpenUnpooled'
  BY KeyHost, ConstantsAssumption DEF IInv, TypeOK, KeysKnown, LockIsOpener, LivePooled,
     OpenUnpooled, Live
<1>5. MapsPlaced' /\ TriedClosed'
  BY KeyHost, ConstantsAssumption DEF IInv, TypeOK, KeysKnown, LivePooled, MapsPlaced,
     TriedClosed, Live
<1>6. Listeners'
  BY DEF IInv, TypeOK, Listeners
<1> QED
  BY <1>1, <1>2, <1>3, <1>4, <1>5, <1>6 DEF IInv

\* PoolClose keeps the invariant.
LEMMA PoolCloseInv ==
    ASSUME IInv, PoolClose
    PROVE  IInv'
<1> USE DEF PoolClose, poolVars, stableVars
<1>1. TypeOK'
  BY DEF IInv, TypeOK, Busy, Live
<1>2. KeysKnown'
  BY DEF IInv, TypeOK, KeysKnown
<1>3. LockIsOpener'
  BY ConstantsAssumption DEF IInv, TypeOK, KeysKnown, LockIsOpener
<1>4. LivePooled' /\ OpenUnpooled'
  BY KeyHost, ConstantsAssumption DEF IInv, TypeOK, KeysKnown, LockIsOpener, LivePooled,
     OpenUnpooled, Live
<1>5. MapsPlaced' /\ TriedClosed'
  BY KeyHost, ConstantsAssumption DEF IInv, TypeOK, KeysKnown, LivePooled, MapsPlaced,
     TriedClosed, Live
<1>6. Listeners'
  BY DEF IInv, TypeOK, Listeners
<1> QED
  BY <1>1, <1>2, <1>3, <1>4, <1>5, <1>6 DEF IInv

\* StableStops keeps the invariant.
LEMMA StableStopsInv ==
    ASSUME IInv, NEW k \in Keys, StableStops(k)
    PROVE  IInv'
<1> USE DEF poolVars, stableVars
<1>1. /\ handler \in [Clients -> HandlerStates]
      /\ \A c \in Clients : handler'[c] = IF c \in Bridged(k)
             THEN [handler[c] EXCEPT !.pc = "gone"] ELSE handler[c]
      /\ \A h \in Hosts : lock'[h] = IF lock[h] \in Bridged(k) THEN None ELSE lock[h]
      /\ UNCHANGED <<closing, pooled, mapState, mapHost, stableLock, caller, published>>
  BY DEF IInv, TypeOK, HandlerStates, StableStops
<1>2. \A c \in Clients : \/ handler'[c] = handler[c] /\ c \notin Bridged(k)
                         \/ /\ handler'[c].pc = "gone" /\ handler'[c].key = handler[c].key
                            /\ handler'[c].tried = handler[c].tried /\ handler[c].pc # "idle"
  BY <1>1 DEF HandlerStates, Bridged, Busy
<1>3. TypeOK'
  <2>1. handler' \in [Clients -> HandlerStates]
    <3>1. \A c \in Clients : handler'[c] \in HandlerStates
      BY <1>1 DEF HandlerStates
    <3> QED
      BY <3>1 DEF StableStops
  <2>2. lock' \in [Hosts -> Clients \cup {None}]
    BY <1>1 DEF IInv, TypeOK, StableStops
  <2>3. listening' \in [Keys -> Nat] /\ stopping' \subseteq Keys
    BY DEF IInv, TypeOK, Listeners, StableStops
  <2> QED
    BY <2>1, <2>2, <2>3, <1>1 DEF IInv, TypeOK, HandlerStates
<1>4. KeysKnown'
  BY <1>1, <1>2 DEF IInv, KeysKnown
<1>5. LockIsOpener'
  <2>1. ASSUME NEW c \in Clients, handler'[c].pc = "open"
        PROVE  lock'[Host(handler'[c].key)] = c
    <3>1. handler'[c] = handler[c] /\ c \notin Bridged(k)
      BY <2>1, <1>2
    <3>2. Host(handler[c].key) \in Hosts /\ lock[Host(handler[c].key)] = c
      BY <2>1, <3>1, KeyHost DEF IInv, KeysKnown, LockIsOpener
    <3> QED
      BY <1>1, <3>1, <3>2
  <2>2. ASSUME NEW h \in Hosts, lock'[h] # None
        PROVE  handler'[lock'[h]].pc = "open" /\ Host(handler'[lock'[h]].key) = h
    <3>1. lock'[h] = lock[h] /\ lock[h] \notin Bridged(k) /\ lock[h] \in Clients
      BY <2>2, <1>1 DEF IInv, TypeOK
    <3>2. handler'[lock[h]] = handler[lock[h]]
      BY <3>1, <1>1
    <3> QED
      BY <2>2, <3>1, <3>2 DEF IInv, LockIsOpener
  <2> QED
    BY <2>1, <2>2 DEF LockIsOpener
<1>6. LivePooled' /\ OpenUnpooled'
  BY <1>1, <1>2 DEF IInv, LivePooled, OpenUnpooled, Live
<1>7. MapsPlaced' /\ TriedClosed'
  BY <1>1, <1>2 DEF IInv, MapsPlaced, TriedClosed
<1>8. Listeners'
  BY <1>1 DEF IInv, TypeOK, Listeners, StableStops
<1> QED
  BY <1>3, <1>4, <1>5, <1>6, <1>7, <1>8 DEF IInv

\* PoolClosed keeps the invariant.
LEMMA PoolClosedInv ==
    ASSUME IInv, PoolClosed
    PROVE  IInv'
<1> USE DEF PoolClosed, poolVars, stableVars
<1>1. TypeOK'
  BY DEF IInv, TypeOK, Busy
<1>2. KeysKnown'
  BY DEF IInv, TypeOK, KeysKnown
<1>3. LockIsOpener'
  BY ConstantsAssumption DEF IInv, TypeOK, KeysKnown, LockIsOpener
<1>4. LivePooled' /\ OpenUnpooled'
  BY KeyHost, ConstantsAssumption DEF IInv, TypeOK, KeysKnown, LockIsOpener, LivePooled,
     OpenUnpooled, Live
<1>5. MapsPlaced' /\ TriedClosed'
  BY KeyHost, ConstantsAssumption DEF IInv, TypeOK, KeysKnown, LivePooled, MapsPlaced,
     TriedClosed, Live
<1>6. Listeners'
  BY DEF IInv, TypeOK, Listeners
<1> QED
  BY <1>1, <1>2, <1>3, <1>4, <1>5, <1>6 DEF IInv

\* A step that changes nothing the invariant reads.
LEMMA StutterInv ==
    ASSUME IInv, UNCHANGED vars
    PROVE  IInv'
<1> USE DEF vars
<1>1. TypeOK' /\ KeysKnown' /\ LockIsOpener' /\ Listeners'
  BY DEF IInv, TypeOK, KeysKnown, LockIsOpener, Listeners
<1>2. LivePooled' /\ OpenUnpooled' /\ MapsPlaced' /\ TriedClosed'
  BY DEF IInv, LivePooled, OpenUnpooled, MapsPlaced, TriedClosed, Live
<1> QED
  BY <1>1, <1>2 DEF IInv

\* One action after the other: the pool keeps its invariant.
LEMMA NextInv == IInv /\ [Next]_vars => IInv'
<1> SUFFICES ASSUME IInv, [Next]_vars PROVE IInv'
  OBVIOUS
<1>1. CASE UNCHANGED vars
  BY <1>1, StutterInv
<1>2. ASSUME NEW r \in Callers, (\E k \in Keys : AskStable(r, k)) \/ StableStep(r)
      PROVE  IInv'
  BY <1>2, AskStableInv, TakeStableLockInv, StableStartedInv, StableFailedInv DEF StableStep
<1>3. ASSUME NEW c \in Clients,
             \/ \E k \in Keys : Connect(c, k) \/ Prepare(c, k)
             \/ HandlerStep(c) \/ Opening(c) \/ PrepareTimeout(c) \/ Redial(c) \/ RelayEnds(c)
      PROVE  IInv'
  BY <1>3, ConnectInv, PrepareInv, EnterGetInv, TakeLockInv, OpenedInv, OpenFailedInv,
     PrepareTimeoutInv, DialledInv, DialFailedInv, RedialInv, RelayEndsInv
     DEF HandlerStep, Opening
<1>4. ASSUME NEW m \in Maps, MapFails(m) \/ MapCloses(m)
      PROVE  IInv'
  BY <1>4, MapFailsInv, MapClosesInv
<1>5. CASE PoolClose \/ PoolClosed \/ \E k \in Keys : StableStops(k)
  BY <1>5, PoolCloseInv, PoolClosedInv, StableStopsInv
<1> QED
  BY <1>1, <1>2, <1>3, <1>4, <1>5 DEF Next

\* The invariant the theorems below follow from: it holds initially and every step
\* of the callers, the clients, the mappings and the close keeps it.
THEOREM Invariance == Spec => []IInv
BY InitInv, NextInv, PTL DEF Spec

-----------------------------------------------------------------------------
(* Theorems *)

\* Every variable of the pool keeps its type: no handler makes a third attempt
\* (pool.py:254), no stable port is stopped that was not started.
THEOREM TypeCorrect == Spec => []TypeOK
<1>1. IInv => TypeOK
  BY DEF IInv
<1> QED
  BY <1>1, Invariance, PTL

\* A camera has at most one live transport, whatever the number of clients and
\* mappings: the stored one (pool.py:180-218).
THEOREM OneTransportTheorem == Spec => []OneTransport
<1>1. IInv => OneTransport
  BY DEF IInv, LivePooled, OneTransport
<1> QED
  BY <1>1, Invariance, PTL

\* A replacement runs alone for its camera, with the old transport closed first:
\* the lock of pool.py:180 is held until its opener is over.
THEOREM OpenAloneTheorem == Spec => []OpenAlone
<1>1. ASSUME IInv PROVE OpenAlone
  <2> USE <1>1 DEF IInv
  <2>1. ASSUME NEW c \in Clients, handler[c].pc = "open", NEW m \in Maps, Live(m)
        PROVE  mapHost[m] # Host(handler[c].key)
    BY <2>1 DEF LivePooled, OpenUnpooled
  <2>2. ASSUME NEW c \in Clients, handler[c].pc = "open",
               NEW d \in Clients, handler[d].pc = "open", d # c
        PROVE  Host(handler[d].key) # Host(handler[c].key)
    BY <2>2 DEF LockIsOpener
  <2> QED
    BY <2>1, <2>2 DEF OpenAlone
<1> QED
  BY <1>1, Invariance, PTL

\* The retry of pool.py:254-264 gets another mapping, of the same camera.
THEOREM RetryIsFreshTheorem == Spec => []RetryIsFresh
<1>1. IInv => RetryIsFresh
  BY DEF IInv, MapsPlaced, TriedClosed, RetryIsFresh
<1> QED
  BY <1>1, Invariance, PTL

\* A key never has two listeners, however its callers interleave with the close
\* (pool.py:234-246).
THEOREM OneListenerTheorem == Spec => []OneListener
<1>1. IInv => OneListener
  BY DEF IInv, Listeners, OneListener
<1> QED
  BY <1>1, Invariance, PTL

\* Only TakeLock makes a handler replace a mapping, and it looks at _closed after
\* it has the lock (pool.py:181): requests queued before the close are rejected.
THEOREM NoOpenAfterCloseTheorem == Spec => NoOpenAfterClose
<1> DEFINE Step == \A c \in Clients :
                     handler'[c].pc = "open" /\ handler[c].pc # "open" => closing = "open"
<1>1. IInv /\ [Next]_vars => Step
  <2> SUFFICES ASSUME IInv, [Next]_vars, NEW c \in Clients,
                      handler'[c].pc = "open", handler[c].pc # "open"
               PROVE  closing = "open"
    OBVIOUS
  <2>1. handler \in [Clients -> HandlerStates]
    BY DEF IInv, TypeOK, HandlerStates
  <2>2. ASSUME NEW d \in Clients,
               \/ \E k \in Keys : Connect(d, k) \/ Prepare(d, k)
               \/ HandlerStep(d) \/ Opening(d) \/ PrepareTimeout(d) \/ Redial(d) \/ RelayEnds(d)
        PROVE  closing = "open"
    <3>1. CASE TakeLock(d)
      BY <3>1, <2>1 DEF TakeLock, Closed, Got, HandlerStates
    <3>2. CASE (\E k \in Keys : Connect(d, k) \/ Prepare(d, k)) \/ EnterGet(d) \/ Dialled(d)
      BY <3>2, <2>1 DEF Connect, Prepare, EnterGet, Dialled, HandlerStates
    <3>3. CASE Opening(d) \/ DialFailed(d) \/ RelayEnds(d)
      BY <3>3, <2>1 DEF Opening, Opened, OpenFailed, Got, DialFailed, RelayEnds, HandlerStates
    <3>4. CASE PrepareTimeout(d) \/ Redial(d)
      BY <3>4, <2>1 DEF PrepareTimeout, Redial, HandlerStates
    <3> QED
      BY <2>2, <3>1, <3>2, <3>3, <3>4 DEF HandlerStep
  <2>3. ASSUME NEW k \in Keys, StableStops(k)
        PROVE  FALSE
    BY <2>1, <2>3 DEF StableStops, HandlerStates
  <2>4. CASE UNCHANGED handler
    BY <2>4
  <2> QED
    BY <2>2, <2>3, <2>4 DEF Next, vars, StableStep, AskStable, TakeStableLock, StableStarted,
       StableFailed, MapFails, MapCloses, PoolClose, PoolClosed
<1> QED
  BY <1>1, Invariance, PTL DEF Spec, NoOpenAfterClose

\* While the pool is open a published endpoint keeps its one listener: nothing
\* but async_close removes an entry of _stable_ports (pool.py:267-280).
THEOREM EndpointStableTheorem == Spec => EndpointStable
<1> DEFINE Step == \A k \in published :
                     closing' = "open" => k \in published' /\ listening'[k] = listening[k]
<1>1. IInv /\ [Next]_vars => Step
  <2> SUFFICES ASSUME IInv, [Next]_vars, closing' = "open", NEW k \in published
               PROVE  k \in published' /\ listening'[k] = listening[k]
    OBVIOUS
  <2>1. listening \in [Keys -> Nat] /\ k \in Keys /\ listening[k] = 1
    BY DEF IInv, TypeOK, Listeners
  <2>2. ASSUME NEW r \in Callers, StableStarted(r)
        PROVE  k \in published' /\ listening'[k] = listening[k]
    BY <2>1, <2>2 DEF IInv, Listeners, StableStarted
  <2>3. ASSUME NEW q \in Keys, StableStops(q)
        PROVE  FALSE
    BY <2>3 DEF IInv, Listeners, StableStops
  <2>4. CASE UNCHANGED <<published, listening>>
    BY <2>4
  <2> QED
    BY <2>2, <2>3, <2>4 DEF Next, vars, stableVars, StableStep, AskStable, TakeStableLock,
       StableFailed, HandlerStep, Opening, Connect, Prepare, EnterGet, TakeLock, Opened,
       OpenFailed, PrepareTimeout, Dialled, DialFailed, Redial, RelayEnds, MapFails, MapCloses, PoolClose, PoolClosed
<1> QED
  BY <1>1, Invariance, PTL DEF Spec, EndpointStable
=============================================================================
