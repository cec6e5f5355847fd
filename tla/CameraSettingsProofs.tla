---------------------- MODULE CameraSettingsProofs ----------------------
(***************************************************************************)
(* Proofs about CameraSettings, for any number of service calls.  What     *)
(* keeps the remembered and the published values from going back is that   *)
(* the lock covers a request from its first byte to the assignment of its  *)
(* result (LockInv): no answer can be under way beside another one.        *)
(***************************************************************************)
EXTENDS CameraSettings, TLAPS

\* The lock is held by exactly the actor with a request under way, and the
\* update has a request only while it is at a getter.
LockInv ==
    /\ \A s \in Setters : setter[s] \in {"sent", "executed"} <=> holder = s
    /\ request \in {"sent", "answered"} <=> holder = Poll
    /\ request \in {"sent", "answered"} => stage \in Requests
    /\ stage \in {"idle", "gather"} => request = "none"

\* An answer under way is as new as every confirmed setting.
ConfirmedInv ==
    /\ \A s, t \in Setters :
          setter[s] = "executed" /\ setter[t] = "done" => written[t] <= written[s]
    /\ request = "answered" => \A t \in Setters : setter[t] = "done" => written[t] <= reply
    /\ ConfirmedRemembered

\* Once the setting was read, whatever may become part of the snapshot is as
\* new as the poll.
FreshInv ==
    /\ request = "answered" => since <= reply
    /\ stage = "after" /\ kind = "local" =>
          /\ cache # Unknown => since <= cache
          /\ \A s \in Setters : setter[s] = "executed" => since <= written[s]
    /\ stage = "after" /\ kind = "orbweb" => view = Unknown \/ since <= view
    /\ stage = "gather" /\ ok => view = Unknown \/ since <= view
    /\ FreshWhenAvailable

\* An answer under way is as new as what was shown, is to be shown, or is
\* remembered; what is remembered is as new as what was shown.
ForwardInv ==
    /\ kind = "orbweb" => cache = Unknown
    /\ \A s \in Setters : setter[s] = "executed" =>
          shown <= written[s] /\ view <= written[s] /\ cache <= written[s]
    /\ request = "answered" => shown <= reply /\ view <= reply /\ cache <= reply
    /\ cache # Unknown => shown <= cache /\ view <= cache
    /\ stage = "gather" => view = Unknown \/ shown <= view
    /\ stage = "after" /\ kind = "orbweb" => view = Unknown \/ shown <= view

IInv == TypeOK /\ LockInv /\ ConfirmedInv /\ FreshInv /\ ForwardInv

-----------------------------------------------------------------------------
\* The invariant holds at the start.
LEMMA InitInv == Init => IInv
  <1> SUFFICES ASSUME Init PROVE IInv
    OBVIOUS
  <1> USE DEF Init, Unknown, Versions, Requests
  <1>1. TypeOK
    <2>1. /\ setter \in [Setters -> {"idle", "waiting", "sent", "executed", "done", "failed"}]
          /\ \A s \in Setters : setter[s] = "idle"
      OBVIOUS
    <2>2. written \in [Setters -> Versions]
      OBVIOUS
    <2>3. \A s \in Setters : setter[s] \in {"executed", "done"} => written[s] > 0
      BY <2>1
    <2>4. /\ kind \in {"local", "orbweb"} /\ camera \in Nat
          /\ holder \in Setters \cup {Poll, NoOne} /\ overdue \subseteq Setters
          /\ stage \in Requests \cup {"idle", "prepare", "gather"}
          /\ request \in {"none", "waiting", "sent", "answered"}
      OBVIOUS
    <2>5. /\ reply \in Versions /\ since \in Versions /\ asOf \in Versions
          /\ view \in Versions \cup {Unknown} /\ cache \in Versions \cup {Unknown}
          /\ shown \in Versions \cup {Unknown}
      OBVIOUS
    <2>6. loaded \in BOOLEAN /\ ok \in BOOLEAN /\ available \in BOOLEAN
      BY Zenon
    <2> HIDE DEF Init
    <2> QED
      BY <2>1, <2>2, <2>3, <2>4, <2>5, <2>6 DEF TypeOK
  <1>2. LockInv
    BY ActorsAssumption DEF LockInv
  <1>3. ConfirmedInv
    BY DEF ConfirmedInv, ConfirmedRemembered
  <1>4. FreshInv
    BY DEF FreshInv, FreshWhenAvailable
  <1>5. ForwardInv
    BY DEF ForwardInv
  <1> QED
    BY <1>1, <1>2, <1>3, <1>4, <1>5 DEF IInv

\* The steps of one service call preserve the invariant.
LEMMA SettingInv ==
  ASSUME IInv, NEW s \in Setters, Setting(s)
  PROVE  IInv'
  <1> USE ActorsAssumption DEF IInv, Unknown, Versions, Requests, calls, poll, published,
          LockFree, Released
  <1>1. CASE Call(s) \/ CallRejected(s)
    <2>1. TypeOK'
      BY <1>1 DEF TypeOK, Call, CallRejected
    <2>2. LockInv'
      BY <1>1 DEF TypeOK, LockInv, Call, CallRejected
    <2>3. ConfirmedInv'
      BY <1>1 DEF TypeOK, ConfirmedInv, ConfirmedRemembered, Call, CallRejected
    <2>4. FreshInv' /\ ForwardInv'
      BY <1>1 DEF TypeOK, FreshInv, FreshWhenAvailable, ForwardInv, Call, CallRejected
    <2> QED
      BY <2>1, <2>2, <2>3, <2>4
  <1>2. CASE SetterSends(s)
    <2>1. TypeOK'
      BY <1>2 DEF TypeOK, SetterSends
    <2>2. LockInv'
      BY <1>2 DEF TypeOK, LockInv, SetterSends
    <2>3. ConfirmedInv'
      BY <1>2 DEF TypeOK, ConfirmedInv, ConfirmedRemembered, SetterSends
    <2>4. FreshInv' /\ ForwardInv'
      BY <1>2 DEF TypeOK, FreshInv, FreshWhenAvailable, ForwardInv, SetterSends
    <2> QED
      BY <2>1, <2>2, <2>3, <2>4
  <1>3. CASE CameraExecutes(s)
    <2>1. TypeOK'
      BY <1>3 DEF TypeOK, CameraExecutes
    <2>2. LockInv'
      BY <1>3 DEF TypeOK, LockInv, CameraExecutes
    <2>3. ConfirmedInv'
      BY <1>3 DEF TypeOK, ConfirmedInv, ConfirmedRemembered, CameraExecutes
    <2>4. FreshInv'
      BY <1>3 DEF TypeOK, FreshInv, FreshWhenAvailable, CameraExecutes
    <2>5. ForwardInv'
      BY <1>3 DEF TypeOK, ForwardInv, CameraExecutes
    <2> QED
      BY <2>1, <2>2, <2>3, <2>4, <2>5
  <1>4. CASE SetterConfirmed(s)
    <2>1. holder = s /\ request # "answered" /\ \A t \in Setters \ {s} : setter[t] # "executed"
      BY <1>4 DEF TypeOK, LockInv, SetterConfirmed, Accepted
    <2>2. TypeOK'
      BY <1>4 DEF TypeOK, SetterConfirmed, Accepted
    <2>3. LockInv'
      BY <1>4, <2>1 DEF TypeOK, LockInv, SetterConfirmed, Accepted
    <2>4. ConfirmedInv'
      BY <1>4, <2>1 DEF TypeOK, ConfirmedInv, ConfirmedRemembered, SetterConfirmed, Accepted
    <2>5. FreshInv'
      BY <1>4, <2>1 DEF TypeOK, FreshInv, FreshWhenAvailable, SetterConfirmed, Accepted
    <2>6. ForwardInv'
      BY <1>4, <2>1 DEF TypeOK, ForwardInv, SetterConfirmed, Accepted
    <2> QED
      BY <2>2, <2>3, <2>4, <2>5, <2>6
  <1>5. CASE SetterFails(s)
    <2>1. overdue' \subseteq Setters
      BY <1>5 DEF TypeOK, SetterFails
    <2>2. TypeOK'
      BY <1>5, <2>1 DEF TypeOK, SetterFails
    <2>3. LockInv'
      BY <1>5 DEF TypeOK, LockInv, SetterFails
    <2>4. ConfirmedInv'
      BY <1>5 DEF TypeOK, ConfirmedInv, ConfirmedRemembered, SetterFails
    <2>5. FreshInv' /\ ForwardInv'
      BY <1>5 DEF TypeOK, FreshInv, FreshWhenAvailable, ForwardInv, SetterFails
    <2> QED
      BY <2>2, <2>3, <2>4, <2>5
  <1>6. CASE OverdueExecutes(s)
    <2>1. TypeOK'
      BY <1>6 DEF TypeOK, OverdueExecutes
    <2>2. LockInv'
      BY <1>6 DEF LockInv, OverdueExecutes
    <2>3. ConfirmedInv'
      BY <1>6 DEF ConfirmedInv, ConfirmedRemembered, OverdueExecutes
    <2>4. FreshInv' /\ ForwardInv'
      BY <1>6 DEF FreshInv, FreshWhenAvailable, ForwardInv, OverdueExecutes
    <2> QED
      BY <2>1, <2>2, <2>3, <2>4
  <1> QED
    BY <1>1, <1>2, <1>3, <1>4, <1>5, <1>6 DEF Setting

\* The end of a getter preserves the invariant: the value stored is Unknown
\* or an answer that came while the lock was held.
LEMMA AdvanceInv ==
  ASSUME IInv, NEW value, value = reply \/ value = Unknown,
         request = "answered" \/ (request = "sent" /\ value = Unknown),
         holder' = Released, Advance(value),
         UNCHANGED <<kind, camera, calls, reply, since, published>>
  PROVE  IInv'
  <1> USE ActorsAssumption DEF IInv, Unknown, Versions, Requests, calls, published, Released
  <1>1. holder = Poll /\ stage \in Requests /\ value \in Versions \cup {Unknown}
    BY DEF TypeOK, LockInv
  <1>2. /\ \A s \in Setters : setter[s] \notin {"sent", "executed"}
        /\ holder' = NoOne
    BY <1>1 DEF LockInv
  <1>3. request' \in {"none", "waiting"} /\ (stage' = "gather" => request' = "none")
    BY <1>1 DEF Advance, NextStage
  <1>4. TypeOK'
    BY <1>1 DEF TypeOK, Advance, NextStage
  <1>5. LockInv'
    BY <1>1, <1>2, <1>3 DEF TypeOK, LockInv, Advance, NextStage
  <1>6. ConfirmedInv'
    BY <1>2, <1>3 DEF TypeOK, ConfirmedInv, ConfirmedRemembered, Advance
  <1>7. FreshInv'
    BY <1>1, <1>2, <1>3 DEF TypeOK, FreshInv, FreshWhenAvailable, Advance, NextStage
  <1>8. ForwardInv'
    BY <1>1, <1>2, <1>3 DEF TypeOK, ForwardInv, Advance, NextStage
  <1> QED
    BY <1>4, <1>5, <1>6, <1>7, <1>8

\* The steps of the update preserve the invariant.
LEMMA PollingInv ==
  ASSUME IInv, Polling
  PROVE  IInv'
  <1> USE ActorsAssumption DEF Unknown, Versions, Requests, calls, poll, published, LockFree
  <1>1. CASE PollBegins
    <2> USE <1>1 DEF PollBegins, FirstStage, IInv
    <2>1. TypeOK'
      BY DEF TypeOK
    <2>2. LockInv'
      BY DEF TypeOK, LockInv
    <2>3. ConfirmedInv'
      BY DEF TypeOK, ConfirmedInv, ConfirmedRemembered
    <2>4. FreshInv' /\ ForwardInv'
      BY DEF TypeOK, FreshInv, FreshWhenAvailable, ForwardInv
    <2> QED
      BY <2>1, <2>2, <2>3, <2>4
  <1>2. CASE Prepared
    <2> USE <1>2 DEF Prepared, NextStage, IInv
    <2>1. TypeOK'
      BY DEF TypeOK
    <2>2. LockInv'
      BY DEF TypeOK, LockInv
    <2>3. ConfirmedInv'
      BY DEF TypeOK, ConfirmedInv, ConfirmedRemembered
    <2>4. FreshInv' /\ ForwardInv'
      BY DEF TypeOK, FreshInv, FreshWhenAvailable, ForwardInv
    <2> QED
      BY <2>1, <2>2, <2>3, <2>4
  <1>3. CASE PrepareFails
    <2> USE <1>3 DEF PrepareFails, Snapshot, IInv
    <2>1. TypeOK'
      BY DEF TypeOK
    <2>2. LockInv'
      BY DEF TypeOK, LockInv
    <2>3. ConfirmedInv'
      BY DEF TypeOK, ConfirmedInv, ConfirmedRemembered
    <2>4. FreshInv' /\ ForwardInv'
      BY DEF TypeOK, FreshInv, FreshWhenAvailable, ForwardInv
    <2> QED
      BY <2>1, <2>2, <2>3, <2>4
  <1>4. CASE PollSends
    <2> USE <1>4 DEF PollSends, IInv
    <2>1. TypeOK'
      BY DEF TypeOK
    <2>2. LockInv'
      BY DEF TypeOK, LockInv
    <2>3. ConfirmedInv'
      BY DEF TypeOK, ConfirmedInv, ConfirmedRemembered
    <2>4. FreshInv' /\ ForwardInv'
      BY DEF TypeOK, FreshInv, FreshWhenAvailable, ForwardInv
    <2> QED
      BY <2>1, <2>2, <2>3, <2>4
  <1>5. CASE CameraAnswers
    <2> USE <1>5 DEF CameraAnswers, IInv
    <2>1. TypeOK'
      BY DEF TypeOK
    <2>2. LockInv'
      BY DEF TypeOK, LockInv
    <2>3. ConfirmedInv'
      BY DEF TypeOK, ConfirmedInv, ConfirmedRemembered
    <2>4. FreshInv' /\ ForwardInv'
      BY DEF TypeOK, FreshInv, FreshWhenAvailable, ForwardInv
    <2> QED
      BY <2>1, <2>2, <2>3, <2>4
  <1>6. CASE PollReceives
    BY <1>6, AdvanceInv DEF PollReceives
  <1>7. CASE PollMisses
    BY <1>7, AdvanceInv DEF PollMisses
  <1>8. CASE PollAborts
    <2> USE <1>8 DEF PollAborts, Snapshot, Unreachable, Released, IInv
    <2>1. holder = Poll /\ \A s \in Setters : setter[s] \notin {"sent", "executed"}
      BY DEF LockInv
    <2>2. TypeOK'
      BY DEF TypeOK
    <2>3. LockInv'
      BY <2>1 DEF TypeOK, LockInv
    <2>4. ConfirmedInv'
      BY DEF TypeOK, ConfirmedInv, ConfirmedRemembered
    <2>5. FreshInv' /\ ForwardInv'
      BY <2>1 DEF TypeOK, FreshInv, FreshWhenAvailable, ForwardInv
    <2> QED
      BY <2>2, <2>3, <2>4, <2>5
  <1>9. CASE Publish
    <2> USE <1>9 DEF Publish, IInv
    <2>1. available' \in BOOLEAN /\ (available' /\ view # Unknown => ok)
      BY DEF TypeOK
    <2>2. TypeOK'
      BY <2>1 DEF TypeOK
    <2>3. LockInv'
      BY DEF TypeOK, LockInv
    <2>4. ConfirmedInv'
      BY DEF TypeOK, ConfirmedInv, ConfirmedRemembered
    <2>5. FreshInv'
      BY <2>1 DEF TypeOK, LockInv, FreshInv, FreshWhenAvailable
    <2>6. ForwardInv'
      BY DEF TypeOK, LockInv, ForwardInv
    <2> QED
      BY <2>2, <2>3, <2>4, <2>5, <2>6
  <1> QED
    BY <1>1, <1>2, <1>3, <1>4, <1>5, <1>6, <1>7, <1>8, <1>9 DEF Polling

\* Every step preserves the invariant.
LEMMA NextInv == IInv /\ [Next]_vars => IInv'
  <1> SUFFICES ASSUME IInv, [Next]_vars PROVE IInv'
    OBVIOUS
  <1>1. CASE Next
    BY <1>1, SettingInv, PollingInv DEF Next
  <1>2. CASE UNCHANGED vars
    <2> USE <1>2 DEF vars, calls, poll, published, Unknown, Versions, Requests, IInv
    <2>1. TypeOK' /\ LockInv'
      BY DEF TypeOK, LockInv
    <2>2. ConfirmedInv' /\ FreshInv' /\ ForwardInv'
      BY DEF ConfirmedInv, ConfirmedRemembered, FreshInv, FreshWhenAvailable, ForwardInv
    <2> QED
      BY <2>1, <2>2
  <1> QED
    BY <1>1, <1>2

\* The invariant of the specification.
THEOREM Invariance == Spec => []IInv
  <1> QED
    BY InitInv, NextInv, PTL DEF Spec

\* Every variable keeps its type, and no version is newer than the camera's.
THEOREM TypeCorrect == Spec => []TypeOK
  <1>1. IInv => TypeOK
    BY DEF IInv
  <1> QED
    BY <1>1, Invariance, PTL

\* A confirmed setting is never forgotten by a poll under way (local.py).
THEOREM ConfirmedIsRemembered == Spec => []ConfirmedRemembered
  <1>1. IInv => ConfirmedRemembered
    BY DEF IInv, ConfirmedInv
  <1> QED
    BY <1>1, Invariance, PTL

\* An available entity shows nothing older than its poll (coordinator.py).
THEOREM AvailableIsFresh == Spec => []FreshWhenAvailable
  <1>1. IInv => FreshWhenAvailable
    BY DEF IInv, FreshInv
  <1> QED
    BY <1>1, Invariance, PTL

\* What the coordinator publishes never goes back: only Publish changes it,
\* and its snapshot is as new as what was shown.
THEOREM PublishedNeverGoesBack == Spec => ShownNeverBack
  <1>1. IInv /\ [Next]_vars => [shown # Unknown /\ shown' # Unknown => shown' >= shown]_vars
    <2> SUFFICES ASSUME IInv, Next PROVE shown # Unknown /\ shown' # Unknown => shown' >= shown
      OBVIOUS
    <2>1. shown \in Int /\ view \in Int
      BY DEF IInv, TypeOK, Versions, Unknown
    <2>2. CASE Publish
      BY <2>1, <2>2 DEF Publish, IInv, ForwardInv, Unknown
    <2>3. CASE Polling /\ ~Publish
      <3>1. shown' = shown
        BY <2>3 DEF Polling, PollBegins, Prepared, PrepareFails, PollSends, CameraAnswers,
                    PollReceives, PollMisses, PollAborts, published
      <3> QED
        BY <2>1, <3>1
    <2>4. ASSUME NEW s \in Setters, Setting(s)
          PROVE  shown' = shown
      BY <2>4 DEF Setting, Call, CallRejected, SetterSends, CameraExecutes, SetterConfirmed,
                  SetterFails, OverdueExecutes, published
    <2> QED
      BY <2>1, <2>2, <2>3, <2>4 DEF Next
  <1> QED
    BY <1>1, Invariance, PTL DEF Spec, ShownNeverBack
=============================================================================
