-------------------------- MODULE CameraStreamsProofs --------------------------
(***************************************************************************)
(* Proofs about CameraStreams, for any number of keys, requests and        *)
(* setups.  Two facts carry them: the holder of a manager's lock is a      *)
(* request of that manager whose call of go2rtc is under way (LockOwned),  *)
(* and a request that goes on after its manager took the names is one of   *)
(* the late ones (Outlived).                                               *)
(***************************************************************************)
EXTENDS CameraStreams, TLAPS

\* Whoever holds the lock of a manager is one of its requests.
LockOwned ==
    \A g \in Setups : lock[g] # NoOne =>
        Own(lock[g]) = g /\ InStage(lock[g], {"adding", "added"})

\* Nothing is of a setup that is yet to come, and an idle request of none.
NotYet ==
    /\ \A r \in Requests : Own(r) <= setup
    /\ \A g \in Setups : g > setup => names[g] = {}
    /\ \A k \in Keys : registered[k] <= setup
    /\ \A r \in Requests : InStage(r, {"idle"}) => r \notin late /\ ~request[r].refresh
    /\ phase # "deleting" => doomed = {}

\* The manager has taken its names.
NamesTaken(g) == g < setup \/ phase \in {"deleting", "pool", "closed"}

\* What goes on in a manager that has taken its names is late.
Outlived == \A r \in Requests : NamesTaken(Own(r)) /\ InStage(r, Active) => r \in late

\* Some request of this setup and key had not the lock when the names were
\* taken, or ended after go2rtc had carried it out.
Excused(g, k) ==
    \/ <<g, k>> \in failed
    \/ \E r \in Requests : Own(r) = g /\ Key(r) = k /\ (r \in late \/ InStage(r, {"dropped"}))

\* As Accounted, where a registration under way counts only once go2rtc has it.
RegisteredInv ==
    \A k \in Keys : registered[k] # 0 =>
        \/ Excused(registered[k], k)
        \/ /\ registered[k] = setup
           /\ \/ phase \in {"loaded", "closing"} /\ k \in names[setup]
              \/ phase = "deleting" /\ k \in doomed
              \/ /\ phase \in {"loaded", "closing"}
                 /\ \E r \in Requests : lock[setup] = r /\ Key(r) = k /\ InStage(r, {"added"})

\* What go2rtc serves for a key is of this setup, or a late request changed it.
Served(k) == registered[k] = setup \/ \E r \in late : Key(r) = k

\* As ServedFromThisSetup, and what is about to be remembered is served.
ServedInv ==
    phase = "loaded" =>
        /\ \A k \in names[setup] : Served(k)
        /\ \A r \in Requests : Own(r) = setup /\ InStage(r, {"added"}) => Served(Key(r))

\* An entity of the loaded setup knows the refresh task that runs for it.
RefreshKnown ==
    phase = "loaded" =>
        \A r \in Requests :
            request[r].refresh /\ InStage(r, Active) /\ Own(r) = setup => refresh[Key(r)] = r

IInv == /\ TypeOK /\ LockOwned /\ NotYet /\ Outlived /\ RegisteredInv /\ ServedInv
        /\ RefreshKnown /\ OneRefresh
-----------------------------------------------------------------------------
(* Lemmas *)

Records == [stage : Stages, key : Keys, setup : Setups, refresh : BOOLEAN]

\* A request that goes on to another stage changes in nothing else.
LEMMA StageSet ==
    ASSUME request \in [Requests -> Records], NEW r \in Requests, NEW stage \in Stages,
           request' = [request EXCEPT ![r].stage = stage]
    PROVE  /\ request' \in [Requests -> Records]
           /\ \A s \in Requests :
                 /\ Own(s)' = Own(s) /\ Key(s)' = Key(s)
                 /\ request'[s].refresh => request[s].refresh
                 /\ request'[s].stage = IF s = r THEN stage ELSE request[s].stage
BY DEF Records, Own, Key

\* A request that is over is no refresh task any more.
LEMMA OverSet ==
    ASSUME request \in [Requests -> Records], refresh \in [Keys -> Requests \cup {NoOne}],
           NEW r \in Requests, NEW stage \in Stages, Over(r, stage)
    PROVE  /\ request' \in [Requests -> Records]
           /\ refresh' \in [Keys -> Requests \cup {NoOne}]
           /\ \A k \in Keys : refresh'[k] = IF refresh[k] = r THEN NoOne ELSE refresh[k]
           /\ \A s \in Requests :
                 /\ Own(s)' = Own(s) /\ Key(s)' = Key(s)
                 /\ request'[s].refresh => request[s].refresh /\ s # r
                 /\ request'[s].stage = IF s = r THEN stage ELSE request[s].stage
<1>1. request' = [request EXCEPT ![r].stage = stage, ![r].refresh = FALSE]
  BY DEF Over
<1>2. refresh' = [k \in Keys |-> IF refresh[k] = r THEN NoOne ELSE refresh[k]]
  BY DEF Over
<1> QED
  BY <1>1, <1>2 DEF Records, Own, Key

\* A step after which every request is of the same setup and key and what was
\* late, dropped or failed is so still.
Keeps ==
    /\ \A s \in Requests : ~InStage(s, {"idle"}) => Own(s)' = Own(s) /\ Key(s)' = Key(s)
    /\ \A s \in Requests : InStage(s, {"dropped"}) => InStage(s, {"dropped"})'
    /\ late \subseteq late' /\ failed \subseteq failed'

\* An excuse is one for ever.
LEMMA ExcusedStays ==
    ASSUME NotYet, Keeps, NEW g, NEW k, Excused(g, k)
    PROVE  Excused(g, k)'
<1>1. CASE <<g, k>> \in failed
  BY <1>1 DEF Keeps, Excused
<1>2. CASE \E r \in Requests : Own(r) = g /\ Key(r) = k /\ (r \in late \/ InStage(r, {"dropped"}))
  <2>1. PICK r \in Requests : Own(r) = g /\ Key(r) = k /\ (r \in late \/ InStage(r, {"dropped"}))
    BY <1>2
  <2>2. ~InStage(r, {"idle"})
    BY <2>1 DEF NotYet, InStage
  <2>3. Own(r)' = g /\ Key(r)' = k /\ (r \in late' \/ InStage(r, {"dropped"})')
    BY <2>1, <2>2 DEF Keeps
  <2> QED
    BY <2>3 DEF Excused
<1> QED
  BY <1>1, <1>2 DEF Excused

\* A key stays served while go2rtc and the setup stay as they are.
LEMMA ServedStays ==
    ASSUME NotYet, late \subseteq Requests, Keeps, NEW k, Served(k),
           setup' = setup, registered'[k] = registered[k]
    PROVE  Served(k)'
<1>1. \A r \in late : Key(r)' = Key(r) /\ r \in late'
  BY DEF NotYet, Keeps
<1> QED
  BY <1>1 DEF Served

-----------------------------------------------------------------------------
(* The steps *)

\* A request whose endpoint was given waits for the lock.
LEMMA MappedInv ==
  ASSUME IInv, NEW r \in Requests, Mapped(r)
  PROVE  IInv'
  <1> USE NoOneAssumption, SetupsAssumption DEF InStage, Active, IInv, Own, Key
  <1>1. request' \in [Requests -> Records] /\ refresh' = refresh
    BY StageSet DEF TypeOK, Records, Stages, Mapped
  <1>2. /\ \A s \in Requests :
             /\ Own(s)' = Own(s) /\ Key(s)' = Key(s)
             /\ request'[s].refresh => request[s].refresh
             /\ request'[s].stage = IF s = r THEN "queued" ELSE request[s].stage
    BY StageSet DEF TypeOK, Records, Stages, Mapped
  <1>3. request[r].stage = "mapping"
    BY DEF Mapped
  <1>4. UNCHANGED <<setup, phase, refresh, lock, names, doomed, failed, late, registered>>
    BY DEF Mapped
  <1>5. Own(r) \in Setups /\ Key(r) \in Keys
    BY DEF TypeOK, Own, Key
  <1>6. Keeps
    BY <1>2, <1>3, <1>4 DEF Keeps
  <1>7. TypeOK'
    <2>1. \A s \in Requests : lock[Own(s)]' = s <=> request'[s].stage \in {"adding", "added"}
      BY <1>1, <1>2, <1>3, <1>4, <1>5 DEF TypeOK, LockOwned
    <2> QED
      BY <1>1, <1>2, <1>3, <1>4, <1>5, <2>1 DEF TypeOK, Phases, Stages, Records
  <1>8. LockOwned'
    BY <1>1, <1>2, <1>3, <1>4, <1>5 DEF LockOwned, TypeOK
  <1>9. NotYet'
    BY <1>1, <1>2, <1>3, <1>4, <1>5 DEF NotYet, TypeOK
  <1>10. Outlived'
    BY <1>1, <1>2, <1>3, <1>4, <1>5 DEF Outlived, NamesTaken, NotYet, LockOwned, TypeOK
  <1>11. RegisteredInv'
    BY <1>1, <1>2, <1>3, <1>4, <1>5, <1>6, ExcusedStays DEF RegisteredInv, TypeOK
  <1>12. ServedInv'
    BY <1>1, <1>2, <1>3, <1>4, <1>5, <1>6, ServedStays DEF ServedInv, TypeOK, NotYet
  <1>13. RefreshKnown'
    BY <1>1, <1>2, <1>3, <1>4, <1>5 DEF RefreshKnown, TypeOK
  <1>14. OneRefresh'
    BY <1>1, <1>2, <1>3, <1>4, <1>5 DEF OneRefresh, TypeOK, NotYet
  <1> QED
    BY <1>7, <1>8, <1>9, <1>10, <1>11, <1>12, <1>13, <1>14

\* A request that gets no endpoint is over.
LEMMA MappingFailsInv ==
  ASSUME IInv, NEW r \in Requests, MappingFails(r)
  PROVE  IInv'
  <1> USE NoOneAssumption, SetupsAssumption DEF InStage, Active, IInv, Own, Key
  <1>1. request' \in [Requests -> Records] /\ refresh' \in [Keys -> Requests \cup {NoOne}]
    BY OverSet DEF TypeOK, Records, Stages, MappingFails
  <1>2. /\ \A s \in Requests :
             /\ Own(s)' = Own(s) /\ Key(s)' = Key(s)
             /\ request'[s].refresh => request[s].refresh /\ s # r
             /\ request'[s].stage = IF s = r THEN "over" ELSE request[s].stage
    BY OverSet DEF TypeOK, Records, Stages, MappingFails
  <1>3. request[r].stage = "mapping"
    BY DEF MappingFails
  <1>4. UNCHANGED <<setup, phase, lock, names, doomed, failed, late, registered>>
    BY DEF MappingFails
  <1>5. \A k \in Keys : refresh'[k] = IF refresh[k] = r THEN NoOne ELSE refresh[k]
    BY OverSet DEF TypeOK, Records, Stages, MappingFails
  <1>6. Own(r) \in Setups /\ Key(r) \in Keys
    BY DEF TypeOK, Own, Key
  <1>7. Keeps
    BY <1>2, <1>3, <1>4 DEF Keeps
  <1>8. TypeOK'
    <2>1. \A s \in Requests : lock[Own(s)]' = s <=> request'[s].stage \in {"adding", "added"}
      BY <1>1, <1>2, <1>3, <1>4, <1>5, <1>6 DEF TypeOK, LockOwned
    <2> QED
      BY <1>1, <1>2, <1>3, <1>4, <1>5, <1>6, <2>1 DEF TypeOK, Phases, Stages, Records
  <1>9. LockOwned'
    BY <1>1, <1>2, <1>3, <1>4, <1>5, <1>6 DEF LockOwned, TypeOK
  <1>10. NotYet'
    BY <1>1, <1>2, <1>3, <1>4, <1>5, <1>6 DEF NotYet, TypeOK
  <1>11. Outlived'
    BY <1>1, <1>2, <1>3, <1>4, <1>5, <1>6 DEF Outlived, NamesTaken, NotYet, LockOwned, TypeOK
  <1>12. RegisteredInv'
    BY <1>1, <1>2, <1>3, <1>4, <1>5, <1>6, <1>7, ExcusedStays DEF RegisteredInv, TypeOK,
       NotYet, LockOwned, Outlived, NamesTaken
  <1>13. ServedInv'
    BY <1>1, <1>2, <1>3, <1>4, <1>5, <1>6, <1>7, ServedStays DEF ServedInv, TypeOK, NotYet
  <1>14. RefreshKnown'
    BY <1>1, <1>2, <1>3, <1>4, <1>5, <1>6 DEF RefreshKnown, TypeOK
  <1>15. OneRefresh'
    BY <1>1, <1>2, <1>3, <1>4, <1>5, <1>6 DEF OneRefresh, TypeOK, NotYet
  <1> QED
    BY <1>8, <1>9, <1>10, <1>11, <1>12, <1>13, <1>14, <1>15

\* A request whose source is the remembered one is over.
LEMMA KnownInv ==
  ASSUME IInv, NEW r \in Requests, Known(r)
  PROVE  IInv'
  <1> USE NoOneAssumption, SetupsAssumption DEF InStage, Active, IInv, Own, Key
  <1>1. request' \in [Requests -> Records] /\ refresh' \in [Keys -> Requests \cup {NoOne}]
    BY OverSet DEF TypeOK, Records, Stages, Known
  <1>2. /\ \A s \in Requests :
             /\ Own(s)' = Own(s) /\ Key(s)' = Key(s)
             /\ request'[s].refresh => request[s].refresh /\ s # r
             /\ request'[s].stage = IF s = r THEN "over" ELSE request[s].stage
    BY OverSet DEF TypeOK, Records, Stages, Known
  <1>3. request[r].stage = "queued"
    BY DEF Known
  <1>4. UNCHANGED <<setup, phase, lock, names, doomed, failed, late, registered>>
    BY DEF Known
  <1>5. \A k \in Keys : refresh'[k] = IF refresh[k] = r THEN NoOne ELSE refresh[k]
    BY OverSet DEF TypeOK, Records, Stages, Known
  <1>6. Own(r) \in Setups /\ Key(r) \in Keys
    BY DEF TypeOK, Own, Key
  <1>7. Keeps
    BY <1>2, <1>3, <1>4 DEF Keeps
  <1>8. TypeOK'
    <2>1. \A s \in Requests : lock[Own(s)]' = s <=> request'[s].stage \in {"adding", "added"}
      BY <1>1, <1>2, <1>3, <1>4, <1>5, <1>6 DEF TypeOK, LockOwned
    <2> QED
      BY <1>1, <1>2, <1>3, <1>4, <1>5, <1>6, <2>1 DEF TypeOK, Phases, Stages, Records
  <1>9. LockOwned'
    BY <1>1, <1>2, <1>3, <1>4, <1>5, <1>6 DEF LockOwned, TypeOK
  <1>10. NotYet'
    BY <1>1, <1>2, <1>3, <1>4, <1>5, <1>6 DEF NotYet, TypeOK
  <1>11. Outlived'
    BY <1>1, <1>2, <1>3, <1>4, <1>5, <1>6 DEF Outlived, NamesTaken, NotYet, LockOwned, TypeOK
  <1>12. RegisteredInv'
    BY <1>1, <1>2, <1>3, <1>4, <1>5, <1>6, <1>7, ExcusedStays DEF RegisteredInv, TypeOK,
       NotYet, LockOwned, Outlived, NamesTaken
  <1>13. ServedInv'
    BY <1>1, <1>2, <1>3, <1>4, <1>5, <1>6, <1>7, ServedStays DEF ServedInv, TypeOK, NotYet
  <1>14. RefreshKnown'
    BY <1>1, <1>2, <1>3, <1>4, <1>5, <1>6 DEF RefreshKnown, TypeOK
  <1>15. OneRefresh'
    BY <1>1, <1>2, <1>3, <1>4, <1>5, <1>6 DEF OneRefresh, TypeOK, NotYet
  <1> QED
    BY <1>8, <1>9, <1>10, <1>11, <1>12, <1>13, <1>14, <1>15

\* A request takes the lock and calls go2rtc.
LEMMA AddInv ==
  ASSUME IInv, NEW r \in Requests, Add(r)
  PROVE  IInv'
  <1> USE NoOneAssumption, SetupsAssumption DEF InStage, Active, IInv, Own, Key
  <1>1. request' \in [Requests -> Records] /\ refresh' = refresh
    BY StageSet DEF TypeOK, Records, Stages, Add, RememberedFirst
  <1>2. /\ \A s \in Requests :
             /\ Own(s)' = Own(s) /\ Key(s)' = Key(s)
             /\ request'[s].refresh => request[s].refresh
             /\ request'[s].stage = IF s = r THEN "adding" ELSE request[s].stage
    BY StageSet DEF TypeOK, Records, Stages, Add, RememberedFirst
  <1>3. request[r].stage = "queued" /\ lock[Own(r)] = NoOne /\ lock' = [lock EXCEPT ![Own(r)] = r]
    BY DEF Add, RememberedFirst
  <1>4. UNCHANGED <<setup, phase, refresh, names, doomed, failed, late, registered>>
    BY DEF Add, RememberedFirst
  <1>5. Own(r) \in Setups /\ Key(r) \in Keys
    BY DEF TypeOK, Own, Key
  <1>6. Keeps
    BY <1>2, <1>3, <1>4 DEF Keeps
  <1>7. TypeOK'
    <2>1. \A s \in Requests : lock[Own(s)]' = s <=> request'[s].stage \in {"adding", "added"}
      BY <1>1, <1>2, <1>3, <1>4, <1>5 DEF TypeOK, LockOwned
    <2> QED
      BY <1>1, <1>2, <1>3, <1>4, <1>5, <2>1 DEF TypeOK, Phases, Stages, Records
  <1>8. LockOwned'
    BY <1>1, <1>2, <1>3, <1>4, <1>5 DEF LockOwned, TypeOK
  <1>9. NotYet'
    BY <1>1, <1>2, <1>3, <1>4, <1>5 DEF NotYet, TypeOK
  <1>10. Outlived'
    BY <1>1, <1>2, <1>3, <1>4, <1>5 DEF Outlived, NamesTaken, NotYet, LockOwned, TypeOK
  <1>11. RegisteredInv'
    BY <1>1, <1>2, <1>3, <1>4, <1>5, <1>6, ExcusedStays DEF RegisteredInv, TypeOK, NotYet,
       LockOwned, Outlived, NamesTaken
  <1>12. ServedInv'
    BY <1>1, <1>2, <1>3, <1>4, <1>5, <1>6, ServedStays DEF ServedInv, TypeOK, NotYet
  <1>13. RefreshKnown'
    BY <1>1, <1>2, <1>3, <1>4, <1>5 DEF RefreshKnown, TypeOK
  <1>14. OneRefresh'
    BY <1>1, <1>2, <1>3, <1>4, <1>5 DEF OneRefresh, TypeOK, NotYet
  <1> QED
    BY <1>7, <1>8, <1>9, <1>10, <1>11, <1>12, <1>13, <1>14

\* go2rtc serves the source of the setup that asked.
LEMMA Go2rtcAddsInv ==
  ASSUME IInv, NEW r \in Requests, Go2rtcAdds(r)
  PROVE  IInv'
  <1> USE NoOneAssumption, SetupsAssumption DEF InStage, Active, IInv, Own, Key
  <1>1. request' \in [Requests -> Records] /\ refresh' = refresh
    BY StageSet DEF TypeOK, Records, Stages, Go2rtcAdds
  <1>2. /\ \A s \in Requests :
             /\ Own(s)' = Own(s) /\ Key(s)' = Key(s)
             /\ request'[s].refresh => request[s].refresh
             /\ request'[s].stage = IF s = r THEN "added" ELSE request[s].stage
    BY StageSet DEF TypeOK, Records, Stages, Go2rtcAdds
  <1>3. request[r].stage = "adding" /\ registered' = [registered EXCEPT ![Key(r)] = Own(r)]
    BY DEF Go2rtcAdds
  <1>4. UNCHANGED <<setup, phase, refresh, lock, names, doomed, failed, late>>
    BY DEF Go2rtcAdds
  <1>5. Own(r) \in Setups /\ Key(r) \in Keys
    BY DEF TypeOK, Own, Key
  <1>6. Keeps
    BY <1>2, <1>3, <1>4 DEF Keeps
  <1>7. TypeOK'
    <2>1. \A s \in Requests : lock[Own(s)]' = s <=> request'[s].stage \in {"adding", "added"}
      BY <1>1, <1>2, <1>3, <1>4, <1>5 DEF TypeOK, LockOwned
    <2> QED
      BY <1>1, <1>2, <1>3, <1>4, <1>5, <2>1 DEF TypeOK, Phases, Stages, Records
  <1>8. LockOwned'
    BY <1>1, <1>2, <1>3, <1>4, <1>5 DEF LockOwned, TypeOK
  <1>9. NotYet'
    BY <1>1, <1>2, <1>3, <1>4, <1>5 DEF NotYet, TypeOK
  <1>10. Outlived'
    BY <1>1, <1>2, <1>3, <1>4, <1>5 DEF Outlived, NamesTaken, NotYet, LockOwned, TypeOK
  <1>11. RegisteredInv'
    <2> SUFFICES ASSUME NEW k \in Keys, registered'[k] # 0
                 PROVE  \/ Excused(registered[k], k)'
                        \/ /\ registered'[k] = setup
                           /\ \/ phase \in {"loaded", "closing"} /\ k \in names[setup]
                              \/ phase = "deleting" /\ k \in doomed
                              \/ /\ phase \in {"loaded", "closing"}
                                 /\ \E q \in Requests :
                                       lock[setup] = q /\ Key(q)' = k /\ request'[q].stage = "added"
      BY <1>4 DEF RegisteredInv
    <2>1. CASE k # Key(r)
      <3>1. registered'[k] = registered[k]
        BY <1>3, <1>5, <2>1 DEF TypeOK
      <3>2. Excused(registered[k], k) => Excused(registered[k], k)'
        BY <1>6, <3>1, ExcusedStays
      <3> QED
        BY <1>1, <1>2, <1>3, <1>4, <1>5, <2>1, <3>1, <3>2 DEF RegisteredInv
    <2>2. CASE k = Key(r) /\ NamesTaken(Own(r))
      <3>1. r \in late' /\ registered'[k] = Own(r)
        BY <1>1, <1>2, <1>3, <1>4, <1>5, <2>2 DEF Outlived, TypeOK
      <3> QED
        BY <1>2, <2>2, <3>1 DEF Excused
    <2>3. CASE k = Key(r) /\ ~NamesTaken(Own(r))
      <3>1. registered'[k] = setup /\ Own(r) = setup /\ phase \in {"loaded", "closing"}
        BY <1>1, <1>2, <1>3, <1>4, <1>5, <2>3 DEF NamesTaken, NotYet, TypeOK, Setups, Phases
      <3> QED
        BY <1>1, <1>2, <1>3, <1>4, <1>5, <2>3, <3>1 DEF TypeOK
    <2> QED
      BY <2>1, <2>2, <2>3
  <1>12. ServedInv'
    <2>1. SUFFICES ASSUME phase = "loaded"
                   PROVE  \A k \in Keys : k = Key(r) \/ Served(k) => Served(k)'
      BY <1>2, <1>3, <1>4, <1>5 DEF ServedInv, TypeOK
    <2> TAKE k \in Keys
    <2>2. CASE k = Key(r) /\ Own(r) = setup
      BY <1>1, <1>2, <1>3, <1>4, <1>5, <2>2 DEF Served, TypeOK
    <2>3. CASE k = Key(r) /\ Own(r) # setup
      <3>1. r \in late'
        BY <1>1, <1>2, <1>3, <1>4, <1>5, <2>3 DEF Outlived, NamesTaken, NotYet, TypeOK, Setups
      <3> QED
        BY <1>2, <2>3, <3>1 DEF Served
    <2>4. CASE k # Key(r)
      <3>1. registered'[k] = registered[k]
        BY <1>3, <1>5, <2>4 DEF TypeOK
      <3> QED
        BY <1>4, <1>6, <2>4, <3>1, ServedStays DEF TypeOK
    <2> QED
      BY <2>2, <2>3, <2>4
  <1>13. RefreshKnown'
    BY <1>1, <1>2, <1>3, <1>4, <1>5 DEF RefreshKnown, TypeOK
  <1>14. OneRefresh'
    BY <1>1, <1>2, <1>3, <1>4, <1>5 DEF OneRefresh, TypeOK, NotYet
  <1> QED
    BY <1>7, <1>8, <1>9, <1>10, <1>11, <1>12, <1>13, <1>14

\* The manager remembers what go2rtc has.
LEMMA AddReturnsInv ==
  ASSUME IInv, NEW r \in Requests, AddReturns(r)
  PROVE  IInv'
  <1> USE NoOneAssumption, SetupsAssumption DEF InStage, Active, IInv, Own, Key
  <1>1. request' \in [Requests -> Records] /\ refresh' \in [Keys -> Requests \cup {NoOne}]
    BY OverSet DEF TypeOK, Records, Stages, AddReturns, Store
  <1>2. /\ \A s \in Requests :
             /\ Own(s)' = Own(s) /\ Key(s)' = Key(s)
             /\ request'[s].refresh => request[s].refresh /\ s # r
             /\ request'[s].stage = IF s = r THEN "over" ELSE request[s].stage
    BY OverSet DEF TypeOK, Records, Stages, AddReturns, Store
  <1>3. request[r].stage = "added" /\ lock' = [lock EXCEPT ![Own(r)] = NoOne]
          /\ names' = [names EXCEPT ![Own(r)] = @ \cup {Key(r)}]
    BY DEF AddReturns, Store
  <1>4. UNCHANGED <<setup, phase, doomed, failed, late, registered>>
    BY DEF AddReturns, Store
  <1>5. \A k \in Keys : refresh'[k] = IF refresh[k] = r THEN NoOne ELSE refresh[k]
    BY OverSet DEF TypeOK, Records, Stages, AddReturns, Store
  <1>6. Own(r) \in Setups /\ Key(r) \in Keys
    BY DEF TypeOK, Own, Key
  <1>7. Keeps
    BY <1>2, <1>3, <1>4 DEF Keeps
  <1>8. TypeOK'
    <2>1. \A s \in Requests : lock[Own(s)]' = s <=> request'[s].stage \in {"adding", "added"}
      BY <1>1, <1>2, <1>3, <1>4, <1>5, <1>6 DEF TypeOK, LockOwned
    <2> QED
      BY <1>1, <1>2, <1>3, <1>4, <1>5, <1>6, <2>1 DEF TypeOK, Phases, Stages, Records
  <1>9. LockOwned'
    BY <1>1, <1>2, <1>3, <1>4, <1>5, <1>6 DEF LockOwned, TypeOK
  <1>10. NotYet'
    <2>1. Own(r) <= setup
      BY DEF NotYet
    <2>2. \A g \in Setups : g > setup => names'[g] = names[g]
      BY <1>3, <1>6, <2>1 DEF TypeOK, Setups
    <2>3. \A s \in Requests : request'[s].stage = "idle" => request[s].stage = "idle"
      BY <1>2
    <2> QED
      BY <1>2, <1>4, <2>2, <2>3 DEF NotYet, TypeOK
  <1>11. Outlived'
    BY <1>1, <1>2, <1>3, <1>4, <1>5, <1>6 DEF Outlived, NamesTaken, NotYet, LockOwned, TypeOK
  <1>12. RegisteredInv'
    BY <1>1, <1>2, <1>3, <1>4, <1>5, <1>6, <1>7, ExcusedStays DEF RegisteredInv, TypeOK,
       NotYet, LockOwned, Outlived, NamesTaken
  <1>13. ServedInv'
    BY <1>1, <1>2, <1>3, <1>4, <1>5, <1>6, <1>7, ServedStays DEF ServedInv, TypeOK, NotYet
  <1>14. RefreshKnown'
    BY <1>1, <1>2, <1>3, <1>4, <1>5, <1>6 DEF RefreshKnown, TypeOK
  <1>15. OneRefresh'
    BY <1>1, <1>2, <1>3, <1>4, <1>5, <1>6 DEF OneRefresh, TypeOK, NotYet
  <1> QED
    BY <1>8, <1>9, <1>10, <1>11, <1>12, <1>13, <1>14, <1>15

\* A call of go2rtc fails, perhaps after it was carried out.
LEMMA AddFailsInv ==
  ASSUME IInv, NEW r \in Requests, AddFails(r)
  PROVE  IInv'
  <1> USE NoOneAssumption, SetupsAssumption DEF InStage, Active, IInv, Own, Key
  <1>1. request' \in [Requests -> Records] /\ refresh' \in [Keys -> Requests \cup {NoOne}]
    BY OverSet DEF TypeOK, Records, Stages, AddFails, Released
  <1>2. /\ \A s \in Requests :
             /\ Own(s)' = Own(s) /\ Key(s)' = Key(s)
             /\ request'[s].refresh => request[s].refresh /\ s # r
             /\ request'[s].stage = IF s = r THEN IF request[r].stage = "added" THEN "dropped" ELSE "over" ELSE request[s].stage
    BY OverSet DEF TypeOK, Records, Stages, AddFails, Released
  <1>3. request[r].stage \in {"adding", "added"} /\ lock' = [lock EXCEPT ![Own(r)] = NoOne]
    BY DEF AddFails, Released
  <1>4. UNCHANGED <<setup, phase, names, doomed, failed, late, registered>>
    BY DEF AddFails, Released
  <1>5. \A k \in Keys : refresh'[k] = IF refresh[k] = r THEN NoOne ELSE refresh[k]
    BY OverSet DEF TypeOK, Records, Stages, AddFails, Released
  <1>6. Own(r) \in Setups /\ Key(r) \in Keys
    BY DEF TypeOK, Own, Key
  <1>7. Keeps
    BY <1>2, <1>3, <1>4 DEF Keeps
  <1>8. TypeOK'
    <2>1. \A s \in Requests : lock[Own(s)]' = s <=> request'[s].stage \in {"adding", "added"}
      BY <1>1, <1>2, <1>3, <1>4, <1>5, <1>6 DEF TypeOK, LockOwned
    <2> QED
      BY <1>1, <1>2, <1>3, <1>4, <1>5, <1>6, <2>1 DEF TypeOK, Phases, Stages, Records
  <1>9. LockOwned'
    BY <1>1, <1>2, <1>3, <1>4, <1>5, <1>6 DEF LockOwned, TypeOK
  <1>10. NotYet'
    BY <1>1, <1>2, <1>3, <1>4, <1>5, <1>6 DEF NotYet, TypeOK
  <1>11. Outlived'
    BY <1>1, <1>2, <1>3, <1>4, <1>5, <1>6 DEF Outlived, NamesTaken, NotYet, LockOwned, TypeOK
  <1>12. RegisteredInv'
    <2> SUFFICES ASSUME NEW k \in Keys, registered[k] # 0, ~Excused(registered[k], k)'
                 PROVE  /\ registered[k] = setup
                        /\ \/ phase \in {"loaded", "closing"} /\ k \in names[setup]
                           \/ phase = "deleting" /\ k \in doomed
                           \/ /\ phase \in {"loaded", "closing"}
                              /\ \E q \in Requests :
                                    lock'[setup] = q /\ Key(q)' = k /\ request'[q].stage = "added"
      BY <1>4 DEF RegisteredInv
    <2>1. ~Excused(registered[k], k)
      BY <1>4, <1>7, ExcusedStays
    <2>2. CASE \E q \in Requests : lock[setup] = q /\ Key(q) = k /\ request[q].stage = "added"
      <3>1. PICK q \in Requests : lock[setup] = q /\ Key(q) = k /\ request[q].stage = "added"
        BY <2>2
      <3>2. registered[k] = setup /\ Own(q) = setup
        BY <2>1, <3>1 DEF RegisteredInv, LockOwned, TypeOK
      <3>3. q # r
        BY <1>2, <1>4, <3>1, <3>2 DEF Excused
      <3>4. lock'[setup] = q
        BY <1>1, <1>2, <1>3, <1>4, <1>5, <1>6, <3>1, <3>2, <3>3 DEF TypeOK
      <3> QED
        BY <1>2, <1>4, <2>1, <3>1, <3>2, <3>3, <3>4 DEF RegisteredInv
    <2> QED
      BY <2>1, <2>2 DEF RegisteredInv
  <1>13. ServedInv'
    BY <1>1, <1>2, <1>3, <1>4, <1>5, <1>6, <1>7, ServedStays DEF ServedInv, TypeOK, NotYet
  <1>14. RefreshKnown'
    BY <1>1, <1>2, <1>3, <1>4, <1>5, <1>6 DEF RefreshKnown, TypeOK
  <1>15. OneRefresh'
    BY <1>1, <1>2, <1>3, <1>4, <1>5, <1>6 DEF OneRefresh, TypeOK, NotYet
  <1> QED
    BY <1>8, <1>9, <1>10, <1>11, <1>12, <1>13, <1>14, <1>15

\* A request goes away wherever it is.
LEMMA CancelInv ==
  ASSUME IInv, NEW r \in Requests, Cancel(r)
  PROVE  IInv'
  <1> USE NoOneAssumption, SetupsAssumption DEF InStage, Active, IInv, Own, Key
  <1>1. request' \in [Requests -> Records] /\ refresh' \in [Keys -> Requests \cup {NoOne}]
    BY OverSet DEF TypeOK, Records, Stages, Cancel
  <1>2. /\ \A s \in Requests :
             /\ Own(s)' = Own(s) /\ Key(s)' = Key(s)
             /\ request'[s].refresh => request[s].refresh /\ s # r
             /\ request'[s].stage = IF s = r THEN IF request[r].stage = "added" THEN "dropped" ELSE "over" ELSE request[s].stage
    BY OverSet DEF TypeOK, Records, Stages, Cancel
  <1>3. request[r].stage \in Active /\ ~request[r].refresh
          /\ lock' = [g \in Setups |-> IF lock[g] = r THEN NoOne ELSE lock[g]]
    BY DEF Cancel
  <1>4. UNCHANGED <<setup, phase, names, doomed, failed, late, registered>>
    BY DEF Cancel
  <1>5. \A k \in Keys : refresh'[k] = IF refresh[k] = r THEN NoOne ELSE refresh[k]
    BY OverSet DEF TypeOK, Records, Stages, Cancel
  <1>6. Own(r) \in Setups /\ Key(r) \in Keys
    BY DEF TypeOK, Own, Key
  <1>7. Keeps
    BY <1>2, <1>3, <1>4 DEF Keeps
  <1>8. TypeOK'
    <2>1. \A s \in Requests : lock[Own(s)]' = s <=> request'[s].stage \in {"adding", "added"}
      BY <1>1, <1>2, <1>3, <1>4, <1>5, <1>6 DEF TypeOK, LockOwned
    <2> QED
      BY <1>1, <1>2, <1>3, <1>4, <1>5, <1>6, <2>1 DEF TypeOK, Phases, Stages, Records
  <1>9. LockOwned'
    BY <1>1, <1>2, <1>3, <1>4, <1>5, <1>6 DEF LockOwned, TypeOK
  <1>10. NotYet'
    BY <1>1, <1>2, <1>3, <1>4, <1>5, <1>6 DEF NotYet, TypeOK
  <1>11. Outlived'
    BY <1>1, <1>2, <1>3, <1>4, <1>5, <1>6 DEF Outlived, NamesTaken, NotYet, LockOwned, TypeOK
  <1>12. RegisteredInv'
    <2> SUFFICES ASSUME NEW k \in Keys, registered[k] # 0, ~Excused(registered[k], k)'
                 PROVE  /\ registered[k] = setup
                        /\ \/ phase \in {"loaded", "closing"} /\ k \in names[setup]
                           \/ phase = "deleting" /\ k \in doomed
                           \/ /\ phase \in {"loaded", "closing"}
                              /\ \E q \in Requests :
                                    lock'[setup] = q /\ Key(q)' = k /\ request'[q].stage = "added"
      BY <1>4 DEF RegisteredInv
    <2>1. ~Excused(registered[k], k)
      BY <1>4, <1>7, ExcusedStays
    <2>2. CASE \E q \in Requests : lock[setup] = q /\ Key(q) = k /\ request[q].stage = "added"
      <3>1. PICK q \in Requests : lock[setup] = q /\ Key(q) = k /\ request[q].stage = "added"
        BY <2>2
      <3>2. registered[k] = setup /\ Own(q) = setup
        BY <2>1, <3>1 DEF RegisteredInv, LockOwned, TypeOK
      <3>3. q # r
        BY <1>2, <1>4, <3>1, <3>2 DEF Excused
      <3>4. lock'[setup] = q
        BY <1>1, <1>2, <1>3, <1>4, <1>5, <1>6, <3>1, <3>2, <3>3 DEF TypeOK
      <3> QED
        BY <1>2, <1>4, <2>1, <3>1, <3>2, <3>3, <3>4 DEF RegisteredInv
    <2> QED
      BY <2>1, <2>2 DEF RegisteredInv
  <1>13. ServedInv'
    BY <1>1, <1>2, <1>3, <1>4, <1>5, <1>6, <1>7, ServedStays DEF ServedInv, TypeOK, NotYet
  <1>14. RefreshKnown'
    BY <1>1, <1>2, <1>3, <1>4, <1>5, <1>6 DEF RefreshKnown, TypeOK
  <1>15. OneRefresh'
    BY <1>1, <1>2, <1>3, <1>4, <1>5, <1>6 DEF OneRefresh, TypeOK, NotYet
  <1> QED
    BY <1>8, <1>9, <1>10, <1>11, <1>12, <1>13, <1>14, <1>15

\* A call of stream_source begins.
LEMMA StreamSourceInv ==
  ASSUME IInv, NEW r \in Requests, NEW k \in Keys, StreamSource(r, k)
  PROVE  IInv'
  <1> USE NoOneAssumption, SetupsAssumption DEF InStage, Active, IInv, Own, Key
  <1>1. TypeOK'
    <2>1. \A s \in Requests : request'[s] =
             IF s = r THEN [stage |-> "mapping", key |-> k, setup |-> setup, refresh |-> FALSE] ELSE request[s]
      BY DEF StreamSource, Asked, TypeOK
    <2>2. lock[setup] # r /\ lock' = lock
      BY DEF LockOwned, TypeOK, StreamSource
    <2>3. \A s \in Requests : lock'[request'[s].setup] = s <=> request'[s].stage \in {"adding", "added"}
      BY <2>1, <2>2 DEF TypeOK
    <2> QED
      BY <2>1, <2>2, <2>3 DEF TypeOK, Phases, Stages, StreamSource, Asked
  <1>2. LockOwned'
    BY DEF LockOwned, TypeOK, StreamSource, Asked
  <1>3. NotYet'
    BY DEF NotYet, TypeOK, Setups, StreamSource, Asked
  <1>4. Outlived'
    BY DEF Outlived, NamesTaken, NotYet, LockOwned, TypeOK, Setups, StreamSource, Asked
  <1>5. RegisteredInv'
    BY DEF RegisteredInv, Excused, TypeOK, NotYet, LockOwned, Setups, StreamSource, Asked
  <1>6. ServedInv'
    BY DEF ServedInv, Served, TypeOK, NotYet, Setups, StreamSource, Asked
  <1>7. RefreshKnown'
    BY DEF RefreshKnown, TypeOK, NotYet, StreamSource, Asked
  <1>8. OneRefresh'
    BY DEF OneRefresh, TypeOK, NotYet, StreamSource, Asked
  <1> QED
    BY <1>1, <1>2, <1>3, <1>4, <1>5, <1>6, <1>7, <1>8

\* A refresh task begins where there is none.
LEMMA StreamUpdateInv ==
  ASSUME IInv, NEW r \in Requests, NEW k \in Keys, StreamUpdate(r, k)
  PROVE  IInv'
  <1> USE NoOneAssumption, SetupsAssumption DEF InStage, Active, IInv, Own, Key
  <1>1. TypeOK'
    <2>1. \A s \in Requests : request'[s] =
             IF s = r THEN [stage |-> "mapping", key |-> k, setup |-> setup, refresh |-> TRUE] ELSE request[s]
      BY DEF StreamUpdate, Asked, TypeOK
    <2>2. lock[setup] # r /\ lock' = lock
      BY DEF LockOwned, TypeOK, StreamUpdate
    <2>3. \A s \in Requests : lock'[request'[s].setup] = s <=> request'[s].stage \in {"adding", "added"}
      BY <2>1, <2>2 DEF TypeOK
    <2> QED
      BY <2>1, <2>2, <2>3 DEF TypeOK, Phases, Stages, StreamUpdate, Asked
  <1>2. LockOwned'
    BY DEF LockOwned, TypeOK, StreamUpdate, Asked, NoRefresh
  <1>3. NotYet'
    BY DEF NotYet, TypeOK, Setups, StreamUpdate, Asked, NoRefresh
  <1>4. Outlived'
    BY DEF Outlived, NamesTaken, NotYet, LockOwned, TypeOK, Setups, StreamUpdate, Asked, NoRefresh
  <1>5. RegisteredInv'
    <2>1. Keeps
      BY DEF Keeps, StreamUpdate, Asked, TypeOK, NotYet
    <2>2. \A s \in Requests : request[s].stage = "added" => request'[s] = request[s]
      BY DEF StreamUpdate, Asked, TypeOK
    <2> QED
      BY <2>1, <2>2, ExcusedStays DEF RegisteredInv, StreamUpdate, TypeOK
  <1>6. ServedInv'
    BY DEF ServedInv, Served, TypeOK, NotYet, Setups, StreamUpdate, Asked, NoRefresh
  <1>7. RefreshKnown'
    BY DEF RefreshKnown, TypeOK, NotYet, StreamUpdate, Asked, NoRefresh
  <1>8. OneRefresh'
    <2>1. \A s \in Requests : request'[s] =
             IF s = r THEN [stage |-> "mapping", key |-> k, setup |-> setup, refresh |-> TRUE] ELSE request[s]
      BY DEF StreamUpdate, Asked, TypeOK
    <2>2. \A s \in Requests \ {r} :
             request'[s].refresh /\ request'[s].stage \in {"mapping", "queued", "adding", "added"}
             /\ request'[s].setup = setup => request'[s].key # k
      BY <2>1 DEF StreamUpdate, NoRefresh, RefreshKnown, TypeOK
    <2> QED
      BY <2>1, <2>2 DEF OneRefresh
  <1> QED
    BY <1>1, <1>2, <1>3, <1>4, <1>5, <1>6, <1>7, <1>8

\* The platforms are unloaded.
LEMMA UnloadInv ==
  ASSUME IInv, Unload
  PROVE  IInv'
  <1> USE NoOneAssumption, SetupsAssumption DEF InStage, Active, IInv, Own, Key
  <1>1. TypeOK'
    BY DEF TypeOK, Phases, Stages, Unload
  <1>2. LockOwned'
    BY DEF LockOwned, TypeOK, Unload
  <1>3. NotYet'
    BY DEF NotYet, TypeOK, Setups, Unload
  <1>4. Outlived'
    BY DEF Outlived, NamesTaken, NotYet, LockOwned, TypeOK, Setups, Unload
  <1>5. RegisteredInv'
    BY DEF RegisteredInv, Excused, TypeOK, NotYet, LockOwned, Setups, Unload
  <1>6. ServedInv'
    BY DEF ServedInv, Served, TypeOK, NotYet, Setups, Unload
  <1>7. RefreshKnown'
    BY DEF RefreshKnown, TypeOK, NotYet, Unload
  <1>8. OneRefresh'
    BY DEF OneRefresh, TypeOK, NotYet, Unload
  <1> QED
    BY <1>1, <1>2, <1>3, <1>4, <1>5, <1>6, <1>7, <1>8

\* The close takes the names under the lock.
LEMMA TakeNamesInv ==
  ASSUME IInv, TakeNames
  PROVE  IInv'
  <1> USE NoOneAssumption, SetupsAssumption DEF InStage, Active, IInv, Own, Key
  <1>1. TypeOK'
    BY DEF TypeOK, Phases, Stages, TakeNames, CloseHasLock
  <1>2. LockOwned'
    BY DEF LockOwned, TypeOK, TakeNames, CloseHasLock
  <1>3. NotYet'
    BY DEF NotYet, TypeOK, Setups, TakeNames, CloseHasLock
  <1>4. Outlived'
    BY DEF Outlived, NamesTaken, NotYet, LockOwned, TypeOK, Setups, TakeNames, CloseHasLock
  <1>5. RegisteredInv'
    BY DEF RegisteredInv, Excused, TypeOK, NotYet, LockOwned, Setups, TakeNames, CloseHasLock
  <1>6. ServedInv'
    BY DEF ServedInv, Served, TypeOK, NotYet, Setups, TakeNames, CloseHasLock
  <1>7. RefreshKnown'
    BY DEF RefreshKnown, TypeOK, NotYet, TakeNames, CloseHasLock
  <1>8. OneRefresh'
    BY DEF OneRefresh, TypeOK, NotYet, TakeNames, CloseHasLock
  <1> QED
    BY <1>1, <1>2, <1>3, <1>4, <1>5, <1>6, <1>7, <1>8

\* A stream is deleted.
LEMMA DeleteInv ==
  ASSUME IInv, NEW k \in Keys, Delete(k)
  PROVE  IInv'
  <1> USE NoOneAssumption, SetupsAssumption DEF InStage, Active, IInv, Own, Key
  <1>1. TypeOK'
    BY DEF TypeOK, Phases, Stages, Delete
  <1>2. LockOwned'
    BY DEF LockOwned, TypeOK, Delete
  <1>3. NotYet'
    BY DEF NotYet, TypeOK, Setups, Delete
  <1>4. Outlived'
    BY DEF Outlived, NamesTaken, NotYet, LockOwned, TypeOK, Setups, Delete
  <1>5. RegisteredInv'
    BY DEF RegisteredInv, Excused, TypeOK, NotYet, LockOwned, Setups, Delete
  <1>6. ServedInv'
    BY DEF ServedInv, Served, TypeOK, NotYet, Setups, Delete
  <1>7. RefreshKnown'
    BY DEF RefreshKnown, TypeOK, NotYet, Delete
  <1>8. OneRefresh'
    BY DEF OneRefresh, TypeOK, NotYet, Delete
  <1> QED
    BY <1>1, <1>2, <1>3, <1>4, <1>5, <1>6, <1>7, <1>8

\* A deletion fails.
LEMMA DeleteFailsInv ==
  ASSUME IInv, NEW k \in Keys, DeleteFails(k)
  PROVE  IInv'
  <1> USE NoOneAssumption, SetupsAssumption DEF InStage, Active, IInv, Own, Key
  <1>1. TypeOK'
    BY DEF TypeOK, Phases, Stages, DeleteFails
  <1>2. LockOwned'
    BY DEF LockOwned, TypeOK, DeleteFails
  <1>3. NotYet'
    <2>1. \A j \in Keys : registered'[j] \in {registered[j], 0}
      BY DEF DeleteFails, TypeOK
    <2> QED
      BY <2>1 DEF NotYet, TypeOK, Setups, DeleteFails
  <1>4. Outlived'
    BY DEF Outlived, NamesTaken, NotYet, LockOwned, TypeOK, Setups, DeleteFails
  <1>5. RegisteredInv'
    BY DEF RegisteredInv, Excused, TypeOK, NotYet, LockOwned, Setups, DeleteFails
  <1>6. ServedInv'
    BY DEF ServedInv, Served, TypeOK, NotYet, Setups, DeleteFails
  <1>7. RefreshKnown'
    BY DEF RefreshKnown, TypeOK, NotYet, DeleteFails
  <1>8. OneRefresh'
    BY DEF OneRefresh, TypeOK, NotYet, DeleteFails
  <1> QED
    BY <1>1, <1>2, <1>3, <1>4, <1>5, <1>6, <1>7, <1>8

\* The streams are closed.
LEMMA ClosedInv ==
  ASSUME IInv, Closed
  PROVE  IInv'
  <1> USE NoOneAssumption, SetupsAssumption DEF InStage, Active, IInv, Own, Key
  <1>1. TypeOK'
    BY DEF TypeOK, Phases, Stages, Closed
  <1>2. LockOwned'
    BY DEF LockOwned, TypeOK, Closed
  <1>3. NotYet'
    BY DEF NotYet, TypeOK, Setups, Closed
  <1>4. Outlived'
    BY DEF Outlived, NamesTaken, NotYet, LockOwned, TypeOK, Setups, Closed
  <1>5. RegisteredInv'
    BY DEF RegisteredInv, Excused, TypeOK, NotYet, LockOwned, Setups, Closed
  <1>6. ServedInv'
    BY DEF ServedInv, Served, TypeOK, NotYet, Setups, Closed
  <1>7. RefreshKnown'
    BY DEF RefreshKnown, TypeOK, NotYet, Closed
  <1>8. OneRefresh'
    BY DEF OneRefresh, TypeOK, NotYet, Closed
  <1> QED
    BY <1>1, <1>2, <1>3, <1>4, <1>5, <1>6, <1>7, <1>8

\* The pool is closed.
LEMMA PoolClosedInv ==
  ASSUME IInv, PoolClosed
  PROVE  IInv'
  <1> USE NoOneAssumption, SetupsAssumption DEF InStage, Active, IInv, Own, Key
  <1>1. TypeOK'
    BY DEF TypeOK, Phases, Stages, PoolClosed
  <1>2. LockOwned'
    BY DEF LockOwned, TypeOK, PoolClosed
  <1>3. NotYet'
    BY DEF NotYet, TypeOK, Setups, PoolClosed
  <1>4. Outlived'
    BY DEF Outlived, NamesTaken, NotYet, LockOwned, TypeOK, Setups, PoolClosed
  <1>5. RegisteredInv'
    BY DEF RegisteredInv, Excused, TypeOK, NotYet, LockOwned, Setups, PoolClosed
  <1>6. ServedInv'
    BY DEF ServedInv, Served, TypeOK, NotYet, Setups, PoolClosed
  <1>7. RefreshKnown'
    BY DEF RefreshKnown, TypeOK, NotYet, PoolClosed
  <1>8. OneRefresh'
    BY DEF OneRefresh, TypeOK, NotYet, PoolClosed
  <1> QED
    BY <1>1, <1>2, <1>3, <1>4, <1>5, <1>6, <1>7, <1>8

\* The entry is set up again.
LEMMA SetupAgainInv ==
  ASSUME IInv, SetupAgain
  PROVE  IInv'
  <1> USE NoOneAssumption, SetupsAssumption DEF InStage, Active, IInv, Own, Key
  <1>1. TypeOK'
    <2>1. setup' \in Setups
      BY DEF SetupAgain, Setups, TypeOK
    <2> QED
      BY <2>1 DEF SetupAgain, TypeOK, Phases
  <1>2. LockOwned'
    BY DEF LockOwned, TypeOK, SetupAgain
  <1>3. NotYet'
    BY DEF NotYet, TypeOK, Setups, SetupAgain
  <1>4. Outlived'
    BY DEF Outlived, NamesTaken, NotYet, LockOwned, TypeOK, Setups, SetupAgain
  <1>5. RegisteredInv'
    BY DEF RegisteredInv, Excused, TypeOK, NotYet, LockOwned, Setups, SetupAgain
  <1>6. ServedInv'
    BY DEF ServedInv, Served, TypeOK, NotYet, Setups, SetupAgain
  <1>7. RefreshKnown'
    <2>1. \A r \in Requests : request'[r].setup # setup'
      BY DEF SetupAgain, NotYet, TypeOK, Setups
    <2> QED
      BY <2>1 DEF RefreshKnown
  <1>8. OneRefresh'
    BY DEF OneRefresh, TypeOK, NotYet, SetupAgain
  <1> QED
    BY <1>1, <1>2, <1>3, <1>4, <1>5, <1>6, <1>7, <1>8

-----------------------------------------------------------------------------
(* The theorems *)

\* The invariant holds at the start.
LEMMA InitInv == Init => IInv
  <1> SUFFICES ASSUME Init PROVE IInv
    OBVIOUS
  <1> USE NoOneAssumption, SetupsAssumption DEF Init, InStage, Active, Own, Key
  <1>1. PICK k \in Keys : request = [r \in Requests |->
                              [stage |-> "idle", key |-> k, setup |-> 1, refresh |-> FALSE]]
    OBVIOUS
  <1>2. TypeOK
    BY <1>1 DEF TypeOK, Phases, Stages, Setups
  <1>3. LockOwned /\ NotYet
    BY <1>1 DEF LockOwned, NotYet, Setups
  <1>4. Outlived
    BY <1>1 DEF Outlived, NamesTaken
  <1>5. RegisteredInv /\ ServedInv
    BY <1>1 DEF RegisteredInv, ServedInv, Setups
  <1>6. RefreshKnown /\ OneRefresh
    BY <1>1 DEF RefreshKnown, OneRefresh
  <1> QED
    BY <1>2, <1>3, <1>4, <1>5, <1>6 DEF IInv

\* A step that changes nothing preserves the invariant.
LEMMA StutterInv == IInv /\ UNCHANGED vars => IInv'
BY DEF IInv, TypeOK, LockOwned, NotYet, NamesTaken, Outlived, Excused, RegisteredInv, Served,
       ServedInv, RefreshKnown, OneRefresh, vars, InStage, Own, Key

\* Every step preserves the invariant.
LEMMA NextInv == IInv /\ [Next]_vars => IInv'
  <1> SUFFICES ASSUME IInv, [Next]_vars PROVE IInv'
    OBVIOUS
  <1>1. CASE \E r \in Requests : Serving(r) \/ Go2rtcAdds(r) \/ Cancel(r)
    BY <1>1, MappedInv, MappingFailsInv, KnownInv, AddInv, AddReturnsInv, AddFailsInv,
       Go2rtcAddsInv, CancelInv DEF Serving
  <1>2. CASE \E r \in Requests, k \in Keys : StreamSource(r, k) \/ StreamUpdate(r, k)
    BY <1>2, StreamSourceInv, StreamUpdateInv
  <1>3. CASE Closing
    BY <1>3, TakeNamesInv, DeleteInv, DeleteFailsInv, ClosedInv DEF Closing
  <1>4. CASE Unload \/ PoolClosed \/ SetupAgain
    BY <1>4, UnloadInv, PoolClosedInv, SetupAgainInv
  <1>5. CASE UNCHANGED vars
    BY <1>5, StutterInv
  <1> QED
    BY <1>1, <1>2, <1>3, <1>4, <1>5 DEF Next

\* The inductive invariant holds in every state.
THEOREM Invariance == Spec => []IInv
BY InitInv, NextInv, PTL DEF Spec

\* Every variable keeps its type, and the holder of a manager's lock is the
\* request whose call of go2rtc is under way (restream.py:38).
THEOREM TypeCorrect == Spec => []TypeOK
<1>1. IInv => TypeOK
  BY DEF IInv
<1> QED
  BY <1>1, Invariance, PTL

\* Whatever fails, is late or goes away, each stream that go2rtc serves is
\* known to the open manager, or there is a cause for what a close has left
\* (restream.py:34-89).
THEOREM AccountedTheorem == Spec => []Accounted
<1>1. IInv => Accounted
  BY NoOneAssumption DEF IInv, RegisteredInv, Excused, Accounted, TypeOK, InStage
<1> QED
  BY <1>1, Invariance, PTL

\* What the manager of the loaded setup remembers is what go2rtc serves, unless
\* a request of an earlier setup outlived its close (restream.py:48-60).
THEOREM ServedFromThisSetupTheorem == Spec => []ServedFromThisSetup
<1>1. IInv => ServedFromThisSetup
  BY DEF IInv, ServedInv, Served, ServedFromThisSetup
<1> QED
  BY <1>1, Invariance, PTL

\* An entity never has two refresh tasks, over any number of reloads
\* (camera.py:174-199).
THEOREM OneRefreshTheorem == Spec => []OneRefresh
<1>1. IInv => OneRefresh
  BY DEF IInv
<1> QED
  BY <1>1, Invariance, PTL
=============================================================================
