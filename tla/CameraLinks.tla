----------------------------- MODULE CameraLinks -----------------------------
(***************************************************************************)
(* What OrbwebLanMappingPool promises its users, whatever clients, retries *)
(* and failures interleave: the link to a camera is opened by one at a     *)
(* time and only while there is none; a link that failed is replaced, never*)
(* kept beside the new one; closing the pool drops every link at once and  *)
(* begins no other.  How requests queue for a link is left open.           *)
(***************************************************************************)
CONSTANTS Hosts, Openers, Transports

VARIABLES
    accepting,  \* the pool is not closed
    opener,     \* who opens the link of each camera
    up, failed  \* transports of each camera: in use, and stopped but not closed

vars == <<accepting, opener, up, failed>>

Unlinked == [h \in Hosts |-> {}]

Init == accepting = TRUE /\ opener = Unlinked /\ up = Unlinked /\ failed = Unlinked

BeginOpen(h, c) ==
    /\ accepting
    /\ opener[h] = {} /\ up[h] = {}
    /\ opener' = [opener EXCEPT ![h] = {c}]
    /\ failed' = [failed EXCEPT ![h] = {}]
    /\ UNCHANGED <<accepting, up>>

\* The only way to a link: from an opening that was alone.
Linked(h, t) ==
    /\ opener[h] # {} /\ up[h] = {} /\ failed[h] = {}
    /\ opener' = [opener EXCEPT ![h] = {}]
    /\ up' = [up EXCEPT ![h] = {t}]
    /\ UNCHANGED <<accepting, failed>>

NotLinked(h) ==
    /\ opener[h] # {}
    /\ opener' = [opener EXCEPT ![h] = {}]
    /\ UNCHANGED <<accepting, up, failed>>

Fail(h) ==
    /\ up[h] # {}
    /\ up' = [up EXCEPT ![h] = {}]
    /\ failed' = [failed EXCEPT ![h] = up[h]]
    /\ UNCHANGED <<accepting, opener>>

Drop(h) ==
    /\ up' = [up EXCEPT ![h] = {}]
    /\ failed' = [failed EXCEPT ![h] = {}]
    /\ UNCHANGED <<accepting, opener>>

Close ==
    /\ accepting
    /\ accepting' = FALSE
    /\ up' = Unlinked /\ failed' = Unlinked
    /\ UNCHANGED opener

Next ==
    \/ \E h \in Hosts :
          \/ \E c \in Openers : BeginOpen(h, c)
          \/ \E t \in Transports : Linked(h, t)
          \/ NotLinked(h) \/ Fail(h) \/ Drop(h)
    \/ Close

Spec == Init /\ [][Next]_vars
=============================================================================
