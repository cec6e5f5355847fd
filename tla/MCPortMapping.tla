-------------------------- MODULE MCPortMapping --------------------------
(* Instances of PortMapping for TLC. *)
EXTENDS PortMapping, TLC

\* Connections and ports are interchangeable: sound for the safety runs.
Symmetry == Permutations(Conns) \cup Permutations(Ports)

\* For the run over few request ids: at most one frame is under way in each
\* direction, and at most one stream has received data.
Short ==
    /\ Len(up) <= 1 /\ Len(down) <= 1
    /\ Cardinality({c \in Conns : cam[c].sendSeq > 0}) <= 1
=============================================================================
