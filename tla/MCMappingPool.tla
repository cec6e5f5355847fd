-------------------------- MODULE MCMappingPool --------------------------
(* Instances of MappingPool for TLC. *)
EXTENDS MappingPool, TLC

\* All the parties are interchangeable: sound for the safety runs.
Symmetry == Permutations(Clients) \cup Permutations(Callers) \cup Permutations(Maps)
            \cup Permutations(RemotePorts) \cup Permutations(Hosts)
=============================================================================
