--------------------------- MODULE MCLanOpener ---------------------------
(* Instances of LanOpener for TLC. *)
EXTENDS LanOpener, TLC

\* Candidates of one kind are interchangeable: sound for the safety runs.
Symmetry == Permutations(Inbound) \cup Permutations(Outbound)
=============================================================================
