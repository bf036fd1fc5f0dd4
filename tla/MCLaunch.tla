------------------------------ MODULE MCLaunch ------------------------------
(* Instances of Launch for TLC: client processes and launches are alike. *)
EXTENDS Launch_proofs, TLC

Symmetry == Permutations(Clients) \cup Permutations(Launches)
=============================================================================
