------------------------------ MODULE MCHostFS ------------------------------
(* Instances of HostFS for TLC. *)
EXTENDS HostFS
Names == Permutations(Name)
=============================================================================
