-------------------------- MODULE MCControllerLease --------------------------
(* Instances of ControllerLease for TLC. *)
EXTENDS ControllerLease, TLC

Symmetric == Permutations(Controllers) \union Permutations(Tasks) \union Permutations(Launches)
=============================================================================
