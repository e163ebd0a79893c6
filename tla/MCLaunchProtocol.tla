-------------------------- MODULE MCLaunchProtocol --------------------------
(* Instances of LaunchProtocol for TLC. *)
EXTENDS LaunchProtocol, TLC

Symmetric == Permutations(Tasks) \union Permutations(Launches)
=============================================================================
