----------------------------- MODULE MCBroadcast ------------------------------
EXTENDS Broadcast, TLC

(* No connection of the room differs from another. *)
Symmetry == Permutations(Clients)
==============================================================================
