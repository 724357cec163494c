------------------------------- MODULE MCSnaps -------------------------------
(* Instances of Snaps for TLC: connections and users are interchangeable. *)
EXTENDS Snaps

Symmetry == Permutations(Clients) \cup Permutations(Users)
=============================================================================
