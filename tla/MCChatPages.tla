----------------------------- MODULE MCChatPages -----------------------------
(* Instances of ChatPages for TLC: connections are interchangeable. *)
EXTENDS ChatPages, TLC

Symmetry == Permutations(Clients)
=============================================================================
