------------------------------ MODULE MCAccounts ------------------------------
(* Instances of Accounts for TLC: connections, names and ids are            *)
(* interchangeable.                                                         *)
EXTENDS Accounts, TLC

Symmetry == Permutations(Clients) \cup Permutations(Names) \cup Permutations(Ids)
=============================================================================
