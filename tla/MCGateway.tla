----------------------------- MODULE MCGateway -----------------------------
(* Instances of Gateway for TLC.                                           *)
EXTENDS Gateway, TLC

Symmetry == Permutations(Conn) \cup Permutations(Sess)
                \cup Permutations(User) \cup Permutations(Dispatcher)
=============================================================================
