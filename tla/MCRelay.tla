------------------------------ MODULE MCRelay -------------------------------
(* Relay on a small instance; REST requests are interchangeable.           *)
EXTENDS Relay

Symmetry == Permutations(Reqs)
=============================================================================
