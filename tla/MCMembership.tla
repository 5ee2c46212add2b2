---------------------------- MODULE MCMembership ----------------------------
\* Membership for TLC.
EXTENDS Membership, TLC

Symmetry == Permutations(User) \cup Permutations(Net) \cup Permutations(Link)
                \cup Permutations(Caller)
=============================================================================
