----------------------------- MODULE MCMentions -----------------------------
(* Texts of up to three atoms, with one bouncer member and one other.        *)
EXTENDS Mentions
=============================================================================
