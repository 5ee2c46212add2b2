---------------------------- MODULE MemberMirror ----------------------------
(***************************************************************************)
(* What the member sidebar promises, without how: clients hold copies of   *)
(* lists; the truth moves on its own, a refresh rewrites the copies of one *)
(* list, and no copy a client holds stays wrong for ever.                  *)
(***************************************************************************)
CONSTANTS
  Clients,         \* who holds copies
  Rolls            \* of which lists

VARIABLES
  truth,           \* the rows of each list
  copy,            \* the rows each client shows, per list
  held             \* the copies that have to follow: pairs <<client, list>>

Wrong(c, l) == <<c, l>> \in held /\ copy[c][l] # truth[l]

Init == \A c \in Clients, l \in Rolls : ~Wrong(c, l)

\* People come and go, clients open and close lists, the link comes and goes.
Move == UNCHANGED copy

\* The copies of list l are rewritten.
Refresh(l) ==
  /\ UNCHANGED truth
  /\ \A c \in Clients, k \in Rolls : k # l => copy'[c][k] = copy[c][k]

Next == Move \/ \E l \in Rolls : Refresh(l)

\* What a step may do, without what must happen.
Moves == Init /\ [][Next]_<<truth, copy, held>>

Spec ==
  /\ Moves
  /\ \A c \in Clients, l \in Rolls : []<>~Wrong(c, l)

=============================================================================
