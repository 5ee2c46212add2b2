------------------------------ MODULE Channels ------------------------------
(***************************************************************************)
(* The channels of one network: the registry of channel records, every     *)
(* member's auto-join list and the joins that are pending upstream.  REST  *)
(* requests create and remove channels, each connection's event loop       *)
(* handles what its server connection delivers, in order; both sides write *)
(* memberships, and some handlers write back a whole membership they read  *)
(* in an earlier step.  The upstream server is external.                   *)
(***************************************************************************)
EXTENDS Integers, Sequences, FiniteSets, SequencesExt

CONSTANTS
  Users, Names,    \* members of the network; IRC channel names
  MaxOps           \* bound: requests, server actions and link drops

ASSUME ChannelAssumption == IsFiniteSet(Names) /\ "" \notin Names

VARIABLES
  auto,            \* Membership.AutoJoin of each user
  index,           \* registry: IRC name to channel id
  record,          \* registry: channel id to the record's IRC name
  pendingJoins,    \* conn.pendingJoins of each user
  rest,            \* the user's create or remove request, between two steps
  handler,         \* a handler between its read and its write
  up, joined,      \* the link; the channels the server has the user in
  out, inbox,      \* commands under way to the server, lines from it
  opsDone,
  raced            \* one of the races AutoJoinTracksUpstream excuses

channelVars == <<auto, index, record, pendingJoins, rest, handler, up, joined,
                 out, inbox, opsDone, raced>>
upstream == <<up, joined, out, inbox>>
registry == <<index, record>>

NoRest == [pc |-> "none", n |-> ""]
NoHandler == [pc |-> "none", snap |-> [u \in Users |-> {}], old |-> "", new |-> ""]

ChannelInit ==
  /\ auto = [u \in Users |-> {}] /\ index = << >> /\ record = << >>
  /\ pendingJoins = [u \in Users |-> {}]
  /\ rest = [u \in Users |-> NoRest] /\ handler = [u \in Users |-> NoHandler]
  /\ up = [u \in Users |-> TRUE] /\ joined = [u \in Users |-> {}]
  /\ out = [u \in Users |-> << >>] /\ inbox = [u \in Users |-> << >>]
  /\ opsDone = 0 /\ raced = FALSE

RenamePending ==
  \E u \in Users : \/ handler[u].pc = "rename"
                  \/ \E k \in DOMAIN inbox[u] : inbox[u][k][1] = "RENAME"

\* A bounded step; one taken while a rename is on its way is marked.
Op == opsDone < MaxOps /\ opsDone' = opsDone + 1 /\ raced' = (raced \/ RenamePending)

Calm(u) ==
  rest[u] = NoRest /\ handler[u] = NoHandler /\ out[u] = << >> /\ inbox[u] = << >>

----------------------------------------------------------------------------
(* Storage.                                                                *)

\* EnsureChannel: the name's record, minted on first sight.
EnsureChannel(n) ==
  IF n \in DOMAIN index THEN UNCHANGED registry
  ELSE /\ index' = [k \in DOMAIN index \cup {n} |->
                      IF k = n THEN Len(record) + 1 ELSE index[k]]
       /\ record' = Append(record, n)

MembershipAddChannel(u, n) == auto' = [auto EXCEPT ![u] = @ \cup {n}]

MembershipRemoveChannel(u, n) == auto' = [auto EXCEPT ![u] = @ \ {n}]

\* RenameChannel: record and index move to the new name.
StoreRename(old, new) ==
  /\ index' = [k \in (DOMAIN index \ {old}) \cup {new} |->
                 IF k = new THEN index[old] ELSE index[k]]
  /\ record' = [record EXCEPT ![index[old]] = new]

----------------------------------------------------------------------------
(* REST: CreateChannel and RemoveChannel.                                  *)

\* A command written on a dead link goes nowhere.
Send(u, cmd, n) ==
  out' = IF up[u] THEN [out EXCEPT ![u] = Append(@, <<cmd, n>>)] ELSE out

CreateChannel(u, n) ==
  /\ rest[u] = NoRest /\ Op
  /\ MembershipAddChannel(u, n) /\ EnsureChannel(n)
  /\ rest' = [rest EXCEPT ![u] = [pc |-> "join", n |-> n]]
  /\ UNCHANGED <<pendingJoins, handler, upstream>>

JoinChannel(u) ==
  /\ rest[u].pc = "join"
  /\ pendingJoins' = [pendingJoins EXCEPT ![u] = @ \cup {rest[u].n}]
  /\ Send(u, "JOIN", rest[u].n)
  /\ rest' = [rest EXCEPT ![u] = NoRest]
  /\ UNCHANGED <<auto, registry, handler, up, joined, inbox, opsDone, raced>>

\* Only a channel of the registry can be removed.
RemoveChannel(u, n) ==
  /\ rest[u] = NoRest /\ n \in DOMAIN index /\ n \in auto[u] /\ Op
  /\ MembershipRemoveChannel(u, n)
  /\ rest' = [rest EXCEPT ![u] = [pc |-> "part", n |-> n]]
  /\ UNCHANGED <<registry, pendingJoins, handler, upstream>>

PartChannel(u) ==
  /\ rest[u].pc = "part"
  /\ pendingJoins' = [pendingJoins EXCEPT ![u] = @ \ {rest[u].n}]
  /\ Send(u, "PART", rest[u].n)
  /\ rest' = [rest EXCEPT ![u] = NoRest]
  /\ UNCHANGED <<auto, registry, handler, up, joined, inbox, opsDone, raced>>

\* A relayed message or a guild payload registers the channel's name.
Registered(u, n) ==
  /\ n \in auto[u] \ DOMAIN index /\ EnsureChannel(n)
  /\ UNCHANGED <<auto, pendingJoins, rest, handler, upstream, opsDone, raced>>

----------------------------------------------------------------------------
(* The event loop of a connection.                                         *)

Arrives(u, kind) ==
  /\ handler[u] = NoHandler /\ inbox[u] # << >> /\ Head(inbox[u])[1] = kind
  /\ inbox' = [inbox EXCEPT ![u] = Tail(@)]

\* Mutant: the own JOIN is taken as a confirmation only.
HandleJoinUnpersisted(u) ==
  LET n == Head(inbox[u])[2]
  IN  /\ Arrives(u, "JOIN")
      /\ pendingJoins' = [pendingJoins EXCEPT ![u] = @ \ {n}]
      /\ UNCHANGED <<auto, registry, rest, handler, up, joined, out, opsDone, raced>>

\* The own JOIN confirms a pending join and is persisted in any case.
HandleJoin(u) ==
  LET n == Head(inbox[u])[2]
  IN  /\ Arrives(u, "JOIN")
      /\ pendingJoins' = [pendingJoins EXCEPT ![u] = @ \ {n}]
      /\ MembershipAddChannel(u, n)
      /\ UNCHANGED <<registry, rest, handler, up, joined, out, opsDone, raced>>

\* The own PART, or a KICK of the own nick.
HandlePart(u) ==
  /\ Arrives(u, "PART")
  /\ MembershipRemoveChannel(u, Head(inbox[u])[2])
  /\ UNCHANGED <<registry, pendingJoins, rest, handler, up, joined, out, opsDone, raced>>

\* rollbackJoin: a refusal counts only while the join is pending.
RollbackJoin(u) ==
  LET n == Head(inbox[u])[2]
  IN  /\ Arrives(u, "ERR")
      /\ pendingJoins' = [pendingJoins EXCEPT ![u] = @ \ {n}]
      /\ IF n \in pendingJoins[u] THEN MembershipRemoveChannel(u, n)
         ELSE UNCHANGED auto
      /\ raced' = (raced \/ n \in auto[u] \ pendingJoins[u])
      /\ UNCHANGED <<registry, rest, handler, up, joined, out, opsDone>>

\* applyRename: an unknown name ends here; else the registry follows, and
\* the memberships are listed ...
ApplyRename(u) ==
  LET old == Head(inbox[u])[2]
      new == Head(inbox[u])[3]
  IN  /\ Arrives(u, "RENAME")
      /\ IF old \notin DOMAIN index THEN UNCHANGED <<registry, handler>>
         ELSE /\ StoreRename(old, new)
              /\ handler' = [handler EXCEPT ![u] =
                   [pc |-> "rename", snap |-> auto, old |-> old, new |-> new]]
      /\ raced' = (raced \/ (/\ old \in auto[u] \ DOMAIN index
                              /\ \A v \in Users : handler[v].old # old))
      /\ UNCHANGED <<auto, pendingJoins, rest, up, joined, out, opsDone>>

\* ... and the ones with the old name are written back with the new one.
RenameMembers(u) ==
  LET h == handler[u]
      changed == {v \in Users : h.old \in h.snap[v]}
  IN  /\ h.pc = "rename"
      /\ auto' = [v \in Users |-> IF v \in changed THEN (h.snap[v] \ {h.old}) \cup {h.new}
                                  ELSE auto[v]]
      /\ raced' = (raced \/ \E v \in changed : auto[v] # h.snap[v])
      /\ handler' = [handler EXCEPT ![u] = NoHandler]
      /\ UNCHANGED <<registry, pendingJoins, rest, upstream, opsDone>>

\* applyOwnNick reads the membership ...
ApplyOwnNick(u) ==
  /\ Arrives(u, "NICK")
  /\ handler' = [handler EXCEPT ![u] = [NoHandler EXCEPT !.pc = "nick", !.snap = auto]]
  /\ UNCHANGED <<auto, registry, pendingJoins, rest, up, joined, out, opsDone, raced>>

\* ... and writes the whole of it back.
NickWrite(u) ==
  /\ handler[u].pc = "nick"
  /\ auto' = [auto EXCEPT ![u] = handler[u].snap[u]]
  /\ raced' = (raced \/ auto[u] # handler[u].snap[u])
  /\ handler' = [handler EXCEPT ![u] = NoHandler]
  /\ UNCHANGED <<registry, pendingJoins, rest, upstream, opsDone>>

\* CONNECTED reads the membership ...
ConnectedRead(u) ==
  /\ handler[u].pc = "connected"
  /\ handler' = [handler EXCEPT ![u] = [@ EXCEPT !.pc = "rejoin", !.snap = auto]]
  /\ UNCHANGED <<auto, registry, pendingJoins, rest, upstream, opsDone, raced>>

\* ... writes it back when the nick changed, and joins what it read.
ConnectedJoin(u, renamed) ==
  LET snap == handler[u].snap[u]
  IN  /\ handler[u].pc = "rejoin"
      /\ auto' = IF renamed THEN [auto EXCEPT ![u] = snap] ELSE auto
      /\ raced' = (raced \/ (renamed /\ auto[u] # snap))
      /\ pendingJoins' = [pendingJoins EXCEPT ![u] = @ \cup snap]
      /\ out' = [out EXCEPT ![u] = @ \o
                   [k \in 1 .. Cardinality(snap) |-> <<"JOIN", SetToSeq(snap)[k]>>]]
      /\ handler' = [handler EXCEPT ![u] = NoHandler]
      /\ UNCHANGED <<registry, rest, up, joined, inbox, opsDone>>

----------------------------------------------------------------------------
(* The server and the link.                                                *)

Deliver(u, e) == inbox' = [inbox EXCEPT ![u] = Append(@, e)]

\* The next command: a JOIN is refused or obeyed, one that changes nothing
\* gets no answer.
ServerCommand(u, refuse) ==
  LET cmd == Head(out[u])[1]
      n == Head(out[u])[2]
  IN  /\ out[u] # << >> /\ out' = [out EXCEPT ![u] = Tail(@)]
      /\ CASE cmd = "JOIN" /\ n \notin joined[u] /\ refuse ->
                Deliver(u, <<"ERR", n>>) /\ UNCHANGED joined
           [] cmd = "JOIN" /\ n \notin joined[u] /\ ~refuse ->
                Deliver(u, <<"JOIN", n>>) /\ joined' = [joined EXCEPT ![u] = @ \cup {n}]
           [] cmd = "PART" /\ n \in joined[u] ->
                Deliver(u, <<"PART", n>>) /\ joined' = [joined EXCEPT ![u] = @ \ {n}]
           [] OTHER -> UNCHANGED <<joined, inbox>>
      /\ UNCHANGED <<auto, registry, pendingJoins, rest, handler, up, opsDone, raced>>

\* Services force a join or an operator kicks.
ServerForces(u, n) ==
  /\ up[u] /\ handler[u].pc \notin {"connected", "rejoin"} /\ Op
  /\ IF n \in joined[u]
     THEN Deliver(u, <<"PART", n>>) /\ joined' = [joined EXCEPT ![u] = @ \ {n}]
     ELSE Deliver(u, <<"JOIN", n>>) /\ joined' = [joined EXCEPT ![u] = @ \cup {n}]
  /\ UNCHANGED <<auto, registry, pendingJoins, rest, handler, up, out>>

\* A channel is renamed for everyone in it; the new name must be unused.
ServerRename(old, new) ==
  LET in == {u \in Users : old \in joined[u]}
  IN  /\ opsDone < MaxOps /\ opsDone' = opsDone + 1
      /\ raced' = (raced \/ \E u \in Users : ~Calm(u))
      /\ in # {} /\ \A u \in Users : new \notin joined[u]
      /\ joined' = [u \in Users |-> IF u \in in THEN (joined[u] \ {old}) \cup {new}
                                    ELSE joined[u]]
      /\ inbox' = [u \in Users |-> IF u \in in
                                    THEN Append(inbox[u], <<"RENAME", old, new>>)
                                    ELSE inbox[u]]
      /\ UNCHANGED <<auto, registry, pendingJoins, rest, handler, up, out>>

ServerNick(u) ==
  /\ up[u] /\ Op /\ Deliver(u, <<"NICK", "">>)
  /\ UNCHANGED <<auto, registry, pendingJoins, rest, handler, up, joined, out>>

\* What was under way is lost; the connection's own maps stay.
LinkDrops(u) ==
  /\ up[u] /\ handler[u] = NoHandler /\ Op
  /\ up' = [up EXCEPT ![u] = FALSE] /\ joined' = [joined EXCEPT ![u] = {}]
  /\ out' = [out EXCEPT ![u] = << >>] /\ inbox' = [inbox EXCEPT ![u] = << >>]
  /\ UNCHANGED <<auto, registry, pendingJoins, rest, handler>>

LinkReturns(u) ==
  /\ ~up[u] /\ up' = [up EXCEPT ![u] = TRUE]
  /\ handler' = [handler EXCEPT ![u] = [NoHandler EXCEPT !.pc = "connected"]]
  /\ raced' = (raced \/ RenamePending)
  /\ UNCHANGED <<auto, registry, pendingJoins, rest, joined, out, inbox, opsDone>>

EventLoop(u) ==
  \/ HandleJoin(u) \/ HandlePart(u) \/ RollbackJoin(u)
  \/ ApplyRename(u) \/ RenameMembers(u) \/ ApplyOwnNick(u) \/ NickWrite(u)
  \/ ConnectedRead(u) \/ \E b \in BOOLEAN : ConnectedJoin(u, b)

ChannelNext ==
  \/ \E u \in Users :
       \/ JoinChannel(u) \/ PartChannel(u) \/ EventLoop(u)
       \/ ServerNick(u) \/ LinkDrops(u) \/ LinkReturns(u)
       \/ \E n \in Names : CreateChannel(u, n) \/ RemoveChannel(u, n)
                             \/ Registered(u, n) \/ ServerForces(u, n)
       \/ \E b \in BOOLEAN : ServerCommand(u, b)
  \/ \E old, new \in Names : old # new /\ ServerRename(old, new)

ChannelSpec == ChannelInit /\ [][ChannelNext]_channelVars

----------------------------------------------------------------------------
(* Properties.                                                             *)

ChannelsQuiet(u) ==
  /\ up[u] /\ Calm(u)
  /\ \A v \in Users : handler[v].pc # "rename"

\* Once nothing is under way, a member's auto-join list is exactly the set
\* of channels the server has the member in, whatever the interleaving of
\* joins, refusals, kicks and drops and through renames, unless a stale
\* membership was written back, a refusal came after a removal had cleared
\* its pending join, a rename crossed other traffic or the renamed channel
\* had no registry record.
AutoJoinTracksUpstream ==
  ~raced => \A u \in Users : ChannelsQuiet(u) => auto[u] = joined[u]

\* The index leads to a record of that very name, also through renames.
IndexSound ==
  \A n \in DOMAIN index : index[n] \in DOMAIN record /\ record[index[n]] = n

\* The registry and the auto-join lists follow the server (EnsureChannel,
\* MembershipAddChannel, applyRename).
ChannelsTracked ==
  AutoJoinTracksUpstream /\ IndexSound

=============================================================================
