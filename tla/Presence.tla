------------------------------ MODULE Presence ------------------------------
(***************************************************************************)
(* Away state and account facts of the people in one channel, the user's   *)
(* own status among them, on one connection: what the server announces and *)
(* what it does not, renames, departures, WHO sweeps, link losses.  Lines  *)
(* are handled in order; the server is external.                           *)
(***************************************************************************)
EXTENDS Integers, Sequences, FiniteSets

CONSTANTS
  Folk,            \* everyone else
  Self,            \* the user
  Handles,         \* nicks
  MaxTurns         \* bound: things that happen

VARIABLES
  nickOf, whereIs, isAway, account,  \* the server: everybody's nick, place, state
  awayNotify, selfEcho,  \* its manners: away-notify; AWAY sent back to its sender
  online, wire,    \* the link and the lines on it
  away,            \* conn.away: the nicks that are away
  peers,           \* conn.peers: what is known of a nick
  ownStatus,       \* conn.ownStatus
  status,          \* the status the user picked, in the stored settings
  selfShown,       \* the last PRESENCE_UPDATE about the user
  unseen,          \* history: people whose away state changed out of sight
  arrived,         \* history: people whose JOIN was seen on this link
  blurred,         \* history: the link was lost, or the user took over a nick still marked
  turns

presenceVars == <<nickOf, whereIs, isAway, account, awayNotify, selfEcho, online, wire,
                  away, peers, ownStatus, status, selfShown, unseen, arrived, blurred, turns>>

serverVars == <<nickOf, whereIs, isAway, account, awayNotify, selfEcho>>
userVars == <<ownStatus, status>>

People == Folk \cup {Self}
Visible(u) == whereIs[u] = "in"
NickFree(n) == \A u \in People : whereIs[u] # "gone" => nickOf[u] # n
Unknown == [n \in {} |-> FALSE]

\* The user is nobody else, people are few, and there is a nick for everybody.
ASSUME PresenceAssumption ==
  /\ Self \notin Folk /\ IsFiniteSet(Folk)
  /\ \E f \in [People -> Handles] : \A u, v \in People : f[u] = f[v] => u = v

\* Self and one other are in the channel; nobody is away.
PresenceInit ==
  /\ nickOf = CHOOSE f \in [People -> Handles] : \A u, v \in People : f[u] = f[v] => u = v
  /\ whereIs \in [People -> {"in", "gone"}] /\ Visible(Self)
  /\ isAway = [u \in People |-> FALSE] /\ account = [u \in People |-> FALSE]
  /\ awayNotify \in BOOLEAN /\ selfEcho \in BOOLEAN
  /\ online = TRUE /\ wire = << >> /\ away = {} /\ peers = Unknown
  /\ ownStatus = "" /\ status = "online" /\ selfShown = "online"
  /\ unseen = {} /\ arrived = {} /\ blurred = FALSE /\ turns = 0

Turn == turns < MaxTurns /\ turns' = turns + 1

Line(kind, u) == [kind |-> kind, who |-> u, nick |-> nickOf[u], to |-> nickOf[u],
                  flag |-> isAway[u], acct |-> account[u]]

----------------------------------------------------------------------------
(* The connection's books.                                                 *)

setAway(nick, flag) == IF flag THEN away \cup {nick} ELSE away \ {nick}

\* Mutant: a rename leaves the away mark behind.
renameAwayNot(old, new) == away

renameAway(old, new) == IF old \in away THEN (away \ {old}) \cup {new} ELSE away

setPeer(nick, acct) ==
  [n \in DOMAIN peers \cup {nick} |-> IF n = nick THEN acct ELSE peers[n]]

\* 352 and a source's user@host: an entry, the account as known before.
setPeerHost(nick) == IF nick \in DOMAIN peers THEN peers ELSE setPeer(nick, FALSE)

forgetPeer(nick) == [n \in DOMAIN peers \ {nick} |-> peers[n]]

renamePeer(old, new) ==
  IF old \notin DOMAIN peers THEN peers
  ELSE [n \in (DOMAIN peers \ {old}) \cup {new} |-> IF n = new THEN peers[old] ELSE peers[n]]

selfWireStatus(flag) == IF ~flag THEN "online" ELSE IF ownStatus = "dnd" THEN "dnd" ELSE "idle"

\* What a line says of someone is how things are, or is out of date; a JOIN
\* behind it has the last word.
SeenNow(line) ==
  IF \E i \in 2..Len(wire) : wire[i].kind = "JOIN" /\ wire[i].who = line.who THEN unseen
  ELSE IF line.flag = isAway[line.who] THEN unseen \ {line.who} ELSE unseen \cup {line.who}

\* Somebody turns up under a nick that is still marked.
Haunted(line) == line.to \in away /\ line.nick \notin away

----------------------------------------------------------------------------
(* Handlers: each takes the next line.                                     *)

Handle(kind) ==
  /\ wire # << >> /\ Head(wire).kind = kind /\ wire' = Tail(wire)
  /\ UNCHANGED <<serverVars, userVars, online, turns>>

\* AWAY of anyone, our own echo included.
HandleAway ==
  /\ Handle("AWAY")
  /\ away' = setAway(Head(wire).nick, Head(wire).flag) /\ unseen' = SeenNow(Head(wire))
  /\ UNCHANGED <<peers, selfShown, arrived, blurred>>

\* 305 and 306: a change is noted and told.
HandleAwayNumeric ==
  /\ Handle("305/306")
  /\ LET me == Head(wire) IN
       /\ away' = setAway(me.nick, me.flag)
       /\ selfShown' = IF away' = away THEN selfShown ELSE selfWireStatus(me.flag)
       /\ unseen' = SeenNow(me)
  /\ UNCHANGED <<peers, arrived, blurred>>

\* 352: one row of a WHO sweep.
HandleWho ==
  /\ Handle("352")
  /\ away' = setAway(Head(wire).nick, Head(wire).flag) /\ unseen' = SeenNow(Head(wire))
  /\ peers' = setPeerHost(Head(wire).nick)
  /\ UNCHANGED <<selfShown, arrived, blurred>>

\* JOIN with the account (extended-join).
HandlePeerJoin ==
  /\ Handle("JOIN")
  /\ peers' = setPeer(Head(wire).nick, Head(wire).acct)
  /\ arrived' = arrived \cup {Head(wire).who}
  /\ unseen' = IF Head(wire).nick \in away THEN unseen \cup {Head(wire).who} ELSE unseen
  /\ UNCHANGED <<away, selfShown, blurred>>

HandleAccount ==
  /\ Handle("ACCOUNT")
  /\ peers' = setPeer(Head(wire).nick, Head(wire).acct)
  /\ UNCHANGED <<away, selfShown, unseen, arrived, blurred>>

\* NICK: of others, with their facts; our own, the away mark only.
HandleNick ==
  /\ Handle("NICK")
  /\ LET e == Head(wire) IN
       /\ away' = renameAway(e.nick, e.to)
       /\ peers' = IF e.who = Self THEN peers ELSE renamePeer(e.nick, e.to)
       /\ unseen' = IF Haunted(e) THEN unseen \cup {e.who} ELSE unseen
       /\ blurred' = (blurred \/ (Haunted(e) /\ e.who = Self))
  /\ UNCHANGED <<selfShown, arrived>>

HandleQuit ==
  /\ Handle("QUIT")
  /\ away' = away \ {Head(wire).nick} /\ peers' = forgetPeer(Head(wire).nick)
  /\ arrived' = arrived \ {Head(wire).who}
  /\ UNCHANGED <<selfShown, unseen, blurred>>

HandlePeerPart ==
  /\ Handle("PART")
  /\ arrived' = arrived \ {Head(wire).who}
  /\ UNCHANGED <<away, peers, selfShown, unseen, blurred>>

----------------------------------------------------------------------------
(* The server.  It announces what people in the channel do.                *)

Announce(u, line) == IF online /\ Visible(u) THEN Append(wire, line) ELSE wire

World ==
  /\ Turn
  /\ UNCHANGED <<awayNotify, selfEcho, online, away, peers, userVars, selfShown, arrived, blurred>>

PeerAway(u) ==
  /\ u \in Folk /\ whereIs[u] # "gone" /\ World
  /\ isAway' = [isAway EXCEPT ![u] = ~@]
  /\ wire' = IF awayNotify THEN Announce(u, [Line("AWAY", u) EXCEPT !.flag = ~isAway[u]]) ELSE wire
  /\ unseen' = IF wire' = wire THEN unseen \cup {u} ELSE unseen
  /\ UNCHANGED <<nickOf, whereIs, account>>

PeerAccount(u) ==
  /\ u \in Folk /\ whereIs[u] # "gone" /\ World
  /\ account' = [account EXCEPT ![u] = ~@]
  /\ wire' = Announce(u, [Line("ACCOUNT", u) EXCEPT !.acct = ~account[u]])
  /\ UNCHANGED <<nickOf, whereIs, isAway, unseen>>

Rename(u, n) ==
  /\ whereIs[u] # "gone" /\ NickFree(n) /\ World
  /\ u = Self => online
  /\ nickOf' = [nickOf EXCEPT ![u] = n]
  /\ wire' = Announce(u, [Line("NICK", u) EXCEPT !.to = n])
  /\ UNCHANGED <<whereIs, isAway, account, unseen>>

\* PART, and QUIT, which also ends being away or logged in.
PeerLeaves(u, quit) ==
  /\ u \in Folk /\ World
  /\ Visible(u) \/ (quit /\ whereIs[u] = "out")
  /\ whereIs' = [whereIs EXCEPT ![u] = IF quit THEN "gone" ELSE "out"]
  /\ wire' = Announce(u, Line(IF quit THEN "QUIT" ELSE "PART", u))
  /\ isAway' = [isAway EXCEPT ![u] = ~quit /\ @]
  /\ account' = [account EXCEPT ![u] = ~quit /\ @]
  /\ unseen' = IF quit THEN unseen \ {u} ELSE unseen
  /\ UNCHANGED nickOf

\* JOIN; with away-notify the server adds the AWAY of who joins away.
PeerJoins(u) ==
  /\ u \in Folk /\ ~Visible(u) /\ World
  /\ whereIs[u] = "gone" => NickFree(nickOf[u])
  /\ whereIs' = [whereIs EXCEPT ![u] = "in"]
  /\ wire' = IF ~online THEN wire
             ELSE wire \o <<Line("JOIN", u)>> \o
                  (IF awayNotify /\ isAway[u] THEN <<Line("AWAY", u)>> ELSE << >>)
  /\ unseen' = IF online /\ awayNotify /\ isAway[u] THEN unseen
               ELSE IF isAway[u] THEN unseen \cup {u} ELSE unseen
  /\ UNCHANGED <<nickOf, isAway, account>>

\* The server obeys an AWAY line of ours.
Answered(flag) ==
  LET says(kind) == [Line(kind, Self) EXCEPT !.flag = flag]
  IN  IF selfEcho THEN <<says("AWAY"), says("305/306")>> ELSE <<says("305/306")>>

----------------------------------------------------------------------------
(* The user and the link.                                                  *)

\* handleSettingsPatch stores the status; applyStatus sends it when the
\* connection has a client, invisible excepted.
SetStatus(s) ==
  /\ s # status /\ Turn
  /\ status' = s /\ ownStatus' = s
  /\ IF online /\ s # "invisible"
     THEN /\ isAway' = [isAway EXCEPT ![Self] = s # "online"]
          /\ wire' = wire \o Answered(s # "online")
     ELSE UNCHANGED <<isAway, wire>>
  /\ UNCHANGED <<nickOf, whereIs, account, awayNotify, selfEcho, online, away, peers, selfShown,
                 unseen, arrived, blurred>>

\* A WHO sweep: a row for everyone in the channel, in some order.
Sweep ==
  LET rows == {u \in People : Visible(u)}
      order == CHOOSE f \in [1..Cardinality(rows) -> rows] : \A u \in rows : \E i \in DOMAIN f : f[i] = u
  IN  [i \in 1..Cardinality(rows) |-> Line("352", order[i])]

\* pollAwayOnce, for servers without away-notify.
PollAway ==
  /\ online /\ ~awayNotify /\ Turn
  /\ wire' = wire \o Sweep
  /\ UNCHANGED <<serverVars, online, away, peers, userVars, selfShown, unseen, arrived, blurred>>

\* The link dies: the books stay as they are.
LinkLoss ==
  /\ online /\ Turn
  /\ online' = FALSE /\ wire' = << >> /\ unseen' = People /\ arrived' = {} /\ blurred' = TRUE
  /\ isAway' = [isAway EXCEPT ![Self] = FALSE]
  /\ UNCHANGED <<nickOf, whereIs, account, awayNotify, selfEcho, away, peers, userVars, selfShown>>

\* CONNECTED: the channel is swept, then the stored status asserted again.
Reconnect ==
  /\ ~online /\ online' = TRUE
  /\ IF status = "invisible"
     THEN wire' = Sweep /\ UNCHANGED isAway
     ELSE /\ isAway' = [isAway EXCEPT ![Self] = status # "online"]
          /\ wire' = Sweep \o Answered(status # "online")
  /\ ownStatus' = status
  /\ UNCHANGED <<nickOf, whereIs, account, awayNotify, selfEcho, away, peers, status, selfShown,
                 unseen, arrived, blurred, turns>>

PresenceNext ==
  \/ HandleAway \/ HandleAwayNumeric \/ HandleWho \/ HandlePeerJoin \/ HandleAccount
  \/ HandleNick \/ HandleQuit \/ HandlePeerPart
  \/ PollAway \/ LinkLoss \/ Reconnect
  \/ \E s \in {"online", "idle", "dnd", "invisible"} : SetStatus(s)
  \/ \E u \in Folk : PeerAway(u) \/ PeerAccount(u) \/ PeerJoins(u)
                     \/ \E quit \in BOOLEAN : PeerLeaves(u, quit)
  \/ \E u \in People, n \in Handles : Rename(u, n)

PresenceSpec == PresenceInit /\ [][PresenceNext]_presenceVars

----------------------------------------------------------------------------
(* Properties.                                                             *)

AllHandled == online /\ wire = << >>

\* Once every line is handled, everybody in the channel is shown away exactly
\* when they are, the user included, across renames, departures, sweeps and
\* reconnects; except who changed out of sight or took over a nick whose mark
\* nobody removed, until the next AWAY or WHO line about them.
AwayRight ==
  AllHandled => \A u \in People : Visible(u) /\ u \notin unseen => (nickOf[u] \in away) = isAway[u]

\* The account shown for a peer who joined before our eyes is theirs,
\* whatever nicks they have used since: facts follow the person.
FactsFollow ==
  AllHandled => \A u \in arrived : nickOf[u] \in DOMAIN peers /\ peers[nickOf[u]] = account[u]

\* The user's clients are told whether the user is away, as long as the link
\* has held, the user took over no nick still marked, and the server does not
\* echo AWAY: a mark that is there already, left over or set by the echo, takes
\* the change, and 306 then finds nothing to tell.
PresenceTold ==
  AllHandled /\ ~selfEcho /\ ~blurred => (selfShown = "online") = ~isAway[Self]

\* Away marks, account facts and the user's own status follow the person, not
\* the nick (setAway, renameAway, renamePeer).
PresenceRight ==
  AwayRight /\ FactsFollow /\ PresenceTold

=============================================================================
