------------------------------ MODULE Mentions ------------------------------
(***************************************************************************)
(* Mentions of one channel message (ircmanage/mentions.go): the sender's   *)
(* text is rewritten for the wire (IRCize), scanned for its highlights     *)
(* (MentionPayloadsFromMarkers), and scanned again by the connection of    *)
(* another member who receives it (Discordize), while people rename.       *)
(*                                                                         *)
(* A text is a sequence of atoms: letters, of which nicks are made, signs, *)
(* and whole markers, which the scans recognise at one position.  Letter   *)
(* case is left out.  A loop iteration of the code is a step.              *)
(***************************************************************************)
EXTENDS Integers, Sequences, FiniteSets, SequencesExt

CONSTANTS
  Bouncers,        \* people with an account here, mentioned by its id
  IrcFolk,         \* the others, mentioned by an id made from the nick
  MaxAtoms         \* bound: atoms of a text

ASSUME MentionAssumption == MaxAtoms \in Nat

VARIABLES
  content,         \* the text as the sender's client wrote it
  nicks,           \* everybody's nick
  users,           \* the sender's universe of nicks, read when a scan starts
  stage, pos, out, \* the sender's request: which scan, where, the text so far
  mentions,        \* the ids of the sender's mentions array
  heard, at, seen, markers,  \* the receiver: text, position, result, ids found
  wire,            \* history: the text SendChannel got
  moved            \* history: somebody renamed

mentionVars == <<content, nicks, users, stage, pos, out, mentions, heard, at, seen,
                 markers, wire, moved>>

Letters == {"a", "b"}
Nicks == {<<"a">>, <<"a", "b">>, <<"b">>}
Spoken == Bouncers \cup IrcFolk
ChannelName == [c1 |-> <<"#", "a">>, c2 |-> <<"#", "b">>, c3 |-> <<"#", "a", "b">>]
SentFrom == {"c1", "c2"}  \* the sender's auto-join channels
HeardIn == {"c1", "c3"}   \* the receiver's

\* "<@id>" and "<#id>"
Tag(id) == [mark |-> "user", id |-> id]
Hash(c) == [mark |-> "chan", id |-> <<c>>]
Sign(c) == [mark |-> "none", id |-> <<c>>]

\* IrcAuthorID of a nick; a bouncer member's own id is told apart from it.
IrcAuthorID(nick) == <<"irc">> \o nick
IdOf(p) == IF p \in Bouncers THEN <<"user", p>> ELSE IrcAuthorID(nicks[p])

Atoms ==
  {Tag(<<"user", p>>) : p \in Bouncers} \cup {Tag(IrcAuthorID(n)) : n \in Nicks}
  \cup {Hash(c) : c \in DOMAIN ChannelName}
  \cup {Sign("a"), Sign("b"), Sign(" "), Sign("<"), Sign("@"), Sign("www.")}

Text == UNION {[1..n -> Atoms] : n \in 1..MaxAtoms}

\* mentionUsers: nicks and ids of the channel.
mentionUsers == {[nick |-> nicks[p], id |-> IdOf(p)] : p \in Spoken}

MentionInit ==
  /\ content \in Text
  /\ nicks \in {f \in [Spoken -> Nicks] : \A p, q \in Spoken : f[p] = f[q] => p = q}
  /\ {<<"a">>, <<"a", "b">>} \subseteq {nicks[p] : p \in Spoken}
  /\ users = mentionUsers /\ stage = "ircize" /\ pos = 1 /\ out = << >>
  /\ mentions = << >> /\ heard = {} /\ at = 1 /\ seen = << >> /\ markers = {}
  /\ wire = << >> /\ moved = FALSE

receiver == <<heard, at, seen, markers>>

Spell(name) == [i \in 1..Len(name) |-> Sign(name[i])]

----------------------------------------------------------------------------
(* The sender's request.                                                   *)

\* resolveMentionUser
Resolves(us, tok) == tok.mark = "user" /\ \E u \in us : u.id = tok.id
KnownChannel(tok) == tok.mark = "chan" /\ tok.id[1] \in SentFrom
NickFor(us, tok) == (CHOOSE u \in us : u.id = tok.id).nick

Scanning(s) == stage = s /\ pos <= Len(content)

\* A user marker with a known id becomes the nick.
IrcizeUser ==
  /\ Scanning("ircize") /\ Resolves(users, content[pos])
  /\ out' = out \o Spell(NickFor(users, content[pos])) /\ pos' = pos + 1
  /\ UNCHANGED <<content, nicks, users, stage, mentions, receiver, wire, moved>>

\* A channel marker becomes the name; the loop over the channels goes on, not
\* the scan, so what follows is copied unseen, and there has to be something.
IrcizeChannel ==
  /\ Scanning("ircize") /\ KnownChannel(content[pos])
  /\ IF pos = Len(content)
     THEN stage' = "panic" /\ UNCHANGED <<out, pos>>
     ELSE /\ out' = Append(out \o Spell(ChannelName[content[pos].id[1]]), content[pos + 1])
          /\ pos' = pos + 2 /\ UNCHANGED stage
  /\ UNCHANGED <<content, nicks, users, mentions, receiver, wire, moved>>

\* Everything else is copied.
IrcizeCopy ==
  /\ Scanning("ircize") /\ ~Resolves(users, content[pos]) /\ ~KnownChannel(content[pos])
  /\ out' = Append(out, content[pos]) /\ pos' = pos + 1
  /\ UNCHANGED <<content, nicks, users, stage, mentions, receiver, wire, moved>>

\* handleSendMessage sends the wire copy, then scans the text once more.
SendChannel ==
  /\ stage = "ircize" /\ pos > Len(content)
  /\ wire' = out /\ stage' = "payloads" /\ pos' = 1 /\ users' = mentionUsers
  /\ UNCHANGED <<content, nicks, out, mentions, receiver, moved>>

\* MentionPayloadsFromMarkers: a marker is stepped over and counted once; a
\* "<" that opens none is not stepped over.
PayloadStep ==
  /\ Scanning("payloads")
  /\ LET tok == content[pos] IN
       /\ pos' = IF tok = Sign("<") THEN pos ELSE pos + 1
       /\ mentions' = IF Resolves(users, tok) /\ ~Contains(mentions, tok.id)
                      THEN Append(mentions, tok.id) ELSE mentions
  /\ UNCHANGED <<content, nicks, users, stage, out, receiver, wire, moved>>

\* Dispatched, buffered, answered.
Respond ==
  /\ stage = "payloads" /\ pos > Len(content) /\ stage' = "answered"
  /\ UNCHANGED <<content, nicks, users, pos, out, mentions, receiver, wire, moved>>

----------------------------------------------------------------------------
(* The receiver's scan, of the wire text.                                  *)

IsLetter(tok) == tok.mark = "none" /\ tok.id[1] \in Letters

\* The atom begins with a rune of a nick.
ircNickRune(text, i) == i \in 1..Len(text) /\ (IsLetter(text[i]) \/ text[i] = Sign("www."))

\* From a scheme that no letter precedes to the next blank.
urlMask(text, i) ==
  \E j \in 1..i : /\ text[j] = Sign("www.") /\ (j > 1 => ~IsLetter(text[j - 1]))
                  /\ \A k \in j..i : text[k] # Sign(" ")

Reads(text, i, name) ==
  i + Len(name) - 1 <= Len(text) /\ SubSeq(text, i, i + Len(name) - 1) = Spell(name)

\* Mutant: the rune after the nick is not looked at.
matchNickAtPrefix(text, i, us) ==
  {u \in us : /\ i <= Len(text) /\ Reads(text, i, u.nick)
              /\ (i > 1 => ~IsLetter(text[i - 1]))
              /\ \A v \in us : Reads(text, i, v.nick) => Len(v.nick) >= Len(u.nick)}

\* The nick at i, with no letter before or after it; at most one fits.
matchNickAt(text, i, us) ==
  {u \in us : /\ i <= Len(text) /\ Reads(text, i, u.nick)
              /\ ~ircNickRune(text, i + Len(u.nick))
              /\ (i > 1 => ~IsLetter(text[i - 1]))}

matchChannelAt(text, i) ==
  {c \in HeardIn : Reads(text, i, ChannelName[c]) /\ ~ircNickRune(text, i + Len(ChannelName[c]))}

\* An "@" before a nick goes with it.
NickStart == IF wire[at] = Sign("@") /\ at < Len(wire) THEN at + 1 ELSE at

FoundNick == IF urlMask(wire, NickStart) THEN {} ELSE matchNickAt(wire, NickStart, heard)
FoundChannel == IF urlMask(wire, at) THEN {} ELSE matchChannelAt(wire, at)

\* The line arrives: the universe of this connection, now.
Hear ==
  /\ stage \in {"payloads", "answered"} /\ heard = {} /\ heard' = mentionUsers
  /\ UNCHANGED <<content, nicks, users, stage, pos, out, mentions, at, seen, markers, wire, moved>>

DiscordizeStep ==
  /\ heard # {} /\ at <= Len(wire)
  /\ \/ \E u \in FoundNick :
          /\ seen' = Append(seen, Tag(u.id)) /\ at' = NickStart + Len(u.nick)
          /\ markers' = markers \cup {u.id}
     \/ /\ FoundNick = {} /\ UNCHANGED markers
        /\ \/ \E c \in FoundChannel :
                seen' = Append(seen, Hash(c)) /\ at' = at + Len(ChannelName[c])
           \/ FoundChannel = {} /\ seen' = Append(seen, wire[at]) /\ at' = at + 1
  /\ UNCHANGED <<content, nicks, users, stage, pos, out, mentions, heard, wire, moved>>

Rename(p, n) ==
  /\ ~moved /\ moved' = TRUE /\ \A q \in Spoken : nicks[q] # n
  /\ nicks' = [nicks EXCEPT ![p] = n]
  /\ UNCHANGED <<content, users, stage, pos, out, mentions, receiver, wire>>

SenderNext == IrcizeUser \/ IrcizeChannel \/ IrcizeCopy \/ SendChannel \/ PayloadStep \/ Respond

MentionNext ==
  \/ SenderNext \/ Hear \/ DiscordizeStep
  \/ \E p \in Spoken, n \in Nicks : Rename(p, n)

\* The request's goroutine runs on.
MentionSpec == MentionInit /\ [][MentionNext]_mentionVars /\ WF_mentionVars(SenderNext)

----------------------------------------------------------------------------
(* Properties.                                                             *)

Image(tok) ==
  IF Resolves(users, tok) THEN Spell(NickFor(users, tok))
  ELSE IF KnownChannel(tok) THEN Spell(ChannelName[tok.id[1]]) ELSE <<tok>>

Rewritten ==
  LET to[n \in 0..Len(content)] == IF n = 0 THEN << >> ELSE to[n - 1] \o Image(content[n])
  IN  to[Len(content)]

Ircized == stage = "ircize" /\ pos > Len(content)

\* What goes on the wire is the text with every known marker spelled out and
\* nothing else changed, as long as no channel marker ends the text or touches
\* the marker after it.
WireRight ==
  Ircized /\ (\A k \in 1..Len(content) :
               KnownChannel(content[k]) => k < Len(content) /\ content[k + 1].mark = "none")
    => out = Rewritten

\* "User markers become the bare nick ...  channel markers become the #name.
\* Anything unresolvable stays as-is" (IRCize), wherever they stand.
MarkersBecomeNames == stage # "panic" /\ (Ircized => out = Rewritten)

\* The client "clears the optimistic sending entry" when the response comes
\* (handleSendMessage), so a message that was sent is answered.
SendAnswered == (stage = "payloads") ~> (stage = "answered")

\* Position k holds a marker that neither letters nor a link touch.
Apart(k) ==
  /\ Resolves(users, content[k])
  /\ k > 1 => content[k - 1] \in {Sign(" "), Sign("@"), Sign("<")}
  /\ k < Len(content) => content[k + 1] \in {Sign(" "), Sign("@"), Sign("<")}
  /\ \A j \in 1..k : content[j] = Sign("www.") => \E i \in j..k : content[i] = Sign(" ")

\* Mentions survive the trip: while nobody renames, everyone the sender
\* mentions apart from other words is mentioned, under the same id, in the
\* sender's own copy and in what the other member receives, although the wire
\* carries the bare nick and nicks can be prefixes of each other.
RoundTrip ==
  ~moved => \A k \in 1..Len(content) : Apart(k) =>
    /\ stage = "answered" => Contains(mentions, content[k].id)
    /\ heard # {} /\ at > Len(wire) => content[k].id \in markers

\* Mentions survive the rewriting, the wire and the scan on the other side
\* (IRCize, Discordize).
MentionsSurvive ==
  WireRight /\ RoundTrip

=============================================================================
