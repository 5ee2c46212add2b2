------------------------------- MODULE Topics -------------------------------
(***************************************************************************)
(* The topic of one channel that several members of a network share: the   *)
(* server's, the stored one and the one each member's client shows.  Every *)
(* member has a connection of its own, so the same broadcast is handled    *)
(* several times, at different moments.  The server is external.           *)
(***************************************************************************)
EXTENDS Integers, Sequences

CONSTANTS
  Members,         \* members of the network, each with a connection
  Topics,          \* topics a channel can be given
  MaxTopicOps      \* bound: edits, server changes and link drops

VARIABLES
  topic,           \* the server's; NoTopic when unset
  stored,          \* Channel.Topic
  told,            \* the topic of the last CHANNEL_UPDATE or guild payload
  lines,           \* TOPIC and 332 lines under way to each connection
  applying,        \* a line between applyTopic's read and its write
  asked,           \* SetTopic commands under way to the server
  linked, topicOps, dropped

topicVars == <<topic, stored, told, lines, applying, asked, linked, topicOps, dropped>>

NoTopic == ""
Unread == "?"

\* No topic is taken for the mark of a line that is not being applied.
ASSUME TopicsAssumption == Members # {} /\ Unread \notin Topics

TopicInit ==
  /\ topic = NoTopic /\ stored = NoTopic /\ told = [u \in Members |-> NoTopic]
  /\ lines = [u \in Members |-> << >>] /\ applying = [u \in Members |-> Unread]
  /\ asked = {} /\ linked = [u \in Members |-> TRUE]
  /\ topicOps = 0 /\ dropped = FALSE

TopicOp == topicOps < MaxTopicOps /\ topicOps' = topicOps + 1

\* SetTopic writes a line and nothing else: the broadcast is the writer.
SetTopic(u, t) ==
  /\ linked[u] /\ TopicOp
  /\ asked' = asked \cup {t}
  /\ UNCHANGED <<topic, stored, told, lines, applying, linked, dropped>>

\* applyTopic reads the record; an equal topic ends it there ...
ApplyTopic(u) ==
  /\ applying[u] = Unread /\ lines[u] # << >>
  /\ lines' = [lines EXCEPT ![u] = Tail(@)]
  /\ applying' = [applying EXCEPT ![u] = IF Head(lines[u]) = stored THEN Unread
                                         ELSE Head(lines[u])]
  /\ UNCHANGED <<topic, stored, told, asked, linked, topicOps, dropped>>

\* Mutant: only a first topic is stored.
SetChannelTopicOnce(u) ==
  /\ applying[u] # Unread
  /\ stored' = IF stored = NoTopic THEN applying[u] ELSE stored
  /\ told' = [told EXCEPT ![u] = applying[u]]
  /\ applying' = [applying EXCEPT ![u] = Unread]
  /\ UNCHANGED <<topic, lines, asked, linked, topicOps, dropped>>

\* ... otherwise it is stored, and this member's client is told.
SetChannelTopic(u) ==
  /\ applying[u] # Unread
  /\ stored' = applying[u]
  /\ told' = [told EXCEPT ![u] = applying[u]]
  /\ applying' = [applying EXCEPT ![u] = Unread]
  /\ UNCHANGED <<topic, lines, asked, linked, topicOps, dropped>>

\* A new session reads the stored topic with the guild.
GuildPayload(u) ==
  /\ told[u] # stored /\ TopicOp
  /\ told' = [told EXCEPT ![u] = stored]
  /\ UNCHANGED <<topic, stored, lines, applying, asked, linked, dropped>>

----------------------------------------------------------------------------
Broadcast(t) ==
  /\ topic' = t
  /\ lines' = [u \in Members |-> IF linked[u] THEN Append(lines[u], t) ELSE lines[u]]

\* The server obeys an edit or refuses it; others change the topic too.
ServerSetsTopic(t, ok) ==
  /\ t \in asked /\ asked' = asked \ {t}
  /\ IF ok THEN Broadcast(t) ELSE UNCHANGED <<topic, lines>>
  /\ UNCHANGED <<stored, told, applying, linked, topicOps, dropped>>

OthersChange(t) ==
  /\ t # topic /\ TopicOp /\ Broadcast(t)
  /\ UNCHANGED <<stored, told, applying, asked, linked, dropped>>

LinkLost(u) ==
  /\ linked[u] /\ applying[u] = Unread /\ TopicOp
  /\ linked' = [linked EXCEPT ![u] = FALSE]
  /\ lines' = [lines EXCEPT ![u] = << >>] /\ dropped' = TRUE
  /\ UNCHANGED <<topic, stored, told, applying, asked>>

\* The rejoin is answered with 332 when there is a topic; the answer that
\* there is none (331) has no handler.
Rejoin(u) ==
  /\ ~linked[u] /\ linked' = [linked EXCEPT ![u] = TRUE]
  /\ lines' = IF topic = NoTopic THEN lines ELSE [lines EXCEPT ![u] = <<topic>>]
  /\ UNCHANGED <<topic, stored, told, applying, asked, topicOps, dropped>>

TopicNext ==
  \/ \E u \in Members :
       \/ ApplyTopic(u) \/ SetChannelTopic(u) \/ GuildPayload(u)
       \/ LinkLost(u) \/ Rejoin(u)
       \/ \E t \in Topics \cup {NoTopic} : SetTopic(u, t)
  \/ \E t \in Topics \cup {NoTopic} :
       OthersChange(t) \/ \E ok \in BOOLEAN : ServerSetsTopic(t, ok)

TopicSpec == TopicInit /\ [][TopicNext]_topicVars

----------------------------------------------------------------------------
(* Properties.                                                             *)

Settled ==
  \A u \in Members : linked[u] /\ lines[u] = << >> /\ applying[u] = Unread

\* Once every line is handled the stored topic is the server's, although the
\* connections of several members wrote it at different moments; only the
\* clearing of a topic can be missed, by a link that was down.
TopicTracksUpstream ==
  Settled => stored = topic \/ (topic = NoTopic /\ dropped)

=============================================================================
