------------------------------ MODULE MCGuild -------------------------------
(***************************************************************************)
(* The parts of a guild's view, its chat history and the replay log of a   *)
(* session, on small instances.  History: three messages in a buffer of    *)
(* two rows.  SessionLog: three frames or seven bytes, frames of one to    *)
(* four bytes, so that either bound may be the one that bites.  The parts  *)
(* share no state, so a behaviour moves only the one that "focus" names.   *)
(***************************************************************************)
EXTENDS Channels, Layout, Threads, Topics, Presence, Avatars, PeerMeta,
        SessionLog, History

VARIABLE focus

MCInit ==
  /\ ChannelInit /\ LayoutInit /\ ThreadInit /\ TopicInit /\ PresenceInit /\ AvatarInit /\ PeerMetaInit
  /\ Init /\ HistoryInit
  /\ focus \in {"channels", "layout", "threads", "topics", "presence", "avatars", "peers", "session", "history"}
  /\ focus # "threads" => lastThread = 0
  /\ focus # "presence" => awayNotify /\ selfEcho /\ \A u \in People : Visible(u)
  /\ focus # "peers" => picture = Unset

\* What all parts but the one named leave alone.
Others(part) ==
  /\ focus = part
  /\ part # "channels" => UNCHANGED channelVars
  /\ part # "layout" => UNCHANGED layoutVars
  /\ part # "threads" => UNCHANGED threadVars
  /\ part # "topics" => UNCHANGED topicVars
  /\ part # "presence" => UNCHANGED presenceVars
  /\ part # "avatars" => UNCHANGED avatarVars
  /\ part # "peers" => UNCHANGED metaVars
  /\ part # "session" => UNCHANGED vars
  /\ part # "history" => UNCHANGED historyVars
  /\ UNCHANGED focus

MCNext ==
  \/ Others("channels") /\ ChannelNext
  \/ Others("layout") /\ LayoutNext
  \/ Others("threads") /\ ThreadNext
  \/ Others("topics") /\ TopicNext
  \/ Others("presence") /\ PresenceNext
  \/ Others("avatars") /\ AvatarNext
  \/ Others("peers") /\ PeerMetaNext
  \/ Others("session") /\ Next
  \/ Others("history") /\ HistoryNext

MCSpec ==
  MCInit /\ [][MCNext]_<<channelVars, layoutVars, threadVars, topicVars, presenceVars, avatarVars,
                         metaVars, vars, historyVars, focus>>
=============================================================================
