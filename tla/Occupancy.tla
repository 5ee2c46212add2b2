----------------------------- MODULE Occupancy ------------------------------
(***************************************************************************)
(* Member lists of one network for one user: the rosters of the channels,  *)
(* the occupancy events that coalesce into one refresh, the refreshes that *)
(* run off the event loop, and the lists each session subscribed to and    *)
(* shows.  The roster itself is girc's; the server is external.            *)
(***************************************************************************)
EXTENDS Integers, FiniteSets, FiniteSetsExt

CONSTANTS
  Chans,           \* channels of the network
  Peers,           \* other people on it
  Me,              \* the user's own nick: a bouncer member
  Sessions,        \* gateway sessions of the user
  Flushers,        \* bound: refreshes that run at the same time
  MaxSteps         \* bound: membership events, op 14 requests and link losses

VARIABLES
  roster,          \* girc: nick -> rank of its mode, per channel
  up,              \* conn.linkUp
  notifying,       \* the event being handled: a channel, All, or Nothing
  who,             \* channels whose WHO sweep has not ended
  occ,             \* Service.occ: what the timer will refresh; {} when there is no entry
  timer,           \* occPending.timer: "none", "armed", or "fired" and still set
  flush,           \* refreshes under way, in goroutines of their own
  subs,            \* Session.memberLists
  asking,          \* the op 14 request being answered, per session
  shown,           \* the rows a session's client shows, per list
  overtaken,       \* history: an older payload was dispatched after a newer
  steps

occupancyVars == <<roster, up, notifying, who, occ, timer, flush, subs, asking, shown,
                   overtaken, steps>>

Nothing == "nothing"
All == "all"
Everyone == "everyone"            \* the guild-wide list
Lists == Chans \cup {Everyone}
Resting == [todo |-> {}, list |-> Nothing, rows |-> {}]
Nicks == Peers \cup {Me}

\* There are channels, and none has the name of a mark.
ASSUME ChanAssumption == Chans # {} /\ {Nothing, All, Everyone} \cap Chans = {}

----------------------------------------------------------------------------
(* What a list holds.                                                      *)

\* ChannelMembersDetailed: a channel's people under their modes.
ChannelMembersDetailed(c) == {<<n, roster[c][n]>> : n \in DOMAIN roster[c]}

\* ircOccupants: everyone in any channel, under the highest mode.
ircOccupants ==
  {<<n, Max({roster[c][n] : c \in {d \in Chans : n \in DOMAIN roster[d]}})>> :
     n \in UNION {DOMAIN roster[c] : c \in Chans}}

ModeIn(list, n) == IF \E r \in list : r[1] = n THEN (CHOOSE r \in list : r[1] = n)[2] ELSE 0

\* MemberListPayload: bouncer members under their own ids, then the others.
\* The lists checked stay below its 99 rows.
MemberListPayload(l) ==
  LET list == IF l = Everyone THEN ircOccupants ELSE ChannelMembersDetailed(l)
  IN  {<<"user", Me, ModeIn(list, Me)>>} \cup {<<"peer", r[1], r[2]>> : r \in {q \in list : q[1] # Me}}

\* A session holds no list, or asked for all of them before.
OccupancyInit ==
  /\ roster = [c \in Chans |-> [n \in {Me} |-> 0]] /\ up = TRUE
  /\ notifying = Nothing /\ who = {} /\ occ = {} /\ timer = "none" /\ flush = [f \in Flushers |-> Resting]
  /\ subs \in [Sessions -> {{}, Lists}] /\ asking = [s \in Sessions |-> Resting]
  /\ shown = [s \in Sessions |-> [l \in Lists |-> IF l \in subs[s] THEN MemberListPayload(l) ELSE {}]]
  /\ overtaken = {} /\ steps = 0

----------------------------------------------------------------------------
(* The event loop.                                                         *)

Step == steps < MaxSteps /\ steps' = steps + 1

Event(what) ==
  /\ up /\ notifying = Nothing /\ Step /\ notifying' = what
  /\ UNCHANGED <<up, who, occ, timer, flush, subs, asking, shown, overtaken>>

\* JOIN, PART and KICK of a peer, MODE: one channel ...
HandleJoin(n, c) ==
  /\ n \notin DOMAIN roster[c]
  /\ roster' = [roster EXCEPT ![c] = [x \in DOMAIN @ \cup {n} |-> IF x = n THEN 0 ELSE @[x]]]
  /\ Event(c)

HandlePart(n, c) ==
  /\ n \in DOMAIN roster[c] \ {Me}
  /\ roster' = [roster EXCEPT ![c] = [x \in DOMAIN @ \ {n} |-> @[x]]]
  /\ Event(c)

HandleMode(n, c) ==
  /\ n \in DOMAIN roster[c]
  /\ roster' = [roster EXCEPT ![c][n] = 1 - @]
  /\ Event(c)

\* ... QUIT: all of them.
HandleQuit(n) ==
  /\ n \in UNION {DOMAIN roster[c] : c \in Chans} \ {Me}
  /\ roster' = [c \in Chans |-> [x \in DOMAIN roster[c] \ {n} |-> roster[c][x]]]
  /\ Event(All)

\* What the pending refresh covers, with one more event.
Coalesce(pending, what) ==
  IF All \in pending \/ what = All THEN {All} ELSE pending \cup {what}

\* RefreshOccupancy: noted in occ; the first event arms the timer.
RefreshOccupancy ==
  /\ notifying # Nothing
  /\ occ' = Coalesce(occ, notifying) /\ notifying' = Nothing
  /\ timer' = IF timer = "none" THEN "armed" ELSE timer
  /\ UNCHANGED <<roster, up, who, flush, subs, asking, shown, overtaken, steps>>

\* 315: the end of a WHO sweep.
HandleEndOfWho(c) ==
  /\ up /\ c \in who /\ notifying = Nothing
  /\ who' = who \ {c} /\ notifying' = c
  /\ UNCHANGED <<roster, up, occ, timer, flush, subs, asking, shown, overtaken, steps>>

----------------------------------------------------------------------------
(* The refresh.                                                            *)

\* The lists a burst touches; the everyone list is touched by any.
Covers(pending, l) == All \in pending \/ l = Everyone \/ l \in pending

Watched == UNION {subs[s] : s \in Sessions}

\* Mutant: the entry is emptied but stays, and its timer with it.
FlushKeepsEntry(f) ==
  /\ timer = "armed" /\ flush[f] = Resting
  /\ occ' = {} /\ timer' = "fired"
  /\ flush' = [flush EXCEPT ![f].todo = {l \in Watched : Covers(occ, l)}]
  /\ UNCHANGED <<roster, up, notifying, who, subs, asking, shown, overtaken, steps>>

\* flushOccupancy removes the entry, then takes the lists subscribed now.
FlushOccupancy(f) ==
  /\ timer = "armed" /\ flush[f] = Resting
  /\ occ' = {} /\ timer' = "none"
  /\ flush' = [flush EXCEPT ![f].todo = {l \in Watched : Covers(occ, l)}]
  /\ UNCHANGED <<roster, up, notifying, who, subs, asking, shown, overtaken, steps>>

\* The next list of todo with its rows; none while the link is down.
Build(todo) ==
  LET l == CHOOSE x \in todo : TRUE
  IN  [todo |-> todo \ {l}, list |-> IF up THEN l ELSE Nothing,
       rows |-> IF up THEN MemberListPayload(l) ELSE {}]

\* One list after the other is built ...
FlushBuild(f) ==
  /\ flush[f].list = Nothing /\ flush[f].todo # {}
  /\ flush' = [flush EXCEPT ![f] = Build(@.todo)]
  /\ UNCHANGED <<roster, up, notifying, who, occ, timer, subs, asking, shown, overtaken, steps>>

\* The copies that show the rows of now, to be given older ones.
Overtaken(S, l) ==
  {<<s, l>> : s \in {t \in S : shown[t][l] = MemberListPayload(l)}}

\* GUILD_MEMBER_LIST_UPDATE to the sessions of S.
Dispatch(S, l, rows) ==
  /\ shown' = [s \in Sessions |-> IF s \in S THEN [shown[s] EXCEPT ![l] = rows] ELSE shown[s]]
  /\ overtaken' = IF rows = MemberListPayload(l) THEN overtaken \ {<<s, l>> : s \in S}
                  ELSE overtaken \cup Overtaken(S, l)

\* ... and dispatched to every session.
FlushDispatch(f) ==
  /\ flush[f].list # Nothing
  /\ Dispatch(Sessions, flush[f].list, flush[f].rows)
  /\ flush' = [flush EXCEPT ![f] = [Resting EXCEPT !.todo = flush[f].todo]]
  /\ UNCHANGED <<roster, up, notifying, who, occ, timer, subs, asking, steps>>

----------------------------------------------------------------------------
(* Op 14.                                                                  *)

\* A client asks for a list: watched first ...
WatchMemberList(s, l) ==
  /\ asking[s].todo = {} /\ asking[s].list = Nothing /\ Step
  /\ subs' = [subs EXCEPT ![s] = @ \cup {l}]
  /\ asking' = [asking EXCEPT ![s].todo = IF l = Everyone THEN Lists ELSE {l}]
  /\ UNCHANGED <<roster, up, notifying, who, occ, timer, flush, shown, overtaken>>

\* ... then built; the everyone list brings that of every channel along ...
AnswerBuild(s) ==
  /\ asking[s].list = Nothing /\ asking[s].todo # {}
  /\ asking' = [asking EXCEPT ![s] = Build(@.todo)]
  /\ UNCHANGED <<roster, up, notifying, who, occ, timer, flush, subs, shown, overtaken, steps>>

\* ... and sent to the session that asked.
AnswerDispatch(s) ==
  /\ asking[s].list # Nothing
  /\ Dispatch({s}, asking[s].list, asking[s].rows)
  /\ asking' = [asking EXCEPT ![s] = [Resting EXCEPT !.todo = asking[s].todo]]
  /\ UNCHANGED <<roster, up, notifying, who, occ, timer, flush, subs, steps>>

----------------------------------------------------------------------------
(* The link.                                                               *)

LinkDies ==
  /\ up /\ notifying = Nothing /\ Step
  /\ up' = FALSE /\ who' = {}
  /\ UNCHANGED <<roster, notifying, occ, timer, flush, subs, asking, shown, overtaken>>

\* Registered again: the channels are joined and swept with WHO.
Connected ==
  /\ ~up /\ up' = TRUE
  /\ roster' = [c \in Chans |-> [n \in {Me} |-> 0]] /\ who' = Chans
  /\ UNCHANGED <<notifying, occ, timer, flush, subs, asking, shown, overtaken, steps>>

\* NAMES fills a roster and notifies nobody; the WHO sweep ends later.
Names(c, n) ==
  /\ up /\ c \in who /\ notifying = Nothing /\ Step /\ n \notin DOMAIN roster[c]
  /\ roster' = [roster EXCEPT ![c] = [x \in DOMAIN @ \cup {n} |-> IF x = n THEN 0 ELSE @[x]]]
  /\ UNCHANGED <<up, notifying, who, occ, timer, flush, subs, asking, shown, overtaken>>

----------------------------------------------------------------------------
FlusherNext == \E f \in Flushers :
  FlushOccupancy(f) \/ FlushDispatch(f) \/ FlushBuild(f)

AnswerNext == \E s \in Sessions : AnswerDispatch(s) \/ AnswerBuild(s)

LoopNext == RefreshOccupancy \/ \E c \in Chans : HandleEndOfWho(c)

WorldNext ==
  \/ LinkDies \/ Connected
  \/ \E n \in Nicks : HandleQuit(n) \/ \E c \in Chans :
       HandleJoin(n, c) \/ HandlePart(n, c) \/ HandleMode(n, c) \/ Names(c, n)
  \/ \E s \in Sessions, l \in Lists : WatchMemberList(s, l)

OccupancyNext == FlusherNext \/ AnswerNext \/ LoopNext \/ WorldNext

\* Timers fire, goroutines run on, the server ends its WHO replies.
OccupancyFairness ==
  /\ WF_occupancyVars(LoopNext)
  /\ \A f \in Flushers : /\ WF_occupancyVars(\E g \in Flushers : FlushOccupancy(g))
                         /\ WF_occupancyVars(FlushDispatch(f) \/ FlushBuild(f))
  /\ \A s \in Sessions : WF_occupancyVars(AnswerDispatch(s) \/ AnswerBuild(s))

OccupancySpec == OccupancyInit /\ [][OccupancyNext]_occupancyVars /\ OccupancyFairness

----------------------------------------------------------------------------
(* Properties.                                                             *)

\* The copies that have to follow: subscribed, the link up, and not spoilt by
\* a payload that was overtaken on its way.
Held ==
  {h \in Sessions \X Lists : up /\ h[2] \in subs[h[1]] /\ h \notin overtaken}

\* Work that will still send list l to session s as it is now.
InHand(job, l) == l \in job.todo \/ (job.list = l /\ job.rows = MemberListPayload(l))

Due(s, l) ==
  \/ notifying # Nothing /\ Covers({notifying}, l)
  \/ occ # {} /\ Covers(occ, l)
  \/ l \in who \/ (l = Everyone /\ who # {})
  \/ InHand(asking[s], l) \/ \E f \in Flushers : InHand(flush[f], l)

\* No refresh is lost: a subscribed list that does not show who is there is
\* noted for the timer, being rebuilt, or about to be notified, although
\* flushOccupancy forgets the burst before it has read or sent anything, and
\* subscriptions, events and link losses come in between.
RefreshDue ==
  \A h \in Held : shown[h[1]][h[2]] # MemberListPayload(h[2]) => Due(h[1], h[2])

\* The coalesced refreshes implement the promise of MemberMirror: a step moves
\* the truth or the copies of one list, and, as timers fire and goroutines go
\* on, no list a client holds stays behind the channel for ever.
Promise == INSTANCE MemberMirror WITH
  Clients <- Sessions, Rolls <- Lists, copy <- shown, held <- Held,
  truth <- [l \in Lists |-> MemberListPayload(l)]

ListsCatchUp == Promise!Spec

\* No refresh is lost on the way, and the lists keep the promise (flushOccupancy,
\* RefreshOccupancy).
MembersFollow ==
  []RefreshDue /\ ListsCatchUp

=============================================================================
