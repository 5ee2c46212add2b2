# voidbar in TLA+

voidbar lets a Discord client talk to IRC networks: it answers Discord's REST
API and gateway websocket, keeps one upstream IRC connection per user and
network, and stores channels, messages and read positions in a Badger
database. voidweb, a second program, mirrors the web client from an archive.
This directory holds TLA+ models of their parts, the TLC configurations that
check them on small instances, and proofs that TLAPS checks for every
instance.

Paths below are relative to the repository (`src/`, mostly `src/internal/`).

## The system's parts

| Part | State it keeps | Operations | What makes it correct | Module |
|---|---|---|---|---|
| Gateway sessions (`discord/gateway/session.go`) | sequence counter, replay log, current write queue, time of detachment, watched member lists | attach, detach, dispatch, replay, queueFlush, stale | no send on a closed channel; no event lost or repeated on a live socket; the log is a bounded gap-free suffix | `Gateway`, `SessionLog`, `ReplayLog` |
| Gateway server (`discord/gateway/server.go`) | sessions by id and by user | ServeHTTP, handleConn, writePump, Dispatch, FlushUser, reaper | an account's events only reach its own sockets; only dead sessions are reaped; every handshake ends | `Gateway`, `GatewayFlush` |
| Snowflake ids (`util/id.go`) | last millisecond, counters per millisecond | Next, NewAt, NewBelow | ids are unique and ordered | `Snowflake` |
| Networks and memberships (`core/network/network.go`, `storage/networks.go`) | networks, memberships | Join, Leave, cascade | a network exists while it has a member | `Membership` |
| Upstream connections (`irc/ircmanage/manager.go`) | one `conn` per (user, network), link state, own nick | EnsureConn, Drop, RestartConn, supervisor | one connection per membership, always within reach of Drop | `Membership` |
| Channels (`network.go`, `manager.go`) | channel registry, auto-join lists, pending joins | create, remove, own JOIN, PART, KICK, refusals, RENAME | the auto-join list is what the server has the user in; a channel keeps its id | `Channels` |
| Categories (`network.go`) | categories and parents | create, move, drag, remove, rename | every grouped channel has a parent; client and store agree | `Layout` |
| DM threads (`manager.go`, `storage/networks.go`) | thread records, index | query, typing, open, close, Clyde's migration | every thread is reachable; no message in an unknown thread | `Threads` |
| Topics | stored topic | TOPIC, 332, edits | the stored topic is the server's | `Topics` |
| Presence (`manager.go`) | away marks, account facts, own status | AWAY, NICK, QUIT, ACCOUNT, WHO, SetStatus | the client shows who is away | `Presence` |
| Avatars (`core/network/avatars.go`, `metadata.go`) | account avatar, overrides, refusals | upload, METADATA SET and verdicts | nobody is shown an avatar that no peer sees | `Avatars` |
| Peers' metadata (`metadata.go`) | avatar and colour of peers | 761, 766, 774, fetch | the mirror is the network's value | `PeerMeta` |
| Member lists (`network.go`, `server.go`) | pending refresh, subscriptions | occupancy events, op 14 | no list stays behind | `Occupancy`, `MemberMirror` |
| Message relay (`manager.go`, `rest/guilds.go`) | send queue, pending sends, msgid registry | send, delete, echo, redaction | an echo is matched with its own send | `Relay` |
| Lines of a message (`multiline.go`) | open batches | plan, send, join | limits kept, text kept | `Multiline` |
| Mentions (`mentions.go`) | | IRCize, Discordize, MentionPayloadsFromMarkers | a mention survives the trip | `Mentions` |
| Message store (`storage/messages.go`) | replay buffer, msgid index | append, bind, react, embed, delete | the index names existing rows | `MessageStore` |
| Reactions, previews, deletion | reactions in memory and stored | REST, IRC, previews | stored reactions are the users'; nothing deleted comes back | `Reactions` |
| Pins (`network.go`) | pin list | pin, unpin | ceiling; badge and store agree | `Pins` |
| Read state (`network.go`, `storage/readstate.go`) | position and mentions | ack, guild ack, mention | the position moves forward; no mention is lost | `ReadState` |
| Chat history (`chathistory.go`) | open batches, the page waiter | prefill, page, batches | once, in order, no holes | `History` |
| Attachments (`rest/attachments.go`, `storage/attachments.go`) | slots, bindings, files | mint, PUT, send, expire | every link is served, its bytes never change | `Uploads` |
| Settings (`rest/stubs.go`, `storage/settings.go`) | one object per user | PATCH | sessions show what is stored | `Settings` |
| Accounts (`discord/auth`, `storage/users.go`, `sessions.go`) | users, indexes, tokens | register, admin API, login, logout, check | a login leads to one account; a logout holds | `Accounts` |
| voidweb (`cmd/voidweb/sync.go`) | files, markers, donors | sync, sweep, heal | a marker has its build behind it | `Mirror` |
| REST API (`discord/rest`) | none of its own | handlers over the services above | | the modules above |

How they interact. IRC handlers (one goroutine per upstream connection) and
REST handlers (one per request) change the database and then call
`Server.Dispatch`, which fans an event out to every session of the user. A
REST handler that needs its event to arrive before its HTTP response calls
`FlushUser` in between. Each websocket has a read loop and a write pump,
joined by a channel of 256 requests; a session holds the channel of the socket
it is attached to. Server state is under `Server.mu`, session state under
`Session.mu`; the database is changed in Badger transactions, but most
operations of the network service read in one transaction and write in
another. Work that must not block an event loop runs in goroutines of its own:
refreshes of member lists, fetches of avatars and link previews.

What is hard: the channel of a session is closed by one goroutine while
others send into it; RESUME moves a session between sockets in four separate
critical sections; the reaper decides under one lock and acts under another;
queues and logs are cut off at limits; upstream answers come late, twice or
never, and with them echoes, verdicts, pages and refusals; read-modify-write
sequences on the database interleave; the process stops between two
transactions. `PROJECT.json` lists these as hazards, each at its line, with
the properties that speak of it.

## Modules

A module models one component; a step is one critical section, one database
transaction, one handled line or event, or one operation on a queue. `map` in
`PROJECT.json` names the lines behind every definition. Three shapes recur:

- a REST request is a record with a position (`pc`, `at`, `phase`), and a
  handler of the event loop that reads in one step and writes in another is
  one too;
- the upstream server and the links are external: lines arrive in order, a
  link may drop with lines in flight, and what the server does is a choice;
- *history* variables record what happened (a race, a lost line) for the
  properties.

Modules that share no state are checked together: a bundle (`MCAccess`,
`MCRecords`, `MCGuild`) extends them and has one more variable, `focus`, chosen
at the start, which says whose actions the behaviour takes. TLC then explores
the sum of their state spaces, each in full.

| Bundle | Parts |
|---|---|
| `MCAccess` | `Gateway`, `Accounts`, `Settings`, `Mirror` |
| `MCRecords` | `Snowflake`, `Mentions`, `Multiline`, `Reactions`, `Pins`, `ReadState`, `Uploads` |
| `MCGuild` | `Channels`, `Layout`, `Threads`, `Topics`, `Presence`, `Avatars`, `PeerMeta`, `SessionLog`, `History` |
| `MCGateway`, `MCGatewayFlush`, `MCMembership`, `MCRelay`, `MCMembers`, `MCMentions` | one module each |

### SessionLog

`dispatchRaw` with `record = true` is `DispatchRecorded`, with `record = false`
(RESUMED) `DispatchUnrecorded`; the part of the reaper that clears a log is
`Reap`. The eviction loop on bytes is the operator `EvictCount`: the loop runs
once per proper prefix whose removal still leaves the counter above the bound.
The variable `recorded` is history.

### Gateway

A step is one hold of `Session.mu` or `Server.mu`, or one operation on a write
queue. The position of `handleConn` is `pc[c]`:

- `new -> open`: `ServeHTTP` upgraded the socket, started the pump, queued HELLO;
- IDENTIFY: `open -> creating` (Server.mu taken, staleness tested) `-> created`
  (session registered) `-> identified` (attached) `-> guilds` (READY sent)
  `-> live`;
- RESUME: `open -> found` (findSession) `-> attached -> replaying` (Session.mu
  held while the log is sent) `-> replayed -> live`;
- `gone`: the handler returned, `panicked`: it sent on a closed channel and
  net/http recovered.

`send[s]` is the connection whose channel the session holds; `queue[c]` and
`chanOpen[c]` are that channel; `pump[c]` is the write pump. A dispatch frame
is its sequence number. `detached[s]` abstracts `detachedAt`: zero, younger
than the TTL, older. `Server.mu` is explicit (`mu`, `condemned`) because the
reaper's test of a session and its removal are separate holds of Session.mu;
`Session.mu` is explicit only for `replay`, whose sends interleave with the
pump.

What a client sends is any sequence of operations. A RESUME names a number the
client can have: at most the last one written for that session after READY
(`seen`). The contents of payloads, and operations that neither change state
nor answer (op 3, 4, 13, 24, unknown ones), are left out. `OpReply` stands for one
frame that op 8 or op 14 sends.

### GatewayFlush

`FlushUser` is `FlushSnapshot`, then per session `FlushSkip` (offline),
`FlushQueue` and a wait (`FlushResolved` or `FlushTimeout`), or `FlushFull`.
The pump resolves a barrier in `PumpBarrier`. `owed` and `barriers` are
history: what was queued when FlushUser, or a barrier, began.

### Snowflake

An id is the pair of its millisecond and its number in it (`0..Top`, 0xFFF in the
code). `lastMs` and `seq` belong to `Next` (action `NextId`), `aux` holds the
counters that `NewAt` and `NewBelow` share. The clock is an input of `Next` and
may jump in both directions. A counter that is used up is passed over and
deleted (`UsedUp`, `Take`); `NewBelow` walks down from its time to the last
millisecond that fits below the ceiling (`Fits`), to the id 0 if there is none. What was handed out
and which counters were deleted is history. The mutex of the generator makes
each call one step.

### Membership

A step is one database transaction, one hold of `Manager.mu`, or one event of a
supervisor. The position of a request is `pc[p]`:

- Join: `get` (the index was read) `-> create | update | member -> put -> open`,
  then EnsureConn (`open -> register -> idle`) or, after a change of
  credentials, RestartConn (`open -> cancel -> await -> ensure -> register`);
- Leave: `delete -> drop -> dropWait -> count -> cascade`.

`nets`, `index` and `member` are the records of `storage/networks.go`; the index
entry outlives its network, because `DeleteNetworkCascade` does not delete it.
`conns` is `Manager.conns`. `Manager.mu` is explicit inside EnsureConn only,
which reads two records while it holds it; every other hold is one step that
waits for `mu`. A conn object has a supervisor position `sup` (`made` before it
is registered, `start`, `dial`, `up`, `sync` between the read and the write of
an own nick, `ended`, `backoff`, `done`). Drop's wait ends after five seconds,
so `LeaveDropWait` needs no `done`; RestartConn's wait does. A conn that is over
and that no request refers to stands for a fresh one. `Crash` loses everything
but the records and runs EnsureAll, which `main` calls before it serves
requests.

Of the IRC library (girc, external) the model assumes that closing a client
makes `Connect` return in the end and that its handlers are over when `Connect`
has returned. Data is abstract: whether a string brings new channel keys or new
credentials is an input. The channels of a membership, the JOINs a merge sends
on a live link, link events and failing database transactions are left out.

`outdated`, `swept`, `torn` and `minted` are history: conns whose own user has
changed the credentials since their configuration was read, conns whose
membership a cascade deleted, networks a crash left empty, ids handed out.

### Channels

`auto[u]` is the stored auto-join list, `joined[u]` the server's view. REST
creates and removes in several steps (`rest`), the handler of a connection
(`handler`) may hold a membership it read before. `pendingJoins` holds what a
refusal rolls back. `raced` marks the three ways in which a list really goes
wrong: a stale membership is written back, a refusal arrives when the pending
entry was cleared, a RENAME crosses other traffic.

### Layout, Threads, Topics

`Layout` keeps the categories inside the network record, which each request
reads whole and writes whole (`edit`); `client` is what the dispatched events
add up to. `Threads` is the records, their index and the migration of Clyde's
forks, one transaction per step. In `Topics` every member's connection handles
the same broadcast at its own time, with a read and a write of the stored
channel.

### Presence, Avatars, PeerMeta

`Presence` keeps the server's truth (`nickOf`, `isAway`, `account`) beside
`conn.away` and `conn.peers`, with and without away-notify and with and without an
echo of AWAY. History says where the books cannot know better: `unseen` holds the
people whose state changed out of sight or who turned up under a nick that was
still marked, `blurred` that the same happened to the user. `Avatars` follows an upload through overrides, `METADATA SET`s,
verdicts and the single rollback slot. `PeerMeta` follows one peer's values
through notifications, SYNC, postponed SYNC and the fetch off the read loop.

### Occupancy and MemberMirror

`Occupancy` is the coalesced refresh: an event notes a channel (`occ`), the first
arms the timer, the flusher forgets the note, then builds and dispatches list
by list, while subscriptions and events go on. `MemberMirror` is the abstract
promise: truth moves, copies are refreshed, and no copy in the set `held` stays
wrong for ever. `ListsCatchUp` is `Promise!Spec`, `Promise` being
`INSTANCE MemberMirror` with the lists as `MemberListPayload` computes them for
`truth` and the rows a client shows for `copy`. TLC checks steps and liveness;
`Promise!Moves`, the part about steps, is proved.

### Relay and MessageStore

`MessageStore` is the replay buffer as operators, one per transaction. `Relay`
has REST requests (look up the nonce, push the pending send, enqueue, dispatch,
append), the send worker, the echoes, foreign messages and redactions of the
event loop, the msgid registry with its cap, drops of the link and a restart.
`truth` is the message each msgid was issued for; `clean`, `early` and `again`
say which of the races happened.

### Mentions and Multiline

Both are conversions, so they are modelled by what they do, one loop iteration
a step. A text in `Mentions` is a sequence of letters, signs and whole markers,
long enough for a marker behind a marker, a nick that is a prefix of another,
and a "<" that opens nothing. In `Multiline` a message is a sequence of lines of
letters and spaces against a frame budget and the limits the server announced;
the reference is the text itself, joined again by `accLines`.

### Reactions, Pins, ReadState, Uploads, Settings

Read-modify-write sequences of concurrent requests and the event loop, one
transaction a step. `Uploads` adds retries of a PUT, expiry of slot and binding,
and a stop between the two transactions of `BindAttachment`. `Settings` adds
Badger's refusal of a merge that was overtaken.

### History

The upstream messages are numbered; `reqs` and `answer` are the CHATHISTORY
requests and the batch being sent. The event handler and the REST request that
waits for a page both store rows (`work`), live messages come in between, a link
loss cuts a batch. A batch is the set of its messages, flushed earliest first,
which is what flushChatBatch's sort makes of it. Ids are those of `Snowflake`: a
prefill numbers within the message's millisecond, a page below its ceiling; a
millisecond has `Slots` numbers and the bound `NumbersLeft` stops before they are
used up, where `Snowflake` says what follows. History variables record what the
properties except: `missed`, `cut`, `bound`, `overlapped`, and `misrouted`, which is also
set when a page is asked for below a row that has itself too low an id.

### Accounts

Registration looks up, counts and creates in three transactions; the check of
a token reads the user, then rewrites the session record. Badger refuses a
commit whose reads were overtaken (`spoilt`) and `requireAuth` takes that for a
bad token.

### Mirror

`syncAssets` tries the scrapes one by one, extracts, marks and sweeps;
`assetHandler` heals missing files from donors under its lock. Every download
may fail, leaving a torn file, and the process may stop at any step and start
again with another pin.

## Runs

The property a run checks of a component is often a conjunction of named parts
(`IdsSound` is `TypeOK`, `RepeatsOnlyWorn` and `BelowCeiling`, `HistoryFaithful` is
`StoredOnce`, `IdsInOrder` and `NoHoles`); each part is stated, with a comment, where it is
defined.

| Run | Shows |
|---|---|
| `gateway` | Gateway with two accounts: no session holds a closed channel; no number is lost on an attached socket; an identified socket sees consecutive numbers; frames go to the session's own user; the reaper takes no identified session. Accounts: logins are unambiguous, logouts hold, refusals are earned. Settings agree with what sessions show. Mirror: markers are backed, verdicts earned, whole files stay. |
| `gateway_live` | A displaced socket dies, handshakes and dispatches end. |
| `gateway_flush` | A resolved barrier, and a FlushUser that met neither timeout nor full queue, mean the frames are written. |
| `gateway_resume_reaped` | (violation) RESUME goes live on a session the reaper dropped after findSession. |
| `membership` | Two requests at a time join, leave and rotate credentials, links die and come back, the process crashes: supervisors can be ended, cancels are closed once, links belong to members, rotations replace links, empty networks are collected. |
| `relay` | msgids are bound to the messages they were issued for unless the order of the queue was broken; replies resolve to their message; client and buffer agree; the registry stays within its cap; a nonce is stored once. |
| `relay_echo` | (violation) content that takes two wire messages shifts the echo queue. |
| `records` | Ids, mentions, lines, files, reactions, pins, read states. |
| `guild` | Channels, categories, threads, topics, presence, avatars, peers, chat history, the replay log with its bytes. |
| `members` | No refresh is lost; the lists implement `MemberMirror` under fair timers and goroutines. |
| `mention_panic` | (violation) a text that ends with a known channel marker is read past its end. |
| `mention_hang` | (violation) a "<" that opens no marker is scanned for ever after the text went upstream. |

Properties that name an exception (`raced`, `overlap`, `crossed`, `contended` ...) say
exactly which race the code has; the models contain it, and everything outside
of it is shown to agree.

### Bounds

- Two of whatever contends: sockets, requests, connections, networks, members.
  Takeovers, lost updates and overtaking need two; a third repeats them.
- Capacities are the smallest at which the structure is empty, partly filled,
  full and overflowing: queue 2 (256 in the code), replay log 1 to 3 (256) and 7
  bytes with frames of 1, 2 and 4, replay buffer 1 or 2 rows (500), registry 1,
  pending sends 2, pins 1 (50), three numbers a millisecond (4096).
- Counters in guards bound how long a behaviour is: `MaxDispatch`, `MaxCalls`,
  `MaxOps`, `MaxEdits`, `MaxNotes`, `MaxTopicOps`, `MaxTurns`, `MaxUploads`, `MaxSets`,
  `MaxSteps`, `MaxScrolls`, `MaxDrops`, `MaxStarts`, `MaxPatches`, `MaxSlots`, `MaxFiles`,
  `MaxPosts`. Each is as large as its hazard needs steps, e.g. four turns in
  `Presence` let somebody go away, rename, leave and be replaced; three upstream
  messages against two rows in `History` make the ring trim.
- `Membership`: four calls, enough for a join, a leave and a rejoin against
  another user's calls, for a network collected and created anew, and for a conn
  replaced while its old supervisor still runs.
- Texts: three atoms in `Mentions`, five characters in `Multiline` against a
  budget of two, line limits 1 and 2 and byte limits 1, 3 and 4: below, at and
  above a frame.
- Deadlock is not checked where the bounds stop the system.

### Fairness

`gateway_live` assumes weak fairness of goroutine steps only: a handler inside
a handshake, a dispatcher inside Dispatch, a pump that can write or end. Nothing
is assumed of clients, write failures or the clock; a blocked ReadMessage
returns once its socket was closed, which is what `conn.Close` guarantees.
`members` assumes that the event loop goes on, that armed timers fire, that
flushers and answers in progress go on, and that a WHO the server began ends.
`mention_hang` assumes only that the goroutine of the request goes on. The other
runs check safety.

## Proofs

`GatewayProofs` proves, for any sets of connections, sessions, users and
dispatchers, any queue capacity and any replay limit:

- `TypeCorrect`: `Spec => []TypeOK`, one lemma per operator that changes the
  variables sessions and sockets share, one step per action.
- `WriterAlwaysOpen`: `Spec => []WriterOpen`. The property is not inductive: a
  step could reattach a queue closed earlier. `WriterInv` adds that the holder
  of a queue is the connection whose handler works on that very session and has
  attached once, and that a connection which has not attached has an open
  queue. Each connection attaches at most once, which is why a closed queue
  never comes back.
- `FramesToRightUser`: `Spec => []RightUser`, from `WriterInv` and `UserInv` (the
  session of a connection belongs to the user of its token).
- `NoLossWhileAttached`: `Spec => []NoLiveLoss`. With the set of numbers a
  connection carries, written or queued: attach starts with an empty obligation,
  dispatchRaw adds a number and its frame in one step or gives the socket up,
  the pump moves a frame from the queue to the wire, every other step keeps
  what a running pump carries.
- `ReaperSparesIdentified`: `Spec => []ReapSparesIdentified`. Between its
  registration and its attach a session is unknown to every other connection,
  since a RESUME needs a number its client has seen (`YoungInv`); what the reaper
  found stale or removed can only be attached by a RESUME (`ReapInv`).
- `IdentifiedGetConsecutive`: `Spec => []IdentifiedStream`. Wire and queue
  together rise without a gap from the number of the attach on (`StreamInv`);
  nothing is written before the attach (`WireInv`), what replays was resumed
  (`ResumeInv`), and a session's number only grows (`LiveFromInv`).

It also proves `FlushKeepsItsContract` (`FlushSpec => []FlushSound`). What the
whole gateway does to a socket is abstracted once, in the operator `SocketMove`;
the rest speaks of that. `BarrierInv`: a barrier in a queue stands behind the
frames it vouches for, or they are written. `OwedInv`: what a flusher owes is
written, queued on a session it has still to visit, or in front of the barrier
it waits for.

`MembershipProofs` proves, for any sets of users, networks, conns and concurrent
requests:

- `TypeCorrect`, `NoStrayLinks` and `CancelClosedOnce` from one inductive
  invariant, `Structure`. None of the three is inductive alone. `Structure` adds
  who holds `Manager.mu` (`MuInv`), what is remembered of a conn at each stage of
  its life (`LinkInv`), that a registered conn runs for its own key, is not
  cancelled and is in nobody's hands (`ConnInv`), and that EnsureConn makes a
  conn for a key that has none while no two requests hold the same one
  (`CallInv`). Most steps are "quiet" for this structure and share two lemmas;
  the steps that take, make, register, cancel or end a conn have one each.
- `LinksHaveMembers`, which is inductive on top of `Structure`.
- `RotationsReplaceLinks`, through `OutdatedInv`: it also speaks of the conn that
  another request of the same user is still making from the old record.
- `NoEmptyNetworks`, through `EmptyInv`: it narrows "some request works on the
  network" to the steps from which the request will fill it or look at it.

The strengthened invariants were model-checked before they were proved; the type
invariants of `Gateway` and `Membership` are proved and no longer part of a run.

`AccessProofs`, for any clients, names, keys, archive and bounds:

- `AccountsStaySound` and `TokensStayHonoured` from `AccountInv`: names and
  addresses lead back to their account (`IndexInv`), requests carry what exists
  (`CarryInv`), who counted no users still would unless marked as raced
  (`CountInv`), a check that nobody spoilt still has its session (`TokenInv`).
- `SettingsStayInAgreement`: per key, who is the only one to set it and what that
  request has done so far (`KeyInv`).
- `CacheStaysHonest`, an action property and invariant of `Mirror`. Who works on a
  missing file holds the lock and the file is not complete (`HealInv`); an
  extraction starts from nothing with no markers (`MarkerInv`); and once the
  donors of a branch were asked for, every scrape at which the name ends is
  still in the request's queue (`DonorInv`), so "nowhere" is only said when they
  were all asked. That some scrape comes last is well-foundedness of the order.

`RecordProofs`, for any concurrent requests, clock and bounds:

- `LinksStayServed` (`PutInv`: what is about to be bound is stored and fits the
  size its slot declares); `PinsStaySound` (`RoomInv`: a request was admitted when
  there was room for it, a counting argument over the requests that passed the
  ceiling; `PinnedInv` per message); `ReadStateStaysRight`, an action property
  (`WriteInv`: a row that nobody overtook does not move the position back);
  `DeletedStayDeleted` and `ReactionsStayPersisted` (`MarksInv`, per message: one
  process persists it, and what it persists is what the users did unless someone
  has tracked a change since).
- For `Snowflake`: `NextStrictlyIncreases` (an action property), `NoEarlyRepeats`
  (the counter of a millisecond stays above every number handed out in it while
  it is not used up), `AlwaysBelowCeiling`, and `IdsAlwaysSound`, which puts them
  together as the property `IdsSound`.

`GuildProofs`, for any members, channels, guilds, nicks and bounds:

- `ChannelsStayTracked` from `ChannelInv`. The property speaks of a quiet network
  only; the invariant says what is under way otherwise: the last line about a
  channel says whether the server has the user in it, and where list and server
  differ after all lines a JOIN, a PART or a request is still to come (`Flows`).
  A rename passes through a network that is quiet apart from it (`RenameFlow`).
- `LayoutStaysInAgreement` (`RemovalInv`, `MoveInv`: a removal found all children
  its category has, a move goes where a category still is).
- `TopicStaysTracked` (`LastLineInv`: the last line a connection has is the
  server's topic; `UnderWayInv`: what is not stored is on its way on some
  connection), `PeersStayRight` (`MetaWireInv`, `MirrorInv`: the same for the
  metadata lines and the fetch), `AvatarsStayRight` (`HonestInv`, `ShownInv`).
- `PresenceStaysRight` from `PresenceInv`. The property speaks of the moment when
  every line is handled; the invariant says that the books are right about the
  view in front of the lines still to come, and that a sequence of views, one
  between any two lines, leads from there to how things are (`Path`, `Booked`).
  A line turns one view into the next (`Turns`): what a handler writes is what
  the next view says (`Facts`, `Marks`, `Told`), and what the server does appends
  a line and a view. A mark may be wrong while a line that tells of it is under
  way (`LastSaid`); who is in the channel has no PART or QUIT under way without a
  JOIN behind it (`StaysIn`).
- `ThreadsStaySound`: the index is the inverse of the records' keys (`IndexInv`),
  and nobody else is at Clyde's threads while a migration runs (`TaskInv`).
- `LogStaysSound`: `LogInv` is the property and `recorded \subseteq 1..seq`. The
  eviction loop is arithmetic on prefix sums of frame lengths, which `SumExists`
  and `PrefixStep` derive by induction over sets of numbers: a least number that
  breaks the claim exists because `<` on `Nat` is well-founded.

`RelayProofs`, for any targets, nonces, requests and capacities:

- `RepliesAlwaysResolve` and `ClientStaysInAgreement` from `CoreInv`: ids and
  msgids are fresh when issued (`MintInv`, `LoopInv`); the registry, the index,
  the rows and the event loop never claim one msgid for two messages
  (`ClaimInv`), through eviction, trimming and restarts; an indexed row exists
  (`IndexInv`); a deletion or an alias without a row is `early` (`EarlyInv`).
- `NoncesStoredOnce` (`NonceInv`) and `EchoesMatchWhileClean` (`OrderInv`: while
  nothing broke the order, the pending sends of every target are what is on the
  wire, in the worker's queue and in one request's hands, in that order).

`HistoryProofs`, for any number of messages, whichever of them are multiline or
without a msgid, any capacity of the buffer and any limits of prefill and page:
`HistoryStaysFaithful` (`HistorySpec => []HistoryFaithful`). None of `StoredOnce`,
`IdsInOrder` and `NoHoles` is inductive, nor are they together. `HistoryInv` adds:

- `HeldInv` and `StackInv`: nobody holds a message that was not said; only a batch
  left open by a link that died can stand on the stack beside the one being
  received, and a nested multiline batch is `bound`.
- `RowInv`: a row's id lies in the millisecond of its message or below it, among
  the numbers that millisecond has handed out, so that a minted id is new.
- `OnceInv`: the index knows every row that has a msgid, and a fresh lookup is
  still true when its row is put, as long as one goroutine flushes at a time.
- `AskedInv`: request and waiter numbers never run ahead of the REST request's
  own, so a late answer cannot pass for a newer one.
- `PlaceInv`, while nothing was misrouted: every row has an id of its message's own
  millisecond, and what is flushed, or asked for, below a ceiling was said
  before the row of that ceiling; `bound` messages are excepted.
- `KeptInv`, while nothing was misrouted: a message said since the first JOIN, or
  known to the index, is a row, missed, bound, being received, or below a full
  ring. Of those said before the first JOIN, rows, batches, answers and
  requests reach from some message up: the later ones are there too, are kept,
  or are about to be stored. `NoHoles` is this at rest. That the ring trims
  the lowest ids and stays full is a lemma on `AppendMessage` (`AppendFact`).

Of the member lists, also in `MembershipProofs`, for any channels, people,
sessions and flushers:

- `RefreshStaysDue`: `RefreshDue` is inductive with the types.
- `ListsMoveAsPromised`: `OccupancySpec => Promise!Moves`, the refinement of
  `MemberMirror` without its liveness: the initial states are initial states, and
  every step moves the truth, rewrites one list or stutters.

`TextProofs`, for texts of any length, any frame budget, any limits and any people:

- `LinesStayKept`: the frames cut and the lines left make up the message at every
  moment, and so do the batches and the frames left (`CutInv`); the batch in hand
  is counted (`LimitInv`). What the recursive functions of `Multiline` compute is
  shown by least counterexamples: a set of numbers that holds 0 and the successor
  of what it holds has them all (`UpTo`), so a recursion whose steps stay in a set
  has a solution there (`FoldFact`), and only one (`FoldsAgree`).
- `MentionsStaySound` from `MentionInv`. A nick *stands* in a text where its signs
  follow one another, neither a word before or behind it nor an open link around
  it (`Stands`). While the sender's scan runs, every mention set apart that it has
  passed stands in the text so far, and no link is open there that is not open in
  what was typed (`Faithful`); one lemma, `FaithfulStep`, serves the three kinds of
  iteration, the one that copies the atom behind a channel marker unseen among
  them. While the receiver's scan runs, such a mention stands in front of it or is
  found (`HeardInv`): no match reaches over what ends a word (`NoCrossing`), and
  where a nick stands only that nick is matched, prefixes of it and what it is a
  prefix of included (`OneNick`). That the wire carries the text spelled out is
  `Spelled`, atom by atom.

The strengthened invariants were model-checked before they were proved. Where a
proof got stuck on a case, TLC was asked for it; so the history variables of
`Presence` were found to excuse too little at five turns, and were widened.

The assumptions are named in the modules and TLC evaluates them: capacities,
limits and frame lengths are positive numbers, bounds are numbers; `None`,
`Nothing`, `Unread`, `Unset`, `""` and the other markers are no identifiers, keys,
names or channels; networks, names and requests that are counted are finite;
`Peer` is not `Clyde`; there is a channel, a topic reader and a title; in
`Presence` there is a nick for everybody; the words `Mirror` writes into a marker
are no scrapes.

Only model-checked: the liveness properties and `ListsCatchUp` (fairness is
outside the prover's reach).

## What the models brought to light

Contradictions of a comment or a document have a run of their own and a finding
in `PROJECT.json` (`gateway_resume_reaped`, `relay_echo`, `mention_panic`,
`mention_hang`). The following is what the code does where no text says otherwise,
or where the model had to follow it closely.

Gateway:
- The byte counter of a session's log is not maintained by the count trim
  (session.go:139); it errs upwards, so the log only gets shorter.
- A return from the middle of the read loop leaves the session attached to a dead
  socket until its pump fails (server.go:336). A reader whose socket was displaced
  may answer a heartbeat on a closed channel and panics, which net/http recovers.
- An event between attach and replay reaches a resumed client twice and out of
  order (server.go:400); a replay longer than the queue drops frames
  (session.go:185). FlushUser counts a full queue as passed.
- Ids anchored in a past millisecond can equal ones `Next` handed out in it
  (id.go:68).

Networks, channels and connections:
- RestartConn returns when there is no connection (manager.go:821): a Join that
  rotates credentials then opens no link. The network record is written back
  whole by several operations. Forced joins and kicks send no CHANNEL_CREATE or
  CHANNEL_DELETE; a join error may come after the PART of the same channel.
- RemoveCategory announces children by rows read before (network.go:1342-1376).
- A second member's client is not told of a topic the first connection stored;
  typing alone opens a thread without announcing it; clydeDM can leave a fork when
  two connections run it at once.
- Away marks of people who parted or vanished stay; the map is not reset on
  reconnect; an echoed AWAY swallows the PRESENCE_UPDATE of 306, and so does the
  mark somebody left on a nick the user takes over.
- SetAvatarAll publishes over overrides, and clearing an override removes the
  upstream key instead of publishing the account avatar; member rows are
  dispatched before refusals are forgotten (avatars.go:244-261). A peer's newer
  avatar that arrives during a fetch is dropped. `applyPeerColor` ignores an
  invalid colour although metadata.go:282-283 speaks of clearing it.
- An older member list payload may overtake a newer one (network.go:1935).

Messages:
- The echo may come before AppendMessage; the registry forgets aliases after a
  restart. The answer to a retried send (dedupByNonce, guilds.go:1605-1624) has
  the original's id but neither its attachments nor its reply.
- Reactions in memory start empty after a restart; previews replace the client's
  record with one that is not pinned.
- A cut line can straddle two batches; a frame larger than max-bytes is sent
  alone; cuts ignore UTF-8; without draft/multiline a reply of several lines loses
  its reply tag (multiline.go:154-161). matchNickAt and matchChannelAt compare
  byte lengths with rune indexes.
- A live multiline message during an open history batch is bound to it; two
  flushes at once duplicate rows; an empty batch still sets the prefill mark; a
  late page may be taken by another request's waiter (chathistory.go:108).
- After a misrouted batch a row's id is too low for its message, and errors
  spread: a page asked for below that row is numbered below it too, so newer
  messages end up under older ids; and a message without a msgid that comes again
  in such a page is stored again. Larger bounds than those of the run showed this
  when the invariant of the proof was checked, and `misrouted` covers it since.
- A PATCH of the settings whose merge is refused is still dispatched, relayed to
  IRC and answered with 200 (stubs.go:290-311). A file sent inline whose store
  fails is still linked (attachments.go:184).

Accounts and voidweb:
- Two overlapping requests with one token conflict in TouchSession and one gets a
  401. Two concurrent first accounts of the admin API both become admin.
- A stop between the removal of the assets and of the markers leaves a marker
  without files (sync.go:140-146); "-" is recorded although a download merely
  failed (sync.go:608); torn files of the sweep count as present.

## Not modelled

The contents of READY and of the guild payloads, compression, JSON, colours and
groups of member lists beyond rank, and their cut at 99 rows; formatting codes
and embeds (pure), the fetch of pages and pictures (external), image formats,
network icons, invites; notes (single-key reads and writes); the parsing of
connection strings, whose result is an input of `Membership`; SASL and capability
negotiation, Clyde's texts; upgrade of old donor records, patching of bundles and
the reverse proxy of voidweb; start-up and configuration. The database engine is
Badger: a transaction is an atomic step, and only `Accounts` and `Settings`
model that it may refuse to commit, since there the refusal decides what a
client sees; elsewhere callers log the error.

## Plan

The system's core logic is modelled, and every safety property of the runs is
proved for every value of the constants. What is left is what TLAPS cannot prove:
the liveness properties under fairness, `ListsCatchUp` among them.
