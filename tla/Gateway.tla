------------------------------ MODULE Gateway ------------------------------
(***************************************************************************)
(* The gateway server of voidbar: websocket connections, the sessions they *)
(* identify or resume, and the dispatchers that fan an event out to every  *)
(* session of a user (internal/discord/gateway/server.go, session.go).     *)
(*                                                                         *)
(* Who runs concurrently:                                                  *)
(*   - per connection, the read loop handleConn, with program counter pc;  *)
(*   - per connection, the writePump that drains the write queue;          *)
(*   - Dispatch, called from IRC handlers and REST handlers.               *)
(* A step is what happens under one hold of Session.mu, or of Server.mu.   *)
(* Two critical sections are longer than a step: Server.mu is held from    *)
(* the staleness test to the removal of the session (mu, condemned), and   *)
(* Session.mu while replay feeds a queue that the pump drains (Locked).    *)
(*                                                                         *)
(* A write queue is a buffered Go channel: sending to a closed one panics, *)
(* receiving from a closed one still yields what is buffered.  A dispatch  *)
(* frame is its sequence number; a session's number determines the frame.  *)
(***************************************************************************)
EXTENDS ReplayLog

CONSTANTS
    Conn,         \* websocket connections, each used once
    Sess,         \* session ids
    User,         \* accounts
    Dispatcher,   \* goroutines inside Dispatch
    QueueCap,     \* capacity of a connection's write queue (256)
    MaxDispatch,  \* bound on Dispatch calls, GUILD_CREATEs and op replies
    None          \* nil

ASSUME QueueCapAssumption == QueueCap \in Nat \ {0}
ASSUME MaxDispatchAssumption == MaxDispatch \in Nat
ASSUME NoneAssumption == None \notin Conn \cup Sess \cup User \cup Dispatcher \cup Nat
ASSUME ActorsDisjoint == Conn \cap Dispatcher = {}

VARIABLES
    \* Server
    sessions,     \* ids in Server.sessions (and, by owner, in Server.byUser)
    mu,           \* holder of Server.mu for writing, or None
    condemned,    \* sessions the holder found stale and is about to drop
    \* Session
    created,      \* ids handed out by createSession
    owner,        \* Session.UserID
    seq,          \* Session.seq
    events,       \* Session.events
    send,         \* Session.send, as the connection that owns the channel
    detached,     \* Session.detachedAt: zero, within the TTL, or past it
    \* connection
    pc,           \* where handleConn is
    sess,         \* its session: sess, or old during a RESUME
    token,        \* the account its token belongs to
    since,        \* seq of its RESUME; None for a connection that sent none
    left,         \* frames replay has still to send
    queue,        \* the write queue
    chanOpen,     \* FALSE once the queue was closed
    pump,         \* state of writePump
    sockUp,       \* FALSE once conn.Close() was called
    \* Dispatch
    targets,      \* sessions of the snapshot not yet served
    duser,        \* the user dispatched to
    budget,       \* dispatches the bound still allows
    \* history
    wire,         \* sequence numbers of the dispatch frames on the socket
    liveFrom,     \* seq of the session when it was last attached
    seen          \* last number the client can have of the session: what was
                  \* written last, from READY on (READY names the session)

serverVars == <<sessions, mu, condemned, created, owner>>
sessionVars == <<seq, events, send, detached, liveFrom>>
connVars == <<pc, sess, token, since, left>>
sockVars == <<queue, chanOpen, pump, sockUp, wire, seen>>
dispatchVars == <<targets, duser, budget>>
vars == <<serverVars, sessionVars, connVars, sockVars, dispatchVars>>

-----------------------------------------------------------------------------
(* Types *)

PC == {"new", "open",                                   \* no session yet
       "creating", "created", "identified", "guilds",   \* inside IDENTIFY
       "found", "attached", "replaying", "replayed",    \* inside RESUME
       "live",                                          \* reading, with a session
       "gone", "panicked"}                              \* handleConn is over

\* Where a connection works on a session.
WithSession == {"created", "identified", "guilds",
                "found", "attached", "replaying", "replayed", "live"}

\* A write request.  A frame that is no dispatch (HELLO, HEARTBEAT_ACK,
\* INVALID_SESSION) has number 0; a flush barrier has no frame.
Request == [kind : {"op", "READY", "RESUMED", "event", "flush"}, seq : Nat]
OpFrame == [kind |-> "op", seq |-> 0]
DispatchFrame(t, n) == [kind |-> t, seq |-> n]
IsDispatch(req) == req.kind \notin {"op", "flush"}

TypeOK ==
    /\ created \subseteq Sess
    /\ sessions \subseteq created
    /\ mu \in Conn \cup Dispatcher \cup {None}
    /\ condemned \subseteq sessions
    /\ owner \in [Sess -> User \cup {None}]
    /\ seq \in [Sess -> Nat]
    /\ events \in [Sess -> Seq(Nat)]
    /\ send \in [Sess -> Conn \cup {None}]
    /\ detached \in [Sess -> {"zero", "recent", "expired"}]
    /\ liveFrom \in [Sess -> Nat]
    /\ pc \in [Conn -> PC]
    /\ sess \in [Conn -> created \cup {None}]
    /\ \A c \in Conn : pc[c] \in WithSession => sess[c] # None
    /\ token \in [Conn -> User \cup {None}]
    /\ since \in [Conn -> Nat \cup {None}]
    /\ left \in [Conn -> Seq(Nat)]
    /\ queue \in [Conn -> Seq(Request)]
    /\ chanOpen \in [Conn -> BOOLEAN]
    /\ pump \in [Conn -> {"off", "run", "stopped"}]
    /\ sockUp \in [Conn -> BOOLEAN]
    /\ wire \in [Conn -> Seq(Nat)]
    /\ seen \in [Sess -> Nat]
    /\ targets \in [Dispatcher -> SUBSET created]
    /\ duser \in [Dispatcher -> User \cup {None}]
    /\ budget \in 0..MaxDispatch

Init ==
    /\ created = {} /\ sessions = {} /\ mu = None /\ condemned = {}
    /\ owner = [s \in Sess |-> None]
    /\ seq = [s \in Sess |-> 0]
    /\ events = [s \in Sess |-> <<>>]
    /\ send = [s \in Sess |-> None]
    /\ detached = [s \in Sess |-> "zero"]
    /\ liveFrom = [s \in Sess |-> 0]
    /\ pc = [c \in Conn |-> "new"]
    /\ sess = [c \in Conn |-> None]
    /\ token = [c \in Conn |-> None]
    /\ since = [c \in Conn |-> None]
    /\ left = [c \in Conn |-> <<>>]
    /\ queue = [c \in Conn |-> <<>>]
    /\ chanOpen = [c \in Conn |-> TRUE]
    /\ pump = [c \in Conn |-> "off"]
    /\ sockUp = [c \in Conn |-> FALSE]
    /\ wire = [c \in Conn |-> <<>>]
    /\ seen = [s \in Sess |-> 0]
    /\ targets = [d \in Dispatcher |-> {}]
    /\ duser = [d \in Dispatcher |-> None]
    /\ budget = MaxDispatch

-----------------------------------------------------------------------------
(* Session (session.go) *)

\* Session.mu is held by the replay of a RESUME.
Locked(s) == \E c \in Conn : pc[c] = "replaying" /\ sess[c] = s

HasRoom(c) == Len(queue[c]) < QueueCap

\* attach: the connection becomes the session's writer; the queue it displaces
\* is closed.
attach(s, c) ==
    /\ ~Locked(s)
    /\ chanOpen' = IF send[s] \in {None, c} THEN chanOpen
                                            ELSE [chanOpen EXCEPT ![send[s]] = FALSE]
    /\ send' = [send EXCEPT ![s] = c]
    /\ detached' = [detached EXCEPT ![s] = "zero"]
    /\ liveFrom' = [liveFrom EXCEPT ![s] = seq[s]]
    /\ UNCHANGED <<seq, events, queue, pump, sockUp, wire, seen>>

\* detach: only the connection that is still the writer detaches the session.
detach(s, c) ==
    /\ ~Locked(s)
    /\ IF send[s] = c
       THEN /\ send' = [send EXCEPT ![s] = None]
            /\ detached' = [detached EXCEPT ![s] = "recent"]
       ELSE UNCHANGED <<send, detached>>
    /\ UNCHANGED <<seq, events, liveFrom>>

\* Mutant: a full queue is closed but stays the session's writer.
sendFrameLockedKeeps(s, req) ==
    \/ /\ send[s] = None
       /\ UNCHANGED <<send, detached, queue, chanOpen>>
    \/ /\ send[s] # None /\ HasRoom(send[s])
       /\ queue' = [queue EXCEPT ![send[s]] = Append(@, req)]
       /\ UNCHANGED <<send, detached, chanOpen>>
    \/ /\ send[s] # None /\ ~HasRoom(send[s])
       /\ chanOpen' = [chanOpen EXCEPT ![send[s]] = FALSE]
       /\ UNCHANGED <<send, detached, queue>>

\* Mutant: a full queue drops the frame.
sendFrameLockedDrops(s, req) ==
    /\ queue' = IF send[s] # None /\ HasRoom(send[s])
                THEN [queue EXCEPT ![send[s]] = Append(@, req)] ELSE queue
    /\ UNCHANGED <<send, detached, chanOpen>>

\* Mutant: a full queue blocks the sender.
sendFrameLockedBlocks(s, req) ==
    /\ send[s] # None => HasRoom(send[s])
    /\ queue' = IF send[s] = None THEN queue
                ELSE [queue EXCEPT ![send[s]] = Append(@, req)]
    /\ UNCHANGED <<send, detached, chanOpen>>

\* sendFrameLocked: an offline session drops the frame, a full queue is closed
\* and the session goes offline.
sendFrameLocked(s, req) ==
    \/ /\ send[s] = None
       /\ UNCHANGED <<send, detached, queue, chanOpen>>
    \/ /\ send[s] # None
       /\ HasRoom(send[s])
       /\ queue' = [queue EXCEPT ![send[s]] = Append(@, req)]
       /\ UNCHANGED <<send, detached, chanOpen>>
    \/ /\ send[s] # None
       /\ ~HasRoom(send[s])
       /\ chanOpen' = [chanOpen EXCEPT ![send[s]] = FALSE]
       /\ send' = [send EXCEPT ![s] = None]
       /\ detached' = [detached EXCEPT ![s] = "recent"]
       /\ UNCHANGED queue

\* Mutant: a frame that is not recorded is not sent either.
dispatchRawRecordedOnly(s, t) ==
    /\ ~Locked(s)
    /\ seq' = [seq EXCEPT ![s] = @ + 1]
    /\ IF t # "RESUMED"
       THEN /\ \E k \in Evictable(events[s]) :
                   events' = [events EXCEPT ![s] = Record(@, seq[s] + 1, k)]
            /\ sendFrameLocked(s, DispatchFrame(t, seq[s] + 1))
       ELSE UNCHANGED <<events, send, detached, queue, chanOpen>>
    /\ UNCHANGED <<liveFrom, pump, sockUp, wire, seen>>

\* dispatchRaw: take the next number, record unless it is RESUMED, send.
dispatchRaw(s, t) ==
    /\ ~Locked(s)
    /\ seq' = [seq EXCEPT ![s] = @ + 1]
    /\ IF t # "RESUMED"
       THEN \E k \in Evictable(events[s]) :
                events' = [events EXCEPT ![s] = Record(@, seq[s] + 1, k)]
       ELSE UNCHANGED events
    /\ sendFrameLocked(s, DispatchFrame(t, seq[s] + 1))
    /\ UNCHANGED <<liveFrom, pump, sockUp, wire, seen>>

\* Mutant: an offline session is stale even if it was never attached.
StaleNeverAttached(s) == send[s] = None /\ detached[s] # "recent"

\* stale: offline past the TTL.
Stale(s) == send[s] = None /\ detached[s] = "expired"

\* The TTL of an offline session runs out.
Expire(s) ==
    /\ detached[s] = "recent"
    /\ detached' = [detached EXCEPT ![s] = "expired"]
    /\ UNCHANGED <<serverVars, seq, events, send, liveFrom,
                   connVars, sockVars, dispatchVars>>

-----------------------------------------------------------------------------
(* Server (server.go) *)

\* Server.mu is taken and reapStaleLocked tests every session for staleness.
ReapTest(a) ==
    /\ mu = None
    /\ \A s \in sessions : ~Locked(s)
    /\ mu' = a
    /\ condemned' = {s \in sessions : Stale(s)}

\* reapStaleLocked removes what it found stale and clears the logs.
ReapRemove(a) ==
    /\ mu = a
    /\ \A s \in condemned : ~Locked(s)
    /\ mu' = None
    /\ condemned' = {}
    /\ events' = [s \in Sess |-> IF s \in condemned THEN <<>> ELSE events[s]]
    /\ UNCHANGED <<seq, send, detached, liveFrom>>

\* Dispatch(userID, ...): the part under Server.mu, then one dispatchRaw per
\* session of the snapshot, in the order of a Go map: any.
DispatchLock(d, u) ==
    /\ targets[d] = {} /\ duser[d] = None
    /\ budget > 0
    /\ ReapTest(d)
    /\ duser' = [duser EXCEPT ![d] = u]
    /\ budget' = budget - 1
    /\ UNCHANGED <<sessions, created, owner, sessionVars, connVars, sockVars, targets>>

DispatchSnapshot(d) ==
    /\ ReapRemove(d)
    /\ sessions' = sessions \ condemned
    /\ targets' = [targets EXCEPT ![d] =
                      {s \in sessions \ condemned : owner[s] = duser[d]}]
    /\ duser' = [duser EXCEPT ![d] = None]
    /\ UNCHANGED <<created, owner, connVars, sockVars, budget>>

DispatchDeliver(d, s) ==
    /\ s \in targets[d]
    /\ dispatchRaw(s, "event")
    /\ targets' = [targets EXCEPT ![d] = @ \ {s}]
    /\ UNCHANGED <<serverVars, connVars, duser, budget>>

-----------------------------------------------------------------------------
(* One connection: ServeHTTP, handleConn, trySend (server.go) *)

Reading(c) == pc[c] \in {"open", "live"}
Over(c) == pc[c] \in {"gone", "panicked"}

\* A handler returns or panics: ServeHTTP's deferred conn.Close() runs.
Leave(c, how) ==
    /\ pc' = [pc EXCEPT ![c] = how]
    /\ sockUp' = [sockUp EXCEPT ![c] = FALSE]

\* trySend: never blocks, drops on a full queue, panics on a closed one.
trySend(c, req) ==
    \/ /\ chanOpen[c] /\ HasRoom(c)
       /\ queue' = [queue EXCEPT ![c] = Append(@, req)]
       /\ UNCHANGED <<pc, sockUp>>
    \/ /\ chanOpen[c] /\ ~HasRoom(c)
       /\ UNCHANGED <<queue, pc, sockUp>>
    \/ /\ ~chanOpen[c]
       /\ Leave(c, "panicked")
       /\ UNCHANGED queue

\* The socket is upgraded, the pump starts and HELLO is queued.
Open(c) ==
    /\ pc[c] = "new"
    /\ pc' = [pc EXCEPT ![c] = "open"]
    /\ pump' = [pump EXCEPT ![c] = "run"]
    /\ sockUp' = [sockUp EXCEPT ![c] = TRUE]
    /\ queue' = [queue EXCEPT ![c] = Append(@, OpFrame)]
    /\ UNCHANGED <<serverVars, sessionVars, sess, token, since, left,
                   chanOpen, wire, seen, dispatchVars>>

\* HEARTBEAT is answered, with or without a session.
Heartbeat(c) ==
    /\ Reading(c)
    /\ trySend(c, OpFrame)
    /\ UNCHANGED <<serverVars, sessionVars, sess, token, since, left,
                   chanOpen, pump, wire, seen, dispatchVars>>

\* IDENTIFY.  createSession takes Server.mu, reaps and registers the session ...
IdentifyLock(c, u) ==
    /\ pc[c] = "open"
    /\ created # Sess
    /\ ReapTest(c)
    /\ token' = [token EXCEPT ![c] = u]
    /\ pc' = [pc EXCEPT ![c] = "creating"]
    /\ UNCHANGED <<sessions, created, owner, sessionVars, sess, since, left,
                   sockVars, dispatchVars>>

IdentifyCreate(c, s) ==
    /\ pc[c] = "creating"
    /\ s \notin created
    /\ ReapRemove(c)
    /\ created' = created \cup {s}
    /\ sessions' = (sessions \ condemned) \cup {s}
    /\ owner' = [owner EXCEPT ![s] = token[c]]
    /\ sess' = [sess EXCEPT ![c] = s]
    /\ pc' = [pc EXCEPT ![c] = "created"]
    /\ UNCHANGED <<token, since, left, sockVars, dispatchVars>>

\* ... which is only then given the connection's queue ...
IdentifyAttach(c) ==
    /\ pc[c] = "created"
    /\ attach(sess[c], c)
    /\ pc' = [pc EXCEPT ![c] = "identified"]
    /\ UNCHANGED <<serverVars, sess, token, since, left, dispatchVars>>

\* ... and sent READY and a GUILD_CREATE per guild.
IdentifyReady(c) ==
    /\ pc[c] = "identified"
    /\ dispatchRaw(sess[c], "READY")
    /\ pc' = [pc EXCEPT ![c] = "guilds"]
    /\ UNCHANGED <<serverVars, sess, token, since, left, dispatchVars>>

GuildCreate(c) ==
    /\ pc[c] = "guilds"
    /\ budget > 0
    /\ budget' = budget - 1
    /\ dispatchRaw(sess[c], "event")
    /\ UNCHANGED <<serverVars, connVars, targets, duser>>

GuildsDone(c) ==
    /\ pc[c] = "guilds"
    /\ pc' = [pc EXCEPT ![c] = "live"]
    /\ UNCHANGED <<serverVars, sessionVars, sess, token, since, left,
                   sockVars, dispatchVars>>

\* GUILD_MEMBERS_CHUNK for op 8, GUILD_MEMBER_LIST_UPDATE for op 14: the read
\* loop dispatches to its session, whichever socket that is attached to now.
OpReply(c) ==
    /\ pc[c] = "live"
    /\ budget > 0
    /\ budget' = budget - 1
    /\ dispatchRaw(sess[c], "event")
    /\ UNCHANGED <<serverVars, connVars, targets, duser>>

\* RESUME.  findSession takes Server.mu for reading; an unknown session or one
\* of another user is answered INVALID_SESSION and the loop goes on ...
ResumeInvalid(c, u, s) ==
    /\ pc[c] = "open"
    /\ mu = None
    /\ s \notin sessions \/ owner[s] # u
    /\ trySend(c, OpFrame)
    /\ UNCHANGED <<serverVars, sessionVars, sess, token, since, left,
                   chanOpen, pump, wire, seen, dispatchVars>>

\* Mutant: the session's user is not compared with the token's.
ResumeFindAnyUser(c, u, s, n) ==
    /\ pc[c] = "open"
    /\ mu = None
    /\ s \in sessions
    /\ n \in 1..seen[s]
    /\ token' = [token EXCEPT ![c] = u]
    /\ sess' = [sess EXCEPT ![c] = s]
    /\ since' = [since EXCEPT ![c] = n]
    /\ pc' = [pc EXCEPT ![c] = "found"]
    /\ UNCHANGED <<serverVars, sessionVars, left, sockVars, dispatchVars>>

\* ... a known one is kept in a local variable, Server.mu is released ...
ResumeFind(c, u, s, n) ==
    /\ pc[c] = "open"
    /\ mu = None
    /\ s \in sessions /\ owner[s] = u
    /\ n \in 1..seen[s]
    /\ token' = [token EXCEPT ![c] = u]
    /\ sess' = [sess EXCEPT ![c] = s]
    /\ since' = [since EXCEPT ![c] = n]
    /\ pc' = [pc EXCEPT ![c] = "found"]
    /\ UNCHANGED <<serverVars, sessionVars, left, sockVars, dispatchVars>>

\* ... the session moves to this connection ...
ResumeAttach(c) ==
    /\ pc[c] = "found"
    /\ attach(sess[c], c)
    /\ pc' = [pc EXCEPT ![c] = "attached"]
    /\ UNCHANGED <<serverVars, sess, token, since, left, dispatchVars>>

\* ... replay takes Session.mu, goes through the log and sends what is newer
\* than the client's seq, each frame without blocking ...
ReplayLock(c) ==
    /\ pc[c] = "attached"
    /\ ~Locked(sess[c])
    /\ left' = [left EXCEPT ![c] = events[sess[c]]]
    /\ pc' = [pc EXCEPT ![c] = "replaying"]
    /\ UNCHANGED <<serverVars, sessionVars, sess, token, since, sockVars, dispatchVars>>

ReplaySkip(c) ==
    /\ pc[c] = "replaying"
    /\ left[c] # <<>> /\ Head(left[c]) <= since[c]
    /\ left' = [left EXCEPT ![c] = Tail(@)]
    /\ UNCHANGED <<serverVars, sessionVars, pc, sess, token, since,
                   sockVars, dispatchVars>>

ReplaySend(c) ==
    /\ pc[c] = "replaying"
    /\ left[c] # <<>> /\ Head(left[c]) > since[c]
    /\ left' = [left EXCEPT ![c] = Tail(@)]
    /\ trySend(c, DispatchFrame("event", Head(left[c])))
    /\ UNCHANGED <<serverVars, sessionVars, sess, token, since,
                   chanOpen, pump, wire, seen, dispatchVars>>

ReplayUnlock(c) ==
    /\ pc[c] = "replaying"
    /\ left[c] = <<>>
    /\ pc' = [pc EXCEPT ![c] = "replayed"]
    /\ UNCHANGED <<serverVars, sessionVars, sess, token, since, left,
                   sockVars, dispatchVars>>

\* ... and RESUMED follows, numbered but not recorded.
ResumeResumed(c) ==
    /\ pc[c] = "replayed"
    /\ dispatchRaw(sess[c], "RESUMED")
    /\ pc' = [pc EXCEPT ![c] = "live"]
    /\ UNCHANGED <<serverVars, sess, token, since, left, dispatchVars>>

\* ReadMessage fails (the client left, the read deadline passed, the pump
\* closed the socket): the loop breaks and the session is detached.
ReadEnds(c) ==
    /\ Reading(c)
    /\ Leave(c, "gone")
    /\ IF sess[c] = None THEN UNCHANGED sessionVars ELSE detach(sess[c], c)
    /\ UNCHANGED <<serverVars, sess, token, since, left, queue, chanOpen,
                   pump, wire, seen, dispatchVars>>

\* closeWS and return: an undecodable payload, a second IDENTIFY or RESUME, a
\* bad token, an op that needs a session.  These returns pass by the detach.
CloseWS(c) ==
    /\ Reading(c)
    /\ Leave(c, "gone")
    /\ UNCHANGED <<serverVars, sessionVars, sess, token, since, left, queue,
                   chanOpen, pump, wire, seen, dispatchVars>>

-----------------------------------------------------------------------------
(* One connection: writePump (server.go) *)

\* The pump hands a frame to the socket.
PumpWrite(c) ==
    /\ pump[c] = "run" /\ sockUp[c]
    /\ queue[c] # <<>> /\ Head(queue[c]).kind # "flush"
    /\ queue' = [queue EXCEPT ![c] = Tail(@)]
    /\ IF IsDispatch(Head(queue[c]))
       THEN /\ wire' = [wire EXCEPT ![c] = Append(@, Head(queue[c]).seq)]
            /\ seen' = IF Head(queue[c]).kind = "READY" \/ seen[sess[c]] > 0
                       THEN [seen EXCEPT ![sess[c]] = Head(queue[c]).seq]
                       ELSE seen
       ELSE UNCHANGED <<wire, seen>>
    /\ UNCHANGED <<serverVars, sessionVars, connVars, chanOpen, pump, sockUp,
                   dispatchVars>>

\* writePump returns; its deferred conn.Close() runs.  The history of a socket
\* is kept only while its pump runs.
PumpStops(c) ==
    /\ pump' = [pump EXCEPT ![c] = "stopped"]
    /\ sockUp' = [sockUp EXCEPT ![c] = FALSE]
    /\ wire' = [wire EXCEPT ![c] = <<>>]

\* A write fails: the pump ends, closing the socket; the frame is lost.
PumpFail(c) ==
    /\ pump[c] = "run"
    /\ queue[c] # <<>> /\ Head(queue[c]).kind # "flush"
    /\ queue' = [queue EXCEPT ![c] = Tail(@)]
    /\ PumpStops(c)
    /\ UNCHANGED <<serverVars, sessionVars, connVars, chanOpen, seen, dispatchVars>>

\* Mutant: the pump takes no notice of a closed queue.
PumpEndDoneOnly(c) ==
    /\ pump[c] = "run"
    /\ Over(c)
    /\ PumpStops(c)
    /\ UNCHANGED <<serverVars, sessionVars, connVars, queue, chanOpen, seen,
                   dispatchVars>>

\* The queue is closed and drained, or the handler is over: the pump ends.
PumpEnd(c) ==
    /\ pump[c] = "run"
    /\ Over(c) \/ (queue[c] = <<>> /\ ~chanOpen[c])
    /\ PumpStops(c)
    /\ UNCHANGED <<serverVars, sessionVars, connVars, queue, chanOpen, seen,
                   dispatchVars>>

-----------------------------------------------------------------------------
Identify(c) ==
    \/ \E u \in User : IdentifyLock(c, u)
    \/ \E s \in Sess : IdentifyCreate(c, s)
    \/ IdentifyAttach(c) \/ IdentifyReady(c) \/ GuildCreate(c) \/ GuildsDone(c)

Resume(c) ==
    \/ \E u \in User, s \in Sess : ResumeInvalid(c, u, s)
    \/ \E u \in User, s \in Sess : \E n \in 1..seen[s] : ResumeFind(c, u, s, n)
    \/ ResumeAttach(c)
    \/ ReplayLock(c) \/ ReplaySkip(c) \/ ReplaySend(c)
    \/ ReplayUnlock(c) \/ ResumeResumed(c)

Pump(c) == PumpWrite(c) \/ PumpFail(c) \/ PumpEnd(c)

Dispatch(d) ==
    \/ \E u \in User : DispatchLock(d, u)
    \/ DispatchSnapshot(d)
    \/ \E s \in Sess : DispatchDeliver(d, s)

Next ==
    \/ \E c \in Conn :
          \/ Open(c) \/ Heartbeat(c) \/ Identify(c) \/ OpReply(c) \/ Resume(c)
          \/ ReadEnds(c) \/ CloseWS(c) \/ Pump(c)
    \/ \E d \in Dispatcher : Dispatch(d)
    \/ \E s \in Sess : Expire(s)

Spec == Init /\ [][Next]_vars

\* Fairness: goroutines keep running.  Nothing is assumed of clients (opening,
\* sending, leaving), of write failures or of the clock; a blocked ReadMessage
\* returns once the socket was closed.
HandlerStep(c) ==
    \/ \E s \in Sess : IdentifyCreate(c, s)
    \/ IdentifyAttach(c) \/ IdentifyReady(c) \/ GuildsDone(c)
    \/ ResumeAttach(c)
    \/ ReplayLock(c) \/ ReplaySkip(c) \/ ReplaySend(c)
    \/ ReplayUnlock(c) \/ ResumeResumed(c)
    \/ ~sockUp[c] /\ ReadEnds(c)

DispatchStep(d) == DispatchSnapshot(d) \/ \E s \in Sess : DispatchDeliver(d, s)

Fairness ==
    /\ \A c \in Conn : WF_vars(HandlerStep(c)) /\ WF_vars(PumpWrite(c) \/ PumpEnd(c))
    /\ \A d \in Dispatcher : WF_vars(DispatchStep(d))

FairSpec == Spec /\ Fairness

-----------------------------------------------------------------------------
(* Properties *)

Elems(seqn) == {seqn[i] : i \in DOMAIN seqn}

\* A session only ever holds a queue that is open, and no two sessions hold
\* the same one.  Dispatch sends into Session.send from IRC and REST
\* goroutines that recover from nothing: a send on a closed channel, or a
\* second close, would take the process down (session.go:75, 151-154).
WriterOpen ==
    \A s \in Sess : send[s] # None =>
        /\ chanOpen[send[s]]
        /\ \A t \in Sess \ {s} : send[t] # send[s]

\* No dispatch is lost on a socket that stays attached: every number given out
\* since the attach is in its queue or already written.  A queue that cannot
\* take a frame costs the socket, never just the frame (session.go:151-157).
NoLiveLoss ==
    \A s \in Sess : (send[s] # None /\ pump[send[s]] = "run") =>
        \A n \in (liveFrom[s] + 1)..seq[s] :
            \/ n \in Elems(wire[send[s]])
            \/ \E r \in Elems(queue[send[s]]) : IsDispatch(r) /\ r.seq = n

\* The dispatch numbers written (w) or on their way (q) ...
Carries(w, q) == Elems(w) \cup {r.seq : r \in {x \in Elems(q) : IsDispatch(x)}}

\* ... rise from frame to frame.
Rising(w, q) ==
    /\ \A i, j \in DOMAIN w : i < j => w[i] < w[j]
    /\ \A i, j \in DOMAIN q :
          i < j /\ IsDispatch(q[i]) /\ IsDispatch(q[j]) => q[i].seq < q[j].seq
    /\ \A i \in DOMAIN w, j \in DOMAIN q : IsDispatch(q[j]) => w[i] < q[j].seq

\* No number is missing between two of them.
NoGap(numbers) == \A m, n \in numbers : m..n \subseteq numbers

\* A connection that identified, and so never replays, receives consecutive
\* numbers, whatever dispatchers, overflows, takeovers and the read loops of
\* displaced sockets do meanwhile (session.go, dispatchRaw under one lock).
IdentifiedStream ==
    \A c \in Conn : (since[c] = None /\ pump[c] = "run") =>
        Rising(wire[c], queue[c]) /\ NoGap(Carries(wire[c], queue[c]))

\* The reaper never takes a session from under a connection that identified:
\* only a RESUME, which looks the session up before it attaches, can be left
\* with a session that is no longer registered (server.go:171-189, 394-400).
ReapSparesIdentified ==
    \A s \in created \ sessions :
        send[s] # None => since[send[s]] # None

\* What a session sends goes to a socket of its own user only, however often
\* the session moves between sockets (server.go:395: RESUME compares users).
RightUser ==
    \A s \in Sess : send[s] # None => token[send[s]] = owner[s]

\* A socket that lost its queue to a takeover or an overflow dies: "the old
\* socket loses its writer and dies without a close frame" (session.go:67-69).
DisplacedDies == \A c \in Conn : ~chanOpen[c] ~> Over(c)

\* IDENTIFY and RESUME always come to an end, whoever holds which lock.
HandshakeEnds ==
    \A c \in Conn : pc[c] \notin {"new", "open", "live", "gone", "panicked"}
                        ~> (pc[c] = "live" \/ Over(c))

\* A Dispatch that began serves its whole snapshot and returns.
DispatchEnds ==
    \A d \in Dispatcher : (mu = d \/ targets[d] # {}) ~> (mu # d /\ targets[d] = {})

-----------------------------------------------------------------------------
(* What comments and tests say of the gateway, and the code does not keep *)

\* A session past its TTL is gone for good: "a later RESUME will just get an
\* INVALID_SESSION and re-IDENTIFY" (session.go:98-99).
ResumedIsRegistered ==
    \A c \in Conn : (pc[c] = "live" /\ send[sess[c]] = c) => sess[c] \in sessions

\* Nobody waits on anybody for ever: every handshake and every Dispatch ends
\* (handleConn, Server.Dispatch).
CallsEnd ==
  HandshakeEnds /\ DispatchEnds

=============================================================================
