------------------------------- MODULE Relay --------------------------------
(***************************************************************************)
(* One user's connection to one network as it relays messages: the REST    *)
(* handlers that send and delete, the connection's send worker, its event  *)
(* loop (echoes, foreign messages, redactions), the in-memory msgid        *)
(* registry and the persisted buffer they share.                           *)
(*                                                                         *)
(* REST requests run concurrently with each other and with the event loop, *)
(* which handles one event at a time.  The upstream server is external: it *)
(* echoes what reaches it in order, each echo with a fresh msgid.          *)
(***************************************************************************)
EXTENDS MessageStore

CONSTANTS
  Targets,      \* IRC targets (channels and query peers) with their buffers
  Nonces,       \* client nonces
  Reqs,         \* concurrent REST requests
  RegCap, PendCap, JobCap,     \* msgidRegistryCap, pendingSendCap, sendJobs
  DedupWindow,                 \* rows dedupByNonce looks at
  MaxId, MaxMsg, MaxWire, MaxDrops   \* bounds of the exploration

ASSUME CapsAssumption ==
  /\ {RegCap, PendCap, JobCap, DedupWindow} \subseteq Nat \ {0}
  /\ {MaxId, MaxMsg} \subseteq Nat
  /\ None \notin Nat

VARIABLES
  rows, idx,                 \* the store
  s2m, m2r, order, aliases,  \* snowToMsgid, msgidToRef, msgidOrder, aliasOrder
  pend,                      \* pendingSend, per target
  jobs,                      \* sendJobs
  loop,                      \* what the event loop is in the middle of
  req,                       \* the REST requests
  up, wire,                  \* the link, and what the server has yet to echo
  lastId, lastMsg, drops,    \* ids minted, msgids issued, link drops so far
  shown,                     \* messages the client shows
  deleted,                   \* messages deleted or redacted so far
  truth,                     \* the message each msgid was issued for
  clean, early, again        \* which of the code's known races have happened

store == <<rows, idx>>
registry == <<s2m, m2r, order, aliases>>
link == <<up, wire, drops>>
races == <<clean, early, again>>
vars == <<store, registry, pend, jobs, loop, req, link,
          lastId, lastMsg, shown, deleted, truth, races>>

Ids == 1 .. MaxId
Msgids == 1 .. MaxMsg
Idle == [pc |-> "idle", id |-> None, t |-> None, nonce |-> None, w |-> 0,
         ms |-> <<>>]

Init ==
  /\ rows = Empty /\ idx = Empty
  /\ s2m = Empty /\ m2r = Empty /\ order = <<>> /\ aliases = <<>>
  /\ pend = [t \in Targets |-> <<>>] /\ jobs = <<>>
  /\ loop = Idle /\ req = [r \in Reqs |-> Idle]
  /\ up = TRUE /\ wire = <<>> /\ drops = 0
  /\ lastId = 0 /\ lastMsg = 0
  /\ shown = {} /\ deleted = {} /\ truth = Empty
  /\ clean = TRUE /\ early = {} /\ again = {}

----------------------------------------------------------------------------
(* The msgid registry.  A registration is a record of its four parts.      *)

Registry == [s2m |-> s2m, m2r |-> m2r, order |-> order, aliases |-> aliases]

\* Mutant: eviction drops the msgid just registered, not the evicted one's.
registerMsgidEvictsNew(g, id, m) ==
  LET ord == IF id \in DOMAIN g.s2m THEN g.order ELSE Append(g.order, id)
      all == [g EXCEPT !.s2m = Put(@, id, m), !.m2r = Put(@, m, id), !.order = ord]
  IN  IF Len(ord) <= RegCap THEN all
      ELSE [all EXCEPT !.s2m = Without(@, {Head(ord)}),
                       !.m2r = Without(@, {m}), !.order = Tail(ord)]

registerMsgid(g, id, m) ==
  LET ord == IF id \in DOMAIN g.s2m THEN g.order ELSE Append(g.order, id)
      all == [g EXCEPT !.s2m = Put(@, id, m), !.m2r = Put(@, m, id), !.order = ord]
  IN  IF Len(ord) <= RegCap THEN all
      ELSE [all EXCEPT !.s2m = Without(@, {Head(ord)}),
                       !.m2r = Without(@, {all.s2m[Head(ord)]}), !.order = Tail(ord)]

registerMsgidAlias(g, id, m) ==
  IF id \in DOMAIN g.s2m /\ g.s2m[id] = m THEN g
  ELSE LET ord == Append(g.aliases, m)
       IN  IF Len(ord) <= RegCap THEN [g EXCEPT !.m2r = Put(@, m, id), !.aliases = ord]
           ELSE [g EXCEPT !.m2r = Without(Put(@, m, id), {Head(ord)}),
                          !.aliases = Tail(ord)]

\* ms is a joined message's msgids: the anchor and at most one alias.
registerAliases(g, id, ms) ==
  IF Len(ms) > 1 THEN registerMsgidAlias(g, id, ms[2]) ELSE g

RegisterAll(g, id, ms) == registerAliases(registerMsgid(g, id, ms[1]), id, ms)

SetRegistry(g) ==
  s2m' = g.s2m /\ m2r' = g.m2r /\ order' = g.order /\ aliases' = g.aliases

lookupRef(m) == IF m \in DOMAIN m2r THEN m2r[m] ELSE None

lookupMsgid(id) == IF id \in DOMAIN s2m THEN s2m[id] ELSE None

\* resolveReplyRef and resolveRef find the message of a msgid in the registry
\* or in the index; resolveRef also registers what it found in the index.
resolveReplyRef(m) ==
  IF lookupRef(m) # None THEN lookupRef(m) ELSE LookupMessageByMsgID(idx, m)

resolveRef(m) ==
  IF lookupRef(m) = None /\ resolveReplyRef(m) # None
  THEN registerMsgid(Registry, resolveReplyRef(m), m) ELSE Registry

\* The msgid an outgoing reply to id, or a redaction of it, carries.
ReplyTargetMsgid(id) ==
  IF lookupMsgid(id) # None THEN lookupMsgid(id) ELSE MessageMsgID(rows, id)

----------------------------------------------------------------------------
(* REST: handleSendMessage and SendChannel / SendQuery.                    *)

Recent(t) == LET page == ChannelMessages(rows, t, None, None, DedupWindow)
             IN  {page[k] : k \in 1 .. Len(page)}

\* Mutant: the nonce is compared without looking at the buffer's rows.
dedupByNonceNever(t, n) == FALSE

dedupByNonce(t, n) == n # None /\ \E i \in Recent(t) : rows[i].mine /\ rows[i].nonce = n

\* A nonce this send repeats although dedupByNonce cannot see the first copy.
Repeats(t, n) ==
  n # None /\ (\/ \E q \in Reqs : req[q].pc \in {"minted", "pushed", "queued"}
                                    /\ req[q].nonce = n /\ req[q].t = t
               \/ \E i \in Ring(rows, t) \ Recent(t) : rows[i].nonce = n)

\* w is the number of messages the content takes on the wire.
SendCheck(r, t, n, w) ==
  /\ req[r] = Idle /\ lastId < MaxId
  /\ ~dedupByNonce(t, n)
  /\ lastId' = lastId + 1
  /\ req' = [req EXCEPT ![r] = [Idle EXCEPT !.pc = "minted", !.id = lastId + 1,
                                            !.t = t, !.nonce = n, !.w = w]]
  /\ again' = IF Repeats(t, n) THEN again \cup {n} ELSE again
  /\ UNCHANGED <<store, registry, pend, jobs, loop, link,
                 lastMsg, shown, deleted, truth, clean, early>>

\* Mutant: the newest send is matched with the next echo.
pushPendingSendFirst(q, id) == <<id>> \o (IF Len(q) >= PendCap THEN Front(q) ELSE q)

pushPendingSend(q, id) == Append(IF Len(q) >= PendCap THEN Tail(q) ELSE q, id)

SendPush(r) ==
  /\ req[r].pc = "minted"
  /\ pend' = [pend EXCEPT ![req[r].t] = pushPendingSend(@, req[r].id)]
  /\ req' = [req EXCEPT ![r].pc = "pushed"]
  /\ clean' = (clean /\ Len(pend[req[r].t]) < PendCap
                     /\ \A q \in Reqs : req[q].pc # "pushed")
  /\ UNCHANGED <<store, registry, jobs, loop, link, lastId,
                 lastMsg, shown, deleted, truth, early, again>>

enqueueSend(r) ==
  /\ req[r].pc = "pushed"
  /\ jobs' = IF Len(jobs) < JobCap THEN Append(jobs, req[r]) ELSE jobs
  /\ req' = [req EXCEPT ![r].pc = "queued"]
  /\ clean' = (clean /\ Len(jobs) < JobCap)
  /\ UNCHANGED <<store, registry, pend, loop, link, lastId,
                 lastMsg, shown, deleted, truth, early, again>>

\* MESSAGE_CREATE to the sessions, then the row.
SendStore(r) ==
  /\ req[r].pc = "queued"
  /\ shown' = shown \cup {req[r].id}
  /\ rows' = AppendMessage(rows, req[r].id,
                           BufferedMessage(req[r].t, TRUE, req[r].nonce, None))
  /\ req' = [req EXCEPT ![r] = Idle]
  /\ UNCHANGED <<idx, registry, pend, jobs, loop, link, lastId, lastMsg,
                 deleted, truth, races>>

\* runSendWorker: on a dead link the writes go nowhere.
runSendWorker ==
  /\ jobs # <<>> /\ Len(wire) + Head(jobs).w <= MaxWire
  /\ jobs' = Tail(jobs)
  /\ wire' = IF up THEN wire \o [k \in 1 .. Head(jobs).w |-> Head(jobs)] ELSE wire
  /\ clean' = (clean /\ up /\ Head(jobs).w = 1)
  /\ UNCHANGED <<store, registry, pend, loop, req, up, drops,
                 lastId, lastMsg, shown, deleted, truth, early, again>>

\* DeleteMessage drops the row, redacts upstream and fans out MESSAGE_DELETE;
\* a message of someone else, or one not in the buffer, is refused.
HandleDeleteMessage(r, id) ==
  /\ req[r] = Idle /\ id \in DOMAIN rows /\ rows[id].mine
  /\ rows' = DeleteMessage(rows, id) /\ idx' = DeleteIndex(rows, idx, id)
  /\ shown' = shown \ {id} /\ deleted' = deleted \cup {id}
  /\ UNCHANGED <<registry, pend, jobs, loop, req, link,
                 lastId, lastMsg, truth, races>>

----------------------------------------------------------------------------
(* The event loop.                                                         *)

\* The msgids of the next upstream message: none, one, or an anchor and an
\* alias (a multiline batch whose frames carry their own).
Fresh == {ms \in {<<>>, <<lastMsg + 1>>, <<lastMsg + 1, lastMsg + 2>>} :
            lastMsg + Len(ms) <= MaxMsg}

Issue(ms, id) ==
  /\ lastMsg' = lastMsg + Len(ms)
  /\ truth' = [m \in DOMAIN truth \cup {ms[k] : k \in 1 .. Len(ms)} |->
                 IF m \in DOMAIN truth THEN truth[m] ELSE id]

IndexAll(ix, id, S) == [m \in DOMAIN ix \cup S |-> IF m \in S THEN id ELSE ix[m]]

\* An own message comes back: its msgid is bound to the head of the target's
\* pending queue; an echo without a msgid leaves the queue alone.
Echo(ms) ==
  LET t == Head(wire).t
      id == Head(pend[t])
  IN  /\ loop = Idle /\ up /\ wire # <<>>
      /\ wire' = Tail(wire)
      /\ Issue(ms, Head(wire).id)
      /\ clean' = (clean /\ ms # <<>>)
      /\ IF ms = <<>> \/ pend[t] = <<>>
         THEN UNCHANGED <<store, registry, pend, early>>
         ELSE /\ pend' = [pend EXCEPT ![t] = Tail(@)]
              /\ SetRegistry(RegisterAll(Registry, id, ms))
              /\ rows' = SetMessageMsgID(rows, id, ms[1])
              /\ idx' = IndexAll(IndexRow(rows, idx, ms[1], id), id, ToSet(Tail(ms)))
              /\ early' = IF id \in DOMAIN rows THEN early ELSE early \cup {id}
      /\ UNCHANGED <<jobs, loop, req, up, drops, lastId, shown,
                     deleted, again>>

\* dispatchMessage / dispatchQuery: mint, register, MESSAGE_CREATE ...
DispatchMessage(t, ms) ==
  /\ loop = Idle /\ up /\ lastId < MaxId
  /\ lastId' = lastId + 1
  /\ Issue(ms, lastId + 1)
  /\ IF ms = <<>> THEN UNCHANGED registry
     ELSE SetRegistry(registerMsgid(Registry, lastId + 1, ms[1]))
  /\ shown' = shown \cup {lastId + 1}
  /\ loop' = [Idle EXCEPT !.pc = "append", !.id = lastId + 1, !.t = t, !.ms = ms]
  /\ UNCHANGED <<store, pend, jobs, req, link, deleted, races>>

\* ... then the row, its index entry and the aliases of its other frames.
DispatchStore ==
  LET id == loop.id
      ms == loop.ms
      appended == AppendMessage(rows, id, BufferedMessage(loop.t, FALSE, None,
                                             IF ms = <<>> THEN None ELSE ms[1]))
      kept == id \in DOMAIN appended
  IN  /\ loop.pc = "append"
      /\ rows' = appended
      /\ idx' = IF ms = <<>> \/ ~kept THEN idx ELSE IndexAll(idx, id, ToSet(ms))
      /\ IF ms = <<>> \/ ~kept THEN UNCHANGED registry
         ELSE SetRegistry(registerAliases(Registry, id, ms))
      /\ loop' = Idle
      /\ UNCHANGED <<pend, jobs, req, link, lastId, lastMsg, shown,
                     deleted, truth, races>>

\* Mutant: a redaction drops the row but does not tell the client.
ApplyRedactionSilent(m) ==
  LET id == resolveReplyRef(m)
  IN  /\ loop = Idle /\ up /\ id # None
      /\ SetRegistry(resolveRef(m))
      /\ rows' = DeleteMessage(rows, id) /\ idx' = DeleteIndex(rows, idx, id)
      /\ shown' = shown /\ deleted' = deleted \cup {id}
      /\ UNCHANGED <<pend, jobs, loop, req, link, lastId,
                     lastMsg, truth, races>>

\* REDACT from another client.
ApplyRedaction(m) ==
  LET id == resolveReplyRef(m)
  IN  /\ loop = Idle /\ up /\ id # None
      /\ SetRegistry(resolveRef(m))
      /\ rows' = DeleteMessage(rows, id) /\ idx' = DeleteIndex(rows, idx, id)
      /\ shown' = shown \ {id} /\ deleted' = deleted \cup {id}
      /\ UNCHANGED <<pend, jobs, loop, req, link, lastId,
                     lastMsg, truth, races>>

----------------------------------------------------------------------------
(* The link and the process.                                               *)

\* The link drops; the connection's maps and queues outlive it, echoes do not.
LinkDrops ==
  /\ up /\ loop = Idle /\ drops < MaxDrops
  /\ up' = FALSE /\ wire' = <<>> /\ drops' = drops + 1
  /\ clean' = (clean /\ wire = <<>>)
  /\ UNCHANGED <<store, registry, pend, jobs, loop, req,
                 lastId, lastMsg, shown, deleted, truth, early, again>>

LinkReturns ==
  /\ ~up /\ up' = TRUE
  /\ UNCHANGED <<store, registry, pend, jobs, loop, req, wire,
                 drops, lastId, lastMsg, shown, deleted, truth, races>>

\* The process restarts: only the store survives.
Restart ==
  /\ drops < MaxDrops /\ drops' = drops + 1
  /\ SetRegistry([s2m |-> Empty, m2r |-> Empty, order |-> <<>>, aliases |-> <<>>])
  /\ pend' = [t \in Targets |-> <<>>] /\ jobs' = <<>>
  /\ loop' = Idle /\ req' = [r \in Reqs |-> Idle]
  /\ up' = TRUE /\ wire' = <<>>
  /\ shown' = DOMAIN rows
  /\ UNCHANGED <<store, lastId, lastMsg, deleted, truth, clean, early, again>>

Rest(r) ==
  \/ \E t \in Targets, n \in Nonces \cup {None}, w \in 1 .. 2 : SendCheck(r, t, n, w)
  \/ SendPush(r) \/ enqueueSend(r)
  \/ SendStore(r)
  \/ \E id \in Ids : HandleDeleteMessage(r, id)

EventLoop ==
  \/ \E ms \in Fresh : wire # <<>> /\ Echo(ms)
  \/ \E t \in Targets, ms \in Fresh : DispatchMessage(t, ms)
  \/ DispatchStore
  \/ \E m \in Msgids : ApplyRedaction(m)

Next ==
  \/ \E r \in Reqs : Rest(r)
  \/ EventLoop \/ runSendWorker
  \/ LinkDrops \/ LinkReturns \/ Restart

Spec == Init /\ [][Next]_vars

----------------------------------------------------------------------------
(* Properties.                                                             *)

\* Types: ids and msgids come from the counters, queues hold ids and jobs.
TypeOK ==
  /\ DOMAIN rows \subseteq Ids /\ DOMAIN idx \subseteq Msgids
  /\ \A m \in DOMAIN idx : idx[m] \in Ids
  /\ \A i \in DOMAIN rows : rows[i].ch \in Targets
  /\ \A t \in Targets : pend[t] \in Seq(Ids) /\ Len(pend[t]) <= PendCap
  /\ Len(jobs) <= JobCap
  /\ shown \subseteq Ids /\ deleted \subseteq Ids

\* First-in first-out echo matching (popPendingSend) binds every msgid to the
\* message it was issued for as long as nothing broke the queue's order: no
\* drop of the link with echoes outstanding, no full queue, no two sends
\* between push and enqueue at once, no content that takes several wire
\* messages, no echo without a msgid.
EchoMatchesClean ==
  clean => /\ \A i \in DOMAIN s2m : truth[s2m[i]] = i
           /\ \A m \in DOMAIN idx : truth[m] = idx[m]

\* What manager.go says of pushPendingSend: writes on one connection are
\* ordered and so are their echoes, so the head is the message echoed.
EchoMatches == \A i \in DOMAIN s2m : truth[s2m[i]] = i

\* The client shows every message the buffer holds, and no deleted one,
\* unless its echo outran the row: then a redaction can come too early.
ClientAgrees == DOMAIN rows \subseteq shown /\ (deleted \ early) \cap shown = {}

\* A reply or redaction sent for a buffered message carries a msgid which,
\* when it comes back, resolves to that same message.
ReplyRoundTrip ==
  \A i \in DOMAIN rows :
    ReplyTargetMsgid(i) # None => resolveReplyRef(ReplyTargetMsgid(i)) = i

\* A message known by a msgid in memory is also known by one in the store,
\* so it can be resolved after a restart, unless the echo outran the row.
AnchorPersisted ==
  \A i \in (DOMAIN s2m \cap DOMAIN rows) \ early :
    rows[i].msgid # None /\ LookupMessageByMsgID(idx, rows[i].msgid) = i

\* The registry holds at most RegCap messages, each once, and a row's own
\* msgid is the anchor of its batch, which an alias never displaces in the row.
RegistryBounded ==
  /\ Len(order) <= RegCap /\ Len(aliases) <= RegCap
  /\ DOMAIN s2m = {order[k] : k \in 1 .. Len(order)}
  /\ Cardinality(DOMAIN s2m) = Len(order)

\* Two buffered messages of one channel share a nonce only when the retry
\* overlapped the first send or came when it had left dedupByNonce's window.
NonceOnce ==
  \A i, j \in DOMAIN rows :
    i # j /\ rows[i].ch = rows[j].ch /\ rows[i].nonce = rows[j].nonce
      => rows[i].nonce \in again \cup {None}

\* The registry and the store resolve msgids alike: bounded, persistent, and
\* back to the message they came from (registerMsgid, resolveReplyRef).
RepliesResolve ==
  TypeOK /\ ReplyRoundTrip /\ AnchorPersisted /\ RegistryBounded

=============================================================================
