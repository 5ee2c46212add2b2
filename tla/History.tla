------------------------------ MODULE History -------------------------------
(***************************************************************************)
(* Chat history of one channel on one connection: the prefill a JOIN asks  *)
(* for (CHATHISTORY LATEST), the older pages a scroll-up asks for (BEFORE),*)
(* the batches that answer both, live messages in between, link losses.    *)
(* Upstream messages are numbered in the order, and by the millisecond,    *)
(* they were said; message k has the msgid k unless it is Untagged.  Two   *)
(* goroutines store: the event handler and the REST request of the page.   *)
(***************************************************************************)
EXTENDS MessageStore

CONSTANTS
  Upstream,        \* bound: messages ever said in the channel
  Earlier,         \* those said before the first JOIN
  Multi,           \* sent as draft/multiline batches
  Untagged,        \* sent without a msgid
  PrefillLimit,    \* chatPrefillLimit
  PageLimit,       \* bound: rows a page request can lack
  MaxScrolls, MaxDrops  \* bounds on page requests and link losses

Messages == 1..Upstream
Jobs == [left : SUBSET Messages, fresh : BOOLEAN, ceiling : Nat \cup {None}]
LineBatches == [msg : Messages, chatRef : Nat \cup {None}]
Asks == {"latest", "before"}
Answers == [ref : Nat, ask : Asks, id : Nat, open : BOOLEAN, left : SUBSET Messages]

ASSUME HistoryAssumption ==
  /\ Earlier \in Nat /\ Upstream \in Nat /\ Earlier <= Upstream
  /\ {PrefillLimit, PageLimit, MaxScrolls, MaxDrops} \subseteq Nat
  /\ None \notin Nat \cup Jobs \cup LineBatches \cup Answers

VARIABLES
  said, linkUp,    \* the server: messages said; the link, JOINed when up
  reqs, answer,    \* CHATHISTORY requests and the answer being sent
  rows, idx,       \* the replay buffer and its msgid index
  aux,             \* Snowflake.aux: numbers used up per millisecond
  prefilled,       \* the persisted chatprefill mark
  chatBatches, chatStack, lineBatch,  \* conn: batches being accumulated
  pageCh, pageBatch,  \* conn: the page waiter, and the batch handed to it
  selectorBroken,  \* conn.histSelectorBroken
  page,            \* the REST request: what it does, in which round
  work,            \* the batch each goroutine is flushing
  refs, scrolls, drops,
  missed,          \* history: said while the link was down
  cut,             \* history: a link died within a batch
  bound,           \* history: live multiline batches bound to such a batch, or to
                   \* one being received
  overlapped,      \* history: both goroutines flushed at once
  misrouted        \* history: a waiter took an answer to another request, or a page
                   \* was asked for below a row that has itself too low an id

historyVars == <<said, linkUp, reqs, answer, rows, idx, aux, prefilled, chatBatches,
  chatStack, lineBatch, pageCh, pageBatch, selectorBroken, page, work, refs, scrolls,
  drops, missed, cut, bound, overlapped, misrouted>>

server == <<said, linkUp, reqs, answer, refs, drops, missed, cut>>
store == <<rows, idx, aux, prefilled>>
batches == <<chatBatches, chatStack, lineBatch, bound>>
waiter == <<pageCh, pageBatch, selectorBroken, misrouted>>
paging == <<page, scrolls>>
flushing == <<work, overlapped>>

Channel == "#c"
Slots == 4096  \* ids of one millisecond: number 0 is Next's, the others are NewAt's
Ms(k) == k + 4  \* the millisecond in which message k was said
MsgidOf(k) == IF k \in Untagged THEN None ELSE k
Idle == [at |-> "idle", need |-> 0, round |-> 0, got |-> 0, ceiling |-> None]

HistoryInit ==
  /\ said = Earlier /\ linkUp = FALSE /\ reqs = << >> /\ answer = None
  /\ rows = Empty /\ idx = Empty /\ aux = [t \in 0..Ms(Upstream) |-> 0] /\ prefilled = FALSE
  /\ chatBatches = Empty /\ chatStack = << >> /\ lineBatch = None
  /\ pageCh = None /\ pageBatch = None /\ selectorBroken = FALSE
  /\ page = Idle /\ work = [w \in {"handler", "rest"} |-> None]
  /\ refs = 0 /\ scrolls = 0 /\ drops = 0
  /\ missed = {} /\ cut = FALSE /\ bound = {} /\ overlapped = FALSE /\ misrouted = FALSE

----------------------------------------------------------------------------
(* Storing.                                                                *)

\* AppendMessage, then SetMessageMsgID when there is a msgid.
Store(id, k) ==
  LET all == AppendMessage(rows, id, [ch |-> Channel, msgid |-> MsgidOf(k), said |-> k])
  IN  /\ rows' = all
      /\ idx' = IF k \in Untagged THEN idx ELSE IndexRow(all, idx, k, id)

\* flushChatBatch works through a batch in the order of its times.
Earliest(frames) == CHOOSE k \in frames : \A j \in frames : k <= j

Job(batch, ceiling) ==
  [left |-> batch.frames, fresh |-> FALSE, ceiling |-> ceiling]

StartFlush(w, job) ==
  /\ work' = [work EXCEPT ![w] = IF job.left = {} THEN None ELSE job]
  /\ overlapped' = (overlapped \/ \E v \in DOMAIN work : v # w /\ work[v] # None)

\* Mutant: the msgid index is not asked.
FlushLookupSkipped(w) ==
  /\ work[w] # None /\ ~work[w].fresh
  /\ work' = [work EXCEPT ![w].fresh = TRUE]
  /\ UNCHANGED <<server, store, batches, waiter, paging, overlapped>>

\* Per frame: a msgid the index knows is skipped ...
FlushLookup(w) ==
  /\ work[w] # None /\ ~work[w].fresh
  /\ LET k == Earliest(work[w].left)
         dup == MsgidOf(k) # None /\ LookupMessageByMsgID(idx, k) # None
         rest == work[w].left \ {k}
     IN  work' = [work EXCEPT ![w] = IF ~dup THEN [@ EXCEPT !.fresh = TRUE]
                                     ELSE IF rest = {} THEN None
                                     ELSE [@ EXCEPT !.left = rest]]
  /\ UNCHANGED <<server, store, batches, waiter, paging, overlapped>>

\* NewAt and NewBelow: the frame's millisecond, or the one nearest before it
\* whose next number is below the ceiling.
Fits(k, ceiling) == {t \in 0..Ms(k) : ceiling = None \/ Slots * t + aux[t] + 1 < ceiling}

MintMs(k, ceiling) ==
  CHOOSE t \in Fits(k, ceiling) : \A u \in Fits(k, ceiling) : u <= t

\* Bound: no millisecond has used up its numbers (Snowflake has what follows then).
NumbersLeft == \A t \in DOMAIN aux : aux[t] + 1 < Slots

\* ... any other frame is stored, and dispatched when the batch is live.
FlushAppend(w) ==
  /\ work[w] # None /\ work[w].fresh /\ NumbersLeft
  /\ LET k == Earliest(work[w].left)
         t == MintMs(k, work[w].ceiling)
         rest == work[w].left \ {k}
     IN  /\ Fits(k, work[w].ceiling) # {}
         /\ Store(Slots * t + aux[t] + 1, k)
         /\ aux' = [aux EXCEPT ![t] = @ + 1]
         /\ page' = IF w = "rest" THEN [page EXCEPT !.got = @ + 1] ELSE page
         /\ work' = [work EXCEPT ![w] = IF rest = {} THEN None
                                        ELSE [@ EXCEPT !.left = rest, !.fresh = FALSE]]
  /\ UNCHANGED <<server, prefilled, batches, waiter, scrolls, overlapped>>

----------------------------------------------------------------------------
(* The event handler: it takes the next line once it has flushed.          *)

Listening == linkUp /\ work["handler"] = None

appendChatFrame(ref, k) ==
  IF ref \in DOMAIN chatBatches THEN [chatBatches EXCEPT ![ref].frames = @ \cup {k}]
  ELSE chatBatches

\* A live message is relayed as it comes; it is the newest of all.
LiveMessage(k) ==
  /\ Store(Slots * Ms(k), k)
  /\ UNCHANGED <<aux, prefilled, batches>>

\* A multiline batch opens: it belongs to the innermost open history batch,
\* or to the one that was open when the last link died.
MultilineOpen(k) ==
  /\ lineBatch = None
  /\ lineBatch' = [msg |-> k, chatRef |-> IF chatStack = << >> THEN None ELSE Last(chatStack)]
  /\ bound' = IF cut \/ (answer # None /\ answer.open) THEN bound \cup {k} ELSE bound
  /\ UNCHANGED <<chatBatches, chatStack, store>>

\* flushLineBatch: into the history batch it is bound to, or relayed.
FlushLineBatch ==
  /\ Listening /\ lineBatch # None
  /\ lineBatch' = None
  /\ IF lineBatch.chatRef = None
     THEN Store(Slots * Ms(lineBatch.msg), lineBatch.msg) /\ UNCHANGED chatBatches
     ELSE chatBatches' = appendChatFrame(lineBatch.chatRef, lineBatch.msg) /\ UNCHANGED <<rows, idx>>
  /\ UNCHANGED <<server, aux, prefilled, chatStack, bound, waiter, paging, flushing>>

\* Someone speaks in the channel.
Say ==
  /\ said < Upstream /\ said' = said + 1
  /\ IF ~linkUp
     THEN missed' = missed \cup {said'} /\ UNCHANGED <<store, batches>>
     ELSE /\ Listening /\ UNCHANGED missed
          /\ IF said' \in Multi THEN MultilineOpen(said') ELSE LiveMessage(said')
  /\ UNCHANGED <<linkUp, reqs, answer, refs, drops, cut, waiter, paging, flushing>>

\* BATCH +ref: openChatBatch and pushChatStack.
ChatBatchOpen ==
  /\ Listening /\ answer # None /\ ~answer.open
  /\ answer' = [answer EXCEPT !.open = TRUE]
  /\ chatBatches' = Put(chatBatches, answer.ref, [frames |-> {}, ask |-> answer.ask])
  /\ chatStack' = Append(chatStack, answer.ref)
  /\ UNCHANGED <<said, linkUp, reqs, refs, drops, missed, cut, store, lineBatch, bound,
                 waiter, paging, flushing>>

\* A batched PRIVMSG, or a multiline batch nested in the history batch.
ChatBatchFrame ==
  /\ Listening /\ answer # None /\ answer.open /\ answer.left # {}
  /\ LET k == CHOOSE i \in answer.left : \A j \in answer.left : j <= i
     IN  /\ answer' = [answer EXCEPT !.left = @ \ {k}]
         /\ chatBatches' = appendChatFrame(answer.ref, k)
  /\ UNCHANGED <<said, linkUp, reqs, refs, drops, missed, cut, store, chatStack, lineBatch, bound,
                 waiter, paging, flushing>>

popChatStack(stack, ref) ==
  IF stack # << >> /\ Last(stack) = ref THEN Front(stack) ELSE stack

\* BATCH -ref: a page waiter of this channel takes the batch, whichever
\* request it answers; without one it is flushed live, as a prefill.
ChatBatchClose ==
  /\ Listening /\ answer # None /\ answer.open /\ answer.left = {}
  /\ answer' = None
  /\ chatBatches' = Without(chatBatches, {answer.ref})
  /\ chatStack' = popChatStack(chatStack, answer.ref)
  /\ LET acc == chatBatches[answer.ref]
     IN  IF pageCh # None
         THEN /\ pageBatch' = acc /\ pageCh' = None
              /\ misrouted' = (misrouted \/ acc.ask = "latest" \/ pageCh.id # answer.id)
              /\ UNCHANGED <<prefilled, flushing>>
         ELSE /\ prefilled' = TRUE
              /\ StartFlush("handler", Job(acc, None))
              /\ UNCHANGED <<pageBatch, pageCh, misrouted>>
  /\ UNCHANGED <<said, linkUp, reqs, refs, drops, missed, cut, rows, idx, aux, lineBatch, bound,
                 selectorBroken, paging>>

----------------------------------------------------------------------------
(* The REST request of a page.                                             *)

\* handleGetMessages: the buffer is short of the page by need rows.
GetMessages(need) ==
  /\ page = Idle /\ scrolls < MaxScrolls
  /\ page' = [Idle EXCEPT !.at = "ask", !.need = need, !.round = 1] /\ scrolls' = scrolls + 1
  /\ UNCHANGED <<server, store, batches, waiter, flushing>>

\* The message a page must be older than: the buffer's oldest.
Floor == IF DOMAIN rows = {} THEN said + 1 ELSE
  rows[CHOOSE i \in DOMAIN rows : \A j \in DOMAIN rows : i <= j].said

FloorId == IF DOMAIN rows = {} THEN None
           ELSE CHOOSE i \in DOMAIN rows : \A j \in DOMAIN rows : i <= j

\* FetchOlder: refused while the link is down, a selector is known to break
\* it or a recent waiter stands; otherwise a waiter is left and the request sent.
FetchOlder ==
  /\ page.at = "ask"
  /\ IF linkUp /\ ~selectorBroken /\ (pageCh = None \/ pageCh.old)
     THEN /\ pageCh' = [id |-> scrolls * 4 + page.round, old |-> FALSE]
          /\ pageBatch' = None
          /\ reqs' = Append(reqs, [ask |-> "before", below |-> Floor, limit |-> page.need,
                                   id |-> scrolls * 4 + page.round])
          /\ page' = [page EXCEPT !.at = "wait", !.ceiling = FloorId]
          /\ misrouted' = (misrouted \/ (DOMAIN rows # {} /\ FloorId < Slots * Ms(Floor)))
     ELSE page' = Idle /\ UNCHANGED <<pageCh, pageBatch, reqs, misrouted>>
  /\ UNCHANGED <<said, linkUp, answer, refs, drops, missed, cut, store, batches,
                 selectorBroken, scrolls, flushing>>

\* The channel was closed: the batch is flushed silently below the ceiling.
PageWoken ==
  /\ page.at = "wait" /\ pageBatch # None
  /\ pageBatch' = None
  /\ StartFlush("rest", Job(pageBatch, page.ceiling))
  /\ page' = IF pageBatch.frames = {} THEN Idle ELSE [page EXCEPT !.at = "flush"]
  /\ UNCHANGED <<server, store, batches, pageCh, selectorBroken, misrouted, scrolls>>

\* Five seconds pass: the request returns, the waiter stays registered.
PageTimeout ==
  /\ page.at = "wait" /\ page' = Idle
  /\ UNCHANGED <<server, store, batches, waiter, scrolls, flushing>>

\* FetchOlderMessages asks up to three times while rows are missing.
PageFlushed ==
  /\ page.at = "flush" /\ work["rest"] = None
  /\ page' = IF page.got = 0 \/ page.got >= page.need \/ page.round = 3 THEN Idle
             ELSE [Idle EXCEPT !.at = "ask", !.need = page.need - page.got, !.round = page.round + 1]
  /\ UNCHANGED <<server, store, batches, waiter, scrolls, flushing>>

\* Ten seconds after it was left a waiter no longer keeps others out.
WaiterAges ==
  /\ pageCh # None /\ ~pageCh.old /\ page.at # "wait"
  /\ pageCh' = [pageCh EXCEPT !.old = TRUE]
  /\ UNCHANGED <<server, store, batches, pageBatch, selectorBroken, misrouted, paging, flushing>>

----------------------------------------------------------------------------
(* The server and the link.                                                *)

\* The newest messages (below the anchor, for BEFORE), at most limit.
Page(req) ==
  LET older == 1..(req.below - 1)
  IN  {k \in older : Cardinality({j \in older : j > k}) < req.limit}

\* The server begins an answer, never within a message; or refuses the request.
ServerAnswers(refuse) ==
  /\ linkUp /\ answer = None /\ lineBatch = None /\ reqs # << >>
  /\ reqs' = Tail(reqs) /\ refs' = refs + 1
  /\ LET req == Head(reqs)
     IN  answer' = IF refuse THEN None ELSE
           [ref |-> refs', ask |-> req.ask, id |-> req.id, open |-> FALSE,
            left |-> Page(IF req.ask = "latest" THEN [req EXCEPT !.below = said + 1] ELSE req)]
  /\ UNCHANGED <<said, linkUp, drops, missed, cut, store, batches, waiter, paging, flushing>>

\* The link dies: what is accumulated stays; a page just asked for is
\* taken as its cause.
LinkDies ==
  /\ linkUp /\ work["handler"] = None /\ drops < MaxDrops
  /\ linkUp' = FALSE /\ drops' = drops + 1
  /\ reqs' = << >> /\ answer' = None /\ lineBatch' = None
  /\ selectorBroken' = (selectorBroken \/ (pageCh # None /\ ~pageCh.old))
  /\ cut' = (cut \/ (answer # None /\ answer.open))
  /\ missed' = missed \cup (IF lineBatch = None THEN {} ELSE {lineBatch.msg})
  /\ UNCHANGED <<said, refs, store, chatBatches, chatStack, bound, pageCh, pageBatch,
                 misrouted, paging, flushing>>

\* The channel is joined (again): maybeChatPrefill.
Join ==
  /\ ~linkUp /\ linkUp' = TRUE
  /\ reqs' = IF prefilled THEN << >>
             ELSE <<[ask |-> "latest", below |-> 0, limit |-> PrefillLimit, id |-> 0]>>
  /\ UNCHANGED <<said, answer, refs, drops, missed, cut, store, batches, waiter, paging, flushing>>

HandlerNext ==
  \/ FlushLookup("handler") \/ FlushAppend("handler") \/ FlushLineBatch
  \/ ChatBatchOpen \/ ChatBatchFrame \/ ChatBatchClose

RestNext ==
  \/ FlushLookup("rest") \/ FlushAppend("rest")
  \/ FetchOlder \/ PageWoken \/ PageTimeout \/ PageFlushed

HistoryNext ==
  \/ HandlerNext \/ RestNext \/ Say \/ WaiterAges \/ LinkDies \/ Join
  \/ \E need \in 1..PageLimit : GetMessages(need)
  \/ \E refuse \in BOOLEAN : ServerAnswers(refuse)

HistorySpec == HistoryInit /\ [][HistoryNext]_historyVars

----------------------------------------------------------------------------
(* Properties.                                                             *)

Quiet == \A w \in DOMAIN work : work[w] = None

\* A message with a msgid is stored once, however often prefills, pages and
\* late answers repeat it across reconnects; flushChatBatch looks the msgid up
\* first.  Only two flushes at the same time can both find it missing.
StoredOnce ==
  overlapped \/ \A i, j \in DOMAIN rows :
    rows[i].said = rows[j].said /\ rows[i].said \notin Untagged => i = j

\* The order of the ids is the order of the messages, although live traffic,
\* prefill and pages store them in any order; unless a waiter took a batch
\* that another request had asked for, or the message was spoken while a page
\* arrived and taken for part of it: both are stored under a page's ceiling,
\* and so is a page asked for below a row stored like that.
IdsInOrder ==
  misrouted \/ \A i, j \in DOMAIN rows :
    i < j /\ {rows[i].said, rows[j].said} \cap bound = {} => rows[i].said <= rows[j].said

\* The buffer has no holes: above its oldest row only what was said while the
\* link was down is missing, and multiline messages bound to a history batch
\* that never completed or that nobody was waiting for any more.  Misrouted
\* batches are excepted here too: the ring trims by id, so it trims wrongly.
NoHoles ==
  Quiet /\ ~misrouted => \A k \in 1..said :
    \/ k \in missed \cup bound
    \/ lineBatch # None /\ lineBatch.msg = k
    \/ \E i \in DOMAIN rows : rows[i].said = k
    \/ \A i \in DOMAIN rows : rows[i].said > k

\* The buffer is the channel's history: every message once, in order, without
\* holes (flushChatBatch, FetchOlder).
HistoryFaithful ==
  StoredOnce /\ IdsInOrder /\ NoHoles

=============================================================================
