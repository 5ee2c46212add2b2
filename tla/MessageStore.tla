---------------------------- MODULE MessageStore ----------------------------
(***************************************************************************)
(* The replay buffer (internal/storage/messages.go) as pure operators: a   *)
(* function "rows" from message ids to buffered rows, over all channels,   *)
(* and the reverse index "idx" from upstream msgids to message ids.  Every *)
(* operator is one badger transaction of the code; ids are snowflakes, so  *)
(* natural numbers, and padID makes the key order the order of the ids.    *)
(***************************************************************************)
EXTENDS Integers, Sequences, FiniteSets, SequencesExt

CONSTANTS None, BufferCap

ASSUME BufferAssumption == BufferCap \in Nat \ {0}

\* f with k mapped to v, and f without the keys of S.
Put(f, k, v) == [x \in DOMAIN f \cup {k} |-> IF x = k THEN v ELSE f[x]]

Without(f, S) == [x \in DOMAIN f \ S |-> f[x]]

Empty == [x \in {} |-> None]

\* A freshly relayed row of channel ch.
BufferedMessage(ch, mine, nonce, msgid) ==
  [ch |-> ch, mine |-> mine, nonce |-> nonce, msgid |-> msgid,
   reacts |-> {}, embeds |-> FALSE]

\* The keys of a channel's ring.
Ring(rows, ch) == {i \in DOMAIN rows : rows[i].ch = ch}

\* The rows the ring of ch no longer holds: all but its BufferCap greatest.
Overflow(rows, ch) ==
  {i \in Ring(rows, ch) : Cardinality({j \in Ring(rows, ch) : j > i}) >= BufferCap}

AppendMessage(rows, id, row) ==
  LET all == Put(rows, id, row) IN Without(all, Overflow(all, row.ch))

\* The row and the index of SetMessageMsgID; both stay when the row is gone.
SetMessageMsgID(rows, id, msgid) ==
  IF id \in DOMAIN rows THEN [rows EXCEPT ![id].msgid = msgid] ELSE rows

IndexMessageMsgID(idx, msgid, id) == Put(idx, msgid, id)

IndexRow(rows, idx, msgid, id) ==
  IF id \in DOMAIN rows THEN IndexMessageMsgID(idx, msgid, id) ELSE idx

\* Mutant: the embeds are written whether or not the row is still there.
SetMessageEmbedsBlind(rows, id) ==
  IF id \in DOMAIN rows THEN [rows EXCEPT ![id].embeds = TRUE]
  ELSE Put(rows, id, BufferedMessage(None, FALSE, None, None))

SetMessageEmbeds(rows, id) ==
  IF id \in DOMAIN rows THEN [rows EXCEPT ![id].embeds = TRUE] ELSE rows

UpdateMessageReactions(rows, id, marks) ==
  IF id \in DOMAIN rows THEN [rows EXCEPT ![id].reacts = marks] ELSE rows

LookupMessageByMsgID(idx, msgid) ==
  IF msgid \in DOMAIN idx THEN idx[msgid] ELSE None

MessageMsgID(rows, id) == IF id \in DOMAIN rows THEN rows[id].msgid ELSE None

\* DeleteMessage removes the row and the index entry of its own msgid.
DeleteMessage(rows, id) == Without(rows, {id})

DeleteIndex(rows, idx, id) == Without(idx, {MessageMsgID(rows, id)})

\* ChannelMessages: ids after "after" ascending, else ids before "before"
\* (all of them when it is None) descending, cut to limit.
ChannelMessages(rows, ch, before, after, limit) ==
  LET picked == {i \in Ring(rows, ch) :
                   /\ after # None => i > after
                   /\ after = None /\ before # None => i < before}
      page == SetToSortSeq(picked, LAMBDA i, j : IF after # None THEN i < j ELSE i > j)
  IN  SubSeq(page, 1, IF limit < Len(page) THEN limit ELSE Len(page))

=============================================================================
