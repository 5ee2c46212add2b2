----------------------------- MODULE Reactions ------------------------------
(***************************************************************************)
(* What is kept about the messages of one channel after they were relayed: *)
(* reactions, link previews and deletions.  REST requests, the             *)
(* connection's event loop and the preview goroutines change them with     *)
(* unlocked read-modify-write sequences, so every database transaction is  *)
(* a step of its own.                                                      *)
(***************************************************************************)
EXTENDS MessageStore

CONSTANTS
  Reqs,            \* concurrent REST requests of the user
  Me, Peers,       \* reactors: the user and IRC peers, one emoji each
  MaxId, MaxRestarts   \* bounds of the exploration

ASSUME ReactAssumption == MaxId \in Nat

VARIABLES
  rows,            \* the channel's replay buffer
  react,           \* conn.reactions: who reacted, per message, in memory
  proc,            \* the requests and the event loop
  fetching,        \* messages whose link preview is being fetched
  lastId, restarts,
  deleted,         \* messages deleted or redacted so far
  truth,           \* reactions as the users made them
  torn             \* messages on which two reaction writes overlapped

reactVars == <<rows, react, proc, fetching, lastId, restarts,
          deleted, truth, torn>>

Loop == "loop"
Procs == Reqs \cup {Loop}
Ids == 1 .. MaxId
Marks == {Me} \cup Peers
Channel == "ch"
Idle == [pc |-> "idle", id |-> 0, snap |-> {}]

ReactInit ==
  /\ rows = Empty /\ react = [i \in Ids |-> {}]
  /\ proc = [p \in Procs |-> Idle] /\ fetching = {}
  /\ lastId = 0 /\ restarts = 0
  /\ deleted = {} /\ truth = [i \in Ids |-> {}] /\ torn = {}

At(p, pc) == proc[p].pc = pc

Done(p) == proc' = [proc EXCEPT ![p] = Idle]

messages == <<rows, fetching, deleted, lastId>>
reactions == <<react, truth, torn>>

----------------------------------------------------------------------------
(* Reactions: trackReaction, then persistReactions (snapshot, write).      *)

\* Mutant: a message keeps only the last reaction it got.
trackReactionKeepsLast(marks, mark, remove) ==
  IF remove THEN marks \ {mark} ELSE {mark}

trackReaction(marks, mark, remove) ==
  IF remove THEN marks \ {mark} ELSE marks \cup {mark}

\* applyReaction and SendReaction: a change that changes nothing ends here.
React(p, id, mark, remove) ==
  /\ At(p, "idle") /\ id <= lastId
  /\ p = Loop <=> mark # Me
  /\ remove <=> mark \in react[id]
  /\ react' = [react EXCEPT ![id] = trackReaction(@, mark, remove)]
  /\ truth' = [truth EXCEPT ![id] = IF remove THEN @ \ {mark} ELSE @ \cup {mark}]
  /\ proc' = [proc EXCEPT ![p] = [Idle EXCEPT !.pc = "tracked", !.id = id]]
  /\ UNCHANGED <<messages, restarts, torn>>

reactionSnapshot(p) ==
  /\ At(p, "tracked")
  /\ proc' = [proc EXCEPT ![p] =
                [proc[p] EXCEPT !.pc = "persist", !.snap = react[proc[p].id]]]
  /\ torn' = IF \E q \in Procs : At(q, "persist") /\ proc[q].id = proc[p].id
             THEN torn \cup {proc[p].id} ELSE torn
  /\ UNCHANGED <<messages, react, truth, restarts>>

persistReactions(p) ==
  /\ At(p, "persist")
  /\ rows' = UpdateMessageReactions(rows, proc[p].id, proc[p].snap)
  /\ torn' = IF proc[p].id \in DOMAIN rows THEN torn ELSE torn \cup {proc[p].id}
  /\ Done(p)
  /\ UNCHANGED <<fetching, deleted, lastId, react, truth, restarts>>

----------------------------------------------------------------------------
(* Relayed messages, their link previews, and deletions.                  *)

RelayMessage ==
  /\ At(Loop, "idle") /\ lastId < MaxId
  /\ lastId' = lastId + 1
  /\ proc' = [proc EXCEPT ![Loop] = [Idle EXCEPT !.pc = "append", !.id = lastId + 1]]
  /\ UNCHANGED <<rows, fetching, deleted, reactions, restarts>>

\* The row; a message with a link has its preview fetched.
RelayAppend(link) ==
  /\ At(Loop, "append")
  /\ rows' = AppendMessage(rows, proc[Loop].id, BufferedMessage(Channel, FALSE, None, None))
  /\ fetching' = IF link THEN fetching \cup {proc[Loop].id} ELSE fetching
  /\ Done(Loop)
  /\ UNCHANGED <<deleted, lastId, reactions, restarts>>

\* An own message enters the buffer when its send has been queued.
OwnSend(r, link) ==
  /\ At(r, "idle") /\ lastId < MaxId
  /\ lastId' = lastId + 1
  /\ rows' = AppendMessage(rows, lastId + 1, BufferedMessage(Channel, TRUE, None, None))
  /\ fetching' = IF link THEN fetching \cup {lastId + 1} ELSE fetching
  /\ UNCHANGED <<deleted, reactions, proc, restarts>>

\* sendLinkPreview's goroutine; a row that is gone ends it.
SendLinkPreview(id) ==
  /\ id \in fetching
  /\ fetching' = fetching \ {id}
  /\ rows' = SetMessageEmbeds(rows, id)
  /\ UNCHANGED <<deleted, lastId, reactions, proc, restarts>>

\* A deletion by REST (own rows only) or a redaction by the event loop.
Delete(p, id) ==
  /\ At(p, "idle") /\ id <= lastId
  /\ p # Loop => id \in DOMAIN rows /\ rows[id].mine
  /\ rows' = DeleteMessage(rows, id)
  /\ deleted' = deleted \cup {id}
  /\ UNCHANGED <<fetching, lastId, reactions, proc, restarts>>

----------------------------------------------------------------------------
(* The whole system.                                                       *)

\* The process restarts: the reactions in memory and all steps under way go.
Restart ==
  /\ restarts < MaxRestarts /\ restarts' = restarts + 1
  /\ react' = [i \in Ids |-> {}]
  /\ proc' = [p \in Procs |-> Idle] /\ fetching' = {}
  /\ UNCHANGED <<rows, deleted, lastId, truth, torn>>

ReactNext ==
  \/ \E p \in Procs, id \in Ids :
       Delete(p, id) \/ \E k \in Marks, b \in BOOLEAN : React(p, id, k, b)
  \/ \E p \in Procs : reactionSnapshot(p) \/ persistReactions(p)
  \/ RelayMessage
  \/ \E b \in BOOLEAN : RelayAppend(b) \/ \E r \in Reqs : OwnSend(r, b)
  \/ \E id \in Ids : SendLinkPreview(id)
  \/ Restart

ReactSpec == ReactInit /\ [][ReactNext]_reactVars

----------------------------------------------------------------------------
(* Properties.                                                             *)

\* Once nobody is writing reactions of a message, its row holds exactly what
\* the users did, unless two writes overlapped, the row was not there yet or
\* the process was restarted (persistReactions).
ReactionsPersisted ==
  \A i \in DOMAIN rows \ torn :
    /\ restarts = 0
    /\ \A p \in Procs : At(p, "tracked") \/ At(p, "persist") => proc[p].id # i
    => rows[i].reacts = truth[i]


\* A late preview or reaction never brings a deleted message back.
NoResurrection == deleted \cap DOMAIN rows = {}

=============================================================================
