----------------------------- MODULE ReadState ------------------------------
(***************************************************************************)
(* One user's read position and mention badge in one channel.  Acks come   *)
(* as REST requests, mentions from the connection's event loop; both read  *)
(* the stored row, change it and write it back without a lock.             *)
(***************************************************************************)
EXTENDS Integers

CONSTANTS
  Ackers,          \* concurrent REST requests that ack
  MaxMessage, MaxMention   \* bounds of the exploration

VARIABLES
  rs,              \* the stored row
  newest,          \* the newest message in the buffer, 0 when there is none
  pending,         \* what each request and the event loop is about to write
  owed,            \* mentions relayed since the last effective ack
  told,            \* mentions relayed so far
  stale, lost      \* processes whose read of rs is outdated; one wrote it

readVars == <<rs, newest, pending, owed, told, stale, lost>>

Relay == "relay"

\* The event loop is nobody's request.
ASSUME ReadAssumption == Relay \notin Ackers

Writers == Ackers \cup {Relay}
Nothing == [last |-> -1, count |-> 0]

ReadInit ==
  /\ rs = [last |-> 0, count |-> 0] /\ newest = 0
  /\ pending = [p \in Writers |-> Nothing]
  /\ owed = 0 /\ told = 0 /\ stale = {} /\ lost = FALSE

\* GetReadState by p, which will write "row" from it.
GetReadState(p, row) ==
  /\ pending[p] = Nothing
  /\ pending' = [pending EXCEPT ![p] = row]
  /\ stale' = stale \ {p}
  /\ UNCHANGED <<rs, owed, lost>>

\* PutReadState by p: whoever has read before now writes an outdated row.
PutReadState(p) ==
  /\ pending[p] # Nothing
  /\ rs' = pending[p]
  /\ pending' = [pending EXCEPT ![p] = Nothing]
  /\ stale' = {q \in Writers \ {p} : pending[q] # Nothing}
  /\ lost' = (lost \/ p \in stale)

\* A message reaches the buffer.
MessageArrives ==
  /\ newest < MaxMessage /\ newest' = newest + 1
  /\ UNCHANGED <<rs, pending, owed, told, stale, lost>>

\* Mutant: an ack of an older message moves the position back.
MarkChannelReadAny(r, id) ==
  /\ id <= newest
  /\ GetReadState(r, [last |-> id, count |-> 0])
  /\ UNCHANGED <<newest, told>>

\* An ack older than the stored position changes nothing.
MarkChannelRead(r, id) ==
  /\ id <= newest /\ rs.last <= id
  /\ GetReadState(r, [last |-> id, count |-> 0])
  /\ UNCHANGED <<newest, told>>

\* AckGuild: the newest buffered message, unless the position is past it.
AckGuild(r) ==
  /\ GetReadState(r, [last |-> IF newest >= rs.last THEN newest ELSE rs.last,
                      count |-> 0])
  /\ UNCHANGED <<newest, told>>

AckPut(r) ==
  /\ PutReadState(r) /\ owed' = 0
  /\ UNCHANGED <<newest, told>>

\* OnMentionRelayed raises the badge of the row it has read.
MentionRead ==
  /\ told < MaxMention
  /\ GetReadState(Relay, [rs EXCEPT !.count = @ + 1])
  /\ UNCHANGED <<newest, told>>

OnMentionRelayed ==
  /\ PutReadState(Relay) /\ owed' = owed + 1
  /\ told' = told + 1
  /\ UNCHANGED newest

ReadNext ==
  \/ \E r \in Ackers : AckGuild(r) \/ AckPut(r)
                         \/ \E id \in 1 .. MaxMessage : MarkChannelRead(r, id)
  \/ MentionRead \/ OnMentionRelayed \/ MessageArrives

ReadSpec == ReadInit /\ [][ReadNext]_readVars

----------------------------------------------------------------------------
(* Properties.                                                             *)

\* The read position moves back only in a write whose read was overtaken.
ReadForward ==
  [][rs'.last >= rs.last \/ \E p \in stale : pending'[p] # pending[p]]_readVars

\* The badge counts the mentions since the last ack, as long as no write of
\* the read state was overtaken.
BadgeExact == ~lost => rs.count = owed

\* Acks and mentions that race neither lose a mention nor move the position
\* back, unless a write was overtaken (MarkChannelRead, OnMentionRelayed).
ReadStateRight ==
  []BadgeExact /\ ReadForward

=============================================================================
