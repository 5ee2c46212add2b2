-------------------------------- MODULE Pins --------------------------------
(***************************************************************************)
(* The pins of one channel.  The handler looks the message up and tests    *)
(* the ceiling, SetChannelPin looks for an earlier pin, writes this one    *)
(* and appends a system row; requests run concurrently and every database  *)
(* transaction is a step.                                                  *)
(***************************************************************************)
EXTENDS Integers, FiniteSets

CONSTANTS
  Pinners,         \* concurrent REST requests
  MaxPins,         \* MaxChannelPins
  MaxRow, MaxOps   \* bounds: rows ever appended, requests served

ASSUME PinsAssumption == MaxPins \in Nat \ {0} /\ IsFiniteSet(Pinners)

VARIABLES
  pinned,          \* pin keys
  buffer,          \* messages of the replay buffer
  shownPins,       \* messages the client shows as pinned
  request,         \* the requests
  nextRow, ops,
  crossed          \* messages whose flag two events about them can confuse

pinVars == <<pinned, buffer, shownPins, request, nextRow, ops, crossed>>

Rows == 1 .. MaxRow
Free == [pc |-> "free", id |-> 0]

PinInit ==
  /\ pinned = {} /\ buffer = {1, 2, 3} /\ shownPins = {}
  /\ request = [r \in Pinners |-> Free]
  /\ nextRow = 4 /\ ops = 0 /\ crossed = {}

Busy(id) == \E r \in Pinners : request[r].id = id

TakeUp(r, pc, id) ==
  /\ request[r] = Free /\ ops < MaxOps /\ ops' = ops + 1
  /\ request' = [request EXCEPT ![r] = [pc |-> pc, id |-> id]]
  /\ crossed' = IF Busy(id) THEN crossed \cup {id} ELSE crossed

Advance(r, from, to) ==
  request[r].pc = from /\ request' = [request EXCEPT ![r].pc = to]

Finish(r, from) ==
  request[r].pc = from /\ request' = [request EXCEPT ![r] = Free]

\* handlePinMessage: an unknown message or a full list is refused.
PinMessage(r, id) ==
  /\ id \in buffer /\ Cardinality(pinned) < MaxPins
  /\ TakeUp(r, "look", id)
  /\ UNCHANGED <<pinned, buffer, shownPins, nextRow>>

\* SetChannelPin: a message pinned already ends the request.
PinLook(r) ==
  /\ IF request[r].id \in pinned THEN Finish(r, "look") ELSE Advance(r, "look", "put")
  /\ UNCHANGED <<pinned, buffer, shownPins, nextRow, ops, crossed>>

\* Mutant: the pin is stored and no event follows.
PutPinSilent(r) ==
  /\ Finish(r, "put")
  /\ pinned' = pinned \cup {request[r].id}
  /\ UNCHANGED <<buffer, shownPins, nextRow, ops, crossed>>

PutPin(r) ==
  /\ Advance(r, "put", "tell")
  /\ pinned' = pinned \cup {request[r].id}
  /\ UNCHANGED <<buffer, shownPins, nextRow, ops, crossed>>

\* MESSAGE_UPDATE with the flag, CHANNEL_PINS_UPDATE, then the system row,
\* whose append may push the oldest message out of the buffer.
PinTell(r) ==
  LET id == request[r].id
  IN  /\ nextRow <= MaxRow
      /\ Finish(r, "tell")
      /\ shownPins' = shownPins \cup {id}
      /\ buffer' = buffer \cup {nextRow} /\ nextRow' = nextRow + 1
      /\ UNCHANGED <<pinned, ops, crossed>>

\* Unpinning is idempotent and has no ceiling and no system row.
UnpinMessage(r, id) ==
  /\ TakeUp(r, "unpin", id)
  /\ pinned' = pinned \ {id}
  /\ UNCHANGED <<buffer, shownPins, nextRow>>

UnpinTell(r) ==
  /\ Finish(r, "unpin")
  /\ shownPins' = shownPins \ {request[r].id}
  /\ UNCHANGED <<pinned, buffer, nextRow, ops, crossed>>

\* The message ages out of the buffer or is deleted; its pin stays.
RowGone(id) ==
  /\ id \in buffer /\ buffer' = buffer \ {id}
  /\ UNCHANGED <<pinned, shownPins, request, nextRow, ops, crossed>>

\* messageUpdatePayload of a preview: a whole record, never marked pinned.
PreviewUpdate(id) ==
  /\ id \in buffer
  /\ shownPins' = shownPins \ {id}
  /\ crossed' = IF id \in pinned \/ Busy(id) THEN crossed \cup {id} ELSE crossed
  /\ UNCHANGED <<pinned, buffer, request, nextRow, ops>>

PinNext ==
  \/ \E r \in Pinners :
       \/ \E id \in Rows : PinMessage(r, id)
       \/ \E id \in pinned : UnpinMessage(r, id)
       \/ PinLook(r) \/ PutPin(r) \/ PinTell(r) \/ UnpinTell(r)
  \/ \E id \in buffer : RowGone(id) \/ PreviewUpdate(id)

PinSpec == PinInit /\ [][PinNext]_pinVars

----------------------------------------------------------------------------
(* Properties.                                                             *)

\* Requests past the ceiling test but not yet written are what the list can
\* exceed it by: with them counted the ceiling is never passed by more than
\* the other requests.
PinsBounded == Cardinality(pinned) < MaxPins + Cardinality(Pinners)

\* While no request on a message is under way, the client shows its pin
\* exactly when it is stored, unless two requests on it overlapped or a
\* preview replaced the client's record.
PinShown ==
  \A id \in Rows \ crossed : ~Busy(id) => (id \in shownPins <=> id \in pinned)

\* Pins stay within the ceiling, give or take the requests under way, and are
\* shown as they are stored (handlePinMessage, SetChannelPin).
PinsSound ==
  PinsBounded /\ PinShown

=============================================================================
