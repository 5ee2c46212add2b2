------------------------------- MODULE Layout -------------------------------
(***************************************************************************)
(* Categories: local grouping that exists only in the bouncer.  They are   *)
(* kept inside the network record, a channel's parent in its own record.   *)
(* Requests read the network record in one transaction and write the whole *)
(* of it back in another; the events tell the client of each step.         *)
(***************************************************************************)
EXTENDS Integers, FiniteSets

CONSTANTS
  Chans, Drags,    \* channels of the network; concurrent REST requests
  Titles,          \* display names and icons of the network
  MaxCat,          \* bound: category ids minted
  MaxEdits         \* bound: requests started

ASSUME LayoutAssumption == Titles # {}

VARIABLES
  net,             \* the network record: categories, channel keys, title
  parent,          \* Channel.ParentID, 0 when ungrouped
  client,          \* what the events told the client: categories, parents
  edit,            \* each request between two of its transactions
  lastCat, edits,
  overlap          \* a stale record was written back, or a move met a removal

layoutVars == <<net, parent, client, edit, lastCat, edits, overlap>>

Ungrouped == 0
NoEdit == [pc |-> "none", snap |-> [cats |-> {}, keys |-> {}, title |-> 0],
           cat |-> 0, ch |-> 0, kids |-> {}]

LayoutInit ==
  /\ net = [cats |-> {}, keys |-> {}, title |-> CHOOSE t \in Titles : TRUE]
  /\ parent = [c \in Chans |-> Ungrouped]
  /\ client = [cats |-> {}, parent |-> [c \in Chans |-> Ungrouped]]
  /\ edit = [r \in Drags |-> NoEdit]
  /\ lastCat = 0 /\ edits = 0 /\ overlap = FALSE

Begin(r, e) ==
  /\ edit[r] = NoEdit /\ edits < MaxEdits /\ edits' = edits + 1
  /\ edit' = [edit EXCEPT ![r] = e]

End(r) == edit' = [edit EXCEPT ![r] = NoEdit]

\* UpsertNetwork writes the record as it was read, with the caller's change.
UpsertNetwork(r, rec) ==
  /\ net' = rec
  /\ overlap' = (overlap \/ net # edit[r].snap)

----------------------------------------------------------------------------
(* The network record.                                                     *)

\* CreateCategory, RenameCategory and SetCategoryPosition (a new name and a
\* position change nothing that is modelled) and the key of a new channel:
\* each reads the record ...
ReadRecord(r, kind, c) ==
  /\ c \in IF kind = "rename" THEN net.cats ELSE {Ungrouped}
  /\ Begin(r, [NoEdit EXCEPT !.pc = kind, !.snap = net, !.cat = c])
  /\ UNCHANGED <<net, parent, client, lastCat, overlap>>

\* ... and writes it back.
CreateCategory(r) ==
  /\ edit[r].pc = "create" /\ lastCat < MaxCat
  /\ lastCat' = lastCat + 1
  /\ UpsertNetwork(r, [edit[r].snap EXCEPT !.cats = @ \cup {lastCat'}])
  /\ client' = [client EXCEPT !.cats = @ \cup {lastCat'}]
  /\ End(r) /\ UNCHANGED <<parent, edits>>

RenameCategory(r) ==
  /\ edit[r].pc = "rename"
  /\ UpsertNetwork(r, edit[r].snap)
  /\ End(r) /\ UNCHANGED <<parent, client, lastCat, edits>>

WriteKey(r, c) ==
  /\ edit[r].pc = "key"
  /\ UpsertNetwork(r, [edit[r].snap EXCEPT !.keys = @ \cup {c}])
  /\ End(r) /\ UNCHANGED <<parent, client, lastCat, edits>>

\* RenameNetwork and SetNetworkIcon read and write in one transaction.
SetTitle(t) ==
  /\ t # net.title /\ edits < MaxEdits /\ edits' = edits + 1
  /\ net' = [net EXCEPT !.title = t]
  /\ UNCHANGED <<parent, client, edit, lastCat, overlap>>

----------------------------------------------------------------------------
(* MoveChannel: the category is looked up, then the channel is written.    *)

Removing(c) == \E r \in Drags : edit[r].pc = "remove" /\ edit[r].cat = c

MoveCheck(r, ch, p) ==
  /\ p # Ungrouped => p \in net.cats
  /\ Begin(r, [NoEdit EXCEPT !.pc = "move", !.ch = ch, !.cat = p])
  /\ overlap' = (overlap \/ Removing(p))
  /\ UNCHANGED <<net, parent, client, lastCat>>

\* A drag without a parent reads the one the channel has first.
DragRead(r, ch) ==
  /\ Begin(r, [NoEdit EXCEPT !.pc = "drag", !.ch = ch, !.cat = parent[ch]])
  /\ UNCHANGED <<net, parent, client, lastCat, overlap>>

\* A parent that is gone by then is an error, which the drag skips.
DragCheck(r) ==
  LET p == edit[r].cat
  IN  /\ edit[r].pc = "drag"
      /\ IF p # Ungrouped /\ p \notin net.cats THEN End(r) /\ UNCHANGED overlap
         ELSE /\ edit' = [edit EXCEPT ![r].pc = "move"]
              /\ overlap' = (overlap \/ Removing(p))
      /\ UNCHANGED <<net, parent, client, lastCat, edits>>

\* SetChannelGrouping, then CHANNEL_UPDATE with the record as stored.
MoveChannel(r) ==
  LET e == edit[r]
  IN  /\ e.pc = "move"
      /\ parent' = [parent EXCEPT ![e.ch] = e.cat]
      /\ client' = [client EXCEPT !.parent[e.ch] = e.cat]
      /\ End(r) /\ UNCHANGED <<net, lastCat, edits, overlap>>

----------------------------------------------------------------------------
(* RemoveCategory.                                                         *)

RemoveRead(r, c) ==
  /\ c \in net.cats
  /\ Begin(r, [NoEdit EXCEPT !.pc = "list", !.snap = net, !.cat = c])
  /\ UNCHANGED <<net, parent, client, lastCat, overlap>>

\* Mutant: the children are looked for among ungrouped channels.
RemoveListWrong(r) ==
  /\ edit[r].pc = "list"
  /\ edit' = [edit EXCEPT ![r].pc = "remove",
                          ![r].kids = {ch \in Chans : parent[ch] = Ungrouped}]
  /\ UNCHANGED <<net, parent, client, lastCat, edits, overlap>>

\* ListChannelsByNetwork: the children are the ones listed now.
RemoveList(r) ==
  LET c == edit[r].cat
  IN  /\ edit[r].pc = "list"
      /\ edit' = [edit EXCEPT ![r].pc = "remove",
                              ![r].kids = {ch \in Chans : parent[ch] = c}]
      /\ overlap' = (overlap \/ \E s \in Drags : edit[s].pc = "move" /\ edit[s].cat = c)
      /\ UNCHANGED <<net, parent, client, lastCat, edits>>

\* Each child is ungrouped in its own transaction; the CHANNEL_UPDATE is
\* made from the record as it was listed, parent included.
UngroupChild(r, ch) ==
  /\ edit[r].pc = "remove" /\ ch \in edit[r].kids
  /\ parent' = [parent EXCEPT ![ch] = Ungrouped]
  /\ client' = [client EXCEPT !.parent[ch] = edit[r].cat]
  /\ edit' = [edit EXCEPT ![r].kids = @ \ {ch}]
  /\ UNCHANGED <<net, lastCat, edits, overlap>>

RemoveCategory(r) ==
  LET c == edit[r].cat
  IN  /\ edit[r].pc = "remove" /\ edit[r].kids = {}
      /\ UpsertNetwork(r, [edit[r].snap EXCEPT !.cats = @ \ {c}])
      /\ client' = [client EXCEPT !.cats = @ \ {c}]
      /\ End(r) /\ UNCHANGED <<parent, lastCat, edits>>

----------------------------------------------------------------------------
(* The REST handlers: a request's first step.                              *)

\* A category, or a channel whose name carries a key.
HandleCreateChannel(r) ==
  ReadRecord(r, "create", Ungrouped) \/ ReadRecord(r, "key", Ungrouped)

\* A category is renamed; a channel is moved, or only repositioned.  (Topic
\* and name of a channel are relayed upstream: Topics, Channels.)
HandleUpdateChannel(r) ==
  \/ \E c \in net.cats : ReadRecord(r, "rename", c)
  \/ \E ch \in Chans : \/ DragRead(r, ch)
                       \/ \E p \in 0 .. MaxCat : MoveCheck(r, ch, p)

\* The entries of a sidebar drag are handled one after the other, each like
\* a request of its own.
HandleGuildChannelPositions(r) ==
  \/ \E c \in net.cats : ReadRecord(r, "rename", c)
  \/ \E ch \in Chans : \/ DragRead(r, ch)
                       \/ \E p \in 0 .. MaxCat : MoveCheck(r, ch, p)

HandleDeleteChannel(r) == \E c \in 1 .. MaxCat : RemoveRead(r, c)

LayoutNext ==
  \/ \E t \in Titles : SetTitle(t)
  \/ \E r \in Drags :
       \/ HandleCreateChannel(r) \/ HandleUpdateChannel(r)
       \/ HandleGuildChannelPositions(r) \/ HandleDeleteChannel(r)
       \/ CreateCategory(r) \/ RenameCategory(r) \/ DragCheck(r)
       \/ MoveChannel(r) \/ RemoveList(r) \/ RemoveCategory(r)
       \/ \E ch \in Chans : WriteKey(r, ch) \/ UngroupChild(r, ch)

LayoutSpec == LayoutInit /\ [][LayoutNext]_layoutVars

----------------------------------------------------------------------------
(* Properties.                                                             *)

LayoutIdle == \A r \in Drags : edit[r] = NoEdit

\* Between requests every grouped channel has a parent that exists, however
\* creations, moves, drags and removals were interleaved, unless a network
\* record was written back over a newer one (network.go:1229) or a move into
\* a category was past its check while that category was being removed.
ParentExists ==
  LayoutIdle /\ ~overlap =>
    \A ch \in Chans : parent[ch] = Ungrouped \/ parent[ch] \in net.cats

\* Between requests the client has exactly the categories that are stored,
\* under the same exception: no creation or removal is told of and undone.
ClientCatsAlike == LayoutIdle /\ ~overlap => client.cats = net.cats

\* Stored layout, its parents and what the client was told agree between
\* requests (CreateCategory, MoveChannel, RemoveCategory).
LayoutAgrees ==
  ParentExists /\ ClientCatsAlike

=============================================================================
