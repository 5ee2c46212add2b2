---------------------------- MODULE GuildProofs ----------------------------
(***************************************************************************)
(* Theorems about the parts of a guild's view that follow the network:     *)
(* the channels themselves, the category layout, topics, people's presence *)
(* and account facts, a peer's avatar and colour, the user's own avatars   *)
(* and the direct-message threads, and about the replay log, for any       *)
(* people, channels, guilds and bounds.                                    *)
(***************************************************************************)
EXTENDS Channels, Layout, Topics, Presence, PeerMeta, Avatars, Threads, SessionLog,
        SequenceTheorems, FiniteSetTheorems, FunctionTheorems,
        WellFoundedInduction, TLAPS

-----------------------------------------------------------------------------
(* Sequences of lines *)

\* A place of a longer sequence is the last one or a place it had before.
LEMMA LineAppend ==
    ASSUME NEW S, NEW q \in Seq(S), NEW x \in S
    PROVE  /\ Append(q, x) \in Seq(S) /\ Append(q, x) # <<>>
           /\ Len(Append(q, x)) = Len(q) + 1 /\ Len(q) \in Nat
           /\ DOMAIN q = 1..Len(q) /\ DOMAIN Append(q, x) = 1..(Len(q) + 1)
           /\ \A i \in 1..Len(q) : Append(q, x)[i] = q[i]
           /\ Append(q, x)[Len(q) + 1] = x
BY AppendProperties, LenProperties, EmptySeq

\* What is left after the first line is taken.
LEMMA LineTail ==
    ASSUME NEW S, NEW q \in Seq(S), q # <<>>
    PROVE  /\ Tail(q) \in Seq(S) /\ Len(Tail(q)) = Len(q) - 1 /\ Len(q) \in Nat \ {0}
           /\ DOMAIN q = 1..Len(q) /\ DOMAIN Tail(q) = 1..(Len(q) - 1)
           /\ Head(q) = q[1] /\ Head(q) \in S
           /\ \A i \in 1..(Len(q) - 1) : Tail(q)[i] = q[i + 1]
           /\ Tail(q) = <<>> <=> Len(q) = 1
<1>1. /\ Tail(q) \in Seq(S) /\ Len(Tail(q)) = Len(q) - 1
      /\ Len(q) \in Nat \ {0} /\ DOMAIN q = 1..Len(q) /\ Head(q) = q[1]
  BY EmptySeq, LenProperties, HeadTailProperties
<1>2. DOMAIN Tail(q) = 1..(Len(q) - 1)
  BY <1>1, LenProperties
<1>3. \A i \in 1..(Len(q) - 1) : Tail(q)[i] = q[i + 1]
  BY <1>1, <1>2, HeadTailProperties
<1>4. Head(q) \in S
  BY <1>1, ElementOfSeq
<1>5. Tail(q) = <<>> <=> Len(q) = 1
  <2>1. Tail(q) = <<>> <=> Len(Tail(q)) = 0
    BY <1>1, EmptySeq
  <2> QED BY <1>1, <2>1
<1> QED BY <1>1, <1>2, <1>3, <1>4, <1>5

-----------------------------------------------------------------------------
(* Layout *)

NetRecord == [cats : SUBSET (Nat \ {0}), keys : SUBSET Chans, title : Titles \cup {0}]

EditRecord == [pc : {"none", "create", "rename", "key", "move", "drag", "list", "remove"},
               snap : NetRecord, cat : Nat, ch : Chans \cup {0}, kids : SUBSET Chans]

\* The types of Layout; a removal is of a category, never of what is ungrouped.
LayoutTypes ==
    /\ net \in NetRecord
    /\ parent \in [Chans -> Nat]
    /\ client \in [cats : SUBSET Nat, parent : [Chans -> Nat]]
    /\ edit \in [Drags -> EditRecord]
    /\ \A r \in Drags : edit[r].pc \in {"list", "remove"} => edit[r].cat # Ungrouped
    /\ \A r \in Drags : edit[r].pc = "move" => edit[r].ch \in Chans
    /\ \A r \in Drags : edit[r].pc = "drag" => edit[r].ch \in Chans
    /\ lastCat \in Nat
    /\ overlap \in BOOLEAN

\* What a removal found, and what it has still to ungroup, are all the children
\* its category has; no move into it is past its check.
RemovalInv ==
    \A r \in Drags : edit[r].pc = "remove" =>
        /\ \A ch \in Chans : parent[ch] = edit[r].cat => ch \in edit[r].kids
        /\ \A s \in Drags : edit[s].pc = "move" => edit[s].cat # edit[r].cat

\* A move that is past its check goes where a category still is.
MoveInv ==
    \A r \in Drags : edit[r].pc = "move" => edit[r].cat \in net.cats \cup {Ungrouped}

\* LayoutAgrees made inductive: in the middle of requests too.
LayoutInv ==
    /\ LayoutTypes
    /\ ~overlap =>
          /\ RemovalInv
          /\ MoveInv
          /\ \A ch \in Chans : parent[ch] \in net.cats \cup {Ungrouped}
          /\ client.cats = net.cats

\* A step that begins, advances or ends a request and touches nothing else.
LEMMA QuietLayout ==
    ASSUME LayoutInv, UNCHANGED <<net, parent, client, lastCat>>,
           NEW r \in Drags, NEW e \in EditRecord, edit' = [edit EXCEPT ![r] = e],
           e.pc \in {"list", "remove"} => e.cat # Ungrouped,
           e.pc \in {"move", "drag"} => e.ch \in Chans,
           overlap' \in BOOLEAN, overlap => overlap',
           e.pc = "move" /\ ~overlap' => /\ e.cat \in net.cats \cup {Ungrouped}
                                         /\ \A s \in Drags : edit[s].pc = "remove" => edit[s].cat # e.cat,
           e.pc = "remove" /\ ~overlap' =>
               /\ \A ch \in Chans : parent[ch] = e.cat => ch \in e.kids
               /\ \A s \in Drags : edit[s].pc = "move" => edit[s].cat # e.cat
    PROVE  LayoutInv'
<1>1. LayoutTypes'
  BY DEF LayoutInv, LayoutTypes
<1>2. \A s \in Drags : edit'[s] = IF s = r THEN e ELSE edit[s]
  BY DEF LayoutInv, LayoutTypes
<1>3. ASSUME ~overlap' PROVE RemovalInv' /\ MoveInv'
  BY <1>2, <1>3 DEF LayoutInv, RemovalInv, MoveInv
<1> QED BY <1>1, <1>3 DEF LayoutInv

\* A step that writes the network record back and ends its request: a category
\* may be new, or may go once nothing is in it and nothing moves there.
LEMMA WriteLayout ==
    ASSUME LayoutInv, NEW r \in Drags, NEW rec \in NetRecord, UpsertNetwork(r, rec), End(r),
           parent' = parent, client' \in [cats : SUBSET Nat, parent : [Chans -> Nat]],
           lastCat' \in Nat,
           ~overlap' => /\ client'.cats = rec.cats
                        /\ \A c \in net.cats \ rec.cats :
                              /\ \A ch \in Chans : parent[ch] # c
                              /\ \A s \in Drags : edit[s].pc = "move" => edit[s].cat # c
    PROVE  LayoutInv'
<1>1. /\ net' = rec /\ edit' = [edit EXCEPT ![r] = NoEdit]
      /\ overlap' = (overlap \/ net # edit[r].snap)
  BY DEF UpsertNetwork, End
<1>2. NoEdit \in EditRecord /\ NoEdit.pc = "none"
  BY DEF NoEdit, EditRecord, NetRecord
<1>3. \A s \in Drags : edit'[s] = IF s = r THEN NoEdit ELSE edit[s]
  BY <1>1 DEF LayoutInv, LayoutTypes
<1>4. LayoutTypes'
  BY <1>1, <1>2 DEF LayoutInv, LayoutTypes
<1>5. ASSUME ~overlap'
      PROVE  /\ RemovalInv' /\ MoveInv' /\ client'.cats = net'.cats
             /\ \A ch \in Chans : parent'[ch] \in net'.cats \cup {Ungrouped}
  <2>1. ~overlap
    BY <1>1, <1>5
  <2>2. RemovalInv'
    BY <1>2, <1>3, <2>1 DEF LayoutInv, RemovalInv
  <2>3. MoveInv'
    BY <1>1, <1>2, <1>3, <1>5, <2>1 DEF LayoutInv, MoveInv
  <2> QED BY <1>1, <1>5, <2>1, <2>2, <2>3 DEF LayoutInv
<1> QED BY <1>4, <1>5 DEF LayoutInv

\* Every step of the layout keeps it.
LEMMA NextLayout == LayoutInv /\ [LayoutNext]_layoutVars => LayoutInv'
<1> SUFFICES ASSUME LayoutInv, [LayoutNext]_layoutVars PROVE LayoutInv'
  OBVIOUS
<1>a. LayoutTypes
  BY DEF LayoutInv
<1>b. NoEdit \in EditRecord /\ NoEdit.pc = "none"
  BY DEF NoEdit, EditRecord, NetRecord
<1>c. ASSUME NEW r \in Drags
      PROVE  /\ edit[r] \in EditRecord
             /\ edit[r].snap \in NetRecord /\ edit[r].cat \in Nat
  BY <1>a, <1>c DEF LayoutTypes, EditRecord
<1>1. ASSUME NEW t \in Titles, SetTitle(t) PROVE LayoutInv'
  <2>1. /\ net' = [net EXCEPT !.title = t]
        /\ UNCHANGED <<parent, client, edit, lastCat, overlap>>
    BY <1>1 DEF SetTitle
  <2>2. net' \in NetRecord /\ net'.cats = net.cats
    BY <1>a, <2>1 DEF LayoutTypes, NetRecord
  <2> QED BY <2>1, <2>2 DEF LayoutInv, LayoutTypes, RemovalInv, MoveInv
<1>2. ASSUME NEW r \in Drags, NEW kind \in {"create", "rename", "key"}, NEW c,
             ReadRecord(r, kind, c)
      PROVE  LayoutInv'
  <2> DEFINE e == [NoEdit EXCEPT !.pc = kind, !.snap = net, !.cat = c]
  <2>1. c \in Nat
    BY <1>a, <1>2 DEF ReadRecord, LayoutTypes, NetRecord, Ungrouped
  <2>2. e \in EditRecord /\ e.pc = kind
    BY <1>a, <2>1 DEF NoEdit, EditRecord, LayoutTypes
  <2>3. edit' = [edit EXCEPT ![r] = e] /\ UNCHANGED <<net, parent, client, lastCat, overlap>>
    BY <1>2 DEF ReadRecord, Begin
  <2> HIDE DEF e
  <2> QED BY <1>a, <2>2, <2>3, QuietLayout DEF LayoutTypes
<1>3. ASSUME NEW r \in Drags, CreateCategory(r) PROVE LayoutInv'
  <2> DEFINE rec == [edit[r].snap EXCEPT !.cats = @ \cup {lastCat'}]
  <2>1. /\ lastCat' = lastCat + 1 /\ UpsertNetwork(r, rec) /\ End(r) /\ parent' = parent
        /\ client' = [client EXCEPT !.cats = @ \cup {lastCat'}]
    BY <1>3 DEF CreateCategory
  <2>2. lastCat' \in Nat \ {0}
    BY <1>a, <2>1 DEF LayoutTypes
  <2>3. rec \in NetRecord /\ rec.cats = edit[r].snap.cats \cup {lastCat'}
    BY <1>c, <2>2 DEF NetRecord
  <2>4. /\ client' \in [cats : SUBSET Nat, parent : [Chans -> Nat]]
        /\ client'.cats = client.cats \cup {lastCat'}
    BY <1>a, <2>1, <2>2 DEF LayoutTypes
  <2>5. ~overlap' => ~overlap /\ net = edit[r].snap
    BY <2>1 DEF UpsertNetwork
  <2> HIDE DEF rec
  <2>6. ~overlap' => client'.cats = rec.cats /\ net.cats \ rec.cats = {}
    BY <2>3, <2>4, <2>5 DEF LayoutInv
  <2> QED BY <2>1, <2>2, <2>3, <2>4, <2>6, WriteLayout
<1>4. ASSUME NEW r \in Drags, RenameCategory(r) PROVE LayoutInv'
  <2>1. /\ UpsertNetwork(r, edit[r].snap) /\ End(r) /\ UNCHANGED <<parent, client, lastCat>>
    BY <1>4 DEF RenameCategory
  <2>2. ~overlap' => ~overlap /\ net = edit[r].snap
    BY <2>1 DEF UpsertNetwork
  <2>3. ~overlap' => client'.cats = edit[r].snap.cats /\ net.cats \ edit[r].snap.cats = {}
    BY <2>1, <2>2 DEF LayoutInv
  <2>4. client' \in [cats : SUBSET Nat, parent : [Chans -> Nat]] /\ lastCat' \in Nat
    BY <1>a, <2>1 DEF LayoutTypes
  <2> QED BY <1>c, <2>1, <2>3, <2>4, WriteLayout
<1>5. ASSUME NEW r \in Drags, NEW c \in Chans, WriteKey(r, c) PROVE LayoutInv'
  <2> DEFINE rec == [edit[r].snap EXCEPT !.keys = @ \cup {c}]
  <2>1. UpsertNetwork(r, rec) /\ End(r) /\ UNCHANGED <<parent, client, lastCat>>
    BY <1>5 DEF WriteKey
  <2>2. ~overlap' => ~overlap /\ net = edit[r].snap
    BY <2>1 DEF UpsertNetwork
  <2>3. rec \in NetRecord /\ rec.cats = edit[r].snap.cats
    BY <1>c DEF NetRecord
  <2> HIDE DEF rec
  <2>4. ~overlap' => client'.cats = rec.cats /\ net.cats \ rec.cats = {}
    BY <2>1, <2>2, <2>3 DEF LayoutInv
  <2>5. client' \in [cats : SUBSET Nat, parent : [Chans -> Nat]] /\ lastCat' \in Nat
    BY <1>a, <2>1 DEF LayoutTypes
  <2> QED BY <2>1, <2>3, <2>4, <2>5, WriteLayout
<1>6. ASSUME NEW r \in Drags, NEW ch \in Chans, NEW p \in 0..MaxCat, MoveCheck(r, ch, p)
      PROVE  LayoutInv'
  <2> DEFINE e == [NoEdit EXCEPT !.pc = "move", !.ch = ch, !.cat = p]
  <2>1. /\ edit' = [edit EXCEPT ![r] = e] /\ UNCHANGED <<net, parent, client, lastCat>>
        /\ overlap' = (overlap \/ Removing(p))
        /\ p # Ungrouped => p \in net.cats
    BY <1>6 DEF MoveCheck, Begin
  <2>n. p \in Nat
    OBVIOUS
  <2>2. e \in EditRecord /\ e.pc = "move" /\ e.cat = p /\ e.ch = ch
    BY <1>b, <2>n DEF NoEdit, EditRecord
  <2>3. overlap' \in BOOLEAN
    BY <1>a, <2>1 DEF LayoutTypes, Removing
  <2> HIDE DEF e
  <2> QED BY <2>1, <2>2, <2>3, QuietLayout DEF Removing
<1>7. ASSUME NEW r \in Drags, NEW ch \in Chans, DragRead(r, ch) PROVE LayoutInv'
  <2> DEFINE e == [NoEdit EXCEPT !.pc = "drag", !.ch = ch, !.cat = parent[ch]]
  <2>1. edit' = [edit EXCEPT ![r] = e] /\ UNCHANGED <<net, parent, client, lastCat, overlap>>
    BY <1>7 DEF DragRead, Begin
  <2>2. e \in EditRecord /\ e.pc = "drag" /\ e.ch = ch
    BY <1>a, <1>b DEF NoEdit, EditRecord, LayoutTypes
  <2> HIDE DEF e
  <2> QED BY <1>a, <2>1, <2>2, QuietLayout DEF LayoutTypes
<1>8. ASSUME NEW r \in Drags, DragCheck(r) PROVE LayoutInv'
  <2>1. edit[r].pc = "drag" /\ UNCHANGED <<net, parent, client, lastCat>>
    BY <1>8 DEF DragCheck
  <2>2. CASE edit[r].cat # Ungrouped /\ edit[r].cat \notin net.cats
    <3>1. edit' = [edit EXCEPT ![r] = NoEdit] /\ overlap' = overlap
      BY <1>8, <2>2 DEF DragCheck, End
    <3> QED BY <1>a, <1>b, <2>1, <3>1, QuietLayout DEF LayoutTypes
  <2>3. CASE edit[r].cat = Ungrouped \/ edit[r].cat \in net.cats
    <3> DEFINE e == [edit[r] EXCEPT !.pc = "move"]
    <3>1. edit' = [edit EXCEPT ![r] = e] /\ overlap' = (overlap \/ Removing(edit[r].cat))
      BY <1>8, <2>3 DEF DragCheck
    <3>2. e \in EditRecord /\ e.pc = "move" /\ e.cat = edit[r].cat /\ e.ch = edit[r].ch
      BY <1>c DEF EditRecord
    <3>3. overlap' \in BOOLEAN /\ edit[r].ch \in Chans
      BY <1>a, <2>1, <3>1 DEF LayoutTypes, Removing
    <3> HIDE DEF e
    <3> QED BY <2>1, <2>3, <3>1, <3>2, <3>3, QuietLayout DEF Removing
  <2> QED BY <2>2, <2>3
<1>9. ASSUME NEW r \in Drags, MoveChannel(r) PROVE LayoutInv'
  <2> DEFINE e == edit[r]
  <2>1. /\ e.pc = "move" /\ parent' = [parent EXCEPT ![e.ch] = e.cat]
        /\ client' = [client EXCEPT !.parent[e.ch] = e.cat]
        /\ edit' = [edit EXCEPT ![r] = NoEdit] /\ UNCHANGED <<net, lastCat, overlap>>
    BY <1>9 DEF MoveChannel, End
  <2>2. e.ch \in Chans /\ e.cat \in Nat
    BY <1>a, <1>c, <2>1 DEF LayoutTypes
  <2>3. /\ client' \in [cats : SUBSET Nat, parent : [Chans -> Nat]]
        /\ client'.cats = client.cats
    BY <1>a, <2>1, <2>2 DEF LayoutTypes
  <2>4. LayoutTypes'
    BY <1>a, <1>b, <2>1, <2>2, <2>3 DEF LayoutTypes
  <2>5. \A s \in Drags : edit'[s] = IF s = r THEN NoEdit ELSE edit[s]
    BY <1>a, <2>1 DEF LayoutTypes
  <2>6. \A ch \in Chans : parent'[ch] = IF ch = e.ch THEN e.cat ELSE parent[ch]
    BY <1>a, <2>1, <2>2 DEF LayoutTypes
  <2>7. ASSUME ~overlap PROVE RemovalInv'
    BY <1>b, <2>1, <2>5, <2>6, <2>7 DEF LayoutInv, RemovalInv
  <2>8. ASSUME ~overlap PROVE MoveInv'
    BY <1>b, <2>1, <2>5, <2>8 DEF LayoutInv, MoveInv
  <2>9. ASSUME ~overlap PROVE \A ch \in Chans : parent'[ch] \in net'.cats \cup {Ungrouped}
    BY <2>1, <2>6, <2>9 DEF LayoutInv, MoveInv
  <2> QED BY <2>1, <2>3, <2>4, <2>7, <2>8, <2>9 DEF LayoutInv
<1>10. ASSUME NEW r \in Drags, NEW c \in 1..MaxCat, RemoveRead(r, c) PROVE LayoutInv'
  <2> DEFINE e == [NoEdit EXCEPT !.pc = "list", !.snap = net, !.cat = c]
  <2>1. edit' = [edit EXCEPT ![r] = e] /\ UNCHANGED <<net, parent, client, lastCat, overlap>>
    BY <1>10 DEF RemoveRead, Begin
  <2>n. c \in Nat /\ c # Ungrouped
    BY DEF Ungrouped
  <2>2. e \in EditRecord /\ e.pc = "list" /\ e.cat = c
    BY <1>a, <1>b, <2>n DEF NoEdit, EditRecord, LayoutTypes
  <2> HIDE DEF e
  <2> QED BY <1>a, <2>1, <2>2, <2>n, QuietLayout DEF LayoutTypes
<1>11. ASSUME NEW r \in Drags, RemoveList(r) PROVE LayoutInv'
  <2> DEFINE k == {ch \in Chans : parent[ch] = edit[r].cat}
             e == [edit[r] EXCEPT !.pc = "remove", !.kids = k]
  <2>1. /\ edit[r].pc = "list" /\ UNCHANGED <<net, parent, client, lastCat>>
        /\ overlap' = (overlap \/ \E s \in Drags : edit[s].pc = "move" /\ edit[s].cat = edit[r].cat)
    BY <1>11 DEF RemoveList
  <2>2. edit' = [edit EXCEPT ![r] = e]
    BY <1>a, <1>11 DEF RemoveList, LayoutTypes
  <2>3. /\ e \in EditRecord /\ e.pc = "remove" /\ e.cat = edit[r].cat
        /\ e.kids = {ch \in Chans : parent[ch] = edit[r].cat}
    BY <1>c DEF EditRecord
  <2>4. overlap' \in BOOLEAN /\ edit[r].cat # Ungrouped
    BY <1>a, <2>1 DEF LayoutTypes
  <2> HIDE DEF e
  <2> QED BY <2>1, <2>2, <2>3, <2>4, QuietLayout
<1>12. ASSUME NEW r \in Drags, NEW ch \in Chans, UngroupChild(r, ch) PROVE LayoutInv'
  <2> DEFINE e == [edit[r] EXCEPT !.kids = @ \ {ch}]
  <2>1. /\ edit[r].pc = "remove" /\ parent' = [parent EXCEPT ![ch] = Ungrouped]
        /\ client' = [client EXCEPT !.parent[ch] = edit[r].cat]
        /\ UNCHANGED <<net, lastCat, overlap>>
    BY <1>12 DEF UngroupChild
  <2>2. edit' = [edit EXCEPT ![r] = e]
    BY <1>a, <1>12 DEF UngroupChild, LayoutTypes
  <2>3. /\ e \in EditRecord /\ e.pc = "remove" /\ e.cat = edit[r].cat
        /\ e.kids = edit[r].kids \ {ch} /\ e.ch = edit[r].ch
    BY <1>c, <2>1 DEF EditRecord
  <2> HIDE DEF e
  <2>4. /\ client' \in [cats : SUBSET Nat, parent : [Chans -> Nat]]
        /\ client'.cats = client.cats
    BY <1>a, <1>c, <2>1 DEF LayoutTypes
  <2>5. parent' \in [Chans -> Nat] /\ edit[r].cat # Ungrouped
    BY <1>a, <2>1 DEF LayoutTypes, Ungrouped
  <2>6. \A s \in Drags : edit'[s] = IF s = r THEN e ELSE edit[s]
    BY <1>a, <2>2 DEF LayoutTypes
  <2>7. LayoutTypes'
    BY <1>a, <2>1, <2>2, <2>3, <2>4, <2>5, <2>6 DEF LayoutTypes
  <2>8. \A c \in Chans : parent'[c] = IF c = ch THEN Ungrouped ELSE parent[c]
    BY <1>a, <2>1 DEF LayoutTypes
  <2>9. ASSUME ~overlap PROVE RemovalInv'
    <3>1. \A s \in Drags : edit[s].pc = "remove" => edit[s].cat # Ungrouped
      BY <1>a DEF LayoutTypes
    <3> QED BY <2>1, <2>3, <2>6, <2>8, <2>9, <3>1 DEF LayoutInv, RemovalInv
  <2>10. ASSUME ~overlap PROVE MoveInv'
    BY <2>1, <2>3, <2>6, <2>10 DEF LayoutInv, MoveInv
  <2>11. ASSUME ~overlap PROVE \A c \in Chans : parent'[c] \in net'.cats \cup {Ungrouped}
    BY <2>1, <2>8, <2>11 DEF LayoutInv
  <2> QED BY <2>1, <2>4, <2>7, <2>9, <2>10, <2>11 DEF LayoutInv
<1>13. ASSUME NEW r \in Drags, RemoveCategory(r) PROVE LayoutInv'
  <2> DEFINE c == edit[r].cat
             rec == [edit[r].snap EXCEPT !.cats = @ \ {c}]
  <2>1. /\ edit[r].pc = "remove" /\ edit[r].kids = {} /\ UpsertNetwork(r, rec) /\ End(r)
        /\ client' = [client EXCEPT !.cats = @ \ {c}] /\ UNCHANGED <<parent, lastCat>>
    BY <1>13 DEF RemoveCategory
  <2>2. ~overlap' => ~overlap /\ net = edit[r].snap
    BY <2>1 DEF UpsertNetwork
  <2>3. rec \in NetRecord /\ rec.cats = edit[r].snap.cats \ {c}
    BY <1>c DEF NetRecord
  <2>4. /\ client' \in [cats : SUBSET Nat, parent : [Chans -> Nat]]
        /\ client'.cats = client.cats \ {c}
    BY <1>a, <2>1 DEF LayoutTypes
  <2> HIDE DEF rec
  <2>5. ~overlap' => client'.cats = rec.cats /\ net.cats \ rec.cats \subseteq {c}
    BY <2>2, <2>3, <2>4 DEF LayoutInv
  <2>6. ~overlap' => /\ \A ch \in Chans : parent[ch] # c
                     /\ \A s \in Drags : edit[s].pc = "move" => edit[s].cat # c
    BY <2>1, <2>2 DEF LayoutInv, RemovalInv
  <2>7. lastCat' \in Nat
    BY <1>a, <2>1 DEF LayoutTypes
  <2> QED BY <2>1, <2>3, <2>4, <2>5, <2>6, <2>7, WriteLayout
<1>14. CASE UNCHANGED layoutVars
  BY <1>14 DEF layoutVars, LayoutInv, LayoutTypes, RemovalInv, MoveInv
<1> QED
  BY <1>1, <1>2, <1>3, <1>4, <1>5, <1>6, <1>7, <1>8, <1>9, <1>10, <1>11, <1>12, <1>13, <1>14
     DEF LayoutNext, HandleCreateChannel, HandleUpdateChannel, HandleGuildChannelPositions,
         HandleDeleteChannel

\* No grouped channel is orphaned and no category is told of and undone, unless
\* a stale network record was written back or a move crossed a removal
\* (network.go, CreateCategory, MoveChannel, RemoveCategory).
THEOREM LayoutStaysInAgreement == LayoutSpec => []LayoutAgrees
<1>1. LayoutInit => LayoutInv
  <2> SUFFICES ASSUME LayoutInit PROVE LayoutInv
    OBVIOUS
  <2>1. net \in NetRecord /\ net.cats = {}
    BY LayoutAssumption DEF LayoutInit, NetRecord
  <2>2. NoEdit \in EditRecord /\ NoEdit.pc = "none"
    BY DEF NoEdit, EditRecord, NetRecord
  <2> QED BY <2>1, <2>2 DEF LayoutInit, LayoutInv, LayoutTypes, RemovalInv, MoveInv, Ungrouped
<1>2. LayoutInv => LayoutAgrees
  BY DEF LayoutInv, LayoutAgrees, ParentExists, ClientCatsAlike
<1> QED BY <1>1, <1>2, NextLayout, PTL DEF LayoutSpec

-----------------------------------------------------------------------------
(* Topics *)

Values == Topics \cup {NoTopic}

TopicTypes ==
    /\ topic \in Values /\ stored \in Values /\ asked \subseteq Values
    /\ lines \in [Members -> Seq(Values)]
    /\ applying \in [Members -> Values \cup {Unread}]
    /\ linked \in [Members -> BOOLEAN] /\ dropped \in BOOLEAN

\* The last line a connection has, or the one it is applying after it, is what
\* the server's topic is; a connection that is down has none.
LastLineInv ==
    \A u \in Members :
        IF linked[u]
        THEN /\ lines[u] # <<>> => lines[u][Len(lines[u])] = topic
             /\ lines[u] = <<>> => applying[u] \in {Unread, topic}
        ELSE lines[u] = <<>> /\ applying[u] = Unread /\ dropped

\* What is not stored yet is still on its way on some connection.
UnderWayInv ==
    \/ stored = topic
    \/ topic = NoTopic /\ dropped
    \/ \E u \in Members : ~linked[u] \/ lines[u] # <<>> \/ applying[u] # Unread

TopicInv == TopicTypes /\ LastLineInv /\ UnderWayInv

\* A broadcast puts the new topic behind every line of every connection.
LEMMA BroadcastTopic ==
    ASSUME TopicInv, NEW t \in Values, Broadcast(t), asked' \subseteq Values,
           UNCHANGED <<stored, applying, linked, dropped>>
    PROVE  TopicInv'
<1>1. ASSUME NEW u \in Members
      PROVE  /\ lines'[u] = IF linked[u] THEN Append(lines[u], t) ELSE lines[u]
             /\ lines[u] \in Seq(Values) /\ Append(lines[u], t) \in Seq(Values)
             /\ Append(lines[u], t) # <<>>
             /\ Append(lines[u], t)[Len(Append(lines[u], t))] = t
  BY <1>1, LineAppend DEF TopicInv, TopicTypes, Broadcast
<1>2. topic' = t /\ lines' = [u \in Members |-> IF linked[u] THEN Append(lines[u], t) ELSE lines[u]]
  BY DEF Broadcast
<1>3. TopicTypes'
  BY <1>1, <1>2 DEF TopicInv, TopicTypes
<1>4. LastLineInv'
  <2> SUFFICES ASSUME NEW u \in Members
               PROVE  IF linked[u]
                      THEN /\ lines'[u] # <<>> => lines'[u][Len(lines'[u])] = topic'
                           /\ lines'[u] = <<>> => applying[u] \in {Unread, topic'}
                      ELSE lines'[u] = <<>> /\ applying[u] = Unread /\ dropped
    BY DEF LastLineInv
  <2> QED BY <1>1, <1>2 DEF TopicInv, LastLineInv
<1>5. UnderWayInv'
  <2>1. PICK u \in Members : TRUE
    BY TopicsAssumption
  <2>2. ~linked[u] \/ lines'[u] # <<>>
    BY <1>1
  <2> QED BY <2>2 DEF UnderWayInv
<1> QED BY <1>3, <1>4, <1>5 DEF TopicInv

\* Every step keeps it.
LEMMA NextTopics == TopicInv /\ [TopicNext]_topicVars => TopicInv'
<1> SUFFICES ASSUME TopicInv, [TopicNext]_topicVars PROVE TopicInv'
  OBVIOUS
<1>a. TopicTypes /\ LastLineInv /\ UnderWayInv
  BY DEF TopicInv
<1>b. Unread \notin Values
  BY TopicsAssumption DEF Values, Unread, NoTopic
<1>1. ASSUME NEW u \in Members, NEW t \in Values, SetTopic(u, t) PROVE TopicInv'
  <2>1. /\ UNCHANGED <<topic, stored, told, lines, applying, linked, dropped>>
        /\ asked' = asked \cup {t}
    BY <1>1 DEF SetTopic
  <2>2. TopicTypes'
    BY <1>a, <2>1 DEF TopicTypes
  <2> QED BY <1>a, <2>1, <2>2 DEF TopicInv, LastLineInv, UnderWayInv
<1>2. ASSUME NEW u \in Members, ApplyTopic(u) PROVE TopicInv'
  <2> DEFINE later == Tail(lines[u])
             next == IF Head(lines[u]) = stored THEN Unread ELSE Head(lines[u])
  <2>1. /\ applying[u] = Unread /\ lines[u] # <<>>
        /\ lines' = [lines EXCEPT ![u] = later]
        /\ applying' = [applying EXCEPT ![u] = next]
        /\ UNCHANGED <<topic, stored, told, asked, linked, topicOps, dropped>>
    BY <1>2 DEF ApplyTopic
  <2>2. lines[u] \in Seq(Values) /\ linked[u]
    BY <1>a, <2>1 DEF TopicTypes, LastLineInv
  <2>3. /\ later \in Seq(Values) /\ Len(later) = Len(lines[u]) - 1 /\ Len(lines[u]) \in Nat \ {0}
        /\ Head(lines[u]) = lines[u][1] /\ Head(lines[u]) \in Values
        /\ \A i \in 1..(Len(lines[u]) - 1) : later[i] = lines[u][i + 1]
        /\ later = <<>> <=> Len(lines[u]) = 1
    BY <2>1, <2>2, LineTail
  <2>4. lines[u][Len(lines[u])] = topic
    BY <1>a, <2>1, <2>2 DEF LastLineInv
  <2>5. later # <<>> => later[Len(later)] = topic
    <3>1. ASSUME later # <<>> PROVE Len(later) \in 1..(Len(lines[u]) - 1) /\ Len(later) + 1 = Len(lines[u])
      BY <2>3, <3>1
    <3> QED BY <2>3, <2>4, <3>1
  <2>6. later = <<>> => Head(lines[u]) = topic
    BY <2>3, <2>4
  <2>7. next \in Values \cup {Unread}
    BY <2>3
  <2>8. /\ \A v \in Members : lines'[v] = IF v = u THEN later ELSE lines[v]
        /\ \A v \in Members : applying'[v] = IF v = u THEN next ELSE applying[v]
    BY <1>a, <2>1 DEF TopicTypes
  <2>9. (later = <<>> /\ next = Unread => stored = topic) /\ (later = <<>> => next \in {Unread, topic})
    BY <1>b, <2>3, <2>6
  <2> HIDE DEF later, next
  <2>10. TopicTypes'
    BY <1>a, <2>1, <2>3, <2>7 DEF TopicTypes
  <2>11. LastLineInv'
    BY <1>a, <2>1, <2>2, <2>5, <2>8, <2>9 DEF LastLineInv
  <2>12. UnderWayInv'
    BY <1>a, <2>1, <2>8, <2>9 DEF UnderWayInv
  <2> QED BY <2>10, <2>11, <2>12 DEF TopicInv
<1>3. ASSUME NEW u \in Members, SetChannelTopic(u) PROVE TopicInv'
  <2>1. /\ applying[u] # Unread /\ stored' = applying[u]
        /\ applying' = [applying EXCEPT ![u] = Unread]
        /\ UNCHANGED <<topic, lines, asked, linked, dropped>>
    BY <1>3 DEF SetChannelTopic
  <2>2. \A v \in Members : applying'[v] = IF v = u THEN Unread ELSE applying[v]
    BY <1>a, <2>1 DEF TopicTypes
  <2>3. TopicTypes'
    BY <1>a, <2>1 DEF TopicTypes
  <2>4. LastLineInv'
    BY <1>a, <2>1, <2>2 DEF LastLineInv
  <2>5. UnderWayInv'
    BY <1>a, <2>1, <2>2 DEF UnderWayInv, LastLineInv
  <2> QED BY <2>3, <2>4, <2>5 DEF TopicInv
<1>4. ASSUME NEW u \in Members, GuildPayload(u) PROVE TopicInv'
  BY <1>4 DEF GuildPayload, TopicInv, TopicTypes, LastLineInv, UnderWayInv
<1>5. ASSUME NEW u \in Members, LinkLost(u) PROVE TopicInv'
  <2>1. /\ applying[u] = Unread /\ dropped' = TRUE
        /\ linked' = [linked EXCEPT ![u] = FALSE] /\ lines' = [lines EXCEPT ![u] = <<>>]
        /\ UNCHANGED <<topic, stored, applying, asked>>
    BY <1>5 DEF LinkLost
  <2>2. /\ \A v \in Members : linked'[v] = IF v = u THEN FALSE ELSE linked[v]
        /\ \A v \in Members : lines'[v] = IF v = u THEN <<>> ELSE lines[v]
    BY <1>a, <2>1 DEF TopicTypes
  <2>3. <<>> \in Seq(Values)
    BY EmptySeq
  <2>4. TopicTypes'
    BY <1>a, <2>1, <2>3 DEF TopicTypes
  <2>5. LastLineInv'
    BY <1>a, <2>1, <2>2 DEF LastLineInv
  <2>6. UnderWayInv'
    BY <2>2 DEF UnderWayInv
  <2> QED BY <2>4, <2>5, <2>6 DEF TopicInv
<1>6. ASSUME NEW u \in Members, Rejoin(u) PROVE TopicInv'
  <2>1. /\ ~linked[u] /\ linked' = [linked EXCEPT ![u] = TRUE]
        /\ lines' = IF topic = NoTopic THEN lines ELSE [lines EXCEPT ![u] = <<topic>>]
        /\ UNCHANGED <<topic, stored, applying, asked, dropped>>
    BY <1>6 DEF Rejoin
  <2>2. lines[u] = <<>> /\ applying[u] = Unread /\ dropped
    BY <1>a, <2>1 DEF LastLineInv
  <2>3. \A v \in Members : linked'[v] = IF v = u THEN TRUE ELSE linked[v]
    BY <1>a, <2>1 DEF TopicTypes
  <2>4. \A v \in Members : lines'[v] = IF v = u /\ topic # NoTopic THEN <<topic>> ELSE lines[v]
    BY <1>a, <2>1 DEF TopicTypes
  <2>5. <<topic>> \in Seq(Values) /\ <<topic>> # <<>> /\ <<topic>>[Len(<<topic>>)] = topic
    BY <1>a DEF TopicTypes
  <2>6. TopicTypes'
    BY <1>a, <2>1, <2>5 DEF TopicTypes
  <2>7. LastLineInv'
    BY ZenonT(60), <1>a, <2>1, <2>2, <2>3, <2>4, <2>5 DEF LastLineInv
  <2>8. UnderWayInv'
    BY <1>a, <2>1, <2>2, <2>4, <2>5 DEF UnderWayInv
  <2> QED BY <2>6, <2>7, <2>8 DEF TopicInv
<1>7. ASSUME NEW t \in Values, OthersChange(t) PROVE TopicInv'
  BY <1>a, <1>7, BroadcastTopic DEF OthersChange, TopicTypes
<1>8. ASSUME NEW t \in Values, NEW ok \in BOOLEAN, ServerSetsTopic(t, ok) PROVE TopicInv'
  <2>1. asked' = asked \ {t} /\ UNCHANGED <<stored, told, applying, linked, topicOps, dropped>>
    BY <1>8 DEF ServerSetsTopic
  <2>2. asked' \subseteq Values
    BY <1>a, <2>1 DEF TopicTypes
  <2>3. CASE ok
    BY <1>8, <2>1, <2>2, <2>3, BroadcastTopic DEF ServerSetsTopic
  <2>4. CASE ~ok
    <3>1. UNCHANGED <<topic, lines>>
      BY <1>8, <2>4 DEF ServerSetsTopic
    <3> QED BY <1>a, <2>1, <2>2, <3>1 DEF TopicInv, TopicTypes, LastLineInv, UnderWayInv
  <2> QED BY <2>3, <2>4
<1>9. CASE UNCHANGED topicVars
  BY <1>9 DEF topicVars, TopicInv, TopicTypes, LastLineInv, UnderWayInv
<1> QED
  BY <1>1, <1>2, <1>3, <1>4, <1>5, <1>6, <1>7, <1>8, <1>9 DEF TopicNext, Values

\* Once every line is handled the stored topic is the server's, whichever
\* member's connection wrote it last, except for a clearing that a link which
\* was down has missed (ircmanage, applyTopic; 331 has no handler).
THEOREM TopicStaysTracked == TopicSpec => []TopicTracksUpstream
<1>1. TopicInit => TopicInv
  <2> SUFFICES ASSUME TopicInit PROVE TopicInv
    OBVIOUS
  <2>1. <<>> \in Seq(Values)
    BY EmptySeq
  <2> QED BY <2>1 DEF TopicInit, TopicInv, TopicTypes, LastLineInv, UnderWayInv, Values
<1>2. TopicInv => TopicTracksUpstream
  BY DEF TopicInv, LastLineInv, UnderWayInv, TopicTracksUpstream, Settled
<1> QED BY <1>1, <1>2, NextTopics, PTL DEF TopicSpec

-----------------------------------------------------------------------------
(* A peer's avatar and colour *)

Addresses == Pictures \cup {Unset}
Hues == Paints \cup {Odd, Unset}
MetaLines == [key : {"avatar", "color", "later"}, value : Addresses \cup Hues]

\* The last line of a key on the wire, when there is one, has this value.
Latest(w, key, v) ==
    \A i \in 1..Len(w) :
        w[i].key = key /\ (\A j \in 1..Len(w) : j > i => w[j].key # key) => w[i].value = v

\* No line of a key is on the wire.
NoLine(w, key) == \A i \in 1..Len(w) : w[i].key # key

PeerMetaTypes ==
    /\ picture \in Addresses /\ paint \in Hues /\ joinedUp \in BOOLEAN
    /\ metaWire \in Seq(MetaLines)
    /\ fetch \in [at : {"idle", "get", "fire", "end"}, url : Addresses \cup Hues]
    /\ behind \in BOOLEAN /\ lostLines \in BOOLEAN

\* The wire ends with what the server has; a link that is down has no wire, and
\* what went down with it is accounted for.
MetaWireInv ==
    /\ Latest(metaWire, "avatar", picture) /\ Latest(metaWire, "color", paint)
    /\ ~joinedUp => metaWire = <<>> /\ behind /\ lostLines

\* What has left the wire is in the store, or being fetched.
MirrorInv ==
    /\ NoLine(metaWire, "avatar") /\ ~behind =>
           IF fetch.at = "get" THEN fetch.url = picture ELSE mirror = picture
    /\ NoLine(metaWire, "color") /\ ~lostLines => colour = paint \/ paint = Odd
    /\ colour # Odd
    /\ fetch.at # "fire" => peerRow = <<mirror, colour>>

PeerMetaInv == PeerMetaTypes /\ MetaWireInv /\ MirrorInv

\* A line sent is the last of its key.
LEMMA MetaSent ==
    ASSUME NEW w \in Seq(MetaLines), NEW l \in MetaLines
    PROVE  /\ Append(w, l) \in Seq(MetaLines)
           /\ \A v : Latest(Append(w, l), l.key, v) <=> l.value = v
           /\ ~NoLine(Append(w, l), l.key)
           /\ \A key : key # l.key => /\ NoLine(Append(w, l), key) <=> NoLine(w, key)
                                      /\ \A v : Latest(w, key, v) => Latest(Append(w, l), key, v)
<1> DEFINE a == Append(w, l)
<1>1. /\ a \in Seq(MetaLines) /\ Len(a) = Len(w) + 1 /\ Len(w) \in Nat
      /\ \A i \in 1..Len(w) : a[i] = w[i]
      /\ a[Len(w) + 1] = l
  BY LineAppend
<1> HIDE DEF a
<1>2. Len(a) \in 1..Len(a) /\ a[Len(a)] = l
  BY <1>1
<1>3. ASSUME NEW v PROVE Latest(a, l.key, v) <=> l.value = v
  <2>1. ASSUME Latest(a, l.key, v) PROVE l.value = v
    BY <1>1, <1>2, <2>1 DEF Latest
  <2>2. ASSUME l.value = v PROVE Latest(a, l.key, v)
    <3> SUFFICES ASSUME NEW i \in 1..Len(a), a[i].key = l.key,
                        \A j \in 1..Len(a) : j > i => a[j].key # l.key
                 PROVE  a[i].value = v
      BY DEF Latest
    <3>1. ~(Len(a) > i)
      BY <1>2
    <3>2. i = Len(a)
      BY <1>1, <3>1
    <3> QED BY <1>2, <2>2, <3>2
  <2> QED BY <2>1, <2>2
<1>4. ~NoLine(a, l.key)
  BY <1>2 DEF NoLine
<1>5. ASSUME NEW key, key # l.key
      PROVE  /\ NoLine(a, key) <=> NoLine(w, key)
             /\ \A v : Latest(w, key, v) => Latest(a, key, v)
  <2>1. \A i \in 1..Len(a) : a[i].key = key => i \in 1..Len(w)
    BY <1>1, <1>5
  <2>2. \A i \in 1..Len(w) : i \in 1..Len(a)
    BY <1>1
  <2>3. NoLine(a, key) <=> NoLine(w, key)
    BY <1>1, <2>1, <2>2 DEF NoLine
  <2>4. ASSUME NEW v, Latest(w, key, v) PROVE Latest(a, key, v)
    <3> SUFFICES ASSUME NEW i \in 1..Len(a), a[i].key = key,
                        \A j \in 1..Len(a) : j > i => a[j].key # key
                 PROVE  a[i].value = v
      BY DEF Latest
    <3>1. i \in 1..Len(w) /\ w[i] = a[i]
      BY <1>1, <2>1
    <3>2. \A j \in 1..Len(w) : j > i => w[j].key # key
      BY <1>1, <2>2
    <3> QED BY <2>4, <3>1, <3>2 DEF Latest
  <2> QED BY <2>3, <2>4
<1> QED BY <1>1, <1>3, <1>4, <1>5 DEF a

\* A line taken leaves the last of each key where it was, or is it.
LEMMA MetaTaken ==
    ASSUME NEW w \in Seq(MetaLines), w # <<>>
    PROVE  /\ Tail(w) \in Seq(MetaLines) /\ Head(w) \in MetaLines
           /\ \A key, v : Latest(w, key, v) => Latest(Tail(w), key, v)
           /\ \A key : NoLine(Tail(w), key) /\ Head(w).key # key => NoLine(w, key)
           /\ \A key, v : NoLine(Tail(w), key) /\ Head(w).key = key /\ Latest(w, key, v)
                             => Head(w).value = v
<1> DEFINE t == Tail(w)
<1>1. /\ t \in Seq(MetaLines) /\ Len(t) = Len(w) - 1 /\ Len(w) \in Nat \ {0}
      /\ Head(w) = w[1] /\ Head(w) \in MetaLines
      /\ \A i \in 1..(Len(w) - 1) : t[i] = w[i + 1]
  BY LineTail
<1> HIDE DEF t
<1>2. \A i \in 1..Len(w) : i # 1 => i - 1 \in 1..Len(t) /\ t[i - 1] = w[i]
  BY <1>1
<1>3. \A i \in 1..Len(t) : i + 1 \in 1..Len(w) /\ t[i] = w[i + 1] /\ i \in Nat
  BY <1>1
<1>4. ASSUME NEW key, NEW v, Latest(w, key, v) PROVE Latest(t, key, v)
  <2> SUFFICES ASSUME NEW i \in 1..Len(t), t[i].key = key,
                      \A j \in 1..Len(t) : j > i => t[j].key # key
               PROVE  t[i].value = v
    BY DEF Latest
  <2>1. \A j \in 1..Len(w) : j > i + 1 => w[j].key # key
    <3> SUFFICES ASSUME NEW j \in 1..Len(w), j > i + 1 PROVE w[j].key # key
      OBVIOUS
    <3>1. j # 1 /\ j - 1 > i
      BY <1>3
    <3> QED BY <1>2, <3>1
  <2> QED BY <1>3, <1>4, <2>1 DEF Latest
<1>5. ASSUME NEW key, NoLine(t, key) PROVE \A i \in 1..Len(w) : i # 1 => w[i].key # key
  BY <1>2, <1>5 DEF NoLine
<1>6. ASSUME NEW key, NoLine(t, key), Head(w).key # key PROVE NoLine(w, key)
  BY <1>1, <1>5, <1>6 DEF NoLine
<1>7. ASSUME NEW key, NEW v, NoLine(t, key), Head(w).key = key, Latest(w, key, v)
      PROVE  Head(w).value = v
  <2>1. 1 \in 1..Len(w) /\ \A j \in 1..Len(w) : j > 1 => j # 1
    BY <1>1
  <2> QED BY <1>1, <1>5, <1>7, <2>1 DEF Latest
<1> QED BY <1>1, <1>4, <1>6, <1>7 DEF t

\* The line that a handler takes off the wire.
LEMMA MetaHeard ==
    ASSUME PeerMetaInv, NEW key, NextMeta(key)
    PROVE  /\ Head(metaWire) \in MetaLines /\ Head(metaWire).key = key
           /\ metaWire' \in Seq(MetaLines) /\ MetaWireInv /\ metaWire # <<>> /\ joinedUp
           /\ Latest(metaWire', "avatar", picture') /\ Latest(metaWire', "color", paint')
           /\ \A k : k # key /\ NoLine(metaWire', k) => NoLine(metaWire, k)
           /\ key = "avatar" /\ NoLine(metaWire', key) => Head(metaWire).value = picture
           /\ key = "color" /\ NoLine(metaWire', key) => Head(metaWire).value = paint
           /\ UNCHANGED <<picture, paint, joinedUp>>
<1>1. /\ metaWire # <<>> /\ Head(metaWire).key = key /\ metaWire' = Tail(metaWire)
      /\ UNCHANGED <<picture, paint, joinedUp>>
  BY DEF NextMeta
<1>2. metaWire \in Seq(MetaLines) /\ MetaWireInv /\ joinedUp
  BY <1>1 DEF PeerMetaInv, PeerMetaTypes, MetaWireInv
<1>3. /\ Tail(metaWire) \in Seq(MetaLines) /\ Head(metaWire) \in MetaLines
      /\ \A k, v : Latest(metaWire, k, v) => Latest(Tail(metaWire), k, v)
      /\ \A k : NoLine(Tail(metaWire), k) /\ Head(metaWire).key # k => NoLine(metaWire, k)
      /\ \A k, v : NoLine(Tail(metaWire), k) /\ Head(metaWire).key = k /\ Latest(metaWire, k, v)
                             => Head(metaWire).value = v
  BY <1>1, <1>2, MetaTaken
<1> QED BY <1>1, <1>2, <1>3 DEF MetaWireInv

\* Every step keeps it.
LEMMA NextPeerMeta == PeerMetaInv /\ [PeerMetaNext]_metaVars => PeerMetaInv'
<1> SUFFICES ASSUME PeerMetaInv, [PeerMetaNext]_metaVars PROVE PeerMetaInv'
  OBVIOUS
<1>a. PeerMetaTypes /\ MetaWireInv /\ MirrorInv
  BY DEF PeerMetaInv
<1>b. metaWire \in Seq(MetaLines)
  BY <1>a DEF PeerMetaTypes
<1>c. ASSUME metaWire' \in Seq(MetaLines), UNCHANGED <<picture, paint, joinedUp, fetch, behind, lostLines>>
      PROVE  PeerMetaTypes'
  BY <1>a, <1>c DEF PeerMetaTypes
<1>1. ASSUME NEW key \in {"avatar", "color"}, NEW v, PeerSets(key, v),
             v \in IF key = "avatar" THEN Addresses ELSE Hues
      PROVE  PeerMetaInv'
  <2>1. /\ picture' = IF key = "avatar" THEN v ELSE picture
        /\ paint' = IF key = "color" THEN v ELSE paint
        /\ metaWire' = IF joinedUp THEN Append(metaWire, MetaLine(key, v)) ELSE metaWire
        /\ UNCHANGED <<joinedUp, syncs, metaRetries, timers, fetch, mirror, colour, peerRow, behind, lostLines>>
    BY <1>1 DEF PeerSets
  <2>2. picture' \in Addresses /\ paint' \in Hues
    BY <1>1, <1>a, <2>1 DEF PeerMetaTypes
  <2>3. CASE ~joinedUp
    <3>1. metaWire = <<>> /\ metaWire' = <<>> /\ behind /\ lostLines
      BY <1>a, <2>1, <2>3 DEF MetaWireInv
    <3>2. \A k, x : Latest(<<>>, k, x)
      BY EmptySeq DEF Latest
    <3>3. PeerMetaTypes'
      BY <1>a, <1>b, <2>1, <2>2, <2>3 DEF PeerMetaTypes
    <3> QED BY <1>a, <2>1, <3>1, <3>2, <3>3 DEF PeerMetaInv, MetaWireInv, MirrorInv
  <2>4. CASE joinedUp
    <3> DEFINE l == MetaLine(key, v)
    <3>1. l \in MetaLines /\ l.key = key /\ l.value = v
      BY <1>1 DEF MetaLine, MetaLines
    <3>2. metaWire' = Append(metaWire, l)
      BY <2>1, <2>4
    <3> HIDE DEF l
    <3>3. /\ metaWire' \in Seq(MetaLines)
          /\ \A x : Latest(metaWire', key, x) <=> v = x
          /\ ~NoLine(metaWire', key)
          /\ \A k : k # key => /\ NoLine(metaWire', k) <=> NoLine(metaWire, k)
                               /\ \A x : Latest(metaWire, k, x) => Latest(metaWire', k, x)
      BY <1>b, <3>1, <3>2, MetaSent
    <3>4. PeerMetaTypes'
      BY <1>a, <2>1, <2>2, <3>3 DEF PeerMetaTypes
    <3>5. Latest(metaWire', "avatar", picture') /\ Latest(metaWire', "color", paint')
      BY <1>a, <2>1, <3>3 DEF MetaWireInv
    <3>6. MetaWireInv'
      BY <2>1, <2>4, <3>5 DEF MetaWireInv
    <3>7. MirrorInv'
      BY <1>a, <2>1, <3>3 DEF MirrorInv
    <3> QED BY <3>4, <3>6, <3>7 DEF PeerMetaInv
  <2> QED BY <2>3, <2>4
<1>2. CASE ServerSyncs
  <2> DEFINE a == MetaLine("avatar", picture)
             b == MetaLine("color", paint)
             w == Append(metaWire, a)
  <2>1. /\ joinedUp /\ metaWire' = metaWire \o <<a, b>>
        /\ UNCHANGED <<picture, paint, joinedUp, metaRetries, timers, fetch, mirror, colour, peerRow,
                       behind, lostLines, changes>>
    BY <1>2 DEF ServerSyncs
  <2>2. /\ a \in MetaLines /\ a.key = "avatar" /\ a.value = picture
        /\ b \in MetaLines /\ b.key = "color" /\ b.value = paint
    BY <1>a DEF PeerMetaTypes, MetaLine, MetaLines
  <2> HIDE DEF a, b
  <2>3. /\ w \in Seq(MetaLines) /\ Latest(w, "avatar", picture) /\ ~NoLine(w, "avatar")
    BY <1>b, <2>2, MetaSent
  <2>4. metaWire' = Append(w, b)
    <3>1. <<a>> \in Seq(MetaLines) /\ <<b>> \in Seq(MetaLines) /\ <<a, b>> = <<a>> \o <<b>>
      <4>1. <<a>> \in Seq(MetaLines) /\ <<b>> \in Seq(MetaLines)
        BY <2>2
      <4>2. Append(<<a>>, b) = <<a>> \o <<b>>
        BY <2>2, <4>1, AppendIsConcat
      <4>3. Append(<<a>>, b) = <<a, b>>
        <5>1. /\ Append(<<a>>, b) \in Seq(MetaLines) /\ Len(Append(<<a>>, b)) = 2
              /\ Append(<<a>>, b)[1] = a /\ Append(<<a>>, b)[2] = b
          BY <2>2, <4>1, LineAppend
        <5>2. <<a, b>> \in Seq(MetaLines) /\ Len(<<a, b>>) = 2
          BY <2>2
        <5>3. \A i \in 1..2 : Append(<<a>>, b)[i] = <<a, b>>[i]
          BY <5>1
        <5> QED BY <5>1, <5>2, <5>3, SeqEqual
      <4> QED BY <4>1, <4>2, <4>3
    <3>2. w = metaWire \o <<a>>
      BY <1>b, <2>2, AppendIsConcat
    <3>3. (metaWire \o <<a>>) \o <<b>> = metaWire \o (<<a>> \o <<b>>)
      BY <1>b, <3>1, ConcatAssociative
    <3>4. Append(w, b) = w \o <<b>>
      BY <2>2, <2>3, AppendIsConcat
    <3> QED BY <2>1, <3>1, <3>2, <3>3, <3>4
  <2> HIDE DEF w
  <2>5. /\ metaWire' \in Seq(MetaLines) /\ Latest(metaWire', "color", paint)
        /\ ~NoLine(metaWire', "color") /\ ~NoLine(metaWire', "avatar")
        /\ Latest(metaWire', "avatar", picture)
    BY <2>2, <2>3, <2>4, MetaSent
  <2> QED BY <1>a, <1>c, <2>1, <2>5 DEF PeerMetaInv, MetaWireInv, MirrorInv
<1>3. CASE ServerPostpones
  <2> DEFINE l == MetaLine("later", Unset)
  <2>1. /\ joinedUp /\ metaWire' = Append(metaWire, l)
        /\ UNCHANGED <<picture, paint, joinedUp, metaRetries, timers, fetch, mirror, colour, peerRow,
                       behind, lostLines>>
    BY <1>3 DEF ServerPostpones
  <2>2. l \in MetaLines /\ l.key = "later"
    BY DEF MetaLine, MetaLines, Addresses
  <2> HIDE DEF l
  <2>3. /\ metaWire' \in Seq(MetaLines)
        /\ \A k : k # "later" => /\ NoLine(metaWire', k) <=> NoLine(metaWire, k)
                                 /\ \A x : Latest(metaWire, k, x) => Latest(metaWire', k, x)
    BY <1>b, <2>1, <2>2, MetaSent
  <2> QED BY <1>a, <1>c, <2>1, <2>3 DEF PeerMetaInv, MetaWireInv, MirrorInv
<1>4. CASE handleMetadataSyncLater
  <2>1. NextMeta("later") /\ UNCHANGED <<fetch, mirror, colour, peerRow, behind, lostLines>>
    BY <1>4 DEF handleMetadataSyncLater
  <2>2. /\ metaWire' \in Seq(MetaLines) /\ joinedUp /\ UNCHANGED <<picture, paint, joinedUp>>
        /\ Latest(metaWire', "avatar", picture') /\ Latest(metaWire', "color", paint')
        /\ \A k : k # "later" /\ NoLine(metaWire', k) => NoLine(metaWire, k)
    BY <2>1, MetaHeard
  <2> QED BY <1>a, <1>c, <2>1, <2>2 DEF PeerMetaInv, MetaWireInv, MirrorInv
<1>5. CASE applyPeerAvatar
  <2> DEFINE url == Head(metaWire).value
  <2>1. /\ NextMeta("avatar") /\ UNCHANGED <<metaRetries, timers, colour, lostLines>>
        /\ \/ /\ url = Unset
              /\ mirror' = Unset /\ peerRow' = <<Unset, colour>>
              /\ behind' = (fetch.at = "get") /\ UNCHANGED fetch
           \/ /\ url # Unset /\ fetch.at = "idle"
              /\ fetch' = [at |-> "get", url |-> url] /\ behind' = FALSE
              /\ UNCHANGED <<mirror, peerRow>>
           \/ /\ url # Unset /\ fetch.at # "idle"
              /\ behind' = (behind \/ fetch # [at |-> "get", url |-> url])
              /\ UNCHANGED <<fetch, mirror, peerRow>>
    BY <1>5 DEF applyPeerAvatar
  <2>2. /\ Head(metaWire) \in MetaLines /\ metaWire' \in Seq(MetaLines) /\ joinedUp
        /\ Latest(metaWire', "avatar", picture') /\ Latest(metaWire', "color", paint')
        /\ NoLine(metaWire', "color") => NoLine(metaWire, "color")
        /\ NoLine(metaWire', "avatar") => url = picture
        /\ UNCHANGED <<picture, paint, joinedUp>>
    BY <2>1, MetaHeard
  <2>v. url \in Addresses \cup Hues
    BY <2>2 DEF MetaLines
  <2>3. MetaWireInv'
    BY <2>2 DEF MetaWireInv
  <2> HIDE DEF url
  <2>4. CASE url = Unset
    <3>1. /\ mirror' = Unset /\ peerRow' = <<Unset, colour>>
          /\ behind' = (fetch.at = "get") /\ UNCHANGED fetch
      BY <2>1, <2>4
    <3>2. PeerMetaTypes'
      BY <1>a, <2>1, <2>2, <3>1 DEF PeerMetaTypes
    <3> QED BY <1>a, <2>1, <2>2, <2>3, <2>4, <3>1, <3>2 DEF PeerMetaInv, MirrorInv
  <2>5. CASE url # Unset /\ fetch.at = "idle"
    <3>1. /\ fetch' = [at |-> "get", url |-> url] /\ behind' = FALSE
          /\ UNCHANGED <<mirror, peerRow>>
      BY <2>1, <2>5
    <3>2. fetch'.at = "get" /\ fetch'.url = url
      BY <3>1
    <3>3. MirrorInv'
      BY <1>a, <2>1, <2>2, <2>5, <3>1, <3>2 DEF MirrorInv
    <3>4. PeerMetaTypes'
      BY <1>a, <2>1, <2>2, <2>v, <3>1 DEF PeerMetaTypes
    <3> QED BY <2>3, <3>3, <3>4 DEF PeerMetaInv
  <2>6. CASE url # Unset /\ fetch.at # "idle"
    <3>1. /\ behind' = (behind \/ fetch # [at |-> "get", url |-> url])
          /\ UNCHANGED <<fetch, mirror, peerRow>>
      BY <2>1, <2>6
    <3>2. PeerMetaTypes'
      BY <1>a, <2>1, <2>2, <3>1 DEF PeerMetaTypes
    <3>3. ~behind' => fetch.at = "get" /\ fetch.url = url
      <4>1. ~behind' => fetch = [at |-> "get", url |-> url]
        BY <3>1, Zenon
      <4> QED BY <4>1
    <3> QED BY <1>a, <2>1, <2>2, <2>3, <3>1, <3>2, <3>3 DEF PeerMetaInv, MirrorInv
  <2> QED BY <2>1, <2>4, <2>5, <2>6
<1>6. CASE applyPeerColor
  <2> DEFINE value == Head(metaWire).value
  <2>1. /\ NextMeta("color") /\ lostLines' = FALSE
        /\ UNCHANGED <<metaRetries, timers, fetch, mirror, behind>>
        /\ \/ value = Odd /\ UNCHANGED <<colour, peerRow>>
           \/ value # Odd /\ colour' = value /\ peerRow' = <<mirror, value>>
    BY <1>6 DEF applyPeerColor
  <2>2. /\ metaWire' \in Seq(MetaLines) /\ joinedUp
        /\ Latest(metaWire', "avatar", picture') /\ Latest(metaWire', "color", paint')
        /\ NoLine(metaWire', "avatar") => NoLine(metaWire, "avatar")
        /\ NoLine(metaWire', "color") => value = paint
        /\ UNCHANGED <<picture, paint, joinedUp>>
    BY <2>1, MetaHeard
  <2> HIDE DEF value
  <2>3. MetaWireInv'
    BY <2>2 DEF MetaWireInv
  <2>4. PeerMetaTypes'
    BY <1>a, <2>1, <2>2 DEF PeerMetaTypes
  <2>5. MirrorInv'
    BY <1>a, <2>1, <2>2 DEF MirrorInv
  <2> QED BY <2>3, <2>4, <2>5 DEF PeerMetaInv
<1>7. ASSUME NEW from \in {"get", "fire", "end"}, FetchStep(from),
             NEW to \in {"idle", "fire", "end"}, NEW u \in Addresses \cup Hues,
             fetch' = [at |-> to, url |-> u], behind' \in BOOLEAN, behind => behind',
             from # "get" => mirror' = mirror,
             from = "get" /\ ~behind' /\ NoLine(metaWire, "avatar") => mirror' = picture,
             to # "fire" => peerRow' = <<mirror', colour>>
      PROVE  PeerMetaInv'
  <2>1. /\ fetch.at = from
        /\ UNCHANGED <<picture, paint, joinedUp, metaWire, syncs, metaRetries, timers, colour, lostLines>>
    BY <1>7 DEF FetchStep
  <2>2. fetch'.at = to /\ fetch' \in [at : {"idle", "get", "fire", "end"}, url : Addresses \cup Hues]
    BY <1>7
  <2>3. PeerMetaTypes'
    BY <1>a, <1>7, <2>1, <2>2 DEF PeerMetaTypes
  <2>4. MetaWireInv'
    BY <1>a, <1>7, <2>1 DEF MetaWireInv, PeerMetaTypes
  <2>5. MirrorInv'
    BY <1>a, <1>7, <2>1, <2>2 DEF MirrorInv, PeerMetaTypes
  <2> QED BY <2>3, <2>4, <2>5 DEF PeerMetaInv
<1>d. fetch.url \in Addresses \cup Hues /\ behind \in BOOLEAN
      /\ \A at : [fetch EXCEPT !.at = at] = [at |-> at, url |-> fetch.url]
  BY <1>a DEF PeerMetaTypes
<1>8. CASE fetchPeerAvatar
  <2>1. /\ FetchStep("get") /\ fetch.at = "get" /\ fetch' = [at |-> "fire", url |-> fetch.url]
        /\ mirror' = fetch.url /\ behind' = behind
    BY <1>8, <1>d DEF fetchPeerAvatar, FetchStep
  <2>2. ~behind /\ NoLine(metaWire, "avatar") => fetch.url = picture
    BY <1>a, <2>1 DEF MirrorInv
  <2> QED BY <1>7, <1>d, <2>1, <2>2
<1>9. CASE FetchFails
  <2>1. /\ FetchStep("get") /\ fetch.at = "get" /\ fetch' = [at |-> "end", url |-> fetch.url]
        /\ UNCHANGED <<mirror, peerRow>> /\ behind' = TRUE /\ UNCHANGED colour
    BY <1>9, <1>d DEF FetchFails, FetchStep
  <2>2. peerRow = <<mirror, colour>>
    BY <1>a, <2>1 DEF MirrorInv
  <2> QED BY <1>7, <1>d, <2>1, <2>2
<1>10. CASE firePeerAvatar
  <2>1. /\ FetchStep("fire") /\ fetch' = [at |-> "end", url |-> fetch.url]
        /\ peerRow' = <<mirror, colour>> /\ UNCHANGED <<mirror, behind>>
    BY <1>10, <1>d DEF firePeerAvatar
  <2> QED BY <1>7, <1>d, <2>1
<1>11. CASE FetchEnd
  <2>1. /\ FetchStep("end") /\ fetch.at = "end" /\ fetch' = [at |-> "idle", url |-> Unset]
        /\ UNCHANGED <<mirror, peerRow, behind>>
    BY <1>11 DEF FetchEnd, FetchStep, NoFetch
  <2>2. peerRow = <<mirror, colour>> /\ Unset \in Addresses \cup Hues
    BY <1>a, <2>1 DEF MirrorInv, Addresses
  <2> QED BY <1>7, <1>d, <2>1, <2>2
<1>12. CASE metadataSyncRetry
  BY <1>12 DEF metadataSyncRetry, PeerMetaInv, PeerMetaTypes, MetaWireInv, MirrorInv
<1>13. CASE MetaLinkDies
  <2>1. /\ joinedUp' = FALSE /\ metaWire' = <<>> /\ behind' = TRUE /\ lostLines' = TRUE
        /\ UNCHANGED <<picture, paint, metaRetries, timers, fetch, mirror, colour, peerRow>>
    BY <1>13 DEF MetaLinkDies
  <2>2. <<>> \in Seq(MetaLines) /\ \A k, x : Latest(<<>>, k, x)
    BY EmptySeq DEF Latest
  <2>3. PeerMetaTypes'
    BY <1>a, <2>1, <2>2 DEF PeerMetaTypes
  <2> QED BY <1>a, <2>1, <2>2, <2>3 DEF PeerMetaInv, MetaWireInv, MirrorInv
<1>14. CASE metadataSyncChannel
  BY <1>14 DEF metadataSyncChannel, PeerMetaInv, PeerMetaTypes, MetaWireInv, MirrorInv
<1>15. CASE UNCHANGED metaVars
  BY <1>15 DEF metaVars, PeerMetaInv, PeerMetaTypes, MetaWireInv, MirrorInv
<1>16. ASSUME NEW v \in Pictures \cup {Unset}, PeerSets("avatar", v) PROVE PeerMetaInv'
  BY <1>1, <1>16 DEF Addresses
<1>17. ASSUME NEW v \in Paints \cup {Odd, Unset}, PeerSets("color", v) PROVE PeerMetaInv'
  BY <1>1, <1>17 DEF Hues
<1> QED
  BY <1>2, <1>3, <1>4, <1>5, <1>6, <1>8, <1>9, <1>10, <1>11, <1>12, <1>13, <1>14, <1>15, <1>16, <1>17
     DEF PeerMetaNext

\* A peer's mirrored avatar and colour, and the row that shows them, end up as
\* the network has them, whatever lines, fetches and retries raced, but for
\* the values that were lost on the way (applyPeerAvatar, applyPeerColor).
THEOREM PeersStayRight == PeerMetaSpec => []PeersRight
<1>1. PeerMetaInit => PeerMetaInv
  <2> SUFFICES ASSUME PeerMetaInit PROVE PeerMetaInv
    OBVIOUS
  <2>1. /\ picture \in Pictures \cup {Unset} /\ paint = Unset /\ joinedUp = TRUE /\ metaWire = <<>>
        /\ fetch = [at |-> "idle", url |-> Unset] /\ mirror = Unset /\ colour = Unset
        /\ peerRow = <<Unset, Unset>> /\ behind = TRUE /\ lostLines = TRUE
    BY DEF PeerMetaInit, NoFetch
  <2>2. <<>> \in Seq(MetaLines) /\ \A k, x : Latest(<<>>, k, x)
    BY EmptySeq DEF Latest
  <2>3. PeerMetaTypes
    BY <2>1, <2>2 DEF PeerMetaTypes, Addresses, Hues
  <2> QED BY <2>1, <2>2, <2>3, PeerMetaAssumption DEF PeerMetaInv, MetaWireInv, MirrorInv
<1>2. PeerMetaInv => PeersRight
  <2> SUFFICES ASSUME PeerMetaInv PROVE PeersRight
    OBVIOUS
  <2>1. metaWire = <<>> => NoLine(metaWire, "avatar") /\ NoLine(metaWire, "color")
    BY EmptySeq DEF NoLine
  <2> QED BY <2>1 DEF PeerMetaInv, MirrorInv, PeersRight, PeerAvatarRight, PeerRowRight, MetaQuiet
<1> QED BY <1>1, <1>2, NextPeerMeta, PTL DEF PeerMetaSpec

-----------------------------------------------------------------------------
(* The user's own avatars *)

Hashes == Images \cup {Bare}

AvatarTypes ==
    /\ userAvatar \in Hashes
    /\ override \in [Guilds -> Hashes] /\ refused \in [Guilds -> BOOLEAN]
    /\ pendingSet \in [Guilds -> [armed : BOOLEAN, prev : Hashes, global : BOOLEAN]]
    /\ sets \in [Guilds -> Seq(Hashes)] /\ verdicts \in [Guilds -> Seq(BOOLEAN)]
    /\ published \in [Guilds -> Hashes] /\ rowShown \in [Guilds -> Hashes]
    /\ upload \in [at : {"idle", "tell", "reset", "fan", "set", "row"},
                   guild : Guilds \cup {""}, hash : Hashes, prev : Hashes]
    /\ upload.at \in {"set", "row"} => upload.guild \in Guilds
    /\ spoilt \subseteq Guilds /\ hushed \subseteq Guilds

\* With this override the guild would show nothing that its peers do not see.
Fits(g, over) == MemberAvatarFor(userAvatar, over, refused[g]) \in {Bare, published[g]}

\* A guild that no request is about: it is honest, or one SET is under way, or
\* its verdict is, and what is armed makes it honest if the SET is refused.
Settling(g) ==
    LET set == pendingSet[g] IN
    \/ SetsAnswered(g) /\ Fits(g, override[g])
    \/ /\ verdicts[g] = <<>> /\ set.armed
       /\ \E h \in Hashes :
            /\ sets[g] = <<h>>
            /\ IF set.global THEN h = userAvatar /\ override[g] = Bare
               ELSE override[g] = h /\ (h = Bare => userAvatar = Bare) /\ Fits(g, set.prev)
    \/ sets[g] = <<>> /\ verdicts[g] = <<TRUE>> /\ Fits(g, override[g])
    \/ /\ sets[g] = <<>> /\ verdicts[g] = <<FALSE>> /\ set.armed
       /\ IF set.global THEN override[g] = Bare ELSE Fits(g, set.prev)

\* A new avatar of the account unsettles every guild until it is sent; a new
\* override its own guild, which keeps what it showed to go back to.
HonestInv ==
    /\ upload.at \in {"tell", "reset", "fan"} => upload.hash = userAvatar
    /\ \A g \in Guilds \ spoilt :
         /\ upload.at = "set" /\ upload.guild = g =>
              SetsAnswered(g) /\ override[g] = upload.hash /\ Fits(g, upload.prev)
         /\ upload.at \in {"idle", "row"} \/ (upload.at = "set" /\ upload.guild # g) => Settling(g)

\* The clients have the row of every guild that no request is about.
ShownInv ==
    \A g \in Guilds \ hushed :
        \/ upload.at = "tell"
        \/ upload.at \in {"set", "row"} /\ upload.guild = g
        \/ rowShown[g] = MemberPayload(g)

AvatarInv == AvatarTypes /\ HonestInv /\ ShownInv

\* Sequences of one line.
LEMMA OneLine ==
    ASSUME NEW S, NEW x \in S
    PROVE  /\ Append(<<>>, x) = <<x>> /\ Tail(<<x>>) = <<>> /\ Head(<<x>>) = x
           /\ <<x>> \in Seq(S) /\ <<>> \in Seq(S) /\ <<x>> # <<>>
<1>1. <<x>> \in Seq(S) /\ <<>> \in Seq(S) /\ <<x>> # <<>> /\ Len(<<x>>) = 1 /\ <<x>>[1] = x
  BY EmptySeq
<1>2. Append(<<>>, x) = <<x>>
  <2>1. /\ Append(<<>>, x) \in Seq(S) /\ Len(Append(<<>>, x)) = 1 /\ Append(<<>>, x)[1] = x
    BY <1>1, LineAppend, EmptySeq
  <2>2. \A i \in 1..Len(Append(<<>>, x)) : Append(<<>>, x)[i] = <<x>>[i]
    BY <1>1, <2>1
  <2> QED BY <1>1, <2>1, <2>2, SeqEqual
<1>3. Tail(<<x>>) = <<>> /\ Head(<<x>>) = x
  BY <1>1, LineTail
<1> QED BY <1>1, <1>2, <1>3

\* A guild that a step leaves alone settles as it did.
LEMMA Elsewhere ==
    ASSUME NEW g, UNCHANGED userAvatar, override'[g] = override[g], refused'[g] = refused[g],
           pendingSet'[g] = pendingSet[g], sets'[g] = sets[g], verdicts'[g] = verdicts[g],
           published'[g] = published[g]
    PROVE  /\ Settling(g) => Settling(g)'
           /\ \A o : Fits(g, o) => Fits(g, o)'
           /\ SetsAnswered(g) => SetsAnswered(g)'
           /\ MemberPayload(g)' = MemberPayload(g)
<1>1. \A o : Fits(g, o) => Fits(g, o)'
  BY DEF Fits
<1>2. SetsAnswered(g)' <=> SetsAnswered(g)
  BY DEF SetsAnswered
<1>3. Settling(g) => Settling(g)'
  BY DEF Settling, Fits, SetsAnswered
<1> QED BY <1>1, <1>2, <1>3 DEF MemberPayload

\* A guild that waits for no verdict is honest; one that waits for the server
\* has a SET armed; one whose verdict is on its way has just one.
LEMMA SettlingCases ==
    ASSUME NEW g, Settling(g)
    PROVE  /\ SetsAnswered(g) => Fits(g, override[g])
           /\ sets[g] # <<>> =>
                 /\ verdicts[g] = <<>> /\ pendingSet[g].armed
                 /\ \E h \in Hashes :
                      /\ sets[g] = <<h>>
                      /\ IF pendingSet[g].global THEN h = userAvatar /\ override[g] = Bare
                         ELSE /\ override[g] = h /\ (h = Bare => userAvatar = Bare)
                              /\ Fits(g, pendingSet[g].prev)
           /\ verdicts[g] # <<>> =>
                 /\ sets[g] = <<>>
                 /\ \/ verdicts[g] = <<TRUE>> /\ Fits(g, override[g])
                    \/ /\ verdicts[g] = <<FALSE>> /\ pendingSet[g].armed
                       /\ IF pendingSet[g].global THEN override[g] = Bare
                          ELSE Fits(g, pendingSet[g].prev)
<1>1. \A S, x : x \in S => <<x>> # <<>>
  BY OneLine
<1> QED BY <1>1 DEF Settling, SetsAnswered

\* A step of one guild's connection leaves the others as they are.
LEMMA OneGuild ==
    ASSUME AvatarInv, NEW g \in Guilds, ~SetsAnswered(g),
           UNCHANGED <<userAvatar, upload>>, spoilt \subseteq spoilt',
           \A h \in Guilds : h # g =>
               /\ override'[h] = override[h] /\ refused'[h] = refused[h]
               /\ pendingSet'[h] = pendingSet[h] /\ sets'[h] = sets[h]
               /\ verdicts'[h] = verdicts[h] /\ published'[h] = published[h]
               /\ rowShown'[h] = rowShown[h] /\ (h \in hushed => h \in hushed'),
           g \notin spoilt' => (Settling(g) => Settling(g)'),
           \/ rowShown'[g] = MemberPayload(g)'
           \/ /\ rowShown'[g] = rowShown[g] /\ MemberPayload(g)' = MemberPayload(g)
              /\ g \in hushed => g \in hushed'
    PROVE  HonestInv' /\ ShownInv'
<1>1. ASSUME NEW h \in Guilds, h # g
      PROVE  /\ Settling(h) => Settling(h)'
             /\ \A o : Fits(h, o) => Fits(h, o)'
             /\ SetsAnswered(h) => SetsAnswered(h)'
             /\ MemberPayload(h)' = MemberPayload(h) /\ override'[h] = override[h]
  BY <1>1, Elsewhere
<1>2. HonestInv'
  <2> SUFFICES ASSUME NEW h \in Guilds \ spoilt'
               PROVE  /\ upload.at = "set" /\ upload.guild = h =>
                           SetsAnswered(h)' /\ override'[h] = upload.hash /\ Fits(h, upload.prev)'
                      /\ upload.at \in {"idle", "row"} \/ (upload.at = "set" /\ upload.guild # h)
                           => Settling(h)'
    BY DEF HonestInv, AvatarInv
  <2>1. h \in Guilds \ spoilt
    OBVIOUS
  <2>2. CASE h = g
    BY <2>1, <2>2 DEF AvatarInv, HonestInv
  <2>3. CASE h # g
    <3>1. Fits(h, upload.prev) => Fits(h, upload.prev)'
      BY <2>3 DEF Fits
    <3> QED BY <1>1, <2>1, <2>3, <3>1 DEF AvatarInv, HonestInv
  <2> QED BY <2>2, <2>3
<1>3. ShownInv'
  <2> SUFFICES ASSUME NEW h \in Guilds \ hushed'
               PROVE  \/ upload.at = "tell"
                      \/ upload.at \in {"set", "row"} /\ upload.guild = h
                      \/ rowShown'[h] = MemberPayload(h)'
    BY DEF ShownInv
  <2>1. CASE h = g
    BY <2>1 DEF AvatarInv, ShownInv
  <2>2. CASE h # g
    BY <1>1, <2>2 DEF AvatarInv, ShownInv
  <2> QED BY <2>1, <2>2
<1> QED BY <1>2, <1>3

\* What a request and the SETs it sends make of the types.
LEMMA AvatarTypesKept ==
    ASSUME AvatarTypes, AvatarNext PROVE AvatarTypes'
<1>a. /\ userAvatar \in Hashes
      /\ override \in [Guilds -> Hashes] /\ refused \in [Guilds -> BOOLEAN]
      /\ pendingSet \in [Guilds -> [armed : BOOLEAN, prev : Hashes, global : BOOLEAN]]
      /\ sets \in [Guilds -> Seq(Hashes)] /\ verdicts \in [Guilds -> Seq(BOOLEAN)]
      /\ published \in [Guilds -> Hashes] /\ rowShown \in [Guilds -> Hashes]
      /\ upload.hash \in Hashes /\ upload.prev \in Hashes /\ Bare \in Hashes
      /\ upload.guild \in Guilds \cup {""}
      /\ upload \in [at : {"idle", "tell", "reset", "fan", "set", "row"},
                     guild : Guilds \cup {""}, hash : Hashes, prev : Hashes]
      /\ upload.at \in {"set", "row"} => upload.guild \in Guilds
      /\ spoilt \subseteq Guilds /\ hushed \subseteq Guilds
  BY DEF AvatarTypes, Hashes
<1>b. \A a, o \in Hashes, r \in BOOLEAN : MemberAvatarFor(a, o, r) \in Hashes
  BY <1>a DEF MemberAvatarFor
<1>c. \A g \in Guilds : MemberPayload(g) \in Hashes
  BY <1>a, <1>b DEF MemberPayload
<1>d. NoUpload.at = "idle" /\
      NoUpload \in [at : {"idle", "tell", "reset", "fan", "set", "row"},
                    guild : Guilds \cup {""}, hash : Hashes, prev : Hashes]
  BY <1>a DEF NoUpload
<1>1. ASSUME NEW h \in Hashes, SetUserAvatar(h) PROVE AvatarTypes'
  <2>1. /\ userAvatar' = h
        /\ upload' = [at |-> "tell", guild |-> "", hash |-> h, prev |-> userAvatar]
        /\ UNCHANGED <<override, refused, pendingSet, sets, verdicts, published, rowShown, spoilt, hushed>>
    BY <1>1 DEF SetUserAvatar, NoUpload
  <2> QED BY <1>a, <2>1 DEF AvatarTypes
<1>2. CASE TellGuilds
  <2>1. /\ upload' = [upload EXCEPT !.at = "reset"]
        /\ rowShown' = [g \in Guilds |-> MemberPayload(g)]
        /\ UNCHANGED <<userAvatar, override, refused, pendingSet, sets, verdicts, published, spoilt, hushed>>
    BY <1>2 DEF TellGuilds
  <2> QED BY <1>a, <1>c, <2>1 DEF AvatarTypes
<1>3. CASE ForgetRefusals
  <2>1. /\ upload' = [upload EXCEPT !.at = "fan"]
        /\ refused' = [g \in Guilds |-> FALSE] /\ hushed' \subseteq hushed \cup Guilds
        /\ UNCHANGED <<userAvatar, override, pendingSet, sets, verdicts, published, rowShown, spoilt>>
    BY <1>3 DEF ForgetRefusals
  <2> QED BY <1>a, <2>1 DEF AvatarTypes
<1>4. ASSUME NEW S, NEW global \in BOOLEAN, sendMetadataSet(S, global)
      PROVE  /\ pendingSet' \in [Guilds -> [armed : BOOLEAN, prev : Hashes, global : BOOLEAN]]
             /\ sets' \in [Guilds -> Seq(Hashes)]
  <2>1. \A g \in Guilds : Append(sets[g], upload.hash) \in Seq(Hashes)
    BY <1>a, LineAppend
  <2>2. /\ pendingSet' = [g \in Guilds |-> IF g \in S
                THEN [armed |-> TRUE, prev |-> upload.prev, global |-> global] ELSE pendingSet[g]]
        /\ sets' = [g \in Guilds |-> IF g \in S THEN Append(sets[g], upload.hash) ELSE sets[g]]
    BY <1>4 DEF sendMetadataSet
  <2> QED BY <1>a, <2>1, <2>2
<1>5. CASE SetAvatarAll
  <2>1. /\ upload' = NoUpload /\ sendMetadataSet(Guilds, TRUE) /\ spoilt' \subseteq spoilt \cup Guilds
        /\ UNCHANGED <<userAvatar, override, refused, verdicts, published, rowShown, hushed>>
    BY <1>5 DEF SetAvatarAll
  <2> QED BY <1>a, <1>d, <1>4, <2>1 DEF AvatarTypes
<1>6. ASSUME NEW g \in Guilds, NEW h \in Hashes, SetMembershipAvatar(g, h) PROVE AvatarTypes'
  <2>1. /\ override' = [override EXCEPT ![g] = h]
        /\ upload' = [at |-> "set", guild |-> g, hash |-> h, prev |-> override[g]]
        /\ spoilt' \subseteq spoilt \cup {g}
        /\ UNCHANGED <<userAvatar, refused, pendingSet, sets, verdicts, published, rowShown, hushed>>
    BY <1>6 DEF SetMembershipAvatar
  <2> QED BY <1>a, <2>1 DEF AvatarTypes
<1>7. CASE SetAvatar
  <2>1. /\ upload.at = "set" /\ upload' = [upload EXCEPT !.at = "row"]
        /\ sendMetadataSet({upload.guild}, FALSE) /\ spoilt' \subseteq spoilt \cup {upload.guild}
        /\ UNCHANGED <<userAvatar, override, refused, verdicts, published, rowShown, hushed>>
    BY <1>7 DEF SetAvatar
  <2>2. /\ upload' \in [at : {"idle", "tell", "reset", "fan", "set", "row"},
                       guild : Guilds \cup {""}, hash : Hashes, prev : Hashes]
        /\ upload'.guild = upload.guild
    BY <1>a, <2>1
  <2> QED BY <1>a, <1>4, <2>1, <2>2 DEF AvatarTypes
<1>8. CASE TellGuild
  <2>1. /\ upload.at = "row" /\ upload' = NoUpload
        /\ rowShown' = [rowShown EXCEPT ![upload.guild] = MemberPayload(upload.guild)]
        /\ UNCHANGED <<userAvatar, override, refused, pendingSet, sets, verdicts, published, spoilt, hushed>>
    BY <1>8 DEF TellGuild
  <2> QED BY <1>a, <1>c, <1>d, <2>1 DEF AvatarTypes
<1>9. ASSUME NEW g \in Guilds, NEW ok \in BOOLEAN, ServerVerdict(g, ok) PROVE AvatarTypes'
  <2>1. /\ sets[g] # <<>> /\ sets' = [sets EXCEPT ![g] = Tail(@)]
        /\ published' = IF ok THEN [published EXCEPT ![g] = Head(sets[g])] ELSE published
        /\ verdicts' = [verdicts EXCEPT ![g] = Append(@, ok)]
        /\ UNCHANGED <<userAvatar, override, refused, pendingSet, rowShown, upload, spoilt, hushed>>
    BY <1>9 DEF ServerVerdict
  <2>2. Tail(sets[g]) \in Seq(Hashes) /\ Head(sets[g]) \in Hashes
    BY <1>a, <2>1, LineTail
  <2>3. Append(verdicts[g], ok) \in Seq(BOOLEAN)
    BY <1>a, LineAppend
  <2> QED BY <1>a, <2>1, <2>2, <2>3 DEF AvatarTypes
<1>10. ASSUME NEW g \in Guilds, NEW ok \in BOOLEAN, HearVerdict(g, ok)
       PROVE  /\ verdicts' \in [Guilds -> Seq(BOOLEAN)]
              /\ pendingSet' \in [Guilds -> [armed : BOOLEAN, prev : Hashes, global : BOOLEAN]]
              /\ UNCHANGED <<userAvatar, sets, published, upload, spoilt>>
  <2>1. /\ verdicts[g] # <<>> /\ verdicts' = [verdicts EXCEPT ![g] = Tail(@)]
        /\ pendingSet' = [pendingSet EXCEPT ![g].armed = FALSE]
        /\ UNCHANGED <<userAvatar, sets, published, upload, spoilt>>
    BY <1>10 DEF HearVerdict
  <2>2. Tail(verdicts[g]) \in Seq(BOOLEAN)
    BY <1>a, <2>1, LineTail
  <2> QED BY <1>a, <2>1, <2>2
<1>11. ASSUME NEW g \in Guilds, HandleMetadataKeyValue(g) PROVE AvatarTypes'
  <2>1. HearVerdict(g, TRUE) /\ UNCHANGED <<override, refused, rowShown, hushed>>
    BY <1>11 DEF HandleMetadataKeyValue
  <2> QED BY <1>a, <1>10, <2>1 DEF AvatarTypes
<1>12. ASSUME NEW g \in Guilds, AvatarSetRejected(g) PROVE AvatarTypes'
  <2> DEFINE set == pendingSet[g]
  <2>1. /\ HearVerdict(g, FALSE)
        /\ refused' = [refused EXCEPT ![g] = @ \/ (set.armed /\ set.global)]
        /\ override' = [override EXCEPT ![g] = IF set.armed /\ ~set.global THEN set.prev ELSE @]
        /\ rowShown' = IF set.armed
             THEN [rowShown EXCEPT ![g] = MemberAvatarFor(userAvatar, override'[g], refused'[g])] ELSE rowShown
        /\ hushed' = IF set.armed THEN hushed \ {g} ELSE hushed
    BY <1>12 DEF AvatarSetRejected
  <2>2. set.armed \in BOOLEAN /\ set.global \in BOOLEAN /\ set.prev \in Hashes
    BY <1>a
  <2>3. (refused[g] \/ (set.armed /\ set.global)) \in BOOLEAN
    BY <1>a, <2>2
  <2> HIDE DEF set
  <2>4. refused' \in [Guilds -> BOOLEAN] /\ override' \in [Guilds -> Hashes]
    BY <1>a, <2>1, <2>2, <2>3
  <2>5. MemberAvatarFor(userAvatar, override'[g], refused'[g]) \in Hashes
    BY <1>a, <1>b, <2>4
  <2>6. rowShown' \in [Guilds -> Hashes] /\ hushed' \subseteq Guilds
    BY <1>a, <2>1, <2>5
  <2> QED BY <1>a, <1>10, <2>1, <2>4, <2>6 DEF AvatarTypes
<1>13. ASSUME NEW g \in Guilds, MetadataLost(g) PROVE AvatarTypes'
  <2>1. /\ sets' = [sets EXCEPT ![g] = <<>>] /\ verdicts' = [verdicts EXCEPT ![g] = <<>>]
        /\ spoilt' = spoilt \cup {g}
        /\ UNCHANGED <<userAvatar, override, refused, pendingSet, published, rowShown, upload, hushed>>
    BY <1>13 DEF MetadataLost
  <2>2. <<>> \in Seq(Hashes) /\ <<>> \in Seq(BOOLEAN)
    BY EmptySeq
  <2> QED BY <1>a, <2>1, <2>2 DEF AvatarTypes
<1> QED
  BY <1>1, <1>2, <1>3, <1>5, <1>6, <1>7, <1>8, <1>9, <1>11, <1>12, <1>13 DEF AvatarNext, Hashes

\* Every step keeps guilds honest and their rows shown.
LEMMA NextAvatars == AvatarInv /\ [AvatarNext]_avatarVars => AvatarInv'
<1>0. ASSUME AvatarInv, UNCHANGED avatarVars PROVE AvatarInv'
  <2>1. /\ UNCHANGED <<userAvatar, override, refused, pendingSet, sets, verdicts, published, rowShown>>
        /\ UNCHANGED <<upload, spoilt, hushed, uploads>>
    BY <1>0 DEF avatarVars
  <2>2. \A g \in Guilds :
          /\ Settling(g) => Settling(g)'
          /\ \A o : Fits(g, o) => Fits(g, o)'
          /\ SetsAnswered(g) => SetsAnswered(g)'
          /\ MemberPayload(g)' = MemberPayload(g)
    BY <2>1, Elsewhere
  <2>3. \A g \in Guilds : Fits(g, upload.prev) => Fits(g, upload.prev)'
    BY <2>1 DEF Fits
  <2>4. AvatarTypes'
    BY <1>0, <2>1 DEF AvatarInv, AvatarTypes
  <2>5. HonestInv'
    BY <1>0, <2>1, <2>2, <2>3 DEF AvatarInv, HonestInv
  <2>6. ShownInv'
    BY <1>0, <2>1, <2>2 DEF AvatarInv, ShownInv
  <2> QED BY <2>4, <2>5, <2>6 DEF AvatarInv
<1> SUFFICES ASSUME AvatarInv, AvatarNext PROVE AvatarInv'
  BY <1>0
<1>a. AvatarTypes /\ HonestInv /\ ShownInv /\ AvatarTypes'
  BY AvatarTypesKept DEF AvatarInv
<1> SUFFICES HonestInv' /\ ShownInv'
  BY <1>a DEF AvatarInv
<1>b. /\ override \in [Guilds -> Hashes] /\ refused \in [Guilds -> BOOLEAN]
      /\ pendingSet \in [Guilds -> [armed : BOOLEAN, prev : Hashes, global : BOOLEAN]]
      /\ sets \in [Guilds -> Seq(Hashes)] /\ verdicts \in [Guilds -> Seq(BOOLEAN)]
      /\ published \in [Guilds -> Hashes] /\ rowShown \in [Guilds -> Hashes]
      /\ upload.hash \in Hashes /\ upload.prev \in Hashes
      /\ upload \in [at : {"idle", "tell", "reset", "fan", "set", "row"},
                     guild : Guilds \cup {""}, hash : Hashes, prev : Hashes]
      /\ upload.at \in {"set", "row"} => upload.guild \in Guilds
  BY <1>a DEF AvatarTypes
<1>1. ASSUME NEW h \in Hashes, SetUserAvatar(h) PROVE HonestInv' /\ ShownInv'
  <2>1. /\ userAvatar' = h
        /\ upload' = [at |-> "tell", guild |-> "", hash |-> h, prev |-> userAvatar]
    BY <1>1 DEF SetUserAvatar, NoUpload
  <2>2. upload'.at = "tell" /\ upload'.hash = userAvatar'
    BY <2>1
  <2> QED BY <2>2 DEF HonestInv, ShownInv
<1>2. CASE TellGuilds
  <2>1. /\ upload.at = "tell" /\ upload' = [upload EXCEPT !.at = "reset"]
        /\ rowShown' = [g \in Guilds |-> MemberPayload(g)]
        /\ UNCHANGED <<userAvatar, override, refused, spoilt, hushed>>
    BY <1>2 DEF TellGuilds
  <2>2. upload'.at = "reset" /\ upload'.hash = upload.hash
    BY <1>b, <2>1
  <2>3. \A g \in Guilds : rowShown'[g] = MemberPayload(g)'
    BY <2>1 DEF MemberPayload
  <2> QED BY <1>a, <2>1, <2>2, <2>3 DEF HonestInv, ShownInv
<1>3. CASE ForgetRefusals
  <2>1. /\ upload.at = "reset" /\ upload' = [upload EXCEPT !.at = "fan"]
        /\ refused' = [g \in Guilds |-> FALSE] /\ hushed' = hushed \cup {g \in Guilds : refused[g]}
        /\ UNCHANGED <<userAvatar, override, rowShown, spoilt>>
    BY <1>3 DEF ForgetRefusals
  <2>2. upload'.at = "fan" /\ upload'.hash = upload.hash
    BY <1>b, <2>1
  <2>3. \A g \in Guilds \ hushed' : MemberPayload(g)' = MemberPayload(g) /\ g \notin hushed
    BY <1>b, <2>1 DEF MemberPayload, MemberAvatarFor
  <2> QED BY <1>a, <2>1, <2>2, <2>3 DEF HonestInv, ShownInv
<1>4. CASE SetAvatarAll
  <2>1. /\ upload.at = "fan" /\ upload' = NoUpload /\ sendMetadataSet(Guilds, TRUE)
        /\ spoilt' = spoilt \cup {g \in Guilds : override[g] # Bare \/ ~SetsAnswered(g)}
        /\ UNCHANGED <<userAvatar, override, refused, verdicts, published, rowShown, hushed>>
    BY <1>4 DEF SetAvatarAll
  <2>2. upload'.at = "idle" /\ upload.hash = userAvatar
    BY <1>a, <2>1 DEF NoUpload, HonestInv
  <2>3. \A g \in Guilds : MemberPayload(g)' = MemberPayload(g)
    BY <2>1 DEF MemberPayload
  <2>4. ShownInv'
    BY <1>a, <2>1, <2>2, <2>3 DEF ShownInv
  <2>5. ASSUME NEW g \in Guilds \ spoilt' PROVE Settling(g)'
    <3>1. override[g] = Bare /\ sets[g] = <<>> /\ verdicts[g] = <<>>
      BY <2>1 DEF SetsAnswered
    <3>2. /\ pendingSet'[g] = [armed |-> TRUE, prev |-> upload.prev, global |-> TRUE]
          /\ sets'[g] = Append(<<>>, upload.hash)
      BY <2>1, <3>1 DEF sendMetadataSet
    <3>3. sets'[g] = <<upload.hash>>
      BY <1>b, <3>2, OneLine
    <3>4. pendingSet'[g].armed /\ pendingSet'[g].global
      BY <3>2
    <3> QED BY <1>b, <2>1, <2>2, <3>1, <3>3, <3>4 DEF Settling
  <2> QED BY <2>2, <2>4, <2>5 DEF HonestInv
<1>5. ASSUME NEW g \in Guilds, NEW h \in Hashes, SetMembershipAvatar(g, h) PROVE HonestInv' /\ ShownInv'
  <2>1. /\ upload.at = "idle" /\ override' = [override EXCEPT ![g] = h]
        /\ upload' = [at |-> "set", guild |-> g, hash |-> h, prev |-> override[g]]
        /\ spoilt' = IF SetsAnswered(g) THEN spoilt ELSE spoilt \cup {g}
        /\ UNCHANGED <<userAvatar, refused, pendingSet, sets, verdicts, published, rowShown, hushed>>
    BY <1>5 DEF SetMembershipAvatar
  <2>2. upload'.at = "set" /\ upload'.guild = g /\ upload'.hash = h /\ upload'.prev = override[g]
    BY <2>1
  <2>3. ASSUME NEW k \in Guilds, k # g
        PROVE  (Settling(k) => Settling(k)') /\ MemberPayload(k)' = MemberPayload(k)
    <3>1. override'[k] = override[k]
      BY <1>b, <2>1, <2>3
    <3> QED BY <2>1, <3>1, Elsewhere
  <2>4. ShownInv'
    BY <1>a, <2>1, <2>2, <2>3 DEF ShownInv
  <2>5. ASSUME g \notin spoilt'
        PROVE  SetsAnswered(g)' /\ override'[g] = h /\ Fits(g, upload.prev)'
    <3>1. SetsAnswered(g) /\ Settling(g)
      BY <1>a, <2>1, <2>5 DEF HonestInv
    <3>2. Fits(g, override[g])
      BY <3>1, SettlingCases
    <3>3. SetsAnswered(g)' /\ override'[g] = h
      BY <1>b, <2>1, <3>1 DEF SetsAnswered
    <3> QED BY <2>1, <2>2, <3>2, <3>3 DEF Fits
  <2>6. ASSUME NEW k \in Guilds \ spoilt', k # g PROVE Settling(k)'
    BY <1>a, <2>1, <2>3, <2>6 DEF HonestInv
  <2> QED BY <2>2, <2>4, <2>5, <2>6 DEF HonestInv
<1>6. CASE SetAvatar
  <2>g. upload.guild \in Guilds
    BY <1>6, <1>b DEF SetAvatar
  <2>0. PICK g \in Guilds : g = upload.guild
    BY <2>g
  <2>1. /\ upload.at = "set" /\ upload' = [upload EXCEPT !.at = "row"]
        /\ sendMetadataSet({g}, FALSE)
        /\ spoilt' = IF upload.hash = Bare /\ userAvatar # Bare THEN spoilt \cup {g} ELSE spoilt
        /\ UNCHANGED <<userAvatar, override, refused, verdicts, published, rowShown, hushed>>
    BY <1>6, <2>0 DEF SetAvatar
  <2>2. upload'.at = "row" /\ upload'.guild = g
    BY <1>b, <2>0, <2>1
  <2>3. \A k \in Guilds : MemberPayload(k)' = MemberPayload(k)
    BY <2>1 DEF MemberPayload
  <2>4. ShownInv'
    BY <1>a, <2>0, <2>1, <2>2, <2>3 DEF ShownInv
  <2>5. ASSUME NEW k \in Guilds \ spoilt', k # g PROVE Settling(k)'
    <3>1. pendingSet'[k] = pendingSet[k] /\ sets'[k] = sets[k]
      BY <2>1, <2>5 DEF sendMetadataSet
    <3>2. Settling(k)
      BY <1>a, <2>0, <2>1, <2>5 DEF HonestInv
    <3> QED BY <2>1, <3>1, <3>2, Elsewhere
  <2>6. ASSUME g \notin spoilt' PROVE Settling(g)'
    <3>1. SetsAnswered(g) /\ override[g] = upload.hash /\ Fits(g, upload.prev)
      BY <1>a, <2>0, <2>1, <2>2, <2>6 DEF HonestInv
    <3>2. upload.hash = Bare => userAvatar = Bare
      BY <2>1, <2>6
    <3>3. /\ pendingSet'[g] = [armed |-> TRUE, prev |-> upload.prev, global |-> FALSE]
          /\ sets'[g] = Append(<<>>, upload.hash)
      BY <2>1, <2>2, <3>1 DEF sendMetadataSet, SetsAnswered
    <3>4. sets'[g] = <<upload.hash>> /\ verdicts'[g] = <<>>
      BY <1>b, <2>1, <3>1, <3>3, OneLine DEF SetsAnswered
    <3>5. pendingSet'[g].armed /\ ~pendingSet'[g].global /\ pendingSet'[g].prev = upload.prev
      BY <3>3
    <3>6. Fits(g, pendingSet[g].prev)'
      BY <2>1, <3>1, <3>5 DEF Fits
    <3> QED BY <1>b, <2>1, <3>1, <3>2, <3>4, <3>5, <3>6 DEF Settling
  <2> QED BY <2>2, <2>4, <2>5, <2>6 DEF HonestInv
<1>7. CASE TellGuild
  <2>1. /\ upload.at = "row" /\ upload' = NoUpload
        /\ rowShown' = [rowShown EXCEPT ![upload.guild] = MemberPayload(upload.guild)]
        /\ UNCHANGED <<userAvatar, override, refused, pendingSet, sets, verdicts, published, spoilt, hushed>>
    BY <1>7 DEF TellGuild
  <2>2. upload'.at = "idle"
    BY <2>1 DEF NoUpload
  <2>3. \A k \in Guilds : MemberPayload(k)' = MemberPayload(k)
    BY <2>1 DEF MemberPayload
  <2>4. \A k \in Guilds : rowShown'[k] = IF k = upload.guild THEN MemberPayload(k) ELSE rowShown[k]
    BY <1>b, <2>1
  <2>5. ShownInv'
    BY <1>a, <2>1, <2>2, <2>3, <2>4 DEF ShownInv
  <2>6. \A k \in Guilds : Settling(k) => Settling(k)'
    BY <2>1, Elsewhere
  <2> QED BY <1>a, <2>1, <2>2, <2>5, <2>6 DEF HonestInv
<1>8. ASSUME NEW g \in Guilds, NEW ok \in BOOLEAN, ServerVerdict(g, ok) PROVE HonestInv' /\ ShownInv'
  <2>1. /\ sets[g] # <<>> /\ sets' = [sets EXCEPT ![g] = Tail(@)]
        /\ published' = IF ok THEN [published EXCEPT ![g] = Head(sets[g])] ELSE published
        /\ verdicts' = [verdicts EXCEPT ![g] = Append(@, ok)]
        /\ UNCHANGED <<userAvatar, override, refused, pendingSet, rowShown, upload, spoilt, hushed>>
    BY <1>8 DEF ServerVerdict
  <2>2. ASSUME Settling(g) PROVE Settling(g)'
    <3>1. PICK h \in Hashes :
            /\ verdicts[g] = <<>> /\ pendingSet[g].armed /\ sets[g] = <<h>>
            /\ IF pendingSet[g].global THEN h = userAvatar /\ override[g] = Bare
               ELSE /\ override[g] = h /\ (h = Bare => userAvatar = Bare)
                    /\ Fits(g, pendingSet[g].prev)
      BY <2>1, <2>2, SettlingCases
    <3>2. Tail(<<h>>) = <<>> /\ Head(<<h>>) = h /\ Append(<<>>, ok) = <<ok>>
      BY OneLine
    <3>3. sets'[g] = <<>> /\ verdicts'[g] = <<ok>>
      BY <1>b, <2>1, <3>1, <3>2
    <3>4. CASE ok
      <4>1. published'[g] = h
        BY <1>b, <2>1, <3>1, <3>2, <3>4
      <4>2. Fits(g, override[g])'
        BY <2>1, <3>1, <4>1 DEF Fits, MemberAvatarFor
      <4> QED BY <3>3, <3>4, <4>2 DEF Settling
    <3>5. CASE ~ok
      <4>1. published' = published
        BY <2>1, <3>5
      <4>2. ~pendingSet[g].global => Fits(g, pendingSet[g].prev)'
        BY <2>1, <3>1, <4>1 DEF Fits
      <4> QED BY <2>1, <3>1, <3>3, <3>5, <4>2 DEF Settling
    <3> QED BY <3>4, <3>5
  <2>3. MemberPayload(g)' = MemberPayload(g)
    BY <2>1 DEF MemberPayload
  <2>4. ASSUME NEW k \in Guilds, k # g
        PROVE  sets'[k] = sets[k] /\ verdicts'[k] = verdicts[k] /\ published'[k] = published[k]
    BY <1>b, <2>1, <2>4
  <2>5. ~SetsAnswered(g)
    BY <2>1 DEF SetsAnswered
  <2> QED BY <2>1, <2>2, <2>3, <2>4, <2>5, OneGuild
<1>9. ASSUME NEW g \in Guilds, NEW ok \in BOOLEAN, HearVerdict(g, ok)
      PROVE  /\ verdicts[g] # <<>> /\ Head(verdicts[g]) = ok
             /\ \A k \in Guilds : k # g => /\ verdicts'[k] = verdicts[k]
                                           /\ pendingSet'[k] = pendingSet[k]
             /\ verdicts[g] = <<ok>> => verdicts'[g] = <<>>
             /\ UNCHANGED <<userAvatar, sets, published, upload, spoilt>>
             /\ ~SetsAnswered(g)
             /\ \A x \in BOOLEAN : verdicts[g] = <<x>> => x = ok
  <2>1. /\ verdicts[g] # <<>> /\ Head(verdicts[g]) = ok
        /\ verdicts' = [verdicts EXCEPT ![g] = Tail(@)]
        /\ pendingSet' = [pendingSet EXCEPT ![g].armed = FALSE]
        /\ UNCHANGED <<userAvatar, sets, published, upload, spoilt>>
    BY <1>9 DEF HearVerdict
  <2>2. \A x \in BOOLEAN : Tail(<<x>>) = <<>> /\ Head(<<x>>) = x
    BY OneLine
  <2> QED BY <1>b, <2>1, <2>2 DEF SetsAnswered
<1>10. ASSUME NEW g \in Guilds, HandleMetadataKeyValue(g) PROVE HonestInv' /\ ShownInv'
  <2>1. HearVerdict(g, TRUE) /\ UNCHANGED <<override, refused, rowShown, hushed>>
    BY <1>10 DEF HandleMetadataKeyValue
  <2>2. ASSUME Settling(g) PROVE Settling(g)'
    <3>1. sets[g] = <<>> /\ verdicts[g] = <<TRUE>> /\ Fits(g, override[g])
      BY <1>9, <2>1, <2>2, SettlingCases
    <3>2. SetsAnswered(g)'
      BY <1>9, <2>1, <3>1 DEF SetsAnswered
    <3>3. Fits(g, override[g])'
      BY <1>9, <2>1, <3>1 DEF Fits
    <3> QED BY <3>2, <3>3 DEF Settling
  <2>3. MemberPayload(g)' = MemberPayload(g)
    BY <1>9, <2>1 DEF MemberPayload
  <2> QED BY <1>9, <2>1, <2>2, <2>3, OneGuild
<1>11. ASSUME NEW g \in Guilds, AvatarSetRejected(g) PROVE HonestInv' /\ ShownInv'
  <2> DEFINE set == pendingSet[g]
  <2>1. /\ HearVerdict(g, FALSE)
        /\ refused' = [refused EXCEPT ![g] = @ \/ (set.armed /\ set.global)]
        /\ override' = [override EXCEPT ![g] = IF set.armed /\ ~set.global THEN set.prev ELSE @]
        /\ rowShown' = IF set.armed
             THEN [rowShown EXCEPT ![g] = MemberAvatarFor(userAvatar, override'[g], refused'[g])] ELSE rowShown
        /\ hushed' = IF set.armed THEN hushed \ {g} ELSE hushed
    BY <1>11 DEF AvatarSetRejected
  <2>2. /\ refused'[g] = (refused[g] \/ (set.armed /\ set.global))
        /\ override'[g] = IF set.armed /\ ~set.global THEN set.prev ELSE override[g]
        /\ set.armed => rowShown'[g] = MemberPayload(g)'
    BY <1>9, <1>b, <2>1 DEF MemberPayload
  <2>3. ASSUME NEW k \in Guilds, k # g
        PROVE  /\ refused'[k] = refused[k] /\ override'[k] = override[k]
               /\ rowShown'[k] = rowShown[k] /\ (k \in hushed => k \in hushed')
    BY <1>b, <2>1, <2>3
  <2>4. ~set.armed => /\ rowShown'[g] = rowShown[g] /\ hushed' = hushed
                      /\ MemberPayload(g)' = MemberPayload(g)
    BY <1>9, <1>b, <2>1, <2>2 DEF MemberPayload
  <2>5. ASSUME Settling(g) PROVE Settling(g)'
    <3>1. /\ sets[g] = <<>> /\ verdicts[g] = <<FALSE>> /\ set.armed
          /\ IF set.global THEN override[g] = Bare ELSE Fits(g, set.prev)
      BY <1>9, <2>1, <2>5, SettlingCases
    <3>2. SetsAnswered(g)'
      BY <1>9, <2>1, <3>1 DEF SetsAnswered
    <3>3. CASE set.global
      <4>1. refused'[g] /\ override'[g] = Bare
        BY <2>2, <3>1, <3>3
      <4>2. Fits(g, override[g])'
        BY <4>1 DEF Fits, MemberAvatarFor
      <4> QED BY <3>2, <4>2 DEF Settling
    <3>4. CASE ~set.global
      <4>1. (refused'[g] <=> refused[g]) /\ override'[g] = set.prev
        BY <2>2, <3>1, <3>4
      <4>2. userAvatar' = userAvatar /\ published' = published
        BY <1>9, <2>1
      <4>3. Fits(g, override[g])'
        BY <3>1, <3>4, <4>1, <4>2 DEF Fits, MemberAvatarFor
      <4> QED BY <3>2, <4>3 DEF Settling
    <3> QED BY <3>3, <3>4
  <2> HIDE DEF set
  <2> QED BY <1>9, <2>1, <2>2, <2>3, <2>4, <2>5, OneGuild
<1>12. ASSUME NEW g \in Guilds, MetadataLost(g) PROVE HonestInv' /\ ShownInv'
  <2>1. /\ ~SetsAnswered(g) /\ spoilt' = spoilt \cup {g}
        /\ sets' = [sets EXCEPT ![g] = <<>>] /\ verdicts' = [verdicts EXCEPT ![g] = <<>>]
        /\ UNCHANGED <<userAvatar, override, refused, pendingSet, published, rowShown, upload, hushed>>
    BY <1>12 DEF MetadataLost
  <2>2. MemberPayload(g)' = MemberPayload(g)
    BY <2>1 DEF MemberPayload
  <2>3. \A k \in Guilds : k # g => sets'[k] = sets[k] /\ verdicts'[k] = verdicts[k]
    BY <1>b, <2>1
  <2> QED BY <2>1, <2>2, <2>3, OneGuild
<1> QED
  BY <1>1, <1>2, <1>3, <1>4, <1>5, <1>6, <1>7, <1>8, <1>10, <1>11, <1>12 DEF AvatarNext, Hashes

\* No guild shows the user an avatar that its network's people do not see once
\* the verdicts are in, and the clients hold the row of what is shown, whatever
\* changes, refusals and link losses were interleaved (avatars.go,
\* metadata.go, avatarSetRejected).
THEOREM AvatarsStayRight == AvatarSpec => []AvatarsRight
<1>1. AvatarInit => AvatarInv
  <2> SUFFICES ASSUME AvatarInit PROVE AvatarInv
    OBVIOUS
  <2>1. Bare \in Hashes /\ <<>> \in Seq(Hashes) /\ <<>> \in Seq(BOOLEAN)
    BY EmptySeq DEF Hashes
  <2>2. /\ Unarmed \in [armed : BOOLEAN, prev : Hashes, global : BOOLEAN]
        /\ NoUpload \in [at : {"idle", "tell", "reset", "fan", "set", "row"},
                         guild : Guilds \cup {""}, hash : Hashes, prev : Hashes]
        /\ NoUpload.at = "idle"
    BY <2>1 DEF Unarmed, NoUpload
  <2>3. AvatarTypes
    BY <2>1, <2>2 DEF AvatarInit, AvatarTypes
  <2>4. \A g \in Guilds : SetsAnswered(g) /\ Fits(g, override[g]) /\ rowShown[g] = MemberPayload(g)
    BY DEF AvatarInit, SetsAnswered, Fits, MemberPayload, MemberAvatarFor
  <2> QED BY <2>2, <2>3, <2>4 DEF AvatarInit, AvatarInv, HonestInv, ShownInv, Settling
<1>2. AvatarInv => AvatarsRight
  <2> SUFFICES ASSUME AvatarInv PROVE AvatarsRight
    OBVIOUS
  <2>1. AvatarHonest
    <3> SUFFICES ASSUME upload.at = "idle", NEW g \in Guilds \ spoilt, SetsAnswered(g)
                 PROVE  MemberPayload(g) \in {Bare, published[g]}
      BY DEF AvatarHonest
    <3>1. Settling(g)
      BY DEF AvatarInv, HonestInv
    <3>2. Fits(g, override[g])
      BY <3>1, SettlingCases
    <3> QED BY <3>2 DEF Fits, MemberPayload
  <2>2. AvatarShown
    BY DEF AvatarInv, ShownInv, AvatarShown
  <2> QED BY <2>1, <2>2 DEF AvatarsRight
<1> QED BY <1>1, <1>2, NextAvatars, PTL DEF AvatarSpec

-----------------------------------------------------------------------------
(* Direct-message threads *)

DMRecord == [net : Nets \cup {ClydeNet}, nick : {Peer, Clyde}, fresh : BOOLEAN, last : Nat]

\* The types of Threads; ids are minted upwards.
ThreadTypes ==
    /\ Live \subseteq 1..lastThread /\ lastThread \in Nat /\ notes \in Nat
    /\ thread \in [Live -> DMRecord]
    /\ owner \in [DOMAIN owner -> Nat]
    /\ task \in [Nets -> [pc : {"none", "say", "migrate", "drop"}, dm : Nat, forks : SUBSET Nat]]
    /\ \A n \in Nets : task[n].forks \subseteq 1..lastThread
    /\ crossed \in BOOLEAN

KeyOf(id) == <<thread[id].net, thread[id].nick>>

\* The index is the inverse of the records' keys.
IndexInv ==
    /\ \A id \in Live : KeyOf(id) \in DOMAIN owner /\ owner[KeyOf(id)] = id
    /\ \A k \in DOMAIN owner : owner[k] \in Live /\ KeyOf(owner[k]) = k

\* A thread the client has not been told of was opened by a typing indicator.
ToldInv == (Live \subseteq shown \cup silent) /\ blind \subseteq silent

Resolving(n) == task[n].pc \in {"migrate", "drop"}

\* What a connection is about to talk into is there; what it resolves, or is to
\* drop, is Clyde's, and nobody else is at Clyde's threads meanwhile.
TaskInv ==
    \A n \in Nets :
        /\ task[n].pc = "say" => task[n].dm \in Live
        /\ Resolving(n) =>
             /\ task[n].dm = 0 \/ (task[n].dm \in Live /\ thread[task[n].dm].nick = Clyde)
             /\ task[n].dm \notin task[n].forks
             /\ \A id \in task[n].forks \cap Live : thread[id].nick = Clyde
             /\ \A m \in Nets \ {n} :
                  /\ ~Resolving(m)
                  /\ task[m].pc = "say" => thread[task[m].dm].nick = Peer
        /\ task[n].pc = "migrate" =>
             task[n].dm # 0 /\ <<ClydeNet, Clyde>> \notin DOMAIN owner

ThreadInv == ThreadTypes /\ (~crossed => IndexInv /\ ToldInv /\ TaskInv)

\* The thread that EnsureDMChannel answers with is there, under its key, and
\* young if it was opened now.
LEMMA Ensured ==
    ASSUME ThreadTypes, NEW network \in Nets \cup {ClydeNet}, NEW nick \in {Peer, Clyde},
           EnsureDMChannel(network, nick), NEW e, e = EnsuredId(network, nick)
    PROVE  /\ Live' \subseteq 1..lastThread' /\ lastThread' \in Nat /\ lastThread <= lastThread'
           /\ thread' \in [Live' -> DMRecord] /\ owner' \in [DOMAIN owner' -> Nat] /\ e \in Nat
           /\ \A i \in Live : i \in Live' /\ thread'[i] = thread[i]
           /\ Live' \subseteq Live \cup {e}
           /\ e \in Live' \ Live => thread'[e].fresh /\ lastThread < e
           /\ <<network, nick>> \notin DOMAIN owner => lastThread' = e
           /\ DOMAIN owner' = DOMAIN owner \cup {<<network, nick>>}
           /\ IndexInv => /\ IndexInv' /\ e \in Live'
                          /\ thread'[e].net = network /\ thread'[e].nick = nick
<1> DEFINE k == <<network, nick>>
<1>1. CASE k \in DOMAIN owner
  <2>1. UNCHANGED <<thread, owner, lastThread>> /\ e = owner[k]
    BY <1>1 DEF EnsureDMChannel, EnsuredId
  <2>2. e \in Nat
    BY <1>1, <2>1 DEF ThreadTypes
  <2>3. IndexInv => IndexInv' /\ e \in Live /\ KeyOf(e) = k
    BY <1>1, <2>1 DEF IndexInv, KeyOf, Live
  <2> QED BY SMTT(60), <1>1, <2>1, <2>2, <2>3 DEF ThreadTypes, Live, KeyOf
<1>2. CASE k \notin DOMAIN owner
  <2> DEFINE rec == [net |-> network, nick |-> nick, fresh |-> TRUE, last |-> 0]
  <2>1. /\ e = lastThread + 1 /\ lastThread' = e
        /\ thread' = [i \in Live \cup {e} |-> IF i = e THEN rec ELSE thread[i]]
        /\ owner' = [j \in DOMAIN owner \cup {k} |-> IF j = k THEN e ELSE owner[j]]
    BY <1>2 DEF EnsureDMChannel, EnsuredId
  <2>2. rec \in DMRecord /\ rec.net = network /\ rec.nick = nick /\ rec.fresh
    BY DEF DMRecord
  <2> HIDE DEF rec
  <2>3. lastThread \in Nat /\ Live \subseteq 1..lastThread /\ e \in Nat /\ e \notin Live
    BY <2>1 DEF ThreadTypes
  <2>4. Live' = Live \cup {e} /\ Live' \subseteq 1..lastThread'
    BY <2>1, <2>3 DEF Live
  <2>5. /\ \A i \in Live : thread'[i] = thread[i]
        /\ thread'[e] = rec
    BY <2>1, <2>3
  <2>6. /\ DOMAIN owner' = DOMAIN owner \cup {k} /\ owner'[k] = e
        /\ \A j \in DOMAIN owner : owner'[j] = owner[j]
    BY <1>2, <2>1
  <2>7. thread' \in [Live' -> DMRecord]
    BY <2>1, <2>2, <2>4 DEF ThreadTypes
  <2>8. owner' \in [DOMAIN owner' -> Nat]
    BY <2>1, <2>3, <2>6 DEF ThreadTypes
  <2>9. ASSUME IndexInv PROVE IndexInv'
    <3>1. ASSUME NEW i \in Live' PROVE KeyOf(i)' \in DOMAIN owner' /\ owner'[KeyOf(i)'] = i
      <4>1. CASE i = e
        BY <2>2, <2>5, <2>6, <4>1 DEF KeyOf
      <4>2. CASE i # e
        <5>1. i \in Live /\ KeyOf(i)' = KeyOf(i)
          BY <2>4, <2>5, <4>2 DEF KeyOf
        <5> QED BY <2>6, <2>9, <5>1 DEF IndexInv
      <4> QED BY <4>1, <4>2
    <3>2. ASSUME NEW j \in DOMAIN owner'
          PROVE  owner'[j] \in Live' /\ <<thread'[owner'[j]].net, thread'[owner'[j]].nick>> = j
      <4>1. CASE j = k
        BY <2>2, <2>4, <2>5, <2>6, <4>1
      <4>2. CASE j # k
        <5>1. j \in DOMAIN owner /\ owner'[j] = owner[j]
          BY <2>6, <4>2
        <5>2. owner[j] \in Live /\ <<thread[owner[j]].net, thread[owner[j]].nick>> = j
          BY <2>9, <5>1 DEF IndexInv, KeyOf
        <5> QED BY <2>4, <2>5, <5>1, <5>2
      <4> QED BY <4>1, <4>2
    <3> QED BY <3>1, <3>2 DEF IndexInv, KeyOf
  <2> QED BY <1>2, <2>1, <2>2, <2>3, <2>4, <2>5, <2>6, <2>7, <2>8, <2>9
<1> QED BY <1>1, <1>2

\* It is the thread of that network and nick.
LEMMA EnsuredRow ==
    ASSUME ThreadTypes, IndexInv, NEW network \in Nets \cup {ClydeNet}, NEW nick \in {Peer, Clyde},
           EnsureDMChannel(network, nick), NEW e, e = EnsuredId(network, nick)
    PROVE  thread'[e].net = network /\ thread'[e].nick = nick
<1> DEFINE k == <<network, nick>>
<1>1. CASE k \in DOMAIN owner
  <2>1. thread' = thread /\ e = owner[k]
    BY <1>1 DEF EnsureDMChannel, EnsuredId
  <2>2. KeyOf(e) = k
    BY <1>1, <2>1 DEF IndexInv
  <2> QED BY <2>1, <2>2 DEF KeyOf
<1>2. CASE k \notin DOMAIN owner
  <2> DEFINE rec == [net |-> network, nick |-> nick, fresh |-> TRUE, last |-> 0]
  <2>1. e = lastThread + 1 /\ thread' = [i \in Live \cup {e} |-> IF i = e THEN rec ELSE thread[i]]
    BY <1>2 DEF EnsureDMChannel, EnsuredId
  <2>2. thread'[e] = rec
    BY <2>1
  <2> QED BY <2>2
<1> QED BY <1>1, <1>2

\* DeleteDMChannel takes a record and its index entry, and nothing else.
LEMMA Deleted ==
    ASSUME ThreadTypes, NEW id, DeleteDMChannel(id)
    PROVE  /\ Live' = Live \ {id}
           /\ thread' \in [Live' -> DMRecord] /\ owner' \in [DOMAIN owner' -> Nat]
           /\ \A i \in Live' : thread'[i] = thread[i]
           /\ DOMAIN owner' \subseteq DOMAIN owner
           /\ IndexInv => IndexInv'
<1>1. /\ thread' = [i \in Live \ {id} |-> thread[i]]
      /\ owner' = IF id \notin Live THEN owner
                  ELSE [k \in DOMAIN owner \ {<<thread[id].net, thread[id].nick>>} |-> owner[k]]
  BY DEF DeleteDMChannel
<1>2. Live' = Live \ {id} /\ \A i \in Live' : thread'[i] = thread[i]
  BY <1>1 DEF Live
<1>3. thread' \in [Live' -> DMRecord]
  BY <1>1, <1>2 DEF ThreadTypes
<1>4. CASE id \notin Live
  <2>1. owner' = owner
    BY <1>1, <1>4
  <2>2. Live' = Live
    BY <1>2, <1>4
  <2>3. \A i \in Live : KeyOf(i)' = KeyOf(i)
    BY <1>2, <2>2 DEF KeyOf
  <2>4. IndexInv => IndexInv'
    BY <2>1, <2>2, <2>3, <1>2 DEF IndexInv, KeyOf
  <2> QED BY <1>2, <1>3, <2>1, <2>4 DEF ThreadTypes
<1>5. CASE id \in Live
  <2>1. owner' = [k \in DOMAIN owner \ {KeyOf(id)} |-> owner[k]]
    BY <1>1, <1>5 DEF KeyOf
  <2>2. DOMAIN owner' = DOMAIN owner \ {KeyOf(id)} /\ \A k \in DOMAIN owner' : owner'[k] = owner[k]
    BY <2>1
  <2>3. owner' \in [DOMAIN owner' -> Nat]
    BY <2>1, <2>2 DEF ThreadTypes
  <2>4. ASSUME IndexInv PROVE IndexInv'
    <3>1. ASSUME NEW i \in Live' PROVE KeyOf(i)' \in DOMAIN owner' /\ owner'[KeyOf(i)'] = i
      <4>1. i \in Live /\ i # id /\ KeyOf(i)' = KeyOf(i)
        BY <1>2 DEF KeyOf
      <4>2. KeyOf(i) # KeyOf(id)
        BY <1>5, <2>4, <4>1 DEF IndexInv
      <4> QED BY <2>2, <2>4, <4>1, <4>2 DEF IndexInv
    <3>2. ASSUME NEW j \in DOMAIN owner'
          PROVE  owner'[j] \in Live' /\ <<thread'[owner'[j]].net, thread'[owner'[j]].nick>> = j
      <4>1. owner'[j] = owner[j] /\ j # KeyOf(id) /\ owner[j] \in Live /\ KeyOf(owner[j]) = j
        BY <2>2, <2>4 DEF IndexInv
      <4>2. owner[j] # id
        BY <4>1
      <4> QED BY <1>2, <4>1, <4>2 DEF KeyOf
    <3> QED BY <3>1, <3>2 DEF IndexInv, KeyOf
  <2> QED BY <1>2, <1>3, <2>2, <2>3, <2>4
<1> QED BY <1>4, <1>5

\* SetDMNetwork moves a thread to a key that nothing else has.
LEMMA Moved ==
    ASSUME ThreadTypes, NEW id \in Live, NEW network \in Nets \cup {ClydeNet}, SetDMNetwork(id, network)
    PROVE  /\ Live' = Live /\ thread' \in [Live -> DMRecord] /\ owner' \in [DOMAIN owner' -> Nat]
           /\ \A i \in Live : thread'[i].nick = thread[i].nick
           /\ IndexInv /\ <<network, thread[id].nick>> \notin DOMAIN owner => IndexInv'
<1> DEFINE old == KeyOf(id)
           new == <<network, thread[id].nick>>
           dom == (DOMAIN owner \ {old}) \cup {new}
<1>1. /\ thread' = [thread EXCEPT ![id].net = network]
      /\ owner' = [k \in dom |-> IF k = new THEN id ELSE owner[k]]
  BY DEF SetDMNetwork, KeyOf
<1>2. \A i \in Live : thread[i] \in DMRecord
  BY DEF ThreadTypes
<1>3. /\ Live' = Live /\ thread' \in [Live -> DMRecord]
      /\ \A i \in Live : thread'[i].nick = thread[i].nick
      /\ \A i \in Live : thread'[i].net = IF i = id THEN network ELSE thread[i].net
  BY <1>1, <1>2 DEF ThreadTypes, Live, DMRecord
<1>4. id \in Nat
  BY DEF ThreadTypes
<1>5. DOMAIN owner' = dom /\ \A k \in dom : owner'[k] = IF k = new THEN id ELSE owner[k]
  BY <1>1
<1>6. owner' \in [DOMAIN owner' -> Nat]
  BY <1>1, <1>4, <1>5 DEF ThreadTypes
<1>7. ASSUME IndexInv, new \notin DOMAIN owner PROVE IndexInv'
  <2>1. \A i \in Live : KeyOf(i)' = IF i = id THEN new ELSE KeyOf(i)
    BY <1>3 DEF KeyOf
  <2>2. ASSUME NEW i \in Live' PROVE KeyOf(i)' \in DOMAIN owner' /\ owner'[KeyOf(i)'] = i
    <3>1. CASE i = id
      BY <1>3, <1>5, <2>1, <3>1
    <3>2. CASE i # id
      <4>1. KeyOf(i)' = KeyOf(i) /\ KeyOf(i) \in DOMAIN owner /\ owner[KeyOf(i)] = i
        BY <1>3, <1>7, <2>1, <3>2 DEF IndexInv
      <4>2. KeyOf(i) # old /\ KeyOf(i) # new
        BY <1>7, <3>2, <4>1 DEF IndexInv
      <4> QED BY <1>5, <4>1, <4>2
    <3> QED BY <3>1, <3>2
  <2>3. ASSUME NEW j \in DOMAIN owner'
        PROVE  owner'[j] \in Live' /\ <<thread'[owner'[j]].net, thread'[owner'[j]].nick>> = j
    <3>1. CASE j = new
      BY <1>3, <1>5, <3>1
    <3>2. CASE j # new
      <4>1. /\ j \in DOMAIN owner /\ j # old /\ owner'[j] = owner[j]
            /\ owner[j] \in Live /\ KeyOf(owner[j]) = j
        BY <1>5, <1>7, <3>2 DEF IndexInv
      <4>2. owner[j] # id
        BY <4>1
      <4> QED BY <1>3, <4>1, <4>2 DEF KeyOf
    <3> QED BY <3>1, <3>2
  <2> QED BY <2>2, <2>3 DEF IndexInv, KeyOf
<1> QED BY <1>3, <1>6, <1>7

\* Age and activity are no part of a thread's key.
LEMMA SameKeys ==
    ASSUME ThreadTypes, NEW id, NEW rec,
           id \in Live => /\ rec \in DMRecord
                          /\ rec.net = thread[id].net /\ rec.nick = thread[id].nick,
           thread' = IF id \in Live THEN [thread EXCEPT ![id] = rec] ELSE thread,
           owner' = owner
    PROVE  /\ Live' = Live /\ thread' \in [Live -> DMRecord]
           /\ \A i \in Live : thread'[i].nick = thread[i].nick
           /\ IndexInv => IndexInv'
<1>1. /\ Live' = Live /\ thread' \in [Live -> DMRecord]
      /\ \A i \in Live : thread'[i].nick = thread[i].nick /\ thread'[i].net = thread[i].net
  BY DEF ThreadTypes, Live
<1>2. \A i \in Live : <<thread'[i].net, thread'[i].nick>> = <<thread[i].net, thread[i].nick>>
  BY <1>1
<1>3. IndexInv => IndexInv'
  BY <1>1, <1>2 DEF IndexInv, KeyOf
<1> QED BY <1>1, <1>3

\* TouchDMChannel stamps a record and moves no key of the index.
LEMMA Touched ==
    ASSUME ThreadTypes, NEW id, TouchDMChannel(id), owner' = owner
    PROVE  /\ Live' = Live /\ thread' \in [Live -> DMRecord]
           /\ \A i \in Live : thread'[i].nick = thread[i].nick
           /\ IndexInv => IndexInv'
<1> DEFINE rec == [thread[id] EXCEPT !.last = MaxThread + notes]
<1>1. MaxThread + notes \in Nat
  BY ThreadAssumption DEF ThreadTypes
<1>2. id \in Live => thread[id] \in DMRecord
  BY DEF ThreadTypes
<1>3. id \in Live => /\ rec \in DMRecord
                     /\ rec.net = thread[id].net /\ rec.nick = thread[id].nick
  BY <1>1, <1>2 DEF DMRecord
<1>4. thread' = IF id \in Live THEN [thread EXCEPT ![id] = rec] ELSE thread
  BY DEF TouchDMChannel
<1> HIDE DEF rec
<1> QED BY <1>3, <1>4, SameKeys

\* Tasks stand while threads keep their nicks, new ones are newer than all,
\* and no thread of Clyde's is opened where one is about to be moved.
LEMMA TasksStand ==
    ASSUME ThreadTypes, TaskInv, NEW n \in Nets, NEW tsk,
           task' = [task EXCEPT ![n] = tsk],
           \A i \in Live : i \in Live' /\ thread'[i].nick = thread[i].nick,
           \A i \in Live' : i \notin Live => lastThread < i,
           \A m \in Nets \ {n} : task[m].pc = "migrate" => <<ClydeNet, Clyde>> \notin DOMAIN owner',
           tsk = task[n] => (tsk.pc = "migrate" => <<ClydeNet, Clyde>> \notin DOMAIN owner'),
           tsk # task[n] => /\ tsk.pc \in {"none", "say"}
                            /\ tsk.pc = "say" => /\ tsk.dm \in Live'
                                                 /\ \/ thread'[tsk.dm].nick = Peer
                                                    \/ \A m \in Nets \ {n} : ~Resolving(m)
    PROVE  TaskInv'
<1>1. \A m \in Nets : task'[m] = IF m = n THEN tsk ELSE task[m]
  BY DEF ThreadTypes
<1>2. \A m \in Nets : \A i \in task[m].forks : i \in Nat /\ i <= lastThread
  BY DEF ThreadTypes
<1>3. \A m \in Nets : task[m].forks \cap Live' \subseteq Live
  BY <1>2 DEF ThreadTypes
<1>4. ASSUME NEW m \in Nets, task'[m] = task[m]
      PROVE  /\ task'[m].pc = "say" => task'[m].dm \in Live'
             /\ task'[m].pc \in {"migrate", "drop"} =>
                  /\ task'[m].dm = 0 \/ (task'[m].dm \in Live' /\ thread'[task'[m].dm].nick = Clyde)
                  /\ task'[m].dm \notin task'[m].forks
                  /\ \A id \in task'[m].forks \cap Live' : thread'[id].nick = Clyde
             /\ task'[m].pc = "migrate" =>
                  task'[m].dm # 0 /\ <<ClydeNet, Clyde>> \notin DOMAIN owner'
  <2>1. /\ task[m].pc = "say" => task[m].dm \in Live
        /\ Resolving(m) =>
             /\ task[m].dm = 0 \/ (task[m].dm \in Live /\ thread[task[m].dm].nick = Clyde)
             /\ task[m].dm \notin task[m].forks
             /\ \A id \in task[m].forks \cap Live : thread[id].nick = Clyde
        /\ task[m].pc = "migrate" => task[m].dm # 0
    BY DEF TaskInv
  <2>2. task[m].pc = "migrate" => <<ClydeNet, Clyde>> \notin DOMAIN owner'
    BY <1>1, <1>4
  <2>3. \A id \in task[m].forks \cap Live' : id \in task[m].forks \cap Live /\ thread'[id].nick = thread[id].nick
    BY <1>3
  <2> QED BY <1>4, <2>1, <2>2, <2>3 DEF Resolving
<1>5. ASSUME NEW m \in Nets, task'[m] # task[m]
      PROVE  m = n /\ task'[m] = tsk /\ tsk # task[n]
  BY <1>1, <1>5
<1>6. ASSUME NEW m \in Nets, NEW k \in Nets \ {m}, task'[m].pc \in {"migrate", "drop"}
      PROVE  /\ task'[k].pc \notin {"migrate", "drop"}
             /\ task'[k].pc = "say" => thread'[task'[k].dm].nick = Peer
  <2>1. task'[m] = task[m] /\ Resolving(m)
    BY <1>5, <1>6 DEF Resolving
  <2>2. /\ ~Resolving(k)
        /\ task[k].pc = "say" => task[k].dm \in Live /\ thread[task[k].dm].nick = Peer
    BY <2>1 DEF TaskInv
  <2>3. CASE task'[k] = task[k]
    BY <2>2, <2>3 DEF Resolving
  <2>4. CASE task'[k] # task[k]
    <3>1. k = n /\ task'[k] = tsk /\ tsk # task[n]
      BY <1>5, <2>4
    <3> QED BY <2>1, <3>1
  <2> QED BY <2>3, <2>4
<1>7. ASSUME NEW m \in Nets, task'[m] # task[m]
      PROVE  /\ task'[m].pc \notin {"migrate", "drop"}
             /\ task'[m].pc = "say" => task'[m].dm \in Live'
  BY <1>5, <1>7
<1> QED
  <2> SUFFICES ASSUME NEW m \in Nets
               PROVE  /\ task'[m].pc = "say" => task'[m].dm \in Live'
                      /\ task'[m].pc \in {"migrate", "drop"} =>
                           /\ task'[m].dm = 0 \/ (task'[m].dm \in Live' /\ thread'[task'[m].dm].nick = Clyde)
                           /\ task'[m].dm \notin task'[m].forks
                           /\ \A id \in task'[m].forks \cap Live' : thread'[id].nick = Clyde
                           /\ \A k \in Nets \ {m} :
                                /\ task'[k].pc \notin {"migrate", "drop"}
                                /\ task'[k].pc = "say" => thread'[task'[k].dm].nick = Peer
                      /\ task'[m].pc = "migrate" =>
                           task'[m].dm # 0 /\ <<ClydeNet, Clyde>> \notin DOMAIN owner'
    BY DEF TaskInv, Resolving
  <2>1. CASE task'[m] = task[m]
    BY <1>4, <1>6, <2>1
  <2>2. CASE task'[m] # task[m]
    BY <1>7, <2>2
  <2> QED BY <2>1, <2>2

\* A resolving task goes on: its own thread and forks stay Clyde's and apart,
\* and the threads the other connections are about to talk into stay the
\* peers'.
LEMMA TaskGoesOn ==
    ASSUME ThreadTypes, TaskInv, NEW n \in Nets, NEW tsk, task' = [task EXCEPT ![n] = tsk],
           \A m \in Nets \ {n} : ~Resolving(m), tsk.pc = "drop",
           \A m \in Nets \ {n} : task[m].pc = "say" =>
               task[m].dm \in Live' /\ thread'[task[m].dm].nick = Peer,
           tsk.dm = 0 \/ (tsk.dm \in Live' /\ thread'[tsk.dm].nick = Clyde),
           tsk.dm \notin tsk.forks, \A i \in tsk.forks \cap Live' : thread'[i].nick = Clyde
    PROVE  TaskInv'
<1>1. \A m \in Nets : task'[m] = IF m = n THEN tsk ELSE task[m]
  BY DEF ThreadTypes
<1>2. \A m \in Nets \ {n} : task'[m] = task[m] /\ task'[m].pc \notin {"migrate", "drop"}
  BY <1>1 DEF Resolving
<1>3. task'[n] = tsk
  BY <1>1
<1> QED
  <2> SUFFICES ASSUME NEW m \in Nets
               PROVE  /\ task'[m].pc = "say" => task'[m].dm \in Live'
                      /\ task'[m].pc \in {"migrate", "drop"} =>
                           /\ task'[m].dm = 0 \/ (task'[m].dm \in Live' /\ thread'[task'[m].dm].nick = Clyde)
                           /\ task'[m].dm \notin task'[m].forks
                           /\ \A id \in task'[m].forks \cap Live' : thread'[id].nick = Clyde
                           /\ \A k \in Nets \ {m} :
                                /\ task'[k].pc \notin {"migrate", "drop"}
                                /\ task'[k].pc = "say" => thread'[task'[k].dm].nick = Peer
                      /\ task'[m].pc = "migrate" =>
                           task'[m].dm # 0 /\ <<ClydeNet, Clyde>> \notin DOMAIN owner'
    BY DEF TaskInv, Resolving
  <2>1. CASE m = n
    BY <1>2, <1>3, <2>1
  <2>2. CASE m # n
    BY <1>2, <2>2
  <2> QED BY <2>1, <2>2

\* Every step of the threads keeps it.
LEMMA NextThreads == ThreadInv /\ [ThreadNext]_threadVars => ThreadInv'
<1> SUFFICES ASSUME ThreadInv, [ThreadNext]_threadVars PROVE ThreadInv'
  OBVIOUS
<1>a. ThreadTypes
  BY DEF ThreadInv
<1>b. ~crossed => IndexInv /\ ToldInv /\ TaskInv
  BY DEF ThreadInv
<1>c. \A n \in Nets : /\ task[n].dm \in Nat /\ task[n].forks \subseteq 1..lastThread
                      /\ task[n] \in [pc : {"none", "say", "migrate", "drop"}, dm : Nat, forks : SUBSET Nat]
  BY <1>a DEF ThreadTypes
<1>d. /\ NoTask.pc = "none" /\ NoTask.forks = {}
      /\ NoTask \in [pc : {"none", "say", "migrate", "drop"}, dm : Nat, forks : SUBSET Nat]
  BY DEF NoTask
<1>e. \A n \in Nets : ~Busy(n) => task[n] = NoTask /\ ~Resolving(n) /\ task[n].pc # "say"
  BY <1>d DEF Busy, Resolving
<1>f. \A n \in Nets : Resolving(n) \/ task[n].pc = "say" => Busy(n)
  BY <1>e
<1>g. crossed \in BOOLEAN /\ lastThread \in Nat /\ notes \in Nat /\ Live \subseteq 1..lastThread
      /\ thread \in [Live -> DMRecord] /\ owner \in [DOMAIN owner -> Nat]
      /\ task \in [Nets -> [pc : {"none", "say", "migrate", "drop"}, dm : Nat, forks : SUBSET Nat]]
  BY <1>a DEF ThreadTypes
<1>h. ASSUME NEW nick, Crosses(nick)
      PROVE  /\ crossed' \in BOOLEAN /\ (~crossed' => ~crossed)
             /\ ~crossed' /\ nick = Clyde => \A m \in Nets : ~Busy(m)
  BY <1>g, <1>h DEF Crosses
<1>i. Note => notes' \in Nat
  BY <1>g DEF Note
<1>1. CASE Ready
  <2>1. shown' = Listed /\ notes' \in Nat
        /\ UNCHANGED <<thread, owner, task, lastThread, silent, blind, crossed>>
    BY <1>1, <1>i DEF Ready
  <2>2. ThreadTypes'
    BY <1>a, <2>1 DEF ThreadTypes, Live
  <2>3. IndexInv => Live \subseteq Listed
    <3>1. ASSUME IndexInv, NEW id \in Live PROVE id \in Listed
      BY <3>1 DEF IndexInv, Listed
    <3> QED BY <3>1
  <2> QED BY <1>b, <2>1, <2>2, <2>3 DEF ThreadInv, IndexInv, KeyOf, Live, ToldInv, TaskInv, Resolving
<1>2. ASSUME NEW n \in Nets, SayQuery(n) PROVE ThreadInv'
  <2> DEFINE id == task[n].dm
  <2>1. /\ task[n].pc = "say" /\ blind' = IF id \in shown THEN blind ELSE blind \cup {id}
        /\ TouchDMChannel(id) /\ task' = [task EXCEPT ![n] = NoTask]
        /\ UNCHANGED <<owner, shown, lastThread, notes, silent, crossed>>
    BY <1>2 DEF SayQuery
  <2>2. /\ Live' = Live /\ thread' \in [Live -> DMRecord]
        /\ \A i \in Live : thread'[i].nick = thread[i].nick
        /\ IndexInv => IndexInv'
    BY <1>a, <2>1, Touched
  <2>3. ThreadTypes'
    BY <1>a, <1>d, <2>1, <2>2 DEF ThreadTypes
  <2>4. ASSUME ~crossed PROVE IndexInv' /\ ToldInv'
    BY <1>b, <2>1, <2>2, <2>4 DEF ToldInv, TaskInv
  <2>5. ASSUME ~crossed PROVE TaskInv'
    <3>1. NoTask # task[n] /\ NoTask.pc \in {"none", "say"} /\ NoTask.pc # "say"
      BY <1>d, <2>1
    <3>2. \A m \in Nets \ {n} : task[m].pc = "migrate" => <<ClydeNet, Clyde>> \notin DOMAIN owner'
      BY <1>b, <2>1, <2>5 DEF TaskInv
    <3>3. \A i \in Live' : i \notin Live => lastThread < i
      BY <2>2
    <3> QED BY <1>a, <1>b, <2>1, <2>2, <2>5, <3>1, <3>2, <3>3, TasksStand
  <2> QED BY <2>1, <2>3, <2>4, <2>5 DEF ThreadInv
<1>3. ASSUME NEW nw \in Nets \cup {ClydeNet}, NEW nick \in {Peer, Clyde}, NEW e, e = EnsuredId(nw, nick),
             EnsureDMChannel(nw, nick),
             NEW n \in Nets, NEW tsk, task' = [task EXCEPT ![n] = tsk],
             tsk \in [pc : {"none", "say", "migrate", "drop"}, dm : Nat, forks : SUBSET Nat],
             tsk.forks \subseteq 1..lastThread,
             tsk # task[n] => tsk.pc = "say" /\ tsk.dm = e,
             ~crossed' => ~crossed, crossed' \in BOOLEAN, notes' \in Nat,
             ~crossed' /\ nick = Clyde => \A m \in Nets \ {n} : ~Resolving(m),
             ~crossed' /\ nick = Clyde => tsk.pc # "migrate",
             shown \subseteq shown', silent \subseteq silent', blind' = blind,
             e \in Live' => \/ e \in shown' \cup silent'
                            \/ ~thread'[e].fresh /\ e \in Live
      PROVE  ThreadInv'
  <2>1. /\ Live' \subseteq 1..lastThread' /\ lastThread' \in Nat /\ lastThread <= lastThread'
        /\ thread' \in [Live' -> DMRecord] /\ owner' \in [DOMAIN owner' -> Nat] /\ e \in Nat
        /\ \A i \in Live : i \in Live' /\ thread'[i] = thread[i]
        /\ Live' \subseteq Live \cup {e}
        /\ e \in Live' \ Live => thread'[e].fresh /\ lastThread < e
        /\ DOMAIN owner' = DOMAIN owner \cup {<<nw, nick>>}
        /\ IndexInv => /\ IndexInv' /\ e \in Live'
                       /\ thread'[e].net = nw /\ thread'[e].nick = nick
    <3>1. /\ nw \in Nets \cup {ClydeNet} /\ nick \in {Peer, Clyde}
          /\ EnsureDMChannel(nw, nick) /\ e = EnsuredId(nw, nick)
      BY <1>3
    <3>2. /\ Live' \subseteq 1..lastThread' /\ lastThread' \in Nat /\ lastThread <= lastThread'
          /\ thread' \in [Live' -> DMRecord] /\ owner' \in [DOMAIN owner' -> Nat] /\ e \in Nat
      BY <1>a, <3>1, Ensured
    <3>3. ASSUME NEW i \in Live PROVE i \in Live' /\ thread'[i] = thread[i]
      BY <1>a, <3>1, Ensured
    <3>6. ASSUME NEW i \in Live', i \notin Live PROVE i = e
      BY <1>a, <3>1, <3>6, Ensured
    <3>4. /\ e \in Live' \ Live => thread'[e].fresh /\ lastThread < e
          /\ DOMAIN owner' = DOMAIN owner \cup {<<nw, nick>>}
      BY ZenonT(60), <1>a, <3>1, Ensured
    <3>5. ASSUME IndexInv PROVE IndexInv' /\ e \in Live' /\ thread'[e].net = nw /\ thread'[e].nick = nick
      <4>1. IndexInv' /\ e \in Live'
        BY <1>a, <3>1, <3>5, Ensured
      <4>2. thread'[e].net = nw /\ thread'[e].nick = nick
        BY <1>a, <3>1, <3>5, EnsuredRow
      <4> QED BY <4>1, <4>2
    <3> QED BY <3>2, <3>3, <3>4, <3>5, <3>6
  <2>2. \A m \in Nets : task'[m] = IF m = n THEN tsk ELSE task[m]
    BY <1>3, <1>g
  <2>3. 1..lastThread \subseteq 1..lastThread'
    BY <1>g, <2>1
  <2>4. ThreadTypes'
    BY <1>3, <1>c, <1>g, <2>1, <2>2, <2>3 DEF ThreadTypes
  <2>5. ASSUME ~crossed' PROVE IndexInv' /\ ToldInv'
    BY <1>3, <1>b, <2>1, <2>5 DEF ToldInv
  <2>6. ASSUME ~crossed' PROVE TaskInv'
    <3>1. IndexInv /\ TaskInv
      BY <1>3, <1>b, <2>6
    <3>2. <<nw, nick>> = <<ClydeNet, Clyde>> => nick = Clyde
      OBVIOUS
    <3>3. \A m \in Nets \ {n} : task[m].pc = "migrate" => <<ClydeNet, Clyde>> \notin DOMAIN owner'
      BY <1>3, <2>1, <2>6, <3>1, <3>2 DEF TaskInv, Resolving
    <3>4. tsk = task[n] => (tsk.pc = "migrate" => <<ClydeNet, Clyde>> \notin DOMAIN owner')
      BY <1>3, <2>1, <2>6, <3>1, <3>2 DEF TaskInv
    <3>5. tsk # task[n] => /\ tsk.pc \in {"none", "say"}
                           /\ tsk.pc = "say" => /\ tsk.dm \in Live'
                                                /\ \/ thread'[tsk.dm].nick = Peer
                                                   \/ \A m \in Nets \ {n} : ~Resolving(m)
      BY <1>3, <2>1, <2>6, <3>1
    <3>6. \A i \in Live' : i \notin Live => lastThread < i
      BY <2>1
    <3> QED BY <1>3, <1>a, <2>1, <3>1, <3>3, <3>4, <3>5, <3>6, TasksStand
  <2> QED BY <2>4, <2>5, <2>6 DEF ThreadInv
<1>4. ASSUME NEW n \in Nets, NEW nick \in {Peer, Clyde}, DispatchQuery(n, nick) PROVE ThreadInv'
  <2>1. PICK e : e = EnsuredId(n, nick)
    OBVIOUS
  <2> DEFINE tsk == [NoTask EXCEPT !.pc = "say", !.dm = e]
  <2>2. /\ ~Busy(n) /\ Note /\ EnsureDMChannel(n, nick)
        /\ shown' = IF thread'[e].fresh THEN shown \cup {e} ELSE shown
        /\ task' = [task EXCEPT ![n] = tsk] /\ Crosses(nick) /\ UNCHANGED <<silent, blind>>
    BY <1>4, <2>1 DEF DispatchQuery
  <2>3. e \in Nat /\ (e \in Live' \ Live => thread'[e].fresh)
    BY ZenonT(60), <1>a, <2>1, <2>2, Ensured
  <2>4. /\ tsk \in [pc : {"none", "say", "migrate", "drop"}, dm : Nat, forks : SUBSET Nat]
        /\ tsk.pc = "say" /\ tsk.dm = e /\ tsk.forks = {}
    BY <2>3 DEF NoTask
  <2> HIDE DEF tsk
  <2>5. /\ crossed' \in BOOLEAN /\ (~crossed' => ~crossed) /\ notes' \in Nat
        /\ ~crossed' /\ nick = Clyde => \A m \in Nets \ {n} : ~Resolving(m)
    BY <1>e, <1>h, <1>i, <2>2
  <2>6. e \in Live' => \/ e \in shown' \cup silent'
                       \/ ~thread'[e].fresh /\ e \in Live
    BY <2>2, <2>3
  <2>7. shown \subseteq shown' /\ silent \subseteq silent' /\ blind' = blind /\ tsk.pc # "migrate"
    BY <2>2, <2>4
  <2> QED BY <1>3, <2>1, <2>2, <2>4, <2>5, <2>6, <2>7
<1>5. ASSUME NEW n \in Nets, NEW nick \in {Peer, Clyde}, DispatchTyping(n, nick) PROVE ThreadInv'
  <2>1. PICK e : e = EnsuredId(n, nick)
    OBVIOUS
  <2>2. /\ ~Busy(n) /\ Note /\ EnsureDMChannel(n, nick)
        /\ silent' = IF <<n, nick>> \in DOMAIN owner THEN silent ELSE silent \cup {lastThread'}
        /\ Crosses(nick) /\ UNCHANGED <<shown, task, blind>>
    BY <1>5 DEF DispatchTyping
  <2>3. /\ <<n, nick>> \notin DOMAIN owner => lastThread' = e
        /\ Live' \subseteq Live \cup {e}
    BY ZenonT(60), <1>a, <2>1, <2>2, Ensured
  <2>4. task' = [task EXCEPT ![n] = task[n]]
    BY <1>g, <2>2
  <2>5. /\ crossed' \in BOOLEAN /\ (~crossed' => ~crossed) /\ notes' \in Nat
        /\ ~crossed' /\ nick = Clyde => \A m \in Nets \ {n} : ~Resolving(m)
        /\ task[n].pc # "migrate"
    BY <1>d, <1>e, <1>h, <1>i, <2>2
  <2>6. ASSUME <<n, nick>> \in DOMAIN owner, ~crossed' PROVE ThreadInv'
    <3>1. UNCHANGED <<thread, owner, lastThread, silent, shown, task, blind>>
      BY <2>2, <2>6 DEF EnsureDMChannel
    <3> QED BY <1>a, <1>b, <2>5, <3>1 DEF ThreadInv, ThreadTypes, IndexInv, KeyOf, Live, ToldInv, TaskInv, Resolving
  <2>7. ASSUME <<n, nick>> \in DOMAIN owner, crossed' PROVE ThreadInv'
    <3>1. UNCHANGED <<thread, owner, lastThread, silent, shown, task, blind>>
      BY <2>2, <2>7 DEF EnsureDMChannel
    <3> QED BY <1>a, <2>5, <2>7, <3>1 DEF ThreadInv, ThreadTypes, Live
  <2>8. ASSUME <<n, nick>> \notin DOMAIN owner PROVE ThreadInv'
    <3>1. shown \subseteq shown' /\ silent \subseteq silent' /\ blind' = blind /\ e \in silent'
      BY <2>2, <2>3, <2>8
    <3>2. PICK tsk : tsk = task[n]
      OBVIOUS
    <3>3. /\ task' = [task EXCEPT ![n] = tsk] /\ tsk.forks \subseteq 1..lastThread /\ tsk.pc # "migrate"
          /\ tsk \in [pc : {"none", "say", "migrate", "drop"}, dm : Nat, forks : SUBSET Nat]
      BY <1>c, <2>4, <2>5, <3>2
    <3>4. n \in Nets \cup {ClydeNet} /\ EnsureDMChannel(n, nick)
      BY <2>2
    <3> QED BY <1>3, <2>1, <2>5, <3>1, <3>2, <3>3, <3>4
  <2> QED BY <2>6, <2>7, <2>8
<1>6. ASSUME NEW n \in Nets, NEW nick \in {Peer, Clyde}, CreateDMChannel(n, nick) PROVE ThreadInv'
  <2>1. PICK nw \in Nets \cup {ClydeNet} : nw = IF nick = Clyde THEN ClydeNet ELSE n
    OBVIOUS
  <2>2. PICK e : e = EnsuredId(nw, nick)
    OBVIOUS
  <2>3. /\ Note /\ EnsureDMChannel(nw, nick) /\ shown' = shown \cup {e}
        /\ Crosses(nick) /\ UNCHANGED <<task, silent, blind>>
    BY <1>6, <2>1, <2>2 DEF CreateDMChannel
  <2>4. task' = [task EXCEPT ![n] = task[n]]
    BY <1>g, <2>3
  <2>5. /\ crossed' \in BOOLEAN /\ (~crossed' => ~crossed) /\ notes' \in Nat
        /\ ~crossed' /\ nick = Clyde => \A m \in Nets \ {n} : ~Resolving(m)
        /\ ~crossed' /\ nick = Clyde => task[n].pc # "migrate"
    BY <1>d, <1>e, <1>h, <1>i, <2>3
  <2>6. shown \subseteq shown' /\ silent \subseteq silent' /\ blind' = blind /\ e \in shown'
    BY <2>3
  <2>7. PICK tsk : tsk = task[n]
    OBVIOUS
  <2>8. /\ task' = [task EXCEPT ![n] = tsk] /\ tsk.forks \subseteq 1..lastThread
        /\ tsk \in [pc : {"none", "say", "migrate", "drop"}, dm : Nat, forks : SUBSET Nat]
        /\ ~crossed' /\ nick = Clyde => tsk.pc # "migrate"
    BY <1>c, <2>4, <2>5, <2>7
  <2>9. EnsureDMChannel(nw, nick)
    BY <2>3
  <2> QED BY <1>3, <2>2, <2>5, <2>6, <2>7, <2>8, <2>9
<1>7. ASSUME NEW id \in Live, NEW rec \in DMRecord, rec.net = thread[id].net, rec.nick = thread[id].nick,
             thread' = [thread EXCEPT ![id] = rec], notes' \in Nat,
             UNCHANGED <<owner, shown, task, lastThread, silent, blind, crossed>>
      PROVE  ThreadInv'
  <2>1. /\ Live' = Live /\ thread' \in [Live -> DMRecord]
        /\ \A i \in Live : thread'[i].nick = thread[i].nick
        /\ IndexInv => IndexInv'
    BY <1>7, <1>a, SameKeys
  <2>2. ThreadTypes'
    BY <1>7, <1>a, <2>1 DEF ThreadTypes
  <2>3. ASSUME ~crossed PROVE IndexInv' /\ ToldInv' /\ TaskInv'
    BY <1>7, <1>b, <2>1, <2>3 DEF ToldInv, TaskInv, Resolving
  <2> QED BY <1>7, <2>2, <2>3 DEF ThreadInv
<1>8. ASSUME NEW id \in Live, Ages(id) PROVE ThreadInv'
  <2> DEFINE rec == [thread[id] EXCEPT !.fresh = FALSE]
  <2>1. /\ thread' = [thread EXCEPT ![id] = rec]
        /\ UNCHANGED <<owner, shown, task, lastThread, notes, silent, blind, crossed>>
    BY <1>8 DEF Ages
  <2>2. rec \in DMRecord /\ rec.net = thread[id].net /\ rec.nick = thread[id].nick
    BY <1>g DEF DMRecord
  <2> HIDE DEF rec
  <2> QED BY <1>7, <1>g, <2>1, <2>2
<1>9. ASSUME NEW id \in Live, ClydeCommand(id) PROVE ThreadInv'
  <2> DEFINE rec == [thread[id] EXCEPT !.last = MaxThread + notes]
  <2>1. /\ thread' = [thread EXCEPT ![id] = rec] /\ notes' \in Nat
        /\ UNCHANGED <<owner, shown, task, lastThread, silent, blind, crossed>>
    BY <1>9, <1>i DEF ClydeCommand, TouchDMChannel
  <2>2. MaxThread + notes \in Nat
    BY <1>g, ThreadAssumption
  <2>3. rec \in DMRecord /\ rec.net = thread[id].net /\ rec.nick = thread[id].nick
    BY <1>g, <2>2 DEF DMRecord
  <2>4. owner' = owner
    BY <1>9 DEF ClydeCommand
  <2> HIDE DEF rec
  <2> QED BY <1>7, <2>1, <2>3, <2>4
<1>10. ASSUME NEW id \in Live, CloseDM(id) PROVE ThreadInv'
  <2>1. /\ notes' \in Nat /\ DeleteDMChannel(id) /\ shown' = shown \ {id}
        /\ crossed' = (crossed \/ \E n \in Nets : Busy(n))
        /\ UNCHANGED <<task, lastThread, silent, blind>>
    BY <1>10, <1>i DEF CloseDM
  <2>2. /\ Live' = Live \ {id}
        /\ thread' \in [Live' -> DMRecord] /\ owner' \in [DOMAIN owner' -> Nat]
        /\ \A i \in Live' : thread'[i] = thread[i]
        /\ IndexInv => IndexInv'
    BY <1>a, <2>1, Deleted
  <2>3. crossed' \in BOOLEAN /\ (~crossed' => ~crossed /\ \A n \in Nets : ~Busy(n))
    BY <1>g, <2>1
  <2>4. ThreadTypes'
    BY <1>a, <2>1, <2>2, <2>3 DEF ThreadTypes
  <2>5. ASSUME ~crossed' PROVE IndexInv' /\ ToldInv'
    BY <1>b, <2>1, <2>2, <2>3, <2>5 DEF ToldInv
  <2>6. ASSUME ~crossed' PROVE TaskInv'
    <3>1. \A n \in Nets : task'[n].pc = "none"
      BY <1>d, <1>e, <2>1, <2>3, <2>6
    <3> QED BY <3>1 DEF TaskInv, Resolving
  <2> QED BY <2>4, <2>5, <2>6 DEF ThreadInv

<1>11. ASSUME NEW n \in Nets, ClydeList(n) PROVE ThreadInv'
  <2> DEFINE forks == {i \in Listed : thread[i].nick = Clyde /\ thread[i].net # ClydeNet}
             canon == {i \in Listed : thread[i].nick = Clyde /\ thread[i].net = ClydeNet}
             active == {i \in forks : \A j \in forks : thread[i].last >= thread[j].last}
             pc == IF canon = {} /\ forks # {} THEN "migrate" ELSE "drop"
  <2>1. /\ Note /\ Crosses(Clyde)
        /\ UNCHANGED <<thread, owner, shown, lastThread, silent, blind>>
        /\ \E dm \in IF canon # {} THEN canon ELSE IF forks # {} THEN active ELSE {0} :
             task' = [task EXCEPT ![n] = [pc |-> pc, dm |-> dm, forks |-> forks \ {dm}]]
    BY <1>11 DEF ClydeList
  <2>2. PICK dm \in IF canon # {} THEN canon ELSE IF forks # {} THEN active ELSE {0} :
             task' = [task EXCEPT ![n] = [pc |-> pc, dm |-> dm, forks |-> forks \ {dm}]]
    BY <2>1
  <2> DEFINE tsk == [pc |-> pc, dm |-> dm, forks |-> forks \ {dm}]
  <2>3. /\ dm = 0 \/ (dm \in Live /\ thread[dm].nick = Clyde)
        /\ pc = "migrate" => dm \in Live
        /\ forks \subseteq Live /\ \A i \in forks : thread[i].nick = Clyde
        /\ pc \in {"migrate", "drop"}
    BY <2>2 DEF Listed
  <2>4. IndexInv /\ pc = "migrate" => <<ClydeNet, Clyde>> \notin DOMAIN owner
    <3> SUFFICES ASSUME IndexInv, <<ClydeNet, Clyde>> \in DOMAIN owner PROVE canon # {}
      OBVIOUS
    <3>1. PICK i \in Live : i = owner[<<ClydeNet, Clyde>>] /\ KeyOf(i) = <<ClydeNet, Clyde>>
      BY DEF IndexInv
    <3>2. i \in Listed
      BY <3>1 DEF Listed
    <3> QED BY <3>1, <3>2 DEF KeyOf
  <2> HIDE DEF forks, canon, active, pc
  <2>5. /\ tsk.pc = pc /\ tsk.dm = dm /\ tsk.forks = forks \ {dm} /\ tsk.forks \subseteq 1..lastThread
        /\ tsk \in [pc : {"none", "say", "migrate", "drop"}, dm : Nat, forks : SUBSET Nat]
    BY <1>g, <2>3
  <2>6. task' = [task EXCEPT ![n] = tsk]
    BY <2>2
  <2> HIDE DEF tsk
  <2>7. \A m \in Nets : task'[m] = IF m = n THEN tsk ELSE task[m]
    BY <1>g, <2>6
  <2>8. crossed' \in BOOLEAN /\ notes' \in Nat /\ (~crossed' => ~crossed /\ \A m \in Nets : ~Busy(m))
    BY <1>h, <1>i, <2>1
  <2>9. ThreadTypes'
    BY <1>c, <1>g, <2>1, <2>5, <2>6, <2>7, <2>8 DEF ThreadTypes, Live
  <2>10. ASSUME ~crossed' PROVE IndexInv' /\ ToldInv'
    BY <1>b, <2>1, <2>8, <2>10 DEF IndexInv, KeyOf, ToldInv, Live
  <2>11. ASSUME ~crossed' PROVE TaskInv'
    <3>1. \A m \in Nets \ {n} : task'[m].pc = "none"
      BY <1>d, <1>e, <2>7, <2>8, <2>11
    <3>2. IndexInv /\ Live' = Live /\ thread' = thread /\ owner' = owner
      BY <1>b, <2>1, <2>8, <2>11 DEF Live
    <3>3. pc = "migrate" => dm # 0 /\ <<ClydeNet, Clyde>> \notin DOMAIN owner'
      BY <1>g, <2>3, <2>4, <3>2
    <3>4. task'[n].pc = pc /\ task'[n].dm = dm /\ task'[n].forks = forks \ {dm}
      BY <2>5, <2>7
    <3>5. ASSUME NEW m \in Nets \ {n}
          PROVE  task'[m].pc \notin {"say", "migrate", "drop"}
      BY <3>1
    <3> QED
      <4> SUFFICES ASSUME NEW m \in Nets
                   PROVE  /\ task'[m].pc = "say" => task'[m].dm \in Live'
                          /\ task'[m].pc \in {"migrate", "drop"} =>
                               /\ task'[m].dm = 0 \/ (task'[m].dm \in Live' /\ thread'[task'[m].dm].nick = Clyde)
                               /\ task'[m].dm \notin task'[m].forks
                               /\ \A id \in task'[m].forks \cap Live' : thread'[id].nick = Clyde
                               /\ \A k \in Nets \ {m} :
                                    /\ task'[k].pc \notin {"migrate", "drop"}
                                    /\ task'[k].pc = "say" => thread'[task'[k].dm].nick = Peer
                          /\ task'[m].pc = "migrate" =>
                               task'[m].dm # 0 /\ <<ClydeNet, Clyde>> \notin DOMAIN owner'
        BY DEF TaskInv, Resolving
      <4>1. CASE m = n
        BY <2>3, <3>2, <3>3, <3>4, <3>5, <4>1
      <4>2. CASE m # n
        BY <3>5, <4>2
      <4> QED BY <4>1, <4>2
  <2> QED BY <2>9, <2>10, <2>11 DEF ThreadInv
<1>12. ASSUME NEW n \in Nets, ClydeMigrate(n) PROVE ThreadInv'
  <2>0. PICK id \in Nat : id = task[n].dm
    BY <1>c
  <2>1. /\ task[n].pc = "migrate" /\ UNCHANGED <<shown, lastThread, notes, silent, blind, crossed>>
        /\ IF id \in Live
           THEN SetDMNetwork(id, ClydeNet) /\ task' = [task EXCEPT ![n] = [task[n] EXCEPT !.pc = "drop"]]
           ELSE UNCHANGED <<thread, owner>> /\ task' = [task EXCEPT ![n] = [task[n] EXCEPT !.pc = "say"]]
    BY <1>12, <2>0 DEF ClydeMigrate
  <2>2. CASE id \notin Live
    <3> DEFINE tsk == [task[n] EXCEPT !.pc = "say"]
    <3>1. task' = [task EXCEPT ![n] = tsk] /\ UNCHANGED <<thread, owner>>
      BY <2>1, <2>2
    <3>2. tsk \in [pc : {"none", "say", "migrate", "drop"}, dm : Nat, forks : SUBSET Nat]
          /\ tsk.forks = task[n].forks
      BY <1>c
    <3> HIDE DEF tsk
    <3>3. \A m \in Nets : task'[m].forks = task[m].forks
      BY <1>g, <3>1, <3>2
    <3>4. ThreadTypes'
      BY <1>a, <1>c, <2>1, <3>1, <3>2, <3>3 DEF ThreadTypes, Live
    <3>5. crossed
      BY <1>b, <1>g, <2>0, <2>1, <2>2 DEF TaskInv, Resolving
    <3> QED BY <2>1, <3>4, <3>5 DEF ThreadInv
  <2>3. CASE id \in Live
    <3> DEFINE tsk == [task[n] EXCEPT !.pc = "drop"]
    <3>1. task' = [task EXCEPT ![n] = tsk] /\ SetDMNetwork(id, ClydeNet)
      BY <2>1, <2>3
    <3>2. tsk \in [pc : {"none", "say", "migrate", "drop"}, dm : Nat, forks : SUBSET Nat]
          /\ tsk.pc = "drop" /\ tsk.dm = id /\ tsk.forks = task[n].forks
      BY <1>c, <2>0
    <3> HIDE DEF tsk
    <3>3. /\ Live' = Live /\ thread' \in [Live -> DMRecord] /\ owner' \in [DOMAIN owner' -> Nat]
          /\ \A i \in Live : thread'[i].nick = thread[i].nick
          /\ IndexInv /\ <<ClydeNet, thread[id].nick>> \notin DOMAIN owner => IndexInv'
      BY <1>a, <2>3, <3>1, Moved
    <3>4. \A m \in Nets : task'[m].forks = task[m].forks
      BY <1>g, <3>1, <3>2
    <3>5. ThreadTypes'
      BY <1>g, <1>c, <2>1, <3>1, <3>2, <3>3, <3>4 DEF ThreadTypes
    <3>6. ASSUME ~crossed PROVE IndexInv' /\ ToldInv' /\ TaskInv'
      <4>1. IndexInv /\ ToldInv /\ TaskInv /\ Resolving(n)
        BY <1>b, <2>1, <3>6 DEF Resolving
      <4>2. /\ id # 0 /\ thread[id].nick = Clyde /\ <<ClydeNet, Clyde>> \notin DOMAIN owner
            /\ id \notin task[n].forks /\ \A i \in task[n].forks \cap Live : thread[i].nick = Clyde
            /\ \A m \in Nets \ {n} : /\ ~Resolving(m)
                                     /\ task[m].pc = "say" => thread[task[m].dm].nick = Peer
        BY <2>0, <2>1, <4>1 DEF TaskInv
      <4>3. IndexInv' /\ ToldInv'
        BY <2>1, <3>3, <4>1, <4>2 DEF ToldInv
      <4>4. \A m \in Nets \ {n} : task[m].pc = "say" =>
                task[m].dm \in Live' /\ thread'[task[m].dm].nick = Peer
        BY <3>3, <4>1, <4>2 DEF TaskInv
      <4>5. /\ tsk.dm \in Live' /\ thread'[tsk.dm].nick = Clyde /\ tsk.dm \notin tsk.forks
            /\ \A i \in tsk.forks \cap Live' : thread'[i].nick = Clyde
        BY <2>3, <3>2, <3>3, <4>2
      <4>6. TaskInv'
        BY <1>a, <3>1, <3>2, <4>1, <4>2, <4>4, <4>5, TaskGoesOn
      <4> QED BY <4>3, <4>6
    <3> QED BY <2>1, <3>5, <3>6 DEF ThreadInv
  <2> QED BY <2>2, <2>3
<1>13. ASSUME NEW n \in Nets, NEW id \in task[n].forks, ClydeDrop(n, id) PROVE ThreadInv'
  <2> DEFINE tsk == [task[n] EXCEPT !.forks = @ \ {id}]
  <2>1. /\ task[n].pc = "drop" /\ DeleteDMChannel(id) /\ task' = [task EXCEPT ![n] = tsk]
        /\ UNCHANGED <<shown, lastThread, notes, silent, blind, crossed>>
    BY <1>13, <1>c DEF ClydeDrop
  <2>2. /\ tsk \in [pc : {"none", "say", "migrate", "drop"}, dm : Nat, forks : SUBSET Nat]
        /\ tsk.pc = "drop" /\ tsk.dm = task[n].dm /\ tsk.forks = task[n].forks \ {id}
    BY <1>c, <2>1
  <2> HIDE DEF tsk
  <2>3. /\ Live' = Live \ {id}
        /\ thread' \in [Live' -> DMRecord] /\ owner' \in [DOMAIN owner' -> Nat]
        /\ \A i \in Live' : thread'[i] = thread[i]
        /\ IndexInv => IndexInv'
    BY <1>a, <2>1, Deleted
  <2>4. \A m \in Nets : task'[m].forks \subseteq task[m].forks
    BY <1>g, <2>1, <2>2
  <2>5. ThreadTypes'
    BY <1>c, <1>g, <2>1, <2>2, <2>3, <2>4 DEF ThreadTypes
  <2>6. ASSUME ~crossed PROVE IndexInv' /\ ToldInv' /\ TaskInv'
    <3>1. IndexInv /\ ToldInv /\ TaskInv /\ Resolving(n)
      BY <1>b, <2>1, <2>6 DEF Resolving
    <3>2. /\ task[n].dm = 0 \/ (task[n].dm \in Live /\ thread[task[n].dm].nick = Clyde)
          /\ task[n].dm \notin task[n].forks /\ \A i \in task[n].forks \cap Live : thread[i].nick = Clyde
          /\ \A m \in Nets \ {n} : /\ ~Resolving(m)
                                   /\ task[m].pc = "say" => thread[task[m].dm].nick = Peer
      BY <3>1 DEF TaskInv
    <3>3. IndexInv' /\ ToldInv'
      BY <2>1, <2>3, <3>1 DEF ToldInv
    <3>4. \A m \in Nets \ {n} : task[m].pc = "say" =>
              task[m].dm \in Live' /\ thread'[task[m].dm].nick = Peer
      <4> SUFFICES ASSUME NEW m \in Nets \ {n}, task[m].pc = "say"
                   PROVE  task[m].dm \in Live' /\ thread'[task[m].dm].nick = Peer
        OBVIOUS
      <4>1. task[m].dm \in Live /\ thread[task[m].dm].nick = Peer
        BY <3>1, <3>2 DEF TaskInv
      <4>2. task[m].dm # id
        BY <3>2, <4>1, ThreadAssumption
      <4> QED BY <2>3, <4>1, <4>2
    <3>5. /\ tsk.dm = 0 \/ (tsk.dm \in Live' /\ thread'[tsk.dm].nick = Clyde)
          /\ tsk.dm \notin tsk.forks /\ \A i \in tsk.forks \cap Live' : thread'[i].nick = Clyde
      BY <2>2, <2>3, <3>2
    <3>6. TaskInv'
      BY <1>a, <2>1, <2>2, <3>1, <3>2, <3>4, <3>5, TaskGoesOn
    <3> QED BY <3>3, <3>6
  <2> QED BY <2>1, <2>5, <2>6 DEF ThreadInv
<1>14. ASSUME NEW n \in Nets, ClydeResolved(n) PROVE ThreadInv'
  <2>0. PICK id : id = IF task[n].dm # 0 THEN task[n].dm ELSE EnsuredId(ClydeNet, Clyde)
    OBVIOUS
  <2> DEFINE tsk == [pc |-> "say", dm |-> id, forks |-> {}]
  <2>1. /\ task[n].pc = "drop"
        /\ IF task[n].dm # 0 THEN UNCHANGED <<thread, owner, lastThread>>
           ELSE EnsureDMChannel(ClydeNet, Clyde)
        /\ shown' = IF id \in DOMAIN thread' /\ thread'[id].fresh THEN shown \cup {id} ELSE shown
        /\ task' = [task EXCEPT ![n] = tsk]
        /\ UNCHANGED <<notes, silent, blind, crossed>>
    BY <1>14, <2>0 DEF ClydeResolved
  <2>2. Resolving(n)
    BY <2>1 DEF Resolving
  <2>3. ~crossed => \A m \in Nets \ {n} : ~Resolving(m)
    BY <1>b, <2>2 DEF TaskInv
  <2>4. CASE task[n].dm = 0
    <3>1. id = EnsuredId(ClydeNet, Clyde) /\ EnsureDMChannel(ClydeNet, Clyde)
      BY <2>0, <2>1, <2>4
    <3>2. id \in Nat /\ (id \in Live' \ Live => thread'[id].fresh)
      BY <1>a, <3>1, Ensured
    <3>3. /\ tsk \in [pc : {"none", "say", "migrate", "drop"}, dm : Nat, forks : SUBSET Nat]
          /\ tsk.pc = "say" /\ tsk.dm = id /\ tsk.forks = {}
      BY <3>2
    <3> HIDE DEF tsk
    <3>4. id \in Live' => \/ id \in shown' \cup silent'
                          \/ ~thread'[id].fresh /\ id \in Live
      BY <2>1, <3>2 DEF Live
    <3>5. /\ shown \subseteq shown' /\ silent \subseteq silent' /\ blind' = blind /\ tsk.pc # "migrate"
          /\ crossed' = crossed /\ notes' \in Nat /\ crossed' \in BOOLEAN
      BY <1>g, <2>1, <3>3
    <3>6. /\ task' = [task EXCEPT ![n] = tsk] /\ tsk.forks \subseteq 1..lastThread
          /\ ClydeNet \in Nets \cup {ClydeNet} /\ Clyde \in {Peer, Clyde}
      BY <2>1, <3>3
    <3>7. ~crossed' => ~crossed /\ \A m \in Nets \ {n} : ~Resolving(m)
      BY <2>3, <3>5
    <3> QED BY <1>3, <3>1, <3>3, <3>4, <3>5, <3>6, <3>7
  <2>5. CASE task[n].dm # 0
    <3>1. id = task[n].dm /\ UNCHANGED <<thread, owner, lastThread>>
      BY <2>0, <2>1, <2>5
    <3>2. /\ tsk \in [pc : {"none", "say", "migrate", "drop"}, dm : Nat, forks : SUBSET Nat]
          /\ tsk.pc = "say" /\ tsk.dm = id /\ tsk.forks = {}
      BY <1>c, <3>1
    <3> HIDE DEF tsk
    <3>3. \A m \in Nets : task'[m].forks \subseteq task[m].forks
      BY <1>g, <2>1, <3>2
    <3>4. Live' = Live /\ thread' = thread /\ owner' = owner
      BY <3>1 DEF Live
    <3>5. ThreadTypes'
      BY <1>c, <1>g, <2>1, <3>1, <3>2, <3>3, <3>4 DEF ThreadTypes
    <3>6. ASSUME ~crossed PROVE IndexInv' /\ ToldInv' /\ TaskInv'
      <4>1. IndexInv /\ ToldInv /\ TaskInv /\ id \in Live
        BY <1>b, <2>2, <2>5, <3>1, <3>6 DEF TaskInv
      <4>2. IndexInv' /\ ToldInv'
        BY <2>1, <3>4, <4>1 DEF IndexInv, KeyOf, ToldInv
      <4>3. \A m \in Nets \ {n} : task[m].pc = "migrate" => <<ClydeNet, Clyde>> \notin DOMAIN owner'
        BY <2>3, <3>6 DEF Resolving
      <4>4. tsk # task[n] /\ tsk.dm \in Live'
        BY <2>1, <3>2, <3>4, <4>1
      <4>5. \A i \in Live : i \in Live' /\ thread'[i].nick = thread[i].nick
        BY <3>4
      <4>6. TaskInv'
        BY <1>a, <2>1, <2>3, <3>2, <3>4, <3>6, <4>1, <4>3, <4>4, <4>5, TasksStand
      <4> QED BY <4>2, <4>6
    <3> QED BY <2>1, <3>5, <3>6 DEF ThreadInv
  <2> QED BY <2>4, <2>5
<1>15. CASE UNCHANGED threadVars
  BY <1>15 DEF threadVars, ThreadInv, ThreadTypes, IndexInv, KeyOf, Live, ToldInv, TaskInv, Resolving
<1> QED
  BY <1>1, <1>2, <1>4, <1>5, <1>6, <1>8, <1>9, <1>10, <1>11, <1>12, <1>13, <1>14, <1>15
     DEF ThreadNext

\* Every thread can be listed, no index entry dangles, and no message goes to a
\* thread the client does not know but one a typing indicator opened, unless
\* Clyde work of two connections or a close crossed (EnsureDMChannel, clydeDM,
\* dispatchQuery).
THEOREM ThreadsStaySound == ThreadSpec => []ThreadsSound
<1>1. ThreadInit => ThreadInv
  <2> SUFFICES ASSUME ThreadInit PROVE ThreadInv
    OBVIOUS
  <2>1. PICK F \in SUBSET Nets : \E f \in [1..Cardinality(F) -> F] :
          /\ \A i, j \in DOMAIN f : i # j => f[i] # f[j]
          /\ thread = [i \in DOMAIN f |-> [net |-> f[i], nick |-> Clyde, fresh |-> FALSE, last |-> i]]
          /\ owner = [k \in F \X {Clyde} |-> CHOOSE i \in DOMAIN f : f[i] = k[1]]
          /\ lastThread = Cardinality(F)
    BY DEF ThreadInit
  <2>2. PICK f \in [1..Cardinality(F) -> F] :
          /\ \A i, j \in DOMAIN f : i # j => f[i] # f[j]
          /\ thread = [i \in DOMAIN f |-> [net |-> f[i], nick |-> Clyde, fresh |-> FALSE, last |-> i]]
          /\ owner = [k \in F \X {Clyde} |-> CHOOSE i \in DOMAIN f : f[i] = k[1]]
          /\ lastThread = Cardinality(F)
    BY <2>1
  <2>3. PICK c \in Nat : c = Cardinality(F)
    BY ThreadAssumption, FS_Subset, FS_CardinalityType
  <2>4. \A net1 \in F : \E i \in 1..c : f[i] = net1
    <3>1. f \in Injection(1..c, F)
      BY <2>2, <2>3, Fun_IsInj
    <3>2. IsFiniteSet(F) /\ Cardinality(1..c) = Cardinality(F)
      <4>1. IsFiniteSet(F)
        BY ThreadAssumption, FS_Subset
      <4>2. Cardinality(1..c) = IF 1 > c THEN 0 ELSE c - 1 + 1
        BY FS_Interval
      <4>3. Cardinality(1..c) = c
        BY <4>2
      <4> QED BY <2>3, <4>1, <4>3
    <3>3. f \in Surjection(1..c, F)
      BY <3>1, <3>2, FS_Injection
    <3>4. \A t \in F : \E s \in 1..c : f[s] = t
      BY <3>3 DEF Surjection
    <3> QED BY <3>4
  <2>5. /\ Live = 1..c /\ lastThread = c
        /\ \A i \in Live : thread[i] = [net |-> f[i], nick |-> Clyde, fresh |-> FALSE, last |-> i]
    BY <2>2, <2>3 DEF Live
  <2>6. DOMAIN owner = F \X {Clyde} /\ \A x \in F : owner[<<x, Clyde>>] \in 1..c /\ f[owner[<<x, Clyde>>]] = x
    BY <2>2, <2>3, <2>4
  <2>7. thread \in [Live -> DMRecord]
    <3>1. \A i \in Live : [net |-> f[i], nick |-> Clyde, fresh |-> FALSE, last |-> i] \in DMRecord
      BY <2>3, <2>5 DEF DMRecord
    <3> QED BY <2>2, <2>5, <3>1 DEF Live
  <2>8. owner \in [DOMAIN owner -> Nat]
    <3>1. \A k \in DOMAIN owner : owner[k] \in Nat
      BY <2>6
    <3> QED BY <2>2, <3>1
  <2>9. /\ shown = Listed /\ task = [n \in Nets |-> NoTask] /\ notes = 0 /\ silent = {} /\ blind = {}
        /\ crossed = FALSE
    BY DEF ThreadInit
  <2>10. ThreadTypes
    BY <2>3, <2>5, <2>7, <2>8, <2>9 DEF ThreadTypes, NoTask
  <2>11. IndexInv
    <3>1. ASSUME NEW i \in Live PROVE KeyOf(i) \in DOMAIN owner /\ owner[KeyOf(i)] = i
      <4>1. KeyOf(i) = <<f[i], Clyde>> /\ f[i] \in F
        BY <2>2, <2>3, <2>5 DEF KeyOf
      <4>2. owner[<<f[i], Clyde>>] \in 1..c /\ f[owner[<<f[i], Clyde>>]] = f[i]
        BY <2>6, <4>1
      <4> QED BY <2>2, <2>3, <2>5, <2>6, <4>1, <4>2
    <3>2. ASSUME NEW k \in DOMAIN owner PROVE owner[k] \in Live /\ KeyOf(owner[k]) = k
      <4>1. PICK x \in F : k = <<x, Clyde>>
        BY <2>6
      <4>2. owner[k] \in 1..c /\ f[owner[k]] = x
        BY <2>6, <4>1
      <4>3. /\ owner[k] \in Live
            /\ thread[owner[k]] = [net |-> f[owner[k]], nick |-> Clyde, fresh |-> FALSE, last |-> owner[k]]
        BY <2>5, <4>2
      <4>4. thread[owner[k]].net = x /\ thread[owner[k]].nick = Clyde
        BY <4>2, <4>3
      <4> QED BY <4>1, <4>3, <4>4 DEF KeyOf
    <3> QED BY <3>1, <3>2 DEF IndexInv
  <2>12. ToldInv
    <3>1. ASSUME NEW id \in Live PROVE id \in Listed
      BY <2>11 DEF IndexInv, Listed
    <3> QED BY <2>9, <3>1 DEF ToldInv
  <2>13. TaskInv
    BY <2>9 DEF TaskInv, NoTask, Resolving
  <2> QED BY <2>10, <2>11, <2>12, <2>13 DEF ThreadInv
<1>2. ThreadInv => ThreadsSound
  BY DEF ThreadInv, IndexInv, KeyOf, ToldInv, ThreadsSound, ThreadsReachable, MessageInKnownThread
<1> QED BY <1>1, <1>2, NextThreads, PTL DEF ThreadSpec

-----------------------------------------------------------------------------
(* Channels *)

Lines == ({"JOIN", "PART", "ERR"} \X Names) \cup ({"RENAME"} \X Names \X Names) \cup {<<"NICK", "">>}
Rests == [pc : {"none", "join", "part"}, n : Names \cup {""}]
Handlers == [pc : {"none", "rename", "nick", "connected", "rejoin"}, snap : [Users -> SUBSET Names],
             old : Names \cup {""}, new : Names \cup {""}]

ChannelTypes ==
  /\ auto \in [Users -> SUBSET Names] /\ joined \in [Users -> SUBSET Names]
  /\ pendingJoins \in [Users -> SUBSET Names] /\ up \in [Users -> BOOLEAN] /\ raced \in BOOLEAN
  /\ rest \in [Users -> Rests] /\ \A u \in Users : rest[u] # NoRest => rest[u].n \in Names
  /\ handler \in [Users -> Handlers]
  /\ \A u \in Users : handler[u].pc = "rename" => handler[u].old \in Names /\ handler[u].new \in Names
  /\ out \in [Users -> Seq({"JOIN", "PART"} \X Names)] /\ inbox \in [Users -> Seq(Lines)]
  /\ record \in Seq(Names) /\ DOMAIN index \subseteq Names

\* Nothing is under way on a dead link, and its event loop is idle.
LinkInv ==
  \A u \in Users : ~up[u] => /\ handler[u] = NoHandler /\ joined[u] = {}
                             /\ out[u] = <<>> /\ inbox[u] = <<>>

About(line, n) == line[1] \in {"JOIN", "PART", "ERR"} /\ line[2] = n
Heard(q, n) == \E i \in 1..Len(q) : About(q[i], n)
Has(q, cmd, n) == \E i \in 1..Len(q) : q[i] = <<cmd, n>>

\* The last line about a channel says whether it is in the set.
LastSays(q, n, S) ==
  \A i \in 1..Len(q) :
    About(q[i], n) /\ (\A j \in 1..Len(q) : i < j => ~About(q[j], n)) => (q[i][1] = "JOIN" <=> n \in S)

\* What will make the user join, or leave, a channel.
WillJoin(u, n) == \/ rest[u].pc = "join" /\ rest[u].n = n
                  \/ Has(out[u], "JOIN", n)
                  \/ handler[u].pc = "connected"
                  \/ handler[u].pc = "rejoin" /\ n \in handler[u].snap[u]
WillPart(u, n) == \/ rest[u].pc = "part" /\ rest[u].n = n
                  \/ Has(out[u], "PART", n)

\* Where list and server differ, a line or a command is under way.
Flows(u, n) ==
  /\ LastSays(inbox[u], n, joined[u])
  /\ up[u] /\ ~Heard(inbox[u], n) => /\ n \in auto[u] \ joined[u] => WillJoin(u, n)
                                     /\ n \in joined[u] \ auto[u] => WillPart(u, n)

NoRename(u) == handler[u].pc # "rename" /\ \A i \in 1..Len(inbox[u]) : inbox[u][i][1] # "RENAME"
Fine(u) == NoRename(u) /\ \A n \in Names : Flows(u, n)

Renamed(S, old, new) == IF old \in S THEN (S \ {old}) \cup {new} ELSE S

\* A rename passes through an otherwise quiet network: the memberships are
\* the ones read, or already written.
RenameFlow(old, new) ==
  /\ old # new
  /\ \A u \in Users :
       /\ rest[u] = NoRest /\ out[u] = <<>> /\ inbox[u] \in {<<>>, <<<<"RENAME", old, new>>>>}
       /\ \/ handler[u] = NoHandler
          \/ /\ handler[u].pc = "rename" /\ handler[u].old = old /\ handler[u].new = new
             /\ \A v \in Users : auto[v] \in {handler[u].snap[v], Renamed(handler[u].snap[v], old, new)}
       /\ old \notin joined[u]
       /\ up[u] => /\ Renamed(auto[u], old, new) = joined[u]
                   /\ old \in auto[u] => inbox[u] # <<>> \/ \E v \in Users : handler[v] # NoHandler

Untroubled == \/ \A u \in Users : Fine(u)
              \/ RenamePending /\ \E old, new \in Names : RenameFlow(old, new)

ChannelInv == ChannelTypes /\ LinkInv /\ IndexSound /\ (~raced => Untroubled)

\* The first line is taken.
LEMMA SaysTail ==
    ASSUME NEW q \in Seq(Lines), q # <<>>, NEW n, NEW S
    PROVE  /\ LastSays(q, n, S) => LastSays(Tail(q), n, S)
           /\ Heard(Tail(q), n) => Heard(q, n)
           /\ LastSays(q, n, S) /\ Heard(q, n) /\ ~Heard(Tail(q), n) =>
                About(Head(q), n) /\ (Head(q)[1] = "JOIN" <=> n \in S)
           /\ \A i \in 1..Len(Tail(q)) : i + 1 \in 1..Len(q) /\ Tail(q)[i] = q[i + 1]
<1>1. /\ Len(Tail(q)) = Len(q) - 1 /\ Len(q) \in Nat \ {0} /\ Head(q) = q[1]
      /\ \A i \in 1..(Len(q) - 1) : Tail(q)[i] = q[i + 1]
  BY LineTail
<1>2. \A i \in 1..(Len(q) - 1) : i + 1 \in 1..Len(q)
  BY <1>1
<1>3. \A j \in 1..Len(q) : j = 1 \/ (j - 1 \in 1..(Len(q) - 1) /\ q[j] = Tail(q)[j - 1])
  BY <1>1
<1>4. ASSUME LastSays(q, n, S) PROVE LastSays(Tail(q), n, S)
  <2>1. ASSUME NEW i \in 1..(Len(q) - 1), About(Tail(q)[i], n),
               \A j \in 1..(Len(q) - 1) : i < j => ~About(Tail(q)[j], n)
        PROVE  Tail(q)[i][1] = "JOIN" <=> n \in S
    <3>1. \A j \in 1..Len(q) : i + 1 < j => ~About(q[j], n)
      BY SMTT(60), <1>1, <1>3, <2>1
    <3>2. About(q[i + 1], n) /\ i + 1 \in 1..Len(q) /\ Tail(q)[i] = q[i + 1]
      BY <1>1, <1>2, <2>1
    <3> QED BY <1>4, <3>1, <3>2 DEF LastSays
  <2> QED BY <1>1, <2>1 DEF LastSays
<1>5. Heard(Tail(q), n) => Heard(q, n)
  BY <1>1, <1>2 DEF Heard
<1>6. ASSUME LastSays(q, n, S), Heard(q, n), ~Heard(Tail(q), n)
      PROVE  About(Head(q), n) /\ (Head(q)[1] = "JOIN" <=> n \in S)
  <2>1. \A j \in 1..Len(q) : j # 1 => ~About(q[j], n)
    BY <1>1, <1>3, <1>6 DEF Heard
  <2>2. About(q[1], n) /\ 1 \in 1..Len(q)
    BY <1>1, <1>6, <2>1 DEF Heard
  <2>3. \A j \in 1..Len(q) : 1 < j => ~About(q[j], n)
    BY <2>1
  <2> QED BY <1>1, <1>6, <2>2, <2>3 DEF LastSays
<1> QED BY <1>1, <1>2, <1>4, <1>5, <1>6

\* A line about the channel becomes the last one; any other changes nothing.
LEMMA SaysAppend ==
    ASSUME NEW q \in Seq(Lines), NEW e \in Lines, NEW n, NEW S,
           About(e, n) => (e[1] = "JOIN" <=> n \in S), ~About(e, n) => LastSays(q, n, S)
    PROVE  /\ LastSays(Append(q, e), n, S)
           /\ Heard(Append(q, e), n) <=> (Heard(q, n) \/ About(e, n))
<1> DEFINE r == Append(q, e)
<1>1. /\ Len(r) = Len(q) + 1 /\ Len(q) \in Nat /\ r[Len(q) + 1] = e
      /\ \A i \in 1..Len(q) : r[i] = q[i]
  BY LineAppend
<1>2. \A i \in 1..Len(r) : i = Len(q) + 1 \/ i \in 1..Len(q)
  BY <1>1
<1>3. Len(q) + 1 \in 1..Len(r) /\ \A i \in 1..Len(q) : i \in 1..Len(r) /\ i < Len(q) + 1
  BY <1>1
<1> HIDE DEF r
<1>4. Heard(r, n) <=> (Heard(q, n) \/ About(e, n))
  BY <1>1, <1>2, <1>3 DEF Heard
<1>5. ASSUME NEW i \in 1..Len(r), About(r[i], n), \A j \in 1..Len(r) : i < j => ~About(r[j], n)
      PROVE  r[i][1] = "JOIN" <=> n \in S
  <2>1. CASE i = Len(q) + 1
    BY <1>1, <1>5, <2>1
  <2>2. CASE i \in 1..Len(q)
    <3>1. ~About(e, n)
      BY <1>1, <1>3, <1>5, <2>2
    <3>2. \A j \in 1..Len(q) : i < j => ~About(q[j], n)
      BY <1>1, <1>3, <1>5
    <3> QED BY <1>1, <1>5, <2>2, <3>1, <3>2 DEF LastSays
  <2> QED BY <1>2, <2>1, <2>2
<1>6. LastSays(r, n, S)
  BY <1>5 DEF LastSays
<1> QED BY <1>4, <1>6 DEF r

\* A command is sent, and taken.
LEMMA HasAppend ==
    ASSUME NEW T, NEW q \in Seq(T), NEW c \in T, NEW cmd, NEW n
    PROVE  /\ Has(q, cmd, n) => Has(Append(q, c), cmd, n)
           /\ c = <<cmd, n>> => Has(Append(q, c), cmd, n)
<1> DEFINE r == Append(q, c)
<1>1. /\ Len(r) = Len(q) + 1 /\ Len(q) \in Nat /\ r[Len(q) + 1] = c
      /\ \A i \in 1..Len(q) : r[i] = q[i]
  BY LineAppend
<1>2. Len(q) + 1 \in 1..Len(r) /\ \A i \in 1..Len(q) : i \in 1..Len(r)
  BY <1>1
<1> HIDE DEF r
<1>3. /\ Has(q, cmd, n) => Has(r, cmd, n)
      /\ c = <<cmd, n>> => Has(r, cmd, n)
  BY <1>1, <1>2 DEF Has
<1> QED BY <1>3 DEF r

(* A line that is not the first one is still on its way after the first was handled. *)
LEMMA HasTail ==
    ASSUME NEW T, NEW q \in Seq(T), q # <<>>, NEW cmd, NEW n, Has(q, cmd, n), Head(q) # <<cmd, n>>
    PROVE  Has(Tail(q), cmd, n)
<1>1. /\ Len(Tail(q)) = Len(q) - 1 /\ Len(q) \in Nat \ {0} /\ Head(q) = q[1]
      /\ \A i \in 1..(Len(q) - 1) : Tail(q)[i] = q[i + 1]
  BY LineTail
<1>2. PICK j \in 1..Len(q) : q[j] = <<cmd, n>>
  BY DEF Has
<1>3. j - 1 \in 1..Len(Tail(q)) /\ Tail(q)[j - 1] = <<cmd, n>>
  BY <1>1, <1>2
<1> QED BY <1>3 DEF Has

\* The joins of a reconnection: one for every channel of the list.
LEMMA Rejoins ==
    ASSUME NEW snap \in SUBSET Names
    PROVE  /\ [k \in 1 .. Cardinality(snap) |-> <<"JOIN", SetToSeq(snap)[k]>>]
                 \in Seq({"JOIN", "PART"} \X Names)
           /\ \A n \in snap : Has([k \in 1 .. Cardinality(snap) |-> <<"JOIN", SetToSeq(snap)[k]>>], "JOIN", n)
<1>1. IsFiniteSet(snap)
  BY ChannelAssumption, FS_Subset
<1>2. PICK c \in Nat : c = Cardinality(snap)
  BY <1>1, FS_CardinalityType
<1>3. PICK f \in Bijection(1..c, snap) : TRUE
  BY <1>1, <1>2, FS_CardinalityType DEF ExistsBijection
<1>4. f \in [1..c -> snap] /\ IsInjective(f)
  BY <1>3 DEF Bijection, Injection
<1> DEFINE g == SetToSeq(snap)
<1>5. g \in [1..c -> snap] /\ IsInjective(g)
  BY <1>2, <1>4 DEF SetToSeq
<1> HIDE DEF g
<1>6. \A n \in snap : \E i \in 1..c : g[i] = n
  <2>1. IsFiniteSet(1..c) /\ Cardinality(1..c) = c
    <3>1. IsFiniteSet(1..c) /\ Cardinality(1..c) = IF 1 > c THEN 0 ELSE c - 1 + 1
      BY FS_Interval
    <3> QED BY <3>1
  <2>2. g \in Injection(1..c, snap)
    BY <1>5 DEF Injection
  <2>3. g \in Surjection(1..c, snap)
    BY <1>1, <1>2, <2>1, <2>2, FS_Injection
  <2> QED BY <2>3 DEF Surjection
<1> DEFINE q == [k \in 1..c |-> <<"JOIN", g[k]>>]
<1>7. q \in Seq({"JOIN", "PART"} \X Names)
  <2>1. \A k \in 1..c : <<"JOIN", g[k]>> \in {"JOIN", "PART"} \X Names
    BY <1>5
  <2>2. q \in [1..c -> {"JOIN", "PART"} \X Names]
    BY <2>1
  <2> QED BY <2>2, IsASeq
<1>8. Len(q) = c
  BY <1>7, LenProperties
<1>9. \A n \in snap : Has(q, "JOIN", n)
  BY <1>6, <1>8 DEF Has
<1> QED BY <1>2, <1>7, <1>9 DEF g

\* A line about a channel names one, and a rename names two.
LEMMA LineNames ==
    ASSUME NEW e \in Lines
    PROVE  /\ e[1] \in {"JOIN", "PART", "ERR"} => e[2] \in Names
           /\ e[1] = "RENAME" => e[2] \in Names /\ e[3] \in Names
           /\ e[1] \in {"JOIN", "PART", "ERR", "RENAME", "NICK"}
<1>1. CASE e \in {"JOIN", "PART", "ERR"} \X Names
  BY <1>1
<1>2. CASE e \in {"RENAME"} \X Names \X Names
  <2>1. PICK a \in Names, b \in Names : e = <<"RENAME", a, b>>
    BY <1>2
  <2> QED BY <2>1
<1>3. CASE e = <<"NICK", "">>
  BY <1>3
<1> QED BY <1>1, <1>2, <1>3 DEF Lines

\* EnsureChannel keeps the registry, whether or not the name is new.
LEMMA ChannelEnsured ==
    ASSUME ChannelTypes, IndexSound, NEW n \in Names, EnsureChannel(n)
    PROVE  record' \in Seq(Names) /\ DOMAIN index' \subseteq Names /\ IndexSound'
<1>1. CASE n \in DOMAIN index
  BY <1>1 DEF EnsureChannel, registry, ChannelTypes, IndexSound
<1>2. CASE n \notin DOMAIN index
  <2>1. /\ index' = [k \in DOMAIN index \cup {n} |-> IF k = n THEN Len(record) + 1 ELSE index[k]]
        /\ record' = Append(record, n) /\ record \in Seq(Names) /\ DOMAIN index \subseteq Names
    BY <1>2 DEF EnsureChannel, ChannelTypes
  <2>2. /\ record' \in Seq(Names) /\ Len(record) \in Nat /\ DOMAIN record = 1..Len(record)
        /\ DOMAIN record' = 1..(Len(record) + 1) /\ record'[Len(record) + 1] = n
        /\ \A i \in 1..Len(record) : record'[i] = record[i]
    BY <2>1, LineAppend
  <2>3. \A k \in DOMAIN index : index[k] \in 1..Len(record) /\ record[index[k]] = k
    BY <2>2 DEF IndexSound
  <2>4. \A k \in DOMAIN index' : index'[k] \in DOMAIN record' /\ record'[index'[k]] = k
    BY <2>1, <2>2, <2>3
  <2> QED BY <2>1, <2>2, <2>4 DEF IndexSound
<1> QED BY <1>1, <1>2

\* The registry follows a rename: two names never share a record.
LEMMA StoreRenamed ==
    ASSUME ChannelTypes, IndexSound, NEW old \in Names, NEW new \in Names,
           old \in DOMAIN index, StoreRename(old, new)
    PROVE  record' \in Seq(Names) /\ DOMAIN index' \subseteq Names /\ IndexSound'
<1>1. /\ index' = [k \in (DOMAIN index \ {old}) \cup {new} |-> IF k = new THEN index[old] ELSE index[k]]
      /\ record' = [record EXCEPT ![index[old]] = new]
  BY DEF StoreRename
<1>2. record \in Seq(Names) /\ DOMAIN index \subseteq Names
  BY DEF ChannelTypes
<1>3. index[old] \in DOMAIN record /\ DOMAIN record = 1..Len(record)
  BY <1>2, LenProperties DEF IndexSound
<1>4. record' \in Seq(Names) /\ DOMAIN record' = DOMAIN record
  BY <1>1, <1>2, <1>3, ExceptSeq
<1>5. ASSUME NEW k \in DOMAIN index', k # new PROVE index'[k] \in DOMAIN record' /\ record'[index'[k]] = k
  <2>1. k \in DOMAIN index /\ k # old /\ index'[k] = index[k]
    BY <1>1, <1>5
  <2>2. index[k] \in DOMAIN record /\ record[index[k]] = k /\ record[index[old]] = old
    BY <2>1 DEF IndexSound
  <2> QED BY <1>1, <1>4, <2>1, <2>2
<1>6. index'[new] \in DOMAIN record' /\ record'[index'[new]] = new
  BY <1>1, <1>3, <1>4
<1> QED BY <1>1, <1>2, <1>4, <1>5, <1>6 DEF IndexSound

\* The types but for the registry, which the two lemmas above keep.
LEMMA ChannelRegistryApart ==
    ASSUME ChannelTypes, LinkInv, IndexSound, ChannelNext
    PROVE  record' \in Seq(Names) /\ DOMAIN index' \subseteq Names /\ IndexSound'
<1>1. CASE UNCHANGED registry
  BY <1>1 DEF ChannelTypes, IndexSound, registry
<1>2. ASSUME NEW n \in Names, EnsureChannel(n) PROVE record' \in Seq(Names) /\ DOMAIN index' \subseteq Names /\ IndexSound'
  BY <1>2, ChannelEnsured
<1>3. ASSUME NEW u \in Users, ApplyRename(u)
      PROVE  record' \in Seq(Names) /\ DOMAIN index' \subseteq Names /\ IndexSound'
  <2> DEFINE line == Head(inbox[u])
  <2>1. line \in Lines /\ line[1] = "RENAME"
    BY <1>3, LineTail DEF ApplyRename, Arrives, ChannelTypes
  <2>2. line[2] \in Names /\ line[3] \in Names
    BY <2>1, LineNames
  <2>3. CASE line[2] \in DOMAIN index
    BY <1>3, <2>2, <2>3, StoreRenamed DEF ApplyRename
  <2> QED BY <1>1, <1>3, <2>3 DEF ApplyRename
<1> QED BY ZenonT(60), <1>1, <1>2, <1>3 DEF ChannelNext, EventLoop, JoinChannel, PartChannel, ServerNick, LinkDrops,
          LinkReturns, CreateChannel, RemoveChannel, Registered, ServerForces, ServerCommand, ServerRename,
          HandleJoin, HandlePart, RollbackJoin, RenameMembers, ApplyOwnNick, NickWrite, ConnectedRead,
          ConnectedJoin, registry

\* The link's lines and commands stay well formed, and a dead link idle.
LEMMA ChannelTypesKept ==
    ASSUME ChannelTypes, LinkInv, IndexSound, ChannelNext
    PROVE  ChannelTypes' /\ LinkInv' /\ IndexSound'
<1> DEFINE Others == /\ auto' \in [Users -> SUBSET Names] /\ joined' \in [Users -> SUBSET Names]
                     /\ pendingJoins' \in [Users -> SUBSET Names] /\ up' \in [Users -> BOOLEAN]
                     /\ raced' \in BOOLEAN /\ rest' \in [Users -> Rests]
                     /\ \A u \in Users : rest'[u] # NoRest => rest'[u].n \in Names
                     /\ handler' \in [Users -> Handlers]
                     /\ \A u \in Users : handler'[u].pc = "rename" =>
                          handler'[u].old \in Names /\ handler'[u].new \in Names
           Wires == /\ out' \in [Users -> Seq({"JOIN", "PART"} \X Names)] /\ inbox' \in [Users -> Seq(Lines)]
<1>a. /\ auto \in [Users -> SUBSET Names] /\ joined \in [Users -> SUBSET Names]
      /\ pendingJoins \in [Users -> SUBSET Names] /\ up \in [Users -> BOOLEAN] /\ raced \in BOOLEAN
      /\ rest \in [Users -> Rests] /\ \A u \in Users : rest[u] # NoRest => rest[u].n \in Names
      /\ handler \in [Users -> Handlers]
      /\ \A u \in Users : handler[u].pc = "rename" => handler[u].old \in Names /\ handler[u].new \in Names
  BY DEF ChannelTypes
<1>b. /\ out \in [Users -> Seq({"JOIN", "PART"} \X Names)] /\ inbox \in [Users -> Seq(Lines)]
  BY DEF ChannelTypes
<1>c. \A u \in Users : out[u] # <<>> => /\ Tail(out[u]) \in Seq({"JOIN", "PART"} \X Names)
                                        /\ Head(out[u]) \in {"JOIN", "PART"} \X Names
  BY <1>b, LineTail
<1>d. \A u \in Users : inbox[u] # <<>> => Tail(inbox[u]) \in Seq(Lines) /\ Head(inbox[u]) \in Lines
  BY <1>b, LineTail
<1>e. \A u \in Users : \A e \in Lines : Append(inbox[u], e) \in Seq(Lines)
  BY <1>b, LineAppend
<1>f. \A u \in Users : \A c \in {"JOIN", "PART"} \X Names : Append(out[u], c) \in Seq({"JOIN", "PART"} \X Names)
  BY <1>b, LineAppend
<1>g. /\ NoRest \in Rests /\ NoRest.pc = "none"
      /\ NoHandler \in Handlers /\ NoHandler.pc = "none"
  BY DEF NoRest, NoHandler, Rests, Handlers
<1>h. \A n \in Names : /\ [pc |-> "join", n |-> n] \in Rests /\ [pc |-> "part", n |-> n] \in Rests
                       /\ \A k \in {"JOIN", "PART", "ERR"} : <<k, n>> \in Lines
                       /\ \A k \in {"JOIN", "PART"} : <<k, n>> \in {"JOIN", "PART"} \X Names
                       /\ \A m \in Names : <<"RENAME", n, m>> \in Lines
  BY DEF Rests, Lines
<1>i. <<"NICK", "">> \in Lines
  BY DEF Lines
<1>j. <<>> \in Seq(Lines) /\ <<>> \in Seq({"JOIN", "PART"} \X Names)
  OBVIOUS
<1>1. ASSUME NEW u \in Users, JoinChannel(u) \/ PartChannel(u) PROVE Others /\ Wires /\ LinkInv'
  <2>1. rest[u].n \in Names
    <3>1. rest[u].pc \in {"join", "part"}
      BY <1>1 DEF JoinChannel, PartChannel
    <3> QED BY <1>a, <1>g, <3>1
  <2>2. Others
    BY <1>1, <1>a, <1>g, <2>1 DEF JoinChannel, PartChannel
  <2>3. inbox' = inbox /\ (out' = out \/ \E k \in {"JOIN", "PART"} :
                              up[u] /\ out' = [out EXCEPT ![u] = Append(@, <<k, rest[u].n>>)])
    BY <1>1 DEF JoinChannel, PartChannel, Send
  <2>4. Wires
    <3>1. CASE out' = out
      BY <1>b, <2>3, <3>1
    <3>2. ASSUME NEW k \in {"JOIN", "PART"}, out' = [out EXCEPT ![u] = Append(@, <<k, rest[u].n>>)]
          PROVE  Wires
      <4>1. Append(out[u], <<k, rest[u].n>>) \in Seq({"JOIN", "PART"} \X Names)
        BY <1>f, <1>h, <2>1
      <4> QED BY <1>b, <2>3, <3>2, <4>1
    <3> QED BY <2>3, <3>1, <3>2
  <2>5. UNCHANGED <<handler, up, joined, inbox>>
    BY <1>1 DEF JoinChannel, PartChannel
  <2> QED BY <2>2, <2>3, <2>4, <2>5, <1>a, <1>b DEF LinkInv
<1>2. ASSUME NEW u \in Users, NEW n \in Names,
             CreateChannel(u, n) \/ RemoveChannel(u, n) \/ Registered(u, n)
      PROVE  Others /\ Wires /\ LinkInv'
  <2>1. UNCHANGED <<up, joined, out, inbox, handler, pendingJoins>>
    BY <1>2 DEF CreateChannel, RemoveChannel, Registered, upstream
  <2>2. /\ auto' \in [Users -> SUBSET Names] /\ raced' \in BOOLEAN
        /\ \/ rest' = rest
           \/ \E r \in Rests : r.n \in Names /\ rest' = [rest EXCEPT ![u] = r]
    <3>1. auto' \in [Users -> SUBSET Names] /\ raced' \in BOOLEAN
      <4>1. CASE CreateChannel(u, n)
        BY <1>a, <4>1 DEF CreateChannel, Op, MembershipAddChannel
      <4>2. CASE RemoveChannel(u, n)
        BY <1>a, <4>2 DEF RemoveChannel, Op, MembershipRemoveChannel
      <4>3. CASE Registered(u, n)
        BY <1>a, <4>3 DEF Registered
      <4> QED BY <1>2, <4>1, <4>2, <4>3
    <3>2. \/ rest' = rest
          \/ rest' = [rest EXCEPT ![u] = [pc |-> "join", n |-> n]]
          \/ rest' = [rest EXCEPT ![u] = [pc |-> "part", n |-> n]]
      BY <1>2 DEF CreateChannel, RemoveChannel, Registered
    <3>3. /\ [pc |-> "join", n |-> n] \in Rests /\ [pc |-> "join", n |-> n].n \in Names
          /\ [pc |-> "part", n |-> n] \in Rests /\ [pc |-> "part", n |-> n].n \in Names
      BY <1>h
    <3> QED BY <3>1, <3>2, <3>3
  <2>3. Others
    BY <1>a, <2>1, <2>2
  <2> QED BY <1>b, <2>1, <2>3 DEF LinkInv
<1>3. ASSUME NEW u \in Users, HandleJoin(u) \/ HandlePart(u) \/ RollbackJoin(u) PROVE Others /\ Wires /\ LinkInv'
  <2>1. inbox[u] # <<>> /\ Head(inbox[u])[1] \in {"JOIN", "PART", "ERR"} /\ inbox' = [inbox EXCEPT ![u] = Tail(@)]
    BY <1>3 DEF HandleJoin, HandlePart, RollbackJoin, Arrives
  <2>2. Head(inbox[u])[2] \in Names
    BY <1>d, <2>1, LineNames
  <2>4. UNCHANGED <<up, joined, out, handler, rest>> /\ raced' \in BOOLEAN
    BY <1>3, <1>a DEF HandleJoin, HandlePart, RollbackJoin
  <2>6. auto' \in [Users -> SUBSET Names] /\ pendingJoins' \in [Users -> SUBSET Names]
    <3>1. CASE HandleJoin(u)
      BY <1>a, <2>2, <3>1 DEF HandleJoin, MembershipAddChannel
    <3>2. CASE HandlePart(u)
      BY <1>a, <3>2 DEF HandlePart, MembershipRemoveChannel
    <3>3. CASE RollbackJoin(u)
      BY <1>a, <3>3 DEF RollbackJoin, MembershipRemoveChannel
    <3> QED BY <1>3, <3>1, <3>2, <3>3
  <2>3. Others
    BY <1>a, <2>4, <2>6
  <2>5. Wires
    BY <1>b, <1>d, <2>1, <2>4
  <2> QED BY <1>a, <1>b, <2>1, <2>3, <2>4, <2>5 DEF LinkInv
<1>4. ASSUME NEW u \in Users, ApplyRename(u) PROVE Others /\ Wires /\ LinkInv'
  <2>1. PICK line \in Lines : line = Head(inbox[u]) /\ line[1] = "RENAME" /\ inbox[u] # <<>>
    BY <1>4, <1>d DEF ApplyRename, Arrives
  <2>2. line[2] \in Names /\ line[3] \in Names
    BY <2>1, LineNames
  <2>3. PICK h : /\ h = [pc |-> "rename", snap |-> auto, old |-> line[2], new |-> line[3]]
                 /\ handler' = handler \/ handler' = [handler EXCEPT ![u] = h]
    BY <1>4, <2>1 DEF ApplyRename
  <2>4. h \in Handlers /\ h.old \in Names /\ h.new \in Names
    BY <1>a, <2>2, <2>3 DEF Handlers
  <2>5. UNCHANGED <<auto, pendingJoins, rest, up, joined, out>> /\ raced' \in BOOLEAN
        /\ inbox' = [inbox EXCEPT ![u] = Tail(@)]
    BY <1>4, <1>a DEF ApplyRename, Arrives
  <2>6. Others
    BY <1>a, <2>3, <2>4, <2>5
  <2>7. Wires
    BY <1>b, <1>d, <2>1, <2>5
  <2> QED BY <1>a, <1>b, <2>1, <2>3, <2>5, <2>6, <2>7 DEF LinkInv
<1>5. ASSUME NEW u \in Users, ApplyOwnNick(u) PROVE Others /\ Wires /\ LinkInv'
  <2>1. inbox[u] # <<>> /\ inbox' = [inbox EXCEPT ![u] = Tail(@)]
        /\ UNCHANGED <<auto, registry, pendingJoins, rest, up, joined, out, opsDone, raced>>
    BY <1>5 DEF ApplyOwnNick, Arrives
  <2>2. PICK h : h = [NoHandler EXCEPT !.pc = "nick", !.snap = auto] /\ handler' = [handler EXCEPT ![u] = h]
    BY <1>5 DEF ApplyOwnNick
  <2>3. h \in Handlers /\ h.pc = "nick"
    BY <1>a, <2>2 DEF Handlers, NoHandler
  <2>4. Others
    BY <1>a, <2>1, <2>2, <2>3
  <2>5. Wires
    BY <1>b, <1>d, <2>1
  <2> QED BY <1>a, <1>b, <2>1, <2>2, <2>4, <2>5 DEF LinkInv
<1>6. ASSUME NEW u \in Users, RenameMembers(u) \/ NickWrite(u) PROVE Others /\ Wires /\ LinkInv'
  <2>1. /\ handler' = [handler EXCEPT ![u] = NoHandler] /\ raced' \in BOOLEAN
        /\ UNCHANGED <<pendingJoins, rest, up, joined, out, inbox>>
    BY <1>6, <1>a DEF RenameMembers, NickWrite, upstream
  <2>2. /\ handler[u] \in Handlers /\ handler[u].snap \in [Users -> SUBSET Names]
        /\ handler[u].pc = "rename" => handler[u].new \in Names
    BY <1>a DEF Handlers
  <2>3. auto' \in [Users -> SUBSET Names]
    <3>1. CASE RenameMembers(u)
      BY <1>a, <2>2, <3>1 DEF RenameMembers
    <3>2. CASE NickWrite(u)
      BY <1>a, <2>2, <3>2 DEF NickWrite
    <3> QED BY <1>6, <3>1, <3>2
  <2>4. Others
    BY <1>a, <1>g, <2>1, <2>3
  <2> QED BY <1>a, <1>b, <2>1, <2>4 DEF LinkInv
<1>7. ASSUME NEW u \in Users, ConnectedRead(u) PROVE Others /\ Wires /\ LinkInv'
  <2>1. PICK h : h = [handler[u] EXCEPT !.pc = "rejoin", !.snap = auto] /\ handler' = [handler EXCEPT ![u] = h]
    BY <1>7 DEF ConnectedRead
  <2>2. h \in Handlers /\ h.pc = "rejoin"
    BY <1>a, <2>1 DEF Handlers
  <2>3. UNCHANGED <<auto, pendingJoins, rest, up, joined, out, inbox, raced>> /\ handler[u].pc = "connected"
    BY <1>7 DEF ConnectedRead, upstream
  <2>4. Others
    BY <1>a, <2>1, <2>2, <2>3
  <2>5. up[u]
    BY <1>g, <2>3 DEF LinkInv
  <2> QED BY <1>a, <1>b, <2>1, <2>3, <2>4, <2>5 DEF LinkInv
<1>8. ASSUME NEW u \in Users, NEW b \in BOOLEAN, ConnectedJoin(u, b) PROVE Others /\ Wires /\ LinkInv'
  <2>1. handler[u].snap \in [Users -> SUBSET Names] /\ handler[u].snap[u] \in SUBSET Names
    BY ZenonT(60), <1>a DEF Handlers
  <2>2. PICK q \in Seq({"JOIN", "PART"} \X Names) : out' = [out EXCEPT ![u] = @ \o q]
    BY <1>8, <2>1, Rejoins DEF ConnectedJoin
  <2>3. /\ handler[u].pc = "rejoin" /\ handler' = [handler EXCEPT ![u] = NoHandler]
        /\ raced' \in BOOLEAN /\ UNCHANGED <<rest, up, joined, inbox>>
    BY <1>8, <1>a DEF ConnectedJoin
  <2>4. auto' \in [Users -> SUBSET Names] /\ pendingJoins' \in [Users -> SUBSET Names]
    BY <1>8, <1>a, <2>1 DEF ConnectedJoin
  <2>5. Others
    BY <1>a, <1>g, <2>3, <2>4
  <2>6. out[u] \o q \in Seq({"JOIN", "PART"} \X Names)
    BY <1>b, <2>2, ConcatProperties
  <2>7. Wires
    BY <1>b, <2>2, <2>3, <2>6
  <2>8. up[u]
    BY <1>g, <2>3 DEF LinkInv
  <2> QED BY <1>a, <1>b, <2>2, <2>3, <2>5, <2>7, <2>8 DEF LinkInv
<1>9. ASSUME NEW u \in Users, NEW b \in BOOLEAN, ServerCommand(u, b) PROVE Others /\ Wires /\ LinkInv'
  <2>1. PICK n : n = Head(out[u])[2]
    OBVIOUS
  <2>2. /\ out[u] # <<>> /\ out' = [out EXCEPT ![u] = Tail(@)]
        /\ UNCHANGED <<auto, pendingJoins, rest, handler, up, raced>>
        /\ \/ UNCHANGED <<joined, inbox>>
           \/ \E k \in {"JOIN", "PART", "ERR"} : inbox' = [inbox EXCEPT ![u] = Append(@, <<k, n>>)]
        /\ \/ joined' = joined \/ joined' = [joined EXCEPT ![u] = @ \cup {n}]
           \/ joined' = [joined EXCEPT ![u] = @ \ {n}]
    BY <1>9, <2>1 DEF ServerCommand, Deliver
  <2>3. n \in Names
    BY <1>c, <2>1, <2>2
  <2>4. Others
    BY <1>a, <2>2, <2>3
  <2>5. Wires
    <3>1. out' \in [Users -> Seq({"JOIN", "PART"} \X Names)]
      BY <1>b, <1>c, <2>2
    <3>2. inbox' \in [Users -> Seq(Lines)]
      <4>1. ASSUME NEW k \in {"JOIN", "PART", "ERR"}, inbox' = [inbox EXCEPT ![u] = Append(@, <<k, n>>)]
            PROVE  inbox' \in [Users -> Seq(Lines)]
        <5>1. Append(inbox[u], <<k, n>>) \in Seq(Lines)
          BY <1>e, <1>h, <2>3
        <5> QED BY <1>b, <4>1, <5>1
      <4> QED BY <1>b, <2>2, <4>1
    <3> QED BY <3>1, <3>2
  <2>6. up[u]
    BY <2>2 DEF LinkInv
  <2> QED BY <1>a, <1>b, <2>2, <2>4, <2>5, <2>6 DEF LinkInv
<1>10. ASSUME NEW u \in Users, NEW n \in Names, ServerForces(u, n) PROVE Others /\ Wires /\ LinkInv'
  <2>1. /\ up[u] /\ UNCHANGED <<auto, pendingJoins, rest, handler, up, out>> /\ raced' \in BOOLEAN
        /\ \E k \in {"JOIN", "PART"} : inbox' = [inbox EXCEPT ![u] = Append(@, <<k, n>>)]
        /\ \/ joined' = [joined EXCEPT ![u] = @ \cup {n}]
           \/ joined' = [joined EXCEPT ![u] = @ \ {n}]
    BY <1>10, <1>a DEF ServerForces, Deliver, Op
  <2>2. Others
    BY <1>a, <2>1
  <2>3. Wires
    <3>1. PICK k \in {"JOIN", "PART"} : inbox' = [inbox EXCEPT ![u] = Append(@, <<k, n>>)]
      BY <2>1
    <3>2. Append(inbox[u], <<k, n>>) \in Seq(Lines)
      BY <1>e, <1>h
    <3> QED BY <1>b, <2>1, <3>1, <3>2
  <2> QED BY <1>a, <1>b, <2>1, <2>2, <2>3 DEF LinkInv
<1>11. ASSUME NEW old \in Names, NEW new \in Names, ServerRename(old, new) PROVE Others /\ Wires /\ LinkInv'
  <2>1. /\ UNCHANGED <<auto, pendingJoins, rest, handler, up, out>> /\ raced' \in BOOLEAN
        /\ joined' = [u \in Users |-> IF old \in joined[u] THEN (joined[u] \ {old}) \cup {new} ELSE joined[u]]
        /\ inbox' = [u \in Users |-> IF old \in joined[u] THEN Append(inbox[u], <<"RENAME", old, new>>)
                                     ELSE inbox[u]]
    <3>1. \A u \in Users : u \in {v \in Users : old \in joined[v]} <=> old \in joined[u]
      OBVIOUS
    <3> QED BY <1>11, <1>a, <3>1 DEF ServerRename
  <2>2. joined' \in [Users -> SUBSET Names]
    BY <1>a, <2>1
  <2>3. Others
    BY <1>a, <2>1, <2>2
  <2>4. \A u \in Users : inbox'[u] \in Seq(Lines)
    BY <1>b, <1>e, <1>h, <2>1
  <2>5. Wires
    BY <1>b, <2>1, <2>4
  <2> QED BY <1>a, <1>b, <2>1, <2>3, <2>5 DEF LinkInv
<1>12. ASSUME NEW u \in Users, ServerNick(u) PROVE Others /\ Wires /\ LinkInv'
  <2>1. /\ up[u] /\ UNCHANGED <<auto, pendingJoins, rest, handler, up, joined, out>> /\ raced' \in BOOLEAN
        /\ inbox' = [inbox EXCEPT ![u] = Append(@, <<"NICK", "">>)]
    BY <1>12, <1>a DEF ServerNick, Deliver, Op
  <2>2. Wires
    BY <1>b, <1>e, <1>i, <2>1
  <2> QED BY <1>a, <1>b, <2>1, <2>2 DEF LinkInv
<1>13. ASSUME NEW u \in Users, LinkDrops(u) PROVE Others /\ Wires /\ LinkInv'
  <2>1. /\ handler[u] = NoHandler /\ UNCHANGED <<auto, pendingJoins, rest, handler>> /\ raced' \in BOOLEAN
        /\ up' = [up EXCEPT ![u] = FALSE] /\ joined' = [joined EXCEPT ![u] = {}]
        /\ out' = [out EXCEPT ![u] = <<>>] /\ inbox' = [inbox EXCEPT ![u] = <<>>]
    BY <1>13, <1>a DEF LinkDrops, Op
  <2>2. Others
    BY <1>a, <2>1
  <2>3. Wires
    BY <1>b, <1>j, <2>1
  <2> QED BY <1>a, <1>b, <2>1, <2>2, <2>3 DEF LinkInv
<1>14. ASSUME NEW u \in Users, LinkReturns(u) PROVE Others /\ Wires /\ LinkInv'
  <2>1. PICK h : h = [NoHandler EXCEPT !.pc = "connected"] /\ handler' = [handler EXCEPT ![u] = h]
    BY <1>14 DEF LinkReturns
  <2>2. h \in Handlers /\ h.pc = "connected"
    BY <1>g, <2>1 DEF Handlers, NoHandler
  <2>3. /\ up' = [up EXCEPT ![u] = TRUE] /\ UNCHANGED <<auto, pendingJoins, rest, joined, out, inbox>>
        /\ raced' \in BOOLEAN
    BY <1>14, <1>a DEF LinkReturns
  <2>4. Others
    BY <1>a, <2>1, <2>2, <2>3
  <2> QED BY <1>a, <1>b, <2>1, <2>3, <2>4 DEF LinkInv
<1>15. Others /\ Wires /\ LinkInv'
  <2> HIDE DEF Others, Wires
  <2> QED BY <1>1, <1>2, <1>3, <1>4, <1>5, <1>6, <1>7, <1>8, <1>9, <1>10, <1>11, <1>12, <1>13, <1>14
          DEF ChannelNext, EventLoop
<1> QED BY <1>15, ChannelRegistryApart DEF ChannelTypes

\* A user whose connection and memberships a step leaves alone.
LEMMA FineStands ==
    ASSUME NEW v \in Users, Fine(v), auto'[v] = auto[v], joined'[v] = joined[v], rest'[v] = rest[v],
           handler'[v] = handler[v], up'[v] = up[v], out'[v] = out[v], inbox'[v] = inbox[v]
    PROVE  Fine(v)'
BY DEF Fine, NoRename, Flows, WillJoin, WillPart

\* While nothing is being renamed, every step of a connection keeps list and
\* server together.
LEMMA FineKept ==
    ASSUME ChannelTypes, ChannelTypes', LinkInv, ~raced', \A v \in Users : Fine(v), NEW u \in Users,
           \A v \in Users \ {u} : /\ auto'[v] = auto[v] /\ joined'[v] = joined[v] /\ rest'[v] = rest[v]
                                  /\ handler'[v] = handler[v] /\ up'[v] = up[v]
                                  /\ out'[v] = out[v] /\ inbox'[v] = inbox[v],
           Fine(u)'
    PROVE  \A v \in Users : Fine(v)'
BY FineStands

\* Requests: the list changes, and the command that follows it is owed.
LEMMA FineRequests ==
    ASSUME ChannelTypes, NEW u \in Users, Fine(u), NEW n \in Names,
           CreateChannel(u, n) \/ RemoveChannel(u, n) \/ Registered(u, n)
    PROVE  Fine(u)'
<1>1. inbox' = inbox /\ joined' = joined /\ up' = up /\ out' = out /\ handler' = handler
  BY DEF CreateChannel, RemoveChannel, Registered, upstream
<1>2. \/ auto'[u] = auto[u] \cup {n} /\ rest'[u] = [pc |-> "join", n |-> n] /\ rest[u] = NoRest
      \/ auto'[u] = auto[u] \ {n} /\ rest'[u] = [pc |-> "part", n |-> n] /\ rest[u] = NoRest
      \/ auto' = auto /\ rest' = rest
  BY DEF CreateChannel, RemoveChannel, Registered, MembershipAddChannel, MembershipRemoveChannel, ChannelTypes
<1>3. ASSUME NEW m \in Names PROVE Flows(u, m)'
  <2>1. LastSays(inbox[u], m, joined[u])' /\ (Heard(inbox[u], m)' <=> Heard(inbox[u], m))
    BY <1>1 DEF Fine, Flows
  <2>2. /\ up[u] /\ ~Heard(inbox[u], m) /\ m \in auto'[u] \ joined[u] => WillJoin(u, m)'
        /\ up[u] /\ ~Heard(inbox[u], m) /\ m \in joined[u] \ auto'[u] => WillPart(u, m)'
    <3>1. /\ up[u] /\ ~Heard(inbox[u], m) /\ m \in auto[u] \ joined[u] => WillJoin(u, m)
          /\ up[u] /\ ~Heard(inbox[u], m) /\ m \in joined[u] \ auto[u] => WillPart(u, m)
      BY DEF Fine, Flows
    <3>2. CASE auto'[u] = auto[u] \cup {n} /\ rest'[u] = [pc |-> "join", n |-> n] /\ rest[u] = NoRest
      <4>1. rest'[u].pc = "join" /\ rest'[u].n = n /\ rest[u].pc = "none"
        <5>1. rest'[u] = [pc |-> "join", n |-> n] /\ rest[u] = NoRest
          BY <3>2
        <5>2. NoRest.pc = "none"
          BY DEF NoRest
        <5> QED BY <5>1, <5>2
      <4>2. auto'[u] = auto[u] \cup {n}
        BY <3>2
      <4> QED BY <1>1, <3>1, <4>1, <4>2 DEF WillJoin, WillPart
    <3>3. CASE auto'[u] = auto[u] \ {n} /\ rest'[u] = [pc |-> "part", n |-> n] /\ rest[u] = NoRest
      <4>1. rest'[u].pc = "part" /\ rest'[u].n = n /\ rest[u].pc = "none"
        <5>1. rest'[u] = [pc |-> "part", n |-> n] /\ rest[u] = NoRest
          BY <3>3
        <5>2. NoRest.pc = "none"
          BY DEF NoRest
        <5> QED BY <5>1, <5>2
      <4>2. auto'[u] = auto[u] \ {n}
        BY <3>3
      <4> QED BY <1>1, <3>1, <4>1, <4>2 DEF WillJoin, WillPart
    <3>4. CASE auto' = auto /\ rest' = rest
      BY <1>1, <3>1, <3>4 DEF WillJoin, WillPart
    <3> QED BY <1>2, <3>2, <3>3, <3>4
  <2> QED BY <1>1, <2>1, <2>2 DEF Flows
<1> QED BY <1>1, <1>3 DEF Fine, NoRename

\* The command is sent.
LEMMA FineSends ==
    ASSUME ChannelTypes, NEW u \in Users, Fine(u), JoinChannel(u) \/ PartChannel(u)
    PROVE  Fine(u)'
<1>1. inbox' = inbox /\ joined' = joined /\ up' = up /\ auto' = auto /\ handler' = handler
  BY DEF JoinChannel, PartChannel
<1>2. PICK cmd \in {"JOIN", "PART"}, n \in Names :
        /\ rest[u].pc = (IF cmd = "JOIN" THEN "join" ELSE "part") /\ rest[u].n = n /\ rest'[u] = NoRest
        /\ up[u] => out'[u] = Append(out[u], <<cmd, n>>)
  <2>1. rest[u].pc \in {"join", "part"} => rest[u].n \in Names
    <3>1. NoRest.pc = "none" /\ (rest[u] # NoRest => rest[u].n \in Names)
      BY DEF ChannelTypes, NoRest
    <3> QED BY <3>1
  <2>2. CASE JoinChannel(u)
    BY <2>1, <2>2 DEF JoinChannel, Send, ChannelTypes
  <2>3. CASE PartChannel(u)
    BY <2>1, <2>3 DEF PartChannel, Send, ChannelTypes
  <2> QED BY <2>2, <2>3
<1>3. ASSUME NEW m \in Names PROVE Flows(u, m)'
  <2>1. LastSays(inbox[u], m, joined[u])' /\ (Heard(inbox[u], m)' <=> Heard(inbox[u], m))
    BY <1>1 DEF Fine, Flows
  <2>2. ASSUME up[u], NEW c \in {"JOIN", "PART"}
        PROVE  /\ Has(out[u], c, m) => Has(out'[u], c, m)
               /\ c = cmd /\ m = n => Has(out'[u], c, m)
    <3>1. out[u] \in Seq({"JOIN", "PART"} \X Names) /\ <<cmd, n>> \in {"JOIN", "PART"} \X Names
      BY DEF ChannelTypes
    <3> QED BY <1>2, <2>2, <3>1, HasAppend
  <2>3. up[u] /\ WillJoin(u, m) => WillJoin(u, m)'
    BY <1>1, <1>2, <2>2 DEF WillJoin
  <2>4. up[u] /\ WillPart(u, m) => WillPart(u, m)'
    BY <1>1, <1>2, <2>2 DEF WillPart
  <2> QED BY <1>1, <2>1, <2>3, <2>4 DEF Fine, Flows
<1> QED BY <1>1, <1>3 DEF Fine, NoRename

\* A line is handled: the last one about a channel leaves the list as the
\* server has it.
LEMMA FineHears ==
    ASSUME ChannelTypes, NEW u \in Users, Fine(u), ~raced',
           HandleJoin(u) \/ HandlePart(u) \/ RollbackJoin(u)
    PROVE  Fine(u)'
<1>1. joined' = joined /\ up' = up /\ out' = out /\ rest' = rest /\ handler' = handler
  BY DEF HandleJoin, HandlePart, RollbackJoin
<1>2. PICK q \in Seq(Lines) : q = inbox[u]
  BY DEF ChannelTypes
<1>3. q # <<>> /\ inbox'[u] = Tail(q)
  BY <1>2 DEF HandleJoin, HandlePart, RollbackJoin, Arrives, ChannelTypes
<1>4. PICK n : n = Head(q)[2]
  OBVIOUS
<1>5. /\ About(Head(q), n) /\ \A m \in Names : m # n => ~About(Head(q), m)
      /\ \A m \in Names : m # n => (m \in auto'[u] <=> m \in auto[u])
      /\ n \in auto'[u] <=> Head(q)[1] = "JOIN"
  <2>1. CASE HandleJoin(u)
    BY <1>2, <1>4, <2>1 DEF HandleJoin, Arrives, MembershipAddChannel, About, ChannelTypes
  <2>2. CASE HandlePart(u)
    BY <1>2, <1>4, <2>2 DEF HandlePart, Arrives, MembershipRemoveChannel, About, ChannelTypes
  <2>3. CASE RollbackJoin(u)
    <3>1. /\ Head(q)[1] = "ERR" /\ raced' = (raced \/ n \in auto[u] \ pendingJoins[u])
          /\ IF n \in pendingJoins[u] THEN auto' = [auto EXCEPT ![u] = @ \ {n}] ELSE auto' = auto
      BY <1>2, <1>4, <2>3 DEF RollbackJoin, Arrives, MembershipRemoveChannel
    <3>2. /\ n \notin auto'[u] /\ \A m \in Names : m # n => (m \in auto'[u] <=> m \in auto[u])
      BY <3>1 DEF ChannelTypes
    <3> QED BY <1>4, <3>1, <3>2 DEF About
  <2> QED BY <2>1, <2>2, <2>3
<1>6. ASSUME NEW m \in Names PROVE Flows(u, m)'
  <2>1. /\ LastSays(q, m, joined[u]) /\ LastSays(Tail(q), m, joined[u])
        /\ Heard(q, m) /\ ~Heard(Tail(q), m) => About(Head(q), m) /\ (Head(q)[1] = "JOIN" <=> m \in joined[u])
    <3>1. LastSays(q, m, joined[u])
      BY <1>2 DEF Fine, Flows
    <3> QED BY <1>3, <3>1, SaysTail
  <2>2. ASSUME ~Heard(Tail(q), m), up[u], Heard(q, m) PROVE m \in auto'[u] <=> m \in joined[u]
    BY <1>5, <2>1, <2>2
  <2>3. ASSUME ~Heard(Tail(q), m), up[u], ~Heard(q, m)
        PROVE  /\ m \in auto'[u] \ joined[u] => WillJoin(u, m)
               /\ m \in joined[u] \ auto'[u] => WillPart(u, m)
    <3>1. CASE m = n
      <4>1. 1 \in 1..Len(q) /\ Head(q) = q[1]
        BY <1>3, LineTail
      <4> QED BY <1>5, <2>3, <3>1, <4>1 DEF Heard
    <3>2. CASE m # n
      BY <1>2, <1>5, <2>3, <3>2 DEF Fine, Flows
    <3> QED BY <3>1, <3>2
  <2>4. (WillJoin(u, m)' <=> WillJoin(u, m)) /\ (WillPart(u, m)' <=> WillPart(u, m))
    BY <1>1 DEF WillJoin, WillPart
  <2> QED BY <1>1, <1>3, <2>1, <2>2, <2>3, <2>4 DEF Flows
<1>7. NoRename(u)'
  <2>1. \A i \in 1..Len(Tail(q)) : i + 1 \in 1..Len(q) /\ Tail(q)[i] = q[i + 1]
    BY <1>3, SaysTail
  <2> QED BY <1>1, <1>2, <1>3, <2>1 DEF Fine, NoRename
<1> QED BY <1>6, <1>7 DEF Fine

\* The nick changes: the membership is read and written back as it was.
LEMMA FineNick ==
    ASSUME ChannelTypes, NEW u \in Users, Fine(u), ~raced', ApplyOwnNick(u) \/ NickWrite(u)
    PROVE  Fine(u)'
<1>1. CASE ApplyOwnNick(u)
  <2>1. PICK q \in Seq(Lines) : q = inbox[u]
    BY DEF ChannelTypes
  <2>2. /\ q # <<>> /\ Head(q)[1] = "NICK" /\ inbox'[u] = Tail(q) /\ handler[u] = NoHandler
        /\ joined' = joined /\ up' = up /\ out' = out /\ rest' = rest /\ auto' = auto
        /\ handler'[u] = [NoHandler EXCEPT !.pc = "nick", !.snap = auto]
    BY <1>1, <2>1 DEF ApplyOwnNick, Arrives, ChannelTypes
  <2>3. handler[u].pc = "none" /\ handler'[u].pc = "nick"
    <3>1. NoHandler.pc = "none" /\ NoHandler \in [pc : {"none"}, snap : {NoHandler.snap}, old : {""}, new : {""}]
      BY DEF NoHandler
    <3> QED BY <2>2, <3>1
  <2>4. ASSUME NEW m \in Names PROVE Flows(u, m)'
    <3>1. LastSays(q, m, joined[u]) /\ ~About(Head(q), m)
      BY <2>1, <2>2 DEF Fine, Flows, About
    <3>2. LastSays(Tail(q), m, joined[u]) /\ (~Heard(Tail(q), m) => ~Heard(q, m))
      BY <2>2, <3>1, SaysTail
    <3>3. (WillJoin(u, m) => WillJoin(u, m)') /\ (WillPart(u, m) => WillPart(u, m)')
      BY <2>2, <2>3 DEF WillJoin, WillPart
    <3> QED BY <2>1, <2>2, <3>2, <3>3 DEF Fine, Flows
  <2>5. \A i \in 1..Len(Tail(q)) : i + 1 \in 1..Len(q) /\ Tail(q)[i] = q[i + 1]
    BY <2>2, SaysTail
  <2>6. NoRename(u)'
    BY <2>1, <2>2, <2>3, <2>5 DEF Fine, NoRename
  <2> QED BY <2>4, <2>6 DEF Fine
<1>2. CASE NickWrite(u)
  <2>1. /\ inbox' = inbox /\ joined' = joined /\ up' = up /\ out' = out /\ rest' = rest
        /\ auto'[u] = auto[u] /\ handler[u].pc = "nick" /\ handler'[u].pc = "none"
    BY <1>2 DEF NickWrite, upstream, NoHandler, ChannelTypes
  <2>2. ASSUME NEW m \in Names PROVE Flows(u, m)'
    <3>1. (WillJoin(u, m) => WillJoin(u, m)') /\ (WillPart(u, m) => WillPart(u, m)')
      BY <2>1 DEF WillJoin, WillPart
    <3> QED BY <2>1, <3>1 DEF Fine, Flows
  <2>3. NoRename(u)'
    BY <2>1 DEF Fine, NoRename
  <2> QED BY <2>2, <2>3 DEF Fine
<1> QED BY <1>1, <1>2

\* A reconnection joins what it read of the list.
LEMMA FineReconnects ==
    ASSUME ChannelTypes, NEW u \in Users, Fine(u), ~raced',
           ConnectedRead(u) \/ \E b \in BOOLEAN : ConnectedJoin(u, b)
    PROVE  Fine(u)'
<1>1. CASE ConnectedRead(u)
  <2>1. /\ inbox' = inbox /\ joined' = joined /\ up' = up /\ out' = out /\ rest' = rest /\ auto' = auto
        /\ handler'[u] = [handler[u] EXCEPT !.pc = "rejoin", !.snap = auto]
    BY <1>1 DEF ConnectedRead, upstream, ChannelTypes
  <2>2. handler'[u].pc = "rejoin" /\ handler'[u].snap = auto
    BY ZenonT(60), <2>1 DEF ChannelTypes, Handlers
  <2>3. ASSUME NEW m \in Names PROVE Flows(u, m)'
    <3>1. /\ m \in auto[u] => WillJoin(u, m)'
          /\ WillPart(u, m) => WillPart(u, m)'
      BY <2>1, <2>2 DEF WillJoin, WillPart
    <3> QED BY <2>1, <3>1 DEF Fine, Flows
  <2>4. NoRename(u)'
    BY <2>1, <2>2 DEF Fine, NoRename
  <2> QED BY <2>3, <2>4 DEF Fine
<1>2. ASSUME NEW b \in BOOLEAN, ConnectedJoin(u, b) PROVE Fine(u)'
  <2>1. PICK snap \in SUBSET Names : snap = handler[u].snap[u]
    <3>1. handler[u] \in Handlers
      BY DEF ChannelTypes
    <3>2. handler[u].snap \in [Users -> SUBSET Names]
      BY <3>1 DEF Handlers
    <3> QED BY <3>2
  <2> DEFINE q == [k \in 1 .. Cardinality(snap) |-> <<"JOIN", SetToSeq(snap)[k]>>]
  <2>2. /\ inbox' = inbox /\ joined' = joined /\ up' = up /\ rest' = rest /\ auto'[u] = auto[u]
        /\ handler[u].pc = "rejoin" /\ handler'[u].pc = "none" /\ out'[u] = out[u] \o q
    BY <1>2, <2>1 DEF ConnectedJoin, NoHandler, ChannelTypes
  <2>3. q \in Seq({"JOIN", "PART"} \X Names) /\ \A n \in snap : Has(q, "JOIN", n)
    BY <2>1, Rejoins
  <2> HIDE DEF q
  <2>4. out[u] \in Seq({"JOIN", "PART"} \X Names)
    BY DEF ChannelTypes
  <2>5. /\ Len(out'[u]) = Len(out[u]) + Len(q) /\ Len(out[u]) \in Nat /\ Len(q) \in Nat
        /\ \A i \in 1..Len(out[u]) : out'[u][i] = out[u][i]
        /\ \A i \in 1..Len(q) : out'[u][Len(out[u]) + i] = q[i]
    <3>1. Len(out[u]) \in Nat /\ Len(q) \in Nat
      BY <2>3, <2>4, LenProperties
    <3>2. /\ Len(out[u] \o q) = Len(out[u]) + Len(q)
          /\ \A i \in 1 .. Len(out[u]) + Len(q) :
               (out[u] \o q)[i] = IF i <= Len(out[u]) THEN out[u][i] ELSE q[i - Len(out[u])]
      BY <2>3, <2>4, ConcatProperties
    <3>3. \A i \in 1..Len(out[u]) : i \in 1 .. Len(out[u]) + Len(q) /\ i <= Len(out[u])
      BY <3>1
    <3>4. \A i \in 1..Len(q) : /\ Len(out[u]) + i \in 1 .. Len(out[u]) + Len(q)
                               /\ ~(Len(out[u]) + i <= Len(out[u])) /\ Len(out[u]) + i - Len(out[u]) = i
      BY <3>1
    <3> QED BY <2>2, <3>1, <3>2, <3>3, <3>4
  <2>6. ASSUME NEW m \in Names, NEW c
        PROVE  Has(out[u], c, m) \/ Has(q, c, m) => Has(out'[u], c, m)
    <3>1. /\ \A i \in 1..Len(out[u]) : i \in 1..Len(out'[u])
          /\ \A i \in 1..Len(q) : Len(out[u]) + i \in 1..Len(out'[u])
      BY <2>5
    <3> QED BY <2>5, <3>1 DEF Has
  <2>7. ASSUME NEW m \in Names PROVE Flows(u, m)'
    <3>1. WillJoin(u, m) => WillJoin(u, m)'
      BY <2>1, <2>2, <2>3, <2>6 DEF WillJoin
    <3>2. WillPart(u, m) => WillPart(u, m)'
      BY <2>2, <2>6 DEF WillPart
    <3> QED BY <2>2, <3>1, <3>2 DEF Fine, Flows
  <2>8. NoRename(u)'
    BY <2>2 DEF Fine, NoRename
  <2> QED BY <2>7, <2>8 DEF Fine
<1> QED BY <1>1, <1>2

\* The server says what it does, and does nothing it need not say.
LEMMA FineServer ==
    ASSUME ChannelTypes, NEW u \in Users, Fine(u),
           \/ \E b \in BOOLEAN : ServerCommand(u, b)
           \/ \E n \in Names : ServerForces(u, n)
    PROVE  Fine(u)'
<1>1. auto' = auto /\ rest' = rest /\ handler' = handler /\ up' = up
  BY DEF ServerCommand, ServerForces
<1>2. PICK q \in Seq(Lines) : q = inbox[u]
  BY DEF ChannelTypes
<1>3. PICK p \in Seq({"JOIN", "PART"} \X Names) : p = out[u]
  BY DEF ChannelTypes
<1>4. ASSUME NEW n \in Names, NEW e \in Lines, inbox'[u] = Append(q, e), About(e, n),
             e[1] = "JOIN" <=> n \in joined'[u],
             \A m \in Names : m # n => (m \in joined'[u] <=> m \in joined[u]),
             \A m \in Names, c \in {"JOIN", "PART"} : m # n /\ Has(p, c, m) => Has(out'[u], c, m)
      PROVE  Fine(u)'
  <2>1. ASSUME NEW m \in Names PROVE Flows(u, m)'
    <3>1. CASE m = n
      <4>1. LastSays(Append(q, e), m, joined'[u]) /\ Heard(Append(q, e), m)
        BY <1>4, <3>1, SaysAppend
      <4> QED BY <1>4, <4>1 DEF Flows
    <3>2. CASE m # n
      <4>1. ~About(e, m)
        BY <1>4, <3>2 DEF About
      <4>2. LastSays(q, m, joined'[u])
        BY <1>2, <1>4, <3>2 DEF Fine, Flows, LastSays
      <4>3. LastSays(Append(q, e), m, joined'[u]) /\ (Heard(Append(q, e), m) <=> Heard(q, m))
        BY <4>1, <4>2, SaysAppend
      <4>4. (WillJoin(u, m) => WillJoin(u, m)') /\ (WillPart(u, m) => WillPart(u, m)')
        BY <1>1, <1>3, <1>4, <3>2 DEF WillJoin, WillPart
      <4> QED BY <1>1, <1>2, <1>4, <3>2, <4>3, <4>4 DEF Fine, Flows
    <3> QED BY <3>1, <3>2
  <2>2. /\ Len(Append(q, e)) = Len(q) + 1 /\ Len(q) \in Nat /\ Append(q, e)[Len(q) + 1] = e
        /\ \A i \in 1..Len(q) : Append(q, e)[i] = q[i]
    BY LineAppend
  <2>3. e[1] # "RENAME"
    BY <1>4 DEF About
  <2>4. NoRename(u)'
    BY <1>1, <1>2, <1>4, <2>2, <2>3 DEF Fine, NoRename
  <2> QED BY <2>1, <2>4 DEF Fine
<1>5. ASSUME NEW n \in Names, ServerForces(u, n) PROVE Fine(u)'
  <2>1. out' = out
    BY <1>5 DEF ServerForces
  <2>2. PICK k \in {"JOIN", "PART"} :
          /\ inbox'[u] = Append(q, <<k, n>>) /\ (k = "JOIN" <=> n \in joined'[u])
          /\ \A m \in Names : m # n => (m \in joined'[u] <=> m \in joined[u])
    BY <1>2, <1>5 DEF ServerForces, Deliver, ChannelTypes
  <2>3. PICK e : e = <<k, n>>
    OBVIOUS
  <2>4. e \in Lines /\ About(e, n) /\ e[1] = k
    BY <2>3 DEF Lines, About
  <2> QED BY <1>3, <1>4, <2>1, <2>2, <2>3, <2>4
<1>6. ASSUME NEW b \in BOOLEAN, ServerCommand(u, b) PROVE Fine(u)'
  <2>1. PICK cmd \in {"JOIN", "PART"}, n \in Names : Head(p) = <<cmd, n>>
    BY <1>3, <1>6, LineTail DEF ServerCommand
  <2>2. p # <<>> /\ out'[u] = Tail(p)
    BY <1>3, <1>6 DEF ServerCommand, ChannelTypes
  <2>3. ASSUME NEW m \in Names, NEW c \in {"JOIN", "PART"}, Has(p, c, m), m # n \/ c # cmd
        PROVE  Has(out'[u], c, m)
    <3>1. Head(p) # <<c, m>>
      BY <2>1, <2>3
    <3> QED BY <2>2, <2>3, <3>1, HasTail
  <2>4. \/ /\ joined' = joined /\ inbox' = inbox
           /\ cmd = "JOIN" <=> n \in joined[u]
        \/ \E k \in {"JOIN", "PART", "ERR"} :
             /\ inbox'[u] = Append(q, <<k, n>>) /\ (k = "JOIN" <=> n \in joined'[u])
             /\ \A m \in Names : m # n => (m \in joined'[u] <=> m \in joined[u])
    <3>1. Head(out[u])[1] = cmd /\ Head(out[u])[2] = n
      BY <1>3, <2>1
    <3>2. CASE cmd = "JOIN" /\ n \notin joined[u] /\ b
      BY <1>2, <1>6, <3>1, <3>2 DEF ServerCommand, Deliver, ChannelTypes
    <3>3. CASE cmd = "JOIN" /\ n \notin joined[u] /\ ~b
      BY <1>2, <1>6, <3>1, <3>3 DEF ServerCommand, Deliver, ChannelTypes
    <3>4. CASE cmd = "PART" /\ n \in joined[u]
      BY <1>2, <1>6, <3>1, <3>4 DEF ServerCommand, Deliver, ChannelTypes
    <3>5. CASE cmd = "JOIN" <=> n \in joined[u]
      <4>1. joined' = joined /\ inbox' = inbox
        BY <1>6, <3>1, <3>5 DEF ServerCommand
      <4> QED BY <3>5, <4>1
    <3> QED BY <3>2, <3>3, <3>4, <3>5
  <2>5. CASE joined' = joined /\ inbox' = inbox /\ (cmd = "JOIN" <=> n \in joined[u])
    <3>1. ASSUME NEW m \in Names PROVE Flows(u, m)'
      <4>1. /\ m # n \/ cmd = "PART" => (WillJoin(u, m) => WillJoin(u, m)')
            /\ m # n \/ cmd = "JOIN" => (WillPart(u, m) => WillPart(u, m)')
        BY <1>1, <1>3, <2>3 DEF WillJoin, WillPart
      <4> QED BY <1>1, <2>5, <4>1 DEF Fine, Flows
    <3>2. NoRename(u)'
      BY <1>1, <2>5 DEF Fine, NoRename
    <3> QED BY <3>1, <3>2 DEF Fine
  <2>6. ASSUME NEW k \in {"JOIN", "PART", "ERR"}, inbox'[u] = Append(q, <<k, n>>),
               k = "JOIN" <=> n \in joined'[u],
               \A m \in Names : m # n => (m \in joined'[u] <=> m \in joined[u])
        PROVE  Fine(u)'
    <3>1. PICK e : e = <<k, n>>
      OBVIOUS
    <3>2. e \in Lines /\ About(e, n) /\ e[1] = k
      BY <3>1 DEF Lines, About
    <3> QED BY <1>4, <2>3, <2>6, <3>1, <3>2
  <2> QED BY <2>4, <2>5, <2>6
<1> QED BY <1>5, <1>6

\* A nick of the server's, and the link going and coming back.
LEMMA FineLink ==
    ASSUME ChannelTypes, LinkInv, NEW u \in Users, Fine(u),
           ServerNick(u) \/ LinkDrops(u) \/ LinkReturns(u)
    PROVE  Fine(u)'
<1>1. CASE ServerNick(u)
  <2>1. PICK q \in Seq(Lines) : q = inbox[u]
    BY DEF ChannelTypes
  <2>2. PICK e \in Lines : e = <<"NICK", "">>
    BY DEF Lines
  <2>3. /\ auto' = auto /\ rest' = rest /\ handler' = handler /\ up' = up /\ joined' = joined /\ out' = out
        /\ inbox'[u] = Append(q, e)
    BY <1>1, <2>1, <2>2 DEF ServerNick, Deliver, ChannelTypes
  <2>4. ASSUME NEW m \in Names PROVE Flows(u, m)'
    <3>1. LastSays(q, m, joined[u]) /\ ~About(e, m)
      BY <2>1, <2>2 DEF Fine, Flows, About
    <3>2. LastSays(Append(q, e), m, joined[u]) /\ (Heard(Append(q, e), m) <=> Heard(q, m))
      BY <3>1, SaysAppend
    <3>3. (WillJoin(u, m) => WillJoin(u, m)') /\ (WillPart(u, m) => WillPart(u, m)')
      BY <2>3 DEF WillJoin, WillPart
    <3> QED BY <2>1, <2>3, <3>2, <3>3 DEF Fine, Flows
  <2>5. /\ Len(Append(q, e)) = Len(q) + 1 /\ Len(q) \in Nat /\ Append(q, e)[Len(q) + 1] = e
        /\ \A i \in 1..Len(q) : Append(q, e)[i] = q[i]
    BY LineAppend
  <2>6. NoRename(u)'
    <3>1. e[1] # "RENAME"
      BY <2>2
    <3>2. \A i \in 1..Len(q) : q[i][1] # "RENAME"
      BY <2>1 DEF Fine, NoRename
    <3>3. \A i \in 1..Len(Append(q, e)) : Append(q, e)[i][1] # "RENAME"
      BY <2>5, <3>1, <3>2
    <3> QED BY <2>3, <3>3 DEF Fine, NoRename
  <2> QED BY <2>4, <2>6 DEF Fine
<1>2. CASE LinkDrops(u)
  <2>1. up'[u] = FALSE /\ inbox'[u] = <<>> /\ handler' = handler
    BY <1>2 DEF LinkDrops, ChannelTypes
  <2>2. \A i \in 1..Len(inbox'[u]) : FALSE
    BY <2>1
  <2> QED BY <2>1, <2>2 DEF Fine, NoRename, Flows, LastSays
<1>3. CASE LinkReturns(u)
  <2>1. inbox'[u] = <<>> /\ joined'[u] = {} /\ handler'[u] = [NoHandler EXCEPT !.pc = "connected"]
    BY <1>3 DEF LinkReturns, LinkInv, ChannelTypes
  <2>2. handler'[u].pc = "connected"
    BY <2>1 DEF NoHandler
  <2>3. \A i \in 1..Len(inbox'[u]) : FALSE
    BY <2>1
  <2> QED BY <2>1, <2>2, <2>3 DEF Fine, NoRename, Flows, LastSays, WillJoin
<1> QED BY <1>1, <1>2, <1>3

\* Where every connection is fine, nothing is being renamed.
LEMMA PendingIsRename ==
    ASSUME ChannelTypes, \A u \in Users : Fine(u)
    PROVE  ~RenamePending
<1>1. ASSUME RenamePending PROVE FALSE
  <2>1. PICK u \in Users : handler[u].pc = "rename" \/ \E k \in DOMAIN inbox[u] : inbox[u][k][1] = "RENAME"
    BY <1>1 DEF RenamePending
  <2>2. NoRename(u)
    BY DEF Fine
  <2>3. DOMAIN inbox[u] = 1..Len(inbox[u])
    BY LenProperties DEF ChannelTypes
  <2> QED BY <2>1, <2>2, <2>3 DEF NoRename
<1> QED BY <1>1

\* A calm connection's list is what the server has.
LEMMA CalmAgrees ==
    ASSUME ChannelTypes, NEW u \in Users, Fine(u), Calm(u), up[u]
    PROVE  auto[u] = joined[u]
<1>1. rest[u].pc = "none" /\ handler[u].pc = "none" /\ Len(out[u]) = 0 /\ Len(inbox[u]) = 0
  <2>1. NoRest.pc = "none" /\ NoHandler.pc = "none" /\ Len(<<>>) = 0
    BY DEF NoRest, NoHandler
  <2> QED BY <2>1 DEF Calm
<1>2. ASSUME NEW n \in Names PROVE n \in auto[u] <=> n \in joined[u]
  <2>1. ~Heard(inbox[u], n) /\ ~WillJoin(u, n) /\ ~WillPart(u, n)
    BY <1>1 DEF Heard, WillJoin, WillPart, Has
  <2> QED BY <2>1 DEF Fine, Flows
<1>3. auto[u] \subseteq Names /\ joined[u] \subseteq Names
  BY DEF ChannelTypes
<1> QED BY <1>2, <1>3

\* The server renames a channel when everyone is calm.
LEMMA RenameBegins ==
    ASSUME ChannelTypes, LinkInv, \A u \in Users : Fine(u), ~raced',
           NEW old \in Names, NEW new \in Names, old # new, ServerRename(old, new)
    PROVE  RenamePending' /\ RenameFlow(old, new)'
<1> DEFINE line == <<"RENAME", old, new>>
<1>1. /\ \A u \in Users : Calm(u)
      /\ UNCHANGED <<auto, rest, handler, up, out>>
      /\ \E u \in Users : old \in joined[u]
      /\ \A u \in Users : joined'[u] = IF old \in joined[u] THEN (joined[u] \ {old}) \cup {new} ELSE joined[u]
      /\ \A u \in Users : inbox'[u] = IF old \in joined[u] THEN Append(inbox[u], line) ELSE inbox[u]
  BY DEF ServerRename, Renamed
<1>2. \A u \in Users : /\ rest[u] = NoRest /\ out[u] = <<>> /\ inbox[u] = <<>> /\ handler[u] = NoHandler
                       /\ up[u] => auto[u] = joined[u]
  BY <1>1, CalmAgrees DEF Calm
<1>3. Append(<<>>, line) = <<line>>
  BY OneLine
<1>4. \A u \in Users : inbox'[u] = IF old \in joined[u] THEN <<line>> ELSE <<>>
  BY <1>1, <1>2, <1>3
<1>5. RenamePending'
  <2>1. PICK u \in Users : inbox'[u] = <<line>>
    BY <1>1, <1>4
  <2>2. 1 \in DOMAIN inbox'[u] /\ inbox'[u][1][1] = "RENAME"
    BY <2>1
  <2> QED BY <2>2 DEF RenamePending
<1>6. ASSUME NEW u \in Users
      PROVE  /\ rest'[u] = NoRest /\ out'[u] = <<>> /\ inbox'[u] \in {<<>>, <<line>>} /\ handler'[u] = NoHandler
             /\ old \notin joined'[u]
             /\ up'[u] => /\ Renamed(auto'[u], old, new) = joined'[u]
                          /\ old \in auto'[u] => inbox'[u] # <<>>
  <2>1. <<line>> # <<>>
    OBVIOUS
  <2> HIDE DEF line
  <2> QED BY <1>1, <1>2, <1>4, <2>1 DEF Renamed
<1> QED BY <1>5, <1>6 DEF RenameFlow

\* When no rename is left, list and server agree.
LEMMA RenameSettles ==
    ASSUME ChannelTypes', NEW old \in Names, NEW new \in Names, RenameFlow(old, new)', ~RenamePending'
    PROVE  \A u \in Users : Fine(u)'
<1>1. ASSUME NEW u \in Users
      PROVE  /\ rest'[u] = NoRest /\ out'[u] = <<>> /\ inbox'[u] = <<>> /\ handler'[u] = NoHandler
             /\ up'[u] /\ old \in auto'[u] => \E v \in Users : handler'[v] # NoHandler
             /\ up'[u] => Renamed(auto'[u], old, new) = joined'[u]
  <2>1. inbox'[u] # <<<<"RENAME", old, new>>>>
    <3>1. ASSUME inbox'[u] = <<<<"RENAME", old, new>>>> PROVE FALSE
      <4>1. 1 \in DOMAIN inbox'[u] /\ inbox'[u][1][1] = "RENAME"
        BY <3>1
      <4> QED BY <4>1 DEF RenamePending
    <3> QED BY <3>1
  <2>2. handler'[u].pc # "rename"
    BY DEF RenamePending
  <2> QED BY <2>1, <2>2 DEF RenameFlow
<1>2. ASSUME NEW u \in Users, up'[u] PROVE auto'[u] = joined'[u]
  BY <1>1, <1>2 DEF Renamed
<1>3. ASSUME NEW u \in Users PROVE Fine(u)'
  <2>1. handler'[u].pc = "none" /\ \A i \in 1..Len(inbox'[u]) : FALSE
    <3>1. NoHandler.pc = "none" /\ Len(<<>>) = 0
      BY DEF NoHandler
    <3> QED BY <1>1, <3>1
  <2> QED BY <1>2, <2>1 DEF Fine, NoRename, Flows, LastSays
<1> QED BY <1>3

\* While a rename passes through, its handlers are all that moves.
LEMMA RenameGoesOn ==
    ASSUME ChannelTypes, ~raced', RenamePending, NEW old \in Names, NEW new \in Names,
           RenameFlow(old, new), ChannelNext
    PROVE  RenameFlow(old, new)'
<1> DEFINE line == <<"RENAME", old, new>>
<1>a. NoRest.pc = "none" /\ NoHandler.pc = "none" /\ line[1] = "RENAME" /\ line[2] = old /\ line[3] = new
  BY DEF NoRest, NoHandler
<1>b. ASSUME NEW u \in Users
      PROVE  /\ rest[u] = NoRest /\ rest[u].pc = "none" /\ out[u] = <<>> /\ handler[u].pc \in {"none", "rename"}
             /\ inbox[u] # <<>> => inbox[u] = <<line>> /\ Head(inbox[u]) = line /\ Tail(inbox[u]) = <<>>
  <2>1. Head(<<line>>) = line /\ Tail(<<line>>) = <<>>
    BY OneLine
  <2> QED BY <1>a, <2>1 DEF RenameFlow
<1>c. \E u \in Users : ~Calm(u)
  <2>1. PICK u \in Users : handler[u].pc = "rename" \/ \E k \in DOMAIN inbox[u] : inbox[u][k][1] = "RENAME"
    BY DEF RenamePending
  <2>2. handler[u] # NoHandler \/ inbox[u] # <<>>
    BY <1>a, <2>1
  <2> QED BY <2>2 DEF Calm
<1>1. ASSUME NEW u \in Users, JoinChannel(u) \/ PartChannel(u) PROVE FALSE
  BY <1>1, <1>b DEF JoinChannel, PartChannel
<1>2. ASSUME NEW u \in Users, NEW n \in Names, CreateChannel(u, n) \/ RemoveChannel(u, n) \/ ServerForces(u, n)
      PROVE  FALSE
  BY <1>2 DEF CreateChannel, RemoveChannel, ServerForces, Op
<1>3. ASSUME NEW u \in Users, ServerNick(u) \/ LinkDrops(u) \/ LinkReturns(u) PROVE FALSE
  BY <1>3 DEF ServerNick, LinkDrops, LinkReturns, Op
<1>4. ASSUME NEW u \in Users, HandleJoin(u) \/ HandlePart(u) \/ RollbackJoin(u) \/ ApplyOwnNick(u) PROVE FALSE
  BY <1>4, <1>a, <1>b DEF HandleJoin, HandlePart, RollbackJoin, ApplyOwnNick, Arrives
<1>5. ASSUME NEW u \in Users, NickWrite(u) \/ ConnectedRead(u) \/ \E b \in BOOLEAN : ConnectedJoin(u, b)
      PROVE  FALSE
  BY <1>5, <1>b DEF NickWrite, ConnectedRead, ConnectedJoin
<1>6. ASSUME NEW u \in Users, NEW b \in BOOLEAN, ServerCommand(u, b) PROVE FALSE
  BY <1>6, <1>b DEF ServerCommand
<1>7. ASSUME NEW o \in Names, NEW m \in Names, ServerRename(o, m) PROVE FALSE
  BY <1>7, <1>c DEF ServerRename
<1>8. ASSUME NEW u \in Users, NEW n \in Names, Registered(u, n) PROVE RenameFlow(old, new)'
  BY <1>8 DEF Registered, upstream, RenameFlow
<1>9. ASSUME NEW u \in Users, ApplyRename(u) PROVE RenameFlow(old, new)'
  <2>1. /\ inbox[u] # <<>> /\ Head(inbox[u]) = line /\ handler[u] = NoHandler
        /\ inbox' = [inbox EXCEPT ![u] = <<>>]
        /\ UNCHANGED <<auto, rest, up, joined, out>>
    BY <1>9, <1>b DEF ApplyRename, Arrives, ChannelTypes
  <2>2. PICK h : h = [pc |-> "rename", snap |-> auto, old |-> old, new |-> new]
    OBVIOUS
  <2>3. h.pc = "rename" /\ h.snap = auto /\ h.old = old /\ h.new = new
    BY <2>2
  <2>4. \/ handler' = [handler EXCEPT ![u] = h]
        \/ /\ handler' = handler
           /\ old \in auto[u] => \E v \in Users : handler[v].old = old
    BY <1>9, <1>a, <2>1, <2>2 DEF ApplyRename
  <2>5. \A v \in Users : handler'[v] = IF handler' # handler /\ v = u THEN h ELSE handler[v]
    BY <2>4 DEF ChannelTypes
  <2>6. ASSUME NEW v \in Users
        PROVE  /\ rest'[v] = NoRest /\ out'[v] = <<>> /\ inbox'[v] \in {<<>>, <<line>>}
               /\ old \notin joined'[v]
               /\ up'[v] => Renamed(auto'[v], old, new) = joined'[v]
    BY <2>1 DEF RenameFlow, ChannelTypes
  <2>7. ASSUME NEW v \in Users
        PROVE  \/ handler'[v] = NoHandler
               \/ /\ handler'[v].pc = "rename" /\ handler'[v].old = old /\ handler'[v].new = new
                  /\ \A w \in Users : auto'[w] \in {handler'[v].snap[w], Renamed(handler'[v].snap[w], old, new)}
    BY <2>1, <2>3, <2>5 DEF RenameFlow
  <2>8. ASSUME NEW v \in Users, up'[v], old \in auto'[v]
        PROVE  inbox'[v] # <<>> \/ \E w \in Users : handler'[w] # NoHandler
    <3>1. CASE \E w \in Users : handler[w] # NoHandler
      <4>1. PICK w \in Users : handler[w] # NoHandler
        BY <3>1
      <4> QED BY <2>1, <2>5, <4>1
    <3>2. CASE (\A w \in Users : handler[w] = NoHandler) /\ v # u
      <4>1. inbox[v] # <<>>
        BY <2>1, <2>8, <3>2 DEF RenameFlow
      <4> QED BY <2>1, <3>2, <4>1 DEF ChannelTypes
    <3>3. CASE (\A w \in Users : handler[w] = NoHandler) /\ v = u
      <4>1. handler' # handler
        <5>1. NoHandler.old # old
          BY ChannelAssumption DEF NoHandler
        <5>2. ~\E w \in Users : handler[w].old = old
          BY <3>3, <5>1
        <5>3. old \in auto[u]
          BY <2>1, <2>8, <3>3
        <5>4. handler' = [handler EXCEPT ![u] = h]
          BY <2>4, <5>2, <5>3
        <5>5. handler'[u] = h
          BY <5>4 DEF ChannelTypes
        <5> QED BY <1>a, <2>1, <2>3, <5>5
      <4>2. handler'[u] = h /\ h # NoHandler
        BY <1>a, <2>3, <2>5, <4>1
      <4> QED BY <4>2
    <3> QED BY <3>1, <3>2, <3>3
  <2> QED BY <2>6, <2>7, <2>8 DEF RenameFlow
<1>10. ASSUME NEW u \in Users, RenameMembers(u) PROVE RenameFlow(old, new)'
  <2>1. PICK h : h = handler[u]
    OBVIOUS
  <2>2. /\ h.pc = "rename" /\ h.old = old /\ h.new = new
        /\ \A v \in Users : auto[v] \in {h.snap[v], Renamed(h.snap[v], old, new)}
    BY <1>10, <1>a, <2>1 DEF RenameMembers, RenameFlow
  <2>3. /\ handler' = [handler EXCEPT ![u] = NoHandler] /\ UNCHANGED <<rest, up, joined, out, inbox>>
        /\ \A v \in Users : auto'[v] = IF old \in h.snap[v] THEN (h.snap[v] \ {old}) \cup {new} ELSE auto[v]
        /\ \A v \in Users : old \in h.snap[v] => auto[v] = h.snap[v]
    <3>1. \A v \in Users : v \in {w \in Users : old \in h.snap[w]} <=> old \in h.snap[v]
      OBVIOUS
    <3> QED BY <1>10, <2>1, <2>2, <3>1 DEF RenameMembers, upstream
  <2>4. \A v \in Users : auto'[v] = Renamed(auto[v], old, new) /\ old \notin auto'[v]
    <3>1. old # new
      BY DEF RenameFlow
    <3>2. ASSUME NEW v \in Users PROVE auto'[v] = Renamed(auto[v], old, new) /\ old \notin auto'[v]
      <4>1. CASE old \in h.snap[v]
        BY <2>3, <3>1, <4>1 DEF Renamed
      <4>2. CASE old \notin h.snap[v]
        BY <2>2, <2>3, <3>1, <4>2 DEF Renamed
      <4> QED BY <4>1, <4>2
    <3> QED BY <3>2
  <2>5. \A v \in Users : handler'[v] = IF v = u THEN NoHandler ELSE handler[v]
    BY <2>3 DEF ChannelTypes
  <2>6. ASSUME NEW v \in Users, handler'[v] # NoHandler
        PROVE  /\ handler'[v].pc = "rename" /\ handler'[v].old = old /\ handler'[v].new = new
               /\ \A w \in Users : auto'[w] \in {handler'[v].snap[w], Renamed(handler'[v].snap[w], old, new)}
    <3>1. /\ handler'[v] = handler[v] /\ handler[v].pc = "rename" /\ handler[v].old = old /\ handler[v].new = new
          /\ \A w \in Users : auto[w] \in {handler[v].snap[w], Renamed(handler[v].snap[w], old, new)}
      BY <2>5, <2>6 DEF RenameFlow
    <3>2. \A S : old # new => Renamed(Renamed(S, old, new), old, new) = Renamed(S, old, new)
      BY DEF Renamed
    <3> QED BY <2>4, <3>1, <3>2 DEF RenameFlow
  <2>7. ASSUME NEW v \in Users
        PROVE  /\ rest'[v] = NoRest /\ out'[v] = <<>> /\ inbox'[v] \in {<<>>, <<line>>} /\ old \notin joined'[v]
               /\ up'[v] => Renamed(auto'[v], old, new) = joined'[v] /\ old \notin auto'[v]
    BY <2>3, <2>4 DEF RenameFlow, Renamed
  <2> QED BY <2>6, <2>7 DEF RenameFlow
<1> QED BY <1>1, <1>2, <1>3, <1>4, <1>5, <1>6, <1>7, <1>8, <1>9, <1>10 DEF ChannelNext, EventLoop

\* Every step keeps the invariant.
LEMMA NextChannels == ChannelInv /\ [ChannelNext]_channelVars => ChannelInv'
<1> SUFFICES ASSUME ChannelInv, [ChannelNext]_channelVars PROVE ChannelInv'
  OBVIOUS
<1>1. CASE UNCHANGED channelVars
  BY <1>1 DEF channelVars, ChannelInv, ChannelTypes, LinkInv, IndexSound, Untroubled, Fine, NoRename, Flows,
     WillJoin, WillPart, RenamePending, RenameFlow
<1>2. CASE ChannelNext
  <2>1. ChannelTypes /\ LinkInv /\ IndexSound /\ ChannelTypes' /\ LinkInv' /\ IndexSound'
    BY <1>2, ChannelTypesKept DEF ChannelInv
  <2>2. ~raced' => ~raced
    BY ZenonT(60), <1>2 DEF ChannelNext, EventLoop, JoinChannel, PartChannel, ServerNick, LinkDrops, LinkReturns,
       CreateChannel, RemoveChannel, Registered, ServerForces, ServerCommand, ServerRename, HandleJoin,
       HandlePart, RollbackJoin, ApplyRename, RenameMembers, ApplyOwnNick, NickWrite, ConnectedRead,
       ConnectedJoin, Op
  <2>3. ASSUME ~raced', RenamePending, NEW old \in Names, NEW new \in Names, RenameFlow(old, new)
        PROVE  Untroubled'
    <3>1. RenameFlow(old, new)'
      BY <1>2, <2>1, <2>3, RenameGoesOn
    <3>2. CASE RenamePending'
      BY <3>1, <3>2 DEF Untroubled
    <3>3. CASE ~RenamePending'
      <4>1. \A u \in Users : Fine(u)'
        BY <2>1, <3>1, <3>3, RenameSettles
      <4> QED BY <4>1 DEF Untroubled
    <3> QED BY <3>2, <3>3
  <2>4. ASSUME ~raced', \A u \in Users : Fine(u) PROVE Untroubled'
    <3>1. ASSUME NEW old \in Names, NEW new \in Names, old # new, ServerRename(old, new) PROVE Untroubled'
      <4>1. RenamePending' /\ RenameFlow(old, new)'
        BY <2>1, <2>4, <3>1, RenameBegins
      <4> QED BY <4>1 DEF Untroubled
    <3>2. ASSUME NEW u \in Users, ApplyRename(u) \/ RenameMembers(u) PROVE FALSE
      <4>1. ~RenamePending
        BY <2>1, <2>4, PendingIsRename
      <4>2. CASE ApplyRename(u)
        <5>1. inbox[u] # <<>> /\ Head(inbox[u])[1] = "RENAME" /\ inbox[u] \in Seq(Lines)
          BY <2>1, <4>2 DEF ApplyRename, Arrives, ChannelTypes
        <5>2. 1 \in DOMAIN inbox[u] /\ Head(inbox[u]) = inbox[u][1]
          BY <5>1, LineTail
        <5> QED BY <4>1, <5>1, <5>2 DEF RenamePending
      <4>3. CASE RenameMembers(u)
        BY <4>1, <4>3 DEF RenameMembers, RenamePending
      <4> QED BY <3>2, <4>2, <4>3
    <3>3. ASSUME NEW u \in Users,
                 \/ JoinChannel(u) \/ PartChannel(u)
                 \/ HandleJoin(u) \/ HandlePart(u) \/ RollbackJoin(u) \/ ApplyOwnNick(u) \/ NickWrite(u)
                 \/ ConnectedRead(u) \/ \E b \in BOOLEAN : ConnectedJoin(u, b)
                 \/ ServerNick(u) \/ LinkDrops(u) \/ LinkReturns(u)
                 \/ \E n \in Names : CreateChannel(u, n) \/ RemoveChannel(u, n) \/ Registered(u, n) \/ ServerForces(u, n)
                 \/ \E b \in BOOLEAN : ServerCommand(u, b)
          PROVE  Untroubled'
      <4>1. Fine(u)'
        BY <2>1, <2>4, <3>3, FineRequests, FineSends, FineHears, FineNick, FineReconnects, FineServer, FineLink
      <4>2. \A v \in Users \ {u} : /\ auto'[v] = auto[v] /\ joined'[v] = joined[v] /\ rest'[v] = rest[v]
                                   /\ handler'[v] = handler[v] /\ up'[v] = up[v]
                                   /\ out'[v] = out[v] /\ inbox'[v] = inbox[v]
        <5>1. CASE JoinChannel(u) \/ PartChannel(u) \/ \E n \in Names : CreateChannel(u, n) \/ RemoveChannel(u, n) \/ Registered(u, n)
          BY SMTT(60), <2>1, <5>1 DEF ChannelTypes, JoinChannel, PartChannel, Send, CreateChannel, RemoveChannel, Registered,
             upstream, MembershipAddChannel, MembershipRemoveChannel
        <5>2. CASE HandleJoin(u) \/ HandlePart(u) \/ RollbackJoin(u) \/ ApplyOwnNick(u) \/ NickWrite(u)
          BY <2>1, <5>2 DEF ChannelTypes, HandleJoin, HandlePart, RollbackJoin, ApplyOwnNick, NickWrite, Arrives,
             upstream, MembershipAddChannel, MembershipRemoveChannel
        <5>3. CASE ConnectedRead(u) \/ \E b \in BOOLEAN : ConnectedJoin(u, b)
          BY <2>1, <5>3 DEF ChannelTypes, ConnectedRead, ConnectedJoin, upstream
        <5>4. CASE ServerNick(u) \/ LinkDrops(u) \/ LinkReturns(u) \/ \E n \in Names : ServerForces(u, n)
          BY ZenonT(60), <2>1, <5>4 DEF ChannelTypes, ServerNick, LinkDrops, LinkReturns, ServerForces, Deliver
        <5>5. CASE \E b \in BOOLEAN : ServerCommand(u, b)
          BY <2>1, <5>5 DEF ChannelTypes, ServerCommand, Deliver
        <5> QED BY <3>3, <5>1, <5>2, <5>3, <5>4, <5>5
      <4>3. \A v \in Users : Fine(v)'
        BY <2>1, <2>4, <4>1, <4>2, FineKept
      <4> QED BY <4>3 DEF Untroubled
    <3> QED BY <1>2, <3>1, <3>2, <3>3 DEF ChannelNext, EventLoop
  <2>5. ~raced' => Untroubled'
    BY <2>2, <2>3, <2>4 DEF ChannelInv, Untroubled
  <2> QED BY <2>1, <2>5 DEF ChannelInv
<1> QED BY <1>1, <1>2

\* The auto-join lists follow the server through joins, refusals, kicks,
\* renames and lost links, and the registry leads to the right records
\* (HandleJoin, RollbackJoin, applyRename, CreateChannel, RemoveChannel).
THEOREM ChannelsStayTracked == ChannelSpec => []ChannelsTracked
<1>1. ChannelInit => ChannelInv
  <2> SUFFICES ASSUME ChannelInit PROVE ChannelInv
    OBVIOUS
  <2>1. NoRest \in Rests /\ NoHandler \in Handlers /\ NoHandler.pc = "none"
    BY DEF NoRest, NoHandler, Rests, Handlers
  <2>2. ChannelTypes
    <3>1. /\ <<>> \in Seq({"JOIN", "PART"} \X Names) /\ <<>> \in Seq(Lines) /\ <<>> \in Seq(Names)
          /\ DOMAIN << >> = {}
      OBVIOUS
    <3>2. \A u \in Users : rest[u] = NoRest /\ handler[u] = NoHandler
      BY DEF ChannelInit
    <3>3. /\ auto \in [Users -> SUBSET Names] /\ joined \in [Users -> SUBSET Names]
          /\ pendingJoins \in [Users -> SUBSET Names] /\ up \in [Users -> BOOLEAN] /\ raced \in BOOLEAN
      BY DEF ChannelInit
    <3>4. rest \in [Users -> Rests] /\ handler \in [Users -> Handlers]
      BY <2>1 DEF ChannelInit
    <3>5. /\ out \in [Users -> Seq({"JOIN", "PART"} \X Names)] /\ inbox \in [Users -> Seq(Lines)]
          /\ record \in Seq(Names) /\ DOMAIN index \subseteq Names
      BY <3>1 DEF ChannelInit
    <3> QED BY <2>1, <3>2, <3>3, <3>4, <3>5 DEF ChannelTypes
  <2>3. LinkInv /\ IndexSound
    BY DEF ChannelInit, LinkInv, IndexSound
  <2>4. ASSUME NEW u \in Users PROVE Fine(u)
    <3>1. handler[u].pc = "none" /\ auto[u] = {} /\ joined[u] = {} /\ \A i \in 1..Len(inbox[u]) : FALSE
      BY <2>1 DEF ChannelInit
    <3> QED BY <3>1 DEF Fine, NoRename, Flows, LastSays
  <2> QED BY <2>2, <2>3, <2>4 DEF ChannelInv, Untroubled
<1>2. ChannelInv => ChannelsTracked
  <2> SUFFICES ASSUME ChannelInv PROVE ChannelsTracked
    OBVIOUS
  <2>1. ASSUME ~raced, NEW u \in Users, ChannelsQuiet(u) PROVE auto[u] = joined[u]
    <3>1. up[u] /\ Calm(u) /\ \A v \in Users : handler[v].pc # "rename"
      BY <2>1 DEF ChannelsQuiet
    <3>2. CASE \A v \in Users : Fine(v)
      BY <3>1, <3>2, CalmAgrees DEF ChannelInv
    <3>3. ASSUME NEW old \in Names, NEW new \in Names, RenameFlow(old, new) PROVE auto[u] = joined[u]
      <4>1. \A v \in Users : handler[v] = NoHandler
        BY <3>1, <3>3 DEF RenameFlow
      <4>2. inbox[u] = <<>>
        BY <3>1 DEF Calm
      <4> QED BY <3>1, <3>3, <4>1, <4>2 DEF RenameFlow, Renamed
    <3> QED BY <2>1, <3>2, <3>3 DEF ChannelInv, Untroubled
  <2> QED BY <2>1 DEF ChannelInv, ChannelsTracked, AutoJoinTracksUpstream
<1> QED BY <1>1, <1>2, NextChannels, PTL DEF ChannelSpec

-----------------------------------------------------------------------------
(* The replay log: bytes *)

\* A set of numbers with something in it has a least number.
LEMMA LeastNumber ==
  ASSUME NEW D \in SUBSET Nat, D # {}
  PROVE  \E d \in D : \A y \in D : d <= y
<1> DEFINE R == OpToRel(<, Nat)
<1>1. IsWellFoundedOn(R, Nat) BY NatLessThanWellFounded
<1>2. \A x, y \in Nat : x < y => <<x, y>> \in R BY DEF OpToRel
<1> HIDE DEF R
<1>3. PICK d \in D : \A y \in D : ~(<<y, d>> \in R) BY <1>1, WFMin
<1>4. ASSUME NEW y \in D PROVE d <= y
  <2>1. d \in Nat /\ y \in Nat /\ ~(y < d) BY <1>2, <1>3
  <2> QED BY <2>1
<1> QED BY <1>4

\* What holds of 0 and is passed on from m to m + 1 holds up to n.
LEMMA Upward ==
  ASSUME NEW n \in Nat, NEW S, 0 \in S, \A m \in 0 .. (n - 1) : m \in S => m + 1 \in S
  PROVE  \A m \in 0 .. n : m \in S
<1> DEFINE D == {m \in 0 .. n : m \notin S}
<1> SUFFICES ASSUME D # {} PROVE FALSE OBVIOUS
<1>1. D \in SUBSET Nat OBVIOUS
<1>2. PICK d \in D : \A y \in D : d <= y
  <2> HIDE DEF D
  <2> QED BY <1>1, LeastNumber
<1>3. d \in 0 .. n /\ d \notin S /\ d # 0 BY <1>2
<1>4. d - 1 \in 0 .. (n - 1) /\ d - 1 \in 0 .. n /\ d - 1 + 1 = d BY <1>3
<1>5. d - 1 \notin S BY <1>3, <1>4
<1>6. d - 1 \in D BY <1>4, <1>5
<1> QED BY <1>2, <1>4, <1>6

\* The running sum that PrefixBytes defines.
IsSum(f, log, m) == f = [j \in 0 .. m |-> IF j = 0 THEN 0 ELSE f[j - 1] + log[j].size]

\* There is one for every log.
LEMMA SumExists ==
  ASSUME NEW n \in Nat, NEW log
  PROVE  \E f : IsSum(f, log, n)
<1> DEFINE S == {m \in 0 .. n : \E f : IsSum(f, log, m)}
<1>1. 0 \in S
  <2>1. PICK f : f = [j \in 0 .. 0 |-> 0] OBVIOUS
  <2>2. IsSum(f, log, 0) BY <2>1 DEF IsSum
  <2> QED BY <2>2
<1>2. ASSUME NEW m \in 0 .. (n - 1), m \in S PROVE m + 1 \in S
  <2>1. PICK f : IsSum(f, log, m) BY <1>2
  <2>2. PICK g : g = [j \in 0 .. (m + 1) |-> IF j <= m THEN f[j] ELSE f[m] + log[j].size] OBVIOUS
  <2>3. \A j \in 0 .. m : f[j] = IF j = 0 THEN 0 ELSE f[j - 1] + log[j].size BY <2>1 DEF IsSum
  <2>4. \A j \in 0 .. (m + 1) : g[j] = IF j = 0 THEN 0 ELSE g[j - 1] + log[j].size
    <3>1. ASSUME NEW j \in 0 .. (m + 1) PROVE g[j] = IF j = 0 THEN 0 ELSE g[j - 1] + log[j].size
      <4>1. CASE j = 0 BY <2>2, <2>3, <4>1
      <4>2. CASE j # 0 /\ j <= m
        <5>1. j - 1 \in 0 .. (m + 1) /\ j - 1 <= m /\ j \in 0 .. m BY <4>2
        <5>2. g[j - 1] = f[j - 1] /\ g[j] = f[j] BY <2>2, <4>2, <5>1
        <5> QED BY <2>3, <4>2, <5>1, <5>2
      <4>3. CASE j = m + 1
        <5>1. m \in 0 .. (m + 1) /\ j - 1 = m /\ ~(j <= m) /\ j # 0 BY <4>3
        <5>2. g[m] = f[m] BY <2>2, <5>1
        <5> QED BY <2>2, <4>3, <5>1, <5>2
      <4> QED BY <4>1, <4>2, <4>3
    <3> QED BY <3>1
  <2>5. IsSum(g, log, m + 1) BY <2>2, <2>4 DEF IsSum
  <2>6. m + 1 \in 0 .. n OBVIOUS
  <2> QED BY <2>5, <2>6
<1>3. \A m \in 0 .. n : m \in S
  <2> HIDE DEF S
  <2> QED BY <1>1, <1>2, Upward
<1> QED BY <1>3

\* PrefixBytes adds the lengths of the frames one by one.
LEMMA PrefixStep ==
  ASSUME NEW log \in Seq(Event)
  PROVE  /\ PrefixBytes(log, 0) = 0
         /\ \A k \in 1 .. Len(log) : PrefixBytes(log, k) = PrefixBytes(log, k - 1) + log[k].size
         /\ \A k \in 0 .. Len(log) : PrefixBytes(log, k) \in Nat
<1>0. Len(log) \in Nat OBVIOUS
<1>1. PICK n : n = Len(log) OBVIOUS
<1>2. PICK f : f = CHOOSE g : IsSum(g, log, n) OBVIOUS
<1>3. IsSum(f, log, n) BY <1>0, <1>1, <1>2, SumExists
<1>4. \A k : PrefixBytes(log, k) = f[k] BY <1>1, <1>2 DEF PrefixBytes, IsSum
<1>5. \A k \in 0 .. n : f[k] = IF k = 0 THEN 0 ELSE f[k - 1] + log[k].size BY <1>3 DEF IsSum
<1>6. f[0] = 0 /\ \A k \in 1 .. n : f[k] = f[k - 1] + log[k].size BY <1>0, <1>1, <1>5
<1> DEFINE S == {m \in 0 .. n : f[m] \in Nat}
<1>7. 0 \in S BY <1>0, <1>1, <1>6
<1>8. ASSUME NEW m \in 0 .. (n - 1), m \in S PROVE m + 1 \in S
  <2>1. m + 1 \in 1 .. n /\ m + 1 \in 0 .. n /\ m + 1 - 1 = m BY <1>0, <1>1
  <2>2. log[m + 1] \in Event BY <1>1, <2>1
  <2>3. f[m + 1] = f[m] + log[m + 1].size BY <1>6, <2>1
  <2>4. log[m + 1].size \in Nat BY <2>2 DEF Event
  <2> QED BY <1>8, <2>1, <2>3, <2>4
<1>9. \A m \in 0 .. n : m \in S
  <2> HIDE DEF S
  <2> QED BY <1>0, <1>1, <1>7, <1>8, Upward
<1> QED BY <1>1, <1>4, <1>6, <1>9

\* A longer part has at least as many bytes.
LEMMA PrefixGrows ==
  ASSUME NEW log \in Seq(Event), NEW j \in 0 .. Len(log), NEW k \in j .. Len(log)
  PROVE  PrefixBytes(log, j) <= PrefixBytes(log, k)
<1>0. Len(log) \in Nat OBVIOUS
<1>1. PICK n : n = Len(log) - j OBVIOUS
<1>2. n \in Nat BY <1>0, <1>1
<1> DEFINE S == {m \in 0 .. n : PrefixBytes(log, j) <= PrefixBytes(log, j + m)}
<1>3. \A i \in 0 .. Len(log) : PrefixBytes(log, i) \in Nat BY PrefixStep
<1>4. 0 \in S
  <2>1. j + 0 = j /\ PrefixBytes(log, j) \in Nat BY <1>3
  <2> QED BY <1>2, <2>1
<1>5. ASSUME NEW m \in 0 .. (n - 1), m \in S PROVE m + 1 \in S
  <2>1. /\ j + (m + 1) \in 1 .. Len(log) /\ j + (m + 1) - 1 = j + m /\ j + m \in 0 .. Len(log)
        /\ m + 1 \in 0 .. n
    BY <1>0, <1>1, <1>2
  <2>2. PrefixBytes(log, j + (m + 1)) = PrefixBytes(log, j + m) + log[j + (m + 1)].size
    BY <2>1, PrefixStep
  <2>3. log[j + (m + 1)] \in Event BY <2>1
  <2>4. log[j + (m + 1)].size \in Nat BY <2>3 DEF Event
  <2>5. PrefixBytes(log, j) \in Nat /\ PrefixBytes(log, j + m) \in Nat BY <1>3, <2>1
  <2>6. PrefixBytes(log, j) <= PrefixBytes(log, j + m) BY <1>5
  <2>7. PrefixBytes(log, j) <= PrefixBytes(log, j + (m + 1)) BY <2>2, <2>4, <2>5, <2>6
  <2> QED BY <2>1, <2>7
<1>6. \A m \in 0 .. n : m \in S
  <2> HIDE DEF S
  <2> QED BY <1>2, <1>4, <1>5, Upward
<1>7. k - j \in 0 .. n /\ j + (k - j) = k BY <1>0, <1>1
<1>8. k - j \in S BY <1>6, <1>7
<1> QED BY <1>7, <1>8

\* Two logs with the same first frames have the same bytes there.
LEMMA PrefixSame ==
  ASSUME NEW log \in Seq(Event), NEW other \in Seq(Event), NEW a \in Nat, NEW n \in Nat,
         n <= Len(other), a + n <= Len(log), \A i \in 1 .. n : other[i] = log[a + i]
  PROVE  PrefixBytes(log, a + n) = PrefixBytes(log, a) + PrefixBytes(other, n)
<1> DEFINE S == {m \in 0 .. n : PrefixBytes(log, a + m) = PrefixBytes(log, a) + PrefixBytes(other, m)}
<1>0. Len(log) \in Nat /\ Len(other) \in Nat OBVIOUS
<1>1. /\ \A i \in 0 .. Len(log) : PrefixBytes(log, i) \in Nat
      /\ \A i \in 0 .. Len(other) : PrefixBytes(other, i) \in Nat
  BY PrefixStep
<1>2. 0 \in S
  <2>1. a + 0 = a /\ a \in 0 .. Len(log) BY <1>0
  <2>2. PrefixBytes(log, a) \in Nat /\ PrefixBytes(other, 0) = 0 BY <1>1, <2>1, PrefixStep
  <2> QED BY <2>1, <2>2
<1>3. ASSUME NEW m \in 0 .. (n - 1), m \in S PROVE m + 1 \in S
  <2>1. /\ a + (m + 1) \in 1 .. Len(log) /\ a + (m + 1) - 1 = a + m /\ a + m \in 0 .. Len(log)
        /\ m + 1 \in 1 .. Len(other) /\ m + 1 - 1 = m /\ m \in 0 .. Len(other) /\ m + 1 \in 1 .. n
        /\ m + 1 \in 0 .. n /\ a \in 0 .. Len(log)
    <3>1. m \in Nat /\ m + 1 <= n /\ m + 1 <= Len(other) /\ a + (m + 1) <= Len(log) BY <1>0
    <3> HIDE DEF S
    <3>2. a + (m + 1) \in 1 .. Len(log) /\ a + m \in 0 .. Len(log) /\ a \in 0 .. Len(log) BY <1>0, <3>1
    <3>3. a + (m + 1) - 1 = a + m /\ m + 1 - 1 = m BY <3>1
    <3>4. m + 1 \in 1 .. Len(other) /\ m \in 0 .. Len(other) BY <1>0, <3>1
    <3>5. m + 1 \in 1 .. n /\ m + 1 \in 0 .. n BY <3>1
    <3> QED BY <3>2, <3>3, <3>4, <3>5
  <2>2. PrefixBytes(log, a + (m + 1)) = PrefixBytes(log, a + m) + log[a + (m + 1)].size
    BY <2>1, PrefixStep
  <2>3. PrefixBytes(other, m + 1) = PrefixBytes(other, m) + other[m + 1].size
    <3>1. \A k \in 1 .. Len(other) : PrefixBytes(other, k) = PrefixBytes(other, k - 1) + other[k].size
      BY PrefixStep
    <3> QED BY <2>1, <3>1
  <2>4. log[a + (m + 1)] \in Event /\ other[m + 1] = log[a + (m + 1)] BY <2>1
  <2>5. log[a + (m + 1)].size \in Nat BY <2>4 DEF Event
  <2>6. /\ PrefixBytes(log, a) \in Nat /\ PrefixBytes(other, m) \in Nat
        /\ PrefixBytes(log, a + m) = PrefixBytes(log, a) + PrefixBytes(other, m)
    BY <1>1, <1>3, <2>1
  <2>7. PrefixBytes(log, a + (m + 1)) = PrefixBytes(log, a) + PrefixBytes(other, m + 1)
    BY <2>2, <2>3, <2>4, <2>5, <2>6
  <2> QED BY <2>1, <2>7
<1>4. \A m \in 0 .. n : m \in S
  <2> HIDE DEF S
  <2> QED BY <1>2, <1>3, Upward
<1>5. n \in S BY <1>4
<1> QED BY <1>5

\* What is left of a log without its first d frames.
LEMMA RestBytes ==
  ASSUME NEW log \in Seq(Event), NEW d \in 0 .. Len(log)
  PROVE  LET remains == SubSeq(log, d + 1, Len(log))
         IN  /\ remains \in Seq(Event) /\ Len(remains) = Len(log) - d
             /\ \A i \in 1 .. Len(remains) : remains[i] = log[d + i]
             /\ RetainedBytes(remains) = RetainedBytes(log) - PrefixBytes(log, d)
             /\ RetainedBytes(remains) \in Nat
<1> DEFINE remains == SubSeq(log, d + 1, Len(log))
<1>0. Len(log) \in Nat OBVIOUS
<1>1. \A i \in (d + 1) .. Len(log) : log[i] \in Event BY <1>0
<1>2. /\ remains \in Seq(Event) /\ Len(remains) = IF d + 1 <= Len(log) THEN Len(log) - (d + 1) + 1 ELSE 0
      /\ \A i \in 1 .. Len(log) - (d + 1) + 1 : remains[i] = log[(d + 1) + i - 1]
  BY <1>0, <1>1, SubSeqProperties
<1>3. Len(remains) = Len(log) - d BY <1>0, <1>2
<1>4. \A i \in 1 .. Len(remains) : remains[i] = log[d + i]
  <2>1. ASSUME NEW i \in 1 .. Len(remains) PROVE remains[i] = log[d + i]
    <3>1. i \in 1 .. Len(log) - (d + 1) + 1 /\ (d + 1) + i - 1 = d + i BY <1>0, <1>3
    <3> QED BY <1>2, <3>1
  <2> QED BY <2>1
<1> HIDE DEF remains
<1>5. Len(remains) \in Nat /\ d + Len(remains) = Len(log) BY <1>0, <1>3
<1>6. PrefixBytes(log, d + Len(remains)) = PrefixBytes(log, d) + PrefixBytes(remains, Len(remains))
  <2>1. PICK n : n = Len(remains) OBVIOUS
  <2>2. n \in Nat /\ n <= Len(remains) /\ d + n <= Len(log) /\ d \in Nat BY <1>0, <1>5, <2>1
  <2>3. \A i \in 1 .. n : remains[i] = log[d + i] BY <1>4, <2>1
  <2>4. PrefixBytes(log, d + n) = PrefixBytes(log, d) + PrefixBytes(remains, n)
    BY <1>2, <2>2, <2>3, PrefixSame
  <2> QED BY <2>1, <2>4
<1>7. /\ PrefixBytes(log, d) \in Nat /\ PrefixBytes(remains, Len(remains)) \in Nat
      /\ PrefixBytes(log, Len(log)) \in Nat
  BY <1>0, <1>2, <1>5, PrefixStep
<1>8. RetainedBytes(remains) = RetainedBytes(log) - PrefixBytes(log, d) /\ RetainedBytes(remains) \in Nat
  BY <1>5, <1>6, <1>7 DEF RetainedBytes
<1> QED BY <1>2, <1>3, <1>4, <1>8 DEF remains

\* A frame more.
LEMMA AppendBytes ==
  ASSUME NEW log \in Seq(Event), NEW ev \in Event
  PROVE  /\ Append(log, ev) \in Seq(Event) /\ Len(Append(log, ev)) = Len(log) + 1
         /\ RetainedBytes(Append(log, ev)) = RetainedBytes(log) + ev.size
<1>1. PICK more : more = Append(log, ev) OBVIOUS
<1>2. /\ more \in Seq(Event) /\ Len(more) = Len(log) + 1 /\ Len(log) \in Nat
      /\ \A i \in 1 .. Len(log) : more[i] = log[i]
      /\ more[Len(log) + 1] = ev
  BY <1>1, AppendProperties
<1>3. PrefixBytes(more, 0 + Len(log)) = PrefixBytes(more, 0) + PrefixBytes(log, Len(log))
  <2>1. \A i \in 1 .. Len(log) : log[i] = more[0 + i] BY <1>2
  <2>2. PICK n : n = Len(log) OBVIOUS
  <2>3. n \in Nat /\ n <= Len(log) /\ 0 + n <= Len(more) /\ 0 \in Nat BY <1>2, <2>2
  <2>4. \A i \in 1 .. n : log[i] = more[0 + i] BY <2>1, <2>2
  <2>5. PrefixBytes(more, 0 + n) = PrefixBytes(more, 0) + PrefixBytes(log, n)
    BY <1>2, <2>3, <2>4, PrefixSame
  <2> QED BY <2>2, <2>5
<1>4. PrefixBytes(more, 0) = 0 /\ PrefixBytes(log, Len(log)) \in Nat BY <1>2, PrefixStep
<1>5. PrefixBytes(more, Len(log) + 1) = PrefixBytes(more, Len(log)) + ev.size
  <2>1. Len(log) + 1 \in 1 .. Len(more) /\ Len(log) + 1 - 1 = Len(log) BY <1>2
  <2> QED BY <1>2, <2>1, PrefixStep
<1>6. ev.size \in Nat BY DEF Event
<1> QED BY <1>1, <1>2, <1>3, <1>4, <1>5, <1>6 DEF RetainedBytes

\* The loop on bytes stops at the first frame from which the rest fits, or at
\* the last frame.
LEMMA Evicts ==
  ASSUME NEW log \in Seq(Event), log # <<>>, NEW total \in Nat
  PROVE  /\ EvictCount(log, total) \in 0 .. (Len(log) - 1)
         /\ \/ EvictCount(log, total) = Len(log) - 1
            \/ total - PrefixBytes(log, EvictCount(log, total)) <= ReplayBytes
<1> DEFINE K == {k \in 0 .. (Len(log) - 2) : total - PrefixBytes(log, k) > ReplayBytes}
           D == {k \in Nat : k \notin K}
<1>0. Len(log) \in Nat \ {0} /\ ReplayBytes \in Nat BY ReplayBytesAssumption
<1>1. Len(log) - 1 \in D BY <1>0
<1>2. PICK d \in D : \A y \in D : d <= y
  <2>1. D \in SUBSET Nat OBVIOUS
  <2> HIDE DEF D
  <2> QED BY <1>1, <2>1, LeastNumber
<1>3. d \in 0 .. (Len(log) - 1) /\ d \notin K
  <2>1. d \in Nat /\ d <= Len(log) - 1 /\ d \notin K BY <1>1, <1>2
  <2> QED BY <1>0, <2>1
<1>4. d = Len(log) - 1 \/ total - PrefixBytes(log, d) <= ReplayBytes
  <2> SUFFICES ASSUME d # Len(log) - 1 PROVE total - PrefixBytes(log, d) <= ReplayBytes OBVIOUS
  <2>1. d \in 0 .. (Len(log) - 2) /\ d \in 0 .. Len(log) BY <1>0, <1>3
  <2>2. ~(total - PrefixBytes(log, d) > ReplayBytes) BY <1>3, <2>1
  <2>3. PrefixBytes(log, d) \in Nat BY <2>1, PrefixStep
  <2> QED BY <1>0, <2>2, <2>3
<1>5. ASSUME NEW k \in 0 .. (d - 1) PROVE k \in K
  <2>1. k \in Nat /\ ~(d <= k) BY <1>3
  <2> QED BY <1>2, <2>1
<1>6. ASSUME NEW k \in K PROVE k \in 0 .. (d - 1)
  <2>1. k \in 0 .. (Len(log) - 2) /\ total - PrefixBytes(log, k) > ReplayBytes OBVIOUS
  <2>2. k # d BY <1>3
  <2>3. ASSUME d < k PROVE FALSE
    <3>1. d # Len(log) - 1 /\ d \in 0 .. Len(log) /\ k \in d .. Len(log) /\ k \in 0 .. Len(log)
      BY <1>0, <1>3, <2>1, <2>3
    <3>2. PrefixBytes(log, d) <= PrefixBytes(log, k) BY <3>1, PrefixGrows
    <3>3. PrefixBytes(log, d) \in Nat /\ PrefixBytes(log, k) \in Nat BY <3>1, PrefixStep
    <3>4. total - PrefixBytes(log, d) <= ReplayBytes BY <1>4, <3>1
    <3> QED BY <1>0, <2>1, <3>2, <3>3, <3>4
  <2> QED BY <1>0, <1>3, <2>1, <2>2, <2>3
<1>7. K = 0 .. (d - 1) BY <1>5, <1>6
<1>8. EvictCount(log, total) = d
  <2>1. EvictCount(log, total) = Cardinality(K) BY DEF EvictCount
  <2>2. d - 1 \in Int /\ 0 \in Int /\ d \in Nat BY <1>3
  <2>3. Cardinality(0 .. (d - 1)) = IF 0 > d - 1 THEN 0 ELSE d - 1 - 0 + 1 BY <2>2, FS_Interval
  <2>4. Cardinality(0 .. (d - 1)) = d
    <3>1. PICK c : c = Cardinality(0 .. (d - 1)) OBVIOUS
    <3>2. c = IF 0 > d - 1 THEN 0 ELSE d - 1 - 0 + 1 BY <2>3, <3>1
    <3>3. c = d BY <2>2, <3>2
    <3> QED BY <3>1, <3>3
  <2>5. Cardinality(K) = Cardinality(0 .. (d - 1)) BY <1>7
  <2> HIDE DEF K
  <2> QED BY <2>1, <2>4, <2>5
<1> QED BY <1>3, <1>4, <1>8

\* The trim by count leaves the newest frames.
LEMMA Trims ==
  ASSUME NEW log \in Seq(Event), log # <<>>
  PROVE  \E e \in 0 .. (Len(log) - 1) :
           /\ TrimToLimit(log) \in Seq(Event) /\ Len(TrimToLimit(log)) = Len(log) - e
           /\ \A i \in 1 .. (Len(log) - e) : TrimToLimit(log)[i] = log[e + i]
           /\ Len(TrimToLimit(log)) <= ReplayLimit
           /\ RetainedBytes(TrimToLimit(log)) <= RetainedBytes(log)
           /\ RetainedBytes(TrimToLimit(log)) \in Nat
<1>0. Len(log) \in Nat \ {0} /\ ReplayLimit \in Nat \ {0} BY ReplayLimitAssumption
<1>1. RetainedBytes(log) \in Nat BY <1>0, PrefixStep DEF RetainedBytes
<1>2. CASE Len(log) > ReplayLimit
  <2>1. PICK e : e = Len(log) - ReplayLimit OBVIOUS
  <2>2. e \in 0 .. Len(log) /\ e \in 0 .. (Len(log) - 1) /\ Len(log) - e = ReplayLimit /\ e + 1 = Len(log) - ReplayLimit + 1
    BY <1>0, <1>2, <2>1
  <2>3. PICK t : t = SubSeq(log, e + 1, Len(log)) OBVIOUS
  <2>4. TrimToLimit(log) = t BY <1>2, <2>2, <2>3 DEF TrimToLimit
  <2>5. /\ t \in Seq(Event) /\ Len(t) = Len(log) - e
        /\ \A i \in 1 .. Len(t) : t[i] = log[e + i]
        /\ RetainedBytes(t) = RetainedBytes(log) - PrefixBytes(log, e)
        /\ RetainedBytes(t) \in Nat
    BY <2>2, <2>3, RestBytes
  <2>6. PrefixBytes(log, e) \in Nat BY <2>2, PrefixStep
  <2>7. RetainedBytes(t) <= RetainedBytes(log) BY <1>1, <2>5, <2>6
  <2>8. Len(t) <= ReplayLimit BY <1>0, <2>2, <2>5
  <2> QED BY <2>2, <2>4, <2>5, <2>7, <2>8
<1>3. CASE ~(Len(log) > ReplayLimit)
  <2>1. TrimToLimit(log) = log BY <1>3 DEF TrimToLimit
  <2>2. 0 \in 0 .. (Len(log) - 1) /\ Len(log) - 0 = Len(log) /\ Len(log) <= ReplayLimit
        /\ \A i \in 1 .. Len(log) : 0 + i = i
    BY <1>0, <1>3
  <2>3. \A i \in 1 .. (Len(log) - 0) : log[i] = log[0 + i] BY <2>2
  <2>4. RetainedBytes(log) <= RetainedBytes(log) BY <1>1
  <2> QED BY <1>1, <2>1, <2>2, <2>3, <2>4
<1> QED BY <1>2, <1>3

-----------------------------------------------------------------------------
(* The replay log: steps *)

LogInv == LogSound /\ recorded \subseteq 1 .. seq

\* dispatchRaw keeps the log sound: it appends, evicts by bytes, trims by count.
LEMMA DispatchKeepsLog ==
  ASSUME LogInv, NEW size \in Sizes, DispatchRecorded(size) PROVE LogInv'
<1>1. /\ seq \in 0 .. MaxSeq /\ seq < MaxSeq /\ MaxSeq \in Nat /\ events \in Seq(Event)
      /\ eventsBytes \in Nat /\ recorded \subseteq 1 .. seq /\ eventsBytes >= RetainedBytes(events)
      /\ seq' = seq + 1 /\ recorded' = recorded \cup {seq + 1}
      /\ size \in Nat /\ ReplayBytes \in Nat /\ ReplayLimit \in Nat \ {0}
  BY MaxSeqAssumption, SizesAssumption, ReplayBytesAssumption, ReplayLimitAssumption
     DEF LogInv, LogSound, TypeOK, LogTypeOK, NeverUndercounted, DispatchRecorded
<1>2. PICK ev : ev = [seq |-> seq + 1, size |-> size] OBVIOUS
<1>3. ev \in Event /\ ev.seq = seq + 1 /\ ev.size = size BY <1>1, <1>2 DEF Event
<1>4. PICK log : log = Append(events, ev) OBVIOUS
<1>5. /\ log \in Seq(Event) /\ Len(log) = Len(events) + 1 /\ Len(events) \in Nat /\ log # <<>>
      /\ (\A i \in 1 .. Len(events) : log[i] = events[i]) /\ log[Len(log)] = ev
      /\ RetainedBytes(log) = RetainedBytes(events) + size
  BY <1>1, <1>3, <1>4, AppendProperties, AppendBytes
<1>6. PICK total : total = eventsBytes + size OBVIOUS
<1>7. PICK d : d = EvictCount(log, total) OBVIOUS
<1>8. RetainedBytes(events) \in Nat BY <1>1, <1>5, PrefixStep DEF RetainedBytes
<1>9. total \in Nat /\ total >= RetainedBytes(log) BY <1>1, <1>5, <1>6, <1>8
<1>10. /\ d \in 0 .. (Len(log) - 1) /\ d \in 0 .. Len(log)
       /\ d = Len(log) - 1 \/ total - PrefixBytes(log, d) <= ReplayBytes
  <2>1. /\ EvictCount(log, total) \in 0 .. (Len(log) - 1)
        /\ \/ EvictCount(log, total) = Len(log) - 1
           \/ total - PrefixBytes(log, EvictCount(log, total)) <= ReplayBytes
    BY <1>5, <1>9, Evicts
  <2>2. \A k \in 0 .. (Len(log) - 1) : k \in 0 .. Len(log) BY <1>5
  <2> QED BY <1>7, <2>1, <2>2
<1>11. PICK remains : remains = SubSeq(log, d + 1, Len(log)) OBVIOUS
<1>12. /\ remains \in Seq(Event) /\ Len(remains) = Len(log) - d
       /\ \A i \in 1 .. Len(remains) : remains[i] = log[d + i]
       /\ RetainedBytes(remains) = RetainedBytes(log) - PrefixBytes(log, d)
       /\ RetainedBytes(remains) \in Nat
  BY <1>5, <1>10, <1>11, RestBytes
<1>13. remains # <<>> /\ Len(remains) \in Nat \ {0} BY <1>5, <1>10, <1>12
<1>14. events' = TrimToLimit(remains) /\ eventsBytes' = total - PrefixBytes(log, d)
  BY <1>2, <1>4, <1>6, <1>7, <1>11 DEF DispatchRecorded, Record
<1>15. PICK e \in 0 .. (Len(remains) - 1) :
         /\ events' \in Seq(Event) /\ Len(events') = Len(remains) - e
         /\ \A i \in 1 .. (Len(remains) - e) : events'[i] = remains[e + i]
         /\ Len(events') <= ReplayLimit
         /\ RetainedBytes(events') <= RetainedBytes(remains)
         /\ RetainedBytes(events') \in Nat
  BY <1>12, <1>13, <1>14, Trims
<1>16. PrefixBytes(log, d) \in Nat BY <1>5, <1>10, PrefixStep
<1>17. /\ eventsBytes' \in Nat /\ RetainedBytes(events') <= eventsBytes'
  BY SMTT(60), <1>5, <1>8, <1>9, <1>12, <1>14, <1>15, <1>16, <1>1
<1>18. RetainedBytes(events') <= ReplayBytes \/ Len(events') = 1
  <2>1. CASE d = Len(log) - 1 BY <1>5, <1>12, <1>13, <1>15, <2>1
  <2>2. CASE total - PrefixBytes(log, d) <= ReplayBytes BY <1>1, <1>14, <1>15, <1>17, <2>2
  <2> QED BY <1>10, <2>1, <2>2
<1>19. PICK g : g = d + e OBVIOUS
<1>20. /\ g \in 0 .. (Len(log) - 1) /\ Len(events') = Len(log) - g /\ Len(events') \in Nat \ {0}
       /\ \A i \in 1 .. Len(events') : g + i \in 1 .. Len(log)
  BY <1>5, <1>10, <1>12, <1>13, <1>15, <1>19
<1>21. ASSUME NEW i \in 1 .. Len(events') PROVE events'[i] = log[g + i]
  <2>1. i \in 1 .. (Len(remains) - e) /\ e + i \in 1 .. Len(remains) /\ d + (e + i) = g + i
    BY <1>5, <1>10, <1>12, <1>13, <1>15, <1>19
  <2> QED BY <1>12, <1>15, <2>1
<1>22. recorded' \subseteq 1 .. seq' BY <1>1
<1>23. TypeOK' BY <1>1, <1>15, <1>17, <1>22 DEF TypeOK, LogTypeOK
<1>24. RetainedSuffix'
  <2>1. /\ \A i, j \in 1 .. Len(events) : i < j => events[i].seq < events[j].seq
        /\ \A i \in 1 .. Len(events) : events[i].seq \in recorded
        /\ \A m \in recorded, i \in 1 .. Len(events) : events[i].seq <= m =>
             \E j \in 1 .. Len(events) : events[j].seq = m
    <3>1. DOMAIN events = 1 .. Len(events) BY <1>1
    <3> QED BY <3>1 DEF LogInv, LogSound, RetainedSuffix
  <2>2. DOMAIN events' = 1 .. Len(events') BY <1>15
  <2>3. \A i \in 1 .. Len(events) : events[i].seq \in 1 .. seq BY <1>1, <2>1
  <2>4. \A i, j \in 1 .. Len(log) : i < j => log[i].seq < log[j].seq
    <3>1. ASSUME NEW i \in 1 .. Len(log), NEW j \in 1 .. Len(log), i < j PROVE log[i].seq < log[j].seq
      <4>1. i \in 1 .. Len(events) /\ log[i] = events[i] BY <1>5, <3>1
      <4>2. CASE j \in 1 .. Len(events) BY <1>5, <2>1, <3>1, <4>1, <4>2
      <4>3. CASE j = Len(log) BY <1>1, <1>3, <1>5, <2>3, <4>1, <4>3
      <4> QED BY <1>5, <4>2, <4>3
    <3> QED BY <3>1
  <2>5. \A i, j \in DOMAIN events' : i < j => events'[i].seq < events'[j].seq
    <3>1. ASSUME NEW i \in 1 .. Len(events'), NEW j \in 1 .. Len(events'), i < j
          PROVE  events'[i].seq < events'[j].seq
      <4>1. g + i \in 1 .. Len(log) /\ g + j \in 1 .. Len(log) /\ g + i < g + j BY <1>20, <3>1
      <4> QED BY <1>21, <2>4, <4>1
    <3> QED BY <2>2, <3>1
  <2>6. ASSUME NEW i \in 1 .. Len(events') PROVE events'[i].seq \in recorded'
    <3>1. g + i \in 1 .. Len(log) /\ events'[i] = log[g + i] BY <1>20, <1>21
    <3>2. CASE g + i \in 1 .. Len(events) BY <1>1, <1>5, <2>1, <3>1, <3>2
    <3>3. CASE g + i = Len(log) BY <1>1, <1>3, <1>5, <3>1, <3>3
    <3> QED BY <1>5, <3>1, <3>2, <3>3
  <2>7. ASSUME NEW m \in recorded', NEW i \in 1 .. Len(events'), events'[i].seq <= m
        PROVE  \E j \in 1 .. Len(events') : events'[j].seq = m
    <3>1. g + i \in 1 .. Len(log) /\ events'[i] = log[g + i] BY <1>20, <1>21
    <3>2. CASE m = seq + 1
      <4>1. Len(events') \in 1 .. Len(events') /\ g + Len(events') = Len(log) BY <1>5, <1>20
      <4>2. events'[Len(events')] = log[Len(log)] BY <1>21, <4>1
      <4> QED BY <1>3, <1>5, <3>2, <4>1, <4>2
    <3>3. CASE m \in recorded
      <4>1. m \in 1 .. seq BY <1>1, <3>3
      <4>2. g + i # Len(log) BY <1>1, <1>3, <1>5, <2>7, <3>1, <4>1
      <4>3. g + i \in 1 .. Len(events) BY <1>5, <3>1, <4>2
      <4>4. PICK j \in 1 .. Len(events) : events[j].seq = m BY <1>5, <2>1, <2>7, <3>1, <3>3, <4>3
      <4>5. ~(j < g + i)
        <5>1. ASSUME j < g + i PROVE FALSE
          <6>1. events[j].seq < events[g + i].seq BY <2>1, <4>3, <5>1
          <6>2. events[g + i].seq <= m /\ events[g + i].seq \in Nat BY <1>5, <2>3, <2>7, <3>1, <4>3
          <6> QED BY <4>1, <4>4, <6>1, <6>2
        <5> QED BY <5>1
      <4>6. j - g \in 1 .. Len(events') /\ g + (j - g) = j BY <1>5, <1>20, <4>3, <4>5
      <4>7. events'[j - g] = log[j] BY <1>21, <4>6
      <4> QED BY <1>5, <4>4, <4>6, <4>7
    <3> QED BY <1>1, <3>2, <3>3
  <2>8. 1 \in DOMAIN events' BY <1>20, <2>2
  <2> QED BY <2>2, <2>5, <2>6, <2>7, <2>8 DEF RetainedSuffix
<1>25. WithinBounds' /\ NeverUndercounted'
  BY <1>15, <1>17, <1>18 DEF WithinBounds, NeverUndercounted
<1> QED BY <1>22, <1>23, <1>24, <1>25 DEF LogInv, LogSound

\* An empty log is sound.
LEMMA EmptyLog ==
  /\ <<>> \in Seq(Event) /\ RetainedBytes(<<>>) = 0
<1>1. <<>> \in Seq(Event) /\ Len(<<>>) = 0 OBVIOUS
<1> QED BY <1>1, PrefixStep DEF RetainedBytes

\* The replay log is the newest gap-free part of what was recorded, stays
\* within both bounds unless one frame alone is longer, and its byte counter
\* never falls below its bytes, for frames of any length and any bounds
\* (dispatchRaw, reapStaleLocked).
THEOREM LogStaysSound == Spec => []LogSound
<1>1. Init => LogInv
  <2> SUFFICES ASSUME Init PROVE LogInv OBVIOUS
  <2>1. seq = 0 /\ events = <<>> /\ eventsBytes = 0 /\ recorded = {} BY DEF Init
  <2>2. TypeOK BY <2>1, EmptyLog, MaxSeqAssumption DEF TypeOK, LogTypeOK
  <2>3. RetainedSuffix BY <2>1 DEF RetainedSuffix
  <2>4. WithinBounds /\ NeverUndercounted
    BY <2>1, EmptyLog, ReplayLimitAssumption, ReplayBytesAssumption DEF WithinBounds, NeverUndercounted
  <2> QED BY <2>1, <2>2, <2>3, <2>4 DEF LogInv, LogSound
<1>2. LogInv /\ [Next]_vars => LogInv'
  <2> SUFFICES ASSUME LogInv, [Next]_vars PROVE LogInv' OBVIOUS
  <2>1. ASSUME NEW size \in Sizes, DispatchRecorded(size) PROVE LogInv' BY <2>1, DispatchKeepsLog
  <2>2. CASE DispatchUnrecorded
    <3>1. /\ seq' = seq + 1 /\ seq < MaxSeq /\ UNCHANGED <<events, eventsBytes, recorded>>
      BY <2>2 DEF DispatchUnrecorded
    <3>2. TypeOK' /\ recorded' \subseteq 1 .. seq'
      BY <3>1, MaxSeqAssumption DEF LogInv, LogSound, TypeOK, LogTypeOK
    <3>3. RetainedSuffix' BY <3>1 DEF LogInv, LogSound, RetainedSuffix
    <3>4. WithinBounds' /\ NeverUndercounted'
      BY <3>1 DEF LogInv, LogSound, WithinBounds, NeverUndercounted
    <3> QED BY <3>2, <3>3, <3>4 DEF LogInv, LogSound
  <2>3. CASE Reap
    <3>1. seq' = seq /\ events' = <<>> /\ eventsBytes' = 0 /\ recorded' = {} BY <2>3 DEF Reap
    <3>2. TypeOK' /\ recorded' \subseteq 1 .. seq'
      BY <3>1, EmptyLog DEF LogInv, LogSound, TypeOK, LogTypeOK
    <3>3. RetainedSuffix' BY <3>1 DEF RetainedSuffix
    <3>4. WithinBounds' /\ NeverUndercounted'
      BY <3>1, EmptyLog, ReplayLimitAssumption, ReplayBytesAssumption DEF WithinBounds, NeverUndercounted
    <3> QED BY <3>2, <3>3, <3>4 DEF LogInv, LogSound
  <2>4. CASE UNCHANGED vars
    <3>1. UNCHANGED <<seq, events, eventsBytes, recorded>> BY <2>4 DEF vars
    <3>2. TypeOK' /\ recorded' \subseteq 1 .. seq'
      BY <3>1 DEF LogInv, LogSound, TypeOK, LogTypeOK
    <3>3. RetainedSuffix' BY <3>1 DEF LogInv, LogSound, RetainedSuffix
    <3>4. WithinBounds' /\ NeverUndercounted'
      BY <3>1 DEF LogInv, LogSound, WithinBounds, NeverUndercounted
    <3> QED BY <3>2, <3>3, <3>4 DEF LogInv, LogSound
  <2> QED BY <2>1, <2>2, <2>3, <2>4 DEF Next
<1>3. LogInv => LogSound BY DEF LogInv
<1> QED BY <1>1, <1>2, <1>3, PTL DEF Spec

-----------------------------------------------------------------------------
(* Presence: lines and views *)

Kinds == {"AWAY", "305/306", "352", "JOIN", "ACCOUNT", "NICK", "QUIT", "PART"}
Telling == {"AWAY", "305/306", "352"}
Leaving == {"PART", "QUIT"}
Said == [kind : Kinds, who : People, nick : Handles, to : Handles, flag : BOOLEAN, acct : BOOLEAN]

\* What the books would be if they were never wrong: who is in the channel,
\* under which nick and account, and whether the user is away.
View == [nick : [People -> Handles], in : SUBSET People, acct : [People -> BOOLEAN], flag : BOOLEAN]

ViewOK(a) == Self \in a.in /\ \A u, v \in a.in : a.nick[u] = a.nick[v] => u = v

\* Line e turns view a into view b.
Turns(e, a, b) ==
  /\ \A v \in People \ {e.who} :
       /\ v \in a.in <=> v \in b.in
       /\ v \in a.in => a.nick[v] = b.nick[v] /\ a.acct[v] = b.acct[v]
  /\ e.who \in a.in <=> e.kind # "JOIN"
  /\ e.who \in b.in <=> e.kind \notin Leaving
  /\ e.who \in a.in => a.nick[e.who] = e.nick /\ (e.kind # "ACCOUNT" => a.acct[e.who] = e.acct)
  /\ e.who \in b.in => b.nick[e.who] = e.to /\ b.acct[e.who] = e.acct
  /\ e.kind # "NICK" => e.to = e.nick
  /\ IF e.who = Self /\ e.kind \in {"AWAY", "305/306"} THEN b.flag = e.flag ELSE b.flag = a.flag
  /\ e.kind = "305/306" => e.who = Self
  /\ e.who = Self /\ e.kind = "352" => e.flag = a.flag

\* V is the views between the lines of q.
Path(V, q) ==
  /\ V \in Seq(View) /\ q \in Seq(Said) /\ Len(V) = Len(q) + 1
  /\ \A i \in 1..Len(V) : ViewOK(V[i])
  /\ \A i \in 1..Len(q) : Turns(q[i], V[i], V[i + 1])

\* A JOIN of u is in q; a line of one of these kinds about u is, behind it no JOIN.
JoinOf(e, u) == e.kind = "JOIN" /\ e.who = u
Joins(q, u) == \E i \in 1..Len(q) : JoinOf(q[i], u)
LastSaid(q, kinds, u) ==
  \E i \in 1..Len(q) : /\ q[i].kind \in kinds /\ q[i].who = u
                       /\ \A j \in (i + 1)..Len(q) : ~JoinOf(q[j], u)

\* The path behind the first line.
LEMMA PathTail ==
  ASSUME NEW V, NEW q, Path(V, q), q # <<>>
  PROVE  /\ Path(Tail(V), Tail(q)) /\ V[1] \in View /\ V[2] \in View /\ ViewOK(V[1]) /\ ViewOK(V[2])
         /\ Turns(Head(q), V[1], V[2]) /\ Tail(V)[1] = V[2] /\ Head(q) \in Said
         /\ Tail(V)[Len(Tail(V))] = V[Len(V)]
<1>1. V \in Seq(View) /\ q \in Seq(Said) /\ Len(V) = Len(q) + 1 /\ Len(q) \in Nat /\ Len(q) # 0
  BY EmptySeq DEF Path
<1>2. Len(q) >= 1 /\ Len(V) >= 2 BY <1>1
<1>3. V # <<>> BY <1>2
<1>4. /\ Tail(V) \in Seq(View) /\ Len(Tail(V)) = Len(V) - 1
      /\ \A i \in 1..Len(Tail(V)) : Tail(V)[i] = V[i + 1]
  BY <1>1, <1>3, HeadTailProperties
<1>5. /\ Tail(q) \in Seq(Said) /\ Len(Tail(q)) = Len(q) - 1 /\ Head(q) = q[1] /\ Head(q) \in Said
      /\ \A i \in 1..Len(Tail(q)) : Tail(q)[i] = q[i + 1]
  BY <1>1, HeadTailProperties
<1>6. \A i \in 1..Len(Tail(V)) : ViewOK(Tail(V)[i])
  BY <1>1, <1>2, <1>4 DEF Path
<1>7. ASSUME NEW i \in 1..Len(Tail(q)) PROVE Turns(Tail(q)[i], Tail(V)[i], Tail(V)[i + 1])
  <2>1. i + 1 \in 1..Len(q) /\ i \in 1..Len(Tail(V)) /\ i + 1 \in 1..Len(Tail(V))
    BY <1>1, <1>4, <1>5
  <2>2. Tail(q)[i] = q[i + 1] /\ Tail(V)[i] = V[i + 1] /\ Tail(V)[i + 1] = V[(i + 1) + 1]
    BY <2>1, <1>4, <1>5
  <2>3. Turns(q[i + 1], V[i + 1], V[(i + 1) + 1]) BY <2>1 DEF Path
  <2> QED BY <2>2, <2>3
<1>8. Path(Tail(V), Tail(q)) BY <1>1, <1>4, <1>5, <1>6, <1>7 DEF Path
<1>9. V[1] \in View /\ V[2] \in View /\ ViewOK(V[1]) /\ ViewOK(V[2]) /\ Turns(q[1], V[1], V[1 + 1])
  BY <1>1, <1>2, ElementOfSeq DEF Path
<1>10. Tail(V)[1] = V[1 + 1] /\ Tail(V)[Len(V) - 1] = V[(Len(V) - 1) + 1] BY <1>1, <1>2, <1>4
<1>11. 1 + 1 = 2 /\ (Len(V) - 1) + 1 = Len(V) BY <1>1
<1> QED BY <1>4, <1>5, <1>8, <1>9, <1>10, <1>11

\* One more line, and the view behind it.
LEMMA PathAppend ==
  ASSUME NEW V, NEW q, Path(V, q), NEW e \in Said, NEW b \in View, ViewOK(b), Turns(e, V[Len(V)], b)
  PROVE  /\ Path(Append(V, b), Append(q, e)) /\ Append(V, b)[1] = V[1]
         /\ Append(V, b)[Len(Append(V, b))] = b
<1>1. V \in Seq(View) /\ q \in Seq(Said) /\ Len(V) = Len(q) + 1 /\ Len(q) \in Nat
  BY DEF Path
<1> DEFINE W == Append(V, b)
           p == Append(q, e)
<1>2. /\ W \in Seq(View) /\ Len(W) = Len(V) + 1 /\ W[Len(V) + 1] = b
      /\ \A i \in 1..Len(V) : W[i] = V[i]
  BY <1>1, AppendProperties
<1>3. /\ p \in Seq(Said) /\ Len(p) = Len(q) + 1 /\ p[Len(q) + 1] = e
      /\ \A i \in 1..Len(q) : p[i] = q[i]
  BY <1>1, AppendProperties
<1> HIDE DEF W, p
<1>4. ASSUME NEW i \in 1..Len(W) PROVE ViewOK(W[i])
  <2>1. i \in 1..Len(V) \/ i = Len(V) + 1 BY <1>1, <1>2
  <2> QED BY <2>1, <1>2 DEF Path
<1>5. ASSUME NEW i \in 1..Len(p) PROVE Turns(p[i], W[i], W[i + 1])
  <2>1. CASE i = Len(p)
    <3>1. p[i] = e /\ W[i] = V[Len(V)] /\ W[i + 1] = b BY <2>1, <1>1, <1>2, <1>3
    <3> QED BY <3>1
  <2>2. CASE i # Len(p)
    <3>1. i \in 1..Len(q) /\ i \in 1..Len(V) /\ i + 1 \in 1..Len(V) BY <2>2, <1>1, <1>3
    <3>2. p[i] = q[i] /\ W[i] = V[i] /\ W[i + 1] = V[i + 1] BY <3>1, <1>2, <1>3
    <3> QED BY <3>1, <3>2 DEF Path
  <2> QED BY <2>1, <2>2
<1>6. W[1] = V[1] BY <1>1, <1>2
<1>7. Path(W, p) /\ W[1] = V[1] /\ W[Len(W)] = b BY <1>1, <1>2, <1>3, <1>4, <1>5, <1>6 DEF Path
<1> QED BY <1>7 DEF W, p

\* More lines that change nothing.
LEMMA PathStill ==
  ASSUME NEW V, NEW q, Path(V, q), NEW more \in Seq(Said),
         \A i \in 1..Len(more) : Turns(more[i], V[Len(V)], V[Len(V)])
  PROVE  \E W : /\ Path(W, q \o more) /\ W[1] = V[1] /\ W[Len(W)] = V[Len(V)]
<1>1. V \in Seq(View) /\ q \in Seq(Said) /\ Len(V) = Len(q) + 1 /\ Len(q) \in Nat /\ Len(more) \in Nat
  BY DEF Path
<1> DEFINE b == V[Len(V)]
           W == [i \in 1..(Len(q) + 1 + Len(more)) |-> IF i <= Len(V) THEN V[i] ELSE b]
           p == q \o more
<1>2. b \in View /\ ViewOK(b) BY <1>1, ElementOfSeq DEF Path
<1>3. \A i \in 1..Len(V) : V[i] \in View BY <1>1, ElementOfSeq
<1>4. W \in Seq(View) /\ Len(W) = Len(q) + 1 + Len(more)
  <2>1. Len(q) + 1 + Len(more) \in Nat BY <1>1
  <2>2. W \in [1..(Len(q) + 1 + Len(more)) -> View] BY <1>1, <1>2, <1>3
  <2> QED BY <2>1, <2>2, LenProperties
<1>5. /\ p \in Seq(Said) /\ Len(p) = Len(q) + Len(more)
      /\ \A i \in 1..Len(p) : p[i] = IF i <= Len(q) THEN q[i] ELSE more[i - Len(q)]
  BY <1>1, ConcatProperties
<1>6. \A i \in 1..Len(W) : W[i] = IF i <= Len(V) THEN V[i] ELSE b BY <1>4
<1> HIDE DEF W, p
<1>7. ASSUME NEW i \in 1..Len(W) PROVE ViewOK(W[i])
  <2>1. CASE i <= Len(V) BY <2>1, <1>1, <1>6 DEF Path
  <2>2. CASE ~(i <= Len(V)) BY <2>2, <1>2, <1>6
  <2> QED BY <2>1, <2>2
<1>8. ASSUME NEW i \in 1..Len(p) PROVE Turns(p[i], W[i], W[i + 1])
  <2>0. i \in 1..Len(W) /\ i + 1 \in 1..Len(W) BY <1>1, <1>4, <1>5
  <2>1. CASE i <= Len(q)
    <3>1. i <= Len(V) /\ i + 1 <= Len(V) /\ i \in 1..Len(q) BY <2>0, <2>1, <1>1, <1>5
    <3>2. W[i] = V[i] /\ W[i + 1] = V[i + 1] BY <2>0, <3>1, <1>6
    <3>3. p[i] = q[i] BY <2>1, <1>5
    <3> QED BY <3>1, <3>2, <3>3 DEF Path
  <2>2. CASE ~(i <= Len(q))
    <3>1. p[i] = more[i - Len(q)] /\ i - Len(q) \in 1..Len(more) BY <2>2, <1>1, <1>5
    <3>2. W[i] = b /\ W[i + 1] = b BY <2>0, <2>2, <1>1, <1>5, <1>6
    <3> QED BY <3>1, <3>2
  <2> QED BY <2>1, <2>2
<1>9. W[1] = V[1] /\ W[Len(W)] = b BY <1>1, <1>4, <1>6
<1>10. Path(W, p) BY <1>1, <1>4, <1>5, <1>7, <1>8 DEF Path
<1> QED BY <1>9, <1>10 DEF p

\* JOINs and last lines of the tail are those of the whole, but for the head.
LEMMA LastTail ==
  ASSUME NEW q \in Seq(Said), q # <<>>, NEW u
  PROVE  /\ Joins(q, u) <=> JoinOf(Head(q), u) \/ Joins(Tail(q), u)
         /\ \A kinds : LastSaid(q, kinds, u) <=>
              \/ LastSaid(Tail(q), kinds, u)
              \/ Head(q).kind \in kinds /\ Head(q).who = u /\ ~Joins(Tail(q), u)
<1>1. /\ Tail(q) \in Seq(Said) /\ Len(Tail(q)) = Len(q) - 1 /\ Head(q) = q[1]
      /\ Len(q) \in Nat /\ Len(q) # 0
      /\ \A i \in 1..Len(Tail(q)) : Tail(q)[i] = q[i + 1]
  BY HeadTailProperties, EmptySeq
<1> DEFINE p == Tail(q)
<1> HIDE DEF p
<1>2. /\ Len(p) = Len(q) - 1 /\ \A i \in 1..Len(p) : i + 1 \in 1..Len(q) /\ p[i] = q[i + 1]
      /\ \A i \in 1..Len(q) : i # 1 => i - 1 \in 1..Len(p) /\ p[i - 1] = q[i]
      /\ 1 \in 1..Len(q)
  <2>1. Len(p) = Len(q) - 1 /\ \A i \in 1..Len(p) : i + 1 \in 1..Len(q) /\ p[i] = q[i + 1]
    BY <1>1 DEF p
  <2>2. ASSUME NEW i \in 1..Len(q), i # 1 PROVE i - 1 \in 1..Len(p) /\ p[i - 1] = q[i]
    <3>1. i - 1 \in 1..Len(p) /\ (i - 1) + 1 = i BY <2>1, <2>2, <1>1
    <3> QED BY <3>1, <2>1
  <2> QED BY <2>1, <2>2, <1>1
<1>3. Joins(q, u) <=> JoinOf(q[1], u) \/ Joins(p, u)
  BY <1>2 DEF Joins
<1>4. ASSUME NEW kinds PROVE LastSaid(p, kinds, u) => LastSaid(q, kinds, u)
  <2> SUFFICES ASSUME LastSaid(p, kinds, u) PROVE LastSaid(q, kinds, u) OBVIOUS
  <2>1. PICK i \in 1..Len(p) : /\ p[i].kind \in kinds /\ p[i].who = u
                               /\ \A j \in (i + 1)..Len(p) : ~JoinOf(p[j], u)
    BY DEF LastSaid
  <2>2. i + 1 \in 1..Len(q) /\ q[i + 1] = p[i] BY <1>2
  <2>3. ASSUME NEW j \in ((i + 1) + 1)..Len(q) PROVE ~JoinOf(q[j], u)
    <3>1. j \in 1..Len(q) /\ j # 1 /\ j - 1 \in (i + 1)..Len(p) BY <1>1, <1>2
    <3> QED BY <3>1, <2>1, <1>2
  <2> QED BY <2>1, <2>2, <2>3 DEF LastSaid
<1>5. ASSUME NEW kinds, q[1].kind \in kinds, q[1].who = u, ~Joins(p, u) PROVE LastSaid(q, kinds, u)
  <2>1. ASSUME NEW j \in (1 + 1)..Len(q) PROVE ~JoinOf(q[j], u)
    <3>1. j \in 1..Len(q) /\ j # 1 BY <1>1
    <3> QED BY <3>1, <1>2, <1>5 DEF Joins
  <2> QED BY <2>1, <1>2, <1>5 DEF LastSaid
<1>6. ASSUME NEW kinds, LastSaid(q, kinds, u), ~LastSaid(p, kinds, u)
      PROVE  q[1].kind \in kinds /\ q[1].who = u /\ ~Joins(p, u)
  <2>1. PICK i \in 1..Len(q) : /\ q[i].kind \in kinds /\ q[i].who = u
                               /\ \A j \in (i + 1)..Len(q) : ~JoinOf(q[j], u)
    BY <1>6 DEF LastSaid
  <2>2. i = 1
    <3> SUFFICES ASSUME i # 1 PROVE FALSE OBVIOUS
    <3>1. i - 1 \in 1..Len(p) /\ p[i - 1] = q[i] BY <1>2
    <3>2. ASSUME NEW j \in ((i - 1) + 1)..Len(p) PROVE ~JoinOf(p[j], u)
      <4>1. j \in 1..Len(p) /\ j + 1 \in (i + 1)..Len(q) BY <1>1, <1>2
      <4> QED BY <4>1, <2>1, <1>2
    <3> QED BY <3>1, <3>2, <2>1, <1>6 DEF LastSaid
  <2>3. ASSUME NEW j \in 1..Len(p) PROVE ~JoinOf(p[j], u)
    <3>1. j + 1 \in (1 + 1)..Len(q) /\ p[j] = q[j + 1] BY <1>1, <1>2
    <3> QED BY <3>1, <2>1, <2>2
  <2> QED BY <2>1, <2>2, <2>3 DEF Joins
<1>7. \A kinds : LastSaid(q, kinds, u) <=>
        LastSaid(p, kinds, u) \/ (q[1].kind \in kinds /\ q[1].who = u /\ ~Joins(p, u))
  BY <1>4, <1>5, <1>6
<1> QED BY <1>1, <1>3, <1>7 DEF p

\* JOINs and last lines after more lines were appended.
LEMMA LastConcat ==
  ASSUME NEW q \in Seq(Said), NEW more \in Seq(Said), NEW u
  PROVE  /\ Joins(q \o more, u) <=> Joins(q, u) \/ Joins(more, u)
         /\ \A kinds : LastSaid(q \o more, kinds, u) <=>
              LastSaid(more, kinds, u) \/ (LastSaid(q, kinds, u) /\ ~Joins(more, u))
<1> DEFINE p == q \o more
<1>1. /\ Len(q) \in Nat /\ Len(more) \in Nat /\ Len(p) = Len(q) + Len(more)
      /\ \A i \in 1..Len(q) : p[i] = q[i]
      /\ \A i \in 1..Len(more) : p[Len(q) + i] = more[i]
  <2>1. /\ Len(q) \in Nat /\ Len(more) \in Nat /\ Len(p) = Len(q) + Len(more)
        /\ \A i \in 1..Len(p) : p[i] = IF i <= Len(q) THEN q[i] ELSE more[i - Len(q)]
    BY ConcatProperties
  <2>2. ASSUME NEW i \in 1..Len(q) PROVE p[i] = q[i]
    <3>1. i \in 1..Len(p) /\ i <= Len(q) BY <2>1
    <3> QED BY <3>1, <2>1
  <2>3. ASSUME NEW i \in 1..Len(more) PROVE p[Len(q) + i] = more[i]
    <3>1. Len(q) + i \in 1..Len(p) /\ ~(Len(q) + i <= Len(q)) /\ (Len(q) + i) - Len(q) = i BY <2>1
    <3> QED BY <3>1, <2>1
  <2> QED BY <2>1, <2>2, <2>3
<1> HIDE DEF p
<1>2. /\ \A i \in 1..Len(q) : i \in 1..Len(p) /\ p[i] = q[i]
      /\ \A i \in 1..Len(more) : Len(q) + i \in 1..Len(p) /\ p[Len(q) + i] = more[i]
      /\ \A i \in 1..Len(p) : i \in 1..Len(q) \/ (i - Len(q) \in 1..Len(more) /\ p[i] = more[i - Len(q)])
  <2>1. ASSUME NEW i \in 1..Len(p)
        PROVE  i \in 1..Len(q) \/ (i - Len(q) \in 1..Len(more) /\ p[i] = more[i - Len(q)])
    <3> SUFFICES ASSUME i \notin 1..Len(q)
                 PROVE  i - Len(q) \in 1..Len(more) /\ p[i] = more[i - Len(q)]
      OBVIOUS
    <3>1. i - Len(q) \in 1..Len(more) /\ Len(q) + (i - Len(q)) = i BY <1>1
    <3> QED BY <3>1, <1>1
  <2> QED BY <2>1, <1>1
<1>3. Joins(p, u) <=> Joins(q, u) \/ Joins(more, u)
  BY <1>2 DEF Joins
<1>4. ASSUME NEW kinds, LastSaid(more, kinds, u) PROVE LastSaid(p, kinds, u)
  <2>1. PICK i \in 1..Len(more) : /\ more[i].kind \in kinds /\ more[i].who = u
                                  /\ \A j \in (i + 1)..Len(more) : ~JoinOf(more[j], u)
    BY <1>4 DEF LastSaid
  <2>2. ASSUME NEW j \in ((Len(q) + i) + 1)..Len(p) PROVE ~JoinOf(p[j], u)
    <3>1. j - Len(q) \in (i + 1)..Len(more) /\ j - Len(q) \in 1..Len(more) /\ Len(q) + (j - Len(q)) = j
      BY <1>1
    <3> QED BY <3>1, <2>1, <1>2
  <2> QED BY <2>1, <2>2, <1>2 DEF LastSaid
<1>5. ASSUME NEW kinds, LastSaid(q, kinds, u), ~Joins(more, u) PROVE LastSaid(p, kinds, u)
  <2>1. PICK i \in 1..Len(q) : /\ q[i].kind \in kinds /\ q[i].who = u
                               /\ \A j \in (i + 1)..Len(q) : ~JoinOf(q[j], u)
    BY <1>5 DEF LastSaid
  <2>2. ASSUME NEW j \in (i + 1)..Len(p) PROVE ~JoinOf(p[j], u)
    <3>1. j \in 1..Len(p) BY <1>1
    <3>2. CASE j \in 1..Len(q)
      <4>1. j \in (i + 1)..Len(q) BY <3>2, <1>1
      <4> QED BY <4>1, <3>2, <2>1, <1>2
    <3>3. CASE j - Len(q) \in 1..Len(more) /\ p[j] = more[j - Len(q)]
      BY <3>3, <1>5 DEF Joins
    <3> QED BY <3>1, <3>2, <3>3, <1>2
  <2> QED BY <2>1, <2>2, <1>2 DEF LastSaid
<1>6. ASSUME NEW kinds, LastSaid(p, kinds, u), ~LastSaid(more, kinds, u)
      PROVE  LastSaid(q, kinds, u) /\ ~Joins(more, u)
  <2>1. PICK i \in 1..Len(p) : /\ p[i].kind \in kinds /\ p[i].who = u
                               /\ \A j \in (i + 1)..Len(p) : ~JoinOf(p[j], u)
    BY <1>6 DEF LastSaid
  <2>2. i \in 1..Len(q)
    <3> SUFFICES ASSUME i - Len(q) \in 1..Len(more), p[i] = more[i - Len(q)] PROVE FALSE BY <1>2
    <3>1. ASSUME NEW j \in ((i - Len(q)) + 1)..Len(more) PROVE ~JoinOf(more[j], u)
      <4>1. j \in 1..Len(more) /\ Len(q) + j \in (i + 1)..Len(p) BY <1>1
      <4> QED BY <4>1, <2>1, <1>2
    <3> QED BY <3>1, <2>1, <1>6 DEF LastSaid
  <2>3. ASSUME NEW j \in (i + 1)..Len(q) PROVE ~JoinOf(q[j], u)
    <3>1. j \in 1..Len(q) /\ j \in (i + 1)..Len(p) BY <1>1
    <3> QED BY <3>1, <2>1, <1>2
  <2>4. ASSUME NEW j \in 1..Len(more) PROVE ~JoinOf(more[j], u)
    <3>1. Len(q) + j \in (i + 1)..Len(p) BY <2>2, <1>1
    <3> QED BY <3>1, <2>1, <1>2
  <2> QED BY <2>1, <2>2, <2>3, <2>4, <1>2 DEF LastSaid, Joins
<1>7. \A kinds : LastSaid(p, kinds, u) <=> LastSaid(more, kinds, u) \/ (LastSaid(q, kinds, u) /\ ~Joins(more, u))
  BY <1>4, <1>5, <1>6
<1> QED BY <1>3, <1>7 DEF p

-----------------------------------------------------------------------------
(* Presence: the inductive invariant *)

PresenceTypes ==
  /\ nickOf \in [People -> Handles] /\ whereIs \in [People -> {"in", "out", "gone"}]
  /\ isAway \in [People -> BOOLEAN] /\ account \in [People -> BOOLEAN]
  /\ selfEcho \in BOOLEAN /\ online \in BOOLEAN /\ blurred \in BOOLEAN
  /\ wire \in Seq(Said)

\* No two people who are connected have one nick.
NicksDiffer ==
  \A u, v \in People : whereIs[u] # "gone" /\ whereIs[v] # "gone" /\ nickOf[u] = nickOf[v] => u = v

\* AWAY about the user only comes from a server that echoes it.
Silent(q) == \A i \in 1..Len(q) : ~(q[i].kind = "AWAY" /\ q[i].who = Self)

\* The view behind the last line is how things are.
ServerView(a) ==
  /\ a.in = {u \in People : Visible(u)} /\ a.flag = isAway[Self]
  /\ \A u \in a.in : a.nick[u] = nickOf[u] /\ a.acct[u] = account[u]

\* The clients were told what the mark of the user's own nick says.
Told(a) ==
  ~selfEcho /\ ~blurred => /\ a.nick[Self] \in away <=> a.flag
                           /\ selfShown = "online" <=> ~a.flag

\* Who was seen to join has his facts under the nick he has in this view.
FactOf(a, u) == u \in a.in /\ a.nick[u] \in DOMAIN peers /\ peers[a.nick[u]] = a.acct[u]
Facts(a) == Self \notin arrived /\ \A u \in arrived : FactOf(a, u)

\* Who is in the channel is in the view or about to join; and the mark is
\* right, unless a line is still to tell or u changed out of sight.
MarkOf(a, u) ==
  Visible(u) =>
    /\ Joins(wire, u) \/ u \in a.in
    /\ u \notin unseen /\ ~LastSaid(wire, Telling, u) =>
         IF Joins(wire, u) THEN ~isAway[u] ELSE isAway[u] <=> a.nick[u] \in away
Marks(a) == \A u \in People : MarkOf(a, u)

\* Who is in the channel has a JOIN behind every PART and QUIT.
StaysIn(u) == Visible(u) => ~LastSaid(wire, Leaving, u)

PresenceFrame ==
  /\ PresenceTypes /\ Visible(Self) /\ NicksDiffer
  /\ ~online => wire = <<>> /\ arrived = {} /\ blurred
  /\ ~selfEcho => Silent(wire)
  /\ \A u \in People : StaysIn(u)

\* The books are right about the view in front of the lines that are to come.
Booked(V) == Path(V, wire) /\ ServerView(V[Len(V)]) /\ Told(V[1]) /\ Facts(V[1]) /\ Marks(V[1])

PresenceInv == PresenceFrame /\ (online => \E V : Booked(V))

\* The property follows: with no line to come there is one view only.
LEMMA BooksAreRight == PresenceInv => PresenceRight
<1> SUFFICES ASSUME PresenceInv, AllHandled PROVE AwayRight /\ FactsFollow /\ PresenceTold
  BY DEF PresenceRight, AwayRight, FactsFollow, PresenceTold
<1>1. PICK V : Booked(V) BY DEF AllHandled, PresenceInv
<1>2. wire = <<>> /\ Len(wire) = 0 BY DEF AllHandled
<1>3. V \in Seq(View) /\ Len(V) = 1 BY <1>1, <1>2 DEF Booked, Path
<1> DEFINE a == V[1]
<1>4. a \in View /\ ServerView(a) /\ Told(a) /\ Facts(a) /\ Marks(a) /\ ViewOK(a)
  BY <1>1, <1>3, ElementOfSeq DEF Booked, Path
<1> HIDE DEF a
<1>5. \A u : ~Joins(wire, u) /\ ~LastSaid(wire, Telling, u) BY <1>2 DEF Joins, LastSaid
<1>6. PresenceTypes BY DEF PresenceInv, PresenceFrame
<1>7. ASSUME NEW u \in People, Visible(u), u \notin unseen PROVE (nickOf[u] \in away) = isAway[u]
  <2>1. MarkOf(a, u) BY <1>4 DEF Marks
  <2>2. isAway[u] <=> a.nick[u] \in away BY <2>1, <1>5, <1>7 DEF MarkOf
  <2>3. u \in a.in /\ a.nick[u] = nickOf[u] BY <1>4, <1>7 DEF ServerView
  <2>4. isAway[u] \in BOOLEAN BY <1>6 DEF PresenceTypes
  <2> QED BY <2>2, <2>3, <2>4
<1>8. ASSUME NEW u \in arrived PROVE nickOf[u] \in DOMAIN peers /\ peers[nickOf[u]] = account[u]
  <2>1. FactOf(a, u) BY <1>4 DEF Facts
  <2> QED BY <2>1, <1>4 DEF FactOf, ServerView
<1>9. ASSUME ~selfEcho, ~blurred PROVE (selfShown = "online") = ~isAway[Self]
  <2>1. selfShown = "online" <=> ~isAway[Self] BY <1>4, <1>9 DEF Told, ServerView
  <2>2. isAway[Self] \in BOOLEAN BY <1>6 DEF PresenceTypes, People
  <2> QED BY <2>1, <2>2
<1> QED BY <1>7, <1>8, <1>9 DEF AwayRight, FactsFollow, PresenceTold

\* What a handler sees: the first two views, and the line between them.
LEMMA HandlerView ==
  ASSUME PresenceInv, NEW kind, Handle(kind)
  PROVE  \E V : /\ Booked(V) /\ V[1] \in View /\ V[2] \in View /\ ViewOK(V[1]) /\ ViewOK(V[2])
                /\ Turns(Head(wire), V[1], V[2])
                /\ Told(V[1]) /\ Facts(V[1]) /\ Marks(V[1])
<1>1. online BY DEF PresenceInv, PresenceFrame, Handle
<1>2. PICK V : Booked(V) BY <1>1 DEF PresenceInv
<1>3. wire # <<>> BY DEF Handle
<1> QED BY <1>2, <1>3, PathTail DEF Booked

\* A handler only has to keep the books right about the next view.
LEMMA HandlerKeeps ==
  ASSUME PresenceInv, NEW kind, Handle(kind), NEW V, Booked(V), blurred' \in BOOLEAN,
         Told(V[2])', Facts(V[2])', Marks(V[2])'
  PROVE  PresenceInv'
<1>0. wire # <<>> /\ wire' = Tail(wire) /\ UNCHANGED <<serverVars, userVars, online, turns>>
  BY DEF Handle
<1>1. PresenceFrame /\ PresenceTypes /\ wire \in Seq(Said) BY DEF PresenceInv, PresenceFrame, PresenceTypes
<1>2. online BY <1>0, <1>1 DEF PresenceFrame
<1>3. wire' \in Seq(Said) BY <1>0, <1>1, HeadTailProperties
<1>4. PresenceTypes' BY <1>0, <1>1, <1>3 DEF PresenceTypes, serverVars
<1>5. Visible(Self)' /\ NicksDiffer' BY <1>0, <1>1 DEF PresenceFrame, Visible, NicksDiffer, serverVars
<1>6. ~selfEcho' => Silent(wire')
  <2> SUFFICES ASSUME ~selfEcho PROVE Silent(Tail(wire)) BY <1>0 DEF serverVars
  <2>1. Silent(wire) BY <1>1 DEF PresenceFrame
  <2>2. /\ Len(Tail(wire)) = Len(wire) - 1 /\ Len(wire) \in Nat
        /\ \A i \in 1..Len(Tail(wire)) : Tail(wire)[i] = wire[i + 1]
    BY <1>0, <1>1, HeadTailProperties
  <2>3. ASSUME NEW i \in 1..Len(Tail(wire))
        PROVE  ~(Tail(wire)[i].kind = "AWAY" /\ Tail(wire)[i].who = Self)
    <3>1. i + 1 \in 1..Len(wire) BY <2>2
    <3> QED BY <3>1, <2>1, <2>2 DEF Silent
  <2> QED BY <2>3 DEF Silent
<1>7. ASSUME NEW u \in People PROVE StaysIn(u)'
  <2> SUFFICES ASSUME Visible(u)' PROVE ~LastSaid(wire', Leaving, u) BY DEF StaysIn
  <2>1. Visible(u) BY <1>0 DEF Visible, serverVars
  <2>2. ~LastSaid(wire, Leaving, u) BY <2>1, <1>1 DEF PresenceFrame, StaysIn
  <2> QED BY <2>2, <1>0, <1>1, LastTail
<1>8. PresenceFrame' BY <1>0, <1>2, <1>4, <1>5, <1>6, <1>7 DEF PresenceFrame
<1> DEFINE W == Tail(V)
<1>9. Path(W, Tail(wire)) /\ W[1] = V[2] /\ W[Len(W)] = V[Len(V)]
  BY <1>0, PathTail DEF Booked
<1>10. ServerView(V[Len(V)])'
  <2>1. ServerView(V[Len(V)]) BY DEF Booked
  <2> QED BY <2>1, <1>0 DEF ServerView, Visible, serverVars
<1> HIDE DEF W
<1>11. Booked(W)' BY <1>0, <1>9, <1>10 DEF Booked
<1> QED BY <1>8, <1>11 DEF PresenceInv

\* The marks after a handler: those of others stand, and the line's own person
\* is looked at only when nothing more is to come.
LEMMA HandlerMarks ==
  ASSUME PresenceInv, NEW kind, Handle(kind), NEW a \in View, NEW b \in View,
         Turns(Head(wire), a, b), Marks(a), NEW w, w = Head(wire).who,
         \A u \in a.in \ {w} : a.nick[u] \in away <=> b.nick[u] \in away',
         \A u \in People \ {w} : u \in unseen => u \in unseen',
         Joins(Tail(wire), w) => (w \in unseen => w \in unseen'),
         Visible(w) /\ w \notin unseen' /\ ~Joins(Tail(wire), w) /\ ~LastSaid(Tail(wire), Telling, w)
           => (isAway[w] <=> b.nick[w] \in away')
  PROVE  Marks(b)'
<1>0. wire # <<>> /\ wire' = Tail(wire) /\ UNCHANGED <<serverVars, userVars, online, turns>>
  BY DEF Handle
<1>1. PresenceFrame /\ wire \in Seq(Said) BY DEF PresenceInv, PresenceFrame, PresenceTypes
<1> DEFINE e == Head(wire)
<1>2. Turns(e, a, b) OBVIOUS
<1>3. \A u : /\ Joins(wire, u) <=> JoinOf(e, u) \/ Joins(wire', u)
             /\ \A kinds : LastSaid(wire, kinds, u) <=>
                  \/ LastSaid(wire', kinds, u)
                  \/ e.kind \in kinds /\ e.who = u /\ ~Joins(wire', u)
  BY <1>0, <1>1, LastTail
<1>4. UNCHANGED <<whereIs, isAway>> BY <1>0 DEF serverVars
<1> HIDE DEF e
<1>5. w = e.who BY DEF e
<1>6. ASSUME NEW u \in People, Visible(u)' PROVE Joins(wire', u) \/ u \in b.in
  <2>1. MarkOf(a, u) /\ Visible(u) /\ StaysIn(u) BY <1>1, <1>4, <1>6 DEF Marks, Visible, PresenceFrame
  <2>2. Joins(wire, u) \/ u \in a.in BY <2>1 DEF MarkOf
  <2>3. ~LastSaid(wire, Leaving, u) BY <2>1 DEF StaysIn
  <2>4. CASE u # w BY <2>2, <2>4, <1>2, <1>3, <1>5 DEF Turns, JoinOf
  <2>5. CASE u = w
    <3>1. e.kind \in Leaving => Joins(wire', u) BY <2>3, <2>5, <1>3, <1>5
    <3> QED BY <3>1, <2>5, <1>2, <1>5 DEF Turns
  <2> QED BY <2>4, <2>5
<1>7. ASSUME NEW u \in People, Visible(u)', u \notin unseen', ~LastSaid(wire', Telling, u)
      PROVE  IF Joins(wire', u) THEN ~isAway[u] ELSE isAway[u] <=> b.nick[u] \in away'
  <2>1. MarkOf(a, u) /\ Visible(u) BY <1>4, <1>7 DEF Marks, Visible
  <2>2. CASE u # w
    <3>1. u \notin unseen /\ ~LastSaid(wire, Telling, u) /\ (Joins(wire, u) <=> Joins(wire', u))
      BY <2>2, <1>3, <1>5, <1>7 DEF JoinOf
    <3>2. IF Joins(wire, u) THEN ~isAway[u] ELSE u \in a.in /\ (isAway[u] <=> a.nick[u] \in away)
      BY <3>1, <2>1 DEF MarkOf
    <3> QED BY <3>1, <3>2, <2>2
  <2>3. CASE u = w /\ ~Joins(wire', u) BY <2>1, <2>3, <1>0, <1>7
  <2>4. CASE u = w /\ Joins(wire', u)
    <3>1. u \notin unseen BY <2>4, <1>0, <1>7
    <3>2. Joins(wire, u) /\ ~LastSaid(wire, Telling, u) BY <2>4, <1>3, <1>5, <1>7
    <3> QED BY <3>1, <3>2, <2>1, <2>4 DEF MarkOf
  <2> QED BY <2>2, <2>3, <2>4
<1>8. ASSUME NEW u \in People PROVE MarkOf(b, u)'
  <2>1. isAway'[u] = isAway[u] BY <1>4
  <2> QED BY <2>1, <1>6, <1>7, <1>8 DEF MarkOf
<1> QED BY <1>8 DEF Marks

-----------------------------------------------------------------------------
(* Presence: handlers *)

\* The nicks of others are neither the line's old one nor its new one.
LEMMA OthersNicks ==
  ASSUME NEW e \in Said, NEW a \in View, NEW b \in View, ViewOK(a), ViewOK(b), Turns(e, a, b)
  PROVE  /\ e.who \in People /\ Self \in a.in /\ Self \in b.in
         /\ \A u \in a.in : u \in People
         /\ \A u \in a.in \ {e.who} :
              /\ u \in b.in /\ b.nick[u] = a.nick[u] /\ b.acct[u] = a.acct[u]
              /\ e.who \in a.in => a.nick[u] # e.nick
              /\ e.who \in b.in => a.nick[u] # e.to
<1>1. e.who \in People /\ a.in \subseteq People /\ b.in \subseteq People BY DEF Said, View
<1>2. Self \in a.in /\ Self \in b.in BY DEF ViewOK
<1>3. ASSUME NEW u \in a.in, u # e.who
      PROVE  u \in b.in /\ b.nick[u] = a.nick[u] /\ b.acct[u] = a.acct[u]
  <2>1. u \in People \ {e.who} BY <1>1, <1>3
  <2> QED BY <2>1 DEF Turns
<1>4. ASSUME NEW u \in a.in, u # e.who, e.who \in a.in PROVE a.nick[u] # e.nick
  <2>1. a.nick[e.who] = e.nick BY <1>4 DEF Turns
  <2> QED BY <2>1, <1>4 DEF ViewOK
<1>5. ASSUME NEW u \in a.in, u # e.who, e.who \in b.in PROVE a.nick[u] # e.to
  <2>1. b.nick[e.who] = e.to BY <1>5 DEF Turns
  <2> QED BY <2>1, <1>3, <1>5 DEF ViewOK
<1> QED BY <1>1, <1>2, <1>3, <1>4, <1>5

\* What SeenNow makes of a line.
LEMMA SeenFacts ==
  ASSUME wire \in Seq(Said), wire # <<>>, NEW e, unseen' = SeenNow(e)
  PROVE  /\ \A u : u # e.who /\ u \in unseen => u \in unseen'
         /\ Joins(Tail(wire), e.who) => unseen' = unseen
         /\ ~Joins(Tail(wire), e.who) /\ e.who \notin unseen' => e.flag = isAway[e.who]
<1>1. /\ Len(Tail(wire)) = Len(wire) - 1 /\ Len(wire) \in Nat
      /\ \A i \in 1..Len(Tail(wire)) : Tail(wire)[i] = wire[i + 1]
  BY HeadTailProperties
<1>2. ASSUME NEW i \in 2..Len(wire), wire[i].kind = "JOIN", wire[i].who = e.who
      PROVE  Joins(Tail(wire), e.who)
  <2>1. i - 1 \in 1..Len(Tail(wire)) /\ (i - 1) + 1 = i BY <1>1
  <2>2. Tail(wire)[i - 1] = wire[i] BY <2>1, <1>1
  <2> QED BY <2>1, <2>2, <1>2 DEF Joins, JoinOf
<1>3. ASSUME Joins(Tail(wire), e.who)
      PROVE  \E i \in 2..Len(wire) : wire[i].kind = "JOIN" /\ wire[i].who = e.who
  <2>1. PICK i \in 1..Len(Tail(wire)) : JoinOf(Tail(wire)[i], e.who) BY <1>3 DEF Joins
  <2>2. i + 1 \in 2..Len(wire) /\ wire[i + 1] = Tail(wire)[i] BY <1>1
  <2> QED BY <2>1, <2>2 DEF JoinOf
<1>4. CASE Joins(Tail(wire), e.who)
  <2>1. unseen' = unseen BY <1>3, <1>4 DEF SeenNow
  <2> QED BY <2>1, <1>4
<1>5. CASE ~Joins(Tail(wire), e.who)
  <2>1. unseen' = IF e.flag = isAway[e.who] THEN unseen \ {e.who} ELSE unseen \cup {e.who}
    BY <1>2, <1>5 DEF SeenNow
  <2> QED BY <2>1, <1>5
<1> QED BY <1>4, <1>5

\* The first line about the user is no AWAY when the server does not echo.
LEMMA NoEcho ==
  ASSUME PresenceInv, wire # <<>>, ~selfEcho
  PROVE  ~(Head(wire).kind = "AWAY" /\ Head(wire).who = Self)
<1>1. wire \in Seq(Said) /\ Silent(wire) BY DEF PresenceInv, PresenceFrame, PresenceTypes
<1>2. 1 \in 1..Len(wire) /\ Head(wire) = wire[1] BY <1>1, EmptySeq, HeadTailProperties
<1> QED BY <1>1, <1>2 DEF Silent

\* A line that tells whether someone is away sets that one's mark.
LEMMA Tells ==
  ASSUME PresenceInv, NEW kind \in Telling, Handle(kind), NEW e, e = Head(wire),
         NEW a \in View, NEW b \in View, ViewOK(a), ViewOK(b), Turns(e, a, b), Marks(a),
         away' = setAway(e.nick, e.flag), unseen' = SeenNow(e)
  PROVE  /\ Marks(b)' /\ e \in Said /\ e.kind = kind /\ e.who \in b.in
         /\ \A u \in a.in \ {e.who} : a.nick[u] \in away <=> b.nick[u] \in away'
         /\ \A u \in a.in : u \in b.in /\ b.nick[u] = a.nick[u] /\ b.acct[u] = a.acct[u]
         /\ b.nick[e.who] \in away' <=> e.flag
<1>0. wire # <<>> /\ e.kind = kind /\ UNCHANGED isAway BY DEF Handle, serverVars
<1>1. wire \in Seq(Said) /\ PresenceTypes BY DEF PresenceInv, PresenceFrame, PresenceTypes
<1>2. e \in Said BY <1>0, <1>1, HeadTailProperties
<1>3. e.kind # "JOIN" /\ e.kind # "NICK" /\ e.kind # "ACCOUNT" /\ e.kind \notin Leaving
  BY <1>0 DEF Telling, Leaving
<1>4. /\ e.who \in a.in /\ e.who \in b.in /\ a.nick[e.who] = e.nick /\ b.nick[e.who] = e.nick
      /\ b.acct[e.who] = a.acct[e.who]
  BY <1>3 DEF Turns
<1>5. ASSUME NEW u \in a.in \ {e.who} PROVE a.nick[u] \in away <=> b.nick[u] \in away'
  <2>1. b.nick[u] = a.nick[u] /\ a.nick[u] # e.nick BY <1>2, <1>4, OthersNicks
  <2> QED BY <2>1 DEF setAway
<1>6. b.nick[e.who] \in away' <=> e.flag
  <2>1. e.flag \in BOOLEAN BY <1>2 DEF Said
  <2> QED BY <2>1, <1>4 DEF setAway
<1>7. /\ \A u \in People \ {e.who} : u \in unseen => u \in unseen'
      /\ Joins(Tail(wire), e.who) => (e.who \in unseen => e.who \in unseen')
      /\ ~Joins(Tail(wire), e.who) /\ e.who \notin unseen' => e.flag = isAway[e.who]
  BY <1>0, <1>1, SeenFacts
<1>8. Visible(e.who) /\ e.who \notin unseen' /\ ~Joins(Tail(wire), e.who) /\ ~LastSaid(Tail(wire), Telling, e.who)
        => (isAway[e.who] <=> b.nick[e.who] \in away')
  BY <1>6, <1>7
<1>9. Marks(b)'
  <2>1. Turns(Head(wire), a, b) /\ e.who = Head(wire).who OBVIOUS
  <2> QED BY <2>1, <1>5, <1>7, <1>8, HandlerMarks
<1>10. \A u \in a.in : u \in b.in /\ b.nick[u] = a.nick[u] /\ b.acct[u] = a.acct[u]
  BY <1>2, <1>4, OthersNicks
<1> QED BY <1>0, <1>2, <1>4, <1>5, <1>6, <1>9, <1>10

\* The facts stay when neither they nor the view change.
LEMMA FactsStay ==
  ASSUME NEW a, NEW b, Facts(a), arrived' = arrived,
         \A u \in a.in : u \in b.in /\ b.nick[u] = a.nick[u] /\ b.acct[u] = a.acct[u],
         \A u \in arrived : a.nick[u] \in DOMAIN peers =>
            a.nick[u] \in DOMAIN peers' /\ peers'[a.nick[u]] = peers[a.nick[u]]
  PROVE  Facts(b)'
<1>1. ASSUME NEW u \in arrived PROVE FactOf(b, u)'
  <2>1. FactOf(a, u) BY DEF Facts
  <2> QED BY <2>1 DEF FactOf
<1>2. Self \notin arrived' BY DEF Facts
<1>3. \A u \in arrived' : FactOf(b, u)' BY <1>1
<1> QED BY <1>2, <1>3 DEF Facts

\* AWAY.
LEMMA AwayHandled == PresenceInv /\ HandleAway => PresenceInv'
<1> SUFFICES ASSUME PresenceInv, HandleAway PROVE PresenceInv' OBVIOUS
<1>0. Handle("AWAY") /\ UNCHANGED <<peers, selfShown, arrived, blurred, selfEcho>> /\ wire # <<>>
  BY DEF HandleAway, Handle, serverVars
<1>1. PICK V : /\ Booked(V) /\ V[1] \in View /\ V[2] \in View /\ ViewOK(V[1]) /\ ViewOK(V[2])
               /\ Turns(Head(wire), V[1], V[2]) /\ Told(V[1]) /\ Facts(V[1]) /\ Marks(V[1])
  BY <1>0, HandlerView
<1>2. PICK e : e = Head(wire) OBVIOUS
<1>3. PICK a, b : a = V[1] /\ b = V[2] OBVIOUS
<1>4. away' = setAway(e.nick, e.flag) /\ unseen' = SeenNow(e) BY <1>2 DEF HandleAway
<1>5. /\ Marks(b)' /\ e \in Said /\ e.kind = "AWAY"
      /\ \A u \in a.in \ {e.who} : a.nick[u] \in away <=> b.nick[u] \in away'
      /\ \A u \in a.in : u \in b.in /\ b.nick[u] = a.nick[u] /\ b.acct[u] = a.acct[u]
  <2>1. "AWAY" \in Telling BY DEF Telling
  <2> QED BY <2>1, <1>0, <1>1, <1>2, <1>3, <1>4, Tells
<1>6. Facts(b)' BY <1>0, <1>1, <1>3, <1>5, FactsStay
<1>7. Told(b)'
  <2> SUFFICES ASSUME ~selfEcho, ~blurred
               PROVE  /\ b.nick[Self] \in away' <=> b.flag
                      /\ selfShown = "online" <=> ~b.flag
    BY <1>0 DEF Told
  <2>1. e.who # Self BY <1>0, <1>2, <1>5, NoEcho
  <2>2. Self \in a.in /\ b.flag = a.flag BY <2>1, <1>1, <1>2, <1>3 DEF ViewOK, Turns
  <2>3. (a.nick[Self] \in away <=> a.flag) /\ (selfShown = "online" <=> ~a.flag)
    BY <1>1, <1>3 DEF Told
  <2> QED BY <2>1, <2>2, <2>3, <1>5
<1>8. blurred' \in BOOLEAN BY <1>0 DEF PresenceInv, PresenceFrame, PresenceTypes
<1> QED BY <1>0, <1>1, <1>3, <1>5, <1>6, <1>7, <1>8, HandlerKeeps

\* A row of WHO.
LEMMA WhoHandled == PresenceInv /\ HandleWho => PresenceInv'
<1> SUFFICES ASSUME PresenceInv, HandleWho PROVE PresenceInv' OBVIOUS
<1>0. Handle("352") /\ UNCHANGED <<selfShown, arrived, blurred, selfEcho>> /\ wire # <<>>
  BY DEF HandleWho, Handle, serverVars
<1>1. PICK V : /\ Booked(V) /\ V[1] \in View /\ V[2] \in View /\ ViewOK(V[1]) /\ ViewOK(V[2])
               /\ Turns(Head(wire), V[1], V[2]) /\ Told(V[1]) /\ Facts(V[1]) /\ Marks(V[1])
  BY <1>0, HandlerView
<1>2. PICK e : e = Head(wire) OBVIOUS
<1>3. PICK a, b : a = V[1] /\ b = V[2] OBVIOUS
<1>4. away' = setAway(e.nick, e.flag) /\ unseen' = SeenNow(e) /\ peers' = setPeerHost(e.nick)
  BY <1>2 DEF HandleWho
<1>5. /\ Marks(b)' /\ e \in Said /\ e.kind = "352"
      /\ \A u \in a.in \ {e.who} : a.nick[u] \in away <=> b.nick[u] \in away'
      /\ \A u \in a.in : u \in b.in /\ b.nick[u] = a.nick[u] /\ b.acct[u] = a.acct[u]
      /\ b.nick[e.who] \in away' <=> e.flag
  <2>1. "352" \in Telling BY DEF Telling
  <2> QED BY <2>1, <1>0, <1>1, <1>2, <1>3, <1>4, Tells
<1>6. Facts(b)'
  <2>1. \A n : n \in DOMAIN peers => n \in DOMAIN peers' /\ peers'[n] = peers[n]
    BY <1>4 DEF setPeerHost, setPeer
  <2> QED BY <2>1, <1>0, <1>1, <1>3, <1>5, FactsStay
<1>7. Told(b)'
  <2> SUFFICES ASSUME ~selfEcho, ~blurred
               PROVE  /\ b.nick[Self] \in away' <=> b.flag
                      /\ selfShown = "online" <=> ~b.flag
    BY <1>0 DEF Told
  <2>1. Self \in a.in /\ b.flag = a.flag /\ (e.who = Self => e.flag = a.flag)
    BY <1>1, <1>2, <1>3, <1>5 DEF ViewOK, Turns
  <2>2. (a.nick[Self] \in away <=> a.flag) /\ (selfShown = "online" <=> ~a.flag)
    BY <1>1, <1>3 DEF Told
  <2> QED BY <2>1, <2>2, <1>5
<1>8. blurred' \in BOOLEAN BY <1>0 DEF PresenceInv, PresenceFrame, PresenceTypes
<1> QED BY <1>0, <1>1, <1>3, <1>5, <1>6, <1>7, <1>8, HandlerKeeps

\* 305 and 306: the mark tells whether there is something to tell.
LEMMA NumericHandled == PresenceInv /\ HandleAwayNumeric => PresenceInv'
<1> SUFFICES ASSUME PresenceInv, HandleAwayNumeric PROVE PresenceInv' OBVIOUS
<1>0. Handle("305/306") /\ UNCHANGED <<peers, arrived, blurred, selfEcho>> /\ wire # <<>>
  BY DEF HandleAwayNumeric, Handle, serverVars
<1>1. PICK V : /\ Booked(V) /\ V[1] \in View /\ V[2] \in View /\ ViewOK(V[1]) /\ ViewOK(V[2])
               /\ Turns(Head(wire), V[1], V[2]) /\ Told(V[1]) /\ Facts(V[1]) /\ Marks(V[1])
  BY <1>0, HandlerView
<1>2. PICK e : e = Head(wire) OBVIOUS
<1>3. PICK a, b : a = V[1] /\ b = V[2] OBVIOUS
<1>4. /\ away' = setAway(e.nick, e.flag) /\ unseen' = SeenNow(e)
      /\ selfShown' = IF away' = away THEN selfShown ELSE selfWireStatus(e.flag)
  BY <1>2 DEF HandleAwayNumeric
<1>5. /\ Marks(b)' /\ e \in Said /\ e.kind = "305/306"
      /\ \A u \in a.in : u \in b.in /\ b.nick[u] = a.nick[u] /\ b.acct[u] = a.acct[u]
      /\ b.nick[e.who] \in away' <=> e.flag
  <2>1. "305/306" \in Telling BY DEF Telling
  <2> QED BY <2>1, <1>0, <1>1, <1>2, <1>3, <1>4, Tells
<1>6. Facts(b)' BY <1>0, <1>1, <1>3, <1>5, FactsStay
<1>7. Told(b)'
  <2> SUFFICES ASSUME ~selfEcho, ~blurred
               PROVE  /\ b.nick[Self] \in away' <=> b.flag
                      /\ selfShown' = "online" <=> ~b.flag
    BY <1>0 DEF Told
  <2>1. e.who = Self /\ Self \in a.in /\ b.flag = e.flag /\ a.nick[Self] = e.nick
    BY <1>1, <1>2, <1>3, <1>5 DEF ViewOK, Turns
  <2>2. (a.nick[Self] \in away <=> a.flag) /\ (selfShown = "online" <=> ~a.flag)
    BY <1>1, <1>3 DEF Told
  <2>3. b.nick[Self] = a.nick[Self] BY <2>1, <1>5
  <2>4. selfWireStatus(e.flag) = "online" <=> ~e.flag BY DEF selfWireStatus
  <2>5. CASE away' = away BY <2>1, <2>2, <2>3, <2>5, <1>4, <1>5
  <2>6. CASE away' # away BY <2>1, <2>4, <2>6, <1>4, <1>5
  <2> QED BY <2>5, <2>6
<1>8. blurred' \in BOOLEAN BY <1>0 DEF PresenceInv, PresenceFrame, PresenceTypes
<1> QED BY <1>0, <1>1, <1>3, <1>5, <1>6, <1>7, <1>8, HandlerKeeps

\* JOIN: the facts are the line's, and a mark on the nick is not this person's.
LEMMA JoinHandled == PresenceInv /\ HandlePeerJoin => PresenceInv'
<1> SUFFICES ASSUME PresenceInv, HandlePeerJoin PROVE PresenceInv' OBVIOUS
<1>0. /\ Handle("JOIN") /\ UNCHANGED <<away, selfShown, blurred, selfEcho, isAway>> /\ wire # <<>>
      /\ wire \in Seq(Said)
  BY DEF HandlePeerJoin, Handle, serverVars, PresenceInv, PresenceFrame, PresenceTypes
<1>1. PICK V : /\ Booked(V) /\ V[1] \in View /\ V[2] \in View /\ ViewOK(V[1]) /\ ViewOK(V[2])
               /\ Turns(Head(wire), V[1], V[2]) /\ Told(V[1]) /\ Facts(V[1]) /\ Marks(V[1])
  BY <1>0, HandlerView
<1>2. PICK e : e = Head(wire) OBVIOUS
<1>3. PICK a, b : a = V[1] /\ b = V[2] OBVIOUS
<1>4. /\ peers' = setPeer(e.nick, e.acct) /\ arrived' = arrived \cup {e.who}
      /\ unseen' = IF e.nick \in away THEN unseen \cup {e.who} ELSE unseen
  BY <1>2 DEF HandlePeerJoin
<1>5. e \in Said /\ e.kind = "JOIN" /\ Turns(e, a, b)
  BY <1>0, <1>1, <1>2, <1>3, HeadTailProperties DEF Handle
<1>6. /\ e.who \notin a.in /\ e.who \in b.in /\ b.nick[e.who] = e.nick /\ b.acct[e.who] = e.acct
      /\ e.who # Self /\ b.flag = a.flag /\ Self \in a.in
  BY <1>1, <1>3, <1>5 DEF Turns, ViewOK, Leaving
<1>7. \A u \in a.in : /\ u # e.who /\ u \in b.in /\ b.nick[u] = a.nick[u] /\ b.acct[u] = a.acct[u]
                      /\ a.nick[u] # e.nick
  <2>1. e.to = e.nick BY <1>5 DEF Turns
  <2> QED BY <2>1, <1>1, <1>3, <1>5, <1>6, OthersNicks
<1>8. Facts(b)'
  <2>1. ASSUME NEW u \in arrived' PROVE FactOf(b, u)'
    <3>1. CASE u = e.who BY <3>1, <1>4, <1>6 DEF FactOf, setPeer
    <3>2. CASE u \in arrived
      <4>1. FactOf(a, u) BY <3>2, <1>1, <1>3 DEF Facts
      <4> QED BY <4>1, <1>4, <1>7 DEF FactOf, setPeer
    <3> QED BY <2>1, <3>1, <3>2, <1>4
  <2>2. Self \notin arrived' BY <1>1, <1>4, <1>6 DEF Facts
  <2> QED BY <2>1, <2>2 DEF Facts
<1>9. Told(b)' BY <1>0, <1>1, <1>3, <1>6, <1>7 DEF Told
<1>10. Marks(b)'
  <2>1. \A u \in a.in \ {e.who} : a.nick[u] \in away <=> b.nick[u] \in away' BY <1>0, <1>7
  <2>2. \A u \in People : u \in unseen => u \in unseen' BY <1>4
  <2>3. ASSUME Visible(e.who), e.who \notin unseen', ~Joins(Tail(wire), e.who),
               ~LastSaid(Tail(wire), Telling, e.who)
        PROVE  isAway[e.who] <=> b.nick[e.who] \in away'
    <3>1. e.who \notin unseen /\ e.nick \notin away BY <2>3, <1>4
    <3>2. Joins(wire, e.who) BY <1>0, <1>2, <1>5, LastTail DEF JoinOf
    <3>3. ~LastSaid(wire, Telling, e.who) BY <2>3, <1>0, <1>2, <1>5, LastTail DEF Telling
    <3>4. MarkOf(a, e.who) BY <1>1, <1>3, <1>5 DEF Marks, Said
    <3>5. ~isAway[e.who] BY <2>3, <3>1, <3>2, <3>3, <3>4 DEF MarkOf
    <3> QED BY <3>1, <3>5, <1>0, <1>6
  <2>4. e.who \in People BY <1>5 DEF Said
  <2>5. Turns(Head(wire), a, b) /\ e.who = Head(wire).who BY <1>2, <1>5
  <2> QED BY <2>1, <2>2, <2>3, <2>4, <2>5, <1>0, <1>1, <1>3, HandlerMarks
<1>11. blurred' \in BOOLEAN BY <1>0 DEF PresenceInv, PresenceFrame, PresenceTypes
<1> QED BY <1>0, <1>1, <1>3, <1>8, <1>9, <1>10, <1>11, HandlerKeeps

\* ACCOUNT.
LEMMA AccountHandled == PresenceInv /\ HandleAccount => PresenceInv'
<1> SUFFICES ASSUME PresenceInv, HandleAccount PROVE PresenceInv' OBVIOUS
<1>0. /\ Handle("ACCOUNT") /\ wire # <<>> /\ wire \in Seq(Said)
      /\ UNCHANGED <<away, selfShown, unseen, arrived, blurred, selfEcho>>
  BY DEF HandleAccount, Handle, serverVars, PresenceInv, PresenceFrame, PresenceTypes
<1>1. PICK V : /\ Booked(V) /\ V[1] \in View /\ V[2] \in View /\ ViewOK(V[1]) /\ ViewOK(V[2])
               /\ Turns(Head(wire), V[1], V[2]) /\ Told(V[1]) /\ Facts(V[1]) /\ Marks(V[1])
  BY <1>0, HandlerView
<1>2. PICK e : e = Head(wire) OBVIOUS
<1>3. PICK a, b : a = V[1] /\ b = V[2] OBVIOUS
<1>4. peers' = setPeer(e.nick, e.acct) BY <1>2 DEF HandleAccount
<1>5. e \in Said /\ e.kind = "ACCOUNT" /\ Turns(e, a, b)
  BY <1>0, <1>1, <1>2, <1>3, HeadTailProperties DEF Handle
<1>6. /\ e.who \in a.in /\ e.who \in b.in /\ a.nick[e.who] = e.nick /\ b.nick[e.who] = e.nick
      /\ b.acct[e.who] = e.acct /\ b.flag = a.flag /\ Self \in a.in
  BY <1>1, <1>3, <1>5 DEF Turns, ViewOK, Leaving
<1>7. \A u \in a.in \ {e.who} : /\ u \in b.in /\ b.nick[u] = a.nick[u] /\ b.acct[u] = a.acct[u]
                                /\ a.nick[u] # e.nick
  BY <1>1, <1>3, <1>5, <1>6, OthersNicks
<1>8. Facts(b)'
  <2>1. ASSUME NEW u \in arrived' PROVE FactOf(b, u)'
    <3>0. FactOf(a, u) BY <2>1, <1>0, <1>1, <1>3 DEF Facts
    <3>1. CASE u = e.who BY <3>1, <1>4, <1>6 DEF FactOf, setPeer
    <3>2. CASE u # e.who BY <3>0, <3>2, <1>4, <1>7 DEF FactOf, setPeer
    <3> QED BY <3>1, <3>2
  <2>2. Self \notin arrived' BY <1>0, <1>1, <1>3 DEF Facts
  <2> QED BY <2>1, <2>2 DEF Facts
<1>9. \A u \in a.in : b.nick[u] = a.nick[u] BY <1>6, <1>7
<1>10. Told(b)' BY <1>0, <1>1, <1>3, <1>6, <1>9 DEF Told
<1>11. Marks(b)'
  <2>1. \A u \in a.in \ {e.who} : a.nick[u] \in away <=> b.nick[u] \in away' BY <1>0, <1>9
  <2>2. \A u \in People : u \in unseen => u \in unseen' BY <1>0
  <2>3. ASSUME Visible(e.who), e.who \notin unseen', ~Joins(Tail(wire), e.who),
               ~LastSaid(Tail(wire), Telling, e.who)
        PROVE  isAway[e.who] <=> b.nick[e.who] \in away'
    <3>1. ~Joins(wire, e.who) /\ ~LastSaid(wire, Telling, e.who)
      BY <2>3, <1>0, <1>2, <1>5, LastTail DEF JoinOf, Telling
    <3>2. MarkOf(a, e.who) BY <1>1, <1>3, <1>5 DEF Marks, Said
    <3> QED BY <2>3, <3>1, <3>2, <1>0, <1>6 DEF MarkOf
  <2>4. e.who \in People BY <1>5 DEF Said
  <2>5. Turns(Head(wire), a, b) /\ e.who = Head(wire).who BY <1>2, <1>5
  <2> QED BY <2>1, <2>2, <2>3, <2>4, <2>5, <1>0, <1>1, <1>3, HandlerMarks
<1>12. blurred' \in BOOLEAN BY <1>0 DEF PresenceInv, PresenceFrame, PresenceTypes
<1> QED BY <1>0, <1>1, <1>3, <1>8, <1>10, <1>11, <1>12, HandlerKeeps

\* NICK: mark and facts move from the old nick to the new one, which nobody in
\* the view has; a mark that was there already makes its new owner unseen.
LEMMA NickHandled == PresenceInv /\ HandleNick => PresenceInv'
<1> SUFFICES ASSUME PresenceInv, HandleNick PROVE PresenceInv' OBVIOUS
<1>0. /\ Handle("NICK") /\ wire # <<>> /\ wire \in Seq(Said)
      /\ UNCHANGED <<selfShown, arrived, selfEcho>>
  BY DEF HandleNick, Handle, serverVars, PresenceInv, PresenceFrame, PresenceTypes
<1>1. PICK V : /\ Booked(V) /\ V[1] \in View /\ V[2] \in View /\ ViewOK(V[1]) /\ ViewOK(V[2])
               /\ Turns(Head(wire), V[1], V[2]) /\ Told(V[1]) /\ Facts(V[1]) /\ Marks(V[1])
  BY <1>0, HandlerView
<1>2. PICK e : e = Head(wire) OBVIOUS
<1>3. PICK a, b : a = V[1] /\ b = V[2] OBVIOUS
<1>4. /\ away' = renameAway(e.nick, e.to)
      /\ peers' = IF e.who = Self THEN peers ELSE renamePeer(e.nick, e.to)
      /\ unseen' = IF Haunted(e) THEN unseen \cup {e.who} ELSE unseen
      /\ blurred' = (blurred \/ (Haunted(e) /\ e.who = Self))
  BY <1>2 DEF HandleNick
<1>5. e \in Said /\ e.kind = "NICK" /\ Turns(e, a, b)
  BY <1>0, <1>1, <1>2, <1>3, HeadTailProperties DEF Handle
<1>6. /\ e.who \in a.in /\ e.who \in b.in /\ a.nick[e.who] = e.nick /\ b.nick[e.who] = e.to
      /\ b.acct[e.who] = a.acct[e.who] /\ b.flag = a.flag /\ Self \in a.in
  BY <1>1, <1>3, <1>5 DEF Turns, ViewOK, Leaving
<1>7. \A u \in a.in \ {e.who} : /\ u \in b.in /\ b.nick[u] = a.nick[u] /\ b.acct[u] = a.acct[u]
                                /\ a.nick[u] # e.nick /\ a.nick[u] # e.to
  BY <1>1, <1>3, <1>5, <1>6, OthersNicks
<1>8. Facts(b)'
  <2>1. ASSUME NEW u \in arrived' PROVE FactOf(b, u)'
    <3>0. FactOf(a, u) /\ u # Self BY <2>1, <1>0, <1>1, <1>3 DEF Facts
    <3>1. CASE e.who = Self
      <4>1. peers' = peers /\ u # e.who BY <3>0, <3>1, <1>4
      <4> QED BY <3>0, <4>1, <1>7 DEF FactOf
    <3>2. CASE e.who # Self /\ u = e.who
      <4>1. peers' = renamePeer(e.nick, e.to) /\ e.nick \in DOMAIN peers
        BY <3>0, <3>2, <1>4, <1>6 DEF FactOf
      <4>2. e.to \in DOMAIN peers' /\ peers'[e.to] = peers[e.nick] BY <4>1 DEF renamePeer
      <4> QED BY <3>0, <3>2, <4>2, <1>6 DEF FactOf
    <3>3. CASE e.who # Self /\ u # e.who
      <4>1. /\ peers' = renamePeer(e.nick, e.to) /\ a.nick[u] \in DOMAIN peers
            /\ a.nick[u] # e.nick /\ a.nick[u] # e.to
        BY <3>0, <3>3, <1>4, <1>7 DEF FactOf
      <4>2. a.nick[u] \in DOMAIN peers' /\ peers'[a.nick[u]] = peers[a.nick[u]]
        BY <4>1 DEF renamePeer
      <4> QED BY <3>0, <3>3, <4>2, <1>7 DEF FactOf
    <3> QED BY <3>1, <3>2, <3>3
  <2>2. Self \notin arrived' BY <1>0, <1>1, <1>3 DEF Facts
  <2> QED BY <2>1, <2>2 DEF Facts
<1>9. \A u \in a.in \ {e.who} : a.nick[u] \in away <=> b.nick[u] \in away'
  BY <1>4, <1>7 DEF renameAway
<1>10. ~Haunted(e) => (a.nick[e.who] \in away <=> b.nick[e.who] \in away')
  BY <1>4, <1>6 DEF renameAway, Haunted
<1>11. Told(b)'
  <2> SUFFICES ASSUME ~selfEcho, ~blurred'
               PROVE  /\ b.nick[Self] \in away' <=> b.flag
                      /\ selfShown = "online" <=> ~b.flag
    BY <1>0 DEF Told
  <2>1. (a.nick[Self] \in away <=> a.flag) /\ (selfShown = "online" <=> ~a.flag)
    BY <1>1, <1>3, <1>4 DEF Told
  <2>2. a.nick[Self] \in away <=> b.nick[Self] \in away'
    <3>1. CASE e.who = Self BY <3>1, <1>4, <1>10
    <3>2. CASE e.who # Self BY <3>2, <1>6, <1>9
    <3> QED BY <3>1, <3>2
  <2> QED BY <2>1, <2>2, <1>6
<1>12. Marks(b)'
  <2>1. \A u \in People : u \in unseen => u \in unseen' BY <1>4
  <2>2. ASSUME Visible(e.who), e.who \notin unseen', ~Joins(Tail(wire), e.who),
               ~LastSaid(Tail(wire), Telling, e.who)
        PROVE  isAway[e.who] <=> b.nick[e.who] \in away'
    <3>1. ~Joins(wire, e.who) /\ ~LastSaid(wire, Telling, e.who)
      BY <2>2, <1>0, <1>2, <1>5, LastTail DEF JoinOf, Telling
    <3>2. MarkOf(a, e.who) BY <1>1, <1>3, <1>5 DEF Marks, Said
    <3>3. ~Haunted(e) /\ e.who \notin unseen BY <2>2, <1>4
    <3> QED BY <2>2, <3>1, <3>2, <3>3, <1>10 DEF MarkOf
  <2>3. e.who \in People BY <1>5 DEF Said
  <2>4. Turns(Head(wire), a, b) /\ e.who = Head(wire).who BY <1>2, <1>5
  <2> QED BY <2>1, <2>2, <2>3, <2>4, <1>0, <1>1, <1>3, <1>9, HandlerMarks
<1>13. blurred' \in BOOLEAN BY <1>4 DEF PresenceInv, PresenceFrame, PresenceTypes
<1> QED BY <1>0, <1>1, <1>3, <1>8, <1>11, <1>12, <1>13, HandlerKeeps

\* PART and QUIT of someone: no nick of who stays is the line's.
LEMMA LeaverHandled == PresenceInv /\ (HandleQuit \/ HandlePeerPart) => PresenceInv'
<1> SUFFICES ASSUME PresenceInv, HandleQuit \/ HandlePeerPart PROVE PresenceInv' OBVIOUS
<1>0. PICK kind \in Leaving :
        /\ Handle(kind) /\ wire # <<>> /\ wire \in Seq(Said)
        /\ UNCHANGED <<selfShown, unseen, blurred, selfEcho>>
        /\ arrived' = arrived \ {Head(wire).who}
        /\ \/ away' = away \ {Head(wire).nick} /\ peers' = forgetPeer(Head(wire).nick)
           \/ away' = away /\ peers' = peers
  BY DEF HandleQuit, HandlePeerPart, Handle, serverVars, PresenceInv, PresenceFrame, PresenceTypes, Leaving
<1>1. PICK V : /\ Booked(V) /\ V[1] \in View /\ V[2] \in View /\ ViewOK(V[1]) /\ ViewOK(V[2])
               /\ Turns(Head(wire), V[1], V[2]) /\ Told(V[1]) /\ Facts(V[1]) /\ Marks(V[1])
  BY <1>0, HandlerView
<1>2. PICK e : e = Head(wire) OBVIOUS
<1>3. PICK a, b : a = V[1] /\ b = V[2] OBVIOUS
<1>5. e \in Said /\ e.kind \in Leaving /\ Turns(e, a, b)
  BY <1>0, <1>1, <1>2, <1>3, HeadTailProperties DEF Handle
<1>6. e.who \in a.in /\ e.who \notin b.in /\ a.nick[e.who] = e.nick /\ b.flag = a.flag
      /\ Self \in a.in /\ e.who # Self
  BY <1>1, <1>3, <1>5 DEF Turns, ViewOK, Leaving
<1>7. \A u \in a.in \ {e.who} : /\ u \in b.in /\ b.nick[u] = a.nick[u] /\ b.acct[u] = a.acct[u]
                                /\ a.nick[u] # e.nick
  BY <1>1, <1>3, <1>5, <1>6, OthersNicks
<1>8. Facts(b)'
  <2>1. ASSUME NEW u \in arrived' PROVE FactOf(b, u)'
    <3>0. FactOf(a, u) /\ u # e.who BY <2>1, <1>0, <1>1, <1>2, <1>3 DEF Facts
    <3>1. u \in a.in /\ a.nick[u] # e.nick BY <3>0, <1>7 DEF FactOf
    <3>2. a.nick[u] \in DOMAIN peers' /\ peers'[a.nick[u]] = peers[a.nick[u]]
      BY <3>0, <3>1, <1>0, <1>2 DEF FactOf, forgetPeer
    <3> QED BY <3>0, <3>2, <1>7 DEF FactOf
  <2>2. Self \notin arrived' BY <1>0, <1>1, <1>3 DEF Facts
  <2> QED BY <2>1, <2>2 DEF Facts
<1>9. \A u \in a.in \ {e.who} : a.nick[u] \in away <=> b.nick[u] \in away'
  BY <1>0, <1>2, <1>7
<1>10. Told(b)' BY <1>0, <1>1, <1>3, <1>6, <1>9 DEF Told
<1>11. Marks(b)'
  <2>1. \A u \in People : u \in unseen => u \in unseen' BY <1>0
  <2>2. ASSUME Visible(e.who), ~Joins(Tail(wire), e.who) PROVE FALSE
    <3>1. StaysIn(e.who) BY <1>5 DEF PresenceInv, PresenceFrame, Said
    <3>2. ~LastSaid(wire, Leaving, e.who) BY <2>2, <3>1 DEF StaysIn
    <3> QED BY <2>2, <3>2, <1>0, <1>2, <1>5, LastTail
  <2>3. e.who \in People BY <1>5 DEF Said
  <2>4. Turns(Head(wire), a, b) /\ e.who = Head(wire).who BY <1>2, <1>5
  <2> QED BY <2>1, <2>2, <2>3, <2>4, <1>0, <1>1, <1>3, <1>9, HandlerMarks
<1>12. blurred' \in BOOLEAN BY <1>0 DEF PresenceInv, PresenceFrame, PresenceTypes
<1> QED BY <1>0, <1>1, <1>3, <1>8, <1>10, <1>11, <1>12, HandlerKeeps

-----------------------------------------------------------------------------
(* Presence: the server's lines *)

\* A sequence of one line.
LEMMA OneSaid ==
  ASSUME NEW e \in Said
  PROVE  /\ <<e>> \in Seq(Said)
         /\ \A u : Joins(<<e>>, u) <=> JoinOf(e, u)
         /\ \A u, kinds : LastSaid(<<e>>, kinds, u) <=> e.kind \in kinds /\ e.who = u
         /\ Silent(<<e>>) <=> ~(e.kind = "AWAY" /\ e.who = Self)
<1>1. <<e>> \in Seq(Said) /\ Len(<<e>>) = 1 /\ <<e>>[1] = e OBVIOUS
<1>2. \A i : i \in 1..Len(<<e>>) <=> i = 1 BY <1>1
<1>3. \A j : j \notin (1 + 1)..Len(<<e>>) BY <1>1
<1>4. \A u : Joins(<<e>>, u) <=> JoinOf(e, u) BY <1>1, <1>2 DEF Joins
<1>5. \A u, kinds : LastSaid(<<e>>, kinds, u) <=> e.kind \in kinds /\ e.who = u
  BY <1>1, <1>2, <1>3 DEF LastSaid
<1>6. Silent(<<e>>) <=> ~(e.kind = "AWAY" /\ e.who = Self) BY <1>1, <1>2 DEF Silent
<1> QED BY <1>1, <1>4, <1>5, <1>6

\* A sequence of two lines: what is JOINed and what is said last.
LEMMA TwoSaid ==
  ASSUME NEW d \in Said, NEW e \in Said
  PROVE  /\ <<d, e>> \in Seq(Said) /\ <<d, e>> = <<d>> \o <<e>>
         /\ \A q \in Seq(Said) : q \o <<d, e>> = Append(Append(q, d), e)
         /\ \A u : Joins(<<d, e>>, u) <=> JoinOf(d, u) \/ JoinOf(e, u)
         /\ \A u, kinds : LastSaid(<<d, e>>, kinds, u) <=>
              (e.kind \in kinds /\ e.who = u) \/ (d.kind \in kinds /\ d.who = u /\ ~JoinOf(e, u))
<1>1. <<d, e>> \in Seq(Said) /\ <<d>> \in Seq(Said) /\ <<e>> \in Seq(Said) OBVIOUS
<1>2. <<d, e>> = Append(<<d>>, e) OBVIOUS
<1>3. <<d, e>> = <<d>> \o <<e>> BY <1>1, <1>2, AppendIsConcat
<1>4. ASSUME NEW q \in Seq(Said) PROVE q \o <<d, e>> = Append(Append(q, d), e)
  <2>1. Append(q, d) = q \o <<d>> /\ Append(q, d) \in Seq(Said) BY AppendIsConcat, AppendProperties
  <2>2. Append(Append(q, d), e) = (q \o <<d>>) \o <<e>> BY <2>1, AppendIsConcat
  <2>3. (q \o <<d>>) \o <<e>> = q \o (<<d>> \o <<e>>) BY <1>1, ConcatAssociative
  <2> QED BY <2>2, <2>3, <1>3
<1>5. ASSUME NEW u PROVE Joins(<<d, e>>, u) <=> JoinOf(d, u) \/ JoinOf(e, u)
  <2>1. Joins(<<d>> \o <<e>>, u) <=> Joins(<<d>>, u) \/ Joins(<<e>>, u) BY <1>1, LastConcat
  <2> QED BY <2>1, <1>3, OneSaid
<1>6. ASSUME NEW u, NEW kinds
      PROVE  LastSaid(<<d, e>>, kinds, u) <=>
              (e.kind \in kinds /\ e.who = u) \/ (d.kind \in kinds /\ d.who = u /\ ~JoinOf(e, u))
  <2>1. LastSaid(<<d>> \o <<e>>, kinds, u) <=>
          LastSaid(<<e>>, kinds, u) \/ (LastSaid(<<d>>, kinds, u) /\ ~Joins(<<e>>, u))
    BY <1>1, LastConcat
  <2> QED BY <2>1, <1>3, OneSaid
<1> QED BY <1>1, <1>3, <1>4, <1>5, <1>6

\* Silence goes on when what is added is silent.
LEMMA SilentConcat ==
  ASSUME NEW q \in Seq(Said), NEW more \in Seq(Said), Silent(q), Silent(more)
  PROVE  Silent(q \o more)
<1> DEFINE p == q \o more
<1>1. /\ Len(q) \in Nat /\ Len(more) \in Nat /\ Len(p) = Len(q) + Len(more)
      /\ \A i \in 1..Len(p) : p[i] = IF i <= Len(q) THEN q[i] ELSE more[i - Len(q)]
  BY ConcatProperties
<1> HIDE DEF p
<1>2. ASSUME NEW i \in 1..Len(p) PROVE ~(p[i].kind = "AWAY" /\ p[i].who = Self)
  <2>1. CASE i <= Len(q)
    <3>1. i \in 1..Len(q) /\ p[i] = q[i] BY <2>1, <1>1
    <3> QED BY <3>1 DEF Silent
  <2>2. CASE ~(i <= Len(q))
    <3>1. i - Len(q) \in 1..Len(more) /\ p[i] = more[i - Len(q)] BY <2>2, <1>1
    <3> QED BY <3>1 DEF Silent
  <2> QED BY <2>1, <2>2
<1> QED BY <1>2 DEF p, Silent

\* The server's own types and nicks, which its actions keep.
ServerKept ==
  /\ nickOf' \in [People -> Handles] /\ whereIs' \in [People -> {"in", "out", "gone"}]
  /\ isAway' \in [People -> BOOLEAN] /\ account' \in [People -> BOOLEAN]
  /\ whereIs'[Self] = "in" /\ NicksDiffer'

BooksKept == UNCHANGED <<selfEcho, online, away, peers, selfShown, arrived, blurred>>

\* Lines are added: whoever changes is announced, joins without being away, or
\* is unseen.
LEMMA LinesAdded ==
  ASSUME PresenceInv, online, ServerKept, BooksKept,
         NEW more \in Seq(Said), wire' = wire \o more, selfEcho \/ Silent(more),
         \A u \in People : whereIs'[u] = "in" =>
           /\ ~LastSaid(more, Leaving, u) /\ (Joins(more, u) \/ Visible(u))
           /\ u \notin unseen' /\ ~LastSaid(more, Telling, u) =>
                IF Joins(more, u) THEN ~isAway'[u] ELSE u \notin unseen /\ isAway'[u] = isAway[u],
         NEW V, Booked(V), NEW W, Path(W, wire \o more), W[1] = V[1], ServerView(W[Len(W)])'
  PROVE  PresenceInv'
<1>1. PresenceFrame /\ PresenceTypes /\ wire \in Seq(Said) BY DEF PresenceInv, PresenceFrame, PresenceTypes
<1>2. UNCHANGED <<selfEcho, online, away, peers, selfShown, arrived, blurred>> BY DEF BooksKept
<1>3. PresenceTypes'
  <2>1. wire' \in Seq(Said) BY <1>1, ConcatProperties
  <2> QED BY <2>1, <1>1, <1>2 DEF PresenceTypes, ServerKept
<1>4. ~selfEcho' => Silent(wire')
  <2> SUFFICES ASSUME ~selfEcho PROVE Silent(wire \o more) BY <1>2
  <2>1. Silent(wire) BY <1>1 DEF PresenceFrame
  <2> QED BY <2>1, <1>1, SilentConcat
<1>5. ASSUME NEW u \in People PROVE StaysIn(u)'
  <2> SUFFICES ASSUME Visible(u)' PROVE ~LastSaid(wire', Leaving, u) BY DEF StaysIn
  <2>1. whereIs'[u] = "in" BY DEF Visible
  <2>2. ~LastSaid(more, Leaving, u) /\ (Joins(more, u) \/ Visible(u)) BY <2>1
  <2>3. Visible(u) => ~LastSaid(wire, Leaving, u) BY <1>1 DEF PresenceFrame, StaysIn
  <2> QED BY <2>2, <2>3, <1>1, LastConcat
<1>6. PresenceFrame' BY <1>1, <1>2, <1>3, <1>4, <1>5 DEF PresenceFrame, ServerKept, Visible
<1> DEFINE a == W[1]
<1>7. Told(a) /\ Facts(a) /\ Marks(a) BY DEF Booked
<1> HIDE DEF a
<1>8. Told(a)' BY <1>2, <1>7 DEF Told
<1>9. Facts(a)'
  <2>1. ASSUME NEW u \in arrived' PROVE FactOf(a, u)' BY <2>1, <1>2, <1>7 DEF Facts, FactOf
  <2>2. Self \notin arrived' BY <1>2, <1>7 DEF Facts
  <2> QED BY <2>1, <2>2 DEF Facts
<1>10. ASSUME NEW u \in People PROVE MarkOf(a, u)'
  <2>1. CASE ~(whereIs'[u] = "in") BY <2>1 DEF MarkOf, Visible
  <2>2. CASE whereIs'[u] = "in"
    <3>1. /\ Joins(wire', u) <=> Joins(wire, u) \/ Joins(more, u)
          /\ LastSaid(wire', Telling, u) <=> LastSaid(more, Telling, u) \/ (LastSaid(wire, Telling, u) /\ ~Joins(more, u))
      BY <1>1, LastConcat
    <3>2. MarkOf(a, u) BY <1>7 DEF Marks
    <3>3. Joins(more, u) \/ Visible(u) BY <2>2
    <3>4. u \notin unseen' /\ ~LastSaid(more, Telling, u) =>
            IF Joins(more, u) THEN ~isAway'[u] ELSE u \notin unseen /\ isAway'[u] = isAway[u]
      BY <2>2
    <3>5. Joins(wire', u) \/ u \in a.in BY <3>1, <3>2, <3>3 DEF MarkOf
    <3>6. ASSUME u \notin unseen', ~LastSaid(wire', Telling, u)
          PROVE  IF Joins(wire', u) THEN ~isAway'[u] ELSE isAway'[u] <=> a.nick[u] \in away'
      <4>1. CASE Joins(more, u) BY <4>1, <3>1, <3>4, <3>6
      <4>2. CASE ~Joins(more, u)
        <5>1. u \notin unseen /\ isAway'[u] = isAway[u] /\ ~LastSaid(wire, Telling, u)
          BY <4>2, <3>1, <3>4, <3>6
        <5>2. Joins(wire', u) <=> Joins(wire, u) BY <4>2, <3>1
        <5>3. away' = away BY <1>2
        <5> QED BY <4>2, <5>1, <5>2, <5>3, <3>2, <3>3 DEF MarkOf
      <4> QED BY <4>1, <4>2
    <3> QED BY <3>5, <3>6 DEF MarkOf
  <2> QED BY <2>1, <2>2
<1>11. Marks(a)' BY <1>10 DEF Marks
<1>12. Booked(W)' BY <1>8, <1>9, <1>11 DEF Booked, a
<1> QED BY <1>6, <1>12 DEF PresenceInv

\* One line is added.
LEMMA LineAdded ==
  ASSUME PresenceInv, online, ServerKept, BooksKept,
         NEW e \in Said, wire' = Append(wire, e), ~(e.kind = "AWAY" /\ e.who = Self),
         \A u \in People : whereIs'[u] = "in" =>
           /\ ~(e.kind \in Leaving /\ e.who = u) /\ (JoinOf(e, u) \/ Visible(u))
           /\ u \notin unseen' /\ ~(e.kind \in Telling /\ e.who = u) =>
                IF JoinOf(e, u) THEN ~isAway'[u] ELSE u \notin unseen /\ isAway'[u] = isAway[u],
         NEW V, Booked(V), NEW b \in View, ViewOK(b), Turns(e, V[Len(V)], b), ServerView(b)'
  PROVE  PresenceInv'
<1>1. PICK more : more = <<e>> OBVIOUS
<1>2. PICK W : W = Append(V, b) OBVIOUS
<1>3. wire \in Seq(Said) BY DEF PresenceInv, PresenceFrame, PresenceTypes
<1>4. Append(wire, e) = wire \o more /\ more \in Seq(Said) BY <1>1, <1>3, AppendIsConcat
<1>5. Path(W, wire \o more) /\ W[1] = V[1] /\ W[Len(W)] = b
  <2>1. Path(V, wire) BY DEF Booked
  <2>2. /\ Path(Append(V, b), Append(wire, e)) /\ Append(V, b)[1] = V[1]
        /\ Append(V, b)[Len(Append(V, b))] = b
    BY <2>1, PathAppend
  <2> QED BY <2>2, <1>2, <1>4
<1>6. Silent(more) BY <1>1, OneSaid
<1>7. /\ \A u : Joins(more, u) <=> JoinOf(e, u)
      /\ \A u, kinds : LastSaid(more, kinds, u) <=> e.kind \in kinds /\ e.who = u
  BY <1>1, OneSaid
<1>8. \A u \in People : whereIs'[u] = "in" =>
           /\ ~LastSaid(more, Leaving, u) /\ (Joins(more, u) \/ Visible(u))
           /\ u \notin unseen' /\ ~LastSaid(more, Telling, u) =>
                IF Joins(more, u) THEN ~isAway'[u] ELSE u \notin unseen /\ isAway'[u] = isAway[u]
  BY <1>7
<1>9. ServerView(W[Len(W)])' BY <1>5
<1>10. wire' = wire \o more BY <1>4
<1> QED BY <1>4, <1>5, <1>6, <1>8, <1>9, <1>10, LinesAdded

\* No line is added.
LEMMA NoLineAdded ==
  ASSUME PresenceInv, ServerKept, BooksKept, wire' = wire,
         online => \A u \in People : whereIs'[u] = "in" =>
                     Visible(u) /\ (u \notin unseen' => u \notin unseen /\ isAway'[u] = isAway[u]),
         online => \A V : Booked(V) => ServerView(V[Len(V)])'
  PROVE  PresenceInv'
<1>1. PresenceFrame /\ PresenceTypes /\ wire \in Seq(Said) BY DEF PresenceInv, PresenceFrame, PresenceTypes
<1>2. CASE online
  <2>1. PICK V : Booked(V) BY <1>2 DEF PresenceInv
  <2>2. PICK more : more = <<>> OBVIOUS
  <2>3. more \in Seq(Said) /\ wire \o more = wire BY <2>2, <1>1, ConcatEmptySeq
  <2>4. Silent(more) /\ \A u : ~Joins(more, u) /\ \A kinds : ~LastSaid(more, kinds, u)
    BY <2>2 DEF Silent, Joins, LastSaid
  <2>5. \A u \in People : whereIs'[u] = "in" =>
           /\ ~LastSaid(more, Leaving, u) /\ (Joins(more, u) \/ Visible(u))
           /\ u \notin unseen' /\ ~LastSaid(more, Telling, u) =>
                IF Joins(more, u) THEN ~isAway'[u] ELSE u \notin unseen /\ isAway'[u] = isAway[u]
    BY <2>4, <1>2
  <2>6. Path(V, wire \o more) /\ wire' = wire \o more BY <2>1, <2>3 DEF Booked
  <2>7. ServerView(V[Len(V)])' BY <2>1, <1>2
  <2> QED BY <2>1, <2>3, <2>4, <2>5, <2>6, <2>7, <1>2, LinesAdded
<1>3. CASE ~online
  <2>1. wire = <<>> BY <1>1, <1>3 DEF PresenceFrame
  <2>2. PresenceTypes' BY <1>1 DEF PresenceTypes, ServerKept, BooksKept
  <2>3. \A u : ~LastSaid(wire', Leaving, u) BY <2>1 DEF LastSaid
  <2>4. \A u \in People : StaysIn(u)' BY <2>3 DEF StaysIn
  <2>5. Visible(Self)' /\ NicksDiffer' BY DEF ServerKept, Visible
  <2>6. Silent(wire') BY <2>1 DEF Silent
  <2>7. PresenceFrame' BY <1>1, <2>2, <2>4, <2>5, <2>6 DEF PresenceFrame, BooksKept
  <2>8. ~online' BY <1>3 DEF BooksKept
  <2> QED BY <2>7, <2>8 DEF PresenceInv
<1> QED BY <1>2, <1>3

\* How things are, seen behind the last line.
LEMMA ViewNow ==
  ASSUME PresenceInv, NEW V, Booked(V)
  PROVE  /\ V[Len(V)] \in View /\ ViewOK(V[Len(V)]) /\ ServerView(V[Len(V)])
         /\ wire \in Seq(Said) /\ PresenceTypes /\ Self \in People
<1>1. V \in Seq(View) /\ Len(V) = Len(wire) + 1 /\ wire \in Seq(Said) BY DEF Booked, Path
<1>2. Len(V) \in 1..Len(V) BY <1>1
<1> QED BY <1>1, <1>2, ElementOfSeq DEF Booked, Path, PresenceInv, PresenceFrame, People

\* A line that only tells leaves the view as it is.
LEMMA TellTurns ==
  ASSUME PresenceTypes, NEW u \in People, NEW a \in View, ServerView(a), Visible(u),
         NEW k \in {"AWAY", "352"}, NEW f \in BOOLEAN,
         k = "AWAY" => u # Self, k = "352" => f = isAway[u],
         NEW e, e = [kind |-> k, who |-> u, nick |-> nickOf[u], to |-> nickOf[u],
                     flag |-> f, acct |-> account[u]]
  PROVE  e \in Said /\ Turns(e, a, a)
<1>1. k \in Kinds /\ nickOf[u] \in Handles /\ account[u] \in BOOLEAN BY DEF PresenceTypes, Kinds
<1>2. e \in Said BY <1>1 DEF Said
<1>3. u \in a.in /\ a.nick[u] = nickOf[u] /\ a.acct[u] = account[u] /\ a.flag = isAway[Self]
  BY DEF ServerView
<1>4. /\ e.who = u /\ e.kind = k /\ e.nick = nickOf[u] /\ e.to = nickOf[u] /\ e.flag = f
      /\ e.acct = account[u]
  OBVIOUS
<1>5. Turns(e, a, a) BY <1>3, <1>4 DEF Turns, Leaving
<1> QED BY <1>2, <1>5

\* A peer's AWAY is announced, or the peer is unseen.
LEMMA PeerAwayStep == ASSUME PresenceInv, NEW u \in Folk, PeerAway(u) PROVE PresenceInv'
<1>0. /\ UNCHANGED <<awayNotify, nickOf, whereIs, account>> /\ BooksKept /\ u \in People /\ u # Self
      /\ PresenceFrame /\ PresenceTypes /\ isAway' = [isAway EXCEPT ![u] = ~@]
  BY PresenceAssumption DEF PeerAway, World, BooksKept, PresenceInv, PresenceFrame, People
<1>1. isAway' \in [People -> BOOLEAN] /\ \A v \in People : v # u => isAway'[v] = isAway[v]
  BY <1>0 DEF PresenceTypes
<1>2. ServerKept
  BY <1>0, <1>1 DEF ServerKept, PresenceTypes, PresenceFrame, Visible, NicksDiffer
<1>3. Self \in People /\ isAway'[Self] = isAway[Self] BY <1>0, <1>1 DEF People
<1>4. ASSUME NEW a, ServerView(a) PROVE ServerView(a)' BY <1>0, <1>3, <1>4 DEF ServerView, Visible
<1>5. PICK e : e = [Line("AWAY", u) EXCEPT !.flag = ~isAway[u]] OBVIOUS
<1>6. e = [kind |-> "AWAY", who |-> u, nick |-> nickOf[u], to |-> nickOf[u],
           flag |-> ~isAway[u], acct |-> account[u]]
  BY <1>5 DEF Line
<1>7. CASE online /\ Visible(u) /\ awayNotify
  <2>1. wire' = Append(wire, e) BY <1>5, <1>7 DEF PeerAway, Announce
  <2>2. PICK V : Booked(V) BY <1>7 DEF PresenceInv
  <2>3. PICK b : b = V[Len(V)] OBVIOUS
  <2>4. b \in View /\ ViewOK(b) /\ ServerView(b) /\ wire \in Seq(Said) BY <2>2, <2>3, ViewNow
  <2>5. isAway[u] \in BOOLEAN /\ (~isAway[u]) \in BOOLEAN BY <1>0 DEF PresenceTypes
  <2>6. e \in Said /\ Turns(e, b, b) BY <2>4, <2>5, <1>0, <1>6, <1>7, TellTurns
  <2>7. unseen' = unseen
    <3>1. Len(Append(wire, e)) # Len(wire) BY <2>4, <2>6, AppendProperties
    <3>2. wire' # wire BY <2>1, <3>1
    <3> QED BY <3>2 DEF PeerAway
  <2>8. e.kind = "AWAY" /\ e.who = u BY <1>6
  <2>9. \A v \in People : whereIs'[v] = "in" =>
           /\ ~(e.kind \in Leaving /\ e.who = v) /\ (JoinOf(e, v) \/ Visible(v))
           /\ v \notin unseen' /\ ~(e.kind \in Telling /\ e.who = v) =>
                IF JoinOf(e, v) THEN ~isAway'[v] ELSE v \notin unseen /\ isAway'[v] = isAway[v]
    BY <2>7, <2>8, <1>0, <1>1 DEF Leaving, Telling, JoinOf, Visible
  <2>10. ServerView(b)' BY <2>4, <1>4
  <2>11. ~(e.kind = "AWAY" /\ e.who = Self) BY <2>8, <1>0
  <2> QED BY <2>1, <2>2, <2>3, <2>4, <2>6, <2>9, <2>10, <2>11, <1>0, <1>2, <1>7, LineAdded
<1>8. CASE ~(online /\ Visible(u) /\ awayNotify)
  <2>1. wire' = wire /\ unseen' = unseen \cup {u} BY <1>8 DEF PeerAway, Announce
  <2>2. \A v \in People : whereIs'[v] = "in" =>
            Visible(v) /\ (v \notin unseen' => v \notin unseen /\ isAway'[v] = isAway[v])
    BY <2>1, <1>0, <1>1 DEF Visible
  <2>3. \A V : Booked(V) => ServerView(V[Len(V)])' BY <1>4 DEF Booked
  <2> QED BY <2>1, <2>2, <2>3, <1>0, <1>2, NoLineAdded
<1> QED BY <1>7, <1>8

\* A peer's account.
LEMMA PeerAccountStep == ASSUME PresenceInv, NEW u \in Folk, PeerAccount(u) PROVE PresenceInv'
<1>0. /\ UNCHANGED <<nickOf, whereIs, isAway, unseen>> /\ BooksKept /\ u \in People /\ u # Self
      /\ PresenceFrame /\ PresenceTypes /\ account' = [account EXCEPT ![u] = ~@]
  BY PresenceAssumption DEF PeerAccount, World, BooksKept, PresenceInv, PresenceFrame, People
<1>1. /\ account' \in [People -> BOOLEAN] /\ account'[u] = ~account[u]
      /\ \A v \in People : v # u => account'[v] = account[v]
  BY <1>0 DEF PresenceTypes
<1>2. ServerKept
  BY <1>0, <1>1 DEF ServerKept, PresenceTypes, PresenceFrame, Visible, NicksDiffer
<1>3. PICK e : e = [Line("ACCOUNT", u) EXCEPT !.acct = ~account[u]] OBVIOUS
<1>4. e = [kind |-> "ACCOUNT", who |-> u, nick |-> nickOf[u], to |-> nickOf[u],
           flag |-> isAway[u], acct |-> ~account[u]]
  BY <1>3 DEF Line
<1>5. CASE online /\ Visible(u)
  <2>1. wire' = Append(wire, e) BY <1>3, <1>5 DEF PeerAccount, Announce
  <2>2. PICK V : Booked(V) BY <1>5 DEF PresenceInv
  <2>3. PICK a : a = V[Len(V)] OBVIOUS
  <2>4. a \in View /\ ViewOK(a) /\ ServerView(a) BY <2>2, <2>3, ViewNow
  <2>5. PICK b : b = [a EXCEPT !.acct = [a.acct EXCEPT ![u] = ~account[u]]] OBVIOUS
  <2>6. /\ b \in View /\ b.in = a.in /\ b.nick = a.nick /\ b.flag = a.flag
        /\ b.acct[u] = ~account[u] /\ \A v \in People : v # u => b.acct[v] = a.acct[v]
    BY <2>4, <2>5, <1>0 DEF View
  <2>7. ViewOK(b) BY <2>4, <2>6 DEF ViewOK
  <2>8. /\ e.who = u /\ e.kind = "ACCOUNT" /\ e.nick = nickOf[u] /\ e.to = nickOf[u]
        /\ e.acct = ~account[u] /\ e \in Said
    <3>1. "ACCOUNT" \in Kinds /\ nickOf[u] \in Handles /\ isAway[u] \in BOOLEAN
      BY <1>0 DEF PresenceTypes, Kinds
    <3> QED BY <3>1, <1>0, <1>4 DEF Said
  <2>9. u \in a.in /\ a.nick[u] = nickOf[u] BY <2>4, <1>0, <1>5 DEF ServerView
  <2>10. Turns(e, a, b)
    <3>1. a.in \subseteq People BY <2>4 DEF View
    <3> QED BY <3>1, <2>6, <2>8, <2>9, <1>0 DEF Turns, Leaving
  <2>11. ServerView(b)'
    <3>1. a.in = {v \in People : Visible(v)} /\ a.flag = isAway[Self]
          /\ \A v \in a.in : a.nick[v] = nickOf[v] /\ a.acct[v] = account[v]
      BY <2>4 DEF ServerView
    <3>2. \A v \in b.in : b.nick[v] = nickOf[v] /\ b.acct[v] = account'[v]
      BY <3>1, <2>6, <1>1
    <3> QED BY <3>1, <3>2, <2>6, <1>0 DEF ServerView, Visible
  <2>12. \A v \in People : whereIs'[v] = "in" =>
           /\ ~(e.kind \in Leaving /\ e.who = v) /\ (JoinOf(e, v) \/ Visible(v))
           /\ v \notin unseen' /\ ~(e.kind \in Telling /\ e.who = v) =>
                IF JoinOf(e, v) THEN ~isAway'[v] ELSE v \notin unseen /\ isAway'[v] = isAway[v]
    BY <2>8, <1>0 DEF Leaving, Telling, JoinOf, Visible
  <2>13. ~(e.kind = "AWAY" /\ e.who = Self) BY <2>8
  <2> QED BY <2>1, <2>2, <2>3, <2>6, <2>7, <2>8, <2>10, <2>11, <2>12, <2>13, <1>0, <1>2, <1>5, LineAdded
<1>6. CASE ~(online /\ Visible(u))
  <2>1. wire' = wire BY <1>6 DEF PeerAccount, Announce
  <2>2. \A v \in People : whereIs'[v] = "in" =>
            Visible(v) /\ (v \notin unseen' => v \notin unseen /\ isAway'[v] = isAway[v])
    BY <1>0 DEF Visible
  <2>3. ASSUME NEW V, online, Booked(V) PROVE ServerView(V[Len(V)])'
    <3>1. PICK a : a = V[Len(V)] OBVIOUS
    <3>2. a.in = {v \in People : Visible(v)} /\ a.flag = isAway[Self]
          /\ \A v \in a.in : a.nick[v] = nickOf[v] /\ a.acct[v] = account[v]
      BY <3>1, <2>3 DEF Booked, ServerView
    <3>3. \A v \in a.in : account'[v] = account[v] BY <3>2, <2>3, <1>1, <1>6
    <3>4. ServerView(a)' BY <3>2, <3>3, <1>0 DEF ServerView, Visible
    <3> QED BY <3>1, <3>4
  <2> QED BY <2>1, <2>2, <2>3, <1>0, <1>2, NoLineAdded
<1> QED BY <1>5, <1>6

\* A new nick, which nobody who is connected has.
LEMMA RenameStep == ASSUME PresenceInv, NEW u \in People, NEW n \in Handles, Rename(u, n) PROVE PresenceInv'
<1>0. /\ UNCHANGED <<whereIs, isAway, account, unseen>> /\ BooksKept /\ NickFree(n)
      /\ PresenceFrame /\ PresenceTypes /\ nickOf' = [nickOf EXCEPT ![u] = n]
  BY DEF Rename, World, BooksKept, PresenceInv, PresenceFrame
<1>1. /\ nickOf' \in [People -> Handles] /\ nickOf'[u] = n
      /\ \A v \in People : v # u => nickOf'[v] = nickOf[v]
  BY <1>0 DEF PresenceTypes
<1>2. ServerKept
  <2>1. \A v \in People : whereIs[v] # "gone" => nickOf[v] # n BY <1>0 DEF NickFree
  <2>2. \A v, w \in People : whereIs[v] # "gone" /\ whereIs[w] # "gone" /\ nickOf[v] = nickOf[w] => v = w
    BY <1>0 DEF PresenceFrame, NicksDiffer
  <2>3. NicksDiffer' BY <2>1, <2>2, <1>0, <1>1 DEF NicksDiffer
  <2> QED BY <2>3, <1>0, <1>1 DEF ServerKept, PresenceTypes, PresenceFrame, Visible
<1>3. PICK e : e = [Line("NICK", u) EXCEPT !.to = n] OBVIOUS
<1>4. e = [kind |-> "NICK", who |-> u, nick |-> nickOf[u], to |-> n,
           flag |-> isAway[u], acct |-> account[u]]
  BY <1>3 DEF Line
<1>5. CASE online /\ Visible(u)
  <2>1. wire' = Append(wire, e) BY <1>3, <1>5 DEF Rename, Announce
  <2>2. PICK V : Booked(V) BY <1>5 DEF PresenceInv
  <2>3. PICK a : a = V[Len(V)] OBVIOUS
  <2>4. a \in View /\ ViewOK(a) /\ ServerView(a) BY <2>2, <2>3, ViewNow
  <2>5. PICK b : b = [a EXCEPT !.nick = [a.nick EXCEPT ![u] = n]] OBVIOUS
  <2>6. /\ b \in View /\ b.in = a.in /\ b.acct = a.acct /\ b.flag = a.flag
        /\ b.nick[u] = n /\ \A v \in People : v # u => b.nick[v] = a.nick[v]
    BY <2>4, <2>5 DEF View
  <2>a. a.in = {v \in People : Visible(v)} /\ a.flag = isAway[Self]
        /\ \A v \in a.in : a.nick[v] = nickOf[v] /\ a.acct[v] = account[v]
    BY <2>4 DEF ServerView
  <2>7. ViewOK(b)
    <3>1. \A v \in a.in : v # u => b.nick[v] # n /\ b.nick[v] = a.nick[v]
      BY <2>a, <2>6, <1>0 DEF NickFree, Visible
    <3> QED BY <3>1, <2>4, <2>6 DEF ViewOK
  <2>8. /\ e.who = u /\ e.kind = "NICK" /\ e.nick = nickOf[u] /\ e.to = n
        /\ e.acct = account[u] /\ e \in Said
    <3>1. "NICK" \in Kinds /\ nickOf[u] \in Handles /\ isAway[u] \in BOOLEAN /\ account[u] \in BOOLEAN
      BY <1>0 DEF PresenceTypes, Kinds
    <3> QED BY <3>1, <1>4 DEF Said
  <2>9. u \in a.in /\ a.nick[u] = nickOf[u] /\ a.acct[u] = account[u] BY <2>a, <1>5
  <2>10. Turns(e, a, b) BY <2>a, <2>6, <2>8, <2>9 DEF Turns, Leaving
  <2>11. ServerView(b)'
    <3>2. \A v \in b.in : b.nick[v] = nickOf'[v] /\ b.acct[v] = account[v]
      BY <2>a, <2>6, <1>1
    <3> QED BY <3>2, <2>a, <2>6, <1>0 DEF ServerView, Visible
  <2>12. \A v \in People : whereIs'[v] = "in" =>
           /\ ~(e.kind \in Leaving /\ e.who = v) /\ (JoinOf(e, v) \/ Visible(v))
           /\ v \notin unseen' /\ ~(e.kind \in Telling /\ e.who = v) =>
                IF JoinOf(e, v) THEN ~isAway'[v] ELSE v \notin unseen /\ isAway'[v] = isAway[v]
    BY <2>8, <1>0 DEF Leaving, Telling, JoinOf, Visible
  <2>13. ~(e.kind = "AWAY" /\ e.who = Self) BY <2>8
  <2> QED BY <2>1, <2>2, <2>3, <2>6, <2>7, <2>8, <2>10, <2>11, <2>12, <2>13, <1>0, <1>2, <1>5, LineAdded
<1>6. CASE ~(online /\ Visible(u))
  <2>1. wire' = wire BY <1>6 DEF Rename, Announce
  <2>2. \A v \in People : whereIs'[v] = "in" =>
            Visible(v) /\ (v \notin unseen' => v \notin unseen /\ isAway'[v] = isAway[v])
    BY <1>0 DEF Visible
  <2>3. ASSUME NEW V, online, Booked(V) PROVE ServerView(V[Len(V)])'
    <3>1. PICK a : a = V[Len(V)] OBVIOUS
    <3>2. a.in = {v \in People : Visible(v)} /\ a.flag = isAway[Self]
          /\ \A v \in a.in : a.nick[v] = nickOf[v] /\ a.acct[v] = account[v]
      BY <3>1, <2>3 DEF Booked, ServerView
    <3>3. \A v \in a.in : nickOf'[v] = nickOf[v] BY <3>2, <2>3, <1>1, <1>6
    <3>4. ServerView(a)' BY <3>2, <3>3, <1>0 DEF ServerView, Visible
    <3> QED BY <3>1, <3>4
  <2> QED BY <2>1, <2>2, <2>3, <1>0, <1>2, NoLineAdded
<1> QED BY <1>5, <1>6

\* PART or QUIT of a peer.
LEMMA PeerLeavesStep ==
  ASSUME PresenceInv, NEW u \in Folk, NEW quit \in BOOLEAN, PeerLeaves(u, quit) PROVE PresenceInv'
<1>0. /\ UNCHANGED nickOf /\ BooksKept /\ u \in People /\ u # Self /\ Self \in People
      /\ PresenceFrame /\ PresenceTypes
      /\ whereIs' = [whereIs EXCEPT ![u] = IF quit THEN "gone" ELSE "out"]
      /\ isAway' = [isAway EXCEPT ![u] = ~quit /\ @] /\ account' = [account EXCEPT ![u] = ~quit /\ @]
      /\ unseen' = IF quit THEN unseen \ {u} ELSE unseen
      /\ whereIs[u] # "gone"
  BY PresenceAssumption DEF PeerLeaves, World, BooksKept, PresenceInv, PresenceFrame, People, Visible
<1>1. /\ whereIs' \in [People -> {"in", "out", "gone"}] /\ whereIs'[u] # "in"
      /\ \A v \in People : v # u => whereIs'[v] = whereIs[v]
  BY <1>0 DEF PresenceTypes
<1>2. /\ isAway' \in [People -> BOOLEAN] /\ \A v \in People : v # u => isAway'[v] = isAway[v]
      /\ account' \in [People -> BOOLEAN] /\ \A v \in People : v # u => account'[v] = account[v]
  <2>1. isAway[u] \in BOOLEAN /\ account[u] \in BOOLEAN
    BY <1>0 DEF PresenceTypes
  <2> QED BY <2>1, <1>0 DEF PresenceTypes
<1>3. ServerKept
  <2>1. \A v, w \in People : whereIs[v] # "gone" /\ whereIs[w] # "gone" /\ nickOf[v] = nickOf[w] => v = w
    BY <1>0 DEF PresenceFrame, NicksDiffer
  <2>2. \A v \in People : whereIs'[v] # "gone" => whereIs[v] # "gone" BY <1>0, <1>1
  <2>3. NicksDiffer' BY <2>1, <2>2, <1>0 DEF NicksDiffer
  <2>4. whereIs'[Self] = "in" BY <1>0, <1>1 DEF PresenceFrame, Visible
  <2> QED BY <2>3, <2>4, <1>0, <1>1, <1>2 DEF ServerKept, PresenceTypes
<1>4. \A v \in People : whereIs'[v] = "in" =>
          v # u /\ Visible(v) /\ (v \notin unseen' => v \notin unseen) /\ isAway'[v] = isAway[v]
  BY <1>0, <1>1, <1>2 DEF Visible
<1>5. CASE online /\ Visible(u)
  <2>0. PICK k \in Leaving : k = IF quit THEN "QUIT" ELSE "PART" BY DEF Leaving
  <2>1. PICK e : e = Line(k, u) OBVIOUS
  <2>2. wire' = Append(wire, e) BY <2>0, <2>1, <1>5 DEF PeerLeaves, Announce
  <2>3. PICK V : Booked(V) BY <1>5 DEF PresenceInv
  <2>4. PICK a : a = V[Len(V)] OBVIOUS
  <2>5. /\ a \in View /\ ViewOK(a) /\ a.in = {v \in People : Visible(v)} /\ a.flag = isAway[Self]
        /\ \A v \in a.in : a.nick[v] = nickOf[v] /\ a.acct[v] = account[v]
    BY <2>3, <2>4, ViewNow DEF ServerView
  <2>6. PICK b : b = [a EXCEPT !.in = a.in \ {u}] OBVIOUS
  <2>7. /\ b \in View /\ b.in = a.in \ {u} /\ b.acct = a.acct /\ b.flag = a.flag /\ b.nick = a.nick
    BY <2>5, <2>6 DEF View
  <2>8. ViewOK(b) BY <2>5, <2>7, <1>0 DEF ViewOK
  <2>9. /\ e.who = u /\ e.kind = k /\ e.nick = nickOf[u] /\ e.to = nickOf[u]
        /\ e.acct = account[u] /\ e \in Said
    <3>1. k \in Kinds /\ nickOf[u] \in Handles /\ isAway[u] \in BOOLEAN /\ account[u] \in BOOLEAN
      BY <1>0 DEF PresenceTypes, Kinds, Leaving
    <3> QED BY <3>1, <2>1, <1>0 DEF Said, Line
  <2>10. u \in a.in /\ a.nick[u] = nickOf[u] /\ a.acct[u] = account[u] BY <2>5, <1>0, <1>5
  <2>11. Turns(e, a, b) BY <2>7, <2>9, <2>10, <1>0 DEF Turns, Leaving
  <2>12. ServerView(b)'
    <3>1. b.in = {v \in People : whereIs'[v] = "in"} BY <2>5, <2>7, <1>1 DEF Visible
    <3>2. \A v \in b.in : b.nick[v] = nickOf[v] /\ b.acct[v] = account'[v]
      BY <2>5, <2>7, <1>2
    <3>3. b.flag = isAway'[Self] BY <2>5, <2>7, <1>0, <1>2
    <3> QED BY <3>1, <3>2, <3>3, <1>0 DEF ServerView, Visible
  <2>13. \A v \in People : whereIs'[v] = "in" =>
           /\ ~(e.kind \in Leaving /\ e.who = v) /\ (JoinOf(e, v) \/ Visible(v))
           /\ v \notin unseen' /\ ~(e.kind \in Telling /\ e.who = v) =>
                IF JoinOf(e, v) THEN ~isAway'[v] ELSE v \notin unseen /\ isAway'[v] = isAway[v]
    BY <2>9, <1>4 DEF JoinOf
  <2>14. ~(e.kind = "AWAY" /\ e.who = Self) BY <2>9, <1>0
  <2> QED BY <2>2, <2>3, <2>4, <2>7, <2>8, <2>9, <2>11, <2>12, <2>13, <2>14, <1>0, <1>3, <1>5, LineAdded
<1>6. CASE ~(online /\ Visible(u))
  <2>1. wire' = wire BY <1>6 DEF PeerLeaves, Announce
  <2>2. \A v \in People : whereIs'[v] = "in" =>
            Visible(v) /\ (v \notin unseen' => v \notin unseen /\ isAway'[v] = isAway[v])
    BY <1>4
  <2>3. ASSUME NEW V, online, Booked(V) PROVE ServerView(V[Len(V)])'
    <3>1. PICK a : a = V[Len(V)] OBVIOUS
    <3>2. a.in = {v \in People : Visible(v)} /\ a.flag = isAway[Self]
          /\ \A v \in a.in : a.nick[v] = nickOf[v] /\ a.acct[v] = account[v]
      BY <3>1, <2>3 DEF Booked, ServerView
    <3>3. a.in = {v \in People : whereIs'[v] = "in"} /\ a.flag = isAway'[Self]
      BY <3>2, <2>3, <1>0, <1>1, <1>2, <1>6 DEF Visible
    <3>4. \A v \in a.in : a.nick[v] = nickOf[v] /\ a.acct[v] = account'[v]
      BY <3>2, <3>3, <1>1, <1>2
    <3>5. ServerView(a)' BY <3>3, <3>4, <1>0 DEF ServerView, Visible
    <3> QED BY <3>1, <3>5
  <2> QED BY <2>1, <2>2, <2>3, <1>0, <1>3, NoLineAdded
<1> QED BY <1>5, <1>6

\* JOIN of a peer, and AWAY behind it.
LEMMA PeerJoinsStep == ASSUME PresenceInv, NEW u \in Folk, PeerJoins(u) PROVE PresenceInv'
<1>0. /\ UNCHANGED <<nickOf, isAway, account, awayNotify>> /\ BooksKept /\ u \in People /\ u # Self
      /\ Self \in People /\ PresenceFrame /\ PresenceTypes /\ ~Visible(u)
      /\ whereIs' = [whereIs EXCEPT ![u] = "in"] /\ (whereIs[u] = "gone" => NickFree(nickOf[u]))
      /\ unseen' = IF online /\ awayNotify /\ isAway[u] THEN unseen
                   ELSE IF isAway[u] THEN unseen \cup {u} ELSE unseen
  BY PresenceAssumption DEF PeerJoins, World, BooksKept, PresenceInv, PresenceFrame, People
<1>1. /\ whereIs' \in [People -> {"in", "out", "gone"}] /\ whereIs'[u] = "in"
      /\ \A v \in People : v # u => whereIs'[v] = whereIs[v]
  BY <1>0 DEF PresenceTypes
<1>2. \A v, w \in People : whereIs[v] # "gone" /\ whereIs[w] # "gone" /\ nickOf[v] = nickOf[w] => v = w
  BY <1>0 DEF PresenceFrame, NicksDiffer
<1>3. \A v \in People : v # u /\ whereIs[v] # "gone" => nickOf[v] # nickOf[u]
  BY <1>0, <1>2 DEF NickFree
<1>4. ServerKept
  <2>1. NicksDiffer' BY <1>0, <1>1, <1>2, <1>3 DEF NicksDiffer
  <2>2. whereIs'[Self] = "in" BY <1>0, <1>1 DEF PresenceFrame, Visible
  <2> QED BY <2>1, <2>2, <1>0, <1>1 DEF ServerKept, PresenceTypes
<1>5. CASE online
  <2>1. PICK V : Booked(V) BY <1>5 DEF PresenceInv
  <2>2. PICK a : a = V[Len(V)] OBVIOUS
  <2>3. /\ a \in View /\ ViewOK(a) /\ a.in = {v \in People : Visible(v)} /\ a.flag = isAway[Self]
        /\ \A v \in a.in : a.nick[v] = nickOf[v] /\ a.acct[v] = account[v]
        /\ wire \in Seq(Said)
    BY <2>1, <2>2, ViewNow DEF ServerView
  <2>4. PICK b : b = [nick |-> [a.nick EXCEPT ![u] = nickOf[u]], in |-> a.in \cup {u},
                      acct |-> [a.acct EXCEPT ![u] = account[u]], flag |-> a.flag]
    OBVIOUS
  <2>5. nickOf[u] \in Handles /\ isAway[u] \in BOOLEAN /\ account[u] \in BOOLEAN BY <1>0 DEF PresenceTypes
  <2>6. /\ b \in View /\ b.in = a.in \cup {u} /\ b.flag = a.flag
        /\ b.nick[u] = nickOf[u] /\ b.acct[u] = account[u]
        /\ \A v \in People : v # u => b.nick[v] = a.nick[v] /\ b.acct[v] = a.acct[v]
    BY <2>3, <2>4, <2>5, <1>0 DEF View
  <2>7. u \notin a.in /\ \A v \in a.in : v \in People /\ v # u /\ whereIs[v] # "gone" BY <2>3, <1>0 DEF Visible
  <2>8. ViewOK(b)
    <3>1. \A v \in a.in : b.nick[v] = a.nick[v] /\ b.nick[v] # b.nick[u] BY <2>3, <2>6, <2>7, <1>3
    <3> QED BY <3>1, <2>3, <2>6 DEF ViewOK
  <2>9. PICK e : e = Line("JOIN", u) OBVIOUS
  <2>10. /\ e.who = u /\ e.kind = "JOIN" /\ e.nick = nickOf[u] /\ e.to = nickOf[u]
         /\ e.acct = account[u] /\ e \in Said
    <3>1. "JOIN" \in Kinds BY DEF Kinds
    <3> QED BY <3>1, <2>5, <2>9, <1>0 DEF Said, Line
  <2>11. Turns(e, a, b) BY <2>6, <2>7, <2>10, <1>0 DEF Turns, Leaving
  <2>12. ServerView(b)'
    <3>1. b.in = {v \in People : whereIs'[v] = "in"} BY <2>3, <2>6, <1>0, <1>1 DEF Visible
    <3>2. \A v \in b.in : b.nick[v] = nickOf[v] /\ b.acct[v] = account[v] BY <2>3, <2>6, <2>7
    <3> QED BY <3>1, <3>2, <2>3, <2>6, <1>0 DEF ServerView, Visible
  <2>13. \A v \in People : whereIs'[v] = "in" =>
           v = u \/ (Visible(v) /\ (v \notin unseen' => v \notin unseen) /\ isAway'[v] = isAway[v])
    BY <1>0, <1>1 DEF Visible
  <2>14. CASE awayNotify /\ isAway[u]
    <3>1. PICK d : d = Line("AWAY", u) OBVIOUS
    <3>2. /\ d.who = u /\ d.kind = "AWAY" /\ d.nick = nickOf[u] /\ d.to = nickOf[u]
          /\ d.acct = account[u] /\ d \in Said
      <4>1. "AWAY" \in Kinds BY DEF Kinds
      <4> QED BY <4>1, <2>5, <3>1, <1>0 DEF Said, Line
    <3>3. Turns(d, b, b) BY <2>6, <3>2, <1>0 DEF Turns, Leaving
    <3>4. PICK more : more = <<e, d>> OBVIOUS
    <3>5. wire \o more = Append(Append(wire, e), d) /\ more \in Seq(Said)
      BY <3>4, <2>3, <2>10, <3>2, TwoSaid
    <3>6. wire' = (wire \o <<e>>) \o <<d>> BY <2>9, <2>14, <3>1, <1>5 DEF PeerJoins
    <3>7. wire' = wire \o more
      <4>1. <<e>> \in Seq(Said) /\ <<d>> \in Seq(Said) /\ more = <<e>> \o <<d>>
        BY <2>10, <3>2, <3>4, TwoSaid
      <4> QED BY <4>1, <3>6, <2>3, ConcatAssociative
    <3>8. PICK U : U = Append(V, b) OBVIOUS
    <3>9. Path(U, Append(wire, e)) /\ U[1] = V[1] /\ U[Len(U)] = b
      <4>1. Path(V, wire) BY <2>1 DEF Booked
      <4> QED BY <4>1, <2>2, <2>6, <2>8, <2>10, <2>11, <3>8, PathAppend
    <3>10. PICK W : W = Append(U, b) OBVIOUS
    <3>11. Path(W, wire \o more) /\ W[1] = V[1] /\ W[Len(W)] = b
      BY <3>2, <3>3, <3>5, <3>9, <3>10, <2>6, <2>8, PathAppend
    <3>12. ServerView(W[Len(W)])' BY <3>11, <2>12
    <3>13. /\ \A v : Joins(more, v) <=> v = u
           /\ \A v : ~LastSaid(more, Leaving, v) /\ (LastSaid(more, Telling, v) <=> v = u)
      <4>1. ASSUME NEW v PROVE Joins(more, v) <=> v = u
        <5>1. Joins(<<e, d>>, v) <=> JoinOf(e, v) \/ JoinOf(d, v) BY <2>10, <3>2, TwoSaid
        <5> QED BY <5>1, <3>2, <3>4, <2>10 DEF JoinOf
      <4>2. ASSUME NEW v, NEW kinds
            PROVE  LastSaid(more, kinds, v) <=> v = u /\ ("AWAY" \in kinds \/ "JOIN" \in kinds)
        <5>1. LastSaid(<<e, d>>, kinds, v) <=>
                (d.kind \in kinds /\ d.who = v) \/ (e.kind \in kinds /\ e.who = v /\ ~JoinOf(d, v))
          BY <2>10, <3>2, TwoSaid
        <5> QED BY <5>1, <3>2, <3>4, <2>10 DEF JoinOf
      <4> QED BY <4>1, <4>2 DEF Leaving, Telling
    <3>14. Silent(more)
      <4>1. Silent(<<e>>) /\ Silent(<<d>>) /\ <<e>> \in Seq(Said) /\ <<d>> \in Seq(Said)
        BY <2>10, <3>2, <1>0, OneSaid
      <4>2. more = <<e>> \o <<d>> BY <2>10, <3>2, <3>4, TwoSaid
      <4> QED BY <4>1, <4>2, SilentConcat
    <3>15. \A v \in People : whereIs'[v] = "in" =>
             /\ ~LastSaid(more, Leaving, v) /\ (Joins(more, v) \/ Visible(v))
             /\ v \notin unseen' /\ ~LastSaid(more, Telling, v) =>
                  IF Joins(more, v) THEN ~isAway'[v] ELSE v \notin unseen /\ isAway'[v] = isAway[v]
      BY <3>13, <2>13
    <3> QED BY <3>5, <3>7, <3>11, <3>12, <3>14, <3>15, <2>1, <1>0, <1>4, <1>5, LinesAdded
  <2>15. CASE ~(awayNotify /\ isAway[u])
    <3>1. wire' = (wire \o <<e>>) \o <<>> BY <2>9, <2>15, <1>5 DEF PeerJoins
    <3>2. wire' = Append(wire, e)
      <4>1. Append(wire, e) = wire \o <<e>> /\ Append(wire, e) \in Seq(Said)
        BY <2>3, <2>10, AppendIsConcat, AppendProperties
      <4> QED BY <3>1, <4>1, ConcatEmptySeq
    <3>3. u \notin unseen' => ~isAway[u] BY <2>15, <1>0
    <3>4. \A v \in People : whereIs'[v] = "in" =>
           /\ ~(e.kind \in Leaving /\ e.who = v) /\ (JoinOf(e, v) \/ Visible(v))
           /\ v \notin unseen' /\ ~(e.kind \in Telling /\ e.who = v) =>
                IF JoinOf(e, v) THEN ~isAway'[v] ELSE v \notin unseen /\ isAway'[v] = isAway[v]
      BY <3>3, <2>10, <2>13, <1>0 DEF JoinOf, Leaving, Telling
    <3>5. ~(e.kind = "AWAY" /\ e.who = Self) BY <2>10
    <3> QED BY <3>2, <3>4, <3>5, <2>1, <2>2, <2>6, <2>8, <2>10, <2>11, <2>12, <1>0, <1>4, <1>5, LineAdded
  <2> QED BY <2>14, <2>15
<1>6. CASE ~online
  <2>1. wire' = wire BY <1>6 DEF PeerJoins
  <2> QED BY <2>1, <1>0, <1>4, <1>6, NoLineAdded
<1> QED BY <1>5, <1>6

\* The server's answer to the user's AWAY: it tells the user's flag, and leads
\* to the view with that flag.
LEMMA AnswerPath ==
  ASSUME PresenceTypes, Self \in People, NEW flag \in BOOLEAN, NEW V, NEW q, Path(V, q),
         NEW a, a = V[Len(V)], Self \in a.in, a.nick[Self] = nickOf[Self], a.acct[Self] = account[Self]
  PROVE  /\ Answered(flag) \in Seq(Said) /\ (selfEcho \/ Silent(Answered(flag)))
         /\ \A u : ~Joins(Answered(flag), u) /\ ~LastSaid(Answered(flag), Leaving, u)
         /\ \A u : LastSaid(Answered(flag), Telling, u) <=> u = Self
         /\ \E W : /\ Path(W, q \o Answered(flag)) /\ W[1] = V[1]
                   /\ W[Len(W)] = [a EXCEPT !.flag = flag]
<1>1. V \in Seq(View) /\ q \in Seq(Said) /\ Len(V) = Len(q) + 1 /\ Len(q) \in Nat BY DEF Path
<1>2. a \in View /\ ViewOK(a)
  <2>1. Len(V) \in 1..Len(V) BY <1>1
  <2> QED BY <2>1, <1>1, ElementOfSeq DEF Path
<1>3. PICK b : b = [a EXCEPT !.flag = flag] OBVIOUS
<1>4. b \in View /\ b.in = a.in /\ b.nick = a.nick /\ b.acct = a.acct /\ b.flag = flag
  BY <1>2, <1>3 DEF View
<1>5. ViewOK(b) BY <1>2, <1>4 DEF ViewOK
<1>6. PICK d : d = [Line("AWAY", Self) EXCEPT !.flag = flag] OBVIOUS
<1>7. PICK e : e = [Line("305/306", Self) EXCEPT !.flag = flag] OBVIOUS
<1>8. nickOf[Self] \in Handles /\ account[Self] \in BOOLEAN BY DEF PresenceTypes
<1>9. d = [kind |-> "AWAY", who |-> Self, nick |-> nickOf[Self], to |-> nickOf[Self],
           flag |-> flag, acct |-> account[Self]]
  BY <1>6 DEF Line
<1>10. e = [kind |-> "305/306", who |-> Self, nick |-> nickOf[Self], to |-> nickOf[Self],
            flag |-> flag, acct |-> account[Self]]
  BY <1>7 DEF Line
<1>11. d \in Said /\ e \in Said
  <2>1. "AWAY" \in Kinds /\ "305/306" \in Kinds BY DEF Kinds
  <2> QED BY <2>1, <1>8, <1>9, <1>10 DEF Said
<1>12. Turns(d, a, b) /\ Turns(e, b, b) /\ Turns(e, a, b)
  <2>1. Turns(d, a, b) BY <1>4, <1>9 DEF Turns, Leaving
  <2>2. Turns(e, b, b) BY <1>4, <1>10 DEF Turns, Leaving
  <2>3. Turns(e, a, b) BY <1>4, <1>10 DEF Turns, Leaving
  <2> QED BY <2>1, <2>2, <2>3
<1>13. CASE ~selfEcho
  <2>1. Answered(flag) = <<e>> BY <1>7, <1>13 DEF Answered
  <2>2. <<e>> \in Seq(Said) /\ Silent(<<e>>) BY <1>10, <1>11, OneSaid
  <2>3. ASSUME NEW u PROVE ~Joins(<<e>>, u) BY <1>10, <1>11, OneSaid DEF JoinOf
  <2>4. ASSUME NEW u, NEW kinds PROVE LastSaid(<<e>>, kinds, u) <=> "305/306" \in kinds /\ u = Self
    <3>1. LastSaid(<<e>>, kinds, u) <=> e.kind \in kinds /\ e.who = u BY <1>11, OneSaid
    <3> QED BY <3>1, <1>10
  <2>5. /\ Path(Append(V, b), Append(q, e)) /\ Append(V, b)[1] = V[1]
        /\ Append(V, b)[Len(Append(V, b))] = b
    BY <1>4, <1>5, <1>11, <1>12, PathAppend
  <2>6. Append(q, e) = q \o <<e>> BY <1>1, <1>11, AppendIsConcat
  <2>7. \E W : Path(W, q \o <<e>>) /\ W[1] = V[1] /\ W[Len(W)] = b BY <2>5, <2>6
  <2> QED BY <2>1, <2>2, <2>3, <2>4, <2>7, <1>3 DEF Leaving, Telling
<1>14. CASE selfEcho
  <2>1. Answered(flag) = <<d, e>> BY <1>6, <1>7, <1>14 DEF Answered
  <2>2. <<d, e>> \in Seq(Said) /\ q \o <<d, e>> = Append(Append(q, d), e) BY <1>1, <1>11, TwoSaid
  <2>3. ASSUME NEW u PROVE ~Joins(<<d, e>>, u)
    <3>1. Joins(<<d, e>>, u) <=> JoinOf(d, u) \/ JoinOf(e, u) BY <1>11, TwoSaid
    <3> QED BY <3>1, <1>9, <1>10 DEF JoinOf
  <2>4. ASSUME NEW u, NEW kinds
        PROVE  LastSaid(<<d, e>>, kinds, u) <=> ("305/306" \in kinds \/ "AWAY" \in kinds) /\ u = Self
    <3>1. LastSaid(<<d, e>>, kinds, u) <=>
            (e.kind \in kinds /\ e.who = u) \/ (d.kind \in kinds /\ d.who = u /\ ~JoinOf(e, u))
      BY <1>11, TwoSaid
    <3> QED BY <3>1, <1>9, <1>10 DEF JoinOf
  <2>5. PICK U : U = Append(V, b) OBVIOUS
  <2>6. Path(U, Append(q, d)) /\ U[1] = V[1] /\ U[Len(U)] = b
    BY <2>5, <1>4, <1>5, <1>11, <1>12, PathAppend
  <2>7. /\ Path(Append(U, b), Append(Append(q, d), e)) /\ Append(U, b)[1] = U[1]
        /\ Append(U, b)[Len(Append(U, b))] = b
    BY <2>6, <1>4, <1>5, <1>11, <1>12, PathAppend
  <2>8. \E W : Path(W, q \o <<d, e>>) /\ W[1] = V[1] /\ W[Len(W)] = b BY <2>2, <2>6, <2>7
  <2> QED BY <2>1, <2>2, <2>3, <2>4, <2>8, <1>3, <1>14 DEF Leaving, Telling
<1> QED BY <1>13, <1>14

\* A sweep has a row for everyone in the channel, and nothing else.
LEMMA SweepRows ==
  PresenceTypes =>
    /\ Sweep \in Seq(Said) /\ Len(Sweep) \in Nat
    /\ \A i \in 1..Len(Sweep) : \E u \in People : Visible(u) /\ Sweep[i] = Line("352", u)
    /\ \A u \in People : Visible(u) => \E i \in 1..Len(Sweep) : Sweep[i] = Line("352", u)
<1> SUFFICES ASSUME PresenceTypes
             PROVE  /\ Sweep \in Seq(Said) /\ Len(Sweep) \in Nat
                    /\ \A i \in 1..Len(Sweep) : \E u \in People : Visible(u) /\ Sweep[i] = Line("352", u)
                    /\ \A u \in People : Visible(u) => \E i \in 1..Len(Sweep) : Sweep[i] = Line("352", u)
  OBVIOUS
<1> DEFINE rows == {u \in People : Visible(u)}
           n == Cardinality(rows)
           Order(f) == f \in [1..n -> rows] /\ \A u \in rows : \E i \in DOMAIN f : f[i] = u
           order == CHOOSE f \in [1..n -> rows] : \A u \in rows : \E i \in DOMAIN f : f[i] = u
<1>1. IsFiniteSet(People)
  <2>1. People = Folk \cup {Self} BY DEF People
  <2> QED BY <2>1, PresenceAssumption, FS_AddElement
<1>2. IsFiniteSet(rows) BY <1>1, FS_Subset
<1>3. n \in Nat /\ ExistsBijection(1..n, rows)
  <2>1. n \in Nat BY <1>2, FS_CardinalityType
  <2>2. ExistsBijection(1..n, rows) BY <1>2, FS_CardinalityType
  <2> QED BY <2>1, <2>2
<1>4. \E f : Order(f)
  <2>1. PICK f : f \in Bijection(1..n, rows) BY <1>3 DEF ExistsBijection
  <2>2. f \in [1..n -> rows] /\ \A u \in rows : \E i \in 1..n : f[i] = u
    BY <2>1 DEF Bijection, Surjection, Injection
  <2> QED BY <2>2
<1>5. order \in [1..n -> rows] /\ \A u \in rows : \E i \in 1..n : order[i] = u
  <2>1. Order(order) BY <1>4
  <2> QED BY <2>1
<1>6. Sweep = [i \in 1..n |-> Line("352", order[i])] BY DEF Sweep
<1> HIDE DEF order, n
<1>7. Sweep \in Seq(Said) /\ Len(Sweep) = n
  <2>1. ASSUME NEW i \in 1..n PROVE Line("352", order[i]) \in Said
    <3>1. order[i] \in People BY <1>5
    <3>2. nickOf[order[i]] \in Handles /\ isAway[order[i]] \in BOOLEAN /\ account[order[i]] \in BOOLEAN
      BY <3>1 DEF PresenceTypes
    <3>3. "352" \in Kinds BY DEF Kinds
    <3> QED BY <3>1, <3>2, <3>3 DEF Line, Said
  <2>2. Sweep \in [1..n -> Said] BY <2>1, <1>6
  <2> QED BY <2>2, <1>3, LenProperties
<1>8. ASSUME NEW i \in 1..n PROVE \E u \in People : Visible(u) /\ Sweep[i] = Line("352", u)
  <2>1. order[i] \in rows BY <1>5
  <2>2. Sweep[i] = Line("352", order[i]) BY <1>6
  <2> QED BY <2>1, <2>2
<1>9. ASSUME NEW u \in People, Visible(u) PROVE \E i \in 1..n : Sweep[i] = Line("352", u)
  <2>1. PICK i \in 1..n : order[i] = u BY <1>5, <1>9
  <2>2. Sweep[i] = Line("352", u) BY <2>1, <1>6
  <2> QED BY <2>2
<1> QED BY <1>3, <1>7, <1>8, <1>9

\* What a sweep says: it tells of everyone in the channel, and changes no view.
LEMMA SweepSaid ==
  ASSUME PresenceTypes
  PROVE  /\ Sweep \in Seq(Said) /\ Silent(Sweep)
         /\ \A u : ~Joins(Sweep, u) /\ ~LastSaid(Sweep, Leaving, u)
         /\ \A u \in People : Visible(u) => LastSaid(Sweep, Telling, u)
         /\ \A a \in View : ServerView(a) => \A i \in 1..Len(Sweep) : Turns(Sweep[i], a, a)
<1> DEFINE q == Sweep
<1>1. q \in Seq(Said) /\ Len(q) \in Nat BY SweepRows
<1>2. \A i \in 1..Len(q) : \E u \in People : Visible(u) /\ q[i] = Line("352", u) BY SweepRows
<1>3. \A u \in People : Visible(u) => \E i \in 1..Len(q) : q[i] = Line("352", u) BY SweepRows
<1> HIDE DEF q
<1>4. \A u : Line("352", u).kind = "352" /\ Line("352", u).who = u BY DEF Line
<1>5. \A i \in 1..Len(q) : q[i].kind = "352" BY <1>2, <1>4
<1>6. Silent(q) BY <1>5 DEF Silent
<1>7. \A u : ~Joins(q, u) BY <1>5 DEF Joins, JoinOf
<1>8. \A u : ~LastSaid(q, Leaving, u) BY <1>5 DEF LastSaid, Leaving
<1>9. ASSUME NEW u \in People, Visible(u) PROVE LastSaid(q, Telling, u)
  <2>1. PICK i \in 1..Len(q) : q[i] = Line("352", u) BY <1>3, <1>9
  <2>2. \A j \in (i + 1)..Len(q) : j \in 1..Len(q) BY <1>1
  <2>3. \A j \in (i + 1)..Len(q) : ~JoinOf(q[j], u) BY <2>2, <1>5 DEF JoinOf
  <2> QED BY <2>1, <2>3, <1>4 DEF LastSaid, Telling
<1>10. ASSUME NEW a \in View, ServerView(a), NEW i \in 1..Len(q) PROVE Turns(q[i], a, a)
  <2>1. PICK u \in People : Visible(u) /\ q[i] = Line("352", u) BY <1>2
  <2>2. q[i] = [kind |-> "352", who |-> u, nick |-> nickOf[u], to |-> nickOf[u],
                flag |-> isAway[u], acct |-> account[u]]
    BY <2>1 DEF Line
  <2>3. isAway[u] \in BOOLEAN BY DEF PresenceTypes
  <2> QED BY <2>1, <2>2, <2>3, <1>10, TellTurns
<1> QED BY <1>1, <1>6, <1>7, <1>8, <1>9, <1>10 DEF q

-----------------------------------------------------------------------------
(* Presence: the user and the link *)

\* A status: the server obeys and answers, or nothing is sent.
LEMMA SetStatusStep == ASSUME PresenceInv, NEW s, SetStatus(s) PROVE PresenceInv'
<1>0. /\ UNCHANGED <<nickOf, whereIs, account, unseen>> /\ BooksKept
      /\ PresenceFrame /\ PresenceTypes /\ Self \in People /\ Visible(Self)
  BY DEF SetStatus, BooksKept, PresenceInv, PresenceFrame, People
<1>1. CASE online /\ s # "invisible"
  <2>1. PICK flag \in BOOLEAN : flag = (s # "online") OBVIOUS
  <2>2. isAway' = [isAway EXCEPT ![Self] = flag] /\ wire' = wire \o Answered(flag)
    BY <1>1, <2>1 DEF SetStatus
  <2>3. /\ isAway' \in [People -> BOOLEAN] /\ isAway'[Self] = flag
        /\ \A v \in People : v # Self => isAway'[v] = isAway[v]
    BY <2>1, <2>2, <1>0 DEF PresenceTypes
  <2>4. ServerKept
    BY <1>0, <2>3 DEF ServerKept, PresenceTypes, PresenceFrame, Visible, NicksDiffer
  <2>5. PICK V : Booked(V) BY <1>1 DEF PresenceInv
  <2>6. PICK a : a = V[Len(V)] OBVIOUS
  <2>7. /\ a \in View /\ ServerView(a) /\ Path(V, wire) BY <2>5, <2>6, ViewNow DEF Booked
  <2>8. /\ a.in = {v \in People : Visible(v)} /\ \A v \in a.in : a.nick[v] = nickOf[v] /\ a.acct[v] = account[v]
    BY <2>7 DEF ServerView
  <2>9. Self \in a.in /\ a.nick[Self] = nickOf[Self] /\ a.acct[Self] = account[Self] BY <2>8, <1>0
  <2>10. PICK more : more = Answered(flag) OBVIOUS
  <2>11. /\ more \in Seq(Said) /\ (selfEcho \/ Silent(more))
         /\ \A u : ~Joins(more, u) /\ ~LastSaid(more, Leaving, u)
         /\ \A u : LastSaid(more, Telling, u) <=> u = Self
         /\ \E W : /\ Path(W, wire \o more) /\ W[1] = V[1]
                   /\ W[Len(W)] = [a EXCEPT !.flag = flag]
    BY <2>6, <2>7, <2>9, <2>10, <1>0, AnswerPath
  <2>12. PICK W : /\ Path(W, wire \o more) /\ W[1] = V[1]
                  /\ W[Len(W)] = [a EXCEPT !.flag = flag]
    BY <2>11
  <2>13. PICK b : b = [a EXCEPT !.flag = flag] OBVIOUS
  <2>14. b.in = a.in /\ b.nick = a.nick /\ b.acct = a.acct /\ b.flag = flag
    BY <2>7, <2>13 DEF View
  <2>15. ServerView(b)' BY <2>3, <2>8, <2>14, <1>0 DEF ServerView, Visible
  <2>16. ServerView(W[Len(W)])' BY <2>12, <2>13, <2>15
  <2>17. \A u \in People : whereIs'[u] = "in" =>
           /\ ~LastSaid(more, Leaving, u) /\ (Joins(more, u) \/ Visible(u))
           /\ u \notin unseen' /\ ~LastSaid(more, Telling, u) =>
                IF Joins(more, u) THEN ~isAway'[u] ELSE u \notin unseen /\ isAway'[u] = isAway[u]
    BY <2>3, <2>11, <1>0 DEF Visible
  <2>18. wire' = wire \o more BY <2>2, <2>10
  <2> QED BY <2>4, <2>5, <2>11, <2>12, <2>16, <2>17, <2>18, <1>0, <1>1, LinesAdded
<1>2. CASE ~(online /\ s # "invisible")
  <2>1. wire' = wire /\ isAway' = isAway BY <1>2 DEF SetStatus
  <2>2. ServerKept
    BY <1>0, <2>1 DEF ServerKept, PresenceTypes, PresenceFrame, Visible, NicksDiffer
  <2>3. ASSUME NEW a, ServerView(a) PROVE ServerView(a)'
    BY <2>1, <2>3, <1>0 DEF ServerView, Visible
  <2>4. \A V : Booked(V) => ServerView(V[Len(V)])' BY <2>3 DEF Booked
  <2>5. \A v \in People : whereIs'[v] = "in" =>
            Visible(v) /\ (v \notin unseen' => v \notin unseen /\ isAway'[v] = isAway[v])
    BY <2>1, <1>0 DEF Visible
  <2> QED BY <2>1, <2>2, <2>4, <2>5, <1>0, NoLineAdded
<1> QED BY <1>1, <1>2

\* A poll: rows that tell how things are.
LEMMA PollAwayStep == ASSUME PresenceInv, PollAway PROVE PresenceInv'
<1>0. /\ UNCHANGED <<nickOf, whereIs, isAway, account, unseen>> /\ BooksKept /\ online
      /\ PresenceFrame /\ PresenceTypes /\ Self \in People
  BY DEF PollAway, BooksKept, PresenceInv, PresenceFrame, People, serverVars
<1>1. ServerKept
  BY <1>0 DEF ServerKept, PresenceTypes, PresenceFrame, Visible, NicksDiffer
<1>2. PICK V : Booked(V) BY <1>0 DEF PresenceInv
<1>3. PICK a : a = V[Len(V)] OBVIOUS
<1>4. a \in View /\ ServerView(a) /\ Path(V, wire) BY <1>2, <1>3, ViewNow DEF Booked
<1>5. PICK more : more = Sweep OBVIOUS
<1>6. /\ more \in Seq(Said) /\ Silent(more)
      /\ \A u : ~Joins(more, u) /\ ~LastSaid(more, Leaving, u)
      /\ \A u \in People : Visible(u) => LastSaid(more, Telling, u)
      /\ \A i \in 1..Len(more) : Turns(more[i], a, a)
  BY <1>0, <1>4, <1>5, SweepSaid
<1>7. PICK W : Path(W, wire \o more) /\ W[1] = V[1] /\ W[Len(W)] = a
  BY <1>3, <1>4, <1>6, PathStill
<1>8. ServerView(a)' BY <1>0, <1>4 DEF ServerView, Visible
<1>9. ServerView(W[Len(W)])' BY <1>7, <1>8
<1>10. \A u \in People : whereIs'[u] = "in" =>
           /\ ~LastSaid(more, Leaving, u) /\ (Joins(more, u) \/ Visible(u))
           /\ u \notin unseen' /\ ~LastSaid(more, Telling, u) =>
                IF Joins(more, u) THEN ~isAway'[u] ELSE u \notin unseen /\ isAway'[u] = isAway[u]
  BY <1>0, <1>6 DEF Visible
<1>11. wire' = wire \o more BY <1>5 DEF PollAway
<1> QED BY <1>0, <1>1, <1>2, <1>6, <1>7, <1>9, <1>10, <1>11, LinesAdded

\* The link dies: nothing is promised before the next one.
LEMMA LinkLossStep == ASSUME PresenceInv, LinkLoss PROVE PresenceInv'
<1>0. /\ UNCHANGED <<nickOf, whereIs, account, selfEcho>> /\ PresenceFrame /\ PresenceTypes
      /\ isAway' = [isAway EXCEPT ![Self] = FALSE]
      /\ online' = FALSE /\ wire' = <<>> /\ arrived' = {} /\ blurred' = TRUE
  BY DEF LinkLoss, PresenceInv, PresenceFrame
<1>1. wire' \in Seq(Said) /\ isAway' \in [People -> BOOLEAN]
  <2>1. <<>> \in Seq(Said) OBVIOUS
  <2>2. [isAway EXCEPT ![Self] = FALSE] \in [People -> BOOLEAN] BY <1>0 DEF PresenceTypes
  <2> QED BY <2>1, <2>2, <1>0
<1>2. PresenceTypes' BY <1>0, <1>1 DEF PresenceTypes
<1>3. Visible(Self)' /\ NicksDiffer' BY <1>0 DEF PresenceFrame, Visible, NicksDiffer
<1>4. Silent(wire') /\ \A u : ~LastSaid(wire', Leaving, u) BY <1>0 DEF Silent, LastSaid
<1>5. \A u \in People : StaysIn(u)' BY <1>4 DEF StaysIn
<1>6. PresenceFrame' BY <1>0, <1>2, <1>3, <1>4, <1>5 DEF PresenceFrame
<1> QED BY <1>0, <1>6 DEF PresenceInv

\* A new link: the sweep tells of everyone, the stored status is asserted.
LEMMA ReconnectStep == ASSUME PresenceInv, Reconnect PROVE PresenceInv'
<1>0. /\ UNCHANGED <<nickOf, whereIs, account, selfEcho, arrived, blurred>>
      /\ PresenceFrame /\ PresenceTypes /\ NicksDiffer /\ Self \in People /\ Visible(Self)
      /\ ~online /\ wire = <<>> /\ arrived = {} /\ blurred /\ online' = TRUE
  BY DEF Reconnect, PresenceInv, PresenceFrame, People
<1>1. PICK a : a = [nick |-> nickOf, in |-> {u \in People : Visible(u)}, acct |-> account,
                    flag |-> isAway[Self]]
  OBVIOUS
<1>2. a \in View /\ ServerView(a) BY <1>0, <1>1 DEF View, ServerView, PresenceTypes
<1>3. /\ a.in = {u \in People : Visible(u)} /\ Self \in a.in
      /\ \A u \in People : a.nick[u] = nickOf[u] /\ a.acct[u] = account[u]
  BY <1>0, <1>1
<1>4. ViewOK(a) BY <1>0, <1>3 DEF ViewOK, NicksDiffer, Visible
<1>5. Path(<<a>>, <<>>) /\ <<a>>[1] = a /\ <<a>>[Len(<<a>>)] = a
  <2>1. <<a>> \in Seq(View) /\ Len(<<a>>) = 1 /\ <<a>>[1] = a BY <1>2
  <2>2. <<>> \in Seq(Said) /\ Len(<<>>) = 0 OBVIOUS
  <2>3. \A i : i \in 1..1 <=> i = 1 OBVIOUS
  <2>4. \A i : i \notin 1..0 OBVIOUS
  <2> QED BY <2>1, <2>2, <2>3, <2>4, <1>4 DEF Path
<1>6. PICK rows : rows = Sweep OBVIOUS
<1>7. /\ rows \in Seq(Said) /\ Silent(rows)
      /\ \A u : ~Joins(rows, u) /\ ~LastSaid(rows, Leaving, u)
      /\ \A u \in People : Visible(u) => LastSaid(rows, Telling, u)
      /\ \A i \in 1..Len(rows) : Turns(rows[i], a, a)
  BY <1>0, <1>2, <1>6, SweepSaid
<1>8. PICK V : Path(V, rows) /\ V[1] = a /\ V[Len(V)] = a
  <2>1. PICK U, p : U = <<a>> /\ p = <<>> OBVIOUS
  <2>2. Path(U, p) /\ U[1] = a /\ U[Len(U)] = a BY <2>1, <1>5
  <2>3. \E W : Path(W, p \o rows) /\ W[1] = U[1] /\ W[Len(W)] = U[Len(U)]
    BY <2>2, <1>7, PathStill
  <2>4. p \o rows = rows BY <2>1, <1>7, ConcatEmptySeq
  <2> QED BY <2>2, <2>3, <2>4
<1>9. \E W : /\ isAway' \in [People -> BOOLEAN]
             /\ wire' \in Seq(Said) /\ (selfEcho \/ Silent(wire'))
             /\ \A u : ~LastSaid(wire', Leaving, u)
             /\ \A u \in People : Visible(u) => LastSaid(wire', Telling, u)
             /\ Path(W, wire') /\ W[1] = a /\ ServerView(W[Len(W)])'
  <2>1. CASE status = "invisible"
    <3>1. wire' = rows /\ isAway' = isAway BY <2>1, <1>6 DEF Reconnect
    <3>2. ServerView(a)' BY <3>1, <1>0, <1>2 DEF ServerView, Visible
    <3>3. ServerView(V[Len(V)])' BY <3>2, <1>8
    <3> QED BY <3>1, <3>3, <1>0, <1>7, <1>8 DEF PresenceTypes
  <2>2. CASE status # "invisible"
    <3>1. PICK f \in BOOLEAN : f = (status # "online") OBVIOUS
    <3>2. PICK more : more = Answered(f) OBVIOUS
    <3>3. wire' = rows \o more /\ isAway' = [isAway EXCEPT ![Self] = f]
      BY <2>2, <3>1, <3>2, <1>6 DEF Reconnect
    <3>4. Self \in a.in /\ a.nick[Self] = nickOf[Self] /\ a.acct[Self] = account[Self] BY <1>0, <1>3
    <3>5. /\ more \in Seq(Said) /\ (selfEcho \/ Silent(more))
          /\ \A u : ~Joins(more, u) /\ ~LastSaid(more, Leaving, u)
          /\ \E W : Path(W, rows \o more) /\ W[1] = V[1] /\ W[Len(W)] = [a EXCEPT !.flag = f]
      BY <3>2, <3>4, <1>0, <1>8, AnswerPath
    <3>6. PICK W : Path(W, rows \o more) /\ W[1] = V[1] /\ W[Len(W)] = [a EXCEPT !.flag = f]
      BY <3>5
    <3>7. PICK b : b = [a EXCEPT !.flag = f] OBVIOUS
    <3>8. b.in = a.in /\ b.nick = a.nick /\ b.acct = a.acct /\ b.flag = f BY <3>7, <1>2 DEF View
    <3>9. isAway' \in [People -> BOOLEAN] /\ isAway'[Self] = f BY <3>1, <3>3, <1>0 DEF PresenceTypes
    <3>10. ServerView(b)'
      <4>1. a.in \subseteq People BY <1>3
      <4> QED BY <4>1, <3>8, <3>9, <1>0, <1>3 DEF ServerView, Visible
    <3>11. ServerView(W[Len(W)])' BY <3>6, <3>7, <3>10
    <3>12. rows \o more \in Seq(Said) BY <3>5, <1>7, ConcatProperties
    <3>13. \A u : ~LastSaid(rows \o more, Leaving, u) BY <3>5, <1>7, LastConcat
    <3>14. ASSUME NEW u \in People, Visible(u) PROVE LastSaid(rows \o more, Telling, u)
      BY <3>5, <3>14, <1>7, LastConcat
    <3>15. selfEcho \/ Silent(rows \o more) BY <3>5, <1>7, SilentConcat
    <3> QED BY <3>3, <3>6, <3>9, <3>11, <3>12, <3>13, <3>14, <3>15, <1>8
  <2> QED BY <2>1, <2>2
<1>10. PICK W : /\ isAway' \in [People -> BOOLEAN]
                /\ wire' \in Seq(Said) /\ (selfEcho \/ Silent(wire'))
                /\ \A u : ~LastSaid(wire', Leaving, u)
                /\ \A u \in People : Visible(u) => LastSaid(wire', Telling, u)
                /\ Path(W, wire') /\ W[1] = a /\ ServerView(W[Len(W)])'
  BY <1>9
<1>11. PresenceTypes' BY <1>0, <1>10 DEF PresenceTypes
<1>12. Visible(Self)' /\ NicksDiffer' BY <1>0 DEF Visible, NicksDiffer
<1>13. \A u \in People : StaysIn(u)' BY <1>10 DEF StaysIn
<1>14. PresenceFrame' BY <1>0, <1>10, <1>11, <1>12, <1>13 DEF PresenceFrame
<1>15. Told(a)' BY <1>0 DEF Told
<1>16. Facts(a)' BY <1>0 DEF Facts
<1>17. \A u \in People : MarkOf(a, u)' BY <1>0, <1>3, <1>10 DEF MarkOf, Visible
<1>18. Marks(a)' BY <1>17 DEF Marks
<1>19. Booked(W)' BY <1>10, <1>15, <1>16, <1>18 DEF Booked
<1> QED BY <1>14, <1>19 DEF PresenceInv

-----------------------------------------------------------------------------
(* Presence: the theorem *)

\* Everyone has a nick of their own, and nothing is marked.
LEMMA PresenceStart == PresenceInit => PresenceInv
<1> SUFFICES ASSUME PresenceInit PROVE PresenceInv OBVIOUS
<1>0. /\ whereIs \in [People -> {"in", "gone"}] /\ Visible(Self) /\ Self \in People
      /\ isAway = [u \in People |-> FALSE] /\ account = [u \in People |-> FALSE]
      /\ selfEcho \in BOOLEAN /\ online = TRUE /\ wire = << >> /\ away = {} /\ selfShown = "online"
      /\ unseen = {} /\ arrived = {} /\ blurred = FALSE
  BY DEF PresenceInit, People
<1>1. nickOf \in [People -> Handles] /\ \A u, v \in People : nickOf[u] = nickOf[v] => u = v
  <2>1. nickOf = CHOOSE f \in [People -> Handles] : \A u, v \in People : f[u] = f[v] => u = v
    BY DEF PresenceInit
  <2>2. \E f \in [People -> Handles] : \A u, v \in People : f[u] = f[v] => u = v BY PresenceAssumption
  <2> QED BY <2>1, <2>2
<1>2. PresenceTypes
  <2>1. wire \in Seq(Said) BY <1>0
  <2>2. whereIs \in [People -> {"in", "out", "gone"}] BY <1>0
  <2>3. isAway \in [People -> BOOLEAN] /\ account \in [People -> BOOLEAN] BY <1>0
  <2> QED BY <2>1, <2>2, <2>3, <1>0, <1>1 DEF PresenceTypes
<1>3. Silent(wire) /\ \A u, kinds : ~Joins(wire, u) /\ ~LastSaid(wire, kinds, u)
  BY <1>0 DEF Silent, Joins, LastSaid
<1>4. NicksDiffer BY <1>1 DEF NicksDiffer
<1>5. PresenceFrame BY <1>0, <1>2, <1>3, <1>4 DEF PresenceFrame, StaysIn
<1>6. PICK a : a = [nick |-> nickOf, in |-> {u \in People : Visible(u)}, acct |-> account,
                    flag |-> isAway[Self]]
  OBVIOUS
<1>7. a \in View /\ ServerView(a) BY <1>0, <1>2, <1>6 DEF View, ServerView, PresenceTypes
<1>8. /\ a.in = {u \in People : Visible(u)} /\ Self \in a.in /\ a.flag = FALSE
      /\ \A u \in People : a.nick[u] = nickOf[u] /\ a.acct[u] = account[u]
  BY <1>0, <1>6
<1>9. ViewOK(a) BY <1>1, <1>8 DEF ViewOK
<1>10. PICK V : V = <<a>> OBVIOUS
<1>11. V \in Seq(View) /\ Len(V) = 1 /\ V[1] = a BY <1>7, <1>10
<1>12. Path(V, wire)
  <2>1. wire \in Seq(Said) /\ Len(wire) = 0 BY <1>0
  <2>2. \A i : i \in 1..1 <=> i = 1 OBVIOUS
  <2>3. \A i : i \notin 1..0 OBVIOUS
  <2> QED BY <2>1, <2>2, <2>3, <1>9, <1>11 DEF Path
<1>13. Told(a) BY <1>0, <1>8 DEF Told
<1>14. Facts(a) BY <1>0 DEF Facts
<1>15. Marks(a) BY <1>0, <1>3, <1>8 DEF Marks, MarkOf
<1>16. Booked(V) BY <1>7, <1>11, <1>12, <1>13, <1>14, <1>15 DEF Booked
<1> QED BY <1>5, <1>16 DEF PresenceInv

\* Every step keeps it, and so does none.
LEMMA PresenceSteps == PresenceInv /\ [PresenceNext]_presenceVars => PresenceInv'
<1> SUFFICES ASSUME PresenceInv, [PresenceNext]_presenceVars PROVE PresenceInv' OBVIOUS
<1>1. CASE HandleAway BY <1>1, AwayHandled
<1>2. CASE HandleAwayNumeric BY <1>2, NumericHandled
<1>3. CASE HandleWho BY <1>3, WhoHandled
<1>4. CASE HandlePeerJoin BY <1>4, JoinHandled
<1>5. CASE HandleAccount BY <1>5, AccountHandled
<1>6. CASE HandleNick BY <1>6, NickHandled
<1>7. CASE HandleQuit \/ HandlePeerPart BY <1>7, LeaverHandled
<1>8. CASE PollAway BY <1>8, PollAwayStep
<1>9. CASE LinkLoss BY <1>9, LinkLossStep
<1>10. CASE Reconnect BY <1>10, ReconnectStep
<1>11. ASSUME NEW s, SetStatus(s) PROVE PresenceInv' BY <1>11, SetStatusStep
<1>12. ASSUME NEW u \in Folk, PeerAway(u) PROVE PresenceInv' BY <1>12, PeerAwayStep
<1>13. ASSUME NEW u \in Folk, PeerAccount(u) PROVE PresenceInv' BY <1>13, PeerAccountStep
<1>14. ASSUME NEW u \in Folk, PeerJoins(u) PROVE PresenceInv' BY <1>14, PeerJoinsStep
<1>15. ASSUME NEW u \in Folk, NEW quit \in BOOLEAN, PeerLeaves(u, quit) PROVE PresenceInv'
  BY <1>15, PeerLeavesStep
<1>16. ASSUME NEW u \in People, NEW n \in Handles, Rename(u, n) PROVE PresenceInv' BY <1>16, RenameStep
<1>17. CASE UNCHANGED presenceVars
  <2>1. /\ UNCHANGED <<nickOf, whereIs, isAway, account, wire, unseen>> /\ BooksKept
        /\ PresenceFrame /\ PresenceTypes
    BY <1>17 DEF presenceVars, BooksKept, PresenceInv, PresenceFrame
  <2>2. ServerKept
    BY <2>1 DEF ServerKept, PresenceTypes, PresenceFrame, Visible, NicksDiffer
  <2>3. ASSUME NEW a, ServerView(a) PROVE ServerView(a)' BY <2>1, <2>3 DEF ServerView, Visible
  <2>4. \A V : Booked(V) => ServerView(V[Len(V)])' BY <2>3 DEF Booked
  <2>5. \A v \in People : whereIs'[v] = "in" =>
            Visible(v) /\ (v \notin unseen' => v \notin unseen /\ isAway'[v] = isAway[v])
    BY <2>1 DEF Visible
  <2> QED BY <2>1, <2>2, <2>4, <2>5, NoLineAdded
<1> QED BY <1>1, <1>2, <1>3, <1>4, <1>5, <1>6, <1>7, <1>8, <1>9, <1>10, <1>11, <1>12, <1>13,
           <1>14, <1>15, <1>16, <1>17 DEF PresenceNext

\* Whatever order things happen in, once every line is handled the away marks
\* (conn.away) are right about everyone in the channel, the account facts
\* (conn.peers) about everyone seen to join, and the user's clients about the
\* user, the named cases apart (setAway, renameAway, renamePeer).
THEOREM PresenceStaysRight == PresenceSpec => []PresenceRight
<1>1. PresenceInit => PresenceInv BY PresenceStart
<1>2. PresenceInv /\ [PresenceNext]_presenceVars => PresenceInv' BY PresenceSteps
<1>3. PresenceInv => PresenceRight BY BooksAreRight
<1> QED BY <1>1, <1>2, <1>3, PTL DEF PresenceSpec

=============================================================================
