---------------------------- MODULE RecordProofs ----------------------------
(***************************************************************************)
(* Theorems about a message and what it carries with it (Uploads, Pins,    *)
(* ReadState, Reactions and, last, Snowflake), for any number of           *)
(* concurrent requests, any clock and any bounds.                          *)
(***************************************************************************)
EXTENDS Snowflake, Reactions, Pins, ReadState, Uploads, FiniteSetTheorems, TLAPS

-----------------------------------------------------------------------------
(* Uploads *)

Puts == [at : {"none", "read", "stored"}, slot : Nat, size : Nat, file : Nat]

\* Slots and files are numbered in order; a binding leads to stored bytes.
UploadTypes ==
  /\ lastSlot \in Nat /\ lastFile \in Nat
  /\ slots \in [DOMAIN slots -> 1 .. MaxUpload] /\ DOMAIN slots \subseteq 1 .. lastSlot
  /\ files \in [DOMAIN files -> Nat] /\ DOMAIN files \subseteq 1 .. lastFile
  /\ refs \in [DOMAIN refs -> DOMAIN files] /\ DOMAIN refs \subseteq 1 .. lastSlot
  /\ putting \in [Uploaders -> Puts]
  /\ posts \in Seq([file : Nat, size : Nat])

\* A request carries the size its slot declares for as long as the slot is
\* there, and what it is about to bind is stored and fits that size.
PutInv ==
  \A u \in Uploaders :
    /\ putting[u].at # "none" =>
         /\ putting[u].slot \in 1 .. lastSlot
         /\ putting[u].slot \in DOMAIN slots => slots[putting[u].slot] = putting[u].size
    /\ putting[u].at = "stored" =>
         /\ putting[u].file \in DOMAIN files
         /\ files[putting[u].file] <= putting[u].size

UploadInv == UploadTypes /\ PutInv /\ LinksServed

\* What does not change a slot's size, a file's bytes or a request keeps the rest.
LEMMA NextUpload == UploadInv /\ UploadNext => UploadInv'
<1> SUFFICES ASSUME UploadInv, UploadNext PROVE UploadInv'
  OBVIOUS
<1>0. UploadTypes /\ PutInv /\ LinksServed /\ MaxUpload \in Nat
  BY UploadAssumption DEF UploadInv
<1>a. NoPut \in Puts /\ NoPut.at = "none"
  BY DEF NoPut, Puts
<1>1. ASSUME NEW k \in 1 .. 2, NEW sizes \in [1 .. k -> Declared], handleCreateAttachments(sizes)
      PROVE  UploadInv'
  <2> DEFINE usable == {i \in 1 .. Len(sizes) : \A j \in 1 .. i : Valid(sizes[j])}
             new == {lastSlot + i : i \in usable}
  <2>1. Len(sizes) = k /\ sizes \in Seq(Declared)
    OBVIOUS
  <2>2. /\ lastSlot' = lastSlot + k /\ lastSlot' \in Nat /\ lastSlot' >= lastSlot
        /\ DOMAIN slots' = DOMAIN slots \cup new
        /\ \A s \in DOMAIN slots' : slots'[s] = IF s \in DOMAIN slots THEN slots[s]
                                              ELSE sizes[s - lastSlot]
        /\ slots' = [s \in DOMAIN slots' |-> slots'[s]]
        /\ UNCHANGED <<refs, files, putting, posts, lastFile, unstored>>
    BY <1>0, <1>1, <2>1 DEF handleCreateAttachments, UploadTypes
  <2>3. ASSUME NEW s \in new PROVE /\ s \in 1 .. lastSlot' /\ s \notin 1 .. lastSlot
                                   /\ sizes[s - lastSlot] \in 1 .. MaxUpload
    <3>1. PICK i \in usable : s = lastSlot + i
      OBVIOUS
    <3>2. i \in 1 .. k /\ Valid(sizes[i]) /\ s - lastSlot = i
      BY <1>0, <2>1, <3>1 DEF UploadTypes
    <3> QED BY <1>0, <2>2, <3>1, <3>2 DEF UploadTypes, Valid
  <2> HIDE DEF new
  <2>4. /\ slots' \in [DOMAIN slots' -> 1 .. MaxUpload] /\ DOMAIN slots' \subseteq 1 .. lastSlot'
    BY <1>0, <2>2, <2>3 DEF UploadTypes
  <2>5. DOMAIN refs' \subseteq 1 .. lastSlot'
    BY <1>0, <2>2 DEF UploadTypes
  <2>6. UploadTypes'
    BY <1>0, <2>2, <2>4, <2>5 DEF UploadTypes
  <2>7. PutInv'
    BY <1>0, <2>2, <2>3 DEF PutInv, UploadTypes
  <2>8. LinksServed'
    BY <1>0, <2>2, <2>3 DEF LinksServed, UploadTypes
  <2> QED BY <2>6, <2>7, <2>8 DEF UploadInv
<1>2. ASSUME NEW u \in Uploaders, NEW s \in DOMAIN slots, handleUpload(u, s)
      PROVE  UploadInv'
  <2> DEFINE row == [NoPut EXCEPT !.at = "read", !.slot = s, !.size = slots[s]]
  <2>1. /\ putting' = [putting EXCEPT ![u] = row]
        /\ UNCHANGED <<slots, refs, files, posts, lastSlot, lastFile, unstored>>
    BY <1>2 DEF handleUpload
  <2>2. s \in 1 .. lastSlot /\ slots[s] \in Nat
    BY <1>0 DEF UploadTypes
  <2>3. row \in Puts /\ row.at = "read" /\ row.slot = s /\ row.size = slots[s]
    <3>1. PICK size \in Nat : size = slots[s]
      BY <2>2
    <3>2. s \in Nat /\ row = [NoPut EXCEPT !.at = "read", !.slot = s, !.size = size]
      BY <1>0, <2>2, <3>1 DEF UploadTypes
    <3>3. row \in Puts
      BY <3>2 DEF NoPut, Puts
    <3>4. row.at = "read" /\ row.slot = s /\ row.size = size
      BY <3>2 DEF NoPut
    <3> QED BY <3>1, <3>3, <3>4
  <2> HIDE DEF row
  <2>4. UploadTypes'
    BY <1>0, <2>1, <2>3 DEF UploadTypes
  <2>5. PutInv'
    BY <1>0, <2>1, <2>2, <2>3 DEF PutInv, UploadTypes
  <2> QED BY <1>0, <2>1, <2>4, <2>5 DEF UploadInv, LinksServed
<1>3. ASSUME NEW u \in Uploaders, RefuseBody(u) PROVE UploadInv'
  <2>1. /\ putting' = [putting EXCEPT ![u] = NoPut]
        /\ UNCHANGED <<slots, refs, files, posts, lastSlot, lastFile, unstored>>
    BY <1>3 DEF RefuseBody
  <2> QED BY <1>0, <1>a, <2>1 DEF UploadInv, UploadTypes, PutInv, LinksServed
<1>4. ASSUME NEW u \in Uploaders, NEW n \in 0 .. MaxUpload, PutAttachment(u, n)
      PROVE  UploadInv'
  <2> DEFINE id == lastFile + 1
             row == [putting[u] EXCEPT !.at = "stored", !.file = id]
  <2>1. /\ putting[u].at = "read" /\ n <= putting[u].size
        /\ files' = Extend(files, id, n) /\ lastFile' = id
        /\ putting' = [putting EXCEPT ![u] = row]
        /\ UNCHANGED <<slots, refs, posts, lastSlot, unstored>>
    BY <1>4 DEF PutAttachment
  <2>2. id \in Nat /\ id \notin DOMAIN files /\ DOMAIN files \subseteq 1 .. id /\ n \in Nat
    BY <1>0 DEF UploadTypes
  <2>3. /\ row \in Puts /\ row.at = "stored" /\ row.slot = putting[u].slot
        /\ row.size = putting[u].size /\ row.file = id
    BY <1>0, <2>2 DEF UploadTypes, Puts
  <2>4. /\ files' \in [DOMAIN files' -> Nat] /\ DOMAIN files' = DOMAIN files \cup {id}
        /\ files'[id] = n /\ \A f \in DOMAIN files : files'[f] = files[f]
    BY <1>0, <2>1, <2>2 DEF UploadTypes, Extend
  <2> HIDE DEF row, id
  <2>5. UploadTypes'
    <3>1. refs' \in [DOMAIN refs' -> DOMAIN files'] /\ DOMAIN files' \subseteq 1 .. id
      BY <1>0, <2>1, <2>2, <2>4 DEF UploadTypes, id
    <3>2. putting' \in [Uploaders -> Puts]
      BY <1>0, <2>1, <2>3 DEF UploadTypes
    <3> QED BY <1>0, <2>1, <2>2, <2>4, <3>1, <3>2 DEF UploadTypes
  <2>6. PutInv'
    BY <1>0, <2>1, <2>2, <2>3, <2>4 DEF PutInv, UploadTypes
  <2>7. LinksServed'
    BY <1>0, <2>1, <2>4 DEF LinksServed, UploadTypes
  <2> QED BY <2>5, <2>6, <2>7 DEF UploadInv
<1>5. ASSUME NEW u \in Uploaders, BindUpload(u) PROVE UploadInv'
  <2> DEFINE s == putting[u].slot
             f == putting[u].file
  <2>1. /\ putting[u].at = "stored" /\ refs' = Extend(refs, s, f)
        /\ putting' = [putting EXCEPT ![u] = NoPut]
        /\ UNCHANGED <<slots, files, posts, lastSlot, lastFile, unstored>>
    BY <1>5 DEF BindUpload
  <2>2. /\ s \in 1 .. lastSlot /\ f \in DOMAIN files
        /\ s \in DOMAIN slots => files[f] <= slots[s]
    BY <1>0, <2>1 DEF PutInv
  <2> HIDE DEF s, f
  <2>3. /\ refs' \in [DOMAIN refs' -> DOMAIN files] /\ DOMAIN refs' = DOMAIN refs \cup {s}
        /\ refs'[s] = f /\ \A t \in DOMAIN refs \ {s} : refs'[t] = refs[t]
    BY <1>0, <2>1, <2>2 DEF UploadTypes, Extend
  <2>4. UploadTypes'
    BY <1>0, <1>a, <2>1, <2>2, <2>3 DEF UploadTypes
  <2>5. PutInv'
    BY <1>0, <1>a, <2>1 DEF PutInv, UploadTypes
  <2>6. LinksServed'
    BY <1>0, <2>1, <2>2, <2>3 DEF LinksServed
  <2> QED BY <2>4, <2>5, <2>6 DEF UploadInv
<1>6. ASSUME NEW s \in DOMAIN slots, SlotExpires(s) PROVE UploadInv'
  <2>1. /\ DOMAIN slots' = DOMAIN slots \ {s} /\ \A t \in DOMAIN slots' : slots'[t] = slots[t]
        /\ slots' = [t \in DOMAIN slots' |-> slots'[t]]
        /\ UNCHANGED <<refs, files, putting, posts, lastSlot, lastFile, unstored>>
    BY <1>6 DEF SlotExpires, Dropped
  <2>2. UploadTypes'
    BY <1>0, <2>1 DEF UploadTypes
  <2> QED BY <1>0, <2>1, <2>2 DEF UploadInv, PutInv, LinksServed
<1>7. ASSUME NEW s \in DOMAIN refs, resolveSendAttachments(s) PROVE UploadInv'
  <2> DEFINE shown == Shown(refs[s], files[refs[s]])
  <2>1. /\ posts' = Append(posts, shown) /\ refs[s] \in DOMAIN files
        /\ UNCHANGED <<slots, refs, files, putting, lastSlot, lastFile, unstored>>
    BY <1>7 DEF resolveSendAttachments
  <2>2. /\ shown \in [file : Nat, size : Nat] /\ shown.file = refs[s]
        /\ shown.size = files[refs[s]]
    BY <1>0, <2>1 DEF Shown, UploadTypes
  <2> HIDE DEF shown
  <2>3. /\ posts' \in Seq([file : Nat, size : Nat])
        /\ DOMAIN posts' = 1 .. Len(posts) + 1 /\ posts'[Len(posts) + 1] = shown
        /\ \A i \in DOMAIN posts : posts'[i] = posts[i]
        /\ DOMAIN posts = 1 .. Len(posts)
    BY <1>0, <2>1, <2>2 DEF UploadTypes
  <2>4. UploadTypes' /\ PutInv'
    BY <1>0, <2>1, <2>3 DEF UploadTypes, PutInv
  <2>5. LinksServed'
    BY <1>0, <2>1, <2>2, <2>3 DEF LinksServed
  <2> QED BY <2>4, <2>5 DEF UploadInv
<1>8. ASSUME NEW s \in DOMAIN refs, RefExpires(s) PROVE UploadInv'
  <2>1. /\ DOMAIN refs' = DOMAIN refs \ {s} /\ \A t \in DOMAIN refs' : refs'[t] = refs[t]
        /\ refs' = [t \in DOMAIN refs' |-> refs'[t]]
        /\ UNCHANGED <<slots, files, putting, posts, lastSlot, lastFile, unstored>>
    BY <1>8 DEF RefExpires, Dropped
  <2>2. UploadTypes'
    BY <1>0, <2>1 DEF UploadTypes
  <2> QED BY <1>0, <2>1, <2>2 DEF UploadInv, PutInv, LinksServed
<1>9. ASSUME NEW n \in 0 .. MaxUpload, NEW fails \in BOOLEAN, newStoredAttachment(n, fails)
      PROVE  UploadInv'
  <2> DEFINE id == lastFile + 1
             shown == Shown(id, n)
  <2>1. /\ lastFile' = id /\ posts' = Append(posts, shown)
        /\ IF fails THEN unstored' = unstored \cup {id} /\ files' = files
                    ELSE files' = Extend(files, id, n) /\ unstored' = unstored
        /\ UNCHANGED <<slots, refs, putting, lastSlot>>
    BY <1>9 DEF newStoredAttachment
  <2>2. /\ id \in Nat /\ id \notin DOMAIN files /\ DOMAIN files \subseteq 1 .. id /\ n \in Nat
        /\ id \in 1 .. id
    BY <1>0 DEF UploadTypes
  <2>3. shown \in [file : Nat, size : Nat] /\ shown.file = id /\ shown.size = n
    BY <2>2 DEF Shown
  <2> HIDE DEF shown, id
  <2>4. /\ posts' \in Seq([file : Nat, size : Nat])
        /\ DOMAIN posts' = 1 .. Len(posts) + 1 /\ posts'[Len(posts) + 1] = shown
        /\ \A i \in DOMAIN posts : posts'[i] = posts[i]
        /\ DOMAIN posts = 1 .. Len(posts)
    BY <1>0, <2>1, <2>3 DEF UploadTypes
  <2>5. /\ files' \in [DOMAIN files' -> Nat] /\ DOMAIN files \subseteq DOMAIN files'
        /\ DOMAIN files' \subseteq 1 .. id
        /\ \A f \in DOMAIN files : files'[f] = files[f]
        /\ unstored \subseteq unstored'
        /\ (id \in DOMAIN files' /\ files'[id] = n) \/ id \in unstored'
    BY <1>0, <2>1, <2>2 DEF UploadTypes, Extend
  <2>6. UploadTypes'
    BY <1>0, <2>1, <2>2, <2>4, <2>5 DEF UploadTypes
  <2>7. PutInv'
    BY <1>0, <2>1, <2>5 DEF PutInv
  <2>8. \A s \in DOMAIN refs' :
          refs'[s] \in DOMAIN files' /\ (s \in DOMAIN slots' => files'[refs'[s]] <= slots'[s])
    BY <1>0, <2>1, <2>5 DEF LinksServed
  <2>9. ASSUME NEW i \in DOMAIN posts'
        PROVE  \/ posts'[i].file \in DOMAIN files' /\ files'[posts'[i].file] = posts'[i].size
               \/ posts'[i].file \in unstored'
    <3>1. CASE i \in DOMAIN posts
      BY <1>0, <2>4, <2>5, <3>1 DEF LinksServed
    <3>2. CASE i = Len(posts) + 1
      BY <2>3, <2>4, <2>5, <3>2
    <3>3. Len(posts) \in Nat
      BY <1>0 DEF UploadTypes
    <3> QED BY <2>4, <3>1, <3>2, <3>3
  <2> QED BY <2>6, <2>7, <2>8, <2>9 DEF UploadInv, LinksServed
<1>10. CASE StopUploads
  BY <1>0, <1>a, <1>10 DEF StopUploads, UploadInv, UploadTypes, PutInv, LinksServed
<1> QED BY <1>1, <1>2, <1>3, <1>4, <1>5, <1>6, <1>7, <1>8, <1>9, <1>10 DEF UploadNext

\* Whatever a retry, an expiry or a stop does between the two transactions of an
\* upload, a slot that can be named is bound to bytes that fit it, and the link
\* of a message leads to the bytes it was sent with (BindAttachment,
\* resolveSendAttachments, newStoredAttachment).
THEOREM LinksStayServed == UploadSpec => []LinksServed
<1>1. UploadInit => UploadInv
  BY DEF UploadInit, NoUploads, NoPut, Puts, UploadInv, UploadTypes, PutInv, LinksServed
<1>2. UploadInv /\ [UploadNext]_uploadVars => UploadInv'
  <2>1. UploadInv /\ UNCHANGED uploadVars => UploadInv'
    BY DEF uploadVars, UploadInv, UploadTypes, PutInv, LinksServed
  <2> QED BY <2>1, NextUpload
<1>3. UploadInv => LinksServed
  BY DEF UploadInv
<1> QED BY <1>1, <1>2, <1>3, PTL DEF UploadSpec
-----------------------------------------------------------------------------
(* Pins *)

PinStages == {"free", "look", "put", "tell", "unpin"}

PinTypes ==
  /\ pinned \subseteq Rows /\ IsFiniteSet(pinned)
  /\ request \in [Pinners -> [pc : PinStages, id : Rows \cup {0}]]
  /\ \A r \in Pinners : request[r].pc # "free" <=> request[r].id # 0

\* The requests that tested the ceiling and may still write.
Admitted == {r \in Pinners : request[r].pc \in {"look", "put"}}

\* PinsBounded made inductive: a request was admitted when there was room for it.
RoomInv == Cardinality(pinned) + Cardinality(Admitted) < MaxPins + Cardinality(Pinners)

\* PinShown made inductive, per message: one request at a time, which has looked
\* at a pin the client shows, has stored it or has removed it.
PinnedInv(id) ==
  /\ ~Busy(id) => (id \in shownPins <=> id \in pinned)
  /\ \A r \in Pinners : request[r].id = id =>
       /\ \A q \in Pinners \ {r} : request[q].id # id
       /\ request[r].pc = "look" => (id \in shownPins <=> id \in pinned)
       /\ request[r].pc = "tell" => id \in pinned
       /\ request[r].pc = "unpin" => id \notin pinned

PinInv == PinTypes /\ RoomInv /\ \A id \in Rows \ crossed : PinnedInv(id)

\* The requests are finitely many, and so are the admitted ones.
LEMMA AdmittedFinite ==
    /\ IsFiniteSet(Admitted) /\ Cardinality(Admitted) \in Nat
    /\ Cardinality(Pinners) \in Nat
    /\ Cardinality(Admitted) <= Cardinality(Pinners)
BY PinsAssumption, FS_Subset, FS_CardinalityType DEF Admitted

\* Room is kept while pins and admitted requests only get fewer.
LEMMA RoomKept ==
    ASSUME PinTypes, RoomInv, pinned' \subseteq pinned, Admitted' \subseteq Admitted
    PROVE  RoomInv' /\ IsFiniteSet(pinned')
<1>1. Cardinality(Admitted') <= Cardinality(Admitted) /\ Cardinality(Admitted') \in Nat
  BY AdmittedFinite, FS_Subset, FS_CardinalityType
<1>2. /\ Cardinality(pinned') <= Cardinality(pinned) /\ Cardinality(pinned') \in Nat
      /\ Cardinality(pinned) \in Nat /\ IsFiniteSet(pinned')
  BY FS_Subset, FS_CardinalityType DEF PinTypes
<1> QED BY <1>1, <1>2, AdmittedFinite, PinsAssumption DEF RoomInv

\* A request that is taken up: what is known of it and of the others.
LEMMA TakenUp ==
    ASSUME PinTypes, NEW r \in Pinners, NEW pc \in PinStages \ {"free"}, NEW id \in Rows,
           TakeUp(r, pc, id)
    PROVE  /\ request' \in [Pinners -> [pc : PinStages, id : Rows \cup {0}]]
           /\ request'[r].pc = pc /\ request'[r].id = id
           /\ \A q \in Pinners \ {r} : request'[q] = request[q]
           /\ request[r].pc = "free" /\ request[r].id = 0
           /\ \A q \in Pinners : request'[q].pc # "free" <=> request'[q].id # 0
           /\ crossed \subseteq crossed'
           /\ id \in crossed' \/ \A q \in Pinners : request[q].id # id
<1>1. request' = [request EXCEPT ![r] = [pc |-> pc, id |-> id]] /\ request[r] = Free
  BY DEF TakeUp
<1>2. id # 0 /\ 0 \notin Rows
  BY DEF Rows
<1>3. crossed \subseteq crossed' /\ (id \in crossed' \/ \A q \in Pinners : request[q].id # id)
  BY DEF TakeUp, Busy
<1> QED BY <1>1, <1>2, <1>3 DEF PinTypes, Free

\* A request that takes its next step.
LEMMA Advanced ==
    ASSUME PinTypes, NEW r \in Pinners, NEW from \in PinStages \ {"free"},
           NEW to \in PinStages \ {"free"}, Advance(r, from, to)
    PROVE  /\ request' \in [Pinners -> [pc : PinStages, id : Rows \cup {0}]]
           /\ request'[r].pc = to /\ request'[r].id = request[r].id /\ request[r].pc = from
           /\ request[r].id \in Rows
           /\ \A q \in Pinners \ {r} : request'[q] = request[q]
           /\ \A q \in Pinners : request'[q].id = request[q].id
           /\ \A q \in Pinners : request'[q].pc # "free" <=> request'[q].id # 0
<1>1. request' = [request EXCEPT ![r].pc = to] /\ request[r].pc = from
  BY DEF Advance
<1> QED BY <1>1 DEF PinTypes

\* A request that ends.
LEMMA Finished ==
    ASSUME PinTypes, NEW r \in Pinners, NEW from \in PinStages \ {"free"}, Finish(r, from)
    PROVE  /\ request' \in [Pinners -> [pc : PinStages, id : Rows \cup {0}]]
           /\ request'[r].pc = "free" /\ request'[r].id = 0 /\ request[r].pc = from
           /\ request[r].id \in Rows
           /\ \A q \in Pinners \ {r} : request'[q] = request[q]
           /\ \A q \in Pinners : request'[q].pc # "free" <=> request'[q].id # 0
<1>1. request' = [request EXCEPT ![r] = Free] /\ request[r].pc = from
  BY DEF Finish
<1> QED BY <1>1 DEF PinTypes, Free, PinStages

\* Every step keeps the ceiling, and the pin of every message that two requests
\* or a preview did not cross.
LEMMA NextPin == PinInv /\ PinNext => PinInv'
<1> SUFFICES ASSUME PinInv, PinNext PROVE PinInv'
  OBVIOUS
<1>0. /\ PinTypes /\ RoomInv
      /\ \A id \in Rows \ crossed : PinnedInv(id)
      /\ 0 \notin Rows
  BY DEF PinInv, Rows
<1>1. ASSUME NEW r \in Pinners, NEW m \in Rows, PinMessage(r, m) PROVE PinInv'
  <2>1. /\ TakeUp(r, "look", m) /\ Cardinality(pinned) < MaxPins
        /\ UNCHANGED <<pinned, buffer, shownPins, nextRow>>
    BY <1>1 DEF PinMessage
  <2>2. /\ request' \in [Pinners -> [pc : PinStages, id : Rows \cup {0}]]
        /\ request'[r].pc = "look" /\ request'[r].id = m
        /\ \A q \in Pinners \ {r} : request'[q] = request[q]
        /\ request[r].pc = "free" /\ request[r].id = 0
        /\ \A q \in Pinners : request'[q].pc # "free" <=> request'[q].id # 0
        /\ crossed \subseteq crossed'
        /\ m \in crossed' \/ \A q \in Pinners : request[q].id # m
    BY <1>0, <2>1, TakenUp DEF PinStages
  <2>3. PinTypes'
    BY <1>0, <2>1, <2>2 DEF PinTypes
  <2>4. RoomInv'
    <3>1. /\ Cardinality(Admitted') \in Nat /\ Cardinality(Admitted') <= Cardinality(Pinners)
          /\ Cardinality(Pinners) \in Nat
      <4>1. Admitted' \subseteq Pinners
        BY DEF Admitted
      <4> QED BY <4>1, PinsAssumption, FS_Subset, FS_CardinalityType
    <3>2. Cardinality(pinned) \in Nat
      BY <1>0, FS_CardinalityType DEF PinTypes
    <3> QED BY <2>1, <3>1, <3>2, PinsAssumption DEF RoomInv
  <2>5. ASSUME NEW id \in Rows \ crossed' PROVE PinnedInv(id)'
    <3>1. PinnedInv(id)
      BY <1>0, <2>2
    <3> QED BY <1>0, <2>1, <2>2, <3>1 DEF PinnedInv, Busy
  <2> QED BY <2>3, <2>4, <2>5 DEF PinInv
<1>2. ASSUME NEW r \in Pinners, NEW m \in pinned, UnpinMessage(r, m) PROVE PinInv'
  <2>1. TakeUp(r, "unpin", m) /\ pinned' = pinned \ {m} /\ UNCHANGED shownPins /\ m \in Rows
    BY <1>0, <1>2 DEF UnpinMessage, PinTypes
  <2>2. /\ request' \in [Pinners -> [pc : PinStages, id : Rows \cup {0}]]
        /\ request'[r].pc = "unpin" /\ request'[r].id = m
        /\ \A q \in Pinners \ {r} : request'[q] = request[q]
        /\ request[r].pc = "free" /\ request[r].id = 0
        /\ \A q \in Pinners : request'[q].pc # "free" <=> request'[q].id # 0
        /\ crossed \subseteq crossed'
        /\ m \in crossed' \/ \A q \in Pinners : request[q].id # m
    BY <1>0, <2>1, TakenUp DEF PinStages
  <2>3. Admitted' \subseteq Admitted
    BY <2>2 DEF Admitted
  <2>4. RoomInv' /\ IsFiniteSet(pinned')
    BY <1>0, <2>1, <2>3, RoomKept
  <2>5. PinTypes'
    BY <1>0, <2>1, <2>2, <2>4 DEF PinTypes
  <2>6. ASSUME NEW id \in Rows \ crossed' PROVE PinnedInv(id)'
    <3>1. PinnedInv(id)
      BY <1>0, <2>2
    <3> QED BY <1>0, <2>1, <2>2, <3>1 DEF PinnedInv, Busy
  <2> QED BY <2>4, <2>5, <2>6 DEF PinInv
<1>3. ASSUME NEW r \in Pinners, PinLook(r), request[r].id \in pinned PROVE PinInv'
  <2>1. Finish(r, "look") /\ UNCHANGED <<pinned, shownPins, crossed>>
    BY <1>3 DEF PinLook
  <2>2. /\ request' \in [Pinners -> [pc : PinStages, id : Rows \cup {0}]]
        /\ request'[r].pc = "free" /\ request'[r].id = 0 /\ request[r].pc = "look"
        /\ request[r].id \in Rows
        /\ \A q \in Pinners \ {r} : request'[q] = request[q]
        /\ \A q \in Pinners : request'[q].pc # "free" <=> request'[q].id # 0
    BY <1>0, <2>1, Finished DEF PinStages
  <2>3. RoomInv' /\ PinTypes'
    <3>1. Admitted' \subseteq Admitted
      BY <2>2 DEF Admitted
    <3> QED BY <1>0, <2>1, <2>2, <3>1, RoomKept DEF PinTypes
  <2>4. ASSUME NEW id \in Rows \ crossed' PROVE PinnedInv(id)'
    <3>1. PinnedInv(id)
      BY <1>0, <2>1
    <3> QED BY <1>0, <2>1, <2>2, <3>1 DEF PinnedInv, Busy
  <2> QED BY <2>3, <2>4 DEF PinInv
<1>4. ASSUME NEW r \in Pinners, PinLook(r), request[r].id \notin pinned PROVE PinInv'
  <2>1. Advance(r, "look", "put") /\ UNCHANGED <<pinned, shownPins, crossed>>
    BY <1>4 DEF PinLook
  <2>2. /\ request' \in [Pinners -> [pc : PinStages, id : Rows \cup {0}]]
        /\ request'[r].pc = "put" /\ request'[r].id = request[r].id /\ request[r].pc = "look"
        /\ request[r].id \in Rows
        /\ \A q \in Pinners \ {r} : request'[q] = request[q]
        /\ \A q \in Pinners : request'[q].id = request[q].id
        /\ \A q \in Pinners : request'[q].pc # "free" <=> request'[q].id # 0
    BY <1>0, <2>1, Advanced DEF PinStages
  <2>3. RoomInv' /\ PinTypes'
    <3>1. Admitted' \subseteq Admitted
      BY <2>2 DEF Admitted
    <3> QED BY <1>0, <2>1, <2>2, <3>1, RoomKept DEF PinTypes
  <2>4. ASSUME NEW id \in Rows \ crossed' PROVE PinnedInv(id)'
    <3>1. PinnedInv(id)
      BY <1>0, <2>1
    <3> QED BY <1>0, <2>1, <2>2, <3>1 DEF PinnedInv, Busy
  <2> QED BY <2>3, <2>4 DEF PinInv
<1>5. ASSUME NEW r \in Pinners, PutPin(r) PROVE PinInv'
  <2> DEFINE m == request[r].id
  <2>1. Advance(r, "put", "tell") /\ pinned' = pinned \cup {m} /\ UNCHANGED <<shownPins, crossed>>
    BY <1>5 DEF PutPin
  <2>2. /\ request' \in [Pinners -> [pc : PinStages, id : Rows \cup {0}]]
        /\ request'[r].pc = "tell" /\ request'[r].id = m /\ request[r].pc = "put"
        /\ m \in Rows
        /\ \A q \in Pinners \ {r} : request'[q] = request[q]
        /\ \A q \in Pinners : request'[q].id = request[q].id
        /\ \A q \in Pinners : request'[q].pc # "free" <=> request'[q].id # 0
    BY <1>0, <2>1, Advanced DEF PinStages
  <2>3. RoomInv' /\ IsFiniteSet(pinned')
    <3>1. Admitted' = Admitted \ {r} /\ r \in Admitted
      BY <2>2 DEF Admitted
    <3>2. Cardinality(Admitted') = Cardinality(Admitted) - 1 /\ Cardinality(Admitted) \in Nat
      BY <3>1, AdmittedFinite, FS_RemoveElement
    <3>3. /\ IsFiniteSet(pinned') /\ Cardinality(pinned) \in Nat /\ Cardinality(pinned') \in Nat
          /\ Cardinality(pinned') <= Cardinality(pinned) + 1
      <4>1. IsFiniteSet(pinned) /\ Cardinality(pinned) \in Nat
        BY <1>0, FS_CardinalityType DEF PinTypes
      <4>2. /\ IsFiniteSet(pinned \cup {m})
            /\ Cardinality(pinned \cup {m}) =
                 IF m \in pinned THEN Cardinality(pinned) ELSE Cardinality(pinned) + 1
        BY <4>1, FS_AddElement
      <4> QED BY <2>1, <4>1, <4>2
    <3> QED BY <1>0, <3>2, <3>3, AdmittedFinite, PinsAssumption DEF RoomInv
  <2>4. PinTypes'
    BY <1>0, <2>1, <2>2, <2>3 DEF PinTypes
  <2>5. ASSUME NEW id \in Rows \ crossed' PROVE PinnedInv(id)'
    <3>1. PinnedInv(id)
      BY <1>0, <2>1
    <3> QED BY <1>0, <2>1, <2>2, <3>1 DEF PinnedInv, Busy
  <2> QED BY <2>3, <2>4, <2>5 DEF PinInv
<1>6. ASSUME NEW r \in Pinners, PinTell(r) PROVE PinInv'
  <2>1. /\ Finish(r, "tell") /\ UNCHANGED <<pinned, crossed>>
        /\ shownPins' = shownPins \cup {request[r].id}
    BY <1>6 DEF PinTell
  <2>2. /\ request' \in [Pinners -> [pc : PinStages, id : Rows \cup {0}]]
        /\ request'[r].pc = "free" /\ request'[r].id = 0 /\ request[r].pc = "tell"
        /\ request[r].id \in Rows
        /\ \A q \in Pinners \ {r} : request'[q] = request[q]
        /\ \A q \in Pinners : request'[q].pc # "free" <=> request'[q].id # 0
    BY <1>0, <2>1, Finished DEF PinStages
  <2>3. RoomInv' /\ PinTypes'
    <3>1. Admitted' \subseteq Admitted
      BY <2>2 DEF Admitted
    <3> QED BY <1>0, <2>1, <2>2, <3>1, RoomKept DEF PinTypes
  <2>4. ASSUME NEW id \in Rows \ crossed' PROVE PinnedInv(id)'
    <3>1. PinnedInv(id)
      BY <1>0, <2>1
    <3> QED BY <1>0, <2>1, <2>2, <3>1 DEF PinnedInv, Busy
  <2> QED BY <2>3, <2>4 DEF PinInv
<1>7. ASSUME NEW r \in Pinners, UnpinTell(r) PROVE PinInv'
  <2>1. /\ Finish(r, "unpin") /\ UNCHANGED <<pinned, crossed>>
        /\ shownPins' = shownPins \ {request[r].id}
    BY <1>7 DEF UnpinTell
  <2>2. /\ request' \in [Pinners -> [pc : PinStages, id : Rows \cup {0}]]
        /\ request'[r].pc = "free" /\ request'[r].id = 0 /\ request[r].pc = "unpin"
        /\ request[r].id \in Rows
        /\ \A q \in Pinners \ {r} : request'[q] = request[q]
        /\ \A q \in Pinners : request'[q].pc # "free" <=> request'[q].id # 0
    BY <1>0, <2>1, Finished DEF PinStages
  <2>3. RoomInv' /\ PinTypes'
    <3>1. Admitted' \subseteq Admitted
      BY <2>2 DEF Admitted
    <3> QED BY <1>0, <2>1, <2>2, <3>1, RoomKept DEF PinTypes
  <2>4. ASSUME NEW id \in Rows \ crossed' PROVE PinnedInv(id)'
    <3>1. PinnedInv(id)
      BY <1>0, <2>1
    <3> QED BY <1>0, <2>1, <2>2, <3>1 DEF PinnedInv, Busy
  <2> QED BY <2>3, <2>4 DEF PinInv
<1>8. ASSUME NEW m \in buffer, RowGone(m) PROVE PinInv'
  BY <1>0, <1>8 DEF RowGone, PinInv, PinTypes, RoomInv, Admitted, PinnedInv, Busy
<1>9. ASSUME NEW m \in buffer, PreviewUpdate(m) PROVE PinInv'
  <2>1. /\ shownPins' = shownPins \ {m} /\ UNCHANGED <<pinned, request>>
        /\ crossed' = IF m \in pinned \/ Busy(m) THEN crossed \cup {m} ELSE crossed
    BY <1>9 DEF PreviewUpdate
  <2>2. ASSUME NEW id \in Rows \ crossed' PROVE PinnedInv(id)'
    <3>1. PinnedInv(id)
      BY <1>0, <2>1
    <3> QED BY <2>1, <3>1 DEF PinnedInv, Busy
  <2> QED BY <1>0, <2>1, <2>2 DEF PinInv, PinTypes, RoomInv, Admitted
<1> QED BY <1>1, <1>2, <1>3, <1>4, <1>5, <1>6, <1>7, <1>8, <1>9 DEF PinNext

\* The ceiling is passed by less than the number of requests, and a pin is shown
\* exactly when it is stored, whatever the order of the transactions of requests
\* on different messages (handlePinMessage, SetChannelPin).
THEOREM PinsStaySound == PinSpec => []PinsSound
<1>1. PinInit => PinInv
  <2> SUFFICES ASSUME PinInit PROVE PinInv
    OBVIOUS
  <2>1. Admitted = {} /\ pinned = {}
    BY DEF PinInit, Free, Admitted
  <2>2. PinTypes
    BY <2>1, FS_EmptySet DEF PinInit, Free, PinTypes, PinStages
  <2>3. RoomInv
    BY <2>1, FS_EmptySet, AdmittedFinite, PinsAssumption DEF RoomInv
  <2> QED BY <2>2, <2>3 DEF PinInit, Free, PinInv, PinnedInv, Busy, Rows
<1>2. PinInv /\ [PinNext]_pinVars => PinInv'
  <2>1. PinInv /\ UNCHANGED pinVars => PinInv'
    BY DEF pinVars, PinInv, PinTypes, RoomInv, Admitted, PinnedInv, Busy
  <2> QED BY <2>1, NextPin
<1>3. PinInv => PinsSound
  <2> SUFFICES ASSUME PinInv PROVE PinsSound
    OBVIOUS
  <2>1. PinsBounded
    BY AdmittedFinite, FS_CardinalityType, PinsAssumption DEF PinInv, PinTypes, RoomInv, PinsBounded
  <2> QED BY <2>1 DEF PinInv, PinnedInv, PinShown, PinsSound
<1> QED BY <1>1, <1>2, <1>3, PTL DEF PinSpec
-----------------------------------------------------------------------------
(* ReadState *)

ReadRows == [last : Int, count : Nat]

ReadTypes ==
  /\ rs \in ReadRows /\ rs.last \in Nat /\ newest \in Nat /\ owed \in Nat
  /\ pending \in [Writers -> ReadRows]
  /\ \A p \in Writers : pending[p] # Nothing => pending[p].last \in Nat

\* A row that nobody overtook does not move the position back; an ack clears
\* the badge, a mention raises the badge it has read by one.
WriteInv ==
  /\ \A p \in Writers \ stale : pending[p] # Nothing => pending[p].last >= rs.last
  /\ \A p \in Ackers : pending[p].count = 0
  /\ pending[Relay] # Nothing /\ Relay \notin stale => pending[Relay].count = rs.count + 1

ReadInv == ReadTypes /\ WriteInv /\ BadgeExact

\* A row that is read and will be written.
LEMMA RowRead ==
    ASSUME ReadInv, NEW p \in Writers, NEW row \in ReadRows, GetReadState(p, row),
           row.last \in Nat, row.last >= rs.last, UNCHANGED newest,
           p \in Ackers => row.count = 0,
           p = Relay => row.count = rs.count + 1
    PROVE  ReadInv'
<1>1. /\ pending' = [pending EXCEPT ![p] = row] /\ stale' = stale \ {p}
      /\ UNCHANGED <<rs, owed, lost>>
  BY DEF GetReadState
<1>2. /\ pending'[p] = row /\ \A q \in Writers \ {p} : pending'[q] = pending[q]
      /\ pending' \in [Writers -> ReadRows]
  BY <1>1 DEF ReadInv, ReadTypes
<1>3. ReadTypes'
  BY <1>1, <1>2 DEF ReadInv, ReadTypes
<1>4. WriteInv'
  BY <1>1, <1>2, ReadAssumption DEF ReadInv, WriteInv, Writers
<1> QED BY <1>1, <1>3, <1>4 DEF ReadInv, BadgeExact

\* A row that is written: all others are overtaken.
LEMMA RowWritten ==
    ASSUME ReadInv, NEW p \in Writers, PutReadState(p), UNCHANGED newest, owed' \in Nat,
           p \in Ackers => owed' = 0,
           p = Relay => owed' = owed + 1
    PROVE  ReadInv'
<1>1. /\ rs' = pending[p] /\ pending[p] # Nothing
      /\ pending' = [pending EXCEPT ![p] = Nothing]
      /\ stale' = {q \in Writers \ {p} : pending[q] # Nothing}
      /\ lost' = (lost \/ p \in stale)
  BY DEF PutReadState
<1>2. Nothing \in ReadRows /\ Nothing.count = 0
  BY DEF Nothing, ReadRows
<1>3. /\ pending'[p] = Nothing /\ \A q \in Writers \ {p} : pending'[q] = pending[q]
      /\ pending' \in [Writers -> ReadRows]
  BY <1>1, <1>2 DEF ReadInv, ReadTypes
<1>4. ReadTypes'
  BY <1>1, <1>3 DEF ReadInv, ReadTypes
<1>5. WriteInv'
  BY <1>1, <1>2, <1>3, ReadAssumption DEF ReadInv, WriteInv, Writers
<1>6. BadgeExact'
  BY <1>1, ReadAssumption DEF ReadInv, WriteInv, Writers, BadgeExact
<1> QED BY <1>4, <1>5, <1>6 DEF ReadInv

\* Every step is a read or a write of the row, or the arrival of a message.
LEMMA NextRead == ReadInv /\ ReadNext => ReadInv'
<1> SUFFICES ASSUME ReadInv, ReadNext PROVE ReadInv'
  OBVIOUS
<1>0. ReadTypes /\ rs \in ReadRows /\ rs.last \in Nat /\ rs.count \in Nat /\ newest \in Nat
  BY DEF ReadInv, ReadTypes, ReadRows
<1>1. ASSUME NEW r \in Ackers, AckGuild(r) PROVE ReadInv'
  <2> DEFINE at == IF newest >= rs.last THEN newest ELSE rs.last
  <2>1. at \in Nat /\ at >= rs.last
    BY <1>0
  <2>2. [last |-> at, count |-> 0] \in ReadRows
    BY <2>1 DEF ReadRows
  <2>3. GetReadState(r, [last |-> at, count |-> 0]) /\ UNCHANGED newest
    BY <1>1 DEF AckGuild
  <2> HIDE DEF at
  <2> QED BY <2>1, <2>2, <2>3, RowRead, ReadAssumption DEF Writers
<1>2. ASSUME NEW r \in Ackers, AckPut(r) PROVE ReadInv'
  BY <1>2, RowWritten, ReadAssumption DEF AckPut, Writers
<1>3. ASSUME NEW r \in Ackers, NEW id \in 1 .. MaxMessage, MarkChannelRead(r, id) PROVE ReadInv'
  <2>1. id \in Nat /\ id >= rs.last
    BY <1>0, <1>3 DEF MarkChannelRead
  <2>2. [last |-> id, count |-> 0] \in ReadRows
    BY <2>1 DEF ReadRows
  <2> QED BY <1>3, <2>1, <2>2, RowRead, ReadAssumption DEF MarkChannelRead, Writers
<1>4. CASE MentionRead
  <2> DEFINE row == [rs EXCEPT !.count = @ + 1]
  <2>1. row \in ReadRows /\ row.last = rs.last /\ row.count = rs.count + 1
    BY <1>0 DEF ReadRows
  <2>2. GetReadState(Relay, row) /\ UNCHANGED newest
    BY <1>4 DEF MentionRead
  <2> HIDE DEF row
  <2> QED BY <1>0, <2>1, <2>2, RowRead, ReadAssumption DEF Writers
<1>5. CASE OnMentionRelayed
  <2>1. owed' = owed + 1 /\ owed \in Nat /\ PutReadState(Relay) /\ UNCHANGED newest
    BY <1>0, <1>5 DEF OnMentionRelayed, ReadTypes
  <2> QED BY <2>1, RowWritten, ReadAssumption DEF Writers
<1>6. CASE MessageArrives
  BY <1>0, <1>6 DEF MessageArrives, ReadInv, ReadTypes, WriteInv, BadgeExact
<1> QED BY <1>1, <1>2, <1>3, <1>4, <1>5, <1>6 DEF ReadNext

\* The position moves back only where a write was overtaken.
LEMMA ForwardStep ==
    ReadInv /\ [ReadNext]_readVars
      => [rs'.last >= rs.last \/ \E p \in stale : pending'[p] # pending[p]]_readVars
<1> SUFFICES ASSUME ReadInv, ReadNext
             PROVE  rs'.last >= rs.last \/ \E p \in stale : pending'[p] # pending[p]
  BY DEF readVars
<1>1. rs.last \in Nat
  BY DEF ReadInv, ReadTypes
<1>2. ASSUME NEW p \in Writers, PutReadState(p)
      PROVE  rs'.last >= rs.last \/ \E q \in stale : pending'[q] # pending[q]
  <2>1. /\ rs' = pending[p] /\ pending[p] # Nothing /\ pending'[p] = Nothing
    BY <1>2 DEF PutReadState, ReadInv, ReadTypes
  <2> QED BY <2>1 DEF ReadInv, WriteInv
<1>3. CASE UNCHANGED rs
  BY <1>1, <1>3
<1>4. UNCHANGED rs \/ \E p \in Writers : PutReadState(p)
  BY DEF ReadNext, AckGuild, AckPut, MarkChannelRead, MentionRead, OnMentionRelayed,
         MessageArrives, GetReadState, Writers
<1> QED BY <1>2, <1>3, <1>4

\* However acks and mentions race, the badge counts the mentions since the last
\* ack and the position never moves back, until a write has overtaken another's
\* read of the row (MarkChannelRead, AckGuild, OnMentionRelayed).
THEOREM ReadStateStaysRight == ReadSpec => ReadStateRight
<1>1. ReadInit => ReadInv
  <2> SUFFICES ASSUME ReadInit PROVE ReadInv
    OBVIOUS
  <2>1. \A p \in Writers : pending[p] = Nothing
    BY DEF ReadInit
  <2>2. Nothing \in ReadRows /\ Nothing.count = 0
    BY DEF Nothing, ReadRows
  <2>3. ReadTypes
    BY <2>1, <2>2 DEF ReadInit, ReadTypes, ReadRows
  <2> QED BY <2>1, <2>2, <2>3 DEF ReadInit, ReadInv, WriteInv, BadgeExact, Writers
<1>2. ReadInv /\ [ReadNext]_readVars => ReadInv'
  <2>1. ReadInv /\ UNCHANGED readVars => ReadInv'
    BY DEF readVars, ReadInv, ReadTypes, WriteInv, BadgeExact
  <2> QED BY <2>1, NextRead
<1>3. ReadInv => BadgeExact
  BY DEF ReadInv
<1> QED BY <1>1, <1>2, <1>3, ForwardStep, PTL DEF ReadSpec, ReadStateRight, ReadForward

-----------------------------------------------------------------------------
(* Reactions *)

RowRecords == [ch : {Channel}, mine : BOOLEAN, nonce : {None}, msgid : {None},
               reacts : SUBSET Marks, embeds : BOOLEAN]

ProcStages == {"idle", "append", "tracked", "persist"}

\* Only the event loop appends outside the transaction that numbers a message.
ReactTypes ==
  /\ lastId \in 0 .. MaxId /\ restarts \in Nat
  /\ rows \in [DOMAIN rows -> RowRecords] /\ DOMAIN rows \subseteq 1 .. lastId
  /\ react \in [Ids -> SUBSET Marks] /\ truth \in [Ids -> SUBSET Marks]
  /\ proc \in [Procs -> [pc : ProcStages, id : 0 .. lastId, snap : SUBSET Marks]]
  /\ \A p \in Procs : At(p, "append") => p = Loop
  /\ \A p \in Procs : proc[p].pc # "idle" => proc[p].id # 0

\* A deleted message was stored before, and the one about to be stored is new.
DeletedInv ==
  /\ NoResurrection
  /\ deleted \subseteq 1 .. lastId
  /\ At(Loop, "append") => proc[Loop].id \notin deleted \cup DOMAIN rows

\* Process p is between a change of the reactions of i and its persistence.
Tracking(p, i) == At(p, "tracked") /\ proc[p].id = i
Persisting(p, i) == At(p, "persist") /\ proc[p].id = i

\* ReactionsPersisted made inductive, for a message whose writes never
\* overlapped: one process persists it at a time, what it persists and what is
\* stored is what the users did unless someone has tracked a change since, and
\* a message that is not stored yet has no reaction that nobody will persist.
MarksInv(i) ==
  /\ \A p, q \in Procs : Persisting(p, i) /\ Persisting(q, i) => p = q
  /\ (\A p \in Procs : ~Tracking(p, i)) =>
       /\ \A p \in Procs : Persisting(p, i) => proc[p].snap = truth[i]
       /\ (\A p \in Procs : ~Persisting(p, i)) =>
            /\ i \in DOMAIN rows => rows[i].reacts = truth[i]
            /\ At(Loop, "append") /\ proc[Loop].id = i => truth[i] = {}

PersistInv ==
  restarts = 0 =>
    /\ react = truth
    /\ \A i \in Ids : i > lastId => truth[i] = {}
    /\ \A i \in Ids \ torn : MarksInv(i)

ReactInv == ReactTypes /\ DeletedInv /\ PersistInv

\* Appending keeps the rows that are not pushed out and adds the new one at most.
LEMMA Appended ==
    ASSUME NEW all, all \in [DOMAIN all -> RowRecords], NEW id, NEW row \in RowRecords
    PROVE  LET new == AppendMessage(all, id, row) IN
           /\ new \in [DOMAIN new -> RowRecords]
           /\ DOMAIN new \subseteq DOMAIN all \cup {id}
           /\ \A i \in DOMAIN new : new[i] = IF i = id THEN row ELSE all[i]
<1> DEFINE put == Put(all, id, row)
           over == Overflow(put, row.ch)
<1>1. /\ put \in [DOMAIN put -> RowRecords] /\ DOMAIN put = DOMAIN all \cup {id}
      /\ \A i \in DOMAIN put : put[i] = IF i = id THEN row ELSE all[i]
  BY DEF Put
<1>2. AppendMessage(all, id, row) = Without(put, over)
  BY DEF AppendMessage
<1> HIDE DEF put, over
<1> QED BY <1>1, <1>2 DEF Without

\* A new row, and what a row is after its reactions, its preview or its deletion.
LEMMA NewRow == \A mine \in BOOLEAN :
    /\ BufferedMessage(Channel, mine, None, None) \in RowRecords
    /\ BufferedMessage(Channel, mine, None, None).reacts = {}
BY DEF BufferedMessage, RowRecords

\* Writing the reactions of a row changes no other row.
LEMMA Marked ==
    ASSUME NEW all, all \in [DOMAIN all -> RowRecords], NEW id, NEW marks \in SUBSET Marks
    PROVE  LET new == UpdateMessageReactions(all, id, marks) IN
           /\ new \in [DOMAIN all -> RowRecords]
           /\ \A i \in DOMAIN all : new[i].reacts = IF i = id THEN marks ELSE all[i].reacts
<1>1. CASE id \in DOMAIN all
  <2> DEFINE row == [all[id] EXCEPT !.reacts = marks]
  <2>1. UpdateMessageReactions(all, id, marks) = [all EXCEPT ![id] = row]
    BY <1>1 DEF UpdateMessageReactions
  <2>2. row \in RowRecords /\ row.reacts = marks
    BY <1>1 DEF RowRecords
  <2> HIDE DEF row
  <2> QED BY <1>1, <2>1, <2>2
<1>2. CASE id \notin DOMAIN all
  BY <1>2 DEF UpdateMessageReactions
<1> QED BY <1>1, <1>2

\* Writing the preview of a row changes no reactions.
LEMMA Embedded ==
    ASSUME NEW all, all \in [DOMAIN all -> RowRecords], NEW id
    PROVE  LET new == SetMessageEmbeds(all, id) IN
           /\ new \in [DOMAIN all -> RowRecords]
           /\ \A i \in DOMAIN all : new[i].reacts = all[i].reacts
<1>1. CASE id \in DOMAIN all
  <2> DEFINE row == [all[id] EXCEPT !.embeds = TRUE]
  <2>1. SetMessageEmbeds(all, id) = [all EXCEPT ![id] = row]
    BY <1>1 DEF SetMessageEmbeds
  <2>2. row \in RowRecords /\ row.reacts = all[id].reacts
    BY <1>1 DEF RowRecords
  <2> HIDE DEF row
  <2> QED BY <1>1, <2>1, <2>2
<1>2. CASE id \notin DOMAIN all
  BY <1>2 DEF SetMessageEmbeds
<1> QED BY <1>1, <1>2

\* A process that moves on: what is known of it and of the others.
LEMMA Moved ==
    ASSUME ReactTypes, NEW p \in Procs,
           NEW state \in [pc : ProcStages, id : 0 .. lastId', snap : SUBSET Marks],
           state.pc # "idle" => state.id # 0,
           state.pc = "append" => p = Loop,
           lastId' \in Nat, lastId' >= lastId,
           proc' = [proc EXCEPT ![p] = state]
    PROVE  /\ proc' \in [Procs -> [pc : ProcStages, id : 0 .. lastId', snap : SUBSET Marks]]
           /\ proc'[p] = state
           /\ \A q \in Procs \ {p} : proc'[q] = proc[q]
           /\ \A q \in Procs : At(q, "append")' => q = Loop
           /\ \A q \in Procs : proc'[q].pc # "idle" => proc'[q].id # 0
<1>1. proc'[p] = state /\ \A q \in Procs \ {p} : proc'[q] = proc[q]
  BY DEF ReactTypes
<1>2. 0 .. lastId \subseteq 0 .. lastId'
  BY DEF ReactTypes
<1>3. ASSUME NEW q \in Procs
      PROVE  proc'[q] \in [pc : ProcStages, id : 0 .. lastId', snap : SUBSET Marks]
  BY <1>1, <1>2 DEF ReactTypes
<1>4. \A q \in Procs : At(q, "append")' => q = Loop
  BY <1>1 DEF ReactTypes, At
<1>5. \A q \in Procs : proc'[q].pc # "idle" => proc'[q].id # 0
  BY <1>1 DEF ReactTypes
<1> QED BY <1>1, <1>3, <1>4, <1>5 DEF ReactTypes

\* The same while no message is numbered.
LEMMA MovedOn ==
    ASSUME ReactTypes, NEW p \in Procs,
           NEW state \in [pc : ProcStages, id : 0 .. lastId, snap : SUBSET Marks],
           state.pc # "idle" => state.id # 0,
           state.pc # "append",
           lastId' = lastId,
           proc' = [proc EXCEPT ![p] = state]
    PROVE  /\ proc' \in [Procs -> [pc : ProcStages, id : 0 .. lastId', snap : SUBSET Marks]]
           /\ proc'[p] = state
           /\ \A q \in Procs \ {p} : proc'[q] = proc[q]
           /\ \A q \in Procs : At(q, "append")' => q = Loop
           /\ \A q \in Procs : proc'[q].pc # "idle" => proc'[q].id # 0
<1>1. lastId' \in Nat /\ lastId' >= lastId
  BY DEF ReactTypes
<1>2. state \in [pc : ProcStages, id : 0 .. lastId', snap : SUBSET Marks]
  OBVIOUS
<1> QED BY <1>1, <1>2, Moved

\* Every step keeps the types, never brings a deleted message back, and keeps
\* the reactions of the messages whose writes did not overlap.
LEMMA NextReact == ReactInv /\ ReactNext => ReactInv'
<1> SUFFICES ASSUME ReactInv, ReactNext PROVE ReactInv'
  OBVIOUS
<1> USE DEF messages, reactions
<1>0. /\ ReactTypes /\ DeletedInv /\ PersistInv /\ NoResurrection
      /\ lastId \in Nat /\ lastId <= MaxId /\ MaxId \in Nat
  BY ReactAssumption DEF ReactInv, ReactTypes, DeletedInv
<1>a. /\ Idle \in [pc : ProcStages, id : 0 .. lastId, snap : SUBSET Marks]
      /\ Idle.pc = "idle" /\ Loop \in Procs
  BY <1>0 DEF Idle, ProcStages, Procs
<1>1. ASSUME NEW p \in Procs, NEW id \in Ids, Delete(p, id) PROVE ReactInv'
  <2>1. /\ At(p, "idle") /\ id <= lastId /\ id \in 1 .. lastId
        /\ p # Loop => id \in DOMAIN rows
        /\ rows' = DeleteMessage(rows, id) /\ deleted' = deleted \cup {id}
        /\ UNCHANGED <<fetching, lastId, react, truth, torn, proc, restarts>>
    BY <1>0, <1>1 DEF Delete, Ids
  <2>2. /\ DOMAIN rows' = DOMAIN rows \ {id} /\ rows' \in [DOMAIN rows' -> RowRecords]
        /\ \A i \in DOMAIN rows' : rows'[i] = rows[i]
    BY <1>0, <2>1 DEF DeleteMessage, Without, ReactTypes
  <2>3. ReactTypes'
    BY <1>0, <2>1, <2>2 DEF ReactTypes, At
  <2>4. DeletedInv'
    BY <1>0, <2>1, <2>2 DEF DeletedInv, NoResurrection, At
  <2>5. PersistInv'
    BY <1>0, <2>1, <2>2 DEF PersistInv, MarksInv, Tracking, Persisting, At
  <2> QED BY <2>3, <2>4, <2>5 DEF ReactInv
<1>2. ASSUME NEW p \in Procs, NEW id \in Ids, NEW mark \in Marks, NEW remove \in BOOLEAN,
             React(p, id, mark, remove)
      PROVE  ReactInv'
  <2> DEFINE state == [Idle EXCEPT !.pc = "tracked", !.id = id]
             after(S) == IF remove THEN S \ {mark} ELSE S \cup {mark}
  <2>1. /\ At(p, "idle") /\ id \in 1 .. lastId
        /\ react' = [react EXCEPT ![id] = after(react[id])]
        /\ truth' = [truth EXCEPT ![id] = after(truth[id])]
        /\ proc' = [proc EXCEPT ![p] = state]
        /\ UNCHANGED <<rows, fetching, deleted, lastId, restarts, torn>>
    BY <1>0, <1>2 DEF React, trackReaction, Ids
  <2>2. /\ state \in [pc : ProcStages, id : 0 .. lastId, snap : SUBSET Marks]
        /\ state.pc = "tracked" /\ state.id = id /\ id # 0
    <3>1. id \in 0 .. lastId /\ lastId' = lastId /\ id # 0
      BY <2>1
    <3>2. state \in [pc : ProcStages, id : 0 .. lastId, snap : SUBSET Marks]
      BY <3>1 DEF Idle, ProcStages
    <3>3. state.pc = "tracked" /\ state.id = id
      BY DEF Idle
    <3> QED BY <3>1, <3>2, <3>3
  <2> HIDE DEF state
  <2>3. /\ proc' \in [Procs -> [pc : ProcStages, id : 0 .. lastId', snap : SUBSET Marks]]
        /\ proc'[p] = state
        /\ \A q \in Procs \ {p} : proc'[q] = proc[q]
        /\ \A q \in Procs : At(q, "append")' => q = Loop
        /\ \A q \in Procs : proc'[q].pc # "idle" => proc'[q].id # 0
    BY <1>0, <2>1, <2>2, MovedOn
  <2>4. /\ react' \in [Ids -> SUBSET Marks] /\ truth' \in [Ids -> SUBSET Marks]
        /\ \A i \in Ids \ {id} : truth'[i] = truth[i]
    BY <1>0, <2>1 DEF ReactTypes
  <2>5. ReactTypes'
    BY <1>0, <2>1, <2>3, <2>4 DEF ReactTypes
  <2>6. DeletedInv'
    BY <1>0, <1>a, <2>1, <2>2, <2>3 DEF DeletedInv, NoResurrection, At
  <2>7. ASSUME restarts' = 0 PROVE react' = truth'
    BY <1>0, <2>1, <2>7 DEF PersistInv
  <2>8. ASSUME restarts' = 0, NEW i \in Ids, i > lastId' PROVE truth'[i] = {}
    BY <1>0, <2>1, <2>4, <2>8 DEF PersistInv
  <2>9. ASSUME restarts' = 0, NEW i \in Ids \ torn' PROVE MarksInv(i)'
    <3>1. MarksInv(i)
      BY <1>0, <2>1, <2>9 DEF PersistInv
    <3>2. \A q \in Procs : Persisting(q, i)' <=> Persisting(q, i)
      BY <2>1, <2>2, <2>3 DEF Persisting, At
    <3>3. CASE i = id
      BY <2>2, <2>3, <3>1, <3>2, <3>3 DEF MarksInv, Tracking, At
    <3>4. CASE i # id
      <4>1. \A q \in Procs : Tracking(q, i)' <=> Tracking(q, i)
        BY <2>1, <2>2, <2>3, <3>4 DEF Tracking, At
      <4>2. \A q \in Procs : Persisting(q, i) => proc'[q].snap = proc[q].snap
        BY <2>1, <2>3 DEF Persisting, At
      <4>3. At(Loop, "append")' /\ proc'[Loop].id = i => At(Loop, "append") /\ proc[Loop].id = i
        BY <1>a, <2>2, <2>3 DEF At
      <4> QED BY <2>1, <2>4, <3>1, <3>2, <3>4, <4>1, <4>2, <4>3 DEF MarksInv
    <3> QED BY <3>3, <3>4
  <2> QED BY <2>5, <2>6, <2>7, <2>8, <2>9 DEF ReactInv, PersistInv
<1>3. ASSUME NEW p \in Procs, reactionSnapshot(p) PROVE ReactInv'
  <2> DEFINE id == proc[p].id
             state == [proc[p] EXCEPT !.pc = "persist", !.snap = react[id]]
  <2>1. /\ At(p, "tracked") /\ proc' = [proc EXCEPT ![p] = state]
        /\ torn' = IF \E q \in Procs : Persisting(q, id) THEN torn \cup {id} ELSE torn
        /\ UNCHANGED <<rows, fetching, deleted, lastId, react, truth, restarts>>
    BY <1>3 DEF reactionSnapshot, Persisting
  <2>2. /\ state \in [pc : ProcStages, id : 0 .. lastId, snap : SUBSET Marks]
        /\ state.pc = "persist" /\ state.id = id /\ id # 0 /\ state.snap = react[id]
        /\ id \in Ids
    <3>1. proc[p] \in [pc : ProcStages, id : 0 .. lastId, snap : SUBSET Marks] /\ id # 0
      BY <1>0, <2>1 DEF ReactTypes, At
    <3>2. id \in Ids
      BY <1>0, <3>1 DEF Ids
    <3>3. react[id] \in SUBSET Marks /\ lastId' = lastId
      BY <1>0, <2>1, <3>2 DEF ReactTypes
    <3> QED BY <3>1, <3>2, <3>3 DEF ProcStages
  <2> HIDE DEF state
  <2>3. /\ proc' \in [Procs -> [pc : ProcStages, id : 0 .. lastId', snap : SUBSET Marks]]
        /\ proc'[p] = state
        /\ \A q \in Procs \ {p} : proc'[q] = proc[q]
        /\ \A q \in Procs : At(q, "append")' => q = Loop
        /\ \A q \in Procs : proc'[q].pc # "idle" => proc'[q].id # 0
    BY <1>0, <2>1, <2>2, MovedOn
  <2>4. ReactTypes'
    BY <1>0, <2>1, <2>3 DEF ReactTypes
  <2>5. DeletedInv'
    BY <1>0, <1>a, <2>1, <2>2, <2>3 DEF DeletedInv, NoResurrection, At
  <2>6. ASSUME restarts' = 0, NEW i \in Ids \ torn' PROVE MarksInv(i)'
    <3>1. MarksInv(i) /\ react = truth
      BY <1>0, <2>1, <2>6 DEF PersistInv
    <3>2. \A q \in Procs \ {p} : /\ Persisting(q, i)' <=> Persisting(q, i)
                                 /\ Tracking(q, i)' <=> Tracking(q, i)
                                 /\ proc'[q].snap = proc[q].snap
      BY <2>3 DEF Persisting, Tracking, At
    <3>3. /\ ~Tracking(p, i)' /\ ~Persisting(p, i)
          /\ Tracking(p, i) <=> i = id
          /\ Persisting(p, i)' <=> i = id
      BY <2>1, <2>2, <2>3 DEF Persisting, Tracking, At
    <3>4. At(Loop, "append")' /\ proc'[Loop].id = i => At(Loop, "append") /\ proc[Loop].id = i
      BY <1>a, <2>2, <2>3 DEF At
    <3>5. CASE i = id
      <4>1. \A q \in Procs : ~Persisting(q, i)
        BY <2>1, <2>6, <3>5
      <4>2. \A q \in Procs : Persisting(q, i)' => q = p
        BY <3>2, <4>1
      <4>3. proc'[p].snap = truth'[i] /\ Persisting(p, i)'
        BY <2>1, <2>2, <2>3, <3>1, <3>3, <3>5
      <4> QED BY <4>2, <4>3 DEF MarksInv
    <3>6. CASE i # id
      <4>1. \A q \in Procs : /\ Persisting(q, i)' <=> Persisting(q, i)
                             /\ Tracking(q, i)' <=> Tracking(q, i)
                             /\ Persisting(q, i) => proc'[q].snap = proc[q].snap
        BY <3>2, <3>3, <3>6
      <4> QED BY <2>1, <3>1, <3>4, <4>1 DEF MarksInv
    <3> QED BY <3>5, <3>6
  <2> QED BY <1>0, <2>1, <2>4, <2>5, <2>6 DEF ReactInv, PersistInv
<1>4. ASSUME NEW p \in Procs, persistReactions(p) PROVE ReactInv'
  <2> DEFINE id == proc[p].id
             marks == proc[p].snap
  <2>1. /\ At(p, "persist") /\ rows' = UpdateMessageReactions(rows, id, marks)
        /\ torn' = IF id \in DOMAIN rows THEN torn ELSE torn \cup {id}
        /\ proc' = [proc EXCEPT ![p] = Idle]
        /\ UNCHANGED <<fetching, deleted, lastId, react, truth, restarts>>
    BY <1>4 DEF persistReactions, Done
  <2>2. /\ rows' \in [DOMAIN rows -> RowRecords]
        /\ \A i \in DOMAIN rows : rows'[i].reacts = IF i = id THEN marks ELSE rows[i].reacts
    <3>1. marks \in SUBSET Marks /\ rows \in [DOMAIN rows -> RowRecords]
      BY <1>0 DEF ReactTypes
    <3> HIDE DEF marks, id
    <3> QED BY <2>1, <3>1, Marked
  <2>3. /\ proc' \in [Procs -> [pc : ProcStages, id : 0 .. lastId', snap : SUBSET Marks]]
        /\ proc'[p] = Idle
        /\ \A q \in Procs \ {p} : proc'[q] = proc[q]
        /\ \A q \in Procs : At(q, "append")' => q = Loop
        /\ \A q \in Procs : proc'[q].pc # "idle" => proc'[q].id # 0
    BY <1>0, <1>a, <2>1, MovedOn
  <2>4. ReactTypes'
    BY <1>0, <2>1, <2>2, <2>3 DEF ReactTypes
  <2>5. DeletedInv'
    BY <1>0, <1>a, <2>1, <2>2, <2>3 DEF DeletedInv, NoResurrection, At
  <2>6. ASSUME restarts' = 0, NEW i \in Ids \ torn' PROVE MarksInv(i)'
    <3>1. MarksInv(i) /\ i \notin torn
      BY <1>0, <2>1, <2>6 DEF PersistInv
    <3>2. \A q \in Procs \ {p} : /\ Persisting(q, i)' <=> Persisting(q, i)
                                 /\ Tracking(q, i)' <=> Tracking(q, i)
                                 /\ proc'[q].snap = proc[q].snap
      BY <2>3 DEF Persisting, Tracking, At
    <3>3. /\ ~Tracking(p, i)' /\ ~Persisting(p, i)' /\ ~Tracking(p, i)
          /\ Persisting(p, i) <=> i = id
      BY <1>a, <2>1, <2>3 DEF Persisting, Tracking, At
    <3>4. At(Loop, "append")' /\ proc'[Loop].id = i => At(Loop, "append") /\ proc[Loop].id = i
      BY <1>a, <2>3 DEF At
    <3>5. CASE i = id
      <4>1. i \in DOMAIN rows
        BY <2>1, <2>6, <3>5
      <4>2. ~(At(Loop, "append") /\ proc[Loop].id = i)
        BY <1>0, <4>1 DEF DeletedInv
      <4>3. (\A q \in Procs : ~Tracking(q, i)) => marks = truth[i]
        BY <3>1, <3>3, <3>5 DEF MarksInv
      <4> QED BY <2>1, <2>2, <3>1, <3>2, <3>3, <3>4, <3>5, <4>1, <4>2, <4>3 DEF MarksInv
    <3>6. CASE i # id
      <4>1. \A q \in Procs : /\ Persisting(q, i)' <=> Persisting(q, i)
                             /\ Tracking(q, i)' <=> Tracking(q, i)
                             /\ Persisting(q, i) => proc'[q].snap = proc[q].snap
        BY <3>2, <3>3, <3>6
      <4> QED BY <2>1, <2>2, <3>1, <3>4, <3>6, <4>1 DEF MarksInv
    <3> QED BY <3>5, <3>6
  <2> QED BY <1>0, <2>1, <2>4, <2>5, <2>6 DEF ReactInv, PersistInv
<1>5. CASE RelayMessage
  <2> DEFINE id == lastId + 1
             state == [Idle EXCEPT !.pc = "append", !.id = id]
  <2>1. /\ At(Loop, "idle") /\ lastId < MaxId /\ lastId' = id
        /\ proc' = [proc EXCEPT ![Loop] = state]
        /\ UNCHANGED <<rows, fetching, deleted, react, truth, torn, restarts>>
    BY <1>5 DEF RelayMessage
  <2>2. id \in Nat /\ id > lastId /\ id \in Ids /\ id \notin DOMAIN rows \cup deleted
    BY <1>0, <2>1 DEF Ids, ReactTypes, DeletedInv
  <2>3. /\ state \in [pc : ProcStages, id : 0 .. lastId', snap : SUBSET Marks]
        /\ state.pc = "append" /\ state.id = id
    <3>1. id \in 0 .. lastId'
      BY <2>1, <2>2
    <3> HIDE DEF id
    <3>2. state \in [pc : ProcStages, id : 0 .. lastId', snap : SUBSET Marks]
      BY <3>1 DEF Idle, ProcStages
    <3>3. state.pc = "append" /\ state.id = id
      BY DEF Idle
    <3> QED BY <3>2, <3>3
  <2> HIDE DEF state
  <2>4. /\ proc' \in [Procs -> [pc : ProcStages, id : 0 .. lastId', snap : SUBSET Marks]]
        /\ proc'[Loop] = state
        /\ \A q \in Procs \ {Loop} : proc'[q] = proc[q]
        /\ \A q \in Procs : At(q, "append")' => q = Loop
        /\ \A q \in Procs : proc'[q].pc # "idle" => proc'[q].id # 0
    <3>1. lastId' \in Nat /\ lastId' >= lastId /\ state.id # 0
      BY <1>0, <2>1, <2>2, <2>3
    <3> QED BY <1>0, <1>a, <2>1, <2>3, <3>1, Moved
  <2>5. ReactTypes'
    <3>1. lastId' \in 0 .. MaxId /\ DOMAIN rows \subseteq 1 .. lastId'
      BY <1>0, <2>1, <2>2 DEF ReactTypes
    <3> QED BY <1>0, <2>1, <2>4, <3>1 DEF ReactTypes
  <2>6. DeletedInv'
    <3>1. deleted \subseteq 1 .. lastId'
      BY <1>0, <2>1, <2>2 DEF DeletedInv
    <3> QED BY <1>0, <2>1, <2>2, <2>3, <2>4, <3>1 DEF DeletedInv, NoResurrection, At
  <2>7. ASSUME restarts' = 0, NEW i \in Ids, i > lastId' PROVE truth'[i] = {}
    BY <1>0, <2>1, <2>2, <2>7 DEF PersistInv, Ids
  <2>8. ASSUME restarts' = 0, NEW i \in Ids \ torn' PROVE MarksInv(i)'
    <3>1. MarksInv(i) /\ (i = id => truth[i] = {})
      BY <1>0, <2>1, <2>2, <2>8 DEF PersistInv
    <3>2. \A q \in Procs : /\ Persisting(q, i)' <=> Persisting(q, i)
                           /\ Tracking(q, i)' <=> Tracking(q, i)
                           /\ Persisting(q, i) => proc'[q].snap = proc[q].snap
      BY <2>1, <2>3, <2>4 DEF Persisting, Tracking, At
    <3> QED BY <2>1, <2>3, <2>4, <3>1, <3>2 DEF MarksInv
  <2> QED BY <1>0, <2>1, <2>5, <2>6, <2>7, <2>8 DEF ReactInv, PersistInv
<1>6. ASSUME NEW link \in BOOLEAN, RelayAppend(link) PROVE ReactInv'
  <2> DEFINE id == proc[Loop].id
             row == BufferedMessage(Channel, FALSE, None, None)
  <2>1. /\ At(Loop, "append") /\ rows' = AppendMessage(rows, id, row)
        /\ proc' = [proc EXCEPT ![Loop] = Idle]
        /\ UNCHANGED <<deleted, lastId, react, truth, torn, restarts>>
    BY <1>6 DEF RelayAppend, Done
  <2>2. row \in RowRecords /\ row.reacts = {}
    BY NewRow
  <2>3. id \in 1 .. lastId /\ id \notin deleted /\ id \notin DOMAIN rows
    <3>1. id \in 0 .. lastId /\ id # 0
      BY <1>0, <1>a, <2>1 DEF ReactTypes, At, ProcStages
    <3> QED BY <1>0, <2>1, <3>1 DEF DeletedInv
  <2> HIDE DEF row, id
  <2>4. /\ rows' \in [DOMAIN rows' -> RowRecords] /\ DOMAIN rows' \subseteq DOMAIN rows \cup {id}
        /\ \A i \in DOMAIN rows' : rows'[i] = IF i = id THEN row ELSE rows[i]
    BY <1>0, <2>1, <2>2, Appended DEF ReactTypes
  <2>5. /\ proc' \in [Procs -> [pc : ProcStages, id : 0 .. lastId', snap : SUBSET Marks]]
        /\ proc'[Loop] = Idle
        /\ \A q \in Procs \ {Loop} : proc'[q] = proc[q]
        /\ \A q \in Procs : At(q, "append")' => q = Loop
        /\ \A q \in Procs : proc'[q].pc # "idle" => proc'[q].id # 0
    BY <1>0, <1>a, <2>1, MovedOn
  <2>6. ReactTypes'
    BY <1>0, <2>1, <2>3, <2>4, <2>5 DEF ReactTypes
  <2>7. DeletedInv'
    BY <1>0, <1>a, <2>1, <2>3, <2>4, <2>5 DEF DeletedInv, NoResurrection, At
  <2>8. ASSUME restarts' = 0, NEW i \in Ids \ torn' PROVE MarksInv(i)'
    <3>1. MarksInv(i)
      BY <1>0, <2>1, <2>8 DEF PersistInv
    <3>2. \A q \in Procs : /\ Persisting(q, i)' <=> Persisting(q, i)
                           /\ Tracking(q, i)' <=> Tracking(q, i)
                           /\ Persisting(q, i) => proc'[q].snap = proc[q].snap
      BY <1>a, <2>1, <2>5 DEF Persisting, Tracking, At
    <3>3. ~At(Loop, "append")'
      BY <1>a, <2>5 DEF At
    <3> QED BY <2>1, <2>2, <2>4, <3>1, <3>2, <3>3 DEF MarksInv, id
  <2> QED BY <1>0, <2>1, <2>6, <2>7, <2>8 DEF ReactInv, PersistInv
<1>7. ASSUME NEW r \in Reqs, NEW link \in BOOLEAN, OwnSend(r, link) PROVE ReactInv'
  <2> DEFINE id == lastId + 1
             row == BufferedMessage(Channel, TRUE, None, None)
  <2>1. /\ lastId < MaxId /\ lastId' = id /\ rows' = AppendMessage(rows, id, row)
        /\ UNCHANGED <<deleted, react, truth, torn, proc, restarts>>
    BY <1>7 DEF OwnSend
  <2>2. row \in RowRecords /\ row.reacts = {}
    BY NewRow
  <2>3. /\ id \in Nat /\ id > lastId /\ id \in Ids /\ id \notin DOMAIN rows \cup deleted
        /\ \A q \in Procs : proc[q].id # id
    BY <1>0, <2>1 DEF Ids, ReactTypes, DeletedInv
  <2> HIDE DEF row
  <2>4. /\ rows' \in [DOMAIN rows' -> RowRecords] /\ DOMAIN rows' \subseteq DOMAIN rows \cup {id}
        /\ \A i \in DOMAIN rows' : rows'[i] = IF i = id THEN row ELSE rows[i]
    BY <1>0, <2>1, <2>2, Appended DEF ReactTypes
  <2>5. ReactTypes'
    <3>1. /\ lastId' \in 0 .. MaxId /\ DOMAIN rows' \subseteq 1 .. lastId'
          /\ 0 .. lastId \subseteq 0 .. lastId'
      BY <1>0, <2>1, <2>3, <2>4 DEF ReactTypes
    <3>2. proc' \in [Procs -> [pc : ProcStages, id : 0 .. lastId', snap : SUBSET Marks]]
      BY <1>0, <2>1, <3>1 DEF ReactTypes
    <3> QED BY <1>0, <2>1, <2>4, <3>1, <3>2 DEF ReactTypes, At
  <2>6. DeletedInv'
    <3>1. deleted \subseteq 1 .. lastId'
      BY <1>0, <2>1, <2>3 DEF DeletedInv
    <3> QED BY <1>0, <1>a, <2>1, <2>3, <2>4, <3>1 DEF DeletedInv, NoResurrection, At
  <2>7. ASSUME restarts' = 0, NEW i \in Ids, i > lastId' PROVE truth'[i] = {}
    BY <1>0, <2>1, <2>3, <2>7 DEF PersistInv, Ids
  <2>8. ASSUME restarts' = 0, NEW i \in Ids \ torn' PROVE MarksInv(i)'
    <3>1. MarksInv(i) /\ (i = id => truth[i] = {})
      BY <1>0, <2>1, <2>3, <2>8 DEF PersistInv
    <3> QED BY <2>1, <2>2, <2>4, <3>1 DEF MarksInv, Persisting, Tracking, At
  <2> QED BY <1>0, <2>1, <2>5, <2>6, <2>7, <2>8 DEF ReactInv, PersistInv
<1>8. ASSUME NEW id \in Ids, SendLinkPreview(id) PROVE ReactInv'
  <2>1. /\ rows' = SetMessageEmbeds(rows, id)
        /\ UNCHANGED <<deleted, lastId, react, truth, torn, proc, restarts>>
    BY <1>8 DEF SendLinkPreview
  <2>2. /\ rows' \in [DOMAIN rows -> RowRecords]
        /\ \A i \in DOMAIN rows : rows'[i].reacts = rows[i].reacts
    BY <1>0, <2>1, Embedded DEF ReactTypes
  <2> QED BY <1>0, <2>1, <2>2 DEF ReactInv, ReactTypes, DeletedInv, NoResurrection,
                                 PersistInv, MarksInv, Persisting, Tracking, At
<1>9. CASE Restart
  <2>1. /\ restarts' = restarts + 1 /\ restarts \in Nat
        /\ react' = [i \in Ids |-> {}] /\ proc' = [p \in Procs |-> Idle]
        /\ UNCHANGED <<rows, deleted, lastId, truth, torn>>
    BY <1>0, <1>9 DEF Restart, ReactTypes
  <2>2. PersistInv'
    BY <2>1 DEF PersistInv
  <2>3. ReactTypes'
    BY <1>0, <1>a, <2>1 DEF ReactTypes, At
  <2>4. DeletedInv'
    BY <1>0, <1>a, <2>1 DEF DeletedInv, NoResurrection, At
  <2> QED BY <2>2, <2>3, <2>4 DEF ReactInv
<1> QED BY <1>1, <1>2, <1>3, <1>4, <1>5, <1>6, <1>7, <1>8, <1>9 DEF ReactNext

\* The invariant holds initially and is kept.
LEMMA ReactInvariant == ReactSpec => []ReactInv
<1>1. ReactInit => ReactInv
  <2> SUFFICES ASSUME ReactInit PROVE ReactInv
    OBVIOUS
  <2>1. rows \in [DOMAIN rows -> RowRecords] /\ DOMAIN rows = {}
    BY DEF ReactInit, Empty
  <2>2. \A p \in Procs : proc[p].pc = "idle" /\ proc[p].id = 0 /\ proc[p].snap = {}
    BY DEF ReactInit, Idle
  <2>3. ReactTypes
    <3>1. Idle \in [pc : ProcStages, id : 0 .. lastId, snap : SUBSET Marks]
      BY DEF ReactInit, Idle, ProcStages
    <3> QED BY <2>1, <2>2, <3>1, ReactAssumption DEF ReactInit, ReactTypes, At
  <2>4. DeletedInv
    BY <2>2 DEF ReactInit, DeletedInv, NoResurrection, At, Procs
  <2>5. PersistInv
    BY <2>1, <2>2 DEF ReactInit, PersistInv, MarksInv, Persisting, Tracking, At, Procs
  <2> QED BY <2>3, <2>4, <2>5 DEF ReactInv
<1>2. ReactInv /\ [ReactNext]_reactVars => ReactInv'
  <2>1. ReactInv /\ UNCHANGED reactVars => ReactInv'
    BY DEF reactVars, ReactInv, ReactTypes, DeletedInv, NoResurrection, PersistInv,
           MarksInv, Persisting, Tracking, At
  <2> QED BY <2>1, NextReact
<1> QED BY <1>1, <1>2, PTL DEF ReactSpec

\* However late a preview or a reaction is written, it never brings back a
\* message that was deleted or redacted (SetMessageEmbeds,
\* UpdateMessageReactions, DeleteMessage).
THEOREM DeletedStayDeleted == ReactSpec => []NoResurrection
<1>1. ReactInv => NoResurrection
  BY DEF ReactInv, DeletedInv
<1> QED BY <1>1, ReactInvariant, PTL

\* What is stored about a message is what the users did as soon as nobody is
\* writing it, unless writes of it overlapped, came before the row or the
\* process was restarted (trackReaction, persistReactions).
THEOREM ReactionsStayPersisted == ReactSpec => []ReactionsPersisted
<1>1. ReactInv => ReactionsPersisted
  <2> SUFFICES ASSUME ReactInv, NEW i \in DOMAIN rows \ torn, restarts = 0,
                      \A p \in Procs : At(p, "tracked") \/ At(p, "persist") => proc[p].id # i
               PROVE  rows[i].reacts = truth[i]
    BY DEF ReactionsPersisted
  <2>1. i \in Ids
    BY ReactAssumption DEF ReactInv, ReactTypes, Ids
  <2> QED BY <2>1 DEF ReactInv, PersistInv, MarksInv, Persisting, Tracking
<1> QED BY <1>1, ReactInvariant, PTL

-----------------------------------------------------------------------------
(* Ids: types *)

\* A clamped time is a millisecond.
LEMMA ClampType == \A t \in -1..MaxMs : Clamp(t) \in Ms
BY MaxMsAssumption DEF Clamp, Ms

\* An id taken from a counter that is not used up keeps the types.
LEMMA TakeTypes ==
    ASSUME TypeOK, NEW op \in {"NewAt", "NewBelow"}, NEW t \in -1..MaxMs,
           NEW ceil \in Id \cup {NoId}, NEW m \in Ms, ~UsedUp(m),
           NEW passed \in SUBSET Ms, Take(op, t, ceil, m, passed)
    PROVE  TypeOK'
<1>1. aux[m] + 1 \in 0..Top
  BY TopAssumption DEF TypeOK, UsedUp
<1>2. <<m, aux[m] + 1>> \in Id
  BY <1>1 DEF Id
<1>3. aux' \in [Ms -> 0..Top]
  BY <1>1, TopAssumption DEF Take, TypeOK
<1>4. minted' \in Mint
  BY <1>2, ClampType DEF Take, Mint
<1> QED BY <1>2, <1>3, <1>4 DEF Take, TypeOK

\* So does an id of Next, which moves to the next millisecond when the counter wraps.
LEMMA NextIdTypes ==
    ASSUME TypeOK, NEW now \in Ms, NextId(now)
    PROVE  TypeOK'
<1> DEFINE number == IF now <= lastMs THEN (seq + 1) % (Top + 1) ELSE 0
           ms     == IF now > lastMs THEN now
                     ELSE IF number = 0 THEN lastMs + 1 ELSE lastMs
<1>1. number \in 0..Top
  BY TopAssumption DEF TypeOK
<1>2. ms \in Ms
  BY DEF NextId
<1> HIDE DEF number, ms
<1>3. <<ms, number>> \in Id
  BY <1>1, <1>2 DEF Id
<1>4. /\ lastMs' = ms /\ seq' = number /\ nextIds' = nextIds \cup {<<ms, number>>}
      /\ minted' = [op |-> "Next", id |-> <<ms, number>>, at |-> now,
                    ceiling |-> NoId, again |-> <<ms, number>> \in nextIds]
      /\ UNCHANGED <<aux, oldIds, worn>>
  BY DEF NextId, number, ms
<1>5. minted' \in Mint
  BY <1>3, <1>4 DEF Mint
<1> QED BY <1>1, <1>2, <1>3, <1>4, <1>5 DEF TypeOK

\* Every call keeps the types.
LEMMA NextTypes == TypeOK /\ [Next]_vars => TypeOK'
<1> SUFFICES ASSUME TypeOK, [Next]_vars PROVE TypeOK'
  OBVIOUS
<1>1. ASSUME NEW now \in Ms, NextId(now) PROVE TypeOK'
  BY <1>1, NextIdTypes
<1>2. ASSUME NEW t \in -1..MaxMs, NewAt(t) PROVE TypeOK'
  <2>1. PICK m \in Ms : ~UsedUp(m) /\ Take("NewAt", t, NoId, m, Clamp(t)..(m - 1))
    BY <1>2 DEF NewAt
  <2>2. Clamp(t)..(m - 1) \in SUBSET Ms
    BY ClampType, MaxMsAssumption DEF Ms
  <2> QED BY <2>1, <2>2, TakeTypes
<1>3. ASSUME NEW t \in -1..MaxMs, NEW ceil \in nextIds \cup oldIds \cup {NoId},
             NewBelow(t, ceil)
      PROVE  TypeOK'
  <2> DEFINE walked(m) == {k \in (m + 1)..Clamp(t) : UsedUp(k)}
  <2>1. ceil \in Id \cup {NoId} /\ Clamp(t) \in Ms /\ 0..Clamp(t) \subseteq Ms
    BY SMTT(60), ClampType, MaxMsAssumption DEF TypeOK, Ms
  <2>2. CASE \E m \in 0..Clamp(t) : Fits(m, ceil) /\ Take("NewBelow", t, ceil, m, walked(m))
    <3>1. PICK m \in 0..Clamp(t) : Fits(m, ceil) /\ Take("NewBelow", t, ceil, m, walked(m))
      BY <2>2
    <3>2. walked(m) \in SUBSET Ms
      BY <2>1, MaxMsAssumption DEF Ms
    <3>3. ~UsedUp(m) /\ m \in Ms
      BY <2>1, <3>1 DEF Fits
    <3> HIDE DEF walked
    <3> QED BY <2>1, <3>1, <3>2, <3>3, TakeTypes
  <2>3. CASE /\ aux' = [k \in Ms |-> IF k \in walked(-1) THEN 0 ELSE aux[k]]
             /\ worn' = worn \cup walked(-1)
             /\ minted' = [op |-> "NewBelow", id |-> Zero, at |-> Clamp(t),
                           ceiling |-> ceil, again |-> FALSE]
             /\ UNCHANGED <<lastMs, seq, nextIds, oldIds>>
    <3>1. walked(-1) \in SUBSET Ms
      BY <2>1, MaxMsAssumption DEF Ms
    <3>2. Zero \in Id
      BY TopAssumption, MaxMsAssumption DEF Zero, Id, Ms
    <3>3. minted' \in Mint
      BY <2>1, <2>3, <3>2 DEF Mint
    <3>4. aux' \in [Ms -> 0..Top]
      BY <2>3, TopAssumption DEF TypeOK
    <3> HIDE DEF walked
    <3> QED BY <2>3, <3>1, <3>3, <3>4 DEF TypeOK
  <2> QED BY <1>3, <2>2, <2>3 DEF NewBelow
<1>4. CASE UNCHANGED vars
  BY <1>4 DEF vars, TypeOK
<1> QED BY <1>1, <1>2, <1>3, <1>4 DEF Next

\* Every reachable state of the generator is well typed: the counters of past
\* milliseconds stay within 0xFFF (id.go:67, 105).
THEOREM TypeCorrect == Spec => []TypeOK
<1>1. Init => TypeOK
  BY TopAssumption, MaxMsAssumption DEF Init, TypeOK, Ms, Mint, Id, Zero
<1> QED BY <1>1, NextTypes, PTL DEF Spec

-----------------------------------------------------------------------------
(* Next *)

\* Nothing Next returned sorts above its own state.
NextInv ==
    \A id \in nextIds : id = <<lastMs, seq>> \/ Before(id, <<lastMs, seq>>)

\* One call of Next moves strictly up.
LEMMA NextIdMovesUp ==
    ASSUME TypeOK, NextInv, NEW now \in Ms, NextId(now)
    PROVE  /\ NextInv'
           /\ \A old \in nextIds : Before(old, minted'.id)
<1> DEFINE number == IF now <= lastMs THEN (seq + 1) % (Top + 1) ELSE 0
           ms     == IF now > lastMs THEN now
                     ELSE IF number = 0 THEN lastMs + 1 ELSE lastMs
<1>1. /\ lastMs' = ms /\ seq' = number /\ nextIds' = nextIds \cup {<<ms, number>>}
      /\ minted'.id = <<ms, number>>
  BY DEF NextId
<1>2. lastMs \in Int /\ seq \in Int /\ now \in Int
  BY MaxMsAssumption, TopAssumption DEF TypeOK, Ms
<1>3. now <= lastMs => number = 0 \/ number = seq + 1
  BY TopAssumption DEF TypeOK
<1>4. ms \in Int /\ number \in Int
  BY <1>2, TopAssumption DEF TypeOK
<1>5. ms > lastMs \/ (ms = lastMs /\ number > seq)
  BY <1>2, <1>3
<1> HIDE DEF ms, number
<1>6. ASSUME NEW old \in nextIds PROVE Before(old, <<ms, number>>)
  <2>1. old[1] \in Int /\ old[2] \in Int
    BY MaxMsAssumption, TopAssumption DEF TypeOK, Id, Ms
  <2>2. old = <<lastMs, seq>> \/ Before(old, <<lastMs, seq>>)
    BY DEF NextInv
  <2> QED BY <1>2, <1>4, <1>5, <2>1, <2>2 DEF Before
<1> QED BY <1>1, <1>6 DEF NextInv

\* Every call keeps the last id of Next above the earlier ones.
LEMMA NextKeepsOrder == TypeOK /\ NextInv /\ [Next]_vars => NextInv'
<1> SUFFICES ASSUME TypeOK, NextInv, [Next]_vars PROVE NextInv'
  OBVIOUS
<1>1. ASSUME NEW now \in Ms, NextId(now) PROVE NextInv'
  BY <1>1, NextIdMovesUp
<1>2. CASE UNCHANGED <<lastMs, seq, nextIds>>
  BY <1>2 DEF NextInv
<1>3. ASSUME NEW t \in -1..MaxMs, NewAt(t) PROVE UNCHANGED <<lastMs, seq, nextIds>>
  BY <1>3 DEF NewAt, Take
<1>4. ASSUME NEW t \in -1..MaxMs, NEW ceil, NewBelow(t, ceil)
      PROVE  UNCHANGED <<lastMs, seq, nextIds>>
  BY <1>4 DEF NewBelow, Take
<1> QED BY <1>1, <1>2, <1>3, <1>4 DEF Next, vars

\* The last id of Next is above all earlier ones.
LEMMA NextInvariant == Spec => []NextInv
<1>1. Init => NextInv
  BY DEF Init, NextInv
<1> QED BY <1>1, NextKeepsOrder, TypeCorrect, PTL DEF Spec

\* What every call of NewBelow leaves behind.
LEMMA NewBelowResult ==
    ASSUME NEW t, NEW ceil, NewBelow(t, ceil)
    PROVE  minted'.op = "NewBelow" /\ minted'.ceiling = ceil /\ minted'.at = Clamp(t)
<1> DEFINE Result == minted'.op = "NewBelow" /\ minted'.ceiling = ceil
                         /\ minted'.at = Clamp(t)
<1>1. ASSUME NEW m, NEW passed, Take("NewBelow", t, ceil, m, passed) PROVE Result
  BY <1>1 DEF Take
<1>2. ASSUME minted' = [op |-> "NewBelow", id |-> Zero, at |-> Clamp(t),
                        ceiling |-> ceil, again |-> FALSE]
      PROVE  Result
  BY <1>2
<1> HIDE DEF Result
<1>3. Result
  BY <1>1, <1>2, Zenon DEF NewBelow
<1> QED BY <1>3 DEF Result

\* Next is strictly increasing, whatever the clock does and however the other
\* two operations are called in between (id.go:28-43).
THEOREM NextStrictlyIncreases == Spec => NextIncreases
<1>2. TypeOK /\ NextInv /\ [Next]_vars =>
          [minted'.op = "Next" => \A old \in nextIds : Before(old, minted'.id)]_vars
  <2> SUFFICES ASSUME TypeOK, NextInv, Next, minted'.op = "Next"
               PROVE  \A old \in nextIds : Before(old, minted'.id)
    OBVIOUS
  <2>1. ASSUME NEW t \in -1..MaxMs, NewAt(t) PROVE FALSE
    BY <2>1 DEF NewAt, Take
  <2>2. ASSUME NEW t \in -1..MaxMs, NEW ceil, NewBelow(t, ceil) PROVE FALSE
    <3>1. minted'.op = "NewBelow"
      BY <2>2, NewBelowResult
    <3> QED BY <3>1
  <2> QED BY <2>1, <2>2, NextIdMovesUp DEF Next
<1> QED BY <1>2, NextInvariant, TypeCorrect, PTL DEF Spec, NextIncreases

-----------------------------------------------------------------------------
(* NewAt and NewBelow *)

\* Ids handed out in a millisecond whose counter was never deleted lie within
\* the counter.
CountInv == \A id \in oldIds : id[1] \in worn \/ id[2] <= aux[id[1]]

\* A number taken was not handed out before, unless its counter was deleted.
LEMMA TakeCounts ==
    ASSUME TypeOK, CountInv, NEW op, NEW t, NEW ceil, NEW m \in Ms,
           NEW passed \in SUBSET Ms, Take(op, t, ceil, m, passed)
    PROVE  CountInv' /\ RepeatsOnlyWorn'
<1> DEFINE id == <<m, aux[m] + 1>>
<1>1. /\ aux' = [k \in Ms |-> IF k = m THEN aux[m] + 1
                              ELSE IF k \in passed THEN 0 ELSE aux[k]]
      /\ worn' = worn \cup passed /\ oldIds' = oldIds \cup {id}
      /\ minted'.id = id
  BY DEF Take
<1>2. aux[m] \in Int
  BY TopAssumption DEF TypeOK
<1>3. ASSUME NEW i \in oldIds PROVE i[1] \in worn' \/ i[2] <= aux'[i[1]]
  <2>1. i[1] \in Ms /\ i[2] \in Int /\ aux[i[1]] \in Int
    BY TopAssumption DEF TypeOK, Id
  <2>2. i[1] \in worn \/ i[2] <= aux[i[1]]
    BY DEF CountInv
  <2> QED BY <1>1, <1>2, <2>1, <2>2
<1>4. id[2] <= aux'[id[1]]
  BY <1>1, <1>2
<1>5. CountInv'
  BY <1>1, <1>3, <1>4 DEF CountInv
<1>6. id \in oldIds => m \in worn
  BY <1>2 DEF CountInv
<1>7. minted'.again => id \in oldIds
  BY DEF Take
<1> QED BY <1>1, <1>5, <1>6, <1>7 DEF RepeatsOnlyWorn

\* Every call keeps the ids of the past within their counters.
LEMMA NextCounts ==
    TypeOK /\ NextInv /\ CountInv /\ RepeatsOnlyWorn /\ [Next]_vars
        => CountInv' /\ RepeatsOnlyWorn'
<1> SUFFICES ASSUME TypeOK, NextInv, CountInv, RepeatsOnlyWorn, [Next]_vars
             PROVE  CountInv' /\ RepeatsOnlyWorn'
  OBVIOUS
<1>1. ASSUME NEW t \in -1..MaxMs, NewAt(t) PROVE CountInv' /\ RepeatsOnlyWorn'
  <2>1. PICK m \in Ms : Take("NewAt", t, NoId, m, Clamp(t)..(m - 1))
    BY <1>1 DEF NewAt
  <2>2. Clamp(t)..(m - 1) \in SUBSET Ms
    BY ClampType, MaxMsAssumption DEF Ms
  <2> QED BY <2>1, <2>2, TakeCounts
<1>2. ASSUME NEW t \in -1..MaxMs, NEW ceil, NewBelow(t, ceil)
      PROVE  CountInv' /\ RepeatsOnlyWorn'
  <2> DEFINE walked(m) == {k \in (m + 1)..Clamp(t) : UsedUp(k)}
  <2>1. Clamp(t) \in Ms /\ 0..Clamp(t) \subseteq Ms
    BY ClampType, MaxMsAssumption DEF Ms
  <2>2. ASSUME NEW m \in 0..Clamp(t), Take("NewBelow", t, ceil, m, walked(m))
        PROVE  CountInv' /\ RepeatsOnlyWorn'
    <3>1. walked(m) \in SUBSET Ms /\ m \in Ms
      BY <2>1, MaxMsAssumption DEF Ms
    <3> HIDE DEF walked
    <3> QED BY <2>2, <3>1, TakeCounts
  <2>3. CASE /\ aux' = [k \in Ms |-> IF k \in walked(-1) THEN 0 ELSE aux[k]]
             /\ worn' = worn \cup walked(-1)
             /\ minted' = [op |-> "NewBelow", id |-> Zero, at |-> Clamp(t),
                           ceiling |-> ceil, again |-> FALSE]
             /\ UNCHANGED <<lastMs, seq, nextIds, oldIds>>
    <3> HIDE DEF walked
    <3>1. ASSUME NEW i \in oldIds PROVE i[1] \in worn' \/ i[2] <= aux'[i[1]]
      BY <2>3 DEF CountInv, TypeOK, Id
    <3> QED BY <2>3, <3>1 DEF CountInv, RepeatsOnlyWorn
  <2> QED BY <1>2, <2>2, <2>3 DEF NewBelow
<1>3. ASSUME NEW now \in Ms, NextId(now) PROVE CountInv' /\ RepeatsOnlyWorn'
  <2>1. UNCHANGED <<aux, oldIds, worn>> /\ (minted'.again => minted'.id \in nextIds)
    BY <1>3 DEF NextId
  <2>2. minted'.id \notin nextIds
    <3>1. \A old \in nextIds : Before(old, minted'.id)
      BY <1>3, NextIdMovesUp
    <3>2. minted'.id \in nextIds => minted'.id[1] \in Int /\ minted'.id[2] \in Int
      BY MaxMsAssumption, TopAssumption DEF TypeOK, Id, Ms
    <3> QED BY <3>1, <3>2 DEF Before
  <2> QED BY <2>1, <2>2 DEF CountInv, RepeatsOnlyWorn
<1>4. CASE UNCHANGED vars
  BY <1>4 DEF vars, CountInv, RepeatsOnlyWorn
<1> QED BY <1>1, <1>2, <1>3, <1>4 DEF Next

\* No id is handed out twice within one process, neither by Next nor by the
\* other two, unless a millisecond had all its numbers used (id.go:58-121).
THEOREM NoEarlyRepeats == Spec => []RepeatsOnlyWorn
<1>1. Init => CountInv /\ RepeatsOnlyWorn
  BY DEF Init, CountInv, RepeatsOnlyWorn
<1> QED BY <1>1, NextCounts, NextInvariant, TypeCorrect, PTL DEF Spec

\* Every call of NewBelow leaves its result below the ceiling.
LEMMA NextBelow == TypeOK /\ BelowCeiling /\ [Next]_vars => BelowCeiling'
<1> SUFFICES ASSUME TypeOK, BelowCeiling, [Next]_vars PROVE BelowCeiling'
  OBVIOUS
<1>1. ASSUME NEW t \in -1..MaxMs, NEW ceil \in nextIds \cup oldIds \cup {NoId},
             NewBelow(t, ceil)
      PROVE  BelowCeiling'
  <2> DEFINE at == Clamp(t)
             walked(m) == {k \in (m + 1)..at : UsedUp(k)}
             Goal == /\ Before(minted'.id, ceil)
                     /\ \A m \in Ms : (minted'.id[1] < m /\ m < at /\ m < ceil[1])
                                         => m \in worn'
  <2>1. minted'.ceiling = ceil /\ minted'.at = at
    BY <1>1, NewBelowResult
  <2>2. SUFFICES ASSUME ceil # NoId, ceil # Zero PROVE Goal
    <3>1. at \in Int /\ (ceil # NoId => ceil[1] \in Int)
      BY ClampType, MaxMsAssumption DEF TypeOK, Id, Ms
    <3> HIDE DEF at
    <3> QED BY <2>1, <3>1 DEF BelowCeiling, Ms
  <2>3. at \in Ms /\ ceil[1] \in Nat /\ ceil[2] \in Nat /\ ceil = <<ceil[1], ceil[2]>>
    <3>1. ceil \in Ms \X (0..Top)
      BY <2>2 DEF TypeOK, Id
    <3> QED BY <3>1, ClampType, MaxMsAssumption, TopAssumption DEF Ms
  <2>4. \A m \in Ms : m < ceil[1] => Before(<<m, aux[m] + 1>>, ceil)
    BY <2>3 DEF Before
  <2>5. \A m \in Ms : (m < ceil[1] /\ ~Fits(m, ceil)) => UsedUp(m)
    BY <2>4 DEF Fits
  <2>6. ASSUME NEW m \in 0..at, Fits(m, ceil), \A k \in (m + 1)..at : ~Fits(k, ceil),
               Take("NewBelow", t, ceil, m, walked(m))
        PROVE  Goal
    <3>1. minted'.id = <<m, aux[m] + 1>> /\ walked(m) \subseteq worn'
      BY <2>6 DEF Take
    <3>2. Before(minted'.id, ceil)
      BY <2>2, <2>6, <3>1 DEF Fits
    <3>3. ASSUME NEW k \in Ms, m < k, k < at, k < ceil[1] PROVE k \in walked(m)
      <4>1. k \in (m + 1)..at
        BY <2>3, <3>3, MaxMsAssumption DEF Ms
      <4> QED BY <2>5, <2>6, <3>3, <4>1
    <3> QED BY <3>1, <3>2, <3>3
  <2>7. ASSUME \A k \in 0..at : ~Fits(k, ceil), worn' = worn \cup walked(-1),
               minted' = [op |-> "NewBelow", id |-> Zero, at |-> at,
                          ceiling |-> ceil, again |-> FALSE]
        PROVE  Goal
    <3>1. Before(Zero, ceil)
      BY <2>2, <2>3 DEF Before, Zero
    <3>2. ASSUME NEW k \in Ms, k < at, k < ceil[1] PROVE k \in walked(-1)
      <4>1. k \in 0..at /\ k \in (-1 + 1)..at
        BY <2>3, <3>2, MaxMsAssumption DEF Ms
      <4> QED BY <2>5, <2>7, <3>2, <4>1
    <3> QED BY <2>7, <3>1, <3>2
  <2> HIDE DEF Goal
  <2> QED BY <1>1, <2>6, <2>7, Zenon DEF NewBelow
<1>2. ASSUME NEW t \in -1..MaxMs, NewAt(t) PROVE BelowCeiling'
  <2>1. minted'.op = "NewAt"
    BY <1>2 DEF NewAt, Take
  <2> QED BY <2>1 DEF BelowCeiling
<1>3. ASSUME NEW now \in Ms, NextId(now) PROVE BelowCeiling'
  <2>1. minted'.op = "Next"
    BY <1>3 DEF NextId
  <2> QED BY <2>1 DEF BelowCeiling
<1>4. CASE UNCHANGED vars
  BY <1>4 DEF vars, BelowCeiling
<1> QED BY <1>1, <1>2, <1>3, <1>4 DEF Next

\* NewBelow keeps what it guarantees: strictly below the ceiling, and within a
\* millisecond of it where counters are left (id.go:78-85).
THEOREM AlwaysBelowCeiling == Spec => []BelowCeiling
<1>1. Init => BelowCeiling
  BY DEF Init, BelowCeiling
<1> QED BY <1>1, NextBelow, TypeCorrect, PTL DEF Spec

\* Whatever the clock does and however the calls mix, counters stay in range,
\* no number is given out twice before its counter was used up, and NewBelow
\* keeps its ceiling (id.go:28-105).
THEOREM IdsAlwaysSound == Spec => []IdsSound
<1>1. TypeOK /\ RepeatsOnlyWorn /\ BelowCeiling => IdsSound
  BY DEF IdsSound
<1> QED BY <1>1, TypeCorrect, NoEarlyRepeats, AlwaysBelowCeiling, PTL
=============================================================================
