------------------------------ MODULE Uploads -------------------------------
(***************************************************************************)
(* Files of messages (rest/attachments.go, storage/attachments.go): slots  *)
(* are minted, a client PUTs bytes to a slot, retries included, and a send *)
(* names the slot; or the bytes come with the send.  Bytes and binding are *)
(* written by two transactions, between which the process may stop.  The   *)
(* slot and its binding expire, files never do.  Bytes are represented by  *)
(* their number.                                                           *)
(***************************************************************************)
EXTENDS Naturals, Sequences

CONSTANTS
  Uploaders,       \* concurrent requests that bring bytes
  MaxUpload,       \* maxUploadBytes
  MaxSlots, MaxFiles, MaxPosts   \* bounds: slots, files and messages ever made

ASSUME UploadAssumption == MaxUpload \in Nat \ {0}

VARIABLES
  slots,           \* PendingUpload records: slot -> declared size
  refs,            \* AttachmentRef records: slot -> file
  files,           \* stored files: id -> bytes
  putting,         \* requests between two steps
  posts,           \* the files each message shows, with their sizes
  lastSlot, lastFile,
  unstored         \* history: files of a send that could not be stored

uploadVars == <<slots, refs, files, putting, posts, lastSlot, lastFile, unstored>>

NoPut == [at |-> "none", slot |-> 0, size |-> 0, file |-> 0]

NoUploads == [x \in {} |-> 0]

UploadInit ==
  /\ slots = NoUploads /\ refs = NoUploads /\ files = NoUploads
  /\ putting = [u \in Uploaders |-> NoPut]
  /\ posts = <<>> /\ lastSlot = 0 /\ lastFile = 0 /\ unstored = {}

Extend(f, k, v) == [x \in DOMAIN f \cup {k} |-> IF x = k THEN v ELSE f[x]]
Dropped(f, k) == [x \in DOMAIN f \ {k} |-> f[x]]

\* Declared sizes; both ends are refused.
Declared == 0 .. MaxUpload + 1
Valid(size) == size \in 1 .. MaxUpload

----------------------------------------------------------------------------
\* One or two files: the slots before a size out of range stay minted.
handleCreateAttachments(sizes) ==
  LET minted == {i \in 1 .. Len(sizes) : \A j \in 1 .. i : Valid(sizes[j])}
  IN  /\ lastSlot + Len(sizes) <= MaxSlots
      /\ lastSlot' = lastSlot + Len(sizes)
      /\ slots' = [s \in DOMAIN slots \cup {lastSlot + i : i \in minted} |->
                     IF s \in DOMAIN slots THEN slots[s] ELSE sizes[s - lastSlot]]
      /\ UNCHANGED <<refs, files, putting, posts, lastFile, unstored>>

\* GetUpload, then the body is read; the slot stays and may be used again.
handleUpload(u, s) ==
  /\ putting[u] = NoPut
  /\ s \in DOMAIN slots
  /\ putting' = [putting EXCEPT ![u] = [NoPut EXCEPT !.at = "read", !.slot = s,
                                                     !.size = slots[s]]]
  /\ UNCHANGED <<slots, refs, files, posts, lastSlot, lastFile, unstored>>

\* More bytes than were declared are refused.
RefuseBody(u) ==
  /\ putting[u].at = "read"
  /\ putting' = [putting EXCEPT ![u] = NoPut]
  /\ UNCHANGED <<slots, refs, files, posts, lastSlot, lastFile, unstored>>

\* Mutant: the slot is bound first, the bytes follow.
PutAttachmentLater(u, n) ==
  LET id == lastFile + 1
  IN  /\ putting[u].at = "read" /\ n <= putting[u].size /\ lastFile < MaxFiles
      /\ files' = files /\ lastFile' = id
      /\ refs' = Extend(refs, putting[u].slot, id)
      /\ putting' = [putting EXCEPT ![u] = [@ EXCEPT !.at = "stored", !.file = id]]
      /\ UNCHANGED <<slots, posts, lastSlot, unstored>>

\* BindAttachment: a fresh id, metadata and bytes in one transaction ...
PutAttachment(u, n) ==
  LET id == lastFile + 1
  IN  /\ putting[u].at = "read" /\ n <= putting[u].size /\ lastFile < MaxFiles
      /\ files' = Extend(files, id, n) /\ lastFile' = id
      /\ putting' = [putting EXCEPT ![u] = [@ EXCEPT !.at = "stored", !.file = id]]
      /\ UNCHANGED <<slots, refs, posts, lastSlot, unstored>>

\* ... the binding in another.
BindUpload(u) ==
  /\ putting[u].at = "stored"
  /\ refs' = Extend(refs, putting[u].slot, putting[u].file)
  /\ putting' = [putting EXCEPT ![u] = NoPut]
  /\ UNCHANGED <<slots, files, posts, lastSlot, lastFile, unstored>>

Shown(id, size) == [file |-> id, size |-> size]

\* A send that names a slot: without a binding it is refused.
resolveSendAttachments(s) ==
  /\ s \in DOMAIN refs /\ Len(posts) < MaxPosts
  /\ refs[s] \in DOMAIN files
  /\ posts' = Append(posts, Shown(refs[s], files[refs[s]]))
  /\ UNCHANGED <<slots, refs, files, putting, lastSlot, lastFile, unstored>>

\* The bytes come with the send; a store error is only logged.
newStoredAttachment(n, fails) ==
  LET id == lastFile + 1
  IN  /\ n \in 0 .. MaxUpload
      /\ Len(posts) < MaxPosts /\ lastFile < MaxFiles
      /\ lastFile' = id /\ posts' = Append(posts, Shown(id, n))
      /\ IF fails THEN unstored' = unstored \cup {id} /\ UNCHANGED files
                  ELSE files' = Extend(files, id, n) /\ UNCHANGED unstored
      /\ UNCHANGED <<slots, refs, putting, lastSlot>>

SlotExpires(s) ==
  /\ slots' = Dropped(slots, s)
  /\ UNCHANGED <<refs, files, putting, posts, lastSlot, lastFile, unstored>>

RefExpires(s) ==
  /\ refs' = Dropped(refs, s)
  /\ UNCHANGED <<slots, files, putting, posts, lastSlot, lastFile, unstored>>

StopUploads ==
  /\ putting' = [u \in Uploaders |-> NoPut]
  /\ UNCHANGED <<slots, refs, files, posts, lastSlot, lastFile, unstored>>

UploadNext ==
  \/ \E sizes \in UNION {[1 .. k -> Declared] : k \in 1 .. 2} : handleCreateAttachments(sizes)
  \/ \E u \in Uploaders :
       \/ \E s \in DOMAIN slots : handleUpload(u, s)
       \/ RefuseBody(u) \/ BindUpload(u)
       \/ \E n \in 0 .. MaxUpload : PutAttachment(u, n)
  \/ \E s \in DOMAIN slots : SlotExpires(s)
  \/ \E s \in DOMAIN refs : resolveSendAttachments(s) \/ RefExpires(s)
  \/ \E n \in 0 .. MaxUpload, fails \in BOOLEAN : newStoredAttachment(n, fails)
  \/ StopUploads

UploadSpec == UploadInit /\ [][UploadNext]_uploadVars

----------------------------------------------------------------------------
(* Properties.                                                             *)

\* Whatever a retry, an expiry or a stop of the process does between the two
\* transactions of BindAttachment, a slot that a send can name is bound to
\* bytes that are there and fit what the slot declared, and the link of every
\* message is served with the bytes it was sent with, which clients keep for a
\* year as immutable (handleGetAttachment); only a send that brought its bytes
\* itself may lack them.
LinksServed ==
  /\ \A s \in DOMAIN refs :
       refs[s] \in DOMAIN files /\ (s \in DOMAIN slots => files[refs[s]] <= slots[s])
  /\ \A i \in DOMAIN posts :
       \/ posts[i].file \in DOMAIN files /\ files[posts[i].file] = posts[i].size
       \/ posts[i].file \in unstored

=============================================================================
