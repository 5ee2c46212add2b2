------------------------------ MODULE Avatars -------------------------------
(***************************************************************************)
(* The user's own avatar on several networks: the account-wide one, the    *)
(* per-guild overrides, the METADATA SETs that publish them upstream and   *)
(* the verdicts that come back, which may be refusals (core/network        *)
(* avatars.go, ircmanage/metadata.go).  A hash stands for the image and    *)
(* for its public address.                                                 *)
(***************************************************************************)
EXTENDS Integers, Sequences

CONSTANTS
  Guilds,          \* networks whose server has the metadata capability
  Images,          \* hashes of images
  Bare,            \* the empty hash: no avatar
  MaxUploads       \* bound: avatar changes and link losses

VARIABLES
  userAvatar,      \* User.Avatar
  override,        \* Membership.Avatar
  refused,         \* Membership.AvatarRejected
  pendingSet,      \* conn.avatarSet*: armed, the hash before, account-wide or not
  sets, verdicts,  \* SETs under way to the server, its answers under way back
  published,       \* the server: what everybody else sees
  rowShown,        \* the avatar of the last GUILD_MEMBER_UPDATE of the guild
  upload,          \* the request in progress
  spoilt,          \* history: guilds where SETs crossed or were lost, or where an
                   \* override stood against a change
  hushed,          \* history: guilds told before their refusal was forgotten
  uploads

avatarVars == <<userAvatar, override, refused, pendingSet, sets, verdicts, published,
                rowShown, upload, spoilt, hushed, uploads>>

NoUpload == [at |-> "idle", guild |-> "", hash |-> Bare, prev |-> Bare]
Unarmed == [armed |-> FALSE, prev |-> Bare, global |-> FALSE]

AvatarInit ==
  /\ userAvatar = Bare /\ override = [g \in Guilds |-> Bare] /\ refused = [g \in Guilds |-> FALSE]
  /\ pendingSet = [g \in Guilds |-> Unarmed]
  /\ sets = [g \in Guilds |-> << >>] /\ verdicts = [g \in Guilds |-> << >>]
  /\ published = [g \in Guilds |-> Bare] /\ rowShown = [g \in Guilds |-> Bare]
  /\ upload = NoUpload /\ spoilt = {} /\ hushed = {} /\ uploads = 0

MemberAvatarFor(acc, over, ref) == IF over # Bare THEN over ELSE IF ref THEN Bare ELSE acc

MemberPayload(g) == MemberAvatarFor(userAvatar, override[g], refused[g])

\* No SET of the guild is without its verdict.
SetsAnswered(g) == sets[g] = << >> /\ verdicts[g] = << >>

----------------------------------------------------------------------------
\* SetGlobalAvatar: the account's hash is stored ...
SetUserAvatar(h) ==
  /\ upload.at = "idle" /\ h # userAvatar /\ uploads < MaxUploads /\ uploads' = uploads + 1
  /\ userAvatar' = h /\ upload' = [NoUpload EXCEPT !.at = "tell", !.hash = h, !.prev = userAvatar]
  /\ UNCHANGED <<override, refused, pendingSet, sets, verdicts, published, rowShown, spoilt, hushed>>

\* ... every guild's member row is dispatched ...
TellGuilds ==
  /\ upload.at = "tell" /\ upload' = [upload EXCEPT !.at = "reset"]
  /\ rowShown' = [g \in Guilds |-> MemberPayload(g)]
  /\ UNCHANGED <<userAvatar, override, refused, pendingSet, sets, verdicts, published, spoilt, hushed, uploads>>

\* ... old refusals are forgotten ...
ForgetRefusals ==
  /\ upload.at = "reset" /\ upload' = [upload EXCEPT !.at = "fan"]
  /\ refused' = [g \in Guilds |-> FALSE] /\ hushed' = hushed \cup {g \in Guilds : refused[g]}
  /\ UNCHANGED <<userAvatar, override, pendingSet, sets, verdicts, published, rowShown, spoilt, uploads>>

\* sendMetadataSet arms the rollback and sends the new address.
sendMetadataSet(S, global) ==
  /\ pendingSet' = [g \in Guilds |-> IF g \in S
       THEN [armed |-> TRUE, prev |-> upload.prev, global |-> global] ELSE pendingSet[g]]
  /\ sets' = [g \in Guilds |-> IF g \in S THEN Append(sets[g], upload.hash) ELSE sets[g]]

\* ... and SetAvatarAll sends the SET to every network, overrides or not.
SetAvatarAll ==
  /\ upload.at = "fan" /\ upload' = NoUpload
  /\ sendMetadataSet(Guilds, TRUE)
  /\ spoilt' = spoilt \cup {g \in Guilds : override[g] # Bare \/ ~SetsAnswered(g)}
  /\ UNCHANGED <<userAvatar, override, refused, verdicts, published, rowShown, hushed, uploads>>

\* SetNetworkAvatar: the override is stored ...
SetMembershipAvatar(g, h) ==
  /\ upload.at = "idle" /\ h # override[g] /\ uploads < MaxUploads /\ uploads' = uploads + 1
  /\ override' = [override EXCEPT ![g] = h]
  /\ upload' = [at |-> "set", guild |-> g, hash |-> h, prev |-> override[g]]
  /\ spoilt' = IF SetsAnswered(g) THEN spoilt ELSE spoilt \cup {g}
  /\ UNCHANGED <<userAvatar, refused, pendingSet, sets, verdicts, published, rowShown, hushed>>

\* ... published on its own network; none means no avatar there at all ...
SetAvatar ==
  /\ upload.at = "set" /\ upload' = [upload EXCEPT !.at = "row"]
  /\ sendMetadataSet({upload.guild}, FALSE)
  /\ spoilt' = IF upload.hash = Bare /\ userAvatar # Bare THEN spoilt \cup {upload.guild} ELSE spoilt
  /\ UNCHANGED <<userAvatar, override, refused, verdicts, published, rowShown, hushed, uploads>>

\* ... and the guild's member row dispatched.
TellGuild ==
  /\ upload.at = "row" /\ upload' = NoUpload
  /\ rowShown' = [rowShown EXCEPT ![upload.guild] = MemberPayload(upload.guild)]
  /\ UNCHANGED <<userAvatar, override, refused, pendingSet, sets, verdicts, published, spoilt, hushed, uploads>>

----------------------------------------------------------------------------
\* The server takes a SET or refuses it.
ServerVerdict(g, ok) ==
  /\ sets[g] # << >> /\ sets' = [sets EXCEPT ![g] = Tail(@)]
  /\ published' = IF ok THEN [published EXCEPT ![g] = Head(sets[g])] ELSE published
  /\ verdicts' = [verdicts EXCEPT ![g] = Append(@, ok)]
  /\ UNCHANGED <<userAvatar, override, refused, pendingSet, rowShown, upload, spoilt, hushed, uploads>>

HearVerdict(g, ok) ==
  /\ verdicts[g] # << >> /\ Head(verdicts[g]) = ok
  /\ verdicts' = [verdicts EXCEPT ![g] = Tail(@)]
  /\ pendingSet' = [pendingSet EXCEPT ![g].armed = FALSE]
  /\ UNCHANGED <<userAvatar, sets, published, upload, spoilt, uploads>>

\* 761 of our own key.
HandleMetadataKeyValue(g) == HearVerdict(g, TRUE) /\ UNCHANGED <<override, refused, rowShown, hushed>>

\* Mutant: a refused override stays.
AvatarSetKept(g) == HearVerdict(g, FALSE) /\ UNCHANGED <<override, refused, rowShown, hushed>>

\* FAIL METADATA: MarkAvatarRejected for the account's, RevertNetworkAvatar
\* for an override, and the member row again; nothing when nothing is armed.
AvatarSetRejected(g) ==
  /\ HearVerdict(g, FALSE)
  /\ LET set == pendingSet[g] IN
       /\ refused' = [refused EXCEPT ![g] = @ \/ (set.armed /\ set.global)]
       /\ override' = [override EXCEPT ![g] = IF set.armed /\ ~set.global THEN set.prev ELSE @]
       /\ rowShown' = IF set.armed
            THEN [rowShown EXCEPT ![g] = MemberAvatarFor(userAvatar, override'[g], refused'[g])] ELSE rowShown
       /\ hushed' = IF set.armed THEN hushed \ {g} ELSE hushed

\* The link dies with what is under way; the rollback stays armed.
MetadataLost(g) ==
  /\ ~SetsAnswered(g) /\ uploads < MaxUploads /\ uploads' = uploads + 1
  /\ sets' = [sets EXCEPT ![g] = << >>] /\ verdicts' = [verdicts EXCEPT ![g] = << >>]
  /\ spoilt' = spoilt \cup {g}
  /\ UNCHANGED <<userAvatar, override, refused, pendingSet, published, rowShown, upload, hushed>>

AvatarNext ==
  \/ TellGuilds \/ ForgetRefusals \/ SetAvatarAll \/ SetAvatar \/ TellGuild
  \/ \E h \in Images \cup {Bare} : SetUserAvatar(h) \/ \E g \in Guilds : SetMembershipAvatar(g, h)
  \/ \E g \in Guilds : \/ HandleMetadataKeyValue(g) \/ AvatarSetRejected(g) \/ MetadataLost(g)
                       \/ \E ok \in BOOLEAN : ServerVerdict(g, ok)

AvatarSpec == AvatarInit /\ [][AvatarNext]_avatarVars

----------------------------------------------------------------------------
(* Properties.                                                             *)

\* Once its verdicts are in, a guild shows the user no avatar that the people
\* on that network do not see: refusals roll the optimistic change back ("an
\* avatar no IRC peer can see is a lie worth un-showing").  Excepted are guilds
\* whose SETs crossed, were lost, or met an override: one rollback is kept per
\* connection, and SetAvatarAll publishes over overrides.
AvatarHonest ==
  upload.at = "idle" => \A g \in Guilds \ spoilt :
    SetsAnswered(g) => MemberPayload(g) \in {Bare, published[g]}

\* And the clients have been told what the guild shows, unless a new avatar
\* came after a refusal: the rows are dispatched before it is forgotten.
AvatarShown ==
  upload.at = "idle" => \A g \in Guilds \ hushed : rowShown[g] = MemberPayload(g)

\* Nobody is shown an avatar that peers do not see, and clients are told what
\* is shown (SetAvatarAll, avatarSetRejected).
AvatarsRight ==
  AvatarHonest /\ AvatarShown

=============================================================================
