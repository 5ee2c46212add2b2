------------------------------ MODULE PeerMeta ------------------------------
(***************************************************************************)
(* One peer's avatar and colour as the bouncer mirrors them from METADATA  *)
(* lines: notifications, SYNC answers (761, 766) and postponed SYNCs (774) *)
(* arrive in order on one connection; pictures are fetched off the read    *)
(* loop, one at a time (ircmanage/metadata.go).  The server is external.   *)
(***************************************************************************)
EXTENDS Integers, Sequences

CONSTANTS
  Pictures,        \* addresses of pictures; one stands for its image too
  Paints,          \* colours that ParseIrcColor accepts
  Odd,             \* one that it refuses
  Unset,           \* no value
  MaxRetries,      \* the retries of a postponed SYNC (3)
  MaxSets          \* bound: changes, refusals, failures, link losses

ASSUME PeerMetaAssumption == MaxRetries \in Nat /\ MaxSets \in Nat /\ Odd # Unset

VARIABLES
  picture, paint,  \* the server: the peer's avatar and color keys
  joinedUp, metaWire, \* the link, and the lines on their way
  syncs,           \* SYNC requests on their way to the server
  metaRetries, timers, \* 774s counted for the channel; retries armed
  fetch,           \* peerFetching and the goroutine behind it
  mirror, colour,  \* PeerAvatar and PeerColor in the store
  peerRow,         \* what the last GUILD_MEMBER_UPDATE of the peer showed
  behind,          \* history: an avatar value was lost, dropped or overtaken
  lostLines,       \* history: lines were lost with the link
  changes

metaVars == <<picture, paint, joinedUp, metaWire, syncs, metaRetries, timers, fetch,
              mirror, colour, peerRow, behind, lostLines, changes>>

NoFetch == [at |-> "idle", url |-> Unset]
MetaLine(key, v) == [key |-> key, value |-> v]

\* A fresh JOIN of the channel: the SYNC is on its way.
PeerMetaInit ==
  /\ picture \in Pictures \cup {Unset} /\ paint = Unset
  /\ joinedUp = TRUE /\ metaWire = << >> /\ syncs = 1 /\ metaRetries = 0 /\ timers = 0
  /\ fetch = NoFetch /\ mirror = Unset /\ colour = Unset /\ peerRow = <<Unset, Unset>>
  /\ behind = TRUE /\ lostLines = TRUE /\ changes = 0

Change == changes < MaxSets /\ changes' = changes + 1

----------------------------------------------------------------------------
(* The server.                                                             *)

PeerSets(key, v) ==
  /\ Change
  /\ picture' = IF key = "avatar" THEN v ELSE picture
  /\ paint' = IF key = "color" THEN v ELSE paint
  /\ picture' # picture \/ paint' # paint
  /\ metaWire' = IF joinedUp THEN Append(metaWire, MetaLine(key, v)) ELSE metaWire
  /\ UNCHANGED <<joinedUp, syncs, metaRetries, timers, fetch, mirror, colour, peerRow, behind, lostLines>>

ServerSyncs ==
  /\ joinedUp /\ syncs > 0 /\ syncs' = syncs - 1
  /\ metaWire' = metaWire \o <<MetaLine("avatar", picture), MetaLine("color", paint)>>
  /\ UNCHANGED <<picture, paint, joinedUp, metaRetries, timers, fetch, mirror, colour, peerRow,
                 behind, lostLines, changes>>

ServerPostpones ==
  /\ joinedUp /\ syncs > 0 /\ syncs' = syncs - 1 /\ Change
  /\ metaWire' = Append(metaWire, MetaLine("later", Unset))
  /\ UNCHANGED <<picture, paint, joinedUp, metaRetries, timers, fetch, mirror, colour, peerRow,
                 behind, lostLines>>

----------------------------------------------------------------------------
(* The connection's handlers.                                              *)

NextMeta(key) ==
  /\ metaWire # << >> /\ Head(metaWire).key = key /\ metaWire' = Tail(metaWire)
  /\ UNCHANGED <<picture, paint, joinedUp, syncs, changes>>

\* 774: counted per channel, and never counted down.
handleMetadataSyncLater ==
  /\ NextMeta("later")
  /\ metaRetries' = metaRetries + 1
  /\ timers' = IF metaRetries' > MaxRetries THEN timers ELSE timers + 1
  /\ UNCHANGED <<fetch, mirror, colour, peerRow, behind, lostLines>>

\* Mutant: an unset avatar is taken for one that cannot be fetched.
applyPeerAvatarKeeps ==
  /\ NextMeta("avatar")
  /\ LET url == Head(metaWire).value IN
     \/ /\ url = Unset /\ behind' = FALSE /\ UNCHANGED fetch
     \/ /\ url # Unset /\ fetch.at = "idle"
        /\ fetch' = [at |-> "get", url |-> url] /\ behind' = FALSE
     \/ /\ url # Unset /\ fetch.at # "idle"
        /\ behind' = TRUE /\ UNCHANGED fetch
  /\ UNCHANGED <<metaRetries, timers, mirror, colour, peerRow, lostLines>>

\* An avatar value: unset clears the mirror at once, an address is fetched
\* unless a fetch for the nick is in flight.
applyPeerAvatar ==
  /\ NextMeta("avatar")
  /\ LET url == Head(metaWire).value IN
     \/ /\ url = Unset
        /\ mirror' = Unset /\ peerRow' = <<Unset, colour>>
        /\ behind' = (fetch.at = "get") /\ UNCHANGED fetch
     \/ /\ url # Unset /\ fetch.at = "idle"
        /\ fetch' = [at |-> "get", url |-> url] /\ behind' = FALSE
        /\ UNCHANGED <<mirror, peerRow>>
     \/ /\ url # Unset /\ fetch.at # "idle"
        /\ behind' = (behind \/ fetch # [at |-> "get", url |-> url])
        /\ UNCHANGED <<fetch, mirror, peerRow>>
  /\ UNCHANGED <<metaRetries, timers, colour, lostLines>>

\* A colour: stored when it parses, cleared when unset, else left alone.
applyPeerColor ==
  /\ NextMeta("color")
  /\ LET value == Head(metaWire).value IN
     \/ /\ value = Odd /\ UNCHANGED <<colour, peerRow>>
     \/ /\ value # Odd /\ colour' = value /\ peerRow' = <<mirror, value>>
  /\ lostLines' = FALSE
  /\ UNCHANGED <<metaRetries, timers, fetch, mirror, behind>>

----------------------------------------------------------------------------
(* The fetch goroutine: get and put, tell the clients, clear the flag.     *)

FetchStep(from) ==
  /\ fetch.at = from
  /\ UNCHANGED <<picture, paint, joinedUp, metaWire, syncs, metaRetries, timers, colour, lostLines>>

fetchPeerAvatar ==
  /\ FetchStep("get") /\ fetch' = [fetch EXCEPT !.at = "fire"]
  /\ mirror' = fetch.url
  /\ UNCHANGED <<peerRow, behind, changes>>

FetchFails ==
  /\ FetchStep("get") /\ Change /\ fetch' = [fetch EXCEPT !.at = "end"]
  /\ behind' = TRUE
  /\ UNCHANGED <<mirror, peerRow>>

firePeerAvatar ==
  /\ FetchStep("fire") /\ fetch' = [fetch EXCEPT !.at = "end"]
  /\ peerRow' = <<mirror, colour>>
  /\ UNCHANGED <<mirror, behind, changes>>

FetchEnd ==
  /\ FetchStep("end") /\ fetch' = NoFetch
  /\ UNCHANGED <<mirror, peerRow, behind, changes>>

----------------------------------------------------------------------------
\* The timer of metadataSyncRetry: a connection that is down skips the SYNC.
metadataSyncRetry ==
  /\ timers > 0 /\ timers' = timers - 1
  /\ syncs' = IF joinedUp THEN syncs + 1 ELSE syncs
  /\ UNCHANGED <<picture, paint, joinedUp, metaWire, metaRetries, fetch, mirror, colour, peerRow,
                 behind, lostLines, changes>>

\* The link dies; fetches, timers and the count of 774s outlive it.
MetaLinkDies ==
  /\ joinedUp /\ Change /\ joinedUp' = FALSE /\ metaWire' = << >> /\ syncs' = 0
  /\ behind' = TRUE /\ lostLines' = TRUE
  /\ UNCHANGED <<picture, paint, metaRetries, timers, fetch, mirror, colour, peerRow>>

metadataSyncChannel ==
  /\ ~joinedUp /\ joinedUp' = TRUE /\ syncs' = syncs + 1
  /\ UNCHANGED <<picture, paint, metaWire, metaRetries, timers, fetch, mirror, colour, peerRow,
                 behind, lostLines, changes>>

PeerMetaNext ==
  \/ ServerSyncs \/ ServerPostpones \/ handleMetadataSyncLater
  \/ applyPeerAvatar \/ applyPeerColor
  \/ fetchPeerAvatar \/ FetchFails \/ firePeerAvatar \/ FetchEnd
  \/ metadataSyncRetry \/ MetaLinkDies \/ metadataSyncChannel
  \/ \E v \in Pictures \cup {Unset} : PeerSets("avatar", v)
  \/ \E v \in Paints \cup {Odd, Unset} : PeerSets("color", v)

PeerMetaSpec == PeerMetaInit /\ [][PeerMetaNext]_metaVars

----------------------------------------------------------------------------
(* Properties.                                                             *)

MetaQuiet == joinedUp /\ metaWire = << >> /\ fetch.at = "idle"

\* When all lines are handled and no fetch runs, the peer's stored avatar is
\* the one the network has, whatever notifications, SYNC answers, retries and
\* fetches raced; except that a value is lost which arrives while a fetch is
\* in flight, whose fetch fails, or which went down with the link, until the
\* next value.
PeerAvatarRight == MetaQuiet /\ ~behind => mirror = picture

\* The colour is the network's or, where that is no colour, an older one; and
\* the row the clients hold shows what is stored.
PeerRowRight ==
  MetaQuiet => /\ ~lostLines => colour = paint \/ paint = Odd
               /\ colour # Odd
               /\ peerRow = <<mirror, colour>>

\* A peer's mirrored avatar and colour, and the row that shows them, end up
\* as the network has them (applyPeerAvatar, applyPeerColor).
PeersRight ==
  PeerAvatarRight /\ PeerRowRight

=============================================================================
