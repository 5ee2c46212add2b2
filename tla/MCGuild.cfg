CONSTANTS
  Users = {u1, u2}
  Names = {"a", "b"}
  MaxOps = 4
  Chans = {c1, c2}
  Drags = {d1, d2}
  Titles = {1, 2}
  MaxCat = 2
  MaxEdits = 5
  Nets = {n1, n2}
  ClydeNet = ClydeNet
  Peer = Peer
  Clyde = Clyde
  MaxThread = 4
  MaxNotes = 3
  Members = {m1, m2}
  Topics = {"t", "s"}
  MaxTopicOps = 5
  Folk = {"p", "q"}
  Self = "self"
  Handles = {1, 2, 3}
  MaxTurns = 4
  Guilds = {"g", "h"}
  Images = {"i", "j"}
  Bare = "bare"
  MaxUploads = 3
  Pictures = {"i", "j"}
  Paints = {"red"}
  Odd = "odd"
  Unset = "unset"
  MaxRetries = 1
  MaxSets = 4
  ReplayLimit = 3
  ReplayBytes = 7
  Sizes = {1, 2, 4}
  MaxSeq = 8
  None = None
  BufferCap = 2
  Upstream = 3
  Earlier = 2
  Multi = {3}
  Untagged = {1}
  PrefillLimit = 2
  PageLimit = 2
  MaxScrolls = 2
  MaxDrops = 1
SPECIFICATION MCSpec
INVARIANTS
    ChannelsTracked  ThreadsSound 
    PresenceRight AvatarsRight  LogSound 
CHECK_DEADLOCK FALSE
