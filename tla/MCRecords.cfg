CONSTANTS
  None = None
  NoId = NoId
  Me = Me
  Top = 2
  MaxMs = 2
  Bouncers = {"m"}
  IrcFolk = {"p"}
  MaxAtoms = 3
  FrameBudget = 2
  MaxChars = 5
  LineLimits = {1, 2}
  ByteLimits = {1, 3, 4}
  Peers = {p1}
  Reqs = {r1}
  BufferCap = 1
  MaxId = 2
  MaxRestarts = 1
  Pinners = {q1, q2}
  MaxPins = 1
  MaxRow = 5
  MaxOps = 4
  Ackers = {k1, k2}
  MaxMessage = 3
  MaxMention = 3
  Uploaders = {b1, b2}
  MaxUpload = 2
  MaxSlots = 2
  MaxFiles = 2
  MaxPosts = 2
SPECIFICATION MCSpec
INVARIANTS
     MentionsSurvive   
    LinesKept LinksServed
PROPERTIES
    ReadStateRight NextIncreases
CHECK_DEADLOCK FALSE
