CONSTANTS
    None = None
    Conn = {c1, c2}
    Sess = {s1}
    User = {u1, u2}
    Dispatcher = {d1}
    QueueCap = 2
    ReplayLimit = 2
    MaxDispatch = 2
    Clients = {w1, w2}
    Logins = {1, 2}
    MaxAccounts = 2
    MaxTokens = 1
    Patchers = {x1, x2}
    Fields = {"status", "theme"}
    Values = {0, 1}
    MaxPatches = 3
    Builds = 2
    Readers = {a1, a2}
    MaxStarts = 3
    Unknown = Unknown
    Nowhere = Nowhere
    Later = Later
SYMMETRY Symmetry
SPECIFICATION MCSpec
INVARIANTS
    WriterOpen NoLiveLoss RightUser IdentifiedStream ReapSparesIdentified
    AccountsSound TokensHonoured 
PROPERTIES
    CacheHonest
CHECK_DEADLOCK FALSE
