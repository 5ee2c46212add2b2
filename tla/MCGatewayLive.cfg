CONSTANTS
    None = None
    Conn = {c1, c2}
    Sess = {s1}
    User = {u1}
    Dispatcher = {d1}
    QueueCap = 2
    ReplayLimit = 1
    MaxDispatch = 1
SPECIFICATION FairSpec
PROPERTIES
    DisplacedDies CallsEnd
CHECK_DEADLOCK FALSE
