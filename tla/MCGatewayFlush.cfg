CONSTANTS
    None = None
    Conn = {c1, c2}
    Sess = {s1}
    User = {u1}
    Dispatcher = {d1}
    Flusher = {f1}
    QueueCap = 2
    ReplayLimit = 1
    MaxDispatch = 1
SYMMETRY Symmetry
SPECIFICATION FlushSpec
INVARIANTS
    FlushSound
CHECK_DEADLOCK FALSE
