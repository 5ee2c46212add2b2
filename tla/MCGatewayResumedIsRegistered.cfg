CONSTANTS
    None = None
    Conn = {c1, c2}
    Sess = {s1}
    User = {u1}
    Dispatcher = {d1}
    QueueCap = 2
    ReplayLimit = 2
    MaxDispatch = 2
SYMMETRY Symmetry
SPECIFICATION Spec
INVARIANT ResumedIsRegistered
CHECK_DEADLOCK FALSE
