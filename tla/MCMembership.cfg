CONSTANTS
    None = None
    User = {u1, u2}
    Net = {n1, n2}
    Link = {l1, l2}
    Caller = {p1, p2}
    MaxCalls = 4
SYMMETRY Symmetry
SPECIFICATION Spec
INVARIANTS
    NoStrayLink ClosedOnce LinkHasMember RotationReplacesLink NoEmptyNetwork
CHECK_DEADLOCK FALSE
