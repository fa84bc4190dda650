SPECIFICATION Spec
CONSTANTS
    BlockCount = 5
    PerBlock = 3
    HeadPages = 1
    Cells = 2
    PageSize = 2
    HdrLen = 1
    IxLen = 2
    Free = Free
    Deleted = Deleted
    Garbled = Garbled
    None = None
    Fds = {d1, d2}
    Names = {a, b}
    MaxSize = 5
    Lengths = {2, 5}
    MaxCalls = 5
    MaxCrashes = 0
SYMMETRY Symmetry
CHECK_DEADLOCK FALSE
INVARIANT Consistent
