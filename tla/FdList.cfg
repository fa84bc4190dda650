CONSTANTS
    Tasks = {t1, t2}
    a = a
    b = b
    c = c
    Items <- Blocks
    Junk <- JunkEntries
    MaxIndexes = 5
    NoEntry = NoEntry
    NoItem = NoItem
SPECIFICATION Spec
INVARIANTS TypeOK GetReturnsOwn NothingLeaks FreeChainIsDeleted
PROPERTY DescriptorsDistinct
CHECK_DEADLOCK FALSE
