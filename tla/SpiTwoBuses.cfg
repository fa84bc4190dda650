CONSTANTS
    t1 = t1
    t2 = t2
    t3 = t3
    d1 = d1
    d2 = d2
    busA = busA
    busB = busB
    busFirst = busFirst
    Nobody = Nobody
    NoDevice = NoDevice
    Tasks = {t1, t2, t3}
    Devices = {d1, d2}
    HandleOf <- SharedHandle
    SlotOf <- TwoSlot
    BusOf <- TwoBus
    FirstBus = busFirst
    Clocks = {8, 32}
    Limited = {}
    Limit = 32
SPECIFICATION FairSpec
INVARIANT FreeBusIsQuiet
PROPERTY SemaphoreGivenBack
CHECK_DEADLOCK FALSE
