CONSTANTS
    t1 = t1
    t2 = t2
    d1 = d1
    d2 = d2
    busA = busA
    Nobody = Nobody
    NoDevice = NoDevice
    NoSession = NoSession
    Tasks = {t1, t2}
    Devices = {d1, d2}
    HandleOf <- OwnHandle
    SlotOf <- OwnSlot
    BusOf <- OneBus
    FirstBus = busA
    Clocks = {8, 32, 40}
    Limited = {d2}
    Limit = 32
SPECIFICATION FairSpec
INVARIANTS TypeOK TransferToOwnDevice
PROPERTIES SessionsExclusive CallsReturn
