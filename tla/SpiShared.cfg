CONSTANTS
    screen = screen
    params = params
    disp = disp
    busA = busA
    Nobody = Nobody
    NoDevice = NoDevice
    Tasks = {screen, params}
    Devices = {disp}
    HandleOf <- DispHandle
    SlotOf <- DispSlot
    BusOf <- DispBus
    FirstBus = busA
    Clocks = {8, 32}
    Limited = {}
    Limit = 32
SPECIFICATION Spec
INVARIANT TransferHoldsSemaphore
CHECK_DEADLOCK FALSE
