------------------------------- MODULE SpiBus -------------------------------
(***************************************************************************)
(* spi_master_lobo: selecting and deselecting a device of the HSPI host,   *)
(* changing its clock, and the transfers in between, by tasks that run on  *)
(* two cores.  cfg.selected is a plain field tested outside the bus mutex. *)
(* The devices are attached and have software chip selects, as the display *)
(* has.                                                                    *)
(***************************************************************************)
EXTENDS Integers

CONSTANTS
    Tasks, Devices,
    HandleOf,     \* the handle each task passes
    SlotOf,       \* host->device[]: the index of each device
    BusOf,        \* bus_config of each device
    FirstBus,     \* the configuration the host was initialised with
    Clocks,       \* the speeds the devices are given, of which none is checked
    Limited,      \* full duplex devices on a bus routed through the GPIO matrix
    Limit,        \* two fifths of the APB clock: the most a limited device gets
    Nobody, NoDevice

ASSUME HandleAssumption == HandleOf \in [Tasks -> Devices]
ASSUME SlotAssumption == SlotOf \in [Devices -> 0..5]
ASSUME ClocksAssumption ==
    Clocks \subseteq Nat /\ Limit \in Clocks /\ Limited \subseteq Devices
ASSUME NobodyAssumption == Nobody \notin Tasks /\ NoDevice \notin Devices

VARIABLES
    mutex,      \* holder of spi_lobo_bus_mutex
    selected,   \* handle->cfg.selected
    clock,      \* handle->cfg.clock_speed_hz
    curDevice,  \* the device at host->cur_device, NoDevice when it is -1
    curBus,     \* host->cur_bus_config
    regs,       \* the device and clock the host's registers are set up for
    csLow,      \* devices whose chip select is active
    dmaClaimed, \* the host's bit of spi_dma_chan_enabled
    aborted,    \* an assertion failed: the chip panics
    pc, op      \* per task: where it is, and in which call

lock == <<mutex, selected>>
host == <<curDevice, curBus, regs, csLow, dmaClaimed>>
vars == <<lock, host, clock, aborted, pc, op>>

Pc == {"idle", "selCheck", "selTake", "selBus", "selRegs", "selMark", "xfer",
       "setClock", "desCheck", "desCs", "desMark", "desGive"}
Op == {"use", "get", "speed1", "speed2"}
Unset == [dev |-> NoDevice, hz |-> 0]

Init == /\ mutex = Nobody /\ selected = [d \in Devices |-> FALSE]
        /\ clock \in [Devices -> Clocks] /\ \A d \in Limited : clock[d] <= Limit
        /\ curDevice = NoDevice /\ curBus = FirstBus /\ regs = Unset
        /\ csLow = {} /\ dmaClaimed = TRUE /\ aborted = FALSE
        /\ pc = [t \in Tasks |-> "idle"] /\ op = [t \in Tasks |-> "use"]

At(t, here) == ~aborted /\ pc[t] = here
Goto(t, there) == pc' = [pc EXCEPT ![t] = there]

-----------------------------------------------------------------------------
(* The calls.  "use" is the display's select, transfer, deselect, "get" is *)
(* spi_lobo_get_speed; speed1 and speed2 are the two selections of         *)
(* spi_lobo_set_speed, the second one forced.                              *)

StartCall(t) ==
    /\ At(t, "idle") /\ Goto(t, "selCheck")
    /\ \E call \in {"use", "get", "speed1"} : op' = [op EXCEPT ![t] = call]
    /\ UNCHANGED <<lock, host, clock, aborted>>

Forced(t) == op[t] = "speed2"

SelectOk(t) ==
    Goto(t, IF op[t] = "speed1" THEN "desCheck" ELSE "xfer") /\ op' = op

(* An error ends a "use"; the other calls still deselect, then end. *)
SelectError(t) ==
    /\ Goto(t, IF op[t] = "use" THEN "idle" ELSE "desCheck")
    /\ op' = [op EXCEPT ![t] = IF @ = "use" THEN "use" ELSE "get"]

AfterDeselect(t) == Goto(t, IF op[t] = "speed1" THEN "setClock" ELSE "idle")

(* Any speed is stored: the select that follows brings it in range.         *)
SetClock(t) ==
    /\ At(t, "setClock") /\ Goto(t, "selCheck")
    /\ \E hz \in Clocks : clock' = [clock EXCEPT ![HandleOf[t]] = hz]
    /\ op' = [op EXCEPT ![t] = "speed2"]
    /\ UNCHANGED <<lock, host, aborted>>

EndTransfer(t) ==
    /\ At(t, "xfer") /\ Goto(t, "desCheck")
    /\ UNCHANGED <<lock, host, clock, aborted, op>>

-----------------------------------------------------------------------------
(* spi_lobo_device_select *)

AlreadySelected(t) ==
    /\ At(t, "selCheck") /\ selected[HandleOf[t]] /\ ~Forced(t)
    /\ SelectOk(t)
    /\ UNCHANGED <<lock, host, clock, aborted>>

NotSelected(t) ==
    /\ At(t, "selCheck") /\ (~selected[HandleOf[t]] \/ Forced(t))
    /\ Goto(t, "selTake")
    /\ UNCHANGED <<lock, host, clock, aborted, op>>

TakeSemaphore(t) ==
    /\ At(t, "selTake") /\ mutex = Nobody
    /\ mutex' = t /\ Goto(t, "selBus")
    /\ UNCHANGED <<selected, host, clock, aborted, op>>

(* Faulty variant: waits without a limit. *)
TakeForever(t) ==
    /\ At(t, "selTake") /\ mutex # Nobody
    /\ UNCHANGED vars

(* 2000 ticks without the semaphore *)
TakeTimeout(t) ==
    /\ At(t, "selTake") /\ mutex # Nobody
    /\ SelectError(t)
    /\ UNCHANGED <<lock, host, clock, aborted>>

SameBus(t) ==
    /\ At(t, "selBus") /\ curBus = BusOf[HandleOf[t]]
    /\ Goto(t, "selRegs")
    /\ UNCHANGED <<lock, host, clock, aborted, op>>

ChangesBus(t) == At(t, "selBus") /\ curBus # BusOf[HandleOf[t]]

(* spi_lobo_bus_free(1, 0): asserts that the DMA channel is claimed. *)
ChangeBusAborts(t) ==
    /\ ChangesBus(t) /\ ~dmaClaimed
    /\ aborted' = TRUE
    /\ UNCHANGED <<lock, host, clock, pc, op>>

(* Faulty variant: the error path keeps the semaphore. *)
ChangeBusKeeps(t) ==
    /\ ChangesBus(t) /\ dmaClaimed /\ SlotOf[HandleOf[t]] # 1
    /\ dmaClaimed' = FALSE /\ regs' = Unset
    /\ SelectError(t)
    /\ UNCHANGED <<lock, curDevice, curBus, csLow, clock, aborted>>

(* It frees the channel and switches the host off; then the device's index *)
(* is passed to spi_lobo_bus_initialize as the host, and only host 1 is in *)
(* use.                                                                    *)
ChangeBusFails(t) ==
    /\ ChangesBus(t) /\ dmaClaimed /\ SlotOf[HandleOf[t]] # 1
    /\ dmaClaimed' = FALSE /\ regs' = Unset
    /\ mutex' = Nobody /\ SelectError(t)
    /\ UNCHANGED <<selected, curDevice, curBus, csLow, clock, aborted>>

(* The channel is not claimed again on this path. *)
ChangeBusDone(t) ==
    /\ ChangesBus(t) /\ dmaClaimed /\ SlotOf[HandleOf[t]] = 1
    /\ dmaClaimed' = FALSE /\ regs' = Unset
    /\ curDevice' = NoDevice /\ curBus' = BusOf[HandleOf[t]]
    /\ Goto(t, "selRegs")
    /\ UNCHANGED <<lock, csLow, clock, aborted, op>>

(* Faulty variant: a speed above the limit goes to the registers. *)
SpeedUnlimited(d) == clock[d]

(* "Speeds >=40MHz over GPIO matrix need a dummy cycle, but these don't    *)
(* work for full-duplex connections."                                      *)
Speed(d) == IF d \in Limited /\ clock[d] > Limit THEN Limit ELSE clock[d]

(* Faulty variant: the registers are written only when forced. *)
ConfigureForced(t) ==
    /\ At(t, "selRegs") /\ Goto(t, "selMark")
    /\ regs' = IF Forced(t) THEN [dev |-> HandleOf[t], hz |-> clock[HandleOf[t]]] ELSE regs
    /\ curDevice' = HandleOf[t]
    /\ csLow' = csLow \cup {HandleOf[t]}
    /\ UNCHANGED <<lock, curBus, dmaClaimed, clock, aborted, op>>

(* The registers are written only for another device, or when forced: then *)
(* the handle's speed is brought in range first.                           *)
Configure(t) ==
    /\ At(t, "selRegs") /\ Goto(t, "selMark")
    /\ IF Forced(t) \/ curDevice # HandleOf[t]
         THEN LET d == HandleOf[t] IN
              /\ clock' = [clock EXCEPT ![d] = Speed(d)]
              /\ regs' = [dev |-> d, hz |-> Speed(d)]
         ELSE UNCHANGED <<clock, regs>>
    /\ curDevice' = HandleOf[t]
    /\ csLow' = csLow \cup {HandleOf[t]}
    /\ UNCHANGED <<lock, curBus, dmaClaimed, aborted, op>>

MarkSelected(t) ==
    /\ At(t, "selMark") /\ SelectOk(t)
    /\ selected' = [selected EXCEPT ![HandleOf[t]] = TRUE]
    /\ UNCHANGED <<mutex, host, clock, aborted>>

-----------------------------------------------------------------------------
(* spi_lobo_device_deselect *)

AlreadyDeselected(t) ==
    /\ At(t, "desCheck") /\ ~selected[HandleOf[t]]
    /\ AfterDeselect(t)
    /\ UNCHANGED <<lock, host, clock, aborted, op>>

StillSelected(t) ==
    /\ At(t, "desCheck") /\ selected[HandleOf[t]]
    /\ Goto(t, "desCs")
    /\ UNCHANGED <<lock, host, clock, aborted, op>>

(* Faulty variant: leaves the chip select active. *)
KeepCs(t) ==
    /\ At(t, "desCs") /\ Goto(t, "desMark")
    /\ UNCHANGED <<lock, host, clock, aborted, op>>

RaiseCs(t) ==
    /\ At(t, "desCs") /\ Goto(t, "desMark")
    /\ csLow' = IF curDevice = HandleOf[t] THEN csLow \ {HandleOf[t]} ELSE csLow
    /\ UNCHANGED <<lock, curDevice, curBus, regs, dmaClaimed, clock, aborted, op>>

MarkDeselected(t) ==
    /\ At(t, "desMark") /\ Goto(t, "desGive")
    /\ selected' = [selected EXCEPT ![HandleOf[t]] = FALSE]
    /\ UNCHANGED <<mutex, host, clock, aborted, op>>

(* CHECK_MUTEX_GIVEN_BY_OWNER: giving what another task holds aborts, *)
(* giving what nobody holds does nothing.                             *)
GiveSemaphore(t) ==
    /\ At(t, "desGive")
    /\ IF mutex \in {t, Nobody}
         THEN mutex' = Nobody /\ AfterDeselect(t) /\ UNCHANGED aborted
         ELSE aborted' = TRUE /\ UNCHANGED <<mutex, pc>>
    /\ UNCHANGED <<selected, host, clock, op>>

Select(t) == \/ AlreadySelected(t) \/ NotSelected(t) \/ TakeSemaphore(t)
             \/ TakeTimeout(t) \/ SameBus(t) \/ ChangeBusAborts(t)
             \/ ChangeBusFails(t) \/ ChangeBusDone(t) \/ Configure(t)
             \/ MarkSelected(t)
Deselect(t) == \/ AlreadyDeselected(t) \/ StillSelected(t) \/ RaiseCs(t)
               \/ MarkDeselected(t) \/ GiveSemaphore(t)
Call(t) == SetClock(t) \/ EndTransfer(t) \/ Select(t) \/ Deselect(t)

Next == \E t \in Tasks : StartCall(t) \/ Call(t)

Spec == Init /\ [][Next]_vars
FairSpec == Spec /\ \A t \in Tasks : WF_vars(Call(t))

-----------------------------------------------------------------------------
(* Properties *)

(* Every field keeps its range, and the registers are never set for a      *)
(* limited device above the limit, whatever speed it was given.            *)
TypeOK ==
    /\ mutex \in Tasks \cup {Nobody} /\ selected \in [Devices -> BOOLEAN]
    /\ clock \in [Devices -> Clocks]
    /\ curDevice \in Devices \cup {NoDevice}
    /\ regs \in [dev : Devices \cup {NoDevice}, hz : Clocks \cup {0}]
    /\ regs.dev \in Limited => regs.hz <= Limit
    /\ csLow \subseteq Devices
    /\ dmaClaimed \in BOOLEAN /\ aborted \in BOOLEAN
    /\ pc \in [Tasks -> Pc] /\ op \in [Tasks -> Op]

(* spi_master_lobo.c:25 "Transfers uses the semaphore (taken in select     *)
(* function & given in deselect function) to protect the transfer".        *)
TransferHoldsSemaphore == \A t \in Tasks : pc[t] = "xfer" => mutex = t

(* A transfer goes out with its own device's settings and at the clock     *)
(* last asked for it, to that device alone.                                *)
TransferToOwnDevice ==
    \A t \in Tasks : pc[t] = "xfer" =>
        /\ regs = [dev |-> HandleOf[t], hz |-> clock[HandleOf[t]]]
        /\ csLow = {HandleOf[t]}

(* No assertion fails: neither the driver's own that the DMA channel it    *)
(* frees is claimed, nor, with CONFIG_FREERTOS_CHECK_MUTEX_GIVEN_BY_OWNER, *)
(* that of FreeRTOS that a mutex is given by its holder.                   *)
NeverAborts == ~aborted

(* A free semaphore leaves no device selected and no chip select active.   *)
FreeBusIsQuiet ==
    mutex = Nobody => csLow = {} /\ \A d \in Devices : ~selected[d]

(* Every call returns. *)
CallsReturn == \A t \in Tasks : pc[t] # "idle" ~> pc[t] = "idle"

(* The semaphore is given back on every path out of select and deselect,   *)
(* the failed reconfiguration of the bus included, short of the assertion  *)
(* that stops the chip.                                                    *)
SemaphoreGivenBack == \A t \in Tasks : mutex = t ~> mutex # t \/ aborted

=============================================================================
