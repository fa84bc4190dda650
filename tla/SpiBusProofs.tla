---------------------------- MODULE SpiBusProofs ----------------------------
(***************************************************************************)
(* With a handle per task and one bus configuration, spi_master_lobo       *)
(* keeps its transfers apart: the safety of SpiBus, and that it implements *)
(* BusSession, for every number of tasks and every set of clocks.          *)
(***************************************************************************)
EXTENDS SpiBusOwn, TLAPS

(* t is between taking the semaphore and giving it back. *)
Holding(t) ==
    \/ pc[t] \in {"selBus", "selRegs", "selMark", "xfer", "desCs", "desMark", "desGive"}
    \/ pc[t] = "desCheck" /\ selected[HandleOf[t]]

Settings(t) == [dev |-> HandleOf[t], hz |-> clock[HandleOf[t]]]

HolderHolds == \A t \in Tasks : mutex = t <=> Holding(t)

SelectedInside == \A t \in Tasks :
    /\ selected[HandleOf[t]] => pc[t] \in {"xfer", "desCheck", "desCs", "desMark"}
    /\ pc[t] \in {"xfer", "desCs", "desMark"} => selected[HandleOf[t]]

CsInside == \A t \in Tasks : HandleOf[t] \in csLow =>
    pc[t] \in {"selMark", "xfer", "desCs"} \/ (pc[t] = "desCheck" /\ selected[HandleOf[t]])

CsOutside == \A t \in Tasks :
    pc[t] \in {"selMark", "xfer", "desCs"} \/ (pc[t] = "desCheck" /\ selected[HandleOf[t]])
    => HandleOf[t] \in csLow

(* Devices no task has a handle of are left alone. *)
UnusedQuiet == \A d \in Devices :
    selected[d] \/ d \in csLow => \E t \in Tasks : HandleOf[t] = d

FirstBusKept == ~aborted /\ curBus = FirstBus

HolderIsCurrent == \A t \in Tasks :
    Holding(t) /\ pc[t] \notin {"selBus", "selRegs"} => curDevice = HandleOf[t]

(* The registers lag behind the current device's clock only while the task *)
(* that changed it is on its way to write them, or another task is about   *)
(* to take the bus over: the forced select of spi_lobo_set_speed may time  *)
(* out, but only against a task that makes its own device the current one. *)
StaleRegs == \A t \in Tasks :
    curDevice = HandleOf[t] /\ regs # Settings(t) =>
      \/ op[t] = "speed2" /\ pc[t] \in {"selCheck", "selTake", "selBus", "selRegs"}
      \/ \E u \in Tasks \ {t} : pc[u] \in {"selBus", "selRegs"}

IInv == /\ TypeOK /\ HolderHolds /\ SelectedInside /\ CsInside /\ CsOutside
        /\ UnusedQuiet /\ FirstBusKept /\ HolderIsCurrent /\ StaleRegs

-----------------------------------------------------------------------------
(* The invariant is inductive.                                             *)

(* It holds when the host has been initialised and no task has called yet. *)
LEMMA InitInvariant == Init => IInv
<1> SUFFICES ASSUME Init PROVE IInv
  OBVIOUS
<1> USE HandleAssumption, NobodyAssumption DEF Init
<1>1. TypeOK
  BY ClocksAssumption DEF TypeOK, Unset, Pc, Op
<1>2. HolderHolds /\ HolderIsCurrent
  BY DEF HolderHolds, HolderIsCurrent, Holding
<1>3. SelectedInside /\ CsInside /\ CsOutside /\ UnusedQuiet
  BY DEF SelectedInside, CsInside, CsOutside, UnusedQuiet
<1>4. FirstBusKept /\ StaleRegs
  BY DEF FirstBusKept, StaleRegs
<1> QED
  BY <1>1, <1>2, <1>3, <1>4 DEF IInv

(* The speed a device gets is one it may be given, within its limit.       *)
LEMMA SpeedInRange ==
  ASSUME NEW d \in Devices, clock[d] \in Clocks
  PROVE  Speed(d) \in Clocks /\ (d \in Limited => Speed(d) <= Limit)
<1>1. Limit \in Clocks /\ Limit \in Nat /\ clock[d] \in Nat
  BY ClocksAssumption
<1>2. CASE d \in Limited /\ clock[d] > Limit
  BY <1>1, <1>2 DEF Speed
<1>3. CASE ~(d \in Limited /\ clock[d] > Limit)
  <2>1. Speed(d) = clock[d]
    BY <1>3 DEF Speed
  <2>2. d \in Limited => clock[d] <= Limit
    BY <1>1, <1>3
  <2> QED BY <2>1, <2>2
<1> QED BY <1>2, <1>3

LEMMA ConfigureType ==
  ASSUME TypeOK, NEW t \in Tasks, Configure(t)
  PROVE  TypeOK'
<1> DEFINE d == HandleOf[t]
<1>1. d \in Devices
  BY HandleAssumption
<1>2. clock \in [Devices -> Clocks] /\ regs \in [dev : Devices \cup {NoDevice}, hz : Clocks \cup {0}]
  BY DEF TypeOK
<1>3. Speed(d) \in Clocks /\ (d \in Limited => Speed(d) <= Limit)
  BY <1>1, <1>2, SpeedInRange
<1>4. \/ UNCHANGED <<clock, regs>>
      \/ clock' = [clock EXCEPT ![d] = Speed(d)] /\ regs' = [dev |-> d, hz |-> Speed(d)]
  BY DEF Configure
<1> HIDE DEF d
<1>5. clock' \in [Devices -> Clocks] /\ regs' \in [dev : Devices \cup {NoDevice}, hz : Clocks \cup {0}]
  BY <1>1, <1>2, <1>3, <1>4
<1>6. regs'.dev \in Limited => regs'.hz <= Limit
  BY <1>3, <1>4 DEF TypeOK
<1>7. curDevice' \in Devices \cup {NoDevice} /\ csLow' \subseteq Devices
  BY <1>1 DEF Configure, TypeOK, d
<1> QED BY <1>5, <1>6, <1>7 DEF Configure, TypeOK, lock, At, Goto, Pc

(* No step takes a field out of its range.                                 *)
LEMMA TypeStep == TypeOK /\ [Next]_vars => TypeOK'
<1> SUFFICES ASSUME TypeOK, [Next]_vars PROVE TypeOK'
  OBVIOUS
<1> USE HandleAssumption, NobodyAssumption, ClocksAssumption
    DEF TypeOK, vars, lock, host, At, Goto, Pc, Op, Unset, AfterDeselect, SelectOk, SelectError
<1>1. ASSUME NEW t \in Tasks, StartCall(t) PROVE TypeOK'
  BY <1>1 DEF StartCall
<1>2. ASSUME NEW t \in Tasks, SetClock(t) PROVE TypeOK'
  BY <1>2 DEF SetClock
<1>3. ASSUME NEW t \in Tasks, EndTransfer(t) PROVE TypeOK'
  BY <1>3 DEF EndTransfer
<1>4. ASSUME NEW t \in Tasks, AlreadySelected(t) PROVE TypeOK'
  BY <1>4 DEF AlreadySelected
<1>5. ASSUME NEW t \in Tasks, NotSelected(t) PROVE TypeOK'
  BY <1>5 DEF NotSelected
<1>6. ASSUME NEW t \in Tasks, TakeSemaphore(t) PROVE TypeOK'
  BY <1>6 DEF TakeSemaphore
<1>7. ASSUME NEW t \in Tasks, TakeTimeout(t) PROVE TypeOK'
  BY <1>7 DEF TakeTimeout
<1>8. ASSUME NEW t \in Tasks, SameBus(t) PROVE TypeOK'
  BY <1>8 DEF SameBus
<1>9. ASSUME NEW t \in Tasks, ChangeBusAborts(t) PROVE TypeOK'
  BY <1>9 DEF ChangeBusAborts, ChangesBus
<1>10. ASSUME NEW t \in Tasks, ChangeBusFails(t) PROVE TypeOK'
  BY <1>10 DEF ChangeBusFails, ChangesBus
<1>11. ASSUME NEW t \in Tasks, ChangeBusDone(t) PROVE TypeOK'
  BY <1>11 DEF ChangeBusDone, ChangesBus
<1>12. ASSUME NEW t \in Tasks, Configure(t) PROVE TypeOK'
  BY <1>12, ConfigureType
<1>13. ASSUME NEW t \in Tasks, MarkSelected(t) PROVE TypeOK'
  BY <1>13 DEF MarkSelected
<1>14. ASSUME NEW t \in Tasks, AlreadyDeselected(t) PROVE TypeOK'
  BY <1>14 DEF AlreadyDeselected
<1>15. ASSUME NEW t \in Tasks, StillSelected(t) PROVE TypeOK'
  BY <1>15 DEF StillSelected
<1>16. ASSUME NEW t \in Tasks, RaiseCs(t) PROVE TypeOK'
  BY <1>16 DEF RaiseCs
<1>17. ASSUME NEW t \in Tasks, MarkDeselected(t) PROVE TypeOK'
  BY <1>17 DEF MarkDeselected
<1>18. ASSUME NEW t \in Tasks, GiveSemaphore(t) PROVE TypeOK'
  BY <1>18 DEF GiveSemaphore
<1>19. CASE UNCHANGED vars
  BY <1>19
<1> QED
  BY <1>1, <1>2, <1>3, <1>4, <1>5, <1>6, <1>7, <1>8, <1>9, <1>10, <1>11, <1>12, <1>13, <1>14, <1>15, <1>16, <1>17, <1>18, <1>19
     DEF Next, Call, Select, Deselect

(* Every step of select, deselect and set_speed preserves it.               *)
LEMMA StepInvariant == IInv /\ [Next]_vars => IInv'
<1> SUFFICES ASSUME IInv, [Next]_vars PROVE IInv'
  OBVIOUS
<1>0. TypeOK'
  BY TypeStep DEF IInv
<1> USE HandleAssumption, NobodyAssumption, OwnHandleAssumption, OneBusAssumption, <1>0
    DEF IInv, TypeOK, HolderHolds, Holding, SelectedInside, CsInside, CsOutside,
        UnusedQuiet, FirstBusKept, HolderIsCurrent, StaleRegs, Settings,
        vars, lock, host, At, Goto, Pc, Op, AfterDeselect, SelectOk, SelectError
<1>1. ASSUME NEW t \in Tasks, StartCall(t) PROVE IInv'
  BY <1>1 DEF StartCall, Unset, Forced
<1>2. ASSUME NEW t \in Tasks, SetClock(t) PROVE IInv'
  BY <1>2 DEF SetClock, Unset, Forced
<1>3. ASSUME NEW t \in Tasks, EndTransfer(t) PROVE IInv'
  BY <1>3 DEF EndTransfer, Unset, Forced
<1>4. ASSUME NEW t \in Tasks, AlreadySelected(t) PROVE IInv'
  BY <1>4 DEF AlreadySelected, Unset, Forced
<1>5. ASSUME NEW t \in Tasks, NotSelected(t) PROVE IInv'
  BY <1>5 DEF NotSelected, Unset, Forced
<1>6. ASSUME NEW t \in Tasks, TakeSemaphore(t) PROVE IInv'
  BY <1>6 DEF TakeSemaphore, Unset, Forced
<1>7. ASSUME NEW t \in Tasks, TakeTimeout(t) PROVE IInv'
  BY <1>7 DEF TakeTimeout, Unset, Forced
<1>8. ASSUME NEW t \in Tasks, SameBus(t) PROVE IInv'
  BY <1>8 DEF SameBus, Unset, Forced
<1>9. ASSUME NEW t \in Tasks, ChangeBusAborts(t) PROVE IInv'
  BY <1>9 DEF ChangeBusAborts, ChangesBus, Unset, Forced
<1>10. ASSUME NEW t \in Tasks, ChangeBusFails(t) PROVE IInv'
  BY <1>10 DEF ChangeBusFails, ChangesBus, Unset, Forced
<1>11. ASSUME NEW t \in Tasks, ChangeBusDone(t) PROVE IInv'
  BY <1>11 DEF ChangeBusDone, ChangesBus, Unset, Forced
<1>12. ASSUME NEW t \in Tasks, Configure(t) PROVE IInv'
  BY <1>12 DEF Configure, Speed, Unset, Forced
<1>13. ASSUME NEW t \in Tasks, MarkSelected(t) PROVE IInv'
  BY <1>13 DEF MarkSelected, Unset, Forced
<1>14. ASSUME NEW t \in Tasks, AlreadyDeselected(t) PROVE IInv'
  BY <1>14 DEF AlreadyDeselected, Unset, Forced
<1>15. ASSUME NEW t \in Tasks, StillSelected(t) PROVE IInv'
  BY <1>15 DEF StillSelected, Unset, Forced
<1>16. ASSUME NEW t \in Tasks, RaiseCs(t) PROVE IInv'
  BY <1>16 DEF RaiseCs, Unset, Forced
<1>17. ASSUME NEW t \in Tasks, MarkDeselected(t) PROVE IInv'
  BY <1>17 DEF MarkDeselected, Unset, Forced
<1>18. ASSUME NEW t \in Tasks, GiveSemaphore(t) PROVE IInv'
  BY <1>18 DEF GiveSemaphore, Unset, Forced
<1>19. CASE UNCHANGED vars
  BY <1>19
<1> QED
  BY <1>1, <1>2, <1>3, <1>4, <1>5, <1>6, <1>7, <1>8, <1>9, <1>10, <1>11, <1>12, <1>13, <1>14, <1>15, <1>16, <1>17, <1>18, <1>19
     DEF Next, Call, Select, Deselect

-----------------------------------------------------------------------------
(* What the invariant gives.                                               *)

(* In every reachable state the invariant holds.                           *)
THEOREM Invariance == Spec => []IInv
  BY InitInvariant, StepInvariant, PTL DEF Spec

(* No call leaves a field of the host or of a handle outside its range.    *)
THEOREM TypeCorrect == Spec => []TypeOK
<1>1. IInv => TypeOK
  BY DEF IInv
<1> QED
  BY <1>1, Invariance, PTL

(* A task transfers only with the semaphore it took in select.             *)
THEOREM TransferHolds == Spec => []TransferHoldsSemaphore
<1>1. IInv => TransferHoldsSemaphore
  BY DEF IInv, HolderHolds, Holding, TransferHoldsSemaphore
<1> QED
  BY <1>1, Invariance, PTL

(* The task that transfers finds the registers set for its device and      *)
(* clock, and no other chip select active.                                 *)
LEMMA TransferSetUp == IInv => TransferToOwnDevice
<1> SUFFICES ASSUME IInv, NEW t \in Tasks, pc[t] = "xfer"
             PROVE  /\ regs = Settings(t)
                    /\ csLow = {HandleOf[t]}
  BY DEF TransferToOwnDevice, Settings
<1> USE HandleAssumption, NobodyAssumption DEF IInv, TypeOK
<1>1. mutex = t
  BY DEF HolderHolds, Holding
<1>2. \A u \in Tasks : Holding(u) => u = t
  BY <1>1 DEF HolderHolds
<1>3. regs = Settings(t)
  <2>1. curDevice = HandleOf[t]
    BY DEF HolderIsCurrent, Holding
  <2>2. \A u \in Tasks \ {t} : pc[u] \notin {"selBus", "selRegs"}
    BY <1>2 DEF Holding
  <2> QED
    BY <2>1, <2>2 DEF StaleRegs
<1>4. HandleOf[t] \in csLow
  BY DEF CsOutside
<1>5. ASSUME NEW d \in csLow PROVE d = HandleOf[t]
  <2>1. PICK u \in Tasks : HandleOf[u] = d
    BY <1>5 DEF UnusedQuiet
  <2>2. Holding(u)
    BY <1>5, <2>1 DEF CsInside, Holding
  <2> QED
    BY <1>2, <2>1, <2>2
<1> QED
  BY <1>3, <1>4, <1>5

(* A transfer goes out with its own device's settings, to it alone.        *)
THEOREM TransferOwn == Spec => []TransferToOwnDevice
  BY TransferSetUp, Invariance, PTL

(* With a handle per task and one bus configuration no assertion fails:    *)
(* the bus is never reconfigured and the semaphore is given only by its    *)
(* holder.  Both conditions are needed, and the firmware, whose tasks      *)
(* share disp_spi, does not meet the first.                                *)
THEOREM Abortless == Spec => []NeverAborts
<1>1. IInv => NeverAborts
  BY DEF IInv, FirstBusKept, NeverAborts
<1> QED
  BY <1>1, Invariance, PTL

(* A free semaphore leaves no device selected and no chip select active.   *)
THEOREM FreeQuiet == Spec => []FreeBusIsQuiet
<1>1. IInv => FreeBusIsQuiet
  <2> SUFFICES ASSUME IInv, mutex = Nobody
               PROVE  \A d \in Devices : d \notin csLow /\ ~selected[d]
    BY DEF FreeBusIsQuiet, IInv, TypeOK
  <2>1. \A t \in Tasks : ~Holding(t)
    BY NobodyAssumption DEF IInv, HolderHolds
  <2>2. \A t \in Tasks : HandleOf[t] \notin csLow /\ ~selected[HandleOf[t]]
    BY <2>1 DEF IInv, CsInside, SelectedInside, Holding
  <2> QED
    BY <2>2 DEF IInv, UnusedQuiet
<1> QED
  BY <1>1, Invariance, PTL

-----------------------------------------------------------------------------
(* The driver implements BusSession.                                       *)

(* During a transfer the session is the transferring task's.                *)
LEMMA SessionOfTransfer ==
  ASSUME IInv, NEW t \in Tasks, pc[t] = "xfer"
  PROVE  Session = [task |-> t, dev |-> HandleOf[t], hz |-> clock[HandleOf[t]]]
<1>1. \A u \in Tasks : pc[u] = "xfer" => u = t
  BY DEF IInv, HolderHolds, Holding
<1>2. regs = Settings(t)
  BY TransferSetUp DEF TransferToOwnDevice, Settings
<1> QED
  BY <1>1, <1>2 DEF Session, Settings

(* Between transfers there is no session.                                   *)
LEMMA NoTransferNoSession ==
  ASSUME \A t \in Tasks : pc[t] # "xfer"
  PROVE  Session = NoSession
  BY DEF Session

(* A step that moves nobody into or out of a transfer, and leaves the       *)
(* registers alone, leaves the session as it is.                           *)
LEMMA SameSession ==
  ASSUME \A t \in Tasks : pc'[t] = "xfer" <=> pc[t] = "xfer", UNCHANGED regs
  PROVE  UNCHANGED Session
  BY DEF Session

(* MarkSelected opens a session, EndTransfer closes it, SetClock and the    *)
(* limit of Configure are the abstract SetClock, and every other step is a  *)
(* stutter.                                                                 *)
LEMMA StepRefines == IInv /\ [Next]_vars => [Promise!Next]_<<Session, clock>>
<1> SUFFICES ASSUME IInv, [Next]_vars
             PROVE  [Promise!Next]_<<Session, clock>>
  OBVIOUS
<1> USE HandleAssumption, NobodyAssumption
<1>1. ASSUME NEW t \in Tasks, MarkSelected(t), op[t] # "speed1"
      PROVE  Promise!Open(t)
  <2>1. \A u \in Tasks : pc[u] # "xfer"
    BY <1>1 DEF MarkSelected, At, IInv, HolderHolds, Holding
  <2>2. Session = NoSession
    BY <2>1, NoTransferNoSession
  <2>3. pc'[t] = "xfer" /\ clock' = clock
    BY <1>1 DEF MarkSelected, SelectOk, Goto, At, IInv, TypeOK
  <2>4. curDevice = HandleOf[t] /\ \A u \in Tasks \ {t} : pc[u] \notin {"selBus", "selRegs"}
    BY <1>1 DEF MarkSelected, At, IInv, HolderHolds, HolderIsCurrent, Holding
  <2>5. regs = Settings(t)
    BY <1>1, <2>4 DEF MarkSelected, At, IInv, StaleRegs
  <2>6. regs' = regs /\ \A u \in Tasks : pc'[u] = "xfer" => u = t
    BY <1>1, <2>1 DEF MarkSelected, Goto, SelectOk, host, IInv, TypeOK
  <2>7. Session' = [task |-> t, dev |-> HandleOf[t], hz |-> clock[HandleOf[t]]]
    BY <2>3, <2>5, <2>6 DEF Session, Settings
  <2> QED
    BY <2>2, <2>3, <2>7 DEF Promise!Open, Promise!Settings
<1>2. ASSUME NEW t \in Tasks, EndTransfer(t)
      PROVE  Promise!Close(t)
  <2>1. pc[t] = "xfer" /\ pc' = [pc EXCEPT ![t] = "desCheck"] /\ clock' = clock
    BY <1>2 DEF EndTransfer, At, Goto
  <2>2. Session = [task |-> t, dev |-> HandleOf[t], hz |-> clock[HandleOf[t]]]
    BY <2>1, SessionOfTransfer
  <2>3. \A u \in Tasks : pc'[u] # "xfer"
    BY <2>1 DEF IInv, TypeOK, HolderHolds, Holding
  <2>4. Session' = NoSession
    BY <2>3 DEF Session
  <2> QED
    BY <2>1, <2>2, <2>4 DEF Promise!Close, Promise!Settings
<1>3. ASSUME NEW t \in Tasks, SetClock(t)
      PROVE  \E hz \in Clocks : Promise!SetClock(t, hz)
  <2>1. pc[t] = "setClock" /\ pc' = [pc EXCEPT ![t] = "selCheck"] /\ UNCHANGED regs
    BY <1>3 DEF SetClock, At, Goto, host
  <2>2. PICK hz \in Clocks : clock' = [clock EXCEPT ![HandleOf[t]] = hz]
    BY <1>3 DEF SetClock
  <2>3. UNCHANGED Session
    BY <2>1, SameSession DEF IInv, TypeOK
  <2>4. Session # Promise!Settings(t)
    <3>1. CASE \E u \in Tasks : pc[u] = "xfer"
      <4>1. PICK u \in Tasks : pc[u] = "xfer"
        BY <3>1
      <4> QED
        BY <4>1, <2>1, SessionOfTransfer DEF Promise!Settings
    <3>2. CASE \A u \in Tasks : pc[u] # "xfer"
      BY <3>2, NoTransferNoSession, NoSessionAssumption DEF Promise!Settings, IInv, TypeOK
    <3> QED
      BY <3>1, <3>2
  <2> QED
    BY <2>2, <2>3, <2>4 DEF Promise!SetClock
<1>4. ASSUME NEW t \in Tasks, Configure(t)
      PROVE  UNCHANGED <<Session, clock>> \/ \E hz \in Clocks : Promise!SetClock(t, hz)
  <2>1. pc[t] = "selRegs" /\ pc' = [pc EXCEPT ![t] = "selMark"]
    BY <1>4 DEF Configure, At, Goto
  <2>2. \A u \in Tasks : pc[u] # "xfer" /\ pc'[u] # "xfer"
    BY <2>1 DEF IInv, TypeOK, HolderHolds, Holding
  <2>3. Session = NoSession /\ Session' = NoSession
    BY <2>2 DEF Session
  <2>4. Speed(HandleOf[t]) \in Clocks
    BY ClocksAssumption DEF Speed, IInv, TypeOK
  <2>5. NoSession # Promise!Settings(t)
    BY NoSessionAssumption DEF Promise!Settings, IInv, TypeOK
  <2>6. clock' = clock \/ clock' = [clock EXCEPT ![HandleOf[t]] = Speed(HandleOf[t])]
    BY <1>4 DEF Configure
  <2> QED
    BY <2>3, <2>4, <2>5, <2>6 DEF Promise!SetClock
<1>5. ASSUME NEW t \in Tasks, MarkSelected(t), op[t] = "speed1"
      PROVE  UNCHANGED <<Session, clock>>
  BY <1>5, SameSession DEF MarkSelected, SelectOk, At, Goto, host, IInv, TypeOK
<1>6. ASSUME NEW t \in Tasks, StartCall(t) PROVE UNCHANGED <<Session, clock>>
  BY <1>6, SameSession
  DEF StartCall, At, Goto, AfterDeselect, SelectError, lock, host, IInv, TypeOK
<1>7. ASSUME NEW t \in Tasks, NotSelected(t) PROVE UNCHANGED <<Session, clock>>
  BY <1>7, SameSession
  DEF NotSelected, At, Goto, AfterDeselect, SelectError, lock, host, IInv, TypeOK
<1>8. ASSUME NEW t \in Tasks, TakeSemaphore(t) PROVE UNCHANGED <<Session, clock>>
  BY <1>8, SameSession
  DEF TakeSemaphore, At, Goto, AfterDeselect, SelectError, lock, host, IInv, TypeOK
<1>9. ASSUME NEW t \in Tasks, TakeTimeout(t) PROVE UNCHANGED <<Session, clock>>
  BY <1>9, SameSession
  DEF TakeTimeout, At, Goto, AfterDeselect, SelectError, lock, host, IInv, TypeOK
<1>10. ASSUME NEW t \in Tasks, SameBus(t) PROVE UNCHANGED <<Session, clock>>
  BY <1>10, SameSession
  DEF SameBus, At, Goto, AfterDeselect, SelectError, lock, host, IInv, TypeOK
<1>11. ASSUME NEW t \in Tasks, AlreadyDeselected(t) PROVE UNCHANGED <<Session, clock>>
  BY <1>11, SameSession
  DEF AlreadyDeselected, At, Goto, AfterDeselect, SelectError, lock, host, IInv, TypeOK
<1>12. ASSUME NEW t \in Tasks, StillSelected(t) PROVE UNCHANGED <<Session, clock>>
  BY <1>12, SameSession
  DEF StillSelected, At, Goto, AfterDeselect, SelectError, lock, host, IInv, TypeOK
<1>13. ASSUME NEW t \in Tasks, RaiseCs(t) PROVE UNCHANGED <<Session, clock>>
  BY <1>13, SameSession
  DEF RaiseCs, At, Goto, AfterDeselect, SelectError, lock, host, IInv, TypeOK
<1>14. ASSUME NEW t \in Tasks, MarkDeselected(t) PROVE UNCHANGED <<Session, clock>>
  BY <1>14, SameSession
  DEF MarkDeselected, At, Goto, AfterDeselect, SelectError, lock, host, IInv, TypeOK
<1>15. ASSUME NEW t \in Tasks, GiveSemaphore(t) PROVE UNCHANGED <<Session, clock>>
  BY <1>15, SameSession
  DEF GiveSemaphore, At, Goto, AfterDeselect, SelectError, lock, host, IInv, TypeOK
<1>16. ASSUME NEW t \in Tasks PROVE ~AlreadySelected(t)
  BY DEF AlreadySelected, At, IInv, SelectedInside
<1>17. ASSUME NEW t \in Tasks
      PROVE  ~(ChangeBusAborts(t) \/ ChangeBusFails(t) \/ ChangeBusDone(t))
  BY OneBusAssumption
  DEF ChangeBusAborts, ChangeBusFails, ChangeBusDone, ChangesBus, IInv, FirstBusKept
<1>18. CASE UNCHANGED vars
  BY <1>18, SameSession DEF vars, host
<1> QED
  BY <1>1, <1>2, <1>3, <1>4, <1>5, <1>6, <1>7, <1>8, <1>9, <1>10, <1>11, <1>12, <1>13, <1>14, <1>15, <1>16, <1>17, <1>18
     DEF Next, Call, Select, Deselect, Promise!Next

(* Every behaviour of the driver is one of BusSession: one session at a    *)
(* time, with its own task's device and clock.                             *)
THEOREM Implements == Spec => SessionsExclusive
<1>1. Init => Promise!Init
  BY DEF Init, Promise!Init, Session
<1> QED
  BY <1>1, Invariance, StepRefines, PTL DEF Spec, SessionsExclusive, Promise!Spec

=============================================================================
