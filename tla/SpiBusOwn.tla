----------------------------- MODULE SpiBusOwn ------------------------------
(***************************************************************************)
(* The bus as spi_master_lobo can share it: a handle per task, all with    *)
(* the bus configuration the host was initialised with.                    *)
(***************************************************************************)
EXTENDS SpiBus

CONSTANT NoSession

ASSUME OwnHandleAssumption ==
    \A t, u \in Tasks : HandleOf[t] = HandleOf[u] => t = u
ASSUME OneBusAssumption == \A d \in Devices : BusOf[d] = FirstBus
ASSUME NoSessionAssumption ==
    NoSession \notin [task : Tasks, dev : Devices, hz : Clocks]

(* The task that is transferring, and what goes out. *)
Session ==
    IF \E t \in Tasks : pc[t] = "xfer"
      THEN [task |-> CHOOSE t \in Tasks : pc[t] = "xfer",
            dev |-> regs.dev, hz |-> regs.hz]
      ELSE NoSession

Promise == INSTANCE BusSession WITH session <- Session

(* The driver keeps the promise of BusSession. *)
SessionsExclusive == Promise!Spec

=============================================================================
