------------------------------ MODULE MCSpiOwn ------------------------------
(* Two tasks with a handle each on one bus. *)
EXTENDS SpiBusOwn, TLC

CONSTANTS t1, t2, d1, d2, busA

OwnHandle == ((t1 :> d1) @@ (t2 :> d2))
OwnSlot   == ((d1 :> 0) @@ (d2 :> 1))
OneBus    == [d \in Devices |-> busA]

=============================================================================
