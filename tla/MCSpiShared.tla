---------------------------- MODULE MCSpiShared -----------------------------
(* The application: ScreenUpdateTask and GetSystemParams draw through disp_spi. *)
EXTENDS SpiBus, TLC

CONSTANTS screen, params, disp, busA

DispHandle == [t \in Tasks |-> disp]
DispSlot   == [d \in Devices |-> 0]
DispBus    == [d \in Devices |-> busA]

=============================================================================
