--------------------------- MODULE MCSpiTwoBuses ----------------------------
(* Two devices with bus configurations of their own, both other than the   *)
(* one the host was initialised with, and two tasks share the second one.  *)
EXTENDS SpiBus, TLC

CONSTANTS t1, t2, t3, d1, d2, busA, busB, busFirst

SharedHandle == ((t1 :> d1) @@ (t2 :> d2) @@ (t3 :> d2))
TwoSlot      == ((d1 :> 2) @@ (d2 :> 1))
TwoBus       == ((d1 :> busA) @@ (d2 :> busB))

=============================================================================
