----------------------------- MODULE BusSession -----------------------------
(***************************************************************************)
(* What the bus driver promises the tasks that share a host: one session   *)
(* at a time, on the device of the task that opened it and at the clock    *)
(* that device was last given.                                             *)
(***************************************************************************)
CONSTANTS Tasks, Devices, HandleOf, Clocks, NoSession

VARIABLES session,  \* the settings in force, NoSession between sessions
          clock     \* the clock of each device

Settings(t) == [task |-> t, dev |-> HandleOf[t], hz |-> clock[HandleOf[t]]]

Init == session = NoSession /\ clock \in [Devices -> Clocks]

Open(t) ==
    /\ session = NoSession
    /\ session' = Settings(t) /\ clock' = clock

Close(t) ==
    /\ session = Settings(t)
    /\ session' = NoSession /\ clock' = clock

(* A device's clock does not change under its own session. *)
SetClock(t, hz) ==
    /\ session # Settings(t)
    /\ clock' = [clock EXCEPT ![HandleOf[t]] = hz] /\ session' = session

Next == \E t \in Tasks : Open(t) \/ Close(t) \/ \E hz \in Clocks : SetClock(t, hz)

Spec == Init /\ [][Next]_<<session, clock>>

=============================================================================
