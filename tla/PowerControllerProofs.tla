----------------------- MODULE PowerControllerProofs -----------------------
(***************************************************************************)
(* Type correctness and the safety properties of PowerController, for      *)
(* every MaxPresses and every set of loads and battery classes.            *)
(***************************************************************************)
EXTENDS PowerController, TLAPS

-----------------------------------------------------------------------------
(* No access leaves a variable outside its range. *)
LEMMA TypeStep == TypeOK /\ [Next]_vars => TypeOK'
<1> SUFFICES ASSUME TypeOK, [Next]_vars PROVE TypeOK'
  OBVIOUS
<1> USE LoadsAssumption, BatteriesAssumption
    DEF TypeOK, inputs, power, screen, draw, meter, Bit, SystemState, Alarm,
        Battery, InputPc, ParamsPc, ScreenPc
<1>1. CASE InputTask
  <2>1. CASE SenseLow  BY <2>1 DEF SenseLow, InAt
  <2>2. CASE SenseClear  BY <2>2 DEF SenseClear, InAt
  <2>3. CASE SenseTrip  BY <2>3 DEF SenseTrip, InAt
  <2>4. CASE SenseGlitch  BY <2>4 DEF SenseGlitch, InAt
  <2>5. CASE TripPin  BY <2>5 DEF TripPin, InAt, SetInverterPin
  <2>6. CASE TripState  BY <2>6 DEF TripState, InAt
  <2>7. CASE ButtonRead  BY <2>7 DEF ButtonRead, InAt
  <2>8. CASE Press  BY <2>8 DEF Press, InAt
  <2>9. CASE PressInverter  BY <2>9 DEF PressInverter, InAt
  <2>10. CASE PressPin  BY <2>10 DEF PressPin, InAt, SetInverterPin
  <2>11. CASE PressLit  BY <2>11 DEF PressLit, InAt
  <2>12. CASE WakeRead  BY <2>12 DEF WakeRead, InAt
  <2>13. CASE WakeSet  BY <2>13 DEF WakeSet, InAt
  <2>14. CASE Flash  BY <2>14 DEF Flash, InAt
  <2> QED  BY <1>1, <2>1, <2>2, <2>3, <2>4, <2>5, <2>6, <2>7, <2>8, <2>9, <2>10, <2>11, <2>12, <2>13, <2>14 DEF InputTask
<1>2. CASE ParamsTask
  <2>1. CASE SampleAndCharger  BY <2>1 DEF SampleAndCharger, ParAt
  <2>2. CASE LowRead  BY <2>2 DEF LowRead, ParAt
  <2>3. CASE LowState  BY <2>3 DEF LowState, ParAt
  <2>4. CASE ParInverterOff  BY <2>4 DEF ParInverterOff, ParAt
  <2>5. CASE ParPinOff  BY <2>5 DEF ParPinOff, ParAt, SetInverterPin
  <2>6. CASE ResetRead  BY <2>6 DEF ResetRead, ParAt
  <2>7. CASE ResetNormal  BY <2>7 DEF ResetNormal, ParAt
  <2>8. CASE SourceOn  BY <2>8 DEF SourceOn, ParAt
  <2>9. CASE SourceOff  BY <2>9 DEF SourceOff, ParAt
  <2>10. CASE Charge  BY <2>10 DEF Charge, ParAt
  <2>11. CASE ChargeLit  BY <2>11 DEF ChargeLit, ParAt
  <2>12. CASE LoadCheck  BY <2>12 DEF LoadCheck, ParAt
  <2>13. CASE GraceRecheck  BY <2>13 DEF GraceRecheck, ParAt
  <2>14. CASE OverState  BY <2>14 DEF OverState, ParAt
  <2>15. CASE LoadStore  BY <2>15 DEF LoadStore, ParAt
  <2>16. CASE LoadClamp  BY <2>16 DEF LoadClamp, ParAt
  <2> QED  BY <1>2, <2>1, <2>2, <2>3, <2>4, <2>5, <2>6, <2>7, <2>8, <2>9, <2>10, <2>11, <2>12, <2>13, <2>14, <2>15, <2>16 DEF ParamsTask
<1>3. CASE ScreenTask
  <2>1. CASE DefaultLoadRead  BY <2>1 DEF DefaultLoadRead, ScrAt
  <2>2. CASE Redraw  BY <2>2 DEF Redraw, ScrAt
  <2>3. CASE RedrawDone  BY <2>3 DEF RedrawDone, ScrAt
  <2>4. CASE RedrawNormal  BY <2>4 DEF RedrawNormal, ScrAt
  <2>5. CASE ShowGauge  BY <2>5 DEF ShowGauge, ScrAt
  <2>6. CASE ShowOverload  BY <2>6 DEF ShowOverload, ScrAt
  <2>7. CASE ShowBatteryLow  BY <2>7 DEF ShowBatteryLow, ScrAt
  <2>8. CASE Acknowledge  BY <2>8 DEF Acknowledge, ScrAt
  <2> QED  BY <1>3, <2>1, <2>2, <2>3, <2>4, <2>5, <2>6, <2>7, <2>8 DEF ScreenTask
<1>4. CASE World
  <2>1. CASE LineChange  BY <2>1 DEF LineChange
  <2>2. CASE ButtonDown  BY <2>2 DEF ButtonDown
  <2>3. CASE ButtonUp  BY <2>3 DEF ButtonUp
  <2>4. CASE WatchdogReset  BY <2>4 DEF WatchdogReset
  <2> QED  BY <1>4, <2>1, <2>2, <2>3, <2>4 DEF World
<1>5. CASE UNCHANGED vars  BY <1>5 DEF vars
<1> QED  BY <1>1, <1>2, <1>3, <1>4, <1>5 DEF Next

THEOREM TypeCorrect == Spec => []TypeOK
<1>1. Init => TypeOK
  BY LoadsAssumption
     DEF Init, TypeOK, Bit, SystemState, Alarm, Battery, InputPc, ParamsPc, ScreenPc
<1> QED  BY <1>1, TypeStep, PTL DEF Spec

-----------------------------------------------------------------------------
(* The inductive invariant.  Each part adds to the property it carries the *)
(* program points at which the property could otherwise be lost.           *)

(* A button seen released at the end of the spin was released once more    *)
(* than the switch was flipped.                                            *)
PressCounted ==
    OnePressOneToggle /\ (pcI = "hold" /\ btn = 0 => toggles < releases)

(* Every way to the supply test rewrites Charging first: the reset to      *)
(* Normal, or the low-battery alarm.                                       *)
ChargingIsRewritten ==
    sysState = "Charging" => pcP \notin {"lowInv", "lowPin", "store", "clamp", "source", "charge"}

(* An alarm is drawn before it is acknowledged. *)
AlarmDrawn == pcS = "ack" => panel \in Alarm

(* The grace delay is entered, and left, with a load above the limit. *)
GraceOverLimit == pcP = "grace" => LoadPwr > 310

IInv == /\ TypeOK
        /\ PressCounted
        /\ CommandFollowsSwitch
        /\ ChargingIsRewritten
        /\ PanelLitWhileOn
        /\ AlarmDrawn /\ NoneMeansAlarmShown
        /\ GraceOverLimit

(* Only Press flips the switch, and it waits for a release. *)
LEMMA PressCountedStep == TypeOK /\ PressCounted /\ [Next]_vars => PressCounted'
<1> SUFFICES ASSUME TypeOK, PressCounted, [Next]_vars PROVE PressCounted'
  OBVIOUS
<1> USE DEF TypeOK, PressCounted, OnePressOneToggle, Bit, inputs, power, screen, draw, meter
<1>1. CASE InputTask
  <2>1. CASE ButtonRead  BY <2>1 DEF ButtonRead, InAt
  <2>2. CASE Press  BY <2>2 DEF Press, InAt
  <2> QED  BY <1>1, <2>1, <2>2 DEF InputTask, SenseLow, SenseClear, SenseTrip,
             SenseGlitch, TripPin, TripState, PressInverter, PressPin,
             PressLit, WakeRead, WakeSet, Flash, InAt, SetInverterPin
<1>2. CASE ParamsTask
  BY <1>2 DEF ParamsTask, SampleAndCharger, LowRead, LowState, ParInverterOff,
         ParPinOff, ResetRead, ResetNormal, SourceOn, SourceOff, Charge,
         ChargeLit, LoadStore, LoadClamp, LoadCheck, GraceRecheck, OverState,
         ParAt, SetInverterPin
<1>3. CASE ScreenTask
  BY <1>3 DEF ScreenTask, DefaultLoadRead, Redraw, RedrawDone, RedrawNormal,
         ShowGauge, ShowOverload, ShowBatteryLow, Acknowledge, ScrAt
<1>4. CASE World
  <2>1. CASE ButtonDown  BY <2>1 DEF ButtonDown
  <2>2. CASE ButtonUp  BY <2>2 DEF ButtonUp
  <2>3. CASE WatchdogReset  BY <2>3 DEF WatchdogReset
  <2> QED  BY <1>4, <2>1, <2>2, <2>3 DEF World, LineChange
<1>5. CASE UNCHANGED vars  BY <1>5 DEF vars
<1> QED  BY <1>1, <1>2, <1>3, <1>4, <1>5 DEF Next

(* Every alarm path writes 0; a press copies the switch. *)
LEMMA CommandStep == TypeOK /\ CommandFollowsSwitch /\ [Next]_vars => CommandFollowsSwitch'
<1> SUFFICES ASSUME TypeOK, CommandFollowsSwitch, [Next]_vars PROVE CommandFollowsSwitch'
  OBVIOUS
<1> USE DEF TypeOK, CommandFollowsSwitch, Bit, inputs, power, screen, draw, meter
<1>1. CASE InputTask
  <2>1. CASE SenseTrip  BY <2>1 DEF SenseTrip, InAt
  <2>2. CASE Press  BY <2>2 DEF Press, InAt
  <2>3. CASE PressInverter  BY <2>3 DEF PressInverter, InAt
  <2> QED  BY <1>1, <2>1, <2>2, <2>3 DEF InputTask, SenseLow, SenseClear,
             SenseGlitch, TripPin, TripState, ButtonRead, PressPin, PressLit,
             WakeRead, WakeSet, Flash, InAt, SetInverterPin
<1>2. CASE ParamsTask
  <2>1. CASE ParInverterOff  BY <2>1 DEF ParInverterOff, ParAt
  <2> QED  BY <1>2, <2>1 DEF ParamsTask, SampleAndCharger, LowRead, LowState,
             ParPinOff, ResetRead, ResetNormal, SourceOn, SourceOff, Charge,
             ChargeLit, LoadStore, LoadClamp, LoadCheck, GraceRecheck, OverState, ParAt,
             SetInverterPin
<1>3. CASE ScreenTask
  BY <1>3 DEF ScreenTask, DefaultLoadRead, Redraw, RedrawDone, RedrawNormal,
         ShowGauge, ShowOverload, ShowBatteryLow, Acknowledge, ScrAt
<1>4. CASE World
  <2>1. CASE WatchdogReset  BY <2>1 DEF WatchdogReset
  <2> QED  BY <1>4, <2>1 DEF World, LineChange, ButtonDown, ButtonUp
<1>5. CASE UNCHANGED vars  BY <1>5 DEF vars
<1> QED  BY <1>1, <1>2, <1>3, <1>4, <1>5 DEF Next

(* The other two tasks write None, Normal or an alarm, never Charging. *)
LEMMA ChargingStep == TypeOK /\ ChargingIsRewritten /\ [Next]_vars => ChargingIsRewritten'
<1> SUFFICES ASSUME TypeOK, ChargingIsRewritten, [Next]_vars PROVE ChargingIsRewritten'
  OBVIOUS
<1> USE DEF TypeOK, ChargingIsRewritten, inputs, power, screen, draw, meter
<1>1. CASE InputTask
  BY <1>1 DEF InputTask, SenseLow, SenseClear, SenseTrip, SenseGlitch,
         TripPin, TripState, ButtonRead, Press, PressInverter, PressPin,
         PressLit, WakeRead, WakeSet, Flash, InAt, SetInverterPin
<1>2. CASE ParamsTask
  <2>1. CASE LowRead  BY <2>1 DEF LowRead, ParAt
  <2>2. CASE LowState  BY <2>2 DEF LowState, ParAt
  <2>3. CASE ResetRead  BY <2>3 DEF ResetRead, ParAt
  <2>4. CASE ResetNormal  BY <2>4 DEF ResetNormal, ParAt
  <2>5. CASE SourceOn  BY <2>5 DEF SourceOn, ParAt
  <2>6. CASE SourceOff  BY <2>6 DEF SourceOff, ParAt
  <2>7. CASE Charge  BY <2>7 DEF Charge, ParAt
  <2> QED  BY <1>2, <2>1, <2>2, <2>3, <2>4, <2>5, <2>6, <2>7 DEF ParamsTask,
             SampleAndCharger, ParInverterOff, ParPinOff, ChargeLit,
             LoadStore, LoadClamp, LoadCheck, GraceRecheck, OverState, ParAt, SetInverterPin
<1>3. CASE ScreenTask
  BY <1>3 DEF ScreenTask, DefaultLoadRead, Redraw, RedrawDone, RedrawNormal,
         ShowGauge, ShowOverload, ShowBatteryLow, Acknowledge, ScrAt
<1>4. CASE World
  BY <1>4 DEF World, LineChange, ButtonDown, ButtonUp, WatchdogReset
<1>5. CASE UNCHANGED vars  BY <1>5 DEF vars
<1> QED  BY <1>1, <1>2, <1>3, <1>4, <1>5 DEF Next

(* The only other step that darkens the panel is dead. *)
LEMMA PanelLitStep == TypeOK /\ ChargingIsRewritten /\ PanelLitWhileOn /\ [Next]_vars => PanelLitWhileOn'
<1> SUFFICES ASSUME TypeOK, ChargingIsRewritten, PanelLitWhileOn, [Next]_vars PROVE PanelLitWhileOn'
  OBVIOUS
<1> USE DEF TypeOK, ChargingIsRewritten, PanelLitWhileOn, Bit, inputs, power, screen, draw, meter
<1>1. CASE InputTask
  <2>1. CASE Press  BY <2>1 DEF Press, InAt
  <2>2. CASE PressInverter  BY <2>2 DEF PressInverter, InAt
  <2>3. CASE PressPin  BY <2>3 DEF PressPin, InAt, SetInverterPin
  <2>4. CASE PressLit  BY <2>4 DEF PressLit, InAt
  <2> QED  BY <1>1, <2>1, <2>2, <2>3, <2>4 DEF InputTask, SenseLow,
             SenseClear, SenseTrip, SenseGlitch, TripPin, TripState,
             ButtonRead, WakeRead, WakeSet, Flash, InAt, SetInverterPin
<1>2. CASE ParamsTask
  <2>1. CASE SourceOff  BY <2>1 DEF SourceOff, ParAt
  <2>2. CASE ChargeLit  BY <2>2 DEF ChargeLit, ParAt
  <2> QED  BY <1>2, <2>1, <2>2 DEF ParamsTask, SampleAndCharger, LowRead,
             LowState, ParInverterOff, ParPinOff, ResetRead, ResetNormal,
             SourceOn, Charge, LoadStore, LoadClamp, LoadCheck, GraceRecheck, OverState, ParAt,
             SetInverterPin
<1>3. CASE ScreenTask
  BY <1>3 DEF ScreenTask, DefaultLoadRead, Redraw, RedrawDone, RedrawNormal,
         ShowGauge, ShowOverload, ShowBatteryLow, Acknowledge, ScrAt
<1>4. CASE World
  <2>1. CASE WatchdogReset  BY <2>1 DEF WatchdogReset
  <2> QED  BY <1>4, <2>1 DEF World, LineChange, ButtonDown, ButtonUp
<1>5. CASE UNCHANGED vars  BY <1>5 DEF vars
<1> QED  BY <1>1, <1>2, <1>3, <1>4, <1>5 DEF Next

(* Only the screen task draws the panel or writes None. *)
LEMMA AlarmShownStep == TypeOK /\ AlarmDrawn /\ NoneMeansAlarmShown /\ [Next]_vars => (AlarmDrawn /\ NoneMeansAlarmShown)'
<1> SUFFICES ASSUME TypeOK, AlarmDrawn, NoneMeansAlarmShown, [Next]_vars PROVE (AlarmDrawn /\ NoneMeansAlarmShown)'
  OBVIOUS
<1> USE DEF TypeOK, AlarmDrawn, NoneMeansAlarmShown, Alarm, inputs, power, screen, draw, meter
<1>1. CASE InputTask
  <2>1. CASE TripState  BY <2>1 DEF TripState, InAt
  <2> QED  BY <1>1, <2>1 DEF InputTask, SenseLow, SenseClear, SenseTrip,
             SenseGlitch, TripPin, ButtonRead, Press, PressInverter, PressPin,
             PressLit, WakeRead, WakeSet, Flash, InAt, SetInverterPin
<1>2. CASE ParamsTask
  <2>1. CASE LowState  BY <2>1 DEF LowState, ParAt
  <2>2. CASE ResetNormal  BY <2>2 DEF ResetNormal, ParAt
  <2>3. CASE SourceOff  BY <2>3 DEF SourceOff, ParAt
  <2>4. CASE Charge  BY <2>4 DEF Charge, ParAt
  <2>5. CASE OverState  BY <2>5 DEF OverState, ParAt
  <2> QED  BY <1>2, <2>1, <2>2, <2>3, <2>4, <2>5 DEF ParamsTask,
             SampleAndCharger, LowRead, ParInverterOff, ParPinOff, ResetRead,
             SourceOn, ChargeLit, LoadStore, LoadClamp, LoadCheck, GraceRecheck, ParAt,
             SetInverterPin
<1>3. CASE ScreenTask
  <2>1. CASE DefaultLoadRead  BY <2>1 DEF DefaultLoadRead, ScrAt
  <2>2. CASE Redraw  BY <2>2 DEF Redraw, ScrAt
  <2>3. CASE RedrawDone  BY <2>3 DEF RedrawDone, ScrAt
  <2>4. CASE RedrawNormal  BY <2>4 DEF RedrawNormal, ScrAt
  <2>5. CASE ShowGauge  BY <2>5 DEF ShowGauge, ScrAt
  <2>6. CASE ShowOverload  BY <2>6 DEF ShowOverload, ScrAt
  <2>7. CASE ShowBatteryLow  BY <2>7 DEF ShowBatteryLow, ScrAt
  <2>8. CASE Acknowledge  BY <2>8 DEF Acknowledge, ScrAt
  <2> QED  BY <1>3, <2>1, <2>2, <2>3, <2>4, <2>5, <2>6, <2>7, <2>8 DEF
             ScreenTask, ScrAt
<1>4. CASE World
  BY <1>4 DEF World, LineChange, ButtonDown, ButtonUp, WatchdogReset
<1>5. CASE UNCHANGED vars  BY <1>5 DEF vars
<1> QED  BY <1>1, <1>2, <1>3, <1>4, <1>5 DEF Next

(* LoadPwr is written before the check of a round, never after it. *)
LEMMA GraceStep == TypeOK /\ GraceOverLimit /\ [Next]_vars => GraceOverLimit'
<1> SUFFICES ASSUME TypeOK, GraceOverLimit, [Next]_vars PROVE GraceOverLimit'
  OBVIOUS
<1> USE LoadsAssumption DEF TypeOK, GraceOverLimit, inputs, power, screen, draw, meter
<1>1. CASE InputTask
  BY <1>1 DEF InputTask, SenseLow, SenseClear, SenseTrip, SenseGlitch,
         TripPin, TripState, ButtonRead, Press, PressInverter, PressPin,
         PressLit, WakeRead, WakeSet, Flash, InAt, SetInverterPin
<1>2. CASE ParamsTask
  <2>1. CASE LoadCheck  BY <2>1 DEF LoadCheck, ParAt
  <2>2. CASE GraceRecheck  BY <2>2 DEF GraceRecheck, ParAt
  <2>3. CASE LoadStore  BY <2>3 DEF LoadStore, ParAt
  <2>4. CASE LoadClamp  BY <2>4 DEF LoadClamp, ParAt
  <2> QED  BY <1>2, <2>1, <2>2, <2>3, <2>4 DEF ParamsTask, SampleAndCharger, LowRead,
             LowState, ParInverterOff, ParPinOff, ResetRead, ResetNormal,
             SourceOn, SourceOff, Charge, ChargeLit, OverState, ParAt,
             SetInverterPin
<1>3. CASE ScreenTask
  BY <1>3 DEF ScreenTask, DefaultLoadRead, Redraw, RedrawDone, RedrawNormal,
         ShowGauge, ShowOverload, ShowBatteryLow, Acknowledge, ScrAt
<1>4. CASE World
  <2>1. CASE WatchdogReset  BY <2>1 DEF WatchdogReset
  <2> QED  BY <1>4, <2>1 DEF World, LineChange, ButtonDown, ButtonUp
<1>5. CASE UNCHANGED vars  BY <1>5 DEF vars
<1> QED  BY <1>1, <1>2, <1>3, <1>4, <1>5 DEF Next

THEOREM Invariance == Spec => []IInv
<1>1. Init => IInv
  BY LoadsAssumption
     DEF Init, IInv, TypeOK, PressCounted, OnePressOneToggle,
         CommandFollowsSwitch, ChargingIsRewritten, PanelLitWhileOn, AlarmDrawn,
         NoneMeansAlarmShown, GraceOverLimit, Bit, SystemState, Alarm, Battery,
         InputPc, ParamsPc, ScreenPc
<1>2. IInv /\ [Next]_vars => IInv'
  BY TypeStep, PressCountedStep, CommandStep, ChargingStep, PanelLitStep,
     AlarmShownStep, GraceStep DEF IInv
<1> QED  BY <1>1, <1>2, PTL DEF Spec

(* One press flips the switch at most once. *)
THEOREM OnePress == Spec => []OnePressOneToggle
<1>1. IInv => OnePressOneToggle  BY DEF IInv, PressCounted
<1> QED  BY <1>1, Invariance, PTL

(* The inverter is commanded on only while the switch is on. *)
THEOREM Command == Spec => []CommandFollowsSwitch
<1>1. IInv => CommandFollowsSwitch  BY DEF IInv
<1> QED  BY <1>1, Invariance, PTL

(* The branch that ends charging and darkens the panel is dead code. *)
THEOREM ChargingDead == Spec => []ChargingIsDeadHere
<1>1. IInv => ChargingIsDeadHere
  BY DEF IInv, ChargingIsRewritten, ChargingIsDeadHere
<1> QED  BY <1>1, Invariance, PTL

(* A switch that is on keeps its panel lit. *)
THEOREM PanelLit == Spec => []PanelLitWhileOn
<1>1. IInv => PanelLitWhileOn  BY DEF IInv
<1> QED  BY <1>1, Invariance, PTL

(* The limits are disabled only while an alarm is on the panel. *)
THEOREM AlarmShown == Spec => []NoneMeansAlarmShown
<1>1. IInv => NoneMeansAlarmShown  BY DEF IInv
<1> QED  BY <1>1, Invariance, PTL

(* No trip, and no race of a trip with a press, raises the inverter pin by *)
(* itself: only the charger does, or a switch that is on.                  *)
THEOREM PinRises == Spec => PinRisesForSwitch
<1>1. ASSUME IInv, [Next]_vars, gpio18 = 0, gpio18' = 1, pcP # "sample"
      PROVE  screenState = 1 \/ pcI = "press"
  <2>1. inverterState \in Bit /\ screenState \in Bit /\ CommandFollowsSwitch
    BY <1>1 DEF IInv, TypeOK
  <2> USE <1>1, <2>1
      DEF CommandFollowsSwitch, SetInverterPin, Bit, inputs, power, screen, draw, meter
  <2>2. CASE InputTask
    BY <2>2 DEF InputTask, SenseLow, SenseClear, SenseTrip, SenseGlitch, TripPin,
         TripState, ButtonRead, Press, PressInverter, PressPin, PressLit,
         WakeRead, WakeSet, Flash
  <2>3. CASE ParamsTask
    BY <2>3 DEF ParamsTask, ParAt, SampleAndCharger, LowRead, LowState,
         ParInverterOff, ParPinOff, ResetRead, ResetNormal, SourceOn, SourceOff,
         Charge, ChargeLit, LoadStore, LoadClamp, LoadCheck, GraceRecheck, OverState
  <2>4. CASE ScreenTask
    BY <2>4 DEF ScreenTask, DefaultLoadRead, Redraw, RedrawDone, RedrawNormal,
         ShowGauge, ShowOverload, ShowBatteryLow, Acknowledge
  <2>5. CASE World
    BY <2>5 DEF World, LineChange, ButtonDown, ButtonUp, WatchdogReset
  <2>6. CASE UNCHANGED vars  BY <2>6 DEF vars
  <2> QED  BY <2>2, <2>3, <2>4, <2>5, <2>6 DEF Next
<1> QED  BY <1>1, Invariance, PTL DEF Spec, PinRisesForSwitch

(* The re-check after the grace delay never clears a load it was started   *)
(* by.                                                                     *)
THEOREM GraceTrips == Spec => GraceAlwaysTrips
<1>1. ASSUME IInv, [Next]_vars, pcP = "grace", pcP' # pcP, pcI' = pcI
      PROVE  pcP' = "overState"
  <2> USE <1>1
  <2>1. LoadPwr > 310  BY DEF IInv, GraceOverLimit
  <2>2. CASE InputTask
    BY <2>2 DEF InputTask, SenseLow, SenseClear, SenseTrip, SenseGlitch, TripPin,
         TripState, ButtonRead, Press, PressInverter, PressPin, PressLit,
         WakeRead, WakeSet, Flash
  <2>3. CASE ParamsTask
    BY <2>1, <2>3 DEF ParamsTask, ParAt, SampleAndCharger, LowRead, LowState,
         ParInverterOff, ParPinOff, ResetRead, ResetNormal, SourceOn, SourceOff,
         Charge, ChargeLit, LoadStore, LoadClamp, LoadCheck, GraceRecheck, OverState
  <2>4. CASE ScreenTask
    BY <2>4 DEF ScreenTask, DefaultLoadRead, Redraw, RedrawDone, RedrawNormal,
         ShowGauge, ShowOverload, ShowBatteryLow, Acknowledge
  <2>5. CASE World
    BY <2>5 DEF World, LineChange, ButtonDown, ButtonUp, WatchdogReset
  <2>6. CASE UNCHANGED vars  BY <2>6 DEF vars
  <2> QED  BY <2>2, <2>3, <2>4, <2>5, <2>6 DEF Next
<1> QED  BY <1>1, Invariance, PTL DEF Spec, GraceAlwaysTrips

=============================================================================
