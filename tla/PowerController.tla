--------------------------- MODULE PowerController ---------------------------
(***************************************************************************)
(* The three FreeRTOS tasks that run the inverter: GetSystemInputTask      *)
(* (overload line, buttons), GetSystemParams (ADC limits) and              *)
(* ScreenUpdateTask (panel).  They share plain C globals and GPIO levels   *)
(* with no lock, on two cores, so every step below holds at most one       *)
(* access to something another task writes.  UpdateVal, the fan and the    *)
(* flash light touch none of these variables and are left out.             *)
(***************************************************************************)
EXTENDS Integers

CONSTANTS
    MaxPresses,   \* bound: button presses between two boots
    Loads,        \* what LoadPwr is computed as, in watts: the offset of
                  \* the current sensor can make it negative
    Batteries     \* the classes of BatteryVoltage the ADC reports

Bit == 0..1
Battery == {"low", "mid", "full"}    \* < lowBattery, between, >= fullBattery

ASSUME PressesAssumption == MaxPresses \in Nat
ASSUME LoadsAssumption == Loads \subseteq Int /\ 0 \in Loads
ASSUME BatteriesAssumption == Batteries \subseteq Battery

SystemState == {"None", "Normal", "Charging", "Overload", "BatteryLow"}
Alarm == {"Overload", "BatteryLow"}

VARIABLES
    sysState, inverterState, screenState, defaultLoad, LoadPwr,
    gpio18,          \* inverterCtrl and ChargerCtrl are the same pin
    backlight,       \* PIN_NUM_BCKL
    panel,           \* what was last drawn on the whole panel
    batt,            \* class of BatteryVoltage, as last sampled
    pcI, pcP, pcS,   \* where the input, params and screen tasks are
    overloadLine, btn,      \* GPIO 26 (active low) and GPIO 22
    releases, toggles       \* history: button releases, screenState flips

inputs == <<overloadLine, btn, releases>>
power  == <<sysState, inverterState, gpio18>>
screen == <<screenState, backlight, toggles>>
draw   == <<defaultLoad, panel>>
meter  == <<LoadPwr, batt>>
vars   == <<inputs, power, screen, draw, meter, pcI, pcP, pcS>>

InputPc == {"sense", "sense2", "tripPin", "tripState", "btn", "btn2", "hold",
            "press", "pressPin", "pressLit", "wake", "wakeSet", "flash",
            "flashHold"}
ParamsPc == {"sample", "low", "lowState", "lowInv", "lowPin", "reset",
             "normal", "store", "clamp", "source", "charge", "lit", "load",
             "grace",
             "overState", "overInv", "overPin"}
ScreenPc == {"check", "redraw", "redrawn", "setNormal", "show", "alarm",
             "alarmLow", "ack"}

(* The globals' initialisers, and what init_Screen leaves behind. *)
Init == /\ sysState = "Normal" /\ inverterState = 0 /\ gpio18 = 0
        /\ screenState = 0 /\ backlight = 0 /\ toggles = 0 /\ releases = 0
        /\ defaultLoad = 1 /\ panel = "clear"
        /\ LoadPwr = 0 /\ batt = "low"
        /\ pcI = "sense" /\ pcP = "sample" /\ pcS = "check"
        /\ overloadLine \in Bit /\ btn \in Bit

-----------------------------------------------------------------------------
(* GetSystemInputTask *)

InAt(here, there) == pcI = here /\ pcI' = there

SenseLow ==
    /\ overloadLine = 0 /\ sysState # "Overload"
    /\ InAt("sense", "sense2")
    /\ UNCHANGED <<inputs, power, screen, draw, meter, pcP, pcS>>

SenseClear ==
    /\ overloadLine = 1 \/ sysState = "Overload"
    /\ InAt("sense", "btn")
    /\ UNCHANGED <<inputs, power, screen, draw, meter, pcP, pcS>>

(* Faulty variant: the trip forgets the inverter. *)
SenseTripNoCut ==
    /\ overloadLine = 0
    /\ InAt("sense2", "tripPin")
    /\ UNCHANGED <<inputs, power, screen, draw, meter, pcP, pcS>>

(* The second reading, 100 ms later. *)
SenseTrip ==
    /\ overloadLine = 0 /\ inverterState' = 0
    /\ InAt("sense2", "tripPin")
    /\ UNCHANGED <<inputs, sysState, gpio18, screen, draw, meter, pcP, pcS>>

SenseGlitch ==
    /\ overloadLine = 1
    /\ InAt("sense2", "btn")
    /\ UNCHANGED <<inputs, power, screen, draw, meter, pcP, pcS>>

(* Faulty variant: active-low output. *)
SetInverterPinInverted(v) == gpio18' \in {1 - v, 1 - inverterState}

(* gpio_set_level(.., inverterState) after inverterState = v: the argument *)
(* is the value just stored, or the variable read again.                   *)
SetInverterPin(v) == gpio18' \in {v, inverterState}

TripPin ==
    /\ SetInverterPin(0)
    /\ InAt("tripPin", "tripState")
    /\ UNCHANGED <<inputs, sysState, inverterState, screen, draw, meter, pcP, pcS>>

TripState ==
    /\ sysState' = "Overload"
    /\ InAt("tripState", "btn")
    /\ UNCHANGED <<inputs, inverterState, gpio18, screen, draw, meter, pcP, pcS>>

(* Two readings 100 ms apart, then a spin until the button is let go. *)
ButtonRead ==
    /\ \/ btn = 1 /\ InAt("btn", "btn2")
       \/ btn = 1 /\ InAt("btn2", "hold")
       \/ btn = 0 /\ pcI \in {"btn", "btn2"} /\ pcI' = "flash"
    /\ UNCHANGED <<inputs, power, screen, draw, meter, pcP, pcS>>

(* Faulty variant: does not wait for the release. *)
PressHeld ==
    /\ screenState' = 1 - screenState /\ toggles' = toggles + 1
    /\ InAt("hold", "press")
    /\ UNCHANGED <<inputs, power, backlight, draw, meter, pcP, pcS>>

Press ==
    /\ btn = 0
    /\ screenState' = 1 - screenState /\ toggles' = toggles + 1
    /\ InAt("hold", "press")
    /\ UNCHANGED <<inputs, power, backlight, draw, meter, pcP, pcS>>

(* Faulty variant: flips the command on its own. *)
PressInverterFlip ==
    /\ inverterState' = 1 - inverterState
    /\ InAt("press", "pressPin")
    /\ UNCHANGED <<inputs, sysState, gpio18, screen, draw, meter, pcP, pcS>>

PressInverter ==
    /\ inverterState' = screenState
    /\ InAt("press", "pressPin")
    /\ UNCHANGED <<inputs, sysState, gpio18, screen, draw, meter, pcP, pcS>>

PressPin ==
    /\ SetInverterPin(screenState)
    /\ InAt("pressPin", "pressLit")
    /\ UNCHANGED <<inputs, sysState, inverterState, screen, draw, meter, pcP, pcS>>

(* Faulty variant: no ScreenTask(screenState). *)
PressDark ==
    /\ InAt("pressLit", "wake")
    /\ UNCHANGED <<inputs, power, screen, draw, meter, pcP, pcS>>

PressLit ==
    /\ backlight' = screenState
    /\ InAt("pressLit", "wake")
    /\ UNCHANGED <<inputs, power, screenState, toggles, draw, meter, pcP, pcS>>

WakeRead ==
    /\ pcI = "wake"
    /\ pcI' = IF sysState = "None" THEN "wakeSet" ELSE "flash"
    /\ UNCHANGED <<inputs, power, screen, draw, meter, pcP, pcS>>

(* Faulty variant: the redraw request is lost. *)
WakeLost ==
    /\ InAt("wakeSet", "flash")
    /\ UNCHANGED <<inputs, power, screen, draw, meter, pcP, pcS>>

WakeSet ==
    /\ defaultLoad' = 1
    /\ InAt("wakeSet", "flash")
    /\ UNCHANGED <<inputs, power, screen, panel, meter, pcP, pcS>>

(* The flash-light branch: its button is read here as either level. *)
Flash ==
    /\ \/ InAt("flash", "sense")
       \/ InAt("flash", "flashHold")
       \/ InAt("flashHold", "sense")
    /\ UNCHANGED <<inputs, power, screen, draw, meter, pcP, pcS>>

InputTask == \/ SenseLow \/ SenseClear \/ SenseTrip \/ SenseGlitch
             \/ TripPin \/ TripState \/ ButtonRead \/ Press \/ PressInverter
             \/ PressPin \/ PressLit \/ WakeRead \/ WakeSet \/ Flash

-----------------------------------------------------------------------------
(* GetSystemParams *)

ParAt(here, there) == pcP = here /\ pcP' = there

(* Sample the ADC and drive the charger: GPIO 18 again. *)
SampleAndCharger ==
    /\ batt' \in Batteries
    /\ gpio18' = IF batt' = "full" THEN 0 ELSE 1
    /\ ParAt("sample", "low")
    /\ UNCHANGED <<inputs, sysState, inverterState, screen, draw, LoadPwr, pcI, pcS>>

LowRead ==
    /\ pcP = "low"
    /\ pcP' = IF batt = "low" /\ sysState # "None" THEN "lowState" ELSE "reset"
    /\ UNCHANGED <<inputs, power, screen, draw, meter, pcI, pcS>>

LowState ==
    /\ sysState' = "BatteryLow"
    /\ ParAt("lowState", "lowInv")
    /\ UNCHANGED <<inputs, inverterState, gpio18, screen, draw, meter, pcI, pcS>>

(* inverterState = 0 of the low-battery and of the overload trip *)
ParInverterOff ==
    /\ inverterState' = 0
    /\ ParAt("lowInv", "lowPin") \/ ParAt("overInv", "overPin")
    /\ UNCHANGED <<inputs, sysState, gpio18, screen, draw, meter, pcI, pcS>>

ParPinOff ==
    /\ SetInverterPin(0)
    /\ ParAt("lowPin", "store") \/ ParAt("overPin", "sample")
    /\ UNCHANGED <<inputs, sysState, inverterState, screen, draw, meter, pcI, pcS>>

ResetRead ==
    /\ pcP = "reset"
    /\ pcP' = IF sysState # "None" THEN "normal" ELSE "store"
    /\ UNCHANGED <<inputs, power, screen, draw, meter, pcI, pcS>>

ResetNormal ==
    /\ sysState' = "Normal"
    /\ ParAt("normal", "store")
    /\ UNCHANGED <<inputs, inverterState, gpio18, screen, draw, meter, pcI, pcS>>

(* LoadPwr is stored as it was computed and clamped two lines later: the   *)
(* screen task, which prints it, can see it negative in between.           *)
LoadStore ==
    /\ LoadPwr' \in Loads
    /\ ParAt("store", "clamp")
    /\ UNCHANGED <<inputs, power, screen, draw, batt, pcI, pcS>>

(* Faulty variant: no clamp of a negative power. *)
LoadUnclamped ==
    /\ ParAt("clamp", "source")
    /\ UNCHANGED <<inputs, power, screen, draw, meter, pcI, pcS>>

LoadClamp ==
    /\ LoadPwr' = IF LoadPwr < 0 THEN 0 ELSE LoadPwr
    /\ ParAt("clamp", "source")
    /\ UNCHANGED <<inputs, power, screen, draw, batt, pcI, pcS>>

(* SmpsPwr >= 10 || SolarPwr >= 10 *)
SourceOn ==
    /\ ParAt("source", "charge")
    /\ UNCHANGED <<inputs, power, screen, draw, meter, pcI, pcS>>

(* The else branch.  Its body is never executed (ChargingIsDeadHere), so   *)
(* its accesses are kept in one step.                                      *)
SourceOff ==
    /\ ParAt("source", "load")
    /\ sysState' = IF sysState = "Charging" THEN "Normal" ELSE sysState
    /\ backlight' = IF sysState = "Charging" /\ screenState = 0 THEN 0 ELSE backlight
    /\ UNCHANGED <<inputs, inverterState, gpio18, screenState, toggles, draw, meter, pcI, pcS>>

Charge ==
    /\ sysState' = "Charging"
    /\ ParAt("charge", "lit")
    /\ UNCHANGED <<inputs, inverterState, gpio18, screen, draw, meter, pcI, pcS>>

ChargeLit ==
    /\ backlight' = 1
    /\ ParAt("lit", "load")
    /\ UNCHANGED <<inputs, power, screenState, toggles, draw, meter, pcI, pcS>>

LoadCheck ==
    /\ pcP = "load"
    /\ pcP' = IF LoadPwr <= 310 \/ sysState = "None" THEN "sample"
              ELSE IF LoadPwr > 500 THEN "overState" ELSE "grace"
    /\ UNCHANGED <<inputs, power, screen, draw, meter, pcI, pcS>>

(* LoadPwr > 310 again after delay(3000) *)
GraceRecheck ==
    /\ pcP = "grace"
    /\ pcP' = IF LoadPwr > 310 THEN "overState" ELSE "sample"
    /\ UNCHANGED <<inputs, power, screen, draw, meter, pcI, pcS>>

OverState ==
    /\ sysState' = "Overload"
    /\ ParAt("overState", "overInv")
    /\ UNCHANGED <<inputs, inverterState, gpio18, screen, draw, meter, pcI, pcS>>

ParamsTask == \/ SampleAndCharger \/ LowRead \/ LowState \/ ParInverterOff
              \/ ParPinOff \/ ResetRead \/ ResetNormal \/ LoadStore \/ LoadClamp
              \/ SourceOn \/ SourceOff \/ Charge \/ ChargeLit \/ LoadCheck
              \/ GraceRecheck \/ OverState

-----------------------------------------------------------------------------
(* ScreenUpdateTask *)

ScrAt(here, there) == pcS = here /\ pcS' = there

DefaultLoadRead ==
    /\ pcS = "check"
    /\ pcS' = IF defaultLoad = 1 THEN "redraw" ELSE "show"
    /\ UNCHANGED <<inputs, power, screen, draw, meter, pcI, pcP>>

Redraw ==
    /\ panel' = "flow"
    /\ ScrAt("redraw", "redrawn")
    /\ UNCHANGED <<inputs, power, screen, defaultLoad, meter, pcI, pcP>>

RedrawDone ==
    /\ defaultLoad' = 0
    /\ ScrAt("redrawn", "setNormal")
    /\ UNCHANGED <<inputs, power, screen, panel, meter, pcI, pcP>>

(* Faulty variant: the redraw does not leave None. *)
RedrawNoNormal ==
    /\ ScrAt("setNormal", "show")
    /\ UNCHANGED <<inputs, power, screen, draw, meter, pcI, pcP>>

RedrawNormal ==
    /\ sysState' = "Normal"
    /\ ScrAt("setNormal", "show")
    /\ UNCHANGED <<inputs, inverterState, gpio18, screen, draw, meter, pcI, pcP>>

(* The if-else chain may read sysState once or once per test. *)
ShowGauge ==
    /\ pcS = "show"
    /\ pcS' = IF sysState \in {"Charging", "Normal"} THEN "check" ELSE "alarm"
    /\ UNCHANGED <<inputs, power, screen, draw, meter, pcI, pcP>>

ShowOverload ==
    /\ pcS = "alarm"
    /\ IF sysState = "Overload" THEN panel' = "Overload" /\ pcS' = "ack"
                                ELSE panel' = panel /\ pcS' = "alarmLow"
    /\ UNCHANGED <<inputs, power, screen, defaultLoad, meter, pcI, pcP>>

ShowBatteryLow ==
    /\ pcS = "alarmLow"
    /\ IF sysState = "BatteryLow" THEN panel' = "BatteryLow" /\ pcS' = "ack"
                                  ELSE panel' = panel /\ pcS' = "check"
    /\ UNCHANGED <<inputs, power, screen, defaultLoad, meter, pcI, pcP>>

(* sysState = None once the alarm has been drawn *)
Acknowledge ==
    /\ sysState' = "None"
    /\ ScrAt("ack", "check")
    /\ UNCHANGED <<inputs, inverterState, gpio18, screen, draw, meter, pcI, pcP>>

ScreenTask == \/ DefaultLoadRead \/ Redraw \/ RedrawDone \/ RedrawNormal
              \/ ShowGauge \/ ShowOverload \/ ShowBatteryLow \/ Acknowledge

-----------------------------------------------------------------------------
(* The world around the board *)

LineChange ==
    /\ overloadLine' = 1 - overloadLine
    /\ UNCHANGED <<btn, releases, power, screen, draw, meter, pcI, pcP, pcS>>

ButtonDown ==
    /\ btn = 0 /\ releases < MaxPresses /\ btn' = 1
    /\ UNCHANGED <<overloadLine, releases, power, screen, draw, meter, pcI, pcP, pcS>>

ButtonUp ==
    /\ btn = 1 /\ btn' = 0 /\ releases' = releases + 1
    /\ UNCHANGED <<overloadLine, power, screen, draw, meter, pcI, pcP, pcS>>

(* A button held for a minute starves the idle task of the spinning core:  *)
(* the task watchdog panics and the chip boots again.                      *)
WatchdogReset ==
    /\ (pcI = "hold" /\ btn = 1) \/ pcI = "flashHold"
    /\ sysState' = "Normal" /\ inverterState' = 0 /\ gpio18' = 0
    /\ screenState' = 0 /\ backlight' = 0 /\ toggles' = 0 /\ releases' = 0
    /\ defaultLoad' = 1 /\ panel' = "clear"
    /\ LoadPwr' = 0 /\ batt' = "low"
    /\ pcI' = "sense" /\ pcP' = "sample" /\ pcS' = "check"
    /\ UNCHANGED <<overloadLine, btn>>

World == LineChange \/ ButtonDown \/ ButtonUp \/ WatchdogReset

Next == InputTask \/ ParamsTask \/ ScreenTask \/ World

(* Two cores and three tasks that block in vTaskDelay: each of them keeps  *)
(* running, whatever the others do.  A button is not held for ever, and    *)
(* from some time on nobody holds one for the watchdog's minute.           *)
Fairness == WF_vars(InputTask) /\ WF_vars(ParamsTask) /\ WF_vars(ScreenTask)
            /\ WF_vars(ButtonUp) /\ <>[][~WatchdogReset]_vars

Spec == Init /\ [][Next]_vars
FairSpec == Spec /\ Fairness

-----------------------------------------------------------------------------
(* Properties *)

(* Every variable keeps its range, and past the clamp no round of the      *)
(* parameter task works with a negative load.                              *)
TypeOK ==
    /\ sysState \in SystemState /\ panel \in {"clear", "flow"} \cup Alarm
    /\ inverterState \in Bit /\ screenState \in Bit /\ defaultLoad \in Bit
    /\ gpio18 \in Bit /\ backlight \in Bit /\ overloadLine \in Bit /\ btn \in Bit
    /\ LoadPwr \in Loads /\ (LoadPwr < 0 => pcP = "clamp") /\ batt \in Battery
    /\ releases \in Nat /\ toggles \in Nat
    /\ pcI \in InputPc /\ pcP \in ParamsPc /\ pcS \in ScreenPc

(* One press of the inverter button flips the switch at most once, however *)
(* the readings of the debouncing loop fall.                               *)
OnePressOneToggle ==
    toggles <= releases /\ screenState = toggles % 2

(* The inverter is commanded on only while the switch is on: no alarm path *)
(* turns it back on.  The exception is the press being carried out.        *)
CommandFollowsSwitch == inverterState = 1 => screenState = 1 \/ pcI = "press"

(* Apart from the charger's own writes to GPIO 18, the pin rises only on   *)
(* behalf of a switch that is on: a trip that races a press never turns    *)
(* the inverter on by itself.                                              *)
PinRisesForSwitch ==
    [][gpio18 = 0 /\ gpio18' = 1 /\ pcP # "sample"
         => screenState = 1 \/ pcI = "press"]_vars

(* When the supply is found off, sysState is never Charging: the branch    *)
(* of GetSystemParams that ends charging and darkens the panel is dead.    *)
ChargingIsDeadHere == pcP = "source" => sysState # "Charging"

(* So nothing darkens the panel under a switch that is on.                 *)
PanelLitWhileOn ==
    screenState = 1 => backlight = 1 \/ pcI \in {"press", "pressPin", "pressLit"}

(* None, the state that disables the low-battery and load limits, is       *)
(* entered only with an alarm on the panel and lasts only while it is      *)
(* there, or while the redraw that ends it is under way.                   *)
NoneMeansAlarmShown ==
    sysState = "None" => panel \in Alarm \/ pcS \in {"redrawn", "setNormal"}

(* The re-check after the 3 s grace delay sees the sample that started it, *)
(* so a load above 310 W trips even if it was a transient.                 *)
GraceAlwaysTrips == [][pcP = "grace" /\ pcP' # pcP /\ pcI' = pcI => pcP' = "overState"]_vars

(* An overload line that stays active keeps cutting the inverter, whatever *)
(* the user presses and however the other tasks rewrite sysState.          *)
OverloadKeepsCutting == <>[](overloadLine = 0) => []<>(inverterState = 0)

(* A press accepted in None ends in the redrawn panel and in Normal, where *)
(* the limits are active again.                                            *)
PressWakes == pcI = "wakeSet" ~> panel = "flow" /\ sysState = "Normal"

=============================================================================
