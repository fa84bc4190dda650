CONSTANTS
    MaxPresses = 2
    Loads <- LoadValues
    Batteries = {"low", "mid", "full"}
SPECIFICATION Spec
INVARIANTS TypeOK OnePressOneToggle CommandFollowsSwitch PanelLitWhileOn NoneMeansAlarmShown
PROPERTIES PinRisesForSwitch
