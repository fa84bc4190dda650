CONSTANTS
    MaxPresses = 1
    Loads <- NoLoad
    Batteries = {"low", "mid"}
SPECIFICATION FairSpec
PROPERTIES OverloadKeepsCutting PressWakes
