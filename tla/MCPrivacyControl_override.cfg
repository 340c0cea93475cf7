CONSTANTS
    detect = detect
    recordings = recordings
    Cam = camera
    NoTarget = none
    Switches <- MCOne
    MainSwitches <- MCOne
    SubSwitches <- MCNone
    HasCamera = FALSE
    Budget <- MCOverride
SPECIFICATION OneWindow
PROPERTIES OverrideIsHeeded
