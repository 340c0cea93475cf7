CONSTANTS
    detect = detect
    recordings = recordings
    Cam = camera
    NoTarget = none
    Switches <- MCOne
    MainSwitches <- MCOne
    SubSwitches <- MCNone
    HasCamera = TRUE
    Budget <- MCCrash
SPECIFICATION Spec
PROPERTIES ActiveMeansStreaming
