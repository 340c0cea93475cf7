CONSTANTS
    detect = detect
    recordings = recordings
    Cam = camera
    NoTarget = none
    Switches <- MCTwo
    MainSwitches <- MCOne
    SubSwitches <- MCOther
    HasCamera = FALSE
    Budget <- MCSave
SPECIFICATION Spec
PROPERTIES ActiveMeansRestored
