CONSTANTS
    detect = detect
    recordings = recordings
    Cam = camera
    NoTarget = none
    Switches <- MCOne
    MainSwitches <- MCOne
    SubSwitches <- MCNone
    HasCamera = FALSE
    Budget <- MCStops
SPECIFICATION Spec
INVARIANTS TypeOK PausedIsTruthfulIfSeen
PROPERTY FailedResumeRepauses
CONSTRAINT FewFaults
