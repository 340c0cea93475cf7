CONSTANTS
    detect = detect
    recordings = recordings
    Cam = camera
    NoTarget = none
    Switches <- MCTwo
    MainSwitches <- MCOne
    SubSwitches <- MCOther
    HasCamera = TRUE
    Budget <- MCSlow
SPECIFICATION Spec
INVARIANTS PausedIsTruthful EvidenceDisjoint EvidenceComplete
PROPERTIES IntentBeforeControl ActiveIsVerified
