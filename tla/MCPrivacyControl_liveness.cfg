CONSTANTS
    detect = detect
    recordings = recordings
    Cam = camera
    NoTarget = none
    Switches <- MCOne
    MainSwitches <- MCOne
    SubSwitches <- MCNone
    HasCamera = FALSE
    Budget <- MCCrash
SPECIFICATION FairSpec
INVARIANTS EvidenceComplete PausedIsTruthful
PROPERTIES ScheduledOverrideStands InterruptionSettles LockIsReleased
           WindowIsApplied WindowEndIsHonoured OverrideIsReleased
