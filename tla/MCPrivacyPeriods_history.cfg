CONSTANTS
    front = front
    detect = detect
    recordings = recordings
    None = none
    Cameras <- MCCameras
    Targets <- MCTargets
    MaxPeriods = 1
    MaxDays = 0
    Latest = 1
    MaxPauses = 2
    MaxFaults = 1
SPECIFICATION Spec
INVARIANTS HistoryReadable CurrentPeriodTold
PROPERTIES FailuresStayVisible CurrentPeriodKept FinishedPeriodsKept
CHECK_DEADLOCK FALSE
CONSTRAINTS SecondAlone OldAlone
SYMMETRY MCSymmetry
