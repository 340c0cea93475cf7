CONSTANTS
    front = front
    door = door
    owner = owner
    second = second
    guest = guest
    NoHass = nohass
    None = none
    Cameras <- MCCameras
    Admins <- MCAdmins
    Guests <- MCGuests
    Written <- MCWritten
    Budget <- MCBudget
SPECIFICATION FairSpec
INVARIANTS TypeOK DefaultIsVisible HistoryFits PreviewFits
PROPERTIES TabClosesPreview TimeoutsAreFinal PreviewSettles
CHECK_DEADLOCK FALSE
