CONSTANTS
    front = front
    door = door
    night = night
    owner = owner
    second = second
    guest = guest
    None = none
    NoHass = nohass
    Cameras <- MCCameras
    Slots <- MCSlots
    Admins <- MCAdmins
    Guests <- MCGuests
    Lines <- MCSocket
    Ids <- MCIds
    Start <- MCStart
    Budget <- MCBudget
SPECIFICATION FairSpec
INVARIANTS TypeOK OneRequestAtATime NoForeignState NothingWithoutAuthority
PROPERTIES KeepsPromise SuccessIsConfirmed WireIsReleased SessionIsChecked
CHECK_DEADLOCK FALSE
