CONSTANTS
    front = front
    door = door
    night = night
    owner = owner
    second = second
    guest = guest
    None = none
    NoHass = nohass
    Cameras <- MCCameras
    Slots <- MCSlots
    Admins <- MCOwner
    Guests <- MCNobody
    Lines <- MCNobody
    Ids <- MCIds
    Start <- MCStart
    Budget <- MCBudget
SPECIFICATION Spec
INVARIANTS PendingIsOnTheWire
CHECK_DEADLOCK FALSE
