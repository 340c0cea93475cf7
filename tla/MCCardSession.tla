---------------------------- MODULE MCCardSession ----------------------------
(* CardSession with two cameras and one schedule, three sessions.           *)
EXTENDS CardSession
CONSTANTS front, door, night, owner, second, guest

MCCameras == {front, door}
MCSlots == {night}
MCAdmins == {owner, second}
MCOwner == {owner}
MCGuests == {guest}
MCNobody == {}
MCLines == {"network", "socket"}
MCSocket == {"socket"}
MCIds == {1, 2}
MCStart == [found |-> {front, door}, ready |-> TRUE, sched |-> [s \in {night} |-> "on"],
            rec |-> [c \in {front, door} |-> IF c = front THEN [phase |-> "paused", until |-> 1]
                                          ELSE [phase |-> "active", until |-> 0]]]
MCBudget == [turn |-> 2, ask |-> 2, move |-> 1, all |-> 3]
=============================================================================
