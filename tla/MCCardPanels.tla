---------------------------- MODULE MCCardPanels ----------------------------
(* CardPanels with two cameras, two administrators and three configurations  *)
(* to begin with: everything, one camera, a compact card without control tab. *)
EXTENDS CardPanels
CONSTANTS front, door, owner, second, guest

MCCameras == {front, door}
MCAdmins == {owner, second}
MCGuests == {guest}
MCWritten == {
    [tabs |-> None, default |-> None, cams |-> {}, compact |-> FALSE],
    [tabs |-> {"control", "history"}, default |-> "history", cams |-> {door}, compact |-> FALSE],
    [tabs |-> {"history", "actions"}, default |-> None, cams |-> {}, compact |-> TRUE]}
MCBudget == [turn |-> 2, move |-> 1, click |-> 3, all |-> 4]
=============================================================================
