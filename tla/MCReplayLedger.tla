--------------------------- MODULE MCReplayLedger ---------------------------
(* Two pauses, a resume and an extension whose retries may come at any time; *)
(* a history of two entries, so that eviction happens.                       *)
EXTENDS ReplayLedger
CONSTANTS p1, p2, r1, e1

MCRequests == {[action |-> "pause", id |-> p1], [action |-> "pause", id |-> p2],
               [action |-> "resume", id |-> r1], [action |-> "extend", id |-> e1]}
=============================================================================
