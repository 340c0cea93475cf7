-------------------------- MODULE MCPrivacyControl --------------------------
(* PrivacyControl on a camera with one or two switches, under small budgets *)
(* of faults.  "recordings" is in the "main" stream, "detect" in "sub".      *)
EXTENDS PrivacyControl
CONSTANTS detect, recordings

MCTwo == {recordings, detect}
MCOne == {recordings}
MCOther == {detect}
MCNone == {}

NoFaults == [kind \in FaultKinds |-> 0]
MCSlow == [NoFaults EXCEPT !["call"] = 1]
MCCrash == [NoFaults EXCEPT !["crash"] = 1]
MCSave == [NoFaults EXCEPT !["save"] = 1]
MCStops == [NoFaults EXCEPT !["call"] = 1, !["save"] = 1, !["cancel"] = 1,
                               !["external"] = 1, !["outage"] = 1]
MCOverride == [NoFaults EXCEPT !["external"] = 1]

\* The behaviours in which a window, once open, stays open.
OneWindow == Init /\ [][Next /\ (window => window')]_vars

\* The bound of the run "stops": any two faults together, or those that a handler meets
\* by itself (a call that fails, a failed save, a cancellation) all three.
FewFaults ==
    \/ used["external"] + used["outage"] = 0
    \/ used["call"] + used["save"] + used["cancel"] + used["external"] + used["outage"] <= 2
=============================================================================
