-------------------------- MODULE MCPrivacyPeriods --------------------------
(* PrivacyPeriods with one camera and two targets, so that one can fail     *)
(* while the other succeeds.                                                *)
EXTENDS PrivacyPeriods, TLC
CONSTANTS front, detect, recordings

MCCameras == {front}
MCTargets == {detect, recordings}
MCSymmetry == Permutations(MCTargets)

\* The bounds of the run.  The first period of this release concerns any targets; it may
\* follow a period of an older release, with a fault too if it concerns a single target.
\* A second one follows where both concern the same single target, and after a period of
\* an older release only without a fault.
Concerned(r) == r.planned \cup r.ours \cup r.preOff
                  \cup {t \in Targets : r.pause[t] \notin {None, "unavailable"}}
ConcernsNow(t) == \A c \in Cameras : Concerned(mem.rec[c]) \subseteq {t}
ConcernedThen(t) ==
    \A row \in mem.hist.rows : row.gen # None =>
        \A u \in DOMAIN row.items \ {t} : row.items[u].pause = "unavailable"
Pauses(n) == \E c \in Cameras : Count(mem.rec[c]) >= n
Old == \E c \in Cameras :
          \/ mem.rec[c] # None /\ mem.rec[c].gen = None
          \/ \E row \in mem.hist.rows : row.gen = None
OldAlone ==
    faults > 0 /\ Old /\ Pauses(1) => ~Pauses(2) /\ \E t \in Targets : ConcernsNow(t)
SecondAlone ==
    Pauses(2) => \E t \in Targets : ConcernsNow(t) /\ ConcernedThen(t)
=============================================================================
