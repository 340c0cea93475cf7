------------------------ MODULE PrivacyControlProofs ------------------------
(* What holds of PrivacyControl for every set of switches and every budget  *)
(* of faults.  The properties are not inductive by themselves: a handler    *)
(* works from copies of the record that an unlocked tick may rewrite under  *)
(* it, and a recovered pause turns its plan into evidence.  IInv says how   *)
(* the plan, the copies and the record stay related; EInv, where a switch   *)
(* that went off is remembered; TInv and PlainInv, what of a pause is off;  *)
(* VInv and CInv, what a resume still has to turn on, and RInv, what it has *)
(* to turn off again when it fails; OInv, which overrides stand.            *)
EXTENDS PrivacyControl, TLAPS

\* A call that is awaited is a call to some target.
AwaitsTarget == op.pc \in {"await", "awaitbase"} => op.cur \in Targets

\* What a tick makes of an interrupted pause avoids what was off before it.
PlanDisjoint == (PausingPlan \cup PausingBase) \cap rec.preOff = {}

\* A pause or extension calls what the record plans, and nothing that was off.
TurningWork ==
    op.kind \in Turning /\ op.pc # "reserve" =>
        /\ (op.todo \cup op.done \cup {op.cur}) \cap rec.preOff = {}
        /\ op.todo \subseteq rec.planned \cup rec.extPlanned
        /\ op.cam => rec.camPlanned

\* A resume's copies are still those of the record, which claims no pause.
ResumeCopies ==
    op.kind = "resume" /\ op.pc # "reserve" =>
        /\ op.exp = rec.switches /\ op.pre = rec.preOff
        /\ rec.phase \in {"resuming", "error", "active"}

\* What a resume has done, awaits and has left to do is in the record.
ResumeWork ==
    op.kind = "resume" /\ op.pc # "reserve" =>
        /\ op.done \subseteq op.exp
        /\ op.cam \/ op.camDone => rec.camToggled
        /\ op.pc = "await" => op.cur \in op.exp \/ (op.cur = Cam /\ rec.camToggled)
        /\ op.pc \in {"preflight", "step", "await", "record"} => op.todo \subseteq op.exp
        /\ op.pc \in {"baseline", "awaitbase"} => op.todo \subseteq op.pre
        /\ op.pc = "restore" => op.todo \subseteq op.exp \cup op.pre

\* A handler that has just taken the lock has done nothing.
Fresh == op.pc = "reserve" => op.done = {} /\ op.cur = NoTarget /\ ~op.camDone

Related ==
    /\ EvidenceDisjoint /\ AwaitsTarget /\ PlanDisjoint
    /\ TurningWork /\ ResumeCopies /\ ResumeWork /\ Fresh

IInv == TypeOK /\ Related

-----------------------------------------------------------------------------
(* Type correctness.                                                        *)

\* The handlers' updates of their local variables are of the right type.
LEMMA IdleType == Idle \in OpType
  BY DEF Idle, OpType, Who

\* What is taken off the evidence leaves it well-formed.
LEMMA WithoutType ==
    ASSUME op \in OpType, NEW t PROVE Without(t) \in OpType
  BY DEF Without, OpType

\* So does what was turned on again.
LEMMA ReenabledType ==
    ASSUME op \in OpType, NEW t \in Targets PROVE Reenabled(t) \in OpType
<1>1. Without(t) \in OpType /\ {t} \ {Cam} \subseteq Switches
  BY WithoutType DEF Targets
<1> QED BY <1>1 DEF Reenabled, OpType

\* So does the marking of a restoration.
LEMMA RestoringType ==
    ASSUME NEW o \in OpType PROVE Restoring(o) \in OpType /\ Failing(o) \in OpType
<1>1. \A p \in OpType : Restoring(p) \in OpType
  BY DEF Restoring, OpType
<1>2. [o EXCEPT !.bad = TRUE] \in OpType
  BY DEF OpType
<1> QED BY <1>1, <1>2 DEF Failing

\* Saving a record, or failing to, keeps the types.
LEMMA SaveTypes ==
    ASSUME TypeOK, (\E r \in RecordType : Saves(r)) \/ SaveFails
    PROVE  rec' \in RecordType /\ used' \in [FaultKinds -> Nat]
  BY DEF TypeOK, Saves, SaveFails, Spend, FaultKinds

\* A service call keeps the types, however it ends.
LEMMA CallTypes ==
    ASSUME TypeOK, NEW t \in Targets, NEW cmd \in {"on", "off", "base"},
           CallReturns(t, cmd) \/ CallRaises(t, cmd)
    PROVE  /\ lag' \in [Targets -> {"none", "on", "off", "base"}]
           /\ unseen' \subseteq Targets
           /\ used' \in [FaultKinds -> Nat]
  BY DEF TypeOK, CallReturns, CallRaises, Delivered, Swallowed, Spend, FaultKinds

\* Every step of a pause or an extension keeps the types.
LEMMA TypePause == ASSUME TypeOK, AwaitsTarget, PauseStep PROVE TypeOK'
<1> USE TargetsAssumption, BudgetAssumption
<1>1. CASE PauseRefused
  <2>1. op' \in OpType
    BY <1>1, IdleType DEF PauseRefused, Continues, Returns, Raises, TypeOK
  <2> QED BY <1>1, <2>1 DEF PauseRefused, TypeOK, device, history, Returns
<1>2. CASE PausePlan
  <2> DEFINE planned == {t \in op.todo : IsOn(t)}
             off == {t \in op.todo : IsOff(t)}
             asked == op.todo \cup (IF op.cam THEN {Cam} ELSE {})
             unav == \E t \in asked : vis[t] = "unavailable"
             camera == op.cam /\ IsOn(Cam)
             plan == [NoRecord EXCEPT
                        !.phase = "pausing",
                        !.src = IF op.who = "schedule" THEN "schedule" ELSE "manual",
                        !.planned = planned, !.preOff = off, !.unav = unav,
                        !.camPlanned = camera]
             next == [op EXCEPT !.pc = "step", !.todo = planned, !.cam = camera]
  <2>1. /\ planned \subseteq Switches /\ off \subseteq Switches
        /\ camera \in BOOLEAN /\ unav \in BOOLEAN
    BY DEF TypeOK, OpType
  <2>2. plan \in RecordType
    <3> HIDE DEF planned, off, unav, camera
    <3> QED BY <2>1 DEF NoRecord, RecordType, Phases
  <2>3. next \in OpType
    <3> HIDE DEF planned, off, unav, camera, plan
    <3> QED BY <2>1 DEF TypeOK, OpType
  <2>4. \/ Saves(plan) /\ Continues(next)
        \/ SaveFails /\ Raises
    BY <1>2 DEF PausePlan
  <2>5. op' \in OpType /\ rec' \in RecordType /\ used' \in [FaultKinds -> Nat]
    <3> HIDE DEF plan, next
    <3> QED BY <2>2, <2>3, <2>4, IdleType, SaveTypes DEF Continues, Raises
  <2>6. tick' \in {"idle", "recwait", "past", "autowait", "pausewait", "late", "reload"}
    BY <2>4 DEF Continues, Raises, TypeOK
  <2> QED BY <1>2, <2>5, <2>6 DEF PausePlan, TypeOK, device, history
<1>3. CASE ExtendPlan
  <2> DEFINE others == {t \in Switches \ (rec.switches \cup rec.preOff) : vis[t] # "missing"}
             planned == {t \in others : IsOn(t)}
             off == {t \in others : IsOff(t)}
             unav == rec.unav \/ \E t \in others : Unavailable(t)
             camera == ~rec.camToggled /\ IsOn(Cam)
             plan == [rec EXCEPT
                        !.phase = "pausing", !.cov = TRUE, !.ext = TRUE,
                        !.extBase = rec.switches, !.extPlanned = planned,
                        !.preOff = @ \cup off, !.unav = unav, !.camPlanned = camera]
             next == [op EXCEPT !.kind = "extend", !.pc = "step", !.todo = planned,
                                !.done = rec.switches, !.cam = camera,
                                !.camDone = rec.camToggled]
  <2>1. /\ planned \subseteq Switches /\ off \subseteq Switches
        /\ camera \in BOOLEAN /\ unav \in BOOLEAN
    BY DEF TypeOK, RecordType
  <2>2. plan \in RecordType
    <3> HIDE DEF others, planned, off, unav, camera
    <3> QED BY <2>1 DEF RecordType, Phases, TypeOK
  <2>3. next \in OpType
    <3> HIDE DEF others, planned, off, unav, camera, plan
    <3> QED BY <2>1 DEF TypeOK, OpType, RecordType
  <2>4. \/ Saves(plan) /\ Continues(next)
        \/ SaveFails /\ Raises
    BY <1>3 DEF ExtendPlan
  <2>5. op' \in OpType /\ rec' \in RecordType /\ used' \in [FaultKinds -> Nat]
    <3> HIDE DEF plan, next
    <3> QED BY <2>2, <2>3, <2>4, IdleType, SaveTypes DEF Continues, Raises
  <2>6. tick' \in {"idle", "recwait", "past", "autowait", "pausewait", "late", "reload"}
    BY <2>4 DEF Continues, Raises, TypeOK
  <2> QED BY <1>3, <2>5, <2>6 DEF ExtendPlan, TypeOK, device, history
<1>4. ASSUME NEW t \in Targets, OffCall(t) PROVE TypeOK'
  <2>1. Without(t) \in OpType
    BY WithoutType DEF TypeOK
  <2>2. [Without(t) EXCEPT !.pc = "await", !.cur = t] \in OpType
    BY <2>1 DEF OpType, Targets
  <2>3. [Without(t) EXCEPT !.pc = "record", !.cur = t, !.bad = TRUE] \in OpType
    BY <2>1 DEF OpType, Targets
  <2>4. op' \in OpType /\ tick' = tick
    BY <1>4, <2>2, <2>3 DEF OffCall, Continues
  <2>5. CallReturns(t, "off") \/ CallRaises(t, "off")
    BY <1>4 DEF OffCall
  <2> QED BY <1>4, <2>4, <2>5, CallTypes DEF OffCall, TypeOK, device
<1>5. CASE OffConfirmed
  <2>1. {op.cur} \ {Cam} \subseteq Switches
    BY <1>5 DEF OffConfirmed, At, AwaitsTarget, Targets
  <2>2. op' \in OpType
    BY <1>5, <2>1 DEF OffConfirmed, Continues, TypeOK, OpType
  <2> QED BY <1>5, <2>2 DEF OffConfirmed, Continues, TypeOK, device, history
<1>6. CASE OffTimedOut
  <2>1. op' = [op EXCEPT !.pc = "record", !.bad = TRUE]
    BY <1>6 DEF OffTimedOut, Continues
  <2>2. op' \in OpType
    BY <2>1 DEF TypeOK, OpType
  <2>3. op.cur \in Targets
    BY <1>6 DEF OffTimedOut, At, AwaitsTarget
  <2> QED BY <1>6, <2>2, <2>3 DEF OffTimedOut, TypeOK, ReadbackTimesOut, Spend, FaultKinds,
  Continues, device
<1>7. CASE OffRecord
  <2> DEFINE next == [op EXCEPT !.pc = "step", !.cur = NoTarget]
             outcome == [rec EXCEPT !.phase = "pausing", !.switches = op.done,
                                    !.camToggled = IF op.cur = Cam THEN op.camDone ELSE @]
  <2>1. next \in OpType
    BY DEF TypeOK, OpType
  <2>2. outcome \in RecordType
    BY DEF TypeOK, RecordType, Phases, OpType
  <2>3. \/ Continues(next) /\ UNCHANGED <<rec, used>>
        \/ Saves(outcome) /\ Continues(next)
        \/ SaveFails /\ Raises
    BY <1>7 DEF OffRecord
  <2> HIDE DEF next, outcome
  <2>4. op' \in OpType /\ rec' \in RecordType /\ used' \in [FaultKinds -> Nat]
    BY <2>1, <2>2, <2>3, IdleType, SaveTypes DEF Continues, Raises, TypeOK
  <2>5. tick' \in {"idle", "recwait", "past", "autowait", "pausewait", "late", "reload"}
    BY <2>3 DEF Continues, Raises, TypeOK
  <2> QED BY <1>7, <2>4, <2>5 DEF OffRecord, TypeOK, device, history
<1>8. CASE PauseFinish
  <2>1. op' \in OpType
    BY <1>8, IdleType DEF PauseFinish, Continues, Returns, Raises, TypeOK
  <2>2. [rec EXCEPT !.phase = IF op.bad \/ rec.unav THEN "partial" ELSE "paused",
                                !.switches = op.done, !.camToggled = op.camDone] \in RecordType
    BY DEF TypeOK, RecordType, Phases, OpType
  <2>3. rec' \in RecordType /\ used' \in [FaultKinds -> Nat]
    BY <1>8, <2>2, SaveTypes DEF PauseFinish
  <2> QED BY <1>8, <2>1, <2>3 DEF PauseFinish, TypeOK, device, history, Returns, Raises
<1> QED BY <1>1, <1>2, <1>3, <1>4, <1>5, <1>6, <1>7, <1>8 DEF PauseStep

\* Every step of a resume keeps the types.
LEMMA TypeResume == ASSUME TypeOK, AwaitsTarget, ResumeStep PROVE TypeOK'
<1> USE TargetsAssumption, BudgetAssumption
<1>1. CASE ResumeReturnsEarly
  <2>1. op' \in OpType
    BY <1>1, IdleType DEF ResumeReturnsEarly, Continues, Returns, Raises, TypeOK
  <2> QED BY <1>1, <2>1 DEF ResumeReturnsEarly, TypeOK, device, history, Continues, Returns,
  Raises, Spend, FaultKinds
<1>2. CASE ResumeBegin
  <2>1. op' \in OpType
    <3>1. [op EXCEPT !.pc = "preflight", !.todo = rec.switches,
                                !.exp = rec.switches, !.pre = rec.preOff,
                                !.cam = rec.camToggled,
                                !.lit = {t \in Expected : real[t] = "on"}] \in OpType
      BY DEF TypeOK, OpType, RecordType, Expected, Targets
    <3> QED BY <1>2, <3>1, IdleType DEF ResumeBegin, Continues, Returns, Raises, TypeOK
  <2>2. [rec EXCEPT !.phase = "resuming", !.blocked = FALSE] \in RecordType
    BY DEF TypeOK, RecordType, Phases, OpType
  <2>3. [rec EXCEPT !.phase = "error", !.blocked = TRUE] \in RecordType
    BY DEF TypeOK, RecordType, Phases, OpType
  <2>4. rec' \in RecordType /\ used' \in [FaultKinds -> Nat]
    BY <1>2, <2>2, <2>3, SaveTypes DEF ResumeBegin
  <2> QED BY <1>2, <2>1, <2>4 DEF ResumeBegin, TypeOK, device, history, Continues, Returns,
  Raises, Spend, FaultKinds
<1>3. CASE Preflight
  <2> DEFINE gone == \E t \in op.exp \cup (IF op.cam THEN {Cam} ELSE {}) : Unavailable(t)
  <2>1. op' = [op EXCEPT !.pc = IF gone THEN "hold" ELSE "step", !.bad = gone]
    BY <1>3 DEF Preflight, Continues
  <2>2. gone \in BOOLEAN
    OBVIOUS
  <2>3. op' \in OpType
    <3> HIDE DEF gone
    <3> QED BY <2>1, <2>2 DEF TypeOK, OpType
  <2> QED BY <1>3, <2>3 DEF Preflight, Continues, TypeOK, device, history
<1>4. ASSUME NEW t \in Targets, OnFound(t) PROVE TypeOK'
  <2>1. Reenabled(t) \in OpType /\ Failing(op) \in OpType
    BY ReenabledType, RestoringType DEF TypeOK
  <2>2. op' \in OpType
    BY <1>4, <2>1 DEF OnFound, Continues
  <2> QED BY <1>4, <2>2 DEF OnFound, Continues, TypeOK, device, history
<1>5. ASSUME NEW t \in Targets, OnCall(t) PROVE TypeOK'
  <2>1. Without(t) \in OpType
    BY WithoutType DEF TypeOK
  <2>2. [Without(t) EXCEPT !.pc = "await", !.cur = t] \in OpType
    BY <2>1 DEF OpType, Targets
  <2>3. Failing(op) \in OpType
    BY RestoringType DEF TypeOK
  <2>4. op' \in OpType /\ tick' = tick
    BY <1>5, <2>2, <2>3 DEF OnCall, Continues
  <2>5. CallReturns(t, "on") \/ CallRaises(t, "on")
    BY <1>5 DEF OnCall
  <2> QED BY <1>5, <2>4, <2>5, CallTypes DEF OnCall, TypeOK, device
<1>6. CASE OnConfirmed
  <2>1. op.cur \in Targets
    BY <1>6 DEF OnConfirmed, At, AwaitsTarget
  <2>2. Reenabled(op.cur) \in OpType
    BY <2>1, ReenabledType DEF TypeOK
  <2>3. op' \in OpType
    BY <1>6, <2>2 DEF OnConfirmed, Continues, OpType
  <2> QED BY <1>6, <2>3 DEF OnConfirmed, Continues, TypeOK, device, history
<1>7. CASE OnTimedOut
  <2>1. op' = [op EXCEPT !.pc = "step", !.cur = NoTarget, !.bad = TRUE]
    BY <1>7 DEF OnTimedOut, Continues
  <2>2. op' \in OpType
    BY <2>1 DEF TypeOK, OpType
  <2>3. op.cur \in Targets
    BY <1>7 DEF OnTimedOut, At, AwaitsTarget
  <2> QED BY <1>7, <2>2, <2>3 DEF OnTimedOut, TypeOK, ReadbackTimesOut, Spend, FaultKinds,
  Continues, device
<1>8. CASE OnRecord
  <2>1. op' \in OpType
    <3>1. [op EXCEPT !.pc = "step", !.cur = NoTarget] \in OpType
      BY DEF TypeOK, OpType
    <3> QED BY <1>8, <3>1, IdleType, RestoringType DEF OnRecord, Continues, Returns, Raises,
    TypeOK
  <2>2. [rec EXCEPT !.phase = "resuming"] \in RecordType
    BY DEF TypeOK, RecordType, Phases, OpType
  <2>3. rec' \in RecordType /\ used' \in [FaultKinds -> Nat]
    BY <1>8, <2>2, SaveTypes DEF OnRecord
  <2> QED BY <1>8, <2>1, <2>3 DEF OnRecord, TypeOK, device, history, Continues, Returns,
  Raises, Spend, FaultKinds
<1>9. CASE ToBaseline
  <2>1. op' \in OpType
    <3>1. [op EXCEPT !.pc = "baseline", !.todo = op.pre] \in OpType
      BY DEF TypeOK, OpType
    <3> QED BY <1>9, <3>1, IdleType DEF ToBaseline, Continues, Returns, Raises, TypeOK
  <2> QED BY <1>9, <2>1 DEF ToBaseline, TypeOK, device, history, Continues, Returns, Raises,
  Spend, FaultKinds
<1>10. ASSUME NEW t \in Targets, BaselineFound(t) PROVE TypeOK'
  <2>1. Without(t) \in OpType
    BY WithoutType DEF TypeOK
  <2>2. op' = [Without(t) EXCEPT !.bad = TRUE] \/ op' = Without(t)
    BY <1>10 DEF BaselineFound, Continues
  <2>3. op' \in OpType
    BY <2>1, <2>2 DEF OpType
  <2> QED BY <1>10, <2>3 DEF BaselineFound, Continues, TypeOK, device, history
<1>11. ASSUME NEW t \in Targets, BaselineCall(t) PROVE TypeOK'
  <2>1. Without(t) \in OpType
    BY WithoutType DEF TypeOK
  <2>2. [Without(t) EXCEPT !.pc = "awaitbase", !.cur = t] \in OpType
    BY <2>1 DEF OpType, Targets
  <2>3. Failing(op) \in OpType
    BY RestoringType DEF TypeOK
  <2>4. op' \in OpType /\ tick' = tick
    BY <1>11, <2>2, <2>3 DEF BaselineCall, Continues
  <2>5. CallReturns(t, "base") \/ CallRaises(t, "base")
    BY <1>11 DEF BaselineCall
  <2> QED BY <1>11, <2>4, <2>5, CallTypes DEF BaselineCall, TypeOK, device
<1>12. CASE BaselineReadback
  <2>1. /\ [op EXCEPT !.pc = "baseline", !.cur = NoTarget] \in OpType
        /\ [op EXCEPT !.pc = "baseline", !.cur = NoTarget, !.bad = TRUE] \in OpType
    BY DEF TypeOK, OpType
  <2>2. op' \in OpType
    BY <1>12, <2>1 DEF BaselineReadback, Continues
  <2>3. op.cur \in Targets
    BY <1>12 DEF BaselineReadback, At, AwaitsTarget
  <2> QED BY <1>12, <2>2, <2>3 DEF BaselineReadback, TypeOK, ReadbackTimesOut, Spend,
  FaultKinds, Continues, device
<1>13. CASE ResumeDecide
  <2>1. op' \in OpType
    <3>1. [op EXCEPT !.pc = "mark"] \in OpType
      BY DEF TypeOK, OpType
    <3> QED BY <1>13, <3>1, IdleType, RestoringType DEF ResumeDecide, Continues, Returns,
    Raises, TypeOK
  <2> QED BY <1>13, <2>1 DEF ResumeDecide, TypeOK, device, history, Continues, Returns,
  Raises, Spend, FaultKinds
<1>14. CASE MarkActive
  <2>1. op' \in OpType
    BY <1>14, IdleType, RestoringType DEF MarkActive, Continues, Returns, Raises, TypeOK
  <2>2. [rec EXCEPT !.phase = "active", !.blocked = FALSE] \in RecordType
    BY DEF TypeOK, RecordType, Phases, OpType
  <2>3. rec' \in RecordType /\ used' \in [FaultKinds -> Nat]
    BY <1>14, <2>2, SaveTypes DEF MarkActive
  <2> QED BY <1>14, <2>1, <2>3 DEF MarkActive, TypeOK, device, history, Continues, Returns,
  Raises, Spend, FaultKinds
<1>15. ASSUME NEW t \in Targets, Repause(t) PROVE TypeOK'
  <2>1. op' \in OpType
    BY <1>15, WithoutType DEF Repause, Continues, TypeOK
  <2> QED BY <1>15, <2>1 DEF Repause, Delivered, Spend, FaultKinds, Continues, TypeOK, device
<1>16. CASE RepauseDone
  <2>1. op' \in OpType
    <3>1. [op EXCEPT !.pc = "hold"] \in OpType
      BY DEF TypeOK, OpType
    <3> QED BY <1>16, <3>1, IdleType DEF RepauseDone, Continues, Returns, Raises, TypeOK
  <2> QED BY <1>16, <2>1 DEF RepauseDone, TypeOK, device, history, Continues, Returns,
  Raises, Spend, FaultKinds
<1>17. CASE HoldFailSafe
  <2>1. op' \in OpType
    <3>1. [op EXCEPT !.pc = "persist"] \in OpType
      BY DEF TypeOK, OpType
    <3> QED BY <1>17, <3>1, IdleType DEF HoldFailSafe, Continues, Returns, Raises, TypeOK
  <2>2. [rec EXCEPT !.phase = "error", !.blocked = TRUE] \in RecordType
    BY DEF TypeOK, RecordType, Phases, OpType
  <2>3. rec' \in RecordType /\ used' \in [FaultKinds -> Nat]
    BY <1>17, <2>2, SaveTypes DEF HoldFailSafe
  <2> QED BY <1>17, <2>1, <2>3 DEF HoldFailSafe, TypeOK, device, history, Continues, Returns,
  Raises, Spend, FaultKinds
<1>18. CASE PersistError
  <2>1. op' \in OpType
    BY <1>18, IdleType DEF PersistError, Continues, Returns, Raises, TypeOK
  <2>2. [rec EXCEPT !.phase = "error"] \in RecordType
    BY DEF TypeOK, RecordType, Phases, OpType
  <2>3. rec' \in RecordType /\ used' \in [FaultKinds -> Nat]
    BY <1>18, <2>2, SaveTypes DEF PersistError
  <2> QED BY <1>18, <2>1, <2>3 DEF PersistError, TypeOK, device, history, Continues, Returns,
  Raises, Spend, FaultKinds
<1> QED BY <1>1, <1>2, <1>3, <1>4, <1>5, <1>6, <1>7, <1>8, <1>9, <1>10, <1>11, <1>12, <1>13,
<1>14, <1>15, <1>16, <1>17, <1>18 DEF ResumeStep

\* Every step of the scheduler tick keeps the types.
LEMMA TypeTick ==
    ASSUME TypeOK, AwaitsTarget, TickLocks \/ TickRecovers \/ TickGoesOn PROVE TypeOK'
<1> USE TargetsAssumption, BudgetAssumption
<1>1. CASE SchedulePause
  <2>1. op' \in OpType
    BY <1>1, IdleType DEF SchedulePause, PauseLock, Everything, Targets, OpType, Who
  <2> QED BY <1>1, <2>1 DEF SchedulePause, PauseLock, TypeOK, device, history
<1>2. CASE AutoResume
  <2>1. op' \in OpType
    BY <1>2, IdleType DEF AutoResume, ResumeLock, OpType, Who
  <2> QED BY <1>2, <2>1 DEF AutoResume, ResumeLock, TypeOK, device, history
<1>3. CASE RecoverResume
  <2>1. op' \in OpType
    BY <1>3, IdleType DEF RecoverResume, ResumeLock, OpType, Who
  <2> QED BY <1>3, <2>1 DEF RecoverResume, ResumeLock, TypeOK, device, history
<1>4. CASE RecoverReplayed
  BY <1>4 DEF RecoverReplayed, TypeOK, device, history, Continues, Returns, Raises, Spend,
     FaultKinds
<1>5. CASE TickWaits
  BY <1>5 DEF TickWaits, TypeOK, device, history, Continues, Returns, Raises, Spend, FaultKinds
<1>6. CASE TickFinalizes
  <2>1. unseen' \subseteq Targets
    BY <1>6 DEF TickFinalizes, MissedNow, PausingPlan, TypeOK, RecordType, Targets
  <2> DEFINE seen == IF rec.phase = "pausing"
                     THEN {t \in PausingPlan \cup PausingBase : Report(t) = "off"} ELSE {}
             camera == rec.camToggled \/ (rec.phase = "pausing" /\ rec.camPlanned
                                             /\ Report(Cam) = "off")
             after == [rec EXCEPT !.phase = "error", !.blocked = TRUE,
                                  !.switches = @ \cup seen, !.camToggled = camera]
  <2>2. seen \subseteq Switches /\ camera \in BOOLEAN
    BY DEF PausingPlan, PausingBase, TypeOK, RecordType
  <2>3. after \in RecordType
    <3> HIDE DEF seen, camera
    <3> QED BY <2>2 DEF TypeOK, RecordType, Phases
  <2>4. Saves(after) \/ SaveFails
    BY <1>6 DEF TickFinalizes
  <2> HIDE DEF after
  <2>5. rec' \in RecordType /\ used' \in [FaultKinds -> Nat]
    BY <2>3, <2>4, SaveTypes
  <2>6. /\ tick' \in {"past", tick} /\ grace' \in {"off", grace}
        /\ ready' \in {TRUE, ready}
    BY <1>6 DEF TickFinalizes
  <2> QED BY <1>6, <2>1, <2>5, <2>6 DEF TickFinalizes, TypeOK, device
<1>7. CASE TickRecoversPause
  <2>1. unseen' \subseteq Targets
    BY <1>7 DEF TickRecoversPause, MissedNow, PausingPlan, TypeOK, RecordType, Targets
  <2> DEFINE seen == PausingBase \cup {t \in PausingPlan : Report(t) = "off"}
             camera == rec.camToggled \/ (rec.camPlanned /\ Report(Cam) = "off")
             after == [rec EXCEPT !.phase = "partial", !.switches = seen, !.camToggled = camera]
  <2>2. seen \subseteq Switches /\ camera \in BOOLEAN
    BY DEF PausingPlan, PausingBase, TypeOK, RecordType
  <2>3. after \in RecordType
    <3> HIDE DEF seen, camera
    <3> QED BY <2>2 DEF TypeOK, RecordType, Phases
  <2>4. Saves(after) \/ SaveFails
    BY <1>7 DEF TickRecoversPause
  <2> HIDE DEF after
  <2>5. rec' \in RecordType /\ used' \in [FaultKinds -> Nat]
    BY <2>3, <2>4, SaveTypes
  <2>6. /\ tick' \in {"past", tick} /\ grace' \in {"off", grace}
        /\ ready' \in {TRUE, ready}
        /\ raced' \in {TRUE, FALSE, raced}
    BY <1>7 DEF TickRecoversPause
  <2> QED BY <1>7, <2>1, <2>5, <2>6 DEF TickRecoversPause, TypeOK, device
<1>8. CASE TickRecoversResume
  BY <1>8 DEF TickRecoversResume, TypeOK, device, history, Continues, Returns, Raises, Spend,
     FaultKinds
<1>9. CASE TickNothingToRecover
  BY <1>9 DEF TickNothingToRecover, TypeOK, device, history, Continues, Returns, Raises,
     Spend, FaultKinds
<1>10. CASE TickEnds
  BY <1>10 DEF TickEnds, TypeOK, device, history, Continues, Returns, Raises, Spend, FaultKinds
<1>11. CASE TickPauses
  BY <1>11 DEF TickPauses, TypeOK, device, history, Continues, Returns, Raises, Spend,
     FaultKinds
<1>12. CASE TickReleases
  <2>1. [rec EXCEPT !.overridden = FALSE] \in RecordType
    BY DEF TypeOK, RecordType, Phases, OpType
  <2>2. rec' \in RecordType /\ used' \in [FaultKinds -> Nat]
    BY <1>12, <2>1, SaveTypes DEF TickReleases
  <2> QED BY <1>12, <2>2 DEF TickReleases, TypeOK, device, history, Continues, Returns,
  Raises, Spend, FaultKinds
<1>13. CASE TickUncovers
  <2>1. [rec EXCEPT !.cov = FALSE] \in RecordType
    BY DEF TypeOK, RecordType, Phases, OpType
  <2>2. rec' \in RecordType /\ used' \in [FaultKinds -> Nat]
    BY <1>13, <2>1, SaveTypes DEF TickUncovers
  <2> QED BY <1>13, <2>2 DEF TickUncovers, TypeOK, device, history, Continues, Returns,
  Raises, Spend, FaultKinds
<1>14. CASE TickQuiet
  BY <1>14 DEF TickQuiet, TypeOK, device, history, Continues, Returns, Raises, Spend, FaultKinds
<1>15. CASE TickOverrides
  <2>1. [rec EXCEPT !.phase = "active", !.overridden = TRUE] \in RecordType
    BY DEF TypeOK, RecordType, Phases, OpType
  <2>2. rec' \in RecordType /\ used' \in [FaultKinds -> Nat]
    BY <1>15, <2>1, SaveTypes DEF TickOverrides
  <2> QED BY <1>15, <2>2 DEF TickOverrides, TypeOK, device, history, Continues, Returns,
  Raises, Spend, FaultKinds
<1>16. CASE TickDone
  BY <1>16 DEF TickDone, TypeOK, device, history, Continues, Returns, Raises, Spend, FaultKinds
<1> QED BY <1>1, <1>2, <1>3, <1>4, <1>5, <1>6, <1>7, <1>8, <1>9, <1>10, <1>11, <1>12, <1>13,
<1>14, <1>15, <1>16 DEF TickLocks, TickRecovers, TickGoesOn

\* What is loaded at startup is a record.
LEMMA LoadedType == ASSUME TypeOK PROVE Loaded(rec) \in RecordType
  BY DEF Loaded, TypeOK, RecordType, Phases

\* Administrators, Frigate and restarts keep the types.
LEMMA TypeWorld ==
    ASSUME TypeOK, AwaitsTarget,
           GraceEnds \/ (\E t \in Targets : Land(t)) \/ Environment
    PROVE  TypeOK'
<1> USE TargetsAssumption, BudgetAssumption
<1>1. CASE GraceEnds
  BY <1>1 DEF GraceEnds, TypeOK, device, history, Continues, Returns, Raises, Spend, FaultKinds
<1>2. ASSUME NEW t \in Targets, Land(t) PROVE TypeOK'
  BY <1>2 DEF Land, TypeOK, device, history, Continues, Returns, Raises, Spend, FaultKinds
<1>3. ASSUME NEW s \in Scopes, AdminPause(s) PROVE TypeOK'
  <2>1. s \ {Cam} \subseteq Switches /\ (Cam \in s) \in BOOLEAN
    BY DEF Scopes, Everything, Targets
  <2>2. op' = [Idle EXCEPT !.kind = "pause", !.pc = "reserve", !.who = "admin",
                          !.todo = s \ {Cam}, !.cam = Cam \in s]
    BY <1>3 DEF AdminPause, PauseLock
  <2>3. op' \in OpType
    BY <2>1, <2>2 DEF Idle, OpType, Who
  <2> QED BY <1>3, <2>3 DEF AdminPause, PauseLock, TypeOK, device, history
<1>4. CASE AdminResume
  <2>1. op' \in OpType
    BY <1>4, IdleType DEF AdminResume, ResumeLock, OpType, Who
  <2> QED BY <1>4, <2>1 DEF AdminResume, ResumeLock, TypeOK, device, history
<1>5. CASE Cancel
  <2> DEFINE left == {t \in op.exp \cup op.pre : IsOn(t)}
             camera == rec.camToggled /\ IsOn(Cam)
  <2>1. left \subseteq Switches /\ camera \in BOOLEAN /\ Failing(op) \in OpType
    BY RestoringType DEF TypeOK, OpType
  <2>2. \/ op' = Idle
        \/ op' = [Failing(op) EXCEPT !.who = "stopped", !.todo = left, !.cam = camera]
    BY <1>5 DEF Cancel, Continues
  <2> HIDE DEF left, camera
  <2>3. op' \in OpType
    <3>1. ASSUME NEW o \in OpType
          PROVE  [o EXCEPT !.who = "stopped", !.todo = left, !.cam = camera] \in OpType
      BY <2>1 DEF OpType, Who
    <3> QED  BY <2>1, <2>2, <3>1, IdleType
  <2>4. unseen' \subseteq Targets
    BY <1>5 DEF Cancel, TypeOK
  <2>5. tick' \in {"reload", tick} /\ used' \in [FaultKinds -> Nat]
    BY <1>5 DEF Cancel, Continues, Spend, FaultKinds, TypeOK
  <2>6. rec' = rec /\ lag' = lag /\ window' = window /\ held' = held /\ raced' = raced
    BY <1>5 DEF Cancel
  <2> QED BY <1>5, <2>3, <2>4, <2>5, <2>6 DEF Cancel, TypeOK, device
<1>6. CASE Reload
  BY <1>6, LoadedType DEF Reload, TypeOK, device, history
<1>7. ASSUME NEW t \in Targets, External(t) PROVE TypeOK'
  BY <1>7 DEF External, TypeOK, device, history, Continues, Returns, Raises, Spend, FaultKinds
<1>8. ASSUME NEW t \in Targets, Outage(t) PROVE TypeOK'
  BY <1>8 DEF Outage, TypeOK, device, history, Continues, Returns, Raises, Spend, FaultKinds
<1>9. ASSUME NEW t \in Targets, Return(t) PROVE TypeOK'
  BY <1>9 DEF Return, TypeOK, device, history, Continues, Returns, Raises, Spend, FaultKinds
<1>10. CASE WindowTurns
  BY <1>10 DEF WindowTurns, TypeOK, device, history, Continues, Returns, Raises, Spend,
     FaultKinds
<1>11. CASE Crash
  <2>1. vis' \in [Targets -> {"seen", "unavailable", "missing"}]
    BY <1>11 DEF Crash, TypeOK
  <2>2. used' \in [FaultKinds -> Nat]
    BY <1>11 DEF Crash, Spend, FaultKinds, TypeOK
  <2> QED BY <1>11, <2>1, <2>2, LoadedType, IdleType DEF Crash, TypeOK, history
<1> QED BY <1>1, <1>2, <1>3, <1>4, <1>5, <1>6, <1>7, <1>8, <1>9, <1>10, <1>11 DEF Environment

-----------------------------------------------------------------------------
(* The record, its plan and the handler's copies stay related.              *)

\* A step that rewrites the record, if at all, without touching its evidence.
SameEvidence ==
    /\ rec'.switches = rec.switches /\ rec'.preOff = rec.preOff
    /\ rec'.planned = rec.planned /\ rec'.camPlanned = rec.camPlanned
    /\ rec'.ext = rec.ext /\ rec'.extBase = rec.extBase /\ rec'.extPlanned = rec.extPlanned
    /\ rec'.camToggled = rec.camToggled

\* The two ways a handler goes on under the lock, with the copies it has.
SameCopies == op'.kind = op.kind /\ op'.exp = op.exp /\ op'.pre = op.pre
SameProgress ==
    /\ op'.todo = op.todo /\ op'.done = op.done
    /\ op'.cam = op.cam /\ op'.camDone = op.camDone

\* What the updates of the local variables leave alone.
LEMMA WithoutFields ==
    ASSUME op \in OpType, NEW t
    PROVE  LET o == Without(t)
           IN  /\ o.kind = op.kind /\ o.pc = op.pc /\ o.who = op.who
               /\ o.todo = op.todo \ {t} /\ o.done = op.done
               /\ o.exp = op.exp /\ o.pre = op.pre /\ o.cur = op.cur
               /\ (o.cam => op.cam /\ t # Cam) /\ o.camDone = op.camDone
  BY DEF Without, OpType

\* A handler that ends, leaving the evidence alone, leaves everything related.
LEMMA Released ==
    ASSUME TypeOK, Related, SameEvidence, op' = Idle PROVE Related'
  BY DEF SameEvidence, Idle, Related, EvidenceDisjoint, AwaitsTarget, PlanDisjoint, PausingPlan, PausingBase,
         TurningWork, Turning, ResumeCopies, ResumeWork, Fresh

\* A step that is no handler's and at most ends the record's period.
LEMMA Rephased ==
    ASSUME TypeOK, Related, SameEvidence, op' = op,
           rec'.phase \in {rec.phase, "resuming", "error", "active"}
    PROVE  Related'
  BY DEF SameEvidence, Related, EvidenceDisjoint, AwaitsTarget, PlanDisjoint, PausingPlan, PausingBase,
         TurningWork, Turning, ResumeCopies, ResumeWork, Fresh

\* A resume rewrites at most the phase of the record.
LEMMA ResumeGoesOn ==
    ASSUME TypeOK, Related, SameEvidence, SameCopies,
           op.kind = "resume", op.pc # "reserve", op'.pc # "reserve",
           rec'.phase \in {rec.phase, "resuming", "error", "active"},
           AwaitsTarget', ResumeWork'
    PROVE  Related'
  BY DEF SameEvidence, SameCopies, Related, EvidenceDisjoint, AwaitsTarget, PlanDisjoint,
         PausingPlan, PausingBase, TurningWork, Turning, ResumeCopies, ResumeWork, Fresh

\* A pause or extension between two saves.
LEMMA TurningGoesOn ==
    ASSUME TypeOK, Related, UNCHANGED rec, SameCopies,
           op.kind \in Turning, op.pc # "reserve", op'.pc # "reserve",
           AwaitsTarget', TurningWork'
    PROVE  Related'
  BY DEF SameCopies, Related, EvidenceDisjoint, AwaitsTarget, PlanDisjoint, PausingPlan, PausingBase,
         TurningWork, Turning, ResumeCopies, ResumeWork, Fresh

\* A handler that takes the lock has no copies yet.
LEMMA LockTaken ==
    ASSUME TypeOK, Related, UNCHANGED rec,
           op'.pc = "reserve", op'.exp = {}, op'.pre = {}, op'.done = {},
           op'.cur = NoTarget, ~op'.camDone
    PROVE  Related'
  BY DEF SameEvidence, Related, EvidenceDisjoint, AwaitsTarget, PlanDisjoint, PausingPlan, PausingBase,
         TurningWork, Turning, ResumeCopies, ResumeWork, Fresh

\* Every step of a pause or an extension keeps record, plan and copies related.
LEMMA RelatedPause == ASSUME TypeOK, Related, PauseStep PROVE Related'
<1> USE TargetsAssumption
<1>1. CASE PauseRefused
  BY <1>1, Released DEF PauseRefused, Returns, SameEvidence
<1>2. CASE PausePlan
  <2>1. CASE SaveFails /\ Raises
    BY <2>1, Released DEF SaveFails, Raises, SameEvidence
  <2>2. CASE ~(SaveFails /\ Raises)
    <3>1. /\ rec'.switches = {} /\ rec'.planned = {t \in op.todo : IsOn(t)}
          /\ rec'.preOff = {t \in op.todo : IsOff(t)} /\ rec'.ext = FALSE
          /\ rec'.camPlanned = (op.cam /\ IsOn(Cam)) /\ rec'.extPlanned = {}
      BY <1>2, <2>2 DEF PausePlan, Saves, NoRecord
    <3>2. /\ op'.kind = "pause" /\ op'.pc = "step"
          /\ op'.todo = {t \in op.todo : IsOn(t)} /\ op'.cam = (op.cam /\ IsOn(Cam))
          /\ op'.done = {} /\ op'.cur = NoTarget
          /\ op'.exp = op.exp /\ op'.pre = op.pre
      BY <1>2, <2>2, ZenonT(60) DEF PausePlan, Continues, TypeOK, OpType, At, Related, Fresh
    <3>3. rec'.planned \cap rec'.preOff = {} /\ rec'.preOff \subseteq Switches
      BY <3>1 DEF IsOn, IsOff, TypeOK, OpType
    <3>4. rec'.extBase = {}
      BY <1>2, <2>2 DEF PausePlan, Saves, NoRecord
    <3> QED BY <3>1, <3>2, <3>3, <3>4 DEF Related, EvidenceDisjoint, AwaitsTarget,
          PlanDisjoint, PausingPlan, PausingBase, TurningWork, Turning, ResumeCopies, ResumeWork, Fresh
  <2> QED BY <2>1, <2>2
<1>3. CASE ExtendPlan
  <2>1. CASE SaveFails /\ Raises
    BY <2>1, Released DEF SaveFails, Raises, SameEvidence
  <2>2. CASE ~(SaveFails /\ Raises)
    <3> DEFINE others == {t \in Switches \ (rec.switches \cup rec.preOff) : vis[t] # "missing"}
               planned == {t \in others : IsOn(t)}
               off == {t \in others : IsOff(t)}
    <3>1. /\ rec'.switches = rec.switches /\ rec'.extBase = rec.switches
          /\ rec'.extPlanned = planned /\ rec'.preOff = rec.preOff \cup off
          /\ rec'.ext = TRUE /\ rec'.planned = rec.planned
          /\ rec'.camPlanned = (~rec.camToggled /\ IsOn(Cam))
      BY <1>3, <2>2 DEF ExtendPlan, Saves, TypeOK, RecordType
    <3>2. /\ op'.kind = "extend" /\ op'.pc = "step" /\ op'.todo = planned
          /\ op'.done = rec.switches /\ op'.cam = (~rec.camToggled /\ IsOn(Cam))
          /\ op'.cur = NoTarget /\ op'.exp = op.exp /\ op'.pre = op.pre
      <4> DEFINE camera == ~rec.camToggled /\ IsOn(Cam)
      <4>1. op' = [op EXCEPT !.kind = "extend", !.pc = "step", !.todo = planned,
                             !.done = rec.switches, !.cam = camera,
                             !.camDone = rec.camToggled]
        BY <1>3, <2>2 DEF ExtendPlan, Continues
      <4>2. op.cur = NoTarget
        BY <1>3 DEF ExtendPlan, At, Related, Fresh
      <4> HIDE DEF others, planned, camera
      <4>3. /\ op'.kind = "extend" /\ op'.pc = "step" /\ op'.todo = planned
            /\ op'.done = rec.switches /\ op'.cam = camera
            /\ op'.cur = op.cur /\ op'.exp = op.exp /\ op'.pre = op.pre
        BY <4>1 DEF TypeOK, OpType
      <4> QED BY <4>2, <4>3 DEF camera
    <3>3. /\ planned \cap off = {} /\ off \subseteq Switches
          /\ planned \cap rec.preOff = {} /\ off \cap rec.switches = {}
      BY DEF IsOn, IsOff
    <3>4. rec.switches \cap rec.preOff = {} /\ rec.preOff \subseteq Switches
      BY DEF Related, EvidenceDisjoint, TypeOK, RecordType
    <3> HIDE DEF planned, off
    <3> QED BY <3>1, <3>2, <3>3, <3>4 DEF Related, EvidenceDisjoint, AwaitsTarget,
          PlanDisjoint, PausingPlan, PausingBase, TurningWork, Turning, ResumeCopies, ResumeWork, Fresh
  <2> QED BY <2>1, <2>2
<1>4. ASSUME NEW t \in Targets, OffCall(t) PROVE Related'
  <2>1. /\ op.kind \in Turning /\ op.pc = "step" /\ UNCHANGED rec
        /\ t \in op.todo \/ (t = Cam /\ op.cam)
    BY <1>4 DEF OffCall, At, NextOff
  <2>2. \/ op' = [Without(t) EXCEPT !.pc = "await", !.cur = t]
        \/ op' = [Without(t) EXCEPT !.pc = "record", !.cur = t, !.bad = TRUE]
    BY <1>4 DEF OffCall, Continues
  <2>3. /\ op'.pc \in {"await", "record"} /\ op'.cur = t /\ op'.done = op.done
        /\ op'.todo = op.todo \ {t} /\ (op'.cam => op.cam) /\ SameCopies
    <3>1. /\ Without(t) \in OpType /\ Without(t).done = op.done
          /\ Without(t).todo = op.todo \ {t} /\ (Without(t).cam => op.cam)
          /\ Without(t).kind = op.kind /\ Without(t).exp = op.exp /\ Without(t).pre = op.pre
      BY WithoutFields, WithoutType DEF TypeOK
    <3> QED BY <2>2, <3>1 DEF OpType, SameCopies
  <2>4. AwaitsTarget' /\ TurningWork'
    BY <2>1, <2>3 DEF AwaitsTarget, TurningWork, Related, SameCopies, TypeOK, RecordType
  <2> QED BY <2>1, <2>3, <2>4, TurningGoesOn
<1>5. CASE OffConfirmed
  <2>1. op.kind \in Turning /\ op.pc = "await" /\ UNCHANGED rec
    BY <1>5 DEF OffConfirmed, At
  <2>2. /\ op'.pc = "record" /\ op'.cur = op.cur /\ op'.done = op.done \cup ({op.cur} \ {Cam})
        /\ op'.todo = op.todo /\ op'.cam = op.cam /\ SameCopies
    BY <1>5 DEF OffConfirmed, Continues, TypeOK, OpType, SameCopies
  <2>3. AwaitsTarget' /\ TurningWork'
    BY <2>1, <2>2 DEF AwaitsTarget, TurningWork, Related, SameCopies
  <2> QED BY <2>1, <2>2, <2>3, TurningGoesOn
<1>6. CASE OffTimedOut
  <2>1. op.kind \in Turning /\ op.pc = "await" /\ UNCHANGED rec
    BY <1>6 DEF OffTimedOut, At
  <2>2. /\ op'.pc = "record" /\ op'.cur = op.cur /\ op'.done = op.done
        /\ op'.todo = op.todo /\ op'.cam = op.cam /\ SameCopies
    BY <1>6 DEF OffTimedOut, Continues, TypeOK, OpType, SameCopies
  <2>3. AwaitsTarget' /\ TurningWork'
    BY <2>1, <2>2 DEF AwaitsTarget, TurningWork, Related, SameCopies
  <2> QED BY <2>1, <2>2, <2>3, TurningGoesOn
<1>7. CASE OffRecord
  <2>1. CASE SaveFails /\ Raises
    BY <2>1, Released DEF SaveFails, Raises, SameEvidence
  <2>2. CASE ~(SaveFails /\ Raises)
    <3>1. op.kind \in Turning /\ op.pc = "record"
      BY <1>7 DEF OffRecord, At
    <3>2. /\ op'.pc = "step" /\ op'.cur = NoTarget /\ op'.done = op.done
          /\ op'.todo = op.todo /\ op'.cam = op.cam /\ SameCopies
      BY <1>7, <2>2, ZenonT(60) DEF OffRecord, Continues, TypeOK, OpType, SameCopies
    <3>3. /\ rec'.switches \in {rec.switches, op.done} /\ rec'.preOff = rec.preOff
          /\ rec'.planned = rec.planned /\ rec'.camPlanned = rec.camPlanned
          /\ rec'.ext = rec.ext /\ rec'.extBase = rec.extBase
          /\ rec'.extPlanned = rec.extPlanned
      BY <1>7, <2>2 DEF OffRecord, Saves, TypeOK, RecordType
    <3>4. rec.preOff \subseteq Switches
      BY DEF TypeOK, RecordType
    <3> QED BY <3>1, <3>2, <3>3, <3>4 DEF SameCopies, Related, EvidenceDisjoint,
    AwaitsTarget, PlanDisjoint, PausingPlan, PausingBase,
         TurningWork, Turning, ResumeCopies, ResumeWork, Fresh
  <2> QED BY <2>1, <2>2
<1>8. CASE PauseFinish
  <2>1. CASE SaveFails /\ Raises
    BY <2>1, Released DEF SaveFails, Raises, SameEvidence
  <2>2. CASE ~(SaveFails /\ Raises)
    <3>1. op.kind \in Turning /\ op.pc = "step" /\ op' = Idle
      BY <1>8, <2>2 DEF PauseFinish, At, Returns
    <3>2. /\ rec'.switches = op.done /\ rec'.preOff = rec.preOff
          /\ rec'.planned = rec.planned /\ rec'.ext = rec.ext
          /\ rec'.extBase = rec.extBase /\ rec'.extPlanned = rec.extPlanned
      BY <1>8, <2>2 DEF PauseFinish, Saves, TypeOK, RecordType
    <3> QED BY <3>1, <3>2 DEF Idle, Related, EvidenceDisjoint, AwaitsTarget, PlanDisjoint,
    PausingPlan,
         PausingBase, TurningWork, Turning, ResumeCopies, ResumeWork, Fresh
  <2> QED BY <2>1, <2>2
<1> QED BY <1>1, <1>2, <1>3, <1>4, <1>5, <1>6, <1>7, <1>8 DEF PauseStep

\* What a re-enabled record keeps.
LEMMA ReenabledFields ==
    ASSUME op \in OpType, NEW t \in Targets
    PROVE  LET o == Reenabled(t)
           IN  /\ o.kind = op.kind /\ o.pc = op.pc
               /\ o.todo = op.todo \ {t} /\ o.done = op.done \cup ({t} \ {Cam})
               /\ o.exp = op.exp /\ o.pre = op.pre /\ o.cur = op.cur
               /\ (o.cam => op.cam) /\ (o.camDone => op.camDone \/ t = Cam)
  BY WithoutFields, WithoutType DEF Reenabled, OpType

\* What a restoring record keeps.
LEMMA RestoringFields ==
    ASSUME NEW p \in OpType, NEW o, o \in {Restoring(p), Failing(p)}
    PROVE  /\ o.kind = p.kind /\ o.pc = "restore"
           /\ o.todo = p.done \cup p.pre /\ o.done = p.done
           /\ o.exp = p.exp /\ o.pre = p.pre /\ o.cur = NoTarget
           /\ o.cam = p.camDone /\ o.camDone = p.camDone
<1>1. \A q \in OpType :
         /\ Restoring(q).kind = q.kind /\ Restoring(q).pc = "restore"
         /\ Restoring(q).todo = q.done \cup q.pre /\ Restoring(q).done = q.done
         /\ Restoring(q).exp = q.exp /\ Restoring(q).pre = q.pre
         /\ Restoring(q).cur = NoTarget
         /\ Restoring(q).cam = q.camDone /\ Restoring(q).camDone = q.camDone
  BY DEF Restoring, OpType
<1> DEFINE b == [p EXCEPT !.bad = TRUE]
<1>2. /\ b \in OpType /\ b.kind = p.kind /\ b.done = p.done /\ b.pre = p.pre
      /\ b.exp = p.exp /\ b.camDone = p.camDone
  BY DEF OpType
<1>3. Failing(p) = Restoring(b)
  BY DEF Failing
<1> HIDE DEF b
<1> QED BY <1>1, <1>2, <1>3

\* A resume that fails keeps to what is in the record.
LEMMA FailingWorks ==
    ASSUME TypeOK, Related, SameEvidence, op.kind = "resume", op.pc # "reserve",
           op' \in {Restoring(op), Failing(op)},
           rec'.phase \in {rec.phase, "resuming", "error", "active"}
    PROVE  Related'
<1>1. /\ op'.pc = "restore" /\ op'.todo = op.done \cup op.pre /\ op'.done = op.done
      /\ op'.cam = op.camDone /\ op'.camDone = op.camDone /\ SameCopies
  BY RestoringFields DEF TypeOK, SameCopies
<1>2. AwaitsTarget' /\ ResumeWork'
  BY <1>1 DEF AwaitsTarget, ResumeWork, Related, SameCopies, SameEvidence
<1> QED BY <1>1, <1>2, ResumeGoesOn

\* Every step of a resume keeps them related.
LEMMA RelatedResume == ASSUME TypeOK, Related, ResumeStep PROVE Related'
<1> USE TargetsAssumption
<1>1. CASE ResumeReturnsEarly
  BY <1>1, Released DEF ResumeReturnsEarly, Returns, SameEvidence
<1>2. CASE ResumeBegin
  <2>1. op.kind = "resume" /\ op.pc = "reserve"
    BY <1>2 DEF ResumeBegin, At
  <2>2. SameEvidence
    BY <1>2, ZenonT(60) DEF ResumeBegin, Saves, SaveFails, SameEvidence, TypeOK, RecordType
  <2>3. CASE op' = Idle
    BY <2>2, <2>3, Released
  <2>4. CASE op' # Idle
    <3>1. rec'.phase = "resuming"
      BY <1>2, <2>4 DEF ResumeBegin, Returns, Raises, Saves, TypeOK, RecordType
    <3>2. /\ op'.kind = "resume" /\ op'.pc = "preflight" /\ op'.todo = rec.switches
          /\ op'.exp = rec.switches /\ op'.pre = rec.preOff /\ op'.cam = rec.camToggled
          /\ op'.done = op.done /\ op'.camDone = op.camDone
      BY <1>2, <2>1, <2>4, ZenonT(60) DEF ResumeBegin, Continues, Returns, Raises, TypeOK, OpType
    <3> QED BY <2>1, <2>2, <3>1, <3>2 DEF SameEvidence, Related, EvidenceDisjoint,
    AwaitsTarget, PlanDisjoint, PausingPlan, PausingBase,
         TurningWork, Turning, ResumeCopies, ResumeWork, Fresh
  <2> QED BY <2>3, <2>4
<1>3. CASE Preflight
  <2>1. op.kind = "resume" /\ op.pc = "preflight" /\ UNCHANGED rec
    BY <1>3 DEF Preflight, At
  <2>2. op'.pc \in {"hold", "step"} /\ SameProgress /\ SameCopies
    BY <1>3 DEF Preflight, Continues, SameCopies, SameProgress, TypeOK, OpType
  <2>3. AwaitsTarget' /\ ResumeWork'
    BY <2>1, <2>2 DEF AwaitsTarget, ResumeWork, Related, SameCopies, SameProgress, Fresh
  <2> QED BY <2>1, <2>2, <2>3, ResumeGoesOn DEF SameEvidence
<1>4. ASSUME NEW t \in Targets, OnFound(t) PROVE Related'
  <2>1. /\ op.kind = "resume" /\ op.pc = "step" /\ UNCHANGED rec
        /\ t \in op.todo \/ (t = Cam /\ op.cam)
    BY <1>4 DEF OnFound, At, NextOn
  <2>2. CASE op' = Failing(op)
    BY <2>1, <2>2, FailingWorks DEF SameEvidence
  <2>3. CASE op' = Reenabled(t)
    <3>1. /\ op'.pc = "step" /\ op'.todo = op.todo \ {t}
          /\ op'.done = op.done \cup ({t} \ {Cam})
          /\ (op'.cam => op.cam) /\ (op'.camDone => op.camDone \/ t = Cam) /\ SameCopies
      BY <2>1, <2>3, ReenabledFields DEF TypeOK, SameCopies, SameProgress
    <3>2. /\ op.todo \subseteq op.exp /\ op.done \subseteq op.exp
          /\ op.cam \/ op.camDone => rec.camToggled
      BY <2>1 DEF Related, ResumeWork
    <3>3. op'.done \subseteq op.exp /\ op'.todo \subseteq op.exp
      BY <2>1, <3>1, <3>2
    <3>4. op'.cam \/ op'.camDone => rec.camToggled
      <4>1. t = Cam => op.cam
        BY <2>1 DEF TypeOK, OpType
      <4> QED BY <3>1, <3>2, <4>1
    <3>5. AwaitsTarget' /\ ResumeWork'
      BY <2>1, <3>1, <3>3, <3>4 DEF AwaitsTarget, ResumeWork, SameCopies, SameProgress
    <3> QED BY <2>1, <3>1, <3>5, ResumeGoesOn DEF SameEvidence
  <2> QED BY <1>4, <2>2, <2>3 DEF OnFound, Continues
<1>5. ASSUME NEW t \in Targets, OnCall(t) PROVE Related'
  <2>1. /\ op.kind = "resume" /\ op.pc = "step" /\ UNCHANGED rec
        /\ t \in op.todo \/ (t = Cam /\ op.cam)
    BY <1>5 DEF OnCall, At, NextOn
  <2>2. CASE op' = Failing(op)
    BY <2>1, <2>2, FailingWorks DEF SameEvidence
  <2>3. CASE op' = [Without(t) EXCEPT !.pc = "await", !.cur = t]
    <3>1. /\ op'.pc = "await" /\ op'.cur = t /\ op'.todo = op.todo \ {t}
          /\ op'.done = op.done /\ (op'.cam => op.cam) /\ op'.camDone = op.camDone
          /\ SameCopies
      BY <2>3, WithoutFields, WithoutType DEF TypeOK, OpType, SameCopies, SameProgress
    <3>2. AwaitsTarget' /\ ResumeWork'
      BY <2>1, <3>1 DEF AwaitsTarget, ResumeWork, Related, SameCopies, SameProgress
    <3> QED BY <2>1, <3>1, <3>2, ResumeGoesOn DEF SameEvidence
  <2> QED BY <1>5, <2>2, <2>3 DEF OnCall, Continues
<1>6. CASE OnConfirmed
  <2>1. op.kind = "resume" /\ op.pc = "await" /\ UNCHANGED rec /\ op.cur \in Targets
    BY <1>6 DEF OnConfirmed, At, Related, AwaitsTarget
  <2>2. /\ op'.pc = "record" /\ op'.todo = op.todo \ {op.cur}
        /\ op'.done = op.done \cup ({op.cur} \ {Cam})
        /\ (op'.cam => op.cam) /\ (op'.camDone => op.camDone \/ op.cur = Cam) /\ SameCopies
    BY <1>6, <2>1, ReenabledFields, ReenabledType DEF OnConfirmed, Continues, TypeOK, OpType,
       SameCopies
  <2>3. /\ op.todo \subseteq op.exp /\ op.done \subseteq op.exp
        /\ op.cam \/ op.camDone => rec.camToggled
        /\ op.cur \in op.exp \/ (op.cur = Cam /\ rec.camToggled)
    BY <2>1 DEF Related, ResumeWork
  <2>4. op'.done \subseteq op.exp /\ op'.todo \subseteq op.exp
    BY <2>2, <2>3
  <2>5. op'.cam \/ op'.camDone => rec.camToggled
    <3>1. op.cur = Cam => rec.camToggled
      BY <2>3 DEF TypeOK, OpType
    <3> QED BY <2>2, <2>3, <3>1
  <2>6. AwaitsTarget' /\ ResumeWork'
    BY <2>1, <2>2, <2>4, <2>5 DEF AwaitsTarget, ResumeWork, SameCopies, SameProgress
  <2> QED BY <2>1, <2>2, <2>6, ResumeGoesOn DEF SameEvidence
<1>7. CASE OnTimedOut
  <2>1. op.kind = "resume" /\ op.pc = "await" /\ UNCHANGED rec
    BY <1>7 DEF OnTimedOut, At
  <2>2. op'.pc = "step" /\ SameProgress /\ SameCopies
    BY <1>7 DEF OnTimedOut, Continues, SameCopies, SameProgress, TypeOK, OpType
  <2>3. AwaitsTarget' /\ ResumeWork'
    BY <2>1, <2>2 DEF AwaitsTarget, ResumeWork, Related, SameCopies, SameProgress, Fresh
  <2> QED BY <2>1, <2>2, <2>3, ResumeGoesOn DEF SameEvidence
<1>8. CASE OnRecord
  <2>1. op.kind = "resume" /\ op.pc = "record"
    BY <1>8 DEF OnRecord, At
  <2>2. SameEvidence /\ rec'.phase \in {rec.phase, "resuming", "error", "active"}
    BY <1>8 DEF OnRecord, Saves, SaveFails, SameEvidence, TypeOK, RecordType
  <2>3. CASE op' = Failing(op)
    BY <2>1, <2>2, <2>3, FailingWorks
  <2>4. CASE op' = [op EXCEPT !.pc = "step", !.cur = NoTarget]
    <3>1. op'.pc = "step" /\ SameProgress /\ SameCopies
      BY <2>4 DEF TypeOK, OpType, SameCopies, SameProgress
    <3>2. AwaitsTarget' /\ ResumeWork'
      BY <2>1, <2>2, <3>1 DEF AwaitsTarget, ResumeWork, Related, SameCopies, SameProgress, SameEvidence
    <3> QED BY <2>1, <2>2, <3>1, <3>2, ResumeGoesOn
  <2> QED BY <1>8, <2>3, <2>4 DEF OnRecord, Continues
<1>9. CASE ToBaseline
  <2>1. op.kind = "resume" /\ op.pc = "step" /\ UNCHANGED rec
    BY <1>9 DEF ToBaseline, At
  <2>2. op'.pc = "baseline" /\ op'.todo = op.pre /\ op'.done = op.done /\ op'.cam = op.cam /\ op'.camDone = op.camDone /\ SameCopies
    BY <1>9 DEF ToBaseline, Continues, SameCopies, SameProgress, TypeOK, OpType
  <2>3. AwaitsTarget' /\ ResumeWork'
    BY <2>1, <2>2 DEF AwaitsTarget, ResumeWork, Related, SameCopies, SameProgress, Fresh
  <2> QED BY <2>1, <2>2, <2>3, ResumeGoesOn DEF SameEvidence
<1>10. ASSUME NEW t \in Targets, BaselineFound(t) PROVE Related'
  <2>1. op.kind = "resume" /\ op.pc = "baseline" /\ UNCHANGED rec
    BY <1>10 DEF BaselineFound, At
  <2>2. /\ op'.pc = "baseline" /\ op'.todo = op.todo \ {t} /\ op'.done = op.done
        /\ (op'.cam => op.cam) /\ op'.camDone = op.camDone /\ SameCopies
    BY <1>10, <2>1, WithoutFields, WithoutType DEF BaselineFound, Continues, TypeOK, OpType,
       SameCopies
  <2>3. AwaitsTarget' /\ ResumeWork'
    BY <2>1, <2>2 DEF AwaitsTarget, ResumeWork, Related, SameCopies, SameProgress
  <2> QED BY <2>1, <2>2, <2>3, ResumeGoesOn DEF SameEvidence
<1>11. ASSUME NEW t \in Targets, BaselineCall(t) PROVE Related'
  <2>1. /\ op.kind = "resume" /\ op.pc = "baseline" /\ UNCHANGED rec
        /\ t \in op.todo
    BY <1>11 DEF BaselineCall, At, NextOn
  <2>2. CASE op' = Failing(op)
    BY <2>1, <2>2, FailingWorks DEF SameEvidence
  <2>3. CASE op' = [Without(t) EXCEPT !.pc = "awaitbase", !.cur = t]
    <3>1. /\ op'.pc = "awaitbase" /\ op'.cur = t /\ op'.todo = op.todo \ {t}
          /\ op'.done = op.done /\ (op'.cam => op.cam) /\ op'.camDone = op.camDone
          /\ SameCopies
      BY <2>3, WithoutFields, WithoutType DEF TypeOK, OpType, SameCopies, SameProgress
    <3>2. AwaitsTarget' /\ ResumeWork'
      BY <2>1, <3>1 DEF AwaitsTarget, ResumeWork, Related, SameCopies, SameProgress
    <3> QED BY <2>1, <3>1, <3>2, ResumeGoesOn DEF SameEvidence
  <2> QED BY <1>11, <2>2, <2>3 DEF BaselineCall, Continues
<1>12. CASE BaselineReadback
  <2>1. op.kind = "resume" /\ op.pc = "awaitbase" /\ UNCHANGED rec
    BY <1>12 DEF BaselineReadback, At
  <2>2. op'.pc = "baseline" /\ SameProgress /\ SameCopies
    <3>1. CASE op' = [op EXCEPT !.pc = "baseline", !.cur = NoTarget]
      BY <3>1 DEF SameCopies, SameProgress, TypeOK, OpType
    <3>2. CASE op' = [op EXCEPT !.pc = "baseline", !.cur = NoTarget, !.bad = TRUE]
      BY <3>2 DEF SameCopies, SameProgress, TypeOK, OpType
    <3> QED BY <1>12, <3>1, <3>2 DEF BaselineReadback, Continues
  <2>3. AwaitsTarget' /\ ResumeWork'
    BY <2>1, <2>2 DEF AwaitsTarget, ResumeWork, Related, SameCopies, SameProgress
  <2> QED BY <2>1, <2>2, <2>3, ResumeGoesOn DEF SameEvidence
<1>13. CASE ResumeDecide
  <2>1. op.kind = "resume" /\ op.pc = "baseline" /\ UNCHANGED rec
    BY <1>13 DEF ResumeDecide, At
  <2>2. CASE op' = Failing(op)
    BY <2>1, <2>2, FailingWorks DEF SameEvidence
  <2>3. CASE op' = [op EXCEPT !.pc = "mark"]
    <3>1. op'.pc = "mark" /\ SameProgress /\ SameCopies
      BY <2>3 DEF TypeOK, OpType, SameCopies, SameProgress
    <3>2. AwaitsTarget' /\ ResumeWork'
      BY <2>1, <3>1 DEF AwaitsTarget, ResumeWork, Related, SameCopies, SameProgress
    <3> QED BY <2>1, <3>1, <3>2, ResumeGoesOn DEF SameEvidence
  <2> QED BY <1>13, <2>2, <2>3 DEF ResumeDecide, Continues
<1>14. CASE MarkActive
  <2>1. op.kind = "resume" /\ op.pc = "mark"
    BY <1>14 DEF MarkActive, At
  <2>2. SameEvidence /\ rec'.phase \in {rec.phase, "resuming", "error", "active"}
    BY <1>14 DEF MarkActive, Saves, SaveFails, SameEvidence, TypeOK, RecordType
  <2>3. CASE op' = Restoring(op)
    BY <2>1, <2>2, <2>3, FailingWorks
  <2>4. CASE op' = Idle
    BY <2>2, <2>4, Released
  <2> QED BY <1>14, <2>3, <2>4 DEF MarkActive, Continues, Returns
<1>15. ASSUME NEW t \in Targets, Repause(t) PROVE Related'
  <2>1. op.kind = "resume" /\ op.pc = "restore" /\ UNCHANGED rec
    BY <1>15 DEF Repause, At
  <2>2. /\ op'.pc = "restore" /\ op'.todo = op.todo \ {t} /\ op'.done = op.done
        /\ (op'.cam => op.cam) /\ op'.camDone = op.camDone /\ SameCopies
    BY <1>15, <2>1, WithoutFields DEF Repause, Continues, TypeOK, SameCopies, SameProgress
  <2>3. AwaitsTarget' /\ ResumeWork'
    BY <2>1, <2>2 DEF AwaitsTarget, ResumeWork, Related, SameCopies, SameProgress
  <2> QED BY <2>1, <2>2, <2>3, ResumeGoesOn DEF SameEvidence
<1>16. CASE RepauseDone
  <2>1. op.kind = "resume" /\ op.pc = "restore" /\ UNCHANGED rec
    BY <1>16 DEF RepauseDone, At
  <2>2. op'.pc = "hold" /\ SameProgress /\ SameCopies
    BY <1>16 DEF RepauseDone, Continues, SameCopies, SameProgress, TypeOK, OpType
  <2>3. AwaitsTarget' /\ ResumeWork'
    BY <2>1, <2>2 DEF AwaitsTarget, ResumeWork, Related, SameCopies, SameProgress, Fresh
  <2> QED BY <2>1, <2>2, <2>3, ResumeGoesOn DEF SameEvidence
<1>17. CASE HoldFailSafe
  <2>1. op.kind = "resume" /\ op.pc = "hold"
    BY <1>17 DEF HoldFailSafe, At
  <2>2. SameEvidence /\ rec'.phase \in {rec.phase, "resuming", "error", "active"}
    BY <1>17 DEF HoldFailSafe, Saves, SaveFails, SameEvidence, TypeOK, RecordType
  <2>3. CASE op' = [op EXCEPT !.pc = "persist"]
    <3>1. op'.pc = "persist" /\ SameProgress /\ SameCopies
      BY <2>3 DEF TypeOK, OpType, SameCopies, SameProgress
    <3>2. AwaitsTarget' /\ ResumeWork'
      BY <2>1, <2>2, <3>1 DEF AwaitsTarget, ResumeWork, Related, SameCopies, SameProgress, SameEvidence
    <3> QED BY <2>1, <2>2, <3>1, <3>2, ResumeGoesOn
  <2>4. CASE op' = Idle
    BY <2>2, <2>4, Released
  <2> QED BY <1>17, <2>3, <2>4 DEF HoldFailSafe, Continues, Returns
<1>18. CASE PersistError
  <2>1. op.kind = "resume" /\ op.pc = "persist"
    BY <1>18 DEF PersistError, At
  <2>2. SameEvidence /\ rec'.phase \in {rec.phase, "resuming", "error", "active"}
    BY <1>18 DEF PersistError, Saves, SaveFails, SameEvidence, TypeOK, RecordType
  <2> QED BY <1>18, <2>2, Released DEF PersistError, Returns, Raises
<1> QED BY <1>1, <1>2, <1>3, <1>4, <1>5, <1>6, <1>7, <1>8, <1>9, <1>10, <1>11, <1>12, <1>13,
<1>14, <1>15, <1>16, <1>17, <1>18 DEF ResumeStep

\* So does the tick, which takes no lock: what it writes stays within the plan.
LEMMA RelatedTick ==
    ASSUME TypeOK, Related, TickLocks \/ TickRecovers \/ TickGoesOn PROVE Related'
<1> USE TargetsAssumption
<1>1. CASE SchedulePause
  BY <1>1, LockTaken DEF SchedulePause, PauseLock, Idle
<1>2. CASE AutoResume
  BY <1>2, LockTaken DEF AutoResume, ResumeLock, Idle
<1>3. CASE RecoverResume
  BY <1>3, LockTaken DEF RecoverResume, ResumeLock, Idle
<1>4. CASE RecoverReplayed
  BY <1>4, Rephased DEF RecoverReplayed, SameEvidence, device, history
<1>5. CASE TickWaits
  BY <1>5, Rephased DEF TickWaits, SameEvidence, device, history
<1>6. CASE TickFinalizes
  <2>1. CASE rec' = rec
    BY <1>6, <2>1, Rephased DEF TickFinalizes, SameEvidence
  <2>2. CASE rec' # rec
    <3> DEFINE seen == IF rec.phase = "pausing"
                       THEN {t \in PausingPlan \cup PausingBase : Report(t) = "off"} ELSE {}
    <3>1. /\ rec'.switches = rec.switches \cup seen /\ rec'.preOff = rec.preOff
          /\ rec'.planned = rec.planned /\ rec'.camPlanned = rec.camPlanned
          /\ rec'.ext = rec.ext /\ rec'.extBase = rec.extBase
          /\ rec'.extPlanned = rec.extPlanned /\ rec'.phase = "error"
          /\ rec.phase # "pausing" => rec'.camToggled = rec.camToggled
      BY <1>6, <2>2, ZenonT(60) DEF TickFinalizes, Saves, SaveFails, TypeOK, RecordType
    <3>2. seen \cap rec.preOff = {} /\ (rec.phase # "pausing" => seen = {})
      BY DEF Related, PlanDisjoint
    <3>3. op' = op
      BY <1>6 DEF TickFinalizes
    <3> HIDE DEF seen
    <3> QED BY <3>1, <3>2, <3>3 DEF SameEvidence, Related, EvidenceDisjoint, AwaitsTarget,
          PlanDisjoint, PausingPlan, PausingBase, TurningWork, Turning, ResumeCopies, ResumeWork, Fresh
  <2> QED BY <2>1, <2>2
<1>7. CASE TickRecoversPause
  <2>1. CASE rec' = rec
    BY <1>7, <2>1, Rephased DEF TickRecoversPause, SameEvidence
  <2>2. CASE rec' # rec
    <3> DEFINE seen == PausingBase \cup {t \in PausingPlan : Report(t) = "off"}
    <3>1. /\ rec'.switches = seen /\ rec'.preOff = rec.preOff
          /\ rec'.planned = rec.planned /\ rec'.camPlanned = rec.camPlanned
          /\ rec'.ext = rec.ext /\ rec'.extBase = rec.extBase
          /\ rec'.extPlanned = rec.extPlanned
      BY <1>7, <2>2, ZenonT(60) DEF TickRecoversPause, Saves, SaveFails, TypeOK, RecordType
    <3>2. seen \cap rec.preOff = {}
      BY DEF Related, PlanDisjoint
    <3>3. op' = op /\ rec.phase = "pausing"
      BY <1>7 DEF TickRecoversPause
    <3> HIDE DEF seen
    <3> QED BY <3>1, <3>2, <3>3 DEF SameEvidence, Related, EvidenceDisjoint, AwaitsTarget,
          PlanDisjoint, PausingPlan, PausingBase, TurningWork, Turning, ResumeCopies, ResumeWork, Fresh
  <2> QED BY <2>1, <2>2
<1>8. CASE TickRecoversResume
  BY <1>8, Rephased DEF TickRecoversResume, SameEvidence, device, history
<1>9. CASE TickNothingToRecover
  BY <1>9, Rephased DEF TickNothingToRecover, SameEvidence, device, history
<1>10. CASE TickEnds
  BY <1>10, Rephased DEF TickEnds, SameEvidence, device, history
<1>11. CASE TickPauses
  BY <1>11, Rephased DEF TickPauses, SameEvidence, device, history
<1>12. CASE TickReleases
  <2>1. SameEvidence /\ rec'.phase \in {rec.phase, "resuming", "error", "active"}
    BY <1>12 DEF TickReleases, Saves, SaveFails, SameEvidence, TypeOK, RecordType
  <2> QED BY <1>12, <2>1, Rephased DEF TickReleases
<1>13. CASE TickUncovers
  <2>1. SameEvidence /\ rec'.phase \in {rec.phase, "resuming", "error", "active"}
    BY <1>13 DEF TickUncovers, Saves, SaveFails, SameEvidence, TypeOK, RecordType
  <2> QED BY <1>13, <2>1, Rephased DEF TickUncovers
<1>14. CASE TickQuiet
  BY <1>14, Rephased DEF TickQuiet, SameEvidence, device, history
<1>15. CASE TickOverrides
  <2>1. SameEvidence /\ rec'.phase \in {rec.phase, "resuming", "error", "active"}
    BY <1>15 DEF TickOverrides, Saves, SaveFails, SameEvidence, TypeOK, RecordType
  <2> QED BY <1>15, <2>1, Rephased DEF TickOverrides
<1>16. CASE TickDone
  BY <1>16, Rephased DEF TickDone, SameEvidence, device, history
<1> QED BY <1>1, <1>2, <1>3, <1>4, <1>5, <1>6, <1>7, <1>8, <1>9, <1>10, <1>11, <1>12, <1>13,
<1>14, <1>15, <1>16 DEF TickLocks, TickRecovers, TickGoesOn

\* So do administrators, Frigate, cancellations and restarts.
LEMMA RelatedWorld ==
    ASSUME TypeOK, Related,
           GraceEnds \/ (\E t \in Targets : Land(t)) \/ Environment
    PROVE  Related'
<1> USE TargetsAssumption
<1>1. CASE GraceEnds
  BY <1>1, Rephased DEF GraceEnds, SameEvidence, device, history
<1>2. ASSUME NEW t \in Targets, Land(t) PROVE Related'
  BY <1>2, Rephased DEF Land, SameEvidence, device, history
<1>3. ASSUME NEW s \in Scopes, AdminPause(s) PROVE Related'
  BY <1>3, LockTaken DEF AdminPause, PauseLock, Idle
<1>4. CASE AdminResume
  BY <1>4, LockTaken DEF AdminResume, ResumeLock, Idle
<1>5. CASE Cancel
  <2>1. UNCHANGED rec
    BY <1>5 DEF Cancel
  <2>2. CASE op' = Idle
    BY <2>1, <2>2, Released DEF SameEvidence
  <2>3. CASE op' # Idle
    <3> DEFINE left == {t \in op.exp \cup op.pre : IsOn(t)}
               camera == rec.camToggled /\ IsOn(Cam)
    <3>1. op.kind = "resume" /\ op.pc # "reserve"
      BY <1>5, <2>3 DEF Cancel, Trying
    <3>2. op' = [Failing(op) EXCEPT !.who = "stopped", !.todo = left, !.cam = camera]
      BY <1>5, <2>3 DEF Cancel, Continues
    <3>3. left \subseteq op.exp \cup op.pre /\ (camera => rec.camToggled)
      OBVIOUS
    <3> HIDE DEF left, camera
    <3>4. /\ op'.pc = "restore" /\ op'.todo = left /\ op'.cam = camera
          /\ op'.done = op.done /\ op'.camDone = op.camDone /\ SameCopies
      <4>1. Failing(op) \in OpType
        BY RestoringType DEF TypeOK
      <4>2. /\ Failing(op).pc = "restore" /\ Failing(op).done = op.done
            /\ Failing(op).camDone = op.camDone /\ Failing(op).kind = op.kind
            /\ Failing(op).exp = op.exp /\ Failing(op).pre = op.pre
        BY RestoringFields DEF TypeOK
      <4> QED BY <3>2, <4>1, <4>2 DEF OpType, SameCopies
    <3>5. AwaitsTarget' /\ ResumeWork'
      BY <2>1, <3>1, <3>3, <3>4 DEF AwaitsTarget, ResumeWork, Related, SameCopies
    <3> QED BY <2>1, <3>1, <3>4, <3>5, ResumeGoesOn DEF SameEvidence
  <2> QED BY <2>2, <2>3
<1>6. CASE Reload
  <2>1. SameEvidence /\ rec'.phase \in {rec.phase, "active"}
    BY <1>6 DEF Reload, Loaded, SameEvidence, TypeOK, RecordType
  <2> QED BY <1>6, <2>1, Rephased DEF Reload
<1>7. ASSUME NEW t \in Targets, External(t) PROVE Related'
  BY <1>7, Rephased DEF External, SameEvidence, device, history
<1>8. ASSUME NEW t \in Targets, Outage(t) PROVE Related'
  BY <1>8, Rephased DEF Outage, SameEvidence, device, history
<1>9. ASSUME NEW t \in Targets, Return(t) PROVE Related'
  BY <1>9, Rephased DEF Return, SameEvidence, device, history
<1>10. CASE WindowTurns
  BY <1>10, Rephased DEF WindowTurns, SameEvidence, device, history
<1>11. CASE Crash
  <2>1. SameEvidence /\ op' = Idle
    BY <1>11 DEF Crash, Loaded, SameEvidence, TypeOK, RecordType
  <2> QED BY <2>1, Released
<1> QED BY <1>1, <1>2, <1>3, <1>4, <1>5, <1>6, <1>7, <1>8, <1>9, <1>10, <1>11 DEF Environment

-----------------------------------------------------------------------------
(* The theorems.                                                            *)

\* The first state satisfies the invariant.
LEMMA InitiallyIInv == Init => IInv
<1> SUFFICES ASSUME Init PROVE IInv
  OBVIOUS
<1> USE TargetsAssumption, BudgetAssumption
<1>1. rec \in RecordType /\ op \in OpType
  BY IdleType DEF Init, NoRecord, RecordType, Phases
<1>2. TypeOK
  BY <1>1 DEF Init, TypeOK, FaultKinds
<1>3. Related
  BY DEF Init, NoRecord, Idle, Related, EvidenceDisjoint, AwaitsTarget, PlanDisjoint,
         PausingPlan, PausingBase, TurningWork, Turning, ResumeCopies, ResumeWork, Fresh
<1> QED BY <1>2, <1>3 DEF IInv

\* Every step keeps it.
LEMMA StepKeepsIInv == IInv /\ [Next]_vars => IInv'
<1> SUFFICES ASSUME TypeOK, Related, [Next]_vars PROVE TypeOK' /\ Related'
  BY DEF IInv
<1>0. AwaitsTarget
  BY DEF Related
<1>1. CASE PauseStep
  BY <1>0, <1>1, TypePause, RelatedPause
<1>2. CASE ResumeStep
  BY <1>0, <1>2, TypeResume, RelatedResume
<1>3. CASE TickLocks \/ TickRecovers \/ TickGoesOn
  BY <1>0, <1>3, TypeTick, RelatedTick
<1>4. CASE GraceEnds \/ (\E t \in Targets : Land(t)) \/ Environment
  BY <1>0, <1>4, TypeWorld, RelatedWorld
<1>5. CASE UNCHANGED vars
  <2>1. TypeOK'
    BY <1>5 DEF vars, TypeOK
  <2>2. Related'
    BY <1>5, Rephased DEF vars, SameEvidence
  <2> QED BY <2>1, <2>2
<1> QED BY <1>1, <1>2, <1>3, <1>4, <1>5 DEF Next

\* The invariant that relates the record, its plan and the copies a handler works
\* from, and carries the theorems below.
THEOREM AlwaysIInv == Spec => []IInv
  BY InitiallyIInv, StepKeepsIInv, PTL DEF Spec

\* Every variable keeps its type: in particular no handler is left with a readback
\* of nothing, and the record never holds a target outside the camera's switches.
THEOREM TypeCorrect == Spec => []TypeOK
<1>1. IInv => TypeOK
  BY DEF IInv
<1> QED BY <1>1, AlwaysIInv, PTL

\* What a resume turns on and what it keeps off never overlap, for any number of
\* switches and any number of crashes, failed saves, lost calls and cancellations.
THEOREM EvidenceStaysDisjoint == Spec => []EvidenceDisjoint
<1>1. IInv => EvidenceDisjoint
  BY DEF IInv, Related
<1> QED BY <1>1, AlwaysIInv, PTL

\* From the invariant, a step that issues a call has its intent in the record.
LEMMA StepHasIntent == IInv /\ [Next]_vars => [IntentAction]_vars
<1> SUFFICES ASSUME TypeOK, Related, Next, NEW t \in Targets,
                    lag'[t] # lag[t], lag'[t] # "none"
             PROVE  LET ours == IF t = Cam THEN rec.camToggled ELSE t \in rec.switches
                        plan == IF t = Cam THEN rec.camPlanned
                                ELSE t \in rec.planned \cup rec.extPlanned
                    IN  CASE lag'[t] = "on" ->
                               ours /\ rec.phase \notin {"pausing", "paused", "partial"}
                          [] lag'[t] = "off" -> ours \/ plan
                          [] OTHER -> t \in rec.preOff
  BY DEF IInv, IntentAction
<1> USE TargetsAssumption
<1>1. ASSUME NEW u \in Targets, OffCall(u)
      PROVE  /\ lag'[t] = "off"
             /\ IF t = Cam THEN rec.camPlanned ELSE t \in rec.planned \cup rec.extPlanned
  <2>1. t = u /\ lag'[t] = "off"
    BY <1>1 DEF OffCall, CallReturns, CallRaises, Delivered, Swallowed, TypeOK
  <2>2. /\ op.kind \in Turning /\ op.pc # "reserve"
        /\ t \in op.todo \/ (t = Cam /\ op.cam)
    BY <1>1, <2>1 DEF OffCall, At, NextOff
  <2>3. t = Cam => op.cam
    BY <2>2 DEF TypeOK, OpType
  <2> QED BY <2>1, <2>2, <2>3 DEF Related, TurningWork
<1>2. ASSUME NEW u \in Targets, OnCall(u)
      PROVE  /\ lag'[t] = "on" /\ rec.phase \notin {"pausing", "paused", "partial"}
             /\ IF t = Cam THEN rec.camToggled ELSE t \in rec.switches
  <2>1. t = u /\ lag'[t] = "on"
    BY <1>2 DEF OnCall, CallReturns, CallRaises, Delivered, Swallowed, TypeOK
  <2>2. /\ op.kind = "resume" /\ op.pc = "step"
        /\ t \in op.todo \/ (t = Cam /\ op.cam)
    BY <1>2, <2>1 DEF OnCall, At, NextOn
  <2>3. t = Cam => op.cam
    BY <2>2 DEF TypeOK, OpType
  <2> QED BY <2>1, <2>2, <2>3 DEF Related, ResumeCopies, ResumeWork
<1>3. ASSUME NEW u \in Targets, BaselineCall(u)
      PROVE  lag'[t] = "base" /\ t \in rec.preOff
  <2>1. t = u /\ lag'[t] = "base"
    BY <1>3 DEF BaselineCall, CallReturns, CallRaises, Delivered, Swallowed, TypeOK
  <2>2. op.kind = "resume" /\ op.pc = "baseline" /\ t \in op.todo
    BY <1>3, <2>1 DEF BaselineCall, At
  <2> QED BY <2>1, <2>2 DEF Related, ResumeCopies, ResumeWork
<1>4. ASSUME NEW u \in Targets, Repause(u)
      PROVE  \/ lag'[t] = "base" /\ t \in rec.preOff
             \/ /\ lag'[t] = "off"
                /\ IF t = Cam THEN rec.camToggled ELSE t \in rec.switches
  <2>1. t = u /\ lag'[t] = IF t \in op.pre THEN "base" ELSE "off"
    BY <1>4 DEF Repause, Delivered, TypeOK
  <2>2. /\ op.kind = "resume" /\ op.pc = "restore"
        /\ t \in op.todo \/ (t = Cam /\ op.cam)
    BY <1>4, <2>1 DEF Repause, At, NextOff
  <2>3. t = Cam => op.cam
    BY <2>2 DEF TypeOK, OpType
  <2>4. op.exp = rec.switches /\ op.pre = rec.preOff /\ op.todo \subseteq op.exp \cup op.pre
    BY <2>2 DEF Related, ResumeCopies, ResumeWork
  <2> QED BY <2>1, <2>2, <2>3, <2>4 DEF Related, ResumeWork
<1>5. ASSUME NEW u \in Targets, Land(u) PROVE FALSE
  BY <1>5 DEF Land, TypeOK
<1>6. \/ \E u \in Targets : OffCall(u) \/ OnCall(u) \/ BaselineCall(u) \/ Repause(u) \/ Land(u)
      \/ UNCHANGED lag
  <2>1. CASE PauseStep
    BY <2>1 DEF PauseStep, PauseRefused, PausePlan, ExtendPlan, OffConfirmed, OffTimedOut,
                OffRecord, PauseFinish
  <2>2. CASE ResumeStep
    BY <2>2 DEF ResumeStep, ResumeReturnsEarly, ResumeBegin, Preflight, OnFound, OnConfirmed,
                OnTimedOut, OnRecord, ToBaseline, BaselineFound, BaselineReadback,
                ResumeDecide, MarkActive, RepauseDone, HoldFailSafe, PersistError
  <2>3. CASE TickLocks \/ TickRecovers \/ TickGoesOn
    BY <2>3 DEF TickLocks, TickRecovers, TickGoesOn, SchedulePause, AutoResume, RecoverResume,
                RecoverReplayed, PauseLock, ResumeLock, TickWaits, TickFinalizes,
                TickRecoversPause, TickRecoversResume, TickNothingToRecover, TickEnds,
                TickPauses, TickReleases, TickUncovers, TickQuiet, TickOverrides, TickDone
  <2>4. CASE GraceEnds \/ (\E u \in Targets : Land(u)) \/ Environment
    BY <2>4 DEF GraceEnds, Environment, AdminPause, AdminResume, PauseLock, ResumeLock,
                Cancel, Reload, External, Outage, Return, WindowTurns, Crash
  <2> QED BY <2>1, <2>2, <2>3, <2>4 DEF Next
<1> QED BY <1>1, <1>2, <1>3, <1>4, <1>5, <1>6

\* Every service call the integration makes has its intent in the durable record
\* first: no target is switched off that the record does not plan or list, none is
\* switched on that it does not list as ours, whatever fails in between.
THEOREM IntentPrecedesControl == Spec => IntentBeforeControl
<1>1. IInv /\ [Next]_vars => [IntentAction]_vars
  BY StepHasIntent
<1> QED BY <1>1, AlwaysIInv, PTL DEF Spec, IntentBeforeControl
-----------------------------------------------------------------------------
(* The evidence is complete.                                                *)

Working == op.kind \in Turning /\ op.pc # "reserve"
Dark == held \cap Switches
Awaiting == IF op.pc = "await" THEN {op.cur} ELSE {}

HeldOff == \A t \in held : real[t] = "off"

\* Where a handler can be.
Places ==
    /\ op.kind = "none" => op.pc = "idle"
    /\ op.kind \in Turning => op.pc \in {"reserve", "step", "await", "record"}

\* What a pause or extension has turned off, or has left to do, is in its plan: there
\* recovery will look for it.
WorkPlanned ==
    Working =>
        /\ op.todo \subseteq PausingPlan
        /\ op.done \subseteq PausingPlan \cup PausingBase
        /\ op.pc = "await" => op.cur \in PausingPlan \cup {Cam}

\* Where a darkened switch is remembered: by the plan of a pause under way or interrupted,
\* by the handler that works on it, and by the record at rest.
Remembered ==
    raced \/
      /\ rec.phase = "pausing" => Dark \subseteq PausingPlan \cup PausingBase \cup unseen
      /\ rec.phase \in {"paused", "partial"} => ~Working /\ Dark \subseteq rec.switches \cup unseen
      /\ Working => Dark \subseteq op.done \cup unseen \cup Awaiting

EInv == HeldOff /\ Places /\ WorkPlanned /\ Remembered

SamePlan ==
    /\ rec'.planned = rec.planned /\ rec'.ext = rec.ext
    /\ rec'.extBase = rec.extBase /\ rec'.extPlanned = rec.extPlanned

\* A step that darkens nothing, and after which no handler works or the same one does.
LEMMA Carried ==
    ASSUME EInv, SamePlan, HeldOff', held' \subseteq held, unseen \subseteq unseen', raced' = raced,
           rec'.phase \in {rec.phase, "resuming", "error", "active"},
           rec'.phase = rec.phase => rec'.switches = rec.switches,
           op' = op \/ (~Working' /\ Places')
    PROVE  EInv'
<1>1. PausingPlan' = PausingPlan /\ PausingBase' = PausingBase
  BY DEF SamePlan, PausingPlan, PausingBase
<1>2. Dark' \subseteq Dark  BY DEF Dark
<1>3. CASE op' = op
  <2>1. Working' = Working /\ Awaiting' = Awaiting  BY <1>3 DEF Working, Awaiting
  <2> QED  BY <1>1, <1>2, <1>3, <2>1 DEF EInv, Places, WorkPlanned, Remembered
<1>4. CASE ~Working' /\ Places'
  BY <1>1, <1>2, <1>4 DEF EInv, WorkPlanned, Remembered
<1> QED  BY <1>3, <1>4

\* A record that claims no pause, and no handler at work on one: nothing to remember.
LEMMA NothingClaimed ==
    ASSUME HeldOff', Places', ~Working', rec'.phase \in {"resuming", "error", "active"}
    PROVE  EInv'
BY DEF EInv, WorkPlanned, Remembered

LEMMA IdleIsPlaced ==
    ASSUME op' = Idle PROVE Places' /\ ~Working'
BY DEF Idle, Places, Working, Turning

LEMMA LockIsPlaced ==
    ASSUME op'.pc = "reserve", op'.kind # "none" PROVE Places' /\ ~Working'
BY DEF Places, Working, Turning

\* A call that is delivered leaves what is dark, and has gone unseen, as it was.
LEMMA OffLeavesUnseen ==
    ASSUME TypeOK, HeldOff, NEW t \in Targets, CallReturns(t, "off") \/ CallRaises(t, "off")
    PROVE  held \cap unseen \subseteq unseen'
BY DEF CallReturns, CallRaises, Delivered, Swallowed, HeldOff, TypeOK

LEMMA EvidencePause ==
    ASSUME TypeOK, Related, EInv, PauseStep
    PROVE  EInv'
<1> USE TargetsAssumption
<1>0. /\ op \in OpType /\ rec \in RecordType /\ held \subseteq Targets
      /\ HeldOff /\ Places /\ WorkPlanned /\ Remembered
  BY DEF TypeOK, EInv
<1>1. CASE PauseRefused
  <2>1. op' = Idle /\ UNCHANGED <<rec, real, held, unseen, raced>>
    BY <1>1 DEF PauseRefused, Returns, device, history
  <2> QED  BY <1>0, <2>1, Carried, IdleIsPlaced DEF SamePlan, HeldOff
<1>2. ASSUME SaveFails, Raises, UNCHANGED <<real, held, unseen, raced>>
      PROVE  EInv'
  <2>1. op' = Idle /\ UNCHANGED rec  BY <1>2 DEF SaveFails, Raises
  <2> QED  BY <1>0, <1>2, <2>1, Carried, IdleIsPlaced DEF SamePlan, HeldOff
<1>3. CASE PausePlan
  <2>1. CASE SaveFails /\ Raises /\ UNCHANGED history
    BY <1>2, <1>3, <2>1 DEF PausePlan, device, history
  <2>2. CASE ~(SaveFails /\ Raises /\ UNCHANGED history)
    <3> DEFINE planned == {t \in op.todo : IsOn(t)}
               camera == op.cam /\ IsOn(Cam)
    <3>1. /\ rec'.phase = "pausing" /\ rec'.planned = planned /\ rec'.ext = FALSE
          /\ op' = [op EXCEPT !.pc = "step", !.todo = planned, !.cam = camera]
          /\ held' = {} /\ raced' = FALSE
      BY <1>3, <2>2 DEF PausePlan, Saves, Continues, NoRecord
    <3>2. op.kind = "pause" /\ op.done = {}
      BY <1>3 DEF PausePlan, At, Related, Fresh
    <3> HIDE DEF planned, camera
    <3>3. op'.kind = "pause" /\ op'.pc = "step" /\ op'.todo = planned /\ op'.done = {}
      BY <1>0, <3>1, <3>2 DEF OpType
    <3>4. PausingPlan' = planned  BY <3>1 DEF PausingPlan
    <3>5. HeldOff' /\ Dark' = {}  BY <3>1 DEF HeldOff, Dark
    <3>6. Places' /\ WorkPlanned'  BY <3>3, <3>4 DEF Places, WorkPlanned, Turning
    <3>7. Remembered'  BY <3>1, <3>5 DEF Remembered
    <3> QED  BY <3>5, <3>6, <3>7 DEF EInv
  <2> QED  BY <2>1, <2>2
<1>4. CASE ExtendPlan
  <2>0. UNCHANGED <<real, held, unseen, raced>>  BY <1>4 DEF ExtendPlan, device, history
  <2>1. CASE SaveFails /\ Raises
    BY <1>2, <2>0, <2>1
  <2>2. CASE ~(SaveFails /\ Raises)
    <3> DEFINE others == {t \in Switches \ (rec.switches \cup rec.preOff) : vis[t] # "missing"}
               planned == {t \in others : IsOn(t)}
               camera == ~rec.camToggled /\ IsOn(Cam)
    <3>1. /\ rec'.phase = "pausing" /\ rec'.ext = TRUE
          /\ rec'.extBase = rec.switches /\ rec'.extPlanned = planned
          /\ op' = [op EXCEPT !.kind = "extend", !.pc = "step", !.todo = planned,
                              !.done = rec.switches, !.cam = camera,
                              !.camDone = rec.camToggled]
      BY <1>0, <1>4, <2>2 DEF ExtendPlan, Saves, Continues, RecordType
    <3>2. rec.phase \in {"paused", "partial"}
      BY <1>4 DEF ExtendPlan, Extendable
    <3> HIDE DEF planned, camera
    <3>3. op'.kind = "extend" /\ op'.pc = "step" /\ op'.todo = planned /\ op'.done = rec.switches
      BY <1>0, <3>1 DEF OpType
    <3>4. PausingPlan' = planned /\ PausingBase' = rec.switches
      BY <3>1 DEF PausingPlan, PausingBase
    <3>5. HeldOff' /\ Dark' = Dark  BY <1>0, <2>0 DEF HeldOff, Dark
    <3>6. Places' /\ WorkPlanned'  BY <3>3, <3>4 DEF Places, WorkPlanned, Turning
    <3>7. raced \/ Dark \subseteq rec.switches \cup unseen  BY <1>0, <3>2 DEF Remembered
    <3>8. Remembered'  BY <2>0, <3>1, <3>3, <3>4, <3>5, <3>7 DEF Remembered
    <3> QED  BY <3>5, <3>6, <3>8 DEF EInv
  <2> QED  BY <2>1, <2>2
<1>5. ASSUME NEW t \in Targets, OffCall(t) PROVE EInv'
  <2>1. /\ op.kind \in Turning /\ op.pc = "step" /\ UNCHANGED <<rec, real, held, raced>>
        /\ t \in op.todo \/ t = Cam
        /\ CallReturns(t, "off") \/ CallRaises(t, "off")
    BY <1>5 DEF OffCall, At, NextOff, device
  <2>2. \/ op' = [Without(t) EXCEPT !.pc = "await", !.cur = t]
        \/ op' = [Without(t) EXCEPT !.pc = "record", !.cur = t, !.bad = TRUE]
    BY <1>5 DEF OffCall, Continues
  <2>3. /\ op'.pc \in {"await", "record"} /\ op'.cur = t /\ op'.done = op.done
        /\ op'.todo = op.todo \ {t} /\ op'.kind = op.kind
    <3>1. /\ Without(t) \in OpType /\ Without(t).done = op.done
          /\ Without(t).todo = op.todo \ {t} /\ Without(t).kind = op.kind
      BY <1>0, WithoutFields, WithoutType
    <3> QED  BY <2>2, <3>1, ZenonT(60) DEF OpType
  <2>4. Working /\ Working' /\ Awaiting = {}
    BY <2>1, <2>3 DEF Working, Awaiting
  <2>5. /\ PausingPlan' = PausingPlan /\ PausingBase' = PausingBase /\ Dark' = Dark /\ HeldOff'
    BY <1>0, <2>1 DEF PausingPlan, PausingBase, Dark, HeldOff
  <2>6. Dark \cap unseen \subseteq unseen'
    BY <1>0, <2>1, OffLeavesUnseen DEF Dark
  <2>7. Places' /\ WorkPlanned'
    BY <1>0, <2>1, <2>3, <2>4, <2>5 DEF Places, WorkPlanned
  <2>8. Remembered'
    BY <1>0, <2>1, <2>3, <2>4, <2>5, <2>6 DEF Remembered
  <2> QED  BY <2>5, <2>7, <2>8 DEF EInv
<1>6. CASE OffConfirmed
  <2>1. op.kind \in Turning /\ op.pc = "await" /\ UNCHANGED <<rec, real, held, unseen, raced>>
    BY <1>6 DEF OffConfirmed, At, device, history
  <2>2. /\ op'.pc = "record" /\ op'.done = op.done \cup ({op.cur} \ {Cam})
        /\ op'.todo = op.todo /\ op'.kind = op.kind
    BY <1>0, <1>6 DEF OffConfirmed, Continues, OpType
  <2>3. Working /\ Working' /\ Awaiting = {op.cur} /\ Awaiting' = {}
    BY <2>1, <2>2 DEF Working, Awaiting
  <2>4. /\ PausingPlan' = PausingPlan /\ PausingBase' = PausingBase /\ Dark' = Dark /\ HeldOff'
    BY <1>0, <2>1 DEF PausingPlan, PausingBase, Dark, HeldOff
  <2>5. Places' /\ WorkPlanned'
    BY <1>0, <2>1, <2>2, <2>3, <2>4 DEF Places, WorkPlanned
  <2>6. Cam \notin Dark  BY DEF Dark
  <2>7. Remembered'
    BY <1>0, <2>1, <2>2, <2>3, <2>4, <2>6 DEF Remembered
  <2> QED  BY <2>4, <2>5, <2>7 DEF EInv
<1>7. CASE OffTimedOut
  <2>1. /\ op.kind \in Turning /\ op.pc = "await" /\ UNCHANGED <<rec, real, held, raced>>
        /\ unseen' = unseen \cup {op.cur}
    BY <1>7 DEF OffTimedOut, At, device, ReadbackTimesOut
  <2>2. /\ op'.pc = "record" /\ op'.done = op.done /\ op'.todo = op.todo /\ op'.kind = op.kind
    BY <1>0, <1>7 DEF OffTimedOut, Continues, OpType
  <2>3. Working /\ Working' /\ Awaiting = {op.cur} /\ Awaiting' = {}
    BY <2>1, <2>2 DEF Working, Awaiting
  <2>4. /\ PausingPlan' = PausingPlan /\ PausingBase' = PausingBase /\ Dark' = Dark /\ HeldOff'
    BY <1>0, <2>1 DEF PausingPlan, PausingBase, Dark, HeldOff
  <2>5. Places' /\ WorkPlanned'
    BY <1>0, <2>1, <2>2, <2>3, <2>4 DEF Places, WorkPlanned
  <2>6. Remembered'
    BY <1>0, <2>1, <2>2, <2>3, <2>4 DEF Remembered
  <2> QED  BY <2>4, <2>5, <2>6 DEF EInv
<1>8. CASE OffRecord
  <2>0. UNCHANGED <<real, held, unseen, raced>>  BY <1>8 DEF OffRecord, device, history
  <2>1. CASE SaveFails /\ Raises
    BY <1>2, <2>0, <2>1
  <2>2. CASE ~(SaveFails /\ Raises)
    <3>1. op.kind \in Turning /\ op.pc = "record"  BY <1>8 DEF OffRecord, At
    <3>2. /\ op'.pc = "step" /\ op'.done = op.done /\ op'.todo = op.todo /\ op'.kind = op.kind
      BY <1>0, <1>8, <2>2 DEF OffRecord, Continues, OpType
    <3>3. SamePlan /\ (rec' = rec \/ rec'.phase = "pausing")
      BY <1>0, <1>8, <2>2 DEF OffRecord, Saves, RecordType, SamePlan
    <3>4. Working /\ Working' /\ Awaiting = {} /\ Awaiting' = {}
      BY <3>1, <3>2 DEF Working, Awaiting
    <3>5. /\ PausingPlan' = PausingPlan /\ PausingBase' = PausingBase /\ Dark' = Dark /\ HeldOff'
      BY <1>0, <2>0, <3>3 DEF SamePlan, PausingPlan, PausingBase, Dark, HeldOff
    <3>6. Places' /\ WorkPlanned'
      BY <1>0, <3>1, <3>2, <3>4, <3>5 DEF Places, WorkPlanned
    <3>7. raced \/ Dark \subseteq op.done \cup unseen  BY <1>0, <3>4 DEF Remembered
    <3>8. op.done \subseteq PausingPlan \cup PausingBase  BY <1>0, <3>4 DEF WorkPlanned
    <3>9. Remembered'
      BY <1>0, <2>0, <3>2, <3>3, <3>4, <3>5, <3>7, <3>8 DEF Remembered
    <3> QED  BY <3>5, <3>6, <3>9 DEF EInv
  <2> QED  BY <2>1, <2>2
<1>9. CASE PauseFinish
  <2>0. UNCHANGED <<real, held, unseen, raced>>  BY <1>9 DEF PauseFinish, device, history
  <2>1. CASE SaveFails /\ Raises
    BY <1>2, <2>0, <2>1
  <2>2. CASE ~(SaveFails /\ Raises)
    <3>1. op.kind \in Turning /\ op.pc = "step" /\ op' = Idle
      BY <1>9, <2>2 DEF PauseFinish, At, Returns
    <3>2. rec'.switches = op.done /\ rec'.phase \in {"paused", "partial"}
      BY <1>0, <1>9, <2>2 DEF PauseFinish, Saves, RecordType
    <3>3. Working /\ Awaiting = {}  BY <3>1 DEF Working, Awaiting
    <3>4. raced \/ Dark \subseteq op.done \cup unseen  BY <1>0, <3>3 DEF Remembered
    <3>5. Places' /\ ~Working'  BY <3>1, IdleIsPlaced
    <3>6. Dark' = Dark /\ HeldOff'  BY <1>0, <2>0 DEF Dark, HeldOff
    <3> QED  BY <2>0, <3>2, <3>4, <3>5, <3>6 DEF EInv, WorkPlanned, Remembered
  <2> QED  BY <2>1, <2>2
<1> QED  BY <1>1, <1>3, <1>4, <1>5, <1>6, <1>7, <1>8, <1>9 DEF PauseStep


\* A resume either returns at once, having changed nothing, or works on a record that
\* claims no pause.
LEMMA ResumeShape ==
    ASSUME TypeOK, Related, ResumeStep
    PROVE  /\ op.kind = "resume" /\ UNCHANGED <<real, vis, held, raced>>
           /\ op' = Idle \/ op'.kind = "resume"
           /\ \/ op.pc = "reserve" /\ op' = Idle /\ UNCHANGED <<rec, unseen>>
              \/ rec'.phase \in {"resuming", "error", "active"}
<1> USE TargetsAssumption
<1>0. op \in OpType /\ rec \in RecordType
  BY DEF TypeOK
<1>1. op.kind = "resume" /\ UNCHANGED <<real, vis, held, raced>>
  BY DEF ResumeStep, ResumeReturnsEarly, ResumeBegin, Preflight, OnFound, OnCall, OnConfirmed,
         OnTimedOut, OnRecord, ToBaseline, BaselineFound, BaselineCall, BaselineReadback,
         ResumeDecide, MarkActive, Repause, RepauseDone, HoldFailSafe, PersistError, At,
         device, history
<1>3. CASE ResumeReturnsEarly
  BY <1>1, <1>3 DEF ResumeReturnsEarly, At, Returns, history
<1>4. CASE ResumeBegin
  <2>1. CASE SaveFails /\ Raises
    BY <1>1, <1>4, <2>1 DEF ResumeBegin, At, SaveFails, Raises, history
  <2>2. CASE ~(SaveFails /\ Raises)
    <3>1. rec'.phase \in {"resuming", "error"}
      BY <1>0, <1>4, <2>2 DEF ResumeBegin, Saves, RecordType
    <3>2. op' = Idle \/ op'.kind = "resume"
      BY <1>0, <1>1, <1>4 DEF ResumeBegin, Returns, Raises, Continues, OpType
    <3> QED  BY <1>1, <3>1, <3>2
  <2> QED  BY <2>1, <2>2
<1>5. CASE op.pc # "reserve"
  <2>1. rec.phase \in {"resuming", "error", "active"}
    BY <1>1, <1>5 DEF Related, ResumeCopies
  <2>2. rec'.phase \in {"resuming", "error", "active"}
    <3>1. rec' = rec \/ \E r : rec' = r /\ r \in
              {[rec EXCEPT !.phase = "resuming"], [rec EXCEPT !.phase = "error"],
               [rec EXCEPT !.phase = "active", !.blocked = FALSE],
               [rec EXCEPT !.phase = "error", !.blocked = TRUE]}
      BY <1>5 DEF ResumeStep, ResumeReturnsEarly, ResumeBegin, Preflight, OnFound, OnCall,
         OnConfirmed, OnTimedOut, OnRecord, ToBaseline, BaselineFound, BaselineCall,
         BaselineReadback, ResumeDecide, MarkActive, Repause, RepauseDone, HoldFailSafe,
         PersistError, At, Saves, SaveFails
    <3>2. /\ [rec EXCEPT !.phase = "resuming"].phase = "resuming"
          /\ [rec EXCEPT !.phase = "error"].phase = "error"
          /\ [rec EXCEPT !.phase = "active", !.blocked = FALSE].phase = "active"
          /\ [rec EXCEPT !.phase = "error", !.blocked = TRUE].phase = "error"
      BY <1>0 DEF RecordType
    <3> QED  BY <2>1, <3>1, <3>2
  <2>3. op' = Idle \/ op'.kind = "resume"
    <3>1. \A t \in Targets : /\ Without(t) \in OpType /\ Without(t).kind = "resume"
                             /\ Reenabled(t) \in OpType /\ Reenabled(t).kind = "resume"
      BY <1>0, <1>1, WithoutType, WithoutFields, ReenabledType, ReenabledFields
    <3>2. Restoring(op).kind = "resume" /\ Failing(op).kind = "resume"
      BY <1>0, <1>1, RestoringFields
    <3>3. AwaitsTarget
      BY DEF Related
    <3>4. CASE \E t \in Targets : OnFound(t) \/ OnCall(t) \/ BaselineFound(t) \/ BaselineCall(t) \/ Repause(t)
      BY <3>1, <3>2, <3>4, ZenonT(60) DEF OnFound, OnCall, BaselineFound, BaselineCall, Repause, Continues, OpType
    <3>5. CASE OnConfirmed
      <4>1. op.cur \in Targets /\ op' = [Reenabled(op.cur) EXCEPT !.pc = "record"]
        BY <3>3, <3>5 DEF OnConfirmed, At, AwaitsTarget, Continues
      <4>2. Reenabled(op.cur) \in OpType /\ Reenabled(op.cur).kind = "resume"
        BY <3>1, <4>1
      <4> QED  BY <4>1, <4>2 DEF OpType
    <3>6. CASE OnTimedOut \/ OnRecord \/ ToBaseline \/ BaselineReadback
      BY <1>0, <1>1, <3>2, <3>6 DEF OnTimedOut, OnRecord, ToBaseline, BaselineReadback,
         Continues, OpType
    <3>7. CASE Preflight \/ ResumeDecide \/ MarkActive \/ RepauseDone \/ HoldFailSafe \/ PersistError
      BY <1>0, <1>1, <3>2, <3>7 DEF Preflight, ResumeDecide, MarkActive, RepauseDone, HoldFailSafe,
         PersistError, Continues, Returns, Raises, OpType
    <3> QED  BY <1>5, <3>4, <3>5, <3>6, <3>7 DEF ResumeStep, ResumeReturnsEarly, ResumeBegin, At
  <2> QED  BY <1>1, <2>2, <2>3
<1>6. op.pc = "reserve" => ResumeReturnsEarly \/ ResumeBegin
  BY DEF ResumeStep, Preflight, OnFound, OnCall, OnConfirmed, OnTimedOut, OnRecord, ToBaseline,
         BaselineFound, BaselineCall, BaselineReadback, ResumeDecide, MarkActive, Repause,
         RepauseDone, HoldFailSafe, PersistError, At
<1> QED  BY <1>3, <1>4, <1>5, <1>6

\* So it has no pause's evidence to lose.
LEMMA EvidenceResume ==
    ASSUME TypeOK, Related, EInv, ResumeStep
    PROVE  EInv'
<1>1. HeldOff'
  BY ResumeShape DEF EInv, HeldOff
<1>2. Places' /\ ~Working'
  BY ResumeShape, IdleIsPlaced DEF Places, Working, Turning
<1>3. CASE op.pc = "reserve" /\ op' = Idle /\ UNCHANGED <<rec, unseen>>
  BY <1>1, <1>2, <1>3, ResumeShape, Carried DEF SamePlan
<1>4. CASE rec'.phase \in {"resuming", "error", "active"}
  BY <1>1, <1>2, <1>4, NothingClaimed
<1> QED  BY <1>3, <1>4, ResumeShape

\* A tick turns the plan of an interrupted pause into evidence.
LEMMA EvidenceTick ==
    ASSUME TypeOK, Related, EInv, TickLocks \/ TickRecovers \/ TickGoesOn
    PROVE  EInv'
<1> USE TargetsAssumption
<1>0. /\ op \in OpType /\ rec \in RecordType /\ held \subseteq Targets
      /\ HeldOff /\ Places /\ WorkPlanned /\ Remembered
  BY DEF TypeOK, EInv
<1>1. ASSUME UNCHANGED <<real, rec, history>>, op' = op \/ (~Working' /\ Places')
      PROVE  EInv'
  BY <1>0, <1>1, Carried DEF SamePlan, HeldOff, history
<1>2. ASSUME UNCHANGED <<real, history>>, op' = op, SamePlan, rec'.switches = rec.switches,
             rec'.phase \in {rec.phase, "resuming", "error", "active"}
      PROVE  EInv'
  BY <1>0, <1>2, Carried DEF HeldOff, history
<1>3. CASE TickLocks
  <2>1. UNCHANGED <<real, rec, history>>
    BY <1>3 DEF TickLocks, SchedulePause, AutoResume, RecoverResume, RecoverReplayed,
                PauseLock, ResumeLock, device, history
  <2>2. op' = op \/ (op'.pc = "reserve" /\ op'.kind # "none")
    BY <1>3 DEF TickLocks, SchedulePause, AutoResume, RecoverResume, RecoverReplayed,
                PauseLock, ResumeLock, Idle
  <2> QED  BY <1>1, <2>1, <2>2, LockIsPlaced
<1>4. CASE TickWaits \/ TickRecoversResume \/ TickNothingToRecover
  BY <1>1, <1>4 DEF TickWaits, TickRecoversResume, TickNothingToRecover, device, history
<1>5. CASE TickFinalizes
  <2>1. UNCHANGED <<real, op, held, raced>>
    BY <1>5 DEF TickFinalizes, device
  <2>2. CASE SaveFails /\ UNCHANGED unseen
    BY <1>1, <2>1, <2>2 DEF SaveFails, history
  <2>3. CASE ~(SaveFails /\ UNCHANGED unseen)
    <3>1. SamePlan /\ rec'.phase = "error"
      BY <1>0, <1>5, <2>3 DEF TickFinalizes, Saves, RecordType, SamePlan
    <3>2. unseen \subseteq unseen'
      BY <1>5, <2>3 DEF TickFinalizes, MissedNow
    <3>3. rec'.phase = rec.phase => FALSE
      BY <1>5, <3>1 DEF TickFinalizes, Pending, Interrupted
    <3> QED  BY <1>0, <2>1, <3>1, <3>2, <3>3, Carried DEF HeldOff
  <2> QED  BY <2>2, <2>3
<1>6. CASE TickRecoversPause
  <2>1. UNCHANGED <<real, op, held>> /\ rec.phase = "pausing"
    BY <1>6 DEF TickRecoversPause, device
  <2>2. CASE SaveFails /\ UNCHANGED <<unseen, raced>>
    BY <1>1, <2>1, <2>2 DEF SaveFails, history
  <2>3. CASE ~(SaveFails /\ UNCHANGED <<unseen, raced>>)
    <3> DEFINE seen == PausingBase \cup {t \in PausingPlan : Report(t) = "off"}
    <3>1. /\ rec'.switches = seen /\ SamePlan /\ rec'.phase = "partial"
          /\ MissedNow /\ raced' = (raced \/ op.kind \in Turning)
      BY <1>0, <1>6, <2>3 DEF TickRecoversPause, Saves, RecordType, SamePlan
    <3>2. HeldOff' /\ Dark' = Dark
      BY <1>0, <2>1 DEF HeldOff, Dark
    <3>3. /\ PausingPlan' = PausingPlan /\ PausingBase' = PausingBase
      BY <3>1 DEF SamePlan, PausingPlan, PausingBase
    <3>4. Places' /\ WorkPlanned'
      BY <1>0, <2>1, <3>3 DEF Places, WorkPlanned, Working
    <3>5. ASSUME ~raced' PROVE ~Working' /\ Dark \subseteq seen \cup unseen'
      <4>1. ~raced /\ ~Working'
        BY <2>1, <3>1, <3>5 DEF Working
      <4>2. Dark \subseteq PausingPlan \cup PausingBase \cup unseen
        BY <1>0, <2>1, <4>1 DEF Remembered
      <4>3. ASSUME NEW t \in Dark, t \in PausingPlan, Report(t) # "off"
            PROVE  t \in unseen'
        <5>1. real[t] = "off" /\ t # Cam
          BY <1>0 DEF Dark, HeldOff
        <5>2. Unavailable(t)
          BY <4>3, <5>1 DEF Report, Unavailable
        <5> QED  BY <2>1, <3>1, <4>3, <5>2 DEF MissedNow
      <4>4. unseen \subseteq unseen'
        BY <3>1 DEF MissedNow
      <4> QED  BY <4>1, <4>2, <4>3, <4>4
    <3> HIDE DEF seen
    <3>6. Remembered'
      BY <3>1, <3>2, <3>5 DEF Remembered
    <3> QED  BY <3>2, <3>4, <3>6 DEF EInv
  <2> QED  BY <2>2, <2>3
<1>7. CASE TickEnds \/ TickPauses \/ TickQuiet \/ TickDone
  BY <1>1, <1>7 DEF TickEnds, TickPauses, TickQuiet, TickDone, device, history
<1>8. CASE TickReleases \/ TickUncovers \/ TickOverrides
  <2>1. UNCHANGED <<real, history>> /\ op' = op
    BY <1>8 DEF TickReleases, TickUncovers, TickOverrides, device, history
  <2>2. /\ SamePlan /\ rec'.switches = rec.switches
        /\ rec'.phase \in {rec.phase, "resuming", "error", "active"}
    BY <1>0, <1>8 DEF TickReleases, TickUncovers, TickOverrides, Saves, SaveFails, RecordType, SamePlan
  <2> QED  BY <1>2, <2>1, <2>2
<1> QED  BY <1>3, <1>4, <1>5, <1>6, <1>7, <1>8 DEF TickRecovers, TickGoesOn

\* What happens around the handlers: a call lands, somebody switches a target, an entity
\* comes and goes, handlers are cancelled or stop with Home Assistant.
LEMMA EvidenceWorld ==
    ASSUME TypeOK, Related, EInv, GraceEnds \/ (\E t \in Targets : Land(t)) \/ Environment
    PROVE  EInv'
<1> USE TargetsAssumption
<1>0. /\ op \in OpType /\ rec \in RecordType /\ held \subseteq Targets
      /\ HeldOff /\ Places /\ WorkPlanned /\ Remembered
  BY DEF TypeOK, EInv
<1>1. ASSUME UNCHANGED <<real, rec, history>>, op' = op \/ (~Working' /\ Places')
      PROVE  EInv'
  BY <1>0, <1>1, Carried DEF SamePlan, HeldOff, history
<1>2. ASSUME NEW t \in Targets, Land(t) PROVE EInv'
  <2>1. UNCHANGED <<rec, op, raced>> /\ t \in Targets
    BY <1>2 DEF Land
  <2>2. real' = [real EXCEPT ![t] = real'[t]] /\ real'[t] \in {"on", "off"}
    BY <1>2 DEF Land, TypeOK
  <2>3. unseen' = IF Awaited(t) \/ real[t] = real'[t] THEN unseen ELSE unseen \cup {t}
    BY <1>2, <2>2 DEF Land, TypeOK
  <2>4. HeldOff'
    BY <1>0, <1>2 DEF Land, HeldOff, TypeOK
  <2>5. held' \subseteq held \/ (held' = held \cup {t} /\ real[t] # real'[t])
    BY <1>2 DEF Land, TypeOK
  <2>6. unseen \subseteq unseen'
    BY <2>3
  <2>7. CASE held' \subseteq held \/ t \in unseen' \/ t = Cam
    <3>1. Dark' \subseteq Dark \cup unseen'
      BY <2>5, <2>7 DEF Dark
    <3>2. /\ PausingPlan' = PausingPlan /\ PausingBase' = PausingBase
          /\ Working' = Working /\ Awaiting' = Awaiting
      BY <2>1 DEF PausingPlan, PausingBase, Working, Awaiting
    <3> QED  BY <1>0, <2>1, <2>4, <2>6, <3>1, <3>2 DEF EInv, Places, WorkPlanned, Remembered
  <2>8. CASE ~(held' \subseteq held \/ t \in unseen' \/ t = Cam)
    <3>1. held' = held \cup {t} /\ unseen' = unseen /\ t # Cam
          /\ op.cur = t /\ op.pc \in {"await", "awaitbase"}
      BY <2>3, <2>5, <2>8 DEF Awaited
    <3>2. CASE op.kind \in Turning
      <4>1. op.pc = "await" /\ Working /\ t \in PausingPlan /\ t \in Awaiting
        BY <1>0, <3>1, <3>2 DEF Places, Working, WorkPlanned, Awaiting
      <4>2. Dark' \subseteq Dark \cup {t}
        BY <3>1 DEF Dark
      <4>3. /\ PausingPlan' = PausingPlan /\ PausingBase' = PausingBase
            /\ Working' = Working /\ Awaiting' = Awaiting
        BY <2>1 DEF PausingPlan, PausingBase, Working, Awaiting
      <4> QED  BY <1>0, <2>1, <2>4, <3>1, <4>1, <4>2, <4>3 DEF EInv, Places, WorkPlanned, Remembered
    <3>3. CASE op.kind = "resume"
      <4>1. rec'.phase \in {"resuming", "error", "active"}
        BY <2>1, <3>1, <3>3 DEF Related, ResumeCopies
      <4>2. Places' /\ ~Working'
        BY <1>0, <2>1, <3>3 DEF Places, Working, Turning
      <4> QED  BY <2>4, <4>1, <4>2, NothingClaimed
    <3>4. op.kind # "none"
      BY <1>0, <3>1 DEF Places
    <3> QED  BY <1>0, <3>2, <3>3, <3>4 DEF OpType, Turning
  <2> QED  BY <2>7, <2>8
<1>3. ASSUME NEW t \in Targets, External(t) PROVE EInv'
  <2>1. /\ UNCHANGED <<rec, op, raced>> /\ held' = held \ {t} /\ unseen \subseteq unseen'
        /\ \A u \in Targets \ {t} : real'[u] = real[u]
    BY <1>3 DEF External, TypeOK
  <2>2. HeldOff'
    BY <1>0, <2>1 DEF HeldOff
  <2> QED  BY <1>0, <2>1, <2>2, Carried DEF SamePlan
<1>4. CASE GraceEnds \/ WindowTurns \/ \E t \in Targets : Outage(t) \/ Return(t)
  BY <1>1, <1>4 DEF GraceEnds, WindowTurns, Outage, Return, history, device
<1>5. CASE AdminResume \/ \E s \in Scopes : AdminPause(s)
  <2>1. UNCHANGED <<real, rec, history>> /\ op'.pc = "reserve" /\ op'.kind # "none"
    BY <1>5 DEF AdminResume, AdminPause, PauseLock, ResumeLock, Idle, device, history
  <2> QED  BY <1>1, <2>1, LockIsPlaced
<1>6. CASE Cancel
  <2>1. UNCHANGED <<real, rec, held, raced>> /\ unseen \subseteq unseen'
    BY <1>6 DEF Cancel, device
  <2>2. op' = Idle \/ op'.kind = "resume"
    <3>1. Failing(op) \in OpType /\ Failing(op).kind = op.kind
      BY <1>0, RestoringType, RestoringFields
    <3> QED  BY <1>6, <3>1 DEF Cancel, Continues, OpType
  <2>3. Places' /\ ~Working'
    BY <2>2, IdleIsPlaced DEF Places, Working, Turning
  <2> QED  BY <1>0, <2>1, <2>3, Carried DEF SamePlan, HeldOff
<1>7. CASE Reload \/ Crash
  <2>1. UNCHANGED <<real, history>> /\ (op' = op \/ op' = Idle) /\ rec' = Loaded(rec)
    BY <1>7 DEF Reload, Crash, device, history
  <2>2. /\ SamePlan /\ rec'.switches = rec.switches
        /\ rec'.phase \in {rec.phase, "active"}
    BY <1>0, <2>1 DEF Loaded, RecordType, SamePlan
  <2> QED  BY <1>0, <2>1, <2>2, Carried, IdleIsPlaced DEF HeldOff, history
<1> QED  BY <1>2, <1>3, <1>4, <1>5, <1>6, <1>7 DEF Environment

\* Nothing is dark in the first state.
LEMMA InitiallyEInv == Init => EInv
  BY DEF Init, NoRecord, Idle, EInv, HeldOff, Places, WorkPlanned, Remembered, Working, Turning, Dark

\* Every step keeps both invariants.
LEMMA StepKeepsEInv == IInv /\ EInv /\ [Next]_vars => EInv'
<1> SUFFICES ASSUME IInv, EInv, [Next]_vars PROVE EInv'
  OBVIOUS
<1>0. TypeOK /\ Related /\ TypeOK' /\ Related'
  BY StepKeepsIInv DEF IInv
<1>1. CASE PauseStep
  BY <1>0, <1>1, EvidencePause
<1>2. CASE ResumeStep
  BY <1>0, <1>2, EvidenceResume
<1>3. CASE TickLocks \/ TickRecovers \/ TickGoesOn
  BY <1>0, <1>3, EvidenceTick
<1>4. CASE GraceEnds \/ (\E t \in Targets : Land(t)) \/ Environment
  BY <1>0, <1>4, EvidenceWorld
<1>5. CASE UNCHANGED vars
  BY <1>5, Carried DEF vars, SamePlan, EInv, HeldOff
<1> QED  BY <1>1, <1>2, <1>3, <1>4, <1>5 DEF Next

\* At every moment a darkened switch is remembered somewhere: by the record, by its plan
\* or by the handler at work.
THEOREM AlwaysEInv == Spec => []EInv
  BY InitiallyEInv, StepKeepsEInv, AlwaysIInv, PTL DEF Spec

\* Once a pause has settled, every switch that the integration turned off is in the list
\* a resume works through, unless nobody saw it change or a tick rewrote the pause under
\* its handler: for any switches and scopes, through extensions, recoveries after a
\* crash, failed saves, lost calls and cancellations.
THEOREM EvidenceIsComplete == Spec => []EvidenceComplete
<1>1. EInv => EvidenceComplete
  BY DEF EInv, Remembered, Dark, EvidenceComplete
<1> QED  BY <1>1, AlwaysEInv, PTL

-----------------------------------------------------------------------------
(* Paused is truthful.                                                      *)

Untroubled ==
    /\ used["outage"] = 0 /\ used["crash"] = 0
    /\ used["call"] = 0 \/ used["save"] = 0

OffOrUnseen(t) == real[t] = "off" \/ t \in unseen
Called(t) == Working /\ op.pc = "await" /\ op.cur = t
\* A call may have raised, and the save of its outcome cannot fail.
Raised(t) == Working /\ op.pc = "record" /\ op.cur = t /\ used["call"] # 0
Asked == rec.planned \cup rec.extPlanned

SwitchesSeen == \A t \in Switches : vis[t] = "seen"

\* A tick that pauses for a schedule waits for it, and rewrites nothing meanwhile.
ScheduleWaits ==
    op.kind \in Turning => op.who = "admin" \/ (op.who = "schedule" /\ tick = "pausewait")

\* So the record of such a pause is what the handler has saved itself.
OwnRecord ==
    Working =>
        /\ op.kind = "extend" => op.who = "schedule"
        /\ op.who = "schedule" =>
              rec.switches \subseteq op.done /\ (rec.camToggled => op.camDone)

\* Each target is turned off once, those of the pause that is extended not again.
InOrder ==
    Working =>
        /\ op.done \cap op.todo = {} /\ PausingBase \subseteq op.done
        /\ op.cam => ~op.camDone
        /\ op.pc = "await" =>
              /\ op.cur \notin op.done \cup op.todo
              /\ op.cur = Cam => ~op.cam /\ ~op.camDone

\* What a pause has done, or has found off, is off.
WorkOff ==
    Working =>
        /\ \A t \in op.done \cup rec.preOff : OffOrUnseen(t)
        /\ op.camDone => OffOrUnseen(Cam)

\* Until a target fails, each that was asked for is done, was off or is still to come.
NothingSkipped ==
    Working /\ ~op.bad =>
        /\ Asked \subseteq op.done \cup op.todo \cup rec.preOff \cup Awaiting
        /\ rec.camPlanned => op.camDone \/ op.cam \/ Called(Cam)

\* What the record lists is off, except a target that is being called once more.
RecordOff ==
    Working \/ rec.phase \in {"pausing", "partial", "paused"} =>
        /\ \A t \in rec.switches \cup rec.preOff \cup PausingBase :
              OffOrUnseen(t) \/ Called(t) \/ Raised(t)
        /\ rec.camToggled => OffOrUnseen(Cam) \/ Called(Cam) \/ Raised(Cam)

\* "paused" is claimed by no pause that is still at work, and over nothing that is on.
ClaimOff ==
    rec.phase = "paused" =>
        ~Working /\ (\A t \in Asked : OffOrUnseen(t)) /\ (rec.camPlanned => OffOrUnseen(Cam))

Truth ==
    /\ SwitchesSeen /\ ScheduleWaits /\ OwnRecord /\ InOrder
    /\ WorkOff /\ NothingSkipped /\ RecordOff /\ ClaimOff

TInv == Untroubled => Truth

StaysOff == \A t \in Targets : OffOrUnseen(t) => OffOrUnseen(t)'

LEMMA ReportedOff ==
    ASSUME TypeOK, NEW t \in Targets, IsOff(t) PROVE real[t] = "off"
BY DEF TypeOK, IsOff, Report
LEMMA ReportedOn ==
    ASSUME TypeOK, NEW t \in Targets, IsOn(t) PROVE real[t] = "on"
BY DEF TypeOK, IsOn, Report

\* An untroubled history spends no outage or restart, no save after a bad call, and was
\* untroubled before.
LEMMA NotSpent ==
    ASSUME TypeOK, Untroubled'
    PROVE  /\ ~Spend("outage") /\ ~Spend("crash")
           /\ Spend("save") => used["call"] = 0
BY DEF TypeOK, Untroubled, Spend, FaultKinds

LEMMA UsedGrows ==
    ASSUME TypeOK, [Next]_vars PROVE UNCHANGED used \/ \E k \in FaultKinds : Spend(k)
<1>1. CASE PauseStep
  BY <1>1 DEF PauseStep, PauseRefused, PausePlan, ExtendPlan, OffCall, OffConfirmed, OffTimedOut,
     OffRecord, PauseFinish, CallReturns, CallRaises, ReadbackTimesOut, Saves, SaveFails, FaultKinds
<1>2. CASE ResumeStep
  <2>1. CASE ResumeReturnsEarly \/ ResumeBegin \/ Preflight \/ OnConfirmed \/ OnTimedOut
             \/ OnRecord \/ ToBaseline
    BY <2>1 DEF ResumeReturnsEarly, ResumeBegin, Preflight, OnConfirmed, OnTimedOut, OnRecord,
       ToBaseline, ReadbackTimesOut, Saves, SaveFails, FaultKinds
  <2>2. CASE BaselineReadback \/ ResumeDecide \/ MarkActive \/ RepauseDone \/ HoldFailSafe
             \/ PersistError
    BY <2>2 DEF BaselineReadback, ResumeDecide, MarkActive, RepauseDone, HoldFailSafe,
       PersistError, ReadbackTimesOut, Saves, SaveFails, FaultKinds
  <2>3. CASE \E t \in Targets : \/ OnFound(t) \/ OnCall(t) \/ BaselineFound(t)
                                \/ BaselineCall(t) \/ Repause(t)
    BY <2>3 DEF OnFound, OnCall, BaselineFound, BaselineCall, Repause, CallReturns, CallRaises,
       FaultKinds
  <2> QED  BY <1>2, <2>1, <2>2, <2>3 DEF ResumeStep
<1>3. CASE TickLocks \/ TickRecovers \/ TickGoesOn
  BY <1>3 DEF TickLocks, TickRecovers, TickGoesOn, SchedulePause, AutoResume, RecoverResume,
     RecoverReplayed, PauseLock, ResumeLock, TickWaits, TickFinalizes, TickRecoversPause,
     TickRecoversResume, TickNothingToRecover, TickEnds, TickPauses, TickReleases, TickUncovers,
     TickQuiet, TickOverrides, TickDone, Saves, SaveFails, FaultKinds
<1>4. CASE GraceEnds \/ (\E t \in Targets : Land(t)) \/ Environment
  BY <1>4 DEF GraceEnds, Land, Environment, AdminPause, AdminResume, PauseLock, ResumeLock,
     Cancel, Reload, External, Outage, Return, WindowTurns, Crash, FaultKinds
<1>5. CASE UNCHANGED vars
  BY <1>5 DEF vars
<1> QED  BY <1>1, <1>2, <1>3, <1>4, <1>5 DEF Next

LEMMA UntroubledBefore ==
    ASSUME TypeOK, [Next]_vars, Untroubled' PROVE Untroubled
<1>1. CASE UNCHANGED used
  BY <1>1 DEF Untroubled
<1>2. CASE \E k \in FaultKinds : Spend(k)
  BY <1>2 DEF TypeOK, Untroubled, Spend, FaultKinds
<1> QED  BY <1>1, <1>2, UsedGrows

LEMMA CallsStaySpent ==
    ASSUME TypeOK, [Next]_vars PROVE used["call"] # 0 => used'["call"] # 0
<1>1. CASE \E k \in FaultKinds : Spend(k)
  BY <1>1 DEF TypeOK, Spend, FaultKinds
<1> QED  BY <1>1, UsedGrows

\* A step that is no handler's and at most ends the record's period.
LEMMA TruthCarried ==
    ASSUME TypeOK, Truth, SameEvidence, StaysOff, SwitchesSeen', op' = op, [Next]_vars,
           op.who = "schedule" /\ op.kind \in Turning => tick' = tick,
           rec'.phase \in {rec.phase, "resuming", "error", "active"}
    PROVE  Truth'
<1>1. /\ Working' = Working /\ Awaiting' = Awaiting /\ \A t : Called(t)' = Called(t)
      /\ \A t : Raised(t) => Raised(t)'
      /\ PausingBase' = PausingBase /\ Asked' = Asked
  BY CallsStaySpent DEF SameEvidence, Working, Awaiting, Called, Raised, PausingBase, Asked
<1>2. /\ op.done \subseteq Targets /\ rec.switches \subseteq Targets /\ rec.preOff \subseteq Targets
      /\ PausingBase \subseteq Targets /\ Asked \subseteq Targets /\ Cam \in Targets
  BY DEF TypeOK, OpType, RecordType, Targets, PausingBase, Asked
<1>3. ScheduleWaits' /\ OwnRecord' /\ InOrder'
  BY <1>1 DEF SameEvidence, Truth, ScheduleWaits, OwnRecord, InOrder
<1>4. WorkOff' /\ NothingSkipped'
  BY <1>1, <1>2 DEF SameEvidence, Truth, WorkOff, NothingSkipped, StaysOff
<1>5. RecordOff' /\ ClaimOff'
  BY <1>1, <1>2 DEF SameEvidence, Truth, RecordOff, ClaimOff, StaysOff
<1> QED  BY <1>3, <1>4, <1>5 DEF Truth

\* A handler that leaves the record alone comes or goes.
LEMMA TruthReleased ==
    ASSUME TypeOK, Truth, SameEvidence, StaysOff, SwitchesSeen', ~Working', ScheduleWaits',
           rec'.phase \in {rec.phase, "resuming", "error", "active"},
           \A t : ~Called(t) /\ ~Raised(t)
    PROVE  Truth'
<1>1. PausingBase' = PausingBase /\ Asked' = Asked
  BY DEF SameEvidence, PausingBase, Asked
<1>2. /\ rec.switches \subseteq Targets /\ rec.preOff \subseteq Targets
      /\ PausingBase \subseteq Targets /\ Asked \subseteq Targets /\ Cam \in Targets
  BY DEF TypeOK, RecordType, Targets, PausingBase, Asked
<1>3. OwnRecord' /\ InOrder' /\ WorkOff' /\ NothingSkipped'
  BY DEF OwnRecord, InOrder, WorkOff, NothingSkipped
<1>4. RecordOff' /\ ClaimOff'
  BY <1>1, <1>2 DEF SameEvidence, Truth, RecordOff, ClaimOff, StaysOff
<1> QED  BY <1>3, <1>4 DEF Truth

\* A record that claims no pause, and no handler at work on one.
LEMMA TruthVacuous ==
    ASSUME SwitchesSeen', ScheduleWaits', ~Working', rec'.phase \in {"resuming", "error", "active"}
    PROVE  Truth'
BY DEF Truth, OwnRecord, InOrder, WorkOff, NothingSkipped, RecordOff, ClaimOff

\* What a pause or extension leaves when it cannot save: nothing that it called is on.
LEMMA TruthRaises ==
    ASSUME TypeOK, Truth, Untroubled', SaveFails, Raises, op.pc # "await",
           UNCHANGED <<real, vis, unseen>>
    PROVE  Truth'
<1>1. op' = Idle /\ UNCHANGED rec  BY DEF SaveFails, Raises
<1>2. \A t : ~Called(t) /\ ~Raised(t)  BY NotSpent DEF Called, Raised, SaveFails
<1>3. ScheduleWaits' /\ ~Working'  BY <1>1, IdleIsPlaced DEF ScheduleWaits, Idle, Turning
<1>4. SwitchesSeen' /\ StaysOff  BY DEF Truth, SwitchesSeen, StaysOff, OffOrUnseen
<1> QED  BY <1>1, <1>2, <1>3, <1>4, TruthReleased DEF SameEvidence

LEMMA TruthPause ==
    ASSUME TypeOK, Related, Truth, TypeOK', Untroubled', PauseStep
    PROVE  Truth'
<1> USE TargetsAssumption
<1>0. /\ op \in OpType /\ rec \in RecordType /\ real \in [Targets -> {"on", "off"}]
      /\ SwitchesSeen /\ ScheduleWaits /\ OwnRecord /\ InOrder
      /\ WorkOff /\ NothingSkipped /\ RecordOff /\ ClaimOff
  BY DEF TypeOK, Truth
<1>1. CASE PauseRefused
  <2>1. op' = Idle /\ op.pc = "reserve" /\ UNCHANGED <<rec, real, vis, unseen>>
    BY <1>1 DEF PauseRefused, At, Returns, device, history
  <2>2. ScheduleWaits' /\ ~Working'
    BY <2>1, IdleIsPlaced DEF ScheduleWaits, Idle, Turning
  <2>3. SwitchesSeen' /\ StaysOff /\ \A t : ~Called(t) /\ ~Raised(t)
    BY <1>0, <2>1 DEF SwitchesSeen, StaysOff, OffOrUnseen, Called, Raised
  <2> QED  BY <2>1, <2>2, <2>3, TruthReleased DEF SameEvidence
<1>2. CASE PausePlan
  <2>1. CASE SaveFails /\ Raises /\ UNCHANGED history
    BY <1>2, <2>1, TruthRaises DEF PausePlan, At, device, history
  <2>2. CASE ~(SaveFails /\ Raises /\ UNCHANGED history)
    <3> DEFINE planned == {t \in op.todo : IsOn(t)}
               off == {t \in op.todo : IsOff(t)}
               camera == op.cam /\ IsOn(Cam)
    <3>1. /\ rec'.phase = "pausing" /\ rec'.planned = planned /\ rec'.ext = FALSE
          /\ rec'.extPlanned = {} /\ rec'.switches = {} /\ rec'.preOff = off
          /\ rec'.camPlanned = camera /\ rec'.camToggled = FALSE
          /\ op' = [op EXCEPT !.pc = "step", !.todo = planned, !.cam = camera]
          /\ tick' = tick /\ UNCHANGED <<real, vis>>
      BY <1>2, <2>2 DEF PausePlan, Saves, Continues, NoRecord, device
    <3>2. op.kind = "pause" /\ op.done = {} /\ ~op.camDone
      BY <1>2 DEF PausePlan, At, Related, Fresh
    <3>3. \A t \in off : real[t] = "off"
      BY <1>0, ReportedOff DEF OpType, Targets
    <3> HIDE DEF planned, off, camera
    <3>4. /\ op'.kind = "pause" /\ op'.pc = "step" /\ op'.todo = planned /\ op'.done = {}
          /\ op'.cam = camera /\ ~op'.camDone /\ op'.who = op.who
      BY <1>0, <3>1, <3>2 DEF OpType
    <3>5. PausingBase' = {} /\ Asked' = planned
      BY <3>1 DEF PausingBase, Asked
    <3>6. SwitchesSeen' /\ ScheduleWaits' /\ OwnRecord' /\ InOrder'
      BY <1>0, <3>1, <3>2, <3>4, <3>5 DEF SwitchesSeen, ScheduleWaits, OwnRecord, InOrder, Turning
    <3>7. WorkOff' /\ NothingSkipped'
      BY <3>1, <3>3, <3>4, <3>5 DEF WorkOff, NothingSkipped, OffOrUnseen
    <3>8. RecordOff' /\ ClaimOff'
      BY <3>1, <3>3, <3>5 DEF RecordOff, ClaimOff, OffOrUnseen
    <3> QED  BY <3>6, <3>7, <3>8 DEF Truth
  <2> QED  BY <2>1, <2>2
<1>3. CASE ExtendPlan
  <2>0. UNCHANGED <<real, vis, unseen>> /\ op.pc = "reserve"
    BY <1>3 DEF ExtendPlan, At, device, history
  <2>1. CASE SaveFails /\ Raises
    BY <2>0, <2>1, TruthRaises
  <2>2. CASE ~(SaveFails /\ Raises)
    <3> DEFINE others == {t \in Switches \ (rec.switches \cup rec.preOff) : vis[t] # "missing"}
               planned == {t \in others : IsOn(t)}
               off == {t \in others : IsOff(t)}
               camera == ~rec.camToggled /\ IsOn(Cam)
    <3>1. /\ rec'.phase = "pausing" /\ rec'.ext = TRUE
          /\ rec'.planned = rec.planned
          /\ rec'.extBase = rec.switches /\ rec'.extPlanned = planned
          /\ rec'.switches = rec.switches /\ rec'.preOff = rec.preOff \cup off
          /\ rec'.camPlanned = camera /\ rec'.camToggled = rec.camToggled
          /\ op' = [op EXCEPT !.kind = "extend", !.pc = "step", !.todo = planned,
                              !.done = rec.switches, !.cam = camera,
                              !.camDone = rec.camToggled]
          /\ tick' = tick
      BY <1>0, <1>3, <2>2 DEF ExtendPlan, Saves, Continues, RecordType
    <3>2. rec.phase \in {"paused", "partial"} /\ op.kind = "pause" /\ op.who = "schedule"
      BY <1>3 DEF ExtendPlan, Extendable, At
    <3>3. \A t \in off : real[t] = "off"
      BY ReportedOff DEF Targets
    <3>4. Switches \subseteq rec.switches \cup rec.preOff \cup off \cup planned
      BY <1>0 DEF SwitchesSeen, IsOn, IsOff, Report, Targets
    <3>5. planned \cap rec.switches = {}
      OBVIOUS
    <3>6. camera => ~rec.camToggled
      OBVIOUS
    <3> HIDE DEF others, planned, off, camera
    <3>7. /\ op'.kind = "extend" /\ op'.pc = "step" /\ op'.todo = planned
          /\ op'.done = rec.switches /\ op'.cam = camera /\ op'.camDone = rec.camToggled
          /\ op'.who = op.who
      BY <1>0, <3>1 DEF OpType
    <3>8. PausingBase' = rec.switches /\ Asked' \subseteq Switches
      <4>1. rec' \in RecordType  BY DEF TypeOK
      <4> QED  BY <3>1, <4>1 DEF PausingBase, Asked, RecordType
    <3>9. /\ \A t \in rec.switches \cup rec.preOff : OffOrUnseen(t)
          /\ rec.camToggled => OffOrUnseen(Cam)
      BY <1>0, <2>0, <3>2 DEF RecordOff, Called, Raised
    <3>10. \A t \in rec.switches \cup rec'.preOff \cup {Cam} : OffOrUnseen(t) => OffOrUnseen(t)'
      BY <2>0 DEF OffOrUnseen
    <3>11. \A t \in rec.switches \cup rec'.preOff : OffOrUnseen(t)'
      BY <3>1, <3>3, <3>9, <3>10 DEF OffOrUnseen
    <3>12. SwitchesSeen' /\ ScheduleWaits' /\ OwnRecord' /\ InOrder'
      BY <1>0, <2>0, <3>1, <3>2, <3>5, <3>6, <3>7, <3>8
         DEF SwitchesSeen, ScheduleWaits, OwnRecord, InOrder, Turning
    <3>13. WorkOff' /\ NothingSkipped'
      BY <3>1, <3>4, <3>7, <3>8, <3>9, <3>10, <3>11 DEF WorkOff, NothingSkipped
    <3>14. RecordOff' /\ ClaimOff'
      BY <3>1, <3>8, <3>9, <3>10, <3>11 DEF RecordOff, ClaimOff
    <3> QED  BY <3>12, <3>13, <3>14 DEF Truth
  <2> QED  BY <2>1, <2>2
<1>4. ASSUME NEW t \in Targets, OffCall(t) PROVE Truth'
  <2>1. /\ op.kind \in Turning /\ op.pc = "step" /\ UNCHANGED <<rec, real, vis>>
        /\ t \in op.todo \/ (t = Cam /\ op.todo = {} /\ op.cam)
    BY <1>0, <1>4 DEF OffCall, At, NextOff, device, OpType
  <2>2. /\ tick' = tick
        /\ \/ op' = [Without(t) EXCEPT !.pc = "await", !.cur = t]
           \/ op' = [Without(t) EXCEPT !.pc = "record", !.cur = t, !.bad = TRUE] /\ Spend("call")
    BY <1>0, <1>4 DEF OffCall, CallRaises, Continues
  <2>3. unseen \ {t} \subseteq unseen'
    BY <1>0, <1>4 DEF OffCall, CallReturns, CallRaises, Delivered, Swallowed
  <2>4. /\ op'.cur = t /\ op'.done = op.done /\ op'.camDone = op.camDone
        /\ op'.todo = op.todo \ {t} /\ op'.kind = op.kind /\ op'.who = op.who
        /\ op'.cam <=> op.cam /\ t # Cam
        /\ \/ op'.pc = "await" /\ op'.bad = op.bad
           \/ op'.pc = "record" /\ op'.bad /\ Spend("call")
    <3>1. /\ Without(t) \in OpType /\ Without(t).done = op.done /\ Without(t).camDone = op.camDone
          /\ Without(t).todo = op.todo \ {t} /\ Without(t).kind = op.kind
          /\ Without(t).who = op.who
      BY <1>0, WithoutFields, WithoutType
    <3>2. Without(t).bad = op.bad /\ (Without(t).cam <=> op.cam /\ t # Cam)
      BY <1>0 DEF Without, OpType
    <3>3. CASE op' = [Without(t) EXCEPT !.pc = "await", !.cur = t]
      BY ONLY <3>1, <3>2, <3>3 DEF OpType
    <3>4. CASE /\ op' = [Without(t) EXCEPT !.pc = "record", !.cur = t, !.bad = TRUE]
               /\ Spend("call")
      <4>1. /\ op'.pc = "record" /\ op'.cur = t /\ op'.bad /\ op'.done = op.done
            /\ op'.camDone = op.camDone /\ op'.todo = op.todo \ {t} /\ op'.kind = op.kind
            /\ op'.who = op.who /\ (op'.cam <=> op.cam /\ t # Cam)
        BY ONLY <3>1, <3>2, <3>4 DEF OpType
      <4> QED  BY ONLY <3>4, <4>1
    <3> QED  BY <2>2, <3>3, <3>4
  <2>5. Working /\ Working' /\ (\A u : ~Called(u) /\ ~Raised(u)) /\ (Called(t)' \/ Raised(t)')
    <3>1. Spend("call") => used'["call"] # 0  BY DEF TypeOK, Spend, FaultKinds
    <3> QED  BY <2>1, <2>4, <3>1 DEF Working, Called, Raised
  <2>6. \A u : u # t /\ OffOrUnseen(u) => OffOrUnseen(u)'
    BY <2>1, <2>3 DEF OffOrUnseen
  <2>7. t \notin op.done /\ t \notin rec.preOff /\ (t = Cam => ~op.camDone)
    <3>1. op.todo \cap rec.preOff = {}  BY <2>5 DEF Related, TurningWork, Working
    <3>2. Cam \notin op.done \cup rec.preOff \cup op.todo  BY <1>0 DEF OpType, RecordType
    <3> QED  BY <1>0, <2>1, <2>5, <3>1, <3>2 DEF InOrder
  <2>8. PausingBase' = PausingBase /\ Asked' = Asked
    BY <2>1 DEF PausingBase, Asked
  <2>9. SwitchesSeen' /\ ScheduleWaits' /\ OwnRecord'
    BY <1>0, <2>1, <2>2, <2>4, <2>5 DEF SwitchesSeen, ScheduleWaits, OwnRecord
  <2>10. InOrder'
    BY <1>0, <2>4, <2>5, <2>7, <2>8 DEF InOrder
  <2>11. WorkOff'
    BY <1>0, <2>1, <2>4, <2>5, <2>6, <2>7 DEF WorkOff
  <2>12. NothingSkipped'
    BY <1>0, <2>1, <2>4, <2>5, <2>8 DEF NothingSkipped, Awaiting, Called
  <2>13. RecordOff' /\ ClaimOff'
    BY <1>0, <2>1, <2>5, <2>6, <2>8 DEF RecordOff, ClaimOff
  <2> QED  BY <2>9, <2>10, <2>11, <2>12, <2>13 DEF Truth
<1>5. ASSUME op.kind \in Turning, op.pc = "await", UNCHANGED <<rec, real, vis, tick>>,
             unseen \subseteq unseen', real[op.cur] = "off" \/ op.cur \in unseen',
             op'.pc = "record", op'.todo = op.todo, op'.kind = op.kind, op'.who = op.who,
             op'.cam = op.cam,
             \/ /\ op'.done = op.done \cup ({op.cur} \ {Cam})
                /\ (op'.camDone <=> op.camDone \/ op.cur = Cam)
                /\ op'.bad = op.bad
             \/ op'.done = op.done /\ op'.camDone = op.camDone /\ op'.bad
      PROVE  Truth'
  <2>1. /\ Working /\ Working' /\ Awaiting = {op.cur} /\ Awaiting' = {}
        /\ (\A u : ~Called(u)') /\ (\A u : ~Raised(u) /\ (Called(u) => u = op.cur))
    BY <1>5 DEF Working, Called, Raised, Awaiting
  <2>2. /\ \A u : OffOrUnseen(u) => OffOrUnseen(u)'
        /\ \A u : u = op.cur => OffOrUnseen(u)'
    BY <1>5 DEF OffOrUnseen
  <2>3. PausingBase' = PausingBase /\ Asked' = Asked
    BY <1>5 DEF PausingBase, Asked
  <2>4. Cam \notin Asked \cup op.todo
    BY <1>0 DEF Asked, RecordType, OpType
  <2>5. SwitchesSeen' /\ ScheduleWaits' /\ OwnRecord'
    BY <1>0, <1>5, <2>1 DEF SwitchesSeen, ScheduleWaits, OwnRecord
  <2>6. op.cam /\ op.cur = Cam => FALSE
    BY <1>0, <1>5, <2>1 DEF InOrder
  <2>7. InOrder'
    BY <1>0, <1>5, <2>1, <2>3, <2>6 DEF InOrder
  <2>8. WorkOff'
    BY <1>0, <1>5, <2>1, <2>2 DEF WorkOff
  <2>9. NothingSkipped'
    BY <1>0, <1>5, <2>1, <2>3, <2>4 DEF NothingSkipped
  <2>10. RecordOff' /\ ClaimOff'
    BY <1>0, <1>5, <2>1, <2>2, <2>3 DEF RecordOff, ClaimOff
  <2> QED  BY <2>5, <2>7, <2>8, <2>9, <2>10 DEF Truth
<1>6. CASE OffConfirmed
  <2>1. /\ op.kind \in Turning /\ op.pc = "await" /\ UNCHANGED <<rec, real, vis, unseen, tick>>
        /\ real[op.cur] = "off"
    <3>1. op.kind \in Turning /\ op.pc = "await" /\ UNCHANGED <<rec, real, vis, unseen, tick>>
      BY <1>6 DEF OffConfirmed, At, Continues, device, history
    <3>2. op.cur \in Targets  BY <3>1 DEF Related, AwaitsTarget
    <3> QED  BY <1>6, <3>1, <3>2, ReportedOff DEF OffConfirmed
  <2>2. /\ op'.pc = "record" /\ op'.done = op.done \cup ({op.cur} \ {Cam})
        /\ (op'.camDone <=> op.camDone \/ op.cur = Cam) /\ op'.bad = op.bad
        /\ op'.todo = op.todo /\ op'.kind = op.kind /\ op'.who = op.who /\ op'.cam = op.cam
    BY <1>0, <1>6 DEF OffConfirmed, Continues, OpType
  <2> QED  BY <1>5, <2>1, <2>2 DEF OffOrUnseen
<1>7. CASE OffTimedOut
  <2>1. /\ op.kind \in Turning /\ op.pc = "await" /\ UNCHANGED <<rec, real, vis, tick>>
        /\ unseen' = unseen \cup {op.cur}
    BY <1>7 DEF OffTimedOut, At, Continues, device, ReadbackTimesOut
  <2>2. /\ op'.pc = "record" /\ op'.done = op.done /\ op'.camDone = op.camDone /\ op'.bad
        /\ op'.todo = op.todo /\ op'.kind = op.kind /\ op'.who = op.who /\ op'.cam = op.cam
    BY <1>0, <1>7 DEF OffTimedOut, Continues, OpType
  <2> QED  BY <1>5, <2>1, <2>2
<1>8. CASE OffRecord
  <2>0. UNCHANGED <<real, vis, unseen>> /\ op.kind \in Turning /\ op.pc = "record"
    BY <1>8 DEF OffRecord, At, device, history
  <2>1. CASE SaveFails /\ Raises
    BY <2>0, <2>1, TruthRaises
  <2>2. CASE ~(SaveFails /\ Raises)
    <3>1. /\ op'.pc = "step" /\ op'.done = op.done /\ op'.todo = op.todo /\ op'.kind = op.kind
          /\ op'.who = op.who /\ op'.cam = op.cam /\ op'.camDone = op.camDone
          /\ op'.bad = op.bad /\ tick' = tick
      BY <1>0, <1>8, <2>2 DEF OffRecord, Continues, OpType
    <3>2. \/ rec' = rec /\ op.kind = "extend" /\ op.cur = Cam
          \/ /\ SamePlan /\ rec'.camPlanned = rec.camPlanned /\ rec'.preOff = rec.preOff
             /\ rec'.phase = "pausing" /\ rec'.switches = op.done
             /\ rec'.camToggled = IF op.cur = Cam THEN op.camDone ELSE rec.camToggled
      BY <1>0, <1>8, <2>2 DEF OffRecord, Saves, RecordType, SamePlan
    <3>3. /\ Working /\ Working' /\ Awaiting = {} /\ Awaiting' = {}
          /\ (\A u : ~Called(u)') /\ (\A u : ~Called(u) /\ (Raised(u) => u = op.cur))
      BY <2>0, <3>1 DEF Working, Awaiting, Called, Raised
    <3>4. \A u : OffOrUnseen(u)' <=> OffOrUnseen(u)
      BY <2>0 DEF OffOrUnseen
    <3>5. /\ PausingBase' = PausingBase /\ Asked' = Asked /\ rec'.preOff = rec.preOff
          /\ rec'.camPlanned = rec.camPlanned
      BY <3>2 DEF SamePlan, PausingBase, Asked
    <3>6. SwitchesSeen' /\ ScheduleWaits' /\ OwnRecord'
      BY <1>0, <2>0, <3>1, <3>2, <3>3 DEF SwitchesSeen, ScheduleWaits, OwnRecord
    <3>7. InOrder' /\ WorkOff' /\ NothingSkipped'
      BY <1>0, <3>1, <3>3, <3>4, <3>5 DEF InOrder, WorkOff, NothingSkipped
    \* An extension saves the camera at last; by then a schedule's record lists no more
    \* than its handler has done.
    <3>8. (rec.camToggled \/ op.cur = Cam) /\ rec'.camToggled => OffOrUnseen(Cam)
      BY <1>0, <3>2, <3>3 DEF OwnRecord, WorkOff, RecordOff
    <3>9. RecordOff'
      <4>1. Cam \notin rec.switches \cup rec.preOff \cup PausingBase
        BY <1>0 DEF RecordType, PausingBase
      <4>2. \A u \in rec'.switches \cup rec.preOff \cup PausingBase : OffOrUnseen(u)
        BY <1>0, <3>2, <3>3, <4>1 DEF InOrder, WorkOff, RecordOff
      <4>3. rec'.camToggled => OffOrUnseen(Cam)
        BY <3>2, <3>8
      <4> QED  BY <3>4, <3>5, <4>2, <4>3 DEF RecordOff
    <3>10. ClaimOff'
      BY <1>0, <3>2, <3>3, <3>4, <3>5 DEF ClaimOff
    <3> QED  BY <3>6, <3>7, <3>9, <3>10 DEF Truth
  <2> QED  BY <2>1, <2>2
<1>9. CASE PauseFinish
  <2>0. UNCHANGED <<real, vis, unseen>> /\ op.kind \in Turning /\ op.pc = "step" /\ NextOff = {}
    BY <1>9 DEF PauseFinish, At, device, history
  <2>1. CASE SaveFails /\ Raises
    BY <2>0, <2>1, TruthRaises
  <2>2. CASE ~(SaveFails /\ Raises)
    <3>1. op' = Idle  BY <1>9, <2>2 DEF PauseFinish, Returns
    <3>2. /\ rec'.switches = op.done /\ rec'.camToggled = op.camDone /\ rec'.preOff = rec.preOff
          /\ SamePlan /\ rec'.camPlanned = rec.camPlanned
          /\ rec'.phase = "paused" => ~op.bad
      BY <1>0, <1>9, <2>2 DEF PauseFinish, Saves, RecordType, SamePlan
    <3>3. Working /\ Awaiting = {} /\ (\A u : ~Called(u))
      BY <2>0 DEF Working, Awaiting, Called
    <3>4. Places' /\ ~Working'  BY <3>1, IdleIsPlaced
    <3>5. \A u : OffOrUnseen(u)' <=> OffOrUnseen(u)
      BY <2>0 DEF OffOrUnseen
    <3>6. PausingBase' = PausingBase /\ Asked' = Asked
      BY <3>2 DEF SamePlan, PausingBase, Asked
    <3>7. op.todo = {} /\ ~op.cam
      BY <1>0, <2>0 DEF NextOff, OpType
    <3>8. SwitchesSeen' /\ ScheduleWaits' /\ OwnRecord' /\ InOrder' /\ WorkOff' /\ NothingSkipped'
      BY <1>0, <2>0, <3>1, <3>4 DEF SwitchesSeen, ScheduleWaits, OwnRecord, InOrder, WorkOff,
         NothingSkipped, Idle, Turning
    <3>9. RecordOff'
      BY <1>0, <3>2, <3>3, <3>5, <3>6 DEF RecordOff, WorkOff, InOrder
    <3>10. ClaimOff'
      BY <1>0, <3>2, <3>3, <3>4, <3>5, <3>6, <3>7 DEF ClaimOff, WorkOff, NothingSkipped
    <3> QED  BY <3>8, <3>9, <3>10 DEF Truth
  <2> QED  BY <2>1, <2>2
<1> QED  BY <1>1, <1>2, <1>3, <1>4, <1>6, <1>7, <1>8, <1>9 DEF PauseStep

LEMMA TruthResume ==
    ASSUME TypeOK, Related, Truth, ResumeStep
    PROVE  Truth'
<1>1. SwitchesSeen'
  BY ResumeShape DEF Truth, SwitchesSeen
<1>2. ~Working' /\ ScheduleWaits'
  BY ResumeShape DEF Working, ScheduleWaits, Turning, Idle
<1>3. CASE op.pc = "reserve" /\ op' = Idle /\ UNCHANGED <<rec, unseen>>
  <2>1. StaysOff /\ \A t : ~Called(t) /\ ~Raised(t)
    BY <1>3, ResumeShape DEF StaysOff, OffOrUnseen, Called, Raised
  <2> QED  BY <1>1, <1>2, <1>3, <2>1, TruthReleased DEF SameEvidence
<1>4. CASE rec'.phase \in {"resuming", "error", "active"}
  BY <1>1, <1>2, <1>4, TruthVacuous
<1> QED  BY <1>3, <1>4, ResumeShape

\* A tick that extends the evidence of a running or interrupted pause by what it sees off.
LEMMA TruthRewritten ==
    ASSUME TypeOK, Truth, SamePlan, StaysOff, SwitchesSeen', op' = op, tick = "idle", [Next]_vars,
           rec'.preOff = rec.preOff, rec'.camPlanned = rec.camPlanned,
           rec'.camToggled = rec.camToggled,
           NEW seen, \A t \in seen : OffOrUnseen(t)',
           rec'.switches \subseteq rec.switches \cup PausingBase \cup seen,
           rec'.phase = "error" \/ (rec'.phase = "partial" /\ rec.phase = "pausing")
    PROVE  Truth'
<1>1. /\ Working' = Working /\ Awaiting' = Awaiting /\ \A t : Called(t)' = Called(t)
      /\ \A t : Raised(t) => Raised(t)'
      /\ PausingBase' = PausingBase /\ Asked' = Asked
  BY CallsStaySpent DEF SamePlan, Working, Awaiting, Called, Raised, PausingBase, Asked
<1>2. /\ op.done \subseteq Targets /\ rec.switches \subseteq Targets /\ rec.preOff \subseteq Targets
      /\ PausingBase \subseteq Targets /\ Cam \in Targets
  BY DEF TypeOK, OpType, RecordType, Targets, PausingBase
<1>3. ~(op.kind \in Turning /\ op.who = "schedule")
  BY DEF Truth, ScheduleWaits
<1>4. ScheduleWaits' /\ OwnRecord' /\ InOrder'
  BY <1>1, <1>3 DEF Truth, ScheduleWaits, OwnRecord, InOrder, Working
<1>5. WorkOff' /\ NothingSkipped'
  BY <1>1, <1>2 DEF Truth, WorkOff, NothingSkipped, StaysOff
<1>6. RecordOff' /\ ClaimOff'
  BY <1>1, <1>2 DEF Truth, RecordOff, ClaimOff, StaysOff
<1> QED  BY <1>4, <1>5, <1>6 DEF Truth

LEMMA TruthTick ==
    ASSUME TypeOK, Related, Truth, TypeOK', [Next]_vars, TickLocks \/ TickRecovers \/ TickGoesOn
    PROVE  Truth'
<1> USE TargetsAssumption
<1>0. /\ op \in OpType /\ rec \in RecordType /\ SwitchesSeen /\ ScheduleWaits
  BY DEF TypeOK, Truth
<1>1. UNCHANGED <<real, vis>> /\ unseen \subseteq unseen'
  BY DEF TickLocks, TickRecovers, TickGoesOn, SchedulePause, AutoResume, RecoverResume,
     RecoverReplayed, PauseLock, ResumeLock, TickWaits, TickFinalizes, TickRecoversPause,
     TickRecoversResume, TickNothingToRecover, TickEnds, TickPauses, TickReleases, TickUncovers,
     TickQuiet, TickOverrides, TickDone, MissedNow, device, history
<1>2. SwitchesSeen' /\ StaysOff
  BY <1>0, <1>1 DEF SwitchesSeen, StaysOff, OffOrUnseen
<1>3. CASE op' # op
  <2>1. /\ op.kind = "none" /\ UNCHANGED rec /\ op'.pc = "reserve" /\ op'.kind # "none"
        /\ op'.kind \in Turning => op'.who = "schedule" /\ tick' = "pausewait"
    BY <1>3 DEF TickLocks, TickRecovers, TickGoesOn, SchedulePause, AutoResume, RecoverResume,
       RecoverReplayed, PauseLock, ResumeLock, TickWaits, TickFinalizes, TickRecoversPause,
       TickRecoversResume, TickNothingToRecover, TickEnds, TickPauses, TickReleases,
       TickUncovers, TickQuiet, TickOverrides, TickDone, LockFree, Idle, Turning
  <2>2. ~Working' /\ ScheduleWaits' /\ \A t : ~Called(t) /\ ~Raised(t)
    BY <2>1 DEF Working, ScheduleWaits, Called, Raised, Turning
  <2> QED  BY <1>2, <2>1, <2>2, TruthReleased DEF SameEvidence
\* A tick that goes on is not the one that waits for a schedule's pause.
<1>4. op' = op => (op.who = "schedule" /\ op.kind \in Turning => tick' = tick)
  <2>1. op' = op => tick # "pausewait" \/ tick' = tick
    BY DEF TickLocks, TickRecovers, TickGoesOn, SchedulePause, AutoResume, RecoverResume,
       RecoverReplayed, PauseLock, ResumeLock, TickWaits, TickFinalizes, TickRecoversPause,
       TickRecoversResume, TickNothingToRecover, TickEnds, TickPauses, TickReleases,
       TickUncovers, TickQuiet, TickOverrides, TickDone, TickIdle, TickPast
  <2> QED  BY <1>0, <2>1 DEF ScheduleWaits
<1>5. CASE op' = op /\ ~TickRecoversPause
  <2>1. \/ SameEvidence /\ rec'.phase \in {rec.phase, "resuming", "error", "active"}
        \/ TickFinalizes
    <3>1. CASE TickReleases \/ TickUncovers \/ TickOverrides
      BY <1>0, <3>1 DEF TickReleases, TickUncovers, TickOverrides, Saves, SaveFails, RecordType,
         SameEvidence
    <3>2. CASE ~(TickReleases \/ TickUncovers \/ TickOverrides)
      BY <1>5, <3>2 DEF TickLocks, TickRecovers, TickGoesOn, SchedulePause, AutoResume,
         RecoverResume, RecoverReplayed, PauseLock, ResumeLock, TickWaits, TickRecoversResume,
         TickNothingToRecover, TickEnds, TickPauses, TickQuiet, TickDone, SameEvidence
    <3> QED  BY <3>1, <3>2
  <2>2. CASE SameEvidence /\ rec'.phase \in {rec.phase, "resuming", "error", "active"}
    BY <1>2, <1>4, <1>5, <2>2, TruthCarried
  <2>3. CASE TickFinalizes
    <3> DEFINE seen == IF rec.phase = "pausing"
                       THEN {t \in PausingPlan \cup PausingBase : Report(t) = "off"} ELSE {}
    <3>1. CASE rec' = rec
      BY <1>2, <1>4, <1>5, <3>1, TruthCarried DEF SameEvidence
    <3>2. CASE rec' # rec
      <4>1. /\ rec'.switches = rec.switches \cup seen /\ rec'.preOff = rec.preOff
            /\ rec'.camPlanned = rec.camPlanned /\ rec'.camToggled = rec.camToggled
            /\ SamePlan /\ rec'.phase = "error" /\ tick = "idle"
        <5>1. Report(Cam) # "off"  BY DEF Report, TypeOK, Targets
        <5> QED  BY <1>0, <2>3, <3>2, <5>1 DEF TickFinalizes, TickIdle, Saves, SaveFails, RecordType, SamePlan
      <4>2. \A t \in seen : OffOrUnseen(t)'
        <5>1. \A t \in PausingPlan \cup PausingBase : Report(t) = "off" => real[t] = "off"
          BY <1>0 DEF Report, TypeOK, Targets, PausingPlan, PausingBase, RecordType
        <5> QED  BY <1>1, <5>1 DEF OffOrUnseen
      <4> HIDE DEF seen
      <4> QED  BY <1>1, <1>2, <1>5, <4>1, <4>2, TruthRewritten
    <3> QED  BY <3>1, <3>2
  <2> QED  BY <2>1, <2>2, <2>3
<1>6. CASE TickRecoversPause
  <2>0. op' = op  BY <1>6 DEF TickRecoversPause
  <2> DEFINE seen == {t \in PausingPlan : Report(t) = "off"}
  <2>1. CASE rec' = rec
    BY <1>2, <1>4, <2>0, <2>1, TruthCarried DEF SameEvidence
  <2>2. CASE rec' # rec
    <3>1. /\ rec'.switches = PausingBase \cup seen /\ rec'.preOff = rec.preOff
          /\ rec'.camPlanned = rec.camPlanned /\ rec'.camToggled = rec.camToggled
          /\ SamePlan /\ rec'.phase = "partial" /\ rec.phase = "pausing" /\ tick = "idle"
      <4>1. Report(Cam) # "off"  BY DEF Report, TypeOK, Targets
      <4> QED  BY <1>0, <1>6, <2>2, <4>1 DEF TickRecoversPause, TickIdle, Saves, SaveFails, RecordType, SamePlan
    <3>2. \A t \in seen : OffOrUnseen(t)'
      <4>1. \A t \in PausingPlan : Report(t) = "off" => real[t] = "off"
        BY <1>0 DEF Report, TypeOK, Targets, PausingPlan, RecordType
      <4> QED  BY <1>1, <4>1 DEF OffOrUnseen
    <3> HIDE DEF seen
    <3> QED  BY <1>1, <1>2, <2>0, <3>1, <3>2, TruthRewritten
  <2> QED  BY <2>1, <2>2
<1> QED  BY <1>3, <1>5, <1>6, <1>4 DEF TickRecoversPause

\* What lands on a target that no handler awaits is unseen; what lands on an awaited one
\* is what its pause has called.
LEMMA TruthLand ==
    ASSUME TypeOK, Related, EInv, Truth, [Next]_vars, NEW t \in Targets, Land(t)
    PROVE  Truth'
<1> USE TargetsAssumption
<1>0. op \in OpType /\ rec \in RecordType /\ real \in [Targets -> {"on", "off"}] /\ Places
  BY DEF TypeOK, EInv
<1>1. UNCHANGED <<rec, op, tick, vis>> /\ unseen \subseteq unseen'
  BY <1>0 DEF Land
<1>2. \A u : u # t /\ OffOrUnseen(u) => OffOrUnseen(u)'
  <2>1. \A u : u # t => real'[u] = real[u] \/ u \in unseen' \/ ~OffOrUnseen(u)
    BY <1>0, <1>1 DEF Land, OffOrUnseen
  <2> QED  BY <1>1, <2>1 DEF OffOrUnseen
<1>3. OffOrUnseen(t) => OffOrUnseen(t)' \/ Awaited(t)
  <2>1. CASE real'[t] = "off" \/ t \in unseen'
    BY <2>1 DEF OffOrUnseen
  <2>2. CASE real'[t] # "off" /\ t \notin unseen'
    <3>1. real'[t] = "on" /\ (Awaited(t) \/ real[t] = "on")
      BY <1>0, <2>2 DEF Land
    <3> QED  BY <1>1, <2>2, <3>1 DEF OffOrUnseen
  <2> QED  BY <2>1, <2>2
<1>4. SwitchesSeen'
  BY <1>1 DEF Truth, SwitchesSeen
<1>5. CASE StaysOff
  BY <1>1, <1>4, <1>5, TruthCarried DEF SameEvidence
<1>6. CASE ~StaysOff
  <2>1. op.cur = t /\ op.pc \in {"await", "awaitbase"}
    BY <1>2, <1>3, <1>6 DEF StaysOff, Awaited
  <2>2. CASE op.kind = "resume"
    <3>1. rec.phase \in {"resuming", "error", "active"}
      BY <2>1, <2>2 DEF Related, ResumeCopies
    <3>2. ~Working' /\ ScheduleWaits'
      BY <1>1, <2>2 DEF Working, ScheduleWaits, Turning
    <3> QED  BY <1>1, <1>4, <3>1, <3>2, TruthVacuous
  <2>3. CASE op.kind \in Turning
    <3>1. op.pc = "await" /\ Working /\ Called(t)
      BY <1>0, <2>1, <2>3 DEF Places, Working, Called
    <3>2. /\ Working' = Working /\ Awaiting' = Awaiting /\ \A u : Called(u)' = Called(u)
          /\ PausingBase' = PausingBase /\ Asked' = Asked /\ \A u : ~Raised(u)
      BY <1>1, <3>1 DEF Working, Awaiting, Called, Raised, PausingBase, Asked
    <3>3. t \notin op.done \cup rec.preOff /\ (t = Cam => ~op.camDone)
      BY <2>1, <3>1 DEF Truth, InOrder, Related, TurningWork, Working
    <3>4. ScheduleWaits' /\ OwnRecord' /\ InOrder'
      BY <1>1, <3>2 DEF Truth, ScheduleWaits, OwnRecord, InOrder
    <3>5. WorkOff' /\ NothingSkipped'
      BY <1>1, <1>2, <3>2, <3>3 DEF Truth, WorkOff, NothingSkipped
    <3>6. RecordOff' /\ ClaimOff'
      BY <1>1, <1>2, <3>1, <3>2 DEF Truth, RecordOff, ClaimOff
    <3> QED  BY <1>4, <3>4, <3>5, <3>6 DEF Truth
  <2>4. op.kind # "none"
    BY <1>0, <2>1 DEF Places
  <2> QED  BY <1>0, <2>2, <2>3, <2>4 DEF OpType, Turning
<1> QED  BY <1>5, <1>6

LEMMA TruthWorld ==
    ASSUME TypeOK, Related, EInv, Truth, Untroubled', [Next]_vars,
           GraceEnds \/ (\E t \in Targets : Land(t)) \/ Environment
    PROVE  Truth'
<1> USE TargetsAssumption
<1>0. /\ op \in OpType /\ rec \in RecordType /\ SwitchesSeen /\ ScheduleWaits
      /\ ~Spend("outage") /\ ~Spend("crash")
  BY NotSpent DEF TypeOK, Truth
<1>1. CASE GraceEnds \/ WindowTurns
  <2>1. UNCHANGED <<rec, op, tick, real, vis, unseen>>
    BY <1>1 DEF GraceEnds, WindowTurns, device, history
  <2>2. SwitchesSeen' /\ StaysOff
    BY <1>0, <2>1 DEF SwitchesSeen, StaysOff, OffOrUnseen
  <2> QED  BY <2>1, <2>2, TruthCarried DEF SameEvidence
<1>2. ASSUME NEW t \in Targets, Return(t) PROVE Truth'
  <2>1. UNCHANGED <<rec, op, tick, real, unseen>> /\ vis' = [vis EXCEPT ![t] = "seen"]
    BY <1>2 DEF Return, history
  <2>2. SwitchesSeen' /\ StaysOff
    BY <1>0, <2>1 DEF SwitchesSeen, StaysOff, OffOrUnseen, TypeOK
  <2> QED  BY <2>1, <2>2, TruthCarried DEF SameEvidence
<1>3. ASSUME NEW t \in Targets, External(t) PROVE Truth'
  <2>1. /\ UNCHANGED <<rec, op, tick, vis>> /\ unseen' = unseen \cup {t}
        /\ \A u \in Targets \ {t} : real'[u] = real[u]
    BY <1>3 DEF External, TypeOK
  <2>2. SwitchesSeen' /\ StaysOff
    BY <1>0, <2>1 DEF SwitchesSeen, StaysOff, OffOrUnseen
  <2> QED  BY <2>1, <2>2, TruthCarried DEF SameEvidence
<1>4. CASE AdminResume \/ \E s \in Scopes : AdminPause(s)
  <2>1. /\ UNCHANGED <<rec, real, vis, unseen>> /\ op.kind = "none"
        /\ op'.pc = "reserve" /\ op'.who = "admin"
    BY <1>4 DEF AdminResume, AdminPause, PauseLock, ResumeLock, LockFree, Idle, device, history
  <2>2. ~Working' /\ ScheduleWaits' /\ \A t : ~Called(t) /\ ~Raised(t)
    BY <2>1 DEF Working, ScheduleWaits, Called, Raised, Turning
  <2>3. SwitchesSeen' /\ StaysOff
    BY <1>0, <2>1 DEF SwitchesSeen, StaysOff, OffOrUnseen
  <2> QED  BY <2>1, <2>2, <2>3, TruthReleased DEF SameEvidence
\* What a cancelled pause leaves is what it has saved.
<1>5. CASE Cancel
  <2>1. UNCHANGED <<rec, real, vis>> /\ unseen \subseteq unseen'
        /\ op.who \in {"recover", "auto", "schedule"}
    BY <1>5 DEF Cancel, device
  <2>2. op' = Idle \/ (op.kind = "resume" /\ op'.kind = "resume" /\ op.pc \in Trying)
    <3>1. Failing(op) \in OpType /\ Failing(op).kind = op.kind
      BY <1>0, RestoringType, RestoringFields
    <3> QED  BY <1>5, <3>1 DEF Cancel, Continues, OpType
  <2>3. ~Working' /\ ScheduleWaits'
    BY <2>2, IdleIsPlaced DEF Working, ScheduleWaits, Turning, Idle
  <2>4. SwitchesSeen' /\ StaysOff
    BY <1>0, <2>1 DEF SwitchesSeen, StaysOff, OffOrUnseen
  <2>5. CASE \A t : ~Called(t) /\ ~Raised(t)
    BY <2>1, <2>3, <2>4, <2>5, TruthReleased DEF SameEvidence
  <2>6. CASE \E t : Called(t) \/ Raised(t)
    <3>1. Working /\ op.who = "schedule"
      BY <1>0, <2>1, <2>6 DEF Called, Raised, Working, ScheduleWaits
    <3>2. /\ op.done \subseteq Targets /\ rec.preOff \subseteq Targets /\ Cam \in Targets
      BY <1>0 DEF OpType, RecordType, Targets
    <3>3. \A t \in rec.switches \cup rec.preOff \cup PausingBase : OffOrUnseen(t)'
      BY <2>4, <3>1, <3>2 DEF Truth, OwnRecord, InOrder, WorkOff, StaysOff
    <3>4. rec.camToggled => OffOrUnseen(Cam)'
      BY <2>4, <3>1, <3>2 DEF Truth, OwnRecord, WorkOff, StaysOff
    <3>5. PausingBase' = PausingBase /\ rec.phase # "paused"
      BY <2>1, <3>1 DEF PausingBase, Truth, ClaimOff
    <3>6. OwnRecord' /\ InOrder' /\ WorkOff' /\ NothingSkipped'
      BY <2>3 DEF OwnRecord, InOrder, WorkOff, NothingSkipped
    <3>7. RecordOff' /\ ClaimOff'
      BY <2>1, <3>3, <3>4, <3>5 DEF RecordOff, ClaimOff
    <3> QED  BY <2>3, <2>4, <3>6, <3>7 DEF Truth
  <2> QED  BY <2>5, <2>6
<1>6. CASE Reload
  <2>1. UNCHANGED <<op, real, vis, unseen>> /\ rec' = Loaded(rec) /\ tick = "reload"
    BY <1>6 DEF Reload, device, history
  <2>2. SameEvidence /\ rec'.phase \in {rec.phase, "active"}
    BY <1>0, <2>1 DEF Loaded, RecordType, SameEvidence
  <2>3. SwitchesSeen' /\ StaysOff
    BY <1>0, <2>1 DEF SwitchesSeen, StaysOff, OffOrUnseen
  <2>4. ~(op.who = "schedule" /\ op.kind \in Turning)
    BY <1>0, <2>1 DEF ScheduleWaits
  <2> QED  BY <2>1, <2>2, <2>3, <2>4, TruthCarried
<1>7. ~Crash /\ \A t \in Targets : ~Outage(t)
  BY <1>0 DEF Crash, Outage
<1> QED  BY <1>1, <1>2, <1>3, <1>4, <1>5, <1>6, <1>7, TruthLand DEF Environment

LEMMA InitiallyTInv == Init => TInv
<1> SUFFICES ASSUME Init PROVE Truth
  BY DEF TInv
<1> USE TargetsAssumption
<1>1. ~Working /\ op.kind = "none" /\ rec.phase = "none"
  BY DEF Init, Idle, NoRecord, Working, Turning
<1>2. SwitchesSeen
  BY DEF Init, SwitchesSeen, Targets
<1> QED  BY <1>1, <1>2 DEF Truth, ScheduleWaits, OwnRecord, InOrder, WorkOff, NothingSkipped,
            RecordOff, ClaimOff, Turning

LEMMA StepKeepsTInv == IInv /\ EInv /\ TInv /\ [Next]_vars => TInv'
<1> SUFFICES ASSUME IInv, EInv, TInv, [Next]_vars, Untroubled' PROVE Truth'
  BY DEF TInv
<1>0. TypeOK /\ Related /\ TypeOK'
  BY StepKeepsIInv DEF IInv
<1>1. Truth
  BY <1>0, UntroubledBefore DEF TInv
<1>2. CASE PauseStep
  BY <1>0, <1>1, <1>2, TruthPause
<1>3. CASE ResumeStep
  BY <1>0, <1>1, <1>3, TruthResume
<1>4. CASE TickLocks \/ TickRecovers \/ TickGoesOn
  BY <1>0, <1>1, <1>4, TruthTick
<1>5. CASE GraceEnds \/ (\E t \in Targets : Land(t)) \/ Environment
  BY <1>0, <1>1, <1>5, TruthWorld
<1>6. CASE UNCHANGED vars
  <2>1. SwitchesSeen' /\ StaysOff
    BY <1>1, <1>6 DEF vars, Truth, SwitchesSeen, StaysOff, OffOrUnseen
  <2> QED  BY <1>0, <1>1, <1>6, <2>1, TruthCarried DEF vars, SameEvidence
<1> QED  BY <1>2, <1>3, <1>4, <1>5, <1>6 DEF Next

\* While targets report and Home Assistant runs, and only calls or only saves fail, what
\* a pause has done is off, and what it was asked for is done or has failed.
THEOREM AlwaysTInv == Spec => []TInv
  BY InitiallyTInv, StepKeepsTInv, AlwaysIInv, AlwaysEInv, PTL DEF Spec

-----------------------------------------------------------------------------
(* A pause that no schedule has extended is truthful whatever fails.        *)

\* "paused" is claimed over nothing that is on.
PlainClaim ==
    rec.phase = "paused" =>
        /\ ~Working
        /\ \A t \in rec.switches \cup rec.preOff \cup Asked : OffOrUnseen(t)
        /\ rec.camPlanned \/ rec.camToggled => OffOrUnseen(Cam)

Plain == InOrder /\ WorkOff /\ NothingSkipped /\ PlainClaim
PlainInv == ~rec.ext => Plain

\* A step that turns nothing on and claims nothing new, after which no handler works
\* or the same one does.
LEMMA PlainCarried ==
    ASSUME TypeOK, PlainInv, SamePlan, StaysOff,
           rec'.preOff = rec.preOff, rec'.camPlanned = rec.camPlanned,
           rec'.phase = "paused" =>
               rec.phase = "paused" /\ rec'.switches = rec.switches
                 /\ rec'.camToggled = rec.camToggled,
           op' = op \/ ~Working'
    PROVE  PlainInv'
<1> SUFFICES ASSUME Plain, ~rec.ext PROVE Plain'
  BY DEF PlainInv, SamePlan
<1>1. PausingBase' = PausingBase /\ Asked' = Asked
  BY DEF SamePlan, PausingBase, Asked
<1>2. /\ op.done \subseteq Targets /\ rec.switches \subseteq Targets
      /\ rec.preOff \subseteq Targets /\ Asked \subseteq Targets /\ Cam \in Targets
  BY DEF TypeOK, OpType, RecordType, Targets, Asked
<1>3. CASE op' = op
  <2>1. Working' = Working /\ Awaiting' = Awaiting /\ \A t : Called(t)' = Called(t)
    BY <1>3 DEF Working, Awaiting, Called
  <2>2. InOrder' /\ NothingSkipped'
    BY <1>1, <1>3, <2>1 DEF Plain, InOrder, NothingSkipped
  <2>3. WorkOff'
    BY <1>2, <1>3, <2>1 DEF Plain, WorkOff, StaysOff
  <2>4. PlainClaim'
    BY <1>1, <1>2, <2>1 DEF Plain, PlainClaim, StaysOff
  <2> QED  BY <2>2, <2>3, <2>4 DEF Plain
<1>4. CASE ~Working'
  <2>1. InOrder' /\ WorkOff' /\ NothingSkipped'
    BY <1>4 DEF InOrder, WorkOff, NothingSkipped
  <2>2. PlainClaim'
    BY <1>1, <1>2, <1>4 DEF Plain, PlainClaim, StaysOff
  <2> QED  BY <2>1, <2>2 DEF Plain
<1> QED  BY <1>3, <1>4

LEMMA PlainRaises ==
    ASSUME TypeOK, PlainInv, SaveFails, Raises, UNCHANGED <<real, unseen>>
    PROVE  PlainInv'
<1>1. UNCHANGED rec /\ ~Working'  BY IdleIsPlaced DEF SaveFails, Raises
<1>2. StaysOff  BY DEF StaysOff, OffOrUnseen
<1> QED  BY <1>1, <1>2, PlainCarried DEF SamePlan

LEMMA PlainPause ==
    ASSUME TypeOK, Related, PlainInv, PauseStep
    PROVE  PlainInv'
<1> USE TargetsAssumption
<1>0. op \in OpType /\ rec \in RecordType /\ real \in [Targets -> {"on", "off"}]
  BY DEF TypeOK
<1>1. CASE PauseRefused
  <2>1. op' = Idle /\ UNCHANGED <<rec, real, unseen>>
    BY <1>1 DEF PauseRefused, Returns, device, history
  <2>2. StaysOff /\ ~Working'
    BY <2>1, IdleIsPlaced DEF StaysOff, OffOrUnseen
  <2> QED  BY <2>1, <2>2, PlainCarried DEF SamePlan
<1>2. CASE PausePlan
  <2>1. CASE SaveFails /\ Raises /\ UNCHANGED history
    BY <1>2, <2>1, PlainRaises DEF PausePlan, device, history
  <2>2. CASE ~(SaveFails /\ Raises /\ UNCHANGED history)
    <3> DEFINE planned == {t \in op.todo : IsOn(t)}
               off == {t \in op.todo : IsOff(t)}
               camera == op.cam /\ IsOn(Cam)
    <3>1. /\ rec'.phase = "pausing" /\ rec'.planned = planned /\ rec'.ext = FALSE
          /\ rec'.extPlanned = {} /\ rec'.preOff = off /\ rec'.camPlanned = camera
          /\ op' = [op EXCEPT !.pc = "step", !.todo = planned, !.cam = camera]
          /\ UNCHANGED real
      BY <1>2, <2>2 DEF PausePlan, Saves, Continues, NoRecord, device
    <3>2. op.done = {} /\ ~op.camDone
      BY <1>2 DEF PausePlan, At, Related, Fresh
    <3>3. \A t \in off : real[t] = "off"
      BY <1>0, ReportedOff DEF OpType, Targets
    <3> HIDE DEF planned, off, camera
    <3>4. /\ op'.pc = "step" /\ op'.todo = planned /\ op'.done = {}
          /\ op'.cam = camera /\ ~op'.camDone
      BY <1>0, <3>1, <3>2 DEF OpType
    <3>5. PausingBase' = {} /\ Asked' = planned
      BY <3>1 DEF PausingBase, Asked
    <3> QED  BY <3>1, <3>3, <3>4, <3>5 DEF PlainInv, Plain, InOrder, WorkOff, NothingSkipped,
                PlainClaim, OffOrUnseen
  <2> QED  BY <2>1, <2>2
<1>3. CASE ExtendPlan
  <2>1. CASE SaveFails /\ Raises
    BY <1>3, <2>1, PlainRaises DEF ExtendPlan, device, history
  <2>2. CASE ~(SaveFails /\ Raises)
    BY <1>0, <1>3, <2>2 DEF ExtendPlan, Saves, RecordType, PlainInv
  <2> QED  BY <2>1, <2>2
<1>4. ASSUME NEW t \in Targets, OffCall(t), Plain PROVE Plain'
  <2>1. /\ op.kind \in Turning /\ op.pc = "step" /\ UNCHANGED <<rec, real>>
        /\ t \in op.todo \/ (t = Cam /\ op.todo = {} /\ op.cam)
    BY <1>0, <1>4 DEF OffCall, At, NextOff, device, OpType
  <2>2. unseen \ {t} \subseteq unseen'
    BY <1>4 DEF OffCall, CallReturns, CallRaises, Delivered, Swallowed
  <2>3. /\ op'.cur = t /\ op'.done = op.done /\ op'.camDone = op.camDone
        /\ op'.todo = op.todo \ {t} /\ op'.kind = op.kind /\ (op'.cam <=> op.cam /\ t # Cam)
        /\ (op'.pc = "await" /\ op'.bad = op.bad) \/ (op'.pc = "record" /\ op'.bad)
    <3>1. /\ Without(t) \in OpType /\ Without(t).done = op.done /\ Without(t).camDone = op.camDone
          /\ Without(t).todo = op.todo \ {t} /\ Without(t).kind = op.kind
      BY <1>0, WithoutFields, WithoutType
    <3>2. Without(t).bad = op.bad /\ (Without(t).cam <=> op.cam /\ t # Cam)
      BY <1>0 DEF Without, OpType
    <3>3. \/ op' = [Without(t) EXCEPT !.pc = "await", !.cur = t]
          \/ op' = [Without(t) EXCEPT !.pc = "record", !.cur = t, !.bad = TRUE]
      BY <1>4 DEF OffCall, Continues
    <3> QED  BY <3>1, <3>2, <3>3, ZenonT(60) DEF OpType
  <2>4. Working /\ Working' /\ (op'.pc = "await" => Called(t)') /\ \A u : ~Called(u)
    BY <2>1, <2>3 DEF Working, Called
  <2>5. \A u : u # t /\ OffOrUnseen(u) => OffOrUnseen(u)'
    BY <2>1, <2>2 DEF OffOrUnseen
  <2>6. t \notin op.done /\ t \notin rec.preOff /\ (t = Cam => ~op.camDone)
    <3>1. op.todo \cap rec.preOff = {}  BY <2>4 DEF Related, TurningWork, Working
    <3>2. Cam \notin op.done \cup rec.preOff \cup op.todo  BY <1>0 DEF OpType, RecordType
    <3> QED  BY <1>4, <2>1, <2>4, <3>1, <3>2 DEF Plain, InOrder
  <2>7. PausingBase' = PausingBase /\ Asked' = Asked
    BY <2>1 DEF PausingBase, Asked
  <2>8. InOrder'
    BY <1>4, <2>3, <2>4, <2>6, <2>7 DEF Plain, InOrder
  <2>9. WorkOff'
    BY <1>4, <2>1, <2>3, <2>4, <2>5, <2>6 DEF Plain, WorkOff
  <2>10. NothingSkipped'
    BY <1>4, <2>1, <2>3, <2>4, <2>7 DEF Plain, NothingSkipped, Awaiting
  <2>11. PlainClaim'
    BY <1>4, <2>1, <2>4 DEF Plain, PlainClaim
  <2> QED  BY <2>8, <2>9, <2>10, <2>11 DEF Plain
<1>5. ASSUME Plain, op.kind \in Turning, op.pc = "await", UNCHANGED <<rec, real>>,
             unseen \subseteq unseen', real[op.cur] = "off" \/ op.cur \in unseen',
             op'.pc = "record", op'.todo = op.todo, op'.kind = op.kind, op'.cam = op.cam,
             \/ /\ op'.done = op.done \cup ({op.cur} \ {Cam})
                /\ (op'.camDone <=> op.camDone \/ op.cur = Cam)
                /\ op'.bad = op.bad
             \/ op'.done = op.done /\ op'.camDone = op.camDone /\ op'.bad
      PROVE  Plain'
  <2>1. /\ Working /\ Working' /\ Awaiting = {op.cur} /\ Awaiting' = {}
        /\ (\A u : ~Called(u)') /\ (\A u : Called(u) => u = op.cur)
    BY <1>5 DEF Working, Called, Awaiting
  <2>2. /\ \A u : OffOrUnseen(u) => OffOrUnseen(u)'
        /\ \A u : u = op.cur => OffOrUnseen(u)'
    BY <1>5 DEF OffOrUnseen
  <2>3. PausingBase' = PausingBase /\ Asked' = Asked
    BY <1>5 DEF PausingBase, Asked
  <2>4. Cam \notin Asked \cup op.todo
    BY <1>0 DEF Asked, RecordType, OpType
  <2>5. InOrder'
    BY <1>5, <2>1, <2>3 DEF Plain, InOrder
  <2>6. WorkOff'
    BY <1>5, <2>1, <2>2 DEF Plain, WorkOff
  <2>7. NothingSkipped'
    BY <1>5, <2>1, <2>3, <2>4 DEF Plain, NothingSkipped
  <2>8. PlainClaim'
    BY <1>5, <2>1 DEF Plain, PlainClaim
  <2> QED  BY <2>5, <2>6, <2>7, <2>8 DEF Plain
<1>6. ASSUME OffConfirmed, Plain PROVE Plain'
  <2>1. /\ op.kind \in Turning /\ op.pc = "await" /\ UNCHANGED <<rec, real, unseen>>
        /\ real[op.cur] = "off"
    <3>1. op.kind \in Turning /\ op.pc = "await" /\ UNCHANGED <<rec, real, unseen>>
      BY <1>6 DEF OffConfirmed, At, device, history
    <3>2. op.cur \in Targets  BY <3>1 DEF Related, AwaitsTarget
    <3> QED  BY <1>6, <3>1, <3>2, ReportedOff DEF OffConfirmed
  <2>2. /\ op'.pc = "record" /\ op'.done = op.done \cup ({op.cur} \ {Cam})
        /\ (op'.camDone <=> op.camDone \/ op.cur = Cam) /\ op'.bad = op.bad
        /\ op'.todo = op.todo /\ op'.kind = op.kind /\ op'.cam = op.cam
    BY <1>0, <1>6 DEF OffConfirmed, Continues, OpType
  <2> QED  BY <1>5, <1>6, <2>1, <2>2
<1>7. ASSUME OffTimedOut, Plain PROVE Plain'
  <2>1. /\ op.kind \in Turning /\ op.pc = "await" /\ UNCHANGED <<rec, real>>
        /\ unseen' = unseen \cup {op.cur}
    BY <1>7 DEF OffTimedOut, At, device, ReadbackTimesOut
  <2>2. /\ op'.pc = "record" /\ op'.done = op.done /\ op'.camDone = op.camDone /\ op'.bad
        /\ op'.todo = op.todo /\ op'.kind = op.kind /\ op'.cam = op.cam
    BY <1>0, <1>7 DEF OffTimedOut, Continues, OpType
  <2> QED  BY <1>5, <1>7, <2>1, <2>2
<1>8. ASSUME OffRecord, Plain, ~rec.ext, ~(SaveFails /\ Raises) PROVE Plain'
  <2>0. UNCHANGED <<real, unseen>> /\ op.kind \in Turning /\ op.pc = "record"
    BY <1>8 DEF OffRecord, At, device, history
  <2>1. /\ op'.pc = "step" /\ op'.done = op.done /\ op'.todo = op.todo /\ op'.kind = op.kind
        /\ op'.cam = op.cam /\ op'.camDone = op.camDone /\ op'.bad = op.bad
    BY <1>0, <1>8 DEF OffRecord, Continues, OpType
  <2>2. \/ rec' = rec
        \/ /\ SamePlan /\ rec'.camPlanned = rec.camPlanned /\ rec'.preOff = rec.preOff
           /\ rec'.phase = "pausing"
    BY <1>0, <1>8 DEF OffRecord, Saves, RecordType, SamePlan
  <2>3. /\ Working /\ Working' /\ Awaiting = {} /\ Awaiting' = {}
        /\ (\A u : ~Called(u)') /\ (\A u : ~Called(u))
    BY <2>0, <2>1 DEF Working, Awaiting, Called
  <2>4. \A u : OffOrUnseen(u)' <=> OffOrUnseen(u)
    BY <2>0 DEF OffOrUnseen
  <2>5. /\ PausingBase' = PausingBase /\ Asked' = Asked /\ rec'.preOff = rec.preOff
        /\ rec'.camPlanned = rec.camPlanned
    BY <2>2 DEF SamePlan, PausingBase, Asked
  <2>6. InOrder' /\ WorkOff' /\ NothingSkipped'
    BY <1>8, <2>1, <2>3, <2>4, <2>5 DEF Plain, InOrder, WorkOff, NothingSkipped
  <2>7. PlainClaim'
    BY <1>8, <2>2, <2>3 DEF Plain, PlainClaim
  <2> QED  BY <2>6, <2>7 DEF Plain
<1>9. ASSUME PauseFinish, Plain, ~rec.ext, ~(SaveFails /\ Raises) PROVE Plain'
  <2>0. UNCHANGED <<real, unseen>> /\ op.kind \in Turning /\ op.pc = "step" /\ NextOff = {}
    BY <1>9 DEF PauseFinish, At, device, history
  <2>1. ~Working'
    BY <1>9, IdleIsPlaced DEF PauseFinish, Returns
  <2>2. /\ rec'.switches = op.done /\ rec'.camToggled = op.camDone /\ rec'.preOff = rec.preOff
        /\ SamePlan /\ rec'.camPlanned = rec.camPlanned
        /\ rec'.phase = "paused" => ~op.bad
    BY <1>0, <1>9 DEF PauseFinish, Saves, RecordType, SamePlan
  <2>3. Working /\ Awaiting = {} /\ (\A u : ~Called(u))
    BY <2>0 DEF Working, Awaiting, Called
  <2>4. \A u : OffOrUnseen(u)' <=> OffOrUnseen(u)
    BY <2>0 DEF OffOrUnseen
  <2>5. Asked' = Asked
    BY <2>2 DEF SamePlan, Asked
  <2>6. op.todo = {} /\ ~op.cam
    BY <1>0, <2>0 DEF NextOff, OpType
  <2>7. InOrder' /\ WorkOff' /\ NothingSkipped'
    BY <2>1 DEF InOrder, WorkOff, NothingSkipped
  <2>8. PlainClaim'
    BY <1>9, <2>1, <2>2, <2>3, <2>4, <2>5, <2>6 DEF Plain, PlainClaim, WorkOff, NothingSkipped
  <2> QED  BY <2>7, <2>8 DEF Plain
<1>10. CASE OffConfirmed \/ OffTimedOut \/ \E t \in Targets : OffCall(t)
  <2>1. UNCHANGED rec
    BY <1>10 DEF OffConfirmed, OffTimedOut, OffCall
  <2> QED  BY <1>4, <1>6, <1>7, <1>10, <2>1 DEF PlainInv
<1>11. CASE OffRecord \/ PauseFinish
  <2>1. CASE SaveFails /\ Raises
    BY <1>11, <2>1, PlainRaises DEF OffRecord, PauseFinish, device, history
  <2>2. CASE ~(SaveFails /\ Raises)
    <3>1. rec'.ext = rec.ext
      BY <1>0, <1>11, <2>2 DEF OffRecord, PauseFinish, Saves, RecordType
    <3> QED  BY <1>8, <1>9, <1>11, <2>2, <3>1 DEF PlainInv
  <2> QED  BY <2>1, <2>2
<1> QED  BY <1>1, <1>2, <1>3, <1>10, <1>11 DEF PauseStep

LEMMA PlainResume ==
    ASSUME TypeOK, Related, PlainInv, ResumeStep, SamePlan, rec'.preOff = rec.preOff,
           rec'.camPlanned = rec.camPlanned
    PROVE  PlainInv'
<1>1. ~Working'
  BY ResumeShape, IdleIsPlaced DEF Working, Turning
<1>2. CASE op.pc = "reserve" /\ op' = Idle /\ UNCHANGED <<rec, unseen>>
  <2>1. StaysOff
    BY <1>2, ResumeShape DEF StaysOff, OffOrUnseen
  <2> QED  BY <1>1, <1>2, <2>1, PlainCarried
<1>3. CASE rec'.phase \in {"resuming", "error", "active"}
  BY <1>1, <1>3 DEF PlainInv, Plain, InOrder, WorkOff, NothingSkipped, PlainClaim
<1> QED  BY <1>2, <1>3, ResumeShape

\* A tick may rewrite the evidence of a pause, but not what was asked and was off before.
LEMMA PlainTick ==
    ASSUME TypeOK, Related, PlainInv, TickLocks \/ TickRecovers \/ TickGoesOn
    PROVE  PlainInv'
<1>0. op \in OpType /\ rec \in RecordType
  BY DEF TypeOK
<1>1. UNCHANGED real /\ unseen \subseteq unseen'
  BY DEF TickLocks, TickRecovers, TickGoesOn, SchedulePause, AutoResume, RecoverResume,
     RecoverReplayed, PauseLock, ResumeLock, TickWaits, TickFinalizes, TickRecoversPause,
     TickRecoversResume, TickNothingToRecover, TickEnds, TickPauses, TickReleases, TickUncovers,
     TickQuiet, TickOverrides, TickDone, MissedNow, device, history
<1>2. StaysOff
  BY <1>1 DEF StaysOff, OffOrUnseen
<1>3. op' = op \/ ~Working'
  BY DEF TickLocks, TickRecovers, TickGoesOn, SchedulePause, AutoResume, RecoverResume,
     RecoverReplayed, PauseLock, ResumeLock, TickWaits, TickFinalizes, TickRecoversPause,
     TickRecoversResume, TickNothingToRecover, TickEnds, TickPauses, TickReleases,
     TickUncovers, TickQuiet, TickOverrides, TickDone, Idle, Working
<1>4. /\ SamePlan /\ rec'.preOff = rec.preOff /\ rec'.camPlanned = rec.camPlanned
      /\ rec'.phase = "paused" => rec.phase = "paused" /\ rec'.switches = rec.switches
                                    /\ rec'.camToggled = rec.camToggled
  <2>1. CASE TickReleases \/ TickUncovers \/ TickOverrides
    BY <1>0, <2>1 DEF TickReleases, TickUncovers, TickOverrides, Saves, SaveFails, RecordType,
       SamePlan
  <2>2. CASE TickFinalizes \/ TickRecoversPause
    BY <1>0, <2>2 DEF TickFinalizes, TickRecoversPause, Saves, SaveFails, RecordType, SamePlan
  <2>3. CASE ~(TickReleases \/ TickUncovers \/ TickOverrides \/ TickFinalizes \/ TickRecoversPause)
    BY <2>3 DEF TickLocks, TickRecovers, TickGoesOn, SchedulePause, AutoResume,
       RecoverResume, RecoverReplayed, PauseLock, ResumeLock, TickWaits, TickRecoversResume,
       TickNothingToRecover, TickEnds, TickPauses, TickQuiet, TickDone, SamePlan
  <2> QED  BY <2>1, <2>2, <2>3
<1> QED  BY <1>2, <1>3, <1>4, PlainCarried

LEMMA PlainLand ==
    ASSUME TypeOK, Related, EInv, PlainInv, NEW t \in Targets, Land(t)
    PROVE  PlainInv'
<1> USE TargetsAssumption
<1>0. op \in OpType /\ rec \in RecordType /\ real \in [Targets -> {"on", "off"}] /\ Places
  BY DEF TypeOK, EInv
<1>1. UNCHANGED <<rec, op>> /\ unseen \subseteq unseen'
  BY <1>0 DEF Land
<1>2. \A u : u # t /\ OffOrUnseen(u) => OffOrUnseen(u)'
  <2>1. \A u : u # t => real'[u] = real[u] \/ u \in unseen' \/ ~OffOrUnseen(u)
    BY <1>0, <1>1 DEF Land, OffOrUnseen
  <2> QED  BY <1>1, <2>1 DEF OffOrUnseen
<1>3. OffOrUnseen(t) => OffOrUnseen(t)' \/ Awaited(t)
  <2>1. CASE real'[t] = "off" \/ t \in unseen'
    BY <2>1 DEF OffOrUnseen
  <2>2. CASE real'[t] # "off" /\ t \notin unseen'
    <3>1. real'[t] = "on" /\ (Awaited(t) \/ real[t] = "on")
      BY <1>0, <2>2 DEF Land
    <3> QED  BY <1>1, <2>2, <3>1 DEF OffOrUnseen
  <2> QED  BY <2>1, <2>2
<1>4. CASE StaysOff
  BY <1>1, <1>4, PlainCarried DEF SamePlan
<1>5. CASE ~StaysOff
  <2>1. op.cur = t /\ op.pc \in {"await", "awaitbase"}
    BY <1>2, <1>3, <1>5 DEF StaysOff, Awaited
  <2>2. CASE op.kind = "resume"
    <3>1. rec.phase \in {"resuming", "error", "active"}
      BY <2>1, <2>2 DEF Related, ResumeCopies
    <3>2. ~Working'
      BY <1>1, <2>2 DEF Working, Turning
    <3> QED  BY <1>1, <3>1, <3>2 DEF PlainInv, Plain, InOrder, WorkOff, NothingSkipped,
                PlainClaim
  <2>3. CASE op.kind \in Turning
    <3> SUFFICES ASSUME Plain PROVE Plain'
      BY <1>1 DEF PlainInv
    <3>1. op.pc = "await" /\ Working
      BY <1>0, <2>1, <2>3 DEF Places, Working
    <3>2. /\ Working' = Working /\ Awaiting' = Awaiting /\ \A u : Called(u)' = Called(u)
          /\ PausingBase' = PausingBase /\ Asked' = Asked
      BY <1>1 DEF Working, Awaiting, Called, PausingBase, Asked
    <3>3. t \notin op.done \cup rec.preOff /\ (t = Cam => ~op.camDone)
      BY <2>1, <3>1 DEF Plain, InOrder, Related, TurningWork, Working
    <3>4. InOrder' /\ NothingSkipped'
      BY <1>1, <3>2 DEF Plain, InOrder, NothingSkipped
    <3>5. WorkOff'
      BY <1>1, <1>2, <3>2, <3>3 DEF Plain, WorkOff
    <3>6. PlainClaim'
      BY <1>1, <3>1, <3>2 DEF Plain, PlainClaim
    <3> QED  BY <3>4, <3>5, <3>6 DEF Plain
  <2>4. op.kind # "none"
    BY <1>0, <2>1 DEF Places
  <2> QED  BY <1>0, <2>2, <2>3, <2>4 DEF OpType, Turning
<1> QED  BY <1>4, <1>5

LEMMA PlainWorld ==
    ASSUME TypeOK, Related, EInv, PlainInv,
           GraceEnds \/ (\E t \in Targets : Land(t)) \/ Environment
    PROVE  PlainInv'
<1>0. op \in OpType /\ rec \in RecordType
  BY DEF TypeOK
<1>1. CASE \E t \in Targets : Land(t)
  BY <1>1, PlainLand
<1>2. CASE ~(\E t \in Targets : Land(t))
  <2>1. StaysOff
    <3>1. CASE \E t \in Targets : External(t)
      <4>1. PICK t \in Targets : External(t)  BY <3>1
      <4>2. unseen' = unseen \cup {t} /\ \A u \in Targets \ {t} : real'[u] = real[u]
        BY <4>1 DEF External, TypeOK
      <4> QED  BY <4>2 DEF StaysOff, OffOrUnseen
    <3>2. CASE ~(\E t \in Targets : External(t))
      <4>1. UNCHANGED real /\ unseen \subseteq unseen'
        BY <1>2, <3>2 DEF GraceEnds, Environment, AdminPause, AdminResume, PauseLock, ResumeLock,
           Cancel, Reload, Outage, Return, WindowTurns, Crash, device, history
      <4> QED  BY <4>1 DEF StaysOff, OffOrUnseen
    <3> QED  BY <3>1, <3>2
  <2>2. op' = op \/ ~Working'
    <3>1. Failing(op) \in OpType /\ Failing(op).kind = op.kind
      BY <1>0, RestoringType, RestoringFields
    <3>2. CASE Cancel
      BY <1>0, <3>1, <3>2, IdleIsPlaced DEF Cancel, Continues, OpType, Working, Turning
    <3>3. CASE ~Cancel
      BY <1>2, <3>3, IdleIsPlaced DEF GraceEnds, Environment, AdminPause, AdminResume, PauseLock,
         ResumeLock, Reload, External, Outage, Return, WindowTurns, Crash, Idle, Working
    <3> QED  BY <3>2, <3>3
  <2>3. rec' = rec \/ rec' = Loaded(rec)
    BY <1>2 DEF GraceEnds, Environment, AdminPause, AdminResume, PauseLock, ResumeLock,
       Cancel, Reload, External, Outage, Return, WindowTurns, Crash
  <2>4. /\ SamePlan /\ rec'.preOff = rec.preOff /\ rec'.camPlanned = rec.camPlanned
        /\ rec'.switches = rec.switches /\ rec'.camToggled = rec.camToggled
        /\ rec'.phase \in {rec.phase, "active"}
    BY <1>0, <2>3 DEF Loaded, RecordType, SamePlan
  <2> QED  BY <2>1, <2>2, <2>4, PlainCarried
<1> QED  BY <1>1, <1>2

LEMMA InitiallyPlainInv == Init => PlainInv
  BY DEF Init, Idle, NoRecord, PlainInv, Plain, InOrder, WorkOff, NothingSkipped, PlainClaim,
         Working, Turning

LEMMA StepKeepsPlainInv == IInv /\ EInv /\ PlainInv /\ [Next]_vars => PlainInv'
<1> SUFFICES ASSUME TypeOK, Related, EInv, PlainInv, [Next]_vars PROVE PlainInv'
  BY DEF IInv
<1>1. CASE PauseStep
  BY <1>1, PlainPause
<1>2. CASE ResumeStep
  <2>1. SamePlan /\ rec'.preOff = rec.preOff /\ rec'.camPlanned = rec.camPlanned
    BY <1>2 DEF ResumeStep, ResumeReturnsEarly, ResumeBegin, Preflight, OnFound, OnCall,
       OnConfirmed, OnTimedOut, OnRecord, ToBaseline, BaselineFound, BaselineCall,
       BaselineReadback, ResumeDecide, MarkActive, Repause, RepauseDone, HoldFailSafe,
       PersistError, Saves, SaveFails, TypeOK, RecordType, SamePlan
  <2> QED  BY <1>2, <2>1, PlainResume
<1>3. CASE TickLocks \/ TickRecovers \/ TickGoesOn
  BY <1>3, PlainTick
<1>4. CASE GraceEnds \/ (\E t \in Targets : Land(t)) \/ Environment
  BY <1>4, PlainWorld
<1>5. CASE UNCHANGED vars
  BY <1>5, PlainCarried DEF vars, SamePlan, StaysOff, OffOrUnseen
<1> QED  BY <1>1, <1>2, <1>3, <1>4, <1>5 DEF Next

\* What a pause that no schedule has extended has done is off, and what it was asked for
\* is done or has failed, whatever else happens.
THEOREM AlwaysPlainInv == Spec => []PlainInv
  BY InitiallyPlainInv, StepKeepsPlainInv, AlwaysIInv, AlwaysEInv, PTL DEF Spec

\* "paused" is never claimed over a target that is on, unless it was switched on behind
\* the integration's back: for any switches and scopes and any faults of a pause that no
\* schedule has extended; for an extended one, while targets report, Home Assistant runs
\* and not both calls and saves fail, with any cancelled handlers, changes from outside
\* and ticks that rewrite a pause under its handler.
THEOREM PausedIsTrue == Spec => []PausedIsTruthfulIfSeen
<1>1. IInv /\ TInv /\ PlainInv => PausedIsTruthfulIfSeen
  <2> SUFFICES ASSUME TInv, PlainInv, rec.phase = "paused", rec.ext => Untroubled
               PROVE  PausedIsTruthful
    BY DEF Untroubled, PausedIsTruthfulIfSeen, PausedIsTruthful
  <2>1. CASE ~rec.ext
    BY <2>1 DEF PlainInv, Plain, PlainClaim, Asked, OffOrUnseen, PausedIsTruthful
  <2>2. CASE rec.ext
    <3>1. Truth  BY <2>2 DEF TInv
    <3>2. ~Working /\ \A t : ~Called(t) /\ ~Raised(t)
      BY <3>1 DEF Truth, ClaimOff, Called, Raised
    <3> QED  BY <3>1, <3>2 DEF Truth, ClaimOff, RecordOff, Asked, OffOrUnseen, PausedIsTruthful
  <2> QED  BY <2>1, <2>2
<1> QED  BY <1>1, AlwaysIInv, AlwaysTInv, AlwaysPlainInv, PTL

\* A fault of a kind that the budget does not allow never happens.
Affordable == \A kind \in FaultKinds : Budget[kind] = 0 => used[kind] = 0

LEMMA AlwaysAffordable == Spec => []Affordable
<1>1. Init => Affordable
  BY DEF Init, Affordable
<1>2. ASSUME TypeOK, Affordable, [Next]_vars PROVE Affordable'
  <2>1. CASE UNCHANGED used
    BY <1>2, <2>1 DEF Affordable
  <2>2. ASSUME NEW k \in FaultKinds, Spend(k) PROVE Affordable'
    BY <1>2, <2>2, BudgetAssumption DEF Affordable, Spend, TypeOK
  <2> QED  BY <1>2, <2>1, <2>2, UsedGrows
<1> QED  BY <1>1, <1>2, TypeCorrect, PTL DEF Spec

\* The claim itself, extended pauses included, where entities report, Home Assistant is
\* not restarted, and calls may fail but saves do not, or saves but not calls.
THEOREM PausedIsTrueWhereSeen ==
    ASSUME Budget["outage"] = 0, Budget["crash"] = 0, Budget["call"] = 0 \/ Budget["save"] = 0
    PROVE  Spec => []PausedIsTruthful
<1>1. Affordable /\ PausedIsTruthfulIfSeen => PausedIsTruthful
  BY DEF Affordable, FaultKinds, PausedIsTruthfulIfSeen
<1> QED  BY <1>1, AlwaysAffordable, PausedIsTrue, PTL

-----------------------------------------------------------------------------
(* Active is verified.                                                      *)

Saved == used["save"] = 0 /\ (used["crash"] = 0 \/ used["outage"] = 0)

Resuming == op.kind = "resume" /\ op.pc # "reserve"

\* An extension forgets nothing of the pause that it extends.
BaseKept ==
    /\ Working => PausingBase \subseteq op.done
    /\ rec.phase = "pausing" => PausingBase \subseteq rec.switches

\* An interrupted pause waits for its recovery: nobody resumes from its record before.
StrandedWaits ==
    rec.phase = "pausing" /\ ~Working => op.kind = "none" /\ ~ready /\ tick \in {"reload", "idle"}

\* While a tick waits for its own pause, no other has rewritten the record.
OwnPhase == Working /\ op.who = "schedule" => rec.phase = "pausing"

\* A running pause is not given up for lost, unless a target stops reporting.
PlanSeen ==
    Working =>
        /\ rec.phase # "resuming"
        /\ used["outage"] = 0 =>
             /\ rec.phase # "error"
             /\ op.who = "admin" =>
                  /\ ~rec.ext /\ \A t \in rec.planned : vis[t] # "missing"
                  /\ rec.camPlanned => vis[Cam] # "missing"

\* What is dark is in the record at rest, and in that of a resume.
Stored ==
    /\ ~Working /\ rec.phase \in {"paused", "partial", "resuming", "error"} =>
          Dark \subseteq rec.switches \cup unseen
    /\ Resuming => Dark \subseteq rec.switches \cup unseen

\* What was off before is none of ours, unless nobody saw it change.
Baseline ==
    /\ \A t \in rec.preOff : t \in unseen \/ (real[t] = "off" /\ t \notin held)
    /\ op.pc = "awaitbase" => op.cur \in unseen

\* Until a target fails, what a resume has behind it is on again.
Restored ==
    Resuming =>
        /\ op.pc = "preflight" => Dark \subseteq op.todo \cup unseen
        /\ op.pc \in {"step", "await", "record"} /\ ~op.bad =>
              Dark \subseteq op.todo \cup Awaiting \cup unseen
        /\ op.pc \in {"baseline", "awaitbase"} /\ ~op.bad => Dark \subseteq unseen
        /\ op.pc = "mark" => Dark \subseteq unseen

Account == Stored /\ Baseline /\ Restored
Verified == StrandedWaits /\ OwnPhase /\ PlanSeen /\ (raced \/ Account)

VInv == ScheduleWaits /\ BaseKept /\ (Saved => Verified)

LEMMA UsedBefore ==
    ASSUME TypeOK, [Next]_vars, NEW k \in FaultKinds, used'[k] = 0 PROVE used[k] = 0
<1>1. CASE \E j \in FaultKinds : Spend(j)
  BY <1>1 DEF TypeOK, Spend
<1> QED  BY <1>1, UsedGrows

LEMMA SavedBefore ==
    ASSUME TypeOK, [Next]_vars, Saved' PROVE Saved /\ ~SaveFails
<1>1. Saved
  BY UsedBefore DEF Saved, FaultKinds
<1>2. ~Spend("save")
  BY DEF TypeOK, Saved, Spend, FaultKinds
<1> QED  BY <1>1, <1>2 DEF SaveFails

\* How a step of a pause changes the handler.
LEMMA PauseShape ==
    ASSUME TypeOK, PauseStep
    PROVE  /\ op.kind \in Turning /\ UNCHANGED <<real, vis, ready>>
           /\ \/ op' = Idle
              \/ op'.kind \in Turning /\ op'.pc # "reserve" /\ op'.who = op.who /\ tick' = tick
<1> USE TargetsAssumption
<1>0. op \in OpType
  BY DEF TypeOK
<1>1. CASE PauseRefused \/ PausePlan \/ ExtendPlan
  BY <1>0, <1>1 DEF PauseRefused, PausePlan, ExtendPlan, At, Turning, Returns, Raises,
     Continues, OpType, device
<1>2. CASE OffConfirmed \/ OffTimedOut \/ OffRecord \/ PauseFinish
  BY <1>0, <1>2 DEF OffConfirmed, OffTimedOut, OffRecord, PauseFinish, At, Turning, Returns,
     Raises, Continues, OpType, device
<1>3. ASSUME NEW t \in Targets, OffCall(t)
      PROVE  /\ op.kind \in Turning /\ UNCHANGED <<real, vis, ready>>
             /\ op'.kind \in Turning /\ op'.pc # "reserve" /\ op'.who = op.who /\ tick' = tick
  <2>1. Without(t) \in OpType /\ Without(t).kind = op.kind /\ Without(t).who = op.who
    BY <1>0, WithoutType, WithoutFields
  <2> QED  BY <1>3, <2>1 DEF OffCall, At, Continues, OpType, device
<1> QED  BY <1>1, <1>2, <1>3 DEF PauseStep

\* How a step of a tick changes the handler and the tick itself.
LEMMA TickShape ==
    ASSUME TickLocks \/ TickRecovers \/ TickGoesOn
    PROVE  /\ UNCHANGED <<real, vis, held>> /\ unseen \subseteq unseen'
           /\ \/ op' = op /\ (tick # "pausewait" \/ (tick' = tick /\ rec' = rec /\ ready' = ready))
              \/ /\ op.kind = "none" /\ op'.pc = "reserve" /\ op'.kind \in {"pause", "resume"}
                 /\ tick \in {"pausewait", "autowait", "recwait"} /\ UNCHANGED <<rec, tick, unseen, raced>>
                 /\ op'.kind = "pause" => op'.who = "schedule" /\ tick = "pausewait"
<1>1. CASE TickLocks
  BY <1>1 DEF TickLocks, SchedulePause, AutoResume, RecoverResume, RecoverReplayed, PauseLock,
     ResumeLock, LockFree, Idle, device, history
<1>2. CASE TickRecovers
  BY <1>2 DEF TickRecovers, TickWaits, TickFinalizes, TickRecoversPause, TickRecoversResume,
     TickNothingToRecover, TickIdle, MissedNow, device, history
<1>3. CASE TickGoesOn
  BY <1>3 DEF TickGoesOn, TickEnds, TickPauses, TickReleases, TickUncovers, TickQuiet,
     TickOverrides, TickDone, TickPast, device, history
<1> QED  BY <1>1, <1>2, <1>3

\* How a cancellation changes the handler.
LEMMA CancelShape ==
    ASSUME TypeOK, Cancel
    PROVE  /\ UNCHANGED <<real, vis, rec, held, raced>> /\ unseen \subseteq unseen'
           /\ op.who \in {"recover", "auto", "schedule"} /\ ~ready'
           /\ \/ op' = Idle /\ tick' = "reload"
              \/ Resuming /\ op'.kind = "resume" /\ op'.pc = "restore"
<1>1. Failing(op) \in OpType /\ Failing(op).kind = op.kind /\ Failing(op).pc = "restore"
  BY RestoringType, RestoringFields DEF TypeOK
<1> QED  BY <1>1 DEF Cancel, Continues, Trying, Resuming, OpType, device

LEMMA StepKeepsScheduleWaits ==
    ASSUME TypeOK, Related, ScheduleWaits, [Next]_vars PROVE ScheduleWaits'
<1>1. CASE PauseStep
  BY <1>1, PauseShape DEF ScheduleWaits, Idle, Turning
<1>2. CASE ResumeStep
  BY <1>2, ResumeShape DEF ScheduleWaits, Idle, Turning
<1>3. CASE TickLocks \/ TickRecovers \/ TickGoesOn
  BY <1>3, TickShape DEF ScheduleWaits, Turning
<1>4. CASE Cancel
  BY <1>4, CancelShape DEF ScheduleWaits, Idle, Turning
<1>5. CASE AdminResume \/ \E s \in Scopes : AdminPause(s)
  BY <1>5 DEF AdminResume, AdminPause, PauseLock, ResumeLock, Idle, ScheduleWaits
<1>6. CASE \/ GraceEnds \/ WindowTurns \/ Reload \/ Crash
           \/ \E t \in Targets : Land(t) \/ External(t) \/ Outage(t) \/ Return(t)
  BY <1>6 DEF GraceEnds, WindowTurns, Reload, Crash, Land, External, Outage, Return, Idle,
     ScheduleWaits, Turning
<1>7. CASE UNCHANGED vars
  BY <1>7 DEF vars, ScheduleWaits
<1> QED  BY <1>1, <1>2, <1>3, <1>4, <1>5, <1>6, <1>7 DEF Next, Environment

\* What an extension extends stays in the record and with the handler.
LEMMA BaseCarried ==
    ASSUME BaseKept, SamePlan, op' = op \/ ~Working',
           rec'.phase = "pausing" => rec.phase = "pausing" /\ rec'.switches = rec.switches
    PROVE  BaseKept'
<1>1. PausingBase' = PausingBase
  BY DEF SamePlan, PausingBase
<1>2. op' = op => Working' = Working
  BY DEF Working
<1> QED  BY <1>1, <1>2 DEF BaseKept

LEMMA BasePause ==
    ASSUME TypeOK, Related, BaseKept, PauseStep
    PROVE  BaseKept'
<1> USE TargetsAssumption
<1>0. op \in OpType /\ rec \in RecordType
  BY DEF TypeOK
<1>1. ASSUME SamePlan, op.done \subseteq op'.done, Working, rec'.switches = rec.switches,
             rec'.phase = rec.phase
      PROVE  BaseKept'
  BY <1>1 DEF BaseKept, SamePlan, PausingBase
<1>2. ASSUME op' = Idle, rec' = rec PROVE BaseKept'
  BY <1>2, BaseCarried, IdleIsPlaced DEF SamePlan
<1>3. CASE PauseRefused
  BY <1>2, <1>3 DEF PauseRefused, Returns
<1>4. CASE PausePlan
  <2>1. CASE SaveFails /\ Raises
    BY <1>2, <2>1 DEF SaveFails, Raises
  <2>2. CASE ~(SaveFails /\ Raises)
    <3>1. ~rec'.ext
      BY <1>4, <2>2 DEF PausePlan, Saves, NoRecord
    <3> QED  BY <3>1 DEF BaseKept, PausingBase
  <2> QED  BY <2>1, <2>2
<1>5. CASE ExtendPlan
  <2>1. CASE SaveFails /\ Raises
    BY <1>2, <2>1 DEF SaveFails, Raises
  <2>2. CASE ~(SaveFails /\ Raises)
    <3>1. rec'.extBase = rec.switches /\ rec'.switches = rec.switches /\ rec'.ext
      BY <1>0, <1>5, <2>2 DEF ExtendPlan, Saves, RecordType
    <3>2. op'.done = rec.switches
      BY <1>0, <1>5, <2>2 DEF ExtendPlan, Continues, OpType
    <3> QED  BY <3>1, <3>2 DEF BaseKept, PausingBase
  <2> QED  BY <2>1, <2>2
<1>6. ASSUME NEW t \in Targets, OffCall(t) PROVE BaseKept'
  <2>1. Without(t) \in OpType /\ Without(t).done = op.done
    BY <1>0, WithoutType, WithoutFields
  <2>2. op'.done = op.done /\ rec' = rec /\ Working
    BY <1>6, <2>1 DEF OffCall, Continues, OpType, At, Working
  <2> QED  BY <1>1, <2>2 DEF SamePlan
<1>7. CASE OffConfirmed \/ OffTimedOut
  <2>1. rec' = rec /\ Working
    BY <1>7 DEF OffConfirmed, OffTimedOut, At, Working
  <2>2. op.done \subseteq op'.done
    <3>1. CASE OffConfirmed
      BY <1>0, <3>1 DEF OffConfirmed, Continues, OpType
    <3>2. CASE OffTimedOut
      BY <1>0, <3>2 DEF OffTimedOut, Continues, OpType
    <3> QED  BY <1>7, <3>1, <3>2
  <2> QED  BY <1>1, <2>1, <2>2 DEF SamePlan
<1>8. CASE OffRecord
  <2>1. CASE SaveFails /\ Raises
    BY <1>2, <2>1 DEF SaveFails, Raises
  <2>2. CASE op.kind = "extend" /\ op.cur = Cam
    <3>1. op'.done = op.done /\ rec' = rec /\ Working
      BY <1>0, <1>8, <2>2 DEF OffRecord, Continues, OpType, At, Working
    <3> QED  BY <1>1, <3>1 DEF SamePlan
  <2>3. CASE ~(SaveFails /\ Raises) /\ ~(op.kind = "extend" /\ op.cur = Cam)
    <3>1. op'.done = op.done /\ rec'.switches = op.done /\ SamePlan /\ Working
      BY <1>0, <1>8, <2>3 DEF OffRecord, Saves, Continues, OpType, RecordType, At, Working, SamePlan
    <3>2. PausingBase' = PausingBase
      BY <3>1 DEF SamePlan, PausingBase
    <3> QED  BY <3>1, <3>2 DEF BaseKept
  <2> QED  BY <2>1, <2>2, <2>3
<1>9. CASE PauseFinish
  <2>1. CASE SaveFails /\ Raises
    BY <1>2, <2>1 DEF SaveFails, Raises
  <2>2. CASE ~(SaveFails /\ Raises)
    <3>1. rec'.phase \in {"paused", "partial"} /\ op' = Idle
      BY <1>0, <1>9, <2>2 DEF PauseFinish, Saves, Returns, RecordType
    <3> QED  BY <3>1, IdleIsPlaced DEF BaseKept
  <2> QED  BY <2>1, <2>2
<1> QED  BY <1>3, <1>4, <1>5, <1>6, <1>7, <1>8, <1>9 DEF PauseStep

LEMMA StepKeepsBaseKept ==
    ASSUME TypeOK, Related, BaseKept, [Next]_vars PROVE BaseKept'
<1>0. rec \in RecordType
  BY DEF TypeOK
<1>1. CASE ResumeStep
  <2>1. ~Working'
    BY ResumeShape, <1>1 DEF Working, Turning, Idle
  <2> QED  BY <1>1, <2>1, ResumeShape, BaseCarried DEF BaseKept, SamePlan
<1>2. CASE TickLocks \/ TickRecovers \/ TickGoesOn
  <2>1. op' = op \/ ~Working'
    BY <1>2, TickShape DEF Working
  <2>2. CASE TickFinalizes \/ TickRecoversPause
    BY <1>0, <2>1, <2>2, BaseCarried DEF TickFinalizes, TickRecoversPause, Saves, SaveFails,
       RecordType, SamePlan
  <2>3. CASE TickReleases \/ TickUncovers \/ TickOverrides
    BY <1>0, <2>1, <2>3, BaseCarried DEF TickReleases, TickUncovers, TickOverrides, Saves,
       SaveFails, RecordType, SamePlan
  <2>4. CASE rec' = rec
    BY <2>1, <2>4, BaseCarried DEF SamePlan
  <2> QED  BY <1>2, <2>2, <2>3, <2>4 DEF TickLocks, TickRecovers, TickGoesOn, SchedulePause,
              AutoResume, RecoverResume, RecoverReplayed, PauseLock, ResumeLock, TickWaits,
              TickRecoversResume, TickNothingToRecover, TickEnds, TickPauses, TickQuiet, TickDone
<1>3. CASE GraceEnds \/ (\E t \in Targets : Land(t)) \/ Environment
  <2>1. op' = op \/ ~Working'
    <3>1. CASE Cancel
      BY <3>1, CancelShape DEF Working, Idle, Turning
    <3>2. CASE AdminResume \/ \E s \in Scopes : AdminPause(s)
      BY <3>2 DEF AdminResume, AdminPause, PauseLock, ResumeLock, Idle, Working
    <3> QED  BY <1>3, <3>1, <3>2, IdleIsPlaced DEF GraceEnds, Land, Environment, Reload, External,
                Outage, Return, WindowTurns, Crash
  <2>2. rec' = rec \/ rec' = Loaded(rec)
    BY <1>3 DEF GraceEnds, Land, Environment, AdminPause, AdminResume, PauseLock, ResumeLock,
       Cancel, Reload, External, Outage, Return, WindowTurns, Crash
  <2> QED  BY <1>0, <2>1, <2>2, BaseCarried DEF Loaded, RecordType, SamePlan
<1>4. CASE UNCHANGED vars
  BY <1>4, BaseCarried DEF vars, SamePlan
<1> QED  BY <1>1, <1>2, <1>3, <1>4, BasePause DEF Next

\* A handler that goes on with the plan it has, and lights nothing.
LEMMA VerifiedWorks ==
    ASSUME TypeOK, [Next]_vars, Verified, Working, Working', op'.who = op.who, op'.pc # "awaitbase",
           SamePlan, rec'.preOff = rec.preOff, rec'.camPlanned = rec.camPlanned,
           rec'.phase \in {rec.phase, "pausing"}, UNCHANGED <<real, vis, held, raced>>,
           \A t \in rec.preOff \cap unseen : t \in unseen'
    PROVE  Verified'
<1>1. StrandedWaits' /\ OwnPhase'
  BY DEF Verified, StrandedWaits, OwnPhase
<1>2. used'["outage"] = 0 => used["outage"] = 0
  BY UsedBefore DEF FaultKinds
<1>3. PlanSeen'
  BY <1>2 DEF Verified, PlanSeen, SamePlan
<1>4. ~Resuming'
  BY DEF Working, Resuming, Turning
<1>5. Stored' /\ Restored'
  BY <1>4 DEF Stored, Restored
<1>6. Baseline => Baseline'
  BY DEF Baseline
<1> QED  BY <1>1, <1>3, <1>5, <1>6 DEF Verified, Account

\* A handler comes or goes, having changed nothing, while no pause is interrupted.
LEMMA VerifiedReleased ==
    ASSUME Verified, ~Working, ~Working', ~Resuming', op'.pc # "awaitbase",
           rec.phase # "pausing", UNCHANGED <<real, rec, held, raced>>, unseen \subseteq unseen'
    PROVE  Verified'
<1>1. Dark' = Dark
  BY DEF Dark
<1> QED  BY <1>1 DEF Verified, StrandedWaits, OwnPhase, PlanSeen, Account, Stored, Baseline, Restored

\* A pause whose outcome is saved has it in the record.
LEMMA VerifiedPause ==
    ASSUME TypeOK, Related, EInv, TypeOK', EInv', ScheduleWaits, Verified, [Next]_vars, ~SaveFails,
           PauseStep
    PROVE  Verified'
<1> USE TargetsAssumption
<1>0. /\ op \in OpType /\ rec \in RecordType /\ Places /\ Remembered /\ Remembered'
      /\ rec.preOff \subseteq Switches /\ op.todo \subseteq Switches
  BY DEF TypeOK, EInv, RecordType, OpType
<1>1. CASE PauseRefused
  <2>1. ~Working /\ op.kind # "none"
    BY <1>1 DEF PauseRefused, At, Working
  <2>2. op' = Idle /\ UNCHANGED <<real, rec, held, raced, unseen>>
    BY <1>1 DEF PauseRefused, Returns, device, history
  <2>3. rec.phase # "pausing"
    BY <2>1 DEF Verified, StrandedWaits
  <2> QED  BY <2>1, <2>2, <2>3, VerifiedReleased DEF Idle, Working, Resuming, Turning
<1>2. CASE PausePlan
  <2> DEFINE planned == {t \in op.todo : IsOn(t)}
             off == {t \in op.todo : IsOff(t)}
             camera == op.cam /\ IsOn(Cam)
  <2>1. /\ rec'.phase = "pausing" /\ rec'.planned = planned /\ ~rec'.ext
        /\ rec'.preOff = off /\ rec'.camPlanned = camera
        /\ op' = [op EXCEPT !.pc = "step", !.todo = planned, !.cam = camera]
        /\ UNCHANGED <<real, vis>> /\ held' = {}
    BY <1>2 DEF PausePlan, Saves, Continues, NoRecord, device
  <2>2. /\ \A t \in planned : vis[t] # "missing"
        /\ camera => vis[Cam] # "missing"
    BY <1>0 DEF IsOn, Report
  <2>3. \A t \in off : real[t] = "off"
    BY <1>0, ReportedOff DEF Targets
  <2> HIDE DEF planned, off, camera
  <2>4. op'.kind = op.kind /\ op'.pc = "step" /\ op.kind = "pause"
    BY <1>0, <1>2, <2>1 DEF PausePlan, At, OpType
  <2>5. Working' /\ ~Resuming'
    BY <2>4 DEF Working, Resuming, Turning
  <2>6. StrandedWaits' /\ OwnPhase' /\ PlanSeen'
    BY <2>1, <2>2, <2>5 DEF StrandedWaits, OwnPhase, PlanSeen
  <2>7. Stored' /\ Baseline' /\ Restored'
    BY <2>1, <2>3, <2>4, <2>5 DEF Stored, Baseline, Restored
  <2> QED  BY <2>6, <2>7 DEF Verified, Account
\* What an extension finds off is not what the pause darkened: that is in its record.
<1>3. CASE ExtendPlan
  <2> DEFINE others == {t \in Switches \ (rec.switches \cup rec.preOff) : vis[t] # "missing"}
             planned == {t \in others : IsOn(t)}
             off == {t \in others : IsOff(t)}
             camera == ~rec.camToggled /\ IsOn(Cam)
  <2>1. /\ rec'.phase = "pausing" /\ rec'.preOff = rec.preOff \cup off
        /\ op' = [op EXCEPT !.kind = "extend", !.pc = "step", !.todo = planned,
                            !.done = rec.switches, !.cam = camera,
                            !.camDone = rec.camToggled]
        /\ UNCHANGED <<real, held, unseen, raced>>
    BY <1>0, <1>3 DEF ExtendPlan, Saves, Continues, RecordType, device, history
  <2>2. rec.phase \in {"paused", "partial"} /\ op.who = "schedule"
    BY <1>3 DEF ExtendPlan, Extendable
  <2>3. \A t \in off : real[t] = "off" /\ t \notin rec.switches /\ t \in Switches
    BY ReportedOff DEF Targets
  <2> HIDE DEF others, planned, off, camera
  <2>4. op'.kind = "extend" /\ op'.pc = "step" /\ op'.who = "schedule"
    BY <1>0, <2>1, <2>2 DEF OpType
  <2>5. Working' /\ ~Resuming'
    BY <2>4 DEF Working, Resuming, Turning
  <2>6. StrandedWaits' /\ OwnPhase' /\ PlanSeen'
    BY <2>1, <2>4, <2>5 DEF StrandedWaits, OwnPhase, PlanSeen
  <2>7. ASSUME ~raced PROVE Account'
    <3>1. \A t \in off : t \in held => t \in unseen
      BY <1>0, <2>2, <2>3, <2>7 DEF Remembered, Dark
    <3> QED  BY <2>1, <2>3, <2>4, <2>5, <2>7, <3>1 DEF Verified, Account, Stored, Baseline, Restored
  <2> QED  BY <2>1, <2>6, <2>7 DEF Verified
<1>4. ASSUME NEW t \in Targets, OffCall(t) PROVE Verified'
  <2>1. Without(t) \in OpType /\ Without(t).kind = op.kind /\ Without(t).who = op.who
    BY <1>0, WithoutType, WithoutFields
  <2>2. op'.kind = op.kind /\ op'.who = op.who /\ op'.pc \in {"await", "record"} /\ Working
    BY <1>4, <2>1 DEF OffCall, Continues, OpType, At, Working
  <2>3. rec' = rec /\ UNCHANGED <<real, vis, held, raced>>
    BY <1>4 DEF OffCall, device
  <2>4. t \notin rec.preOff
    BY <1>0, <1>4, <2>2 DEF OffCall, NextOff, Related, TurningWork, Working
  <2>5. \A u \in rec.preOff \cap unseen : u \in unseen'
    BY <1>4, <2>4 DEF OffCall, CallReturns, CallRaises, Delivered, Swallowed
  <2> QED  BY <2>2, <2>3, <2>5, VerifiedWorks DEF SamePlan, Working
<1>5. CASE OffConfirmed \/ OffTimedOut
  <2>1. /\ rec' = rec /\ UNCHANGED <<real, vis, held, raced>> /\ unseen \subseteq unseen'
        /\ op.kind \in Turning /\ op.pc = "await"
    BY <1>5 DEF OffConfirmed, OffTimedOut, ReadbackTimesOut, At, device, history
  <2>2. op'.kind = op.kind /\ op'.who = op.who /\ op'.pc = "record"
    <3>1. CASE OffConfirmed
      BY <1>0, <3>1 DEF OffConfirmed, Continues, OpType
    <3>2. CASE OffTimedOut
      BY <1>0, <3>2 DEF OffTimedOut, Continues, OpType
    <3> QED  BY <1>5, <3>1, <3>2
  <2> QED  BY <2>1, <2>2, VerifiedWorks DEF SamePlan, Working
<1>6. CASE OffRecord
  <2>1. /\ UNCHANGED <<real, vis, held, raced, unseen>> /\ Working
        /\ op'.kind = op.kind /\ op'.who = op.who /\ op'.pc = "step"
    BY <1>0, <1>6 DEF OffRecord, At, Working, Continues, OpType, device, history
  <2>2. /\ SamePlan /\ rec'.preOff = rec.preOff /\ rec'.camPlanned = rec.camPlanned
        /\ rec'.phase \in {rec.phase, "pausing"}
    BY <1>0, <1>6 DEF OffRecord, Saves, RecordType, SamePlan
  <2> QED  BY <2>1, <2>2, VerifiedWorks DEF Working
<1>7. CASE PauseFinish
  <2>1. /\ rec'.phase \in {"paused", "partial"} /\ rec'.preOff = rec.preOff /\ op' = Idle
        /\ UNCHANGED <<real, held, unseen, raced>>
    BY <1>0, <1>7 DEF PauseFinish, Saves, Returns, RecordType, device, history
  <2>2. ~Working' /\ ~Resuming' /\ op'.pc = "idle"
    BY <2>1 DEF Idle, Working, Resuming, Turning
  <2>3. StrandedWaits' /\ OwnPhase' /\ PlanSeen'
    BY <2>1, <2>2 DEF StrandedWaits, OwnPhase, PlanSeen
  <2>4. raced' \/ Stored'
    BY <1>0, <2>1, <2>2 DEF Remembered, Stored
  <2>5. raced \/ (Baseline' /\ Restored')
    BY <2>1, <2>2 DEF Verified, Account, Baseline, Restored
  <2> QED  BY <2>1, <2>3, <2>4, <2>5 DEF Verified, Account
<1> QED  BY <1>1, <1>2, <1>3, <1>4, <1>5, <1>6, <1>7 DEF PauseStep

\* A resume leaves the record's evidence alone and lights only what is listed there.
LEMMA ResumeKeeps ==
    ASSUME TypeOK, Related, ResumeStep
    PROVE  /\ rec'.switches = rec.switches /\ rec'.preOff = rec.preOff
           /\ unseen \subseteq unseen' \cup rec.switches \cup {Cam}
<1> USE TargetsAssumption
<1>0. op \in OpType /\ rec \in RecordType
  BY DEF TypeOK
<1>1. rec'.switches = rec.switches /\ rec'.preOff = rec.preOff
  <2>1. CASE ResumeReturnsEarly \/ ResumeBegin \/ Preflight \/ OnConfirmed \/ OnTimedOut
             \/ OnRecord \/ ToBaseline
    BY <1>0, <2>1 DEF ResumeReturnsEarly, ResumeBegin, Preflight, OnConfirmed, OnTimedOut,
       OnRecord, ToBaseline, Saves, SaveFails, RecordType
  <2>2. CASE BaselineReadback \/ ResumeDecide \/ MarkActive \/ RepauseDone \/ HoldFailSafe
             \/ PersistError
    BY <1>0, <2>2 DEF BaselineReadback, ResumeDecide, MarkActive, RepauseDone, HoldFailSafe,
       PersistError, Saves, SaveFails, RecordType
  <2>3. CASE \E t \in Targets : \/ OnFound(t) \/ OnCall(t) \/ BaselineFound(t)
                                \/ BaselineCall(t) \/ Repause(t)
    BY <2>3 DEF OnFound, OnCall, BaselineFound, BaselineCall, Repause
  <2> QED  BY <2>1, <2>2, <2>3 DEF ResumeStep
<1>2. ASSUME NEW t \in Targets, OnCall(t) PROVE unseen \subseteq unseen' \cup rec.switches \cup {Cam}
  <2>1. t \in rec.switches \cup {Cam}
    BY <1>2 DEF OnCall, NextOn, At, Related, ResumeCopies, ResumeWork
  <2> QED  BY <1>2, <2>1 DEF OnCall, CallReturns, CallRaises, Delivered, Swallowed
<1>3. ASSUME NEW t \in Targets, Repause(t) PROVE unseen \subseteq unseen' \cup rec.switches \cup {Cam}
  <2>1. t \in rec.switches \cup op.pre \cup {Cam}
    BY <1>3 DEF Repause, NextOff, At, Related, ResumeCopies, ResumeWork
  <2> QED  BY <1>3, <2>1 DEF Repause, Delivered
<1>4. ASSUME NEW t \in Targets, BaselineCall(t) PROVE unseen' = unseen
  BY <1>4 DEF BaselineCall, CallReturns, CallRaises, Delivered, Swallowed
<1>5. ASSUME NEW t \in Targets, OnFound(t) \/ BaselineFound(t) PROVE unseen' = unseen
  BY <1>5 DEF OnFound, BaselineFound, history
<1>6. CASE ResumeReturnsEarly \/ ResumeBegin \/ Preflight \/ OnConfirmed \/ OnRecord \/ ToBaseline
  BY <1>1, <1>6 DEF ResumeReturnsEarly, ResumeBegin, Preflight, OnConfirmed, OnRecord, ToBaseline,
     history
<1>7. CASE ResumeDecide \/ MarkActive \/ RepauseDone \/ HoldFailSafe \/ PersistError
  BY <1>1, <1>7 DEF ResumeDecide, MarkActive, RepauseDone, HoldFailSafe, PersistError, history
<1>8. CASE OnTimedOut \/ BaselineReadback
  BY <1>1, <1>8 DEF OnTimedOut, BaselineReadback, ReadbackTimesOut
<1> QED  BY <1>1, <1>2, <1>3, <1>4, <1>5, <1>6, <1>7, <1>8 DEF ResumeStep

\* What is still dark when a resume has nothing left to turn on went dark unseen.
LEMMA RestoredResume ==
    ASSUME TypeOK, Related, HeldOff, Stored, Restored, ResumeStep, ~SaveFails,
           op.pc = "reserve" => rec.phase # "pausing" /\ ~Working
    PROVE  Restored'
<1> USE TargetsAssumption
<1>0. /\ op \in OpType /\ rec \in RecordType /\ held' = held /\ Dark' = Dark
      /\ op.kind = "resume" /\ AwaitsTarget
      /\ Resuming <=> op.pc # "reserve"
  BY ResumeShape DEF TypeOK, Dark, Related, Resuming
<1>1. ASSUME op' = Idle \/ op'.pc \in {"restore", "hold", "persist"} PROVE Restored'
  BY <1>1 DEF Restored, Resuming, Idle
<1>2. /\ Failing(op).pc = "restore" /\ Restoring(op).pc = "restore"
      /\ Failing(op) \in OpType /\ Restoring(op) \in OpType
  BY <1>0, RestoringFields, RestoringType
<1>3. \A t \in Targets : IsOn(t) => t \notin held
  BY ReportedOn DEF HeldOff
<1>4. CASE ResumeReturnsEarly
  BY <1>1, <1>4 DEF ResumeReturnsEarly, Returns
<1>5. CASE ResumeBegin
  <2>1. CASE op' = Idle
    BY <1>1, <2>1
  <2>2. CASE op' # Idle
    <3>1. op'.pc = "preflight" /\ op'.todo = rec.switches /\ unseen' = unseen
      BY <1>0, <1>5, <2>2 DEF ResumeBegin, Returns, Raises, Continues, OpType, history
    <3>2. Dark \subseteq rec.switches \cup unseen
      BY <1>0, <1>5 DEF ResumeBegin, At, Active, Stored, RecordType, Phases
    <3> QED  BY <1>0, <3>1, <3>2 DEF Restored
  <2> QED  BY <2>1, <2>2
<1>6. CASE Preflight
  <2>1. /\ op'.pc \in {"hold", "step"} /\ op'.todo = op.todo /\ unseen' = unseen
        /\ op.pc = "preflight"
    BY <1>0, <1>6 DEF Preflight, At, Continues, OpType, history
  <2> QED  BY <1>0, <2>1 DEF Restored
<1>7. ASSUME NEW t \in Targets, OnFound(t) PROVE Restored'
  <2>1. op.pc = "step" /\ unseen' = unseen
    BY <1>7 DEF OnFound, At, history
  <2>2. CASE IsOn(t) /\ op' = Reenabled(t)
    <3>1. op'.pc = "step" /\ op'.todo = op.todo \ {t} /\ op'.bad = op.bad
      BY <1>0, <2>1, <2>2, WithoutType DEF Reenabled, Without, OpType
    <3>2. t \notin Dark
      BY <1>3, <2>2 DEF Dark
    <3> QED  BY <1>0, <2>1, <3>1, <3>2 DEF Restored, Awaiting
  <2>3. CASE op' = Failing(op)
    BY <1>1, <1>2, <2>3
  <2> QED  BY <1>7, <2>2, <2>3 DEF OnFound, Continues
<1>8. ASSUME NEW t \in Targets, OnCall(t) PROVE Restored'
  <2>1. op.pc = "step" /\ unseen \subseteq unseen' \cup {t}
    BY <1>8 DEF OnCall, At, CallReturns, CallRaises, Delivered, Swallowed
  <2>2. CASE op' = [Without(t) EXCEPT !.pc = "await", !.cur = t]
    <3>1. op'.pc = "await" /\ op'.todo = op.todo \ {t} /\ op'.bad = op.bad /\ op'.cur = t
      BY <1>0, <2>2, WithoutType DEF Without, OpType
    <3> QED  BY <1>0, <2>1, <3>1 DEF Restored, Awaiting
  <2>3. CASE op' = Failing(op)
    BY <1>1, <1>2, <2>3
  <2> QED  BY <1>8, <2>2, <2>3 DEF OnCall, Continues
<1>9. CASE OnConfirmed
  <2>1. op.pc = "await" /\ op.cur \in Targets /\ op.cur \notin held /\ unseen' = unseen
    BY <1>0, <1>3, <1>9 DEF OnConfirmed, At, AwaitsTarget, history
  <2>2. op'.pc = "record" /\ op'.todo = op.todo \ {op.cur} /\ op'.bad = op.bad
    <3>1. Reenabled(op.cur) \in OpType /\ op' = [Reenabled(op.cur) EXCEPT !.pc = "record"]
      BY <1>0, <1>9, <2>1, ReenabledType DEF OnConfirmed, Continues
    <3>2. Reenabled(op.cur).todo = op.todo \ {op.cur} /\ Reenabled(op.cur).bad = op.bad
      BY <1>0 DEF Reenabled, Without, OpType
    <3> QED  BY <3>1, <3>2 DEF OpType
  <2> QED  BY <1>0, <2>1, <2>2 DEF Restored, Awaiting, Dark
<1>10. CASE OnTimedOut
  <2>1. op'.pc = "step" /\ op'.bad
    BY <1>0, <1>10 DEF OnTimedOut, Continues, OpType
  <2> QED  BY <2>1 DEF Restored
<1>11. CASE OnRecord
  <2>1. op.pc = "record" /\ unseen' = unseen /\ op'.pc = "step" /\ op'.todo = op.todo /\ op'.bad = op.bad
    BY <1>0, <1>11 DEF OnRecord, At, Continues, OpType, history
  <2> QED  BY <1>0, <2>1 DEF Restored, Awaiting
<1>12. CASE ToBaseline
  <2>1. op.pc = "step" /\ NextOn = {} /\ unseen' = unseen /\ op'.pc = "baseline" /\ op'.bad = op.bad
    BY <1>0, <1>12 DEF ToBaseline, At, Continues, OpType, history
  <2>2. ~op.bad => op.todo = {}
    BY <2>1 DEF NextOn
  <2> QED  BY <1>0, <2>1, <2>2 DEF Restored, Awaiting
<1>13. ASSUME NEW t \in Targets, BaselineFound(t) PROVE Restored'
  <2>1. op.pc = "baseline" /\ unseen' = unseen /\ op'.pc = "baseline" /\ (op.bad => op'.bad)
    <3>1. Without(t) \in OpType /\ Without(t).pc = op.pc
      BY <1>0, WithoutType, WithoutFields
    <3>2. Without(t).bad = op.bad
      BY <1>0 DEF Without, OpType
    <3> QED  BY <1>13, <3>1, <3>2 DEF BaselineFound, At, Continues, OpType, history
  <2> QED  BY <1>0, <2>1 DEF Restored
<1>14. ASSUME NEW t \in Targets, BaselineCall(t) PROVE Restored'
  <2>1. op.pc = "baseline" /\ unseen' = unseen
    BY <1>14 DEF BaselineCall, At, CallReturns, CallRaises, Delivered, Swallowed
  <2>2. CASE op' = [Without(t) EXCEPT !.pc = "awaitbase", !.cur = t]
    <3>1. op'.pc = "awaitbase" /\ op'.bad = op.bad
      BY <1>0, <2>2, WithoutType DEF Without, OpType
    <3> QED  BY <1>0, <2>1, <3>1 DEF Restored
  <2>3. CASE op' = Failing(op)
    BY <1>1, <1>2, <2>3
  <2> QED  BY <1>14, <2>2, <2>3 DEF BaselineCall, Continues
<1>15. CASE BaselineReadback
  <2>1. op.pc = "awaitbase" /\ unseen \subseteq unseen' /\ op'.pc = "baseline" /\ (op.bad => op'.bad)
    BY <1>0, <1>15 DEF BaselineReadback, At, ReadbackTimesOut, Continues, OpType
  <2> QED  BY <1>0, <2>1 DEF Restored
<1>16. CASE ResumeDecide
  <2>1. op.pc = "baseline" /\ unseen' = unseen
    BY <1>16 DEF ResumeDecide, At, history
  <2>2. CASE op.bad
    BY <1>1, <1>2, <1>16, <2>2 DEF ResumeDecide, Continues
  <2>3. CASE ~op.bad
    <3>1. op'.pc = "mark"
      BY <1>0, <1>16, <2>3 DEF ResumeDecide, Continues, OpType
    <3> QED  BY <1>0, <2>1, <2>3, <3>1 DEF Restored
  <2> QED  BY <2>2, <2>3
<1>17. CASE MarkActive \/ PersistError
  BY <1>1, <1>17 DEF MarkActive, PersistError, Returns
<1>18. ASSUME NEW t \in Targets, Repause(t) PROVE Restored'
  <2>1. op'.pc = "restore"
    BY <1>0, <1>18, WithoutFields DEF Repause, At, Continues
  <2> QED  BY <1>1, <2>1
<1>19. CASE RepauseDone \/ HoldFailSafe
  <2>1. op' = Idle \/ op'.pc \in {"hold", "persist"}
    BY <1>0, <1>19 DEF RepauseDone, HoldFailSafe, Returns, Continues, OpType
  <2> QED  BY <1>1, <2>1
<1> QED  BY <1>4, <1>5, <1>6, <1>7, <1>8, <1>9, <1>10, <1>11, <1>12, <1>13, <1>14, <1>15, <1>16,
            <1>17, <1>18, <1>19 DEF ResumeStep

LEMMA VerifiedResume ==
    ASSUME TypeOK, Related, EInv, Verified, ResumeStep, ~SaveFails
    PROVE  Verified'
<1> USE TargetsAssumption
<1>0. /\ op \in OpType /\ rec \in RecordType /\ op.kind = "resume" /\ Dark' = Dark
      /\ UNCHANGED <<real, held, raced>>
  BY ResumeShape DEF TypeOK, Dark
<1>1. ~Working /\ rec.phase # "pausing"
  BY <1>0 DEF Working, Turning, Verified, StrandedWaits
<1>2. ~Working' /\ rec'.phase # "pausing"
  BY <1>1, ResumeShape DEF Working, Turning, Idle
<1>3. StrandedWaits' /\ OwnPhase' /\ PlanSeen'
  BY <1>2 DEF StrandedWaits, OwnPhase, PlanSeen
<1> SUFFICES ASSUME ~raced PROVE Account'
  BY <1>0, <1>3 DEF Verified
<1>4. Restored'
  BY <1>1, RestoredResume DEF EInv, Verified, Account
<1>5. Stored'
  <2>1. CASE op.pc = "reserve" /\ op' = Idle /\ UNCHANGED <<rec, unseen>>
    BY <1>0, <1>1, <2>1 DEF Verified, Account, Stored, Resuming, Idle
  <2>2. CASE Resuming \/ Active
    <3>1. Dark \subseteq rec.switches \cup unseen
      BY <1>0, <1>1, <2>2 DEF Verified, Account, Stored, Active, RecordType, Phases
    <3>2. Dark \subseteq rec.switches \cup unseen'
      BY <3>1, ResumeKeeps DEF Dark
    <3> QED  BY <1>0, <3>2, ResumeKeeps DEF Stored
  <2>3. op.pc = "reserve" => ResumeReturnsEarly \/ Active
    BY DEF ResumeStep, ResumeBegin, Preflight, OnFound, OnCall, OnConfirmed, OnTimedOut, OnRecord,
       ToBaseline, BaselineFound, BaselineCall, BaselineReadback, ResumeDecide, MarkActive,
       Repause, RepauseDone, HoldFailSafe, PersistError, At
  <2>4. ResumeReturnsEarly => op.pc = "reserve" /\ op' = Idle /\ UNCHANGED <<rec, unseen>>
    BY DEF ResumeReturnsEarly, At, Returns, history
  <2> QED  BY <1>0, <2>1, <2>2, <2>3, <2>4 DEF Resuming
<1>6. Baseline'
  <2>1. \A t \in rec.preOff : t \in unseen => t \in unseen'
    BY ResumeKeeps DEF TypeOK, RecordType, Related, EvidenceDisjoint
  <2>2. op'.pc = "awaitbase" => op'.cur \in unseen'
    <3>1. ASSUME NEW t \in Targets, BaselineCall(t) PROVE op'.pc = "awaitbase" => op'.cur \in unseen'
      <4>1. t \in rec.preOff /\ real[t] # "off"
        BY <1>0, <3>1, ReportedOn DEF BaselineCall, At, Related, ResumeCopies, ResumeWork
      <4>2. t \in unseen
        BY <4>1 DEF Verified, Account, Baseline
      <4>3. op' = [Without(t) EXCEPT !.pc = "awaitbase", !.cur = t] \/ op' = Failing(op)
        BY <3>1 DEF BaselineCall, Continues
      <4>4. Failing(op).pc = "restore"
        BY <1>0, RestoringFields
      <4>5. [Without(t) EXCEPT !.pc = "awaitbase", !.cur = t].cur = t
        BY <1>0, WithoutType DEF OpType
      <4> QED  BY <2>1, <4>1, <4>2, <4>3, <4>4, <4>5
    <3>2. CASE ~\E t \in Targets : BaselineCall(t)
      <4>1. ASSUME NEW t \in Targets
            PROVE  /\ Without(t).pc = op.pc /\ Without(t) \in OpType
                   /\ Reenabled(t).pc = op.pc /\ Reenabled(t) \in OpType
        BY <1>0, WithoutType, WithoutFields, ReenabledType, ReenabledFields
      <4>2. Failing(op).pc = "restore" /\ Restoring(op).pc = "restore"
        BY <1>0, RestoringFields
      <4>3. CASE \E t \in Targets : OnFound(t) \/ OnCall(t) \/ BaselineFound(t) \/ Repause(t)
        BY <4>1, <4>2, <4>3 DEF OnFound, OnCall, BaselineFound, Repause, At, Continues, OpType
      <4>4. CASE OnConfirmed
        <5>1. op.cur \in Targets /\ op' = [Reenabled(op.cur) EXCEPT !.pc = "record"]
          BY <4>4 DEF OnConfirmed, At, Related, AwaitsTarget, Continues
        <5> QED  BY <4>1, <5>1 DEF OpType
      <4>5. CASE ResumeReturnsEarly \/ ResumeBegin
        <5>1. op' = Idle \/ op'.pc = "preflight"
          BY <1>0, <4>5 DEF ResumeReturnsEarly, ResumeBegin, Returns, Raises, Continues, OpType
        <5> QED  BY <5>1 DEF Idle
      <4>6. CASE Preflight \/ OnTimedOut
        BY <1>0, <4>6 DEF Preflight, OnTimedOut, Continues, OpType
      <4>7. CASE OnRecord
        BY <1>0, <4>2, <4>7 DEF OnRecord, Continues, OpType
      <4>8. CASE ToBaseline \/ BaselineReadback
        BY <1>0, <4>8 DEF ToBaseline, BaselineReadback, Continues, OpType
      <4>9. CASE ResumeDecide \/ MarkActive
        BY <1>0, <4>2, <4>9 DEF ResumeDecide, MarkActive, Returns, Continues, Idle, OpType
      <4>10. CASE RepauseDone \/ HoldFailSafe \/ PersistError
        BY <1>0, <4>10 DEF RepauseDone, HoldFailSafe, PersistError, Returns, Raises, Continues,
           Idle, OpType
      <4> QED  BY <3>2, <4>3, <4>4, <4>5, <4>6, <4>7, <4>8, <4>9, <4>10 DEF ResumeStep
    <3> QED  BY <3>1, <3>2
  <2> QED  BY <1>0, <2>1, <2>2, ResumeKeeps DEF Verified, Account, Baseline
<1> QED  BY <1>4, <1>5, <1>6 DEF Account

\* A tick that leaves the record alone, or ends its period.
LEMMA VerifiedRephased ==
    ASSUME TypeOK, [Next]_vars, ScheduleWaits, Verified, op' = op, SamePlan,
           rec'.switches = rec.switches, rec'.preOff = rec.preOff, rec'.camPlanned = rec.camPlanned,
           UNCHANGED <<real, vis, held, raced>>, unseen \subseteq unseen',
           rec'.phase \in {rec.phase, "active"},
           rec'.phase = rec.phase \/ ~(op.kind \in Turning /\ op.who = "schedule"),
           rec'.phase = "pausing" /\ ~Working => ~ready' /\ tick' \in {"reload", "idle"}
    PROVE  Verified'
<1>1. /\ Working' = Working /\ Resuming' = Resuming /\ Dark' = Dark /\ Awaiting' = Awaiting
  BY DEF Working, Resuming, Dark, Awaiting
<1>2. StrandedWaits'
  BY <1>1 DEF Verified, StrandedWaits
<1>3. OwnPhase'
  BY <1>1 DEF Verified, OwnPhase, Working
<1>4. used'["outage"] = 0 => used["outage"] = 0
  BY UsedBefore DEF FaultKinds
<1>5. PlanSeen'
  BY <1>1, <1>4 DEF Verified, PlanSeen, SamePlan
<1>6. raced \/ (Stored' /\ Baseline' /\ Restored')
  BY <1>1 DEF Verified, Account, Stored, Baseline, Restored
<1> QED  BY <1>2, <1>3, <1>5, <1>6 DEF Verified, Account

\* An unlocked tick gives up only an interrupted pause, and takes over what is dark.
LEMMA VerifiedTick ==
    ASSUME TypeOK, Related, EInv, EInv', ScheduleWaits, BaseKept, Verified, [Next]_vars, ~SaveFails,
           TickLocks \/ TickRecovers \/ TickGoesOn
    PROVE  Verified'
<1> USE TargetsAssumption
<1>0. /\ op \in OpType /\ rec \in RecordType /\ held \subseteq Targets /\ HeldOff
      /\ Remembered /\ Remembered'
  BY DEF TypeOK, EInv
<1>1. UNCHANGED <<real, vis, held>> /\ unseen \subseteq unseen'
  BY TickShape
<1>2. tick \notin {"reload", "idle"} => Working \/ rec.phase # "pausing"
  BY DEF Verified, StrandedWaits
<1>3. CASE op' # op
  <2>1. /\ op.kind = "none" /\ op'.pc = "reserve" /\ UNCHANGED <<rec, raced>>
        /\ tick \in {"pausewait", "autowait", "recwait"}
    BY <1>3, TickShape
  <2>2. ~Working /\ ~Working' /\ ~Resuming'
    BY <2>1 DEF Working, Resuming, Turning
  <2> QED  BY <1>1, <1>2, <2>1, <2>2, VerifiedReleased
<1>4. CASE op' = op /\ rec' = rec /\ (TickLocks \/ TickWaits \/ TickRecoversResume \/ TickNothingToRecover)
  <2>1. raced' = raced
    BY <1>4 DEF TickLocks, SchedulePause, AutoResume, RecoverResume, RecoverReplayed,
       PauseLock, ResumeLock, TickWaits, TickRecoversResume, TickNothingToRecover, history
  <2>2. rec.phase = "pausing" /\ ~Working => ~ready' /\ tick' \in {"reload", "idle"}
    <3>1. CASE TickLocks
      BY <1>2, <3>1 DEF TickLocks, SchedulePause, AutoResume, RecoverResume, RecoverReplayed
    <3>2. CASE TickWaits
      BY <3>2 DEF TickWaits, TickIdle
    <3>3. CASE TickRecoversResume \/ TickNothingToRecover
      BY <3>3 DEF TickRecoversResume, TickNothingToRecover, Interrupted
    <3> QED  BY <1>4, <3>1, <3>2, <3>3
  <2> QED  BY <1>1, <1>4, <2>1, <2>2, VerifiedRephased DEF SamePlan
<1>5. CASE TickGoesOn
  <2>1. op' = op /\ raced' = raced /\ tick \in {"past", "late"}
    BY <1>5 DEF TickGoesOn, TickEnds, TickPauses, TickReleases, TickUncovers, TickQuiet,
       TickOverrides, TickDone, TickPast, history
  <2>2. /\ SamePlan /\ rec'.switches = rec.switches /\ rec'.preOff = rec.preOff
        /\ rec'.camPlanned = rec.camPlanned /\ rec'.phase \in {rec.phase, "active"}
    BY <1>0, <1>5 DEF TickGoesOn, TickEnds, TickPauses, TickReleases, TickUncovers, TickQuiet,
       TickOverrides, TickDone, Saves, SaveFails, RecordType, SamePlan
  <2>3. ~(op.kind \in Turning /\ op.who = "schedule")
    BY <2>1 DEF ScheduleWaits
  <2>4. rec'.phase = "pausing" => Working
    BY <1>2, <2>1, <2>2
  <2> QED  BY <1>1, <2>1, <2>2, <2>3, <2>4, VerifiedRephased
<1>6. CASE TickFinalizes
  <2> DEFINE seenOff == IF rec.phase = "pausing"
                        THEN {t \in PausingPlan \cup PausingBase : Report(t) = "off"} ELSE {}
  <2>1. /\ rec'.phase = "error" /\ rec'.preOff = rec.preOff /\ SamePlan
        /\ rec'.switches = rec.switches \cup seenOff
        /\ op' = op /\ raced' = raced /\ MissedNow
        /\ tick = "idle" /\ Pending
    BY <1>0, <1>6 DEF TickFinalizes, Saves, RecordType, SamePlan, TickIdle
  <2>2. Working' = Working /\ Resuming' = Resuming /\ Dark' = Dark /\ Awaiting' = Awaiting
    BY <1>1, <2>1 DEF Working, Resuming, Dark, Awaiting
  <2>3. ~(op.kind \in Turning /\ op.who = "schedule")
    BY <2>1 DEF ScheduleWaits
  <2>4. StrandedWaits' /\ OwnPhase'
    BY <2>1, <2>2, <2>3 DEF StrandedWaits, OwnPhase, Working
  <2>5. Working => used["outage"] # 0
    <3>1. SUFFICES ASSUME Working, used["outage"] = 0 PROVE FALSE
      OBVIOUS
    <3>2. op.who = "admin" /\ rec.phase = "pausing"
      BY <2>1, <3>1 DEF ScheduleWaits, Working, Verified, PlanSeen, Pending, Interrupted
    <3>3. InputsReady
      BY <3>1, <3>2 DEF Verified, PlanSeen, InputsReady, PausingPlan, PausingBase
    <3> QED  BY <2>1, <3>3 DEF Pending
  <2>6. used'["outage"] = 0 => used["outage"] = 0
    BY UsedBefore DEF FaultKinds
  <2>7. PlanSeen'
    BY <2>1, <2>2, <2>5, <2>6 DEF PlanSeen
  <2>8. ASSUME ~raced PROVE Stored'
    <3>1. CASE Working
      BY <2>2, <3>1 DEF Stored, Working, Resuming, Turning
    <3>2. CASE ~Working /\ rec.phase = "pausing"
      <4>1. Dark \subseteq PausingPlan \cup rec.switches \cup unseen
        BY <1>0, <2>8, <3>2 DEF Remembered, BaseKept
      <4>2. ASSUME NEW t \in Dark, t \in PausingPlan, Report(t) # "off"
            PROVE  t \in unseen'
        <5>1. real[t] = "off" /\ t # Cam
          BY <1>0 DEF Dark, HeldOff
        <5>2. Unavailable(t)
          BY <4>2, <5>1 DEF Report, Unavailable
        <5> QED  BY <2>1, <3>2, <4>2, <5>2 DEF MissedNow
      <4>3. \A t \in PausingPlan : Report(t) = "off" => t \in rec'.switches
        BY <2>1, <3>2
      <4>4. Dark \subseteq rec'.switches \cup unseen'
        BY <1>1, <2>1, <4>1, <4>2, <4>3
      <4> QED  BY <2>2, <4>4 DEF Stored
    <3>3. CASE ~Working /\ rec.phase = "resuming"
      <4>1. Dark \subseteq rec.switches \cup unseen
        BY <2>8, <3>3 DEF Verified, Account, Stored
      <4> QED  BY <1>1, <2>1, <2>2, <4>1 DEF Stored
    <3> QED  BY <2>1, <3>1, <3>2, <3>3 DEF Pending, Interrupted
  <2>9. raced \/ (Baseline' /\ Restored')
    BY <1>1, <2>1, <2>2 DEF Verified, Account, Baseline, Restored
  <2> HIDE DEF seenOff
  <2> QED  BY <2>1, <2>4, <2>7, <2>8, <2>9 DEF Verified, Account
<1>7. CASE TickRecoversPause
  <2>1. /\ rec'.phase = "partial" /\ rec'.preOff = rec.preOff /\ SamePlan
        /\ rec'.camPlanned = rec.camPlanned
        /\ op' = op /\ raced' = (raced \/ op.kind \in Turning)
        /\ tick = "idle" /\ rec.phase = "pausing"
    BY <1>0, <1>7 DEF TickRecoversPause, Saves, RecordType, SamePlan, TickIdle
  <2>2. Working' = Working /\ Resuming' = Resuming /\ Dark' = Dark /\ Awaiting' = Awaiting
    BY <1>1, <2>1 DEF Working, Resuming, Dark, Awaiting
  <2>3. ~(op.kind \in Turning /\ op.who = "schedule")
    BY <2>1 DEF ScheduleWaits
  <2>4. StrandedWaits' /\ OwnPhase'
    BY <2>1, <2>2, <2>3 DEF StrandedWaits, OwnPhase, Working
  <2>5. used'["outage"] = 0 => used["outage"] = 0
    BY UsedBefore DEF FaultKinds
  <2>6. PlanSeen'
    BY <1>1, <2>1, <2>2, <2>5 DEF Verified, PlanSeen, SamePlan
  <2>7. ASSUME ~raced' PROVE Account'
    <3>1. ~raced /\ ~Working /\ ~Resuming
      BY <2>1, <2>7 DEF Working, Resuming, Verified, StrandedWaits
    <3>2. Stored'
      BY <1>0, <2>1, <2>2, <2>7, <3>1 DEF Remembered, Stored
    <3> QED  BY <1>1, <2>1, <2>2, <3>1, <3>2 DEF Verified, Account, Baseline, Restored
  <2> QED  BY <2>4, <2>6, <2>7 DEF Verified
<1> QED  BY <1>3, <1>4, <1>5, <1>6, <1>7 DEF TickRecovers, TickLocks, SchedulePause, AutoResume,
            RecoverResume, RecoverReplayed, PauseLock, ResumeLock, TickWaits, TickRecoversResume,
            TickNothingToRecover

\* What lands dark is either unseen, or awaited by the handler that has it in its copies.
LEMMA VerifiedLand ==
    ASSUME TypeOK, Related, EInv, Verified, NEW t \in Targets, Land(t)
    PROVE  Verified'
<1> USE TargetsAssumption
<1>0. /\ op \in OpType /\ rec \in RecordType /\ real \in [Targets -> {"on", "off"}]
      /\ held \subseteq Targets /\ Places
  BY DEF TypeOK, EInv
<1>1. UNCHANGED <<vis, rec, op, tick, ready, used, raced>>
  BY <1>0 DEF Land
<1>2. unseen' = IF Awaited(t) \/ real[t] = real'[t] THEN unseen ELSE unseen \cup {t}
  BY <1>0 DEF Land
<1>3. /\ held' \subseteq held \/ (held' = held \cup {t} /\ real[t] # real'[t])
      /\ \A u \in Targets \ {t} : real'[u] = real[u]
      /\ real'[t] = real[t] => held' \subseteq held
  BY <1>0 DEF Land
<1>4. /\ Working' = Working /\ Resuming' = Resuming /\ Awaiting' = Awaiting
  BY <1>1 DEF Working, Resuming, Awaiting
<1>5. StrandedWaits' /\ OwnPhase' /\ PlanSeen'
  BY <1>1, <1>4 DEF Verified, StrandedWaits, OwnPhase, PlanSeen
<1> SUFFICES ASSUME Account PROVE Account'
  BY <1>1, <1>5 DEF Verified
<1>6. /\ Awaited(t) => op.cur = t /\ op.pc \in {"await", "awaitbase"}
      /\ op.pc = "awaitbase" => op.cur \in unseen
  BY DEF Awaited, Account, Baseline
<1>7. ASSUME ~Working, Awaited(t) PROVE Resuming
  BY <1>0, <1>6, <1>7 DEF Places, Working, Resuming, OpType, Turning
<1>8. ASSUME ~Working PROVE Dark' \subseteq Dark \cup unseen' \cup (IF Resuming THEN Awaiting ELSE {})
  BY <1>2, <1>3, <1>6, <1>7, <1>8 DEF Dark, Awaiting
<1>9. Resuming => ~Working /\ Awaiting \subseteq rec.switches \cup {Cam}
  BY DEF Resuming, Working, Turning, Awaiting, Related, ResumeCopies, ResumeWork
<1>10. unseen \subseteq unseen' /\ Dark' \subseteq Switches
  BY <1>2 DEF Dark
<1>11. Stored'
  BY <1>1, <1>4, <1>8, <1>9, <1>10 DEF Account, Stored
<1>12. Restored'
  <2> SUFFICES ASSUME Resuming PROVE Restored'
    BY <1>4 DEF Restored
  <2>1. Dark' \subseteq Dark \cup unseen' \cup Awaiting
    BY <1>8, <1>9
  <2> QED  BY <1>1, <1>4, <1>10, <2>1 DEF Account, Restored, Awaiting
<1>13. Baseline'
  <2>1. ASSUME t \in rec.preOff, Awaited(t) PROVE t \in unseen
    <3>1. CASE op.pc = "awaitbase"
      BY <1>6, <2>1, <3>1
    <3>2. CASE op.pc = "await" /\ op.kind \in Turning
      BY <1>6, <2>1, <3>2 DEF Related, TurningWork
    <3>3. CASE op.pc = "await" /\ op.kind = "resume"
      BY <1>0, <1>6, <2>1, <3>3 DEF Related, ResumeCopies, ResumeWork, EvidenceDisjoint, RecordType
    <3> QED  BY <1>0, <1>6, <2>1, <3>1, <3>2, <3>3 DEF Places, OpType, Turning
  <2>2. rec.preOff \subseteq Targets
    BY <1>0 DEF RecordType, Targets
  <2> QED  BY <1>1, <1>2, <1>3, <1>10, <2>1, <2>2 DEF Account, Baseline
<1> QED  BY <1>11, <1>12, <1>13 DEF Account

\* A cancelled pause is left to recovery; a restart finds what was saved.
LEMMA VerifiedWorld ==
    ASSUME TypeOK, Related, EInv, ScheduleWaits, Verified, [Next]_vars, Saved', ~SaveFails,
           GraceEnds \/ (\E t \in Targets : Land(t)) \/ Environment
    PROVE  Verified'
<1> USE TargetsAssumption
<1>0. /\ op \in OpType /\ rec \in RecordType /\ vis \in [Targets -> {"seen", "unavailable", "missing"}]
      /\ Remembered /\ Places
  BY DEF TypeOK, EInv
<1>1. CASE GraceEnds \/ WindowTurns
  <2>1. UNCHANGED <<real, vis, rec, op, tick, ready, used, history>>
    BY <1>1 DEF GraceEnds, WindowTurns, device
  <2> QED  BY <2>1, VerifiedRephased DEF SamePlan, history, Verified, StrandedWaits
<1>2. ASSUME NEW t \in Targets, External(t) PROVE Verified'
  <2>1. /\ UNCHANGED <<vis, rec, op, tick, ready, raced>>
        /\ held' = held \ {t} /\ unseen' = unseen \cup {t}
        /\ \A u : u # t => real'[u] = real[u] \/ u \notin Targets
    BY <1>2 DEF External, TypeOK
  <2>2. /\ Working' = Working /\ Resuming' = Resuming /\ Awaiting' = Awaiting /\ Dark' \subseteq Dark
    BY <2>1 DEF Working, Resuming, Awaiting, Dark
  <2>3. used'["outage"] = 0 => used["outage"] = 0
    BY UsedBefore DEF FaultKinds
  <2>4. StrandedWaits' /\ OwnPhase' /\ PlanSeen'
    BY <2>1, <2>2, <2>3 DEF Verified, StrandedWaits, OwnPhase, PlanSeen
  <2>5. rec.preOff \subseteq Targets
    BY <1>0 DEF RecordType, Targets
  <2>6. raced \/ (Stored' /\ Baseline' /\ Restored')
    BY <2>1, <2>2, <2>5 DEF Verified, Account, Stored, Baseline, Restored
  <2> QED  BY <2>1, <2>4, <2>6 DEF Verified, Account
\* Entities come and go: only a plan whose targets report cannot be given up for lost.
<1>3. ASSUME NEW t \in Targets, Outage(t) \/ Return(t) PROVE Verified'
  <2>1. UNCHANGED <<real, rec, op, tick, ready, history>>
    BY <1>3 DEF Outage, Return
  <2>2. /\ Working' = Working /\ Resuming' = Resuming /\ Awaiting' = Awaiting /\ Dark' = Dark
    BY <2>1 DEF Working, Resuming, Awaiting, Dark, history
  <2>3. StrandedWaits' /\ OwnPhase'
    BY <2>1, <2>2 DEF Verified, StrandedWaits, OwnPhase
  <2>4. PlanSeen'
    <3>1. CASE Outage(t)
      <4>1. used'["outage"] # 0
        BY <3>1 DEF Outage, Spend, TypeOK, FaultKinds
      <4> QED  BY <2>1, <2>2, <4>1 DEF Verified, PlanSeen
    <3>2. CASE Return(t)
      <4>1. used' = used /\ \A u : vis[u] # "missing" /\ u \in Targets => vis'[u] # "missing"
        BY <1>0, <3>2 DEF Return
      <4>2. rec.planned \subseteq Targets /\ Cam \in Targets
        BY <1>0 DEF RecordType, Targets
      <4> QED  BY <2>1, <2>2, <4>1, <4>2 DEF Verified, PlanSeen
    <3> QED  BY <1>3, <3>1, <3>2
  <2>5. raced \/ (Stored' /\ Baseline' /\ Restored')
    BY <2>1, <2>2 DEF Verified, Account, Stored, Baseline, Restored, history
  <2> QED  BY <2>1, <2>3, <2>4, <2>5 DEF Verified, Account, history
<1>4. CASE AdminResume \/ \E s \in Scopes : AdminPause(s)
  <2>1. /\ UNCHANGED <<real, rec, history>> /\ op.kind = "none" /\ ready
        /\ op'.pc = "reserve"
    BY <1>4 DEF AdminResume, AdminPause, PauseLock, ResumeLock, LockFree, Idle, device
  <2>2. ~Working /\ ~Working' /\ ~Resuming'
    BY <2>1 DEF Working, Resuming, Turning
  <2>3. rec.phase # "pausing"
    BY <2>1, <2>2 DEF Verified, StrandedWaits
  <2> QED  BY <2>1, <2>2, <2>3, VerifiedReleased DEF history
<1>5. CASE Cancel
  <2>1. /\ UNCHANGED <<real, vis, rec, held, raced>> /\ unseen \subseteq unseen' /\ Dark' = Dark
        /\ ~ready'
        /\ \/ op' = Idle /\ tick' = "reload"
           \/ Resuming /\ op'.kind = "resume" /\ op'.pc = "restore"
    BY <1>5, CancelShape DEF Dark
  <2>2. ~Working' /\ (Resuming' => Resuming) /\ op'.pc \in {"idle", "restore"}
    BY <2>1 DEF Working, Resuming, Turning, Idle
  <2>3. Resuming => rec.phase # "pausing"
    BY DEF Verified, StrandedWaits, Resuming, Working, Turning
  <2>4. StrandedWaits' /\ OwnPhase' /\ PlanSeen'
    BY <2>1, <2>2, <2>3 DEF StrandedWaits, OwnPhase, PlanSeen, Idle
  <2>5. Working => rec.phase = "pausing"
    BY <1>5, CancelShape DEF ScheduleWaits, Working, Verified, OwnPhase
  <2>6. raced \/ (Stored' /\ Baseline' /\ Restored')
    BY <2>1, <2>2, <2>5 DEF Verified, Account, Stored, Baseline, Restored
  <2> QED  BY <2>1, <2>4, <2>6 DEF Verified, Account
<1>6. CASE Reload
  <2>1. /\ UNCHANGED <<real, vis, op, ready, history>> /\ rec' = Loaded(rec)
        /\ tick = "reload" /\ tick' = "idle"
    BY <1>6 DEF Reload, device
  <2>2. /\ SamePlan /\ rec'.switches = rec.switches /\ rec'.preOff = rec.preOff
        /\ rec'.camPlanned = rec.camPlanned /\ rec'.phase \in {rec.phase, "active"}
    BY <1>0, <2>1 DEF Loaded, RecordType, SamePlan
  <2>3. ~(op.kind \in Turning /\ op.who = "schedule")
    BY <2>1 DEF ScheduleWaits
  <2>4. rec'.phase = "pausing" /\ ~Working => ~ready'
    BY <2>1, <2>2 DEF Verified, StrandedWaits
  <2> QED  BY <2>1, <2>2, <2>3, <2>4, VerifiedRephased DEF history
<1>7. CASE Crash
  <2>1. /\ UNCHANGED <<real, history>> /\ rec' = Loaded(rec) /\ op' = Idle /\ tick' = "idle" /\ ~ready'
    BY <1>7 DEF Crash
  <2>2. used["outage"] = 0
    <3>1. used'["crash"] # 0
      BY <1>7 DEF Crash, Spend, TypeOK, FaultKinds
    <3> QED  BY <3>1, UsedBefore DEF Saved, FaultKinds
  <2>3. /\ rec'.switches = rec.switches /\ rec'.preOff = rec.preOff
        /\ rec'.phase \in {rec.phase, "active"}
    BY <1>0, <2>1 DEF Loaded, RecordType
  <2>4. ~Working' /\ ~Resuming' /\ op'.pc = "idle" /\ op'.kind = "none" /\ Dark' = Dark
    BY <2>1 DEF Idle, Working, Resuming, Turning, Dark, history
  <2>5. StrandedWaits' /\ OwnPhase' /\ PlanSeen'
    BY <2>1, <2>4 DEF StrandedWaits, OwnPhase, PlanSeen
  <2>6. raced \/ ~Working \/ rec.phase \notin {"paused", "partial", "resuming", "error"}
    BY <1>0, <2>2 DEF Remembered, Verified, PlanSeen
  <2>7. raced \/ (Stored' /\ Baseline' /\ Restored')
    BY <2>1, <2>3, <2>4, <2>6 DEF Verified, Account, Stored, Baseline, Restored, history
  <2> QED  BY <2>1, <2>5, <2>7 DEF Verified, Account, history
<1> QED  BY <1>1, <1>2, <1>3, <1>4, <1>5, <1>6, <1>7, VerifiedLand DEF Environment

LEMMA InitiallyVInv == Init => VInv
<1> SUFFICES ASSUME Init PROVE VInv
  OBVIOUS
<1>1. /\ op = Idle /\ ~Working /\ ~Resuming /\ op.pc = "idle" /\ op.kind = "none"
      /\ rec.phase = "none" /\ rec.preOff = {}
  BY DEF Init, Idle, NoRecord, Working, Resuming, Turning
<1> QED  BY <1>1 DEF VInv, ScheduleWaits, Turning, BaseKept, Verified, StrandedWaits, OwnPhase, PlanSeen,
            Account, Stored, Baseline, Restored

LEMMA StepKeepsVInv == IInv /\ EInv /\ VInv /\ [Next]_vars => VInv'
<1> SUFFICES ASSUME IInv, EInv, VInv, [Next]_vars PROVE VInv'
  OBVIOUS
<1>0. TypeOK /\ Related /\ TypeOK' /\ EInv'
  BY StepKeepsIInv, StepKeepsEInv DEF IInv
<1>1. ScheduleWaits /\ BaseKept /\ ScheduleWaits' /\ BaseKept'
  BY <1>0, StepKeepsScheduleWaits, StepKeepsBaseKept DEF VInv
<1>2. ASSUME Saved' PROVE Verified'
  <2>1. Verified /\ ~SaveFails
    BY <1>0, <1>2, SavedBefore DEF VInv
  <2>2. CASE PauseStep
    BY <1>0, <1>1, <2>1, <2>2, VerifiedPause
  <2>3. CASE ResumeStep
    BY <1>0, <2>1, <2>3, VerifiedResume
  <2>4. CASE TickLocks \/ TickRecovers \/ TickGoesOn
    BY <1>0, <1>1, <2>1, <2>4, VerifiedTick
  <2>5. CASE GraceEnds \/ (\E t \in Targets : Land(t)) \/ Environment
    BY <1>0, <1>1, <1>2, <2>1, <2>5, VerifiedWorld
  <2>6. CASE UNCHANGED vars
    BY <1>0, <1>1, <2>1, <2>6, VerifiedRephased DEF vars, SamePlan, Verified, StrandedWaits
  <2> QED  BY <2>2, <2>3, <2>4, <2>5, <2>6 DEF Next
<1> QED  BY <1>1, <1>2 DEF VInv

\* While saves succeed, and there is no restart or no outage, what is dark is in the record
\* or in the plan of a pause, what was off before is none of it, and a running resume still
\* has to turn on whatever it has not seen come on.
THEOREM AlwaysVInv == Spec => []VInv
  BY InitiallyVInv, StepKeepsVInv, AlwaysIInv, AlwaysEInv, PTL DEF Spec

\* Only a resume that has turned everything on claims "active", unless an override is
\* remembered.
LEMMA ActiveStep ==
    ASSUME TypeOK, [Next]_vars, rec.phase # "active", rec'.phase = "active", ~rec'.overridden
    PROVE  MarkActive
<1>0. rec \in RecordType
  BY DEF TypeOK
<1>1. CASE PauseStep
  BY <1>0, <1>1 DEF PauseStep, PauseRefused, PausePlan, ExtendPlan, OffCall, OffConfirmed,
     OffTimedOut, OffRecord, PauseFinish, Saves, SaveFails, RecordType, NoRecord
<1>2. CASE ResumeStep
  <2>1. CASE ResumeReturnsEarly \/ ResumeBegin \/ Preflight \/ OnConfirmed \/ OnTimedOut
             \/ OnRecord \/ ToBaseline
    BY <1>0, <2>1 DEF ResumeReturnsEarly, ResumeBegin, Preflight, OnConfirmed, OnTimedOut,
       OnRecord, ToBaseline, Saves, SaveFails, RecordType
  <2>2. CASE BaselineReadback \/ ResumeDecide \/ RepauseDone \/ HoldFailSafe \/ PersistError
    BY <1>0, <2>2 DEF BaselineReadback, ResumeDecide, RepauseDone, HoldFailSafe, PersistError,
       Saves, SaveFails, RecordType
  <2>3. CASE \E t \in Targets : \/ OnFound(t) \/ OnCall(t) \/ BaselineFound(t)
                                \/ BaselineCall(t) \/ Repause(t)
    BY <2>3 DEF OnFound, OnCall, BaselineFound, BaselineCall, Repause
  <2> QED  BY <1>2, <2>1, <2>2, <2>3 DEF ResumeStep
<1>3. CASE TickFinalizes \/ TickRecoversPause
  BY <1>0, <1>3 DEF TickFinalizes, TickRecoversPause, Saves, SaveFails, RecordType
<1>4. CASE TickReleases \/ TickUncovers \/ TickOverrides
  BY <1>0, <1>4 DEF TickReleases, TickUncovers, TickOverrides, Suppressed, Saves, SaveFails, RecordType
<1>5. CASE TickLocks \/ TickWaits \/ TickRecoversResume \/ TickNothingToRecover
           \/ TickEnds \/ TickPauses \/ TickQuiet \/ TickDone
  BY <1>5 DEF TickLocks, SchedulePause, AutoResume, RecoverResume, RecoverReplayed, PauseLock,
     ResumeLock, TickWaits, TickRecoversResume, TickNothingToRecover, TickEnds, TickPauses,
     TickQuiet, TickDone
<1>6. CASE Reload \/ Crash
  BY <1>0, <1>6 DEF Reload, Crash, Loaded, RecordType
<1>7. CASE GraceEnds \/ (\E t \in Targets : Land(t)) \/ (Environment /\ ~Reload /\ ~Crash)
  BY <1>7 DEF GraceEnds, Land, Environment, AdminPause, AdminResume, PauseLock, ResumeLock,
     Cancel, External, Outage, Return, WindowTurns
<1>8. CASE UNCHANGED vars
  BY <1>8 DEF vars
<1> QED  BY <1>1, <1>2, <1>3, <1>4, <1>5, <1>6, <1>7, <1>8 DEF Next, TickRecovers, TickGoesOn

-----------------------------------------------------------------------------
(* The camera entity, which only the final save of an extension records.    *)

\* Only ticks, failing calls, outages and the household disturb the handlers.
Calm == used["save"] = 0 /\ used["crash"] = 0 /\ used["cancel"] = 0

\* The camera entity is off by our doing, and the change was seen or its call is still
\* being read back.
CamDark == Cam \in held \ unseen
CamAwaited == op.pc = "await" /\ op.cur = Cam
Settled == {"paused", "partial", "resuming", "error"}

\* A pause that has seen the camera go off remembers it itself.
CamWork == Working /\ CamDark => op.camDone \/ CamAwaited
\* The record remembers it at rest, and while a resume runs.
CamStored == (~Working /\ rec.phase \in Settled) \/ Resuming => (CamDark => rec.camToggled)
\* A resume still has to start it, or has failed to.
CamRestored ==
    Resuming /\ CamDark =>
        /\ op.pc = "preflight" => op.cam
        /\ op.pc \in {"step", "await", "record"} /\ ~op.bad => op.cam \/ CamAwaited
        /\ op.pc \in {"baseline", "awaitbase"} => op.bad
        /\ op.pc # "mark"
CamAccount == CamWork /\ CamStored /\ CamRestored
CamKept == (rec.phase = "pausing" => Working) /\ (raced \/ CamAccount)

CInv == Calm => CamKept

LEMMA CalmBefore ==
    ASSUME TypeOK, [Next]_vars, Calm' PROVE Calm /\ ~SaveFails /\ ~Cancel /\ ~Crash
<1>1. Calm
  BY UsedBefore DEF Calm, FaultKinds
<1>2. ~Spend("save") /\ ~Spend("cancel") /\ ~Spend("crash")
  BY DEF TypeOK, Calm, Spend, FaultKinds
<1> QED  BY <1>1, <1>2 DEF SaveFails, Cancel, Crash

\* A pause that works on has seen the camera go off, or reads it back.
LEMMA CamPause ==
    ASSUME TypeOK, Related, EInv, CamKept, PauseStep, ~SaveFails
    PROVE  CamKept'
<1> USE TargetsAssumption
<1>0. /\ op \in OpType /\ rec \in RecordType /\ op.kind \in Turning /\ Cam \in Targets
      /\ Working <=> op.pc # "reserve"
  BY PauseShape DEF TypeOK, Working, Targets
<1>1. ASSUME Working', ~Resuming', raced' \/ (CamDark' => op'.camDone \/ CamAwaited')
      PROVE  CamKept'
  BY <1>1 DEF CamKept, CamAccount, CamWork, CamStored, CamRestored
<1>2. ASSUME Working', op.pc = "step", op'.kind \in Turning, raced' = raced,
             CamDark' => CamDark, op'.camDone = op.camDone
      PROVE  CamKept'
  BY <1>0, <1>1, <1>2 DEF CamKept, CamAccount, CamWork, CamAwaited, Resuming, Turning
<1>3. CASE PauseRefused
  <2>1. op.pc = "reserve" /\ op' = Idle /\ rec' = rec /\ UNCHANGED history
    BY <1>3 DEF PauseRefused, At, Returns
  <2> QED  BY <1>0, <2>1 DEF CamKept, CamAccount, CamWork, CamStored, CamRestored, Working, Resuming,
              Idle, Turning, CamDark, history
<1>4. CASE PausePlan
  <2>1. op'.pc = "step" /\ op'.kind = op.kind /\ held' = {}
    BY <1>0, <1>4 DEF PausePlan, Continues, OpType
  <2> QED  BY <1>0, <1>1, <2>1 DEF Working, Resuming, CamDark, Turning
<1>5. CASE ExtendPlan
  <2>1. /\ op'.pc = "step" /\ op'.kind = "extend" /\ op'.camDone = rec.camToggled
        /\ op.pc = "reserve" /\ rec.phase \in {"paused", "partial"} /\ UNCHANGED history
    BY <1>0, <1>5 DEF ExtendPlan, Continues, OpType, At, Extendable
  <2> QED  BY <1>0, <1>1, <2>1 DEF CamKept, CamAccount, CamStored, Settled, Working, Resuming, CamDark,
              Turning, history
<1>6. ASSUME NEW t \in Targets, OffCall(t) PROVE CamKept'
  <2>1. op.pc = "step" /\ held' = held /\ raced' = raced /\ held \cap unseen \subseteq unseen'
    BY <1>6, OffLeavesUnseen DEF OffCall, At, EInv
  <2>2. Without(t) \in OpType /\ Without(t).kind = op.kind /\ Without(t).camDone = op.camDone
    BY <1>0, WithoutType, WithoutFields
  <2>3. op'.kind = op.kind /\ op'.pc # "reserve" /\ op'.camDone = op.camDone
    BY <1>6, <2>2 DEF OffCall, Continues, OpType
  <2> QED  BY <1>0, <1>2, <2>1, <2>3 DEF Working, CamDark
<1>7. CASE OffConfirmed
  <2>1. /\ op.pc = "await" /\ op'.pc = "record" /\ op'.kind = op.kind /\ UNCHANGED history
        /\ op'.camDone = (op.camDone \/ op.cur = Cam)
    BY <1>0, <1>7 DEF OffConfirmed, At, Continues, OpType
  <2> QED  BY <1>0, <1>1, <2>1 DEF CamKept, CamAccount, CamWork, CamAwaited, Working, Resuming,
              CamDark, Turning, history
<1>8. CASE OffTimedOut
  <2>1. /\ op.pc = "await" /\ op'.pc = "record" /\ op'.kind = op.kind /\ op'.camDone = op.camDone
        /\ UNCHANGED <<held, raced>> /\ unseen' = unseen \cup {op.cur}
    BY <1>0, <1>8 DEF OffTimedOut, At, ReadbackTimesOut, Continues, OpType
  <2> QED  BY <1>0, <1>1, <2>1 DEF CamKept, CamAccount, CamWork, CamAwaited, Working, Resuming,
              CamDark, Turning
<1>9. CASE OffRecord
  <2>1. /\ op.pc = "record" /\ op'.pc = "step" /\ op'.kind = op.kind /\ op'.camDone = op.camDone
        /\ UNCHANGED history
    BY <1>0, <1>9 DEF OffRecord, At, Continues, OpType
  <2> QED  BY <1>0, <1>1, <2>1 DEF CamKept, CamAccount, CamWork, CamAwaited, Working, Resuming,
              CamDark, Turning, history
<1>10. CASE PauseFinish
  <2>1. /\ op.pc = "step" /\ op' = Idle /\ UNCHANGED history
        /\ rec'.phase \in {"paused", "partial"} /\ rec'.camToggled = op.camDone
    BY <1>0, <1>10 DEF PauseFinish, At, Saves, Returns, RecordType
  <2>2. ~Working' /\ ~Resuming'
    BY <2>1 DEF Working, Resuming, Idle, Turning
  <2>3. raced \/ (CamDark => op.camDone)
    BY <1>0, <2>1 DEF CamKept, CamAccount, CamWork, CamAwaited
  <2> QED  BY <2>1, <2>2, <2>3 DEF CamKept, CamAccount, CamWork, CamStored, CamRestored,
              CamDark, history
<1> QED  BY <1>3, <1>4, <1>5, <1>6, <1>7, <1>8, <1>9, <1>10 DEF PauseStep

\* A resume keeps the record of the camera, and calls only a camera in the record.
LEMMA ResumeKeepsCam ==
    ASSUME TypeOK, Related, ResumeStep
    PROVE  /\ rec'.camToggled = rec.camToggled
           /\ Cam \in unseen => Cam \in unseen' \/ rec.camToggled
<1> USE TargetsAssumption
<1>0. op \in OpType /\ rec \in RecordType
  BY DEF TypeOK
<1>1. CASE ResumeReturnsEarly \/ ResumeBegin \/ Preflight \/ OnConfirmed \/ OnTimedOut
             \/ OnRecord \/ ToBaseline
  BY <1>0, <1>1 DEF ResumeReturnsEarly, ResumeBegin, Preflight, OnConfirmed, OnTimedOut,
     OnRecord, ToBaseline, Saves, SaveFails, RecordType, ReadbackTimesOut, history
<1>2. CASE BaselineReadback \/ ResumeDecide \/ MarkActive \/ RepauseDone \/ HoldFailSafe
             \/ PersistError
  BY <1>0, <1>2 DEF BaselineReadback, ResumeDecide, MarkActive, RepauseDone, HoldFailSafe,
       PersistError, Saves, SaveFails, RecordType, ReadbackTimesOut, history
<1>3. ASSUME NEW t \in Targets, OnFound(t) \/ OnCall(t) \/ BaselineFound(t) \/ BaselineCall(t)
      PROVE  /\ rec' = rec
             /\ Cam \in unseen => Cam \in unseen' \/ rec.camToggled
  <2>1. OnCall(t) /\ t = Cam => rec.camToggled
    BY <1>0 DEF OnCall, NextOn, At, Related, ResumeWork, OpType, ResumeCopies, RecordType
  <2> QED  BY <1>3, <2>1 DEF OnFound, OnCall, BaselineFound, BaselineCall, CallReturns, CallRaises, Delivered,
              Swallowed, history
<1>4. ASSUME NEW t \in Targets, Repause(t)
      PROVE  /\ rec' = rec
             /\ Cam \in unseen => Cam \in unseen' \/ rec.camToggled
  <2>1. t = Cam => rec.camToggled
    BY <1>0, <1>4 DEF Repause, NextOff, At, Related, ResumeWork, OpType, ResumeCopies, RecordType
  <2> QED  BY <1>4, <2>1 DEF Repause, Delivered
<1> QED  BY <1>1, <1>2, <1>3, <1>4 DEF ResumeStep

\* A resume that ends well has seen the camera come on.
LEMMA CamRestoredResume ==
    ASSUME TypeOK, Related, HeldOff, CamStored, CamRestored, ResumeStep, ~SaveFails,
           rec.phase # "pausing"
    PROVE  CamRestored'
<1> USE TargetsAssumption
<1>0. /\ op \in OpType /\ rec \in RecordType /\ held' = held /\ op.kind = "resume" /\ AwaitsTarget
      /\ Cam \in Targets /\ Resuming <=> op.pc # "reserve"
      /\ ~Working
  BY ResumeShape DEF TypeOK, Related, Resuming, Targets, Working, Turning
<1>1. ASSUME op' = Idle \/ op'.pc \in {"restore", "hold", "persist"} PROVE CamRestored'
  BY <1>1 DEF CamRestored, Resuming, Idle
<1>2. /\ Failing(op).pc = "restore" /\ Restoring(op).pc = "restore"
      /\ Failing(op) \in OpType /\ Restoring(op) \in OpType
  BY <1>0, RestoringFields, RestoringType
<1>3. \A t \in Targets : IsOn(t) => t \notin held
  BY ReportedOn DEF HeldOff
<1>4. CASE ResumeReturnsEarly
  BY <1>1, <1>4 DEF ResumeReturnsEarly, Returns
<1>5. CASE ResumeBegin
  <2>1. CASE op' = Idle
    BY <1>1, <2>1
  <2>2. CASE op' # Idle
    <3>1. op'.pc = "preflight" /\ op'.cam = rec.camToggled /\ unseen' = unseen
      BY <1>0, <1>5, <2>2 DEF ResumeBegin, Returns, Raises, Continues, OpType, history
    <3>2. CamDark => rec.camToggled
      BY <1>0, <1>5 DEF ResumeBegin, At, Active, CamStored, Settled, RecordType, Phases
    <3> QED  BY <1>0, <3>1, <3>2 DEF CamRestored, CamDark
  <2> QED  BY <2>1, <2>2
<1>6. CASE Preflight
  <2>1. /\ op'.pc \in {"hold", "step"} /\ op'.cam = op.cam /\ unseen' = unseen
        /\ op.pc = "preflight"
    BY <1>0, <1>6 DEF Preflight, At, Continues, OpType, history
  <2> QED  BY <1>0, <2>1 DEF CamRestored, CamDark
<1>7. ASSUME NEW t \in Targets, OnFound(t) PROVE CamRestored'
  <2>1. op.pc = "step" /\ unseen' = unseen
    BY <1>7 DEF OnFound, At, history
  <2>2. CASE IsOn(t) /\ op' = Reenabled(t)
    <3>1. op'.pc = "step" /\ op'.bad = op.bad /\ (op.cam => op'.cam \/ t = Cam)
      BY <1>0, <2>1, <2>2, WithoutType DEF Reenabled, Without, OpType
    <3>2. t \notin held
      BY <1>3, <2>2
    <3> QED  BY <1>0, <2>1, <3>1, <3>2 DEF CamRestored, CamAwaited, CamDark
  <2>3. CASE op' = Failing(op)
    BY <1>1, <1>2, <2>3
  <2> QED  BY <1>7, <2>2, <2>3 DEF OnFound, Continues
<1>8. ASSUME NEW t \in Targets, OnCall(t) PROVE CamRestored'
  <2>1. op.pc = "step" /\ unseen \subseteq unseen' \cup {t}
    BY <1>8 DEF OnCall, At, CallReturns, CallRaises, Delivered, Swallowed
  <2>2. CASE op' = [Without(t) EXCEPT !.pc = "await", !.cur = t]
    <3>1. op'.pc = "await" /\ op'.bad = op.bad /\ op'.cur = t /\ (op.cam => op'.cam \/ t = Cam)
      BY <1>0, <2>2, WithoutType DEF Without, OpType
    <3> QED  BY <1>0, <2>1, <3>1 DEF CamRestored, CamAwaited, CamDark
  <2>3. CASE op' = Failing(op)
    BY <1>1, <1>2, <2>3
  <2> QED  BY <1>8, <2>2, <2>3 DEF OnCall, Continues
<1>9. CASE OnConfirmed
  <2>1. op.pc = "await" /\ op.cur \in Targets /\ op.cur \notin held /\ unseen' = unseen
    BY <1>0, <1>3, <1>9 DEF OnConfirmed, At, AwaitsTarget, history
  <2>2. op'.pc = "record" /\ op'.bad = op.bad /\ (op.cam => op'.cam \/ op.cur = Cam)
    <3>1. Reenabled(op.cur) \in OpType /\ op' = [Reenabled(op.cur) EXCEPT !.pc = "record"]
      BY <1>0, <1>9, <2>1, ReenabledType DEF OnConfirmed, Continues
    <3>2. /\ op.cam => Reenabled(op.cur).cam \/ op.cur = Cam
          /\ Reenabled(op.cur).bad = op.bad
      BY <1>0 DEF Reenabled, Without, OpType
    <3> QED  BY <3>1, <3>2 DEF OpType
  <2> QED  BY <1>0, <2>1, <2>2 DEF CamRestored, CamAwaited, CamDark
<1>10. CASE OnTimedOut
  <2>1. op'.pc = "step" /\ op'.bad
    BY <1>0, <1>10 DEF OnTimedOut, Continues, OpType
  <2> QED  BY <2>1 DEF CamRestored
<1>11. CASE OnRecord
  <2>1. op.pc = "record" /\ unseen' = unseen /\ op'.pc = "step" /\ op'.cam = op.cam /\ op'.bad = op.bad
    BY <1>0, <1>11 DEF OnRecord, At, Continues, OpType, history
  <2> QED  BY <1>0, <2>1 DEF CamRestored, CamAwaited, CamDark
<1>12. CASE ToBaseline
  <2>1. op.pc = "step" /\ NextOn = {} /\ unseen' = unseen /\ op'.pc = "baseline" /\ op'.bad = op.bad
    BY <1>0, <1>12 DEF ToBaseline, At, Continues, OpType, history
  <2>2. ~op.cam
    BY <2>1 DEF NextOn
  <2> QED  BY <1>0, <2>1, <2>2 DEF CamRestored, CamAwaited, CamDark
<1>13. ASSUME NEW t \in Targets, BaselineFound(t) PROVE CamRestored'
  <2>1. op.pc = "baseline" /\ unseen' = unseen /\ op'.pc = "baseline" /\ (op.bad => op'.bad)
    <3>1. Without(t) \in OpType /\ Without(t).pc = op.pc
      BY <1>0, WithoutType, WithoutFields
    <3>2. Without(t).bad = op.bad
      BY <1>0 DEF Without, OpType
    <3> QED  BY <1>13, <3>1, <3>2 DEF BaselineFound, At, Continues, OpType, history
  <2> QED  BY <1>0, <2>1 DEF CamRestored, CamDark
<1>14. ASSUME NEW t \in Targets, BaselineCall(t) PROVE CamRestored'
  <2>1. op.pc = "baseline" /\ unseen' = unseen
    BY <1>14 DEF BaselineCall, At, CallReturns, CallRaises, Delivered, Swallowed
  <2>2. CASE op' = [Without(t) EXCEPT !.pc = "awaitbase", !.cur = t]
    <3>1. op'.pc = "awaitbase" /\ op'.bad = op.bad
      BY <1>0, <2>2, WithoutType DEF Without, OpType
    <3> QED  BY <1>0, <2>1, <3>1 DEF CamRestored, CamDark
  <2>3. CASE op' = Failing(op)
    BY <1>1, <1>2, <2>3
  <2> QED  BY <1>14, <2>2, <2>3 DEF BaselineCall, Continues
<1>15. CASE BaselineReadback
  <2>1. op.pc = "awaitbase" /\ unseen \subseteq unseen' /\ op'.pc = "baseline" /\ (op.bad => op'.bad)
    BY <1>0, <1>15 DEF BaselineReadback, At, ReadbackTimesOut, Continues, OpType
  <2> QED  BY <1>0, <2>1 DEF CamRestored, CamDark
<1>16. CASE ResumeDecide
  <2>1. op.pc = "baseline" /\ unseen' = unseen
    BY <1>16 DEF ResumeDecide, At, history
  <2>2. CASE op.bad
    BY <1>1, <1>2, <1>16, <2>2 DEF ResumeDecide, Continues
  <2>3. CASE ~op.bad
    BY <1>0, <2>1, <2>3 DEF CamRestored, CamDark
  <2> QED  BY <2>2, <2>3
<1>17. CASE MarkActive \/ PersistError
  BY <1>1, <1>17 DEF MarkActive, PersistError, Returns
<1>18. ASSUME NEW t \in Targets, Repause(t) PROVE CamRestored'
  <2>1. op'.pc = "restore"
    BY <1>0, <1>18, WithoutFields DEF Repause, At, Continues
  <2> QED  BY <1>1, <2>1
<1>19. CASE RepauseDone \/ HoldFailSafe
  <2>1. op' = Idle \/ op'.pc \in {"hold", "persist"}
    BY <1>0, <1>19 DEF RepauseDone, HoldFailSafe, Returns, Continues, OpType
  <2> QED  BY <1>1, <2>1
<1> QED  BY <1>4, <1>5, <1>6, <1>7, <1>8, <1>9, <1>10, <1>11, <1>12, <1>13, <1>14, <1>15, <1>16,
            <1>17, <1>18, <1>19 DEF ResumeStep

LEMMA CamResume ==
    ASSUME TypeOK, Related, EInv, CamKept, ResumeStep, ~SaveFails
    PROVE  CamKept'
<1>0. /\ op.kind = "resume" /\ ~Working /\ ~Working' /\ UNCHANGED <<held, raced>>
  BY ResumeShape DEF Working, Turning, Idle
<1>1. rec.phase # "pausing" /\ rec'.phase # "pausing"
  BY <1>0, ResumeShape DEF CamKept
<1> SUFFICES ASSUME ~raced PROVE CamStored' /\ CamRestored'
  BY <1>0, <1>1 DEF CamKept, CamAccount, CamWork
<1>2. CamRestored'
  BY <1>1, CamRestoredResume DEF EInv, CamKept, CamAccount
<1>3. CamStored'
  <2>1. CASE op.pc = "reserve" /\ op' = Idle /\ UNCHANGED <<rec, unseen>>
    BY <1>0, <2>1 DEF CamKept, CamAccount, CamStored, Resuming, CamDark, Idle
  <2>2. CASE Resuming \/ Active
    <3>1. CamDark => rec.camToggled
      BY <1>0, <1>1, <2>2 DEF CamKept, CamAccount, CamStored, Settled, Active, TypeOK, RecordType, Phases
    <3> QED  BY <1>0, <3>1, ResumeKeepsCam DEF CamStored, CamDark
  <2>3. op.pc = "reserve" => ResumeReturnsEarly \/ Active
    BY DEF ResumeStep, ResumeBegin, Preflight, OnFound, OnCall, OnConfirmed, OnTimedOut, OnRecord,
       ToBaseline, BaselineFound, BaselineCall, BaselineReadback, ResumeDecide, MarkActive,
       Repause, RepauseDone, HoldFailSafe, PersistError, At
  <2>4. ResumeReturnsEarly => op.pc = "reserve" /\ op' = Idle /\ UNCHANGED <<rec, unseen>>
    BY DEF ResumeReturnsEarly, At, Returns, history
  <2> QED  BY <1>0, <2>1, <2>2, <2>3, <2>4 DEF Resuming
<1> QED  BY <1>2, <1>3

\* A step that is no handler's keeps what the record says of the camera.
LEMMA CamCarried ==
    ASSUME CamKept, op' = op \/ (op.kind = "none" /\ op'.pc = "reserve"),
           raced => raced', CamDark' => CamDark,
           rec.camToggled => rec'.camToggled,
           rec'.phase = "pausing" => rec.phase = "pausing",
           rec'.phase \in Settled => rec.phase \in Settled \/ (rec.phase = "pausing" /\ op' = op)
    PROVE  CamKept'
<1>1. CASE op' = op
  <2>1. Working' = Working /\ Resuming' = Resuming /\ CamAwaited' = CamAwaited
    BY <1>1 DEF Working, Resuming, CamAwaited
  <2> QED  BY <1>1, <2>1 DEF CamKept, CamAccount, CamWork, CamStored, CamRestored
<1>2. CASE op.kind = "none" /\ op'.pc = "reserve"
  <2>1. ~Working /\ ~Working' /\ ~Resuming'
    BY <1>2 DEF Working, Resuming, Turning
  <2> QED  BY <2>1 DEF CamKept, CamAccount, CamWork, CamStored, CamRestored
<1> QED  BY <1>1, <1>2

LEMMA CamTick ==
    ASSUME TypeOK, CamKept, TickLocks \/ TickRecovers \/ TickGoesOn
    PROVE  CamKept'
<1>0. rec \in RecordType
  BY DEF TypeOK
<1>1. CamDark' => CamDark
  BY TickShape DEF CamDark
<1>2. op' = op \/ (op.kind = "none" /\ op'.pc = "reserve" /\ rec' = rec /\ raced' = raced)
  BY TickShape
<1>3. CASE TickLocks \/ TickWaits \/ TickRecoversResume \/ TickNothingToRecover
  <2>1. rec' = rec /\ raced' = raced
    BY <1>3 DEF TickLocks, SchedulePause, AutoResume, RecoverResume, RecoverReplayed, PauseLock,
       ResumeLock, TickWaits, TickRecoversResume, TickNothingToRecover, history
  <2> QED  BY <1>1, <1>2, <2>1, CamCarried
<1>4. CASE TickFinalizes \/ TickRecoversPause
  <2>0. op' = op /\ (raced => raced')
    <3>1. op' = op
      BY <1>4 DEF TickFinalizes, TickRecoversPause
    <3>2. raced' = raced \/ raced' = (raced \/ op.kind \in Turning)
      BY <1>4 DEF TickFinalizes, TickRecoversPause
    <3>3. raced \in BOOLEAN
      BY DEF TypeOK
    <3> QED  BY <3>1, <3>2, <3>3
  <2>1. /\ rec' = rec \/ rec'.phase \in {"error", "partial"}
        /\ rec' = rec \/ rec.phase \in {"pausing", "resuming"}
    BY <1>0, <1>4 DEF TickFinalizes, TickRecoversPause, Saves, SaveFails, RecordType, Pending, Interrupted
  <2>2. \A s, c : /\ [rec EXCEPT !.phase = "error", !.blocked = TRUE, !.switches = s,
                            !.camToggled = @ \/ c].camToggled = (rec.camToggled \/ c)
                  /\ [rec EXCEPT !.phase = "partial", !.switches = s,
                            !.camToggled = @ \/ c].camToggled = (rec.camToggled \/ c)
    BY <1>0 DEF RecordType
  <2>3. rec.camToggled => rec'.camToggled
    BY <1>4, <2>2 DEF TickFinalizes, TickRecoversPause, Saves, SaveFails
  <2> QED  BY <1>1, <2>0, <2>1, <2>3, CamCarried DEF Settled
<1>5. CASE TickGoesOn
  <2>1. /\ op' = op /\ raced' = raced /\ rec'.camToggled = rec.camToggled
        /\ rec'.phase \in {rec.phase, "active"}
    BY <1>0, <1>5 DEF TickGoesOn, TickEnds, TickPauses, TickReleases, TickUncovers, TickQuiet,
       TickOverrides, TickDone, Saves, SaveFails, RecordType, history
  <2> QED  BY <1>1, <2>1, CamCarried DEF Settled
<1> QED  BY <1>3, <1>4, <1>5 DEF TickRecovers

\* A camera that goes off late is off unseen, unless a handler reads its call back.
LEMMA CamLand ==
    ASSUME TypeOK, Related, Places, Verified, CamKept, NEW t \in Targets, Land(t)
    PROVE  CamKept'
<1> USE TargetsAssumption
<1>0. op \in OpType /\ rec \in RecordType
  BY DEF TypeOK
<1>1. UNCHANGED <<rec, op, raced>>
  BY DEF Land
<1>2. Working' = Working /\ Resuming' = Resuming /\ CamAwaited' = CamAwaited
  BY <1>1 DEF Working, Resuming, CamAwaited
<1> SUFFICES ASSUME ~raced PROVE CamAccount'
  BY <1>1, <1>2 DEF CamKept
<1>3. CamDark' => CamDark \/ CamAwaited
  <2>1. CASE t # Cam
    BY <2>1 DEF Land, CamDark
  <2>2. CASE t = Cam
    <3>1. Awaited(Cam) => CamAwaited \/ Cam \in unseen
      BY DEF Awaited, CamAwaited, Verified, Account, Baseline
    <3>2. unseen \subseteq unseen' /\ (CamDark' => CamDark \/ Awaited(Cam))
      BY <2>2 DEF Land, CamDark, TypeOK
    <3> QED  BY <3>1, <3>2 DEF CamDark
  <2> QED  BY <2>1, <2>2
<1>4. Resuming /\ CamAwaited => rec.camToggled
  BY <1>0 DEF Resuming, CamAwaited, Related, ResumeWork, ResumeCopies, RecordType
<1>5. CamAwaited /\ ~Working => Resuming
  BY <1>0 DEF CamAwaited, Places, Working, Resuming, Turning, OpType
<1>6. CamAwaited => op.pc = "await"
  BY DEF CamAwaited
<1> QED  BY <1>1, <1>2, <1>3, <1>4, <1>5, <1>6 DEF CamKept, CamAccount, CamWork, CamStored, CamRestored

LEMMA CamWorld ==
    ASSUME TypeOK, Related, Places, Verified, CamKept, ~Cancel, ~Crash,
           GraceEnds \/ (\E t \in Targets : Land(t)) \/ Environment
    PROVE  CamKept'
<1>0. rec \in RecordType
  BY DEF TypeOK
<1>1. CASE GraceEnds \/ WindowTurns \/ \E t \in Targets : Outage(t) \/ Return(t)
  <2>1. UNCHANGED <<rec, op, history>>
    BY <1>1 DEF GraceEnds, WindowTurns, Outage, Return
  <2> QED  BY <2>1, CamCarried DEF history, CamDark
<1>2. ASSUME NEW t \in Targets, External(t) PROVE CamKept'
  <2>1. UNCHANGED <<rec, op, raced>> /\ (CamDark' => CamDark)
    BY <1>2 DEF External, CamDark
  <2> QED  BY <2>1, CamCarried
<1>3. CASE AdminResume \/ \E s \in Scopes : AdminPause(s)
  <2>1. UNCHANGED <<rec, history>> /\ op.kind = "none" /\ op'.pc = "reserve"
    BY <1>3 DEF AdminResume, AdminPause, PauseLock, ResumeLock, LockFree, Idle
  <2> QED  BY <2>1, CamCarried DEF history, CamDark
<1>4. CASE Reload
  <2>1. /\ UNCHANGED <<op, history>> /\ rec'.camToggled = rec.camToggled
        /\ rec'.phase \in {rec.phase, "active"}
    BY <1>0, <1>4 DEF Reload, Loaded, RecordType
  <2> QED  BY <2>1, CamCarried DEF history, CamDark, Settled
<1> QED  BY <1>1, <1>2, <1>3, <1>4, CamLand DEF Environment

LEMMA InitiallyCInv == Init => CInv
<1> SUFFICES ASSUME Init PROVE CInv
  OBVIOUS
<1>1. /\ ~Working /\ ~Resuming /\ rec.phase = "none"
  BY DEF Init, Idle, NoRecord, Working, Resuming, Turning
<1> QED  BY <1>1 DEF CInv, CamKept, CamAccount, CamWork, CamStored, CamRestored, Settled

LEMMA StepKeepsCInv == IInv /\ EInv /\ VInv /\ CInv /\ [Next]_vars => CInv'
<1> SUFFICES ASSUME IInv, EInv, VInv, CInv, [Next]_vars, Calm' PROVE CamKept'
  BY DEF CInv
<1>1. TypeOK /\ Related /\ Places
  BY DEF IInv, EInv
<1>2. CamKept /\ ~SaveFails /\ ~Cancel /\ ~Crash
  BY <1>1, CalmBefore DEF CInv
<1>3. Verified
  BY <1>1, CalmBefore DEF Calm, VInv, Saved
<1>4. CASE PauseStep
  BY <1>1, <1>2, <1>4, CamPause
<1>5. CASE ResumeStep
  BY <1>1, <1>2, <1>5, CamResume
<1>6. CASE TickLocks \/ TickRecovers \/ TickGoesOn
  BY <1>1, <1>2, <1>6, CamTick
<1>7. CASE GraceEnds \/ (\E t \in Targets : Land(t)) \/ Environment
  BY <1>1, <1>2, <1>3, <1>7, CamWorld
<1>8. CASE UNCHANGED vars
  BY <1>2, <1>8, CamCarried DEF vars, CamDark
<1> QED  BY <1>4, <1>5, <1>6, <1>7, <1>8 DEF Next

\* While saves succeed and nothing is cancelled or restarted, a camera that a pause has
\* seen go off is known to the pause, then to the record, then to the resume that starts it.
THEOREM AlwaysCInv == Spec => []CInv
  BY InitiallyCInv, StepKeepsCInv, AlwaysIInv, AlwaysEInv, AlwaysVInv, PTL DEF Spec

\* A resume claims "active" only when nothing that the integration switched off is still
\* off, unless nobody saw it change or a tick rewrote the pause under its handler; while
\* saves succeed, and there is no restart or no outage for the switches, no restart and no
\* cancellation for the camera entity: for any switches and scopes, any number of lost and
\* failed calls, outages or restarts, cancellations and changes from outside.
THEOREM ActiveIsTrue == Spec => ActiveIsVerified
<1>1. ASSUME IInv, VInv, CInv, [Next]_vars, rec.phase # "active", rec'.phase = "active", ~rec'.overridden,
             used'["save"] = 0
      PROVE  /\ used'["crash"] = 0 \/ used'["outage"] = 0 =>
                  raced \/ held \cap Switches \subseteq unseen
             /\ used'["crash"] = 0 /\ used'["cancel"] = 0 =>
                  raced \/ Cam \notin held \/ Cam \in unseen
  <2>1. TypeOK
    BY <1>1 DEF IInv
  <2>2. Resuming /\ op.pc = "mark"
    BY <1>1, <2>1, ActiveStep DEF MarkActive, At, Resuming
  <2>3. ASSUME Saved' PROVE raced \/ held \cap Switches \subseteq unseen
    <3>1. Verified
      BY <1>1, <2>1, <2>3, SavedBefore DEF VInv
    <3> QED  BY <2>2, <3>1 DEF Verified, Account, Restored, Dark
  <2>4. ASSUME Calm' PROVE raced \/ Cam \notin held \/ Cam \in unseen
    <3>1. CamKept
      BY <1>1, <2>1, <2>4, CalmBefore DEF CInv
    <3> QED  BY <2>2, <3>1 DEF CamKept, CamAccount, CamRestored, CamDark
  <2> QED  BY <1>1, <2>3, <2>4 DEF Saved, Calm
<1>2. IInv /\ VInv /\ CInv /\ [Next]_vars =>
        [rec.phase # "active" /\ rec'.phase = "active" /\ ~rec'.overridden /\ used'["save"] = 0 =>
         /\ used'["crash"] = 0 \/ used'["outage"] = 0 =>
              raced \/ held \cap Switches \subseteq unseen
         /\ used'["crash"] = 0 /\ used'["cancel"] = 0 =>
              raced \/ Cam \notin held \/ Cam \in unseen]_vars
  BY <1>1
<1> QED  BY <1>2, AlwaysIInv, AlwaysVInv, AlwaysCInv, PTL DEF Spec, ActiveIsVerified

-----------------------------------------------------------------------------
(* A schedule's override stands.                                            *)

\* A tick that waits to pause has seen no override of a schedule's pause stand.
OInv ==
    /\ rec.phase = "none" => ~rec.overridden
    /\ tick = "pausewait" => ~(rec.src = "schedule" /\ rec.overridden)

\* Only a new plan changes who asked for a pause; only a new plan, or the end of the
\* window, forgets an override; and only a tick records one.
LEMMA OverrideKept ==
    ASSUME TypeOK, [Next]_vars
    PROVE  \/ PausePlan /\ ~rec'.overridden
           \/ TickOverrides
           \/ TickReleases /\ rec'.src = rec.src /\ rec'.phase = rec.phase
           \/ /\ rec'.src = rec.src /\ rec'.overridden = rec.overridden
              /\ rec'.phase = "none" => rec.phase = "none"
<1>0. rec \in RecordType
  BY DEF TypeOK
<1>1. CASE PauseStep
  <2>1. CASE PausePlan
    BY <1>0, <2>1 DEF PausePlan, Saves, SaveFails, RecordType, NoRecord
  <2>2. CASE ExtendPlan
    <3>1. rec' = rec \/ (rec'.src = rec.src /\ rec'.overridden = rec.overridden /\ rec'.phase = "pausing")
      BY <1>0, <2>2 DEF ExtendPlan, Saves, SaveFails, RecordType
    <3> QED  BY <3>1
  <2>3. CASE OffRecord \/ PauseFinish
    <3>1. rec'.src = rec.src /\ rec'.overridden = rec.overridden /\ (rec' = rec \/ rec'.phase # "none")
      BY <1>0, <2>3 DEF OffRecord, PauseFinish, Saves, SaveFails, RecordType
    <3> QED  BY <3>1
  <2>4. CASE PauseRefused \/ OffConfirmed \/ OffTimedOut \/ \E t \in Targets : OffCall(t)
    BY <2>4 DEF PauseRefused, OffCall, OffConfirmed, OffTimedOut
  <2> QED  BY <1>1, <2>1, <2>2, <2>3, <2>4 DEF PauseStep
<1>2. CASE ResumeStep
  <2>1. CASE ResumeReturnsEarly \/ Preflight \/ OnConfirmed \/ OnTimedOut \/ ToBaseline
    BY <2>1 DEF ResumeReturnsEarly, Preflight, OnConfirmed, OnTimedOut, ToBaseline
  <2>4. CASE ResumeBegin \/ OnRecord
    <3>1. rec'.src = rec.src /\ rec'.overridden = rec.overridden /\ (rec' = rec \/ rec'.phase # "none")
      BY <1>0, <2>4 DEF ResumeBegin, OnRecord, Saves, SaveFails, RecordType
    <3> QED  BY <3>1
  <2>2. CASE BaselineReadback \/ ResumeDecide \/ MarkActive \/ RepauseDone \/ HoldFailSafe
             \/ PersistError
    BY <1>0, <2>2, ZenonT(60) DEF BaselineReadback, ResumeDecide, MarkActive, RepauseDone, HoldFailSafe,
       PersistError, Saves, SaveFails, RecordType
  <2>3. CASE \E t \in Targets : \/ OnFound(t) \/ OnCall(t) \/ BaselineFound(t)
                                \/ BaselineCall(t) \/ Repause(t)
    BY <2>3 DEF OnFound, OnCall, BaselineFound, BaselineCall, Repause
  <2> QED  BY <1>2, <2>1, <2>2, <2>3, <2>4 DEF ResumeStep
<1>3. CASE TickFinalizes \/ TickRecoversPause
  BY <1>0, <1>3 DEF TickFinalizes, TickRecoversPause, Saves, SaveFails, RecordType
<1>4. CASE TickReleases \/ TickUncovers
  BY <1>0, <1>4 DEF TickReleases, TickUncovers, Saves, SaveFails, RecordType
<1>5. CASE TickLocks \/ TickWaits \/ TickRecoversResume \/ TickNothingToRecover
           \/ TickEnds \/ TickPauses \/ TickQuiet \/ TickDone
  BY <1>5 DEF TickLocks, SchedulePause, AutoResume, RecoverResume, RecoverReplayed, PauseLock,
     ResumeLock, TickWaits, TickRecoversResume, TickNothingToRecover, TickEnds, TickPauses,
     TickQuiet, TickDone
<1>6. CASE Reload \/ Crash
  BY <1>0, <1>6 DEF Reload, Crash, Loaded, RecordType
<1>7. CASE GraceEnds \/ (\E t \in Targets : Land(t)) \/ (Environment /\ ~Reload /\ ~Crash)
  BY <1>7 DEF GraceEnds, Land, Environment, AdminPause, AdminResume, PauseLock, ResumeLock,
     Cancel, External, Outage, Return, WindowTurns
<1>8. CASE UNCHANGED vars
  BY <1>8 DEF vars
<1> QED  BY <1>1, <1>2, <1>3, <1>4, <1>5, <1>6, <1>7, <1>8 DEF Next, TickRecovers, TickGoesOn

\* A tick waits to pause only after it has decided to.
LEMMA PauseDecided ==
    ASSUME TypeOK, [Next]_vars, tick' = "pausewait" PROVE tick = "pausewait" \/ TickPauses
<1>1. CASE PauseStep \/ ResumeStep
  <2>1. tick' = tick \/ tick' \in {"past", "late", "reload", "idle"}
    BY <1>1 DEF PauseStep, PauseRefused, PausePlan, ExtendPlan, OffCall, OffConfirmed,
       OffTimedOut, OffRecord, PauseFinish, ResumeStep, ResumeReturnsEarly, ResumeBegin, Preflight,
       OnFound, OnCall, OnConfirmed, OnTimedOut, OnRecord, ToBaseline, BaselineFound, BaselineCall,
       BaselineReadback, ResumeDecide, MarkActive, Repause, RepauseDone, HoldFailSafe, PersistError,
       Returns, Raises, Continues
  <2> QED  BY <2>1
<1>2. CASE TickLocks \/ TickRecovers
  BY <1>2 DEF TickLocks, TickRecovers, SchedulePause, AutoResume, RecoverResume, RecoverReplayed,
     PauseLock, ResumeLock, TickWaits, TickFinalizes, TickRecoversPause, TickRecoversResume,
     TickNothingToRecover
<1>3. CASE TickGoesOn
  BY <1>3 DEF TickGoesOn, TickEnds, TickPauses, TickReleases, TickUncovers, TickQuiet,
     TickOverrides, TickDone
<1>4. CASE GraceEnds \/ (\E t \in Targets : Land(t)) \/ Environment
  BY <1>4 DEF GraceEnds, Land, Environment, AdminPause, AdminResume, PauseLock, ResumeLock,
     Cancel, Continues, Reload, External, Outage, Return, WindowTurns, Crash
<1>5. CASE UNCHANGED vars
  BY <1>5 DEF vars
<1> QED  BY <1>1, <1>2, <1>3, <1>4, <1>5 DEF Next

LEMMA StepKeepsOInv == TypeOK /\ OInv /\ [Next]_vars => OInv'
<1> SUFFICES ASSUME TypeOK, OInv, [Next]_vars, rec'.overridden PROVE OInv'
  BY DEF OInv
<1>1. CASE TickOverrides
  <2>1. /\ tick' = "idle"
        /\ rec' = rec \/ rec'.phase = "active"
    BY <1>1 DEF TickOverrides, Saves, SaveFails, TypeOK, RecordType
  <2> QED  BY <2>1 DEF OInv
<1>2. CASE ~TickOverrides
  <2>0. TickReleases => tick' # "pausewait" /\ rec.phase = "active"
    BY DEF TickReleases, Suppressed
  <2>1. CASE TickReleases /\ rec'.src = rec.src /\ rec'.phase = rec.phase
    BY <2>0, <2>1 DEF OInv
  <2>2. CASE /\ rec'.src = rec.src /\ rec'.overridden = rec.overridden
             /\ rec'.phase = "none" => rec.phase = "none"
    <3>1. TickPauses => ~(rec.src = "schedule" /\ rec.overridden)
      BY <2>2 DEF OInv, TickPauses, WantsPause, Active, Suppressed
    <3> QED  BY <2>2, <3>1, PauseDecided DEF OInv
  <2>3. PausePlan /\ ~rec'.overridden => OInv'
    BY DEF OInv
  <2> QED  BY <1>2, <2>1, <2>2, <2>3, OverrideKept
<1> QED  BY <1>1, <1>2

THEOREM AlwaysOInv == Spec => []OInv
<1>1. Init => OInv
  BY DEF Init, OInv, NoRecord
<1> QED  BY <1>1, StepKeepsOInv, TypeCorrect, PTL DEF Spec

\* A schedule's pause that was overridden is not paused anew while the override stands, for
\* any switches and scopes, and any number of faults of every kind.
THEOREM ScheduledOverridesStand == Spec => ScheduledOverrideStands
<1>1. ASSUME TypeOK, ScheduleWaits, OInv, [Next]_vars, rec.overridden, rec.src = "schedule",
             op.who = "schedule", rec'.phase = "pausing", ~rec'.overridden
      PROVE  FALSE
  <2>1. PausePlan
    <3>1. TickOverrides => rec'.overridden \/ rec' = rec
      BY <1>1 DEF TickOverrides, Saves, SaveFails, TypeOK, RecordType
    <3>2. TickReleases => rec.phase = "active"
      BY DEF TickReleases, Suppressed
    <3> QED  BY <1>1, <3>1, <3>2, OverrideKept
  <2> QED  BY <1>1, <2>1 DEF PausePlan, At, ScheduleWaits, OInv, Turning
<1>2. TypeOK /\ VInv /\ OInv /\ [Next]_vars =>
        [rec.overridden /\ rec.src = "schedule" =>
         ~(op.who = "schedule" /\ rec'.phase = "pausing" /\ ~rec'.overridden)]_vars
  BY <1>1 DEF VInv
<1> QED  BY <1>2, TypeCorrect, AlwaysVInv, AlwaysOInv, PTL DEF Spec, ScheduledOverrideStands

-----------------------------------------------------------------------------
(* A failed resume repauses.                                                *)

\* The targets that a resume works on, and those that it still has to turn off.
Ours == op.exp \cup (IF rec.camToggled THEN {Cam} ELSE {})
Coming == op.todo \cup (IF op.cam THEN {Cam} ELSE {})

\* Where each of them stands: off as it was found, left as it was found, turned or found
\* on and counted, called and awaited, to be turned off, or about to go off.
Accounted(t) ==
    \/ OffOrUnseen(t) \/ t \in op.lit \ Relit
    \/ op.pc \in Trying \cup {"mark"} /\ t \in Relit
    \/ op.pc = "await" /\ op.cur = t
    \/ op.pc = "restore" /\ t \in Coming
    \/ op.pc \in {"restore", "hold", "persist"} /\ lag[t] = "off"

RInv ==
    Resuming =>
        /\ \A t \in Ours : Accounted(t)
        /\ op.pc = "awaitbase" => op.cur \in op.pre

\* What the updates of a resume do to what it counts.
LEMMA ReenabledCounts ==
    ASSUME op \in OpType, NEW t \in Targets
    PROVE  LET o == Reenabled(t)
           IN  /\ o.lit = op.lit /\ o.done = op.done \cup ({t} \ {Cam})
               /\ (o.camDone <=> op.camDone \/ t = Cam)
<1>1. /\ Without(t) \in OpType /\ Without(t).done = op.done
      /\ Without(t).camDone = op.camDone
  BY WithoutType, WithoutFields
<1>2. Without(t).lit = op.lit
  BY DEF Without, OpType
<1> QED  BY <1>1, <1>2 DEF Reenabled, OpType

LEMMA LitStays ==
    ASSUME op \in OpType, NEW t
    PROVE  Without(t).lit = op.lit /\ Restoring(op).lit = op.lit /\ Failing(op).lit = op.lit
<1>1. \A q \in OpType : Restoring(q).lit = q.lit
  BY DEF Restoring, OpType
<1>2. [op EXCEPT !.bad = TRUE] \in OpType /\ [op EXCEPT !.bad = TRUE].lit = op.lit
  BY DEF OpType
<1> QED  BY <1>1, <1>2 DEF Without, Failing, OpType

\* A resume that fails has everything it counts before it again.
LEMMA FailingAccounts ==
    ASSUME TypeOK, RInv, op.kind = "resume", op.pc \in Trying \cup {"mark"}, op.pc # "await",
           op' \in {Restoring(op), Failing(op)}, rec'.camToggled = rec.camToggled,
           \A u \in Targets : OffOrUnseen(u) => OffOrUnseen(u)'
    PROVE  RInv'
<1>1. /\ op'.pc = "restore" /\ op'.todo = op.done \cup op.pre /\ op'.done = op.done
      /\ op'.cam = op.camDone /\ op'.camDone = op.camDone /\ op'.exp = op.exp
      /\ op'.lit = op.lit
  BY RestoringFields, LitStays DEF TypeOK
<1>2. Ours' = Ours /\ Relit' = Relit /\ Relit \subseteq Coming' /\ Ours \subseteq Targets
  BY <1>1 DEF Ours, Relit, Coming, TypeOK, OpType, Targets
<1>3. \A t \in Ours : Accounted(t)
  BY DEF RInv, Resuming, Trying
<1>4. \A t \in Ours : Accounted(t)'
  BY <1>1, <1>2, <1>3 DEF Accounted, Trying
<1> QED  BY <1>1, <1>2, <1>4 DEF RInv

\* A step of a resume that only reads, or moves on within its work.
LEMMA GoesOnAccounts ==
    ASSUME TypeOK, RInv, op.kind = "resume", op.pc # "reserve", rec'.camToggled = rec.camToggled,
           op'.exp = op.exp, op'.lit = op.lit, Relit \subseteq Relit',
           Relit' \subseteq Relit \/ op'.pc \in Trying,
           \A u \in Targets : OffOrUnseen(u) => OffOrUnseen(u)',
           op'.pc \in Trying \cup {"mark"} \/ op.pc = "preflight",
           op.pc \in Trying \cup {"mark", "preflight"},
           op.pc = "await" => \A u : u = op.cur => OffOrUnseen(u)' \/ u \in Relit',
           op'.pc = "awaitbase" => op'.cur \in op'.pre
    PROVE  RInv'
<1>1. Ours' = Ours /\ Ours \subseteq Targets
  BY DEF Ours, TypeOK, OpType, Targets
<1>2. \A t \in Ours : Accounted(t)
  BY DEF RInv, Resuming
<1>3. \A t \in Ours : Accounted(t)'
  BY <1>1, <1>2 DEF Accounted, Trying
<1> QED  BY <1>1, <1>3 DEF RInv

LEMMA NotResuming == ASSUME ~Resuming' PROVE RInv'
BY DEF RInv

LEMMA AccountResume ==
    ASSUME TypeOK, Related, RInv, ResumeStep
    PROVE  RInv'
<1> USE TargetsAssumption
<1>0. /\ op \in OpType /\ rec \in RecordType /\ real \in [Targets -> {"on", "off"}]
      /\ op.kind = "resume" /\ AwaitsTarget /\ UNCHANGED real /\ Ours \subseteq Targets
  BY ResumeShape DEF TypeOK, Related, Ours, OpType, Targets
<1>1. ASSUME op' = Idle PROVE RInv'
  BY <1>1, NotResuming DEF Idle, Resuming
<1>2. ASSUME UNCHANGED unseen PROVE \A u \in Targets : OffOrUnseen(u) => OffOrUnseen(u)'
  BY <1>0, <1>2 DEF OffOrUnseen
<1>3. CASE ResumeReturnsEarly
  BY <1>1, <1>3 DEF ResumeReturnsEarly, Returns
<1>4. CASE ResumeBegin
  <2>1. CASE op' = Idle
    BY <1>1, <2>1
  <2>2. CASE op' # Idle
    <3> DEFINE lit == {t \in Expected : real[t] = "on"}
    <3>1. /\ op'.pc = "preflight" /\ op'.exp = rec.switches /\ op'.lit = lit
          /\ op'.done = op.done /\ op'.camDone = op.camDone
          /\ rec'.camToggled = rec.camToggled
      BY <1>0, <1>4, <2>2 DEF ResumeBegin, Returns, Raises, Continues, Saves, OpType, RecordType
    <3>2. op.done = {} /\ ~op.camDone
      BY <1>4 DEF ResumeBegin, At, Related, Fresh
    <3>3. Ours' = Expected /\ Relit' = {} /\ Expected \subseteq Targets
      BY <1>0, <3>1, <3>2 DEF Ours, Expected, Relit, RecordType, Targets
    <3>4. \A t \in Ours' : Accounted(t)'
      BY <1>0, <3>1, <3>3 DEF Accounted, OffOrUnseen
    <3> QED  BY <3>1, <3>4 DEF RInv
  <2> QED  BY <2>1, <2>2
<1>5. CASE Preflight
  <2>1. /\ op'.pc \in {"hold", "step"} /\ op.pc = "preflight" /\ op'.exp = op.exp
        /\ op'.lit = op.lit /\ op'.done = op.done /\ op'.camDone = op.camDone
        /\ UNCHANGED <<rec, unseen>>
    BY <1>0, <1>5 DEF Preflight, At, Continues, OpType, history
  <2>2. Relit' = Relit
    BY <2>1 DEF Relit
  <2> QED  BY <1>0, <1>2, <2>1, <2>2, GoesOnAccounts
<1>6. ASSUME NEW t \in Targets, OnFound(t) PROVE RInv'
  <2>1. op.pc = "step" /\ UNCHANGED <<rec, unseen>>
    BY <1>6 DEF OnFound, At, history
  <2>2. CASE op' = Reenabled(t)
    <3>1. /\ op'.pc = "step" /\ op'.exp = op.exp /\ op'.lit = op.lit
          /\ op'.done = op.done \cup ({t} \ {Cam}) /\ (op'.camDone <=> op.camDone \/ t = Cam)
      BY <1>0, <2>1, <2>2, ReenabledFields, ReenabledCounts
    <3>2. Relit \subseteq Relit'
      BY <3>1 DEF Relit
    <3> QED  BY <1>0, <1>2, <2>1, <3>1, <3>2, GoesOnAccounts DEF Trying
  <2>3. CASE op' = Failing(op)
    BY <1>0, <1>2, <2>1, <2>3, FailingAccounts DEF Trying
  <2> QED  BY <1>6, <2>2, <2>3 DEF OnFound, Continues
<1>7. ASSUME NEW t \in Targets, OnCall(t) PROVE RInv'
  <2>1. op.pc = "step" /\ UNCHANGED rec
    BY <1>7 DEF OnCall, At
  <2>2. \A u \in Targets : OffOrUnseen(u) => OffOrUnseen(u)'
    BY <1>0, <1>7 DEF OnCall, CallReturns, CallRaises, Delivered, Swallowed, OffOrUnseen
  <2>3. CASE op' = [Without(t) EXCEPT !.pc = "await", !.cur = t]
    <3>1. /\ op'.pc = "await" /\ op'.exp = op.exp /\ op'.lit = op.lit
          /\ op'.done = op.done /\ op'.camDone = op.camDone
      BY <1>0, <2>3, WithoutType, WithoutFields, LitStays DEF OpType
    <3>2. Relit' = Relit
      BY <3>1 DEF Relit
    <3> QED  BY <1>0, <2>1, <2>2, <3>1, <3>2, GoesOnAccounts DEF Trying
  <2>4. CASE op' = Failing(op)
    BY <1>0, <2>1, <2>2, <2>4, FailingAccounts DEF Trying
  <2> QED  BY <1>7, <2>3, <2>4 DEF OnCall, Continues
<1>8. CASE OnConfirmed
  <2>1. op.pc = "await" /\ op.cur \in Targets /\ UNCHANGED <<rec, unseen>>
    BY <1>0, <1>8 DEF OnConfirmed, At, AwaitsTarget, history
  <2>2. op' = [Reenabled(op.cur) EXCEPT !.pc = "record"] /\ Reenabled(op.cur) \in OpType
    BY <1>0, <1>8, <2>1, ReenabledType DEF OnConfirmed, Continues
  <2>3. /\ op'.pc = "record" /\ op'.exp = op.exp /\ op'.lit = op.lit
        /\ op'.done = op.done \cup ({op.cur} \ {Cam})
        /\ (op'.camDone <=> op.camDone \/ op.cur = Cam)
    <3>1. /\ Reenabled(op.cur).exp = op.exp /\ Reenabled(op.cur).lit = op.lit
          /\ Reenabled(op.cur).done = op.done \cup ({op.cur} \ {Cam})
          /\ (Reenabled(op.cur).camDone <=> op.camDone \/ op.cur = Cam)
      BY <1>0, <2>1, ReenabledFields, ReenabledCounts
    <3> QED  BY <2>2, <3>1 DEF OpType
  <2>4. Relit \subseteq Relit' /\ op.cur \in Relit'
    BY <2>3 DEF Relit
  <2> QED  BY <1>0, <1>2, <2>1, <2>3, <2>4, GoesOnAccounts DEF Trying
<1>9. CASE OnTimedOut
  <2>1. /\ op.pc = "await" /\ UNCHANGED rec /\ unseen' = unseen \cup {op.cur}
        /\ op'.pc = "step" /\ op'.exp = op.exp /\ op'.lit = op.lit
        /\ op'.done = op.done /\ op'.camDone = op.camDone
    BY <1>0, <1>9 DEF OnTimedOut, At, ReadbackTimesOut, Continues, OpType
  <2>2. Relit' = Relit /\ \A u : u = op.cur => OffOrUnseen(u)'
    BY <2>1 DEF Relit, OffOrUnseen
  <2>3. \A u \in Targets : OffOrUnseen(u) => OffOrUnseen(u)'
    BY <1>0, <2>1 DEF OffOrUnseen
  <2> QED  BY <1>0, <2>1, <2>2, <2>3, GoesOnAccounts DEF Trying
<1>10. CASE OnRecord
  <2>1. op.pc = "record" /\ UNCHANGED unseen
    BY <1>10 DEF OnRecord, At, history
  <2>2. CASE SaveFails /\ Continues(Failing(op))
    BY <1>0, <1>2, <2>1, <2>2, FailingAccounts DEF SaveFails, Continues, Trying
  <2>3. CASE ~(SaveFails /\ Continues(Failing(op)))
    <3>1. /\ rec'.camToggled = rec.camToggled /\ op'.pc = "step" /\ op'.exp = op.exp
          /\ op'.lit = op.lit /\ op'.done = op.done /\ op'.camDone = op.camDone
      BY <1>0, <1>10, <2>3 DEF OnRecord, Saves, Continues, OpType, RecordType
    <3>2. Relit' = Relit
      BY <3>1 DEF Relit
    <3> QED  BY <1>0, <1>2, <2>1, <3>1, <3>2, GoesOnAccounts DEF Trying
  <2> QED  BY <2>2, <2>3
<1>11. CASE ToBaseline
  <2>1. /\ op.pc = "step" /\ UNCHANGED <<rec, unseen>> /\ op'.pc = "baseline"
        /\ op'.exp = op.exp /\ op'.lit = op.lit /\ op'.done = op.done /\ op'.camDone = op.camDone
    BY <1>0, <1>11 DEF ToBaseline, At, Continues, OpType, history
  <2>2. Relit' = Relit
    BY <2>1 DEF Relit
  <2> QED  BY <1>0, <1>2, <2>1, <2>2, GoesOnAccounts DEF Trying
<1>12. ASSUME NEW t \in Targets, BaselineFound(t) PROVE RInv'
  <2>1. /\ op.pc = "baseline" /\ UNCHANGED <<rec, unseen>> /\ op'.pc = "baseline"
        /\ op'.exp = op.exp /\ op'.lit = op.lit /\ op'.done = op.done /\ op'.camDone = op.camDone
    <3>1. Without(t) \in OpType /\ Without(t).pc = op.pc
      BY <1>0, WithoutType, WithoutFields
    <3> QED  BY <1>0, <1>12, <3>1, WithoutFields, LitStays DEF BaselineFound, At, Continues,
                OpType, history
  <2>2. Relit' = Relit
    BY <2>1 DEF Relit
  <2> QED  BY <1>0, <1>2, <2>1, <2>2, GoesOnAccounts DEF Trying
<1>13. ASSUME NEW t \in Targets, BaselineCall(t) PROVE RInv'
  <2>1. op.pc = "baseline" /\ t \in op.pre /\ UNCHANGED <<rec, unseen>>
    BY <1>13 DEF BaselineCall, At, CallReturns, CallRaises, Delivered, Swallowed, Related,
       ResumeWork
  <2>2. CASE op' = [Without(t) EXCEPT !.pc = "awaitbase", !.cur = t]
    <3>1. /\ op'.pc = "awaitbase" /\ op'.cur = t /\ op'.exp = op.exp /\ op'.lit = op.lit
          /\ op'.done = op.done /\ op'.camDone = op.camDone /\ op'.pre = op.pre
      BY <1>0, <2>2, WithoutType, WithoutFields, LitStays DEF OpType
    <3>2. Relit' = Relit
      BY <3>1 DEF Relit
    <3> QED  BY <1>0, <1>2, <2>1, <3>1, <3>2, GoesOnAccounts DEF Trying
  <2>3. CASE op' = Failing(op)
    BY <1>0, <1>2, <2>1, <2>3, FailingAccounts DEF Trying
  <2> QED  BY <1>13, <2>2, <2>3 DEF BaselineCall, Continues
<1>14. CASE BaselineReadback
  <2>1. /\ op.pc = "awaitbase" /\ UNCHANGED rec /\ unseen \subseteq unseen' /\ op'.pc = "baseline"
        /\ op'.exp = op.exp /\ op'.lit = op.lit /\ op'.done = op.done /\ op'.camDone = op.camDone
    BY <1>0, <1>14 DEF BaselineReadback, At, ReadbackTimesOut, Continues, OpType
  <2>2. Relit' = Relit
    BY <2>1 DEF Relit
  <2>3. \A u \in Targets : OffOrUnseen(u) => OffOrUnseen(u)'
    BY <1>0, <2>1 DEF OffOrUnseen
  <2> QED  BY <1>0, <2>1, <2>2, <2>3, GoesOnAccounts DEF Trying
<1>15. CASE ResumeDecide
  <2>1. op.pc = "baseline" /\ UNCHANGED <<rec, unseen>>
    BY <1>15 DEF ResumeDecide, At, history
  <2>2. CASE op.bad
    BY <1>0, <1>2, <1>15, <2>1, <2>2, FailingAccounts DEF ResumeDecide, Continues, Trying
  <2>3. CASE ~op.bad
    <3>1. /\ op'.pc = "mark" /\ op'.exp = op.exp /\ op'.lit = op.lit
          /\ op'.done = op.done /\ op'.camDone = op.camDone
      BY <1>0, <1>15, <2>3 DEF ResumeDecide, Continues, OpType
    <3>2. Relit' = Relit
      BY <3>1 DEF Relit
    <3> QED  BY <1>0, <1>2, <2>1, <3>1, <3>2, GoesOnAccounts DEF Trying
  <2> QED  BY <2>2, <2>3
<1>16. CASE MarkActive
  <2>1. CASE op' = Idle
    BY <1>1, <2>1
  <2>2. CASE op' # Idle
    <3>1. op.pc = "mark" /\ op' = Restoring(op) /\ UNCHANGED <<rec, unseen>>
      BY <1>16, <2>2 DEF MarkActive, At, Returns, SaveFails, Continues, history
    <3> QED  BY <1>0, <1>2, <3>1, FailingAccounts
  <2> QED  BY <2>1, <2>2
<1>17. ASSUME NEW t \in Targets, Repause(t) PROVE RInv'
  <2>1. /\ op.pc = "restore" /\ UNCHANGED rec /\ t \in Coming
    BY <1>17 DEF Repause, At, NextOff, Coming
  <2>2. /\ op'.pc = "restore" /\ op'.exp = op.exp /\ op'.lit = op.lit /\ op'.pre = op.pre
        /\ op'.done = op.done /\ op'.camDone = op.camDone /\ op'.todo = op.todo \ {t}
        /\ (op'.cam <=> op.cam /\ t # Cam)
    <3>1. Without(t).cam <=> op.cam /\ t # Cam
      BY <1>0 DEF Without, OpType
    <3> QED  BY <1>0, <1>17, <2>1, <3>1, WithoutFields, LitStays DEF Repause, Continues
  <2>3. Ours' = Ours /\ Relit' = Relit /\ Coming \ {t} \subseteq Coming'
    BY <2>1, <2>2 DEF Ours, Relit, Coming
  <2>4. \A u \in Targets \ {t} : (OffOrUnseen(u) => OffOrUnseen(u)') /\ lag'[u] = lag[u]
    BY <1>0, <1>17 DEF Repause, Delivered, OffOrUnseen, TypeOK
  <2>5. t \in Ours => lag'[t] = "off" \/ t \in unseen'
    <3>1. t \in Ours => t \notin op.pre
      BY <1>0, <2>1 DEF Ours, Related, EvidenceDisjoint, OpType
    <3> QED  BY <1>17, <3>1 DEF Repause, Delivered, TypeOK
  <2>6. \A u \in Ours : Accounted(u)
    BY <1>0, <2>1 DEF RInv, Resuming
  <2>7. \A u \in Ours : Accounted(u)'
    <3>1. ASSUME NEW u \in Ours, u # t PROVE Accounted(u)'
      BY <1>0, <2>1, <2>2, <2>3, <2>4, <2>6, <3>1 DEF Accounted, Trying
    <3>2. t \in Ours => Accounted(t)'
      BY <2>2, <2>5 DEF Accounted, OffOrUnseen
    <3> QED  BY <3>1, <3>2
  <2> QED  BY <2>2, <2>3, <2>7 DEF RInv
<1>18. ASSUME op.pc \in {"restore", "hold", "persist"}, op'.pc \in {"hold", "persist"},
              op.pc = "restore" => Coming = {}, UNCHANGED <<lag, unseen>>,
              rec'.camToggled = rec.camToggled, op'.exp = op.exp, op'.lit = op.lit,
              op'.done = op.done, op'.camDone = op.camDone
       PROVE  RInv'
  <2>1. Ours' = Ours /\ Relit' = Relit
    BY <1>18 DEF Ours, Relit
  <2>2. \A u \in Ours : Accounted(u)
    BY <1>0, <1>18 DEF RInv, Resuming
  <2>3. \A u \in Ours : Accounted(u)'
    BY <1>0, <1>2, <1>18, <2>1, <2>2 DEF Accounted, Trying
  <2> QED  BY <1>18, <2>1, <2>3 DEF RInv
<1>19. CASE RepauseDone
  <2>1. /\ op.pc = "restore" /\ NextOff = {} /\ UNCHANGED <<rec, lag, unseen>>
        /\ op'.pc = "hold" /\ op'.exp = op.exp /\ op'.lit = op.lit
        /\ op'.done = op.done /\ op'.camDone = op.camDone
    BY <1>0, <1>19 DEF RepauseDone, At, Continues, OpType, history
  <2>2. Coming = {}
    BY <2>1 DEF NextOff, Coming
  <2> QED  BY <1>18, <2>1, <2>2
<1>20. CASE HoldFailSafe
  <2>1. CASE op' = Idle
    BY <1>1, <2>1
  <2>2. CASE op' # Idle
    <3>1. /\ op.pc = "hold" /\ UNCHANGED <<lag, unseen>> /\ op'.pc = "persist"
          /\ op'.exp = op.exp /\ op'.lit = op.lit /\ op'.done = op.done
          /\ op'.camDone = op.camDone /\ rec'.camToggled = rec.camToggled
      BY <1>0, <1>20, <2>2 DEF HoldFailSafe, At, Returns, Continues, Saves, SaveFails, OpType,
         RecordType, history
    <3> QED  BY <1>18, <3>1
  <2> QED  BY <2>1, <2>2
<1>21. CASE PersistError
  BY <1>1, <1>21 DEF PersistError, Returns, Raises
<1> QED  BY <1>3, <1>4, <1>5, <1>6, <1>7, <1>8, <1>9, <1>10, <1>11, <1>12, <1>13, <1>14, <1>15,
            <1>16, <1>17, <1>19, <1>20, <1>21 DEF ResumeStep

\* A step of somebody else, while a resume runs.
LEMMA AccountCarried ==
    ASSUME TypeOK, RInv, op' = op, rec'.camToggled = rec.camToggled, UNCHANGED lag,
           \A u \in Targets : OffOrUnseen(u) => OffOrUnseen(u)'
    PROVE  RInv'
<1>1. Ours' = Ours /\ Relit' = Relit /\ Coming' = Coming /\ Ours \subseteq Targets
  BY DEF Ours, Relit, Coming, TypeOK, OpType, Targets
<1>2. Resuming' = Resuming
  BY DEF Resuming
<1>3. ASSUME Resuming, NEW t \in Ours PROVE Accounted(t)'
  BY <1>1, <1>3 DEF RInv, Accounted
<1> QED  BY <1>1, <1>2, <1>3 DEF RInv

\* A tick, which may run beside it, leaves alone what is recorded of the camera.
LEMMA AccountTick ==
    ASSUME TypeOK, Related, RInv, TickLocks \/ TickRecovers \/ TickGoesOn
    PROVE  RInv'
<1>0. op \in OpType /\ rec \in RecordType
  BY DEF TypeOK
<1>1. CASE ~Resuming'
  BY <1>1, NotResuming
<1>2. CASE Resuming'
  <2>1. UNCHANGED <<real, lag>> /\ unseen \subseteq unseen'
    BY DEF TickLocks, TickRecovers, TickGoesOn, SchedulePause, AutoResume, RecoverResume,
       RecoverReplayed, PauseLock, ResumeLock, TickWaits, TickFinalizes, TickRecoversPause,
       TickRecoversResume, TickNothingToRecover, TickEnds, TickPauses, TickReleases, TickUncovers,
       TickQuiet, TickOverrides, TickDone, MissedNow, device, history
  <2>2. op' = op
    BY <1>2 DEF TickLocks, TickRecovers, TickGoesOn, SchedulePause, AutoResume, RecoverResume,
       RecoverReplayed, PauseLock, ResumeLock, TickWaits, TickFinalizes, TickRecoversPause,
       TickRecoversResume, TickNothingToRecover, TickEnds, TickPauses, TickReleases,
       TickUncovers, TickQuiet, TickOverrides, TickDone, Idle, Resuming
  <2>3. rec.phase \in {"resuming", "error", "active"}
    BY <1>2, <2>2 DEF Resuming, Related, ResumeCopies
  <2>4. rec'.camToggled = rec.camToggled
    <3>1. CASE TickReleases \/ TickUncovers \/ TickOverrides
      BY <1>0, <3>1 DEF TickReleases, TickUncovers, TickOverrides, Saves, SaveFails, RecordType
    <3>2. CASE TickFinalizes \/ TickRecoversPause
      BY <1>0, <2>3, <3>2 DEF TickFinalizes, TickRecoversPause, Saves, SaveFails, RecordType
    <3>3. CASE ~(TickReleases \/ TickUncovers \/ TickOverrides \/ TickFinalizes \/ TickRecoversPause)
      BY <3>3 DEF TickLocks, TickRecovers, TickGoesOn, SchedulePause, AutoResume,
         RecoverResume, RecoverReplayed, PauseLock, ResumeLock, TickWaits, TickRecoversResume,
         TickNothingToRecover, TickEnds, TickPauses, TickQuiet, TickDone
    <3> QED  BY <3>1, <3>2, <3>3
  <2>5. \A u \in Targets : OffOrUnseen(u) => OffOrUnseen(u)'
    BY <2>1 DEF OffOrUnseen
  <2> QED  BY <2>1, <2>2, <2>4, <2>5, AccountCarried
<1> QED  BY <1>1, <1>2

\* What a resume awaits is its own, and what lands on another target goes unseen.
LEMMA AccountLand ==
    ASSUME TypeOK, Related, RInv, NEW t \in Targets, Land(t)
    PROVE  RInv'
<1> SUFFICES ASSUME Resuming PROVE RInv'
  BY NotResuming DEF Land, Resuming
<1>0. op \in OpType /\ real \in [Targets -> {"on", "off"}]
  BY DEF TypeOK
<1>1. /\ UNCHANGED <<rec, op>> /\ unseen \subseteq unseen'
      /\ \A u \in Targets \ {t} : real'[u] = real[u] /\ lag'[u] = lag[u]
      /\ lag[t] = "off" => real'[t] = "off"
      /\ real'[t] = "off" \/ t \in unseen' \/ real[t] = "on" \/ Awaited(t)
  BY <1>0 DEF Land, TypeOK
<1>2. Ours' = Ours /\ Relit' = Relit /\ Coming' = Coming /\ Ours \subseteq Targets
  BY <1>0, <1>1 DEF Ours, Relit, Coming, OpType, Targets
<1>3. \A u \in Ours : Accounted(u)
  BY DEF RInv
<1>4. ASSUME NEW u \in Ours, u # t PROVE Accounted(u)'
  <2>1. lag'[u] = lag[u] /\ (OffOrUnseen(u) => OffOrUnseen(u)')
    BY <1>1, <1>2, <1>4 DEF OffOrUnseen
  <2> QED  BY <1>1, <1>2, <1>3, <1>4, <2>1 DEF Accounted
<1>5. ASSUME t \in Ours PROVE Accounted(t)'
  <2>1. Awaited(t) => op.pc = "await" /\ op.cur = t
    <3>1. t \notin op.pre
      BY <1>0, <1>5, TargetsAssumption DEF Ours, Related, EvidenceDisjoint, OpType
    <3> QED  BY <3>1 DEF Awaited, RInv
  <2>2. CASE OffOrUnseen(t)
    <3>1. OffOrUnseen(t)' \/ Awaited(t)
      BY <1>0, <1>1, <2>2 DEF OffOrUnseen
    <3> QED  BY <1>1, <2>1, <3>1 DEF Accounted
  <2>3. CASE ~OffOrUnseen(t)
    <3>1. lag[t] = "off" => OffOrUnseen(t)'
      BY <1>1 DEF OffOrUnseen
    <3> QED  BY <1>1, <1>2, <1>3, <1>5, <2>3, <3>1 DEF Accounted
  <2> QED  BY <2>2, <2>3
<1> QED  BY <1>1, <1>2, <1>4, <1>5 DEF RInv

\* A resume that is cancelled reads all its targets and turns off those that are on.
LEMMA AccountCancel ==
    ASSUME TypeOK, Related, RInv, Cancel
    PROVE  RInv'
<1> USE TargetsAssumption
<1>0. op \in OpType /\ rec \in RecordType /\ real \in [Targets -> {"on", "off"}]
  BY DEF TypeOK
<1>1. CASE op' = Idle
  BY <1>1, NotResuming DEF Idle, Resuming
<1>2. CASE op' # Idle
  <2>1. /\ UNCHANGED <<rec, real>> /\ unseen' = unseen \cup {t \in Targets : Unavailable(t)}
        /\ op' = [Failing(op) EXCEPT !.who = "stopped",
                            !.todo = {t \in op.exp \cup op.pre : IsOn(t)},
                            !.cam = rec.camToggled /\ IsOn(Cam)]
    BY <1>2 DEF Cancel, Continues, device
  <2>2. /\ op'.pc = "restore" /\ op'.exp = op.exp
        /\ op'.todo = {t \in op.exp \cup op.pre : IsOn(t)}
        /\ (op'.cam <=> rec.camToggled /\ IsOn(Cam))
    <3>1. Failing(op) \in OpType /\ Failing(op).pc = "restore" /\ Failing(op).exp = op.exp
      BY <1>0, RestoringType, RestoringFields
    <3> QED  BY <2>1, <3>1 DEF OpType
  <2>3. Ours' = Ours /\ Ours \subseteq Targets
    BY <1>0, <2>1, <2>2 DEF Ours, OpType, Targets
  <2>4. ASSUME NEW t \in Ours PROVE Accounted(t)'
    <3>1. CASE Unavailable(t)
      BY <2>1, <2>3, <2>4, <3>1 DEF Accounted, OffOrUnseen
    <3>2. CASE real[t] = "off"
      BY <2>1, <3>2 DEF Accounted, OffOrUnseen
    <3>3. CASE ~Unavailable(t) /\ real[t] # "off"
      <4>1. IsOn(t)
        BY <1>0, <2>3, <3>3 DEF IsOn, Report, Unavailable
      <4>2. t \in Coming'
        BY <2>2, <4>1 DEF Ours, Coming
      <4> QED  BY <2>2, <4>2 DEF Accounted
    <3> QED  BY <3>1, <3>2, <3>3
  <2> QED  BY <2>2, <2>3, <2>4 DEF RInv
<1> QED  BY <1>1, <1>2

LEMMA AccountWorld ==
    ASSUME TypeOK, Related, RInv, GraceEnds \/ (\E t \in Targets : Land(t)) \/ Environment
    PROVE  RInv'
<1>0. op \in OpType /\ rec \in RecordType
  BY DEF TypeOK
<1>1. CASE \E t \in Targets : Land(t)
  BY <1>1, AccountLand
<1>2. CASE Cancel
  BY <1>2, AccountCancel
<1>3. CASE Crash \/ AdminResume \/ \E s \in Scopes : AdminPause(s)
  <2>1. CASE Crash
    BY <2>1, NotResuming DEF Crash, Idle, Resuming
  <2>2. CASE ~Crash
    <3>1. op'.pc = "reserve"
      BY <1>3, <2>2 DEF AdminResume, AdminPause, PauseLock, ResumeLock, Idle
    <3> QED  BY <3>1, NotResuming DEF Resuming
  <2> QED  BY <2>1, <2>2
<1>4. CASE GraceEnds \/ Reload \/ WindowTurns \/ \E t \in Targets : Outage(t) \/ Return(t)
  <2>1. op' = op /\ UNCHANGED <<real, lag, unseen>> /\ (rec' = rec \/ rec' = Loaded(rec))
    BY <1>4 DEF GraceEnds, Reload, WindowTurns, Outage, Return, device, history
  <2>2. rec'.camToggled = rec.camToggled
    BY <1>0, <2>1 DEF Loaded, RecordType
  <2>3. \A u \in Targets : OffOrUnseen(u) => OffOrUnseen(u)'
    BY <2>1 DEF OffOrUnseen
  <2> QED  BY <2>1, <2>2, <2>3, AccountCarried
<1>5. ASSUME NEW t \in Targets, External(t) PROVE RInv'
  <2>1. /\ UNCHANGED <<rec, op, lag>> /\ unseen' = unseen \cup {t}
        /\ \A u \in Targets \ {t} : real'[u] = real[u]
    BY <1>5 DEF External, TypeOK
  <2>2. \A u \in Targets : OffOrUnseen(u) => OffOrUnseen(u)'
    BY <2>1 DEF OffOrUnseen
  <2> QED  BY <2>1, <2>2, AccountCarried
<1> QED  BY <1>1, <1>2, <1>3, <1>4, <1>5 DEF Environment

LEMMA StepKeepsRInv == IInv /\ RInv /\ [Next]_vars => RInv'
<1> SUFFICES ASSUME TypeOK, Related, RInv, [Next]_vars PROVE RInv'
  BY DEF IInv
<1>1. CASE PauseStep
  <2>1. op.kind \in Turning /\ (op' = Idle \/ op'.kind \in Turning)
    BY <1>1, PauseShape
  <2> QED  BY <2>1, NotResuming DEF Turning, Resuming, Idle
<1>2. CASE ResumeStep
  BY <1>2, AccountResume
<1>3. CASE TickLocks \/ TickRecovers \/ TickGoesOn
  BY <1>3, AccountTick
<1>4. CASE GraceEnds \/ (\E t \in Targets : Land(t)) \/ Environment
  BY <1>4, AccountWorld
<1>5. CASE UNCHANGED vars
  BY <1>5, AccountCarried DEF vars, OffOrUnseen
<1> QED  BY <1>1, <1>2, <1>3, <1>4, <1>5 DEF Next

\* A running resume accounts for each of its targets.
THEOREM AlwaysRInv == Spec => []RInv
<1>1. Init => RInv
  BY DEF Init, Idle, RInv, Resuming
<1> QED  BY <1>1, StepKeepsRInv, AlwaysIInv, PTL DEF Spec

\* A resume gives up by itself only when it has held the pause, and leaves the targets to it.
LEMMA GivesUpHeld ==
    ASSUME TypeOK, Related, ResumeStep, ResumeGivesUp
    PROVE  op.pc \in {"hold", "persist"} /\ UNCHANGED <<real, lag, unseen>>
<1> USE TargetsAssumption
<1>0. op \in OpType /\ AwaitsTarget /\ op.kind = "resume" /\ op'.kind = "none"
      /\ op.pc \notin {"reserve", "mark"}
  BY DEF TypeOK, Related, ResumeGivesUp, LockFree
<1>1. \A t \in Targets : /\ Without(t) \in OpType /\ Without(t).kind = "resume"
                         /\ Reenabled(t) \in OpType /\ Reenabled(t).kind = "resume"
  BY <1>0, WithoutType, WithoutFields, ReenabledType, ReenabledFields
<1>2. Restoring(op).kind = "resume" /\ Failing(op).kind = "resume"
  BY <1>0, RestoringFields
<1>3. ASSUME NEW t \in Targets,
             OnFound(t) \/ OnCall(t) \/ BaselineFound(t) \/ BaselineCall(t) \/ Repause(t)
      PROVE  FALSE
  BY <1>0, <1>1, <1>2, <1>3 DEF OnFound, OnCall, BaselineFound, BaselineCall, Repause, Continues,
     OpType
<1>4. ~OnConfirmed
  <2> SUFFICES ASSUME OnConfirmed PROVE FALSE
    OBVIOUS
  <2>1. op.cur \in Targets /\ op' = [Reenabled(op.cur) EXCEPT !.pc = "record"]
    BY <1>0 DEF OnConfirmed, At, AwaitsTarget, Continues
  <2>2. Reenabled(op.cur) \in OpType /\ Reenabled(op.cur).kind = "resume"
    BY <1>1, <2>1
  <2> QED  BY <1>0, <2>1, <2>2 DEF OpType
<1>5. ~(Preflight \/ OnTimedOut \/ OnRecord \/ ToBaseline \/ BaselineReadback \/ ResumeDecide \/ RepauseDone)
  BY <1>0, <1>2 DEF Preflight, OnTimedOut, OnRecord, ToBaseline, BaselineReadback, ResumeDecide,
     RepauseDone, Continues, OpType
<1>6. ~(ResumeReturnsEarly \/ ResumeBegin \/ MarkActive)
  BY <1>0 DEF ResumeReturnsEarly, ResumeBegin, MarkActive, At
<1>7. HoldFailSafe \/ PersistError
  BY <1>3, <1>4, <1>5, <1>6 DEF ResumeStep
<1> QED  BY <1>7 DEF HoldFailSafe, PersistError, At, device, history

\* Otherwise it is cancelled, before it calls a target or when the pause is held.
LEMMA GivesUpCancelled ==
    ASSUME TypeOK, Cancel, ResumeGivesUp
    PROVE  op.pc \notin Trying \cup {"mark", "restore"} /\ UNCHANGED <<real, lag, unseen>>
<1>0. op \in OpType /\ op.kind = "resume" /\ op'.kind = "none" /\ op.pc # "mark"
  BY DEF TypeOK, ResumeGivesUp, LockFree
<1>1. ASSUME op.pc \in Trying PROVE FALSE
  <2>1. op' = [Failing(op) EXCEPT !.who = "stopped",
                         !.todo = {t \in op.exp \cup op.pre : IsOn(t)},
                         !.cam = rec.camToggled /\ IsOn(Cam)]
    BY <1>0, <1>1 DEF Cancel, Continues
  <2>2. Failing(op) \in OpType /\ Failing(op).kind = "resume"
    BY <1>0, RestoringType, RestoringFields
  <2> QED  BY <1>0, <2>1, <2>2 DEF OpType
<1> QED  BY <1>0, <1>1 DEF Cancel, device

\* Nobody else ends it: the others find the lock taken, or leave the handler alone.
LEMMA GivesUpItself ==
    ASSUME TypeOK, Related, [Next]_vars, ResumeGivesUp
    PROVE  ResumeStep \/ Cancel
<1>0. op.kind = "resume" /\ op'.kind = "none" /\ ~LockFree /\ op' # op
  BY DEF ResumeGivesUp, LockFree
<1>1. ~PauseStep
  BY <1>0, PauseShape DEF Turning
<1>2. ~(TickLocks \/ TickRecovers \/ TickGoesOn)
  BY <1>0 DEF TickLocks, TickRecovers, TickGoesOn, SchedulePause, AutoResume, RecoverResume,
     RecoverReplayed, PauseLock, ResumeLock, TickWaits, TickFinalizes, TickRecoversPause,
     TickRecoversResume, TickNothingToRecover, TickEnds, TickPauses, TickReleases, TickUncovers,
     TickQuiet, TickOverrides, TickDone
<1>3. ~(GraceEnds \/ (\E t \in Targets : Land(t)) \/ UNCHANGED vars)
  BY <1>0 DEF GraceEnds, Land, vars
<1>4. ~Crash
  <2>1. used \in [FaultKinds -> Nat] /\ "crash" \in FaultKinds /\ used'["crash"] = used["crash"]
    BY DEF TypeOK, ResumeGivesUp, FaultKinds
  <2> QED  BY <2>1 DEF Crash, Spend
<1>5. ~(AdminResume \/ \E s \in Scopes : AdminPause(s))
  BY <1>0 DEF AdminPause, AdminResume, PauseLock, ResumeLock
<1>6. ~(Reload \/ WindowTurns \/ \E t \in Targets : External(t) \/ Outage(t) \/ Return(t))
  BY <1>0 DEF Reload, External, Outage, Return, WindowTurns
<1>7. Environment => Cancel
  BY <1>4, <1>5, <1>6 DEF Environment
<1> QED  BY <1>1, <1>2, <1>3, <1>7 DEF Next

\* A resume that gives up leaves on nothing that it turned on or found on, for any switches
\* and scopes and any faults: calls that fail, saves that fail, its cancellation before its
\* last save, a restart before it, changes from outside, targets that come and go.  The
\* exceptions are the property's: a cancellation in that last save and a restart end it
\* otherwise, and a target may have changed unseen or may not have been come to.
THEOREM FailedResumesRepause == Spec => FailedResumeRepauses
<1>1. ASSUME IInv, RInv, [Next]_vars, ResumeGivesUp,
             NEW t \in op.exp \cup (IF rec.camToggled THEN {Cam} ELSE {})
      PROVE  real'[t] = "off" \/ lag'[t] = "off" \/ t \in unseen' \cup (op.lit \ Relit)
  <2>1. TypeOK /\ Related
    BY <1>1 DEF IInv
  <2>2. ResumeStep \/ Cancel
    BY <1>1, <2>1, GivesUpItself
  <2>3. op.pc \notin Trying \cup {"mark", "restore"} /\ UNCHANGED <<real, lag, unseen>>
    BY <1>1, <2>1, <2>2, GivesUpHeld, GivesUpCancelled DEF Trying
  <2>4. Accounted(t)
    BY <1>1 DEF RInv, Resuming, Ours, ResumeGivesUp
  <2> QED  BY <2>3, <2>4 DEF Accounted, Trying, OffOrUnseen
<1>2. IInv /\ RInv /\ [Next]_vars =>
        [ResumeGivesUp =>
          \A t \in op.exp \cup (IF rec.camToggled THEN {Cam} ELSE {}) :
             real'[t] = "off" \/ lag'[t] = "off" \/ t \in unseen' \cup (op.lit \ Relit)]_vars
  BY <1>1
<1> QED  BY <1>2, AlwaysIInv, AlwaysRInv, PTL DEF Spec, FailedResumeRepauses

-----------------------------------------------------------------------------
(* Handlers advance.                                                        *)

\* The stages of a handler, in the order in which it may pass them, and the steps of a
\* call within one.
Stage(pc) ==
    IF pc = "reserve" THEN 0
    ELSE IF pc = "preflight" THEN 1
    ELSE IF pc \in {"step", "await", "record"} THEN 2
    ELSE IF pc \in {"baseline", "awaitbase"} THEN 3
    ELSE IF pc = "mark" THEN 4
    ELSE IF pc = "restore" THEN 5
    ELSE IF pc = "hold" THEN 6
    ELSE 7
Settling(pc) == IF pc \in {"step", "baseline"} THEN 2 ELSE IF pc = "record" THEN 1 ELSE 0

\* A step to a later stage, or one that leaves fewer targets to be called, or one that
\* brings a call nearer to its end.
Advances ==
    \/ Stage(op.pc) < Stage(op'.pc)
    \/ /\ Stage(op.pc) = Stage(op'.pc) /\ Coming' \subseteq Coming
       /\ Coming' # Coming \/ Settling(op.pc) < Settling(op'.pc)

HandlerAction ==
    PauseStep \/ ResumeStep \/ (~LockFree /\ op' # op) => op' = Idle \/ Advances

\* What a call takes off the targets still to be called.
LEMMA WithoutComes ==
    ASSUME op \in OpType, NEW t \in Coming, NEW o,
           o.todo = op.todo \ {t}, o.cam <=> op.cam /\ t # Cam
    PROVE  o.todo \cup (IF o.cam THEN {Cam} ELSE {}) = Coming \ {t}
BY TargetsAssumption DEF Coming, OpType

LEMMA WithoutCam ==
    ASSUME op \in OpType, NEW t \in Targets
    PROVE  /\ Without(t).cam <=> op.cam /\ t # Cam
           /\ Reenabled(t).cam <=> op.cam /\ t # Cam
<1>1. Without(t) \in OpType
  BY WithoutType
<1>2. Without(t).cam <=> op.cam /\ t # Cam
  BY DEF Without, OpType
<1> QED  BY <1>1, <1>2 DEF Reenabled, OpType

LEMMA PauseAdvances ==
    ASSUME TypeOK, Related, PauseStep PROVE op' = Idle \/ Advances
<1> USE TargetsAssumption
<1>0. op \in OpType
  BY DEF TypeOK
<1>1. CASE PauseRefused \/ PausePlan \/ ExtendPlan
  <2>1. op.pc = "reserve" /\ (op' = Idle \/ op'.pc = "step")
    BY <1>0, <1>1 DEF PauseRefused, PausePlan, ExtendPlan, At, Returns, Raises, Continues, OpType
  <2> QED  BY <2>1 DEF Advances, Stage
<1>2. ASSUME NEW t \in Targets, OffCall(t) PROVE Advances
  <2>1. op.pc = "step" /\ t \in Coming
    BY <1>2 DEF OffCall, At, NextOff, Coming
  <2>2. /\ op'.pc \in {"await", "record"} /\ op'.todo = op.todo \ {t}
        /\ (op'.cam <=> op.cam /\ t # Cam)
    <3>1. Without(t) \in OpType /\ Without(t).todo = op.todo \ {t}
      BY <1>0, WithoutType, WithoutFields
    <3>2. \/ op' = [Without(t) EXCEPT !.pc = "await", !.cur = t]
          \/ op' = [Without(t) EXCEPT !.pc = "record", !.cur = t, !.bad = TRUE]
      BY <1>2 DEF OffCall, Continues
    <3> QED  BY <1>0, <3>1, <3>2, WithoutCam, ZenonT(60) DEF OpType
  <2>3. Coming' = Coming \ {t}
    BY <1>0, <2>1, <2>2, WithoutComes DEF Coming
  <2> QED  BY <2>1, <2>2, <2>3 DEF Advances, Stage
<1>3. CASE OffConfirmed \/ OffTimedOut
  <2>1. op.pc = "await" /\ op'.pc = "record" /\ op'.todo = op.todo /\ op'.cam = op.cam
    BY <1>0, <1>3 DEF OffConfirmed, OffTimedOut, At, Continues, OpType
  <2> QED  BY <2>1 DEF Advances, Stage, Settling, Coming
<1>4. CASE OffRecord
  <2>1. CASE op' = Idle
    BY <2>1
  <2>2. CASE op' # Idle
    <3>1. op.pc = "record" /\ op'.pc = "step" /\ op'.todo = op.todo /\ op'.cam = op.cam
      BY <1>0, <1>4, <2>2 DEF OffRecord, At, Raises, Continues, OpType
    <3> QED  BY <3>1 DEF Advances, Stage, Settling, Coming
  <2> QED  BY <2>1, <2>2
<1>5. CASE PauseFinish
  BY <1>5 DEF PauseFinish, Returns, Raises
<1> QED  BY <1>1, <1>2, <1>3, <1>4, <1>5 DEF PauseStep

LEMMA ResumeAdvances ==
    ASSUME TypeOK, Related, ResumeStep PROVE op' = Idle \/ Advances
<1> USE TargetsAssumption
<1>0. op \in OpType /\ AwaitsTarget
  BY DEF TypeOK, Related
\* A resume that fails leaves the stages in which it tries.
<1>1. ASSUME op' \in {Failing(op), Restoring(op)}, op.pc \in Trying \cup {"mark"}
      PROVE  Advances
  <2>1. op'.pc = "restore"
    BY <1>0, <1>1, RestoringFields
  <2> QED  BY <1>1, <2>1 DEF Advances, Stage, Trying
<1>2. ASSUME NEW t \in Coming, op'.todo = op.todo \ {t}, op'.cam <=> op.cam /\ t # Cam,
             Stage(op'.pc) = Stage(op.pc)
      PROVE  Advances
  <2>1. Coming' = Coming \ {t}
    BY <1>0, <1>2, WithoutComes DEF Coming
  <2> QED  BY <1>2, <2>1 DEF Advances
<1>3. ASSUME op'.todo = op.todo, op'.cam = op.cam, Stage(op'.pc) = Stage(op.pc),
             Settling(op.pc) < Settling(op'.pc)
      PROVE  Advances
  BY <1>3 DEF Advances, Coming
<1>4. CASE ResumeReturnsEarly \/ ResumeBegin
  <2>1. op.pc = "reserve" /\ (op' = Idle \/ op'.pc = "preflight")
    BY <1>0, <1>4 DEF ResumeReturnsEarly, ResumeBegin, At, Returns, Raises, Continues, OpType
  <2> QED  BY <2>1 DEF Advances, Stage
<1>5. CASE Preflight
  <2>1. op.pc = "preflight" /\ op'.pc \in {"hold", "step"}
    BY <1>0, <1>5 DEF Preflight, At, Continues, OpType
  <2> QED  BY <2>1 DEF Advances, Stage
<1>6. ASSUME NEW t \in Targets, OnFound(t) \/ OnCall(t) PROVE Advances
  <2>1. op.pc = "step" /\ t \in Coming
    BY <1>6 DEF OnFound, OnCall, At, NextOn, Coming
  <2>2. CASE op' = Failing(op)
    BY <1>1, <2>1, <2>2 DEF Trying
  <2>3. CASE op' = Reenabled(t)
    <3>1. /\ op'.pc = "step" /\ op'.todo = op.todo \ {t} /\ (op'.cam <=> op.cam /\ t # Cam)
      BY <1>0, <2>1, <2>3, ReenabledFields, WithoutCam
    <3> QED  BY <1>2, <2>1, <3>1
  <2>4. CASE op' = [Without(t) EXCEPT !.pc = "await", !.cur = t]
    <3>1. /\ op'.pc = "await" /\ op'.todo = op.todo \ {t} /\ (op'.cam <=> op.cam /\ t # Cam)
      BY <1>0, <2>4, WithoutType, WithoutFields, WithoutCam DEF OpType
    <3> QED  BY <1>2, <2>1, <3>1 DEF Stage
  <2> QED  BY <1>6, <2>2, <2>3, <2>4 DEF OnFound, OnCall, Continues
\* What was confirmed had been taken off when it was called.
<1>7. CASE OnConfirmed
  <2>1. op.pc = "await" /\ op.cur \in Targets /\ Reenabled(op.cur) \in OpType
    BY <1>0, <1>7, ReenabledType DEF OnConfirmed, At, AwaitsTarget
  <2>2. /\ op'.pc = "record" /\ op'.todo = op.todo \ {op.cur}
        /\ (op'.cam <=> op.cam /\ op.cur # Cam)
    <3>1. op' = [Reenabled(op.cur) EXCEPT !.pc = "record"]
      BY <1>7 DEF OnConfirmed, Continues
    <3> QED  BY <1>0, <2>1, <3>1, ReenabledFields, WithoutCam DEF OpType
  <2>3. Coming' \subseteq Coming
    BY <2>2 DEF Coming
  <2> QED  BY <2>1, <2>2, <2>3 DEF Advances, Stage, Settling
<1>8. CASE OnTimedOut
  <2>1. op.pc = "await" /\ op'.pc = "step" /\ op'.todo = op.todo /\ op'.cam = op.cam
    BY <1>0, <1>8 DEF OnTimedOut, At, Continues, OpType
  <2> QED  BY <1>3, <2>1 DEF Stage, Settling
<1>9. CASE OnRecord
  <2>1. op.pc = "record"
    BY <1>9 DEF OnRecord, At
  <2>2. CASE op' = Failing(op)
    BY <1>1, <2>1, <2>2 DEF Trying
  <2>3. CASE op' # Failing(op)
    <3>1. op'.pc = "step" /\ op'.todo = op.todo /\ op'.cam = op.cam
      BY <1>0, <1>9, <2>3 DEF OnRecord, Continues, OpType
    <3> QED  BY <1>3, <2>1, <3>1 DEF Stage, Settling
  <2> QED  BY <2>2, <2>3
<1>10. CASE ToBaseline
  <2>1. op.pc = "step" /\ op'.pc = "baseline"
    BY <1>0, <1>10 DEF ToBaseline, At, Continues, OpType
  <2> QED  BY <2>1 DEF Advances, Stage
<1>11. ASSUME NEW t \in Targets, BaselineFound(t) \/ BaselineCall(t) PROVE Advances
  <2>1. op.pc = "baseline" /\ t \in op.todo /\ t \in Coming
    BY <1>11 DEF BaselineFound, BaselineCall, At, Coming
  <2>2. CASE op' = Failing(op)
    BY <1>1, <2>1, <2>2 DEF Trying
  <2>3. CASE op' # Failing(op)
    <3>1. /\ Without(t) \in OpType /\ Without(t).todo = op.todo \ {t} /\ Without(t).pc = op.pc
      BY <1>0, WithoutType, WithoutFields
    <3>2. \/ op' = [Without(t) EXCEPT !.bad = TRUE] \/ op' = Without(t)
          \/ op' = [Without(t) EXCEPT !.pc = "awaitbase", !.cur = t]
      BY <1>11, <2>3 DEF BaselineFound, BaselineCall, Continues
    <3>3. /\ op'.pc \in {"baseline", "awaitbase"} /\ op'.todo = op.todo \ {t}
          /\ (op'.cam <=> op.cam /\ t # Cam)
      BY <1>0, <2>1, <3>1, <3>2, WithoutCam DEF OpType
    <3> QED  BY <1>2, <2>1, <3>3 DEF Stage
  <2> QED  BY <2>2, <2>3
<1>12. CASE BaselineReadback
  <2>1. op.pc = "awaitbase" /\ op'.pc = "baseline" /\ op'.todo = op.todo /\ op'.cam = op.cam
    BY <1>0, <1>12 DEF BaselineReadback, At, Continues, OpType
  <2> QED  BY <1>3, <2>1 DEF Stage, Settling
<1>13. CASE ResumeDecide
  <2>1. op.pc = "baseline" /\ (op' = Failing(op) \/ op'.pc = "mark")
    BY <1>0, <1>13 DEF ResumeDecide, At, Continues, OpType
  <2> QED  BY <1>1, <2>1 DEF Trying, Advances, Stage
<1>14. CASE MarkActive
  <2>1. op.pc = "mark" /\ (op' = Idle \/ op' = Restoring(op))
    BY <1>14 DEF MarkActive, At, Returns, Continues
  <2> QED  BY <1>1, <2>1
<1>15. ASSUME NEW t \in Targets, Repause(t) PROVE Advances
  <2>1. op.pc = "restore" /\ t \in Coming /\ op' = Without(t)
    BY <1>15 DEF Repause, At, NextOff, Coming, Continues
  <2>2. op'.pc = "restore" /\ op'.todo = op.todo \ {t} /\ (op'.cam <=> op.cam /\ t # Cam)
    BY <1>0, <2>1, WithoutFields, WithoutCam
  <2> QED  BY <1>2, <2>1, <2>2
<1>16. CASE RepauseDone
  <2>1. op.pc = "restore" /\ op'.pc = "hold"
    BY <1>0, <1>16 DEF RepauseDone, At, Continues, OpType
  <2> QED  BY <2>1 DEF Advances, Stage
<1>17. CASE HoldFailSafe
  <2>1. op.pc = "hold" /\ (op' = Idle \/ op'.pc = "persist")
    BY <1>0, <1>17 DEF HoldFailSafe, At, Returns, Continues, OpType
  <2> QED  BY <2>1 DEF Advances, Stage
<1>18. CASE PersistError
  BY <1>18 DEF PersistError, Returns, Raises
<1> QED  BY <1>4, <1>5, <1>6, <1>7, <1>8, <1>9, <1>10, <1>11, <1>12, <1>13, <1>14, <1>15,
            <1>16, <1>17, <1>18 DEF ResumeStep

\* Nobody else moves a handler but by ending it or cancelling its attempt.
LEMMA OthersAdvance ==
    ASSUME TypeOK, [Next]_vars, ~PauseStep, ~ResumeStep, ~LockFree, op' # op
    PROVE  op' = Idle \/ Advances
<1>0. op \in OpType
  BY DEF TypeOK
<1>1. CASE Cancel
  <2>1. CASE op' = Idle
    BY <2>1
  <2>2. CASE op' # Idle
    <3>1. op.pc \in Trying
      BY <1>1, <2>2 DEF Cancel
    <3>2. op'.pc = "restore"
      <4>1. Failing(op) \in OpType /\ Failing(op).pc = "restore"
        BY <1>0, RestoringType, RestoringFields
      <4> QED  BY <1>1, <2>2, <4>1 DEF Cancel, Continues, OpType
    <3> QED  BY <3>1, <3>2 DEF Trying, Advances, Stage
  <2> QED  BY <2>1, <2>2
<1>2. CASE ~Cancel
  BY <1>2 DEF Next, vars, TickLocks, TickRecovers, TickGoesOn, SchedulePause, AutoResume,
     RecoverResume, RecoverReplayed, PauseLock, ResumeLock, TickWaits, TickFinalizes,
     TickRecoversPause, TickRecoversResume, TickNothingToRecover, TickEnds, TickPauses,
     TickReleases, TickUncovers, TickQuiet, TickOverrides, TickDone, GraceEnds, Land,
     Environment, AdminPause, AdminResume, Reload, External, Outage, Return, WindowTurns, Crash
<1> QED  BY <1>1, <1>2

\* Every step of a handler ends it or brings it nearer to its end: to a later stage, to
\* fewer targets, or to the end of a call.  No fault sends it back, so that a handler of
\* finitely many switches takes finitely many steps while it holds the camera lock.
THEOREM HandlersAdvance == Spec => [][HandlerAction]_vars
<1>1. IInv /\ [Next]_vars => [HandlerAction]_vars
  <2> SUFFICES ASSUME TypeOK, Related, [Next]_vars PROVE HandlerAction
    BY DEF IInv
  <2> QED  BY PauseAdvances, ResumeAdvances, OthersAdvance DEF HandlerAction
<1> QED  BY <1>1, AlwaysIInv, PTL DEF Spec
=============================================================================
