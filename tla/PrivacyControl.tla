--------------------------- MODULE PrivacyControl ---------------------------
(***************************************************************************)
(* The privacy state machine of one camera: the durable record of          *)
(* storage.py, the pause, schedule-extension and resume handlers of        *)
(* control.py that run under the camera's transition lock, and the         *)
(* scheduler tick of scheduler.py, which recovers interrupted transitions, *)
(* ends windows and detects overrides, partly WITHOUT that lock.           *)
(*                                                                         *)
(* A target is a Frigate switch or the Frigate camera entity. A service    *)
(* call travels to Frigate and takes effect later (lag); a handler waits   *)
(* for the reported state and gives up after two seconds. Home Assistant   *)
(* may stop between any two steps; a save may fail; a call may raise, be   *)
(* lost or land after its readback timed out.                              *)
(***************************************************************************)
EXTENDS Naturals, FiniteSets

CONSTANTS Switches,      \* the camera's Frigate switches
          MainSwitches,  \* those of the "main" stream scope
          SubSwitches,   \* those of the "sub" stream scope
          Cam,           \* the camera entity
          NoTarget,      \* no call is awaited
          HasCamera,     \* does camera.<base> exist at all?
          Budget         \* how often each kind of fault may happen

FaultKinds == {"crash", "save", "call", "external", "outage", "cancel"}

ASSUME TargetsAssumption ==
    /\ MainSwitches \subseteq Switches /\ SubSwitches \subseteq Switches
    /\ Cam \notin Switches
    /\ NoTarget \notin Switches \cup {Cam}
ASSUME BudgetAssumption ==
    /\ HasCamera \in BOOLEAN
    /\ Budget \in [FaultKinds -> Nat]

Targets == Switches \cup {Cam}

\* "all", "main" and "sub" of suffixes_for_stream_type; only "all" has the camera.
Everything == Targets
Scopes == {Everything, MainSwitches, SubSwitches}

VARIABLES
    real,    \* what Frigate does with each target: "on" or "off"
    vis,     \* how Home Assistant shows it: "seen", "unavailable" or "missing"
    lag,     \* the command on its way to each target, if any
    rec,     \* the durable record of the camera
    op,      \* the handler that holds the camera lock, with its local variables
    tick,    \* how far the scheduler tick has come
    grace,   \* the grace period for late entities
    ready,   \* DATA_RECOVERY_READY: may administrators change anything?
    window,  \* is some schedule window open?
    used,    \* faults that have happened
    held,    \* history: targets our turn_off switched from on to off, still off
    unseen,  \* history: targets whose latest change no readback saw
    raced    \* history: a tick rewrote a pause that was still running

vars == <<real, vis, lag, rec, op, tick, grace, ready, window, used, held, unseen, raced>>
device == <<real, vis>>
history == <<held, unseen, raced>>

-----------------------------------------------------------------------------
(* What Home Assistant reports.                                             *)

\* hass.states: Frigate shows a working camera as streaming, a stopped one as idle.
Report(t) ==
    IF vis[t] # "seen" THEN vis[t]
    ELSE IF t # Cam THEN real[t]
    ELSE IF real[t] = "on" THEN "streaming" ELSE "idle"

IsOn(t) == Report(t) = IF t = Cam THEN "streaming" ELSE "on"
IsOff(t) == Report(t) = IF t = Cam THEN "idle" ELSE "off"
Unavailable(t) == vis[t] # "seen"

\* discover_frigate_cameras: a camera exists while one of its switches does.
Discovered == \E t \in Switches : vis[t] # "missing"

-----------------------------------------------------------------------------
(* The durable record.                                                      *)

Phases == {"none", "pausing", "paused", "partial", "resuming", "error", "active"}

RecordType ==
    [phase : Phases, src : {"manual", "schedule"}, cov : BOOLEAN,
     planned : SUBSET Switches, switches : SUBSET Switches, preOff : SUBSET Switches,
     unav : BOOLEAN, camPlanned : BOOLEAN, camToggled : BOOLEAN,
     ext : BOOLEAN, extBase : SUBSET Switches, extPlanned : SUBSET Switches,
     blocked : BOOLEAN, overridden : BOOLEAN]

NoRecord ==
    [phase |-> "none", src |-> "manual", cov |-> FALSE,
     planned |-> {}, switches |-> {}, preOff |-> {},
     unav |-> FALSE, camPlanned |-> FALSE, camToggled |-> FALSE,
     ext |-> FALSE, extBase |-> {}, extPlanned |-> {},
     blocked |-> FALSE, overridden |-> FALSE]

Active == rec.phase \notin {"none", "active"}

\* The targets a "pausing" record says its handler was about to switch off.
PausingPlan == IF rec.ext THEN rec.extPlanned ELSE rec.planned
PausingBase == IF rec.ext THEN rec.extBase ELSE {}

\* _recovery_inputs_ready: every target the record names is registered and observable.
InputsReady ==
    LET named == IF rec.phase = "resuming"
                 THEN rec.switches \cup (IF rec.camToggled THEN {Cam} ELSE {})
                 ELSE PausingPlan \cup PausingBase \cup (IF rec.camPlanned THEN {Cam} ELSE {})
    IN  \A t \in named : vis[t] # "missing"

-----------------------------------------------------------------------------
(* The handler holding the camera lock.                                     *)

Who == {"none", "admin", "recover", "auto", "schedule", "stopped"}
OpType ==
    [kind : {"none", "pause", "extend", "resume"},
     pc : {"idle", "reserve", "preflight", "step", "await", "record", "baseline",
           "awaitbase", "mark", "restore", "hold", "persist"},
     who : Who,
     todo : SUBSET Switches,   \* switches still to be called
     done : SUBSET Switches,   \* toggled, or re-enabled by a resume
     exp : SUBSET Switches,    \* a resume's copy of the record's switches
     pre : SUBSET Switches,    \* a resume's copy of preexisting_off
     cur : Targets \cup {NoTarget},
     cam : BOOLEAN,            \* the camera is still to be called
     camDone : BOOLEAN,        \* camera_toggled, or re-enabled by a resume
     bad : BOOLEAN,            \* some target failed
     lit : SUBSET Targets]     \* (history) what was on when a resume began

Idle == [kind |-> "none", pc |-> "idle", who |-> "none", todo |-> {}, done |-> {},
         exp |-> {}, pre |-> {}, cur |-> NoTarget, cam |-> FALSE, camDone |-> FALSE,
         bad |-> FALSE, lit |-> {}]

LockFree == op.kind = "none"
At(kinds, pc) == op.kind \in kinds /\ op.pc = pc
Turning == {"pause", "extend"}

\* A tick that awaited the handler goes on when it returns and dies when it raises.
Returns ==
    /\ op' = Idle
    /\ tick' = CASE op.who = "recover" -> "past"
                 [] op.who \in {"auto", "schedule"} -> "late"
                 [] op.who = "stopped" -> "reload"
                 [] OTHER -> tick
Raises ==
    /\ op' = Idle
    /\ tick' = IF op.who = "admin" THEN tick ELSE "idle"
Continues(o) == op' = o /\ UNCHANGED tick

Spend(kind) ==
    /\ used[kind] < Budget[kind]
    /\ used' = [used EXCEPT ![kind] = @ + 1]

\* _save_locked: the record is durable, or memory is rolled back and the save raises.
SaveFails == Spend("save") /\ UNCHANGED rec
Saves(r) == rec' = r /\ UNCHANGED used

\* Targets called next: a pause stops the camera last, a resume starts it first
\* and stops at the first failure.
NextOff == IF op.todo # {} THEN op.todo ELSE IF op.cam THEN {Cam} ELSE {}
NextOn == IF op.cam THEN {Cam} ELSE IF op.bad THEN {} ELSE op.todo
Without(t) == [op EXCEPT !.todo = @ \ {t}, !.cam = @ /\ t # Cam]

\* One service call: it returns (delivered, or lost on the way) or raises (also
\* either way). "base" is a turn_off that restores a target which was off anyway.
Delivered(t, cmd) ==
    /\ lag' = [lag EXCEPT ![t] = cmd]
    /\ unseen' = IF cmd = "base" \/ cmd = real[t] THEN unseen ELSE unseen \ {t}
Swallowed == UNCHANGED <<lag, unseen>>
CallReturns(t, cmd) ==
    \/ Delivered(t, cmd) /\ UNCHANGED used
    \/ Swallowed /\ Spend("call")
CallRaises(t, cmd) == Spend("call") /\ (Delivered(t, cmd) \/ Swallowed)

\* The readback loop ends without the expected state: nothing more is coming, or
\* the state event is later than two seconds.
ReadbackTimesOut(expected) ==
    /\ ~expected
    /\ unseen' = unseen \cup {op.cur}
    /\ \/ (lag[op.cur] = "none" \/ Unavailable(op.cur)) /\ UNCHANGED used
       \/ Spend("call")

-----------------------------------------------------------------------------
(* Pause and schedule extension.                                            *)

\* async_pause_camera takes the camera lock and reserves its operation id.
PauseLock(who, scope) ==
    /\ LockFree /\ Discovered
    /\ op' = [Idle EXCEPT !.kind = "pause", !.pc = "reserve", !.who = who,
                          !.todo = scope \ {Cam}, !.cam = Cam \in scope]
    /\ UNCHANGED <<device, lag, rec, tick, grace, ready, window, used, history>>

AdminPause(scope) == ready /\ PauseLock("admin", scope)
SchedulePause == tick = "pausewait" /\ PauseLock("schedule", Everything)

Extendable == op.who = "schedule" /\ rec.phase \in {"paused", "partial"}

\* An active record that cannot be extended: already_paused.
PauseRefused ==
    /\ At({"pause"}, "reserve") /\ Active /\ ~Extendable
    /\ Returns
    /\ UNCHANGED <<device, lag, rec, grace, ready, window, used, history>>

\* Mistake: every asked target is called, planned or not.
PausePlanCallsAll ==
    /\ At({"pause"}, "reserve") /\ ~Active
    /\ LET planned == {t \in op.todo : IsOn(t)}
           camera == op.cam /\ IsOn(Cam)
           plan == [NoRecord EXCEPT
                      !.phase = "pausing",
                      !.src = IF op.who = "schedule" THEN "schedule" ELSE "manual",
                      !.planned = planned, !.camPlanned = camera]
       IN  /\ Saves(plan)
           /\ Continues([op EXCEPT !.pc = "step", !.cam = camera])
           /\ held' = {} /\ unseen' = {} /\ raced' = FALSE
    /\ UNCHANGED <<device, lag, grace, ready, window>>

\* The plan is computed and saved before any control call.
PausePlan ==
    /\ At({"pause"}, "reserve") /\ ~Active
    /\ LET planned == {t \in op.todo : IsOn(t)}
           camera == op.cam /\ IsOn(Cam)
           asked == op.todo \cup (IF op.cam THEN {Cam} ELSE {})
           plan == [NoRecord EXCEPT
                      !.phase = "pausing",
                      !.src = IF op.who = "schedule" THEN "schedule" ELSE "manual",
                      !.planned = planned,
                      !.preOff = {t \in op.todo : IsOff(t)},
                      !.unav = \E t \in asked : vis[t] = "unavailable",
                      !.camPlanned = camera]
       IN  \/ /\ Saves(plan)
              /\ Continues([op EXCEPT !.pc = "step", !.todo = planned, !.cam = camera])
              /\ held' = {} /\ unseen' = {} /\ raced' = FALSE
           \/ SaveFails /\ Raises /\ UNCHANGED history
    /\ UNCHANGED <<device, lag, grace, ready, window>>

\* Mistake: the switches this pause turned off are taken for ones that were off.
ExtendPlanForgetsOwn ==
    /\ At({"pause"}, "reserve") /\ Active /\ Extendable
    /\ LET others == {t \in Switches \ rec.preOff : vis[t] # "missing"}
           planned == {t \in others : IsOn(t)}
           camera == ~rec.camToggled /\ IsOn(Cam)
           plan == [rec EXCEPT
                      !.phase = "pausing", !.cov = TRUE, !.ext = TRUE,
                      !.extBase = rec.switches, !.extPlanned = planned,
                      !.preOff = @ \cup {t \in others : IsOff(t)}, !.camPlanned = camera]
       IN  /\ Saves(plan)
           /\ Continues([op EXCEPT !.kind = "extend", !.pc = "step", !.todo = planned,
                                   !.done = rec.switches, !.cam = camera,
                                   !.camDone = rec.camToggled])
    /\ UNCHANGED <<device, lag, grace, ready, window, history>>

\* A schedule window widens an existing pause to every switch and the camera.
ExtendPlan ==
    /\ At({"pause"}, "reserve") /\ Active /\ Extendable
    /\ LET others == {t \in Switches \ (rec.switches \cup rec.preOff) : vis[t] # "missing"}
           planned == {t \in others : IsOn(t)}
           camera == ~rec.camToggled /\ IsOn(Cam)
           plan == [rec EXCEPT
                      !.phase = "pausing", !.cov = TRUE, !.ext = TRUE,
                      !.extBase = rec.switches, !.extPlanned = planned,
                      !.preOff = @ \cup {t \in others : IsOff(t)},
                      !.unav = @ \/ \E t \in others : Unavailable(t),
                      !.camPlanned = camera]
       IN  \/ /\ Saves(plan)
              /\ Continues([op EXCEPT !.kind = "extend", !.pc = "step", !.todo = planned,
                                      !.done = rec.switches, !.cam = camera,
                                      !.camDone = rec.camToggled])
           \/ SaveFails /\ Raises
    /\ UNCHANGED <<device, lag, grace, ready, window, history>>

OffCall(t) ==
    /\ At(Turning, "step") /\ t \in NextOff
    /\ \/ CallReturns(t, "off") /\ Continues([Without(t) EXCEPT !.pc = "await", !.cur = t])
       \/ /\ CallRaises(t, "off")
          /\ Continues([Without(t) EXCEPT !.pc = "record", !.cur = t, !.bad = TRUE])
    /\ UNCHANGED <<device, rec, grace, ready, window, held, raced>>

OffConfirmed ==
    /\ At(Turning, "await") /\ IsOff(op.cur)
    /\ Continues([op EXCEPT !.pc = "record", !.done = @ \cup ({op.cur} \ {Cam}),
                            !.camDone = @ \/ op.cur = Cam])
    /\ UNCHANGED <<device, lag, rec, grace, ready, window, used, history>>

OffTimedOut ==
    /\ At(Turning, "await") /\ ReadbackTimesOut(IsOff(op.cur))
    /\ Continues([op EXCEPT !.pc = "record", !.bad = TRUE])
    /\ UNCHANGED <<device, lag, rec, grace, ready, window, held, raced>>

\* Each outcome is saved before the next target is called; the extension's camera
\* outcome is saved only with the final transition.
OffRecord ==
    /\ At(Turning, "record")
    /\ LET next == [op EXCEPT !.pc = "step", !.cur = NoTarget]
           outcome == [rec EXCEPT !.phase = "pausing", !.switches = op.done,
                                  !.camToggled = IF op.cur = Cam THEN op.camDone ELSE @]
       IN  IF op.kind = "extend" /\ op.cur = Cam
           THEN Continues(next) /\ UNCHANGED <<rec, used>>
           ELSE \/ Saves(outcome) /\ Continues(next)
                \/ SaveFails /\ Raises
    /\ UNCHANGED <<device, lag, grace, ready, window, history>>

\* Mistakes: an extension saves only the switches that it has turned off itself; a pause
\* with failed targets is reported as complete.
PauseFinishSavesOwn ==
    /\ At(Turning, "step") /\ NextOff = {}
    /\ Saves([rec EXCEPT !.phase = IF op.bad \/ rec.unav THEN "partial" ELSE "paused",
                         !.switches = op.done \ rec.extBase, !.camToggled = op.camDone])
    /\ Returns
    /\ UNCHANGED <<device, lag, grace, ready, window, history>>
PauseFinishIgnoresFailures ==
    /\ At(Turning, "step") /\ NextOff = {}
    /\ Saves([rec EXCEPT !.phase = IF rec.unav THEN "partial" ELSE "paused",
                         !.switches = op.done, !.camToggled = op.camDone])
    /\ Returns
    /\ UNCHANGED <<device, lag, grace, ready, window, history>>

PauseFinish ==
    /\ At(Turning, "step") /\ NextOff = {}
    /\ \/ /\ Saves([rec EXCEPT !.phase = IF op.bad \/ rec.unav THEN "partial" ELSE "paused",
                               !.switches = op.done, !.camToggled = op.camDone])
          /\ Returns
       \/ SaveFails /\ Raises
    /\ UNCHANGED <<device, lag, grace, ready, window, history>>

-----------------------------------------------------------------------------
(* Resume.                                                                  *)

ResumeLock(who) ==
    /\ LockFree
    /\ op' = [Idle EXCEPT !.kind = "resume", !.pc = "reserve", !.who = who]
    /\ UNCHANGED <<device, lag, rec, tick, grace, ready, window, used, history>>

AdminResume == ready /\ ResumeLock("admin")
AutoResume == tick = "autowait" /\ ResumeLock("auto")
\* RECOVERY continues the saved resume if it is still the record's operation ...
RecoverResume == tick = "recwait" /\ rec.phase = "resuming" /\ ResumeLock("recover")
\* ... and otherwise finds its operation id in the history: a replay.
RecoverReplayed ==
    /\ tick = "recwait" /\ LockFree /\ rec.phase # "resuming"
    /\ tick' = "past"
    /\ UNCHANGED <<device, lag, rec, op, grace, ready, window, used, history>>

\* nothing_to_resume, or recovery_pending.
ResumeReturnsEarly ==
    /\ At({"resume"}, "reserve")
    /\ ~Active \/ (rec.phase \in {"pausing", "resuming"} /\ ~InputsReady)
    /\ Returns
    /\ UNCHANGED <<device, lag, rec, grace, ready, window, used, history>>

Expected == rec.switches \cup (IF rec.camToggled THEN {Cam} ELSE {})

\* A missing target may also have lost its registry entry: invalid_persisted_targets.
ResumeBegin ==
    /\ At({"resume"}, "reserve") /\ Active
    /\ rec.phase \in {"pausing", "resuming"} => InputsReady
    /\ \/ /\ Saves([rec EXCEPT !.phase = "resuming", !.blocked = FALSE])
          /\ Continues([op EXCEPT !.pc = "preflight", !.todo = rec.switches,
                                  !.exp = rec.switches, !.pre = rec.preOff,
                                  !.cam = rec.camToggled,
                                  !.lit = {t \in Expected : real[t] = "on"}])
       \/ /\ \E t \in Expected : vis[t] = "missing"
          /\ Saves([rec EXCEPT !.phase = "error", !.blocked = TRUE])
          /\ Returns
       \/ SaveFails /\ Raises
    /\ UNCHANGED <<device, lag, grace, ready, window, history>>

\* decide_resume_exit over what is unavailable now: hold, or go on.
Preflight ==
    /\ At({"resume"}, "preflight")
    /\ LET gone == \E t \in op.exp \cup (IF op.cam THEN {Cam} ELSE {}) : Unavailable(t)
       IN  Continues([op EXCEPT !.pc = IF gone THEN "hold" ELSE "step", !.bad = gone])
    /\ UNCHANGED <<device, lag, rec, grace, ready, window, used, history>>

Reenabled(t) == [Without(t) EXCEPT !.done = @ \cup ({t} \ {Cam}), !.camDone = @ \/ t = Cam]
Restoring(o) == [o EXCEPT !.pc = "restore", !.cur = NoTarget,
                          !.todo = o.done \cup o.pre, !.cam = o.camDone]
Failing(o) == Restoring([o EXCEPT !.bad = TRUE])

\* A target that is on already counts as re-enabled; a switch that vanished raises.
OnFound(t) ==
    /\ At({"resume"}, "step") /\ t \in NextOn
    /\ \/ IsOn(t) /\ Continues(Reenabled(t))
       \/ t # Cam /\ vis[t] = "missing" /\ Continues(Failing(op))
    /\ UNCHANGED <<device, lag, rec, grace, ready, window, used, history>>

OnCall(t) ==
    /\ At({"resume"}, "step") /\ t \in NextOn
    /\ ~IsOn(t) /\ (t = Cam \/ vis[t] # "missing")
    /\ \/ CallReturns(t, "on") /\ Continues([Without(t) EXCEPT !.pc = "await", !.cur = t])
       \/ CallRaises(t, "on") /\ Continues(Failing(op))
    /\ UNCHANGED <<device, rec, grace, ready, window, held, raced>>

OnConfirmed ==
    /\ At({"resume"}, "await") /\ IsOn(op.cur)
    /\ Continues([Reenabled(op.cur) EXCEPT !.pc = "record"])
    /\ UNCHANGED <<device, lag, rec, grace, ready, window, used, history>>

OnTimedOut ==
    /\ At({"resume"}, "await") /\ ReadbackTimesOut(IsOn(op.cur))
    /\ Continues([op EXCEPT !.pc = "step", !.cur = NoTarget, !.bad = TRUE])
    /\ UNCHANGED <<device, lag, rec, grace, ready, window, held, raced>>

\* resume_completed is saved; a failed save is a failed target.
OnRecord ==
    /\ At({"resume"}, "record")
    /\ \/ /\ Saves([rec EXCEPT !.phase = "resuming"])
          /\ Continues([op EXCEPT !.pc = "step", !.cur = NoTarget])
       \/ SaveFails /\ Continues(Failing(op))
    /\ UNCHANGED <<device, lag, grace, ready, window, history>>

\* Mistake: the camera is put among the switches to hold off.
ToBaselineWithCamera ==
    /\ At({"resume"}, "step") /\ NextOn = {}
    /\ Continues([op EXCEPT !.pc = "baseline", !.todo = op.pre \cup {Cam}])
    /\ UNCHANGED <<device, lag, rec, grace, ready, window, used, history>>

\* After the switches, whatever Frigate turned on that was off before goes off again.
ToBaseline ==
    /\ At({"resume"}, "step") /\ NextOn = {}
    /\ Continues([op EXCEPT !.pc = "baseline", !.todo = op.pre])
    /\ UNCHANGED <<device, lag, rec, grace, ready, window, used, history>>

\* Mistake: a baseline target that is unavailable is waited for.
BaselineFoundWaits(t) ==
    /\ At({"resume"}, "baseline") /\ t \in op.todo /\ IsOff(t)
    /\ Continues(Without(t))
    /\ UNCHANGED <<device, lag, rec, grace, ready, window, used, history>>

BaselineFound(t) ==
    /\ At({"resume"}, "baseline") /\ t \in op.todo
    /\ \/ Unavailable(t) /\ Continues([Without(t) EXCEPT !.bad = TRUE])
       \/ IsOff(t) /\ Continues(Without(t))
    /\ UNCHANGED <<device, lag, rec, grace, ready, window, used, history>>

BaselineCall(t) ==
    /\ At({"resume"}, "baseline") /\ t \in op.todo /\ IsOn(t)
    /\ \/ CallReturns(t, "base") /\ Continues([Without(t) EXCEPT !.pc = "awaitbase", !.cur = t])
       \/ CallRaises(t, "base") /\ Continues(Failing(op))
    /\ UNCHANGED <<device, rec, grace, ready, window, held, raced>>

BaselineReadback ==
    /\ At({"resume"}, "awaitbase")
    /\ \/ /\ IsOff(op.cur) /\ UNCHANGED <<used, unseen>>
          /\ Continues([op EXCEPT !.pc = "baseline", !.cur = NoTarget])
       \/ /\ ReadbackTimesOut(IsOff(op.cur))
          /\ Continues([op EXCEPT !.pc = "baseline", !.cur = NoTarget, !.bad = TRUE])
    /\ UNCHANGED <<device, lag, rec, grace, ready, window, held, raced>>

\* Mistake: failures of single targets do not stop the claim.
ResumeDecideOptimistic ==
    /\ At({"resume"}, "baseline") /\ op.todo = {}
    /\ Continues([op EXCEPT !.pc = "mark"])
    /\ UNCHANGED <<device, lag, rec, grace, ready, window, used, history>>

\* decide_resume_exit over what failed: claim active, or restore privacy.
ResumeDecide ==
    /\ At({"resume"}, "baseline") /\ op.todo = {}
    /\ Continues(IF op.bad THEN Failing(op) ELSE [op EXCEPT !.pc = "mark"])
    /\ UNCHANGED <<device, lag, rec, grace, ready, window, used, history>>

MarkActive ==
    /\ At({"resume"}, "mark")
    /\ \/ Saves([rec EXCEPT !.phase = "active", !.blocked = FALSE]) /\ Returns
       \/ SaveFails /\ Continues(Restoring(op))
    /\ UNCHANGED <<device, lag, grace, ready, window, history>>

-----------------------------------------------------------------------------
(* The fail-safe exit of a resume.                                          *)

\* _restore_pause_after_failed_resume: what was re-enabled goes off again. Failures
\* are only noted, so a call that raises is one that was not delivered.
Repause(t) ==
    /\ At({"resume"}, "restore") /\ t \in NextOff
    /\ \/ Delivered(t, IF t \in op.pre THEN "base" ELSE "off") /\ UNCHANGED used
       \/ Spend("call") /\ unseen' = unseen \cup {t} /\ UNCHANGED lag
    /\ Continues(Without(t))
    /\ UNCHANGED <<device, rec, grace, ready, window, held, raced>>

RepauseDone ==
    /\ At({"resume"}, "restore") /\ NextOff = {}
    /\ Continues([op EXCEPT !.pc = "hold"])
    /\ UNCHANGED <<device, lag, rec, grace, ready, window, used, history>>

\* _hold_fail_safe swallows a failed save. After a failed terminal save (not bad)
\* the handler writes phase "error" once more.
HoldFailSafe ==
    /\ At({"resume"}, "hold")
    /\ Saves([rec EXCEPT !.phase = "error", !.blocked = TRUE]) \/ SaveFails
    /\ IF op.bad THEN Returns ELSE Continues([op EXCEPT !.pc = "persist"])
    /\ UNCHANGED <<device, lag, grace, ready, window, history>>

PersistError ==
    /\ At({"resume"}, "persist")
    /\ \/ Saves([rec EXCEPT !.phase = "error"]) /\ Returns
       \/ SaveFails /\ Raises
    /\ UNCHANGED <<device, lag, grace, ready, window, history>>

\* async_stop cancels the tick and with it the handler the tick awaits. A resume
\* that is calling targets re-reads all of them and restores privacy, shielded.
Trying == {"step", "await", "record", "baseline", "awaitbase"}
\* Mistake: a cancelled resume restores what it had confirmed and not what is on.
CancelTrustsProgress ==
    /\ op.who \in {"recover", "auto", "schedule"} /\ op.pc # "restore"
    /\ Spend("cancel")
    /\ ready' = FALSE
    /\ IF op.kind = "resume" /\ op.pc \in {"step", "await", "record", "baseline", "awaitbase"}
       THEN Continues([Failing(op) EXCEPT !.who = "stopped"])
       ELSE op' = Idle /\ tick' = "reload"
    /\ grace' = "off"
    /\ UNCHANGED <<device, lag, rec, window, held, unseen, raced>>

Cancel ==
    /\ op.who \in {"recover", "auto", "schedule"} /\ op.pc # "restore"
    /\ Spend("cancel")
    /\ ready' = FALSE
    /\ IF op.kind = "resume" /\ op.pc \in Trying
       THEN /\ Continues([Failing(op) EXCEPT !.who = "stopped",
                            !.todo = {t \in op.exp \cup op.pre : IsOn(t)},
                            !.cam = rec.camToggled /\ IsOn(Cam)])
            /\ unseen' = unseen \cup {t \in Targets : Unavailable(t)}
       ELSE op' = Idle /\ tick' = "reload" /\ UNCHANGED unseen
    /\ grace' = "off"
    /\ UNCHANGED <<device, lag, rec, window, held, raced>>

\* _ensure_loaded_locked: a record marked overridden is terminal, whatever it became.
Loaded(r) == IF r.overridden THEN [r EXCEPT !.phase = "active"] ELSE r

\* The entry is set up again.
Reload ==
    /\ tick = "reload"
    /\ tick' = "idle" /\ rec' = Loaded(rec)
    /\ UNCHANGED <<device, lag, op, grace, ready, window, used, history>>

-----------------------------------------------------------------------------
(* The scheduler tick.                                                      *)

TickIdle == tick = "idle"
Interrupted == rec.phase \in {"pausing", "resuming"}
Pending == Interrupted /\ ~InputsReady

\* (History) planned targets that do not report while a pause is recovered.
MissedNow == unseen' = unseen \cup
    {t \in PausingPlan \cup {Cam} : rec.phase = "pausing" /\ Unavailable(t)}

\* Mistake: every tick starts the grace period again.
TickWaitsAnew ==
    /\ TickIdle /\ Pending
    /\ grace' = "running" /\ ready' = FALSE
    /\ UNCHANGED <<device, lag, rec, op, tick, window, used, history>>

\* Targets are late: no recovery and no administration during the grace period.
TickWaits ==
    /\ TickIdle /\ Pending /\ grace # "over"
    /\ grace' = "running" /\ ready' = FALSE
    /\ UNCHANGED <<device, lag, rec, op, tick, window, used, history>>

GraceEnds ==
    /\ grace = "running" /\ grace' = "over"
    /\ UNCHANGED <<device, lag, rec, op, tick, ready, window, used, history>>

\* async_finalize_recovery_pending: the record becomes a blocked error that keeps
\* its evidence, extended by what is seen off.
TickFinalizes ==
    /\ TickIdle /\ Pending /\ grace = "over"
    /\ LET seenOff == IF rec.phase = "pausing"
                      THEN {t \in PausingPlan \cup PausingBase : Report(t) = "off"} ELSE {}
       IN  \/ /\ Saves([rec EXCEPT !.phase = "error", !.blocked = TRUE,
                          !.switches = @ \cup seenOff,
                          !.camToggled = @ \/ (rec.phase = "pausing" /\ rec.camPlanned
                                                 /\ Report(Cam) = "off")])
              /\ tick' = "past" /\ grace' = "off" /\ ready' = TRUE /\ MissedNow
           \/ SaveFails /\ UNCHANGED <<tick, grace, ready, unseen>>
    /\ UNCHANGED <<device, lag, op, window, held, raced>>

\* Mistakes: only saved outcomes are evidence; an interrupted pause is complete.
TickRecoversSavedOnly ==
    /\ TickIdle /\ rec.phase = "pausing" /\ InputsReady
    /\ Saves([rec EXCEPT !.phase = "partial"])
    /\ tick' = "past" /\ grace' = "off" /\ ready' = TRUE /\ MissedNow
    /\ raced' = (raced \/ op.kind \in Turning)
    /\ UNCHANGED <<device, lag, op, window, held>>
TickRecoversAsPaused ==
    /\ TickIdle /\ rec.phase = "pausing" /\ InputsReady
    /\ Saves([rec EXCEPT !.phase = "paused",
                 !.switches = PausingBase \cup {t \in PausingPlan : Report(t) = "off"}])
    /\ tick' = "past" /\ grace' = "off" /\ ready' = TRUE /\ MissedNow
    /\ raced' = (raced \/ op.kind \in Turning)
    /\ UNCHANGED <<device, lag, op, window, held>>

\* A record in "pausing" becomes "partial" with the planned switches that report
\* off. No lock is taken: the pause may still be running.
TickRecoversPause ==
    /\ TickIdle /\ rec.phase = "pausing" /\ InputsReady
    /\ \/ /\ Saves([rec EXCEPT !.phase = "partial",
                      !.switches = PausingBase \cup {t \in PausingPlan : Report(t) = "off"},
                      !.camToggled = @ \/ (rec.camPlanned /\ Report(Cam) = "off")])
          /\ tick' = "past" /\ grace' = "off" /\ ready' = TRUE /\ MissedNow
          /\ raced' = (raced \/ op.kind \in Turning)
       \/ SaveFails /\ UNCHANGED <<tick, grace, ready, unseen, raced>>
    /\ UNCHANGED <<device, lag, op, window, held>>

\* A record in "resuming" is resumed under the lock, which a handler may hold.
TickRecoversResume ==
    /\ TickIdle /\ rec.phase = "resuming" /\ InputsReady
    /\ tick' = "recwait"
    /\ UNCHANGED <<device, lag, rec, op, grace, ready, window, used, history>>

TickNothingToRecover ==
    /\ TickIdle /\ ~Interrupted
    /\ tick' = "past" /\ grace' = "off" /\ ready' = TRUE
    /\ UNCHANGED <<device, lag, rec, op, window, used, history>>

TickPast == tick = "past" /\ op.who # "recover"

\* The override is remembered while its coverage is open, then released.
Suppressed == rec.phase = "active" /\ rec.src = "schedule" /\ rec.overridden

\* Mistakes: a camera that was paused before counts as done; an override does not.
WantsPauseOnce == window /\ Discovered
                  /\ IF Active THEN rec.src = "manual" /\ ~rec.cov ELSE rec.phase = "none"
WantsPauseAnyway == window /\ Discovered /\ (Active => rec.src = "manual" /\ ~rec.cov)

WantsPause == window /\ Discovered
              /\ IF Active THEN rec.src = "manual" /\ ~rec.cov
                 ELSE ~Suppressed
MustEnd == Active /\ rec.src = "schedule" /\ ~rec.blocked /\ ~window
Uncovering == ~window /\ Active /\ rec.src = "manual" /\ rec.cov /\ ~rec.blocked
MayEnd == Active /\ rec.src = "manual" /\ ~rec.cov /\ ~rec.blocked /\ ~window

\* Mistake: the end of a window resumes only complete pauses.
TickEndsComplete ==
    /\ TickPast /\ (MustEnd \/ MayEnd)
    /\ tick' = IF rec.phase = "paused" THEN "autowait" ELSE "late"
    /\ UNCHANGED <<device, lag, rec, op, grace, ready, window, used, history>>

\* The window ended, or a manual deadline may have. The record was read before
\* the lock is waited for.
TickEnds ==
    /\ TickPast /\ (MustEnd \/ MayEnd)
    /\ tick' = "autowait"
    /\ UNCHANGED <<device, lag, rec, op, grace, ready, window, used, history>>

TickPauses ==
    /\ TickPast /\ WantsPause
    /\ tick' = "pausewait"
    /\ UNCHANGED <<device, lag, rec, op, grace, ready, window, used, history>>

\* Mistake: the release is not stored.
TickReleasesNothing ==
    /\ TickPast /\ ~window /\ Suppressed
    /\ tick' = "late"
    /\ UNCHANGED <<device, lag, rec, op, grace, ready, window, used, history>>

\* async_release_schedule_override once no window is open.
TickReleases ==
    /\ TickPast /\ ~window /\ Suppressed
    /\ \/ Saves([rec EXCEPT !.overridden = FALSE]) /\ tick' = "late"
       \/ SaveFails /\ tick' = "idle"
    /\ UNCHANGED <<device, lag, op, grace, ready, window, history>>

\* A manual pause loses its coverage when the window closes, before its deadline counts.
TickUncovers ==
    /\ TickPast /\ Uncovering
    /\ \/ Saves([rec EXCEPT !.cov = FALSE]) /\ UNCHANGED tick
       \/ SaveFails /\ tick' = "idle"
    /\ UNCHANGED <<device, lag, op, grace, ready, window, history>>

TickQuiet ==
    /\ TickPast /\ ~MustEnd /\ ~WantsPause /\ ~Uncovering /\ (window \/ ~Suppressed)
    /\ tick' = "late"
    /\ UNCHANGED <<device, lag, rec, op, grace, ready, window, used, history>>

\* decide_manual_override: a target the pause switched off reports on, past the
\* grace of 90 seconds. No lock is taken here either.
Overriding ==
    /\ Active /\ ~rec.blocked /\ ~rec.overridden
    /\ (\E t \in rec.switches : IsOn(t)) \/ (rec.camToggled /\ IsOn(Cam))

TickOverrides ==
    /\ tick = "late" /\ op.who \notin {"auto", "schedule"} /\ Overriding
    /\ \/ Saves([rec EXCEPT !.phase = "active", !.overridden = TRUE])
       \/ SaveFails
    /\ tick' = "idle"
    /\ UNCHANGED <<device, lag, op, grace, ready, window, history>>

\* Nothing is overridden, or it is too early to tell.
TickDone ==
    /\ tick = "late" /\ op.who \notin {"auto", "schedule"}
    /\ tick' = "idle"
    /\ UNCHANGED <<device, lag, rec, op, grace, ready, window, used, history>>

-----------------------------------------------------------------------------
(* Frigate, Home Assistant and the household.                               *)

Awaited(t) == op.cur = t /\ op.pc \in {"await", "awaitbase"} /\ vis[t] = "seen"

\* A command takes effect.
Land(t) ==
    /\ lag[t] # "none"
    /\ LET now == IF lag[t] = "on" THEN "on" ELSE "off"
       IN  /\ real' = [real EXCEPT ![t] = now]
           /\ held' = IF now = "on" THEN held \ {t}
                      ELSE IF lag[t] = "off" /\ real[t] = "on" THEN held \cup {t} ELSE held
           /\ unseen' = IF Awaited(t) \/ real[t] = now THEN unseen ELSE unseen \cup {t}
    /\ lag' = [lag EXCEPT ![t] = "none"]
    /\ UNCHANGED <<vis, rec, op, tick, grace, ready, window, used, raced>>

\* Somebody else, or Frigate itself, switches a target.
External(t) ==
    /\ Spend("external")
    /\ real' = [real EXCEPT ![t] = IF @ = "on" THEN "off" ELSE "on"]
    /\ held' = held \ {t} /\ unseen' = unseen \cup {t}
    /\ UNCHANGED <<vis, lag, rec, op, tick, grace, ready, window, raced>>

Outage(t) ==
    /\ vis[t] = "seen" /\ Spend("outage")
    /\ \E v \in {"unavailable", "missing"} : vis' = [vis EXCEPT ![t] = v]
    /\ UNCHANGED <<real, lag, rec, op, tick, grace, ready, window, history>>

Return(t) ==
    /\ vis[t] # "seen" /\ (t = Cam => HasCamera)
    /\ vis' = [vis EXCEPT ![t] = "seen"]
    /\ UNCHANGED <<real, lag, rec, op, tick, grace, ready, window, used, history>>

WindowTurns ==
    /\ window' = ~window
    /\ UNCHANGED <<device, lag, rec, op, tick, grace, ready, used, history>>

\* Home Assistant stops and starts again: handlers and the tick are gone, the record
\* is loaded, and Frigate's entities may be registered late.
Crash ==
    /\ Spend("crash")
    /\ op' = Idle /\ tick' = "idle" /\ grace' = "off" /\ ready' = FALSE
    /\ rec' = Loaded(rec)
    /\ \E late \in SUBSET Targets :
         vis' = [t \in Targets |-> IF t \in late THEN "missing" ELSE vis[t]]
    /\ UNCHANGED <<real, lag, window, history>>

-----------------------------------------------------------------------------
Init ==
    /\ real \in [Targets -> {"on", "off"}]
    /\ vis = [t \in Targets |-> IF t = Cam /\ ~HasCamera THEN "missing" ELSE "seen"]
    /\ lag = [t \in Targets |-> "none"]
    /\ rec = NoRecord /\ op = Idle
    /\ tick = "idle" /\ grace = "off" /\ ready = FALSE /\ window = FALSE
    /\ used = [k \in FaultKinds |-> 0]
    /\ held = {} /\ unseen = {} /\ raced = FALSE

PauseStep ==
    \/ PauseRefused \/ PausePlan \/ ExtendPlan
    \/ \E t \in Targets : OffCall(t)
    \/ OffConfirmed \/ OffTimedOut \/ OffRecord \/ PauseFinish

ResumeStep ==
    \/ ResumeReturnsEarly \/ ResumeBegin \/ Preflight
    \/ \E t \in Targets : OnFound(t) \/ OnCall(t)
    \/ OnConfirmed \/ OnTimedOut \/ OnRecord \/ ToBaseline
    \/ \E t \in Targets : BaselineFound(t) \/ BaselineCall(t)
    \/ BaselineReadback \/ ResumeDecide \/ MarkActive
    \/ \E t \in Targets : Repause(t)
    \/ RepauseDone \/ HoldFailSafe \/ PersistError

TickLocks == SchedulePause \/ AutoResume \/ RecoverResume \/ RecoverReplayed
TickRecovers ==
    \/ TickWaits \/ TickFinalizes \/ TickRecoversPause \/ TickRecoversResume
    \/ TickNothingToRecover
TickGoesOn ==
    \/ TickEnds \/ TickPauses \/ TickReleases \/ TickUncovers \/ TickQuiet
    \/ TickOverrides \/ TickDone

Environment ==
    \/ \E s \in Scopes : AdminPause(s)
    \/ AdminResume \/ Cancel \/ Reload
    \/ \E t \in Targets : External(t) \/ Outage(t) \/ Return(t)
    \/ WindowTurns \/ Crash

Next ==
    \/ PauseStep \/ ResumeStep \/ TickLocks \/ TickRecovers \/ TickGoesOn
    \/ GraceEnds \/ (\E t \in Targets : Land(t)) \/ Environment

Spec == Init /\ [][Next]_vars

(* Every step of the running program is taken: asyncio runs whatever is ready, *)
(* the minute timer keeps the tick coming, the grace callback fires, and a     *)
(* command on its way arrives.  asyncio.Lock serves its waiters in order, so a *)
(* tick waiting for the lock is not overtaken for ever by administrators.      *)
Fairness ==
    /\ WF_vars(PauseStep) /\ WF_vars(ResumeStep)
    /\ WF_vars(TickRecovers) /\ WF_vars(TickGoesOn) /\ WF_vars(Reload)
    /\ SF_vars(SchedulePause) /\ SF_vars(AutoResume)
    /\ SF_vars(RecoverResume) /\ SF_vars(RecoverReplayed)
    /\ WF_vars(GraceEnds)
    /\ \A t \in Targets : WF_vars(Land(t))

FairSpec == Spec /\ Fairness

-----------------------------------------------------------------------------
(* Properties.                                                              *)

TypeOK ==
    /\ real \in [Targets -> {"on", "off"}]
    /\ vis \in [Targets -> {"seen", "unavailable", "missing"}]
    /\ lag \in [Targets -> {"none", "on", "off", "base"}]
    /\ rec \in RecordType
    /\ op \in OpType
    /\ tick \in {"idle", "recwait", "past", "autowait", "pausewait", "late", "reload"}
    /\ grace \in {"off", "running", "over"}
    /\ ready \in BOOLEAN /\ window \in BOOLEAN
    /\ used \in [FaultKinds -> Nat]
    /\ held \subseteq Targets /\ unseen \subseteq Targets /\ raced \in BOOLEAN

\* What a resume will turn on and what it will keep off never overlap, in the
\* record at rest, in the plan of an interrupted pause that a tick may still turn
\* into evidence, and in the copies a running handler works from.  Otherwise one
\* resume would switch a target on and off again, or light a camera the household
\* had left dark before the pause (README: "pre-existing manual-off targets
\* remain off").
EvidenceDisjoint ==
    /\ rec.switches \cap rec.preOff = {}
    /\ op.exp \cap op.pre = {}

\* A control call is issued only on durable intent: a turn_off for a target the
\* record already plans, lists or lists as off before; a turn_on only for a target
\* the record lists as switched off by us, and never while the record claims a
\* pause in force or in progress.  Across saves that fail, crashes and unlocked
\* ticks.
IntentAction ==
    \A t \in Targets :
        lag'[t] # lag[t] /\ lag'[t] # "none" =>
          LET ours == IF t = Cam THEN rec.camToggled ELSE t \in rec.switches
              plan == IF t = Cam THEN rec.camPlanned ELSE t \in rec.planned \cup rec.extPlanned
          IN  CASE lag'[t] = "on" -> ours /\ rec.phase \notin {"pausing", "paused", "partial"}
                [] lag'[t] = "off" -> ours \/ plan
                [] OTHER -> t \in rec.preOff

IntentBeforeControl == [][IntentAction]_vars

\* Once a pause has settled, every switch it turned off is in the list resume will
\* work through: nothing the integration darkened is forgotten.  The exceptions are
\* named: the switch changed when no readback saw it (it answered late, or did not
\* report during recovery), or a tick rewrote the pause while it was running.
EvidenceComplete ==
    LockFree /\ rec.phase \in {"paused", "partial"} =>
        \A t \in held \cap Switches : t \in rec.switches \cup unseen \/ raced

\* "paused" is never claimed over a target that is on, whether the pause turned it
\* off, planned to, or found it off, unless it was switched on behind the
\* integration's back (README: readback mismatches "never become a false success").
PausedIsTruthful ==
    rec.phase = "paused" =>
        /\ \A t \in rec.switches \cup rec.planned \cup rec.extPlanned \cup rec.preOff :
              real[t] = "off" \/ t \in unseen
        /\ rec.camPlanned \/ rec.camToggled => real[Cam] = "off" \/ Cam \in unseen

\* PausedIsTruthful of every pause that no schedule has extended, whatever fails; and of
\* an extended one while targets report, Home Assistant is not restarted, and not both
\* calls and saves fail: the extension may otherwise forget a target that the pause failed
\* on, or take one for done that a tick had listed.
PausedIsTruthfulIfSeen ==
    (rec.ext => /\ used["outage"] = 0 /\ used["crash"] = 0
                /\ used["call"] = 0 \/ used["save"] = 0)
        => PausedIsTruthful

\* A resume claims "active" only when nothing that the pause switched off is still
\* off (same exceptions as EvidenceComplete).  A failed save leaves the record behind
\* the switches (ActiveMeansRestored); a tick that gives up a running pause for a
\* missing target knows only what is off by then, which a restart makes final; and the
\* camera entity is forgotten when a pause is interrupted (ActiveMeansStreaming).
ActiveIsVerified ==
    [][rec.phase # "active" /\ rec'.phase = "active" /\ ~rec'.overridden /\ used'["save"] = 0 =>
         /\ used'["crash"] = 0 \/ used'["outage"] = 0 =>
              raced \/ held \cap Switches \subseteq unseen
         /\ used'["crash"] = 0 /\ used'["cancel"] = 0 =>
              raced \/ Cam \notin held \/ Cam \in unseen]_vars

\* A resume ends without success when it returns its failure, when the save of that
\* failure raises, or when it is cancelled, except in its last save.
ResumeGivesUp ==
    /\ op.kind = "resume" /\ LockFree' /\ op.pc \notin {"reserve", "mark"}
    /\ used'["crash"] = used["crash"]

\* A resume that gives up, because targets failed or were not available, because its success
\* could not be saved or because it was cancelled, leaves on none of the targets that it
\* turned on or found on: each is off or has its turn_off on the way.  Exceptions: it was
\* cancelled while async_mark_active saves its success, or Home Assistant was restarted,
\* which nothing compensates (everything that was turned on stays on, under a record that
\* still says "resuming"); the target changed when no readback saw it; or it was on before
\* and the resume had not come to it (after a restart in the middle of a resume, say:
\* nobody counts what an interrupted attempt had re-enabled). (README: "attempts to
\* restore any target that was re-enabled during a failed resume").
Relit == op.done \cup (IF op.camDone THEN {Cam} ELSE {})
FailedResumeRepauses ==
    [][ResumeGivesUp =>
         \A t \in op.exp \cup (IF rec.camToggled THEN {Cam} ELSE {}) :
             real'[t] = "off" \/ lag'[t] = "off" \/ t \in unseen' \cup (op.lit \ Relit)]_vars

\* A schedule's pause that was overridden is not paused anew while the override stands,
\* however long the tick waits for the lock and whatever a handler makes of the record
\* meanwhile (README: "the same active coverage is not immediately re-applied").
ScheduledOverrideStands ==
    [][rec.overridden /\ rec.src = "schedule" =>
         ~(op.who = "schedule" /\ rec'.phase = "pausing" /\ ~rec'.overridden)]_vars

\* An interrupted pause or resume does not stay interrupted: the tick recovers it,
\* or declares its missing targets after the grace period.
InterruptionSettles == Interrupted ~> ~Interrupted

\* A handler that holds the camera lock gives it back.
LockIsReleased == ~LockFree ~> LockFree

\* A window that stays open makes a discovered camera private, whatever state a stop or
\* an earlier transition left its record in, unless an override stands.
WindowIsApplied ==
    window /\ Discovered /\ ~Active /\ ~Suppressed
        ~> Active \/ ~window \/ ~Discovered \/ Suppressed

\* A schedule's pause outside every window does not last: it is resumed, or held for an
\* administrator to see.
WindowEndIsHonoured == MustEnd ~> ~MustEnd

\* An override does not outlast its window: a later occurrence pauses again.
OverrideIsReleased == Suppressed /\ ~window ~> ~Suppressed \/ window

-----------------------------------------------------------------------------
(* What the repository says of the program and the code does not keep.      *)

\* README: the integration "does not claim the camera is active until the changed
\* targets pass readback".
ActiveMeansRestored ==
    [][rec.phase # "active" /\ rec'.phase = "active" /\ ~rec'.overridden =>
         held \cap Switches = {}]_vars

\* CHANGELOG: the camera is verified "idle -> streaming on resume, including after
\* a restart".
ActiveMeansStreaming ==
    [][rec.phase # "active" /\ rec'.phase = "active" /\ ~rec'.overridden =>
         Cam \notin held]_vars

\* README, of a manually re-enabled target: "For a schedule, the same active coverage is
\* not immediately re-applied" (windows that have opened stay open: OneWindow).
OverrideIsHeeded ==
    [][rec.overridden /\ window /\ (rec.cov \/ rec.src = "schedule") =>
         ~(op.who = "schedule" /\ rec'.phase = "pausing" /\ ~rec'.overridden)]_vars

\* storage.py, async_mark_resume_blocked: "automatic resume is blocked and paused
\* state remains".
HoldNeedsAdmin ==
    [][rec.blocked /\ Active /\ ~rec'.blocked => op.who = "admin"]_vars
=============================================================================
