# Formal model of Frigate Privacy

TLA+ modules, model checks and machine-checked proofs for the Home Assistant
integration in `src/custom_components/ha_frigate_privacy` and its browser card
(`src/ha-frigate-privacy.js`, served as `www/ha-frigate-privacy-card.js`).

The integration switches off the detection, recording, snapshot and sound
switches of a Frigate camera (and the camera itself), remembers exactly what it
switched off, and later switches back on that and nothing else. It has to do so
although Frigate answers late or not at all, Home Assistant restarts at any
moment, saves fail, clients retry, and administrators, a scheduler and start-up
recovery act on the same camera. The card asks for these operations and has to
tell what became of them, although answers come late, in part or never, and the
user or the connection may be another one by then.

## 1. The system

### Components, their state and operations

| Component | State | Operations |
|---|---|---|
| `control.py` transitions | one asyncio lock per camera; the local variables of the handler that holds it | pause, schedule extension, resume, extension of a deadline, recovery of interrupted transitions, end of start-up grace |
| `storage.py` durable record | one JSON document: a record per camera (phase, plan, evidence, hold and override marks, operation history), schedules, replay filters, period history; one lock of its own | set, transition, mark active / blocked / overridden, release, reserve an operation, schedule operations; each is read-modify-save with rollback |
| `scheduler.py` | a grace callback, a minute timer, a task per tick | recover, end windows and deadlines, pause for open windows, detect overrides, release them; window arithmetic |
| `failsafe.py` | none | pure decisions: may a resume claim success; is a pause overridden |
| `replay.py` | a monotonic filter per camera and one for schedules | admit an operation id once, refuse when full, normalise on load |
| `periods.py` | none; its rows live in the storage document | project a record to a row, validate, merge, retain, capture |
| `__init__.py` | the recovery-ready gate | setup, unload, camera and schedule services |
| `websocket_api.py` | none | validation and projections; mutations go to the same functions |
| `notifications.py` | marks of what was sent | reserve a mark, deliver |
| entities, `config_flow.py`, `frontend.py` | none of their own | projections, one-instance form, static resource |
| card: session | the session, what is known of the connection, an epoch, the state shown, the one request on the wire, its result, the open confirmation | poll, pause, extend, resume, set a schedule, judge the answer and read the state back; take a new session, configuration, place in the page |
| card: panels | tab, configuration, history panel, preview, test notification | read the history, load a preview, send a test, change tab or configuration |
| `shared/` | none | formatting, collation, styles; of them the card's choice of the time zone |

### How they interact

A service or websocket command, or the tick, calls a handler of `control.py`.
The handler waits for the camera lock, reserves its operation id in storage,
saves its intent, and then alternates Home Assistant service calls, bounded
readback loops and saves. The tick runs as its own task: its pauses and resumes
queue for the same lock, **but its recovery of a pause, its end of grace, its
override detection and its releases write the record without that lock.** The
storage lock makes single writes atomic and nothing more. Every save derives
the period history and writes it together with the record. Before recovery has
finished, administrators are refused (`DATA_RECOVERY_READY`).

The card talks to the integration over Home Assistant's websocket only. It polls
`get_state` on a timer and after each of its requests; a request for several
cameras is answered with a row per camera and a total, and success is told only
after a fresh read of the state agrees. Lovelace gives the card a new `hass`
whenever anything in Home Assistant changes, and with it possibly another user,
connection or instance. Every answer is compared with an epoch (or, in the
panels, with a token of its own) to find out whether it still counts.

### What is hard

* a handler works from copies of a record that an unlocked tick may rewrite;
* a stop between a `turn_off` and the save of its outcome, or a failed save
  there: only the plan knows which target is dark;
* a command that lands after its two-second readback has given up;
* entities that come back late, or never, after a restart;
* a resume that fails half way, is cancelled, or cannot save its success, and
  must undo what it did while it is being stopped;
* request ids retried in any order over a bounded history, with saves that were
  cancelled in memory but reached the disk;
* a stored history that one bad row makes unreadable as a whole;
* answers to the card that outlive the session, the connection or the deadline
  they were asked for, and requests carried out in part;
* imports, reads and calls that never settle under a panel of the card.

`PROJECT.json` lists each at its line, with the property that covers it or the
reason why none does.

### What makes each part correct

* **transitions**: no control without durable intent; what was switched off is
  never forgotten and never mixed with what was off before; "paused" and
  "active" are claimed only when true; a failed resume restores privacy; an
  interrupted transition settles; the lock is released.
* **replay**: a request decides at most once; a decision is never forgotten; a
  replayed success is true.
* **periods**: the history stays readable, to the integration and to the card;
  it agrees with the record; failures and finished periods do not disappear.
* **schedules**: a window covers the minutes it names and there is no lapse
  between adjoining windows; card and scheduler agree when a pause is over.
* **card, session**: one request at a time; nothing of another session; nothing
  without authority; success only of what was carried out and is confirmed; it
  always finds out whether it is connected.
* **card, panels**: what is on screen is the present user's and current; what
  timed out stays so; a preview settles; a default tab is visible.
* **card, display**: the header is not better than the worst camera; a pause is
  called applied only on evidence; what is offered works; the keyboard focus is
  neither lost nor taken away.

## 2. Modules

### `PrivacyControl`: one camera, its handlers and the tick

The variables are `real` (what Frigate does), `vis` (how Home Assistant shows
it), `lag` (a command on its way), `rec` (the durable record), `op` (the handler
under the camera lock: which one, its program counter and local variables),
`tick` and `grace` (the scheduler), `ready` (the administrators' gate), `window`
(is any schedule window open) and `used` (faults so far). `held`, `unseen`,
`raced` and the field `op.lit` are history: nothing reads them but properties.

| Code | Actions |
|---|---|
| `async_pause_camera` | `AdminPause`, `SchedulePause`, `PauseRefused`, `PausePlan` (intent saved), `OffCall`, `OffConfirmed`, `OffTimedOut`, `OffRecord` (outcome saved), `PauseFinish` |
| `_async_extend_schedule_pause_locked` | `ExtendPlan`, then the same steps |
| `async_resume_camera` | `AdminResume`, `AutoResume`, `RecoverResume`, `RecoverReplayed`, `ResumeReturnsEarly`, `ResumeBegin`, `Preflight`, `OnFound` ... `OnRecord`, `ToBaseline`, `Baseline...`, `ResumeDecide`, `MarkActive` |
| its fail-safe and cancellation exits | `Repause`, `RepauseDone`, `HoldFailSafe`, `PersistError`, `Cancel`, `Reload` |
| recovery and grace | `TickWaits`, `GraceEnds`, `TickFinalizes`, `TickRecoversPause`, `TickRecoversResume`, `TickNothingToRecover` |
| the rest of the tick | `TickEnds`, `TickPauses`, `TickReleases`, `TickUncovers`, `TickQuiet`, `TickOverrides`, `TickDone` |
| Frigate, Home Assistant, the household | `Land`, `External`, `Outage`, `Return`, `WindowTurns`, `Crash` |

A handler step between two `await`s is one action. A save is one step that
succeeds, or fails and leaves the record as it was. A service call returns or
raises, and in both cases its command may be on its way or lost.

Abstractions, all of them deliberate: one camera; the set of open windows is one
boolean; the operation id of a request is in `ReplayLedger` instead; a deadline
may be due at any tick; the tick reads and writes in one step (the handler is
still interleaved with it at every `await`); a failed save leaves memory and
disk equal (the cancelled save that reaches the disk is in `ReplayLedger` and
`PrivacyPeriods`); a reload waits for the cancelled handler.

### `ReplayLedger`: operation ids, history and filter

`mem` and `disk` are the storage object's data and what a restart would load;
`op` is the handler; `decided` is a history variable: keys whose intent ever
reached the disk. Requests are sent again and again in any order; generated ids
are numbered. The Bloom filter is an exact set with its admission count: a false
positive would refuse a request, which the model may do anyway by not admitting
it. A record of an older release starts with a history and no filter; ids known
only from a record before that are not modelled. The extension that a schedule
makes does not touch the ledger.

### `PrivacyPeriods`: the history that is saved with the record

`mem` and `disk` hold the records and the history. `Project`, `Readable`,
`Merged`, `Retained` and `Captures` translate `periods.py`; `Save` is
`_save_locked`, for every save of a pause in the order of `control.py`;
`CardAccepts` is what the card's own validator refuses. Records carry only what
a projection reads. `"paused"` stands for `partial` too, the byte bound is
folded into the bound on rows, generations count pauses only, and a record of a
release without history, and a history that cannot be read, are initial states.
`stepped` remembers that the clock was set back. A schedule extension during a
period and a tick that races a running handler are left to `PrivacyControl`.

### `ScheduleWindows`, `Deadlines`: the arithmetic of time

Pure definitions and their theorems. `InWindow`, `Active` and `MinuteOf`
translate `scheduler.py`; `Covers` says independently what a window is: the
minutes since one of its openings, in a week that repeats. `Deadlines` puts the
card's countdown, in milliseconds rounded up to minutes, beside the scheduler's
condition, in microseconds.

### `CardResults`, `ConfirmedRequest`, `CardSession`: the card and its one request

`CardResults` holds the card's verdicts as functions: `_mutationResult` on an
answer (rows may be missing, repeated or of a camera nobody asked for),
`_mutationReadback` on the state read afterwards, and the result told for each
camera.

`ConfirmedRequest` is the abstract promise, without cameras, sessions or
connections. It has two variables, the stage of the outstanding request and what
the user is told, and says: one request at a time; while its result is awaited
nothing else is told; success is told only of a request that was carried out in
full.

`CardSession` is the card. `attached`, `hass` and `down` are its surroundings
(in the page or not, the session that Lovelace gave it, the lines that are
down), `heard` what it knows of the lines; `view`, `shown`, `filter`, `dialog`,
`busy`, `wire`, `outcome` and `acts` its own state; `poll` and `cmds` what is
under way; `srv` the integration, as far as its commands answer; `used` the
bounds. An answer under way is fresh or not, which is what the epoch decides.
`Promise == INSTANCE ConfirmedRequest WITH stage <- RequestStage, told <-
RequestTold` shows that the card implements the promise.

| Code | Actions |
|---|---|
| `connectedCallback`, `disconnectedCallback`, `set hass`, `setConfig` | `Attach`, `Detach`, `ChangeSession`, `SameSession`, `Configure` |
| `online`/`offline` and socket listeners | `GoesDown`, `ComesUp` |
| `_connect` on a timer, by retry and by refresh | `Poll`, `Retry`, `Refresh`; `PollArrives`, `PollFails`, `PollDenied` |
| the user's requests | `Pause`, `Extend`, `OpenResume`, `CancelResume`, `AcceptResume`, `SetSchedule` |
| the integration's answer | `Serve`, `ServeSchedule`, `Fail` (refused, or carried out in part before it raises), `Elsewhere` (another administrator, the scheduler, recovery) |
| the rest of `_mutate` | `Refused`, `Accepted`, `ReadBack`, `ReadBackFails`, `Denied`, `Ignored` (the answer does not count any more) |

### `CardPanels`: history, preview, test notification, tabs, configuration

`place`, `screen` and `known` are the session, what is on screen and the state
the card holds; `history` and `read` the history panel and the read on the wire;
`preview` the one preview with its load, its element and loads that were left
behind; `test` and `notice` the test notification. The polls of `CardSession`
are one step here (`Learn`, `LearnNothing`, `LearnDenied`): what matters to the
panels is what the card knows. Deadlines are steps that may come at any time
while something is awaited (`ReadExpires`, `LoadFails`, `TestExpires`).

| Code | Actions |
|---|---|
| session, connection | `Attach`, `Detach`, `ChangeSession`, `GoOffline`, `GoOnline`, `LearnDenied` |
| `setConfig`, the visual editor, tabs, compact view | `Write`, `Edit`, `SetTab`, `OpenFull`, `CloseFull`, `PickCamera`, `SetRange` |
| `_refreshPeriods` | `Read`, `ReadExpires`, `ServeRead`, `ReadArrives`, `ReadFails`, `ReadDenied`, `ReadIgnored`, `Discard` |
| `_togglePreview`, `_loadPreview`, `_previewWait` | `TogglePreview`, `LoadContinues`, `LoadFails`, `LateLoad` |
| the test notification | `Test`, `TestExpires`, `TestArrives`, `TestFails`, `TestDenied`, `TestIgnored` |

### `CardDisplay`: what the card shows

Pure decisions, with their theorems: the header (`PhaseSummary`), the scope a
paused camera is said to be protected in (`Applied`), the badge of several
channels, the buttons of a tile against the handler behind them (`Offered`,
`Accepts`), the message of a result, the wording of a period, the time zone,
and the keyboard focus over redraws (`SyncNavigation`, `FocusControl`,
`KeepPage`, `ReplacePage`).

### `*Proofs` and `MC*`

Proofs about a state machine are in a module that extends it:
`PrivacyControlProofs`, `ReplayLedgerProofs`, `PrivacyPeriodsProofs`,
`CardSessionProofs` (with the lemmas about `CardResults`), `CardPanelsProofs`.
The small modules of pure definitions hold theirs themselves. `MCPrivacyControl`, `MCReplayLedger`,
`MCPrivacyPeriods`, `MCCardSession` and `MCCardPanels` name the model values,
fault budgets and state constraints of the runs.

## 3. What the runs show

All runs end without error except the five marked as disagreements.

| Run | Question | Bounds | States |
|---|---|---|---|
| `calls` | `PausedIsTruthful`, `EvidenceDisjoint`, `EvidenceComplete`, `IntentBeforeControl`, `ActiveIsVerified` | two switches in different scopes and a camera; one call lost, late or raising | 2.6 M |
| `stops` | `TypeOK`, `PausedIsTruthfulIfSeen`, `FailedResumeRepauses` | one switch; one each of bad call, failed save, cancellation, outside change and outage; `FewFaults`: any two of these, or the first three together | 5.6 M |
| `liveness` | `EvidenceComplete`, `PausedIsTruthful`, `ScheduledOverrideStands`, `InterruptionSettles`, `LockIsReleased`, `WindowIsApplied`, `WindowEndIsHonoured`, `OverrideIsReleased` | one switch; one restart | 0.15 M |
| `replay` | `TypeOK`, `DecisionsRemembered`, `ReplayedResumeIsTrue`, `DecidesOnce` | four requests and generated ids; history 2, filter 4, two faults | 3.3 M |
| `history` | `HistoryReadable`, `CurrentPeriodTold`, `FailuresStayVisible`, `CurrentPeriodKept`, `FinishedPeriodsKept` | one camera, two targets; a period of an older release, room for one period, two pauses, two days, one fault; `SecondAlone`: a second pause follows only where both concern the same single target; `OldAlone`: after a period of an older release a fault meets no second pause and only a pause of a single target | 0.5 M |
| `session` | `TypeOK`, `OneRequestAtATime`, `NoForeignState`, `NothingWithoutAuthority`, `KeepsPromise`, `SuccessIsConfirmed`, `WireIsReleased`, `SessionIsChecked` | two cameras, one schedule; two administrators and a guest; the socket may go down; two requests, two changes of session, one change made elsewhere, three of all these together (one made elsewhere counts twice) | 0.7 M |
| `panels` | `TypeOK`, `DefaultIsVisible`, `HistoryFits`, `PreviewFits`, `TabClosesPreview`, `TimeoutsAreFinal`, `PreviewSettles` | two cameras, two administrators and a guest; three configurations; two changes of session, one of state, three clicks, four together | 1.6 M |
| `restored`, `streaming`, `override`, `hold`, `inprogress` | disagreements, section 4 | the smallest instance that shows each | |

*Why the bounds are enough to meet the interesting cases.* Two switches in
different scopes let one succeed while the other fails, and let a schedule
extend a narrower pause. Faults are budgeted by kind, so that each run combines
those that its question is about: one of each is what it takes to strand a
target. Phases, pauses, resumes and windows are not bounded in `PrivacyControl`:
its runs explore any number of them. A history of two evicts at the third
decision and a filter of four fills up. Room for one period makes retention
choose between the period that is over and the one that is current. Two
administrators are what it takes for one to find something of the other, two
cameras for a request to succeed in part, two request ids for an old answer to
meet a new request.

*What the runs about `PrivacyControl` do not combine.* Two switches are never
combined with a restart, and `stops` combines two faults, or those that a handler
meets by itself. Section 5 proves `EvidenceDisjoint`, `EvidenceComplete`,
`IntentBeforeControl`, `ActiveIsVerified`, `FailedResumeRepauses` and
`PausedIsTruthfulIfSeen` for all of them.

*What does not hold for every combination.* `PausedIsTruthful` holds in `calls`
and `liveness`, and not in general. An extension by a schedule looks at the
switches that have a state at that moment only and judges what it does itself
(`control.py:972-1105`): a target that the pause had planned, failed on and still
has on, and that is gone when the extension looks, is forgotten, and the extended
pause is saved as "paused". It takes two switches and a restart; or an outage
with a bad call; or an outage with an outside change and a cancellation. It
happens without an outage to a bad call, a cancellation, an outside change and a
failed save together. Hence `PausedIsTruthfulIfSeen`: a pause that no schedule
has extended claims nothing false whatever fails, and an extended one does not
while targets report, Home Assistant is not restarted, and not both calls and
saves fail.

`ActiveIsVerified` sets two more cases aside. A failed save leaves the record
behind the switches (`restored`, section 4). And a tick that finalizes a pause
while it runs, since a target is missing, takes for evidence what is off by then;
Home Assistant restarted before the pause has saved its outcome knows no more.

`FailedResumeRepauses` says of a resume that gives up that each of its targets is
off or has its `turn_off` on the way, but for those that changed when no readback
saw it, and those that were on when the resume began (`op.lit`) and that it had
not come to. It is a property of the step that ends a resume (`ResumeGivesUp`):
the failure is returned, its save raises, or the resume is cancelled. Two endings
are not among them: a restart, and a cancellation while the last save is under way
(`pc = "mark"`; `control.py:1571`), which `except Exception` at 1594 does not
catch. Both leave on what the resume had turned on, under a record that still says
"resuming" if the save did not get through; the next attempt counts only what it
finds, hence `op.lit`.

*What `history` excepts.* `FinishedPeriodsKept` lets a period go by the bounds
of age and number, and where the clock was set back while the disk was ahead of
memory. `CurrentPeriodTold` and `CurrentPeriodKept` are about a clock that is
not set back: a period that began in what has become the future is projected
without its date and gets a second row. What the bounds have taken does not come
back by itself when there is room again: the row of another camera's current
period is missing until that camera's next save, or until the integration
projects it again. So `CurrentPeriodKept` says of a *step* what the bounds may
take; said of a state it is false as soon as there are two cameras.

*Deadlock* is checked in the `PrivacyControl` runs. It is not in
`MCReplayLedger.cfg`, where a full filter admits nothing more for ever (as in
the code), and in the configurations of `PrivacyPeriods`, `CardSession` and
`CardPanels`, where pauses, days, requests and clicks are bounded.

*Fairness.* `liveness`: `WF` on handler and tick steps, since asyncio runs
whatever is ready, every readback loop is bounded and the minute timer keeps the
tick coming. `WF` on `GraceEnds` (a scheduled callback) and on `Land` (a command
on its way arrives). `SF` on the steps with which a tick takes the camera lock:
`asyncio.Lock` serves its waiters in order, so a waiting tick is not overtaken
for ever although the lock is not continuously free. Nothing is assumed of
administrators, windows, outages or entities returning; the grace period is what
makes recovery settle without them. `session`: `WF` on `Poll` (an interval
timer), on `SameSession` (Lovelace assigns `hass` again whenever any state
changes), on the answer to a poll and on the handling and delivery of a request
(the websocket answers, or rejects what is pending when it closes). `panels`:
`WF` on the steps of a preview's load. The imports race with a timer of ten
seconds each; `createCardElement` does not (`ha-frigate-privacy-card.js:841` awaits
it without `_previewWait`), and that Home Assistant's helper returns or throws is
assumed of it. Nothing is assumed there of users, networks or the integration.

Each property of a passing run has a mutant in `PROJECT.json`: an operator,
marked "Mistake" in the module, that changes one action as a plausible bug would
and makes that property fail.

## 4. Where code and documentation disagree

Shown by a run each:

* `restored`: after a `turn_off` whose outcome could not be saved, an
  administrator's resume that comes before the next tick finds no evidence and
  records "active" over a switch that is off (`control.py:875`; README.md:351).
* `streaming`: recovery of an interrupted pause tests the camera for `off`,
  which a stopped Frigate camera never reports (it reports `idle`); the camera is
  forgotten and a later resume claims "active" over it (`control.py:1752`;
  CHANGELOG.md:51).
* `override`: a manual pause that a window has widened keeps its source. When
  somebody switches a target on during the window, the override is recorded, but
  only an override of a *schedule's* pause keeps its windows from applying: the
  next tick pauses again (`scheduler.py:200`; CHANGELOG.md:88-91). The run leaves
  an open window open (`OneWindow`), so that the coverage is the same.
* `hold`: an automatic resume that had queued before another resume was held
  goes ahead and clears the hold (`storage.py:458`).
* `inprogress`: a refresh of the settings while a request is under way takes a
  new epoch, so that the request's answer is dropped and its result is told as in
  progress until the session or the page changes (`ha-frigate-privacy.js:452`,
  `561`, `584`; README.md:100).

`ActiveIsVerified` and `EvidenceComplete` state what does hold: the same claims
up to targets that changed when no readback saw them (`unseen`) or a pause that
a tick rewrote while it was running (`raced`); `ActiveIsVerified` also sets aside
failed saves, and restarts together with outages (section 3).

Met while modelling and left to the reader, since nothing documents otherwise:

* an extension by a schedule forgets a failure of the pause it extends, where
  the switch has no state at that moment (section 3);
* a resume cancelled within its last save leaves on all that it turned on, while
  a failure of the same save switches it off again (`control.py:1571`, `1594`;
  excepted from `FailedResumeRepauses`): the README speaks of a failed resume only,
  and the scheduler continues the resume at its next start;
* a request for several cameras that meets a full filter at a later camera
  raises as if nothing had been done; the cameras before it stay controlled
  (`storage.py:341`; the model's `Fail`);
* a card that was out of the page when a line came back, and is put in again,
  stays in "Connecting" until the session or a line changes
  (`ha-frigate-privacy.js:366`; hence `heard` in `SessionIsChecked`);
* a changed configuration takes the user from the control tab without closing
  the preview, which the README promises of changing tabs (README.md:104;
  `TabClosesPreview` is about tabs that the user leaves); closing the opened
  compact card shows the control tab even where it is hidden;
* the visual editor refuses every change to a configuration written by hand
  that hides the control tab and names no default;
* a card whose configuration widens keeps showing what it had selected (466);
  a schedule form loses its draft when its answer does not count (637);
* without authority a quick pause is still sent, while a resume is refused
  silently;
* a planned camera that streams again still stands under "applied scope": only
  the video of a camera that was not a verified target is looked at.

## 5. What is proved

All of it for every value of the constants, under the assumptions that the
modules name.

`PrivacyControlProofs`, for every set of switches, both kinds of camera and
every budget of faults (`TargetsAssumption`, `BudgetAssumption`):

* `TypeCorrect`: `Spec => []TypeOK`;
* `EvidenceStaysDisjoint`: `Spec => []EvidenceDisjoint`;
* `IntentPrecedesControl`: `Spec => IntentBeforeControl`;
* `EvidenceIsComplete`: `Spec => []EvidenceComplete`;
* `PausedIsTrue`: `Spec => []PausedIsTruthfulIfSeen`;
* `PausedIsTrueWhereSeen`: `Spec => []PausedIsTruthful`, if the budget has no
  outages and restarts, and bad calls or failed saves but not both;
* `ActiveIsTrue`: `Spec => ActiveIsVerified`;
* `ScheduledOverridesStand`: `Spec => ScheduledOverrideStands`;
* `FailedResumesRepause`: `Spec => FailedResumeRepauses`;
* `HandlersAdvance`: `Spec => [][HandlerAction]_vars`;
* `AlwaysIInv`: the inductive invariant they all rest on.

`EvidenceDisjoint` alone is not inductive. A tick may turn the *plan* of an
interrupted pause into evidence, so the plan must avoid the baseline too
(`PlanDisjoint`); a running handler writes back what it has done, so that and
what it has left must lie within the record although a tick may have rewritten
it meanwhile (`TurningWork`); a resume works from copies, which stay equal to the
record because no unlocked step changes the evidence of a resuming record
(`ResumeCopies`, `ResumeWork`); and a handler that has just taken the lock has
done nothing (`Fresh`). The proof has one step per action.

The others need an invariant each on top of it, `ActiveIsVerified` two.

* `EvidenceComplete` is about records at rest; `EInv` follows a switch that a
  pause darkens from the plan to the handler that works on it and to the record
  (`Remembered`). All that a handler has done or left to do lies within the plan
  (`WorkPlanned`), which is where a recovery looks, so that no tick can lose what
  is not `unseen` or `raced`.
* `PausedIsTruthfulIfSeen` has two parts. Of a pause that no schedule has extended
  (`PlainInv`): what it has done or found off is off (`WorkOff`), and until a
  target fails each one asked for is done, was off, or is still to come
  (`NothingSkipped`); no other fault matters, since a tick leaves alone what was
  asked and was off, and what changes later is `unseen`. An extension starts from
  the record instead, which must then be true itself (`TInv`): what it lists is
  off (`RecordOff`) although ticks rewrite it, and every switch reports when the
  extension looks (`SwitchesSeen`). The latter fails with outages and restarts.
  The former fails where a tick lists what the handler is about to turn off, the
  target comes on again, its call raises and the save that would take it off the
  list fails too: with saves that succeed it is an exception for one step
  (`Raised`).
* `ActiveIsVerified`: what a resume has behind it is on, until it fails
  (`Restored`), and what was off before the pause is none of ours (`Baseline`);
  the record that a resume starts from lists all that is dark (`Stored`), because
  a stranded pause waits for its recovery before anybody may resume it
  (`StrandedWaits`) and a running one is not given up while its targets report
  (`PlanSeen`). `VInv` says so of histories without a failed save and without an
  outage together with a restart. The camera entity needs its own (`CInv`): an
  extension saves its outcome only at the end and no recovery finds it `off`, so
  that while a pause works only its handler knows that the camera is dark
  (`CamWork`), then the record (`CamStored`), then the resume that still has to
  start it or has failed to (`CamRestored`). That needs every pause that is
  "pausing" to have its handler: saves succeed, Home Assistant is not restarted
  and no handler is cancelled (`Calm`). Bad calls and outages do no harm.
* `ScheduledOverrideStands`: while a tick waits to pause, no override of a
  schedule's pause stands (`OInv`). The tick saw none, only a tick records one, and
  a handler that gets in between changes neither the mark nor who asked for the
  pause, unless it plans a new one and clears the mark (`OverrideKept`).
* `FailedResumeRepauses`: `RInv` accounts for each target of a running resume
  (`Accounted`): off or left as it was found, turned on and counted, called and
  awaited, to be turned off, or about to go off. A cancellation finds by reading
  what a handler had called and not yet counted. The step that gives up comes from
  `hold` or `persist` (`GivesUpHeld`), or cancels the resume before its first call
  or after its last (`GivesUpCancelled`): nothing is then left to be turned off. No
  fault is bounded; the endings and targets of section 3 are excepted.

`HandlersAdvance` is the part of `LockIsReleased` that needs no fairness. Each step of
a running handler, a cancellation included, ends it, takes it to a later stage
(`Stage`), leaves fewer targets to be called (`Coming`) or brings a call nearer to its
end (`Settling`): no fault sends it back. A handler of finitely many switches
therefore takes finitely many steps while it holds the camera lock; that it takes
them at all is the fairness of the `liveness` run.

`ReplayLedgerProofs`, for every set of requests, history bound, filter capacity
and number of faults (`RequestsAssumption`, `BoundsAssumption`):

* `DecisionsAreRemembered`: `Spec => []DecisionsRemembered`;
* `DecidesAtMostOnce`: `Spec => DecidesOnce`;
* `LedgerTypes`: `Spec => []TypeOK`, with the bounds of history and filter;
* `ReplaysAreTrue`: `Spec => []ReplayedResumeIsTrue`.

Evicting an entry is harmless only because the filter holds the whole history by
then. That is so while a handler runs, since its reservation put the history in
(`HandlerReserved`). A resume continued after a restart makes no reservation, so
the same must hold of every record that is resuming, in memory and on disk
(`ResumeReserved`). `AdmittedOnce` carries the reservation's verdict to the step
that decides. The bounds and the truth of replays need more of the entries
themselves (`LInv`): no two are of the same generation, so that a history cut to
its latest is small (`BoundedIsSmall` maps its entries one to one into
`0 .. HistoryBound - 1`); none is of a generation that is still to come; that of
a resume in progress is the resume's own; and one that says "resumed" of the
present generation is of a record that is active. That holds of what is on disk
too, and a handler works on its own entry (`WorksOnOwn`).

`PrivacyPeriodsProofs`, for any cameras, targets and bounds (`BoundsAssumption`,
`WordsAssumption`, `RecordsAssumption`: the value for "none" is neither a date,
a word nor a record):

* `AlwaysReadable`: `Spec => []HistoryReadable`;
* `OutcomesStay`: `Spec => FailuresStayVisible`;
* `RowsTellRecords`: `Spec => []CurrentPeriodTold`;
* `CurrentPeriodStays`: `Spec => CurrentPeriodKept`;
* `EarlierPeriodsStay`: `Spec => FinishedPeriodsKept`.

The validator refuses a verified row that lacks a target or shows a failure, and
merging two rows could make one. It cannot, because a record that claims a
verified restore holds proof for every target and no override (`GoodRecords`),
so that its row already shows them all and a merge adds none. That has to hold
of every record and row in memory and on disk (`GoodStore`). A restart loads the
disk, which a failed save may have left ahead of memory: it has lost no outcome
(`DiskHasGrown`).

Which periods stay rests on a second invariant (`PInv`). No row is of a later
generation than its record (`RowsOfRecords`), so that a new period never takes
the identity of a finished one, whatever the clock does. While the clock goes on,
no date lies in the future (`Timely`), each row of a current period tells its
record (`Agrees`), and what the disk lacks of memory has gone by the bounds
(`KeepsFinished`, `KeepsCurrent`): that is what a restart may lose. Every save is
the same step to these proofs: the record of one camera is followed by one of the
same period or of the next (`Follows`), its row replaces at most the row of that
identity (`Captured`), and `RetainedDrops` says what retention may take.

`CardSessionProofs`, for any cameras, schedules, sessions, lines, request ids and
bounds (`SessionAssumption`, `StartAssumption`, `AnswerAssumption`):

* `TypeCorrect`, `OneRequest`, `OwnSession`, `NothingUnseen`: the four
  invariants of the `session` run;
* `SuccessIsTrue`: `Spec => SuccessIsConfirmed`;
* `PromiseIsKept`: `Spec => KeepsPromise`, the refinement of `ConfirmedRequest`.

The invariant ties the wire to the one request (`Wired`), says whose an
outstanding request is (`Mine`), what must be so for its answer to count
(`Fresh`: the same session, with authority, and its result still awaited), that
all that is known is the present user's (`Learned`), that a card which has heard
of a line down has checked nothing (`Unchecked`), and that a result is awaited
only by a busy card (`Awaited`). Without `Fresh` an answer could be told in
another's session; without `Awaited` a new request could be sent while another
is told as pending, which the abstract specification forbids. Success needs
`SuccessIsOfEveryCamera`, `CameraSuccessIsConfirmed`, `VerdictsAgree` and
`MixedIsPartial`, which are about any answer whatever.

`CardPanelsProofs`, for any cameras, users, configurations written by hand and
bounds (`PanelsAssumption`, `WrittenAssumption`: what is written passes
`setConfig`):

* `TypesAreOK`, `DefaultIsAlwaysVisible`, `HistoryAlwaysFits`,
  `PreviewAlwaysFits`: the four invariants of the `panels` run;
* `LeavingClosesPreview`: `Spec => TabClosesPreview`;
* `TimeoutsStayFinal`: `Spec => TimeoutsAreFinal`.

The invariant says of the configuration and the tabs what each edit keeps
(`TabsOK`); of the history panel that a read whose answer still counts was sent by the
present user for the present range, and that its answer is not older than the
state the card holds (`Panel`); of a preview's load that it has a camera and
nothing on screen yet (`PreviewOK`); and of the test notification that nothing
has been told while its answer still counts (`TestOK`).

The pure modules:

* `ScheduleWindows`: `WindowIsCovered` (the scheduler's test is what a window is,
  over midnight and the end of the week), `NoLapseBetweenWindows`;
* `Deadlines`: `AwaitingIsDue` (the card says it awaits the integration when, or
  at most a millisecond before, the pause is due), `CountdownIsClose`;
* `CardDisplay`: `HeaderIsTheWorst`, `AppliedScopeIsBacked`, `BadgeIsUnanimous`,
  `OfferedIsAccepted`, `MessageFitsResult`, `SuccessfulPeriodIsRestored`,
  `ZoneIsKnown`, `FocusIsUsable`, `UserMovesWin`, `IntentIsKept`.

Only model-checked: all liveness (`InterruptionSettles`, `LockIsReleased`,
`WindowIsApplied`, `WindowEndIsHonoured`, `OverrideIsReleased`, `WireIsReleased`,
`SessionIsChecked`, `PreviewSettles`), which the proof system cannot handle under
fairness. `PausedIsTruthful` does not hold for every combination of faults
(section 3): what is proved is `PausedIsTrue`, and the claim itself for the
budgets of `PausedIsTrueWhereSeen`; in `liveness`, with a restart and one switch,
it is model-checked.

## 6. What is not modelled, and why

* *The tick over several cameras*: its read and write as two steps, the
  exception for one camera that ends the tick for the others, the set of
  schedules that cover a record, and the revalidation of a deadline under the
  lock. Each multiplies the states of `PrivacyControl`, which is at the limit of
  what can be checked.
* *Schedule operations* with their own ids, history and filter: they follow the
  camera ledger that `ReplayLedger` models. The card's side is in `CardSession`.
* *A reload that overlaps a running handler*, that is two storage objects and two
  sets of locks over one file, and the quarantine of corrupt filters.
* *Notifications*: one mark and one call per event. The card's test notification
  is in `CardPanels`.
* *Entities, the config flow, the frontend registration, build scripts*: no state
  over time. Validation of parameters and the wording of errors, logs and
  notifications: no property is about them.
* *The rest of the card*: markup, the fields of the schedule form, the examples
  of actions, persisted preferences, number and date formatting, collation and
  style sheets; and shared functions that this card never calls.
* Timing inside Frigate, such as a switch that Frigate turns on as a side effect
  after the baseline was checked, is outside this code.
