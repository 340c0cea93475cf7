---------------------------- MODULE CardDisplay ----------------------------
(***************************************************************************)
(* What the card shows, as functions of what it knows: the header, what a  *)
(* paused camera is said to be protected from, which buttons work, how a   *)
(* result and a period are worded, in which zone times are told, and where *)
(* the keyboard's focus is after the card has drawn itself anew.  The      *)
(* state behind it changes in CardSession and CardPanels.                  *)
(***************************************************************************)
EXTENDS Integers, TLAPS

None == "none"

-----------------------------------------------------------------------------
(* _phaseSummary: one phase for the header.                                 *)

Checks == [denied : BOOLEAN, checked : BOOLEAN, available : BOOLEAN, ready : BOOLEAN]

\* From the worst to the best that a record in `paused` can be in.
Severity == <<"error", "partial", "resuming", "pausing", "paused">>
Phases == {Severity[i] : i \in 1..5}

Leads(i, phases) == Severity[i] \in phases /\ \A k \in 1..(i - 1) : Severity[k] \notin phases
Worst(phases) ==
    IF \A i \in 1..5 : ~Leads(i, phases) THEN "paused"
    ELSE Severity[CHOOSE i \in 1..5 : Leads(i, phases)]

\* phases: those of the records of the cameras that this card shows.
PhaseSummary(c, phases) ==
    IF c.denied THEN "error"
    ELSE IF ~c.checked THEN "connecting"
    ELSE IF ~c.available THEN "error"
    ELSE IF ~c.ready THEN "recovering"
    ELSE IF phases = {} THEN "active"
    ELSE Worst(phases)

-----------------------------------------------------------------------------
(* _cameraFeedback: "applied scope" or only "requested scope".  outcome and *)
(* seen are what the record says of the camera itself: the outcome of       *)
(* pausing it and the state it was last verified in.                        *)

CameraStates == {"on", "streaming", "recording", "idle", "off", "unavailable", "unknown"}
Feedback == [phase : Phases \cup {"active", "unknown"}, scope : {"all", "main", "sub"},
             planned : BOOLEAN, toggled : BOOLEAN, extension : BOOLEAN,
             outcome : {"paused", "other"}, seen : CameraStates]

VideoStopped(camera, r) ==
    \/ camera = "off"
    \/ camera = "idle" /\ r.toggled /\ r.outcome = "paused" /\ r.seen \in {"off", "idle"}
VideoUnconfirmed(camera, r) ==
    r.phase = "paused" /\ r.scope = "all" /\ ~r.planned /\ ~VideoStopped(camera, r)
Applied(camera, r) == r.phase = "paused" /\ ~VideoUnconfirmed(camera, r) /\ ~r.extension

\* _channelBadge: one state for the switches of a channel.
Known(value) ==
    IF value \in {"on", "streaming", "recording"} THEN "on"
    ELSE IF value \in {"off", "idle", "unavailable"} THEN value ELSE "unknown"
ChannelBadge(values) ==
    LET states == IF values = {} THEN {"unknown"} ELSE {Known(v) : v \in values}
    IN  IF \E s \in states : states = {s} THEN CHOOSE s \in states : TRUE ELSE "mixed"

-----------------------------------------------------------------------------
(* _quickControls and what its buttons call.                                *)

\* What decides for the camera of a tile; record and dated: it has a record, with a deadline.
Tile == [busy : BOOLEAN, wire : BOOLEAN, available : BOOLEAN, ready : BOOLEAN,
         authority : BOOLEAN, record : BOOLEAN, active : BOOLEAN, dated : BOOLEAN]

Offered(t) ==
    IF ~t.record THEN {"pause"}
    ELSE {"resume"} \cup (IF t.active /\ t.dated THEN {"extend"} ELSE {})
Enabled(t) == ~t.busy /\ ~t.wire /\ t.ready

\* _runMutation (its first line), _quickPause, _extendPrivacy, _resume
Sends(t) == ~t.wire /\ ~t.busy /\ t.available /\ t.ready
Accepts(t, button) ==
    CASE button = "pause"  -> Sends(t)
      [] button = "extend" -> t.record /\ t.active /\ t.dated /\ Sends(t)
      [] button = "resume" -> t.record /\ ~t.busy /\ ~t.wire /\ t.authority /\ t.ready

-----------------------------------------------------------------------------
(* _runMutation and _safeError: the message beside a result.                *)

Kinds == {"pause_camera", "resume_camera", "extend_privacy", "upsert", "delete"}
Codes == {"success", "partial", "error", "unconfirmed"}
Refusals == {"invalid_payload", "replay_saturated", "replay_integrity", "recovery_pending"}
SuccessReason == [kind \in Kinds |->
    CASE kind = "pause_camera"   -> "success_pause"
      [] kind = "resume_camera"  -> "success_resume"
      [] kind = "extend_privacy" -> "success_extend"
      [] kind = "upsert"         -> "success_schedule_upsert"
      [] kind = "delete"         -> "success_schedule_delete"]
SaysDone == {SuccessReason[kind] : kind \in Kinds} \cup {"success"}
Messages == SaysDone \cup Refusals \cup
    {"storage_failed", "unauthorized", "operation_failed", "partial", "unconfirmed", "not_checked"}

SafeError(reason) == IF reason \in Messages THEN reason ELSE "operation_failed"

\* After an answer and the state that was read.
Reason(kind, code) ==
    IF code = "success" THEN SuccessReason[kind]
    ELSE IF code = "error" THEN "operation_failed" ELSE code

\* After a failure with this error code; accepted: the call itself was answered.
Rejected(accepted, error) == ~accepted /\ error \in Refusals
FailedCode(accepted, outcome, error) ==
    IF accepted /\ outcome = "partial" THEN "partial"
    ELSE IF Rejected(accepted, error) THEN "error" ELSE "unconfirmed"
FailedReason(accepted, outcome, error) ==
    IF Rejected(accepted, error) \/ error = "storage_failed" THEN error
    ELSE Reason("upsert", FailedCode(accepted, outcome, error))

-----------------------------------------------------------------------------
(* A row of the history: what _validatePeriods demands of one that claims a *)
(* verified restoration, and what _periodResult makes of a row.             *)

Outcomes == {"active", "preexisting_off", "repaused", "failed", "unknown"}
Targets == [camera : BOOLEAN, expected : BOOLEAN, restore : Outcomes, seen : CameraStates]
Restored(target) ==
    IF target.camera
    THEN target.restore = "active" /\ target.seen \in {"on", "idle", "streaming", "recording"}
    ELSE \/ target.restore = "active" /\ target.seen = "on"
         \/ target.restore = "preexisting_off" /\ target.seen = "off"
Accepted(row) ==
    row.verified =>
        /\ row.ended /\ row.phase = "active" /\ row.why # "manual_override"
        /\ \E target \in row.targets : target.expected
        /\ \A target \in row.targets : target.expected => Restored(target)
PeriodResult(row) ==
    IF row.verified THEN "success"
    ELSE IF row.why = "manual_override" THEN "unconfirmed"
    ELSE IF row.phase \in {"error", "partial"} THEN row.phase
    ELSE IF row.ended THEN "unconfirmed" ELSE "not_checked"

-----------------------------------------------------------------------------
(* createFormatUi.forHass: the zone of the times that the card tells;       *)
(* valid: the names that the browser knows.                                 *)

ValidZone(valid, zone) == IF zone \in valid THEN zone ELSE None
TimeZone(valid, profile, server, system) ==
    LET serverZone == ValidZone(valid, server)
        own == IF profile = "server" THEN serverZone ELSE ValidZone(valid, system)
    IN  IF own # None THEN own ELSE IF serverZone # None THEN serverZone ELSE "UTC"

-----------------------------------------------------------------------------
(* The keyboard's focus.  _updateUI replaces the whole page, the focused    *)
(* control with it; while a request runs most controls are disabled.  A     *)
(* control is the same one if its tag and its data attributes are.  The     *)
(* page under an open modal dialog, which takes the focus itself, is not    *)
(* considered.                                                              *)

Nowhere == [kind |-> "none", name |-> ""]
Picker == [kind |-> "picker", name |-> ""]
Tab(id) == [kind |-> "tab", name |-> id]
Controls == {Picker} \cup [kind : {"tab", "button", "page", "period"}, name : STRING]

\* A page as drawn.  controls: those rendered and not disabled.  The navigation (the tabs, or
\* below 280 pixels a picker in their place) is there with its selected tab, or not at all.
Pages == {p \in [compact : BOOLEAN, tab : STRING, controls : SUBSET Controls,
                  first : Controls \cup {Nowhere}] :
             /\ (Picker \in p.controls) <=> (Tab(p.tab) \in p.controls)
             /\ \A c \in p.controls : c.kind \in {"picker", "tab"} => Picker \in p.controls
             /\ p.first # Nowhere => p.first.kind = "period"}
Navigable(p) == Picker \in p.controls
Compact(width) == 0 < width /\ width < 280

Hidden(p, c) == c.kind = (IF p.compact THEN "tab" ELSE "picker")
Usable(p) == {c \in p.controls : ~Hidden(p, c)}

\* What stands for a control of the navigation that is hidden.
Standing(p, c) == IF ~Hidden(p, c) THEN c ELSE IF p.compact THEN Picker ELSE Tab(p.tab)

\* _focusControl: what gets the focus, Nowhere if nothing does.
FocusControl(p, c) == IF Standing(p, c) \in Usable(p) THEN Standing(p, c) ELSE Nowhere

\* active: document focus within the card.  wants: _pendingControlFocus, the control to return
\* to as long as the focus stays on anchor.
Focus == {f \in [active : Controls \cup {Nowhere}, wants : Controls \cup {Nowhere},
                 anchor : Controls \cup {Nowhere}] :
             /\ (f.wants = Nowhere) <=> (f.anchor = Nowhere)
             /\ f.anchor.kind # "button"}
Settled(c) == [active |-> c, wants |-> Nowhere, anchor |-> Nowhere]

\* _syncNavigation, when the card's width has changed.
SyncNavigation(f, p) ==
    LET to == IF Hidden(p, f.active) THEN FocusControl(p, f.active) ELSE f.active
    IN  [f EXCEPT !.active = to, !.anchor = IF f.anchor = f.active THEN to ELSE f.anchor]

\* _updateUI, the page unchanged.
KeepPage(f, p, busy) ==
    LET g == SyncNavigation(f, p)
    IN  IF busy THEN g ELSE Settled(g.active)

\* _updateUI, the page replaced by p.
ReplacePage(f, p, busy) ==
    LET snapshot == IF f.wants # Nowhere /\ f.active = f.anchor THEN f.wants ELSE f.active
        restored == IF snapshot \in p.controls THEN FocusControl(p, snapshot) ELSE Nowhere
        fallback == FocusControl(p, IF snapshot.kind = "page" THEN p.first ELSE Tab(p.tab))
    IN  IF snapshot = Nowhere \/ restored # Nowhere THEN Settled(restored)
        ELSE IF busy /\ fallback # Nowhere
        THEN [active |-> fallback, wants |-> snapshot, anchor |-> fallback]
        ELSE Settled(fallback)

\* The user was on c, and the card knows it.
Remembers(f, c) == f.active = c \/ (f.wants = c /\ f.active = f.anchor)

-----------------------------------------------------------------------------
\* The header's word is the worst of its cameras: it says "active" only if no camera that the
\* card shows has a record, "paused" only if all of these records are paused, and it never
\* covers an error with anything but that it does not know yet or that recovery has not ended.
THEOREM HeaderIsTheWorst ==
    ASSUME NEW c \in Checks, NEW phases \in SUBSET Phases
    PROVE  /\ PhaseSummary(c, phases) = "active" => phases = {} /\ c.checked /\ c.ready /\ ~c.denied
           /\ PhaseSummary(c, phases) = "paused" => phases = {"paused"}
           /\ "error" \in phases => PhaseSummary(c, phases) \in {"error", "connecting", "recovering"}
           /\ "partial" \in phases => PhaseSummary(c, phases) \notin {"active", "paused", "pausing", "resuming"}
<1>1. ASSUME phases # {}
      PROVE  \E i \in 1..5 : Leads(i, phases) /\ Worst(phases) = Severity[i]
  <2>1. PICK k \in 1..5 : Severity[k] \in phases
    BY <1>1 DEF Phases
  <2>2. \E i \in 1..5 : Leads(i, phases)
    <3>1. CASE Severity[1] \in phases  BY <3>1 DEF Leads
    <3>2. CASE Severity[1] \notin phases /\ Severity[2] \in phases  BY <3>2 DEF Leads
    <3>3. CASE /\ Severity[1] \notin phases /\ Severity[2] \notin phases
               /\ Severity[3] \in phases
      BY <3>3 DEF Leads
    <3>4. CASE /\ Severity[1] \notin phases /\ Severity[2] \notin phases
               /\ Severity[3] \notin phases /\ Severity[4] \in phases
      BY <3>4 DEF Leads
    <3>5. CASE \A i \in 1..4 : Severity[i] \notin phases
      <4>1. k = 5  BY <2>1, <3>5
      <4> QED  BY <2>1, <3>5, <4>1 DEF Leads
    <3> QED  BY <3>1, <3>2, <3>3, <3>4, <3>5
  <2> QED  BY <2>2 DEF Worst
<1>2. /\ Severity[1] = "error" /\ Severity[2] = "partial" /\ Severity[3] = "resuming"
      /\ Severity[4] = "pausing" /\ Severity[5] = "paused"
  BY DEF Severity
<1>3. ASSUME phases # {}
      PROVE  /\ Worst(phases) \in phases
             /\ Worst(phases) = "paused" => phases = {"paused"}
             /\ "error" \in phases => Worst(phases) = "error"
             /\ "partial" \in phases => Worst(phases) \in {"error", "partial"}
  <2>1. PICK i \in 1..5 : Leads(i, phases) /\ Worst(phases) = Severity[i]  BY <1>1, <1>3
  <2>2. \A s \in phases : \E k \in 1..5 : s = Severity[k] /\ i <= k  BY <2>1 DEF Leads, Phases
  <2> QED  BY <2>1, <2>2, <1>2 DEF Leads
<1>4. "active" \notin phases  BY <1>2 DEF Phases
<1> QED  BY <1>3, <1>4 DEF PhaseSummary

\* Under "applied scope: everything" stands only what is backed: the camera was one of the
\* targets that were verified, or its video is reported off, or it idles after this very pause
\* turned it off.  An extension, which keeps the first request's scope, never stands there.
THEOREM AppliedScopeIsBacked ==
    ASSUME NEW camera \in CameraStates, NEW r \in Feedback, Applied(camera, r), r.scope = "all"
    PROVE  /\ r.phase = "paused" /\ ~r.extension
           /\ r.planned \/ camera = "off" \/ (camera = "idle" /\ r.toggled /\ r.outcome = "paused")
  BY DEF Applied, VideoUnconfirmed, VideoStopped, Feedback

\* A badge tells one state only if every switch of the channel reports it; no switch, or a
\* state the card does not know, is never told as on or off.
THEOREM BadgeIsUnanimous ==
    ASSUME NEW values, NEW s, s # "unknown", s # "mixed", ChannelBadge(values) = s
    PROVE  values # {} /\ \A v \in values : Known(v) = s
  BY DEF ChannelBadge, Known

\* No dead button: while the card is open and may act, what a tile offers and enables is what
\* the handler behind it carries out, and an extension is carried out only where it is offered.
\* Without authority (offline) the pause is still sent and only the resume is refused.
THEOREM OfferedIsAccepted ==
    ASSUME NEW t \in Tile, t.available
    PROVE  /\ \A b \in Offered(t) : Enabled(t) /\ (b = "resume" => t.authority) => Accepts(t, b)
           /\ Accepts(t, "extend") => "extend" \in Offered(t) /\ Enabled(t)
           /\ Accepts(t, "resume") => "resume" \in Offered(t) /\ Enabled(t) /\ t.authority
  BY DEF Offered, Enabled, Sends, Accepts, Tile

\* Every reason has its own message, so the wording is never one for another case; a message
\* that something was done appears exactly with success, and one that says the integration
\* refused beforehand only if the call itself was refused.
THEOREM MessageFitsResult ==
    ASSUME NEW kind \in Kinds, NEW code \in Codes, NEW accepted \in BOOLEAN,
           NEW outcome \in Codes, NEW error \in STRING
    PROVE  /\ SafeError(Reason(kind, code)) = Reason(kind, code)
           /\ SafeError(Reason(kind, code)) \in SaysDone <=> code = "success"
           /\ SafeError(FailedReason(accepted, outcome, error)) = FailedReason(accepted, outcome, error)
           /\ SafeError(FailedReason(accepted, outcome, error)) \notin SaysDone
           /\ FailedCode(accepted, outcome, error) # "success"
           /\ FailedReason(accepted, outcome, error) \in Refusals => ~accepted
<1>1. SaysDone = {"success", "success_pause", "success_resume", "success_extend",
                  "success_schedule_upsert", "success_schedule_delete"}
  BY DEF SaysDone, SuccessReason, Kinds
<1>2. SuccessReason[kind] \in SaysDone  BY DEF SaysDone
<1>3. Reason(kind, code) \in Messages /\ (Reason(kind, code) \in SaysDone <=> code = "success")
  BY <1>1, <1>2 DEF Reason, Messages, Codes
<1>4. /\ FailedReason(accepted, outcome, error) \in Messages
      /\ FailedReason(accepted, outcome, error) \notin SaysDone
      /\ FailedCode(accepted, outcome, error) # "success"
      /\ FailedReason(accepted, outcome, error) \in Refusals => ~accepted
  BY <1>1 DEF FailedReason, FailedCode, Rejected, Reason, Refusals, Messages
<1> QED  BY <1>3, <1>4 DEF SafeError

\* Whatever the integration sends, a period that the card lets in and words as a success has
\* ended, restored, with no hand in it, and each target that was to be restored was observed so.
THEOREM SuccessfulPeriodIsRestored ==
    ASSUME NEW row, Accepted(row), PeriodResult(row) = "success", row.phase \in Phases \cup {"active"},
           row.verified \in BOOLEAN
    PROVE  /\ row.ended /\ row.phase = "active" /\ row.why # "manual_override"
           /\ \E target \in row.targets : target.expected /\ Restored(target)
           /\ \A target \in row.targets : target.expected => target.seen \notin {"unavailable", "unknown"}
<1>1. row.verified  BY DEF PeriodResult
<1> QED  BY <1>1 DEF Accepted, Restored

\* Times are told in a zone that the browser knows; in the server's, the one that schedules run
\* in and that their tab names, if the profile asks for it or the browser has no zone of its own.
THEOREM ZoneIsKnown ==
    ASSUME NEW valid, "UTC" \in valid, None \notin valid, NEW profile, NEW server, NEW system
    PROVE  /\ TimeZone(valid, profile, server, system) \in valid
           /\ server \in valid /\ (profile = "server" \/ system \notin valid)
                => TimeZone(valid, profile, server, system) = server
           /\ profile # "server" /\ system \in valid
                => TimeZone(valid, profile, server, system) = system
  BY DEF TimeZone, ValidZone

\* Kinds tell the controls of the navigation from the rest, and Nowhere from all.
LEMMA Distinct ==
    /\ Nowhere \notin Controls /\ Picker \in Controls /\ Picker # Nowhere
    /\ \A id : Tab(id).kind = "tab" /\ Tab(id) # Nowhere /\ Tab(id) # Picker
    /\ Picker.kind = "picker" /\ Nowhere.kind = "none"
    /\ \A c \in Controls : c.kind \in {"picker", "tab", "button", "page", "period"}
<1>1. Picker.kind = "picker" /\ Nowhere.kind = "none"  BY DEF Picker, Nowhere
<1>2. \A id : Tab(id).kind = "tab"  BY DEF Tab
<1>3. Picker \in Controls  BY DEF Controls
<1>4. ASSUME NEW c \in Controls
      PROVE  c.kind \in {"picker", "tab", "button", "page", "period"}
  BY <1>1 DEF Controls
<1>5. Nowhere \notin Controls  BY <1>1, <1>4
<1> QED  BY <1>1, <1>2, <1>3, <1>4, <1>5

\* _focusControl focuses a usable control: the one asked for, if that is usable; in a page with
\* navigation some control stands for every tab, whatever the width.
LEMMA FocusedIsUsable ==
    ASSUME NEW p \in Pages, NEW c \in Controls \cup {Nowhere}
    PROVE  /\ FocusControl(p, c) \in Usable(p) \cup {Nowhere}
           /\ c \in Usable(p) => FocusControl(p, c) = c
           /\ c.kind # "button" => FocusControl(p, c).kind # "button"
           /\ Navigable(p) => FocusControl(p, Tab(p.tab)) \in Usable(p)
           /\ c \in p.controls /\ c.kind \in {"picker", "tab"} => FocusControl(p, c) \in Usable(p)
<1>1. FocusControl(p, c) \in Usable(p) \cup {Nowhere}  BY DEF FocusControl
<1>2. c \in Usable(p) => FocusControl(p, c) = c  BY DEF FocusControl, Standing, Usable
<1>3. c.kind # "button" => FocusControl(p, c).kind # "button"
  BY Distinct DEF FocusControl, Standing
<1>4. Navigable(p) => FocusControl(p, Tab(p.tab)) \in Usable(p)
  BY Distinct DEF Navigable, FocusControl, Standing, Usable, Hidden, Pages
<1>5. c \in p.controls /\ c.kind \in {"picker", "tab"} => FocusControl(p, c) \in Usable(p)
  BY Distinct DEF FocusControl, Standing, Usable, Hidden, Pages
<1> QED  BY <1>1, <1>2, <1>3, <1>4, <1>5

\* Wherever the user was, a redrawn card leaves the focus on a control that is shown and not
\* disabled, or nowhere; and what is pending stays well formed.
THEOREM FocusIsUsable ==
    ASSUME NEW f \in Focus, NEW p \in Pages, NEW busy \in BOOLEAN
    PROVE  /\ ReplacePage(f, p, busy) \in Focus
           /\ ReplacePage(f, p, busy).active \in Usable(p) \cup {Nowhere}
<1> DEFINE snapshot == IF f.wants # Nowhere /\ f.active = f.anchor THEN f.wants ELSE f.active
           restored == IF snapshot \in p.controls THEN FocusControl(p, snapshot) ELSE Nowhere
           aim == IF snapshot.kind = "page" THEN p.first ELSE Tab(p.tab)
           fallback == FocusControl(p, aim)
<1>1. f \in [active : Controls \cup {Nowhere}, wants : Controls \cup {Nowhere},
             anchor : Controls \cup {Nowhere}]
  BY DEF Focus
<1>2. snapshot \in Controls \cup {Nowhere}  BY <1>1
<1>3. aim \in Controls \cup {Nowhere} /\ aim.kind # "button"
  <2>1. p.tab \in STRING /\ p.first \in Controls \cup {Nowhere}  BY DEF Pages
  <2>2. Tab(p.tab) \in Controls  BY <2>1 DEF Tab, Controls
  <2> QED  BY <2>1, <2>2, Distinct DEF Pages
<1>4. Usable(p) \subseteq Controls  BY DEF Usable, Pages
<1>5. restored \in Usable(p) \cup {Nowhere}  BY <1>2, FocusedIsUsable
<1>6. fallback \in Usable(p) \cup {Nowhere} /\ fallback.kind # "button"
  BY <1>3, FocusedIsUsable
<1>7. ASSUME NEW c \in Controls \cup {Nowhere}
      PROVE  Settled(c) \in Focus /\ Settled(c).active = c
  BY Distinct DEF Settled, Focus
<1>8. ASSUME fallback # Nowhere, snapshot # Nowhere
      PROVE  [active |-> fallback, wants |-> snapshot, anchor |-> fallback] \in Focus
  BY <1>2, <1>4, <1>6, <1>8 DEF Focus
<1> HIDE DEF snapshot, restored, fallback
<1>9. ReplacePage(f, p, busy) =
        IF snapshot = Nowhere \/ restored # Nowhere THEN Settled(restored)
        ELSE IF busy /\ fallback # Nowhere
        THEN [active |-> fallback, wants |-> snapshot, anchor |-> fallback]
        ELSE Settled(fallback)
  BY DEF ReplacePage, snapshot, restored, fallback
<1> QED  BY <1>4, <1>5, <1>6, <1>7, <1>8, <1>9

\* A user who left the card, or moved on to a control of it that is still usable, is never
\* called back: the pending control is forgotten.
THEOREM UserMovesWin ==
    ASSUME NEW f \in Focus, NEW p \in Pages, NEW busy \in BOOLEAN,
           f.active # f.anchor \/ f.wants = Nowhere, f.active \in Usable(p) \cup {Nowhere}
    PROVE  ReplacePage(f, p, busy) = Settled(f.active)
<1>1. CASE f.active = Nowhere
  BY <1>1, Distinct DEF ReplacePage, Focus, Pages
<1>2. CASE f.active \in Usable(p)
  <2>1. f.active \in p.controls /\ f.active # Nowhere  BY <1>2, Distinct DEF Usable, Pages
  <2>2. FocusControl(p, f.active) = f.active  BY <1>2, FocusedIsUsable DEF Focus
  <2> QED  BY <2>1, <2>2 DEF ReplacePage
<1> QED  BY <1>1, <1>2

\* A button that a running request disables keeps the keyboard's intent through any number of
\* redraws and changes of width, whichever form of the navigation holds the focus meanwhile,
\* and has the focus again in the first page in which it is usable.
THEOREM IntentIsKept ==
    ASSUME NEW f \in Focus, NEW p \in Pages, NEW c \in Controls, NEW busy \in BOOLEAN,
           c.kind = "button", Remembers(f, c)
    PROVE  /\ c \in Usable(p) => ReplacePage(f, p, busy).active = c
           /\ busy /\ Navigable(p) => Remembers(ReplacePage(f, p, busy), c)
           /\ f.active \in p.controls => /\ Remembers(SyncNavigation(f, p), c)
                                        /\ SyncNavigation(f, p) \in Focus
                                        /\ SyncNavigation(f, p).active \in Usable(p)
           /\ f.active \in p.controls /\ busy => KeepPage(f, p, busy) = SyncNavigation(f, p)
<1> DEFINE restored == FocusControl(p, c)
           fallback == FocusControl(p, Tab(p.tab))
<1>1. c # Nowhere /\ c # f.anchor /\ c.kind # "page" /\ ~Hidden(p, c)
  BY Distinct DEF Focus, Hidden
<1>2. (IF f.wants # Nowhere /\ f.active = f.anchor THEN f.wants ELSE f.active) = c
  BY <1>1 DEF Remembers
<1>3. ReplacePage(f, p, busy) =
        LET r == IF c \in p.controls THEN restored ELSE Nowhere
        IN  IF r # Nowhere THEN Settled(r)
            ELSE IF busy /\ fallback # Nowhere
            THEN [active |-> fallback, wants |-> c, anchor |-> fallback]
            ELSE Settled(fallback)
  BY <1>1, <1>2 DEF ReplacePage
<1>4. c \in p.controls => c \in Usable(p) /\ restored = c
  BY <1>1, FocusedIsUsable DEF Usable
<1>5. c \in Usable(p) => c \in p.controls  BY DEF Usable
<1>6. c \in Usable(p) => ReplacePage(f, p, busy).active = c
  BY <1>1, <1>3, <1>4, <1>5 DEF Settled
<1>7. ASSUME busy, Navigable(p)
      PROVE  Remembers(ReplacePage(f, p, busy), c)
  <2>1. fallback # Nowhere  BY <1>7, FocusedIsUsable, Distinct DEF Usable, Pages
  <2>2. CASE c \in Usable(p)  BY <2>2, <1>6 DEF Remembers
  <2>3. CASE c \notin Usable(p)
    <3>1. c \notin p.controls  BY <2>3, <1>4
    <3>2. ReplacePage(f, p, busy) = [active |-> fallback, wants |-> c, anchor |-> fallback]
      BY <3>1, <2>1, <1>7, <1>3
    <3> QED  BY <3>2 DEF Remembers
  <2> QED  BY <2>2, <2>3
<1>8. ASSUME f.active \in p.controls
      PROVE  /\ Remembers(SyncNavigation(f, p), c) /\ SyncNavigation(f, p) \in Focus
             /\ SyncNavigation(f, p).active \in Usable(p)
  <2> DEFINE to == IF Hidden(p, f.active) THEN FocusControl(p, f.active) ELSE f.active
  <2>1. f.active \in Controls /\ f.active # Nowhere  BY <1>8, Distinct DEF Pages
  <2>2. to \in Usable(p) /\ to \in Controls /\ to # Nowhere
    <3>1. Hidden(p, f.active) => f.active.kind \in {"picker", "tab"}  BY DEF Hidden
    <3>2. to \in Usable(p)  BY <3>1, <2>1, <1>8, FocusedIsUsable DEF Usable
    <3> QED  BY <3>2, Distinct DEF Usable, Pages
  <2>3. f.active.kind # "button" => to.kind # "button"  BY <2>1, FocusedIsUsable
  <2>4. f \in [active : Controls \cup {Nowhere}, wants : Controls \cup {Nowhere},
               anchor : Controls \cup {Nowhere}]
    BY DEF Focus
  <2> HIDE DEF to
  <2>5. SyncNavigation(f, p) = [f EXCEPT !.active = to,
                                        !.anchor = IF f.anchor = f.active THEN to ELSE f.anchor]
    BY DEF SyncNavigation, to
  <2>6. SyncNavigation(f, p) = [active |-> to, wants |-> f.wants,
                                anchor |-> IF f.anchor = f.active THEN to ELSE f.anchor]
    BY <2>4, <2>5
  <2>7. f.active = c => to = c  BY <1>1 DEF to
  <2>8. Remembers(SyncNavigation(f, p), c)  BY <2>6, <2>7 DEF Remembers
  <2>9. SyncNavigation(f, p) \in Focus
    BY <2>1, <2>2, <2>3, <2>4, <2>6, <1>1 DEF Focus
  <2> QED  BY <2>2, <2>6, <2>8, <2>9
<1>9. busy => KeepPage(f, p, busy) = SyncNavigation(f, p)  BY DEF KeepPage
<1> QED  BY <1>6, <1>7, <1>8, <1>9
=============================================================================
