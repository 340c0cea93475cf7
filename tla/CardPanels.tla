----------------------------- MODULE CardPanels -----------------------------
(***************************************************************************)
(* The panels of the card (www/ha-frigate-privacy-card.js, the copy that   *)
(* the integration serves): the period history, which is read on demand,   *)
(* the live preview of one camera, the test notification, and the tabs and *)
(* configuration that decide which of them is on screen.  Each waits for   *)
(* something outside the card, with a deadline, while the session, the     *)
(* connection, the cameras or the configuration may change.                *)
(*                                                                         *)
(* The polls of CardSession are one step here (Learn): what matters to the *)
(* panels is what the card knows, not how it came to know it.              *)
(***************************************************************************)
EXTENDS Naturals

CONSTANTS Cameras, Admins, Guests, NoHass, None,
          Written,     \* configurations written by hand, which the card accepts
          Budget       \* bounds: changes of session, of state, clicks, all

Tabs == <<"control", "history", "actions">>
TabNames == {Tabs[i] : i \in DOMAIN Tabs}
BudgetKinds == {"turn", "move", "click", "all"}
Sessions == Admins \cup Guests

\* What a read of the state and a read of the history return, and what loads a preview.
States == [cams : SUBSET Cameras, version : Nat]
Rows == [session : Sessions, days : {7, 30}, version : Nat]
Stages == {"helpers", "element"}

ASSUME PanelsAssumption ==
    /\ Admins \cap Guests = {} /\ {NoHass, None} \cap (Sessions \cup Cameras) = {}
    /\ None \notin TabNames \cup Stages \cup States \cup Rows
    /\ \A tabs \in SUBSET TabNames : tabs # None
    /\ Budget \in [BudgetKinds -> Nat]

VARIABLES
    attached, hass, online,  \* in the page; the session; no line heard to be down
    known,     \* the state the card holds, if any: its cameras and its version
    config, tab, expanded,   \* the configuration, the tab, the compact card opened
    pick,      \* the camera of the compact card
    days,      \* the range of the history
    history,   \* the state of the history panel and its rows
    read,      \* the history read on the wire
    preview,   \* the preview: camera, load, element, whether it failed; late loads
    test,      \* the test notification on the wire
    notice,    \* what was told of the last test
    srv,       \* the integration: its cameras and the version of its records
    used

place == <<attached, hass, online>>
screen == <<config, tab, expanded, days>>
vars == <<place, known, screen, pick, history, read, preview, test, notice, srv, used>>

Use(kind) ==
    /\ used[kind] < Budget[kind] /\ used["all"] < Budget["all"]
    /\ used' = [used EXCEPT ![kind] = @ + 1, !["all"] = @ + 1]

\* _periodAuthority
Authority == attached /\ hass \in Admins /\ online

-----------------------------------------------------------------------------
(* The configuration: tabs and default may be left out, no cameras are all. *)

ConfigTypes == [tabs : (SUBSET TabNames) \cup {None}, default : TabNames \cup {None},
                cams : SUBSET Cameras, compact : BOOLEAN]

\* _visibleTabs, _visibleCameras
VisibleTabs(c) == IF c.tabs = None THEN TabNames ELSE c.tabs
VisibleCameras(c, state) == IF c.cams = {} THEN state.cams ELSE state.cams \cap c.cams

\* What setConfig does not throw at.
CardAccepts(c) ==
    /\ c.tabs # {}
    /\ c.default # None => c.default \in VisibleTabs(c)

ASSUME WrittenAssumption == \A c \in Written : c \in ConfigTypes /\ CardAccepts(c)

FirstTab(c) ==
    Tabs[CHOOSE i \in DOMAIN Tabs : /\ Tabs[i] \in VisibleTabs(c)
                                    /\ \A k \in 1..(i - 1) : Tabs[k] \notin VisibleTabs(c)]
DefaultTab(c) == IF c.default = None THEN FirstTab(c) ELSE c.default

\* What the visual editor may make of a configuration: one field is changed, and only
\* a visible tab can be chosen as the default.
Candidates(c) ==
    {[c EXCEPT !.tabs = VisibleTabs(c) \ {t}] : t \in VisibleTabs(c)}
    \cup {[c EXCEPT !.tabs = VisibleTabs(c) \cup {t}] : t \in TabNames}
    \cup {[c EXCEPT !.default = t] : t \in VisibleTabs(c)}
    \cup {[c EXCEPT !.cams = cams] : cams \in SUBSET Cameras}
    \cup {[c EXCEPT !.compact = ~@]}

\* Mistake: the editor does not look at the default tab.
EditorAcceptsAny(c) == c.tabs # {}
EditorAccepts(c) ==
    (IF c.default = None THEN "control" ELSE c.default) \in VisibleTabs(c)

-----------------------------------------------------------------------------
(* What is on screen, and the preview.                                      *)

\* A compact card on its control tab has no tabs and one camera until it is opened.
CompactOn(t, c, open) == c.compact /\ ~open /\ t = "control"
Compact == CompactOn(tab, config, expanded)
Gated == known = None

\* _buildCompactTab: the camera that was chosen, or the first one.
Picked(chosen, c, state) ==
    LET cams == VisibleCameras(c, state)
    IN  CASE chosen \in cams -> chosen
          [] cams = {} -> None
          [] OTHER -> CHOOSE cam \in cams : TRUE

Closed == [cam |-> None, load |-> None, node |-> None, failed |-> FALSE, late |-> {}]

\* _closePreview: a load under way does not count any more, but goes on.
Loading == IF preview.load = None THEN {} ELSE {preview.cam}
ClosePreview == [Closed EXCEPT !.late = preview.late \cup Loading]

\* _previewAllowed: which cameras may be previewed, and which have their tile on screen.
Previewable(authority, state) == IF authority /\ state # None THEN state.cams ELSE {}
OnScreen(t, state, c, open, chosen) ==
    CASE t # "control" \/ state = None -> {}
      [] t = "control" /\ state # None /\ CompactOn(t, c, open) -> {Picked(chosen, c, state)}
      [] OTHER -> VisibleCameras(c, state)
Allowed(c) == c \in Previewable(Authority, known)
Host(c) == c \in OnScreen(tab, known, config, expanded, pick)

\* _updateUI ends every handler: it closes a preview that is not allowed any more, and
\* _syncPreview begins to load what is open, on screen and not loaded.  v is the preview
\* as the handler leaves it, chosen the camera of the compact card.
RenderCompact(v, chosen) ==
    LET allowed == Previewable(attached' /\ hass' \in Admins /\ online', known')
        syncs == /\ v.cam \in OnScreen(tab', known', config', expanded', chosen)
                 /\ v.node = None /\ ~v.failed /\ v.load = None
    IN  /\ preview' = CASE v.cam \notin allowed -> ClosePreview
                        [] v.cam \in allowed /\ syncs -> [v EXCEPT !.load = "helpers"]
                        [] OTHER -> v
        /\ pick' = IF known' # None /\ CompactOn(tab', config', expanded')
                   THEN Picked(chosen, config', known') ELSE chosen
Render(v) == RenderCompact(v, pick)

-----------------------------------------------------------------------------
(* The history.                                                             *)

HistoryStates == {"idle", "loading", "ready", "timeout", "error", "offline", "discarded"}

\* _invalidatePeriods: nothing is shown, what is under way does not count any more.
\* The wire is held until its request has settled.
Invalidate(state) ==
    /\ history' = [state |-> state, rows |-> None]
    /\ read' = IF read = None THEN None ELSE [read EXCEPT !.fresh = FALSE]
KeepHistory == UNCHANGED <<history, read>>

\* _clearPrivateState, but for the history, which its callers invalidate.
ClearPanels ==
    /\ known' = None /\ notice' = None
    /\ test' = IF test = None THEN None ELSE [test EXCEPT !.fresh = FALSE]

-----------------------------------------------------------------------------
(* Lovelace, the session and the connection.                                *)

Attach ==
    /\ ~attached /\ attached' = TRUE
    /\ Invalidate("idle")
    /\ UNCHANGED <<hass, online, known, screen, test, notice, srv, used>> /\ Render(preview)

\* disconnectedCallback
Detach ==
    /\ attached /\ Use("turn") /\ attached' = FALSE
    /\ ClearPanels /\ Invalidate("discarded")
    /\ UNCHANGED <<hass, online, screen, srv>> /\ Render(ClosePreview)

\* set hass with another user, connection or instance, or with none.
ChangeSession(session) ==
    /\ session # hass /\ hass' = session
    /\ IF hass = NoHass THEN UNCHANGED used ELSE Use("turn")
    /\ ClearPanels /\ Invalidate("discarded")
    /\ UNCHANGED <<attached, online, screen, srv>> /\ Render(ClosePreview)

\* _periodOffline, _periodDisconnected; _periodOnline, _periodReady
GoOffline ==
    /\ attached /\ online /\ Use("turn") /\ online' = FALSE
    /\ ClearPanels /\ Invalidate("offline")
    /\ UNCHANGED <<attached, hass, screen, srv>> /\ Render(ClosePreview)
GoOnline ==
    /\ attached /\ ~online /\ online' = TRUE
    /\ Invalidate("discarded")
    /\ UNCHANGED <<attached, hass, known, screen, test, notice, srv, used>> /\ Render(preview)

\* _denyAccess
Deny == ClearPanels /\ Invalidate("discarded")

\* Mistake: a state with other records leaves the history as it is.
ApplyStateOnly ==
    /\ known' = srv
    /\ KeepHistory

\* _applyState: when the records have changed, a history that is shown or being read is
\* out of date.
ApplyState ==
    /\ known' = srv
    /\ IF (known = None \/ known.version # srv.version) /\ (history.rows # None \/ read # None)
       THEN Invalidate("discarded") ELSE KeepHistory

\* A state read is answered: with the state, not at all, or with a refusal.
Learn ==
    /\ Authority
    /\ ApplyState
    /\ UNCHANGED <<place, screen, test, notice, srv, used>> /\ Render(preview)
LearnNothing ==
    /\ Authority /\ known' = None
    /\ Invalidate("discarded")
    /\ UNCHANGED <<place, screen, test, notice, srv, used>> /\ Render(preview)
LearnDenied ==
    /\ Authority /\ Deny
    /\ UNCHANGED <<place, screen, srv, used>> /\ Render(ClosePreview)

\* The integration: a pause or resume is recorded, a camera is found or lost.
Move ==
    /\ Use("move")
    /\ \/ srv' = [srv EXCEPT !.version = @ + 1]
       \/ \E c \in Cameras : srv' = [srv EXCEPT !.cams = IF c \in @ THEN @ \ {c} ELSE @ \cup {c}]
    /\ UNCHANGED <<place, known, screen, pick, history, read, preview, test, notice>>

-----------------------------------------------------------------------------
(* Configuration and tabs.                                                  *)

\* setConfig: it may leave the tab, and then does not close the preview.
SetConfig(c) ==
    /\ c # config /\ Use("click") /\ config' = c
    /\ tab' = IF c.default # config.default \/ tab \notin VisibleTabs(c) THEN DefaultTab(c) ELSE tab
    /\ Invalidate("discarded")
    /\ UNCHANGED <<place, known, expanded, days, test, notice, srv>> /\ Render(preview)

Write == \E c \in Written : SetConfig(c)

\* The visual editor emits a configuration, and Lovelace hands it to the card.
Edit == \E c \in Candidates(config) : EditorAccepts(c) /\ SetConfig(c)

\* Mistake: the preview stays open when its tab is left.
AfterTabKeeps(t) == preview
AfterTab(t) == IF t # "control" THEN ClosePreview ELSE preview

\* setActiveTab
SetTab(t) ==
    /\ ~Gated /\ ~Compact /\ t \in VisibleTabs(config) \ {tab}
    /\ tab' = t
    /\ UNCHANGED <<place, known, config, expanded, days, history, read, test, notice, srv, used>>
    /\ Render(AfterTab(t))

\* The buttons of a compact card.  Closing goes to the control tab, hidden or not.
OpenFull ==
    /\ ~Gated /\ Compact /\ expanded' = TRUE
    /\ UNCHANGED <<place, known, config, tab, days, history, read, test, notice, srv, used>>
    /\ Render(preview)
CloseFull ==
    /\ ~Gated /\ config.compact /\ ~Compact
    /\ expanded' = FALSE /\ tab' = "control"
    /\ UNCHANGED <<place, known, config, days, history, read, test, notice, srv, used>>
    /\ Render(preview)

\* Another camera is chosen on a compact card.
PickCamera(c) ==
    /\ ~Gated /\ Compact /\ c \in VisibleCameras(config, known) \ {pick}
    /\ UNCHANGED <<place, known, screen, history, read, test, notice, srv, used>>
    /\ RenderCompact(ClosePreview, c)

-----------------------------------------------------------------------------
(* Reading the history.                                                     *)

OnHistory == ~Gated /\ ~Compact /\ tab = "history"

\* _setPeriodRange
SetRange(d) ==
    /\ OnHistory /\ d # days /\ Use("click") /\ days' = d
    /\ Invalidate("discarded")
    /\ UNCHANGED <<place, known, config, tab, expanded, test, notice, srv>> /\ Render(preview)

\* _refreshPeriods up to its call
Read ==
    /\ OnHistory /\ read = None /\ Authority /\ Use("click")
    /\ history' = [state |-> "loading", rows |-> None]
    /\ read' = [session |-> hass, days |-> days, fresh |-> TRUE, version |-> None]
    /\ UNCHANGED <<place, known, screen, test, notice, srv>> /\ Render(preview)

Waiting == read # None /\ read.fresh

\* The button that discards a read, offered as long as the wire is held.
Discard ==
    /\ OnHistory /\ read # None
    /\ Invalidate("discarded")
    /\ UNCHANGED <<place, known, screen, test, notice, srv, used>> /\ Render(preview)

\* Mistake: the deadline tells, but the answer still counts.
ExpireOnly == history' = [history EXCEPT !.state = "timeout"] /\ UNCHANGED read

Expire == Invalidate("timeout")

\* _periodDeadlineExpired
ReadExpires ==
    /\ Waiting /\ history.state = "loading" /\ Expire
    /\ UNCHANGED <<place, known, screen, test, notice, srv, used>> /\ Render(preview)

\* The integration reads its history.
ServeRead ==
    /\ read # None /\ read.version = None
    /\ read' = [read EXCEPT !.version = srv.version]
    /\ UNCHANGED <<place, known, screen, pick, history, preview, test, notice, srv, used>>

\* _refreshPeriods from its answer on: rows that the card accepts, ...
ReadArrives ==
    /\ Waiting /\ read.version # None
    /\ history' = [state |-> "ready",
                   rows |-> [session |-> read.session, days |-> read.days, version |-> read.version]]
    /\ read' = None
    /\ UNCHANGED <<place, known, screen, test, notice, srv, used>> /\ Render(preview)

\* ... an error or a payload that it does not, ...
ReadFails ==
    /\ Waiting
    /\ history' = [state |-> "error", rows |-> None] /\ read' = None
    /\ UNCHANGED <<place, known, screen, test, notice, srv, used>> /\ Render(preview)

\* ... a refusal, ...
ReadDenied ==
    /\ Waiting /\ ClearPanels
    /\ history' = [state |-> "discarded", rows |-> None] /\ read' = None
    /\ UNCHANGED <<place, screen, srv, used>> /\ Render(ClosePreview)

\* ... or anything, when it does not count any more.
ReadIgnored ==
    /\ read # None /\ ~read.fresh /\ read' = None
    /\ UNCHANGED <<place, known, screen, history, test, notice, srv, used>> /\ Render(preview)

-----------------------------------------------------------------------------
(* Opening a preview.                                                       *)

\* _togglePreview, on a tile that is on screen.
TogglePreview(c) ==
    /\ Host(c) /\ c \in known.cams /\ attached /\ Use("click")
    /\ UNCHANGED <<place, known, screen, history, read, test, notice, srv>>
    /\ Render(IF preview.cam = c THEN ClosePreview ELSE [ClosePreview EXCEPT !.cam = c])

\* The check after each await: the load is still for the open preview, on screen.
Current == preview.cam # None /\ Allowed(preview.cam) /\ Host(preview.cam)
Video(c) == [cam |-> c, session |-> hass]
Given(v) ==
    /\ preview' = v
    /\ UNCHANGED <<place, known, screen, pick, history, read, test, notice, srv, used>>

Loaded ==
    CASE ~Current -> [preview EXCEPT !.load = None]
      [] Current /\ preview.load = "helpers" -> [preview EXCEPT !.load = "element"]
      [] OTHER -> [preview EXCEPT !.load = None, !.node = Video(preview.cam)]

\* The helpers, then the element, are there; or an import stalls for ten seconds or fails,
\* or createCardElement throws.
LoadContinues == preview.load # None /\ Given(Loaded)

\* Mistake: a stalled import is only given up.
GivenUp == [preview EXCEPT !.load = None]
LoadFailed == [preview EXCEPT !.load = None, !.failed = Current]
LoadFails == preview.load # None /\ Given(LoadFailed)

\* Mistake: an element that comes after the preview was closed is put on screen.
LatePutOnScreen(c) == [preview EXCEPT !.late = @ \ {c}, !.node = Video(c)]
LateDropped(c) == [preview EXCEPT !.late = @ \ {c}]
LateLoad == \E c \in preview.late : Given(LateDropped(c))

-----------------------------------------------------------------------------
(* The test notification.                                                   *)

\* _testNotification up to its call
Test ==
    /\ ~Gated /\ ~Compact /\ tab = "actions" /\ test = None /\ Authority /\ Use("click")
    /\ notice' = None
    /\ test' = [session |-> hass, fresh |-> TRUE, expired |-> FALSE]
    /\ UNCHANGED <<place, known, screen, history, read, srv>> /\ Render(preview)

Told(text) == notice' = [text |-> text, session |-> test.session]
Testing == test # None /\ test.fresh

\* Fifteen seconds have passed.
TestExpires ==
    /\ Testing /\ ~test.expired
    /\ Told("unconfirmed") /\ test' = [test EXCEPT !.expired = TRUE]
    /\ UNCHANGED <<place, known, screen, history, read, srv, used>> /\ Render(preview)

\* Of the answers only "ha_accepted" is modelled: "error" and "no_channel" are told and
\* dropped by the same rule.
\* Mistake: an answer is told whenever it comes.
TestToldLate == Told("ha_accepted")
TestTold == IF test.expired THEN UNCHANGED notice ELSE Told("ha_accepted")

TestArrives ==
    /\ Testing /\ TestTold /\ test' = None
    /\ UNCHANGED <<place, known, screen, history, read, srv, used>> /\ Render(preview)
TestFails ==
    /\ Testing /\ Told("unconfirmed") /\ test' = None
    /\ UNCHANGED <<place, known, screen, history, read, srv, used>> /\ Render(preview)
TestDenied ==
    /\ Testing /\ known' = None /\ notice' = None /\ test' = None
    /\ Invalidate("discarded")
    /\ UNCHANGED <<place, screen, srv, used>> /\ Render(ClosePreview)
TestIgnored ==
    /\ test # None /\ ~test.fresh /\ test' = None
    /\ UNCHANGED <<place, known, screen, pick, history, read, preview, notice, srv, used>>

-----------------------------------------------------------------------------
(* The specification.                                                       *)

Init ==
    /\ attached = FALSE /\ hass = NoHass /\ online = TRUE /\ known = None
    /\ config \in Written /\ tab = DefaultTab(config) /\ expanded = FALSE /\ days = 30
    /\ pick = None
    /\ history = [state |-> "idle", rows |-> None] /\ read = None
    /\ preview = Closed /\ test = None /\ notice = None
    /\ srv = [cams |-> Cameras, version |-> 0]
    /\ used = [kind \in BudgetKinds |-> 0]

Surroundings ==
    \/ Attach \/ Detach \/ GoOffline \/ GoOnline \/ Move
    \/ Learn \/ LearnNothing \/ LearnDenied
    \/ \E session \in Sessions \cup {NoHass} : ChangeSession(session)
    \/ Write \/ Edit
Navigation ==
    \/ OpenFull \/ CloseFull
    \/ (\E t \in TabNames : SetTab(t)) \/ (\E c \in Cameras : PickCamera(c))
Reading ==
    \/ Read \/ Discard \/ ReadExpires \/ ServeRead
    \/ ReadArrives \/ ReadFails \/ ReadDenied \/ ReadIgnored
    \/ \E d \in {7, 30} : SetRange(d)
Previewing == LoadContinues \/ LoadFails \/ LateLoad \/ \E c \in Cameras : TogglePreview(c)
Notifying == Test \/ TestExpires \/ TestArrives \/ TestFails \/ TestDenied \/ TestIgnored

Next == Surroundings \/ Navigation \/ Reading \/ Previewing \/ Notifying

Spec == Init /\ [][Next]_vars

\* An import is there, fails, or is given up by the card's own timer.  Only the call of
\* createCardElement has no timer: that Home Assistant's helper returns or throws is
\* assumed of it, not enforced by the card.
FairSpec == Spec /\ WF_vars(LoadContinues \/ LoadFails)

-----------------------------------------------------------------------------
(* Properties.                                                              *)

\* The shape of the state.  A read that counts is the one the panel is loading.
TypeOK ==
    /\ attached \in BOOLEAN /\ online \in BOOLEAN /\ hass \in Sessions \cup {NoHass}
    /\ known \in States \cup {None}
    /\ config \in ConfigTypes /\ pick \in Cameras \cup {None}
    /\ tab \in TabNames /\ expanded \in BOOLEAN /\ days \in {7, 30}
    /\ history.state \in HistoryStates /\ (history.rows # None) = (history.state = "ready")
    /\ preview.load \in Stages \cup {None} /\ preview.failed \in BOOLEAN
    /\ preview.late \subseteq Cameras
    /\ preview.load # None => preview.cam # None /\ preview.node = None /\ ~preview.failed
    /\ Waiting => history.state = "loading" /\ read.session = hass /\ read.days = days

\* README:260 "The default tab must stay visible".  Whatever edits are made one after the
\* other, the card takes the configuration and has a visible tab to begin with; it leaves
\* its configured tabs only for the compact view, and for what that opens.
DefaultIsVisible ==
    /\ CardAccepts(config) /\ DefaultTab(config) \in VisibleTabs(config)
    /\ tab \in VisibleTabs(config) \/ (config.compact /\ tab = "control")

\* README, Period history; comment in _refreshPeriods.  A history on screen was read by
\* the present user for the range that is chosen, and does not lag behind the records
\* that the same card shows on its other tabs.
HistoryFits ==
    history.rows # None =>
        /\ history.rows.session = hass /\ history.rows.days = days /\ Authority
        /\ known # None /\ history.rows.version >= known.version

\* README:104 "Only one preview is open at a time; changing tabs, leaving the card or
\* losing administrator authority closes it".  Live video is only of the camera whose
\* preview is open, opened by the present user, who may see it.
PreviewFits ==
    preview.node # None =>
        /\ preview.node.cam = preview.cam /\ preview.node.session = hass
        /\ Allowed(preview.cam)

\* A tab that the user leaves takes its preview with it.
TabClosesPreview ==
    [][tab = "control" /\ tab' # "control" /\ config' = config => preview'.cam = None]_vars

\* What timed out stays timed out: a late history is not shown, and a late answer does
\* not turn an unconfirmed test into an accepted one (a late refusal clears what was told).
TimeoutsAreFinal ==
    [][/\ history.state = "timeout" => history'.state # "ready"
       /\ notice # None /\ notice.text = "unconfirmed"
             => notice' = None \/ notice'.text = "unconfirmed"]_vars

\* The comment in _previewWait: "A stalled frontend import must leave an explicit
\* retryable result".  A preview on screen shows video or says that it failed, provided
\* that createCardElement, which the card does not time, returns or throws.
PreviewSettles ==
    (preview.cam # None /\ Host(preview.cam))
        ~> (preview.node # None \/ preview.failed
            \/ preview.cam = None \/ ~Host(preview.cam))

=============================================================================
