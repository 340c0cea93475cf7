----------------------------- MODULE CardSession -----------------------------
(***************************************************************************)
(* The browser card (ha-frigate-privacy.js) in one session: who is signed  *)
(* in, whether Home Assistant can be reached, the state it shows, and the  *)
(* one request it may have under way.  The card reads the state by polling *)
(* and after each request; every answer may come late, after the user, the *)
(* connection or the view has changed.  An epoch decides whether an answer *)
(* still counts: here an answer under way is fresh, or not any more.       *)
(*                                                                         *)
(* The integration behind the websocket is modelled from what its commands *)
(* answer; other administrators and the scheduler change its state too.    *)
(* The history, previews and test notifications are in CardPanels.         *)
(***************************************************************************)
EXTENDS Naturals, FiniteSets, CardResults

CONSTANTS Cameras, Slots,     \* cameras and schedules
          Admins, Guests,     \* sessions: a user on a connection to an instance
          NoHass,             \* Home Assistant is not there
          Lines,              \* what may be down: the browser's network, the socket
          Ids,                \* identities of requests
          None,
          Start,              \* the integration's state at the start
          Budget              \* bounds: changes of session, requests, others' changes, all

BudgetKinds == {"turn", "ask", "move", "all"}
Sessions == Admins \cup Guests

ASSUME SessionAssumption ==
    /\ Admins \cap Guests = {} /\ NoHass \notin Sessions
    /\ None \notin Ids \cup Sessions \cup {NoHass}
    /\ Budget \in [BudgetKinds -> Nat]
    /\ Slots # {}

VARIABLES
    attached,  \* isConnected: is the card in the page?
    hass,      \* the session that Lovelace has given the card
    down,      \* the lines that are down
    heard,     \* the lines the card has heard are down
    view,      \* what the card knows of its access
    shown,     \* the state it shows: cameras, records and schedules
    filter,    \* the cameras its configuration shows
    dialog,    \* the open resume confirmation: who asked, about which cameras
    busy,      \* is a request under way, as far as the controls know?
    wire,      \* the request whose answer is outstanding
    outcome,   \* the result of the last request
    acts,      \* the same for each camera
    poll,      \* the session of the state read that counts, if one is under way
    cmds,      \* requests under way
    srv,       \* the integration
    used       \* how much of each bound is used up

card == <<heard, view, shown, filter, dialog, busy, wire, outcome, acts>>
world == <<attached, hass, down>>
vars == <<world, card, poll, cmds, srv, used>>

-----------------------------------------------------------------------------
(* The integration's state, and what a read of it returns.                  *)

RecPhases == {"active", "paused", "partial"}  \* "partial": also what failed outright
Deadlines == 0..2                             \* 0: none; an extension turns 1 into 2
Records == [phase : RecPhases, until : Deadlines]
Saved == {"none", "on", "off"}

Server == [found : SUBSET Cameras, rec : [Cameras -> Records],
           sched : [Slots -> Saved], ready : BOOLEAN]

ASSUME StartAssumption == Start \in Server

\* Of all that may happen, a change made elsewhere counts twice.
Cost(kind) == IF kind = "move" THEN 2 ELSE 1
Use(kind) ==
    /\ used[kind] < Budget[kind] /\ used["all"] + Cost(kind) <= Budget["all"]
    /\ used' = [used EXCEPT ![kind] = @ + 1, !["all"] = @ + Cost(kind)]

-----------------------------------------------------------------------------
(* What the card knows.                                                     *)

View == [checked : BOOLEAN, available : BOOLEAN, denied : BOOLEAN, ready : BOOLEAN]

\* _connectPromise
Connecting == poll # None

\* _visibleCameras and the records among them.
Visible == IF shown = None THEN {} ELSE shown.found \cap filter
Paused == {c \in Visible : shown.rec[c].phase # "active"}

\* _periodAuthority
Authority ==
    /\ attached /\ hass \in Admins /\ ~view.denied
    /\ heard = {} /\ "socket" \notin down

\* _buildGate lets the controls through.
Open ==
    attached /\ view.checked /\ ~view.denied /\ view.available /\ view.ready

Reachable == hass \in Admins /\ ~view.denied /\ heard = {}

-----------------------------------------------------------------------------
(* The epoch: what is under way does not count any more.  A state read that *)
(* does not count changes nothing when it is answered and is forgotten; a    *)
(* request that does not count is still carried out and holds the wire.     *)

Stale(requests) == {[q EXCEPT !.fresh = FALSE] : q \in requests}

NoActs == [c \in Cameras |-> "none"]

\* Mistake: the last result is kept.
ForgetState ==
    /\ shown' = None /\ dialog' = None /\ busy' = FALSE /\ acts' = NoActs
    /\ UNCHANGED outcome

Forget == shown' = None /\ dialog' = None /\ busy' = FALSE /\ outcome' = None /\ acts' = NoActs

\* Mistake: what is forgotten is also taken off the wire.
ClearPrivateAndWire == Forget /\ wire' = None

\* _clearPrivateState; the wire is held until its request has settled.
ClearPrivate == Forget /\ UNCHANGED wire

Forgotten == [view EXCEPT !.checked = FALSE, !.available = FALSE]

\* Mistake: the epoch does not change, so that what is under way still counts.
DropNothing == UNCHANGED <<poll, cmds>>

Drop == poll' = None /\ cmds' = Stale(cmds)

\* _denyAccess
Deny ==
    /\ Forget
    /\ view' = [Forgotten EXCEPT !.denied = TRUE, !.checked = TRUE]
    /\ UNCHANGED <<heard, filter>>

\* _connectIntegration, from a card that looks like v.
Connect(session, v) ==
    /\ poll' = session /\ cmds' = Stale(cmds)
    /\ view' = [v EXCEPT !.checked = v.checked /\ v.available]

-----------------------------------------------------------------------------
(* Lovelace, the user's session and the network.                            *)

\* connectedCallback: the listeners are bound again, but not asked what they missed.
Attach ==
    /\ ~attached /\ attached' = TRUE
    /\ IF Reachable /\ ~view.checked /\ ~Connecting /\ ~busy
       THEN Connect(hass, view)
       ELSE UNCHANGED <<poll, cmds, view>>
    /\ UNCHANGED <<hass, down, heard, shown, filter, dialog, busy, wire, outcome, acts, srv,
                   used>>

\* disconnectedCallback
Detach ==
    /\ attached /\ attached' = FALSE /\ Use("turn")
    /\ ClearPrivate /\ Drop /\ view' = Forgotten
    /\ UNCHANGED <<hass, down, heard, filter, srv>>

\* set hass: a new session forgets the old one's; the same one may be due for a read.
SetHass(session, heardNow) ==
    LET changed == hass # NoHass /\ session # hass
        v == IF changed THEN Forgotten ELSE view
        denied == \/ session = NoHass
                  \/ IF changed \/ ~v.checked THEN session \notin Admins ELSE v.denied
        due == ~denied /\ heardNow = {} /\ (changed \/ (~Connecting /\ ~busy))
    IN  /\ session # hass \/ ~view.checked
        /\ hass' = session /\ heard' = heardNow
        /\ IF changed THEN ClearPrivate ELSE UNCHANGED <<shown, dialog, busy, wire, outcome, acts>>
        /\ IF due THEN Connect(session, [v EXCEPT !.denied = FALSE])
           ELSE /\ view' = [v EXCEPT !.denied = denied,
                              !.checked = IF denied THEN session # NoHass ELSE v.checked,
                              !.available = ~denied /\ v.available]
                /\ IF changed THEN Drop ELSE UNCHANGED <<poll, cmds>>
        /\ UNCHANGED <<attached, down, filter, srv>>

\* A different session may come with a different socket, whose state is known.
ChangeSession(session) ==
    /\ session # hass
    /\ IF hass = NoHass THEN UNCHANGED used ELSE Use("turn")
    /\ \/ SetHass(session, (heard \ {"socket"}) \cup IF session = NoHass THEN {} ELSE down \cap {"socket"})
       \/ hass # NoHass /\ session # NoHass /\ SetHass(session, heard)

SameSession == hass # NoHass /\ SetHass(hass, heard) /\ UNCHANGED used

\* setConfig closes the confirmation.
Configure(cameras) ==
    /\ cameras # filter /\ filter' = cameras /\ Use("turn")
    /\ dialog' = None
    /\ UNCHANGED <<world, heard, view, shown, busy, wire, outcome, acts, poll, cmds, srv>>

\* _periodDisconnected, _periodOffline: only a card in the page listens, and to the
\* socket only of a session that it has.
Listens(l) == attached /\ (l = "socket" => hass # NoHass)
GoesDown(l) ==
    /\ l \notin down /\ down' = down \cup {l} /\ Use("turn")
    /\ IF Listens(l)
       THEN heard' = heard \cup {l} /\ ClearPrivate /\ Drop /\ view' = Forgotten
       ELSE UNCHANGED <<heard, view, shown, dialog, busy, wire, outcome, acts, poll, cmds>>
    /\ UNCHANGED <<attached, hass, filter, srv>>

\* _periodReady, _periodOnline
ComesUp(l) ==
    /\ l \in down /\ down' = down \ {l}
    /\ heard' = IF Listens(l) THEN heard \ {l} ELSE heard
    /\ UNCHANGED <<attached, hass, view, shown, filter, dialog, busy, wire, outcome, acts,
                   poll, cmds, srv, used>>

-----------------------------------------------------------------------------
(* Reading the state.                                                       *)

Snapshot(session) ==
    [session |-> session, found |-> srv.found, rec |-> srv.rec, sched |-> srv.sched]

Reading == UNCHANGED <<world, heard, shown, filter, dialog, busy, wire, outcome, acts, srv, used>>

\* The timer of connectedCallback.
Poll ==
    /\ attached /\ Reachable /\ ~Connecting /\ ~busy
    /\ Connect(hass, view) /\ Reading

\* The confirmation is modal: what is behind it cannot be clicked.
Modal == dialog # None /\ Authority

\* The button of the gate, and the one of the notification settings.  Neither asks
\* whether a request is under way.
Retry ==
    /\ attached /\ view.checked /\ (view.denied \/ ~view.available)
    /\ Connect(hass, view) /\ Reading
Refresh ==
    /\ Open /\ ~Modal /\ ~Connecting
    /\ Connect(hass, view) /\ Reading

\* What an answer to get_state does to a card for which it still counts.
Answered == [view EXCEPT !.denied = FALSE, !.available = TRUE, !.checked = TRUE,
                         !.ready = srv.ready]

\* Mistake: a failed read is not an answer.
UnansweredUnchecked == [view EXCEPT !.available = FALSE]

Unanswered == [view EXCEPT !.available = FALSE, !.checked = TRUE]

\* The answers of one socket arrive in order, so reading and arriving are one step.
PollArrives ==
    /\ poll \in Admins /\ "socket" \notin down
    /\ view' = Answered /\ shown' = Snapshot(poll)
    /\ poll' = None
    /\ UNCHANGED <<world, heard, filter, dialog, busy, wire, outcome, acts, cmds, srv, used>>

PollFails ==
    /\ poll \in Admins
    /\ view' = Unanswered
    /\ poll' = None
    /\ UNCHANGED <<world, heard, shown, filter, dialog, busy, wire, outcome, acts, cmds, srv,
                   used>>

\* A guest, or an administrator who has lost that role.
PollDenied ==
    /\ poll # None
    /\ Deny /\ Drop /\ UNCHANGED <<world, wire, srv, used>>

PollAnswer == PollArrives \/ PollFails \/ PollDenied

-----------------------------------------------------------------------------
(* Asking: _runMutation up to its call.                                     *)

Requests == [kind : Kinds, cams : SUBSET Cameras, item : Slots, save : Saved]
Rows == [cam : Cameras, flag : Flags, phase : RowPhases, until : Deadlines]
Answers == [ok : {"yes", "no", "none"}, phase : RowPhases \cup {"none"},
            rows : UNION {[cams -> Rows] : cams \in SUBSET Cameras}, saved : Saved]

\* A request under way: sent, answered by the integration, or accepted while the state is
\* read.  It is fresh while its answer counts.
Calls == [id : Ids, req : Requests, session : Sessions, fresh : BOOLEAN,
          stage : {"sent", "answered", "reading"}, answer : Answers \cup {None},
          refusal : Refusals \cup {"none"}]
Outcomes == [code : Codes, session : Sessions]

ASSUME AnswerAssumption == None \notin Answers \cup Outcomes

Free == Ids \ {q.id : q \in cmds}
AnyItem == CHOOSE s \in Slots : TRUE
OfCameras(kind, cams) == [kind |-> kind, cams |-> cams, item |-> AnyItem, save |-> "none"]

Ask(req) ==
    /\ wire = None /\ ~busy /\ view.available /\ view.ready
    /\ Free # {} /\ Use("ask")
    /\ LET id == CHOOSE i \in Free : TRUE
       IN  /\ wire' = id
           /\ cmds' = cmds \cup {[id |-> id, req |-> req, session |-> hass, fresh |-> TRUE,
                                  stage |-> "sent", answer |-> None, refusal |-> "none"]}
    /\ busy' = TRUE /\ outcome' = [code |-> "not_checked", session |-> hass]
    /\ acts' = [c \in Cameras |-> IF c \in req.cams THEN "pending" ELSE acts[c]]
    /\ UNCHANGED <<world, heard, view, shown, filter, poll, srv>>

\* _pause, _quickPause: the selected cameras, or all that are visible.
Pause == \E cams \in (SUBSET Visible) \ {{}} :
    Open /\ ~Modal /\ Ask(OfCameras("pause", cams)) /\ UNCHANGED dialog

\* _extendPrivacy
Extend == \E c \in Paused :
    /\ Open /\ ~Modal /\ shown.rec[c].until # 0
    /\ Ask(OfCameras("extend", {c})) /\ UNCHANGED dialog

\* _resume: ask for confirmation.
OpenResume == \E cams \in (SUBSET Paused) \ {{}} :
    /\ Open /\ Authority /\ dialog = None /\ ~busy /\ wire = None
    /\ dialog' = [session |-> hass, cams |-> cams]
    /\ UNCHANGED <<world, heard, view, shown, filter, busy, wire, outcome, acts, poll, cmds,
                   srv, used>>

\* _cancelResume; _acceptResume when nothing is left to resume, or not now.
CancelResume ==
    /\ Modal /\ dialog' = None
    /\ UNCHANGED <<world, heard, view, shown, filter, busy, wire, outcome, acts, poll, cmds,
                   srv, used>>

\* _acceptResume: of the cameras that were named, those that are still paused.
AcceptResume ==
    /\ Modal /\ dialog.session = hass
    /\ dialog.cams \cap Paused # {}
    /\ Ask(OfCameras("resume", dialog.cams \cap Paused)) /\ dialog' = None

\* _toggleSchedule, _saveScheduleFromForm, _deleteSchedule
SetSchedule == \E s \in Slots, save \in Saved :
    /\ Open /\ ~Modal /\ shown # None /\ save # shown.sched[s]
    /\ Ask([kind |-> "schedule", cams |-> {}, item |-> s, save |-> save])
    /\ UNCHANGED dialog

-----------------------------------------------------------------------------
(* The integration.                                                         *)

Row(c, flag, phase, until) == [cam |-> c, flag |-> flag, phase |-> phase, until |-> until]
Effect(c, rec, flag, phase) == [rec |-> rec, row |-> Row(c, flag, phase, rec.until)]

\* What may become of one camera of a request, and the row that says so.
Effects(kind, c) ==
    LET r == srv.rec[c]
        Nothing == Effect(c, r, "no", "error")
        Half == Effect(c, [r EXCEPT !.phase = "partial"], "no", "partial")
    IN  {Nothing} \cup
        (IF kind = "pause" /\ c \in srv.found
         THEN {Half, Effect(c, [phase |-> "paused", until |-> 1], "yes", "paused")} ELSE {}) \cup
        (IF kind = "resume"
         THEN {Half, Effect(c, [phase |-> "active", until |-> 0], "yes", "active")} ELSE {}) \cup
        (IF kind = "extend" /\ c \in srv.found /\ r.phase # "active" /\ r.until = 1
         THEN {Effect(c, [r EXCEPT !.until = 2], "yes", r.phase)} ELSE {})

\* The answer to a request as a whole, from the rows of its cameras.
Total(kind, rows) ==
    LET ok == \A c \in DOMAIN rows : Good(kind, rows[c])
        half == kind = "extend" /\ \E c \in DOMAIN rows : rows[c].flag = "yes"
        failed == IF kind = "pause" \/ half THEN "partial" ELSE "error"
    IN  [ok |-> IF ok THEN "yes" ELSE "no", phase |-> IF ok THEN Phase(kind) ELSE failed,
         rows |-> rows, saved |-> "none"]

Replace(q, new) == cmds' = (cmds \ {q}) \cup {new}

\* The effects e on some of the cameras.
Take(e) == srv' = [srv EXCEPT !.rec = [c \in Cameras |-> IF c \in DOMAIN e THEN e[c].rec ELSE @[c]]]
Choices(q, cams) == {e \in [cams -> UNION {Effects(q.req.kind, c) : c \in cams}] :
                        \A c \in cams : e[c] \in Effects(q.req.kind, c)}

Serving(q) == q.stage = "sent" /\ UNCHANGED <<world, card, poll, used>>

\* Every camera was tried.
Serve(q) ==
    /\ Serving(q) /\ srv.ready /\ q.req.kind \in CameraKinds
    /\ \E e \in Choices(q, q.req.cams) :
          /\ Take(e)
          /\ Replace(q, [q EXCEPT !.stage = "answered",
                           !.answer = Total(q.req.kind, [c \in DOMAIN e |-> e[c].row])])

NoRows == [c \in {} |-> c]
SaveSchedule(q) == srv' = [srv EXCEPT !.sched[q.req.item] = q.req.save]

ServeSchedule(q) ==
    /\ Serving(q) /\ srv.ready /\ q.req.kind = "schedule"
    /\ SaveSchedule(q)
    /\ Replace(q, [q EXCEPT !.stage = "answered",
                     !.answer = [ok |-> "none", phase |-> "none", rows |-> NoRows,
                                 saved |-> q.req.save]])

\* The call fails.  A pause, extension or resume works camera by camera and may raise
\* at a later one, even with a code that says rejected; when the connection is lost the
\* request may have been carried out in full.
Fail(q, refusal) ==
    /\ Serving(q)
    /\ \/ UNCHANGED srv
       \/ /\ srv.ready /\ refusal = "failed" /\ q.req.kind = "schedule" /\ SaveSchedule(q)
       \/ /\ srv.ready /\ refusal # "unauthorized"
          /\ \E cams \in SUBSET q.req.cams :
                /\ refusal = "rejected" => cams # q.req.cams
                /\ \E e \in Choices(q, cams) : Take(e)
    /\ Replace(q, [q EXCEPT !.stage = "answered", !.refusal = refusal])

\* Other administrators, the scheduler, discovery and recovery.
Elsewhere ==
    /\ Use("move")
    /\ \/ \E c \in Cameras, phase \in RecPhases :
             srv' = [srv EXCEPT !.rec[c] = [phase |-> phase, until |-> IF phase = "active" THEN 0 ELSE 1]]
       \/ \E c \in Cameras :
             srv' = [srv EXCEPT !.found = IF c \in @ THEN @ \ {c} ELSE @ \cup {c}]
       \/ \E s \in Slots, save \in Saved : srv' = [srv EXCEPT !.sched[s] = save]
       \/ srv' = [srv EXCEPT !.ready = ~@]
    /\ srv' # srv
    /\ UNCHANGED <<world, card, poll, cmds>>

-----------------------------------------------------------------------------
(* Telling: _runMutation from its answer on.                                *)

\* Mistake: an answer that does not count any more keeps the wire.
SettleFresh(q) ==
    /\ cmds' = cmds \ {q}
    /\ wire' = IF q.fresh /\ wire = q.id THEN None ELSE wire

\* The wire is released however the request ended.
Settle(q) ==
    /\ cmds' = cmds \ {q}
    /\ wire' = IF wire = q.id THEN None ELSE wire

\* The result of the request, as a whole and per camera.
Tell(q, code, results) ==
    /\ outcome' = [code |-> code, session |-> q.session] /\ busy' = FALSE
    /\ acts' = [c \in Cameras |-> IF c \in q.req.cams THEN results[c] ELSE acts[c]]

TellFailure(q, code) ==
    Tell(q, code, [c \in Cameras |-> IF code = "error" THEN "error" ELSE "unconfirmed"])

Telling == UNCHANGED <<world, heard, filter, srv, used>>
NotShowing == UNCHANGED <<view, shown, dialog, poll>>

\* An answer for a card that has moved on.
Ignored(q) ==
    /\ q.stage # "sent" /\ ~q.fresh
    /\ Settle(q) /\ UNCHANGED <<busy, outcome, acts>> /\ NotShowing /\ Telling

Refused(q) ==
    /\ q.stage = "answered" /\ q.fresh /\ q.refusal \in {"rejected", "failed"}
    /\ TellFailure(q, FailureCode("none", q.refusal))
    /\ Settle(q) /\ NotShowing /\ Telling

\* Mistake: a call that failed is taken for an accepted one.
AcceptedAny(q) ==
    /\ q.stage = "answered" /\ q.fresh /\ q.refusal # "unauthorized"
    /\ Replace(q, [q EXCEPT !.stage = "reading"])
    /\ UNCHANGED <<card, poll>> /\ Telling

\* The call was accepted: read the state.
Accepted(q) ==
    /\ q.stage = "answered" /\ q.fresh /\ q.refusal = "none"
    /\ Replace(q, [q EXCEPT !.stage = "reading"])
    /\ UNCHANGED <<card, poll>> /\ Telling

ReadBack(q) ==
    /\ q.stage = "reading" /\ q.fresh /\ "socket" \notin down
    /\ Tell(q, Verdict(q.req, q.answer, srv),
            [c \in Cameras |-> CameraResult(q.req, q.answer, srv, c)])
    /\ shown' = Snapshot(q.session) /\ view' = [view EXCEPT !.ready = srv.ready]
    /\ Settle(q) /\ UNCHANGED <<dialog, poll>> /\ Telling

ReadBackFails(q) ==
    /\ q.stage = "reading" /\ q.fresh
    /\ LET told == MutationResult(q.req.kind, q.answer, q.req.cams)
       IN  TellFailure(q, FailureCode(told, "failed"))
    /\ Settle(q) /\ NotShowing /\ Telling

\* Either call was refused for want of authority.
Denied(q) ==
    /\ q.fresh /\ (q.stage = "reading" \/ q.refusal = "unauthorized")
    /\ Deny /\ wire' = IF wire = q.id THEN None ELSE wire
    /\ cmds' = Stale(cmds \ {q}) /\ poll' = None
    /\ UNCHANGED <<world, srv, used>>

-----------------------------------------------------------------------------
(* The specification.                                                       *)

\* A page before its first hass, over any state of the integration in starts.
Init ==
    /\ attached = FALSE /\ hass = NoHass /\ down = {} /\ heard = {}
    /\ view = [checked |-> FALSE, available |-> FALSE, denied |-> FALSE, ready |-> TRUE]
    /\ shown = None /\ filter = Cameras /\ dialog = None
    /\ busy = FALSE /\ wire = None /\ outcome = None /\ acts = NoActs
    /\ poll = None /\ cmds = {}
    /\ srv = Start
    /\ used = [kind \in BudgetKinds |-> 0]

Surroundings ==
    \/ Attach \/ Detach \/ SameSession \/ Elsewhere
    \/ \E session \in Sessions \cup {NoHass} : ChangeSession(session)
    \/ \E cameras \in SUBSET Cameras : Configure(cameras)
    \/ \E l \in Lines : GoesDown(l) \/ ComesUp(l)

User ==
    \/ Pause \/ Extend \/ OpenResume \/ CancelResume \/ AcceptResume \/ SetSchedule
    \/ Retry \/ Refresh

Handle(q) == Serve(q) \/ ServeSchedule(q) \/ \E refusal \in Refusals : Fail(q, refusal)
Deliver(q) ==
    Ignored(q) \/ Refused(q) \/ Accepted(q) \/ ReadBack(q) \/ ReadBackFails(q) \/ Denied(q)

Next ==
    \/ Surroundings \/ User \/ Poll \/ PollAnswer
    \/ \E q \in cmds : Handle(q) \/ Deliver(q)

Spec == Init /\ [][Next]_vars

\* Every call settles (a lost connection rejects it), the timer keeps running, and
\* Lovelace assigns hass again whenever any state in Home Assistant changes.  Nothing is
\* assumed of users, networks, changes of session or other administrators.
Fairness ==
    /\ WF_vars(Poll) /\ WF_vars(SameSession)
    /\ WF_vars(PollAnswer)
    /\ WF_vars(\E q \in cmds : Handle(q) \/ Deliver(q))

FairSpec == Spec /\ Fairness

-----------------------------------------------------------------------------
(* Properties.                                                              *)

Snapshots == [session : Sessions, found : SUBSET Cameras, rec : [Cameras -> Records],
              sched : [Slots -> Saved]]
ResultCodes == Codes \cup {"none", "pending"}

\* The shape of the state.  A request has an answer when it was served and not refused.
CallOK(q) ==
    /\ q.req.kind = "schedule" => q.req.cams = {}
    /\ q.stage = "sent" => q.refusal = "none" /\ q.answer = None
    /\ q.stage = "answered" => (q.refusal = "none") = (q.answer # None)
    /\ q.stage = "reading" => q.refusal = "none" /\ q.answer # None
    /\ q.answer # None => /\ DOMAIN q.answer.rows = q.req.cams
                          /\ \A c \in q.req.cams : q.answer.rows[c].cam = c
TypeOK ==
    /\ attached \in BOOLEAN /\ hass \in Sessions \cup {NoHass}
    /\ down \subseteq Lines /\ heard \subseteq Lines
    /\ view \in View /\ shown \in Snapshots \cup {None} /\ filter \subseteq Cameras
    /\ dialog \in [session : Sessions, cams : SUBSET Cameras] \cup {None}
    /\ busy \in BOOLEAN /\ wire \in Ids \cup {None}
    /\ outcome \in Outcomes \cup {None}
    /\ acts \in [Cameras -> ResultCodes]
    /\ poll \in Sessions \cup {None}
    /\ srv \in Server /\ used \in [BudgetKinds -> Nat]
    /\ cmds \subseteq Calls /\ \A q \in cmds : CallOK(q)

\* One request at a time, whatever happens to the session: a second pause or resume is
\* never sent while the answer to the first is outstanding, not even by another user
\* who has signed in on the same page or after the card was moved in the page.
OneRequestAtATime == Cardinality(cmds) <= 1

\* README, Security: "Changing the signed-in account or HA instance discards the
\* previous account's cached state and late responses".  Nothing shown, told, or
\* waiting for a confirmation was learned in another session than the present one.
NoForeignState ==
    /\ shown # None => shown.session = hass
    /\ outcome # None => outcome.session = hass
    /\ dialog # None => dialog.session = hass
    /\ \A c \in Cameras : acts[c] # "none" => hass \in Sessions

\* A card that is denied, without Home Assistant, or told that it is offline shows no
\* camera, no schedule and no result, whichever answer arrives then.
NothingWithoutAuthority ==
    view.denied \/ hass = NoHass \/ heard # {} => shown = None /\ outcome = None

\* README, Safety: "Success requires a valid operation response and a fresh state
\* read".  A success that is newly told is of a request that the integration carried
\* out for each of its cameras, and the integration's state agrees at that moment.
Carried(q) ==
    /\ q.refusal = "none" /\ q.answer # None
    /\ \A c \in q.req.cams : Good(q.req.kind, q.answer.rows[c])
Agrees(q) ==
    IF q.req.kind = "schedule" THEN srv.sched[q.req.item] = q.req.save
    ELSE \A c \in q.req.cams : srv.rec[c].phase = Phase(q.req.kind)
SuccessIsConfirmed ==
    [][outcome' # outcome /\ outcome' # None /\ outcome'.code = "success"
       => \E q \in cmds : q.session = hass /\ Carried(q) /\ Agrees(q)]_vars

\* The card implements the abstract promise: the request on the wire is what the user
\* asked for last, and its stage is told by what the integration did with it.
Request == CHOOSE q \in cmds : q.id = wire
RequestStage ==
    IF wire = None THEN "idle"
    ELSE IF Request.stage = "sent" THEN "asked"
    ELSE IF Carried(Request) THEN "done" ELSE "doubtful"
RequestTold ==
    IF outcome = None THEN "nothing"
    ELSE IF outcome.code = "not_checked" THEN "pending"
    ELSE IF outcome.code = "success" THEN "success" ELSE "doubt"
Promise == INSTANCE ConfirmedRequest WITH stage <- RequestStage, told <- RequestTold
KeepsPromise == Promise!Spec

\* An outstanding request does not block the card for ever: its answer, late or for a
\* card that has moved on, releases the wire.
WireIsReleased == (wire # None) ~> (wire = None)

\* A card in the page of an administrator that has heard of no line being down does not
\* stay in "Connecting".
KnowsItIsUp == attached /\ hass \in Admins /\ heard = {} /\ down = {} /\ ~busy
SessionIsChecked == KnowsItIsUp ~> (view.checked \/ ~KnowsItIsUp)

\* Disagreement.  README, Safety: "Pending, partial, failed and unconfirmed results stay
\* separate".  What is told as in progress has a request under way.
PendingIsOnTheWire ==
    outcome # None /\ outcome.code = "not_checked" => wire # None

=============================================================================
