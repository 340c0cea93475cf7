-------------------------- MODULE CardSessionProofs --------------------------
(***************************************************************************)
(* Proofs about CardSession: what the card shows, tells and has on the     *)
(* wire, for any cameras, schedules, users, lines, identities and bounds,  *)
(* and that it keeps the promise of ConfirmedRequest.  They rest on what   *)
(* the verdicts of CardResults guarantee for every answer and every state: *)
(* any rows (missing, repeated, about cameras that nobody asked for), any  *)
(* flags and phases.                                                       *)
(***************************************************************************)
EXTENDS CardSession, FiniteSetTheorems, TLAPS

-----------------------------------------------------------------------------
(* The verdicts.                                                            *)

Asks(req) == req.kind \in CameraKinds

\* A request that changed one camera as it was asked to, and the state says so.
Confirmed(req, answer, state, c) ==
    /\ \E i \in DOMAIN answer.rows :
          /\ answer.rows[i].cam = c /\ Good(req.kind, answer.rows[i])
          /\ \A j \in DOMAIN answer.rows : answer.rows[j].cam = c => j = i
    /\ CameraAgrees(req.kind, answer, state, c)

-----------------------------------------------------------------------------
\* The one row of a camera is the one that the card looks at.
LEMMA TheRow ==
    ASSUME NEW answer, NEW c, OneRow(answer, c)
    PROVE  LET i == CHOOSE i \in RowsOf(answer, c) : TRUE
           IN  /\ i \in DOMAIN answer.rows /\ answer.rows[i].cam = c
               /\ \A j \in DOMAIN answer.rows : answer.rows[j].cam = c => j = i
<1>1. PICK k \in RowsOf(answer, c) : RowsOf(answer, c) = {k}  BY DEF OneRow
<1>2. (CHOOSE i \in RowsOf(answer, c) : TRUE) = k  BY <1>1
<1> QED  BY <1>1, <1>2 DEF RowsOf

\* A success of a request for cameras comes from its answer and is upheld by the state.
LEMMA SuccessIsTold ==
    ASSUME NEW req, NEW answer, NEW state, Asks(req), Verdict(req, answer, state) = "success"
    PROVE  /\ ToldSuccess(req.kind, answer, req.cams)
           /\ \A c \in req.cams : CameraAgrees(req.kind, answer, state, c)
<1>1. req.kind # "schedule"  BY DEF Asks, CameraKinds
<1>2. /\ MutationResult(req.kind, answer, req.cams) = "success"
      /\ MutationReadback(req, answer, state)
  BY <1>1 DEF Verdict
<1>3. ToldSuccess(req.kind, answer, req.cams)  BY <1>2 DEF MutationResult, Asks
<1> QED  BY <1>1, <1>2, <1>3 DEF MutationReadback

\* README, Safety: "Success requires a valid operation response and a fresh state read".
\* When the card tells success, each camera of the request, and no other camera, has one
\* row in the answer, the row says that it was changed, and the state that was read agrees.
THEOREM SuccessIsOfEveryCamera ==
    ASSUME NEW req, NEW answer, NEW state, Asks(req), Verdict(req, answer, state) = "success"
    PROVE  /\ req.cams # {}
           /\ \A c \in req.cams : Confirmed(req, answer, state, c)
           /\ \A i \in DOMAIN answer.rows : answer.rows[i].cam \in req.cams
<1>1. ToldSuccess(req.kind, answer, req.cams)  BY SuccessIsTold
<1>2. ASSUME NEW c \in req.cams
      PROVE  Confirmed(req, answer, state, c)
  <2>1. OneRow(answer, c)  BY <1>1 DEF ToldSuccess
  <2>2. PICK i \in DOMAIN answer.rows :
           /\ answer.rows[i].cam = c
           /\ \A j \in DOMAIN answer.rows : answer.rows[j].cam = c => j = i
    BY <2>1, TheRow
  <2>3. Good(req.kind, answer.rows[i])  BY <1>1 DEF ToldSuccess
  <2>4. CameraAgrees(req.kind, answer, state, c)  BY SuccessIsTold
  <2> QED  BY <2>2, <2>3, <2>4 DEF Confirmed
<1> QED  BY <1>1, <1>2 DEF ToldSuccess

\* What a camera's tile tells as success is confirmed for that camera, whatever became
\* of the other cameras of the request.
THEOREM CameraSuccessIsConfirmed ==
    ASSUME NEW req, NEW answer, NEW state, NEW c,
           CameraResult(req, answer, state, c) = "success"
    PROVE  Confirmed(req, answer, state, c)
<1> DEFINE row == answer.rows[CHOOSE i \in RowsOf(answer, c) : TRUE]
<1>1. OneRow(answer, c)  BY DEF CameraResult
<1>2. row.flag = "no" /\ row.phase \in {"error", "partial"} => row.phase # "success"
  OBVIOUS
<1>3. Good(req.kind, row) /\ CameraAgrees(req.kind, answer, state, c)
  BY <1>1, <1>2 DEF CameraResult
<1> QED  BY <1>1, <1>3, TheRow DEF Confirmed

\* The verdict on the request and those on its cameras do not contradict each other:
\* when the request succeeded, so did each of its cameras; when it is told to have
\* failed, none of them did.
THEOREM VerdictsAgree ==
    ASSUME NEW req, NEW answer, NEW state, Asks(req), NEW c \in req.cams
    PROVE  /\ Verdict(req, answer, state) = "success"
                => CameraResult(req, answer, state, c) = "success"
           /\ Verdict(req, answer, state) = "error"
                => CameraResult(req, answer, state, c) # "success"
<1>1. ASSUME Verdict(req, answer, state) = "success"
      PROVE  CameraResult(req, answer, state, c) = "success"
  <2>1. ToldSuccess(req.kind, answer, req.cams) /\ CameraAgrees(req.kind, answer, state, c)
    BY <1>1, SuccessIsTold
  <2>2. OneRow(answer, c)  BY <2>1 DEF ToldSuccess
  <2>3. Good(req.kind, answer.rows[CHOOSE i \in RowsOf(answer, c) : TRUE])
    BY <2>1, <2>2, TheRow DEF ToldSuccess
  <2> QED  BY <2>1, <2>2, <2>3 DEF CameraResult
<1>2. ASSUME Verdict(req, answer, state) = "error",
             CameraResult(req, answer, state, c) = "success"
      PROVE  FALSE
  <2>1. req.kind # "schedule"  BY DEF Asks, CameraKinds
  <2>2. MutationResult(req.kind, answer, req.cams) = "error"  BY <1>2, <2>1 DEF Verdict
  <2>3. ToldError(answer)  BY <2>2 DEF MutationResult
  <2>4. PICK i \in DOMAIN answer.rows : Good(req.kind, answer.rows[i])
    BY <1>2, CameraSuccessIsConfirmed DEF Confirmed
  <2> QED  BY <2>3, <2>4 DEF ToldError, Good
<1> QED  BY <1>1, <1>2

\* README, Safety: "partial" is kept apart.  An answer in which some cameras changed and
\* others did not is told as partial, never as success or as an error.
THEOREM MixedIsPartial ==
    ASSUME NEW req, NEW answer, NEW state, Asks(req), ValidRows(answer),
           \E i \in DOMAIN answer.rows : Good(req.kind, answer.rows[i]),
           \E i \in DOMAIN answer.rows : ~Good(req.kind, answer.rows[i])
    PROVE  Verdict(req, answer, state) = "partial"
<1>1. req.kind # "schedule"  BY DEF Asks, CameraKinds
<1>2. ToldPartial(req.kind, answer)  BY DEF ToldPartial
<1>3. MutationResult(req.kind, answer, req.cams) = "partial"
  BY <1>2 DEF MutationResult, Asks
<1> QED  BY <1>1, <1>3 DEF Verdict

-----------------------------------------------------------------------------
(* The inductive invariant.                                                 *)

\* The wire holds exactly the request that is under way.
Wired == IF wire = None THEN cmds = {} ELSE \E q \in cmds : cmds = {q} /\ q.id = wire

\* A state read that counts was asked for in the present session.
Mine == poll # None => poll = hass

\* A request whose answer counts was made by the present user, an administrator with
\* authority; its result is awaited.
Fresh ==
    \A q \in cmds : q.fresh =>
        /\ q.session = hass /\ hass \in Admins /\ ~view.denied /\ heard = {}
        /\ outcome # None /\ outcome.code = "not_checked"

\* What is shown, told or waiting for a confirmation belongs to the present user, an
\* administrator with authority.
Learned ==
    /\ shown # None => shown.session = hass
    /\ outcome # None => outcome.session = hass
    /\ dialog # None => dialog.session = hass
    /\ shown # None \/ outcome # None => hass \in Admins /\ ~view.denied /\ heard = {}
    /\ hass = NoHass => acts = NoActs /\ dialog = None

\* A card without Home Assistant, or that has heard a line go down, has not checked.
Unchecked ==
    /\ hass = NoHass => ~view.checked
    /\ heard # {} /\ hass \in Admins => ~view.checked /\ poll = None

\* Nothing is awaited but by a card that is busy.
Awaited == outcome # None /\ outcome.code = "not_checked" => busy

IInv == TypeOK /\ Wired /\ Mine /\ Fresh /\ Learned /\ Unchecked /\ Awaited

\* TypeOK in two parts: the requests under way, and everything else.
CallsOK == cmds \subseteq Calls /\ \A q \in cmds : CallOK(q)
CardOK ==
    /\ attached \in BOOLEAN /\ hass \in Sessions \cup {NoHass}
    /\ down \subseteq Lines /\ heard \subseteq Lines
    /\ view \in View /\ shown \in Snapshots \cup {None} /\ filter \subseteq Cameras
    /\ dialog \in [session : Sessions, cams : SUBSET Cameras] \cup {None}
    /\ busy \in BOOLEAN /\ wire \in Ids \cup {None}
    /\ outcome \in Outcomes \cup {None}
    /\ acts \in [Cameras -> ResultCodes]
    /\ poll \in Sessions \cup {None}
ServerOK == srv \in Server /\ used \in [BudgetKinds -> Nat]

\* What is neither typing nor about the wire.
Belongs == Mine /\ Fresh /\ Learned /\ Unchecked /\ Awaited

\* The invariant by its parts.
LEMMA Parts == IInv <=> CardOK /\ ServerOK /\ CallsOK /\ Wired /\ Belongs
  BY DEF IInv, TypeOK, CardOK, ServerOK, CallsOK, Belongs

\* The same after a step.
LEMMA PartsNext == IInv' <=> CardOK' /\ ServerOK' /\ CallsOK' /\ Wired' /\ Belongs'
  BY DEF IInv, TypeOK, CardOK, ServerOK, CallsOK, Belongs

\* What marks an absence is none of the things that may be absent.
LEMMA Distinct ==
    /\ None \notin Ids /\ None \notin Sessions /\ None # NoHass
    /\ NoHass \notin Sessions /\ Admins \subseteq Sessions
    /\ None \notin Answers /\ None \notin Outcomes
  BY SessionAssumption, AnswerAssumption DEF Sessions

-----------------------------------------------------------------------------
(* What a change of epoch does to the requests under way.                   *)

\* A request that does not count any more is otherwise the same.
LEMMA StaleCall ==
    ASSUME NEW q \in Calls, CallOK(q)
    PROVE  LET p == [q EXCEPT !.fresh = FALSE]
           IN  /\ p \in Calls /\ CallOK(p) /\ ~p.fresh
               /\ p.id = q.id /\ p.req = q.req /\ p.session = q.session
               /\ p.stage = q.stage /\ p.answer = q.answer /\ p.refusal = q.refusal
<1> DEFINE p == [q EXCEPT !.fresh = FALSE]
<1>1. /\ p \in Calls /\ ~p.fresh /\ p.id = q.id /\ p.req = q.req /\ p.session = q.session
      /\ p.stage = q.stage /\ p.answer = q.answer /\ p.refusal = q.refusal
  BY DEF Calls
<1>2. CallOK(p)
  <2> HIDE DEF p
  <2> QED  BY <1>1 DEF CallOK
<1> QED  BY <1>1, <1>2

\* So are all requests under way.
LEMMA StaleCalls ==
    ASSUME NEW S \in SUBSET Calls, \A q \in S : CallOK(q)
    PROVE  /\ Stale(S) \subseteq Calls
           /\ \A p \in Stale(S) : CallOK(p) /\ ~p.fresh
<1>1. ASSUME NEW p \in Stale(S)
      PROVE  p \in Calls /\ CallOK(p) /\ ~p.fresh
  <2>1. PICK q \in S : p = [q EXCEPT !.fresh = FALSE]  BY <1>1 DEF Stale
  <2> QED  BY <2>1, StaleCall
<1> QED  BY <1>1

\* A request keeps the wire when it is not heeded any more.
LEMMA StaleWired ==
    ASSUME CallsOK, Wired, UNCHANGED wire, cmds' = Stale(cmds)
    PROVE  CallsOK' /\ Wired' /\ \A q \in cmds' : ~q.fresh
<1>1. CallsOK' /\ \A q \in cmds' : ~q.fresh  BY StaleCalls DEF CallsOK
<1>2. CASE wire = None
  <2>1. cmds' = {}  BY <1>2 DEF Wired, Stale
  <2> QED  BY <1>1, <1>2, <2>1 DEF Wired
<1>3. CASE wire # None
  <2>1. PICK q \in cmds : cmds = {q} /\ q.id = wire  BY <1>3 DEF Wired
  <2>2. cmds' = {[q EXCEPT !.fresh = FALSE]}  BY <2>1 DEF Stale
  <2>3. [q EXCEPT !.fresh = FALSE].id = wire  BY <2>1, StaleCall DEF CallsOK
  <2> QED  BY <1>1, <1>3, <2>2, <2>3 DEF Wired
<1> QED  BY <1>2, <1>3

\* What does not touch the wire keeps it in order.
LEMMA SameWired ==
    ASSUME CallsOK, Wired, UNCHANGED <<wire, cmds>>
    PROVE  CallsOK' /\ Wired'
  BY DEF CallsOK, Wired, CallOK

\* The one request under way is replaced by the same one in another stage.
LEMMA ReplaceWired ==
    ASSUME CallsOK, Wired, UNCHANGED wire, NEW q \in cmds, NEW new \in Calls,
           Replace(q, new), CallOK(new), new.id = q.id
    PROVE  CallsOK' /\ Wired' /\ cmds' = {new}
<1>1. wire # None /\ cmds = {q} /\ q.id = wire  BY DEF Wired
<1>2. cmds' = {new}  BY <1>1 DEF Replace
<1> QED  BY <1>1, <1>2 DEF CallsOK, Wired, CallOK

\* The wire is released with the last request.
LEMMA SettleWired ==
    ASSUME CallsOK, Wired, NEW q \in cmds, Settle(q)
    PROVE  CallsOK' /\ Wired' /\ cmds' = {} /\ wire' = None
<1>1. wire # None /\ cmds = {q} /\ q.id = wire  BY DEF Wired
<1>2. cmds' = {} /\ wire' = None  BY <1>1 DEF Settle
<1> QED  BY <1>2 DEF CallsOK, Wired

\* The counts of the bounds stay numbers.
LEMMA UseOK ==
    ASSUME used \in [BudgetKinds -> Nat], NEW kind \in BudgetKinds, Use(kind)
    PROVE  used' \in [BudgetKinds -> Nat]
<1>1. Cost(kind) \in Nat  BY DEF Cost
<1> QED  BY <1>1 DEF Use, BudgetKinds

-----------------------------------------------------------------------------
(* Lovelace, the session and the network.                                   *)

\* What the card makes of its access.
LEMMA ViewOK ==
    ASSUME view \in View, srv \in Server
    PROVE  /\ Forgotten \in View /\ Answered \in View /\ Unanswered \in View
           /\ ~Forgotten.checked /\ Forgotten.denied = view.denied
           /\ [view EXCEPT !.checked = view.checked /\ view.available] \in View
           /\ [Forgotten EXCEPT !.denied = TRUE, !.checked = TRUE] \in View
  BY DEF View, Server, Forgotten, Answered, Unanswered

\* What the card has after it has forgotten.
LEMMA ForgetOK ==
    ASSUME Forget
    PROVE  /\ shown' = None /\ outcome' = None /\ dialog' = None
           /\ busy' = FALSE /\ acts' \in [Cameras -> ResultCodes] /\ acts' = NoActs
  BY DEF Forget, NoActs, ResultCodes

\* A card that asks for the state.
LEMMA ConnectStep ==
    ASSUME IInv, Connect(hass, view), hass \in Sessions,
           heard # {} => hass \notin Admins,
           UNCHANGED <<hass, down, heard, shown, filter, dialog, busy, wire, outcome, acts, srv,
                       used>>,
           attached' \in BOOLEAN
    PROVE  IInv'
<1> USE Parts
<1>1. CallsOK' /\ Wired' /\ \A q \in cmds' : ~q.fresh
  BY StaleWired DEF Connect
<1>2. CardOK'  BY ViewOK DEF ServerOK, Connect, CardOK
<1>3. ServerOK'  BY DEF ServerOK
<1>4. view'.denied = view.denied /\ (view'.checked => view.checked)
  BY DEF Connect, CardOK, View
<1>5. Belongs'
  BY <1>1, <1>4, Distinct DEF Belongs, Mine, Fresh, Learned, Unchecked, Awaited, Connect
<1> QED  BY <1>1, <1>2, <1>3, <1>5, PartsNext

\* A card that loses what it knew in the same session.
LEMMA LoseStep ==
    ASSUME IInv, ClearPrivate, Drop, view' = Forgotten, heard' \subseteq Lines,
           UNCHANGED <<hass, filter, srv>>, used' \in [BudgetKinds -> Nat],
           attached' \in BOOLEAN, down' \subseteq Lines
    PROVE  IInv'
<1> USE Parts
<1>1. CallsOK' /\ Wired' /\ \A q \in cmds' : ~q.fresh
  BY StaleWired DEF Drop, ClearPrivate
<1>2. CardOK'  BY ViewOK, ForgetOK DEF ServerOK, CardOK, ClearPrivate, Drop
<1>3. ServerOK'  BY DEF ServerOK
<1>4. Belongs'
  BY <1>1, ViewOK, ForgetOK, Distinct
  DEF ServerOK, Belongs, Mine, Fresh, Learned, Unchecked, Awaited, ClearPrivate, Drop, CardOK
<1> QED  BY <1>1, <1>2, <1>3, <1>4, PartsNext

\* Nothing that the card knows, and nothing on the wire, changes.
LEMMA OutsideStep ==
    ASSUME IInv, UNCHANGED <<hass, heard, view, shown, filter, dialog, busy, wire, outcome,
                             acts, poll, cmds>>,
           attached' \in BOOLEAN, down' \subseteq Lines, ServerOK'
    PROVE  IInv'
<1> USE Parts
<1>1. CallsOK' /\ Wired'  BY SameWired
<1>2. CardOK'  BY DEF CardOK
<1>3. Belongs'  BY DEF Belongs, Mine, Fresh, Learned, Unchecked, Awaited
<1> QED  BY <1>1, <1>2, <1>3, PartsNext

\* The card is put into the page.
LEMMA AttachStep == IInv /\ Attach => IInv'
<1> SUFFICES ASSUME IInv, Attach PROVE IInv'  OBVIOUS
<1>1. CASE Reachable /\ ~view.checked /\ ~Connecting /\ ~busy
  <2>1. hass \in Sessions /\ heard = {} /\ Connect(hass, view)
    BY <1>1, Distinct DEF Reachable, Attach
  <2> QED  BY <2>1, ConnectStep DEF Attach
<1>2. CASE ~(Reachable /\ ~view.checked /\ ~Connecting /\ ~busy)
  BY <1>2, OutsideStep, Parts DEF Attach, CardOK, ServerOK
<1> QED  BY <1>1, <1>2

\* The card is taken out of the page.
LEMMA DetachStep == IInv /\ Detach => IInv'
<1> SUFFICES ASSUME IInv, Detach PROVE IInv'  OBVIOUS
<1>1. used' \in [BudgetKinds -> Nat]  BY UseOK, Parts DEF Detach, BudgetKinds, ServerOK
<1> QED  BY <1>1, LoseStep, Parts DEF Detach, CardOK

\* A line goes down, heard or not.
LEMMA GoesDownStep == \A l \in Lines : IInv /\ GoesDown(l) => IInv'
<1> SUFFICES ASSUME NEW l \in Lines, IInv, GoesDown(l) PROVE IInv'  OBVIOUS
<1>1. used' \in [BudgetKinds -> Nat]  BY UseOK, Parts DEF GoesDown, BudgetKinds, ServerOK
<1>2. down' \subseteq Lines /\ attached' \in BOOLEAN  BY Parts DEF GoesDown, CardOK
<1>3. CASE Listens(l)
  <2>1. heard' \subseteq Lines  BY <1>3, Parts DEF GoesDown, CardOK
  <2> QED  BY <1>1, <1>2, <1>3, <2>1, LoseStep DEF GoesDown
<1>4. CASE ~Listens(l)
  BY <1>1, <1>2, <1>4, OutsideStep, Parts DEF GoesDown, ServerOK
<1> QED  BY <1>3, <1>4

\* A line comes up, heard or not.
LEMMA ComesUpStep == \A l \in Lines : IInv /\ ComesUp(l) => IInv'
<1> SUFFICES ASSUME NEW l \in Lines, IInv, ComesUp(l) PROVE IInv'  OBVIOUS
<1> USE Parts
<1>1. CallsOK' /\ Wired'  BY SameWired DEF ComesUp
<1>2. heard' \subseteq heard  BY DEF ComesUp
<1>3. CardOK' /\ ServerOK'  BY <1>2 DEF CardOK, ServerOK, ComesUp
<1>4. Belongs'
  BY <1>2 DEF Belongs, Mine, Fresh, Learned, Unchecked, Awaited, ComesUp
<1> QED  BY <1>1, <1>3, <1>4, PartsNext

\* Lovelace gives the card another configuration.
LEMMA ConfigureStep == \A cameras \in SUBSET Cameras : IInv /\ Configure(cameras) => IInv'
<1> SUFFICES ASSUME NEW cameras \in SUBSET Cameras, IInv, Configure(cameras) PROVE IInv'
  OBVIOUS
<1> USE Parts
<1>1. CallsOK' /\ Wired'  BY SameWired DEF Configure
<1>2. used' \in [BudgetKinds -> Nat]  BY UseOK DEF Configure, BudgetKinds, ServerOK
<1>3. CardOK' /\ ServerOK'  BY <1>2 DEF CardOK, ServerOK, Configure, world
<1>4. Belongs'
  BY DEF Belongs, Mine, Fresh, Learned, Unchecked, Awaited, Configure, world
<1> QED  BY <1>1, <1>3, <1>4, PartsNext

\* A session that is new to the card: what it knew of the old one is forgotten.
LEMMA SetHassStep ==
    ASSUME IInv, NEW session \in Sessions \cup {NoHass}, NEW heardNow \in SUBSET Lines,
           SetHass(session, heardNow), used' \in [BudgetKinds -> Nat],
           session = hass => heardNow = heard
    PROVE  IInv'
<1> USE Parts
<1> DEFINE changed == hass # NoHass /\ session # hass
           v == IF changed THEN Forgotten ELSE view
           denied == \/ session = NoHass
                     \/ IF changed \/ ~v.checked THEN session \notin Admins ELSE v.denied
           due == ~denied /\ heardNow = {} /\ (changed \/ (~Connecting /\ ~busy))
<1>1. v \in View /\ (changed => ~v.checked)  BY ViewOK DEF ServerOK, CardOK
<1>2. /\ hass' = session /\ heard' = heardNow
      /\ UNCHANGED <<attached, down, filter, srv>>
      /\ IF changed THEN ClearPrivate ELSE UNCHANGED <<shown, dialog, busy, wire, outcome, acts>>
  BY DEF SetHass
<1>3. CASE due
  <2>1. Connect(session, [v EXCEPT !.denied = FALSE])  BY <1>3 DEF SetHass
  <2>2. UNCHANGED wire  BY <1>2 DEF ClearPrivate
  <2>3. CallsOK' /\ Wired' /\ \A q \in cmds' : ~q.fresh
    BY <2>1, <2>2, StaleWired DEF Connect
  <2>4. /\ view' \in View /\ ~view'.denied /\ (view'.checked => v.checked)
        /\ poll' = session
    BY <1>1, <2>1 DEF Connect, View
  <2>5. session \in Sessions  BY <1>3
  <2>6. CardOK'  BY <1>2, <2>2, <2>4, <2>5, ForgetOK DEF CardOK, ClearPrivate
  <2>7. ServerOK'  BY <1>2 DEF ServerOK
  <2>8. Belongs'
    <3>1. CASE changed
      BY <1>1, <1>2, <1>3, <2>3, <2>4, <2>5, <3>1, ForgetOK, Distinct
      DEF Belongs, Mine, Fresh, Learned, Unchecked, Awaited, ClearPrivate
    <3>2. CASE ~changed
      BY <1>1, <1>2, <1>3, <2>3, <2>4, <2>5, <3>2, Distinct
      DEF Belongs, Mine, Fresh, Learned, Unchecked, Awaited
    <3> QED  BY <3>1, <3>2
  <2> QED  BY <2>3, <2>6, <2>7, <2>8, PartsNext
<1>4. CASE ~due
  <2>1. /\ view' = [v EXCEPT !.denied = denied,
                       !.checked = IF denied THEN session # NoHass ELSE v.checked,
                       !.available = ~denied /\ v.available]
        /\ IF changed THEN Drop ELSE UNCHANGED <<poll, cmds>>
    BY <1>4 DEF SetHass
  <2>2. /\ view' \in View /\ view'.denied = denied
        /\ view'.checked = IF denied THEN session # NoHass ELSE v.checked
    BY <1>1, <2>1 DEF View
  <2>3. CASE changed
    <3>1. CallsOK' /\ Wired' /\ \A q \in cmds' : ~q.fresh
      BY <1>2, <2>1, <2>3, StaleWired DEF ClearPrivate, Drop
    <3>2. CardOK'  BY <1>2, <2>1, <2>2, <2>3, ForgetOK DEF CardOK, ClearPrivate, Drop
    <3>3. ServerOK'  BY <1>2 DEF ServerOK
    <3>4. Belongs'
      BY <1>1, <1>2, <2>1, <2>2, <2>3, <3>1, ForgetOK, Distinct
      DEF Belongs, Mine, Fresh, Learned, Unchecked, Awaited, ClearPrivate, Drop
    <3> QED  BY <3>1, <3>2, <3>3, <3>4, PartsNext
  <2>4. CASE ~changed
    <3>1. CallsOK' /\ Wired'  BY <1>2, <2>1, <2>4, SameWired
    <3>2. CardOK'  BY <1>2, <2>1, <2>2, <2>4 DEF CardOK
    <3>3. ServerOK'  BY <1>2 DEF ServerOK
    <3>4. Belongs'
      BY <1>1, <1>2, <2>1, <2>2, <2>4, Distinct
      DEF Belongs, Mine, Fresh, Learned, Unchecked, Awaited, CardOK
    <3> QED  BY <3>1, <3>2, <3>3, <3>4, PartsNext
  <2> QED  BY <2>3, <2>4
<1> QED  BY <1>3, <1>4

\* The user, the connection or the instance changes.
LEMMA ChangeSessionStep ==
    \A session \in Sessions \cup {NoHass} : IInv /\ ChangeSession(session) => IInv'
<1> SUFFICES ASSUME NEW session \in Sessions \cup {NoHass}, IInv, ChangeSession(session)
             PROVE  IInv'
  OBVIOUS
<1>1. used' \in [BudgetKinds -> Nat]
  BY UseOK, Parts DEF ChangeSession, BudgetKinds, ServerOK
<1>2. heard \subseteq Lines /\ down \subseteq Lines  BY Parts DEF CardOK
<1>3. PICK heardNow \in SUBSET Lines : SetHass(session, heardNow)
  BY <1>2 DEF ChangeSession
<1> QED  BY <1>1, <1>3, SetHassStep DEF ChangeSession

\* Lovelace gives the card the session that it has.
LEMMA SameSessionStep == IInv /\ SameSession => IInv'
<1> SUFFICES ASSUME IInv, SameSession PROVE IInv'  OBVIOUS
<1>1. used' \in [BudgetKinds -> Nat] /\ heard \in SUBSET Lines /\ hass \in Sessions \cup {NoHass}
  BY Parts DEF SameSession, ServerOK, CardOK
<1> QED  BY <1>1, SetHassStep DEF SameSession

-----------------------------------------------------------------------------
(* Reading the state.                                                       *)

\* The timer asks for the state.
LEMMA PollStep == IInv /\ Poll => IInv'
<1> SUFFICES ASSUME IInv, Poll PROVE IInv'  OBVIOUS
<1>1. hass \in Sessions /\ heard = {} /\ attached' \in BOOLEAN
  BY Distinct, Parts DEF Poll, Reachable, Reading, world, CardOK
<1> QED  BY <1>1, ConnectStep DEF Poll, Reading, world

\* The buttons do not ask whether the card is online: it cannot show them then, but to a
\* user who is not an administrator.
LEMMA ButtonsStep == IInv /\ (Retry \/ Refresh) => IInv'
<1> SUFFICES ASSUME IInv, Retry \/ Refresh PROVE IInv'  OBVIOUS
<1>1. view.checked /\ Connect(hass, view) /\ Reading  BY DEF Retry, Refresh, Open
<1>2. hass \in Sessions /\ (heard # {} => hass \notin Admins)
  BY <1>1, Parts DEF Belongs, Unchecked, CardOK
<1>3. attached' \in BOOLEAN  BY <1>1, Parts DEF Reading, world, CardOK
<1> QED  BY <1>1, <1>2, <1>3, ConnectStep DEF Reading, world

\* What a read of the state returns.
LEMMA SnapshotOK ==
    ASSUME ServerOK, NEW session \in Sessions
    PROVE  Snapshot(session) \in Snapshots /\ Snapshot(session).session = session
  BY DEF ServerOK, Server, Snapshot, Snapshots

\* The state arrives.
LEMMA PollArrivesStep == IInv /\ PollArrives => IInv'
<1> SUFFICES ASSUME IInv, PollArrives PROVE IInv'  OBVIOUS
<1> USE Parts
<1>1. CallsOK' /\ Wired'  BY SameWired DEF PollArrives
<1>2. poll = hass /\ hass \in Admins /\ hass \in Sessions /\ heard = {}
  BY Distinct DEF PollArrives, Belongs, Mine, Unchecked
<1>3. /\ shown' \in Snapshots /\ shown'.session = hass
      /\ view' \in View /\ ~view'.denied
  BY <1>2, SnapshotOK, ViewOK DEF ServerOK, PollArrives, Answered, CardOK, View
<1>4. CardOK' /\ ServerOK'  BY <1>3 DEF CardOK, ServerOK, PollArrives, world
<1>5. Belongs'
  BY <1>2, <1>3, Distinct
  DEF Belongs, Mine, Fresh, Learned, Unchecked, Awaited, PollArrives, world
<1> QED  BY <1>1, <1>4, <1>5, PartsNext

\* The read fails.
LEMMA PollFailsStep == IInv /\ PollFails => IInv'
<1> SUFFICES ASSUME IInv, PollFails PROVE IInv'  OBVIOUS
<1> USE Parts
<1>1. CallsOK' /\ Wired'  BY SameWired DEF PollFails
<1>2. hass \in Admins /\ hass # NoHass /\ heard = {}
  BY Distinct DEF PollFails, Belongs, Mine, Unchecked
<1>3. view' \in View /\ view'.denied = view.denied
  BY ViewOK DEF ServerOK, PollFails, Unanswered, CardOK, View
<1>4. CardOK' /\ ServerOK'  BY <1>3 DEF CardOK, ServerOK, PollFails, world
<1>5. Belongs'
  BY <1>2, <1>3 DEF Belongs, Mine, Fresh, Learned, Unchecked, Awaited, PollFails, world
<1> QED  BY <1>1, <1>4, <1>5, PartsNext

\* Access is denied: the card knows nothing, and nothing under way counts any more.
LEMMA DenyStep ==
    ASSUME IInv, Deny, poll' = None, CallsOK', Wired', wire' \in Ids \cup {None},
           \A q \in cmds' : ~q.fresh, UNCHANGED <<world, srv, used>>,
           hass # NoHass, heard # {} => hass \notin Admins
    PROVE  IInv'
<1> USE Parts
<1>1. view' \in View /\ view'.denied /\ view'.checked
  BY ViewOK DEF ServerOK, Deny, CardOK, View, Forgotten
<1>2. CardOK' /\ ServerOK'  BY <1>1, ForgetOK DEF CardOK, ServerOK, Deny, world
<1>3. Belongs'
  BY <1>1, ForgetOK, Distinct
  DEF Belongs, Mine, Fresh, Learned, Unchecked, Awaited, Deny, world
<1> QED  BY <1>2, <1>3, PartsNext

\* The read is refused for want of authority.
LEMMA PollDeniedStep == IInv /\ PollDenied => IInv'
<1> SUFFICES ASSUME IInv, PollDenied PROVE IInv'  OBVIOUS
<1> USE Parts
<1>1. CallsOK' /\ Wired' /\ \A q \in cmds' : ~q.fresh
  BY StaleWired DEF PollDenied, Drop
<1>2. hass # NoHass /\ (heard # {} => hass \notin Admins)
  BY Distinct DEF PollDenied, Belongs, Mine, Unchecked, CardOK
<1>3. wire' \in Ids \cup {None}  BY DEF PollDenied, CardOK
<1> QED  BY <1>1, <1>2, <1>3, DenyStep DEF PollDenied, Drop

-----------------------------------------------------------------------------
(* Asking.                                                                  *)

\* What is shown is shown to an administrator with authority.
LEMMA ViewedByAdmin ==
    ASSUME IInv, shown # None
    PROVE  hass \in Admins /\ ~view.denied /\ heard = {}
  BY Parts DEF Belongs, Learned

\* A request goes onto the free wire, for the user who is signed in.
LEMMA AskStep ==
    ASSUME IInv, NEW req \in Requests, Ask(req), req.kind = "schedule" => req.cams = {},
           hass \in Admins, ~view.denied, heard = {},
           dialog' \in {dialog, None}
    PROVE  IInv'
<1> USE Parts
<1> DEFINE id == CHOOSE i \in Free : TRUE
           new == [id |-> id, req |-> req, session |-> hass, fresh |-> TRUE,
                   stage |-> "sent", answer |-> None, refusal |-> "none"]
<1>1. wire = None /\ cmds = {} /\ id \in Ids  BY DEF Ask, Wired, Free
<1>2. wire' = id /\ cmds' = {new}  BY <1>1 DEF Ask
<1>3. new \in Calls /\ CallOK(new)
  <2>1. new \in Calls  BY <1>1, Distinct DEF Calls
  <2>2. CallOK(new)  BY DEF CallOK
  <2> QED  BY <2>1, <2>2
<1>4. CallsOK'  BY <1>2, <1>3 DEF CallsOK, CallOK
<1>5. Wired'
  <2>1. wire' # None /\ new.id = wire' /\ cmds' = {new}  BY <1>1, <1>2, Distinct
  <2> QED  BY <2>1 DEF Wired
<1>6. used' \in [BudgetKinds -> Nat]  BY UseOK DEF Ask, BudgetKinds, ServerOK
<1>7. /\ outcome' = [code |-> "not_checked", session |-> hass] /\ busy' = TRUE
      /\ outcome' \in Outcomes /\ outcome' # None
      /\ acts' \in [Cameras -> ResultCodes]
  BY Distinct DEF Ask, Outcomes, Codes, CardOK, ResultCodes
<1>8. CardOK' /\ ServerOK'
  BY <1>1, <1>2, <1>6, <1>7 DEF CardOK, ServerOK, Ask, world
<1>9. Belongs'
  <2> HIDE DEF id
  <2>1. UNCHANGED <<hass, heard, view, shown, poll>>  BY DEF Ask, world
  <2>2. Fresh'  BY <1>2, <1>7, <2>1 DEF Fresh
  <2> QED  BY <1>7, <2>1, <2>2, Distinct DEF Belongs, Mine, Learned, Unchecked, Awaited
<1> QED  BY <1>4, <1>5, <1>8, <1>9, PartsNext

\* A request about cameras is one.
LEMMA OfCamerasOK ==
    ASSUME NEW kind \in CameraKinds, NEW cams \in SUBSET Cameras
    PROVE  /\ OfCameras(kind, cams) \in Requests
           /\ OfCameras(kind, cams).kind = kind /\ kind # "schedule"
<1>1. AnyItem \in Slots  BY SessionAssumption DEF AnyItem
<1> QED  BY <1>1 DEF OfCameras, Requests, Kinds, CameraKinds, Saved

\* Cameras are visible when a state is shown.
LEMMA VisibleOK ==
    ASSUME IInv
    PROVE  /\ Visible \subseteq Cameras /\ Paused \subseteq Visible
           /\ Visible # {} => shown # None
  BY Parts DEF Visible, Paused, CardOK

\* The user pauses cameras.
LEMMA PauseStep == IInv /\ Pause => IInv'
<1> SUFFICES ASSUME IInv, Pause PROVE IInv'  OBVIOUS
<1>1. PICK cams \in (SUBSET Visible) \ {{}} : Ask(OfCameras("pause", cams)) /\ UNCHANGED dialog
  BY DEF Pause
<1>2. shown # None /\ cams \subseteq Cameras  BY <1>1, VisibleOK
<1> QED  BY <1>1, <1>2, ViewedByAdmin, OfCamerasOK, AskStep DEF CameraKinds

\* The user extends a pause.
LEMMA ExtendStep == IInv /\ Extend => IInv'
<1> SUFFICES ASSUME IInv, Extend PROVE IInv'  OBVIOUS
<1>1. PICK c \in Paused : Ask(OfCameras("extend", {c})) /\ UNCHANGED dialog  BY DEF Extend
<1>2. shown # None /\ {c} \subseteq Cameras  BY <1>1, VisibleOK
<1> QED  BY <1>1, <1>2, ViewedByAdmin, OfCamerasOK, AskStep DEF CameraKinds

\* The user confirms a resume.
LEMMA AcceptResumeStep == IInv /\ AcceptResume => IInv'
<1> SUFFICES ASSUME IInv, AcceptResume PROVE IInv'  OBVIOUS
<1> DEFINE cams == dialog.cams \cap Paused
<1>1. cams # {} /\ Ask(OfCameras("resume", cams)) /\ dialog' = None  BY DEF AcceptResume
<1>2. shown # None /\ cams \subseteq Cameras  BY <1>1, VisibleOK
<1> QED  BY <1>1, <1>2, ViewedByAdmin, OfCamerasOK, AskStep DEF CameraKinds

\* The user changes a schedule.
LEMMA SetScheduleStep == IInv /\ SetSchedule => IInv'
<1> SUFFICES ASSUME IInv, SetSchedule PROVE IInv'  OBVIOUS
<1>1. PICK s \in Slots, save \in Saved :
         /\ shown # None
         /\ Ask([kind |-> "schedule", cams |-> {}, item |-> s, save |-> save])
         /\ UNCHANGED dialog
  BY DEF SetSchedule
<1> DEFINE req == [kind |-> "schedule", cams |-> {}, item |-> s, save |-> save]
<1>2. req \in Requests /\ (req.kind = "schedule" => req.cams = {})
  BY DEF Requests, Kinds
<1> HIDE DEF req
<1>3. Ask(req)  BY <1>1 DEF req
<1> QED  BY <1>1, <1>2, <1>3, ViewedByAdmin, AskStep

\* The confirmation is opened or closed.
LEMMA DialogStep == IInv /\ (OpenResume \/ CancelResume) => IInv'
<1> SUFFICES ASSUME IInv, OpenResume \/ CancelResume PROVE IInv'  OBVIOUS
<1> USE Parts
<1>1. /\ UNCHANGED <<world, heard, view, shown, filter, busy, wire, outcome, acts, poll, cmds,
                     srv, used>>
      /\ \/ dialog' = None
         \/ \E cams \in (SUBSET Paused) : dialog' = [session |-> hass, cams |-> cams] /\ Authority
  BY DEF OpenResume, CancelResume
<1>2. CallsOK' /\ Wired'  BY <1>1, SameWired
<1>3. CardOK' /\ ServerOK'
  BY <1>1, VisibleOK, Distinct DEF CardOK, ServerOK, world, Authority
<1>4. Belongs'
  BY <1>1, Distinct
  DEF Belongs, Mine, Fresh, Learned, Unchecked, Awaited, world, Authority
<1> QED  BY <1>2, <1>3, <1>4, PartsNext

-----------------------------------------------------------------------------
(* The integration.                                                         *)

\* What may become of a camera is a state of it, and the row is about it.
LEMMA EffectOK ==
    ASSUME ServerOK, NEW kind \in Kinds, NEW c \in Cameras, NEW e \in Effects(kind, c)
    PROVE  e.rec \in Records /\ e.row \in Rows /\ e.row.cam = c
<1>1. srv.rec[c] \in Records  BY DEF ServerOK, Server
<1>2. \A r \in Records, flag \in Flags, phase \in RowPhases :
         LET f == Effect(c, r, flag, phase)
         IN  f.rec \in Records /\ f.row \in Rows /\ f.row.cam = c
  BY DEF Effect, Row, Rows, Records
<1>3. \E r \in Records, flag \in Flags, phase \in RowPhases : e = Effect(c, r, flag, phase)
  <2>1. /\ [srv.rec[c] EXCEPT !.phase = "partial"] \in Records
        /\ [srv.rec[c] EXCEPT !.until = 2] \in Records
        /\ [phase |-> "paused", until |-> 1] \in Records
        /\ [phase |-> "active", until |-> 0] \in Records
    BY <1>1 DEF Records, RecPhases, Deadlines
  <2>2. srv.rec[c].phase \in RowPhases  BY <1>1 DEF Records, RecPhases, RowPhases
  <2>3. {"yes", "no"} \subseteq Flags /\ {"error", "partial", "paused", "active"} \subseteq RowPhases
    BY DEF Flags, RowPhases
  <2> QED  BY <1>1, <2>1, <2>2, <2>3 DEF Effects
<1> QED  BY <1>2, <1>3

\* Effects on some of the cameras leave the integration in one of its states.
LEMMA TakeOK ==
    ASSUME ServerOK, NEW q, q.req.kind \in Kinds, NEW cams \in SUBSET Cameras,
           NEW e \in Choices(q, cams)
    PROVE  /\ DOMAIN e = cams
           /\ Take(e) => srv' \in Server
           /\ \A c \in cams : e[c].row \in Rows /\ e[c].row.cam = c
<1>1. DOMAIN e = cams /\ \A c \in cams : e[c] \in Effects(q.req.kind, c)
  BY DEF Choices
<1>2. \A c \in cams : e[c].rec \in Records /\ e[c].row \in Rows /\ e[c].row.cam = c
  BY <1>1, EffectOK
<1>3. ASSUME Take(e)
      PROVE  srv' \in Server
  <2>1. [c \in Cameras |-> IF c \in DOMAIN e THEN e[c].rec ELSE srv.rec[c]]
           \in [Cameras -> Records]
    BY <1>1, <1>2 DEF ServerOK, Server
  <2> QED  BY <1>3, <2>1 DEF Take, ServerOK, Server
<1> QED  BY <1>1, <1>2, <1>3

\* A step of the integration, or one that leaves the card as it is: the request under way
\* is in another stage.
LEMMA HandleStep ==
    ASSUME IInv, NEW q \in cmds, NEW new \in Calls, Replace(q, new), CallOK(new),
           new.id = q.id, new.session = q.session, new.fresh = q.fresh,
           UNCHANGED <<world, card, poll, used>>, srv' \in Server
    PROVE  IInv'
<1> USE Parts
<1>1. CallsOK' /\ Wired' /\ cmds' = {new}  BY ReplaceWired DEF card
<1>2. CardOK' /\ ServerOK'  BY DEF CardOK, ServerOK, world, card
<1>3. Fresh'  BY <1>1 DEF Belongs, Fresh, world, card
<1>4. Belongs'
  BY <1>3 DEF Belongs, Mine, Learned, Unchecked, Awaited, world, card
<1> QED  BY <1>1, <1>2, <1>4, PartsNext

\* What the integration answers is an answer, with the rows of its cameras.
LEMMA TotalOK ==
    ASSUME NEW kind \in CameraKinds, NEW cams \in SUBSET Cameras, NEW rows \in [cams -> Rows]
    PROVE  /\ Total(kind, rows) \in Answers /\ Total(kind, rows).rows = rows
<1>1. rows \in UNION {[C -> Rows] : C \in SUBSET Cameras}  OBVIOUS
<1>2. Phase(kind) \in RowPhases  BY DEF Phase, RowPhases
<1> QED  BY <1>1, <1>2 DEF Total, Answers, RowPhases, Saved

\* The stage and the answer of a request are its only parts that the integration changes.
LEMMA AnsweredCall ==
    ASSUME NEW q \in Calls, CallOK(q), q.stage = "sent", NEW a \in Answers,
           DOMAIN a.rows = q.req.cams, \A c \in q.req.cams : a.rows[c].cam = c
    PROVE  LET new == [q EXCEPT !.stage = "answered", !.answer = a]
           IN  /\ new \in Calls /\ CallOK(new)
               /\ new.id = q.id /\ new.session = q.session /\ new.fresh = q.fresh
               /\ new.req = q.req /\ new.stage = "answered" /\ new.answer = a
               /\ new.refusal = "none"
<1> DEFINE new == [q EXCEPT !.stage = "answered", !.answer = a]
<1>1. /\ new \in Calls /\ new.id = q.id /\ new.session = q.session /\ new.fresh = q.fresh
      /\ new.req = q.req /\ new.stage = "answered" /\ new.answer = a
      /\ new.refusal = q.refusal
  BY DEF Calls
<1>2. q.refusal = "none" /\ a # None  BY Distinct DEF CallOK
<1>3. CallOK(new)
  <2> HIDE DEF new
  <2> QED  BY <1>1, <1>2 DEF CallOK
<1> QED  BY <1>1, <1>2, <1>3

\* The same of a call that failed.
LEMMA RefusedCall ==
    ASSUME NEW q \in Calls, CallOK(q), q.stage = "sent", NEW refusal \in Refusals
    PROVE  LET new == [q EXCEPT !.stage = "answered", !.refusal = refusal]
           IN  /\ new \in Calls /\ CallOK(new)
               /\ new.id = q.id /\ new.session = q.session /\ new.fresh = q.fresh
               /\ new.req = q.req /\ new.stage = "answered" /\ new.refusal = refusal
<1> DEFINE new == [q EXCEPT !.stage = "answered", !.refusal = refusal]
<1>1. /\ new \in Calls /\ new.id = q.id /\ new.session = q.session /\ new.fresh = q.fresh
      /\ new.req = q.req /\ new.stage = "answered" /\ new.answer = q.answer
      /\ new.refusal = refusal
  BY DEF Calls
<1>2. q.answer = None /\ refusal # "none"  BY DEF CallOK, Refusals
<1>3. CallOK(new)
  <2> HIDE DEF new
  <2> QED  BY <1>1, <1>2 DEF CallOK
<1> QED  BY <1>1, <1>3

\* The same of a call that was accepted.
LEMMA ReadingCall ==
    ASSUME NEW q \in Calls, CallOK(q), q.stage = "answered", q.refusal = "none"
    PROVE  LET new == [q EXCEPT !.stage = "reading"]
           IN  /\ new \in Calls /\ CallOK(new)
               /\ new.id = q.id /\ new.session = q.session /\ new.fresh = q.fresh
               /\ new.req = q.req /\ new.stage = "reading" /\ new.answer = q.answer
               /\ new.refusal = q.refusal
<1> DEFINE new == [q EXCEPT !.stage = "reading"]
<1>1. /\ new \in Calls /\ new.id = q.id /\ new.session = q.session /\ new.fresh = q.fresh
      /\ new.req = q.req /\ new.stage = "reading" /\ new.answer = q.answer
      /\ new.refusal = q.refusal
  BY DEF Calls
<1>2. CallOK(new)
  <2> HIDE DEF new
  <2> QED  BY <1>1 DEF CallOK
<1> QED  BY <1>1, <1>2

\* The parts of a request under way.
LEMMA CallTypes ==
    ASSUME IInv, NEW q \in cmds
    PROVE  /\ q \in Calls /\ CallOK(q) /\ q.req \in Requests /\ q.session \in Sessions
           /\ q.req.kind \in Kinds /\ q.req.cams \in SUBSET Cameras /\ q.req.item \in Slots
           /\ q.req.save \in Saved
  BY Parts DEF CallsOK, Calls, Requests

\* A request about cameras is carried out.
LEMMA ServeStep == \A q \in cmds : IInv /\ Serve(q) => IInv'
<1> SUFFICES ASSUME NEW q \in cmds, IInv, Serve(q) PROVE IInv'  OBVIOUS
<1>1. q.stage = "sent" /\ q.req.kind \in CameraKinds /\ UNCHANGED <<world, card, poll, used>>
  BY DEF Serve, Serving
<1>2. PICK e \in Choices(q, q.req.cams) :
         /\ Take(e)
         /\ Replace(q, [q EXCEPT !.stage = "answered",
                          !.answer = Total(q.req.kind, [c \in DOMAIN e |-> e[c].row])])
  BY DEF Serve
<1> DEFINE rows == [c \in DOMAIN e |-> e[c].row]
           a == Total(q.req.kind, rows)
<1>3. /\ srv' \in Server /\ DOMAIN rows = q.req.cams
      /\ \A c \in q.req.cams : rows[c] \in Rows /\ rows[c].cam = c
  BY <1>2, CallTypes, TakeOK, Parts
<1>4. rows \in [q.req.cams -> Rows]  BY <1>3
<1>5. a \in Answers /\ a.rows = rows
  <2> HIDE DEF rows
  <2> QED  BY <1>1, <1>4, CallTypes, TotalOK
<1>6. Replace(q, [q EXCEPT !.stage = "answered", !.answer = a])  BY <1>2
<1> HIDE DEF a, rows
<1> DEFINE new == [q EXCEPT !.stage = "answered", !.answer = a]
<1>7. /\ new \in Calls /\ CallOK(new)
      /\ new.id = q.id /\ new.session = q.session /\ new.fresh = q.fresh
  <2>1. DOMAIN a.rows = q.req.cams /\ \A c \in q.req.cams : a.rows[c].cam = c
    BY <1>3, <1>5
  <2>2. q \in Calls /\ CallOK(q)  BY CallTypes
  <2> QED  BY ONLY <1>1, <1>5, <2>1, <2>2, AnsweredCall
<1> HIDE DEF new
<1> QED  BY <1>1, <1>3, <1>6, <1>7, HandleStep DEF new

\* Saving a schedule leaves the integration in one of its states.
LEMMA SaveScheduleOK ==
    ASSUME IInv, NEW q \in cmds, SaveSchedule(q)
    PROVE  srv' \in Server
  BY CallTypes, Parts DEF SaveSchedule, ServerOK, Server

\* A schedule is saved.
LEMMA ServeScheduleStep == \A q \in cmds : IInv /\ ServeSchedule(q) => IInv'
<1> SUFFICES ASSUME NEW q \in cmds, IInv, ServeSchedule(q) PROVE IInv'  OBVIOUS
<1> DEFINE a == [ok |-> "none", phase |-> "none", rows |-> NoRows, saved |-> q.req.save]
<1>1. /\ q.stage = "sent" /\ q.req.kind = "schedule" /\ SaveSchedule(q)
      /\ UNCHANGED <<world, card, poll, used>>
      /\ Replace(q, [q EXCEPT !.stage = "answered", !.answer = a])
  BY DEF ServeSchedule, Serving
<1>2. q.req.cams = {}  BY <1>1, CallTypes DEF CallOK
<1>3. NoRows \in [{} -> Rows]  BY DEF NoRows
<1>4. a \in Answers /\ DOMAIN a.rows = {}
  BY <1>3, CallTypes DEF Answers, NoRows
<1>5. Replace(q, [q EXCEPT !.stage = "answered", !.answer = a])  BY <1>1
<1> HIDE DEF a
<1> DEFINE new == [q EXCEPT !.stage = "answered", !.answer = a]
<1>6. /\ new \in Calls /\ CallOK(new)
      /\ new.id = q.id /\ new.session = q.session /\ new.fresh = q.fresh
  <2>1. DOMAIN a.rows = q.req.cams /\ \A c \in q.req.cams : a.rows[c].cam = c
    BY <1>2, <1>4
  <2>2. q \in Calls /\ CallOK(q)  BY CallTypes
  <2> QED  BY ONLY <1>1, <1>4, <2>1, <2>2, AnsweredCall
<1>7. srv' \in Server  BY <1>1, SaveScheduleOK
<1> HIDE DEF new
<1> QED  BY <1>1, <1>5, <1>6, <1>7, HandleStep DEF new

\* A call fails, carried out or not.
LEMMA FailStep == \A q \in cmds, refusal \in Refusals : IInv /\ Fail(q, refusal) => IInv'
<1> SUFFICES ASSUME NEW q \in cmds, NEW refusal \in Refusals, IInv, Fail(q, refusal)
             PROVE  IInv'
  OBVIOUS
<1>1. /\ q.stage = "sent" /\ UNCHANGED <<world, card, poll, used>>
      /\ Replace(q, [q EXCEPT !.stage = "answered", !.refusal = refusal])
  BY DEF Fail, Serving
<1>2. \/ UNCHANGED srv \/ SaveSchedule(q)
      \/ \E cams \in SUBSET q.req.cams : \E e \in Choices(q, cams) : Take(e)
  BY DEF Fail
<1>3. srv' \in Server
  <2>1. CASE UNCHANGED srv  BY <2>1, Parts DEF ServerOK
  <2>2. CASE SaveSchedule(q)  BY <2>2, SaveScheduleOK
  <2>3. ASSUME NEW cams \in SUBSET q.req.cams, NEW e \in Choices(q, cams), Take(e)
        PROVE  srv' \in Server
    BY <2>3, CallTypes, TakeOK, Parts
  <2> QED  BY <1>2, <2>1, <2>2, <2>3
<1> DEFINE new == [q EXCEPT !.stage = "answered", !.refusal = refusal]
<1>4. /\ new \in Calls /\ CallOK(new)
      /\ new.id = q.id /\ new.session = q.session /\ new.fresh = q.fresh
  BY <1>1, CallTypes, RefusedCall
<1> HIDE DEF new
<1> QED  BY <1>1, <1>3, <1>4, HandleStep DEF new

\* Others change the integration's state.
LEMMA ElsewhereStep == IInv /\ Elsewhere => IInv'
<1> SUFFICES ASSUME IInv, Elsewhere PROVE IInv'  OBVIOUS
<1> USE Parts
<1>1. used' \in [BudgetKinds -> Nat]  BY UseOK DEF Elsewhere, BudgetKinds, ServerOK
<1>2. srv' \in Server
  <2>1. CASE \E c \in Cameras, phase \in RecPhases :
                srv' = [srv EXCEPT !.rec[c] = [phase |-> phase,
                                               until |-> IF phase = "active" THEN 0 ELSE 1]]
    BY <2>1, SMTT(30) DEF ServerOK, Server, Records, Deadlines
  <2>2. CASE \E c \in Cameras :
                srv' = [srv EXCEPT !.found = IF c \in @ THEN @ \ {c} ELSE @ \cup {c}]
    BY <2>2 DEF ServerOK, Server
  <2>3. CASE \E s \in Slots, save \in Saved : srv' = [srv EXCEPT !.sched[s] = save]
    BY <2>3 DEF ServerOK, Server
  <2>4. CASE srv' = [srv EXCEPT !.ready = ~@]  BY <2>4 DEF ServerOK, Server
  <2> QED  BY <2>1, <2>2, <2>3, <2>4 DEF Elsewhere
<1>3. UNCHANGED <<world, card, poll, cmds>>  BY DEF Elsewhere
<1> QED  BY <1>1, <1>2, <1>3, OutsideStep DEF world, card, ServerOK, CardOK

-----------------------------------------------------------------------------
(* Telling.                                                                 *)

\* What is told at last is a result, of the request and of each of its cameras.
LEMMA ResultsOK ==
    ASSUME NEW req, NEW answer, NEW state, NEW c, NEW told, NEW refusal
    PROVE  /\ Verdict(req, answer, state) \in Codes \ {"not_checked"}
           /\ FailureCode(told, refusal) \in Codes \ {"not_checked", "success"}
           /\ CameraResult(req, answer, state, c) \in ResultCodes
<1>1. MutationResult(req.kind, answer, req.cams) \in Codes \ {"not_checked"}
  BY DEF MutationResult, Codes
<1>2. Verdict(req, answer, state) \in Codes \ {"not_checked"}
  BY <1>1 DEF Verdict, Codes
<1>3. CameraResult(req, answer, state, c) \in ResultCodes
  BY DEF CameraResult, ResultCodes, Codes
<1> QED  BY <1>2, <1>3 DEF FailureCode, Codes

\* A request whose answer counts is told and leaves the wire.
LEMMA TellStep ==
    ASSUME IInv, NEW q \in cmds, q.fresh, NEW code \in Codes \ {"not_checked"},
           NEW results, \A c \in Cameras : results[c] \in ResultCodes,
           Tell(q, code, results), Settle(q), Telling, UNCHANGED <<dialog, poll>>,
           shown' \in Snapshots \cup {None}, shown' # None => shown'.session = hass,
           view' \in View, view'.denied = view.denied
    PROVE  IInv'
<1> USE Parts
<1>1. CallsOK' /\ Wired' /\ cmds' = {} /\ wire' = None  BY SettleWired
<1>2. /\ q.session = hass /\ hass \in Admins /\ hass \in Sessions /\ hass # NoHass
      /\ ~view.denied /\ heard = {}
  BY Distinct DEF Belongs, Fresh
<1>3. /\ outcome' = [code |-> code, session |-> hass] /\ outcome' \in Outcomes
      /\ outcome'.code # "not_checked" /\ outcome'.session = hass /\ busy' = FALSE
  BY <1>2 DEF Tell, Outcomes
<1>4. acts' \in [Cameras -> ResultCodes]
  BY DEF Tell, CardOK
<1>5. CardOK' /\ ServerOK'
  BY <1>1, <1>3, <1>4 DEF CardOK, ServerOK, Telling, world
<1>6. Belongs'
  BY <1>1, <1>2, <1>3, Distinct
  DEF Belongs, Mine, Fresh, Learned, Unchecked, Awaited, Telling, world
<1> QED  BY <1>1, <1>5, <1>6, PartsNext

\* The same, when nothing but the result changes on the card.
LEMMA TellFailureStep ==
    ASSUME IInv, NEW q \in cmds, q.fresh, NEW code \in Codes \ {"not_checked"},
           TellFailure(q, code), Settle(q), Telling, NotShowing
    PROVE  IInv'
<1> DEFINE results == [c \in Cameras |-> IF code = "error" THEN "error" ELSE "unconfirmed"]
<1>1. Tell(q, code, results)  BY DEF TellFailure
<1>2. \A c \in Cameras : results[c] \in ResultCodes  BY DEF ResultCodes, Codes
<1>3. /\ UNCHANGED <<dialog, poll, shown, view>>
      /\ shown' \in Snapshots \cup {None} /\ view' \in View
      /\ shown' # None => shown'.session = hass
  BY Parts DEF NotShowing, CardOK, Belongs, Learned
<1> HIDE DEF results
<1> QED  BY <1>1, <1>2, <1>3, TellStep

\* An answer that does not count any more only releases the wire.
LEMMA IgnoredStep == \A q \in cmds : IInv /\ Ignored(q) => IInv'
<1> SUFFICES ASSUME NEW q \in cmds, IInv, Ignored(q) PROVE IInv'  OBVIOUS
<1> USE Parts
<1>1. CallsOK' /\ Wired' /\ cmds' = {} /\ wire' = None  BY SettleWired DEF Ignored
<1>2. UNCHANGED <<world, heard, filter, srv, used, view, shown, dialog, poll, busy, outcome,
                  acts>>
  BY DEF Ignored, NotShowing, Telling
<1>3. CardOK' /\ ServerOK'  BY <1>1, <1>2 DEF CardOK, ServerOK, world
<1>4. Belongs'
  BY <1>1, <1>2 DEF Belongs, Mine, Fresh, Learned, Unchecked, Awaited, world
<1> QED  BY <1>1, <1>3, <1>4, PartsNext

\* The call failed.
LEMMA RefusedStep == \A q \in cmds : IInv /\ Refused(q) => IInv'
<1> SUFFICES ASSUME NEW q \in cmds, IInv, Refused(q) PROVE IInv'  OBVIOUS
<1> DEFINE code == FailureCode("none", q.refusal)
<1>1. code \in Codes \ {"not_checked"}  BY ResultsOK
<1> HIDE DEF code
<1>2. TellFailure(q, code) /\ q.fresh /\ Settle(q) /\ Telling /\ NotShowing
  BY DEF Refused, code
<1> QED  BY <1>1, <1>2, TellFailureStep

\* The call was accepted and the state is read.
LEMMA AcceptedStep == \A q \in cmds : IInv /\ Accepted(q) => IInv'
<1> SUFFICES ASSUME NEW q \in cmds, IInv, Accepted(q) PROVE IInv'  OBVIOUS
<1> DEFINE new == [q EXCEPT !.stage = "reading"]
<1>1. /\ new \in Calls /\ CallOK(new)
      /\ new.id = q.id /\ new.session = q.session /\ new.fresh = q.fresh
  BY CallTypes, ReadingCall DEF Accepted
<1>2. Replace(q, new)  BY DEF Accepted
<1> HIDE DEF new
<1>3. UNCHANGED <<world, card, poll, used>> /\ srv' \in Server
  BY Parts DEF Accepted, Telling, ServerOK
<1> QED  BY <1>1, <1>2, <1>3, HandleStep

\* The state was read, and the verdict is told.
LEMMA ReadBackStep == \A q \in cmds : IInv /\ ReadBack(q) => IInv'
<1> SUFFICES ASSUME NEW q \in cmds, IInv, ReadBack(q) PROVE IInv'  OBVIOUS
<1> DEFINE code == Verdict(q.req, q.answer, srv)
           results == [c \in Cameras |-> CameraResult(q.req, q.answer, srv, c)]
<1>1. code \in Codes \ {"not_checked"} /\ \A c \in Cameras : results[c] \in ResultCodes
  BY ResultsOK
<1>2. Tell(q, code, results)  BY DEF ReadBack
<1> HIDE DEF code, results
<1>3. /\ q.fresh /\ Settle(q) /\ Telling /\ UNCHANGED <<dialog, poll>>
      /\ shown' = Snapshot(q.session) /\ view' = [view EXCEPT !.ready = srv.ready]
  BY DEF ReadBack
<1>4. view' \in View /\ view'.denied = view.denied
  BY <1>3, Parts DEF CardOK, ServerOK, Server, View
<1>5. q.session = hass /\ shown' \in Snapshots /\ shown'.session = hass
  BY <1>3, Parts, CallTypes, SnapshotOK DEF Belongs, Fresh
<1> QED  BY <1>1, <1>2, <1>3, <1>4, <1>5, TellStep

\* The state could not be read.
LEMMA ReadBackFailsStep == \A q \in cmds : IInv /\ ReadBackFails(q) => IInv'
<1> SUFFICES ASSUME NEW q \in cmds, IInv, ReadBackFails(q) PROVE IInv'  OBVIOUS
<1> DEFINE code == FailureCode(MutationResult(q.req.kind, q.answer, q.req.cams), "failed")
<1>1. code \in Codes \ {"not_checked"}  BY ResultsOK
<1>2. TellFailure(q, code) /\ q.fresh /\ Settle(q) /\ Telling /\ NotShowing
  BY DEF ReadBackFails
<1> HIDE DEF code
<1> QED  BY <1>1, <1>2, TellFailureStep

\* The user of the request has no authority any more.
LEMMA DeniedStep == \A q \in cmds : IInv /\ Denied(q) => IInv'
<1> SUFFICES ASSUME NEW q \in cmds, IInv, Denied(q) PROVE IInv'  OBVIOUS
<1> USE Parts
<1>1. cmds = {q} /\ wire = q.id  BY DEF Wired
<1>2. cmds' = {} /\ wire' = None  BY <1>1 DEF Denied, Stale
<1>3. CallsOK' /\ Wired'  BY <1>2 DEF CallsOK, Wired
<1>4. hass # NoHass /\ heard = {}  BY Distinct DEF Denied, Belongs, Fresh
<1> QED  BY <1>2, <1>3, <1>4, DenyStep DEF Denied

-----------------------------------------------------------------------------
(* The invariant.                                                           *)

\* It holds of a page that is being opened.
LEMMA InitIInv == Init => IInv
<1> SUFFICES ASSUME Init PROVE IInv  OBVIOUS
<1>1. CallsOK /\ Wired  BY DEF Init, CallsOK, Wired
<1>2. CardOK  BY DEF Init, CardOK, View, NoActs, ResultCodes
<1>3. ServerOK  BY StartAssumption DEF Init, ServerOK
<1>4. Belongs
  BY Distinct DEF Init, Belongs, Mine, Fresh, Learned, Unchecked, Awaited
<1> QED  BY <1>1, <1>2, <1>3, <1>4, Parts

\* Every step preserves it.
LEMMA NextIInv == IInv /\ [Next]_vars => IInv'
<1> SUFFICES ASSUME IInv, [Next]_vars PROVE IInv'  OBVIOUS
<1>1. CASE UNCHANGED vars
  <2>1. UNCHANGED <<world, card, poll, cmds, srv, used>>  BY <1>1 DEF vars
  <2> QED  BY <2>1, OutsideStep, Parts DEF world, card, CardOK, ServerOK
<1>2. CASE Surroundings
  BY <1>2, AttachStep, DetachStep, SameSessionStep, ElsewhereStep, ChangeSessionStep,
     ConfigureStep, GoesDownStep, ComesUpStep DEF Surroundings
<1>3. CASE User
  BY <1>3, PauseStep, ExtendStep, DialogStep, AcceptResumeStep, SetScheduleStep, ButtonsStep
  DEF User
<1>4. CASE Poll \/ PollAnswer
  BY <1>4, PollStep, PollArrivesStep, PollFailsStep, PollDeniedStep DEF PollAnswer
<1>5. ASSUME NEW q \in cmds, Handle(q)
      PROVE  IInv'
  BY <1>5, ServeStep, ServeScheduleStep, FailStep DEF Handle
<1>6. ASSUME NEW q \in cmds, Deliver(q)
      PROVE  IInv'
  BY <1>6, IgnoredStep, RefusedStep, AcceptedStep, ReadBackStep, ReadBackFailsStep, DeniedStep
  DEF Deliver
<1> QED  BY <1>1, <1>2, <1>3, <1>4, <1>5, <1>6 DEF Next

\* What holds in every state of every behaviour.
THEOREM Invariant == Spec => []IInv
<1> QED  BY InitIInv, NextIInv, PTL DEF Spec

\* The state keeps its shape, and a request has an answer when it was served.
THEOREM TypeCorrect == Spec => []TypeOK
<1>1. IInv => TypeOK  BY DEF IInv
<1> QED  BY <1>1, Invariant, PTL

\* One request at a time, whatever happens to the session, the connection or the page
\* while it is under way: the wire holds exactly the request that is outstanding.
THEOREM OneRequest == Spec => []OneRequestAtATime
<1>1. IInv => OneRequestAtATime
  <2> SUFFICES ASSUME IInv PROVE Cardinality(cmds) <= 1  BY DEF OneRequestAtATime
  <2>1. CASE cmds = {}  BY <2>1, FS_EmptySet
  <2>2. CASE \E q \in cmds : cmds = {q}
    <3>1. PICK q \in cmds : cmds = {q}  BY <2>2
    <3>2. Cardinality({q}) = 1  BY FS_Singleton
    <3> QED  BY <3>1, <3>2
  <2> QED  BY <2>1, <2>2 DEF IInv, Wired
<1> QED  BY <1>1, Invariant, PTL

\* README, Security: nothing that was learned in another session is shown, told or
\* waiting for a confirmation, whatever answers were under way when the session changed.
THEOREM OwnSession == Spec => []NoForeignState
<1>1. IInv => NoForeignState
  <2> SUFFICES ASSUME IInv PROVE NoForeignState  OBVIOUS
  <2>1. Learned /\ CardOK  BY Parts DEF Belongs
  <2>2. hass # NoHass => hass \in Sessions  BY <2>1 DEF CardOK
  <2>3. \A c \in Cameras : hass = NoHass => acts[c] = "none"  BY <2>1 DEF Learned, NoActs
  <2> QED  BY <2>1, <2>2, <2>3 DEF NoForeignState, Learned
<1> QED  BY <1>1, Invariant, PTL

\* A card without authority or without its lines shows and tells nothing.
THEOREM NothingUnseen == Spec => []NothingWithoutAuthority
<1>1. IInv => NothingWithoutAuthority
  BY Distinct DEF IInv, Learned, NothingWithoutAuthority
<1> QED  BY <1>1, Invariant, PTL

-----------------------------------------------------------------------------
(* Success.                                                                 *)

\* A request under way is told as a success when its answer names each of its cameras
\* as changed, and the integration's state is as it was asked for.
LEMMA VerdictIsConfirmed ==
    ASSUME IInv, NEW q \in cmds, q.stage = "reading", Verdict(q.req, q.answer, srv) = "success"
    PROVE  Carried(q) /\ Agrees(q)
<1>1. /\ q.refusal = "none" /\ q.answer # None
      /\ \A c \in q.req.cams : q.answer.rows[c].cam = c
      /\ DOMAIN q.answer.rows = q.req.cams
      /\ (q.req.kind = "schedule" => q.req.cams = {}) /\ q.req.kind \in Kinds
  BY CallTypes DEF CallOK
<1>2. CASE q.req.kind = "schedule"
  <2>1. ScheduleAgrees(q.req, q.answer, srv)
    BY <1>2 DEF Verdict, MutationReadback
  <2> QED  BY <1>1, <1>2, <2>1 DEF Carried, Agrees, ScheduleAgrees
<1>3. CASE q.req.kind # "schedule"
  <2>1. Asks(q.req)  BY <1>1, <1>3 DEF Asks, Kinds
  <2>2. ASSUME NEW c \in q.req.cams
        PROVE  Good(q.req.kind, q.answer.rows[c]) /\ srv.rec[c].phase = Phase(q.req.kind)
    <3>1. Confirmed(q.req, q.answer, srv, c)  BY <2>1, SuccessIsOfEveryCamera
    <3>2. PICK i \in DOMAIN q.answer.rows :
             q.answer.rows[i].cam = c /\ Good(q.req.kind, q.answer.rows[i])
      BY <3>1 DEF Confirmed
    <3>3. i = c  BY <1>1, <3>2
    <3>4. CameraAgrees(q.req.kind, q.answer, srv, c)  BY <3>1 DEF Confirmed
    <3>5. i \in RowsOf(q.answer, c)  BY <3>2 DEF RowsOf
    <3>6. srv.rec[c].phase = Phase(q.req.kind)  BY <3>4, <3>5 DEF CameraAgrees, Phase
    <3> QED  BY <3>2, <3>3, <3>6
  <2> QED  BY <1>1, <1>3, <2>2 DEF Carried, Agrees
<1> QED  BY <1>2, <1>3

\* Most steps tell nothing new and leave the request that is under way as it is, but for
\* its answer not counting any more.
Quiet == outcome' \in {outcome, None} /\ UNCHANGED wire /\ cmds' \in {cmds, Stale(cmds)}

\* So do those of the session, the network, the reads of the state and the confirmation.
LEMMA QuietSteps ==
    ASSUME \/ UNCHANGED vars \/ Surroundings \/ Poll \/ PollAnswer
           \/ OpenResume \/ CancelResume \/ Retry \/ Refresh
    PROVE  Quiet
<1> USE DEF Quiet, world
<1>1. CASE UNCHANGED vars  BY <1>1 DEF vars, card
<1>2. CASE Attach  BY <1>2 DEF Attach, Connect
<1>3. CASE Detach  BY <1>3 DEF Detach, ClearPrivate, Forget, Drop
<1>4. ASSUME NEW session, NEW lines, SetHass(session, lines)
      PROVE  Quiet
  BY <1>4 DEF SetHass, ClearPrivate, Forget, Drop, Connect
<1>5. CASE SameSession \/ \E session \in Sessions \cup {NoHass} : ChangeSession(session)
  BY <1>4, <1>5 DEF SameSession, ChangeSession
<1>6. CASE Elsewhere  BY <1>6 DEF Elsewhere, card
<1>7. CASE \E cameras \in SUBSET Cameras : Configure(cameras)  BY <1>7 DEF Configure
<1>8. CASE \E l \in Lines : GoesDown(l) \/ ComesUp(l)
  BY <1>8 DEF GoesDown, ComesUp, ClearPrivate, Forget, Drop
<1>9. CASE Poll \/ Retry \/ Refresh
  BY <1>9 DEF Poll, Retry, Refresh, Connect, Reading
<1>10. CASE PollAnswer
  BY <1>10 DEF PollAnswer, PollArrives, PollFails, PollDenied, Deny, Forget, Drop
<1>11. CASE OpenResume \/ CancelResume  BY <1>11 DEF OpenResume, CancelResume
<1> QED
  BY <1>1, <1>2, <1>3, <1>5, <1>6, <1>7, <1>8, <1>9, <1>10, <1>11 DEF Surroundings

\* The other steps of the user ask for something.
LEMMA AskingSteps ==
    ASSUME User, ~(OpenResume \/ CancelResume \/ Retry \/ Refresh)
    PROVE  \E req : Ask(req)
  BY DEF User, Pause, Extend, AcceptResume, SetSchedule

\* README, Safety: "Success requires a valid operation response and a fresh state read".
\* Whatever happens while the request is under way, a success is told to the user who
\* asked, when the integration has carried the request out for each of its cameras and
\* still is in the state that was asked for.
THEOREM SuccessIsTrue == Spec => SuccessIsConfirmed
<1> DEFINE Claim == outcome' # outcome /\ outcome' # None /\ outcome'.code = "success"
                    => \E q \in cmds : q.session = hass /\ Carried(q) /\ Agrees(q)
<1>1. IInv /\ [Next]_vars => Claim
  <2> SUFFICES ASSUME IInv, [Next]_vars,
                      outcome' # outcome, outcome' # None, outcome'.code = "success"
               PROVE  \E q \in cmds : q.session = hass /\ Carried(q) /\ Agrees(q)
    OBVIOUS
  <2>1. ~Quiet  BY DEF Quiet
  <2>2. ASSUME NEW req, Ask(req)
        PROVE  FALSE
    BY <2>2 DEF Ask
  <2>3. ASSUME NEW q \in cmds, Handle(q)
        PROVE  FALSE
    BY <2>3 DEF Handle, Serve, ServeSchedule, Fail, Serving, card
  <2>4. ASSUME NEW q \in cmds, Deliver(q)
        PROVE  q.session = hass /\ Carried(q) /\ Agrees(q)
    <3>1. \A told, refusal : FailureCode(told, refusal) # "success"
      BY ResultsOK
    <3>2. ~(Ignored(q) \/ Accepted(q) \/ Denied(q))
      BY DEF Ignored, Accepted, Denied, Deny, Forget, card
    <3>3. ~(Refused(q) \/ ReadBackFails(q))
      BY <3>1 DEF Refused, ReadBackFails, TellFailure, Tell
    <3>4. ReadBack(q)  BY <2>4, <3>2, <3>3 DEF Deliver
    <3>5. q.stage = "reading" /\ q.fresh /\ Verdict(q.req, q.answer, srv) = "success"
      BY <3>4 DEF ReadBack, Tell
    <3>6. q.session = hass  BY <3>5, Parts DEF Belongs, Fresh
    <3> QED  BY <3>5, <3>6, VerdictIsConfirmed
  <2>5. Next  BY <2>1, QuietSteps
  <2>6. ~User
    BY <2>1, <2>2, QuietSteps, AskingSteps
  <2>7. PICK q \in cmds : Handle(q) \/ Deliver(q)
    BY <2>1, <2>5, <2>6, QuietSteps DEF Next
  <2> QED  BY <2>3, <2>4, <2>7
<1>2. IInv /\ [Next]_vars => [Claim]_vars  BY <1>1
<1> HIDE DEF Claim
<1>3. Spec => [][Claim]_vars  BY <1>2, Invariant, PTL DEF Spec
<1> QED  BY <1>3 DEF SuccessIsConfirmed, Claim

-----------------------------------------------------------------------------
(* The promise of ConfirmedRequest.                                         *)

\* What the stage of a request under way is to the abstract specification.
StageOf(q) ==
    IF q.stage = "sent" THEN "asked" ELSE IF Carried(q) THEN "done" ELSE "doubtful"

\* The stage is that of the one request under way.
LEMMA StageIs ==
    ASSUME Wired, NEW q \in cmds
    PROVE  wire # None /\ cmds = {q} /\ RequestStage = StageOf(q)
<1>1. wire # None /\ cmds = {q} /\ q.id = wire  BY DEF Wired
<1>2. Request = q  BY <1>1 DEF Request
<1> QED  BY <1>1, <1>2 DEF RequestStage, StageOf

\* The same in the state after a step.
LEMMA StageWillBe ==
    ASSUME Wired', NEW q, cmds' = {q}
    PROVE  RequestStage' = StageOf(q)
<1>1. wire' # None /\ q.id = wire'  BY DEF Wired
<1>2. Request' = q  BY <1>1 DEF Request
<1> QED  BY <1>1, <1>2 DEF RequestStage, StageOf, Carried

\* Whether an answer counts makes no difference to the stage.
LEMMA QuietPromise ==
    ASSUME IInv, IInv', Quiet
    PROVE  RequestStage' = RequestStage /\ RequestTold' \in {RequestTold, "nothing"}
<1>1. RequestTold' \in {RequestTold, "nothing"}  BY DEF Quiet, RequestTold
<1>2. CASE wire = None  BY <1>1, <1>2 DEF Quiet, RequestStage
<1>3. CASE wire # None
  <2>1. PICK q \in cmds : cmds = {q}  BY <1>3, Parts DEF Wired
  <2>2. CASE cmds' = cmds
    BY <1>1, <2>1, <2>2, Parts, PartsNext, StageIs, StageWillBe
  <2>3. CASE cmds' = Stale(cmds)
    <3> DEFINE p == [q EXCEPT !.fresh = FALSE]
    <3>1. cmds' = {p}  BY <2>1, <2>3 DEF Stale
    <3>2. /\ p.req = q.req /\ p.stage = q.stage /\ p.answer = q.answer
          /\ p.refusal = q.refusal
      BY CallTypes, StaleCall
    <3> HIDE DEF p
    <3>3. StageOf(p) = StageOf(q)  BY <3>2 DEF StageOf, Carried
    <3> QED  BY <1>1, <2>1, <3>1, <3>3, Parts, PartsNext, StageIs, StageWillBe
  <2> QED  BY <2>2, <2>3 DEF Quiet
<1> QED  BY <1>1, <1>2, <1>3

\* Asking is the promise's Ask.
LEMMA AskPromise ==
    ASSUME IInv, IInv', NEW req, Ask(req)
    PROVE  Promise!Ask
<1>1. wire = None /\ RequestStage = "idle"  BY DEF Ask, RequestStage
<1>2. RequestTold # "pending"
  BY Parts DEF Ask, Belongs, Awaited, RequestTold
<1> DEFINE new == [id |-> CHOOSE i \in Free : TRUE, req |-> req, session |-> hass,
                   fresh |-> TRUE, stage |-> "sent", answer |-> None, refusal |-> "none"]
<1>3. cmds' = {new} /\ new.fresh /\ new.stage = "sent"
  BY <1>1, Parts DEF Ask, Wired
<1> HIDE DEF new
<1>4. RequestTold' = "pending"
  BY <1>3, PartsNext DEF Belongs, Fresh, RequestTold
<1>5. RequestStage' = "asked"
  BY <1>3, PartsNext, StageWillBe DEF StageOf
<1> QED  BY <1>1, <1>2, <1>4, <1>5 DEF Promise!Ask

\* What the integration does is the promise's Act.
LEMMA HandlePromise ==
    ASSUME IInv, IInv', NEW q \in cmds, Handle(q)
    PROVE  Promise!Act
<1>1. q.stage = "sent" /\ UNCHANGED outcome  BY DEF Handle, Serve, ServeSchedule, Fail, Serving, card
<1>2. PICK new : Replace(q, new) /\ new.stage = "answered"
  <2>1. q \in Calls  BY CallTypes
  <2>2. \A a : [q EXCEPT !.stage = "answered", !.answer = a].stage = "answered"
    BY <2>1 DEF Calls
  <2>3. \A a : [q EXCEPT !.stage = "answered", !.refusal = a].stage = "answered"
    BY <2>1 DEF Calls
  <2> QED  BY <2>2, <2>3 DEF Handle, Serve, ServeSchedule, Fail
<1>3. cmds' = {new}  BY <1>2, Parts, StageIs DEF Replace
<1>4. RequestStage = "asked" /\ RequestStage' \in {"done", "doubtful"}
  BY <1>1, <1>2, <1>3, Parts, PartsNext, StageIs, StageWillBe DEF StageOf
<1>5. UNCHANGED RequestTold  BY <1>1 DEF RequestTold
<1> QED  BY <1>4, <1>5 DEF Promise!Act

\* Once a request is settled nothing is outstanding.
LEMMA SettlePromise ==
    ASSUME IInv, NEW q \in cmds, wire' = IF wire = q.id THEN None ELSE wire
    PROVE  RequestStage' = "idle"
  BY Parts DEF Wired, RequestStage

\* A result that is told is the promise's Tell.
LEMMA TellPromise ==
    ASSUME IInv, NEW q \in cmds, q.fresh, q.stage # "sent", Settle(q),
           NEW code \in Codes \ {"not_checked"}, NEW results, Tell(q, code, results),
           code = "success" => Carried(q)
    PROVE  \E result \in Promise!Results : Promise!Tell(result)
<1> DEFINE result == IF code = "success" THEN "success" ELSE "doubt"
<1>1. RequestTold = "pending"  BY Parts DEF Belongs, Fresh, RequestTold
<1>2. RequestStage \in (IF result = "success" THEN {"done"} ELSE {"done", "doubtful"})
  BY Parts, StageIs DEF StageOf
<1>3. RequestStage' = "idle"  BY SettlePromise DEF Settle
<1>4. RequestTold' = result
  <2>1. outcome' = [code |-> code, session |-> q.session]  BY DEF Tell
  <2>2. outcome' # None
    BY <2>1, CallTypes, Distinct DEF Outcomes
  <2> QED  BY <2>1, <2>2 DEF RequestTold
<1>5. result \in Promise!Results  BY DEF Promise!Results
<1> QED  BY <1>1, <1>2, <1>3, <1>4, <1>5 DEF Promise!Tell

\* What becomes of an answer is the promise's Tell or Settle, or nothing to it.
LEMMA DeliverPromise ==
    ASSUME IInv, IInv', NEW q \in cmds, Deliver(q)
    PROVE  [Promise!Next]_<<RequestStage, RequestTold>>
<1>1. CASE Ignored(q)
  <2>1. RequestStage \in {"done", "doubtful"}  BY <1>1, Parts, StageIs DEF Ignored, StageOf
  <2>2. RequestStage' = "idle"  BY <1>1, SettlePromise DEF Ignored, Settle
  <2>3. RequestTold' = RequestTold  BY <1>1 DEF Ignored, RequestTold
  <2> QED  BY <2>1, <2>2, <2>3 DEF Promise!Next, Promise!Settle
<1>2. CASE Refused(q)
  <2> DEFINE code == FailureCode("none", q.refusal)
             results == [c \in Cameras |-> IF code = "error" THEN "error" ELSE "unconfirmed"]
  <2>1. code \in Codes \ {"not_checked", "success"}  BY ResultsOK
  <2>2. q.fresh /\ q.stage # "sent" /\ Settle(q) /\ Tell(q, code, results)
    BY <1>2 DEF Refused, TellFailure
  <2> HIDE DEF code, results
  <2> QED  BY <2>1, <2>2, TellPromise DEF Promise!Next
<1>3. CASE Accepted(q)
  <2> DEFINE new == [q EXCEPT !.stage = "reading"]
  <2>1. /\ new.stage = "reading" /\ new.req = q.req /\ new.answer = q.answer
        /\ new.refusal = q.refusal /\ q.stage = "answered"
    BY <1>3, CallTypes, ReadingCall DEF Accepted
  <2>2. cmds' = {new}  BY <1>3, Parts, StageIs DEF Accepted, Replace
  <2> HIDE DEF new
  <2>3. StageOf(new) = StageOf(q)  BY <2>1 DEF StageOf, Carried
  <2>4. RequestStage' = RequestStage
    BY <2>2, <2>3, Parts, PartsNext, StageIs, StageWillBe
  <2>5. RequestTold' = RequestTold  BY <1>3 DEF Accepted, card, RequestTold
  <2> QED  BY <2>4, <2>5
<1>4. CASE ReadBack(q)
  <2> DEFINE code == Verdict(q.req, q.answer, srv)
             results == [c \in Cameras |-> CameraResult(q.req, q.answer, srv, c)]
  <2>1. code \in Codes \ {"not_checked"}  BY ResultsOK
  <2>2. q.fresh /\ q.stage = "reading" /\ Settle(q) /\ Tell(q, code, results)
    BY <1>4 DEF ReadBack
  <2>3. code = "success" => Carried(q)  BY <2>2, VerdictIsConfirmed
  <2> HIDE DEF code, results
  <2> QED  BY <2>1, <2>2, <2>3, TellPromise DEF Promise!Next
<1>5. CASE ReadBackFails(q)
  <2> DEFINE code == FailureCode(MutationResult(q.req.kind, q.answer, q.req.cams), "failed")
             results == [c \in Cameras |-> IF code = "error" THEN "error" ELSE "unconfirmed"]
  <2>1. code \in Codes \ {"not_checked", "success"}  BY ResultsOK
  <2>2. q.fresh /\ q.stage # "sent" /\ Settle(q) /\ Tell(q, code, results)
    BY <1>5 DEF ReadBackFails, TellFailure
  <2> HIDE DEF code, results
  <2> QED  BY <2>1, <2>2, TellPromise DEF Promise!Next
<1>6. CASE Denied(q)
  <2>1. q.stage # "sent"
    BY <1>6, CallTypes DEF Denied, CallOK
  <2>2. RequestStage \in {"done", "doubtful"}  BY <2>1, Parts, StageIs DEF StageOf
  <2>3. RequestStage' = "idle"  BY <1>6, SettlePromise DEF Denied
  <2>4. RequestTold' = "nothing"  BY <1>6 DEF Denied, Deny, Forget, RequestTold
  <2> QED  BY <2>2, <2>3, <2>4 DEF Promise!Next, Promise!Settle
<1> QED  BY <1>1, <1>2, <1>3, <1>4, <1>5, <1>6 DEF Deliver

\* The card implements the abstract promise about the result of a request: in every
\* session, over every connection, whatever is late, lost, denied or done by others.
THEOREM PromiseIsKept == Spec => KeepsPromise
<1>1. Init => Promise!Init
  BY DEF Init, Promise!Init, RequestStage, RequestTold
<1>2. IInv /\ IInv' /\ [Next]_vars => [Promise!Next]_<<RequestStage, RequestTold>>
  <2> SUFFICES ASSUME IInv, IInv', [Next]_vars
               PROVE  [Promise!Next]_<<RequestStage, RequestTold>>
    OBVIOUS
  <2>1. CASE Quiet
    BY <2>1, QuietPromise DEF Promise!Next, Promise!Forget
  <2>2. CASE \E req : Ask(req)  BY <2>2, AskPromise DEF Promise!Next
  <2>3. ASSUME NEW q \in cmds, Handle(q)
        PROVE  [Promise!Next]_<<RequestStage, RequestTold>>
    BY <2>3, HandlePromise DEF Promise!Next
  <2>4. ASSUME NEW q \in cmds, Deliver(q)
        PROVE  [Promise!Next]_<<RequestStage, RequestTold>>
    BY <2>4, DeliverPromise
  <2>5. Quiet \/ (\E req : Ask(req)) \/ \E q \in cmds : Handle(q) \/ Deliver(q)
    BY QuietSteps, AskingSteps DEF Next
  <2> QED  BY <2>1, <2>2, <2>3, <2>4, <2>5
<1>3. Spec => Promise!Spec
  BY <1>1, <1>2, Invariant, PTL DEF Spec, Promise!Spec
<1> QED  BY <1>3 DEF KeepsPromise
=============================================================================
