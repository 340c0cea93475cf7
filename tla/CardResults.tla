----------------------------- MODULE CardResults -----------------------------
(***************************************************************************)
(* How the browser card judges an answer of the integration: what became   *)
(* of a request as a whole, what became of each camera of it, and whether  *)
(* the state that it reads back agrees.                                    *)
(*                                                                         *)
(* A request is [kind, cams, item, save].  Its answer is [ok, phase, rows, *)
(* saved]: one row per camera and, for a schedule, what was saved.  rows   *)
(* is a function over any index set, so that rows may be missing, repeated *)
(* or about a camera nobody asked for.  A state is [found, rec, sched].    *)
(***************************************************************************)

CameraKinds == {"pause", "extend", "resume"}
Kinds == CameraKinds \cup {"schedule"}

\* What a row says: its flag (paused, extended, resumed) may not be a boolean.
Flags == {"yes", "no", "bad"}
RowPhases == {"paused", "active", "partial", "error"}
Codes == {"not_checked", "success", "partial", "unconfirmed", "error"}

\* The phase in which a camera is when its request has succeeded.
Phase(kind) == IF kind = "resume" THEN "active" ELSE "paused"

Good(kind, row) == row.flag = "yes" /\ row.phase = Phase(kind)

RowsOf(answer, c) == {i \in DOMAIN answer.rows : answer.rows[i].cam = c}

\* Exactly one row for this camera.
OneRow(answer, c) == \E i \in RowsOf(answer, c) : RowsOf(answer, c) = {i}

-----------------------------------------------------------------------------
(* _mutationResult: the answer alone.                                       *)

ValidRows(answer) ==
    /\ DOMAIN answer.rows # {}
    /\ \A i \in DOMAIN answer.rows : answer.rows[i].flag # "bad"

ToldPartial(kind, answer) ==
    \/ answer.phase = "partial"
    \/ \E i \in DOMAIN answer.rows : answer.rows[i].phase = "partial"
    \/ /\ ValidRows(answer)
       /\ \E i \in DOMAIN answer.rows : Good(kind, answer.rows[i])
       /\ \E i \in DOMAIN answer.rows : ~Good(kind, answer.rows[i])

ToldError(answer) ==
    /\ answer.ok = "no" /\ answer.phase = "error"
    /\ \/ DOMAIN answer.rows = {}
       \/ \A i \in DOMAIN answer.rows : answer.rows[i].flag = "no"

ToldSuccess(kind, answer, expected) ==
    /\ answer.ok = "yes" /\ answer.phase = Phase(kind) /\ ValidRows(answer)
    /\ expected # {}
    /\ \A c \in expected : OneRow(answer, c)
    /\ \A i \in DOMAIN answer.rows :
          answer.rows[i].cam \in expected /\ Good(kind, answer.rows[i])

MutationResult(kind, answer, expected) ==
    IF kind \notin CameraKinds THEN "unconfirmed"  \* judged by the state alone
    ELSE IF ToldPartial(kind, answer) THEN "partial"
    ELSE IF ToldError(answer) THEN "error"
    ELSE IF ToldSuccess(kind, answer, expected) THEN "success"
    ELSE "unconfirmed"

-----------------------------------------------------------------------------
(* _mutationReadback: does the state that was read agree?                   *)

\* For an extension the saved deadline must be the one that the row names.
CameraAgrees(kind, answer, state, c) ==
    IF kind = "extend"
    THEN /\ OneRow(answer, c)
         /\ \A i \in RowsOf(answer, c) :
               /\ Good(kind, answer.rows[i])
               /\ answer.rows[i].until # 0
               /\ state.rec[c].phase = "paused"
               /\ state.rec[c].until = answer.rows[i].until
    ELSE c \in state.found /\ state.rec[c].phase = Phase(kind)

ScheduleAgrees(req, answer, state) ==
    /\ answer.ok # "no"
    /\ answer.saved = req.save /\ state.sched[req.item] = req.save

MutationReadback(req, answer, state) ==
    IF req.kind = "schedule" THEN ScheduleAgrees(req, answer, state)
    ELSE req.cams # {} /\ \A c \in req.cams : CameraAgrees(req.kind, answer, state, c)

\* _runMutation: the answer's verdict, corrected by the state read afterwards.
\* Mistake: the state is read but its disagreement is not heeded.
VerdictUnread(req, answer, state) ==
    IF req.kind = "schedule" THEN IF answer.ok # "no" THEN "success" ELSE "unconfirmed"
    ELSE MutationResult(req.kind, answer, req.cams)

\* Mistake: the state alone decides, whoever brought it about.
VerdictByState(req, answer, state) ==
    IF MutationReadback(req, answer, state) THEN "success"
    ELSE IF req.kind = "schedule" THEN "unconfirmed"
    ELSE MutationResult(req.kind, answer, req.cams)

Verdict(req, answer, state) ==
    LET told == MutationResult(req.kind, answer, req.cams)
        agrees == MutationReadback(req, answer, state)
    IN  IF req.kind = "schedule" THEN IF agrees THEN "success" ELSE "unconfirmed"
        ELSE IF told = "success" /\ ~agrees THEN "unconfirmed" ELSE told

\* _cameraMutationResults: the same question for one camera.
CameraResult(req, answer, state, c) ==
    LET row == answer.rows[CHOOSE i \in RowsOf(answer, c) : TRUE]
    IN  IF ~OneRow(answer, c) THEN "unconfirmed"
        ELSE IF Good(req.kind, row) /\ CameraAgrees(req.kind, answer, state, c) THEN "success"
        ELSE IF row.flag = "no" /\ row.phase \in {"error", "partial"} THEN row.phase
        ELSE "unconfirmed"

\* What a refused or failed call is: "rejected" stands for invalid_payload,
\* replay_saturated, replay_integrity and recovery_pending, "failed" for any other code.
Refusals == {"rejected", "failed", "unauthorized"}

\* The call itself failed, or (verdict # "none") the read after an accepted call did.
FailureCode(verdict, refusal) ==
    IF verdict = "partial" THEN "partial"
    ELSE IF verdict = "none" /\ refusal = "rejected" THEN "error"
    ELSE "unconfirmed"
=============================================================================
