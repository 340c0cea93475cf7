---------------------------- MODULE ReplayLedger ----------------------------
(***************************************************************************)
(* Replay protection of one camera.  Every pause, resume and extension     *)
(* carries an operation id; requests are retried, delayed and duplicated.  *)
(* control.py looks an id up in the bounded operation history of the       *)
(* record, storage.py then reserves it in a monotonic filter before        *)
(* anything happens, and the plan, the outcome and the new generation are  *)
(* saved with the record.  A save may fail or be cancelled (then memory is *)
(* rolled back although the write may still reach the disk), the handler   *)
(* may be cancelled, and Home Assistant may stop between any two saves.    *)
(***************************************************************************)
EXTENDS Naturals, FiniteSets

CONSTANTS Requests,      \* what clients send, again and again: [action, id]
          GeneratedId,   \* stands for the ids the integration generates
          HistoryBound,  \* MAX_OPERATION_HISTORY
          Capacity,      \* REPLAY_FILTER_MAX_ACCEPTED
          MaxFaults      \* bound: saves that fail or are cancelled, and restarts

Actions == {"pause", "resume", "extend"}

ASSUME RequestsAssumption == \A k \in Requests : k.action \in Actions /\ k.id # GeneratedId
ASSUME BoundsAssumption ==
    /\ HistoryBound \in Nat \ {0} /\ Capacity \in Nat /\ MaxFaults \in Nat

\* _new_operation_id: generated ids never repeat, so they are numbered.
Generated == [action : Actions, id : {GeneratedId}, number : Nat]
Keys == Requests \cup Generated

VARIABLES mem,      \* the storage object's data
          disk,     \* what a restart would load
          op,       \* the handler under the camera lock
          decided,  \* history: keys whose plan was ever saved
          faults

vars == <<mem, disk, op, decided, faults>>

-----------------------------------------------------------------------------
Phases == {"none", "pausing", "paused", "partial", "resuming", "error", "active"}
Outcomes == {"progress", "paused", "partial", "extended", "resumed", "failed"}
Entries == [key : Keys, gen : Nat, res : Outcomes]
NoKey == [action |-> "none"]

\* phase, generation, operation_history and resume_operation_id of the record; the
\* camera's replay filter with its count.
Data == [phase : Phases, gen : Nat, hist : SUBSET Entries, resumer : Keys \cup {NoKey},
         filter : SUBSET Keys, accepted : Nat]

Idle == [pc |-> "idle", key |-> NoKey]
Free == op.pc = "idle"
Active == mem.phase \notin {"none", "active"}

KeysOf(hist) == {e.key : e \in hist}

\* _upsert_operation: the newest generations stay, each key at most once.
BoundedByOneMore(hist) ==
    {e \in hist : Cardinality({f \in hist : f.gen > e.gen}) <= HistoryBound}
Bounded(hist) ==
    {e \in hist : Cardinality({f \in hist : f.gen > e.gen}) < HistoryBound}
Upsert(hist, key, gen, res) ==
    Bounded({e \in hist : e.key # key} \cup {[key |-> key, gen |-> gen, res |-> res]})

\* _save_locked: durable; or failed, and memory is rolled back; or cancelled, and
\* memory is rolled back while the write may still complete.
Saved(data) == mem' = data /\ disk' = data /\ UNCHANGED faults
Unsaved(data) ==
    /\ faults < MaxFaults /\ faults' = faults + 1
    /\ UNCHANGED mem /\ disk' \in {disk, data}

-----------------------------------------------------------------------------
(* Admission.                                                               *)

\* _find_operation: a known id is answered from the history, or is stale. An id in
\* the filter alone has expired. Neither changes anything.
Known(key) == key \in KeysOf(mem.hist) \cup mem.filter

\* Mistake: only the exact history is consulted.
ReserveByHistory(key) ==
    /\ Free /\ key \notin KeysOf(mem.hist) /\ mem.accepted < Capacity
    /\ LET reserved == [mem EXCEPT !.filter = @ \cup KeysOf(mem.hist) \cup {key},
                                   !.accepted = @ + 1]
       IN  Saved(reserved) /\ op' = [pc |-> "begin", key |-> key]
    /\ UNCHANGED decided
\* Mistake: the history is not put into the filter.
ReserveWithoutHistory(key) ==
    /\ Free /\ ~Known(key) /\ mem.accepted < Capacity
    /\ LET reserved == [mem EXCEPT !.filter = @ \cup {key}, !.accepted = @ + 1]
       IN  Saved(reserved) /\ op' = [pc |-> "begin", key |-> key]
    /\ UNCHANGED decided

\* async_reserve_camera_operation, before any side effect. The history is added too:
\* it may be older than the filter. A full filter admits nothing.
Reserve(key) ==
    /\ Free /\ ~Known(key) /\ mem.accepted < Capacity
    /\ LET reserved == [mem EXCEPT !.filter = @ \cup KeysOf(mem.hist) \cup {key},
                                   !.accepted = @ + 1]
       IN  \/ Saved(reserved) /\ op' = [pc |-> "begin", key |-> key]
           \/ Unsaved(reserved) /\ UNCHANGED op
    /\ UNCHANGED decided

\* The scheduler's pauses and resumes, and requests without an id.
ReserveGenerated ==
    \E action \in Actions : Reserve([action |-> action, id |-> GeneratedId, number |-> mem.accepted])

\* already_paused (or a schedule extension, which leaves the ledger alone),
\* nothing_to_resume, recovery_pending, privacy_not_extendable: the id is used up.
Extendable == mem.phase \in {"paused", "partial"}
Refuse ==
    /\ op.pc = "begin"
    /\ CASE op.key.action = "pause" -> Active
         [] op.key.action = "resume" -> mem.phase \in {"none", "active", "pausing", "resuming"}
         [] OTHER -> TRUE
    /\ op' = Idle /\ UNCHANGED <<mem, disk, decided, faults>>

-----------------------------------------------------------------------------
(* Work.                                                                    *)

\* A plan that reached the disk counts as a decision, even if its handler died.
Decides(data, next) ==
    \/ Saved(data) /\ op' = next /\ decided' = decided \cup {op.key}
    \/ /\ Unsaved(data) /\ op' = Idle
       /\ decided' = IF disk' = data THEN decided \cup {op.key} ELSE decided

\* Mistake: a pause keeps the generation of the resume before it.
BeginPauseSameGeneration ==
    /\ op.pc = "begin" /\ op.key.action = "pause" /\ ~Active
    /\ Decides([mem EXCEPT !.phase = "pausing",
                           !.hist = Upsert(@, op.key, mem.gen, "progress")],
               [op EXCEPT !.pc = "work"])

BeginPause ==
    /\ op.pc = "begin" /\ op.key.action = "pause" /\ ~Active
    /\ Decides([mem EXCEPT !.phase = "pausing", !.gen = @ + 1,
                           !.hist = Upsert(@, op.key, mem.gen + 1, "progress")],
               [op EXCEPT !.pc = "work"])

BeginResume ==
    /\ op.pc = "begin" /\ op.key.action = "resume" /\ Active
    /\ Decides([mem EXCEPT !.phase = "resuming", !.gen = @ + 1, !.resumer = op.key,
                           !.hist = Upsert(@, op.key, mem.gen + 1, "progress")],
               [op EXCEPT !.pc = "work"])

\* invalid_persisted_targets: the record becomes an error, the generation stays.
RejectTargets ==
    /\ op.pc = "begin" /\ op.key.action = "resume" /\ Active
    /\ LET data == [mem EXCEPT !.phase = "error"] IN Saved(data) \/ Unsaved(data)
    /\ op' = Idle /\ UNCHANGED decided

Extend ==
    /\ op.pc = "begin" /\ op.key.action = "extend" /\ Extendable
    /\ Decides([mem EXCEPT !.gen = @ + 1,
                           !.hist = Upsert(@, op.key, mem.gen + 1, "extended")],
               Idle)

FinishPause ==
    /\ op.pc = "work" /\ op.key.action = "pause"
    /\ \E res \in {"paused", "partial"} :
         LET data == [mem EXCEPT !.phase = res, !.hist = Upsert(@, op.key, mem.gen, res)]
         IN  Saved(data) \/ Unsaved(data)
    /\ op' = Idle /\ UNCHANGED decided

\* A failed terminal save is followed by the fail-safe exit; a cancelled one is not.
FinishResume ==
    /\ op.pc = "work" /\ op.key.action = "resume"
    /\ LET data == [mem EXCEPT !.phase = "active",
                               !.hist = Upsert(@, op.key, mem.gen, "resumed")]
       IN  \/ Saved(data) /\ op' = Idle
           \/ Unsaved(data) /\ op' \in {Idle, op}
    /\ UNCHANGED decided

\* The record is held first; the ledger entry follows in a save of its own, after a
\* failed terminal save even if the first one failed too.
HoldResume ==
    /\ op.pc = "work" /\ op.key.action = "resume"
    /\ \/ Saved([mem EXCEPT !.phase = "error"]) /\ op' = [op EXCEPT !.pc = "held"]
       \/ Unsaved([mem EXCEPT !.phase = "error"]) /\ op' \in {Idle, [op EXCEPT !.pc = "held"]}
    /\ UNCHANGED decided
RecordHold ==
    /\ op.pc = "held"
    /\ LET data == [mem EXCEPT !.phase = "error", !.hist = Upsert(@, op.key, mem.gen, "failed")]
       IN  Saved(data) \/ Unsaved(data)
    /\ op' = Idle /\ UNCHANGED decided

\* The caller's task is cancelled between two saves.
Cancelled ==
    /\ ~Free /\ faults < MaxFaults /\ faults' = faults + 1
    /\ op' = Idle /\ UNCHANGED <<mem, disk, decided>>

-----------------------------------------------------------------------------
(* The scheduler, which takes no camera lock, and restarts.                 *)

TickPartial ==
    /\ mem.phase = "pausing"
    /\ LET data == [mem EXCEPT !.phase = "partial"] IN Saved(data) \/ Unsaved(data)
    /\ UNCHANGED <<op, decided>>

\* A manual override ends the pause without a new generation.
TickOverride ==
    /\ Active
    /\ LET data == [mem EXCEPT !.phase = "active"] IN Saved(data) \/ Unsaved(data)
    /\ UNCHANGED <<op, decided>>

\* recovery_continuation: the interrupted resume goes on under its own id and
\* generation, without a new reservation.
TickContinues ==
    /\ Free /\ mem.phase = "resuming"
    /\ LET data == [mem EXCEPT !.hist = Upsert(@, mem.resumer, mem.gen, "progress")]
       IN  \/ Saved(data) /\ op' = [pc |-> "work", key |-> mem.resumer]
           \/ Unsaved(data) /\ UNCHANGED op
    /\ UNCHANGED decided

Restart ==
    /\ faults < MaxFaults /\ faults' = faults + 1
    /\ mem' = disk /\ op' = Idle /\ UNCHANGED <<disk, decided>>

-----------------------------------------------------------------------------
\* A fresh camera, or a record of an older release: a history and no filter.
Fresh == [phase |-> "none", gen |-> 0, hist |-> {}, resumer |-> NoKey,
          filter |-> {}, accepted |-> 0]
OlderRelease(first) ==
    [Fresh EXCEPT !.phase = "paused", !.gen = 1,
                  !.hist = {[key |-> first, gen |-> 1, res |-> "paused"]}]

Init ==
    /\ mem \in {Fresh} \cup {OlderRelease(k) : k \in {r \in Requests : r.action = "pause"}}
    /\ disk = mem /\ op = Idle /\ decided = KeysOf(mem.hist) /\ faults = 0

Next ==
    \/ \E key \in Requests : Reserve(key)
    \/ ReserveGenerated \/ Refuse
    \/ BeginPause \/ BeginResume \/ RejectTargets \/ Extend
    \/ FinishPause \/ FinishResume \/ HoldResume \/ RecordHold \/ Cancelled
    \/ TickPartial \/ TickOverride \/ TickContinues \/ Restart

Spec == Init /\ [][Next]_vars

-----------------------------------------------------------------------------
TypeOK ==
    /\ mem \in Data /\ disk \in Data
    /\ op \in [pc : {"idle", "begin", "work", "held"}, key : Keys \cup {NoKey}]
    /\ decided \subseteq Keys /\ faults \in Nat
    /\ mem.accepted <= Capacity /\ Cardinality(mem.hist) <= HistoryBound

\* Whatever was ever decided is remembered in memory and on the disk, by the exact
\* history or by the filter: eviction, rolled-back saves, cancelled saves that still
\* reach the disk and restarts lose no tombstone.
DecisionsRemembered ==
    \A data \in {mem, disk} : decided \subseteq KeysOf(data.hist) \cup data.filter

\* A request decides at most once: however late, often or in whatever order its
\* retries come, and whatever fails, only its first admission can move the
\* generation (README: "delayed retries from an older camera generation cannot undo
\* a newer privacy decision").
DecidesOnce == [][mem'.gen # mem.gen /\ op.pc = "begin" => op.key \notin decided]_vars

\* A retry answered "resumed" from the history is answered so only while the camera
\* is in fact active: a later pause, or an interruption, never leaves a current
\* entry that claims the resume.
ReplayedResumeIsTrue ==
    \A e \in mem.hist : e.res = "resumed" /\ e.gen = mem.gen => mem.phase = "active"
=============================================================================
