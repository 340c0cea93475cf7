------------------------- MODULE ReplayLedgerProofs -------------------------
(***************************************************************************)
(* Proofs about ReplayLedger, for every set of requests, history bound,    *)
(* filter capacity and number of faults.                                   *)
(***************************************************************************)
EXTENDS ReplayLedger, FiniteSetTheorems, TLAPS

Typed ==
    /\ mem \in Data /\ disk \in Data
    /\ op \in [pc : {"idle", "begin", "work", "held"}, key : Keys \cup {NoKey}]
    /\ decided \subseteq Keys /\ faults \in Nat

\* While a handler runs, the filter holds the whole history and the handler's key:
\* evicting an entry loses nothing.
HandlerReserved ==
    op.pc # "idle" => KeysOf(mem.hist) \subseteq mem.filter /\ op.key \in mem.filter

\* The same for an interrupted resume, which continues without a reservation.
ResumeReserved ==
    \A data \in {mem, disk} : data.phase = "resuming" =>
        KeysOf(data.hist) \subseteq data.filter /\ data.resumer \in data.filter

\* An admitted request that has not begun has never been decided.
AdmittedOnce == op.pc = "begin" => op.key \notin decided

IInv == Typed /\ DecisionsRemembered /\ HandlerReserved /\ ResumeReserved /\ AdmittedOnce

-----------------------------------------------------------------------------
(* Updating the history brings in no key but the operation's own.           *)

\* _upsert_operation keeps entries it had and adds one, under the operation's key.
LEMMA UpsertKeys ==
    ASSUME NEW hist \in SUBSET Entries, NEW key \in Keys, NEW gen \in Nat, NEW res \in Outcomes
    PROVE  /\ Upsert(hist, key, gen, res) \in SUBSET Entries
           /\ KeysOf(Upsert(hist, key, gen, res)) \subseteq KeysOf(hist) \cup {key}
<1>1. [key |-> key, gen |-> gen, res |-> res] \in Entries
  BY DEF Entries
<1>2. Upsert(hist, key, gen, res) \subseteq hist \cup {[key |-> key, gen |-> gen, res |-> res]}
  BY DEF Upsert, Bounded
<1> QED BY <1>1, <1>2 DEF KeysOf

\* new is old with another phase and, at most, an entry of key.
Rewrites(new, old, phase, key) ==
    /\ new \in Data /\ new.filter = old.filter /\ new.resumer = old.resumer
    /\ new.phase = phase /\ KeysOf(new.hist) \subseteq KeysOf(old.hist) \cup {key}

Recorded(old, phase, key, gen, res) ==
    [old EXCEPT !.phase = phase, !.hist = Upsert(old.hist, key, gen, res)]

\* Saving a phase and an entry keeps the rest of the data.
LEMMA Updated ==
    ASSUME NEW old \in Data, NEW phase \in Phases, NEW key \in Keys, NEW gen \in Nat,
           NEW res \in Outcomes
    PROVE  Rewrites(Recorded(old, phase, key, gen, res), old, phase, key)
<1>1. old.hist \in SUBSET Entries
  BY DEF Data
<1>2. /\ Upsert(old.hist, key, gen, res) \in SUBSET Entries
      /\ KeysOf(Upsert(old.hist, key, gen, res)) \subseteq KeysOf(old.hist) \cup {key}
  BY <1>1, UpsertKeys
<1>3. Recorded(old, phase, key, gen, res).hist = Upsert(old.hist, key, gen, res)
  BY DEF Data, Recorded
<1> QED BY <1>2, <1>3 DEF Data, Recorded, Rewrites

\* A save publishes the same data in memory and on the disk, or leaves memory alone.
LEMMA SaveOutcomes ==
    ASSUME NEW data, Saved(data) \/ Unsaved(data), Typed
    PROVE  mem' \in {mem, data} /\ disk' \in {disk, data} /\ faults' \in Nat
BY DEF Saved, Unsaved, Typed

\* A fresh camera and a record of an older release satisfy the invariant.
THEOREM InitEstablishes == Init => IInv
<1> SUFFICES ASSUME Init PROVE IInv
  OBVIOUS
<1>1. Fresh \in Data /\ Fresh.hist = {} /\ Fresh.phase = "none"
  BY DEF Fresh, Data, Phases
<1>2. ASSUME NEW first \in Requests
      PROVE  OlderRelease(first) \in Data /\ OlderRelease(first).phase = "paused"
  <2>1. [key |-> first, gen |-> 1, res |-> "paused"] \in Entries
    BY DEF Entries, Keys, Outcomes
  <2> QED BY <1>1, <2>1 DEF OlderRelease, Fresh, Data, Phases
<1>3. mem \in Data /\ disk = mem /\ mem.phase # "resuming"
  BY <1>1, <1>2 DEF Init
<1>4. KeysOf(mem.hist) \subseteq Keys
  BY <1>3 DEF KeysOf, Data, Entries
<1> QED BY <1>3, <1>4 DEF Init, IInv, Typed, DecisionsRemembered, HandlerReserved,
        ResumeReserved, AdmittedOnce, Idle

-----------------------------------------------------------------------------
(* Three kinds of save.                                                     *)

\* A running handler saves a new phase and its own entry.
LEMMA HandlerSaves ==
    ASSUME IInv, op.pc # "idle", NEW data \in Data,
           data.filter = mem.filter, KeysOf(data.hist) \subseteq KeysOf(mem.hist) \cup {op.key},
           data.phase = "resuming" => data.resumer \in mem.filter,
           Saved(data) \/ Unsaved(data),
           \/ decided' = decided
           \/ decided' = decided \cup {op.key} /\ disk' = data,
           op' = Idle \/ (op' \in [pc : {"work", "held"}, key : {op.key}])
    PROVE  IInv'
<1>1. mem' \in {mem, data} /\ disk' \in {disk, data} /\ faults' \in Nat
  BY SaveOutcomes DEF IInv
<1>2. op.key \in mem.filter /\ KeysOf(mem.hist) \subseteq mem.filter
  BY DEF IInv, HandlerReserved
<1>3. mem.filter \subseteq Keys
  BY DEF IInv, Typed, Data
<1>4. Typed'
  BY <1>1, <1>2, <1>3 DEF IInv, Typed, Idle
<1>5. DecisionsRemembered'
  <2>1. decided \subseteq mem.filter /\ decided \subseteq KeysOf(disk.hist) \cup disk.filter
    BY <1>2 DEF IInv, DecisionsRemembered
  <2> QED BY <1>1, <1>2, <2>1 DEF DecisionsRemembered
<1>6. HandlerReserved'
  BY <1>1, <1>2 DEF HandlerReserved, Idle
<1>7. ResumeReserved'
  BY <1>1, <1>2 DEF IInv, ResumeReserved
<1>8. AdmittedOnce'
  BY DEF AdmittedOnce, Idle
<1> QED BY <1>4, <1>5, <1>6, <1>7, <1>8 DEF IInv

\* Nothing but the phase changes, and no resume begins.
LEMMA PhaseSaves ==
    ASSUME IInv, NEW phase \in Phases, phase # "resuming",
           Saved([mem EXCEPT !.phase = phase]) \/ Unsaved([mem EXCEPT !.phase = phase]),
           UNCHANGED decided, op' \in {op, Idle}
    PROVE  IInv'
<1> DEFINE data == [mem EXCEPT !.phase = phase]
<1>1. data \in Data /\ data.filter = mem.filter /\ data.hist = mem.hist /\ data.phase = phase
  BY DEF IInv, Typed, Data
<1>2. mem' \in {mem, data} /\ disk' \in {disk, data} /\ faults' \in Nat
  BY SaveOutcomes DEF IInv
<1> HIDE DEF data
<1>3. Typed'
  BY <1>1, <1>2 DEF IInv, Typed, Idle
<1>4. DecisionsRemembered'
  BY <1>1, <1>2 DEF IInv, DecisionsRemembered
<1>5. HandlerReserved' /\ ResumeReserved' /\ AdmittedOnce'
  BY <1>1, <1>2 DEF IInv, HandlerReserved, ResumeReserved, AdmittedOnce, Idle
<1> QED BY <1>3, <1>4, <1>5 DEF IInv

\* Reserving an unknown key: it was never decided, and everything is in the filter.
LEMMA Reserves ==
    ASSUME IInv, NEW key \in Keys, Reserve(key)
    PROVE  IInv'
<1> DEFINE data == [mem EXCEPT !.filter = @ \cup KeysOf(mem.hist) \cup {key},
                               !.accepted = @ + 1]
<1>1. KeysOf(mem.hist) \subseteq Keys
  BY DEF IInv, Typed, Data, KeysOf, Entries
<1>t. mem \in Data
  BY DEF IInv, Typed
<1>n. mem.accepted + 1 \in Nat /\ mem.filter \cup KeysOf(mem.hist) \cup {key} \in SUBSET Keys
  BY <1>1, <1>t DEF Data
<1>2. /\ data \in Data /\ data.filter = mem.filter \cup KeysOf(mem.hist) \cup {key}
      /\ data.hist = mem.hist /\ data.phase = mem.phase /\ data.resumer = mem.resumer
  BY <1>t, <1>n DEF Data
<1>3. /\ key \notin decided
      /\ decided \subseteq KeysOf(mem.hist) \cup mem.filter
      /\ UNCHANGED decided
  BY DEF IInv, DecisionsRemembered, Reserve, Known
<1>4. CASE Saved(data) /\ op' = [pc |-> "begin", key |-> key]
  <2>1. mem' = data /\ disk' = data /\ UNCHANGED faults
    BY <1>4 DEF Saved
  <2> HIDE DEF data
  <2>2. Typed'
    BY <1>2, <1>3, <1>4, <2>1 DEF IInv, Typed
  <2>3. DecisionsRemembered'
    BY <1>2, <1>3, <2>1 DEF DecisionsRemembered
  <2>4. HandlerReserved' /\ AdmittedOnce'
    BY <1>2, <1>3, <1>4, <2>1 DEF HandlerReserved, AdmittedOnce
  <2>5. ResumeReserved'
    BY <1>2, <2>1 DEF IInv, ResumeReserved
  <2> QED BY <2>2, <2>3, <2>4, <2>5 DEF IInv
<1>5. CASE Unsaved(data) /\ UNCHANGED op
  <2>1. mem' = mem /\ disk' \in {disk, data} /\ faults' \in Nat
    BY <1>5 DEF Unsaved, IInv, Typed
  <2> HIDE DEF data
  <2>2. Typed'
    BY <1>2, <1>3, <1>5, <2>1 DEF IInv, Typed
  <2>3. DecisionsRemembered'
    BY <1>2, <1>3, <2>1 DEF IInv, DecisionsRemembered
  <2>4. HandlerReserved' /\ AdmittedOnce'
    BY <1>3, <1>5, <2>1 DEF IInv, HandlerReserved, AdmittedOnce
  <2>5. ResumeReserved'
    BY <1>2, <2>1 DEF IInv, ResumeReserved
  <2> QED BY <2>2, <2>3, <2>4, <2>5 DEF IInv
<1> QED BY <1>4, <1>5 DEF Reserve

-----------------------------------------------------------------------------
(* Every step keeps the invariant.                                          *)

\* A handler's save may also be followed by keeping the handler as it is.
LEMMA WorkSaves ==
    ASSUME IInv, op.pc \in {"work", "held"}, NEW data \in Data,
           data.filter = mem.filter, KeysOf(data.hist) \subseteq KeysOf(mem.hist) \cup {op.key},
           data.phase # "resuming",
           Saved(data) \/ Unsaved(data), UNCHANGED decided,
           op' \in {Idle, op, [op EXCEPT !.pc = "held"]}
    PROVE  IInv'
<1>1. op \in [pc : {"idle", "begin", "work", "held"}, key : Keys \cup {NoKey}]
  BY DEF IInv, Typed
<1>2. op' = Idle \/ op' \in [pc : {"work", "held"}, key : {op.key}]
  BY <1>1
<1>3. op.pc # "idle"
  OBVIOUS
<1> QED BY <1>2, <1>3, HandlerSaves

\* The first save of a plan or of an extension: a new generation under the
\* operation's own reserved key.
LEMMA BeginSaves ==
    ASSUME IInv, op.pc = "begin", NEW phase \in Phases, NEW resumer \in {mem.resumer, op.key},
           phase = "resuming" => resumer = op.key \/ mem.phase = "resuming", NEW res \in Outcomes, NEW next,
           next = Idle \/ next = [op EXCEPT !.pc = "work"],
           NEW data, data = [mem EXCEPT !.phase = phase, !.gen = mem.gen + 1, !.resumer = resumer,
                                  !.hist = Upsert(mem.hist, op.key, mem.gen + 1, res)],
           Decides(data, next)
    PROVE  IInv'
<1>1. /\ op \in [pc : {"idle", "begin", "work", "held"}, key : Keys \cup {NoKey}]
      /\ mem \in Data
  BY DEF IInv, Typed
<1>2. op.key \in mem.filter /\ mem.filter \subseteq Keys
  BY <1>1 DEF IInv, HandlerReserved, Data
<1>3. op.key \in Keys /\ mem.hist \in SUBSET Entries /\ mem.gen + 1 \in Nat
  BY <1>1, <1>2 DEF Data
<1>4. /\ Upsert(mem.hist, op.key, mem.gen + 1, res) \in SUBSET Entries
      /\ KeysOf(Upsert(mem.hist, op.key, mem.gen + 1, res)) \subseteq KeysOf(mem.hist) \cup {op.key}
  BY <1>3, UpsertKeys
<1>5. /\ data \in Data /\ data.filter = mem.filter /\ data.phase = phase
      /\ data.resumer = resumer
      /\ KeysOf(data.hist) \subseteq KeysOf(mem.hist) \cup {op.key}
  BY <1>1, <1>3, <1>4 DEF Data
<1>6. data.phase = "resuming" => data.resumer \in mem.filter
  BY <1>2, <1>5 DEF IInv, ResumeReserved
<1>7. Saved(data) \/ Unsaved(data)
  BY DEF Decides
<1>8. decided' = decided \/ (decided' = decided \cup {op.key} /\ disk' = data)
  BY DEF Decides, Saved
<1>9. op' = Idle \/ op' \in [pc : {"work", "held"}, key : {op.key}]
  BY <1>1 DEF Decides
<1>10. op.pc # "idle"
  OBVIOUS
<1> HIDE DEF Idle
<1> QED BY ONLY IInv, <1>5, <1>6, <1>7, <1>8, <1>9, <1>10, HandlerSaves

\* The invariant is inductive: one step per action.
LEMMA StepPreserves == IInv /\ [Next]_vars => IInv'
<1> SUFFICES ASSUME IInv, [Next]_vars PROVE IInv'
  OBVIOUS
<1> USE DEF Phases, Outcomes
<1>0. /\ mem \in Data /\ disk \in Data
      /\ op \in [pc : {"idle", "begin", "work", "held"}, key : Keys \cup {NoKey}]
      /\ mem.phase \in Phases /\ mem.gen \in Nat /\ mem.hist \in SUBSET Entries
      /\ mem = [phase |-> mem.phase, gen |-> mem.gen, hist |-> mem.hist,
                resumer |-> mem.resumer, filter |-> mem.filter, accepted |-> mem.accepted]
  BY DEF IInv, Typed, Data
<1>k. op.pc # "idle" => op.key \in Keys
  BY <1>0 DEF IInv, HandlerReserved, Data
<1>1. ASSUME NEW key \in Requests, Reserve(key) PROVE IInv'
  BY <1>1, Reserves DEF Keys
<1>2. CASE ReserveGenerated
  <2>1. PICK action \in Actions :
          Reserve([action |-> action, id |-> GeneratedId, number |-> mem.accepted])
    BY <1>2 DEF ReserveGenerated
  <2>2. [action |-> action, id |-> GeneratedId, number |-> mem.accepted] \in Keys
    BY <1>0 DEF Keys, Generated, Data
  <2> QED BY <2>1, <2>2, Reserves
<1>3. CASE Refuse
  BY <1>3 DEF Refuse, Idle, IInv, Typed, DecisionsRemembered, HandlerReserved,
       ResumeReserved, AdmittedOnce
<1>4. CASE BeginPause
  <2> DEFINE data == [mem EXCEPT !.phase = "pausing", !.gen = mem.gen + 1,
                                 !.resumer = mem.resumer,
                                 !.hist = Upsert(mem.hist, op.key, mem.gen + 1, "progress")]
  <2>1. op.pc = "begin" /\ Decides(data, [op EXCEPT !.pc = "work"])
    BY <1>4, <1>0, Zenon DEF BeginPause
  <2> QED BY <2>1, BeginSaves
<1>5. CASE BeginResume
  <2> DEFINE data == [mem EXCEPT !.phase = "resuming", !.gen = mem.gen + 1,
                                 !.resumer = op.key,
                                 !.hist = Upsert(mem.hist, op.key, mem.gen + 1, "progress")]
  <2>1. op.pc = "begin" /\ Decides(data, [op EXCEPT !.pc = "work"])
    BY <1>5 DEF BeginResume
  <2> QED BY <2>1, BeginSaves
<1>6. CASE RejectTargets
  <2>1. Saved([mem EXCEPT !.phase = "error"]) \/ Unsaved([mem EXCEPT !.phase = "error"])
    BY <1>6 DEF RejectTargets
  <2> QED BY <1>6, <2>1, PhaseSaves DEF RejectTargets
<1>7. CASE Extend
  <2> DEFINE data == [mem EXCEPT !.phase = mem.phase, !.gen = mem.gen + 1,
                                 !.resumer = mem.resumer,
                                 !.hist = Upsert(mem.hist, op.key, mem.gen + 1, "extended")]
  <2>1. op.pc = "begin" /\ Decides(data, Idle)
    BY <1>7 DEF Extend
  <2> QED BY <2>1, <1>0, BeginSaves
<1>8. CASE FinishPause
  <2>1. PICK res \in {"paused", "partial"} :
          LET data == [mem EXCEPT !.phase = res, !.hist = Upsert(@, op.key, mem.gen, res)]
          IN  Saved(data) \/ Unsaved(data)
    BY <1>8 DEF FinishPause
  <2> DEFINE data == [mem EXCEPT !.phase = res, !.hist = Upsert(@, op.key, mem.gen, res)]
  <2>2. /\ data \in Data /\ data.filter = mem.filter /\ data.phase # "resuming"
        /\ KeysOf(data.hist) \subseteq KeysOf(mem.hist) \cup {op.key}
    <3>1. /\ data = Recorded(mem, res, op.key, mem.gen, res)
          /\ op.key \in Keys
      BY <1>k, <1>8 DEF FinishPause, Recorded
    <3> HIDE DEF data
    <3>2. /\ mem \in Data /\ mem.gen \in Nat
          /\ res \in Phases \ {"resuming"} /\ res \in Outcomes
      BY <1>0
    <3>3. Rewrites(Recorded(mem, res, op.key, mem.gen, res), mem, res, op.key)
      BY <3>1, <3>2, Updated
    <3> QED BY <3>1, <3>2, <3>3 DEF Rewrites
  <2>3. Saved(data) \/ Unsaved(data)
    BY <2>1
  <2> HIDE DEF data
  <2> QED BY <1>8, <2>2, <2>3, WorkSaves DEF FinishPause
<1>9. CASE FinishResume
  <2> DEFINE data == [mem EXCEPT !.phase = "active",
                                 !.hist = Upsert(@, op.key, mem.gen, "resumed")]
  <2>2. /\ data \in Data /\ data.filter = mem.filter /\ data.phase # "resuming"
        /\ KeysOf(data.hist) \subseteq KeysOf(mem.hist) \cup {op.key}
    <3>1. /\ data = Recorded(mem, "active", op.key, mem.gen, "resumed")
          /\ op.key \in Keys
      BY <1>k, <1>9 DEF FinishResume, Recorded
    <3> HIDE DEF data
    <3>2. /\ mem \in Data /\ mem.gen \in Nat
          /\ "active" \in Phases \ {"resuming"} /\ "resumed" \in Outcomes
      BY <1>0
    <3>3. Rewrites(Recorded(mem, "active", op.key, mem.gen, "resumed"), mem, "active", op.key)
      BY <3>1, <3>2, Updated
    <3> QED BY <3>1, <3>2, <3>3 DEF Rewrites
  <2>3. (Saved(data) \/ Unsaved(data)) /\ op' \in {Idle, op}
    BY <1>9 DEF FinishResume
  <2> HIDE DEF data
  <2> QED BY <1>9, <2>2, <2>3, WorkSaves DEF FinishResume
<1>10. CASE HoldResume
  <2> DEFINE data == [mem EXCEPT !.phase = "error"]
  <2>2. /\ data \in Data /\ data.filter = mem.filter /\ data.phase # "resuming"
        /\ KeysOf(data.hist) \subseteq KeysOf(mem.hist) \cup {op.key}
    BY <1>0 DEF Data
  <2>3. /\ Saved(data) \/ Unsaved(data)
        /\ op' \in {Idle, op, [op EXCEPT !.pc = "held"]}
    BY <1>10 DEF HoldResume
  <2> HIDE DEF data
  <2> QED BY <1>10, <2>2, <2>3, WorkSaves DEF HoldResume
<1>11. CASE RecordHold
  <2> DEFINE data == [mem EXCEPT !.phase = "error",
                                 !.hist = Upsert(@, op.key, mem.gen, "failed")]
  <2>2. /\ data \in Data /\ data.filter = mem.filter /\ data.phase # "resuming"
        /\ KeysOf(data.hist) \subseteq KeysOf(mem.hist) \cup {op.key}
    <3>1. /\ data = Recorded(mem, "error", op.key, mem.gen, "failed")
          /\ op.key \in Keys
      BY <1>k, <1>11 DEF RecordHold, Recorded
    <3> HIDE DEF data
    <3>2. /\ mem \in Data /\ mem.gen \in Nat
          /\ "error" \in Phases \ {"resuming"} /\ "failed" \in Outcomes
      BY <1>0
    <3>3. Rewrites(Recorded(mem, "error", op.key, mem.gen, "failed"), mem, "error", op.key)
      BY <3>1, <3>2, Updated
    <3> QED BY <3>1, <3>2, <3>3 DEF Rewrites
  <2>3. (Saved(data) \/ Unsaved(data)) /\ op' = Idle
    BY <1>11 DEF RecordHold
  <2> HIDE DEF data
  <2> QED BY <1>11, <2>2, <2>3, WorkSaves DEF RecordHold
<1>12. CASE Cancelled
  BY <1>12 DEF Cancelled, Idle, IInv, Typed, DecisionsRemembered, HandlerReserved,
       ResumeReserved, AdmittedOnce
<1>13. CASE TickPartial
  <2>1. Saved([mem EXCEPT !.phase = "partial"]) \/ Unsaved([mem EXCEPT !.phase = "partial"])
    BY <1>13 DEF TickPartial
  <2> QED BY <1>13, <2>1, PhaseSaves DEF TickPartial
<1>14. CASE TickOverride
  <2>1. Saved([mem EXCEPT !.phase = "active"]) \/ Unsaved([mem EXCEPT !.phase = "active"])
    BY <1>14 DEF TickOverride
  <2> QED BY <1>14, <2>1, PhaseSaves DEF TickOverride
<1>15. CASE TickContinues
  <2> DEFINE data == [mem EXCEPT !.hist = Upsert(@, mem.resumer, mem.gen, "progress")]
  <2>1. /\ mem.phase = "resuming" /\ mem.resumer \in mem.filter
        /\ KeysOf(mem.hist) \subseteq mem.filter /\ mem.filter \subseteq Keys
    BY <1>0, <1>15 DEF TickContinues, IInv, ResumeReserved, Data
  <2>2. /\ data \in Data /\ data.filter = mem.filter /\ data.phase = mem.phase
        /\ data.resumer = mem.resumer
        /\ KeysOf(data.hist) \subseteq mem.filter
    <3>1. data = Recorded(mem, mem.phase, mem.resumer, mem.gen, "progress")
      BY <1>0 DEF Recorded
    <3> HIDE DEF data
    <3>2. mem.resumer \in Keys
      BY <2>1
    <3>3. /\ mem \in Data /\ mem.gen \in Nat
          /\ mem.phase \in Phases /\ "progress" \in Outcomes
      BY <1>0
    <3>4. Rewrites(Recorded(mem, mem.phase, mem.resumer, mem.gen, "progress"),
                   mem, mem.phase, mem.resumer)
      BY <3>2, <3>3, Updated
    <3> QED BY <2>1, <3>1, <3>4 DEF Rewrites
  <2>3. /\ \/ Saved(data) /\ op' = [pc |-> "work", key |-> mem.resumer]
           \/ Unsaved(data) /\ UNCHANGED op
        /\ UNCHANGED decided /\ op.pc = "idle"
    BY <1>15 DEF TickContinues, Free
  <2>4. /\ mem' \in {mem, data} /\ disk' \in {disk, data} /\ faults' \in Nat
        /\ op' # op => mem' = data
    BY <2>3, SaveOutcomes DEF IInv, Saved
  <2> HIDE DEF data
  <2>5. Typed'
    BY <1>0, <2>1, <2>2, <2>3, <2>4 DEF IInv, Typed
  <2>6. DecisionsRemembered'
    <3>1. decided \subseteq mem.filter /\ decided \subseteq KeysOf(disk.hist) \cup disk.filter
      BY <2>1 DEF IInv, DecisionsRemembered
    <3> QED BY <2>1, <2>2, <2>3, <2>4, <3>1 DEF DecisionsRemembered
  <2>7. HandlerReserved' /\ AdmittedOnce'
    BY <2>1, <2>2, <2>3, <2>4 DEF HandlerReserved, AdmittedOnce
  <2>8. ResumeReserved'
    BY <2>1, <2>2, <2>4 DEF IInv, ResumeReserved
  <2> QED BY <2>5, <2>6, <2>7, <2>8 DEF IInv
<1>16. CASE Restart
  BY <1>16 DEF Restart, Idle, IInv, Typed, DecisionsRemembered, HandlerReserved,
       ResumeReserved, AdmittedOnce
<1>17. CASE UNCHANGED vars
  BY <1>17 DEF vars, IInv, Typed, DecisionsRemembered, HandlerReserved,
       ResumeReserved, AdmittedOnce
<1> QED BY <1>1, <1>2, <1>3, <1>4, <1>5, <1>6, <1>7, <1>8, <1>9, <1>10, <1>11, <1>12,
      <1>13, <1>14, <1>15, <1>16, <1>17 DEF Next

-----------------------------------------------------------------------------
\* The inductive invariant of the ledger.
THEOREM AlwaysIInv == Spec => []IInv
<1>1. Init => IInv
  BY InitEstablishes
<1>2. IInv /\ [Next]_vars => IInv'
  BY StepPreserves
<1> QED BY <1>1, <1>2, PTL DEF Spec

\* No decision is ever forgotten: neither by the bounded history of the record nor
\* by a failed save, a cancelled save or a restart (control.py _upsert_operation,
\* storage.py async_reserve_camera_operation).
THEOREM DecisionsAreRemembered == Spec => []DecisionsRemembered
<1>1. IInv => DecisionsRemembered
  BY DEF IInv
<1> QED BY <1>1, AlwaysIInv, PTL

\* No request changes the generation twice, whatever the order of its retries.
THEOREM DecidesAtMostOnce == Spec => DecidesOnce
<1>1. IInv => [mem'.gen # mem.gen /\ op.pc = "begin" => op.key \notin decided]_vars
  BY DEF IInv, AdmittedOnce
<1> QED BY <1>1, AlwaysIInv, PTL DEF DecidesOnce

-----------------------------------------------------------------------------
(* What the history says of the record.                                     *)

\* A generation has one entry, which is not of the future; a resume in progress is the
\* generation's own operation; and only an active record has been resumed.
LedgerOK(data) ==
    /\ IsFiniteSet(data.hist) /\ Cardinality(data.hist) <= HistoryBound
    /\ data.accepted <= Capacity
    /\ \A e \in data.hist : e.gen <= data.gen
    /\ \A e, f \in data.hist : e.gen = f.gen => e = f
    /\ data.phase = "resuming" => \A e \in data.hist : e.gen = data.gen => e.key = data.resumer
    /\ \A e \in data.hist : e.res = "resumed" /\ e.gen = data.gen => data.phase = "active"

\* A handler that works or holds works on the generation that it began.
WorksOnOwn ==
    op.pc \in {"work", "held"} =>
        \A e \in mem.hist : e.gen = mem.gen => e.key = op.key /\ e.res # "resumed"

LInv == LedgerOK(mem) /\ LedgerOK(disk) /\ WorksOnOwn

\* An entry stays while fewer than HistoryBound are newer: entries of different
\* generations differ in how many are newer, so no more than HistoryBound stay.
LEMMA BoundedIsSmall ==
    ASSUME NEW hist \in SUBSET Entries, IsFiniteSet(hist),
           \A e, f \in hist : e.gen = f.gen => e = f
    PROVE  IsFiniteSet(Bounded(hist)) /\ Cardinality(Bounded(hist)) <= HistoryBound
<1> DEFINE Newer(e) == {f \in hist : f.gen > e.gen}
           rank == [e \in Bounded(hist) |-> Cardinality(Newer(e))]
<1>1. Bounded(hist) \subseteq hist  BY DEF Bounded
<1>2. \A e \in hist : IsFiniteSet(Newer(e)) /\ Cardinality(Newer(e)) \in Nat
  <2> TAKE e \in hist
  <2>1. Newer(e) \in SUBSET hist  OBVIOUS
  <2> HIDE DEF Newer
  <2>2. IsFiniteSet(Newer(e))  BY <2>1, FS_Subset
  <2> QED  BY <2>2, FS_CardinalityType
<1>3. rank \in [Bounded(hist) -> 0..(HistoryBound - 1)]
  <2>1. ASSUME NEW e \in Bounded(hist)
        PROVE  Cardinality(Newer(e)) \in 0..(HistoryBound - 1)
    <3>1. Cardinality(Newer(e)) < HistoryBound  BY DEF Bounded
    <3>2. Cardinality(Newer(e)) \in Nat  BY <1>1, <1>2
    <3> HIDE DEF Newer
    <3> QED  BY <3>1, <3>2, BoundsAssumption
  <2> QED  BY <2>1
<1>4. ASSUME NEW e \in hist, NEW f \in hist, e.gen < f.gen
      PROVE  Cardinality(Newer(e)) # Cardinality(Newer(f))
  <2>1. e.gen \in Nat /\ f.gen \in Nat /\ \A g \in hist : g.gen \in Nat  BY DEF Entries
  <2>2. Newer(f) \in SUBSET Newer(e)  BY <1>4, <2>1
  <2>3. f \in Newer(e) /\ f \notin Newer(f)  BY <1>4, <2>1
  <2>4. IsFiniteSet(Newer(e))  BY <1>2
  <2> HIDE DEF Newer
  <2> QED  BY <2>2, <2>3, <2>4, FS_Subset
<1>5. rank \in Injection(Bounded(hist), 0..(HistoryBound - 1))
  <2>1. ASSUME NEW e \in Bounded(hist), NEW f \in Bounded(hist), rank[e] = rank[f]
        PROVE  e = f
    <3>1. e \in hist /\ f \in hist /\ e.gen \in Nat /\ f.gen \in Nat  BY <1>1 DEF Entries
    <3>2. Cardinality(Newer(e)) = Cardinality(Newer(f))  BY <2>1
    <3>3. e.gen = f.gen  BY <1>4, <3>1, <3>2
    <3> QED  BY <3>1, <3>3
  <2> HIDE DEF rank
  <2> QED  BY <1>3, <2>1 DEF Injection, IsInjective
<1>6. IsFiniteSet(0..(HistoryBound - 1)) /\ Cardinality(0..(HistoryBound - 1)) = HistoryBound
  BY BoundsAssumption, FS_Interval
<1> QED  BY <1>5, <1>6, FS_Injection

\* Recording an operation of the newest generation.
LEMMA Upserted ==
    ASSUME NEW old \in Data, LedgerOK(old), NEW key \in Keys, NEW res \in Outcomes,
           NEW new, new.gen \in Nat, new.hist = Upsert(old.hist, key, new.gen, res),
           new.accepted = old.accepted, new.gen >= old.gen,
           new.gen = old.gen => \A e \in old.hist : e.gen = old.gen => e.key = key,
           new.phase = "resuming" => new.resumer = key,
           res = "resumed" => new.phase = "active"
    PROVE  /\ LedgerOK(new)
           /\ \A e \in new.hist : e.gen = new.gen => e.key = key /\ e.res = res
<1> DEFINE entry == [key |-> key, gen |-> new.gen, res |-> res]
           all == {e \in old.hist : e.key # key} \cup {entry}
<1>1. old.hist \in SUBSET Entries /\ new.gen \in Nat /\ old.gen \in Nat  BY DEF Data
<1>2. all \in SUBSET Entries  BY <1>1 DEF Entries
<1>3. IsFiniteSet(all)
  <2>1. {e \in old.hist : e.key # key} \in SUBSET old.hist  OBVIOUS
  <2> QED  BY <2>1, FS_Subset, FS_AddElement DEF LedgerOK
<1>4. \A e \in old.hist : e.gen \in Nat /\ e.gen <= old.gen /\ (e.key # key => e.gen # new.gen)
  BY <1>1 DEF LedgerOK, Entries
<1>5. \A e, f \in all : e.gen = f.gen => e = f
  BY <1>4 DEF LedgerOK
<1>6. \A e \in all : e.gen <= new.gen /\ (e.gen = new.gen => e.key = key /\ e.res = res)
  BY <1>1, <1>4
<1>7. new.hist = Bounded(all)  BY DEF Upsert
<1> HIDE DEF all, entry
<1>8. IsFiniteSet(new.hist) /\ Cardinality(new.hist) <= HistoryBound
  BY <1>2, <1>3, <1>5, <1>7, BoundedIsSmall
<1>9. new.hist \subseteq all  BY <1>7 DEF Bounded
<1> QED  BY <1>5, <1>6, <1>8, <1>9 DEF LedgerOK

\* A change of phase alone.
LEMMA Rephased ==
    ASSUME NEW old, LedgerOK(old), NEW new, new.hist = old.hist,
           new.gen = old.gen, new.accepted <= Capacity, new.resumer = old.resumer,
           new.phase = "resuming" => old.phase = "resuming",
           new.phase = "active" \/ \A e \in old.hist : e.gen = old.gen => e.res # "resumed"
    PROVE  LedgerOK(new)
BY DEF LedgerOK

LEMMA SavesLedger ==
    ASSUME LInv, NEW data, LedgerOK(data), Saved(data) \/ Unsaved(data)
    PROVE  LedgerOK(mem') /\ LedgerOK(disk') /\ mem' \in {mem, data}
BY DEF LInv, Saved, Unsaved

-----------------------------------------------------------------------------
(* Every step keeps the ledger true.                                        *)

\* A change of phase is saved, by the scheduler or by a handler.
LEMMA PhaseLedger ==
    ASSUME IInv, LInv, NEW phase \in Phases \ {"resuming"},
           LET data == [mem EXCEPT !.phase = phase] IN Saved(data) \/ Unsaved(data),
           phase = "active" \/ Active \/ op.pc = "work",
           op' \in {op, Idle, [op EXCEPT !.pc = "held"]}, op' \in {op, Idle} \/ op.pc = "work"
    PROVE  LInv'
<1> DEFINE data == [mem EXCEPT !.phase = phase]
<1>1. /\ data.hist = mem.hist /\ data.gen = mem.gen /\ data.accepted = mem.accepted
      /\ data.resumer = mem.resumer /\ data.phase = phase
  BY DEF IInv, Typed, Data
<1>2. LedgerOK(mem) /\ (Active => \A e \in mem.hist : e.gen = mem.gen => e.res # "resumed")
  BY DEF LInv, LedgerOK, Active
<1>3. op.pc = "work" => \A e \in mem.hist : e.gen = mem.gen => e.res # "resumed"
  BY DEF LInv, WorksOnOwn
<1>4. Saved(data) \/ Unsaved(data)  OBVIOUS
<1> HIDE DEF data
<1>5. LedgerOK(data)
  BY <1>1, <1>2, <1>3 DEF LedgerOK
<1>6. LedgerOK(mem') /\ LedgerOK(disk') /\ mem' \in {mem, data}
  BY <1>4, <1>5, SavesLedger
<1>7. mem'.hist = mem.hist /\ mem'.gen = mem.gen  BY <1>1, <1>6
<1>8. op \in [pc : {"idle", "begin", "work", "held"}, key : Keys \cup {NoKey}]  BY DEF IInv, Typed
<1>9. WorksOnOwn'
  BY <1>7, <1>8 DEF LInv, WorksOnOwn, Idle
<1> QED  BY <1>6, <1>9 DEF LInv

\* A handler at work saves a phase with its own entry.
LEMMA WorkLedger ==
    ASSUME IInv, LInv, op.pc \in {"work", "held"}, NEW phase \in Phases \ {"resuming"},
           NEW res \in Outcomes, res = "resumed" => phase = "active",
           LET data == [mem EXCEPT !.phase = phase, !.hist = Upsert(@, op.key, mem.gen, res)]
           IN  Saved(data) \/ Unsaved(data),
           op' = Idle \/ UNCHANGED <<op, mem>>
    PROVE  LInv'
<1> DEFINE data == [mem EXCEPT !.phase = phase, !.hist = Upsert(@, op.key, mem.gen, res)]
<1>1. mem \in Data /\ op.key \in Keys
  BY DEF IInv, Typed, HandlerReserved, Data
<1>2. /\ data.hist = Upsert(mem.hist, op.key, mem.gen, res) /\ data.gen = mem.gen
      /\ data.accepted = mem.accepted /\ data.phase = phase
      /\ mem.gen \in Nat
  BY <1>1 DEF Data
<1>3. \A e \in mem.hist : e.gen = mem.gen => e.key = op.key  BY DEF LInv, WorksOnOwn
<1>4. Saved(data) \/ Unsaved(data)  OBVIOUS
<1> HIDE DEF data
<1>5. LedgerOK(data)
  BY <1>1, <1>2, <1>3, Upserted DEF LInv
<1>6. LedgerOK(mem') /\ LedgerOK(disk')
  BY <1>4, <1>5, SavesLedger
<1>7. WorksOnOwn'  BY DEF LInv, WorksOnOwn, Idle
<1> QED  BY <1>6, <1>7 DEF LInv

\* A plan or an extension is saved under the next generation.
LEMMA BeginLedger ==
    ASSUME IInv, LInv, op.pc = "begin", NEW data, data.gen = mem.gen + 1,
           data.accepted = mem.accepted, NEW res \in Outcomes \ {"resumed"},
           data.hist = Upsert(mem.hist, op.key, mem.gen + 1, res),
           data.phase = "resuming" => data.resumer = op.key,
           NEW next, next \in {Idle, [op EXCEPT !.pc = "work"]}, Decides(data, next)
    PROVE  LInv'
<1>1. /\ mem \in Data /\ op.key \in Keys
      /\ op \in [pc : {"idle", "begin", "work", "held"}, key : Keys \cup {NoKey}]
  BY DEF IInv, Typed, HandlerReserved, Data
<1>2. mem.gen \in Nat /\ mem.gen + 1 \in Nat /\ mem.gen + 1 >= mem.gen /\ mem.gen + 1 # mem.gen
  BY <1>1 DEF Data
<1>3. /\ LedgerOK(data)
      /\ \A e \in data.hist : e.gen = data.gen => e.key = op.key /\ e.res = res
  BY <1>1, <1>2, Upserted DEF LInv
<1>4. LedgerOK(mem') /\ LedgerOK(disk')
  BY <1>3, SavesLedger DEF Decides
<1>5. op' = Idle \/ (mem' = data /\ op' = [op EXCEPT !.pc = "work"])
  BY DEF Decides, Saved
<1>6. WorksOnOwn'
  BY <1>1, <1>3, <1>5 DEF WorksOnOwn, Idle
<1> QED  BY <1>4, <1>6 DEF LInv

LEMMA ReservesLedger ==
    ASSUME IInv, LInv, NEW key, Reserve(key) PROVE LInv'
<1> DEFINE data == [mem EXCEPT !.filter = @ \cup KeysOf(mem.hist) \cup {key},
                               !.accepted = @ + 1]
<1>1. mem \in Data /\ mem.accepted \in Nat /\ mem.accepted < Capacity /\ op.pc = "idle"
  BY DEF IInv, Typed, Data, Reserve, Free
<1>2. /\ data.hist = mem.hist /\ data.gen = mem.gen /\ data.accepted = mem.accepted + 1
      /\ data.resumer = mem.resumer /\ data.phase = mem.phase
  BY <1>1 DEF Data
<1>3. \/ Saved(data) /\ op' = [pc |-> "begin", key |-> key]
      \/ Unsaved(data) /\ UNCHANGED op
  BY DEF Reserve
<1> HIDE DEF data
<1>4. mem.accepted + 1 <= Capacity  BY <1>1, BoundsAssumption
<1>5. LedgerOK(data)  BY <1>2, <1>4 DEF LInv, LedgerOK
<1>6. LedgerOK(mem') /\ LedgerOK(disk')  BY <1>3, <1>5, SavesLedger
<1>7. WorksOnOwn'  BY <1>1, <1>3 DEF WorksOnOwn
<1> QED  BY <1>6, <1>7 DEF LInv

LEMMA LedgerStep == IInv /\ LInv /\ [Next]_vars => LInv'
<1> SUFFICES ASSUME IInv, LInv, [Next]_vars PROVE LInv'
  OBVIOUS
<1> USE DEF Phases, Outcomes
<1>0. /\ mem \in Data /\ op \in [pc : {"idle", "begin", "work", "held"}, key : Keys \cup {NoKey}]
  BY DEF IInv, Typed
<1>1. CASE ReserveGenerated \/ \E key \in Requests : Reserve(key)
  BY <1>1, ReservesLedger DEF ReserveGenerated
<1>2. CASE Refuse \/ Cancelled
  BY <1>2 DEF Refuse, Cancelled, Idle, LInv, WorksOnOwn
<1>3. CASE BeginPause
  <2> DEFINE data == [mem EXCEPT !.phase = "pausing", !.gen = @ + 1,
                                 !.hist = Upsert(@, op.key, mem.gen + 1, "progress")]
  <2>1. op.pc = "begin" /\ Decides(data, [op EXCEPT !.pc = "work"])
    BY <1>3 DEF BeginPause
  <2>2. /\ data.gen = mem.gen + 1 /\ data.accepted = mem.accepted /\ data.phase = "pausing"
        /\ data.hist = Upsert(mem.hist, op.key, mem.gen + 1, "progress")
    BY <1>0 DEF Data
  <2> HIDE DEF data
  <2> QED  BY <2>1, <2>2, BeginLedger
<1>4. CASE BeginResume
  <2> DEFINE data == [mem EXCEPT !.phase = "resuming", !.gen = @ + 1, !.resumer = op.key,
                                 !.hist = Upsert(@, op.key, mem.gen + 1, "progress")]
  <2>1. op.pc = "begin" /\ Decides(data, [op EXCEPT !.pc = "work"])
    BY <1>4 DEF BeginResume
  <2>2. /\ data.gen = mem.gen + 1 /\ data.accepted = mem.accepted /\ data.resumer = op.key
        /\ data.hist = Upsert(mem.hist, op.key, mem.gen + 1, "progress")
    BY <1>0 DEF Data
  <2> HIDE DEF data
  <2> QED  BY <2>1, <2>2, BeginLedger
<1>5. CASE Extend
  <2> DEFINE data == [mem EXCEPT !.gen = @ + 1,
                                 !.hist = Upsert(@, op.key, mem.gen + 1, "extended")]
  <2>1. op.pc = "begin" /\ Decides(data, Idle) /\ mem.phase # "resuming"
    BY <1>5 DEF Extend, Extendable
  <2>2. /\ data.gen = mem.gen + 1 /\ data.accepted = mem.accepted /\ data.phase = mem.phase
        /\ data.hist = Upsert(mem.hist, op.key, mem.gen + 1, "extended")
    BY <1>0 DEF Data
  <2> HIDE DEF data
  <2> QED  BY <2>1, <2>2, BeginLedger
<1>6. CASE RejectTargets
  BY <1>6, PhaseLedger DEF RejectTargets
<1>7. CASE FinishPause
  BY <1>7, WorkLedger DEF FinishPause
<1>8. CASE FinishResume
  <2>1. op' = Idle \/ UNCHANGED <<op, mem>>  BY <1>8 DEF FinishResume, Unsaved
  <2> QED  BY <1>8, <2>1, WorkLedger DEF FinishResume
<1>9. CASE HoldResume
  BY <1>9, PhaseLedger DEF HoldResume
<1>10. CASE RecordHold
  BY <1>10, WorkLedger DEF RecordHold
<1>11. CASE TickPartial
  BY <1>11, PhaseLedger DEF TickPartial, Active
<1>12. CASE TickOverride
  BY <1>12, PhaseLedger DEF TickOverride
<1>13. CASE TickContinues
  <2> DEFINE data == [mem EXCEPT !.hist = Upsert(@, mem.resumer, mem.gen, "progress")]
  <2>1. mem.phase = "resuming" /\ op.pc = "idle" /\ mem.resumer \in Keys
    BY <1>13, <1>0 DEF TickContinues, Free, IInv, ResumeReserved, Data
  <2>2. \/ Saved(data) /\ op' = [pc |-> "work", key |-> mem.resumer]
        \/ Unsaved(data) /\ UNCHANGED op
    BY <1>13 DEF TickContinues
  <2>3. /\ data.hist = Upsert(mem.hist, mem.resumer, mem.gen, "progress") /\ data.gen = mem.gen
        /\ data.accepted = mem.accepted /\ data.resumer = mem.resumer /\ mem.gen \in Nat
    BY <1>0 DEF Data
  <2> HIDE DEF data
  <2>4. \A e \in mem.hist : e.gen = mem.gen => e.key = mem.resumer
    BY <2>1 DEF LInv, LedgerOK
  <2>5. /\ LedgerOK(data)
        /\ \A e \in data.hist : e.gen = data.gen => e.key = mem.resumer /\ e.res = "progress"
    BY <1>0, <2>1, <2>3, <2>4, Upserted DEF LInv
  <2>6. LedgerOK(mem') /\ LedgerOK(disk')  BY <2>2, <2>5, SavesLedger
  <2>7. WorksOnOwn'  BY <2>1, <2>2, <2>5 DEF WorksOnOwn, Saved
  <2> QED  BY <2>6, <2>7 DEF LInv
<1>14. CASE Restart
  BY <1>14 DEF Restart, Idle, LInv, WorksOnOwn
<1>15. CASE UNCHANGED vars
  BY <1>15 DEF vars, LInv, WorksOnOwn
<1> QED  BY <1>1, <1>2, <1>3, <1>4, <1>5, <1>6, <1>7, <1>8, <1>9, <1>10, <1>11, <1>12,
            <1>13, <1>14, <1>15 DEF Next

LEMMA InitLedger == Init => LInv
<1> SUFFICES ASSUME Init PROVE LInv  OBVIOUS
<1>1. LedgerOK(Fresh)
  BY FS_EmptySet, BoundsAssumption DEF Fresh, LedgerOK
<1>2. ASSUME NEW first \in Requests
      PROVE  LedgerOK(OlderRelease(first))
  <2> DEFINE entry == [key |-> first, gen |-> 1, res |-> "paused"]
  <2>1. OlderRelease(first) = [Fresh EXCEPT !.phase = "paused", !.gen = 1, !.hist = {entry}]
    BY DEF OlderRelease
  <2>2. entry.gen = 1 /\ entry.res = "paused"  OBVIOUS
  <2> HIDE DEF entry
  <2>3. /\ OlderRelease(first).phase = "paused" /\ OlderRelease(first).gen = 1
        /\ OlderRelease(first).hist = {entry} /\ OlderRelease(first).accepted = 0
    BY <2>1 DEF Fresh
  <2>4. IsFiniteSet({entry}) /\ Cardinality({entry}) = 1  BY FS_Singleton
  <2> QED  BY <2>2, <2>3, <2>4, BoundsAssumption DEF LedgerOK
<1> QED  BY <1>1, <1>2 DEF Init, LInv, WorksOnOwn, Idle

\* The ledger of the record, in memory and on the disk, agrees with its phase.
THEOREM AlwaysLedger == Spec => []LInv
<1> QED  BY InitLedger, LedgerStep, AlwaysIInv, PTL DEF Spec

\* The shape of the state: in particular the history never outgrows its bound and the
\* filter never admits more than its capacity.
THEOREM LedgerTypes == Spec => []TypeOK
<1>1. IInv /\ LInv => TypeOK  BY DEF IInv, Typed, LInv, LedgerOK, TypeOK
<1> QED  BY <1>1, AlwaysIInv, AlwaysLedger, PTL

\* A retry that is answered "resumed" from the history is answered so only while the
\* camera is active (control.py _find_operation, _finish_resume).
THEOREM ReplaysAreTrue == Spec => []ReplayedResumeIsTrue
<1>1. LInv => ReplayedResumeIsTrue  BY DEF LInv, LedgerOK, ReplayedResumeIsTrue
<1> QED  BY <1>1, AlwaysLedger, PTL
=============================================================================
