--------------------------- MODULE PrivacyPeriods ---------------------------
(***************************************************************************)
(* The privacy history that every save of storage.py derives from the      *)
(* camera records (periods.py).  A period is one pause of one camera, from *)
(* its intent to its end; its row gathers the outcomes of every attempt.   *)
(* Rows are found again by an identity computed from the record, merged,   *)
(* bounded in age and number, and saved in one write with the record.      *)
(* What is on disk is validated as a whole before it is used: one bad row  *)
(* makes the entire history unreadable for good.                           *)
(***************************************************************************)
EXTENDS Integers, FiniteSets

CONSTANTS Cameras,
          Targets,     \* the kinds of target that every camera has
          None,        \* a missing date, generation or record
          MaxPeriods,  \* MAX_PERIODS, standing for MAX_BYTES too
          MaxDays,     \* MAX_DAYS
          Latest,      \* bound: the last day
          MaxPauses,   \* bound: generations of one camera
          MaxFaults    \* bound: failed saves, restarts and clock steps

ASSUME BoundsAssumption ==
    /\ MaxPeriods \in Nat \ {0} /\ MaxDays \in Nat /\ Latest \in Nat
    /\ MaxPauses \in Nat /\ MaxFaults \in Nat /\ None \notin Int

\* What a record or a row says of a target.
Words == {"on", "off", "pending", "paused", "failed", "unavailable", "unknown", "active",
          "repaused"}
ASSUME WordsAssumption == None \notin Words

VARIABLES now,      \* the wall clock, in days
          mem,      \* records and history in memory
          disk,     \* what a restart would load
          working,  \* cameras whose transition handler is running
          faults,
          stepped   \* history: has the clock been set back?

vars == <<now, mem, disk, working, faults, stepped>>

-----------------------------------------------------------------------------
(* Records, as far as the history reads them.                               *)

Told == Words \cup {None}
Dates == Int \cup {None}
Phases == {"pausing", "paused", "resuming", "active", "error"}
Records == [started : Dates, gen : Nat \cup {None}, phase : Phases,
            ended : Dates, manual : BOOLEAN, over : BOOLEAN, overOn : SUBSET Targets,
            ours : SUBSET Targets, preOff : SUBSET Targets, planned : SUBSET Targets,
            pause : [Targets -> Told], restore : [Targets -> Told], failed : SUBSET Targets,
            proof : [Targets -> Told], actual : [Targets -> Told]]
ASSUME RecordsAssumption == None \notin Records

Nothing == [t \in Targets |-> None]

\* _actual_state_snapshot of some targets.
Seen(off, on) ==
    [t \in Targets |-> IF t \in on THEN "on" ELSE IF t \in off THEN "off" ELSE None]

\* Generations count pauses here; resumes use numbers up too, but name no period.
Count(r) == IF r = None \/ r.gen = None THEN 0 ELSE r.gen

\* async_set_paused with the plan of _async_pause_camera_locked.
Planned(r, plan, off) ==
    [started |-> now, gen |-> Count(r) + 1, phase |-> "pausing",
     ended |-> None, manual |-> FALSE, over |-> FALSE, overOn |-> {},
     ours |-> {}, preOff |-> off, planned |-> plan,
     pause |-> [t \in Targets |-> IF t \in plan THEN "pending"
                                  ELSE IF t \in off THEN "off" ELSE "unavailable"],
     restore |-> Nothing, failed |-> {},
     proof |-> Nothing, actual |-> Nothing]

\* A record of a release without history: no outcomes, no dates that can be read.
Legacy(date, targets) ==
    [started |-> date, gen |-> None, phase |-> "paused",
     ended |-> None, manual |-> FALSE, over |-> FALSE, overOn |-> {},
     ours |-> targets, preOff |-> {}, planned |-> {},
     pause |-> Nothing, restore |-> Nothing, failed |-> {},
     proof |-> Nothing, actual |-> Nothing]

-----------------------------------------------------------------------------
(* project_record.                                                          *)

\* utc: a date in the future is no date.
Utc(date) == IF date # None /\ date <= now THEN date ELSE None

\* _verified_restore: an exact readback for each managed target, no override.
Verified(r, end) ==
    LET expected == Seen(r.preOff, r.ours)
    IN  /\ end # None /\ r.phase = "active" /\ ~r.over
        /\ r.ours \cap r.preOff = {} /\ expected # Nothing
        /\ r.proof = expected
        /\ \A t \in r.ours \cup r.preOff : r.actual[t] = expected[t]

End(r) ==
    LET start == Utc(r.started)
        end == IF r.phase = "active" THEN Utc(r.ended) ELSE None
    IN  IF start # None /\ end # None /\ end < start THEN None ELSE end

\* The evidence for one target; outcomes_seen starts with this record's own.
Evidence(r, t, verified) ==
    LET paused == IF r.pause[t] = None THEN "unknown" ELSE r.pause[t]
        told == IF r.restore[t] # None THEN r.restore[t]
                ELSE IF t \in r.failed THEN "failed" ELSE "unknown"
        resumed == IF verified /\ r.proof[t] # None
                   THEN IF r.proof[t] = "on" THEN "active" ELSE "off"
                   ELSE IF t \in r.preOff /\ told = "active" THEN "off" ELSE told
    IN  [pause |-> paused, restore |-> resumed,
         expected |-> t \in r.ours \cup r.preOff,
         state |-> IF r.manual /\ t \in r.overOn THEN "on" ELSE r.actual[t],
         seen |-> ({paused, resumed} \cup (IF t \in r.failed THEN {"failed"} ELSE {}))
                    \ {"unknown"}]

Project(c, r) ==
    LET end == End(r)
        verified == Verified(r, end)
        shown == {t \in Targets : r.pause[t] # None \/ r.restore[t] # None}
                   \cup r.failed \cup r.overOn
                   \cup (IF verified THEN {t \in Targets : r.proof[t] # None} ELSE {})
    IN  [cam |-> c, started |-> Utc(r.started), gen |-> r.gen, ended |-> end,
         phase |-> r.phase, manual |-> end # None /\ r.manual, verified |-> verified,
         items |-> [t \in shown |-> Evidence(r, t, verified)]]

Id(row) == <<row.cam, row.started, row.gen>>

-----------------------------------------------------------------------------
(* _decode: what the history accepts of itself.                             *)

\* _restore_channels_consistent
Consistent(row) ==
    LET managed == {t \in DOMAIN row.items : row.items[t].expected}
    IN  /\ managed # {}
        /\ \A t \in managed :
              LET item == row.items[t]
              IN  \/ item.restore = "active" /\ item.state = "on"
                  \/ item.restore = "off" /\ item.state = "off"

\* _valid_row
ValidRow(row) ==
    /\ row.started # None /\ row.ended # None => row.started <= row.ended
    /\ row.verified => row.ended # None /\ row.phase = "active" /\ ~row.manual /\ Consistent(row)

Readable(rows) ==
    /\ Cardinality(rows) <= MaxPeriods
    /\ \A row \in rows : ValidRow(row)
    /\ \A row, other \in rows : Id(row) = Id(other) => row = other

Status(hist) ==
    IF hist.status = "ready" /\ ~Readable(hist.rows) THEN "corrupt" ELSE hist.status

-----------------------------------------------------------------------------
(* capture.                                                                 *)

\* Mistake: only the latest attempt is kept.
MergedLatestOnly(row, prior) == row

\* _merge_seen: outcomes of earlier attempts, and targets no longer in the record.
Merged(row, prior) ==
    [row EXCEPT !.items =
       [t \in DOMAIN row.items \cup DOMAIN prior.items |->
          IF t \notin DOMAIN row.items THEN prior.items[t]
          ELSE IF t \notin DOMAIN prior.items THEN row.items[t]
          ELSE [row.items[t] EXCEPT !.seen = @ \cup prior.items[t].seen]]]

\* retain: at most MaxDays old, the latest starts first, undated ones last.  Equal
\* starts are kept in the order of the file: any order here.
Recent(rows) ==
    {row \in rows :
       LET date == IF row.ended # None THEN row.ended ELSE row.started
       IN  date # None => now - MaxDays <= date /\ date <= now}
Later(row, other) ==
    row.started # None /\ (other.started = None \/ row.started > other.started)
\* Mistake: when there is no room, the earliest stay.
RetainedEarliest(rows) ==
    LET recent == Recent(rows)
    IN  {kept \in SUBSET recent :
           /\ Cardinality(kept) = IF Cardinality(recent) <= MaxPeriods THEN Cardinality(recent) ELSE MaxPeriods
           /\ \A row \in kept, other \in recent \ kept : ~Later(row, other)}
Retained(rows) ==
    LET recent == Recent(rows)
    IN  IF Cardinality(recent) <= MaxPeriods THEN {recent}
        ELSE {kept \in SUBSET recent :
                /\ Cardinality(kept) = MaxPeriods
                /\ \A row \in kept, other \in recent \ kept : ~Later(other, row)}

\* Mistake: the history is rebuilt from the records when it cannot be read.
CapturesAnew(c, r) ==
    LET before == {Project(d, mem.rec[d]) : d \in {d \in Cameras \ {c} : mem.rec[d] # None}}
        rows == before \cup {Project(c, r)}
        old == IF Status(mem.hist) = "ready" THEN mem.hist.rows ELSE {}
    IN  {[status |-> "ready", rows |-> kept] :
           kept \in Retained(rows \cup {row \in old : Id(row) \notin {Id(o) : o \in rows}})}

\* The first capture takes in every record there is; later ones the one saved, and
\* its previous form if the history has lost it.
Captures(c, r) ==
    LET known == CASE Status(mem.hist) = "ready" -> mem.hist.rows
                   [] OTHER -> {Project(d, mem.rec[d]) : d \in {d \in Cameras : mem.rec[d] # None}}
        before == IF mem.rec[c] = None THEN {} ELSE {Project(c, mem.rec[c])}
        all == known \cup {row \in before : Id(row) \notin {Id(o) : o \in known}}
        row == Project(c, r)
        prior == {o \in all : Id(o) = Id(row)}
        merged == IF prior = {} THEN row ELSE Merged(row, CHOOSE o \in prior : TRUE)
    IN  IF Status(mem.hist) = "corrupt" THEN {mem.hist}
        ELSE {[status |-> "ready", rows |-> kept] : kept \in Retained((all \ prior) \cup {merged})}

\* read_history: the history, or before the first capture a row for each record.
Reads(data) ==
    CASE Status(data.hist) = "corrupt" -> {{}}
      [] Status(data.hist) = "ready" -> Retained(data.hist.rows)
      [] OTHER -> Retained({Project(d, data.rec[d]) : d \in {d \in Cameras : data.rec[d] # None}})

\* _validatePeriods of the card; one row that it does not accept makes it refuse all.
CardAccepts(row) ==
    LET expected == {t \in DOMAIN row.items : row.items[t].expected}
    IN  /\ row.started # None /\ row.ended # None => row.ended >= row.started
        /\ row.verified =>
              /\ row.ended # None /\ row.phase = "active" /\ ~row.manual
              /\ expected # {}
              /\ \A t \in expected :
                    /\ row.items[t].restore \in {"active", "off"}
                    /\ row.items[t].state = IF row.items[t].restore = "off" THEN "off" ELSE "on"

-----------------------------------------------------------------------------
(* _save_locked: record and history in one write; a failed save rolls both   *)
(* back, a cancelled one may still reach the disk.                          *)

Record(c) == mem.rec[c]
Phase(c) == IF Record(c) = None THEN "none" ELSE Record(c).phase

\* Mistake: a failed save takes back the record but not its history.
SaveKeepsHistory(c, r, go, failed) ==
    \E hist \in Captures(c, r) :
      LET data == [rec |-> [mem.rec EXCEPT ![c] = r], hist |-> hist]
      IN  \/ mem' = data /\ disk' = data /\ working' = go /\ UNCHANGED faults
          \/ /\ faults < MaxFaults /\ faults' = faults + 1
             /\ mem' = [mem EXCEPT !.hist = hist] /\ UNCHANGED disk
             /\ working' = failed

\* go and failed: the cameras at work when the save succeeds and when it does not.
Save(c, r, go, failed) ==
    \E hist \in Captures(c, r) :
      LET data == [rec |-> [mem.rec EXCEPT ![c] = r], hist |-> hist]
      IN  \/ mem' = data /\ disk' = data /\ working' = go /\ UNCHANGED faults
          \/ /\ faults < MaxFaults /\ faults' = faults + 1
             /\ UNCHANGED mem /\ disk' \in {disk, data} /\ working' = failed

Step(c, r, go) == Save(c, r, go, working \ {c}) /\ UNCHANGED <<now, stepped>>

-----------------------------------------------------------------------------
(* The saves of one pause and its end, in the order of control.py.          *)

Pause(c) ==
    /\ Phase(c) \in {"none", "active"} /\ c \notin working
    /\ Count(Record(c)) < MaxPauses
    /\ \E plan, off \in SUBSET Targets :
         plan \cap off = {} /\ Step(c, Planned(Record(c), plan, off), working \cup {c})

TurnOff(c, t) ==
    /\ c \in working /\ Phase(c) = "pausing" /\ t \in Record(c).planned
    /\ Record(c).pause[t] = "pending"
    /\ \/ Step(c, [Record(c) EXCEPT !.pause[t] = "paused", !.ours = @ \cup {t}], working)
       \/ Step(c, [Record(c) EXCEPT !.pause[t] = "failed"], working)

\* "paused" here also stands for partial. The snapshot shows what was held off; that
\* a target may change before it is taken matters only at the end (Finish).
Settle(c) ==
    /\ c \in working /\ Phase(c) = "pausing"
    /\ \A t \in Record(c).planned : Record(c).pause[t] # "pending"
    /\ LET r == Record(c)
           watched == r.planned \cup r.preOff
           on == {t \in watched : r.pause[t] = "failed"}
       IN  Step(c, [r EXCEPT !.phase = "paused", !.planned = {}, !.actual = Seen(watched \ on, on)],
                working \ {c})

\* Mistake: recovery describes what it found and drops the plan's outcomes.
RecoverPauseForgets(c) ==
    /\ c \notin working /\ Phase(c) = "pausing"
    /\ \E off \in SUBSET Record(c).planned :
         Step(c, [Record(c) EXCEPT !.phase = "paused", !.planned = {}, !.ours = off,
                     !.pause = [t \in Targets |-> IF t \in off THEN "paused" ELSE None]], working)

\* async_recover_transitions: the planned targets that report off are ours.
RecoverPause(c) ==
    /\ c \notin working /\ Phase(c) = "pausing"
    /\ \E off \in SUBSET Record(c).planned :
         Step(c, [Record(c) EXCEPT !.phase = "paused", !.planned = {}, !.ours = off], working)

\* async_finalize_recovery_pending: what is missing by now never came back.
Finalize(c) ==
    /\ c \notin working /\ Phase(c) \in {"pausing", "resuming"}
    /\ LET r == Record(c)
           targets == r.ours \cup r.planned
       IN  \E missing \in SUBSET targets, off \in SUBSET targets :
             /\ off \cap missing = {}
             /\ Step(c, [r EXCEPT !.phase = "error", !.planned = {},
                           !.ours = IF r.phase = "pausing" THEN @ \cup off ELSE @,
                           !.pause = [t \in Targets |-> IF t \in missing THEN "unknown" ELSE @[t]]],
                     working)

\* A request, the scheduler or recovery, which continues an interrupted resume; also
\* of a pause whose handler died.  From here on nothing reads the plan.
Resume(c) ==
    /\ c \notin working /\ Phase(c) \notin {"none", "active"}
    /\ Step(c, [Record(c) EXCEPT !.phase = "resuming", !.planned = {}], working \cup {c})

\* _hold_fail_safe: first the block, then what re-pausing achieved; a resume that
\* fails its preflight has re-paused nothing.
Block(c) ==
    /\ c \in working /\ Phase(c) = "resuming"
    /\ \E bad \in SUBSET (Record(c).ours \cup Record(c).preOff), go \in {working, working \ {c}} :
         Step(c, [Record(c) EXCEPT !.phase = "error", !.failed = bad], go)
Repaused(c) ==
    /\ c \in working /\ Phase(c) = "error"
    /\ \E on \in SUBSET Record(c).ours, stuck \in SUBSET Targets :
         LET again == on \cup Record(c).preOff
         IN  /\ stuck \subseteq again
             /\ Step(c, [Record(c) EXCEPT
                     !.restore = [t \in Targets |-> IF t \in stuck THEN "failed"
                                                   ELSE IF t \in again THEN "repaused" ELSE None],
                     !.actual = Seen(again \ stuck, stuck)],
                  working \ {c})

\* async_mark_active: every readback succeeded, then a snapshot is taken; a target
\* may have changed in between.  When this save fails the handler goes on to Block.
Finish(c) ==
    /\ c \in working /\ Phase(c) = "resuming"
    /\ LET r == Record(c)
           expected == Seen(r.preOff, r.ours)
       IN  \E changed \in SUBSET (r.ours \cup r.preOff), failed \in {working, working \ {c}} :
             Save(c, [r EXCEPT !.phase = "active", !.ended = now, !.manual = FALSE,
                        !.proof = expected,
                        !.restore = [t \in Targets |->
                            IF t \in r.ours \cup r.preOff THEN "active" ELSE None],
                        !.actual = [t \in Targets |->
                            IF t \notin changed THEN expected[t]
                            ELSE IF expected[t] = "on" THEN "off" ELSE "on"]],
                  working \ {c}, failed)
    /\ UNCHANGED <<now, stepped>>

\* async_mark_manual_override and async_release_schedule_override.
Override(c) ==
    /\ c \notin working /\ Phase(c) = "paused"
    /\ \E on \in SUBSET Record(c).ours :
         /\ on # {}
         /\ Step(c, [Record(c) EXCEPT !.phase = "active", !.over = TRUE, !.overOn = on,
                       !.ended = now, !.manual = TRUE, !.proof = Nothing], working)
Release(c) ==
    /\ c \notin working /\ Phase(c) = "active" /\ Record(c).over
    /\ Step(c, [Record(c) EXCEPT !.over = FALSE], working)

-----------------------------------------------------------------------------
(* The clock and restarts.                                                  *)

NextDay == now < Latest /\ now' = now + 1 /\ UNCHANGED <<mem, disk, working, faults, stepped>>

ClockSetBack ==
    /\ faults < MaxFaults /\ faults' = faults + 1
    /\ now > 0 /\ now' = now - 1 /\ stepped' = TRUE
    /\ UNCHANGED <<mem, disk, working>>

Restart ==
    /\ faults < MaxFaults /\ faults' = faults + 1
    /\ mem' = disk /\ working' = {} /\ UNCHANGED <<now, disk, stepped>>

Init ==
    /\ now = 0 /\ working = {} /\ faults = 0 /\ stepped = FALSE
    /\ \E status \in {"absent", "corrupt"}, old \in SUBSET Cameras, date \in {None, 0} :
         mem = [rec |-> [c \in Cameras |-> IF c \in old THEN Legacy(date, Targets) ELSE None],
                hist |-> [status |-> status, rows |-> {}]]
    /\ disk = mem

Transition(c) ==
    \/ Pause(c) \/ \E t \in Targets : TurnOff(c, t)
    \/ Settle(c) \/ RecoverPause(c) \/ Finalize(c)
    \/ Resume(c) \/ Block(c) \/ Repaused(c) \/ Finish(c)
    \/ Override(c) \/ Release(c)

Next == (\E c \in Cameras : Transition(c)) \/ NextDay \/ ClockSetBack \/ Restart

Spec == Init /\ [][Next]_vars

-----------------------------------------------------------------------------
Stores == {mem, disk}

\* What capture writes is accepted by the next load, and what a read returns by the
\* validator of the card, which is another one in another language: however attempts,
\* recoveries, overrides and clock steps follow one another, no sequence of saves makes
\* the history unreadable, and records older than the history can be read too.
HistoryReadable ==
    /\ \A data \in Stores : data.hist.status = "ready" => Readable(data.hist.rows)
    /\ \A rows \in Reads(mem) : \A row \in rows : CardAccepts(row)

\* Record and history never part: the row of a camera's current period tells the
\* phase and the end that its record tells, in memory and after any restart.
RowOf(data, c) ==
    {row \in data.hist.rows :
       Id(row) = <<c, data.rec[c].started, data.rec[c].gen>>}
CurrentPeriodTold ==
    ~stepped => \A data \in Stores, c \in Cameras :
        data.rec[c] # None =>
            \A row \in RowOf(data, c) :
                /\ row.phase = data.rec[c].phase
                /\ row.ended = IF row.phase = "active" THEN data.rec[c].ended ELSE None

\* The current period has its row from the first save on.  It is without one only by the
\* bounds of the history: it is too old, or there is no room and none of the periods
\* that stay began earlier; and then until its record is saved again.
Outdone(data, c) ==
    LET r == data.rec[c]
    IN  \/ /\ Cardinality(data.hist.rows) = MaxPeriods
           /\ \A kept \in data.hist.rows : ~Later(r, kept)
        \/ r.phase # "active" /\ r.started # None /\ r.started < now - MaxDays
        \/ r.phase = "active" /\ r.ended # None /\ r.ended < now - MaxDays
Missing(data, c) == data.hist.status = "ready" /\ data.rec[c] # None /\ RowOf(data, c) = {}
CurrentPeriodKept ==
    [][\A c \in Cameras : ~stepped' /\ Missing(mem, c)' =>
         \/ Outdone(mem, c)'
         \/ Missing(mem, c) /\ mem'.rec[c] = mem.rec[c]]_vars

\* docs: "Partial/failure outcomes remain visible across retries".
FailuresStayVisible ==
    [][\A row \in mem.hist.rows, row2 \in mem'.hist.rows :
         Id(row) = Id(row2) =>
            \A t \in DOMAIN row.items :
               t \in DOMAIN row2.items /\ row.items[t].seen \subseteq row2.items[t].seen]_vars

\* docs: "New camera pause generations preserve completed earlier periods", and a
\* history that cannot be read "remains persisted". A finished period goes only by
\* age, or to make room when no period that stays started earlier; what a failed save
\* has left on disk may have been decided by the clock before it was set back.
FinishedPeriodsKept ==
    [][/\ mem.hist.status = "corrupt" => mem'.hist = mem.hist
       /\ \A row \in mem.hist.rows :
            /\ row.ended # None
            /\ mem.rec[row.cam] = None \/ row.gen # mem.rec[row.cam].gen
            => \/ row \in mem'.hist.rows
               \/ /\ Cardinality(mem'.hist.rows) = MaxPeriods
                  /\ \A kept \in mem'.hist.rows : ~Later(row, kept)
               \/ row.ended < now - MaxDays \/ row.ended > now
               \/ stepped /\ disk # mem]_vars
=============================================================================
