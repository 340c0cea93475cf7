------------------------ MODULE PrivacyPeriodsProofs ------------------------
(***************************************************************************)
(* The history can always be read, by the integration and by the card, it  *)
(* agrees with the records, and neither an outcome nor a period disappears *)
(* from it but by its bounds: for every number of cameras and targets,     *)
(* every room and age and every number of faults.                          *)
(***************************************************************************)
EXTENDS PrivacyPeriods, FiniteSetTheorems, TLAPS

\* An override leaves no proof of a restore.
ProofIsOurs(r) == r.manual => r.proof = Nothing

\* A record of this release names an outcome for each target; one of an older release
\* has taken them all, and is never planned again.
AllNamed(r) ==
    \/ \A t \in Targets : r.pause[t] # None
    \/ r.ours = Targets /\ r.phase # "pausing"

GoodRecords == {r \in Records : ProofIsOurs(r) /\ AllNamed(r)}

GoodRow(row) == ValidRow(row) /\ DOMAIN row.items \subseteq Targets
Alone(rows) == \A row, other \in rows : Id(row) = Id(other) => row = other

GoodStore(data) ==
    /\ data.rec \in [Cameras -> GoodRecords \cup {None}]
    /\ data.hist.status \in {"absent", "ready", "corrupt"}
    /\ data.hist.status # "ready" => data.hist.rows = {}
    /\ Cardinality(data.hist.rows) <= MaxPeriods
    /\ \A row \in data.hist.rows : GoodRow(row)
    /\ Alone(data.hist.rows)

\* The outcomes of a row are among those of a later form of it.
Grown(row, later) ==
    \A t \in DOMAIN row.items :
       t \in DOMAIN later.items /\ row.items[t].seen \subseteq later.items[t].seen

\* What a restart loads has lost no outcome.
DiskHasGrown ==
    \A row \in mem.hist.rows, later \in disk.hist.rows :
       Id(row) = Id(later) => Grown(row, later)

IInv == now \in Int /\ GoodStore(mem) /\ GoodStore(disk) /\ DiskHasGrown

-----------------------------------------------------------------------------
(* Rows.                                                                    *)

\* A restore that is verified proves each managed target, and its row shows them all.
LEMMA VerifiedShowsAll ==
    ASSUME NEW c \in Cameras, NEW r \in GoodRecords, now \in Int,
           Project(c, r).verified
    PROVE  /\ DOMAIN Project(c, r).items = Targets
           /\ End(r) # None /\ r.phase = "active" /\ ~r.manual
           /\ Consistent(Project(c, r))
<1> DEFINE row == Project(c, r)
<1>1. Verified(r, End(r))  BY DEF Project
<1>2. /\ End(r) # None /\ r.phase = "active"
      /\ r.ours \cap r.preOff = {} /\ r.proof = Seen(r.preOff, r.ours) /\ r.proof # Nothing
      /\ \A t \in r.ours \cup r.preOff : r.actual[t] = r.proof[t]
  BY <1>1 DEF Verified
<1>3. ~r.manual  BY <1>2 DEF GoodRecords, ProofIsOurs
<1>4. r.ours \subseteq Targets /\ r.preOff \subseteq Targets /\ r.failed \subseteq Targets
      /\ r.overOn \subseteq Targets
  BY DEF GoodRecords, Records, Phases
<1>5. \A t \in Targets : /\ t \in r.ours => r.proof[t] = "on"
                         /\ t \in r.preOff => r.proof[t] = "off"
  BY <1>2 DEF Seen
<1>6. "on" # None /\ "off" # None  BY WordsAssumption DEF Words
<1>7. \A t \in Targets : r.pause[t] # None \/ r.proof[t] # None
  BY <1>5, <1>6 DEF GoodRecords, AllNamed
<1>8. DOMAIN row.items = Targets  BY <1>1, <1>4, <1>7 DEF Project
<1>9. \A t \in Targets : row.items[t] = Evidence(r, t, TRUE)
  BY <1>1, <1>8 DEF Project
<1>10. ASSUME NEW t \in Targets
       PROVE  /\ row.items[t].expected <=> t \in r.ours \cup r.preOff
              /\ t \in r.ours => row.items[t].restore = "active" /\ row.items[t].state = "on"
              /\ t \in r.preOff => row.items[t].restore = "off" /\ row.items[t].state = "off"
  <2> DEFINE item == Evidence(r, t, TRUE)
  <2>1. row.items[t] = item  BY <1>9
  <2>2. item.expected = (t \in r.ours \cup r.preOff)  BY DEF Evidence
  <2>3. item.state = r.actual[t]  BY <1>3 DEF Evidence
  <2>4. r.proof[t] = "on" => item.restore = "active"  BY <1>6 DEF Evidence
  <2>5. r.proof[t] = "off" => item.restore = "off"  BY <1>6 DEF Evidence
  <2> QED  BY <1>2, <1>5, <2>1, <2>2, <2>3, <2>4, <2>5
<1>13. r.ours \cup r.preOff # {}
  BY <1>2 DEF Seen, Nothing
<1>14. Consistent(row)
  BY <1>4, <1>8, <1>10, <1>13 DEF Consistent
<1> QED  BY <1>2, <1>3, <1>8, <1>14

\* Every record of the integration has a row that the next load accepts.
LEMMA RowIsGood ==
    ASSUME NEW c \in Cameras, NEW r \in GoodRecords, now \in Int
    PROVE  GoodRow(Project(c, r))
<1> DEFINE row == Project(c, r)
<1>1. row.started = Utc(r.started) /\ row.ended = End(r) /\ row.phase = r.phase
      /\ row.manual = (End(r) # None /\ r.manual)
  BY DEF Project
<1>2. r.started \in Dates /\ r.ended \in Dates  BY DEF GoodRecords, Records, Phases
<1>3. row.started # None /\ row.ended # None => row.started <= row.ended
  BY <1>1, <1>2, BoundsAssumption DEF Utc, End, Dates
<1>4. row.verified => row.ended # None /\ row.phase = "active" /\ ~row.manual /\ Consistent(row)
  BY <1>1, VerifiedShowsAll
<1>5. r.failed \subseteq Targets /\ r.overOn \subseteq Targets
  BY DEF GoodRecords, Records, Phases
<1>6. DOMAIN row.items \subseteq Targets  BY <1>5 DEF Project
<1> QED  BY <1>3, <1>4, <1>6 DEF GoodRow, ValidRow

\* Outcomes of earlier attempts are added to those of the record, and a restore that
\* was verified stays consistent: its row already shows every target.
LEMMA MergedIsGood ==
    ASSUME NEW c \in Cameras, NEW r \in GoodRecords, now \in Int,
           NEW prior, GoodRow(prior)
    PROVE  /\ GoodRow(Merged(Project(c, r), prior))
           /\ Id(Merged(Project(c, r), prior)) = Id(Project(c, r))
           /\ Grown(prior, Merged(Project(c, r), prior))
<1> DEFINE row == Project(c, r)
           items == [t \in DOMAIN row.items \cup DOMAIN prior.items |->
                       IF t \notin DOMAIN row.items THEN prior.items[t]
                       ELSE IF t \notin DOMAIN prior.items THEN row.items[t]
                       ELSE [row.items[t] EXCEPT !.seen = @ \cup prior.items[t].seen]]
           later == [row EXCEPT !.items = items]
<1>1. later = Merged(row, prior)  BY DEF Merged
<1>2. /\ later.cam = row.cam /\ later.started = row.started /\ later.gen = row.gen
      /\ later.ended = row.ended /\ later.phase = row.phase /\ later.manual = row.manual
      /\ later.verified = row.verified /\ later.items = items
  <2> HIDE DEF items
  <2> QED  BY DEF Project
<1>3. GoodRow(row)  BY RowIsGood
<1>4. DOMAIN items \subseteq Targets  BY <1>3 DEF GoodRow
<1>5. ASSUME NEW t \in DOMAIN row.items
      PROVE  /\ "seen" \in DOMAIN row.items[t]
             /\ items[t].expected = row.items[t].expected
             /\ items[t].restore = row.items[t].restore
             /\ items[t].state = row.items[t].state
             /\ t \in DOMAIN prior.items => prior.items[t].seen \subseteq items[t].seen
  <2>1. \E item : row.items[t] = item /\ \E v : item = Evidence(r, t, v)  BY DEF Project
  <2>2. PICK v : row.items[t] = Evidence(r, t, v)  BY <2>1
  <2>3. DOMAIN row.items[t] = {"pause", "restore", "expected", "state", "seen"}
    BY <2>2 DEF Evidence
  <2>4. items[t] = IF t \notin DOMAIN prior.items THEN row.items[t]
                   ELSE [row.items[t] EXCEPT !.seen = @ \cup prior.items[t].seen]
    OBVIOUS
  <2> HIDE DEF row, items
  <2> QED  BY <2>3, <2>4
<1>6. Grown(prior, later)
  <2> SUFFICES ASSUME NEW t \in DOMAIN prior.items
               PROVE  t \in DOMAIN items /\ prior.items[t].seen \subseteq items[t].seen
    BY <1>2 DEF Grown
  <2>1. CASE t \in DOMAIN row.items  BY <2>1, <1>5
  <2>2. CASE t \notin DOMAIN row.items  BY <2>2
  <2> QED  BY <2>1, <2>2
<1>7. row.verified => Consistent(later)
  <2> SUFFICES ASSUME row.verified PROVE Consistent(later)
    OBVIOUS
  <2>1. DOMAIN row.items = Targets /\ Consistent(row)  BY VerifiedShowsAll
  <2>2. DOMAIN later.items = DOMAIN row.items  BY <2>1, <1>2, <1>4
  <2>3. \A t \in DOMAIN row.items :
           /\ later.items[t].expected = row.items[t].expected
           /\ later.items[t].restore = row.items[t].restore
           /\ later.items[t].state = row.items[t].state
    BY <1>2, <1>5
  <2> HIDE DEF row, items, later
  <2> QED  BY <2>1, <2>2, <2>3 DEF Consistent
<1>8. GoodRow(later)
  <2> HIDE DEF row, items, later
  <2> QED  BY <1>2, <1>3, <1>4, <1>7 DEF GoodRow, ValidRow
<1>9. Id(later) = Id(row)
  <2> HIDE DEF row, items, later
  <2> QED  BY <1>2 DEF Id
<1> QED  BY <1>1, <1>6, <1>8, <1>9

-----------------------------------------------------------------------------
(* Captures.                                                                *)

LEMMA GoodIsReadable ==
    ASSUME NEW data, GoodStore(data)
    PROVE  Readable(data.hist.rows) /\ Status(data.hist) = data.hist.status
BY DEF GoodStore, GoodRow, Alone, Readable, Status

LEMMA RetainedIsBounded ==
    ASSUME NEW rows, NEW kept \in Retained(rows)
    PROVE  kept \subseteq rows /\ Cardinality(kept) <= MaxPeriods
<1> DEFINE recent == Recent(rows)
<1>1. recent \subseteq rows  BY DEF Recent
<1> HIDE DEF recent
<1>2. CASE Cardinality(recent) <= MaxPeriods
  BY <1>1, <1>2 DEF Retained, recent
<1>3. CASE ~(Cardinality(recent) <= MaxPeriods)
  <2>1. kept \in SUBSET recent /\ Cardinality(kept) = MaxPeriods
    BY <1>3 DEF Retained, recent
  <2> QED  BY <1>1, <2>1, BoundsAssumption
<1> QED  BY <1>2, <1>3

\* Rows of records differ in the camera.
LEMMA RecordsStandAlone ==
    ASSUME NEW data, GoodStore(data), now \in Int,
           NEW rows, rows = {Project(d, data.rec[d]) : d \in {d \in Cameras : data.rec[d] # None}}
    PROVE  Alone(rows) /\ \A row \in rows : GoodRow(row)
<1>1. \A d \in Cameras : data.rec[d] # None => data.rec[d] \in GoodRecords
  BY DEF GoodStore
<1>2. \A row \in rows : GoodRow(row)  BY <1>1, RowIsGood
<1>3. \A d \in Cameras : Project(d, data.rec[d]).cam = d  BY DEF Project
<1>4. Alone(rows)
  <2> SUFFICES ASSUME NEW row \in rows, NEW other \in rows, Id(row) = Id(other)
               PROVE  row = other
    BY DEF Alone
  <2>1. row.cam = other.cam  BY DEF Id
  <2> QED  BY <1>3, <2>1
<1> QED  BY <1>2, <1>4

\* A capture leaves a history that can be read, and no row loses an outcome.
LEMMA CaptureIsGood ==
    ASSUME NEW c \in Cameras, NEW r \in GoodRecords, now \in Int, GoodStore(mem),
           NEW hist \in Captures(c, r)
    PROVE  /\ GoodStore([rec |-> [mem.rec EXCEPT ![c] = r], hist |-> hist])
           /\ \A row \in mem.hist.rows, later \in hist.rows : Id(row) = Id(later) => Grown(row, later)
<1> DEFINE data == [rec |-> [mem.rec EXCEPT ![c] = r], hist |-> hist]
           known == CASE Status(mem.hist) = "ready" -> mem.hist.rows
                      [] OTHER -> {Project(d, mem.rec[d]) : d \in {d \in Cameras : mem.rec[d] # None}}
           before == IF mem.rec[c] = None THEN {} ELSE {Project(c, mem.rec[c])}
           all == known \cup {row \in before : Id(row) \notin {Id(o) : o \in known}}
           row == Project(c, r)
           prior == {o \in all : Id(o) = Id(row)}
           merged == IF prior = {} THEN row ELSE Merged(row, CHOOSE o \in prior : TRUE)
<1>1. Status(mem.hist) = mem.hist.status  BY GoodIsReadable
<1>2. data.rec \in [Cameras -> GoodRecords \cup {None}]  BY DEF GoodStore
<1>3. CASE mem.hist.status = "corrupt"
  <2>1. hist = mem.hist  BY <1>1, <1>3 DEF Captures
  <2>2. mem.hist.rows = {}  BY <1>3 DEF GoodStore
  <2> QED  BY <1>2, <2>1, <2>2 DEF GoodStore
<1>4. CASE mem.hist.status # "corrupt"
  <2>1. PICK kept \in Retained((all \ prior) \cup {merged}) :
          hist = [status |-> "ready", rows |-> kept]
    BY <1>1, <1>4 DEF Captures
  <2>2. kept \subseteq (all \ prior) \cup {merged} /\ Cardinality(kept) <= MaxPeriods
    BY <2>1, RetainedIsBounded
  <2>3. Alone(known) /\ \A o \in known : GoodRow(o)
    <3>1. CASE mem.hist.status = "ready"  BY <1>1, <3>1 DEF GoodStore
    <3>2. CASE mem.hist.status # "ready"  BY <1>1, <3>2, RecordsStandAlone
    <3> QED  BY <3>1, <3>2
  <2>4. Alone(all) /\ \A o \in all : GoodRow(o)
    <3>1. \A o \in before : GoodRow(o)
      <4>1. mem.rec[c] \in GoodRecords \cup {None}  BY DEF GoodStore
      <4> QED  BY <4>1, RowIsGood
    <3>2. \A o, p \in before : o = p  OBVIOUS
    <3> HIDE DEF known, before
    <3> QED  BY <2>3, <3>1, <3>2 DEF Alone
  <2>5. mem.hist.rows \subseteq all
    BY <1>1 DEF GoodStore
  <2>6. /\ GoodRow(merged) /\ Id(merged) = Id(row)
        /\ \A o \in prior : Grown(o, merged)
    <3>1. CASE prior = {}  BY <3>1, RowIsGood
    <3>2. CASE prior # {}
      <4> DEFINE o == CHOOSE o \in prior : TRUE
      <4>1. o \in prior  BY <3>2
      <4>2. \A p \in prior : p = o
        <5> HIDE DEF o, all
        <5> QED  BY <2>4, <4>1 DEF Alone
      <4>3. merged = Merged(row, o)  BY <3>2
      <4>4. GoodRow(o)
        <5> HIDE DEF o, all
        <5> QED  BY <2>4, <4>1
      <4> HIDE DEF o, prior, merged
      <4> QED  BY <4>2, <4>3, <4>4, MergedIsGood
    <3> QED  BY <3>1, <3>2
  <2>7. Alone(kept) /\ \A o \in kept : GoodRow(o)
    <3> HIDE DEF all, row, merged
    <3> QED  BY <2>2, <2>4, <2>6 DEF Alone
  <2>8. ASSUME NEW o \in mem.hist.rows, NEW later \in kept, Id(o) = Id(later)
        PROVE  Grown(o, later)
    <3>1. CASE later \in all \ prior
      <4>1. o = later
        <5> HIDE DEF all
        <5> QED  BY <2>4, <2>5, <2>8, <3>1 DEF Alone
      <4> QED  BY <4>1 DEF Grown
    <3>2. CASE later = merged
      <4> HIDE DEF all, row, merged
      <4> QED  BY <2>5, <2>6, <2>8, <3>2
    <3> HIDE DEF all, row, merged, prior
    <3> QED  BY <2>2, <3>1, <3>2
  <2>9. GoodStore(data)
    <3>1. hist.status = "ready" /\ hist.rows = kept  BY <2>1
    <3> QED  BY <1>2, <2>2, <2>7, <3>1 DEF GoodStore
  <2> QED  BY <2>1, <2>8, <2>9
<1> QED  BY <1>3, <1>4

-----------------------------------------------------------------------------
(* Saves.                                                                   *)

NothingLost == \A row \in mem.hist.rows, row2 \in mem'.hist.rows :
                  Id(row) = Id(row2) => Grown(row, row2)

LEMMA SaveIsGood ==
    ASSUME NEW c \in Cameras, NEW r \in GoodRecords, NEW go, NEW failed,
           IInv, Save(c, r, go, failed), now' = now
    PROVE  IInv' /\ NothingLost
<1>1. PICK hist \in Captures(c, r) :
        LET data == [rec |-> [mem.rec EXCEPT ![c] = r], hist |-> hist]
        IN  \/ mem' = data /\ disk' = data
            \/ UNCHANGED mem /\ disk' \in {disk, data}
  BY DEF Save
<1> DEFINE data == [rec |-> [mem.rec EXCEPT ![c] = r], hist |-> hist]
<1>2. /\ GoodStore(data)
      /\ \A row \in mem.hist.rows, later \in data.hist.rows : Id(row) = Id(later) => Grown(row, later)
  BY <1>1, CaptureIsGood DEF IInv
<1>3. \A row : Grown(row, row)  BY DEF Grown
<1>4. (mem' = data /\ disk' = data) \/ (mem' = mem /\ disk' \in {disk, data})
  BY <1>1
<1>5. \A some : GoodStore(some) => \A row, other \in some.hist.rows :
                                     Id(row) = Id(other) => Grown(row, other)
  BY <1>3 DEF GoodStore, Alone
<1> HIDE DEF data
<1>6. CASE mem' = data /\ disk' = data
  BY <1>2, <1>5, <1>6 DEF IInv, DiskHasGrown, NothingLost
<1>7. CASE mem' = mem /\ disk' = data
  BY <1>2, <1>5, <1>7 DEF IInv, DiskHasGrown, NothingLost
<1>8. CASE mem' = mem /\ disk' = disk
  BY <1>5, <1>8 DEF IInv, DiskHasGrown, NothingLost
<1> QED  BY <1>4, <1>6, <1>7, <1>8

-----------------------------------------------------------------------------
(* What each step saves is a record of the kind.                            *)

\* It keeps the period of the record it replaces, or begins the next one; and what ends a
\* period dates its end.
Follows(old, r) ==
    \/ /\ old # None /\ r.started = old.started /\ r.gen = old.gen
       /\ r.phase = "active" => r.ended = now \/ (old.phase = "active" /\ r.ended = old.ended)
    \/ r.started = now /\ r.gen = Count(old) + 1 /\ r.phase = "pausing"

Saves(c) == \E r \in GoodRecords : /\ Follows(Record(c), r)
                                   /\ \E go, failed : Save(c, r, go, failed)
                                   /\ UNCHANGED <<now, stepped>>

LEMMA StepSaves ==
    ASSUME NEW c, NEW r \in GoodRecords, Follows(Record(c), r), NEW go, Step(c, r, go)
    PROVE  Saves(c)
BY DEF Step, Saves

LEMMA SeenIsTold ==
    ASSUME NEW off, NEW on
    PROVE  Seen(off, on) \in [Targets -> Told]
BY DEF Seen, Told, Words

LEMMA RecordIsGood ==
    ASSUME IInv, NEW c \in Cameras, Phase(c) # "none"
    PROVE  Record(c) \in GoodRecords /\ Phase(c) = Record(c).phase /\ Record(c) # None
BY DEF IInv, GoodStore, Phase, Record

LEMMA PauseSaves ==
    ASSUME IInv, NEW c \in Cameras, Pause(c)
    PROVE  Saves(c)
<1>1. PICK plan \in SUBSET Targets, off \in SUBSET Targets :
        Step(c, Planned(Record(c), plan, off), working \cup {c})
  BY DEF Pause
<1> DEFINE r == Planned(Record(c), plan, off)
<1>2. Count(Record(c)) \in Nat
  <2>1. Record(c) \in GoodRecords \cup {None}  BY DEF IInv, GoodStore, Record
  <2> QED  BY <2>1 DEF Count, GoodRecords, Records
<1>3. now \in Dates /\ None \in Dates  BY DEF IInv, Dates
<1>4. r.pause \in [Targets -> Told] /\ \A t \in Targets : r.pause[t] # None
  BY WordsAssumption DEF Planned, Told, Words
<1>5. Nothing \in [Targets -> Told]  BY DEF Nothing, Told
<1>6. r \in Records
  <2>1. ASSUME NEW date \in Dates, NEW n \in Nat, NEW told \in [Targets -> Told],
               NEW nothing \in [Targets -> Told]
        PROVE  [started |-> date, gen |-> n, phase |-> "pausing",
                ended |-> None, manual |-> FALSE, over |-> FALSE, overOn |-> {},
                ours |-> {}, preOff |-> off, planned |-> plan, pause |-> told,
                restore |-> nothing, failed |-> {}, proof |-> nothing,
                actual |-> nothing] \in Records
    <3>1. plan \in SUBSET Targets /\ off \in SUBSET Targets  BY <1>1
    <3> QED  BY <1>3, <2>1, <3>1 DEF Records, Phases
  <2>2. Count(Record(c)) + 1 \in Nat  BY <1>2
  <2> QED  BY <1>3, <1>4, <1>5, <2>1, <2>2 DEF Planned
<1>7. ~r.manual  BY DEF Planned
<1>8. r \in GoodRecords  BY <1>4, <1>6, <1>7 DEF GoodRecords, ProofIsOurs, AllNamed
<1>9. Follows(Record(c), r)  BY DEF Planned, Follows
<1> QED  BY <1>1, <1>8, <1>9, StepSaves

LEMMA TurnOffSaves ==
    ASSUME IInv, NEW c \in Cameras, NEW t \in Targets, TurnOff(c, t)
    PROVE  Saves(c)
<1> DEFINE r == Record(c)
           off == [r EXCEPT !.pause[t] = "paused", !.ours = @ \cup {t}]
           on == [r EXCEPT !.pause[t] = "failed"]
<1>1. r \in GoodRecords /\ r.phase = "pausing" /\ r # None
  BY RecordIsGood DEF TurnOff
<1>2. \A u \in Targets : r.pause[u] # None
  BY <1>1 DEF GoodRecords, AllNamed
<1>3. "paused" \in Told \ {None} /\ "failed" \in Told \ {None}
  BY WordsAssumption DEF Told, Words
<1> HIDE DEF r
<1>4. off \in GoodRecords /\ on \in GoodRecords
  BY <1>1, <1>2, <1>3 DEF GoodRecords, Records, ProofIsOurs, AllNamed
<1>5. Step(c, off, working) \/ Step(c, on, working)  BY DEF TurnOff, r
<1>6. Follows(r, off) /\ Follows(r, on)
  BY <1>1 DEF GoodRecords, Records, Phases, Follows
<1> HIDE DEF off, on
<1> QED  BY <1>4, <1>5, <1>6, StepSaves DEF r

LEMMA SettleSaves ==
    ASSUME IInv, NEW c \in Cameras, Settle(c)
    PROVE  Saves(c)
<1> DEFINE r == Record(c)
           watched == r.planned \cup r.preOff
           on == {t \in watched : r.pause[t] = "failed"}
           next == [r EXCEPT !.phase = "paused", !.planned = {}, !.actual = Seen(watched \ on, on)]
<1>1. r \in GoodRecords /\ r.phase = "pausing" /\ r # None
  BY RecordIsGood DEF Settle
<1>2. Step(c, next, working \ {c})  BY DEF Settle
<1>3. Seen(watched \ on, on) \in [Targets -> Told]  BY SeenIsTold
<1> HIDE DEF r, watched, on
<1>4. next \in GoodRecords
  <2>1. next \in Records  BY <1>1, <1>3 DEF GoodRecords, Records, Phases
  <2>2. ProofIsOurs(next)  BY <1>1, <1>3 DEF GoodRecords, Records, ProofIsOurs
  <2>3. AllNamed(next)  BY <1>1, <1>3 DEF GoodRecords, Records, AllNamed
  <2> QED  BY <2>1, <2>2, <2>3 DEF GoodRecords
<1>5. Follows(r, next)  BY <1>1 DEF GoodRecords, Records, Phases, Follows
<1> HIDE DEF next
<1> QED  BY <1>2, <1>4, <1>5, StepSaves DEF r

LEMMA RecoverPauseSaves ==
    ASSUME IInv, NEW c \in Cameras, RecoverPause(c)
    PROVE  Saves(c)
<1>1. Record(c) \in GoodRecords /\ Record(c).phase = "pausing" /\ Record(c) # None
  BY RecordIsGood DEF RecoverPause
<1>2. PICK off \in SUBSET Record(c).planned :
        Step(c, [Record(c) EXCEPT !.phase = "paused", !.planned = {}, !.ours = off], working)
  BY DEF RecoverPause
<1> DEFINE next == [Record(c) EXCEPT !.phase = "paused", !.planned = {}, !.ours = off]
<1>3. next \in GoodRecords
  <2>1. next \in Records  BY <1>1 DEF GoodRecords, Records, Phases
  <2>2. ProofIsOurs(next)  BY <1>1 DEF GoodRecords, Records, ProofIsOurs
  <2>3. AllNamed(next)  BY <1>1 DEF GoodRecords, Records, AllNamed
  <2> QED  BY <2>1, <2>2, <2>3 DEF GoodRecords
<1>4. Follows(Record(c), next)  BY <1>1 DEF GoodRecords, Records, Phases, Follows
<1> QED  BY <1>2, <1>3, <1>4, StepSaves

\* A pause names every target; a record of an older release is never pausing.
LEMMA FinalizeSaves ==
    ASSUME IInv, NEW c \in Cameras, Finalize(c)
    PROVE  Saves(c)
<1> DEFINE r == Record(c)
           next(missing, off) ==
             [r EXCEPT !.phase = "error", !.planned = {},
                       !.ours = IF r.phase = "pausing" THEN @ \cup off ELSE @,
                       !.pause = [t \in Targets |-> IF t \in missing THEN "unknown" ELSE @[t]]]
<1>1. r \in GoodRecords /\ r # None
  BY RecordIsGood DEF Finalize
<1>2. PICK missing \in SUBSET (r.ours \cup r.planned), off \in SUBSET (r.ours \cup r.planned) :
        Step(c, next(missing, off), working)
  BY DEF Finalize
<1>3. "unknown" \in Told \ {None}  BY WordsAssumption DEF Told, Words
<1> HIDE DEF r
<1>4. r.ours \in SUBSET Targets /\ r.planned \in SUBSET Targets /\ r.pause \in [Targets -> Told]
  BY <1>1 DEF GoodRecords, Records, Phases
<1> DEFINE ours == IF r.phase = "pausing" THEN r.ours \cup off ELSE r.ours
           pause == [t \in Targets |-> IF t \in missing THEN "unknown" ELSE r.pause[t]]
<1>5. ours \in SUBSET Targets /\ pause \in [Targets -> Told]
  BY <1>3, <1>4
<1>6. \/ \A t \in Targets : pause[t] # None
      \/ ours = Targets
  BY <1>1, <1>3, <1>4 DEF GoodRecords, AllNamed
<1>7. next(missing, off) = [r EXCEPT !.phase = "error", !.planned = {}, !.ours = ours,
                                     !.pause = pause]
  OBVIOUS
<1> HIDE DEF ours, pause, next
<1>8. next(missing, off) \in GoodRecords
  <2>1. next(missing, off) \in Records  BY <1>1, <1>5, <1>6, <1>7 DEF GoodRecords, Records, Phases
  <2>2. ProofIsOurs(next(missing, off))  BY <1>1, <1>5, <1>6, <1>7 DEF GoodRecords, Records, ProofIsOurs
  <2>3. AllNamed(next(missing, off))  BY <1>1, <1>5, <1>6, <1>7 DEF GoodRecords, Records, AllNamed
  <2> QED  BY <2>1, <2>2, <2>3 DEF GoodRecords
<1>9. Follows(r, next(missing, off))
  BY <1>1, <1>7 DEF GoodRecords, Records, Phases, Follows
<1> QED  BY <1>2, <1>8, <1>9, StepSaves DEF r

LEMMA ResumeSaves ==
    ASSUME IInv, NEW c \in Cameras, Resume(c)
    PROVE  Saves(c)
<1> DEFINE next == [Record(c) EXCEPT !.phase = "resuming", !.planned = {}]
<1>1. Record(c) \in GoodRecords /\ Record(c) # None  BY RecordIsGood DEF Resume
<1>2. next \in GoodRecords
  <2>1. next \in Records  BY <1>1 DEF GoodRecords, Records, Phases
  <2>2. ProofIsOurs(next)  BY <1>1 DEF GoodRecords, Records, ProofIsOurs
  <2>3. AllNamed(next)  BY <1>1 DEF GoodRecords, Records, AllNamed
  <2> QED  BY <2>1, <2>2, <2>3 DEF GoodRecords
<1>3. Step(c, next, working \cup {c})  BY DEF Resume
<1>4. Follows(Record(c), next)  BY <1>1 DEF GoodRecords, Records, Phases, Follows
<1> QED  BY <1>2, <1>3, <1>4, StepSaves

LEMMA BlockSaves ==
    ASSUME IInv, NEW c \in Cameras, Block(c)
    PROVE  Saves(c)
<1>1. Record(c) \in GoodRecords /\ Record(c) # None  BY RecordIsGood DEF Block
<1>2. PICK bad \in SUBSET (Record(c).ours \cup Record(c).preOff), go \in {working, working \ {c}} :
        Step(c, [Record(c) EXCEPT !.phase = "error", !.failed = bad], go)
  BY DEF Block
<1> DEFINE next == [Record(c) EXCEPT !.phase = "error", !.failed = bad]
<1>3. next \in GoodRecords
  <2>1. next \in Records  BY <1>1 DEF GoodRecords, Records, Phases
  <2>2. ProofIsOurs(next)  BY <1>1 DEF GoodRecords, Records, ProofIsOurs
  <2>3. AllNamed(next)  BY <1>1 DEF GoodRecords, Records, AllNamed
  <2> QED  BY <2>1, <2>2, <2>3 DEF GoodRecords
<1>4. Follows(Record(c), next)  BY <1>1 DEF GoodRecords, Records, Phases, Follows
<1> QED  BY <1>2, <1>3, <1>4, StepSaves

LEMMA RepausedSaves ==
    ASSUME IInv, NEW c \in Cameras, Repaused(c)
    PROVE  Saves(c)
<1> DEFINE told(stuck, again) == [t \in Targets |-> IF t \in stuck THEN "failed"
                                   ELSE IF t \in again THEN "repaused" ELSE None]
           next(stuck, again) == [Record(c) EXCEPT !.restore = told(stuck, again),
                                                   !.actual = Seen(again \ stuck, stuck)]
<1>1. Record(c) \in GoodRecords /\ Record(c) # None /\ Record(c).phase = "error"
  BY RecordIsGood DEF Repaused
<1>2. PICK on \in SUBSET Record(c).ours, stuck \in SUBSET Targets :
        Step(c, next(stuck, on \cup Record(c).preOff), working \ {c})
  BY DEF Repaused
<1> DEFINE again == on \cup Record(c).preOff
<1>3. told(stuck, again) \in [Targets -> Told] /\ Seen(again \ stuck, stuck) \in [Targets -> Told]
  BY SeenIsTold DEF Told, Words
<1> HIDE DEF told, again
<1>4. next(stuck, again) \in GoodRecords
  BY <1>1, <1>3 DEF GoodRecords, Records, ProofIsOurs, AllNamed
<1>5. Step(c, next(stuck, again), working \ {c})  BY <1>2 DEF again
<1>6. Follows(Record(c), next(stuck, again))
  BY <1>1 DEF GoodRecords, Records, Phases, Follows
<1> HIDE DEF next
<1> QED  BY <1>4, <1>5, <1>6, StepSaves

\* The proof of a restore never meets an override: the attempt ends it.
LEMMA FinishSaves ==
    ASSUME IInv, NEW c \in Cameras, Finish(c)
    PROVE  Saves(c)
<1> DEFINE r == Record(c)
           expected == Seen(r.preOff, r.ours)
           restored == [t \in Targets |-> IF t \in r.ours \cup r.preOff THEN "active" ELSE None]
           actual(changed) == [t \in Targets |->
                                 IF t \notin changed THEN expected[t]
                                 ELSE IF expected[t] = "on" THEN "off" ELSE "on"]
           next(changed) == [r EXCEPT !.phase = "active", !.ended = now, !.manual = FALSE,
                               !.proof = expected, !.restore = restored,
                               !.actual = actual(changed)]
<1>1. r \in GoodRecords /\ r # None  BY RecordIsGood DEF Finish
<1>2. PICK changed \in SUBSET (r.ours \cup r.preOff), failed \in {working, working \ {c}} :
        Save(c, next(changed), working \ {c}, failed)
  BY DEF Finish
<1>3. now \in Dates /\ UNCHANGED <<now, stepped>>  BY DEF IInv, Dates, Finish
<1>4. expected \in [Targets -> Told]  BY SeenIsTold
<1>5. restored \in [Targets -> Told]  BY DEF Told, Words
<1>6. actual(changed) \in [Targets -> Told]
  <2> HIDE DEF expected
  <2> QED  BY <1>4 DEF Told, Words
<1> HIDE DEF r, expected, restored, actual
<1>7. next(changed) \in GoodRecords
  <2>1. next(changed) \in Records  BY <1>1, <1>3, <1>4, <1>5, <1>6 DEF GoodRecords, Records, Phases
  <2>2. ProofIsOurs(next(changed))  BY <1>1, <1>3, <1>4, <1>5, <1>6 DEF GoodRecords, Records, ProofIsOurs
  <2>3. AllNamed(next(changed))  BY <1>1, <1>3, <1>4, <1>5, <1>6 DEF GoodRecords, Records, AllNamed
  <2> QED  BY <2>1, <2>2, <2>3 DEF GoodRecords
<1>8. Follows(r, next(changed))  BY <1>1 DEF GoodRecords, Records, Phases, Follows
<1> HIDE DEF next
<1> QED  BY <1>2, <1>3, <1>7, <1>8 DEF Saves, r

LEMMA OverrideSaves ==
    ASSUME IInv, NEW c \in Cameras, Override(c)
    PROVE  Saves(c)
<1> DEFINE next(on) == [Record(c) EXCEPT !.phase = "active", !.over = TRUE, !.overOn = on,
                          !.ended = now, !.manual = TRUE, !.proof = Nothing]
<1>1. Record(c) \in GoodRecords /\ Record(c) # None  BY RecordIsGood DEF Override
<1>2. PICK on \in SUBSET Record(c).ours : Step(c, next(on), working)  BY DEF Override
<1>3. now \in Dates  BY DEF IInv, Dates
<1>4. Nothing \in [Targets -> Told]  BY DEF Nothing, Told
<1>5. Record(c).ours \subseteq Targets  BY <1>1 DEF GoodRecords, Records, Phases
<1>6. next(on) \in GoodRecords
  <2>1. next(on) \in Records  BY <1>1, <1>3, <1>4, <1>5 DEF GoodRecords, Records, Phases
  <2>2. ProofIsOurs(next(on))  BY <1>1, <1>3, <1>4, <1>5 DEF GoodRecords, Records, ProofIsOurs
  <2>3. AllNamed(next(on))  BY <1>1, <1>3, <1>4, <1>5 DEF GoodRecords, Records, AllNamed
  <2> QED  BY <2>1, <2>2, <2>3 DEF GoodRecords
<1>7. Follows(Record(c), next(on))  BY <1>1 DEF GoodRecords, Records, Phases, Follows
<1> QED  BY <1>2, <1>6, <1>7, StepSaves

LEMMA ReleaseSaves ==
    ASSUME IInv, NEW c \in Cameras, Release(c)
    PROVE  Saves(c)
<1> DEFINE next == [Record(c) EXCEPT !.over = FALSE]
<1>1. Record(c) \in GoodRecords /\ Record(c) # None /\ Record(c).phase = "active"
  BY RecordIsGood DEF Release
<1>2. next \in GoodRecords
  <2>1. next \in Records  BY <1>1 DEF GoodRecords, Records, Phases
  <2>2. ProofIsOurs(next)  BY <1>1 DEF GoodRecords, Records, ProofIsOurs
  <2>3. AllNamed(next)  BY <1>1 DEF GoodRecords, Records, AllNamed
  <2> QED  BY <2>1, <2>2, <2>3 DEF GoodRecords
<1>3. Step(c, next, working)  BY DEF Release
<1>4. Follows(Record(c), next)  BY <1>1 DEF GoodRecords, Records, Phases, Follows
<1> QED  BY <1>2, <1>3, <1>4, StepSaves

-----------------------------------------------------------------------------
(* The theorems.                                                            *)

LEMMA InitGood == Init => IInv
<1> SUFFICES ASSUME Init PROVE IInv
  OBVIOUS
<1>1. PICK status \in {"absent", "corrupt"}, old \in SUBSET Cameras, date \in {None, 0} :
        mem = [rec |-> [c \in Cameras |-> IF c \in old THEN Legacy(date, Targets) ELSE None],
               hist |-> [status |-> status, rows |-> {}]]
  BY DEF Init
<1>2. Legacy(date, Targets) \in GoodRecords
  <2>1. date \in Dates  BY <1>1 DEF Dates
  <2>2. Nothing \in [Targets -> Told]  BY DEF Nothing, Told
  <2>3. Legacy(date, Targets) \in Records  BY <2>1, <2>2 DEF Legacy, Records, Phases, Dates
  <2>4. ProofIsOurs(Legacy(date, Targets))  BY DEF Legacy, ProofIsOurs
  <2>5. AllNamed(Legacy(date, Targets))  BY DEF Legacy, AllNamed
  <2> QED  BY <2>3, <2>4, <2>5 DEF GoodRecords
<1>3. mem.rec \in [Cameras -> GoodRecords \cup {None}]
  <2> DEFINE r == Legacy(date, Targets)
  <2> HIDE DEF r
  <2>1. mem.rec = [c \in Cameras |-> IF c \in old THEN r ELSE None]  BY <1>1 DEF r
  <2>2. r \in GoodRecords  BY <1>2 DEF r
  <2> QED  BY <2>1, <2>2
<1>4. /\ mem.hist.status \in {"absent", "ready", "corrupt"} /\ mem.hist.rows = {}
      /\ Cardinality(mem.hist.rows) <= MaxPeriods
  BY <1>1, FS_EmptySet, BoundsAssumption
<1>5. GoodStore(mem)  BY <1>3, <1>4 DEF GoodStore, Alone
<1> QED  BY <1>4, <1>5 DEF IInv, Init, DiskHasGrown

LEMMA TransitionSaves ==
    ASSUME IInv, NEW c \in Cameras, Transition(c)
    PROVE  Saves(c)
BY PauseSaves, TurnOffSaves, SettleSaves, RecoverPauseSaves, FinalizeSaves, ResumeSaves,
   BlockSaves, RepausedSaves, FinishSaves, OverrideSaves, ReleaseSaves DEF Transition

LEMMA NextGood == IInv /\ [Next]_vars => IInv' /\ NothingLost
<1> SUFFICES ASSUME IInv, [Next]_vars PROVE IInv' /\ NothingLost
  OBVIOUS
<1>1. \A row : Grown(row, row)  BY DEF Grown
<1>2. \A row, other \in mem.hist.rows : Id(row) = Id(other) => Grown(row, other)
  BY <1>1 DEF IInv, GoodStore, Alone
<1>3. ASSUME NEW c \in Cameras, Transition(c) PROVE IInv' /\ NothingLost
  <2>1. Saves(c)  BY <1>3, TransitionSaves
  <2> QED  BY <2>1, SaveIsGood DEF Saves
<1>4. CASE NextDay \/ ClockSetBack
  <2>1. now' \in Int /\ UNCHANGED <<mem, disk>>  BY <1>4 DEF IInv, NextDay, ClockSetBack
  <2> QED  BY <1>2, <2>1 DEF IInv, DiskHasGrown, NothingLost
<1>5. CASE Restart
  <2>1. mem' = disk /\ disk' = disk /\ now' = now  BY <1>5 DEF Restart
  <2>2. \A row, other \in disk.hist.rows : Id(row) = Id(other) => Grown(row, other)
    BY <1>1 DEF IInv, GoodStore, Alone
  <2> QED  BY <2>1, <2>2 DEF IInv, DiskHasGrown, NothingLost
<1>6. CASE UNCHANGED vars
  BY <1>2, <1>6 DEF vars, IInv, DiskHasGrown, NothingLost
<1> QED  BY <1>3, <1>4, <1>5, <1>6 DEF Next

LEMMA KindReadable == IInv => HistoryReadable
<1> SUFFICES ASSUME IInv PROVE HistoryReadable
  OBVIOUS
<1>1. \A data \in Stores : Readable(data.hist.rows)
  BY GoodIsReadable DEF IInv, Stores
<1>2. \A row : ValidRow(row) => CardAccepts(row)
  <2> SUFFICES ASSUME NEW row, ValidRow(row) PROVE CardAccepts(row)
    OBVIOUS
  <2>1. row.started # None /\ row.ended # None => row.started <= row.ended  BY DEF ValidRow
  <2> QED  BY <2>1 DEF ValidRow, CardAccepts, Consistent
<1>3. ASSUME NEW rows \in Reads(mem), NEW row \in rows
      PROVE  CardAccepts(row)
  <2>1. GoodStore(mem) /\ now \in Int  BY DEF IInv
  <2>2. Status(mem.hist) = mem.hist.status  BY <2>1, GoodIsReadable
  <2> DEFINE told == {Project(d, mem.rec[d]) : d \in {d \in Cameras : mem.rec[d] # None}}
  <2>3. \A o \in told : GoodRow(o)  BY <2>1, RecordsStandAlone
  <2>4. CASE mem.hist.status = "corrupt"  BY <1>3, <2>2, <2>4 DEF Reads
  <2>5. CASE mem.hist.status = "ready"
    <3>1. rows \in Retained(mem.hist.rows)  BY <1>3, <2>2, <2>5 DEF Reads
    <3>2. row \in mem.hist.rows  BY <1>3, <3>1, RetainedIsBounded
    <3> QED  BY <1>2, <2>1, <3>2 DEF GoodStore, GoodRow
  <2>6. CASE mem.hist.status = "absent"
    <3>1. rows \in Retained(told)  BY <1>3, <2>2, <2>6 DEF Reads
    <3>2. row \in told  BY <1>3, <3>1, RetainedIsBounded
    <3> HIDE DEF told
    <3> QED  BY <1>2, <2>3, <3>2 DEF GoodRow
  <2> QED  BY <2>1, <2>4, <2>5, <2>6 DEF GoodStore
<1> QED  BY <1>1, <1>3 DEF HistoryReadable

\* The inductive invariant: what each store holds, and that the disk has lost nothing
\* that memory shows.
THEOREM AlwaysIInv == Spec => []IInv
<1>1. IInv /\ [Next]_vars => IInv'  BY NextGood
<1> QED  BY <1>1, InitGood, PTL DEF Spec

\* capture and project_record never write a history that _decode or the card refuses.
THEOREM AlwaysReadable == Spec => []HistoryReadable
BY AlwaysIInv, KindReadable, PTL

\* _merge_seen, roll-back and restarts keep every outcome that a row has told.
THEOREM OutcomesStay == Spec => FailuresStayVisible
<1>1. IInv /\ [Next]_vars =>
        [\A row \in mem.hist.rows, row2 \in mem'.hist.rows :
           Id(row) = Id(row2) =>
              \A t \in DOMAIN row.items :
                 t \in DOMAIN row2.items /\ row.items[t].seen \subseteq row2.items[t].seen]_vars
  BY NextGood DEF NothingLost, Grown
<1> QED  BY <1>1, AlwaysIInv, PTL DEF Spec, FailuresStayVisible

-----------------------------------------------------------------------------
(* Which periods stay.                                                      *)

\* No row is of a generation that is still to come.
RowsOfRecords(data) ==
    \A row \in data.hist.rows :
        /\ row.cam \in Cameras /\ row.ended \in Dates
        /\ row.gen = None \/ (row.gen \in Nat /\ row.gen <= Count(data.rec[row.cam]))

\* While the clock goes on, no date of a record is in the future.
Dated(r) ==
    /\ r.started # None => r.started <= now
    /\ r.phase = "active" => /\ r.ended # None /\ r.ended <= now
                             /\ r.started # None => r.started <= r.ended
Timely(data) ==
    /\ \A d \in Cameras : data.rec[d] # None => Dated(data.rec[d])
    /\ \A row \in data.hist.rows : row.ended # None => row.ended <= now

\* A row that tells the current period of a record, and one that contradicts it.
Tells(row, d, r) ==
    /\ Id(row) = <<d, r.started, r.gen>> /\ row.started = r.started /\ row.phase = r.phase
    /\ row.ended = IF r.phase = "active" THEN r.ended ELSE None
Agrees(data) ==
    \A d \in Cameras : data.rec[d] # None => \A row \in RowOf(data, d) : Tells(row, d, data.rec[d])

\* A row that has gone has gone by the bounds.
Crowded(row, rows) == Cardinality(rows) = MaxPeriods /\ \A kept \in rows : ~Later(row, kept)
Gone(row, rows) == Crowded(row, rows) \/ row.ended < now - MaxDays
Finished(row) == row.ended # None /\ (mem.rec[row.cam] = None \/ row.gen # mem.rec[row.cam].gen)
KeepsFinished(data) ==
    \A row \in mem.hist.rows : Finished(row) => row \in data.hist.rows \/ Gone(row, data.hist.rows)
KeepsCurrent(data) ==
    \A d \in Cameras : Missing(data, d) =>
        Outdone(data, d) \/ (Missing(mem, d) /\ data.rec[d] = mem.rec[d])

Keeps(data) == Timely(data) /\ Agrees(data) /\ KeepsFinished(data) /\ KeepsCurrent(data)

PInv ==
    /\ RowsOfRecords(mem) /\ RowsOfRecords(disk)
    /\ mem.hist.status = "corrupt" => disk.hist = mem.hist
    /\ stepped \in BOOLEAN
    /\ ~stepped => Keeps(mem) /\ Keeps(disk)

\* retain drops a row for its age, or for as many rows as there is room for, none of
\* which began earlier.
LEMMA RetainedDrops ==
    ASSUME NEW rows, NEW kept \in Retained(rows), NEW row \in rows, row \notin kept
    PROVE  \/ Crowded(row, kept)
           \/ LET date == IF row.ended # None THEN row.ended ELSE row.started
              IN  date # None /\ ~(now - MaxDays <= date /\ date <= now)
<1>1. CASE row \notin Recent(rows)  BY <1>1 DEF Recent
<1>2. CASE row \in Recent(rows)
  <2>1. kept # Recent(rows)  BY <1>2
  <2>2. Cardinality(kept) = MaxPeriods /\ \A k \in kept, o \in Recent(rows) \ kept : ~Later(o, k)
    BY <2>1 DEF Retained
  <2> QED  BY <1>2, <2>2 DEF Crowded
<1> QED  BY <1>1, <1>2

\* The projection of a record whose dates are not in the future tells its period.
LEMMA ProjectTells ==
    ASSUME NEW d \in Cameras, NEW r \in GoodRecords, now \in Int, Dated(r)
    PROVE  Tells(Project(d, r), d, r)
<1> DEFINE row == Project(d, r)
<1>1. row.cam = d /\ row.started = Utc(r.started) /\ row.gen = r.gen /\ row.ended = End(r)
      /\ row.phase = r.phase
  BY DEF Project
<1>2. r.started \in Dates /\ r.ended \in Dates  BY DEF GoodRecords, Records, Phases
<1>3. Utc(r.started) = r.started  BY DEF Utc, Dated
<1>4. End(r) = IF r.phase = "active" THEN r.ended ELSE None
  BY <1>2, <1>3, BoundsAssumption DEF End, Utc, Dated, Dates
<1> QED  BY <1>1, <1>3, <1>4 DEF Tells, Id

\* A capture of c replaces its row among those that are known, and retains what it may.
Captured(c, r, hist, known, rows, merged) ==
    /\ hist.status = "ready" /\ hist.rows \in Retained(rows \cup {merged})
    /\ merged.cam = c /\ merged.started = Utc(r.started) /\ merged.gen = r.gen
    /\ merged.ended = End(r) /\ merged.phase = r.phase
    /\ rows \subseteq known \cup {Project(c, mem.rec[c])}
    /\ (rows \subseteq known \/ mem.rec[c] # None)
    /\ \A row \in known : Id(row) # Id(merged) => row \in rows
    /\ \A row \in rows : Id(row) # Id(merged)
    /\ mem.hist.status = "ready" => known = mem.hist.rows
    /\ mem.hist.status # "ready" =>
         known = {Project(d, mem.rec[d]) : d \in {d \in Cameras : mem.rec[d] # None}}

LEMMA CaptureReplaces ==
    ASSUME IInv, NEW c \in Cameras, NEW r \in GoodRecords, NEW hist \in Captures(c, r),
           mem.hist.status # "corrupt"
    PROVE  \E known, rows, merged : Captured(c, r, hist, known, rows, merged)
<1> DEFINE known == CASE Status(mem.hist) = "ready" -> mem.hist.rows
                      [] OTHER -> {Project(d, mem.rec[d]) : d \in {d \in Cameras : mem.rec[d] # None}}
           before == IF mem.rec[c] = None THEN {} ELSE {Project(c, mem.rec[c])}
           all == known \cup {row \in before : Id(row) \notin {Id(o) : o \in known}}
           row == Project(c, r)
           prior == {o \in all : Id(o) = Id(row)}
           merged == IF prior = {} THEN row ELSE Merged(row, CHOOSE o \in prior : TRUE)
<1>1. Status(mem.hist) = mem.hist.status  BY GoodIsReadable DEF IInv
<1>2. PICK kept \in Retained((all \ prior) \cup {merged}) :
        hist = [status |-> "ready", rows |-> kept]
  BY <1>1 DEF Captures
<1>3. /\ row.cam = c /\ row.started = Utc(r.started) /\ row.gen = r.gen
      /\ row.ended = End(r) /\ row.phase = r.phase
  BY DEF Project
<1>4. /\ merged.cam = row.cam /\ merged.started = row.started /\ merged.gen = row.gen
      /\ merged.ended = row.ended /\ merged.phase = row.phase
  <2>1. \A o : LET m == Merged(row, o)
               IN  /\ m.cam = row.cam /\ m.started = row.started /\ m.gen = row.gen
                   /\ m.ended = row.ended /\ m.phase = row.phase
    BY DEF Merged, Project
  <2> HIDE DEF row, prior
  <2> QED  BY <2>1
<1>5. Id(merged) = Id(row)  BY <1>4 DEF Id
<1>6. /\ mem.hist.status = "ready" => known = mem.hist.rows
      /\ mem.hist.status # "ready" =>
           known = {Project(d, mem.rec[d]) : d \in {d \in Cameras : mem.rec[d] # None}}
  BY <1>1
<1> DEFINE rows == all \ prior
<1>7. /\ rows \subseteq known \cup before
      /\ \A o \in known : Id(o) # Id(row) => o \in rows
      /\ \A o \in rows : Id(o) # Id(row)
  <2> HIDE DEF known, before, row
  <2> QED  OBVIOUS
<1>8. /\ rows \subseteq known \cup {Project(c, mem.rec[c])}
      /\ (rows \subseteq known \/ mem.rec[c] # None)
  <2> HIDE DEF known, rows
  <2> QED  BY <1>7
<1>9. hist.status = "ready" /\ hist.rows \in Retained(rows \cup {merged})  BY <1>2
<1> HIDE DEF rows, merged, known, row, prior
<1>10. Captured(c, r, hist, known, rows, merged)
  BY <1>3, <1>4, <1>5, <1>6, <1>7, <1>8, <1>9 DEF Captured
<1> QED  BY <1>10

LEMMA EndIsPast ==
    ASSUME NEW r \in GoodRecords, now \in Int, End(r) # None
    PROVE  End(r) \in Int /\ End(r) <= now
BY DEF End, Utc, GoodRecords, Records, Phases, Dates

LEMMA FollowsDated ==
    ASSUME NEW old \in GoodRecords \cup {None}, NEW r \in GoodRecords, Follows(old, r),
           now \in Int, old # None => Dated(old)
    PROVE  Dated(r)
<1>1. None \notin Int /\ now # None  BY BoundsAssumption
<1>2. CASE old # None /\ r.started = old.started
  BY <1>1, <1>2 DEF Follows, Dated, GoodRecords, Records, Dates
<1>3. CASE r.started = now /\ r.phase = "pausing"
  BY <1>1, <1>3 DEF Dated
<1> QED  BY <1>2, <1>3 DEF Follows

LEMMA FollowsCounts ==
    ASSUME NEW old \in GoodRecords \cup {None}, NEW r \in GoodRecords, Follows(old, r)
    PROVE  /\ Count(old) \in Nat /\ Count(r) \in Nat /\ Count(old) <= Count(r)
           /\ r # None /\ (r.gen = None \/ r.gen = Count(r))
           /\ (old # None /\ r.gen = old.gen) \/ r.gen = Count(old) + 1
<1>1. r # None /\ r.gen \in Nat \cup {None}
  BY RecordsAssumption DEF GoodRecords, Records
<1>2. old # None => old.gen \in Nat \cup {None}  BY DEF GoodRecords, Records
<1>3. None \notin Nat  BY BoundsAssumption
<1> QED  BY <1>1, <1>2, <1>3 DEF Follows, Count

\* A row that told the current period and was dropped was outdone.
LEMMA DroppedIsOutdone ==
    ASSUME NEW d, NEW r \in GoodRecords, now \in Int, Dated(r), NEW row, Tells(row, d, r),
           NEW data, data.rec[d] = r, NEW rows, data.hist.rows \in Retained(rows),
           row \in rows, row \notin data.hist.rows
    PROVE  Outdone(data, d)
<1>1. CASE Crowded(row, data.hist.rows)
  BY <1>1 DEF Crowded, Tells, Later, Outdone
<1>2. CASE LET date == IF row.ended # None THEN row.ended ELSE row.started
           IN  date # None /\ ~(now - MaxDays <= date /\ date <= now)
  <2>1. row.started = r.started /\ row.ended = IF r.phase = "active" THEN r.ended ELSE None
    BY DEF Tells
  <2>2. r.started \in Int \cup {None} /\ r.ended \in Int \cup {None}
    BY DEF GoodRecords, Records, Dates
  <2>3. CASE r.phase = "active"
    BY <1>2, <2>1, <2>2, <2>3, BoundsAssumption DEF Dated, Outdone
  <2>4. CASE r.phase # "active"
    BY <1>2, <2>1, <2>2, <2>4, BoundsAssumption DEF Dated, Outdone
  <2> QED  BY <2>3, <2>4
<1> QED  BY <1>1, <1>2, RetainedDrops

\* What a save stores when the history can be read.
Stored(c, r, data, known, rows, merged) ==
    /\ data.rec = [mem.rec EXCEPT ![c] = r]
    /\ Captured(c, r, data.hist, known, rows, merged)

LEMMA StoredRecords ==
    ASSUME IInv, NEW c \in Cameras, NEW r \in GoodRecords, Follows(mem.rec[c], r),
           NEW data, NEW known, NEW rows, NEW merged, Stored(c, r, data, known, rows, merged)
    PROVE  /\ data.rec[c] = r /\ r # None
           /\ \A d \in Cameras : /\ mem.rec[d] \in GoodRecords \cup {None}
                                 /\ d # c => data.rec[d] = mem.rec[d]
                                 /\ Count(mem.rec[d]) \in Nat /\ Count(data.rec[d]) \in Nat
                                 /\ Count(mem.rec[d]) <= Count(data.rec[d])
           /\ data.hist.rows \subseteq rows \cup {merged}
<1>1. mem.rec \in [Cameras -> GoodRecords \cup {None}]  BY DEF IInv, GoodStore
<1>2. data.rec[c] = r /\ \A d \in Cameras : d # c => data.rec[d] = mem.rec[d]
  BY <1>1 DEF Stored
<1>3. /\ r # None
      /\ Count(mem.rec[c]) \in Nat /\ Count(r) \in Nat /\ Count(mem.rec[c]) <= Count(r)
  BY <1>1, FollowsCounts
<1>4. \A d \in Cameras : Count(mem.rec[d]) \in Nat
  BY <1>1 DEF Count, GoodRecords, Records
<1>5. data.hist.rows \subseteq rows \cup {merged}
  BY RetainedIsBounded DEF Stored, Captured
<1> QED  BY <1>1, <1>2, <1>3, <1>4, <1>5

LEMMA EndIsDate ==
    ASSUME NEW r \in GoodRecords
    PROVE  End(r) \in Dates
BY DEF End, Utc, GoodRecords, Records, Dates

\* The rows known before a save are of records, and end when they can have ended.
LEMMA KnownRows ==
    ASSUME IInv, PInv, NEW c \in Cameras, NEW r \in GoodRecords, Follows(mem.rec[c], r),
           NEW data, NEW known, NEW rows, NEW merged, Stored(c, r, data, known, rows, merged),
           NEW row \in rows
    PROVE  /\ row.cam \in Cameras /\ row.ended \in Dates
           /\ row.gen = None \/ (row.gen \in Nat /\ row.gen <= Count(mem.rec[row.cam]))
           /\ ~stepped /\ row.ended # None => row.ended <= now
<1>1. \A d \in Cameras : mem.rec[d] \in GoodRecords \cup {None}  BY StoredRecords
<1>2. ASSUME NEW d \in Cameras, mem.rec[d] # None, row = Project(d, mem.rec[d])
      PROVE  /\ row.cam \in Cameras /\ row.ended \in Dates
             /\ row.gen = None \/ (row.gen \in Nat /\ row.gen <= Count(mem.rec[row.cam]))
             /\ row.ended # None => row.ended <= now
  <2>1. mem.rec[d] \in GoodRecords  BY <1>1, <1>2
  <2>2. row.cam = d /\ row.gen = mem.rec[d].gen /\ row.ended = End(mem.rec[d])
    BY <1>2 DEF Project
  <2>3. row.gen \in Nat \cup {None}  BY <2>1, <2>2 DEF GoodRecords, Records
  <2>4. row.gen # None => Count(mem.rec[d]) = row.gen  BY <1>2, <2>2 DEF Count
  <2>5. row.ended \in Dates /\ (row.ended # None => row.ended <= now)
    BY <2>1, <2>2, EndIsPast, EndIsDate DEF IInv
  <2> QED  BY <2>2, <2>3, <2>4, <2>5
<1>3. CASE row \notin known
  <2>1. row = Project(c, mem.rec[c]) /\ mem.rec[c] # None  BY <1>3 DEF Stored, Captured
  <2> QED  BY <1>2, <2>1
<1>4. CASE row \in known /\ mem.hist.status = "ready"
  <2>1. row \in mem.hist.rows  BY <1>4 DEF Stored, Captured
  <2> QED  BY <2>1 DEF PInv, RowsOfRecords, Keeps, Timely
<1>5. CASE row \in known /\ mem.hist.status # "ready"
  <2>1. PICK d \in Cameras : mem.rec[d] # None /\ row = Project(d, mem.rec[d])
    BY <1>5 DEF Stored, Captured
  <2> QED  BY <1>2, <2>1
<1> QED  BY <1>3, <1>4, <1>5

LEMMA StoredRows ==
    ASSUME IInv, PInv, NEW c \in Cameras, NEW r \in GoodRecords, Follows(mem.rec[c], r),
           NEW data, NEW known, NEW rows, NEW merged, Stored(c, r, data, known, rows, merged)
    PROVE  /\ RowsOfRecords(data)
           /\ ~stepped => Timely(data)
<1>1. merged.cam = c /\ merged.gen = r.gen /\ merged.ended = End(r)  BY DEF Stored, Captured
<1>2. ASSUME NEW row \in data.hist.rows
      PROVE  /\ row.cam \in Cameras /\ row.ended \in Dates
             /\ row.gen = None \/ (row.gen \in Nat /\ row.gen <= Count(data.rec[row.cam]))
             /\ ~stepped /\ row.ended # None => row.ended <= now
  <2>1. CASE row = merged
    <3>1. mem.rec[c] \in GoodRecords \cup {None} /\ data.rec[c] = r  BY StoredRecords
    <3>2. Count(r) \in Nat /\ (r.gen = None \/ r.gen = Count(r))  BY <3>1, FollowsCounts
    <3>3. row.ended \in Dates /\ (row.ended # None => row.ended <= now)
      BY <1>1, <2>1, EndIsPast, EndIsDate DEF IInv
    <3> QED  BY <1>1, <2>1, <3>1, <3>2, <3>3
  <2>2. CASE row \in rows
    <3>1. /\ row.cam \in Cameras /\ row.ended \in Dates
          /\ row.gen = None \/ (row.gen \in Nat /\ row.gen <= Count(mem.rec[row.cam]))
          /\ ~stepped /\ row.ended # None => row.ended <= now
      BY <2>2, KnownRows
    <3>2. /\ Count(mem.rec[row.cam]) \in Nat /\ Count(data.rec[row.cam]) \in Nat
          /\ Count(mem.rec[row.cam]) <= Count(data.rec[row.cam])
      BY <3>1, StoredRecords
    <3> QED  BY <3>1, <3>2
  <2> QED  BY <2>1, <2>2, StoredRecords
<1>3. ASSUME ~stepped, NEW d \in Cameras, data.rec[d] # None
      PROVE  Dated(data.rec[d])
  <2>1. mem.rec[d] # None => Dated(mem.rec[d])  BY <1>3 DEF PInv, Keeps, Timely
  <2>2. CASE d = c
    <3>1. data.rec[d] = r /\ mem.rec[c] \in GoodRecords \cup {None}  BY <2>2, StoredRecords
    <3> QED  BY <2>1, <2>2, <3>1, FollowsDated DEF IInv
  <2>3. CASE d # c
    <3>1. data.rec[d] = mem.rec[d]  BY <2>3, StoredRecords
    <3> QED  BY <1>3, <2>1, <3>1
  <2> QED  BY <2>2, <2>3
<1> QED  BY <1>2, <1>3 DEF RowsOfRecords, Timely

\* A finished period is not the one that a save replaces.
LEMMA StoredKeepsFinished ==
    ASSUME IInv, PInv, NEW c \in Cameras, NEW r \in GoodRecords, Follows(mem.rec[c], r),
           NEW data, NEW known, NEW rows, NEW merged, Stored(c, r, data, known, rows, merged),
           NEW row \in mem.hist.rows, Finished(row)
    PROVE  row \in data.hist.rows \/ Gone(row, data.hist.rows) \/ row.ended > now
<1>1. mem.hist.status = "ready"  BY DEF IInv, GoodStore
<1>2. row \in known  BY <1>1 DEF Stored, Captured
<1>3. /\ row.cam \in Cameras /\ row.ended \in Dates
      /\ row.gen = None \/ (row.gen \in Nat /\ row.gen <= Count(mem.rec[row.cam]))
  BY DEF PInv, RowsOfRecords
<1>4. merged.cam = c /\ merged.gen = r.gen  BY DEF Stored, Captured
<1>5. row.cam # c \/ row.gen # r.gen
  <2> SUFFICES ASSUME row.cam = c, row.gen = r.gen PROVE FALSE
    OBVIOUS
  <2>1. mem.rec[c] \in GoodRecords \cup {None}  BY StoredRecords
  <2>2. /\ Count(mem.rec[c]) \in Nat
        /\ (mem.rec[c] # None /\ r.gen = mem.rec[c].gen) \/ r.gen = Count(mem.rec[c]) + 1
    BY <2>1, FollowsCounts
  <2>3. r.gen = Count(mem.rec[c]) + 1  BY <2>2 DEF Finished
  <2> QED  BY <1>3, <2>2, <2>3, BoundsAssumption
<1>6. Id(row) # Id(merged)  BY <1>4, <1>5 DEF Id
<1>7. row \in rows \cup {merged}  BY <1>2, <1>6 DEF Stored, Captured
<1>8. data.hist.rows \in Retained(rows \cup {merged})  BY DEF Stored, Captured
<1>9. row.ended \in Int  BY <1>3 DEF Finished, Dates
<1>10. \/ row \in data.hist.rows \/ Crowded(row, data.hist.rows)
       \/ ~(now - MaxDays <= row.ended /\ row.ended <= now)
  BY <1>7, <1>8, RetainedDrops DEF Finished
<1> QED  BY <1>9, <1>10, BoundsAssumption DEF IInv, Gone

\* The row that a save writes for a camera, and those that it takes over for the others.
LEMMA StoredCurrent ==
    ASSUME IInv, PInv, ~stepped, NEW c \in Cameras, NEW r \in GoodRecords, Follows(mem.rec[c], r),
           NEW data, NEW known, NEW rows, NEW merged, Stored(c, r, data, known, rows, merged)
    PROVE  Agrees(data) /\ KeepsCurrent(data)
<1>1. Timely(data) /\ Agrees(mem) /\ Timely(mem)  BY StoredRows DEF PInv, Keeps
<1>2. /\ data.rec[c] = r /\ r # None
      /\ \A d \in Cameras : /\ mem.rec[d] \in GoodRecords \cup {None}
                            /\ d # c => data.rec[d] = mem.rec[d]
      /\ data.hist.rows \subseteq rows \cup {merged}
  BY StoredRecords
<1>3. Dated(r) /\ \A d \in Cameras : data.rec[d] # None => Dated(data.rec[d])
  BY <1>1, <1>2 DEF Timely
<1>4. Tells(merged, c, r)
  <2>1. Tells(Project(c, r), c, r)  BY <1>3, ProjectTells DEF IInv
  <2>2. Project(c, r).cam = c /\ Project(c, r).started = Utc(r.started)
        /\ Project(c, r).gen = r.gen /\ Project(c, r).ended = End(r)
        /\ Project(c, r).phase = r.phase
    BY DEF Project
  <2>3. merged.cam = c /\ merged.started = Utc(r.started) /\ merged.gen = r.gen
        /\ merged.ended = End(r) /\ merged.phase = r.phase
    BY DEF Stored, Captured
  <2> QED  BY <2>1, <2>2, <2>3 DEF Tells, Id
<1>5. merged.cam = c /\ Id(merged) = <<c, r.started, r.gen>>
  BY <1>4 DEF Tells, Stored, Captured
<1>6. ASSUME NEW d \in Cameras, d # c, mem.rec[d] # None, NEW row \in known,
             Id(row) = <<d, mem.rec[d].started, mem.rec[d].gen>>
      PROVE  Tells(row, d, mem.rec[d])
  <2>1. CASE mem.hist.status = "ready"
    <3>1. row \in RowOf(mem, d)  BY <1>6, <2>1 DEF RowOf, Stored, Captured
    <3> QED  BY <1>1, <1>6, <3>1 DEF Agrees
  <2>2. CASE mem.hist.status # "ready"
    <3>1. PICK e \in Cameras : mem.rec[e] # None /\ row = Project(e, mem.rec[e])
      BY <2>2 DEF Stored, Captured
    <3>2. row.cam = e  BY <3>1 DEF Project
    <3>3. row.cam = d  BY <1>6 DEF Id
    <3>4. mem.rec[d] \in GoodRecords /\ Dated(mem.rec[d])  BY <1>2, <1>3, <1>6
    <3> QED  BY <3>1, <3>2, <3>3, <3>4, ProjectTells DEF IInv
  <2> QED  BY <2>1, <2>2
<1>7. Agrees(data)
  <2> SUFFICES ASSUME NEW d \in Cameras, data.rec[d] # None, NEW row \in RowOf(data, d)
               PROVE  Tells(row, d, data.rec[d])
    BY DEF Agrees
  <2>1. row \in rows \cup {merged} /\ Id(row) = <<d, data.rec[d].started, data.rec[d].gen>>
    BY <1>2 DEF RowOf
  <2>2. CASE d = c
    <3>1. row = merged  BY <1>2, <1>5, <2>1, <2>2 DEF Stored, Captured
    <3> QED  BY <1>2, <1>4, <2>2, <3>1
  <2>3. CASE d # c
    <3>1. row.cam = d  BY <2>1 DEF Id
    <3>2. row \in rows  BY <1>5, <2>1, <2>3, <3>1
    <3>3. row # Project(c, mem.rec[c])  BY <2>3, <3>1 DEF Project
    <3>4. row \in known  BY <3>2, <3>3 DEF Stored, Captured
    <3> QED  BY <1>2, <1>6, <2>1, <2>3, <3>4
  <2> QED  BY <2>2, <2>3
<1>8. KeepsCurrent(data)
  <2> SUFFICES ASSUME NEW d \in Cameras, Missing(data, d)
               PROVE  Outdone(data, d) \/ (Missing(mem, d) /\ data.rec[d] = mem.rec[d])
    BY DEF KeepsCurrent
  <2>1. data.rec[d] # None /\ RowOf(data, d) = {}  BY DEF Missing
  <2>2. data.hist.rows \in Retained(rows \cup {merged})  BY DEF Stored, Captured
  <2>3. ASSUME NEW row \in rows \cup {merged}, Tells(row, d, data.rec[d])
        PROVE  Outdone(data, d)
    <3>1. row \notin data.hist.rows  BY <2>1, <2>3 DEF RowOf, Tells
    <3>2. data.rec[d] \in GoodRecords /\ Dated(data.rec[d])  BY <1>2, <1>3, <2>1
    <3> QED  BY <2>2, <2>3, <3>1, <3>2, DroppedIsOutdone DEF IInv
  <2>4. CASE d = c  BY <1>2, <1>4, <2>3, <2>4
  <2>5. CASE d # c
    <3>1. data.rec[d] = mem.rec[d] /\ mem.rec[d] \in GoodRecords  BY <1>2, <2>1, <2>5
    <3>2. CASE mem.hist.status = "ready" /\ RowOf(mem, d) = {}
      BY <2>1, <3>1, <3>2 DEF Missing
    <3>3. ASSUME NEW row \in known, Tells(row, d, mem.rec[d])
          PROVE  Outdone(data, d)
      <4>1. Id(row) = <<d, mem.rec[d].started, mem.rec[d].gen>>  BY <3>3 DEF Tells
      <4>2. Id(row) # Id(merged)  BY <1>5, <2>5, <4>1
      <4>3. row \in rows  BY <4>2 DEF Stored, Captured
      <4> QED  BY <2>3, <3>1, <3>3, <4>3
    <3>4. CASE mem.hist.status = "ready" /\ RowOf(mem, d) # {}
      <4>1. PICK row \in RowOf(mem, d) : TRUE  BY <3>4
      <4>2. row \in known  BY <3>4 DEF RowOf, Stored, Captured
      <4>3. Tells(row, d, mem.rec[d])  BY <1>1, <2>1, <3>1, <4>1 DEF Agrees
      <4> QED  BY <3>3, <4>2, <4>3
    <3>5. CASE mem.hist.status # "ready"
      <4>1. Project(d, mem.rec[d]) \in known  BY <2>1, <3>1, <3>5 DEF Stored, Captured
      <4>2. Tells(Project(d, mem.rec[d]), d, mem.rec[d])
        BY <1>3, <2>1, <3>1, ProjectTells DEF IInv
      <4> QED  BY <3>3, <4>1, <4>2
    <3> QED  BY <3>2, <3>4, <3>5
  <2> QED  BY <2>4, <2>5
<1> QED  BY <1>7, <1>8

\* A save keeps what it may not drop, whether the history can be read or not.
LEMMA CaptureKeeps ==
    ASSUME IInv, PInv, NEW c \in Cameras, NEW r \in GoodRecords, Follows(mem.rec[c], r),
           NEW hist \in Captures(c, r), NEW data,
           data = [rec |-> [mem.rec EXCEPT ![c] = r], hist |-> hist]
    PROVE  /\ RowsOfRecords(data)
           /\ mem.hist.status = "corrupt" => data.hist = mem.hist
           /\ data.hist.status = "corrupt" => mem.hist.status = "corrupt"
           /\ ~stepped => Keeps(data)
           /\ \A row \in mem.hist.rows : Finished(row) =>
                 row \in data.hist.rows \/ Gone(row, data.hist.rows) \/ row.ended > now
<1>1. data.hist = hist /\ data.rec = [mem.rec EXCEPT ![c] = r]  OBVIOUS
<1>2. CASE mem.hist.status = "corrupt"
  <2>1. Status(mem.hist) = "corrupt" /\ mem.hist.rows = {}
    BY <1>2, GoodIsReadable DEF IInv, GoodStore
  <2>2. hist = mem.hist  BY <2>1 DEF Captures
  <2>3. RowsOfRecords(data)  BY <1>1, <2>1, <2>2 DEF RowsOfRecords
  <2>4. ASSUME ~stepped PROVE Keeps(data)
    <3>1. mem.rec \in [Cameras -> GoodRecords \cup {None}]  BY DEF IInv, GoodStore
    <3>2. \A d \in Cameras : mem.rec[d] # None => Dated(mem.rec[d])
      BY <2>4 DEF PInv, Keeps, Timely
    <3>3. Dated(r)  BY <3>1, <3>2, FollowsDated DEF IInv
    <3>4. \A d \in Cameras : data.rec[d] # None => Dated(data.rec[d])
      BY <1>1, <3>1, <3>2, <3>3
    <3> QED
      BY <1>1, <1>2, <2>1, <2>2, <3>4
      DEF Keeps, Timely, Agrees, RowOf, KeepsFinished, KeepsCurrent, Missing
  <2> QED  BY <1>1, <1>2, <2>1, <2>2, <2>3, <2>4
<1>3. CASE mem.hist.status # "corrupt"
  <2>1. PICK known, rows, merged : Captured(c, r, hist, known, rows, merged)
    BY <1>3, CaptureReplaces
  <2>2. Stored(c, r, data, known, rows, merged)  BY <1>1, <2>1 DEF Stored
  <2>3. hist.status = "ready"  BY <2>1 DEF Captured
  <2>4. RowsOfRecords(data) /\ (~stepped => Timely(data))  BY <2>2, StoredRows
  <2>5. \A row \in mem.hist.rows : Finished(row) =>
           row \in data.hist.rows \/ Gone(row, data.hist.rows) \/ row.ended > now
    BY <2>2, StoredKeepsFinished
  <2>6. ASSUME ~stepped PROVE Keeps(data)
    <3>1. Agrees(data) /\ KeepsCurrent(data)  BY <2>2, <2>6, StoredCurrent
    <3>2. \A row \in mem.hist.rows :
             row.ended # None => row.ended \in Int /\ row.ended <= now
      BY <2>6 DEF PInv, Keeps, Timely, RowsOfRecords, Dates
    <3>3. KeepsFinished(data)  BY <2>5, <3>2 DEF KeepsFinished, Finished, IInv
    <3> QED  BY <2>4, <2>6, <3>1, <3>3 DEF Keeps
  <2> QED  BY <1>1, <1>3, <2>3, <2>4, <2>5, <2>6
<1> QED  BY <1>2, <1>3

\* What a step may do to the periods that memory shows.
CurrentStays ==
    ~stepped' => \A c \in Cameras : Missing(mem, c)' =>
        Outdone(mem, c)' \/ (Missing(mem, c) /\ mem'.rec[c] = mem.rec[c])
FinishedStay ==
    /\ mem.hist.status = "corrupt" => mem'.hist = mem.hist
    /\ \A row \in mem.hist.rows : Finished(row) =>
          \/ row \in mem'.hist.rows \/ Gone(row, mem'.hist.rows) \/ row.ended > now
          \/ stepped /\ disk # mem

\* Memory is always kept with respect to itself.
LEMMA KeptItself ==
    ASSUME Timely(mem), Agrees(mem)
    PROVE  Keeps(mem)
BY DEF Keeps, KeepsFinished, KeepsCurrent

LEMMA SaveKeeps ==
    ASSUME IInv, PInv, NEW c \in Cameras, Saves(c)
    PROVE  PInv' /\ CurrentStays /\ FinishedStay
<1>1. PICK r \in GoodRecords : /\ Follows(Record(c), r)
                               /\ \E go, failed : Save(c, r, go, failed)
                               /\ UNCHANGED <<now, stepped>>
  BY DEF Saves
<1>2. PICK hist \in Captures(c, r) :
        LET data == [rec |-> [mem.rec EXCEPT ![c] = r], hist |-> hist]
        IN  \/ mem' = data /\ disk' = data
            \/ UNCHANGED mem /\ disk' \in {disk, data}
  BY <1>1 DEF Save
<1> DEFINE data == [rec |-> [mem.rec EXCEPT ![c] = r], hist |-> hist]
<1>3. (mem' = data /\ disk' = data) \/ (mem' = mem /\ disk' \in {disk, data})
  BY <1>2
<1>4. Follows(mem.rec[c], r)  BY <1>1 DEF Record
<1> HIDE DEF data
<1>5. /\ RowsOfRecords(data)
      /\ mem.hist.status = "corrupt" => data.hist = mem.hist
      /\ data.hist.status = "corrupt" => mem.hist.status = "corrupt"
      /\ ~stepped => Keeps(data)
      /\ \A row \in mem.hist.rows : Finished(row) =>
            row \in data.hist.rows \/ Gone(row, data.hist.rows) \/ row.ended > now
  BY <1>4, CaptureKeeps DEF data
<1>6. now' = now /\ stepped' = stepped  BY <1>1
<1>7. CASE mem' = data /\ disk' = data
  <2>1. ~stepped' => Timely(mem)' /\ Agrees(mem)'
    BY <1>5, <1>6, <1>7 DEF Keeps, Timely, Dated, Agrees, Tells, RowOf
  <2>2. ~stepped' => Keeps(mem)' /\ Keeps(disk)'
    BY <1>7, <2>1 DEF Keeps, KeepsFinished, KeepsCurrent
  <2>3. PInv'  BY <1>5, <1>6, <1>7, <2>2 DEF PInv, RowsOfRecords
  <2>4. CurrentStays
    BY <1>5, <1>6, <1>7 DEF CurrentStays, Keeps, KeepsCurrent, Missing, Outdone, RowOf
  <2>5. FinishedStay  BY <1>5, <1>7 DEF FinishedStay
  <2> QED  BY <2>3, <2>4, <2>5
<1>8. CASE mem' = mem /\ disk' \in {disk, data}
  <2>1. RowsOfRecords(disk') /\ (~stepped => Keeps(mem) /\ Keeps(disk'))
    BY <1>5, <1>8 DEF PInv
  <2>2. PInv'
    <3>1. RowsOfRecords(mem)' /\ RowsOfRecords(disk)'
      BY <1>8, <2>1 DEF PInv, RowsOfRecords
    <3>2. (mem.hist.status = "corrupt" => disk.hist = mem.hist)'
      BY <1>5, <1>8 DEF PInv
    <3>3. ~stepped' => Keeps(mem)' /\ Keeps(disk)'
      BY <1>6, <1>8, <2>1
      DEF Keeps, Timely, Dated, Agrees, Tells, RowOf, KeepsFinished, Finished, Gone, Crowded,
          KeepsCurrent, Missing, Outdone
    <3> QED  BY <1>6, <3>1, <3>2, <3>3 DEF PInv
  <2>3. CurrentStays  BY <1>8 DEF CurrentStays, Missing, RowOf
  <2>4. FinishedStay  BY <1>8 DEF FinishedStay
  <2> QED  BY <2>2, <2>3, <2>4
<1> QED  BY <1>3, <1>7, <1>8

\* A day later what has gone has still gone.
LEMMA DayKeeps ==
    ASSUME IInv, PInv, NextDay
    PROVE  PInv' /\ CurrentStays /\ FinishedStay
<1>1. now \in Int /\ now' = now + 1 /\ mem' = mem /\ disk' = disk /\ stepped' = stepped
  BY DEF IInv, NextDay
<1>2. MaxDays \in Int /\ None \notin Int  BY BoundsAssumption
<1>3. mem.rec \in [Cameras -> GoodRecords \cup {None}]
      /\ disk.rec \in [Cameras -> GoodRecords \cup {None}]
  BY DEF IInv, GoodStore
<1>4. ASSUME NEW r \in GoodRecords, Dated(r) PROVE Dated(r)'
  <2>1. r.started \in Dates /\ r.ended \in Dates  BY DEF GoodRecords, Records
  <2> QED  BY <1>1, <1>2, <1>4, <2>1 DEF Dated, Dates
<1>5. ASSUME NEW rec \in [Cameras -> GoodRecords \cup {None}], NEW d \in Cameras,
             rec[d] # None, Dated(rec[d])
      PROVE  /\ rec[d].started # None => rec[d].started <= now'
             /\ rec[d].phase = "active" =>
                  /\ rec[d].ended # None /\ rec[d].ended <= now'
                  /\ rec[d].started # None => rec[d].started <= rec[d].ended
  <2>1. rec[d] \in GoodRecords  BY <1>5
  <2> QED  BY <1>4, <1>5, <2>1 DEF Dated
<1>6. ASSUME NEW rec \in [Cameras -> GoodRecords \cup {None}], NEW d \in Cameras,
             rec[d] # None
      PROVE  /\ rec[d].started # None /\ rec[d].started < now - MaxDays
                  => rec[d].started < now' - MaxDays
             /\ rec[d].ended # None /\ rec[d].ended < now - MaxDays
                  => rec[d].ended < now' - MaxDays
  <2>1. rec[d].started \in Dates /\ rec[d].ended \in Dates
    BY <1>6 DEF GoodRecords, Records
  <2> QED  BY <1>1, <1>2, <2>1 DEF Dates
<1>7. \A row \in mem.hist.rows \cup disk.hist.rows :
         row.ended # None => /\ row.ended \in Int
                             /\ row.ended <= now => row.ended <= now'
                             /\ row.ended < now - MaxDays => row.ended < now' - MaxDays
  BY <1>1, <1>2 DEF PInv, RowsOfRecords, Dates
<1>8. ~stepped => Timely(mem)' /\ Timely(disk)'
  BY <1>1, <1>3, <1>5, <1>7 DEF PInv, Keeps, Timely, Dated
<1>9. ~stepped => Agrees(mem)' /\ Agrees(disk)'
  BY <1>1 DEF PInv, Keeps, Agrees, Tells, RowOf
<1>10. ~stepped => KeepsFinished(mem)' /\ KeepsFinished(disk)'
  BY <1>1, <1>7 DEF PInv, Keeps, KeepsFinished, Finished, Gone, Crowded
<1>11. ASSUME ~stepped, NEW d \in Cameras, Missing(disk, d)'
       PROVE  Outdone(disk, d)' \/ (Missing(mem, d)' /\ disk'.rec[d] = mem'.rec[d])
  <2>1. Missing(disk, d) /\ disk.rec[d] # None  BY <1>1, <1>11 DEF Missing, RowOf
  <2>2. Outdone(disk, d) \/ (Missing(mem, d) /\ disk.rec[d] = mem.rec[d])
    BY <1>11, <2>1 DEF PInv, Keeps, KeepsCurrent
  <2>3. CASE Outdone(disk, d)
    <3>1. /\ disk.rec[d].started # None /\ disk.rec[d].started < now - MaxDays
               => disk.rec[d].started < now' - MaxDays
          /\ disk.rec[d].ended # None /\ disk.rec[d].ended < now - MaxDays
               => disk.rec[d].ended < now' - MaxDays
      BY <1>3, <1>6, <2>1
    <3> QED  BY <1>1, <2>3, <3>1 DEF Outdone
  <2>4. CASE Missing(mem, d) /\ disk.rec[d] = mem.rec[d]
    BY <1>1, <2>4 DEF Missing, RowOf
  <2> QED  BY <2>2, <2>3, <2>4
<1>12. ~stepped => KeepsCurrent(mem)' /\ KeepsCurrent(disk)'
  BY <1>1, <1>11 DEF KeepsCurrent
<1>13. PInv'
  <2>1. RowsOfRecords(mem)' /\ RowsOfRecords(disk)'
    BY <1>1 DEF PInv, RowsOfRecords
  <2>2. ~stepped' => Keeps(mem)' /\ Keeps(disk)'
    BY <1>1, <1>8, <1>9, <1>10, <1>12 DEF Keeps
  <2> QED  BY <1>1, <2>1, <2>2 DEF PInv
<1>14. CurrentStays  BY <1>1 DEF CurrentStays, Missing, RowOf
<1>15. FinishedStay  BY <1>1 DEF FinishedStay
<1> QED  BY <1>13, <1>14, <1>15

LEMMA RestartKeeps ==
    ASSUME IInv, PInv, Restart
    PROVE  PInv' /\ CurrentStays /\ FinishedStay
<1>1. mem' = disk /\ disk' = disk /\ now' = now /\ stepped' = stepped  BY DEF Restart
<1>2. ~stepped' => Timely(mem)' /\ Agrees(mem)'
  BY <1>1 DEF PInv, Keeps, Timely, Dated, Agrees, Tells, RowOf
<1>3. ~stepped' => Keeps(mem)' /\ Keeps(disk)'
  BY <1>1, <1>2 DEF Keeps, KeepsFinished, KeepsCurrent
<1>4. PInv'  BY <1>1, <1>3 DEF PInv, RowsOfRecords
<1>5. CurrentStays
  BY <1>1 DEF CurrentStays, PInv, Keeps, KeepsCurrent, Missing, Outdone, RowOf
<1>6. FinishedStay
  BY <1>1 DEF FinishedStay, PInv, Keeps, KeepsFinished
<1> QED  BY <1>4, <1>5, <1>6

LEMMA NextKeeps ==
    ASSUME IInv, PInv, [Next]_vars
    PROVE  PInv' /\ CurrentStays /\ FinishedStay
<1>1. ASSUME NEW c \in Cameras, Transition(c) PROVE PInv' /\ CurrentStays /\ FinishedStay
  BY <1>1, TransitionSaves, SaveKeeps
<1>2. CASE ClockSetBack
  <2>1. mem' = mem /\ disk' = disk /\ stepped' = TRUE  BY <1>2 DEF ClockSetBack
  <2>2. PInv'  BY <2>1 DEF PInv, RowsOfRecords
  <2> QED  BY <2>1, <2>2 DEF CurrentStays, FinishedStay
<1>3. CASE UNCHANGED vars
  <2>1. mem' = mem /\ disk' = disk /\ stepped' = stepped /\ now' = now
    BY <1>3 DEF vars
  <2>2. PInv'
    BY <2>1
    DEF PInv, RowsOfRecords, Keeps, Timely, Dated, Agrees, Tells, RowOf, KeepsFinished, Finished,
        Gone, Crowded, KeepsCurrent, Missing, Outdone
  <2> QED  BY <2>1, <2>2 DEF CurrentStays, FinishedStay, Missing, RowOf
<1> QED  BY <1>1, <1>2, <1>3, DayKeeps, RestartKeeps DEF Next

LEMMA InitKeeps == Init => PInv
<1> SUFFICES ASSUME Init PROVE PInv
  OBVIOUS
<1>1. PICK status \in {"absent", "corrupt"}, old \in SUBSET Cameras, date \in {None, 0} :
        mem = [rec |-> [c \in Cameras |-> IF c \in old THEN Legacy(date, Targets) ELSE None],
               hist |-> [status |-> status, rows |-> {}]]
  BY DEF Init
<1>2. mem.hist.rows = {} /\ mem.hist.status # "ready" /\ disk = mem /\ now = 0 /\ ~stepped
      /\ stepped \in BOOLEAN
  BY <1>1 DEF Init
<1>3. Dated(Legacy(date, Targets))
  BY <1>1, <1>2, BoundsAssumption DEF Dated, Legacy
<1>4. \A d \in Cameras : mem.rec[d] # None => Dated(mem.rec[d])
  <2> DEFINE r == Legacy(date, Targets)
  <2>1. mem.rec = [c \in Cameras |-> IF c \in old THEN r ELSE None] /\ Dated(r)
    BY <1>1, <1>3
  <2> HIDE DEF r
  <2> QED  BY <2>1
<1>5. Timely(mem) /\ Agrees(mem)  BY <1>2, <1>4 DEF Timely, Agrees, RowOf
<1> QED  BY <1>2, <1>5, KeptItself DEF PInv, RowsOfRecords

\* The inductive invariant for what stays: no row is of a later generation than its
\* record; a history that cannot be read is the same on disk; and while the clock goes on,
\* both stores tell what their records tell, and what the disk lacks has gone by the bounds.
THEOREM AlwaysPInv == Spec => []PInv
<1>1. IInv /\ PInv /\ [Next]_vars => PInv'  BY NextKeeps
<1> QED  BY <1>1, InitKeeps, AlwaysIInv, PTL DEF Spec

\* capture and the save of the record are one write: rows and records never part.
THEOREM RowsTellRecords == Spec => []CurrentPeriodTold
<1>1. PInv => CurrentPeriodTold
  BY DEF PInv, Keeps, Agrees, Tells, CurrentPeriodTold, Stores
<1> QED  BY <1>1, AlwaysPInv, PTL

\* Only retain takes the row of a period that its record is still in.
THEOREM CurrentPeriodStays == Spec => CurrentPeriodKept
<1>1. IInv /\ PInv /\ [Next]_vars =>
        [\A c \in Cameras : ~stepped' /\ Missing(mem, c)' =>
           \/ Outdone(mem, c)'
           \/ Missing(mem, c) /\ mem'.rec[c] = mem.rec[c]]_vars
  BY NextKeeps DEF CurrentStays
<1> QED  BY <1>1, AlwaysPInv, AlwaysIInv, PTL DEF Spec, CurrentPeriodKept

\* Only retain takes the row of an earlier period, and nothing a history that cannot be read.
THEOREM EarlierPeriodsStay == Spec => FinishedPeriodsKept
<1>1. IInv /\ PInv /\ [Next]_vars =>
        [/\ mem.hist.status = "corrupt" => mem'.hist = mem.hist
         /\ \A row \in mem.hist.rows :
              /\ row.ended # None
              /\ mem.rec[row.cam] = None \/ row.gen # mem.rec[row.cam].gen
              => \/ row \in mem'.hist.rows
                 \/ /\ Cardinality(mem'.hist.rows) = MaxPeriods
                    /\ \A kept \in mem'.hist.rows : ~Later(row, kept)
                 \/ row.ended < now - MaxDays \/ row.ended > now
                 \/ stepped /\ disk # mem]_vars
  BY NextKeeps DEF FinishedStay, Finished, Gone, Crowded
<1> QED  BY <1>1, AlwaysPInv, AlwaysIInv, PTL DEF Spec, FinishedPeriodsKept

=============================================================================
