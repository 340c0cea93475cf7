--------------------------- MODULE ScheduleWindows ---------------------------
(***************************************************************************)
(* When a schedule is in force: schedule_in_window, which decides at every *)
(* tick from the local weekday and the minute of the day, against what a   *)
(* window is: it opens on each of its days and stays open for its length,  *)
(* past midnight and past the end of the week.                             *)
(***************************************************************************)
EXTENDS Integers, TLAPS

Days == 1..7          \* isoweekday: Monday is 1
Minutes == 0..1439    \* of a day
Week == 7 * 1440

\* _normalize_schedule clamps hours and minutes, so that a window cannot end at 24:00:
\* one that lasts until midnight ends at 0.
Clamp(low, high, n) == IF n < low THEN low ELSE IF n > high THEN high ELSE n
MinuteOf(hour, min) == 60 * Clamp(0, 23, hour) + Clamp(0, 59, min)
Schedules == [days : SUBSET Days, from : Minutes, to : Minutes, enabled : BOOLEAN]

\* schedule_in_window
DayBefore(day) == IF day = 1 THEN 7 ELSE day - 1
InWindow(s, day, minute) ==
    IF s.to > s.from
    THEN day \in s.days /\ s.from <= minute /\ minute < s.to
    ELSE \/ day \in s.days /\ minute >= s.from
         \/ DayBefore(day) \in s.days /\ minute < s.to

\* async_tick: the schedules that are in force.
Active(schedules, day, minute) ==
    {i \in DOMAIN schedules : schedules[i].enabled /\ InWindow(schedules[i], day, minute)}

-----------------------------------------------------------------------------
(* What a window is.                                                        *)

\* A window that ends when it begins lasts a whole day.
Length(s) == IF s.to > s.from THEN s.to - s.from ELSE 1440 + s.to - s.from

\* The minutes from an opening on day d to the present, in a week that repeats.
Since(s, d, day, minute) == (1440 * (day - d) + minute - s.from) % Week

Covers(s, day, minute) == \E d \in s.days : Since(s, d, day, minute) < Length(s)

\* The minute after this one.
NextDay(day, minute) == IF minute = 1439 THEN (day % 7) + 1 ELSE day
NextMinute(minute) == (minute + 1) % 1440

-----------------------------------------------------------------------------
\* What the clamping leaves is a minute of the day, whatever was stored.
LEMMA ClampedIsMinute ==
    ASSUME NEW hour \in Int, NEW min \in Int
    PROVE  MinuteOf(hour, min) \in Minutes
  BY DEF MinuteOf, Minutes, Clamp

\* A difference of minutes within a week of each other, counted round the week.
LEMMA InOneWeek ==
    ASSUME NEW x \in Int, x > -10080, x < 10080
    PROVE  x % 10080 = IF x >= 0 THEN x ELSE x + 10080
  OBVIOUS

\* An opening on day d lies in the past by as many minutes as Since says: none of the
\* seven days is confused with another at midnight or at the turn of the week.
LEMMA OneOpening ==
    ASSUME NEW s \in Schedules, NEW d \in Days, NEW day \in Days, NEW minute \in Minutes
    PROVE  Since(s, d, day, minute) < Length(s) <=>
              IF s.to > s.from
              THEN d = day /\ s.from <= minute /\ minute < s.to
              ELSE \/ d = day /\ minute >= s.from
                   \/ d = DayBefore(day) /\ minute < s.to
<1>1. PICK a \in 0..1439 : a = s.from  BY DEF Schedules, Minutes
<1>2. PICK b \in 0..1439 : b = s.to  BY DEF Schedules, Minutes
<1>3. minute \in 0..1439 /\ d \in 1..7 /\ day \in 1..7  BY DEF Minutes, Days
<1>4. PICK x \in Int : x = 1440 * (day - d) + minute - a  BY <1>3
<1>5. x > -10080 /\ x < 10080  BY <1>3, <1>4
<1>6. Since(s, d, day, minute) = x % 10080  BY <1>1, <1>4 DEF Since, Week
<1>7. Since(s, d, day, minute) = IF x >= 0 THEN x ELSE x + 10080
  BY <1>5, <1>6, InOneWeek
<1>8. Length(s) = IF b > a THEN b - a ELSE 1440 + b - a  BY <1>1, <1>2 DEF Length
<1>9. (IF x >= 0 THEN x ELSE x + 10080) < (IF b > a THEN b - a ELSE 1440 + b - a) <=>
        IF b > a THEN d = day /\ a <= minute /\ minute < b
        ELSE \/ d = day /\ minute >= a
             \/ d = DayBefore(day) /\ minute < b
  <2>1. CASE d = day  BY <1>3, <1>4, <2>1 DEF DayBefore
  <2>2. CASE d < day  BY <1>3, <1>4, <2>2 DEF DayBefore
  <2>3. CASE d > day  BY <1>3, <1>4, <2>3 DEF DayBefore
  <2> QED  BY <1>3, <2>1, <2>2, <2>3
<1> QED  BY <1>1, <1>2, <1>7, <1>8, <1>9

\* The scheduler's test, which looks at two weekdays only, agrees with what a window is,
\* for all days, beginnings, ends and minutes of the week.
THEOREM WindowIsCovered ==
    ASSUME NEW s \in Schedules, NEW day \in Days, NEW minute \in Minutes
    PROVE  InWindow(s, day, minute) <=> Covers(s, day, minute)
<1>1. s.days \subseteq Days  BY DEF Schedules
<1>2. DayBefore(day) \in Days  BY DEF DayBefore, Days
<1>3. ASSUME InWindow(s, day, minute)
      PROVE  Covers(s, day, minute)
  <2>1. \E d \in s.days : Since(s, d, day, minute) < Length(s)
    BY <1>1, <1>2, <1>3, OneOpening DEF InWindow
  <2> QED  BY <2>1 DEF Covers
<1>4. ASSUME Covers(s, day, minute)
      PROVE  InWindow(s, day, minute)
  <2>1. PICK d \in s.days : Since(s, d, day, minute) < Length(s)  BY <1>4 DEF Covers
  <2> QED  BY <1>1, <2>1, OneOpening DEF InWindow
<1> QED  BY <1>3, <1>4

\* Privacy does not lapse in the minute at which one window ends and the next begins:
\* where the second window begins when the first ends, some schedule is in force in the
\* minute after every minute of the first.
THEOREM NoLapseBetweenWindows ==
    ASSUME NEW s \in Schedules, NEW r \in Schedules, NEW day \in Days, NEW minute \in Minutes,
           InWindow(s, day, minute), r.from = s.to,
           NextDay(day, minute) \in r.days
    PROVE  \/ InWindow(s, NextDay(day, minute), NextMinute(minute))
           \/ InWindow(r, NextDay(day, minute), NextMinute(minute))
<1>1. /\ s.from \in 0..1439 /\ s.to \in 0..1439 /\ r.to \in 0..1439
      /\ minute \in 0..1439 /\ day \in 1..7
  BY DEF Schedules, Minutes, Days
<1>2. CASE minute = 1439
  <2>1. NextMinute(minute) = 0  BY <1>2 DEF NextMinute
  <2>2. DayBefore(NextDay(day, minute)) = day  BY <1>1, <1>2 DEF NextDay, DayBefore
  <2> QED  BY <1>1, <1>2, <2>1, <2>2 DEF InWindow
<1>3. CASE minute # 1439
  <2>1. NextMinute(minute) = minute + 1 /\ NextDay(day, minute) = day
    BY <1>1, <1>3 DEF NextMinute, NextDay
  <2>2. PICK a \in 0..1439 : a = s.from  BY <1>1
  <2>3. PICK b \in 0..1439 : b = s.to  BY <1>1
  <2>4. CASE minute + 1 = b  BY <1>1, <2>1, <2>3, <2>4 DEF InWindow
  <2>5. CASE minute + 1 # b
    <3>1. InWindow(s, day, minute + 1)
      BY <1>1, <1>3, <2>2, <2>3, <2>5 DEF InWindow
    <3> QED  BY <2>1, <3>1
  <2> QED  BY <2>4, <2>5
<1> QED  BY <1>2, <1>3
=============================================================================
