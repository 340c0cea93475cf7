------------------------------ MODULE Deadlines ------------------------------
(***************************************************************************)
(* The deadline of a timed pause as the card tells it and as the scheduler *)
(* acts on it.  Instants are microseconds: the integration stores and      *)
(* compares them so, the browser reads the stored time and its clock in    *)
(* milliseconds and tells minutes.                                         *)
(***************************************************************************)
EXTENDS Integers, TLAPS

\* ends_at: a time, none, or something that is not a time.
Ends == [kind : {"timed", "untimed", "invalid"}, at : Int]

-----------------------------------------------------------------------------
(* The card.                                                                *)

\* Date.parse, Date.now
Milliseconds(t) == t \div 1000
Ceil(n, d) == -((-n) \div d)

\* _countdownText
MinutesLeft(end, now) == Ceil(Milliseconds(end) - Milliseconds(now), 60000)
Hours(minutes) == minutes \div 60
Rest(minutes) == minutes % 60
Told(end, now) ==
    IF end.kind # "timed" THEN end.kind
    ELSE IF MinutesLeft(end.at, now) <= 0 THEN "awaiting" ELSE "remaining"

-----------------------------------------------------------------------------
(* The scheduler: of the condition for resuming, the part about time.       *)

Due(end, now) == end.kind = "timed" /\ now >= end.at

-----------------------------------------------------------------------------
\* Counting in milliseconds keeps the order of instants, up to a millisecond.
LEMMA MillisecondsKeepOrder ==
    ASSUME NEW a \in Int, NEW b \in Int
    PROVE  /\ Milliseconds(a) \in Int
           /\ a <= b => Milliseconds(a) <= Milliseconds(b)
           /\ Milliseconds(a) <= Milliseconds(b) => a < b + 1000
  BY DEF Milliseconds

\* Math.ceil: the least number of whole minutes.
LEMMA CeilIsLeast ==
    ASSUME NEW n \in Int
    PROVE  /\ Ceil(n, 60000) \in Int
           /\ n <= 60000 * Ceil(n, 60000) /\ 60000 * Ceil(n, 60000) < n + 60000
  BY DEF Ceil

\* The card says that it awaits the integration when, and at most a millisecond before,
\* the scheduler's condition for resuming holds: it never promises time that has run out.
THEOREM AwaitingIsDue ==
    ASSUME NEW end \in Ends, NEW now \in Int
    PROVE  /\ Due(end, now) => Told(end, now) = "awaiting"
           /\ Told(end, now) = "awaiting" => Due(end, now + 999)
<1>1. PICK at \in Int : at = end.at  BY DEF Ends
<1>2. PICK n \in Int : n = Milliseconds(at) - Milliseconds(now)
  BY MillisecondsKeepOrder
<1>3. MinutesLeft(at, now) <= 0 <=> n <= 0  BY <1>2, CeilIsLeast DEF MinutesLeft
<1>4. n <= 0 <=> Milliseconds(at) <= Milliseconds(now)  BY <1>2, MillisecondsKeepOrder
<1>5. Told(end, now) = "awaiting" <=> end.kind = "timed" /\ n <= 0
  BY <1>1, <1>3 DEF Told, Ends
<1>6. (at <= now => n <= 0) /\ (n <= 0 => at <= now + 999)
  BY <1>4, MillisecondsKeepOrder
<1> QED  BY <1>1, <1>5, <1>6 DEF Due

\* While it counts down, the time told is not less than the time that is left and more
\* by under a minute; hours and minutes add up to it.
THEOREM CountdownIsClose ==
    ASSUME NEW end \in Ends, NEW now \in Int, Told(end, now) = "remaining"
    PROVE  LET told == 60 * Hours(MinutesLeft(end.at, now)) + Rest(MinutesLeft(end.at, now))
               left == Milliseconds(end.at) - Milliseconds(now)
           IN  /\ left <= 60000 * told /\ 60000 * told < left + 60000
               /\ Rest(MinutesLeft(end.at, now)) \in 0..59 /\ told >= 1
<1>1. end.kind \in {"timed", "untimed", "invalid"} /\ end.at \in Int  BY DEF Ends
<1>2. PICK n \in Int : n = Milliseconds(end.at) - Milliseconds(now)
  BY <1>1, MillisecondsKeepOrder
<1>3. PICK m \in Int : m = Ceil(n, 60000)  BY <1>2, CeilIsLeast
<1>4. MinutesLeft(end.at, now) = m  BY <1>2, <1>3 DEF MinutesLeft
<1>5. n <= 60000 * m /\ 60000 * m < n + 60000  BY <1>3, CeilIsLeast
<1>6. m >= 1  BY <1>1, <1>4 DEF Told
<1>7. 60 * Hours(m) + Rest(m) = m /\ Rest(m) \in 0..59  BY DEF Hours, Rest
<1> QED  BY <1>2, <1>4, <1>5, <1>6, <1>7
=============================================================================
