-------------------------- MODULE ConfirmedRequest --------------------------
(***************************************************************************)
(* What the card promises about the result of a request, without cameras,  *)
(* sessions, polls or connections: one request at a time; while its result *)
(* is awaited nothing else is told; success is told only of the request    *)
(* that is outstanding, when it was carried out in full; what has been     *)
(* told is only ever forgotten or replaced by a new request.               *)
(***************************************************************************)

VARIABLES
    stage,  \* of the request that is outstanding
    told    \* to the user

Stages == {"idle", "asked", "done", "doubtful"}
Results == {"success", "doubt"}
Told == Results \cup {"nothing", "pending"}

Init == stage = "idle" /\ told = "nothing"

\* A result that was awaited when the card lost sight of its request blocks the next one.
Ask == stage = "idle" /\ told # "pending" /\ stage' = "asked" /\ told' = "pending"

\* The request is carried out in full, or not, or nobody knows.
Act == stage = "asked" /\ stage' \in {"done", "doubtful"} /\ UNCHANGED told

Tell(result) ==
    /\ told = "pending"
    /\ stage \in (IF result = "success" THEN {"done"} ELSE {"done", "doubtful"})
    /\ stage' = "idle" /\ told' = result

\* Nobody is told, be it that there is nobody to be told.
Settle == stage \in {"done", "doubtful"} /\ stage' = "idle" /\ told' \in {told, "nothing"}

Forget == told' = "nothing" /\ UNCHANGED stage

Next == Ask \/ Act \/ (\E result \in Results : Tell(result)) \/ Settle \/ Forget

Spec == Init /\ [][Next]_<<stage, told>>
=============================================================================
