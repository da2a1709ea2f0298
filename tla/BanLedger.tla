------------------------------ MODULE BanLedger -----------------------------
(* What moderators are promised: a user is under one ban or none, a ban is    *)
(* imposed on a user who is under none, lifting it or its expiry ends it, and *)
(* a ban that has ended never comes back.                                     *)
CONSTANTS Users, Bans, NoBan, Deleted

VARIABLES current,   \* the ban a user is under
          used       \* the bans that were ever recorded

Init == current = [u \in Users |-> NoBan] /\ used = {}

\* POST /users/{user_id}/bans
Impose(u, b) ==
    /\ current[u] = NoBan
    /\ b \notin used
    /\ current' = [current EXCEPT ![u] = b]
    /\ used' = used \cup {b}

\* A ban whose expiry date has passed before it is recorded has no effect.
Record(b) ==
    /\ b \notin used
    /\ used' = used \cup {b}
    /\ UNCHANGED current

\* PATCH /users/bans/{ban_id}/deactivate
Lift(u) ==
    /\ current[u] \in Bans
    /\ current' = [current EXCEPT ![u] = NoBan]
    /\ UNCHANGED used

\* The expiry date of the bans of some users passes.
Lapse(S) ==
    /\ \A u \in S : current[u] \in Bans
    /\ current' = [u \in Users |-> IF u \in S THEN NoBan ELSE current[u]]
    /\ UNCHANGED used

\* A deleted user is never a user again.
Delete(u) ==
    /\ current[u] # Deleted
    /\ current' = [current EXCEPT ![u] = Deleted]
    /\ UNCHANGED used

Next ==
    \/ \E u \in Users, b \in Bans : Impose(u, b)
    \/ \E b \in Bans : Record(b)
    \/ \E u \in Users : Lift(u)
    \/ \E S \in SUBSET Users : Lapse(S)
    \/ \E u \in Users : Delete(u)

Spec == Init /\ [][Next]_<<current, used>>
=============================================================================
