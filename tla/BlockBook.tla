----------------------------- MODULE BlockBook -----------------------------
(***************************************************************************)
(* What blocking promises about two students, whatever calls are under way *)
(* for them: the one decides, by the own entry, and the other is told.     *)
(* Nothing is decided again before the other side has been told, nothing   *)
(* is told twice, and the other side is told just what was decided.  This  *)
(* is not promised of a pair that was set free, by a block that met an     *)
(* unblock or by a call that was cut short.  Blocking implements this.     *)
(***************************************************************************)
CONSTANT Students

VARIABLES
    own,      \* the pairs <<a, b>> where a has b under "blocked"
    other,    \* those where b has a under "blockedBy"
    free      \* those that nothing is promised of any more

vars == <<own, other, free>>

Pairs == Students \X Students

Init == own = {} /\ other = {} /\ free = {}

Toggle(entries, p) == IF p \in entries THEN entries \ {p} ELSE entries \cup {p}

Decide(p) ==
    /\ p \notin free => (p \in own <=> p \in other)
    /\ own' = Toggle(own, p)
    /\ UNCHANGED <<other, free>>

Tell(p) ==
    /\ p \notin free => ~(p \in own <=> p \in other)
    /\ other' = Toggle(other, p)
    /\ UNCHANGED <<own, free>>

SetFree(p) ==
    /\ free' = free \cup {p}
    /\ UNCHANGED <<own, other>>

Next == \E p \in Pairs : Decide(p) \/ Tell(p) \/ SetFree(p)

Spec == Init /\ [][Next]_vars
=============================================================================
