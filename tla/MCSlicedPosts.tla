--------------------------- MODULE MCSlicedPosts ---------------------------
(* A private post is explored in slices of Spec.  "overlap": one guest, and *)
(* writes that meet a function in flight.  "crowd": all guests, and writes  *)
(* that wait for the functions of the previous write.  "fault": one guest,  *)
(* writes that wait for all but repeated deliveries, and a fault.  In the   *)
(* first two nobody is dealt the post before the host has opened it; the    *)
(* host rejects somebody in the second only.                                *)
EXTENDS MCPosts

VARIABLE slice

Rejecting == \E g \in Guests : acceptors[g] = Rejected
WriteRaisesEvent == faults' = faults /\ Cardinality(work') > Cardinality(work)

Within ==
    /\ slice \in {"overlap", "fault"} => Cardinality(Used') <= 1 /\ ~Rejecting'
    /\ slice \in {"crowd", "fault"} /\ WriteRaisesEvent => work = Repeated
    /\ slice \in {"overlap", "crowd"} => faults' = 0 /\ (Used' = {} \/ hostScreen)

SlicedInit == Init /\ slice \in {"overlap", "crowd", "fault"}
SlicedNext == Next /\ Within /\ UNCHANGED slice
SlicedSpec == SlicedInit /\ [][SlicedNext]_<<vars, slice>>
=============================================================================
