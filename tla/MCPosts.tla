------------------------------ MODULE MCPosts ------------------------------
(* Small instances of Posts for TLC.                                       *)
EXTENDS Posts, TLC

\* Guests run the same program and are interchangeable in the safety runs.
GuestSymmetry == Permutations(Guests)

Used == {s \in Guests \X Slots : swipes[s[1]][s[2]].pc # "none"}
Repeated == {w \in work : w.delivery > 1}

\* A public post is explored whole, but for a second card that is dealt, or in use,
\* while a repeated delivery is in flight.
OneCardIfRepeated == Repeated' # {} => Cardinality(Used') <= 1
=============================================================================
