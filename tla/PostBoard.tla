----------------------------- MODULE PostBoard -----------------------------
(***************************************************************************)
(* What Tagmate promises about an activity, whatever functions and apps    *)
(* are at work behind it: how its status may change, that its guest list   *)
(* only grows, that it is dealt to decks and shown on dashboards only      *)
(* after it was created, and on a guest's dashboard only if the guest is   *)
(* on the list.  Posts implements this.  It does not promise that a post   *)
(* leaves the decks or the dashboards for good.                            *)
(***************************************************************************)
EXTENDS Integers

CONSTANT Guests

VARIABLES
    status,    \* NoPost before the post exists, then the status field
    listed,    \* the guests with an entry in confirmedGuests
    dealt,     \* is there a live copy
    shown      \* the guests with the post on their dashboard

vars == <<status, listed, dealt, shown>>

NoPost == -1
Open == 0
Closed == 1
Done == 2
Cancelled == 3

Init == status = NoPost /\ listed = {} /\ dealt = FALSE /\ shown = {}

Create ==
    /\ status = NoPost
    /\ status' = Open
    /\ UNCHANGED <<listed, dealt, shown>>

\* The host closes the list of an open post, marks a closed post as done, and
\* removes any post.  "Mark as Done" may overtake a removal, and be overtaken.
Moves == {<<Open, Closed>>, <<Open, Cancelled>>, <<Closed, Done>>,
          <<Closed, Cancelled>>, <<Done, Cancelled>>, <<Cancelled, Done>>}

Move ==
    /\ <<status, status'>> \in Moves
    /\ UNCHANGED <<listed, dealt, shown>>

List(g) ==
    /\ status # NoPost
    /\ g \notin listed
    /\ listed' = listed \cup {g}
    /\ UNCHANGED <<status, dealt, shown>>

Deal ==
    /\ status # NoPost
    /\ dealt' = ~dealt
    /\ UNCHANGED <<status, listed, shown>>

Show ==
    /\ shown' \subseteq listed
    /\ UNCHANGED <<status, listed, dealt>>

Next == Create \/ Move \/ Deal \/ Show \/ \E g \in Guests : List(g)

Spec == Init /\ [][Next]_vars
=============================================================================
