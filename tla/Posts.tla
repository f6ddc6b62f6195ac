------------------------------- MODULE Posts -------------------------------
(***************************************************************************)
(* One activity ("post") of Tagmate, from its creation to its end.         *)
(*                                                                         *)
(* The post itself lives at networks/N/allPosts/P.  Three kinds of copies  *)
(* of it are kept by Cloud Functions that run when the post changes: the   *)
(* live copy every student's deck is dealt from, the copy on the host's    *)
(* dashboard, and one copy on the dashboard of each confirmed guest.  A    *)
(* function is handed the post as it was when the event fired, runs at any *)
(* later time, concurrently with every other function, and makes several   *)
(* database writes; the client apps of the host and of the guests write to *)
(* the post in the meantime.                                               *)
(*                                                                         *)
(* Each action is one atomic database operation.  A function in flight is  *)
(* a member of "work": the step it is about to make, the snapshot it was   *)
(* handed, and the guests it has read.  acceptorIds is kept apart from the *)
(* snapshot, because no function looks at the acceptors of a snapshot.     *)
(* Names and pictures are left out; the writes that fill them in are not,  *)
(* for they start functions too.  Two functions in flight that are at the  *)
(* same step with the same snapshot count as one.                          *)
(***************************************************************************)
EXTENDS Integers, FiniteSets

CONSTANTS
    Guests,       \* the students other than the host
    Slots,        \* the cards of this post one student may be dealt
    PublicPost,   \* the publicPost flag chosen by the host
    MaxEdits,     \* bound: edits of the details by the host
    MaxWork,      \* bound: functions in flight when a client writes
    MaxFaults,    \* bound: killed functions and apps, repeated deliveries
    NoCopy        \* the value of a copy that is not there

ASSUME GuestsAssumption == IsFiniteSet(Guests) /\ IsFiniteSet(Slots)
ASSUME FlagAssumption == PublicPost \in BOOLEAN
ASSUME BoundsAssumption == {MaxEdits, MaxWork, MaxFaults} \subseteq Nat

\* The status field of a post.
Open == 0
Closed == 1
Done == 2
Cancelled == 3
Status == {Open, Closed, Done, Cancelled}

\* The guestStatus field of an entry of acceptorIds or of confirmedGuests.
NoEntry == -1
Undecided == 0
Going == 1
Rejected == 2
OptedOut == 3

Acceptance == {NoEntry, Undecided, Going, Rejected}
Membership == {NoEntry, Going, OptedOut}

\* What a function or a copy sees of the post.
Post == [status : Status, interestedCount : Nat, confirmedCount : Nat,
         details : Nat, confirmedGuests : [Guests -> Membership]]

ASSUME NoCopyAssumption == NoCopy \notin Post

NewPost == [status |-> Open, interestedCount |-> 0, confirmedCount |-> 0,
            details |-> 0, confirmedGuests |-> [g \in Guests |-> NoEntry]]

Members(p) == {g \in Guests : p.confirmedGuests[g] # NoEntry}

\* Bug: the guest list of a function is everybody.
GoingToEverybody(p) == Guests
GoingTo(p) == {g \in Guests : p.confirmedGuests[g] = Going}

\* Bug: guests the host accepts are not counted.
AcceptWritesUncounted == {"acceptorIds", "confirmedGuests"}

\* The writes of addAcceptor, in the order in which they are issued.
JoinWrites ==
    {"acceptorIds", "interestedCount", "acceptorName"}
        \cup (IF PublicPost THEN {"confirmedGuests", "confirmedCount", "guestName"} ELSE {})
\* The writes of acceptGuest.
AcceptWrites == {"acceptorIds", "confirmedGuests", "confirmedCount"}

Swipe == [pc : {"none", "card", "refused", "joining", "lost"}, todo : SUBSET JoinWrites]

Steps == {"addLive", "update", "host", "guests", "read", "erase", "confirm", "copy"}
FirstSteps == {"addLive", "update", "confirm", "read"}
Work == [pc : Steps, snap : Post, who : SUBSET Guests, delivery : Nat \ {0}]

VARIABLES
    post,         \* networks/N/allPosts/P, without acceptorIds
    acceptors,    \* the guestStatus of every entry of acceptorIds
    livePost,     \* networks/N/livePosts/P
    hostPost,     \* users/H/posts/host/P
    guestPosts,   \* users/G/posts/guest/P, for every guest G
    work,         \* the functions in flight
    calm,         \* history: nothing was in flight at the last write to the post, and
                  \* no function of that write was lost
    creating,     \* how far createNewPost has come
    hostScreen,   \* has the host opened the post from the dashboard
    accepting,    \* writes of acceptGuest not yet made, per guest
    cancelling,   \* has the host's copy to be removed yet
    doneCall,     \* a call of markRequestDone not yet executed
    swipes,       \* the cards of each student and what became of them
    leaving,      \* has the copy of a guest who opts out to be removed yet
    faults        \* faults injected so far

copies == <<livePost, hostPost, guestPosts>>
hostVars == <<creating, hostScreen, accepting, cancelling, doneCall>>
guestVars == <<swipes, leaving>>
vars == <<post, acceptors, copies, work, calm, hostVars, guestVars, faults>>

Init ==
    /\ post = NewPost
    /\ acceptors = [g \in Guests |-> NoEntry]
    /\ livePost = NoCopy
    /\ hostPost = NoCopy
    /\ guestPosts = [g \in Guests |-> NoCopy]
    /\ work = {}
    /\ calm = TRUE
    /\ creating = "none"
    /\ hostScreen = FALSE
    /\ accepting = [g \in Guests |-> {}]
    /\ cancelling = FALSE
    /\ doneCall = FALSE
    /\ swipes = [g \in Guests |-> [k \in Slots |-> [pc |-> "none", todo |-> {}]]]
    /\ leaving = [g \in Guests |-> FALSE]
    /\ faults = 0

-----------------------------------------------------------------------------
(* Writing to the post, and the events that a write raises.                *)

Task(pc, snap, who) == [pc |-> pc, snap |-> snap, who |-> who, delivery |-> 1]

\* The functions started by an update that leaves the post as p: manageLivePosts
\* always, manageDonePosts with something to do only when the post is over.
Updated(p) ==
    {Task("update", p, {})} \cup (IF p.status > 1 THEN {Task("read", p, {})} ELSE {})

\* A write raises an event, or none if it writes the value that is there.
Event(raised) ==
    calm' = IF raised THEN work = {} /\ creating = "made" ELSE calm

\* A write that makes the post p.
WritePost(p) ==
    /\ post' = p
    /\ work' = work \cup (IF p = post THEN {} ELSE Updated(p))
    /\ Event(p # post)

\* Bug: onConfirmGuest is not started.
WriteGuestQuietly(g, s) == WritePost([post EXCEPT !.confirmedGuests[g] = s])

\* The entry of g in confirmedGuests is set to s; onConfirmGuest runs if it is new.
WriteGuest(g, s) ==
    LET p == [post EXCEPT !.confirmedGuests[g] = s] IN
    /\ post' = p
    /\ work' = work \cup (IF p = post THEN {} ELSE Updated(p))
                    \cup (IF g \in Members(post) THEN {} ELSE {Task("confirm", p, {g})})
    /\ Event(p # post)

\* The entry of g in acceptorIds is set to s.
WriteAcceptor(g, s) ==
    /\ acceptors' = [acceptors EXCEPT ![g] = s]
    /\ work' = work \cup (IF acceptors[g] = s THEN {} ELSE Updated(post))
    /\ Event(acceptors[g] # s)
    /\ UNCHANGED post

\* Bugs: the counter is read before it is written, by clients that all read 0;
\* it counts down.
IncrementFromZero(counter) ==
    WritePost(IF counter = "interestedCount" THEN [post EXCEPT !.interestedCount = 1]
              ELSE [post EXCEPT !.confirmedCount = 1])
Decrement(counter) ==
    WritePost(IF counter = "interestedCount" THEN [post EXCEPT !.interestedCount = @ - 1]
              ELSE [post EXCEPT !.confirmedCount = @ - 1])

\* A transaction on one of the two counters of the post.
Increment(counter) ==
    WritePost(IF counter = "interestedCount"
              THEN [post EXCEPT !.interestedCount = @ + 1]
              ELSE [post EXCEPT !.confirmedCount = @ + 1])

\* A name and a picture are added to an entry of acceptorIds or confirmedGuests.
FillName == work' = work \cup Updated(post) /\ Event(TRUE) /\ UNCHANGED post

Created == creating # "none"
RoomForWork == Cardinality(work) < MaxWork

\* update(snap) on a copy: the keys of snap replace those of the copy.  A post
\* without confirmed guests has no key confirmedGuests, so that of the copy stays.
Merge(copy, snap) ==
    IF copy # NoCopy /\ Members(snap) = {}
    THEN [snap EXCEPT !.confirmedGuests = copy.confirmedGuests]
    ELSE snap

-----------------------------------------------------------------------------
(* createNewPost and the host's app.                                       *)

\* createNewPost writes the post; addLivePosts is started.
CreatePost ==
    /\ creating = "none"
    /\ creating' = "hostCopy"
    /\ work' = work \cup {Task("addLive", post, {})}
    /\ calm' = TRUE
    /\ UNCHANGED <<post, acceptors, copies, hostScreen, accepting, cancelling, doneCall,
                   guestVars, faults>>

\* Its second write: the host's copy is updated with the post as it was created.
CreateHostCopy ==
    /\ creating = "hostCopy"
    /\ creating' = "made"
    /\ hostPost' = Merge(hostPost, NewPost)
    /\ UNCHANGED <<post, acceptors, livePost, guestPosts, work, calm, hostScreen,
                   accepting, cancelling, doneCall, guestVars, faults>>

\* The host opens the post from the dashboard.  The screen stays open: nothing
\* navigates away from it when the post is removed.
OpenScreen ==
    /\ hostPost # NoCopy
    /\ ~hostScreen
    /\ hostScreen' = TRUE
    /\ UNCHANGED <<post, acceptors, copies, work, calm, creating, accepting, cancelling,
                   doneCall, guestVars, faults>>

\* The plain writes of the host's app reach the database in the order of issue.
HostIdle == \A g \in Guests : accepting[g] \subseteq {"confirmedCount"}

EditDetails ==
    /\ hostScreen /\ HostIdle /\ RoomForWork
    /\ post.details < MaxEdits
    /\ WritePost([post EXCEPT !.details = @ + 1])
    /\ UNCHANGED <<acceptors, copies, hostVars, guestVars, faults>>

\* The button is there only while the screen shows an open post.
CloseGuestList ==
    /\ hostScreen /\ HostIdle /\ RoomForWork
    /\ post.status = Open
    /\ WritePost([post EXCEPT !.status = Closed])
    /\ UNCHANGED <<acceptors, copies, hostVars, guestVars, faults>>

\* Bug: the guest list is still managed when it is closed.
GuestListShownLate == hostScreen /\ ~PublicPost

\* The guest list of a private post is managed while the post is open.
GuestListShown == hostScreen /\ ~PublicPost /\ post.status = Open

AcceptGuest(g) ==
    /\ GuestListShown
    /\ acceptors[g] = Undecided /\ accepting[g] = {}
    /\ accepting' = [accepting EXCEPT ![g] = AcceptWrites]
    /\ UNCHANGED <<post, acceptors, copies, work, calm, creating, hostScreen, cancelling,
                   doneCall, guestVars, faults>>

AcceptAllGuests ==
    LET waiting == {g \in Guests : acceptors[g] = Undecided /\ accepting[g] = {}} IN
    /\ GuestListShown
    /\ waiting # {}
    /\ accepting' = [g \in Guests |-> IF g \in waiting THEN AcceptWrites ELSE accepting[g]]
    /\ UNCHANGED <<post, acceptors, copies, work, calm, creating, hostScreen, cancelling,
                   doneCall, guestVars, faults>>

\* One of the three writes of acceptGuest reaches the database: the two plain
\* ones in order, the transaction at any time after them.
AcceptWrite(g) ==
    /\ RoomForWork
    /\ \/ /\ "acceptorIds" \in accepting[g]
          /\ accepting' = [accepting EXCEPT ![g] = @ \ {"acceptorIds"}]
          /\ WriteAcceptor(g, Going)
       \/ /\ "acceptorIds" \notin accepting[g]
          /\ "confirmedGuests" \in accepting[g]
          /\ accepting' = [accepting EXCEPT ![g] = @ \ {"confirmedGuests"}]
          /\ WriteGuest(g, Going)
          /\ UNCHANGED acceptors
       \/ /\ accepting[g] = {"confirmedCount"}
          /\ accepting' = [accepting EXCEPT ![g] = {}]
          /\ Increment("confirmedCount")
          /\ UNCHANGED acceptors
    /\ UNCHANGED <<copies, creating, hostScreen, cancelling, doneCall, guestVars, faults>>

\* The reject button of an undecided guest; and blockedListener, which rejects
\* whoever the host blocks while the list is on screen, listed or not.
RejectGuest(g) ==
    /\ GuestListShown /\ HostIdle /\ RoomForWork
    /\ WriteAcceptor(g, Rejected)
    /\ UNCHANGED <<copies, hostVars, guestVars, faults>>

\* Bug: "Mark as Done" is offered for an open post as well.
MarkDoneAnytime ==
    /\ hostScreen
    /\ post.status \in {Open, Closed}
    /\ ~doneCall
    /\ doneCall' = TRUE
    /\ UNCHANGED <<post, acceptors, copies, work, calm, creating, hostScreen, accepting,
                   cancelling, guestVars, faults>>

\* "Mark as Done" is offered for a closed post; it calls markRequestDone.
MarkDone ==
    /\ hostScreen
    /\ post.status = Closed
    /\ ~doneCall
    /\ doneCall' = TRUE
    /\ UNCHANGED <<post, acceptors, copies, work, calm, creating, hostScreen, accepting,
                   cancelling, guestVars, faults>>

\* The function writes the status, whatever the status has become.
MarkRequestDone ==
    /\ doneCall /\ RoomForWork
    /\ doneCall' = FALSE
    /\ WritePost([post EXCEPT !.status = Done])
    /\ UNCHANGED <<acceptors, copies, creating, hostScreen, accepting, cancelling,
                   guestVars, faults>>

\* "Remove" is offered whatever the status.
CancelPost ==
    /\ hostScreen /\ HostIdle /\ RoomForWork
    /\ ~cancelling
    /\ cancelling' = TRUE
    /\ WritePost([post EXCEPT !.status = Cancelled])
    /\ UNCHANGED <<acceptors, copies, creating, hostScreen, accepting, doneCall,
                   guestVars, faults>>

DeleteHostCopy ==
    /\ cancelling
    /\ cancelling' = FALSE
    /\ hostPost' = NoCopy
    /\ UNCHANGED <<post, acceptors, livePost, guestPosts, work, calm, creating, hostScreen,
                   accepting, doneCall, guestVars, faults>>

-----------------------------------------------------------------------------
(* The guests' apps.                                                       *)

SetSwipe(g, k, pc, todo) ==
    swipes' = [swipes EXCEPT ![g][k] = [pc |-> pc, todo |-> todo]]

\* The deck deals a card of the live post; refreshing the deck deals another.
DealCard(g, k) ==
    /\ livePost # NoCopy
    /\ swipes[g][k].pc = "none"
    /\ SetSwipe(g, k, "card", {})
    /\ UNCHANGED <<post, acceptors, copies, work, calm, hostVars, leaving, faults>>

\* The deck hears that the live post is gone, and takes the card away.
WithdrawCard(g, k) ==
    /\ livePost = NoCopy
    /\ swipes[g][k].pc = "card"
    /\ SetSwipe(g, k, "none", {})
    /\ UNCHANGED <<post, acceptors, copies, work, calm, hostVars, leaving, faults>>

\* A right swipe: alreadyAccepted reads acceptorIds, and addAcceptor is called
\* if the student is not there.
SwipeRight(g, k) ==
    /\ swipes[g][k].pc = "card"
    /\ \/ /\ acceptors[g] = NoEntry
          /\ SetSwipe(g, k, "joining", JoinWrites)
       \/ /\ acceptors[g] # NoEntry
          /\ SetSwipe(g, k, "refused", {})
    /\ UNCHANGED <<post, acceptors, copies, work, calm, hostVars, leaving, faults>>

\* A write of addAcceptor reaches the database: the plain writes in order, the
\* transactions and the two writes of the name at any time after them.
JoinWrite(g, k) ==
    LET todo == swipes[g][k].todo IN
    /\ swipes[g][k].pc = "joining"
    /\ RoomForWork
    /\ \/ /\ "acceptorIds" \in todo
          /\ SetSwipe(g, k, "joining", todo \ {"acceptorIds"})
          /\ WriteAcceptor(g, Undecided)
       \/ /\ "acceptorIds" \notin todo
          /\ "confirmedGuests" \in todo
          /\ SetSwipe(g, k, "joining", todo \ {"confirmedGuests"})
          /\ WriteGuest(g, Going)
          /\ UNCHANGED acceptors
       \/ \E counter \in todo \cap {"confirmedCount", "interestedCount"} :
            /\ {"acceptorIds", "confirmedGuests"} \cap todo = {}
            /\ SetSwipe(g, k, "joining", todo \ {counter})
            /\ Increment(counter)
            /\ UNCHANGED acceptors
       \/ \E name \in todo \cap {"acceptorName", "guestName"} :
            /\ {"acceptorIds", "confirmedGuests"} \cap todo = {}
            /\ name = "guestName" => "acceptorName" \notin todo
            /\ SetSwipe(g, k, "joining", todo \ {name})
            /\ FillName
            /\ UNCHANGED acceptors
    /\ UNCHANGED <<copies, hostVars, leaving, faults>>

\* Bug: opting out removes the entry.
OptOutEntirely(g) ==
    /\ guestPosts[g] # NoCopy /\ ~leaving[g] /\ RoomForWork
    /\ leaving' = [leaving EXCEPT ![g] = TRUE]
    /\ WriteGuest(g, NoEntry)
    /\ UNCHANGED <<acceptors, copies, hostVars, swipes, faults>>

\* A guest with the post on the dashboard opts out.
OptOut(g) ==
    /\ guestPosts[g] # NoCopy
    /\ ~leaving[g]
    /\ RoomForWork
    /\ leaving' = [leaving EXCEPT ![g] = TRUE]
    /\ WriteGuest(g, OptedOut)
    /\ UNCHANGED <<acceptors, copies, hostVars, swipes, faults>>

DeleteGuestCopy(g) ==
    /\ leaving[g]
    /\ leaving' = [leaving EXCEPT ![g] = FALSE]
    /\ guestPosts' = [guestPosts EXCEPT ![g] = NoCopy]
    /\ UNCHANGED <<post, acceptors, livePost, hostPost, work, calm, hostVars, swipes,
                   faults>>

-----------------------------------------------------------------------------
(* The Cloud Functions.                                                    *)

\* Function w goes on to the steps in "next", or ends if there are none.
Proceed(w, next) == work' = (work \ {w}) \cup next

\* Bugs: addLivePosts looks for closed posts; manageLivePosts keeps the live copy
\* of every post, or of closed ones; it takes closed posts for open ones.
AddLiveClosed(w) ==
    /\ w.pc = "addLive"
    /\ livePost' = IF w.snap.status = Closed THEN Merge(livePost, w.snap) ELSE livePost
    /\ Proceed(w, {})
    /\ UNCHANGED <<hostPost, guestPosts>>
ManageLiveAlways(w) ==
    /\ w.pc = "update"
    /\ livePost' = Merge(livePost, w.snap)
    /\ Proceed(w, {[w EXCEPT !.pc = "host"]})
    /\ UNCHANGED <<hostPost, guestPosts>>
ManageLiveClosed(w) ==
    /\ w.pc = "update"
    /\ livePost' = IF w.snap.status > 1 THEN NoCopy ELSE Merge(livePost, w.snap)
    /\ Proceed(w, {[w EXCEPT !.pc = "host"]})
    /\ UNCHANGED <<hostPost, guestPosts>>
ManageHostClosed(w) ==
    /\ w.pc = "host"
    /\ hostPost' = Merge(hostPost, w.snap)
    /\ Proceed(w, IF w.snap.status > 1 /\ Members(w.snap) # {}
                  THEN {[w EXCEPT !.pc = "guests"]} ELSE {})
    /\ UNCHANGED <<livePost, guestPosts>>

\* addLivePosts copies a post that was created open.
AddLive(w) ==
    /\ w.pc = "addLive"
    /\ livePost' = IF w.snap.status = Open THEN Merge(livePost, w.snap) ELSE livePost
    /\ Proceed(w, {})
    /\ UNCHANGED <<hostPost, guestPosts>>

\* manageLivePosts first keeps or removes the live copy ...
ManageLive(w) ==
    /\ w.pc = "update"
    /\ livePost' = IF w.snap.status > 0 THEN NoCopy ELSE Merge(livePost, w.snap)
    /\ Proceed(w, {[w EXCEPT !.pc = "host"]})
    /\ UNCHANGED <<hostPost, guestPosts>>

\* ... then updates the host's copy.  It ends here for an open post, and by an
\* exception for a post without confirmed guests.
ManageHost(w) ==
    /\ w.pc = "host"
    /\ hostPost' = Merge(hostPost, w.snap)
    /\ Proceed(w, IF w.snap.status > 0 /\ Members(w.snap) # {}
                  THEN {[w EXCEPT !.pc = "guests"]} ELSE {})
    /\ UNCHANGED <<livePost, guestPosts>>

\* ... then the copies of the guests that were going, in one pipelined batch.
ManageGuests(w) ==
    /\ w.pc = "guests"
    /\ guestPosts' = [g \in Guests |-> IF g \in GoingTo(w.snap)
                                       THEN Merge(guestPosts[g], w.snap) ELSE guestPosts[g]]
    /\ Proceed(w, IF w.snap.status > 1 THEN {[w EXCEPT !.pc = "read"]} ELSE {})
    /\ UNCHANGED <<livePost, hostPost>>

\* manageDonePosts, and manageLivePosts for a post that is over, read who is
\* confirmed now, and then remove the copies of those guests.
ReadGuests(w) ==
    /\ w.pc = "read"
    /\ Proceed(w, {[w EXCEPT !.pc = "erase", !.who = Members(post)]})
    /\ UNCHANGED copies

EraseCopies(w) ==
    /\ w.pc = "erase"
    /\ guestPosts' = [g \in Guests |-> IF g \in w.who THEN NoCopy ELSE guestPosts[g]]
    /\ Proceed(w, {})
    /\ UNCHANGED <<livePost, hostPost>>

\* onConfirmGuest reads the post, and then updates the copy of the new guest.
ReadPost(w) ==
    /\ w.pc = "confirm"
    /\ Proceed(w, {[w EXCEPT !.pc = "copy", !.snap = post]})
    /\ UNCHANGED copies

CopyToGuest(w) ==
    /\ w.pc = "copy"
    /\ guestPosts' = [g \in Guests |-> IF g \in w.who
                                       THEN Merge(guestPosts[g], w.snap) ELSE guestPosts[g]]
    /\ Proceed(w, {})
    /\ UNCHANGED <<livePost, hostPost>>

RunFunction(w) ==
    /\ \/ AddLive(w) \/ ManageLive(w) \/ ManageHost(w) \/ ManageGuests(w)
       \/ ReadGuests(w) \/ EraseCopies(w) \/ ReadPost(w) \/ CopyToGuest(w)
    /\ UNCHANGED <<post, acceptors, calm, hostVars, guestVars, faults>>

-----------------------------------------------------------------------------
(* Faults: the platform may end an instance between two writes and may     *)
(* deliver an event again, at any time after the first delivery; an app    *)
(* may be killed with writes outstanding; createNewPost does not return    *)
(* its promise, so that it may be cut short.                               *)

Fault == faults < MaxFaults /\ faults' = faults + 1

FunctionKilled(w) ==
    /\ Fault
    /\ Proceed(w, {})
    /\ calm' = FALSE
    /\ UNCHANGED <<post, acceptors, copies, hostVars, guestVars>>

\* The twin of a function that has not begun runs when it likes, also after w.
DeliveredAgain(w) ==
    /\ Fault
    /\ w.pc \in FirstSteps
    /\ work' = work \cup {[w EXCEPT !.delivery = @ + 1]}
    /\ UNCHANGED <<post, acceptors, copies, calm, hostVars, guestVars>>

CreateCutShort ==
    /\ Fault
    /\ creating = "hostCopy"
    /\ creating' = "made"
    /\ calm' = FALSE
    /\ UNCHANGED <<post, acceptors, copies, work, hostScreen, accepting, cancelling,
                   doneCall, guestVars>>

GuestAppKilled(g) ==
    /\ Fault
    /\ leaving[g] \/ \E k \in Slots : swipes[g][k].pc = "joining" /\ swipes[g][k].todo # {}
    /\ swipes' = [swipes EXCEPT ![g] = [k \in Slots |->
                    IF swipes[g][k].pc = "joining"
                    THEN [swipes[g][k] EXCEPT !.pc = "lost"] ELSE swipes[g][k]]]
    /\ leaving' = [leaving EXCEPT ![g] = FALSE]
    /\ UNCHANGED <<post, acceptors, copies, work, calm, hostVars>>

HostAppKilled ==
    /\ Fault
    /\ cancelling \/ \E g \in Guests : accepting[g] # {}
    /\ accepting' = [g \in Guests |-> {}]
    /\ cancelling' = FALSE
    /\ hostScreen' = FALSE
    /\ UNCHANGED <<post, acceptors, copies, work, calm, creating, doneCall, guestVars>>

-----------------------------------------------------------------------------

HostNext ==
    \/ CreatePost \/ CreateHostCopy \/ OpenScreen \/ EditDetails
    \/ CloseGuestList \/ MarkDone \/ MarkRequestDone \/ CancelPost \/ DeleteHostCopy
    \/ AcceptAllGuests
    \/ \E g \in Guests : AcceptGuest(g) \/ AcceptWrite(g) \/ RejectGuest(g)

GuestNext ==
    \E g \in Guests :
        \/ OptOut(g) \/ DeleteGuestCopy(g)
        \/ \E k \in Slots : DealCard(g, k) \/ WithdrawCard(g, k)
                            \/ SwipeRight(g, k) \/ JoinWrite(g, k)

FaultNext ==
    \/ CreateCutShort \/ HostAppKilled
    \/ \E g \in Guests : GuestAppKilled(g)
    \/ \E w \in work : FunctionKilled(w) \/ DeliveredAgain(w)

Next == HostNext \/ GuestNext \/ FaultNext \/ \E w \in work : RunFunction(w)

Spec == Init /\ [][Next]_vars

(* Functions run and issued writes arrive, as long as nothing fails; what  *)
(* the users decide to do is not fair.                                     *)
Fairness ==
    /\ WF_vars(CreateHostCopy) /\ WF_vars(MarkRequestDone) /\ WF_vars(DeleteHostCopy)
    /\ \A g \in Guests : /\ WF_vars(AcceptWrite(g)) /\ WF_vars(DeleteGuestCopy(g))
                         /\ \A k \in Slots : WF_vars(JoinWrite(g, k))
    /\ WF_vars(\E w \in work : RunFunction(w))

FairSpec == Spec /\ Fairness

-----------------------------------------------------------------------------
(* What is always true.                                                    *)

TypeOK ==
    /\ post \in Post
    /\ acceptors \in [Guests -> Acceptance]
    /\ livePost \in Post \cup {NoCopy}
    /\ hostPost \in Post \cup {NoCopy}
    /\ guestPosts \in [Guests -> Post \cup {NoCopy}]
    /\ work \subseteq Work
    /\ calm \in BOOLEAN
    /\ creating \in {"none", "hostCopy", "made"}
    /\ hostScreen \in BOOLEAN
    /\ cancelling \in BOOLEAN
    /\ doneCall \in BOOLEAN
    /\ accepting \in [Guests -> SUBSET AcceptWrites]
    /\ swipes \in [Guests -> [Slots -> Swipe]]
    /\ leaving \in [Guests -> BOOLEAN]
    /\ faults \in Nat

\* p is a past state of q: nobody left its lists, no count of it is higher,
\* and it is finalized only if q is.
NoLaterThan(p, q) ==
    /\ p.interestedCount <= q.interestedCount
    /\ p.confirmedCount <= q.confirmedCount
    /\ p.details <= q.details
    /\ Members(p) \subseteq Members(q)
    /\ p.status # Open => q.status # Open

\* No copy shows anything that the post has not yet come to: functions that run
\* late, twice, or out of order may take a copy back, never ahead of the post.
\* What decks are dealt from is never the snapshot of a finalized post.
CopiesNeverAhead ==
    /\ \A c \in {livePost, hostPost} \cup {guestPosts[g] : g \in Guests} :
            c # NoCopy => NoLaterThan(c, post)
    /\ livePost # NoCopy => livePost.status = Open

\* A guest's dashboard shows the post only if the guest is in confirmedGuests,
\* both of the post and of the very copy that is shown, and for a private post
\* only if the guest has also asked to join.
GuestCopyMeansMember ==
    \A g \in Guests : guestPosts[g] # NoCopy =>
        /\ g \in Members(post) \cap Members(guestPosts[g])
        /\ acceptors[g] # NoEntry

\* The swipes that have added their one to interestedCount.
HasCounted(swipe) == swipe.pc \in {"joining", "lost"} /\ "interestedCount" \notin swipe.todo
Counted == {s \in Guests \X Slots : HasCounted(swipes[s[1]][s[2]])}

\* interestedCount, which many clients increment, is the number of right swipes
\* that got that far: no increment is lost or made twice.
InterestedCountExact == post.interestedCount = Cardinality(Counted)

\* The increments of confirmedCount still to come for members already listed.
CountsToCome ==
    Cardinality({g \in Guests : accepting[g] = {"confirmedCount"}}) +
    Cardinality({s \in Guests \X Slots :
                    /\ swipes[s[1]][s[2]].pc = "joining"
                    /\ "confirmedCount" \in swipes[s[1]][s[2]].todo
                    /\ "confirmedGuests" \notin swipes[s[1]][s[2]].todo})

\* Without faults confirmedCount, which decides whether the chat is offered, lags
\* behind the number of confirmed guests by the increments to come at the most.
MembersCounted ==
    faults = 0 => Cardinality(Members(post)) <= post.confirmedCount + CountsToCome

\* "New users won't be able to join this group", says the app when the host closes
\* the guest list: no list changes its members from then on, whichever writes of
\* acceptGuest and addAcceptor, and whichever opting out, are still on their way.
ClosedListKept == [][post.status # Open => Members(post') = Members(post)]_vars

\* Why the copies stay behind: so do the snapshots of the functions in flight,
\* and onConfirmGuest holds a snapshot that lists the guest it works for.
WorkNeverAhead ==
    \A w \in work :
        /\ NoLaterThan(w.snap, post)
        /\ w.pc \in {"confirm", "copy"} => w.who \subseteq Members(w.snap)

\* A guest's copy lists the guest.
OwnCopyLists == \A g \in Guests : guestPosts[g] # NoCopy => g \in Members(guestPosts[g])

\* Nobody is listed, or about to be, without an entry in acceptorIds.
AskedFirst ==
    \A g \in Guests :
        (\/ g \in Members(post)
         \/ accepting[g] # {}
         \/ \E k \in Slots : /\ swipes[g][k].pc = "joining"
                              /\ "acceptorIds" \notin swipes[g][k].todo)
        => acceptors[g] # NoEntry

-----------------------------------------------------------------------------
(* The promise that this machinery implements.                             *)

Board == INSTANCE PostBoard WITH
            status <- IF Created THEN post.status ELSE -1,
            listed <- Members(post),
            dealt  <- livePost # NoCopy,
            shown  <- {g \in Guests : guestPosts[g] # NoCopy}

\* The copies, the functions and the apps together implement PostBoard.
ImplementsBoard == Board!Spec

\* A call of markRequestDone is outstanding only for a post that was closed.
DoneCallLate == doneCall => post.status # Open

\* Before the post is created there is nothing to work on.
NothingBefore ==
    ~Created =>
        /\ work = {} /\ livePost = NoCopy /\ hostPost = NoCopy /\ post = NewPost
        /\ ~hostScreen /\ ~doneCall /\ ~cancelling
        /\ \A g \in Guests :
            /\ guestPosts[g] = NoCopy /\ accepting[g] = {} /\ ~leaving[g]
            /\ \A k \in Slots : swipes[g][k].pc = "none"

-----------------------------------------------------------------------------
(* What becomes true.                                                      *)

\* A post that is created appears in the decks unless it is finalized first.
EventuallyLive == Created ~> (livePost # NoCopy \/ post.status # Open)

\* A post that is finalized leaves the decks.
EventuallyWithdrawn == post.status # Open ~> livePost = NoCopy

\* A confirmed guest gets the post on the dashboard, unless the guest opts out
\* or the post ends first.
EventuallyOnDashboard ==
    \A g \in Guests : g \in GoingTo(post) ~>
        (guestPosts[g] # NoCopy \/ post.status > 1 \/ post.confirmedGuests[g] = OptedOut)

-----------------------------------------------------------------------------
(* What holds once nothing is in flight.                                   *)

Settled ==
    /\ creating = "made" /\ work = {} /\ ~doneCall /\ ~cancelling
    /\ \A g \in Guests : accepting[g] = {} /\ ~leaving[g]

\* Of a private post, with one card per student, all three kinds of copies agree with
\* the post once nothing is in flight, however the functions overlapped before, if
\* the last write met none of them: it is dealt as it is while it is open and not
\* afterwards; the host has it as it is, or not at all when it is over, for a removed
\* post may or may not come back; each guest that is going to a closed one has it as
\* it is, and no guest has one that is over.  And calm or not, no guest that is
\* going to an open post is without it unless something failed.
SettledAgreement ==
    Settled =>
        /\ calm =>
            /\ livePost = IF post.status = Open THEN post ELSE NoCopy
            /\ hostPost = post \/ (post.status > 1 /\ hostPost = NoCopy)
            /\ post.status = Closed => \A g \in GoingTo(post) : guestPosts[g] = post
            /\ post.status > 1 => \A g \in Guests : guestPosts[g] = NoCopy
        /\ post.status = Open /\ faults = 0 =>
            \A g \in GoingTo(post) : guestPosts[g] # NoCopy

\* "Since the post's guest list is finalized, it is no longer in livePosts."
FinalizedNotLive == Settled /\ post.status # Open => livePost = NoCopy
=============================================================================
