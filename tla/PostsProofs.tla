---------------------------- MODULE PostsProofs ----------------------------
(* Proofs about the life of a post, for any number of guests and of cards, *)
(* any number of functions in flight, edits and faults; and that all of it  *)
(* together implements PostBoard.                                          *)
EXTENDS Posts, FiniteSetTheorems, TLAPS

USE DEF Open, Closed, Done, Cancelled, NoEntry, Undecided, Going, Rejected, OptedOut,
        Status, Acceptance, Membership

\* What createNewPost writes is a post.
LEMMA NewPostType == NewPost \in Post
  BY DEF NewPost, Post

\* The snapshot of every function that a write starts has the type of a post.
LEMMA TaskType ==
    ASSUME NEW pc \in Steps, NEW p \in Post, NEW who \in SUBSET Guests
    PROVE  Task(pc, p, who) \in Work
  BY DEF Task, Work

\* The functions that an update starts are well formed.
LEMMA UpdatedType ==
    ASSUME NEW p \in Post
    PROVE  Updated(p) \subseteq Work
  <1>1. Task("update", p, {}) \in Work /\ Task("read", p, {}) \in Work
    BY TaskType DEF Steps
  <1> QED BY <1>1 DEF Updated

\* update(snap) leaves a copy that is a post.
LEMMA MergeType ==
    ASSUME NEW copy \in Post \cup {NoCopy}, NEW snap \in Post
    PROVE  Merge(copy, snap) \in Post
  BY DEF Merge, Post

\* Calm or not.
LEMMA EventType ==
    ASSUME TypeOK, NEW raised \in BOOLEAN, Event(raised)
    PROVE  calm' \in BOOLEAN
  BY DEF TypeOK, Event

\* Writing a post keeps the post and the functions well formed.
LEMMA WritePostType ==
    ASSUME TypeOK, NEW p \in Post, WritePost(p)
    PROVE  post' \in Post /\ work' \subseteq Work /\ calm' \in BOOLEAN
  BY UpdatedType, EventType DEF TypeOK, WritePost

\* So does writing an entry of confirmedGuests.
LEMMA WriteGuestType ==
    ASSUME TypeOK, NEW g \in Guests, NEW s \in Membership, WriteGuest(g, s)
    PROVE  post' \in Post /\ work' \subseteq Work /\ calm' \in BOOLEAN
  <1> DEFINE p == [post EXCEPT !.confirmedGuests[g] = s]
  <1>1. p \in Post
    BY DEF TypeOK, Post
  <1>2. Task("confirm", p, {g}) \in Work /\ Updated(p) \subseteq Work
    BY <1>1, TaskType, UpdatedType DEF Steps
  <1> QED BY <1>1, <1>2, EventType DEF WriteGuest, TypeOK

\* So does writing an entry of acceptorIds.
LEMMA WriteAcceptorType ==
    ASSUME TypeOK, NEW g \in Guests, NEW s \in Acceptance, WriteAcceptor(g, s)
    PROVE  /\ post' \in Post /\ work' \subseteq Work /\ calm' \in BOOLEAN
           /\ acceptors' \in [Guests -> Acceptance]
  BY UpdatedType, EventType DEF TypeOK, WriteAcceptor

\* So does a transaction on a counter.
LEMMA IncrementType ==
    ASSUME TypeOK, NEW counter, Increment(counter)
    PROVE  post' \in Post /\ work' \subseteq Work /\ calm' \in BOOLEAN
  <1>1. /\ [post EXCEPT !.interestedCount = @ + 1] \in Post
        /\ [post EXCEPT !.confirmedCount = @ + 1] \in Post
    BY DEF TypeOK, Post
  <1> QED BY <1>1, WritePostType DEF Increment

\* A change of one card keeps the cards well formed.
LEMMA SetSwipeType ==
    ASSUME TypeOK, NEW g \in Guests, NEW k \in Slots,
           NEW pc \in {"none", "card", "refused", "joining", "lost"},
           NEW todo \in SUBSET JoinWrites, SetSwipe(g, k, pc, todo)
    PROVE  swipes' \in [Guests -> [Slots -> Swipe]]
  <1>1. [pc |-> pc, todo |-> todo] \in Swipe
    BY DEF Swipe
  <1> QED BY <1>1 DEF TypeOK, SetSwipe

\* The variables always have their types.
THEOREM TypeCorrect == Spec => []TypeOK
  <1>1. Init => TypeOK
    <2> SUFFICES ASSUME Init PROVE TypeOK
      OBVIOUS
    <2>1. swipes \in [Guests -> [Slots -> Swipe]]
      BY DEF Init, Swipe
    <2> QED BY <2>1, NewPostType DEF Init, TypeOK
  <1>2. TypeOK /\ [Next]_vars => TypeOK'
    <2> SUFFICES ASSUME TypeOK, [Next]_vars PROVE TypeOK'
      OBVIOUS
    <2>1. CASE HostNext
      <3> USE DEF hostVars, guestVars, copies
      <3>1. CASE CreatePost
        <4>1. Task("addLive", post, {}) \in Work
          BY TaskType DEF TypeOK, Steps
        <4> QED BY <3>1, <4>1 DEF CreatePost, TypeOK
      <3>2. CASE CreateHostCopy
        BY <3>2, MergeType, NewPostType DEF CreateHostCopy, TypeOK
      <3>3. CASE OpenScreen
        BY <3>3 DEF OpenScreen, TypeOK
      <3>4. CASE EditDetails
        <4>1. [post EXCEPT !.details = @ + 1] \in Post
          BY DEF TypeOK, Post
        <4>2. post' \in Post /\ work' \subseteq Work /\ calm' \in BOOLEAN
          BY <3>4, <4>1, WritePostType DEF EditDetails
        <4> QED BY <3>4, <4>2 DEF EditDetails, TypeOK
      <3>5. CASE CloseGuestList
        <4>1. [post EXCEPT !.status = Closed] \in Post
          BY DEF TypeOK, Post
        <4>2. post' \in Post /\ work' \subseteq Work /\ calm' \in BOOLEAN
          BY <3>5, <4>1, WritePostType DEF CloseGuestList
        <4> QED BY <3>5, <4>2 DEF CloseGuestList, TypeOK
      <3>6. CASE MarkDone
        BY <3>6 DEF MarkDone, TypeOK
      <3>7. CASE MarkRequestDone
        <4>1. [post EXCEPT !.status = Done] \in Post
          BY DEF TypeOK, Post
        <4>2. post' \in Post /\ work' \subseteq Work /\ calm' \in BOOLEAN
          BY <3>7, <4>1, WritePostType DEF MarkRequestDone
        <4> QED BY <3>7, <4>2 DEF MarkRequestDone, TypeOK
      <3>8. CASE CancelPost
        <4>1. [post EXCEPT !.status = Cancelled] \in Post
          BY DEF TypeOK, Post
        <4>2. post' \in Post /\ work' \subseteq Work /\ calm' \in BOOLEAN
          BY <3>8, <4>1, WritePostType DEF CancelPost
        <4> QED BY <3>8, <4>2 DEF CancelPost, TypeOK
      <3>9. CASE DeleteHostCopy
        BY <3>9 DEF DeleteHostCopy, TypeOK
      <3>10. CASE AcceptAllGuests
        BY <3>10 DEF AcceptAllGuests, TypeOK
      <3>11. CASE \E g \in Guests : AcceptGuest(g)
        BY <3>11 DEF AcceptGuest, TypeOK
      <3>12. CASE \E g \in Guests : AcceptWrite(g)
        <4> PICK g \in Guests : AcceptWrite(g)
          BY <3>12
        <4>1. /\ post' \in Post /\ work' \subseteq Work /\ calm' \in BOOLEAN
              /\ acceptors' \in [Guests -> Acceptance]
          BY WriteAcceptorType, WriteGuestType, IncrementType DEF AcceptWrite, TypeOK
        <4>2. accepting' \in [Guests -> SUBSET AcceptWrites]
          BY DEF AcceptWrite, TypeOK
        <4> QED BY <4>1, <4>2 DEF AcceptWrite, TypeOK
      <3>13. CASE \E g \in Guests : RejectGuest(g)
        <4> PICK g \in Guests : RejectGuest(g)
          BY <3>13
        <4>1. /\ post' \in Post /\ work' \subseteq Work /\ calm' \in BOOLEAN
              /\ acceptors' \in [Guests -> Acceptance]
          BY WriteAcceptorType DEF RejectGuest
        <4> QED BY <4>1 DEF RejectGuest, TypeOK
      <3> QED
        BY <2>1, <3>1, <3>2, <3>3, <3>4, <3>5, <3>6, <3>7, <3>8, <3>9, <3>10, <3>11,
           <3>12, <3>13 DEF HostNext
    <2>2. CASE GuestNext
      <3> USE DEF hostVars, guestVars, copies
      <3> PICK g \in Guests : \/ OptOut(g) \/ DeleteGuestCopy(g)
                              \/ \E k \in Slots : \/ DealCard(g, k) \/ WithdrawCard(g, k)
                                                  \/ SwipeRight(g, k) \/ JoinWrite(g, k)
        BY <2>2 DEF GuestNext
      <3>1. CASE OptOut(g)
        <4>1. post' \in Post /\ work' \subseteq Work /\ calm' \in BOOLEAN
          BY <3>1, WriteGuestType DEF OptOut
        <4> QED BY <3>1, <4>1 DEF OptOut, TypeOK
      <3>2. CASE DeleteGuestCopy(g)
        BY <3>2 DEF DeleteGuestCopy, TypeOK
      <3>3. ASSUME NEW k \in Slots, DealCard(g, k) \/ WithdrawCard(g, k) \/ SwipeRight(g, k)
            PROVE  TypeOK'
        <4>1. \E pc \in {"none", "card", "refused", "joining"}, todo \in {{}, JoinWrites} :
                  SetSwipe(g, k, pc, todo)
          BY <3>3 DEF DealCard, WithdrawCard, SwipeRight
        <4>2. swipes' \in [Guests -> [Slots -> Swipe]]
          BY <4>1, SetSwipeType
        <4> QED BY <3>3, <4>2 DEF DealCard, WithdrawCard, SwipeRight, TypeOK
      <3>4. ASSUME NEW k \in Slots, JoinWrite(g, k)
            PROVE  TypeOK'
        <4>1. swipes[g][k].todo \subseteq JoinWrites
          <5>1. swipes[g][k] \in Swipe
            BY DEF TypeOK
          <5> QED BY <5>1 DEF Swipe
        <4>2. swipes' \in [Guests -> [Slots -> Swipe]]
          <5>1. \E write : SetSwipe(g, k, "joining", swipes[g][k].todo \ {write})
            BY <3>4 DEF JoinWrite
          <5> QED BY <5>1, <4>1, SetSwipeType
        <4>3. /\ post' \in Post /\ work' \subseteq Work /\ calm' \in BOOLEAN
              /\ acceptors' \in [Guests -> Acceptance]
          <5>1. FillName => post' \in Post /\ work' \subseteq Work /\ calm' \in BOOLEAN
            BY UpdatedType, EventType DEF FillName, TypeOK
          <5> QED
            BY <3>4, <5>1, WriteAcceptorType, WriteGuestType, IncrementType
               DEF JoinWrite, TypeOK
        <4> QED BY <3>4, <4>2, <4>3 DEF JoinWrite, TypeOK
      <3> QED BY <3>1, <3>2, <3>3, <3>4
    <2>3. CASE FaultNext
      <3> USE DEF hostVars, guestVars, copies, Fault
      <3>1. CASE CreateCutShort
        <4>1. calm' \in BOOLEAN
          BY <3>1 DEF CreateCutShort
        <4> QED BY <3>1, <4>1 DEF CreateCutShort, TypeOK
      <3>2. CASE HostAppKilled
        <4>1. accepting' \in [Guests -> SUBSET AcceptWrites]
          BY <3>2 DEF HostAppKilled
        <4>2. cancelling' \in BOOLEAN /\ hostScreen' \in BOOLEAN /\ doneCall' \in BOOLEAN
          BY <3>2, Zenon DEF HostAppKilled, TypeOK
        <4>3. faults' \in Nat
          BY <3>2 DEF HostAppKilled, TypeOK
        <4>4. UNCHANGED <<post, acceptors, livePost, hostPost, guestPosts, work, calm,
                          creating, swipes, leaving>>
          BY <3>2 DEF HostAppKilled
        <4> QED BY <4>1, <4>2, <4>3, <4>4, Zenon DEF TypeOK
      <3>3. ASSUME NEW g \in Guests, GuestAppKilled(g)
            PROVE  TypeOK'
        <4>1. swipes' \in [Guests -> [Slots -> Swipe]]
          <5>1. \A h \in Guests, k \in Slots :
                    /\ swipes[h][k] \in Swipe
                    /\ [swipes[h][k] EXCEPT !.pc = "lost"] \in Swipe
            <6> SUFFICES ASSUME NEW h \in Guests, NEW k \in Slots
                         PROVE  /\ swipes[h][k] \in Swipe
                                /\ [swipes[h][k] EXCEPT !.pc = "lost"] \in Swipe
              OBVIOUS
            <6>1. swipes[h][k] \in Swipe
              BY DEF TypeOK
            <6> QED BY <6>1 DEF Swipe
          <5> QED BY <3>3, <5>1 DEF GuestAppKilled, TypeOK
        <4> QED BY <3>3, <4>1 DEF GuestAppKilled, TypeOK
      <3>4. ASSUME NEW w \in work, FunctionKilled(w) \/ DeliveredAgain(w)
            PROVE  TypeOK'
        <4>1. work' \subseteq Work
          <5>1. [w EXCEPT !.delivery = @ + 1] \in Work
            BY DEF TypeOK, Work
          <5> QED BY <3>4, <5>1 DEF FunctionKilled, DeliveredAgain, Proceed, TypeOK
        <4>2. calm' \in BOOLEAN
          BY <3>4 DEF FunctionKilled, DeliveredAgain, TypeOK
        <4> QED BY <3>4, <4>1, <4>2 DEF FunctionKilled, DeliveredAgain, TypeOK
      <3> QED BY <2>3, <3>1, <3>2, <3>3, <3>4 DEF FaultNext
    <2>4. ASSUME NEW w \in work, RunFunction(w)
          PROVE  TypeOK'
      <3> USE DEF hostVars, guestVars, copies
      <3>1. w \in Work /\ w.snap \in Post /\ w.who \subseteq Guests
        BY DEF TypeOK, Work
      <3>2. work' \subseteq Work
        <4>1. \A pc \in Steps : [w EXCEPT !.pc = pc] \in Work
          BY <3>1 DEF Work
        <4>2. \A who \in SUBSET Guests : [w EXCEPT !.pc = "erase", !.who = who] \in Work
          BY <3>1 DEF Work, Steps
        <4>3. \A snap \in Post : [w EXCEPT !.pc = "copy", !.snap = snap] \in Work
          BY <3>1 DEF Work, Steps
        <4>4. post \in Post /\ Members(post) \in SUBSET Guests
          BY DEF TypeOK, Members
        <4>5. \E next \in SUBSET Work : Proceed(w, next)
          BY <2>4, <4>1, <4>2, <4>3, <4>4 DEF RunFunction, AddLive, ManageLive,
             ManageHost, ManageGuests, ReadGuests, EraseCopies, ReadPost, CopyToGuest,
             Proceed, Steps
        <4> QED BY <4>5 DEF TypeOK, Proceed
      <3>3. \A c \in Post \cup {NoCopy} : Merge(c, w.snap) \in Post
        BY <3>1, MergeType
      <3>4. livePost' \in Post \cup {NoCopy} /\ hostPost' \in Post \cup {NoCopy}
        BY <2>4, <3>3 DEF RunFunction, AddLive, ManageLive, ManageHost, ManageGuests,
           ReadGuests, EraseCopies, ReadPost, CopyToGuest, TypeOK
      <3>5. guestPosts' \in [Guests -> Post \cup {NoCopy}]
        BY <2>4, <3>3 DEF RunFunction, AddLive, ManageLive, ManageHost, ManageGuests,
           ReadGuests, EraseCopies, ReadPost, CopyToGuest, TypeOK
      <3> QED BY <2>4, <3>2, <3>4, <3>5 DEF RunFunction, TypeOK
    <2>5. CASE UNCHANGED vars
      BY <2>5 DEF vars, hostVars, guestVars, copies, TypeOK
    <2> QED BY <2>1, <2>2, <2>3, <2>4, <2>5 DEF Next
  <1> QED BY <1>1, <1>2, PTL DEF Spec

-----------------------------------------------------------------------------
(* Copies and snapshots stay behind the post.                              *)

\* A post is a past state of itself.
LEMMA NoLaterReflexive == \A p \in Post : NoLaterThan(p, p)
  BY DEF NoLaterThan, Post

\* A past state of a past state is a past state.
LEMMA NoLaterTransitive ==
    ASSUME NEW p \in Post, NEW q \in Post, NEW r \in Post,
           NoLaterThan(p, q), NoLaterThan(q, r)
    PROVE  NoLaterThan(p, r)
  BY DEF NoLaterThan, Post

\* Updating a copy with a snapshot that is behind q leaves it behind q.
LEMMA MergeBehind ==
    ASSUME NEW copy \in Post \cup {NoCopy}, NEW snap \in Post, NEW q \in Post,
           NoLaterThan(snap, q), copy # NoCopy => NoLaterThan(copy, q)
    PROVE  /\ NoLaterThan(Merge(copy, snap), q)
           /\ Merge(copy, snap).status = snap.status
           /\ Members(snap) # {} => Merge(copy, snap) = snap
  <1>1. CASE copy # NoCopy /\ Members(snap) = {}
    <2>1. Merge(copy, snap) = [snap EXCEPT !.confirmedGuests = copy.confirmedGuests]
      BY <1>1 DEF Merge
    <2>2. Members(Merge(copy, snap)) = Members(copy)
      BY <2>1 DEF Members, Post
    <2> QED BY <1>1, <2>1, <2>2 DEF NoLaterThan, Post
  <1>2. CASE ~(copy # NoCopy /\ Members(snap) = {})
    BY <1>2 DEF Merge
  <1> QED BY <1>1, <1>2

\* What a step may do to the post and to the functions in flight.
QuietStep == UNCHANGED <<post, work>>
WriteStep == \E p \in Post : NoLaterThan(post, p) /\ WritePost(p)
GuestStep == \E g \in Guests, s \in {Going, OptedOut} : WriteGuest(g, s)
AcceptorStep == UNCHANGED post /\ work' \in {work, work \cup Updated(post)}
CreateStep == CreatePost /\ work' = work \cup {Task("addLive", post, {})} /\ UNCHANGED post
FunctionStep == \E w \in work : RunFunction(w)
FaultStep ==
    /\ UNCHANGED post
    /\ \E w \in work : \/ work' = work \ {w}
                       \/ work' = work \cup {[w EXCEPT !.delivery = @ + 1]}

\* Every step is of one of seven kinds, by what it does to the post and to the functions.
LEMMA StepKinds ==
    ASSUME TypeOK, [Next]_vars
    PROVE  \/ QuietStep \/ WriteStep \/ GuestStep \/ AcceptorStep
           \/ CreateStep \/ FunctionStep \/ FaultStep
  <1> USE DEF hostVars, guestVars, copies
  <1>1. \A counter : Increment(counter) => WriteStep
    <2>1. /\ [post EXCEPT !.interestedCount = @ + 1] \in Post
          /\ NoLaterThan(post, [post EXCEPT !.interestedCount = @ + 1])
          /\ [post EXCEPT !.confirmedCount = @ + 1] \in Post
          /\ NoLaterThan(post, [post EXCEPT !.confirmedCount = @ + 1])
      BY DEF TypeOK, Post, NoLaterThan, Members
    <2> QED BY <2>1 DEF Increment, WriteStep
  <1>2. CASE HostNext
    <2>1. ASSUME CreatePost \/ CreateHostCopy \/ OpenScreen \/ MarkDone \/ DeleteHostCopy
                 \/ AcceptAllGuests \/ (\E g \in Guests : AcceptGuest(g))
          PROVE  QuietStep \/ CreateStep
      BY <2>1 DEF CreatePost, CreateHostCopy, OpenScreen, MarkDone, DeleteHostCopy,
         AcceptAllGuests, AcceptGuest, QuietStep, CreateStep
    <2>2. ASSUME EditDetails \/ CloseGuestList \/ MarkRequestDone \/ CancelPost
          PROVE  WriteStep
      <3>0. post \in Post
        BY DEF TypeOK
      <3>1. /\ [post EXCEPT !.details = @ + 1] \in Post
            /\ NoLaterThan(post, [post EXCEPT !.details = @ + 1])
        BY <3>0 DEF Post, NoLaterThan, Members
      <3>2. \A s \in {Closed, Done, Cancelled} :
                /\ [post EXCEPT !.status = s] \in Post
                /\ NoLaterThan(post, [post EXCEPT !.status = s])
        BY DEF TypeOK, Post, NoLaterThan, Members
      <3> QED
        BY <2>2, <3>1, <3>2 DEF EditDetails, CloseGuestList, MarkRequestDone, CancelPost,
           WriteStep
    <2>3. ASSUME NEW g \in Guests, AcceptWrite(g) \/ RejectGuest(g)
          PROVE  WriteStep \/ GuestStep \/ AcceptorStep
      BY <1>1, <2>3 DEF AcceptWrite, RejectGuest, GuestStep, AcceptorStep, WriteAcceptor
    <2> QED BY <1>2, <2>1, <2>2, <2>3 DEF HostNext
  <1>3. CASE GuestNext
    <2>1. ASSUME NEW g \in Guests, OptOut(g) \/ DeleteGuestCopy(g)
          PROVE  QuietStep \/ GuestStep
      BY <2>1 DEF OptOut, DeleteGuestCopy, QuietStep, GuestStep
    <2>2. ASSUME NEW g \in Guests, NEW k \in Slots,
                 DealCard(g, k) \/ WithdrawCard(g, k) \/ SwipeRight(g, k)
          PROVE  QuietStep
      BY <2>2 DEF DealCard, WithdrawCard, SwipeRight, QuietStep
    <2>3. ASSUME NEW g \in Guests, NEW k \in Slots, JoinWrite(g, k)
          PROVE  WriteStep \/ GuestStep \/ AcceptorStep
      BY <1>1, <2>3 DEF JoinWrite, GuestStep, AcceptorStep, WriteAcceptor, FillName
    <2> QED BY <1>3, <2>1, <2>2, <2>3 DEF GuestNext
  <1>4. CASE FaultNext
    <2>1. ASSUME CreateCutShort \/ HostAppKilled \/ (\E g \in Guests : GuestAppKilled(g))
          PROVE  QuietStep
      BY <2>1 DEF CreateCutShort, HostAppKilled, GuestAppKilled, QuietStep
    <2>2. ASSUME NEW w \in work, FunctionKilled(w) \/ DeliveredAgain(w)
          PROVE  FaultStep
      BY <2>2 DEF FunctionKilled, DeliveredAgain, Proceed, FaultStep
    <2> QED BY <1>4, <2>1, <2>2 DEF FaultNext
  <1>5. CASE \E w \in work : RunFunction(w)
    BY <1>5 DEF FunctionStep
  <1>6. CASE UNCHANGED vars
    BY <1>6 DEF vars, QuietStep
  <1> QED BY <1>2, <1>3, <1>4, <1>5, <1>6 DEF Next

\* The post only moves forward.
LEMMA PostMovesOn ==
    ASSUME TypeOK, [Next]_vars
    PROVE  NoLaterThan(post, post')
  <1>1. CASE UNCHANGED post
    BY <1>1, NoLaterReflexive DEF TypeOK
  <1>2. CASE WriteStep
    BY <1>2 DEF WriteStep, WritePost
  <1>3. CASE GuestStep
    <2> PICK g \in Guests, s \in {Going, OptedOut} : WriteGuest(g, s)
      BY <1>3 DEF GuestStep
    <2>1. post' = [post EXCEPT !.confirmedGuests[g] = s]
      BY DEF WriteGuest
    <2> QED BY <2>1 DEF TypeOK, Post, NoLaterThan, Members
  <1>4. AcceptorStep \/ QuietStep \/ CreateStep \/ FunctionStep \/ FaultStep => UNCHANGED post
    BY DEF AcceptorStep, QuietStep, CreateStep, FunctionStep, FaultStep, WriteAcceptor,
       RunFunction
  <1> QED BY <1>1, <1>2, <1>3, <1>4, StepKinds

\* A snapshot that was behind the post stays behind it.
LEMMA StaysBehind ==
    ASSUME TypeOK, TypeOK', [Next]_vars, NEW p \in Post, NoLaterThan(p, post)
    PROVE  NoLaterThan(p, post')
  BY PostMovesOn, NoLaterTransitive DEF TypeOK

\* The functions that an update starts have the updated post as their snapshot.
LEMMA UpdatedSnap == \A p : \A w \in Updated(p) : w.snap = p /\ w.pc \in {"update", "read"}
  BY DEF Updated, Task

\* No step hands a function a snapshot that is ahead of the post.
LEMMA WorkStaysBehind ==
    ASSUME TypeOK, TypeOK', WorkNeverAhead, [Next]_vars
    PROVE  WorkNeverAhead'
  <1> DEFINE Good(w) == /\ NoLaterThan(w.snap, post')
                        /\ w.pc \in {"confirm", "copy"} => w.who \subseteq Members(w.snap)
  <1> SUFFICES \A w \in work' : Good(w)
    BY DEF WorkNeverAhead
  <1>1. \A w \in work : Good(w)
    BY StaysBehind DEF WorkNeverAhead, TypeOK, Work
  <1>2. post' \in Post /\ NoLaterThan(post', post')
    BY NoLaterReflexive DEF TypeOK
  <1>3. \A w \in Updated(post') : Good(w)
    BY <1>2, UpdatedSnap
  <1> HIDE DEF Good
  <1>4. CASE QuietStep
    BY <1>1, <1>4 DEF QuietStep
  <1>5. CASE WriteStep
    BY <1>1, <1>3, <1>5 DEF WriteStep, WritePost
  <1>6. CASE GuestStep
    <2> PICK g \in Guests, s \in {Going, OptedOut} : WriteGuest(g, s)
      BY <1>6 DEF GuestStep
    <2>1. g \in Members(post')
      BY DEF WriteGuest, TypeOK, Post, Members
    <2>2. Good(Task("confirm", post', {g}))
      BY <1>2, <2>1 DEF Task, Good
    <2> QED BY <1>1, <1>3, <2>2 DEF WriteGuest
  <1>7. CASE AcceptorStep
    BY <1>1, <1>3, <1>7 DEF AcceptorStep
  <1>8. CASE CreateStep
    <2>1. Good(Task("addLive", post', {}))
      BY <1>2 DEF Task, Good
    <2> QED BY <1>1, <1>8, <2>1 DEF CreateStep
  <1>9. CASE FaultStep
    <2> PICK w \in work :
            work' = work \ {w} \/ work' = work \cup {[w EXCEPT !.delivery = @ + 1]}
      BY <1>9 DEF FaultStep
    <2>1. Good([w EXCEPT !.delivery = @ + 1])
      BY <1>1 DEF Good, TypeOK, Work
    <2> QED BY <1>1, <2>1
  <1>10. CASE FunctionStep
    <2> PICK w \in work : RunFunction(w)
      BY <1>10 DEF FunctionStep
    <2>1. w \in Work /\ post' = post /\ w.snap \in Post
      BY DEF TypeOK, Work, RunFunction
    <2>2. Good(w)
      BY <1>1
    <2>3. \A pc \in {"host", "guests", "read"} : Good([w EXCEPT !.pc = pc])
      BY <2>1, <2>2 DEF Good, Work
    <2>4. \A who : Good([w EXCEPT !.pc = "erase", !.who = who])
      BY <2>1, <2>2 DEF Good, Work
    <2>5. w.pc = "confirm" => Good([w EXCEPT !.pc = "copy", !.snap = post])
      BY <1>2, <2>1 DEF Good, Work, WorkNeverAhead, NoLaterThan
    <2>6. \E next : Proceed(w, next) /\ \A v \in next : Good(v)
      <3>1. CASE ReadPost(w)
        BY <2>5, <3>1 DEF ReadPost
      <3>2. CASE ReadGuests(w)
        <4>1. Good([w EXCEPT !.pc = "erase", !.who = Members(post)])
          BY <2>4
        <4>2. Proceed(w, {[w EXCEPT !.pc = "erase", !.who = Members(post)]})
          BY <3>2 DEF ReadGuests
        <4> QED BY <4>1, <4>2
      <3>3. CASE AddLive(w) \/ ManageLive(w) \/ ManageHost(w) \/ ManageGuests(w)
                 \/ EraseCopies(w) \/ CopyToGuest(w)
        BY <2>3, <3>3 DEF AddLive, ManageLive, ManageHost, ManageGuests, EraseCopies,
           CopyToGuest
      <3> QED BY <3>1, <3>2, <3>3 DEF RunFunction
    <2> QED BY <1>1, <2>6 DEF Proceed
  <1> QED BY <1>4, <1>5, <1>6, <1>7, <1>8, <1>9, <1>10, StepKinds

\* No function in flight holds a snapshot that is ahead of the post.
THEOREM WorkNeverAheadCorrect == Spec => []WorkNeverAhead
  <1>1. Init => WorkNeverAhead
    BY DEF Init, WorkNeverAhead
  <1>2. TypeOK /\ TypeOK' /\ WorkNeverAhead /\ [Next]_vars => WorkNeverAhead'
    BY WorkStaysBehind
  <1> QED BY <1>1, <1>2, TypeCorrect, PTL DEF Spec

\* No step takes a copy ahead of the post.
LEMMA CopiesStayBehind ==
    ASSUME TypeOK, TypeOK', WorkNeverAhead, CopiesNeverAhead, OwnCopyLists, [Next]_vars
    PROVE  CopiesNeverAhead' /\ OwnCopyLists'
  <1> DEFINE Behind(c) == c # NoCopy => NoLaterThan(c, post')
  <1> DEFINE Lists(g, c) == c # NoCopy => g \in Members(c)
  <1> SUFFICES /\ Behind(livePost') /\ Behind(hostPost')
               /\ livePost' # NoCopy => livePost'.status = Open
               /\ \A g \in Guests : Behind(guestPosts'[g]) /\ Lists(g, guestPosts'[g])
    BY DEF CopiesNeverAhead, OwnCopyLists
  <1>1. /\ Behind(livePost) /\ Behind(hostPost)
        /\ livePost # NoCopy => livePost.status = Open
        /\ \A g \in Guests : Behind(guestPosts[g]) /\ Lists(g, guestPosts[g])
    BY StaysBehind DEF CopiesNeverAhead, OwnCopyLists, TypeOK
  <1>2. Behind(NoCopy) /\ \A g : Lists(g, NoCopy)
    OBVIOUS
  <1>3. \A snap \in Post, c \in Post \cup {NoCopy} :
            NoLaterThan(snap, post') /\ Behind(c) =>
                /\ Behind(Merge(c, snap))
                /\ Merge(c, snap).status = snap.status
                /\ Members(snap) # {} => Merge(c, snap) = snap
    BY MergeBehind DEF TypeOK
  <1> HIDE DEF Behind, Lists
  <1>4. CASE UNCHANGED copies
    BY <1>1, <1>4 DEF copies
  <1>5. CASE CreateHostCopy
    <2>1. NewPost \in Post /\ NoLaterThan(NewPost, post')
      BY NewPostType DEF NoLaterThan, NewPost, TypeOK, Post, Members
    <2> QED BY <1>1, <1>3, <1>5, <2>1 DEF CreateHostCopy, TypeOK
  <1>6. CASE DeleteHostCopy
    BY <1>1, <1>2, <1>6 DEF DeleteHostCopy
  <1>7. ASSUME NEW g \in Guests, DeleteGuestCopy(g)
        PROVE  /\ Behind(livePost') /\ Behind(hostPost')
               /\ livePost' # NoCopy => livePost'.status = Open
               /\ \A h \in Guests : Behind(guestPosts'[h]) /\ Lists(h, guestPosts'[h])
    BY <1>1, <1>2, <1>7 DEF DeleteGuestCopy, TypeOK
  <1>8. ASSUME NEW w \in work, RunFunction(w)
        PROVE  /\ Behind(livePost') /\ Behind(hostPost')
               /\ livePost' # NoCopy => livePost'.status = Open
               /\ \A h \in Guests : Behind(guestPosts'[h]) /\ Lists(h, guestPosts'[h])
    <2>1. w.snap \in Post /\ w.snap.status \in Status /\ NoLaterThan(w.snap, post')
      BY StaysBehind DEF TypeOK, Work, Post, WorkNeverAhead
    <2>2. CASE AddLive(w) \/ ManageLive(w)
      <3>1. w.snap.status = Open \/ w.snap.status > 0
        BY <2>1
      <3>2. livePost' \in {livePost, NoCopy}
            \/ (w.snap.status = Open /\ livePost' = Merge(livePost, w.snap))
        BY <2>2, <3>1 DEF AddLive, ManageLive
      <3> QED BY <1>1, <1>2, <1>3, <2>1, <2>2, <3>2 DEF AddLive, ManageLive, TypeOK
    <2>3. CASE ManageHost(w)
      BY <1>1, <1>3, <2>1, <2>3 DEF ManageHost, TypeOK
    <2>4. CASE ReadGuests(w) \/ ReadPost(w)
      BY <1>1, <2>4 DEF ReadGuests, ReadPost, copies
    <2>5. CASE EraseCopies(w)
      BY <1>1, <1>2, <2>5 DEF EraseCopies, TypeOK
    <2>6. CASE ManageGuests(w) \/ CopyToGuest(w)
      <3>1. \A h \in Guests : guestPosts'[h] = guestPosts[h]
                \/ (h \in Members(w.snap) /\ guestPosts'[h] = Merge(guestPosts[h], w.snap))
        BY <2>6 DEF ManageGuests, CopyToGuest, GoingTo, Members, WorkNeverAhead, TypeOK
      <3>2. ASSUME NEW h \in Guests
            PROVE  Behind(guestPosts'[h]) /\ Lists(h, guestPosts'[h])
        <4>1. CASE guestPosts'[h] = guestPosts[h]
          BY <1>1, <4>1
        <4>2. CASE h \in Members(w.snap) /\ guestPosts'[h] = Merge(guestPosts[h], w.snap)
          <5>1. Behind(guestPosts'[h]) /\ guestPosts'[h] = w.snap
            BY <1>1, <1>3, <2>1, <4>2 DEF TypeOK
          <5> QED BY <4>2, <5>1 DEF Lists
        <4> QED BY <3>1, <4>1, <4>2
      <3>3. UNCHANGED <<livePost, hostPost>>
        BY <2>6 DEF ManageGuests, CopyToGuest
      <3> QED BY <1>1, <3>2, <3>3
    <2> QED BY <1>8, <2>2, <2>3, <2>4, <2>5, <2>6 DEF RunFunction
  <1>9. \/ UNCHANGED copies \/ CreateHostCopy \/ DeleteHostCopy
        \/ (\E g \in Guests : DeleteGuestCopy(g)) \/ (\E w \in work : RunFunction(w))
    BY DEF Next, vars, copies, HostNext, GuestNext, FaultNext, CreatePost, OpenScreen,
       EditDetails, CloseGuestList, MarkDone, MarkRequestDone, CancelPost,
       AcceptAllGuests, AcceptGuest, AcceptWrite, RejectGuest, OptOut, DealCard,
       WithdrawCard, SwipeRight, JoinWrite, CreateCutShort, HostAppKilled,
       GuestAppKilled, FunctionKilled, DeliveredAgain
  <1> QED BY <1>4, <1>5, <1>6, <1>7, <1>8, <1>9

\* No copy is ever ahead of the post, and what decks are dealt from is never the
\* snapshot of a finalized post: for any number of guests, of functions in flight
\* in any order, of repeated deliveries and of killed instances.
THEOREM CopiesNeverAheadCorrect == Spec => [](CopiesNeverAhead /\ OwnCopyLists)
  <1>1. Init => CopiesNeverAhead /\ OwnCopyLists
    BY DEF Init, CopiesNeverAhead, OwnCopyLists
  <1>2. TypeOK /\ TypeOK' /\ WorkNeverAhead /\ CopiesNeverAhead /\ OwnCopyLists
        /\ [Next]_vars => CopiesNeverAhead' /\ OwnCopyLists'
    BY CopiesStayBehind
  <1> QED BY <1>1, <1>2, TypeCorrect, WorkNeverAheadCorrect, PTL DEF Spec

-----------------------------------------------------------------------------
(* Who is on a guest list has asked to be.                                 *)

\* An entry of acceptorIds is never removed.
LEMMA EntriesStay ==
    ASSUME TypeOK, [Next]_vars, NEW g \in Guests, acceptors[g] # NoEntry
    PROVE  acceptors'[g] # NoEntry
  <1>1. CASE UNCHANGED acceptors
    BY <1>1
  <1>2. CASE \E h \in Guests, s \in {Undecided, Going, Rejected} : WriteAcceptor(h, s)
    BY <1>2 DEF WriteAcceptor, TypeOK
  <1>3. UNCHANGED acceptors
        \/ \E h \in Guests, s \in {Undecided, Going, Rejected} : WriteAcceptor(h, s)
    BY DEF Next, vars, HostNext, GuestNext, FaultNext, CreatePost, CreateHostCopy,
       OpenScreen, EditDetails, CloseGuestList, MarkDone, MarkRequestDone, CancelPost,
       DeleteHostCopy, AcceptAllGuests, AcceptGuest, AcceptWrite, RejectGuest, OptOut,
       DeleteGuestCopy, DealCard, WithdrawCard, SwipeRight, JoinWrite, CreateCutShort,
       HostAppKilled, GuestAppKilled, FunctionKilled, DeliveredAgain, RunFunction
  <1> QED BY <1>1, <1>2, <1>3

\* Whoever is new on the guest list has an entry already: a member is listed by
\* a step of acceptGuest or of addAcceptor that comes after the one that writes the
\* entry, or opts out of a post that is on the dashboard.
LEMMA NewMembersAsked ==
    ASSUME TypeOK, CopiesNeverAhead, OwnCopyLists, AskedFirst, [Next]_vars,
           NEW g \in Members(post')
    PROVE  acceptors[g] # NoEntry
  <1> SUFFICES ASSUME g \notin Members(post)
               PROVE  acceptors[g] # NoEntry
    BY DEF AskedFirst, Members
  <1> USE DEF hostVars, guestVars, copies
  <1>1. \A p : WritePost(p) => post' = p
    BY DEF WritePost
  <1>2. ASSUME NEW p, p.confirmedGuests = post.confirmedGuests
        PROVE  post' # p
    BY <1>2 DEF Members
  <1>3. ~UNCHANGED post
    BY <1>2
  <1>4. \A counter : ~Increment(counter)
    BY <1>1, <1>2 DEF Increment, TypeOK, Post
  <1>5. ~(EditDetails \/ CloseGuestList \/ MarkRequestDone \/ CancelPost)
    BY <1>1, <1>2 DEF EditDetails, CloseGuestList, MarkRequestDone, CancelPost, TypeOK, Post
  <1>6. \A h \in Guests : \A s : WriteGuest(h, s) => h = g
    BY DEF WriteGuest, Members, TypeOK, Post
  <1>7. \E h \in Guests : OptOut(h) \/ AcceptWrite(h) \/ \E k \in Slots : JoinWrite(h, k)
    BY <1>3, <1>5 DEF Next, vars, HostNext, GuestNext, FaultNext, CreatePost,
       CreateHostCopy, OpenScreen, MarkDone, DeleteHostCopy, AcceptAllGuests, AcceptGuest,
       RejectGuest, WriteAcceptor, DeleteGuestCopy, DealCard, WithdrawCard, SwipeRight,
       CreateCutShort, HostAppKilled, GuestAppKilled, FunctionKilled, DeliveredAgain,
       RunFunction
  <1>8. ASSUME NEW h \in Guests, OptOut(h)
        PROVE  acceptors[g] # NoEntry
    <2>1. h = g /\ guestPosts[h] # NoCopy
      BY <1>6, <1>8 DEF OptOut
    <2> QED BY <2>1 DEF CopiesNeverAhead, OwnCopyLists, NoLaterThan
  <1>9. ASSUME NEW h \in Guests, AcceptWrite(h)
        PROVE  acceptors[g] # NoEntry
    <2>1. WriteGuest(h, Going) /\ accepting[h] # {}
      BY <1>3, <1>4, <1>9 DEF AcceptWrite, WriteAcceptor
    <2> QED BY <1>6, <2>1 DEF AskedFirst
  <1>10. ASSUME NEW h \in Guests, NEW k \in Slots, JoinWrite(h, k)
         PROVE  acceptors[g] # NoEntry
    <2>1. /\ WriteGuest(h, Going)
          /\ swipes[h][k].pc = "joining" /\ "acceptorIds" \notin swipes[h][k].todo
      BY <1>3, <1>4, <1>10 DEF JoinWrite, WriteAcceptor, FillName
    <2> QED BY <1>6, <2>1 DEF AskedFirst
  <1> QED BY <1>7, <1>8, <1>9, <1>10

\* No step lists a guest who has no entry in acceptorIds.
LEMMA AskedFirstStays ==
    ASSUME TypeOK, CopiesNeverAhead, OwnCopyLists, AskedFirst, [Next]_vars
    PROVE  AskedFirst'
  <1> USE DEF hostVars, guestVars, copies
  <1>1. ASSUME NEW g \in Guests, accepting'[g] # {}
        PROVE  acceptors'[g] # NoEntry
    <2>1. accepting[g] # {} \/ acceptors[g] = Undecided
      <3>1. ASSUME NEW h \in Guests, AcceptGuest(h) \/ AcceptWrite(h)
            PROVE  accepting[g] # {} \/ acceptors[g] = Undecided
        BY <1>1, <3>1 DEF AcceptGuest, AcceptWrite, TypeOK
      <3>2. CASE AcceptAllGuests
        BY <1>1, <3>2 DEF AcceptAllGuests
      <3>3. CASE UNCHANGED accepting
        BY <1>1, <3>3
      <3>4. CASE HostAppKilled
        BY <1>1, <3>4 DEF HostAppKilled
      <3> QED
        BY <3>1, <3>2, <3>3, <3>4 DEF Next, vars, HostNext, GuestNext, FaultNext,
           CreatePost, CreateHostCopy, OpenScreen, EditDetails, CloseGuestList, MarkDone,
           MarkRequestDone, CancelPost, DeleteHostCopy, RejectGuest, OptOut,
           DeleteGuestCopy, DealCard, WithdrawCard, SwipeRight, JoinWrite,
           CreateCutShort, GuestAppKilled, FunctionKilled, DeliveredAgain, RunFunction
    <2>2. acceptors[g] # NoEntry
      BY <2>1 DEF AskedFirst
    <2> QED BY <2>2, EntriesStay
  <1>2. ASSUME NEW g \in Guests, NEW k \in Slots,
               swipes'[g][k].pc = "joining", "acceptorIds" \notin swipes'[g][k].todo
        PROVE  acceptors'[g] # NoEntry
    <2>1. CASE swipes[g][k].pc = "joining" /\ "acceptorIds" \notin swipes[g][k].todo
      BY <2>1, EntriesStay DEF AskedFirst
    <2>2. CASE UNCHANGED swipes
      BY <1>2, <2>1, <2>2
    <2>3. ASSUME NEW h \in Guests, NEW j \in Slots, JoinWrite(h, j)
          PROVE  acceptors'[g] # NoEntry
      <3>1. CASE <<g, k>> # <<h, j>>
        <4>1. swipes'[g][k] = swipes[g][k]
          BY <2>3, <3>1 DEF JoinWrite, SetSwipe, TypeOK
        <4> QED BY <1>2, <2>1, <4>1
      <3>2. CASE g = h /\ k = j
        <4>1. swipes[g][k].pc = "joining"
          BY <2>3, <3>2 DEF JoinWrite
        <4>2. CASE "acceptorIds" \in swipes[g][k].todo
          <5>1. WriteAcceptor(g, Undecided)
            BY <1>2, <2>3, <3>2, <4>2 DEF JoinWrite
          <5> QED BY <5>1 DEF WriteAcceptor, TypeOK
        <4> QED BY <2>1, <4>1, <4>2
      <3> QED BY <3>1, <3>2
    <2>4. ASSUME NEW h \in Guests, NEW j \in Slots,
                 DealCard(h, j) \/ WithdrawCard(h, j) \/ SwipeRight(h, j)
          PROVE  acceptors'[g] # NoEntry
      <3>1. swipes'[g][k] = swipes[g][k] \/ swipes'[g][k].pc # "joining"
            \/ swipes'[g][k].todo = JoinWrites
        BY <2>4 DEF DealCard, WithdrawCard, SwipeRight, SetSwipe, TypeOK
      <3> QED BY <1>2, <2>1, <3>1 DEF JoinWrites
    <2>5. ASSUME NEW h \in Guests, GuestAppKilled(h)
          PROVE  acceptors'[g] # NoEntry
      <3>1. swipes'[g][k] = swipes[g][k] \/ swipes'[g][k].pc = "lost"
        <4>1. swipes[g][k] \in Swipe
          BY DEF TypeOK
        <4> QED BY <2>5, <4>1 DEF GuestAppKilled, TypeOK, Swipe
      <3> QED BY <1>2, <2>1, <3>1
    <2> QED
      BY <2>2, <2>3, <2>4, <2>5 DEF Next, vars, HostNext, GuestNext, FaultNext,
         CreatePost, CreateHostCopy, OpenScreen, EditDetails, CloseGuestList, MarkDone,
         MarkRequestDone, CancelPost, DeleteHostCopy, AcceptAllGuests, AcceptGuest,
         AcceptWrite, RejectGuest, OptOut, DeleteGuestCopy, CreateCutShort,
         HostAppKilled, FunctionKilled, DeliveredAgain, RunFunction
  <1>3. \A g \in Members(post') : acceptors'[g] # NoEntry
    BY NewMembersAsked, EntriesStay DEF Members
  <1> QED BY <1>1, <1>2, <1>3 DEF AskedFirst

\* Nobody is on a guest list, or about to be, without having asked.
THEOREM AskedFirstCorrect == Spec => []AskedFirst
  <1>1. Init => AskedFirst
    BY DEF Init, AskedFirst, NewPost, Members
  <1>2. TypeOK /\ CopiesNeverAhead /\ OwnCopyLists /\ AskedFirst /\ [Next]_vars => AskedFirst'
    BY AskedFirstStays
  <1> QED BY <1>1, <1>2, TypeCorrect, CopiesNeverAheadCorrect, PTL DEF Spec

\* A dashboard shows the post to a guest only if the guest is on the guest list,
\* and nobody is on the guest list without having asked.
THEOREM GuestCopyMeansMemberCorrect == Spec => []GuestCopyMeansMember
  <1>1. CopiesNeverAhead /\ OwnCopyLists /\ AskedFirst => GuestCopyMeansMember
    BY DEF CopiesNeverAhead, OwnCopyLists, AskedFirst, GuestCopyMeansMember, NoLaterThan
  <1> QED BY <1>1, AskedFirstCorrect, CopiesNeverAheadCorrect, PTL

-----------------------------------------------------------------------------
(* interestedCount is exact.                                               *)

\* The counted swipes are finitely many.
LEMMA CountedFinite == IsFiniteSet(Counted)
  BY FS_Product, FS_Subset, GuestsAssumption DEF Counted

\* If no swipe changes whether it has counted, the set of those that have is the same.
LEMMA CountedSame ==
    ASSUME \A g \in Guests, k \in Slots : HasCounted(swipes[g][k])' <=> HasCounted(swipes[g][k])
    PROVE  Counted' = Counted
  <1>1. \A s \in Guests \X Slots : s[1] \in Guests /\ s[2] \in Slots
    OBVIOUS
  <1> QED BY <1>1 DEF Counted

\* Only the transaction of addAcceptor changes interestedCount.
LEMMA OtherWrites ==
    ASSUME TypeOK, [Next]_vars,
           ~\E g \in Guests, k \in Slots : JoinWrite(g, k)
    PROVE  post'.interestedCount = post.interestedCount
  <1> USE DEF hostVars, guestVars, copies
  <1>1. ASSUME EditDetails \/ CloseGuestList \/ MarkRequestDone \/ CancelPost
        PROVE  post'.interestedCount = post.interestedCount
    BY <1>1 DEF EditDetails, CloseGuestList, MarkRequestDone, CancelPost, WritePost,
       TypeOK, Post
  <1>2. ASSUME NEW g \in Guests, AcceptWrite(g) \/ RejectGuest(g) \/ OptOut(g)
        PROVE  post'.interestedCount = post.interestedCount
    BY <1>2 DEF AcceptWrite, RejectGuest, OptOut, WriteAcceptor, WriteGuest, WritePost,
       Increment, TypeOK, Post
  <1>3. CASE UNCHANGED post
    BY <1>3
  <1> QED
    BY <1>1, <1>2, <1>3 DEF Next, vars, HostNext, GuestNext, FaultNext, CreatePost,
       CreateHostCopy, OpenScreen, MarkDone, DeleteHostCopy, AcceptAllGuests, AcceptGuest,
       DeleteGuestCopy, DealCard, WithdrawCard, SwipeRight, CreateCutShort,
       HostAppKilled, GuestAppKilled, FunctionKilled, DeliveredAgain, RunFunction

\* No other step changes which swipes have counted.
LEMMA OtherSwipes ==
    ASSUME TypeOK, [Next]_vars,
           ~\E g \in Guests, k \in Slots : JoinWrite(g, k)
    PROVE  Counted' = Counted
  <1> USE DEF hostVars, guestVars, copies
  <1> SUFFICES ASSUME NEW g \in Guests, NEW k \in Slots
               PROVE  HasCounted(swipes[g][k])' <=> HasCounted(swipes[g][k])
    BY CountedSame
  <1>1. CASE UNCHANGED swipes
    BY <1>1 DEF HasCounted
  <1>2. ASSUME NEW h \in Guests, NEW j \in Slots,
               DealCard(h, j) \/ WithdrawCard(h, j) \/ SwipeRight(h, j)
        PROVE  HasCounted(swipes[g][k])' <=> HasCounted(swipes[g][k])
    <2>1. swipes[h][j].pc \in {"none", "card"}
      BY <1>2 DEF DealCard, WithdrawCard, SwipeRight
    <2>2. \/ swipes'[g][k] = swipes[g][k]
          \/ /\ g = h /\ k = j
             /\ \/ swipes'[g][k].pc \in {"none", "card", "refused"}
                \/ swipes'[g][k].todo = JoinWrites
      BY <1>2 DEF DealCard, WithdrawCard, SwipeRight, SetSwipe, TypeOK
    <2> QED BY <2>1, <2>2 DEF HasCounted, JoinWrites
  <1>3. ASSUME NEW h \in Guests, GuestAppKilled(h)
        PROVE  HasCounted(swipes[g][k])' <=> HasCounted(swipes[g][k])
    <2>1. swipes[g][k] \in Swipe
      BY DEF TypeOK
    <2>2. \/ swipes'[g][k] = swipes[g][k]
          \/ /\ swipes[g][k].pc = "joining" /\ swipes'[g][k].pc = "lost"
             /\ swipes'[g][k].todo = swipes[g][k].todo
      BY <1>3, <2>1 DEF GuestAppKilled, TypeOK, Swipe
    <2> QED BY <2>2 DEF HasCounted
  <1> QED
    BY <1>1, <1>2, <1>3 DEF Next, vars, HostNext, GuestNext, FaultNext, CreatePost,
       CreateHostCopy, OpenScreen, EditDetails, CloseGuestList, MarkDone,
       MarkRequestDone, CancelPost, DeleteHostCopy, AcceptAllGuests, AcceptGuest,
       AcceptWrite, RejectGuest, OptOut, DeleteGuestCopy, CreateCutShort,
       HostAppKilled, FunctionKilled, DeliveredAgain, RunFunction

\* A write of addAcceptor counts its swipe when it increments interestedCount, and only then.
LEMMA JoinCounts ==
    ASSUME TypeOK, InterestedCountExact,
           NEW g \in Guests, NEW k \in Slots, JoinWrite(g, k)
    PROVE  InterestedCountExact'
  <1> DEFINE todo == swipes[g][k].todo
  <1>1. swipes[g][k].pc = "joining"
    BY DEF JoinWrite
  <1>2. \A h \in Guests, j \in Slots : <<h, j>> # <<g, k>> => swipes'[h][j] = swipes[h][j]
    BY DEF JoinWrite, SetSwipe, TypeOK
  <1>3. CASE "interestedCount" \in todo /\ SetSwipe(g, k, "joining", todo \ {"interestedCount"})
              /\ Increment("interestedCount")
    <2>1. post'.interestedCount = post.interestedCount + 1
      BY <1>3 DEF Increment, WritePost, TypeOK, Post
    <2>2. HasCounted(swipes[g][k])' /\ ~HasCounted(swipes[g][k])
      BY <1>3 DEF HasCounted, SetSwipe, TypeOK
    <2>3. Counted' = Counted \cup {<<g, k>>} /\ <<g, k>> \notin Counted
      <3>1. \A s \in Guests \X Slots : s = <<s[1], s[2]>> /\ s[1] \in Guests /\ s[2] \in Slots
        OBVIOUS
      <3>2. \A s \in Guests \X Slots : s # <<g, k>> =>
                (HasCounted(swipes[s[1]][s[2]])' <=> HasCounted(swipes[s[1]][s[2]]))
        BY <1>2, <3>1 DEF HasCounted
      <3> QED BY <2>2, <3>1, <3>2 DEF Counted
    <2>4. Cardinality(Counted') = Cardinality(Counted) + 1
      BY <2>3, CountedFinite, FS_AddElement
    <2> QED BY <2>1, <2>4 DEF InterestedCountExact
  <1>4. ASSUME NEW write, write # "interestedCount",
               swipes' = [swipes EXCEPT ![g][k] = [pc |-> "joining", todo |-> todo \ {write}]],
               post'.interestedCount = post.interestedCount
        PROVE  InterestedCountExact'
    <2>1. HasCounted(swipes[g][k])' <=> HasCounted(swipes[g][k])
      BY <1>1, <1>4 DEF HasCounted, TypeOK
    <2>2. \A h \in Guests, j \in Slots :
              HasCounted(swipes[h][j])' <=> HasCounted(swipes[h][j])
      BY <1>2, <2>1 DEF HasCounted
    <2>3. Counted' = Counted
      BY <2>2, CountedSame
    <2> QED BY <1>4, <2>3 DEF InterestedCountExact
  <1>5. CASE "acceptorIds" \in todo /\ SetSwipe(g, k, "joining", todo \ {"acceptorIds"})
              /\ WriteAcceptor(g, Undecided)
    BY <1>4, <1>5 DEF WriteAcceptor, SetSwipe
  <1>6. CASE /\ "confirmedGuests" \in todo
             /\ SetSwipe(g, k, "joining", todo \ {"confirmedGuests"})
             /\ WriteGuest(g, Going)
    <2>1. post'.interestedCount = post.interestedCount
      BY <1>6 DEF WriteGuest, TypeOK, Post
    <2> QED BY <1>4, <1>6, <2>1 DEF SetSwipe
  <1>7. CASE /\ "confirmedCount" \in todo
             /\ SetSwipe(g, k, "joining", todo \ {"confirmedCount"})
             /\ Increment("confirmedCount")
    <2>1. post'.interestedCount = post.interestedCount
      BY <1>7 DEF Increment, WritePost, TypeOK, Post
    <2> QED BY <1>4, <1>7, <2>1 DEF SetSwipe
  <1>8. CASE \E name \in todo \cap {"acceptorName", "guestName"} :
                /\ SetSwipe(g, k, "joining", todo \ {name})
                /\ FillName
    BY <1>4, <1>8 DEF FillName, SetSwipe
  <1> QED BY <1>3, <1>5, <1>6, <1>7, <1>8 DEF JoinWrite

\* interestedCount is the number of right swipes whose increment was committed,
\* whoever else writes to the post at the same time.
THEOREM InterestedCountExactCorrect == Spec => []InterestedCountExact
  <1>1. Init => InterestedCountExact
    <2> SUFFICES ASSUME Init PROVE InterestedCountExact
      OBVIOUS
    <2>1. Counted = {}
      BY DEF Init, Counted, HasCounted
    <2> QED BY <2>1, FS_EmptySet DEF Init, NewPost, InterestedCountExact
  <1>2. TypeOK /\ InterestedCountExact /\ [Next]_vars => InterestedCountExact'
    BY OtherWrites, OtherSwipes, JoinCounts DEF InterestedCountExact
  <1> QED BY <1>1, <1>2, TypeCorrect, PTL DEF Spec

-----------------------------------------------------------------------------
(* The count of confirmed guests.                                          *)

\* The guests the host has listed and not yet counted, and the joins likewise.
Owes(swipe) ==
    swipe.pc = "joining" /\ "confirmedCount" \in swipe.todo /\ "confirmedGuests" \notin swipe.todo
OwedByHost == {g \in Guests : accepting[g] = {"confirmedCount"}}
OwedByJoins == {s \in Guests \X Slots : Owes(swipes[s[1]][s[2]])}

\* Whoever is still to list a guest is still to count the guest.
CountFollows ==
    /\ \A g \in Guests : "confirmedGuests" \in accepting[g] => "confirmedCount" \in accepting[g]
    /\ \A g \in Guests, k \in Slots :
          swipes[g][k].pc = "joining" /\ "confirmedGuests" \in swipes[g][k].todo
          => "confirmedCount" \in swipes[g][k].todo

\* The members do not outnumber those counted and those still owed.
Covered ==
    Cardinality(Members(post)) <=
        post.confirmedCount + Cardinality(OwedByHost) + Cardinality(OwedByJoins)

\* All three sets are finite, so their sizes are numbers.
LEMMA OwedFinite ==
    /\ IsFiniteSet(Members(post)) /\ IsFiniteSet(Members(post'))
    /\ IsFiniteSet(OwedByHost) /\ IsFiniteSet(OwedByHost')
    /\ IsFiniteSet(OwedByJoins) /\ IsFiniteSet(OwedByJoins')
  <1>1. IsFiniteSet(Guests \X Slots)
    BY FS_Product, GuestsAssumption
  <1>2. /\ OwedByHost \subseteq Guests /\ OwedByHost' \subseteq Guests
        /\ Members(post) \subseteq Guests /\ Members(post') \subseteq Guests
    BY DEF OwedByHost, Members
  <1>3. OwedByJoins \subseteq Guests \X Slots /\ OwedByJoins' \subseteq Guests \X Slots
    BY DEF OwedByJoins
  <1> QED BY <1>1, <1>2, <1>3, GuestsAssumption, FS_Subset

\* If no swipe stops owing a count, the joins owe no fewer.
LEMMA OwedSame ==
    ASSUME \A g \in Guests, k \in Slots : Owes(swipes[g][k]) => Owes(swipes[g][k])'
    PROVE  OwedByJoins \subseteq OwedByJoins'
  <1>1. \A s \in Guests \X Slots : s[1] \in Guests /\ s[2] \in Slots
    OBVIOUS
  <1> QED BY <1>1 DEF OwedByJoins

\* A step that lists nobody, counts nobody and pays nothing back keeps the balance.
LEMMA CoveredStays ==
    ASSUME TypeOK, Covered, Members(post') = Members(post),
           post'.confirmedCount = post.confirmedCount,
           OwedByHost \subseteq OwedByHost', OwedByJoins \subseteq OwedByJoins'
    PROVE  Covered'
  <1>1. /\ Cardinality(OwedByHost) <= Cardinality(OwedByHost')
        /\ Cardinality(OwedByJoins) <= Cardinality(OwedByJoins')
    BY OwedFinite, FS_Subset
  <1>2. /\ Cardinality(OwedByHost) \in Nat /\ Cardinality(OwedByHost') \in Nat
        /\ Cardinality(OwedByJoins) \in Nat /\ Cardinality(OwedByJoins') \in Nat
        /\ Cardinality(Members(post)) \in Nat
    BY OwedFinite, FS_CardinalityType
  <1>3. post.confirmedCount \in Nat
    BY DEF TypeOK, Post
  <1> QED BY <1>1, <1>2, <1>3 DEF Covered

\* Listing one guest adds at most one member.
LEMMA OneListed ==
    ASSUME TypeOK, NEW g \in Guests, NEW s \in Membership, WriteGuest(g, s)
    PROVE  /\ Members(post') \subseteq Members(post) \cup {g}
           /\ Cardinality(Members(post')) <= Cardinality(Members(post)) + 1
           /\ post'.confirmedCount = post.confirmedCount
  <1>1. /\ Members(post') \subseteq Members(post) \cup {g}
        /\ post'.confirmedCount = post.confirmedCount
    BY DEF WriteGuest, Members, TypeOK, Post
  <1>2. /\ IsFiniteSet(Members(post) \cup {g})
        /\ Cardinality(Members(post) \cup {g}) <= Cardinality(Members(post)) + 1
    <2>1. Cardinality(Members(post)) \in Nat
      BY OwedFinite, FS_CardinalityType
    <2> QED BY <2>1, OwedFinite, FS_AddElement
  <1>3. Cardinality(Members(post')) <= Cardinality(Members(post) \cup {g})
    BY <1>1, <1>2, FS_Subset
  <1>4. /\ Cardinality(Members(post')) \in Nat /\ Cardinality(Members(post)) \in Nat
        /\ Cardinality(Members(post) \cup {g}) \in Nat
    BY <1>2, OwedFinite, FS_CardinalityType
  <1> QED BY <1>1, <1>2, <1>3, <1>4

\* Each write of acceptGuest keeps the balance: what lists the guest makes the
\* host owe a count, and the transaction pays it back.
LEMMA AcceptCovered ==
    ASSUME TypeOK, CountFollows, Covered, NEW g \in Guests, AcceptWrite(g)
    PROVE  Covered'
  <1> USE DEF guestVars
  <1>0. OwedByJoins' = OwedByJoins
    BY DEF AcceptWrite, OwedByJoins
  <1>c. /\ Cardinality(OwedByHost) \in Nat /\ Cardinality(OwedByHost') \in Nat
        /\ Cardinality(OwedByJoins) \in Nat
        /\ Cardinality(Members(post)) \in Nat /\ Cardinality(Members(post')) \in Nat
        /\ post.confirmedCount \in Nat
    BY OwedFinite, FS_CardinalityType DEF TypeOK, Post
  <1>1. CASE /\ "acceptorIds" \in accepting[g]
             /\ accepting' = [accepting EXCEPT ![g] = @ \ {"acceptorIds"}]
             /\ WriteAcceptor(g, Going)
    <2>1. OwedByHost \subseteq OwedByHost'
      BY <1>1 DEF OwedByHost, TypeOK
    <2> QED BY <1>0, <1>1, <2>1, CoveredStays DEF WriteAcceptor
  <1>2. CASE /\ "acceptorIds" \notin accepting[g]
             /\ "confirmedGuests" \in accepting[g]
             /\ accepting' = [accepting EXCEPT ![g] = @ \ {"confirmedGuests"}]
             /\ WriteGuest(g, Going)
    <2>1. accepting[g] = {"confirmedGuests", "confirmedCount"}
      BY <1>2 DEF CountFollows, TypeOK, AcceptWrites
    <2>2. OwedByHost' = OwedByHost \cup {g} /\ g \notin OwedByHost
      <3>1. accepting'[g] = {"confirmedCount"} /\ accepting[g] # {"confirmedCount"}
        <4>1. accepting'[g] = accepting[g] \ {"confirmedGuests"}
          BY <1>2 DEF TypeOK
        <4>2. "confirmedGuests" \notin {"confirmedCount"}
          OBVIOUS
        <4>3. accepting[g] \ {"confirmedGuests"} = {"confirmedCount"}
          <5>1. \A x : x \in accepting[g] \ {"confirmedGuests"} <=> x \in {"confirmedCount"}
            BY <2>1
          <5> QED BY <5>1
        <4> QED BY <1>2, <4>1, <4>2, <4>3
      <3>2. \A h \in Guests : h # g => accepting'[h] = accepting[h]
        BY <1>2 DEF TypeOK
      <3> QED BY <3>1, <3>2 DEF OwedByHost
    <2>3. Cardinality(OwedByHost') = Cardinality(OwedByHost) + 1
      BY <2>2, OwedFinite, FS_AddElement
    <2>4. /\ Cardinality(Members(post')) <= Cardinality(Members(post)) + 1
          /\ post'.confirmedCount = post.confirmedCount
      BY <1>2, OneListed
    <2> QED BY <1>0, <1>c, <2>3, <2>4 DEF Covered
  <1>3. CASE /\ accepting[g] = {"confirmedCount"}
             /\ accepting' = [accepting EXCEPT ![g] = {}]
             /\ Increment("confirmedCount")
    <2>1. OwedByHost' = OwedByHost \ {g} /\ g \in OwedByHost
      BY <1>3 DEF OwedByHost, TypeOK
    <2>2. Cardinality(OwedByHost') = Cardinality(OwedByHost) - 1
      BY <2>1, OwedFinite, FS_RemoveElement
    <2>3. post'.confirmedCount = post.confirmedCount + 1 /\ Members(post') = Members(post)
      BY <1>3 DEF Increment, WritePost, Members, TypeOK, Post
    <2> QED BY <1>0, <1>c, <2>2, <2>3 DEF Covered
  <1> QED BY <1>1, <1>2, <1>3 DEF AcceptWrite

\* So does each write of addAcceptor, with the join in the place of the host.
LEMMA JoinCovered ==
    ASSUME TypeOK, CountFollows, Covered, NEW g \in Guests, NEW k \in Slots, JoinWrite(g, k)
    PROVE  Covered'
  <1> USE DEF hostVars
  <1> DEFINE todo == swipes[g][k].todo
  <1>0. OwedByHost' = OwedByHost /\ swipes[g][k].pc = "joining"
    BY DEF JoinWrite, OwedByHost
  <1>c. /\ Cardinality(OwedByJoins) \in Nat /\ Cardinality(OwedByJoins') \in Nat
        /\ Cardinality(OwedByHost) \in Nat
        /\ Cardinality(Members(post)) \in Nat /\ Cardinality(Members(post')) \in Nat
        /\ post.confirmedCount \in Nat
    BY OwedFinite, FS_CardinalityType DEF TypeOK, Post
  <1>a. \A s \in Guests \X Slots : s = <<s[1], s[2]>> /\ s[1] \in Guests /\ s[2] \in Slots
    OBVIOUS
  <1>b. \A h \in Guests, j \in Slots : <<h, j>> # <<g, k>> => swipes'[h][j] = swipes[h][j]
    BY DEF JoinWrite, SetSwipe, TypeOK
  <1>d. \A s \in Guests \X Slots : s # <<g, k>> =>
            (Owes(swipes[s[1]][s[2]])' <=> Owes(swipes[s[1]][s[2]]))
    BY <1>a, <1>b DEF Owes
  <1>1. ASSUME NEW write, write \notin {"confirmedGuests", "confirmedCount"},
               SetSwipe(g, k, "joining", todo \ {write}),
               post'.confirmedCount = post.confirmedCount, Members(post') = Members(post)
        PROVE  Covered'
    <2>1. Owes(swipes[g][k])' <=> Owes(swipes[g][k])
      BY <1>0, <1>1 DEF Owes, SetSwipe, TypeOK
    <2>2. OwedByJoins \subseteq OwedByJoins'
      BY <1>d, <2>1 DEF OwedByJoins
    <2> QED BY <1>0, <1>1, <2>2, CoveredStays
  <1>2. CASE "acceptorIds" \in todo /\ SetSwipe(g, k, "joining", todo \ {"acceptorIds"})
              /\ WriteAcceptor(g, Undecided)
    BY <1>1, <1>2 DEF WriteAcceptor
  <1>3. CASE /\ "confirmedGuests" \in todo
             /\ SetSwipe(g, k, "joining", todo \ {"confirmedGuests"})
             /\ WriteGuest(g, Going)
    <2>1. Owes(swipes[g][k])' /\ ~Owes(swipes[g][k])
      BY <1>0, <1>3 DEF CountFollows, Owes, SetSwipe, TypeOK
    <2>2. OwedByJoins' = OwedByJoins \cup {<<g, k>>} /\ <<g, k>> \notin OwedByJoins
      BY <1>a, <1>d, <2>1 DEF OwedByJoins
    <2>3. Cardinality(OwedByJoins') = Cardinality(OwedByJoins) + 1
      BY <2>2, OwedFinite, FS_AddElement
    <2>4. /\ Cardinality(Members(post')) <= Cardinality(Members(post)) + 1
          /\ post'.confirmedCount = post.confirmedCount
      BY <1>3, OneListed
    <2> QED BY <1>0, <1>c, <2>3, <2>4 DEF Covered
  <1>4. CASE /\ "confirmedCount" \in todo /\ "confirmedGuests" \notin todo
             /\ SetSwipe(g, k, "joining", todo \ {"confirmedCount"})
             /\ Increment("confirmedCount")
    <2>1. ~Owes(swipes[g][k])' /\ Owes(swipes[g][k])
      BY <1>0, <1>4 DEF Owes, SetSwipe, TypeOK
    <2>2. OwedByJoins' = OwedByJoins \ {<<g, k>>} /\ <<g, k>> \in OwedByJoins
      BY <1>a, <1>d, <2>1 DEF OwedByJoins
    <2>3. Cardinality(OwedByJoins') = Cardinality(OwedByJoins) - 1
      BY <2>2, OwedFinite, FS_RemoveElement
    <2>4. post'.confirmedCount = post.confirmedCount + 1 /\ Members(post') = Members(post)
      BY <1>4 DEF Increment, WritePost, Members, TypeOK, Post
    <2> QED BY <1>0, <1>c, <2>3, <2>4 DEF Covered
  <1>5. CASE /\ SetSwipe(g, k, "joining", todo \ {"interestedCount"})
             /\ Increment("interestedCount")
    <2>1. post'.confirmedCount = post.confirmedCount /\ Members(post') = Members(post)
      BY <1>5 DEF Increment, WritePost, Members, TypeOK, Post
    <2> QED BY <1>1, <1>5, <2>1
  <1>6. CASE \E name \in todo \cap {"acceptorName", "guestName"} :
                SetSwipe(g, k, "joining", todo \ {name}) /\ FillName
    BY <1>1, <1>6 DEF FillName
  <1> QED BY <1>2, <1>3, <1>4, <1>5, <1>6 DEF JoinWrite

\* Every other step without a fault lists nobody new, counts nobody, and leaves
\* what is owed: a guest who opts out is listed already.
LEMMA OthersCovered ==
    ASSUME TypeOK, GuestCopyMeansMember, Covered, [Next]_vars, faults' = faults,
           ~\E g \in Guests : AcceptWrite(g) \/ \E k \in Slots : JoinWrite(g, k)
    PROVE  Covered'
  <1> USE DEF hostVars, guestVars, copies
  <1>0. ~FaultNext
    BY DEF FaultNext, CreateCutShort, HostAppKilled, GuestAppKilled, FunctionKilled,
       DeliveredAgain, Fault, TypeOK
  <1>1. Members(post') = Members(post) /\ post'.confirmedCount = post.confirmedCount
    <2>1. CASE EditDetails \/ CloseGuestList \/ MarkRequestDone \/ CancelPost
      BY <2>1 DEF EditDetails, CloseGuestList, MarkRequestDone, CancelPost, WritePost,
         Members, TypeOK, Post
    <2>2. ASSUME NEW g \in Guests, OptOut(g)
          PROVE  Members(post') = Members(post) /\ post'.confirmedCount = post.confirmedCount
      <3>1. g \in Members(post)
        BY <2>2 DEF OptOut, GuestCopyMeansMember
      <3> QED BY <2>2, <3>1 DEF OptOut, WriteGuest, Members, TypeOK, Post
    <2>3. ASSUME NEW g \in Guests, RejectGuest(g)
          PROVE  Members(post') = Members(post) /\ post'.confirmedCount = post.confirmedCount
      BY <2>3 DEF RejectGuest, WriteAcceptor
    <2>4. CASE UNCHANGED post
      BY <2>4
    <2> QED
      BY <1>0, <2>1, <2>2, <2>3, <2>4 DEF Next, vars, HostNext, GuestNext, CreatePost,
         CreateHostCopy, OpenScreen, MarkDone, DeleteHostCopy, AcceptAllGuests, AcceptGuest,
         DeleteGuestCopy, DealCard, WithdrawCard, SwipeRight, RunFunction
  <1>2. OwedByHost \subseteq OwedByHost'
    <2>1. CASE UNCHANGED accepting
      BY <2>1 DEF OwedByHost
    <2>2. ASSUME NEW g \in Guests, AcceptGuest(g) PROVE OwedByHost \subseteq OwedByHost'
      BY <2>2 DEF AcceptGuest, OwedByHost, TypeOK
    <2>3. CASE AcceptAllGuests
      BY <2>3 DEF AcceptAllGuests, OwedByHost, TypeOK
    <2> QED
      BY <1>0, <2>1, <2>2, <2>3 DEF Next, vars, HostNext, GuestNext, CreatePost,
         CreateHostCopy, OpenScreen, EditDetails, CloseGuestList, MarkDone,
         MarkRequestDone, CancelPost, DeleteHostCopy, RejectGuest, OptOut,
         DeleteGuestCopy, DealCard, WithdrawCard, SwipeRight, RunFunction
  <1>3. OwedByJoins \subseteq OwedByJoins'
    <2> SUFFICES ASSUME NEW g \in Guests, NEW k \in Slots, Owes(swipes[g][k])
                 PROVE  Owes(swipes[g][k])'
      BY OwedSame
    <2>1. CASE UNCHANGED swipes
      BY <2>1 DEF Owes
    <2>2. ASSUME NEW h \in Guests, NEW j \in Slots,
                 DealCard(h, j) \/ WithdrawCard(h, j) \/ SwipeRight(h, j)
          PROVE  Owes(swipes[g][k])'
      <3>1. swipes[h][j].pc # "joining"
        BY <2>2 DEF DealCard, WithdrawCard, SwipeRight
      <3>2. ~(g = h /\ k = j)
        BY <3>1 DEF Owes
      <3>3. swipes'[g][k] = swipes[g][k]
        BY <2>2, <3>2 DEF DealCard, WithdrawCard, SwipeRight, SetSwipe, TypeOK
      <3> QED BY <3>3 DEF Owes
    <2> QED
      BY <1>0, <2>1, <2>2 DEF Next, vars, HostNext, GuestNext, CreatePost,
         CreateHostCopy, OpenScreen, EditDetails, CloseGuestList, MarkDone,
         MarkRequestDone, CancelPost, DeleteHostCopy, AcceptAllGuests, AcceptGuest,
         AcceptWrite, RejectGuest, OptOut, DeleteGuestCopy, RunFunction
  <1> QED BY <1>1, <1>2, <1>3, CoveredStays

\* Counting stays to be done for as long as listing does.
LEMMA CountFollowsStays ==
    ASSUME TypeOK, CountFollows, [Next]_vars
    PROVE  CountFollows'
  <1> USE DEF hostVars, guestVars, copies
  <1>1. \A g \in Guests : ("confirmedGuests" \in accepting[g] => "confirmedCount" \in accepting[g])'
    <2> SUFFICES ASSUME NEW g \in Guests, "confirmedGuests" \in accepting'[g]
                 PROVE  "confirmedCount" \in accepting'[g]
      OBVIOUS
    <2>1. CASE UNCHANGED accepting
      BY <2>1 DEF CountFollows
    <2>2. ASSUME NEW h \in Guests, AcceptGuest(h) PROVE "confirmedCount" \in accepting'[g]
      BY <2>2 DEF AcceptGuest, AcceptWrites, CountFollows, TypeOK
    <2>3. CASE AcceptAllGuests
      BY <2>3 DEF AcceptAllGuests, AcceptWrites, CountFollows, TypeOK
    <2>4. ASSUME NEW h \in Guests, AcceptWrite(h) PROVE "confirmedCount" \in accepting'[g]
      BY <2>4 DEF AcceptWrite, CountFollows, TypeOK
    <2>5. CASE HostAppKilled
      BY <2>5 DEF HostAppKilled
    <2> QED
      BY <2>1, <2>2, <2>3, <2>4, <2>5 DEF Next, vars, HostNext, GuestNext, FaultNext,
         CreatePost, CreateHostCopy, OpenScreen, EditDetails, CloseGuestList, MarkDone,
         MarkRequestDone, CancelPost, DeleteHostCopy, RejectGuest, OptOut,
         DeleteGuestCopy, DealCard, WithdrawCard, SwipeRight, JoinWrite, RunFunction,
         CreateCutShort, GuestAppKilled, FunctionKilled, DeliveredAgain
  <1>2. \A g \in Guests, k \in Slots :
           (swipes[g][k].pc = "joining" /\ "confirmedGuests" \in swipes[g][k].todo
            => "confirmedCount" \in swipes[g][k].todo)'
    <2> SUFFICES ASSUME NEW g \in Guests, NEW k \in Slots, swipes'[g][k].pc = "joining",
                        "confirmedGuests" \in swipes'[g][k].todo
                 PROVE  "confirmedCount" \in swipes'[g][k].todo
      OBVIOUS
    <2>1. CASE swipes'[g][k] = swipes[g][k]
      BY <2>1 DEF CountFollows
    <2>2. ASSUME NEW h \in Guests, NEW j \in Slots,
                 DealCard(h, j) \/ WithdrawCard(h, j) \/ SwipeRight(h, j)
          PROVE  "confirmedCount" \in swipes'[g][k].todo
      <3>1. "confirmedGuests" \in JoinWrites => "confirmedCount" \in JoinWrites
        BY DEF JoinWrites
      <3>2. \/ swipes'[g][k] = swipes[g][k]
            \/ swipes'[g][k].pc \in {"none", "card", "refused"}
            \/ swipes'[g][k].todo = JoinWrites
        BY <2>2 DEF DealCard, WithdrawCard, SwipeRight, SetSwipe, TypeOK
      <3> QED BY <2>1, <3>1, <3>2
    <2>3. ASSUME NEW h \in Guests, NEW j \in Slots, JoinWrite(h, j)
          PROVE  "confirmedCount" \in swipes'[g][k].todo
      <3>1. CASE g = h /\ k = j
        <4>1. /\ swipes[g][k].pc = "joining"
              /\ \E write \in swipes[g][k].todo :
                    /\ SetSwipe(g, k, "joining", swipes[g][k].todo \ {write})
                    /\ write = "confirmedCount" => "confirmedGuests" \notin swipes[g][k].todo
          BY <2>3, <3>1 DEF JoinWrite
        <4> QED BY <4>1 DEF SetSwipe, CountFollows, TypeOK
      <3>2. CASE ~(g = h /\ k = j)
        BY <2>1, <2>3, <3>2 DEF JoinWrite, SetSwipe, TypeOK
      <3> QED BY <3>1, <3>2
    <2>4. ASSUME NEW h \in Guests, GuestAppKilled(h)
          PROVE  "confirmedCount" \in swipes'[g][k].todo
      <3>1. swipes[g][k] \in Swipe
        BY DEF TypeOK
      <3>2. swipes'[g][k] = swipes[g][k] \/ swipes'[g][k].pc = "lost"
        BY <2>4, <3>1 DEF GuestAppKilled, TypeOK, Swipe
      <3> QED BY <2>1, <3>2
    <2> QED
      BY <2>1, <2>2, <2>3, <2>4 DEF Next, vars, HostNext, GuestNext, FaultNext,
         CreatePost, CreateHostCopy, OpenScreen, EditDetails, CloseGuestList, MarkDone,
         MarkRequestDone, CancelPost, DeleteHostCopy, AcceptAllGuests, AcceptGuest,
         AcceptWrite, RejectGuest, OptOut, DeleteGuestCopy, RunFunction,
         CreateCutShort, HostAppKilled, FunctionKilled, DeliveredAgain
  <1> QED BY <1>1, <1>2 DEF CountFollows

\* Without faults confirmedCount and the increments to come account for every
\* member, however the host's and the guests' writes interleave.
THEOREM MembersCountedCorrect == Spec => []MembersCounted
  <1> DEFINE Inv == faults = 0 => Covered
  <1>1. Init => CountFollows /\ Inv
    <2> SUFFICES ASSUME Init PROVE CountFollows /\ Inv
      OBVIOUS
    <2>1. Members(post) = {} /\ post.confirmedCount = 0
      BY DEF Init, NewPost, Members
    <2>2. OwedByHost = {} /\ OwedByJoins = {}
      BY DEF Init, OwedByHost, OwedByJoins, Owes
    <2>3. Covered
      BY <2>1, <2>2, FS_EmptySet DEF Covered
    <2> QED BY <2>3 DEF Init, CountFollows
  <1>2. TypeOK /\ GuestCopyMeansMember /\ CountFollows /\ Inv /\ [Next]_vars
        => CountFollows' /\ Inv'
    <2> SUFFICES ASSUME TypeOK, GuestCopyMeansMember, CountFollows, Inv, [Next]_vars
                 PROVE  CountFollows' /\ Inv'
      OBVIOUS
    <2>1. SUFFICES ASSUME faults' = 0 PROVE Covered'
      BY CountFollowsStays
    <2>2. faults' = faults \/ faults' = faults + 1
      BY DEF Next, vars, HostNext, GuestNext, FaultNext, CreatePost, CreateHostCopy,
         OpenScreen, EditDetails, CloseGuestList, MarkDone, MarkRequestDone, CancelPost,
         DeleteHostCopy, AcceptAllGuests, AcceptGuest, AcceptWrite, RejectGuest, OptOut,
         DeleteGuestCopy, DealCard, WithdrawCard, SwipeRight, JoinWrite, RunFunction,
         CreateCutShort, HostAppKilled, GuestAppKilled, FunctionKilled, DeliveredAgain,
         Fault
    <2>3. faults' = faults /\ Covered
      BY <2>1, <2>2 DEF TypeOK
    <2> QED BY <2>3, AcceptCovered, JoinCovered, OthersCovered
  <1>3. TypeOK /\ Inv => MembersCounted
    <2> SUFFICES ASSUME TypeOK, Covered
                 PROVE  Cardinality(Members(post)) <= post.confirmedCount + CountsToCome
      BY DEF MembersCounted
    <2>1. CountsToCome = Cardinality(OwedByHost) + Cardinality(OwedByJoins)
      BY DEF CountsToCome, OwedByHost, OwedByJoins, Owes
    <2>2. /\ Cardinality(OwedByHost) \in Nat /\ Cardinality(OwedByJoins) \in Nat
          /\ post.confirmedCount \in Nat
      BY OwedFinite, FS_CardinalityType DEF TypeOK, Post
    <2> QED BY <2>1, <2>2 DEF Covered
  <1> QED BY <1>1, <1>2, <1>3, TypeCorrect, GuestCopyMeansMemberCorrect, PTL DEF Spec

-----------------------------------------------------------------------------
(* Posts implements PostBoard.                                             *)

\* A post that does not exist can only be created.
LEMMA OnlyCreation ==
    ASSUME TypeOK, NothingBefore, [Next]_vars, ~Created
    PROVE  CreatePost \/ UNCHANGED vars
  <1>1. /\ work = {} /\ livePost = NoCopy /\ hostPost = NoCopy
        /\ ~hostScreen /\ ~doneCall /\ ~cancelling /\ creating = "none"
        /\ \A g \in Guests :
              /\ guestPosts[g] = NoCopy /\ accepting[g] = {} /\ ~leaving[g]
              /\ \A k \in Slots : swipes[g][k].pc = "none"
    BY DEF NothingBefore, Created
  <1>2. ~\E g \in Guests : AcceptWrite(g)
    BY <1>1 DEF AcceptWrite
  <1>3. ~\E g \in Guests, k \in Slots :
            DealCard(g, k) \/ WithdrawCard(g, k) \/ SwipeRight(g, k) \/ JoinWrite(g, k)
    BY <1>1 DEF DealCard, WithdrawCard, SwipeRight, JoinWrite
  <1>4. ~\E g \in Guests : GuestAppKilled(g)
    BY <1>1 DEF GuestAppKilled
  <1>5. ~(GuestNext \/ FaultNext \/ \E w \in work : RunFunction(w))
    BY <1>1, <1>3, <1>4 DEF GuestNext, FaultNext, OptOut, DeleteGuestCopy,
       CreateCutShort, HostAppKilled
  <1>6. HostNext => CreatePost
    BY <1>1, <1>2 DEF HostNext, CreateHostCopy, OpenScreen, EditDetails, CloseGuestList,
       MarkDone, MarkRequestDone, CancelPost, DeleteHostCopy, AcceptAllGuests,
       AcceptGuest, RejectGuest, GuestListShown
  <1> QED BY <1>5, <1>6 DEF Next

\* What NothingBefore says of a post that does not exist stays true.
LEMMA NothingBeforeStays ==
    ASSUME TypeOK, NothingBefore, [Next]_vars
    PROVE  NothingBefore'
  <1> USE DEF hostVars, guestVars, copies
  <1>1. CASE Created
    <2>1. creating' # "none"
      BY <1>1 DEF Created, Next, vars, HostNext, GuestNext, FaultNext, CreatePost,
         CreateHostCopy, OpenScreen, EditDetails, CloseGuestList, MarkDone,
         MarkRequestDone, CancelPost, DeleteHostCopy, AcceptAllGuests, AcceptGuest,
         AcceptWrite, RejectGuest, OptOut, DeleteGuestCopy, DealCard, WithdrawCard,
         SwipeRight, JoinWrite, CreateCutShort, HostAppKilled, GuestAppKilled,
         FunctionKilled, DeliveredAgain, RunFunction
    <2> QED BY <2>1 DEF NothingBefore, Created
  <1>2. CASE ~Created
    <2>1. CASE CreatePost
      BY <2>1 DEF CreatePost, NothingBefore, Created
    <2>2. CASE UNCHANGED vars
      BY <1>2, <2>2 DEF vars, NothingBefore, Created
    <2> QED BY <1>2, <2>1, <2>2, OnlyCreation
  <1> QED BY <1>1, <1>2

\* No step leaves a call of markRequestDone outstanding for an open post.
LEMMA DoneCallStaysLate ==
    ASSUME TypeOK, DoneCallLate, [Next]_vars
    PROVE  DoneCallLate'
  <1> USE DEF hostVars, guestVars, copies
  <1>1. doneCall' = doneCall \/ doneCall' = FALSE \/ (MarkDone /\ doneCall' = TRUE)
    BY DEF Next, vars, HostNext, GuestNext, FaultNext, CreatePost, CreateHostCopy,
       OpenScreen, EditDetails, CloseGuestList, MarkDone, MarkRequestDone, CancelPost,
       DeleteHostCopy, AcceptAllGuests, AcceptGuest, AcceptWrite, RejectGuest, OptOut,
       DeleteGuestCopy, DealCard, WithdrawCard, SwipeRight, JoinWrite, CreateCutShort,
       HostAppKilled, GuestAppKilled, FunctionKilled, DeliveredAgain, RunFunction
  <1>2. post.status # Open => post'.status # Open
    BY PostMovesOn DEF NoLaterThan
  <1>3. MarkDone => post'.status # Open
    BY <1>2 DEF MarkDone, Open, Closed
  <1> QED BY <1>1, <1>2, <1>3 DEF DoneCallLate

\* Nothing happens to a post before it is created, and nobody marks an open post as done.
THEOREM BeforeAndLate == Spec => [](NothingBefore /\ DoneCallLate)
  <1>1. Init => NothingBefore /\ DoneCallLate
    BY DEF Init, NothingBefore, DoneCallLate, Created
  <1>2. TypeOK /\ NothingBefore /\ DoneCallLate /\ [Next]_vars
        => NothingBefore' /\ DoneCallLate'
    BY NothingBeforeStays, DoneCallStaysLate
  <1> QED BY <1>1, <1>2, TypeCorrect, PTL DEF Spec

\* Every step of the apps and functions is a step of PostBoard or leaves it alone.
LEMMA BoardStep ==
    ASSUME TypeOK, TypeOK', NothingBefore, NothingBefore', DoneCallLate,
           GuestCopyMeansMember', [Next]_vars
    PROVE  [Board!Next]_Board!vars
  <1> USE DEF hostVars, guestVars, copies
  <1> DEFINE status == IF Created THEN post.status ELSE -1
             listed == Members(post)
             dealt  == livePost # NoCopy
             shown  == {g \in Guests : guestPosts[g] # NoCopy}
  <1>1. CASE CreatePost
    <2>1. status = -1 /\ status' = 0
      BY <1>1 DEF CreatePost, Created, NothingBefore, NewPost, Open
    <2>2. UNCHANGED <<listed, dealt, shown>>
      BY <1>1 DEF CreatePost, Members
    <2> QED BY <2>1, <2>2 DEF Board!Next, Board!Create, Board!NoPost, Board!Open
  <1>2. ASSUME Created, Created', UNCHANGED copies,
               \E p \in Post : p.confirmedGuests = post.confirmedGuests /\ post' = p,
               post.status = post'.status \/ <<post.status, post'.status>> \in Board!Moves
        PROVE  [Board!Next]_Board!vars
    <2>1. UNCHANGED <<listed, dealt, shown>>
      BY <1>2 DEF Members
    <2>2. status = status' \/ <<status, status'>> \in Board!Moves
      BY <1>2
    <2> QED BY <2>1, <2>2 DEF Board!Next, Board!Move, Board!vars
  <1>3. ASSUME NEW g \in Guests, NEW s \in {Going, OptedOut}, WriteGuest(g, s),
               Created, Created', UNCHANGED copies
        PROVE  [Board!Next]_Board!vars
    <2>1. status' = status /\ UNCHANGED <<dealt, shown>> /\ status # -1
      BY <1>3 DEF WriteGuest, TypeOK, Post, Status, Open, Closed, Done, Cancelled
    <2>2. listed' = listed \cup {g}
      BY <1>3 DEF WriteGuest, Members, TypeOK, Post, NoEntry, Going, OptedOut
    <2>3. CASE g \in listed
      BY <2>1, <2>2, <2>3 DEF Board!vars
    <2>4. CASE g \notin listed
      BY <2>1, <2>2, <2>4 DEF Board!Next, Board!List, Board!NoPost
    <2> QED BY <2>3, <2>4
  <1>4. ASSUME UNCHANGED post, Created, Created'
        PROVE  UNCHANGED <<status, listed>> /\ status # -1
    BY <1>4 DEF TypeOK, Post, Status, Open, Closed, Done, Cancelled, Members
  <1>5. ASSUME UNCHANGED <<post, copies>>, Created' <=> Created
        PROVE  [Board!Next]_Board!vars
    BY <1>5 DEF Board!vars, Members
  <1>6. ASSUME UNCHANGED <<post, guestPosts>>, Created, Created'
        PROVE  [Board!Next]_Board!vars
    <2>1. UNCHANGED <<status, listed, shown>> /\ status # -1
      BY <1>4, <1>6
    <2>2. dealt' = dealt \/ dealt' = ~dealt
      OBVIOUS
    <2> QED BY <2>1, <2>2 DEF Board!vars, Board!Next, Board!Deal, Board!NoPost
  <1>7. ASSUME UNCHANGED <<post, livePost>>, Created, Created'
        PROVE  [Board!Next]_Board!vars
    <2>1. UNCHANGED <<status, listed, dealt>>
      BY <1>4, <1>7
    <2>2. shown' \subseteq listed
      BY <1>7 DEF GuestCopyMeansMember
    <2> QED BY <2>1, <2>2 DEF Board!Next, Board!Show
  <1>8. \A counter : Increment(counter) =>
            \E p \in Post : /\ p.confirmedGuests = post.confirmedGuests /\ post' = p
                            /\ p.status = post.status
    BY DEF Increment, WritePost, TypeOK, Post
  <1>9. CASE ~Created
    <2>1. CreatePost \/ UNCHANGED vars
      BY <1>9, OnlyCreation
    <2>2. UNCHANGED vars => UNCHANGED <<post, copies>> /\ (Created' <=> Created)
      BY DEF vars, Created
    <2> QED BY <1>1, <1>5, <2>1, <2>2
  <1>10. CASE Created
    <2>1. Created'
      BY <1>10 DEF Created, Next, vars, HostNext, GuestNext, FaultNext, CreatePost,
         CreateHostCopy, OpenScreen, EditDetails, CloseGuestList, MarkDone,
         MarkRequestDone, CancelPost, DeleteHostCopy, AcceptAllGuests, AcceptGuest,
         AcceptWrite, RejectGuest, OptOut, DeleteGuestCopy, DealCard, WithdrawCard,
         SwipeRight, JoinWrite, CreateCutShort, HostAppKilled, GuestAppKilled,
         FunctionKilled, DeliveredAgain, RunFunction
    <2>2. CASE HostNext
      <3>1. ASSUME EditDetails \/ CloseGuestList \/ MarkRequestDone \/ CancelPost
            PROVE  [Board!Next]_Board!vars
        <4>1. /\ UNCHANGED copies
              /\ post' \in Post /\ post'.confirmedGuests = post.confirmedGuests
          BY <3>1 DEF EditDetails, CloseGuestList, MarkRequestDone, CancelPost, WritePost,
             TypeOK, Post
        <4>2. post.status = post'.status \/ <<post.status, post'.status>> \in Board!Moves
          <5>1. post.status \in Status
            BY DEF TypeOK, Post
          <5>2. \/ post'.status = post.status
                \/ post.status = Open /\ post'.status = Closed
                \/ post.status # Open /\ post'.status = Done
                \/ post'.status = Cancelled
            BY <3>1 DEF EditDetails, CloseGuestList, MarkRequestDone, CancelPost,
               WritePost, TypeOK, Post, DoneCallLate
          <5> QED BY <5>1, <5>2 DEF Status, Open, Closed, Done, Cancelled, Board!Moves, Board!Open,
                     Board!Closed, Board!Done, Board!Cancelled
        <4> QED BY <1>2, <1>10, <2>1, <4>1, <4>2
      <3>2. ASSUME NEW g \in Guests, AcceptWrite(g)
            PROVE  [Board!Next]_Board!vars
        <4>1. CASE UNCHANGED post
          BY <1>5, <1>10, <2>1, <3>2, <4>1 DEF AcceptWrite
        <4>2. CASE WriteGuest(g, Going)
          BY <1>3, <1>10, <2>1, <3>2, <4>2 DEF AcceptWrite
        <4>3. CASE Increment("confirmedCount")
          BY <1>2, <1>8, <1>10, <2>1, <3>2, <4>3 DEF AcceptWrite
        <4> QED BY <3>2, <4>1, <4>2, <4>3 DEF AcceptWrite, WriteAcceptor
      <3>3. ASSUME CreateHostCopy \/ OpenScreen \/ MarkDone \/ DeleteHostCopy
                   \/ AcceptAllGuests \/ (\E g \in Guests : AcceptGuest(g) \/ RejectGuest(g))
            PROVE  [Board!Next]_Board!vars
        <4>1. UNCHANGED <<post, guestPosts>>
          BY <3>3 DEF CreateHostCopy, OpenScreen, MarkDone, DeleteHostCopy,
             AcceptAllGuests, AcceptGuest, RejectGuest, WriteAcceptor
        <4> QED BY <1>6, <1>10, <2>1, <4>1
      <3> QED BY <1>1, <2>2, <3>1, <3>2, <3>3 DEF HostNext
    <2>3. CASE GuestNext
      <3>1. ASSUME NEW g \in Guests, OptOut(g)
            PROVE  [Board!Next]_Board!vars
        BY <1>3, <1>10, <2>1, <3>1 DEF OptOut
      <3>2. ASSUME NEW g \in Guests, DeleteGuestCopy(g)
            PROVE  [Board!Next]_Board!vars
        BY <1>7, <1>10, <2>1, <3>2 DEF DeleteGuestCopy
      <3>3. ASSUME NEW g \in Guests, NEW k \in Slots,
                   DealCard(g, k) \/ WithdrawCard(g, k) \/ SwipeRight(g, k)
            PROVE  [Board!Next]_Board!vars
        BY <1>6, <1>10, <2>1, <3>3 DEF DealCard, WithdrawCard, SwipeRight
      <3>4. ASSUME NEW g \in Guests, NEW k \in Slots, JoinWrite(g, k)
            PROVE  [Board!Next]_Board!vars
        <4>1. UNCHANGED copies
          BY <3>4 DEF JoinWrite
        <4>2. CASE UNCHANGED post
          BY <1>5, <1>10, <2>1, <4>1, <4>2
        <4>3. CASE WriteGuest(g, Going)
          BY <1>3, <1>10, <2>1, <4>1, <4>3
        <4>4. CASE \E counter : Increment(counter)
          BY <1>2, <1>8, <1>10, <2>1, <4>1, <4>4
        <4> QED BY <3>4, <4>2, <4>3, <4>4 DEF JoinWrite, WriteAcceptor, FillName
      <3> QED BY <2>3, <3>1, <3>2, <3>3, <3>4 DEF GuestNext
    <2>4. CASE FaultNext
      <3>1. UNCHANGED <<post, guestPosts>>
        BY <2>4 DEF FaultNext, CreateCutShort, HostAppKilled, GuestAppKilled,
           FunctionKilled, DeliveredAgain
      <3> QED BY <1>6, <1>10, <2>1, <3>1
    <2>5. ASSUME NEW w \in work, RunFunction(w)
          PROVE  [Board!Next]_Board!vars
      <3>1. UNCHANGED post /\ (UNCHANGED guestPosts \/ UNCHANGED livePost)
        BY <2>5 DEF RunFunction, AddLive, ManageLive, ManageHost, ManageGuests,
           ReadGuests, EraseCopies, ReadPost, CopyToGuest
      <3> QED BY <1>6, <1>7, <1>10, <2>1, <3>1
    <2>6. CASE UNCHANGED vars
      BY <1>6, <1>10, <2>1, <2>6 DEF vars
    <2> QED BY <2>2, <2>3, <2>4, <2>5, <2>6 DEF Next
  <1> QED BY <1>9, <1>10

\* Posts implements PostBoard: whatever the apps and the functions do, and in
\* whatever order, the status moves only along the arrows of PostBoard, the guest
\* list only grows, and dashboards show the post to listed guests only.
THEOREM PostsImplementBoard == Spec => ImplementsBoard
  <1>1. Init => Board!Init
    BY DEF Init, Board!Init, Board!NoPost, Created, Members, NewPost
  <1>2. TypeOK /\ TypeOK' /\ NothingBefore /\ NothingBefore' /\ DoneCallLate
        /\ GuestCopyMeansMember' /\ [Next]_vars => [Board!Next]_Board!vars
    BY BoardStep
  <1> QED
    BY <1>1, <1>2, TypeCorrect, GuestCopyMeansMemberCorrect, BeforeAndLate, PTL
       DEF Spec, ImplementsBoard, Board!Spec
=============================================================================
