------------------------- MODULE SettledPostsProofs -------------------------
(* What a post comes to: a closed list of a private post keeps its members, *)
(* and the copies agree with the post once nothing is in flight and the    *)
(* last write met no function.  Functions may have overlapped before, in   *)
(* any number, and failed.                                                 *)
EXTENDS PostsProofs

USE DEF Open, Closed, Done, Cancelled, NoEntry, Undecided, Going, Rejected, OptedOut,
        Status, Acceptance, Membership

-----------------------------------------------------------------------------
(* A closed list keeps its members.                                        *)

\* Once the post is not open, no plain write of acceptGuest is on its way.
ListClosed == post.status # Open => HostIdle

\* The host's plain writes arrive in order, and "Mark as Done" comes after the close.
LEMMA ListClosedStays ==
    ASSUME TypeOK, DoneCallLate, ListClosed, [Next]_vars
    PROVE  ListClosed'
  <1> USE DEF hostVars, guestVars, copies
  <1> SUFFICES ASSUME post'.status # Open
               PROVE  HostIdle'
    BY DEF ListClosed
  <1>1. CASE HostIdle /\ \A g \in Guests : accepting'[g] \subseteq accepting[g]
    BY <1>1 DEF HostIdle
  <1>2. CASE ~HostIdle
    <2>1. post.status = Open
      BY <1>2 DEF ListClosed
    <2>2. post \in Post
      BY DEF TypeOK
    <2>3. \A counter : Increment(counter) => post'.status = Open
      BY <2>1, <2>2 DEF Increment, WritePost, Post
    <2>4. \A g \in Guests, s \in Membership : WriteGuest(g, s) => post'.status = Open
      BY <2>1, <2>2 DEF WriteGuest, Post
    <2>5. ~(EditDetails \/ CloseGuestList \/ CancelPost \/ MarkRequestDone)
      BY <1>2, <2>1 DEF EditDetails, CloseGuestList, CancelPost, MarkRequestDone, DoneCallLate
    <2>6. ~\E g \in Guests : AcceptWrite(g) \/ OptOut(g) \/ \E k \in Slots : JoinWrite(g, k)
      BY <2>1, <2>3, <2>4 DEF AcceptWrite, OptOut, JoinWrite, WriteAcceptor, FillName
    <2> QED
      BY <2>1, <2>5, <2>6 DEF Next, vars, HostNext, GuestNext, FaultNext, CreatePost,
         CreateHostCopy, OpenScreen, MarkDone, DeleteHostCopy, AcceptAllGuests,
         AcceptGuest, RejectGuest, WriteAcceptor, DeleteGuestCopy, DealCard,
         WithdrawCard, SwipeRight, CreateCutShort, HostAppKilled, GuestAppKilled,
         FunctionKilled, DeliveredAgain, RunFunction
  <1>3. ASSUME AcceptAllGuests \/ \E g \in Guests : AcceptGuest(g)
        PROVE  FALSE
    BY <1>3 DEF AcceptAllGuests, AcceptGuest, GuestListShown
  <1>4. \A g \in Guests : accepting'[g] \subseteq accepting[g]
    <2>1. ASSUME NEW h \in Guests, AcceptWrite(h)
          PROVE  \A g \in Guests : accepting'[g] \subseteq accepting[g]
      BY <2>1 DEF AcceptWrite, TypeOK
    <2>2. CASE HostAppKilled
      BY <2>2 DEF HostAppKilled
    <2>3. CASE UNCHANGED accepting
      BY <2>3
    <2> QED
      BY <1>3, <2>1, <2>2, <2>3 DEF Next, vars, HostNext, GuestNext, FaultNext,
         CreatePost, CreateHostCopy, OpenScreen, EditDetails, CloseGuestList, MarkDone,
         MarkRequestDone, CancelPost, DeleteHostCopy, RejectGuest, OptOut,
         DeleteGuestCopy, DealCard, WithdrawCard, SwipeRight, JoinWrite, CreateCutShort,
         GuestAppKilled, FunctionKilled, DeliveredAgain, RunFunction
  <1> QED BY <1>1, <1>2, <1>4

\* The guest list of a private post gets a guest from acceptGuest alone, while the
\* post is open; nobody comes back to it otherwise.
LEMMA GuestListSteps ==
    ASSUME ~PublicPost, TypeOK, GuestCopyMeansMember, ListClosed, [Next]_vars
    PROVE  \/ Members(post') = Members(post) /\ GoingTo(post') \subseteq GoingTo(post)
           \/ \E h \in Guests : /\ "confirmedGuests" \in accepting[h]
                                /\ WriteGuest(h, Going)
                                /\ post.status = Open /\ post'.status = Open
  <1> USE DEF hostVars, guestVars, copies
  <1> DEFINE Same == post'.confirmedGuests = post.confirmedGuests
             Shrinks == Members(post') = Members(post) /\ GoingTo(post') \subseteq GoingTo(post)
             Accepts == \E h \in Guests : /\ "confirmedGuests" \in accepting[h]
                                          /\ WriteGuest(h, Going)
                                          /\ post.status = Open /\ post'.status = Open
  <1>1. Same => Shrinks
    BY DEF Members, GoingTo
  <1>2. \A counter : Increment(counter) => Same
    BY DEF Increment, WritePost, TypeOK, Post
  <1>3. ASSUME EditDetails \/ CloseGuestList \/ MarkRequestDone \/ CancelPost
        PROVE  Same
    BY <1>3 DEF EditDetails, CloseGuestList, MarkRequestDone, CancelPost, WritePost,
       TypeOK, Post
  <1>4. ASSUME NEW h \in Guests, AcceptWrite(h)
        PROVE  Same \/ Accepts
    <2>1. CASE /\ "acceptorIds" \notin accepting[h] /\ "confirmedGuests" \in accepting[h]
               /\ WriteGuest(h, Going)
      <3>1. post.status = Open
        BY <2>1 DEF ListClosed, HostIdle
      <3>2. post'.status = Open
        BY <2>1, <3>1 DEF WriteGuest, TypeOK, Post
      <3> QED BY <2>1, <3>1, <3>2
    <2> QED BY <1>2, <1>4, <2>1 DEF AcceptWrite, WriteAcceptor
  <1>5. ASSUME NEW h \in Guests, OptOut(h)
        PROVE  Shrinks
    <2>1. h \in Members(post)
      BY <1>5 DEF OptOut, GuestCopyMeansMember
    <2>2. post'.confirmedGuests = [post.confirmedGuests EXCEPT ![h] = OptedOut]
      BY <1>5 DEF OptOut, WriteGuest, TypeOK, Post
    <2>3. post.confirmedGuests \in [Guests -> Membership]
      BY DEF TypeOK, Post
    <2> QED BY <2>1, <2>2, <2>3 DEF Members, GoingTo
  <1>6. ASSUME NEW h \in Guests, NEW k \in Slots, JoinWrite(h, k)
        PROVE  Same
    <2>1. "confirmedGuests" \notin swipes[h][k].todo
      <3>1. swipes[h][k] \in Swipe
        BY DEF TypeOK
      <3> QED BY <3>1 DEF Swipe, JoinWrites
    <2>2. (\E counter : Increment(counter)) \/ post' = post
      BY <1>6, <2>1 DEF JoinWrite, WriteAcceptor, FillName
    <2> QED BY <1>2, <2>2
  <1> HIDE DEF Accepts
  <1>7. CASE HostNext
    <2>1. ASSUME \/ CreatePost \/ CreateHostCopy \/ OpenScreen \/ MarkDone \/ DeleteHostCopy
                 \/ AcceptAllGuests \/ \E g \in Guests : AcceptGuest(g) \/ RejectGuest(g)
          PROVE  post' = post
      BY <2>1 DEF CreatePost, CreateHostCopy, OpenScreen, MarkDone, DeleteHostCopy,
         AcceptAllGuests, AcceptGuest, RejectGuest, WriteAcceptor
    <2>2. Same \/ Accepts
      BY <1>3, <1>4, <1>7, <2>1 DEF HostNext
    <2> QED BY <1>1, <2>2 DEF Accepts
  <1>8. CASE GuestNext
    BY <1>1, <1>5, <1>6, <1>8 DEF GuestNext, DeleteGuestCopy, DealCard, WithdrawCard, SwipeRight
  <1>9. CASE UNCHANGED vars \/ FaultNext \/ \E w \in work : RunFunction(w)
    BY <1>1, <1>9 DEF vars, RunFunction, FaultNext, CreateCutShort, HostAppKilled,
       GuestAppKilled, FunctionKilled, DeliveredAgain
  <1> QED BY <1>1, <1>7, <1>8, <1>9 DEF Next

\* Whatever is on its way when the host closes a private post, or marks it as done or
\* removes it, no list changes its members from then on.
THEOREM ClosedListKeptCorrect == ASSUME ~PublicPost PROVE Spec => ClosedListKept
  <1>1. Init => ListClosed
    BY DEF Init, ListClosed, HostIdle
  <1>2. TypeOK /\ DoneCallLate /\ ListClosed /\ [Next]_vars => ListClosed'
    BY ListClosedStays
  <1>3. TypeOK /\ GuestCopyMeansMember /\ ListClosed /\ [Next]_vars
        => [post.status # Open => Members(post') = Members(post)]_vars
    BY GuestListSteps
  <1> QED
    BY <1>1, <1>2, <1>3, TypeCorrect, BeforeAndLate, GuestCopyMeansMemberCorrect, PTL
       DEF Spec, ClosedListKept

-----------------------------------------------------------------------------
(* While it is calm, what is in flight has the post as it is.              *)

Working(pcs) == \E w \in work : w.pc \in pcs

CalmWork ==
    /\ calm => \A w \in work : /\ w.snap = post
                               /\ w.pc = "addLive" => post.status = Open
                               /\ w.pc \in {"read", "erase"} => post.status > 1
    /\ calm /\ creating # "made" => post = NewPost
    /\ cancelling => post.status > 1

\* A write that raises an event and meets nothing in flight.
CalmWrite ==
    /\ work = {} /\ creating = "made"
    /\ Task("update", post', {}) \in work'
    /\ \A w \in work' : /\ w.snap = post'
                        /\ \/ w.pc = "update"
                           \/ w.pc = "read" /\ post'.status > 1
                           \/ w.pc = "confirm" /\ Members(post') # Members(post)

CalmTwin ==
    /\ calm /\ UNCHANGED post
    /\ \E w \in work : work' = work \cup {[w EXCEPT !.delivery = @ + 1]}

CalmRest == calm /\ UNCHANGED <<post, work>>
CalmFunction == calm /\ FunctionStep

\* An update starts functions with the post that it is about.
LEMMA UpdatedStep ==
    \A p : /\ Task("update", p, {}) \in Updated(p)
           /\ \A w \in Updated(p) :
                 w.snap = p /\ (w.pc = "update" \/ (w.pc = "read" /\ p.status > 1))
  BY DEF Updated, Task

\* It is calm after a write only if the write met nothing, or raised no event.
LEMMA EventCalm ==
    ASSUME NEW raised, Event(raised), calm'
    PROVE  IF raised THEN work = {} /\ creating = "made" ELSE calm
  BY DEF Event

\* So every kind of write leaves the calm as it is or is a calm write.
LEMMA WritesWhenCalm ==
    ASSUME TypeOK, calm'
    PROVE  /\ \A p : WritePost(p) => CalmRest \/ CalmWrite
           /\ \A g \in Guests, s \in {Going, OptedOut} : WriteGuest(g, s) => CalmRest \/ CalmWrite
           /\ \A g, s : WriteAcceptor(g, s) => CalmRest \/ CalmWrite
           /\ FillName => CalmRest \/ CalmWrite
  <1>1. ASSUME NEW p, WritePost(p)
        PROVE  CalmRest \/ CalmWrite
    <2>1. CASE p = post
      <3>1. calm
        BY <1>1, <2>1, EventCalm DEF WritePost
      <3> QED BY <1>1, <2>1, <3>1 DEF WritePost, CalmRest
    <2>2. CASE p # post
      <3>1. work = {} /\ creating = "made"
        BY <1>1, <2>2, EventCalm DEF WritePost
      <3>2. post' = p /\ work' = Updated(p)
        BY <1>1, <2>2, <3>1 DEF WritePost
      <3> QED BY <3>1, <3>2, UpdatedStep DEF CalmWrite
    <2> QED BY <2>1, <2>2
  <1>2. ASSUME NEW g \in Guests, NEW s \in {Going, OptedOut}, WriteGuest(g, s)
        PROVE  CalmRest \/ CalmWrite
    <2>1. post' = [post EXCEPT !.confirmedGuests[g] = s] /\ g \in Members(post')
      BY <1>2 DEF WriteGuest, TypeOK, Post, Members
    <2>2. CASE post' = post
      <3>1. calm
        BY <1>2, <2>1, <2>2, EventCalm DEF WriteGuest
      <3> QED BY <1>2, <2>1, <2>2, <3>1 DEF WriteGuest, CalmRest
    <2>3. CASE post' # post
      <3> DEFINE new == IF g \in Members(post) THEN {} ELSE {Task("confirm", post', {g})}
      <3>1. work = {} /\ creating = "made"
        BY <1>2, <2>1, <2>3, EventCalm DEF WriteGuest
      <3>2. work' = Updated(post') \cup new
        BY <1>2, <2>1, <2>3, <3>1 DEF WriteGuest
      <3>3. \A w \in new : w.snap = post' /\ w.pc = "confirm" /\ Members(post') # Members(post)
        BY <2>1 DEF Task
      <3> HIDE DEF new
      <3> QED BY <3>1, <3>2, <3>3, UpdatedStep DEF CalmWrite
    <2> QED BY <2>2, <2>3
  <1>3. ASSUME NEW g, NEW s, WriteAcceptor(g, s)
        PROVE  CalmRest \/ CalmWrite
    <2>1. CASE acceptors[g] = s
      <3>1. calm
        BY <1>3, <2>1, EventCalm DEF WriteAcceptor
      <3> QED BY <1>3, <2>1, <3>1 DEF WriteAcceptor, CalmRest
    <2>2. CASE acceptors[g] # s
      <3>1. work = {} /\ creating = "made"
        BY <1>3, <2>2, EventCalm DEF WriteAcceptor
      <3>2. post' = post /\ work' = Updated(post)
        BY <1>3, <2>2, <3>1 DEF WriteAcceptor
      <3> QED BY <3>1, <3>2, UpdatedStep DEF CalmWrite
    <2> QED BY <2>1, <2>2
  <1>4. ASSUME FillName
        PROVE  CalmRest \/ CalmWrite
    <2>1. work = {} /\ creating = "made"
      BY <1>4, EventCalm DEF FillName
    <2>2. post' = post /\ work' = Updated(post)
      BY <1>4, <2>1 DEF FillName
    <2> QED BY <2>1, <2>2, UpdatedStep DEF CalmWrite
  <1> QED BY <1>1, <1>2, <1>3, <1>4

\* A step after which it is calm is one of five.
LEMMA CalmKinds ==
    ASSUME TypeOK, [Next]_vars, calm'
    PROVE  CalmRest \/ CalmWrite \/ CalmTwin \/ CalmFunction \/ CreatePost
  <1> USE DEF hostVars, guestVars, copies
  <1>1. \A counter : Increment(counter) => CalmRest \/ CalmWrite
    BY WritesWhenCalm DEF Increment
  <1>2. CASE HostNext
    <2>1. ASSUME CreateHostCopy \/ OpenScreen \/ MarkDone \/ DeleteHostCopy
                 \/ AcceptAllGuests \/ (\E g \in Guests : AcceptGuest(g))
          PROVE  CalmRest
      BY <2>1 DEF CreateHostCopy, OpenScreen, MarkDone, DeleteHostCopy, AcceptAllGuests,
         AcceptGuest, CalmRest
    <2>2. ASSUME EditDetails \/ CloseGuestList \/ MarkRequestDone \/ CancelPost
          PROVE  CalmRest \/ CalmWrite
      BY <2>2, WritesWhenCalm DEF EditDetails, CloseGuestList, MarkRequestDone, CancelPost
    <2>3. ASSUME NEW g \in Guests, AcceptWrite(g) \/ RejectGuest(g)
          PROVE  CalmRest \/ CalmWrite
      BY <1>1, <2>3, WritesWhenCalm DEF AcceptWrite, RejectGuest
    <2> QED BY <1>2, <2>1, <2>2, <2>3 DEF HostNext
  <1>3. CASE GuestNext
    <2>1. ASSUME NEW g \in Guests, NEW k \in Slots,
                 DealCard(g, k) \/ WithdrawCard(g, k) \/ SwipeRight(g, k)
          PROVE  CalmRest
      BY <2>1 DEF DealCard, WithdrawCard, SwipeRight, CalmRest
    <2>2. ASSUME NEW g \in Guests, NEW k \in Slots, JoinWrite(g, k)
          PROVE  CalmRest \/ CalmWrite
      BY <1>1, <2>2, WritesWhenCalm DEF JoinWrite
    <2>3. ASSUME NEW g \in Guests, OptOut(g)
          PROVE  CalmRest \/ CalmWrite
      BY <2>3, WritesWhenCalm DEF OptOut
    <2>4. ASSUME NEW g \in Guests, DeleteGuestCopy(g)
          PROVE  CalmRest
      BY <2>4 DEF DeleteGuestCopy, CalmRest
    <2> QED BY <1>3, <2>1, <2>2, <2>3, <2>4 DEF GuestNext
  <1>4. CASE FaultNext
    <2>1. ASSUME HostAppKilled \/ (\E g \in Guests : GuestAppKilled(g))
          PROVE  CalmRest
      BY <2>1 DEF HostAppKilled, GuestAppKilled, CalmRest
    <2>2. ASSUME NEW w \in work, DeliveredAgain(w)
          PROVE  CalmTwin
      BY <2>2 DEF DeliveredAgain, CalmTwin
    <2>3. ~CreateCutShort /\ ~\E w \in work : FunctionKilled(w)
      BY DEF CreateCutShort, FunctionKilled
    <2> QED BY <1>4, <2>1, <2>2, <2>3 DEF FaultNext
  <1>5. CASE \E w \in work : RunFunction(w)
    BY <1>5 DEF CalmFunction, FunctionStep, RunFunction
  <1>6. CASE UNCHANGED vars
    BY <1>6 DEF vars, CalmRest
  <1> QED BY <1>2, <1>3, <1>4, <1>5, <1>6 DEF Next

\* A function goes on to its next step or ends, and leaves the post alone.
LEMMA FunctionGoesOn ==
    ASSUME TypeOK, NEW w \in work, RunFunction(w)
    PROVE  /\ post' = post
           /\ \E next : /\ Proceed(w, next)
                        /\ \A v \in next :
                              /\ v.snap = w.snap \/ v.snap = post
                              /\ \/ v.pc \in {"host", "guests"}
                                 \/ v.pc = "copy" /\ w.pc = "confirm"
                                 \/ v.pc = "read" /\ w.snap.status > 1
                                 \/ v.pc = "erase" /\ w.pc = "read"
  <1> DEFINE Fit(v) == /\ v.snap = w.snap \/ v.snap = post
                       /\ \/ v.pc \in {"host", "guests"}
                          \/ v.pc = "copy" /\ w.pc = "confirm"
                          \/ v.pc = "read" /\ w.snap.status > 1
                          \/ v.pc = "erase" /\ w.pc = "read"
  <1>1. w \in Work /\ post' = post
    BY DEF TypeOK, RunFunction
  <1>2. \A v : Proceed(w, {v}) /\ Fit(v) =>
            \E next : Proceed(w, next) /\ \A u \in next : Fit(u)
    OBVIOUS
  <1>3. Proceed(w, {}) => \E next : Proceed(w, next) /\ \A u \in next : Fit(u)
    OBVIOUS
  <1>4. Fit([w EXCEPT !.pc = "host"]) /\ Fit([w EXCEPT !.pc = "guests"])
    BY <1>1 DEF Work
  <1>5. w.snap.status > 1 => Fit([w EXCEPT !.pc = "read"])
    BY <1>1 DEF Work
  <1>6. w.pc = "read" => Fit([w EXCEPT !.pc = "erase", !.who = Members(post)])
    BY <1>1 DEF Work
  <1>7. w.pc = "confirm" => Fit([w EXCEPT !.pc = "copy", !.snap = post])
    BY <1>1 DEF Work
  <1> HIDE DEF Fit
  <1>8. \E next : Proceed(w, next) /\ \A u \in next : Fit(u)
    BY <1>2, <1>3, <1>4, <1>5, <1>6, <1>7 DEF RunFunction, AddLive, ManageLive, ManageHost,
       ManageGuests, ReadGuests, EraseCopies, ReadPost, CopyToGuest
  <1> QED BY <1>1, <1>8 DEF Fit

\* The creation of a post puts one function in flight, about an open post.
LEMMA CreationStep ==
    ASSUME NothingBefore, CreatePost
    PROVE  /\ post' = post /\ post = NewPost /\ post.status = Open
           /\ creating' = "hostCopy" /\ work' = {Task("addLive", post, {})}
           /\ UNCHANGED copies
  BY DEF CreatePost, NothingBefore, Created, NewPost

\* createNewPost ends by its second write, or is cut short.
LEMMA CreationEnds ==
    ASSUME [Next]_vars, creating' # creating
    PROVE  CreatePost \/ CreateHostCopy \/ CreateCutShort
  <1> USE DEF hostVars, guestVars, copies
  <1> QED
    BY DEF Next, vars, HostNext, GuestNext, FaultNext, OpenScreen, EditDetails,
       CloseGuestList, MarkDone, MarkRequestDone, CancelPost, DeleteHostCopy,
       AcceptAllGuests, AcceptGuest, AcceptWrite, RejectGuest, OptOut, DeleteGuestCopy,
       DealCard, WithdrawCard, SwipeRight, JoinWrite, HostAppKilled, GuestAppKilled,
       FunctionKilled, DeliveredAgain, RunFunction

\* The host's copy is removed only of a post that is over.
LEMMA CancellingIsOver ==
    ASSUME TypeOK, CalmWork, [Next]_vars, cancelling'
    PROVE  post'.status > 1
  <1> USE DEF hostVars, guestVars, copies
  <1>0. post \in Post
    BY DEF TypeOK
  <1>1. CASE CancelPost
    BY <1>0, <1>1 DEF CancelPost, WritePost, Post
  <1>2. CASE ~CancelPost
    <2>1. cancelling
      BY <1>2 DEF Next, vars, HostNext, GuestNext, FaultNext, CreatePost, CreateHostCopy,
         OpenScreen, EditDetails, CloseGuestList, MarkDone, MarkRequestDone,
         DeleteHostCopy, AcceptAllGuests, AcceptGuest, AcceptWrite, RejectGuest, OptOut,
         DeleteGuestCopy, DealCard, WithdrawCard, SwipeRight, JoinWrite, CreateCutShort,
         HostAppKilled, GuestAppKilled, FunctionKilled, DeliveredAgain, RunFunction
    <2>2. post.status > 1
      BY <2>1 DEF CalmWork
    <2>3. ASSUME EditDetails \/ CloseGuestList \/ MarkRequestDone
          PROVE  post'.status > 1
      <3>1. ~CloseGuestList
        <4>1. CloseGuestList => post.status = Open
          BY DEF CloseGuestList
        <4> QED BY <2>2, <4>1
      <3>2. EditDetails => post'.status = post.status
        BY <1>0 DEF EditDetails, WritePost, Post
      <3>3. MarkRequestDone => post'.status = Done
        BY <1>0 DEF MarkRequestDone, WritePost, Post
      <3> QED BY <2>2, <2>3, <3>1, <3>2, <3>3
    <2>4. \A counter : Increment(counter) => post'.status = post.status
      BY <1>0 DEF Increment, WritePost, Post
    <2>5. \A g \in Guests, st \in Membership : WriteGuest(g, st) => post'.status = post.status
      BY <1>0 DEF WriteGuest, Post
    <2>6. ASSUME \E g \in Guests : AcceptWrite(g) \/ OptOut(g) \/ \E k \in Slots : JoinWrite(g, k)
          PROVE  post'.status > 1
      BY <2>2, <2>4, <2>5, <2>6 DEF AcceptWrite, OptOut, JoinWrite, WriteAcceptor, FillName
    <2>7. CASE UNCHANGED post
      BY <2>2, <2>7
    <2> QED
      BY <1>2, <2>3, <2>6, <2>7 DEF Next, vars, HostNext, GuestNext, FaultNext,
         CreatePost, CreateHostCopy, OpenScreen, MarkDone, DeleteHostCopy,
         AcceptAllGuests, AcceptGuest, RejectGuest, WriteAcceptor, DeleteGuestCopy,
         DealCard, WithdrawCard, SwipeRight, CreateCutShort, HostAppKilled,
         GuestAppKilled, FunctionKilled, DeliveredAgain, RunFunction
  <1> QED BY <1>1, <1>2

\* What is in flight while it is calm stays in step with the post.
LEMMA CalmWorkStays ==
    ASSUME TypeOK, NothingBefore, CalmWork, [Next]_vars
    PROVE  CalmWork'
  <1> DEFINE InStep ==
            \A w \in work' : /\ w.snap = post'
                             /\ w.pc = "addLive" => post'.status = Open
                             /\ w.pc \in {"read", "erase"} => post'.status > 1
  <1> SUFFICES ASSUME calm'
               PROVE  InStep /\ (creating' # "made" => post' = NewPost)
    BY CancellingIsOver DEF CalmWork
  <1>1. CASE CreatePost
    BY <1>1, CreationStep DEF Task
  <1>2. CASE CalmWrite
    <2>1. creating' = "made"
      BY <1>2, CreationEnds DEF CalmWrite, CreatePost, CreateHostCopy, CreateCutShort
    <2> QED BY <1>2, <2>1 DEF CalmWrite
  <1>3. CASE CalmRest \/ CalmTwin \/ CalmFunction
    <2>1. calm /\ post' = post
      BY <1>3, FunctionGoesOn DEF CalmRest, CalmTwin, CalmFunction, FunctionStep
    <2>2. creating' # "made" => post' = NewPost
      <3>1. CASE creating' = creating
        BY <2>1, <3>1 DEF CalmWork
      <3>2. CASE CreateHostCopy \/ CreateCutShort
        BY <3>2 DEF CreateHostCopy, CreateCutShort
      <3>3. CASE CreatePost
        BY <2>1, <3>3, CreationStep
      <3> QED BY <3>1, <3>2, <3>3, CreationEnds
    <2>3. CASE CalmRest
      BY <2>1, <2>2, <2>3 DEF CalmRest, CalmWork
    <2>4. CASE CalmTwin
      <3> PICK w \in work : work' = work \cup {[w EXCEPT !.delivery = @ + 1]}
        BY <2>4 DEF CalmTwin
      <3> DEFINE twin == [w EXCEPT !.delivery = @ + 1]
      <3>1. twin.snap = w.snap /\ twin.pc = w.pc
        BY DEF TypeOK, Work
      <3> HIDE DEF twin
      <3>2. work' = work \cup {twin}
        BY DEF twin
      <3> QED BY <2>1, <2>2, <3>1, <3>2 DEF CalmWork
    <2>5. CASE CalmFunction
      <3> PICK w \in work : RunFunction(w)
        BY <2>5 DEF CalmFunction, FunctionStep
      <3>1. PICK next : /\ Proceed(w, next)
                        /\ \A v \in next :
                              /\ v.snap = w.snap \/ v.snap = post
                              /\ \/ v.pc \in {"host", "guests"}
                                 \/ v.pc = "copy" /\ w.pc = "confirm"
                                 \/ v.pc = "read" /\ w.snap.status > 1
                                 \/ v.pc = "erase" /\ w.pc = "read"
        BY FunctionGoesOn
      <3>2. \A v \in next : /\ v.snap = post /\ v.pc # "addLive"
                            /\ v.pc \in {"read", "erase"} => post.status > 1
        BY <2>1, <3>1 DEF CalmWork
      <3> QED BY <2>1, <2>2, <3>1, <3>2 DEF Proceed, CalmWork
    <2> QED BY <1>3, <2>3, <2>4, <2>5
  <1> QED BY <1>1, <1>2, <1>3, CalmKinds

-----------------------------------------------------------------------------
(* The live copy and the host's copy, of a post of either kind and with    *)
(* any number of cards.                                                    *)

\* The live copy is right, or a function is about to put it right.
LiveSettles ==
    calm /\ Created => \/ livePost = IF post.status = Open THEN post ELSE NoCopy
                       \/ Working({"addLive", "update"})

\* The host's copy is right, or gone with a post that is over, or about to be right.
HostSettles ==
    calm /\ creating = "made" => \/ hostPost = post
                                 \/ post.status > 1 /\ hostPost = NoCopy
                                 \/ Working({"update", "host"})

\* update() with the post as it is makes a copy that is behind it equal to it.
LEMMA MergeCatchesUp ==
    ASSUME NEW p \in Post, NEW copy \in Post \cup {NoCopy},
           copy # NoCopy => NoLaterThan(copy, p)
    PROVE  Merge(copy, p) = p
  <1>1. CASE copy # NoCopy /\ Members(p) = {}
    <2>1. Members(copy) = {}
      BY <1>1 DEF NoLaterThan
    <2>2. \A g \in Guests : copy.confirmedGuests[g] = p.confirmedGuests[g]
      BY <1>1, <2>1 DEF Members
    <2>3. copy.confirmedGuests = p.confirmedGuests
      BY <1>1, <2>2 DEF Post
    <2> QED BY <1>1, <2>3 DEF Merge, Post
  <1>2. CASE ~(copy # NoCopy /\ Members(p) = {})
    BY <1>2 DEF Merge
  <1> QED BY <1>1, <1>2

\* Only functions write the live copy.
LEMMA OnlyFunctionsDeal ==
    ASSUME [Next]_vars
    PROVE  FunctionStep \/ UNCHANGED livePost
  <1> USE DEF copies
  <1> QED
    BY DEF Next, vars, HostNext, GuestNext, FaultNext, CreatePost, CreateHostCopy,
       OpenScreen, EditDetails, CloseGuestList, MarkDone, MarkRequestDone, CancelPost,
       DeleteHostCopy, AcceptAllGuests, AcceptGuest, AcceptWrite, RejectGuest, OptOut,
       DeleteGuestCopy, DealCard, WithdrawCard, SwipeRight, JoinWrite, CreateCutShort,
       HostAppKilled, GuestAppKilled, FunctionKilled, DeliveredAgain, FunctionStep

\* Functions, createNewPost and the removal of a post write the host's copy.
LEMMA HostCopyKinds ==
    ASSUME [Next]_vars
    PROVE  FunctionStep \/ CreateHostCopy \/ DeleteHostCopy \/ UNCHANGED hostPost
  <1> USE DEF copies
  <1> QED
    BY DEF Next, vars, HostNext, GuestNext, FaultNext, CreatePost, OpenScreen,
       EditDetails, CloseGuestList, MarkDone, MarkRequestDone, CancelPost,
       AcceptAllGuests, AcceptGuest, AcceptWrite, RejectGuest, OptOut, DeleteGuestCopy,
       DealCard, WithdrawCard, SwipeRight, JoinWrite, CreateCutShort, HostAppKilled,
       GuestAppKilled, FunctionKilled, DeliveredAgain, FunctionStep

\* A post comes to be by CreatePost alone.
LEMMA CreatedByCreatePost ==
    ASSUME TypeOK, NothingBefore, [Next]_vars, Created'
    PROVE  Created \/ CreatePost
  BY OnlyCreation DEF vars, hostVars, Created

\* A calm write starts manageLivePosts; a twin leaves the others in flight.
LEMMA WorkingAfterEvent ==
    /\ CalmWrite => /\ Working({"addLive", "update"})' /\ Working({"update", "host"})'
                    /\ Working({"update", "host", "guests"})'
                    /\ Working({"update", "host", "guests", "read"})'
    /\ \A pcs : (CalmTwin \/ CalmRest) /\ Working(pcs) => Working(pcs)'
  BY DEF CalmWrite, CalmTwin, CalmRest, Working, Task

\* The live copy stays right, or about to be.
LEMMA LiveSettlesStays ==
    ASSUME TypeOK, NothingBefore, CalmWork, CopiesNeverAhead, LiveSettles, [Next]_vars
    PROVE  LiveSettles'
  <1> SUFFICES ASSUME calm', Created'
               PROVE  \/ livePost' = IF post'.status = Open THEN post' ELSE NoCopy
                      \/ Working({"addLive", "update"})'
    BY DEF LiveSettles
  <1>1. CASE CreatePost
    <2>1. Task("addLive", post, {}) \in work' /\ Task("addLive", post, {}).pc = "addLive"
      BY <1>1, CreationStep DEF Task
    <2> QED BY <2>1 DEF Working
  <1>2. CASE CalmFunction
    <2> PICK w \in work : RunFunction(w)
      BY <1>2 DEF CalmFunction, FunctionStep
    <2>0. calm /\ post' = post /\ w.snap = post /\ post \in Post
      BY <1>2, FunctionGoesOn DEF CalmFunction, CalmWork, TypeOK
    <2>1. Created
      BY DEF NothingBefore
    <2>2. Merge(livePost, post) = post
      BY <2>0, MergeCatchesUp DEF CopiesNeverAhead, TypeOK
    <2>3. CASE AddLive(w) \/ ManageLive(w)
      <3>1. w.pc = "addLive" => post.status = Open
        BY <2>0 DEF CalmWork
      <3>2. post.status \in Status
        BY <2>0 DEF Post
      <3> QED BY <2>0, <2>2, <2>3, <3>1, <3>2 DEF AddLive, ManageLive
    <2>4. CASE ~(AddLive(w) \/ ManageLive(w))
      <3>1. UNCHANGED livePost /\ w.pc \notin {"addLive", "update"}
        BY <2>4 DEF RunFunction, ManageHost, ManageGuests, ReadGuests, EraseCopies,
           ReadPost, CopyToGuest, copies
      <3>2. work \ {w} \subseteq work'
        BY FunctionGoesOn DEF Proceed
      <3> QED BY <2>0, <2>1, <3>1, <3>2 DEF LiveSettles, Working
    <2> QED BY <2>3, <2>4
  <1>3. CASE CalmWrite
    BY <1>3, WorkingAfterEvent
  <1>4. CASE (CalmRest \/ CalmTwin) /\ ~FunctionStep /\ ~CreatePost
    <2>1. Created /\ calm /\ post' = post /\ UNCHANGED livePost
      BY <1>4, CreatedByCreatePost, OnlyFunctionsDeal DEF CalmRest, CalmTwin
    <2> QED BY <1>4, <2>1, WorkingAfterEvent DEF LiveSettles
  <1>5. CASE CalmRest \/ CalmTwin \/ CalmFunction \/ FunctionStep
    <2>1. FunctionStep => CalmFunction
      BY DEF FunctionStep, CalmFunction, RunFunction
    <2> QED BY <1>1, <1>2, <1>4, <1>5, <2>1
  <1> QED BY <1>1, <1>3, <1>5, CalmKinds

\* So does the host's copy.
LEMMA HostSettlesStays ==
    ASSUME TypeOK, NothingBefore, CalmWork, CopiesNeverAhead, HostSettles, [Next]_vars
    PROVE  HostSettles'
  <1> SUFFICES ASSUME calm', creating' = "made"
               PROVE  \/ hostPost' = post'
                      \/ post'.status > 1 /\ hostPost' = NoCopy
                      \/ Working({"update", "host"})'
    BY DEF HostSettles
  <1>1. CASE CalmWrite
    BY <1>1, WorkingAfterEvent
  <1>2. CASE CalmFunction
    <2> PICK w \in work : RunFunction(w)
      BY <1>2 DEF CalmFunction, FunctionStep
    <2>0. /\ calm /\ post' = post /\ w.snap = post /\ post \in Post /\ w \in Work
          /\ creating = "made"
      BY <1>2, FunctionGoesOn DEF CalmFunction, CalmWork, TypeOK, RunFunction, hostVars
    <2>1. CASE ManageHost(w)
      <3>1. Merge(hostPost, post) = post
        BY <2>0, MergeCatchesUp DEF CopiesNeverAhead, TypeOK
      <3> QED BY <2>0, <2>1, <3>1 DEF ManageHost
    <2>2. CASE ManageLive(w)
      <3>1. [w EXCEPT !.pc = "host"] \in work' /\ [w EXCEPT !.pc = "host"].pc = "host"
        BY <2>0, <2>2 DEF ManageLive, Proceed, Work
      <3> QED BY <3>1 DEF Working
    <2>3. CASE ~(ManageLive(w) \/ ManageHost(w))
      <3>1. UNCHANGED hostPost /\ w.pc \notin {"update", "host"}
        BY <2>3 DEF RunFunction, AddLive, ManageGuests, ReadGuests, EraseCopies, ReadPost,
           CopyToGuest, copies
      <3>2. work \ {w} \subseteq work'
        BY FunctionGoesOn DEF Proceed
      <3> QED BY <2>0, <3>1, <3>2 DEF HostSettles, Working
    <2> QED BY <2>1, <2>2, <2>3
  <1>3. CASE CreateHostCopy
    <2>1. calm /\ creating = "hostCopy" /\ post' = post /\ hostPost' = Merge(hostPost, NewPost)
      BY <1>3 DEF CreateHostCopy
    <2>2. post = NewPost /\ post \in Post
      BY <2>1 DEF CalmWork, TypeOK
    <2>3. Merge(hostPost, post) = post
      BY <2>2, MergeCatchesUp DEF CopiesNeverAhead, TypeOK
    <2> QED BY <2>1, <2>2, <2>3
  <1>4. CASE DeleteHostCopy
    BY <1>4 DEF DeleteHostCopy, CalmWork
  <1>5. CASE (CalmRest \/ CalmTwin) /\ UNCHANGED hostPost /\ ~CreateHostCopy
    <2>1. calm /\ post' = post /\ creating = "made"
      BY <1>5, CreationEnds DEF CalmRest, CalmTwin, CreatePost, CreateCutShort
    <2> QED BY <1>5, <2>1, WorkingAfterEvent DEF HostSettles
  <1>6. FunctionStep => CalmFunction
    BY DEF FunctionStep, CalmFunction, RunFunction
  <1>7. ~CreatePost
    BY CreationStep
  <1> QED BY <1>1, <1>2, <1>3, <1>4, <1>5, <1>6, <1>7, CalmKinds, HostCopyKinds

\* While it is calm the live copy is the post, if it is open, and gone if not, and the
\* host's copy is the post or gone with it, or a function in flight will see to it.
THEOREM CalmCopiesSettle == Spec => [](CalmWork /\ LiveSettles /\ HostSettles)
  <1> DEFINE Inv == CalmWork /\ LiveSettles /\ HostSettles
  <1>1. Init => Inv
    BY DEF Init, CalmWork, LiveSettles, HostSettles, Created
  <1>2. TypeOK /\ NothingBefore /\ CopiesNeverAhead /\ Inv /\ [Next]_vars => Inv'
    BY CalmWorkStays, LiveSettlesStays, HostSettlesStays
  <1> QED BY <1>1, <1>2, TypeCorrect, BeforeAndLate, CopiesNeverAheadCorrect, PTL DEF Spec

\* "Since the post's guest list is finalized, it is no longer in livePosts": so it
\* is of every post, if the last write met no function and lost none.
THEOREM FinalizedNotLiveWhenCalm == Spec => [](calm => FinalizedNotLive)
  <1>1. LiveSettles => (calm => FinalizedNotLive)
    BY DEF LiveSettles, FinalizedNotLive, Settled, Working, Created
  <1> QED BY <1>1, CalmCopiesSettle, PTL

-----------------------------------------------------------------------------
(* The copies of the guests.  The guests of a private post are listed by   *)
(* the host; a second card would let a student ask again, and be accepted  *)
(* again, after opting out, and nobody would bring back the copy.          *)

OneCard == \A j, k \in Slots : j = k

\* A guest is accepted at most once.
AcceptedOnce ==
    \A g \in Guests :
        /\ g \in Members(post) => acceptors[g] # Undecided /\ accepting[g] \subseteq {"confirmedCount"}
        /\ accepting[g] # {} /\ "acceptorIds" \notin accepting[g] => acceptors[g] # Undecided
        /\ \A k \in Slots :
              swipes[g][k].pc = "joining" /\ "acceptorIds" \in swipes[g][k].todo =>
                /\ accepting[g] = {} /\ g \notin Members(post)
                /\ acceptors[g] \in {NoEntry, Rejected}
        /\ leaving[g] => post.confirmedGuests[g] = OptedOut

\* While it is calm, onConfirmGuest runs only for an open post.
ConfirmsWhileOpen ==
    calm => \A w \in work : w.pc \in {"confirm", "copy"} => post.status = Open

\* Functions remove the copies of guests only when the post is finalized.
ErasesLate == \A w \in work : w.pc \in {"read", "erase"} => post.status # Open

\* Unless something failed, a guest that is going to an open post has a copy or
\* onConfirmGuest is about to make it.
OpenGuestSettles(g) ==
    faults = 0 /\ g \in GoingTo(post) /\ post.status = Open =>
        guestPosts[g] # NoCopy \/ \E w \in work : w.pc \in {"confirm", "copy"} /\ g \in w.who

\* While it is calm, the copy of a guest is as it should be when the post is closed or
\* over, or a function is about to see to it.
CalmGuestSettles(g) ==
    calm =>
        /\ g \in GoingTo(post) /\ post.status = Closed =>
              guestPosts[g] = post \/ Working({"update", "host", "guests"})
        /\ post.status > 1 =>
              \/ guestPosts[g] = NoCopy \/ Working({"update", "host", "guests", "read"})
              \/ \E w \in work : w.pc = "erase" /\ g \in w.who

\* No step accepts a guest twice.
LEMMA AcceptedOnceStays ==
    ASSUME OneCard, ~PublicPost, TypeOK, AskedFirst, GuestCopyMeansMember, AcceptedOnce,
           [Next]_vars
    PROVE  AcceptedOnce'
  <1> USE DEF hostVars, guestVars, copies
  <1> DEFINE Once(g) ==
                /\ g \in Members(post') =>
                      acceptors'[g] # Undecided /\ accepting'[g] \subseteq {"confirmedCount"}
                /\ accepting'[g] # {} /\ "acceptorIds" \notin accepting'[g] =>
                      acceptors'[g] # Undecided
                /\ \A k \in Slots :
                      swipes'[g][k].pc = "joining" /\ "acceptorIds" \in swipes'[g][k].todo =>
                        /\ accepting'[g] = {} /\ g \notin Members(post')
                        /\ acceptors'[g] \in {NoEntry, Rejected}
                /\ leaving'[g] => post'.confirmedGuests[g] = OptedOut
             SamePost == post'.confirmedGuests = post.confirmedGuests
  <1> SUFFICES ASSUME NEW g \in Guests
               PROVE  Once(g)
    BY DEF AcceptedOnce
  <1>0. SamePost => (g \in Members(post') <=> g \in Members(post))
    BY DEF Members
  <1>1. ASSUME SamePost, UNCHANGED <<acceptors, accepting, leaving>>,
               \A k \in Slots :
                   swipes'[g][k].pc = "joining" /\ "acceptorIds" \in swipes'[g][k].todo =>
                   swipes[g][k].pc = "joining" /\ "acceptorIds" \in swipes[g][k].todo
        PROVE  Once(g)
    BY <1>0, <1>1 DEF AcceptedOnce
  <1>2. ASSUME EditDetails \/ CloseGuestList \/ MarkRequestDone \/ CancelPost
        PROVE  Once(g)
    <2>1. /\ post'.confirmedGuests = post.confirmedGuests
          /\ UNCHANGED <<acceptors, accepting, swipes, leaving>>
      BY <1>2 DEF EditDetails, CloseGuestList, MarkRequestDone, CancelPost, WritePost,
         TypeOK, Post
    <2>2. g \in Members(post') <=> g \in Members(post)
      BY <2>1 DEF Members
    <2> QED BY <2>1, <2>2 DEF AcceptedOnce
  <1>3. ASSUME (\E h \in Guests : AcceptGuest(h)) \/ AcceptAllGuests
        PROVE  Once(g)
    <2>1. /\ UNCHANGED <<post, acceptors, swipes, leaving>>
          /\ \/ accepting'[g] = accepting[g]
             \/ /\ accepting'[g] = AcceptWrites /\ accepting[g] = {}
                /\ acceptors[g] = Undecided /\ post.status = Open
      BY <1>3 DEF AcceptGuest, AcceptAllGuests, GuestListShown, TypeOK
    <2> QED BY <2>1 DEF AcceptedOnce, AcceptWrites, Members
  <1>4. ASSUME NEW h \in Guests, AcceptWrite(h)
        PROVE  Once(g)
    <2>0. UNCHANGED <<swipes, leaving>>
      BY <1>4 DEF AcceptWrite
    <2>1. CASE /\ "acceptorIds" \in accepting[h]
               /\ accepting' = [accepting EXCEPT ![h] = @ \ {"acceptorIds"}]
               /\ WriteAcceptor(h, Going)
      <3>1. post' = post /\ acceptors' = [acceptors EXCEPT ![h] = Going]
        BY <2>1 DEF WriteAcceptor
      <3>2. accepting[h] # {}
        BY <2>1
      <3>3. CASE g = h
        <4>1. acceptors'[g] = Going /\ accepting'[g] = accepting[g] \ {"acceptorIds"}
          BY <2>1, <3>1, <3>3 DEF TypeOK
        <4> QED BY <2>0, <3>1, <3>2, <3>3, <4>1 DEF AcceptedOnce, Members
      <3>4. CASE g # h
        <4>1. acceptors'[g] = acceptors[g] /\ accepting'[g] = accepting[g]
          BY <2>1, <3>1, <3>4 DEF TypeOK
        <4> QED BY <2>0, <3>1, <4>1 DEF AcceptedOnce, Members
      <3> QED BY <3>3, <3>4
    <2>2. CASE /\ "acceptorIds" \notin accepting[h]
               /\ "confirmedGuests" \in accepting[h]
               /\ accepting' = [accepting EXCEPT ![h] = @ \ {"confirmedGuests"}]
               /\ WriteGuest(h, Going)
               /\ UNCHANGED acceptors
      <3>1. /\ post'.status = post.status
            /\ g # h => post'.confirmedGuests[g] = post.confirmedGuests[g]
            /\ h \in Members(post') /\ h \notin Members(post) /\ ~leaving[h]
        <4>1. h \notin Members(post)
          BY <2>2 DEF AcceptedOnce
        <4>2. ~leaving[h]
          BY <4>1 DEF AcceptedOnce, Members
        <4> QED BY <2>2, <4>1, <4>2 DEF WriteGuest, TypeOK, Post, Members
      <3>2. acceptors[h] # Undecided /\ accepting[h] # {}
        BY <2>2 DEF AcceptedOnce
      <3>3. CASE g = h
        <4>1. accepting'[g] = accepting[g] \ {"confirmedGuests"} /\ accepting[g] \subseteq AcceptWrites
          BY <2>2, <3>3 DEF TypeOK
        <4>2. accepting'[g] \subseteq {"confirmedCount"}
          BY <2>2, <3>3, <4>1 DEF AcceptWrites
        <4> QED BY <2>0, <2>2, <3>1, <3>2, <3>3, <4>2 DEF AcceptedOnce
      <3>4. CASE g # h
        <4>1. accepting'[g] = accepting[g]
          BY <2>2, <3>4 DEF TypeOK
        <4>2. g \in Members(post') <=> g \in Members(post)
          BY <3>1, <3>4 DEF Members
        <4> QED BY <2>0, <2>2, <3>1, <3>4, <4>1, <4>2 DEF AcceptedOnce
      <3> QED BY <3>3, <3>4
    <2>3. CASE /\ accepting[h] = {"confirmedCount"}
               /\ accepting' = [accepting EXCEPT ![h] = {}]
               /\ Increment("confirmedCount")
               /\ UNCHANGED acceptors
      <3>1. SamePost
        BY <2>3 DEF Increment, WritePost, TypeOK, Post
      <3>2. accepting'[g] = accepting[g] \/ accepting'[g] = {}
        BY <2>3 DEF TypeOK
      <3> QED BY <1>0, <2>0, <2>3, <3>1, <3>2 DEF AcceptedOnce
    <2> QED BY <1>4, <2>1, <2>2, <2>3 DEF AcceptWrite
  <1>5. ASSUME NEW h \in Guests, RejectGuest(h)
        PROVE  Once(g)
    <2>1. /\ UNCHANGED <<post, accepting, swipes, leaving>>
          /\ acceptors'[g] = acceptors[g] \/ acceptors'[g] = Rejected
      BY <1>5 DEF RejectGuest, WriteAcceptor, TypeOK
    <2> QED BY <2>1 DEF AcceptedOnce, Members
  <1>6. ASSUME NEW h \in Guests, OptOut(h)
        PROVE  Once(g)
    <2>1. h \in Members(post)
      BY <1>6 DEF OptOut, GuestCopyMeansMember
    <2>2. /\ UNCHANGED <<acceptors, accepting, swipes>> /\ post'.status = post.status
          /\ g # h => post'.confirmedGuests[g] = post.confirmedGuests[g] /\ leaving'[g] = leaving[g]
          /\ post'.confirmedGuests[h] = OptedOut
      BY <1>6 DEF OptOut, WriteGuest, TypeOK, Post
    <2>3. g \in Members(post') <=> g \in Members(post)
      BY <2>1, <2>2 DEF Members
    <2> QED BY <2>2, <2>3 DEF AcceptedOnce
  <1>7. ASSUME NEW h \in Guests, DeleteGuestCopy(h)
        PROVE  Once(g)
    <2>1. /\ UNCHANGED <<post, acceptors, accepting, swipes>> /\ (leaving'[g] => leaving[g])
      BY <1>7 DEF DeleteGuestCopy, TypeOK
    <2> QED BY <2>1 DEF AcceptedOnce, Members
  <1>8. ASSUME NEW h \in Guests, NEW j \in Slots, DealCard(h, j) \/ WithdrawCard(h, j)
        PROVE  Once(g)
    <2>1. UNCHANGED <<post, acceptors, accepting, leaving>>
      BY <1>8 DEF DealCard, WithdrawCard
    <2>2. \A k \in Slots : swipes'[g][k] = swipes[g][k] \/ swipes'[g][k].pc # "joining"
      BY <1>8 DEF DealCard, WithdrawCard, SetSwipe, TypeOK
    <2> QED BY <1>1, <2>1, <2>2
  <1>9. ASSUME NEW h \in Guests, NEW j \in Slots, SwipeRight(h, j)
        PROVE  Once(g)
    <2>1. UNCHANGED <<post, acceptors, accepting, leaving>>
      BY <1>9 DEF SwipeRight
    <2>2. \A k \in Slots : \/ swipes'[g][k] = swipes[g][k] \/ swipes'[g][k].pc # "joining"
                           \/ acceptors[g] = NoEntry
      BY <1>9 DEF SwipeRight, SetSwipe, TypeOK
    <2>3. acceptors[g] = NoEntry => accepting[g] = {} /\ g \notin Members(post)
      BY DEF AskedFirst
    <2> QED BY <2>1, <2>2, <2>3 DEF AcceptedOnce, Members
  <1>10. ASSUME NEW h \in Guests, NEW j \in Slots, JoinWrite(h, j)
         PROVE  Once(g)
    <2>0. /\ UNCHANGED <<accepting, leaving>> /\ swipes[h][j].pc = "joining"
          /\ swipes[h][j].todo \subseteq {"acceptorIds", "interestedCount", "acceptorName"}
      BY <1>10 DEF JoinWrite, TypeOK, Swipe, JoinWrites
    <2>1. CASE /\ "acceptorIds" \in swipes[h][j].todo
               /\ SetSwipe(h, j, "joining", swipes[h][j].todo \ {"acceptorIds"})
               /\ WriteAcceptor(h, Undecided)
      <3>1. post' = post /\ acceptors' = [acceptors EXCEPT ![h] = Undecided]
        BY <2>1 DEF WriteAcceptor
      <3>2. CASE g = h
        <4>1. accepting[g] = {} /\ g \notin Members(post)
          BY <2>0, <2>1, <3>2 DEF AcceptedOnce
        <4>2. \A k \in Slots : "acceptorIds" \notin swipes'[g][k].todo
          BY <2>1, <3>2 DEF OneCard, SetSwipe, TypeOK
        <4>3. ~leaving[g]
          BY <4>1 DEF AcceptedOnce, Members
        <4> QED BY <2>0, <3>1, <4>1, <4>2, <4>3 DEF Members
      <3>3. CASE g # h
        <4>1. acceptors'[g] = acceptors[g] /\ swipes'[g] = swipes[g]
          BY <2>1, <3>1, <3>3 DEF SetSwipe, TypeOK
        <4> QED BY <2>0, <3>1, <4>1 DEF AcceptedOnce, Members
      <3> QED BY <3>2, <3>3
    <2>2. ASSUME NEW write, SetSwipe(h, j, "joining", swipes[h][j].todo \ {write}),
                 SamePost, UNCHANGED acceptors
          PROVE  Once(g)
      <3>1. \A k \in Slots : \/ swipes'[g][k] = swipes[g][k]
                             \/ /\ g = h /\ k = j
                                /\ swipes'[g][k].todo = swipes[g][k].todo \ {write}
        BY <2>2 DEF SetSwipe, TypeOK
      <3> QED BY <1>1, <2>0, <2>2, <3>1
    <2>3. \A counter : Increment(counter) => SamePost
      BY DEF Increment, WritePost, TypeOK, Post
    <2>4. FillName => SamePost
      BY DEF FillName
    <2> HIDE DEF Once, SamePost
    <2> QED BY <1>10, <2>0, <2>1, <2>2, <2>3, <2>4 DEF JoinWrite
  <1>11. CASE /\ UNCHANGED <<post, acceptors, accepting, leaving, swipes>>
    BY <1>1, <1>11
  <1> HIDE DEF Once, SamePost
  <1>12. CASE HostNext
    <2>1. ASSUME CreatePost \/ CreateHostCopy \/ OpenScreen \/ MarkDone \/ DeleteHostCopy
          PROVE  UNCHANGED <<post, acceptors, accepting, leaving, swipes>>
      BY <2>1 DEF CreatePost, CreateHostCopy, OpenScreen, MarkDone, DeleteHostCopy
    <2> QED BY <1>2, <1>3, <1>4, <1>5, <1>11, <1>12, <2>1 DEF HostNext
  <1>13. CASE GuestNext
    BY <1>6, <1>7, <1>8, <1>9, <1>10, <1>13 DEF GuestNext
  <1>14. CASE FaultNext
    <2>1. ASSUME CreateCutShort \/ \E w \in work : FunctionKilled(w) \/ DeliveredAgain(w)
          PROVE  UNCHANGED <<post, acceptors, accepting, leaving, swipes>>
      BY <2>1 DEF CreateCutShort, FunctionKilled, DeliveredAgain
    <2>2. ASSUME NEW h \in Guests, GuestAppKilled(h)
          PROVE  Once(g)
      <3>1. UNCHANGED <<post, acceptors, accepting>> /\ (leaving'[g] => leaving[g])
        BY <2>2 DEF GuestAppKilled, TypeOK
      <3>2. \A k \in Slots : swipes'[g][k] = swipes[g][k] \/ swipes'[g][k].pc = "lost"
        <4>1. \A k \in Slots : swipes[g][k] \in Swipe
          BY DEF TypeOK
        <4> QED BY <2>2, <4>1 DEF GuestAppKilled, TypeOK, Swipe
      <3> QED BY <3>1, <3>2 DEF AcceptedOnce, Members, Once
    <2>3. CASE HostAppKilled
      <3>1. UNCHANGED <<post, acceptors, swipes, leaving>> /\ accepting'[g] = {}
        BY <2>3 DEF HostAppKilled
      <3> QED BY <3>1 DEF AcceptedOnce, Members, Once
    <2> QED BY <1>11, <1>14, <2>1, <2>2, <2>3 DEF FaultNext
  <1> QED BY <1>11, <1>12, <1>13, <1>14 DEF Next, vars, RunFunction

\* A guest who comes to be going is new on the list, and onConfirmGuest is started.
LEMMA NewGuestConfirmed ==
    ASSUME ~PublicPost, TypeOK, GuestCopyMeansMember, AcceptedOnce, ListClosed, [Next]_vars,
           NEW g \in GoingTo(post'), g \notin GoingTo(post)
    PROVE  Task("confirm", post', {g}) \in work'
  <1>1. PICK h \in Guests : "confirmedGuests" \in accepting[h] /\ WriteGuest(h, Going)
    BY GuestListSteps
  <1>2. h \notin Members(post)
    BY <1>1 DEF AcceptedOnce
  <1>3. post' = [post EXCEPT !.confirmedGuests[h] = Going]
    BY <1>1 DEF WriteGuest
  <1>4. g = h
    BY <1>3 DEF GoingTo, TypeOK, Post
  <1> QED BY <1>1, <1>2, <1>3, <1>4 DEF WriteGuest

\* So while it is calm onConfirmGuest goes on running only for an open post.
LEMMA ConfirmsWhileOpenStays ==
    ASSUME ~PublicPost, TypeOK, NothingBefore, GuestCopyMeansMember, ListClosed,
           ConfirmsWhileOpen, [Next]_vars
    PROVE  ConfirmsWhileOpen'
  <1> SUFFICES ASSUME calm', NEW v \in work', v.pc \in {"confirm", "copy"}
               PROVE  post'.status = Open
    BY DEF ConfirmsWhileOpen
  <1>1. CASE CalmRest
    BY <1>1 DEF CalmRest, ConfirmsWhileOpen
  <1>2. CASE CalmFunction
    <2> PICK w \in work : RunFunction(w)
      BY <1>2 DEF CalmFunction, FunctionStep
    <2>1. post' = post /\ (v \in work \/ (v.pc # "confirm" /\ (v.pc = "copy" => w.pc = "confirm")))
      BY FunctionGoesOn DEF Proceed
    <2> QED BY <1>2, <2>1 DEF CalmFunction, ConfirmsWhileOpen
  <1>3. CASE CalmWrite
    BY <1>3, GuestListSteps DEF CalmWrite
  <1>4. CASE CreatePost
    BY <1>4, CreationStep DEF Task
  <1>5. CASE CalmTwin
    <2> PICK w \in work : work' = work \cup {[w EXCEPT !.delivery = @ + 1]}
      BY <1>5 DEF CalmTwin
    <2>1. [w EXCEPT !.delivery = @ + 1].pc = w.pc
      BY DEF TypeOK, Work
    <2>2. v \in work \/ v.pc = w.pc
      BY <2>1
    <2> QED BY <1>5, <2>2 DEF CalmTwin, ConfirmsWhileOpen
  <1> QED BY <1>1, <1>2, <1>3, <1>4, <1>5, CalmKinds

\* A function that is about to remove copies is about a finalized post.
LEMMA ErasesLateStays ==
    ASSUME TypeOK, WorkNeverAhead, ErasesLate, [Next]_vars
    PROVE  ErasesLate'
  <1> SUFFICES ASSUME NEW v \in work', v.pc \in {"read", "erase"}
               PROVE  post'.status # Open
    BY DEF ErasesLate
  <1>1. post.status # Open => post'.status # Open
    BY PostMovesOn DEF NoLaterThan
  <1>2. CASE v \in work
    BY <1>1, <1>2 DEF ErasesLate
  <1>3. \A p : v \in Updated(p) => p.status # Open
    BY UpdatedStep
  <1>4. CASE QuietStep
    BY <1>2, <1>4 DEF QuietStep
  <1>5. CASE WriteStep
    BY <1>2, <1>3, <1>5 DEF WriteStep, WritePost
  <1>6. CASE GuestStep
    <2> PICK g \in Guests, s \in {Going, OptedOut} : WriteGuest(g, s)
      BY <1>6 DEF GuestStep
    <2>1. v \in work \/ v \in Updated(post') \/ v = Task("confirm", post', {g})
      BY DEF WriteGuest
    <2> QED BY <1>2, <1>3, <2>1 DEF Task
  <1>7. CASE AcceptorStep
    BY <1>2, <1>3, <1>7 DEF AcceptorStep
  <1>8. CASE CreateStep
    BY <1>2, <1>8 DEF CreateStep, Task
  <1>9. CASE FaultStep
    <2> PICK w \in work :
            work' = work \ {w} \/ work' = work \cup {[w EXCEPT !.delivery = @ + 1]}
      BY <1>9 DEF FaultStep
    <2>1. [w EXCEPT !.delivery = @ + 1].pc = w.pc
      BY DEF TypeOK, Work
    <2>2. v \in work \/ v.pc = w.pc
      BY <2>1
    <2> QED BY <1>1, <1>2, <2>2 DEF ErasesLate
  <1>10. CASE FunctionStep
    <2> PICK w \in work : RunFunction(w)
      BY <1>10 DEF FunctionStep
    <2>1. v \in work \/ (v.pc = "read" /\ w.snap.status > 1) \/ w.pc = "read"
      BY FunctionGoesOn DEF Proceed
    <2>2. w.snap.status # Open => post.status # Open
      BY DEF WorkNeverAhead, NoLaterThan
    <2> QED BY <1>1, <1>2, <2>1, <2>2 DEF ErasesLate
  <1> QED BY <1>4, <1>5, <1>6, <1>7, <1>8, <1>9, <1>10, StepKinds

\* The copies of the guests are written by functions and by guests who opt out.
LEMMA GuestCopyKinds ==
    ASSUME [Next]_vars
    PROVE  \/ FunctionStep \/ UNCHANGED guestPosts
           \/ \E h \in Guests : /\ leaving[h] /\ UNCHANGED <<post, work, calm>>
                                /\ guestPosts' = [guestPosts EXCEPT ![h] = NoCopy]
  <1> USE DEF copies
  <1>1. CASE HostNext
    BY <1>1 DEF HostNext, CreatePost, CreateHostCopy, OpenScreen, EditDetails,
       CloseGuestList, MarkDone, MarkRequestDone, CancelPost, DeleteHostCopy,
       AcceptAllGuests, AcceptGuest, AcceptWrite, RejectGuest
  <1>2. CASE GuestNext
    <2>1. ASSUME NEW h \in Guests, DeleteGuestCopy(h)
          PROVE  /\ leaving[h] /\ UNCHANGED <<post, work, calm>>
                 /\ guestPosts' = [guestPosts EXCEPT ![h] = NoCopy]
      BY <2>1 DEF DeleteGuestCopy
    <2>2. ASSUME NEW h \in Guests, NEW k \in Slots,
                 OptOut(h) \/ DealCard(h, k) \/ WithdrawCard(h, k)
                 \/ SwipeRight(h, k) \/ JoinWrite(h, k)
          PROVE  UNCHANGED guestPosts
      BY <2>2 DEF OptOut, DealCard, WithdrawCard, SwipeRight, JoinWrite
    <2>3. ASSUME NEW h \in Guests, OptOut(h)
          PROVE  UNCHANGED guestPosts
      BY <2>3 DEF OptOut
    <2> QED BY <1>2, <2>1, <2>2, <2>3 DEF GuestNext
  <1>3. CASE FaultNext
    BY <1>3 DEF FaultNext, CreateCutShort, HostAppKilled, GuestAppKilled, FunctionKilled,
       DeliveredAgain
  <1> QED BY <1>1, <1>2, <1>3 DEF Next, vars, FunctionStep

\* Unless something fails, only a function that runs leaves those in flight.
LEMMA WorkGrows ==
    ASSUME TypeOK, [Next]_vars, faults' = 0
    PROVE  faults = 0 /\ (FunctionStep \/ work \subseteq work')
  <1> USE DEF hostVars, guestVars, copies
  <1>1. ~FaultNext
    <2>1. Fault => faults' # 0
      BY DEF Fault, TypeOK
    <2> QED BY <2>1 DEF FaultNext, CreateCutShort, HostAppKilled, GuestAppKilled,
               FunctionKilled, DeliveredAgain
  <1>2. \A counter : Increment(counter) => work \subseteq work'
    BY DEF Increment, WritePost
  <1>3. CASE HostNext
    <2>1. ASSUME CreatePost \/ CreateHostCopy \/ OpenScreen \/ EditDetails \/ CloseGuestList
                 \/ MarkDone \/ MarkRequestDone \/ CancelPost \/ DeleteHostCopy
          PROVE  work \subseteq work' /\ UNCHANGED faults
      BY <2>1 DEF CreatePost, CreateHostCopy, OpenScreen, EditDetails, CloseGuestList,
         MarkDone, MarkRequestDone, CancelPost, DeleteHostCopy, WritePost
    <2>2. ASSUME NEW g \in Guests,
                 AcceptAllGuests \/ AcceptGuest(g) \/ AcceptWrite(g) \/ RejectGuest(g)
          PROVE  work \subseteq work' /\ UNCHANGED faults
      BY <1>2, <2>2 DEF AcceptAllGuests, AcceptGuest, AcceptWrite, RejectGuest, WriteGuest,
         WriteAcceptor
    <2>3. AcceptAllGuests => work \subseteq work' /\ UNCHANGED faults
      BY DEF AcceptAllGuests
    <2> QED BY <1>3, <2>1, <2>2, <2>3 DEF HostNext
  <1>4. CASE GuestNext
    <2>1. ASSUME NEW g \in Guests, OptOut(g) \/ DeleteGuestCopy(g)
          PROVE  work \subseteq work' /\ UNCHANGED faults
      BY <2>1 DEF OptOut, DeleteGuestCopy, WriteGuest
    <2>2. ASSUME NEW g \in Guests, NEW k \in Slots,
                 DealCard(g, k) \/ WithdrawCard(g, k) \/ SwipeRight(g, k)
          PROVE  work \subseteq work' /\ UNCHANGED faults
      BY <2>2 DEF DealCard, WithdrawCard, SwipeRight
    <2>3. ASSUME NEW g \in Guests, NEW k \in Slots, JoinWrite(g, k)
          PROVE  work \subseteq work' /\ UNCHANGED faults
      BY <1>2, <2>3 DEF JoinWrite, WriteGuest, WriteAcceptor, FillName
    <2> QED BY <1>4, <2>1, <2>2, <2>3 DEF GuestNext
  <1>5. CASE FunctionStep
    BY <1>5 DEF FunctionStep, RunFunction
  <1> QED BY <1>1, <1>3, <1>4, <1>5 DEF Next, vars, FunctionStep

\* A guest that is going to an open post keeps the copy, or onConfirmGuest in flight.
LEMMA OpenGuestStays ==
    ASSUME ~PublicPost, TypeOK, GuestCopyMeansMember, AcceptedOnce, ListClosed, ErasesLate,
           [Next]_vars, NEW g \in Guests, OpenGuestSettles(g)
    PROVE  OpenGuestSettles(g)'
  <1> DEFINE Copied == \E w \in work' : w.pc \in {"confirm", "copy"} /\ g \in w.who
  <1> SUFFICES ASSUME faults' = 0, g \in GoingTo(post'), post'.status = Open
               PROVE  guestPosts'[g] # NoCopy \/ Copied
    BY DEF OpenGuestSettles
  <1>1. CASE g \notin GoingTo(post)
    <2>1. Task("confirm", post', {g}) \in work'
      BY <1>1, NewGuestConfirmed
    <2> QED BY <2>1 DEF Task
  <1>2. CASE g \in GoingTo(post)
    <2>1. faults = 0 /\ (FunctionStep \/ work \subseteq work')
      BY WorkGrows
    <2>2. post.status = Open
      BY PostMovesOn DEF NoLaterThan
    <2>3. guestPosts[g] # NoCopy \/ \E w \in work : w.pc \in {"confirm", "copy"} /\ g \in w.who
      BY <1>2, <2>1, <2>2 DEF OpenGuestSettles
    <2>4. CASE FunctionStep
      <3> PICK w \in work : RunFunction(w)
        BY <2>4 DEF FunctionStep
      <3>1. w \in Work /\ w.snap \in Post
        BY DEF TypeOK, Work
      <3>2. Merge(guestPosts[g], w.snap) # NoCopy
        BY <3>1, MergeType, NoCopyAssumption DEF TypeOK
      <3>3. guestPosts'[g] \in {guestPosts[g], Merge(guestPosts[g], w.snap)}
        <4>1. ~EraseCopies(w)
          BY <2>2 DEF EraseCopies, ErasesLate
        <4> QED BY <4>1 DEF RunFunction, AddLive, ManageLive, ManageHost, ManageGuests,
                   ReadGuests, ReadPost, CopyToGuest, copies
      <3>4. CASE guestPosts[g] # NoCopy
        BY <3>2, <3>3, <3>4
      <3>5. ASSUME NEW v \in work, v.pc \in {"confirm", "copy"}, g \in v.who
            PROVE  guestPosts'[g] # NoCopy \/ Copied
        <4>1. CASE v # w
          <5>1. v \in work'
            BY <4>1, FunctionGoesOn DEF Proceed
          <5> QED BY <3>5, <5>1
        <4>2. CASE v = w /\ ReadPost(w)
          <5> DEFINE u == [w EXCEPT !.pc = "copy", !.snap = post]
          <5>1. u \in work' /\ u.pc = "copy" /\ u.who = w.who
            BY <3>1, <4>2 DEF ReadPost, Proceed, Work
          <5> HIDE DEF u
          <5> QED BY <3>5, <4>2, <5>1
        <4>3. CASE v = w /\ CopyToGuest(w)
          BY <3>2, <3>5, <4>3 DEF CopyToGuest
        <4> QED BY <3>5, <4>1, <4>2, <4>3 DEF RunFunction, AddLive, ManageLive, ManageHost,
                   ManageGuests, ReadGuests, EraseCopies
      <3> QED BY <2>3, <3>4, <3>5
    <2>5. CASE UNCHANGED guestPosts /\ work \subseteq work'
      BY <2>3, <2>5
    <2>6. ASSUME NEW h \in Guests, leaving[h], UNCHANGED work,
                 guestPosts' = [guestPosts EXCEPT ![h] = NoCopy]
          PROVE  guestPosts'[g] # NoCopy \/ Copied
      <3>1. g # h
        BY <1>2, <2>6 DEF AcceptedOnce, GoingTo
      <3>2. guestPosts'[g] = guestPosts[g]
        BY <2>6, <3>1 DEF TypeOK
      <3> QED BY <2>3, <2>6, <3>2
    <2> QED BY <2>1, <2>4, <2>5, <2>6, GuestCopyKinds
  <1> QED BY <1>1, <1>2

\* The steps of the functions that see to the copy of a guest of a post that is not
\* open end with the copy as it should be.
LEMMA CalmGuestByFunctions ==
    ASSUME TypeOK, CalmWork, GuestCopyMeansMember, ConfirmsWhileOpen, calm,
           NEW g \in Guests, CalmGuestSettles(g), NEW w \in work, RunFunction(w)
    PROVE  CalmGuestSettles(g)'
  <1>0. post' = post /\ post \in Post /\ w.snap = post /\ w \in Work
    BY DEF RunFunction, CalmWork, TypeOK
  <1>1. \A v \in work : v # w => v \in work'
    BY FunctionGoesOn DEF Proceed
  <1>2. GoingTo(post) \subseteq Members(post) /\ post.status \in Status
    BY <1>0 DEF GoingTo, Members, Post
  <1>3. ASSUME UNCHANGED guestPosts, w.pc \in {"addLive", "confirm", "copy"}
        PROVE  CalmGuestSettles(g)'
    BY <1>0, <1>1, <1>3 DEF CalmGuestSettles, Working
  <1>4. CASE AddLive(w) \/ ReadPost(w)
    BY <1>3, <1>4 DEF AddLive, ReadPost, copies
  <1>5. CASE CopyToGuest(w)
    <2>1. w.pc = "copy" /\ post.status = Open
      BY <1>5 DEF CopyToGuest, ConfirmsWhileOpen
    <2> QED BY <1>0, <2>1 DEF CalmGuestSettles
  <1>6. CASE ManageLive(w)
    <2>1. [w EXCEPT !.pc = "host"] \in work' /\ [w EXCEPT !.pc = "host"].pc = "host"
      BY <1>0, <1>6 DEF ManageLive, Proceed, Work
    <2>2. Working({"update", "host", "guests"})' /\ Working({"update", "host", "guests", "read"})'
      BY <2>1 DEF Working
    <2> QED BY <2>2 DEF CalmGuestSettles
  <1>7. CASE ManageHost(w)
    <2>1. w.pc = "host" /\ UNCHANGED guestPosts
      BY <1>7 DEF ManageHost
    <2>2. CASE post.status > 0 /\ Members(post) # {}
      <3>1. [w EXCEPT !.pc = "guests"] \in work' /\ [w EXCEPT !.pc = "guests"].pc = "guests"
        BY <1>0, <1>7, <2>2 DEF ManageHost, Proceed, Work
      <3>2. Working({"update", "host", "guests"})' /\ Working({"update", "host", "guests", "read"})'
        BY <3>1 DEF Working
      <3> QED BY <3>2 DEF CalmGuestSettles
    <2>3. CASE post.status = Open
      BY <1>0, <2>3 DEF CalmGuestSettles
    <2>4. CASE Members(post) = {}
      BY <1>0, <1>2, <2>1, <2>4 DEF CalmGuestSettles, GuestCopyMeansMember
    <2> QED BY <1>2, <2>2, <2>3, <2>4
  <1>8. CASE ManageGuests(w)
    <2>1. /\ w.pc = "guests"
          /\ guestPosts'[g] = IF g \in GoingTo(post) THEN Merge(guestPosts[g], post) ELSE guestPosts[g]
      BY <1>0, <1>8 DEF ManageGuests
    <2>2. g \in GoingTo(post) => guestPosts'[g] = post
      BY <1>2, <2>1 DEF Merge
    <2>3. post.status > 1 => Working({"update", "host", "guests", "read"})'
      <3>1. SUFFICES ASSUME post.status > 1
                     PROVE  Working({"update", "host", "guests", "read"})'
        OBVIOUS
      <3>2. [w EXCEPT !.pc = "read"] \in work' /\ [w EXCEPT !.pc = "read"].pc = "read"
        BY <1>0, <1>8, <3>1 DEF ManageGuests, Proceed, Work
      <3> QED BY <3>2 DEF Working
    <2> QED BY <1>0, <2>2, <2>3 DEF CalmGuestSettles
  <1>9. CASE ReadGuests(w)
    <2>1. w.pc = "read" /\ UNCHANGED guestPosts /\ post.status > 1
      BY <1>9 DEF ReadGuests, CalmWork, copies
    <2>2. CASE g \in Members(post)
      <3> DEFINE v == [w EXCEPT !.pc = "erase", !.who = Members(post)]
      <3>1. v \in work' /\ v.pc = "erase" /\ g \in v.who
        BY <1>0, <1>9, <2>2 DEF ReadGuests, Proceed, Work
      <3>2. \E u \in work' : u.pc = "erase" /\ g \in u.who
        BY <3>1
      <3> QED BY <1>0, <2>1, <3>2 DEF CalmGuestSettles
    <2>3. CASE g \notin Members(post)
      BY <1>0, <2>1, <2>3 DEF CalmGuestSettles, GuestCopyMeansMember
    <2> QED BY <2>2, <2>3
  <1>10. CASE EraseCopies(w)
    <2>1. /\ w.pc = "erase" /\ post.status > 1
          /\ guestPosts'[g] = IF g \in w.who THEN NoCopy ELSE guestPosts[g]
      BY <1>10 DEF EraseCopies, CalmWork
    <2> QED BY <1>0, <1>1, <2>1 DEF CalmGuestSettles, Working
  <1> QED BY <1>4, <1>5, <1>6, <1>7, <1>8, <1>9, <1>10 DEF RunFunction

\* While it is calm, the copy of a guest stays as it should be, or about to be.
LEMMA CalmGuestStays ==
    ASSUME ~PublicPost, TypeOK, NothingBefore, CalmWork, GuestCopyMeansMember, AcceptedOnce,
           ConfirmsWhileOpen, [Next]_vars, NEW g \in Guests, CalmGuestSettles(g)
    PROVE  CalmGuestSettles(g)'
  <1>1. CASE calm /\ FunctionStep
    BY <1>1, CalmGuestByFunctions DEF FunctionStep
  <1>2. CASE (CalmRest \/ CalmTwin) /\ ~FunctionStep
    <2>1. /\ calm /\ post' = post /\ work \subseteq work'
          /\ \A pcs : Working(pcs) => Working(pcs)'
      BY <1>2, WorkingAfterEvent DEF CalmRest, CalmTwin
    <2>2. \/ guestPosts'[g] = guestPosts[g]
          \/ guestPosts'[g] = NoCopy /\ g \notin GoingTo(post)
      <3>1. ASSUME NEW h \in Guests, leaving[h], guestPosts' = [guestPosts EXCEPT ![h] = NoCopy]
            PROVE  \/ guestPosts'[g] = guestPosts[g]
                   \/ guestPosts'[g] = NoCopy /\ g \notin GoingTo(post)
        BY <3>1 DEF TypeOK, AcceptedOnce, GoingTo
      <3> QED BY <1>2, <3>1, GuestCopyKinds
    <2> QED BY <2>1, <2>2 DEF CalmGuestSettles
  <1>3. CASE CalmWrite
    <2>1. Working({"update", "host", "guests"})' /\ Working({"update", "host", "guests", "read"})'
      BY <1>3, WorkingAfterEvent
    <2> QED BY <2>1 DEF CalmGuestSettles
  <1>4. CASE CreatePost
    <2>1. post'.status = Open
      BY <1>4, CreationStep
    <2> QED BY <2>1 DEF CalmGuestSettles
  <1>5. CASE ~calm'
    BY <1>5 DEF CalmGuestSettles
  <1> QED BY <1>1, <1>2, <1>3, <1>4, <1>5, CalmKinds DEF CalmRest, CalmTwin, CalmFunction

\* Once nothing is in flight the copies of a private post agree with it, if each student
\* has one card: all three kinds of them if the last write met no function, however the
\* functions overlapped and failed before; and whatever met what, a guest that is going
\* to an open post has a copy unless something failed.
THEOREM SettledAgreementCorrect ==
    ASSUME OneCard, ~PublicPost
    PROVE  Spec => []SettledAgreement
  <1> DEFINE GuestsSettle == \A g \in Guests : OpenGuestSettles(g) /\ CalmGuestSettles(g)
             Lists == AcceptedOnce /\ ListClosed
             Dealings == ConfirmsWhileOpen /\ ErasesLate /\ GuestsSettle
  <1>1. Init => Lists /\ Dealings
    BY DEF Init, AcceptedOnce, ListClosed, HostIdle, ConfirmsWhileOpen, ErasesLate,
       OpenGuestSettles, CalmGuestSettles, GoingTo, Members, NewPost
  <1>2. TypeOK /\ DoneCallLate /\ AskedFirst /\ GuestCopyMeansMember /\ Lists /\ [Next]_vars
        => Lists'
    BY AcceptedOnceStays, ListClosedStays
  <1>3. TypeOK /\ NothingBefore /\ CalmWork /\ WorkNeverAhead /\ GuestCopyMeansMember
        /\ Lists /\ Dealings /\ [Next]_vars => Dealings'
    BY ConfirmsWhileOpenStays, ErasesLateStays, OpenGuestStays, CalmGuestStays
  <1>4. TypeOK /\ LiveSettles /\ HostSettles /\ GuestsSettle => SettledAgreement
    <2> SUFFICES ASSUME TypeOK, LiveSettles, HostSettles, GuestsSettle, Settled
                 PROVE  /\ calm =>
                            /\ livePost = IF post.status = Open THEN post ELSE NoCopy
                            /\ hostPost = post \/ (post.status > 1 /\ hostPost = NoCopy)
                            /\ post.status = Closed => \A g \in GoingTo(post) : guestPosts[g] = post
                            /\ post.status > 1 => \A g \in Guests : guestPosts[g] = NoCopy
                        /\ post.status = Open /\ faults = 0 =>
                            \A g \in GoingTo(post) : guestPosts[g] # NoCopy
      BY DEF SettledAgreement
    <2>1. work = {} /\ creating = "made" /\ Created
      BY DEF Settled, Created
    <2>2. \A pcs : ~Working(pcs)
      BY <2>1 DEF Working
    <2>3. GoingTo(post) \subseteq Guests
      BY DEF GoingTo
    <2>4. calm => /\ livePost = IF post.status = Open THEN post ELSE NoCopy
                  /\ hostPost = post \/ (post.status > 1 /\ hostPost = NoCopy)
      BY <2>1, <2>2 DEF LiveSettles, HostSettles
    <2>5. calm /\ post.status = Closed => \A g \in GoingTo(post) : guestPosts[g] = post
      BY <2>2, <2>3 DEF CalmGuestSettles
    <2>6. calm /\ post.status > 1 => \A g \in Guests : guestPosts[g] = NoCopy
      BY <2>1, <2>2 DEF CalmGuestSettles
    <2>7. post.status = Open /\ faults = 0 => \A g \in GoingTo(post) : guestPosts[g] # NoCopy
      BY <2>1, <2>3 DEF OpenGuestSettles
    <2> QED BY <2>4, <2>5, <2>6, <2>7
  <1> HIDE DEF Lists, Dealings
  <1>5. TypeOK /\ LiveSettles /\ HostSettles /\ Dealings => SettledAgreement
    BY <1>4 DEF Dealings
  <1> QED
    BY <1>1, <1>2, <1>3, <1>5, TypeCorrect, BeforeAndLate, AskedFirstCorrect,
       GuestCopyMeansMemberCorrect, WorkNeverAheadCorrect, CalmCopiesSettle, PTL DEF Spec

=============================================================================
