------------------------ MODULE DirectMessagesProofs ------------------------
(* Proofs about direct messages and the entries of their conversations,    *)
(* for any number of students and messages.                                *)
EXTENDS DirectMessages, FiniteSetTheorems, TLAPS

\* What the app of s has still to write.
Pending(s) == {pending[s][i] : i \in 1 .. Len(pending[s])}

\* Whoever a student's app turns to is another student that the student has had a
\* chat with, and ChatLibDirect stands for somebody when a message needs it.
Ready ==
    /\ \A s \in Students :
          /\ s \notin opened[s]
          /\ target[s] # NoOne => target[s] \in opened[s]
          /\ screen[s] # NoOne => screen[s] \in opened[s] /\ target[s] # NoOne
          /\ \A w \in Pending(s) : w.op # "hide" => w.of \in opened[s]
    /\ \A m \in checking : m.typedFor \in opened[m.author] /\ target[m.author] # NoOne

TypeInv == TypeOK /\ Ready

\* What an app issues is added to what it has still to write.
LEMMA PendingIssue ==
  ASSUME TypeOK, NEW s \in Students, NEW op, NEW t, NEW msgs, Issue(s, op, t, msgs),
         NEW u \in Students, NEW w \in Pending(u)'
  PROVE  w \in Pending(u) \/ (u = s /\ w = [op |-> op, of |-> t, msgs |-> msgs])
  <1> DEFINE x == [op |-> op, of |-> t, msgs |-> msgs]
  <1>1. pending \in [Students -> Seq(Write)] /\ pending' = [pending EXCEPT ![s] = Append(@, x)]
    BY DEF Issue, TypeOK
  <1>2. CASE u = s
    <2>1. pending'[u] = Append(pending[u], x) /\ pending[u] \in Seq(Write)
      BY <1>1, <1>2
    <2>2. PICK i \in 1 .. Len(pending'[u]) : w = pending'[u][i]
      BY DEF Pending
    <2> DEFINE q == pending[u]
    <2>3. q \in Seq(Write) /\ i \in 1 .. Len(Append(q, x)) /\ w = Append(q, x)[i]
      BY <2>1, <2>2
    <2>4. (i \in 1 .. Len(q) /\ w = q[i]) \/ w = x
      <3> HIDE DEF q, x
      <3> QED BY <2>3
    <2> QED BY <1>2, <2>4 DEF Pending
  <1>3. CASE u # s
    <2>1. pending'[u] = pending[u]
      BY <1>1, <1>3
    <2> QED BY <2>1 DEF Pending
  <1> QED BY <1>2, <1>3

\* What an app has to write are writes.
LEMMA PendingWrites ==
  ASSUME TypeOK, NEW s \in Students
  PROVE  Pending(s) \subseteq Write
  <1>1. pending[s] \in Seq(Write)
    BY DEF TypeOK
  <1> QED BY <1>1 DEF Pending

\* What arrives was to be written, and nothing is added.
LEMMA PendingArrive ==
  ASSUME TypeOK, NEW s \in Students, Arrive(s)
  PROVE  /\ Head(pending[s]) \in Pending(s) /\ Head(pending[s]) \in Write
         /\ pending' \in [Students -> Seq(Write)]
         /\ \A u \in Students : Pending(u)' \subseteq Pending(u)
  <1> DEFINE q == pending[s]
  <1>1. /\ pending \in [Students -> Seq(Write)] /\ q # <<>>
        /\ pending' = [pending EXCEPT ![s] = Tail(@)]
    BY DEF Arrive, TypeOK
  <1>2. q \in Seq(Write) /\ Len(q) \in Nat /\ 1 \in 1 .. Len(q) /\ Head(q) = q[1]
    BY <1>1
  <1>3. Head(q) \in Pending(s) /\ Head(q) \in Write /\ Tail(q) \in Seq(Write)
    BY <1>1, <1>2 DEF Pending
  <1>4. ASSUME NEW u \in Students, NEW w \in Pending(u)'
        PROVE  w \in Pending(u)
    <2>1. CASE u = s
      <3>1. pending'[u] = Tail(q)
        BY <1>1, <2>1
      <3>2. PICK i \in 1 .. Len(Tail(q)) : w = Tail(q)[i]
        BY <3>1 DEF Pending
      <3>3. i + 1 \in 1 .. Len(q) /\ w = q[i + 1]
        <4> HIDE DEF q
        <4> QED BY <1>1, <1>2, <3>2
      <3> QED BY <2>1, <3>3 DEF Pending
    <2>2. CASE u # s
      <3>1. pending'[u] = pending[u]
        BY <1>1, <2>2
      <3> QED BY <3>1 DEF Pending
    <2> QED BY <2>1, <2>2
  <1> QED BY <1>1, <1>3, <1>4

\* Issuing keeps the shape of what is pending, and what is issued is ready.
LEMMA IssueReady ==
  ASSUME TypeOK, Ready, NEW s \in Students, NEW op \in {"push", "reset", "hide"},
         NEW t \in Students, NEW msgs \in SUBSET Message, Issue(s, op, t, msgs),
         op # "hide" => t \in opened'[s],
         \A u \in Students : opened[u] \subseteq opened'[u]
  PROVE  /\ pending' \in [Students -> Seq(Write)]
         /\ \A u \in Students : \A w \in Pending(u)' : w.op # "hide" => w.of \in opened'[u]
  <1> DEFINE x == [op |-> op, of |-> t, msgs |-> msgs]
  <1>1. x \in Write
    BY DEF Write
  <1>2. pending' \in [Students -> Seq(Write)]
    <2> HIDE DEF x
    <2>1. pending \in [Students -> Seq(Write)] /\ Append(pending[s], x) \in Seq(Write)
      BY <1>1 DEF TypeOK
    <2> QED BY <2>1 DEF Issue, x
  <1>3. ASSUME NEW u \in Students, NEW w \in Pending(u)', w.op # "hide"
        PROVE  w.of \in opened'[u]
    <2>1. w \in Pending(u) \/ (u = s /\ w = x)
      BY PendingIssue
    <2> QED BY <1>3, <2>1 DEF Ready
  <1> QED BY <1>2, <1>3

\* An app opens a chat.
LEMMA MountTyped ==
  ASSUME TypeInv, NEW s \in Students, NEW t \in Students, Mount(s, t)
  PROVE  TypeInv'
  <1>1. t # s /\ screen[s] = NoOne /\ Issue(s, "reset", t, {})
    BY DEF Mount, Touch
  <1>2. opened' = [opened EXCEPT ![s] = @ \cup {t}] /\ opened \in [Students -> SUBSET Students]
    BY DEF Mount, TypeInv, TypeOK
  <1>3. /\ pending' \in [Students -> Seq(Write)]
        /\ \A u \in Students : \A w \in Pending(u)' : w.op # "hide" => w.of \in opened'[u]
    BY <1>1, <1>2, IssueReady DEF TypeInv
  <1>4. TypeOK'
    <2> USE DEF TypeInv, TypeOK, Mount, Touch, Visit
    <2>1. touched' \in [Students -> SUBSET Students] /\ visits' \in Nat
      OBVIOUS
    <2>2. /\ screen' \in [Students -> Students \cup {NoOne}]
          /\ target' \in [Students -> Students \cup {NoOne}]
          /\ opened' \in [Students -> SUBSET Students]
      OBVIOUS
    <2> QED BY <1>3, <2>1, <2>2
  <1>5. Ready'
    <2>1. screen' = [screen EXCEPT ![s] = t] /\ target' = [target EXCEPT ![s] = t]
          /\ checking' = checking
      BY DEF Mount
    <2>2. ASSUME NEW u \in Students
          PROVE  /\ u \notin opened'[u]
                 /\ target'[u] # NoOne => target'[u] \in opened'[u]
                 /\ screen'[u] # NoOne => screen'[u] \in opened'[u] /\ target'[u] # NoOne
      BY <1>1, <1>2, <2>1, NoOneAssumption DEF TypeInv, TypeOK, Ready
    <2>3. ASSUME NEW m \in checking'
          PROVE  m.typedFor \in opened'[m.author] /\ target'[m.author] # NoOne
      <3>1. m.author \in Students
        BY <2>1 DEF TypeInv, TypeOK, Message
      <3> QED BY <1>2, <2>1, <3>1, NoOneAssumption DEF TypeInv, TypeOK, Ready
    <2> QED BY <1>3, <2>2, <2>3 DEF Ready
  <1> QED BY <1>4, <1>5 DEF TypeInv

\* An app closes a chat, or hides a conversation.
LEMMA TouchTyped ==
  ASSUME TypeInv, NEW s \in Students, NEW t \in Students, CloseChat(s) \/ Hide(s, t)
  PROVE  TypeInv'
  <1>1. /\ UNCHANGED <<target, checking, opened>>
        /\ screen' = screen \/ screen' = [screen EXCEPT ![s] = NoOne]
    BY DEF CloseChat, Hide
  <1>2. PICK op \in {"reset", "hide"}, v \in Students :
          Touch(s, op, v) /\ (op # "hide" => v \in opened[s])
    BY NoOneAssumption DEF CloseChat, Hide, TypeInv, TypeOK, Ready
  <1>3. /\ pending' \in [Students -> Seq(Write)]
        /\ \A u \in Students : \A w \in Pending(u)' : w.op # "hide" => w.of \in opened'[u]
    BY <1>1, <1>2, IssueReady DEF TypeInv, Touch
  <1>4. TypeOK'
    <2>1. touched' \in [Students -> SUBSET Students] /\ visits' \in Nat
      BY <1>2 DEF TypeInv, TypeOK, CloseChat, Hide, Touch, Visit
    <2>2. screen' \in [Students -> Students \cup {NoOne}]
      BY <1>1 DEF TypeInv, TypeOK
    <2>3. UNCHANGED <<target, sent, checking, rooms, newRooms, calls, entry, pushed, opened,
                      faults>>
      BY DEF CloseChat, Hide
    <2> QED BY <1>3, <2>1, <2>2, <2>3 DEF TypeInv, TypeOK
  <1>5. Ready'
    <2>1. ASSUME NEW u \in Students
          PROVE  /\ u \notin opened'[u]
                 /\ target'[u] # NoOne => target'[u] \in opened'[u]
                 /\ screen'[u] # NoOne => screen'[u] \in opened'[u] /\ target'[u] # NoOne
      BY <1>1 DEF TypeInv, TypeOK, Ready
    <2>2. \A m \in checking' : m.typedFor \in opened'[m.author] /\ target'[m.author] # NoOne
      BY <1>1 DEF TypeInv, Ready
    <2> QED BY <1>3, <2>1, <2>2 DEF Ready
  <1> QED BY <1>4, <1>5 DEF TypeInv

\* A message is pushed.
LEMMA PushTyped ==
  ASSUME TypeInv, NEW m \in checking, PushMessage(m)
  PROVE  /\ TypeInv'
         /\ m \in Message /\ target[m.author] \in Students
         /\ target[m.author] \in opened[m.author]
  <1> DEFINE t == target[m.author]
             x == [msg |-> m, to |-> t, pc |-> "read", value |-> 0]
  <1>1. m \in Message /\ m.author \in Students
    BY DEF TypeInv, TypeOK, Message
  <1>2. t \in opened[m.author] /\ t \in Students
    BY <1>1 DEF TypeInv, TypeOK, Ready
  <1>3. /\ UNCHANGED <<screen, target, sent, visits, rooms, newRooms, entry, opened, touched,
                       faults>>
        /\ checking' = checking \ {m} /\ calls' = calls \cup {x}
        /\ pushed' = [pushed EXCEPT ![t][m.author] = @ \cup {m}]
        /\ Issue(m.author, "push", t, {m})
    BY DEF PushMessage
  <1>4. /\ pending' \in [Students -> Seq(Write)]
        /\ \A u \in Students : \A w \in Pending(u)' : w.op # "hide" => w.of \in opened'[u]
    BY <1>1, <1>2, <1>3, IssueReady DEF TypeInv
  <1>5. TypeOK'
    <2>1. x \in Call
      BY <1>1, <1>2 DEF Call
    <2>2. calls' \subseteq Call
      BY <1>3, <2>1 DEF TypeInv, TypeOK
    <2>3. pushed' \in [Students -> [Students -> SUBSET Message]]
      BY <1>1, <1>2, <1>3 DEF TypeInv, TypeOK
    <2> QED BY <1>3, <1>4, <2>2, <2>3 DEF TypeInv, TypeOK
  <1>6. Ready'
    BY <1>3, <1>4 DEF TypeInv, Ready
  <1> QED BY <1>1, <1>2, <1>5, <1>6 DEF TypeInv

\* The room of two different students is a room.
LEMMA RoomTyped ==
  ASSUME NEW a \in Students, NEW b \in Students, a # b
  PROVE  Room(a, b) \in Rooms /\ Room(a, b) \in {<<a, b>>, <<b, a>>}
  <1>1. a \in Nat /\ b \in Nat
    BY StudentsAssumption
  <1>2. a < b \/ b < a
    BY <1>1
  <1> QED BY <1>2 DEF Room, Rooms

\* Setting a count keeps the entries entries.
LEMMA EntryTyped ==
  ASSUME TypeOK, NEW s \in Students, NEW t \in Students, NEW n \in Nat \cup {NoEntry},
         SetEntry(s, t, n)
  PROVE  /\ entry' \in [Students -> [Students -> Nat \cup {NoEntry}]]
         /\ \A a, b \in Students :
               entry'[a][b] = IF a = s /\ b = t THEN n ELSE entry[a][b]
  BY DEF SetEntry, TypeOK

\* A write of an app arrives.
LEMMA ArriveTyped ==
  ASSUME TypeInv, NEW s \in Students, Arrive(s)
  PROVE  TypeInv'
  <1> DEFINE w == Head(pending[s])
             r == Room(s, w.of)
  <1>1. /\ w \in Pending(s) /\ w \in Write
        /\ pending' \in [Students -> Seq(Write)]
        /\ \A u \in Students : Pending(u)' \subseteq Pending(u)
    BY PendingArrive DEF TypeInv
  <1> HIDE DEF w
  <1>2. w.of \in Students /\ w.msgs \in SUBSET Message
    BY <1>1 DEF Write
  <1>3. UNCHANGED <<screen, target, sent, checking, visits, calls, pushed, opened, touched,
                    faults>>
    BY DEF Arrive
  <1>4. /\ rooms' \in [Rooms -> SUBSET Message] /\ newRooms' \subseteq Run
        /\ entry' \in [Students -> [Students -> Nat \cup {NoEntry}]]
    <2>1. CASE w.op = "push"
      <3>1. r \in Rooms
        BY <1>1, <1>2, <2>1, RoomTyped DEF TypeInv, Ready
      <3>2. [room |-> r, next |-> 1] \in Run
        BY <3>1 DEF Run
      <3> HIDE DEF r
      <3>3. /\ rooms' = [rooms EXCEPT ![r] = @ \cup w.msgs] /\ entry' = entry
            /\ newRooms' \subseteq newRooms \cup {[room |-> r, next |-> 1]}
        BY <2>1 DEF Arrive, w, r
      <3> QED BY <1>2, <3>1, <3>2, <3>3 DEF TypeInv, TypeOK
    <2>2. CASE w.op # "push"
      <3>1. UNCHANGED <<rooms, newRooms>>
        BY <2>2 DEF Arrive, w
      <3>2. SetEntry(s, w.of, 0) \/ SetEntry(s, w.of, NoEntry)
        BY <2>2 DEF Arrive, w
      <3>3. 0 \in Nat \cup {NoEntry} /\ NoEntry \in Nat \cup {NoEntry}
        OBVIOUS
      <3>4. entry' \in [Students -> [Students -> Nat \cup {NoEntry}]]
        BY <1>2, <3>2, <3>3, EntryTyped DEF TypeInv
      <3> QED BY <3>1, <3>4 DEF TypeInv, TypeOK
    <2> QED BY <2>1, <2>2
  <1>5. TypeOK'
    BY <1>1, <1>3, <1>4 DEF TypeInv, TypeOK
  <1>6. Ready'
    BY <1>1, <1>3 DEF TypeInv, Ready
  <1> QED BY <1>5, <1>6 DEF TypeInv

\* A step of a function.
LEMMA FunctionTyped ==
  ASSUME TypeInv,
         \/ \E n \in newRooms : MakeEntry(n) \/ DeliveredAgain(n)
         \/ \E c \in calls : ReadCount(c) \/ WriteCount(c) \/ CallCutShort(c)
  PROVE  TypeInv'
  <1>1. ASSUME UNCHANGED <<appVars, rooms, pushed, opened, touched>>,
               newRooms' \subseteq Run, calls' \subseteq Call, faults' \in Nat,
               entry' \in [Students -> [Students -> Nat \cup {NoEntry}]]
        PROVE  TypeInv'
    BY <1>1 DEF TypeInv, TypeOK, Ready, Pending, appVars
  <1>2. ASSUME NEW n \in newRooms, MakeEntry(n) \/ DeliveredAgain(n)
        PROVE  TypeInv'
    <2>1. n \in Run /\ n.room \in Rooms
      BY DEF TypeInv, TypeOK, Run
    <2>2. [n EXCEPT !.next = 1] \in Run /\ [n EXCEPT !.next = 2] \in Run
      BY <2>1 DEF Run
    <2>3. n.room[1] \in Students /\ n.room[2] \in Students
      BY <2>1 DEF Rooms
    <2>4. n.room[n.next] \in Students /\ n.room[3 - n.next] \in Students
      <3>1. n.next = 1 \/ n.next = 2
        BY <2>1 DEF Run
      <3> QED BY <2>3, <3>1
    <2>5. entry' \in [Students -> [Students -> Nat \cup {NoEntry}]]
      <3>1. CASE MakeEntry(n)
        <4>1. SetEntry(n.room[n.next], n.room[3 - n.next], 1) /\ 1 \in Nat \cup {NoEntry}
          BY <3>1 DEF MakeEntry
        <4> QED BY <2>4, <4>1, EntryTyped DEF TypeInv
      <3>2. CASE DeliveredAgain(n)
        BY <3>2 DEF DeliveredAgain, TypeInv, TypeOK
      <3> QED BY <1>2, <3>1, <3>2
    <2>6. newRooms' \subseteq Run /\ faults' \in Nat
      <3>1. newRooms \subseteq Run /\ faults \in Nat
        BY DEF TypeInv, TypeOK
      <3> QED BY <1>2, <2>2, <3>1 DEF MakeEntry, DeliveredAgain, Fault
    <2>7. UNCHANGED <<appVars, rooms, calls, pushed, opened, touched>>
      BY <1>2 DEF MakeEntry, DeliveredAgain
    <2> QED BY <1>1, <2>5, <2>6, <2>7 DEF TypeInv, TypeOK
  <1>3. ASSUME NEW c \in calls, ReadCount(c) \/ WriteCount(c) \/ CallCutShort(c)
        PROVE  TypeInv'
    <2>1. c \in Call /\ c.msg.author \in Students /\ c.to \in Students
          /\ c.value \in Nat \cup {NoEntry}
      BY DEF TypeInv, TypeOK, Call, Message
    <2>2. [c EXCEPT !.pc = "write", !.value = entry[c.to][c.msg.author]] \in Call
      <3>1. entry[c.to][c.msg.author] \in Nat \cup {NoEntry}
        BY <2>1 DEF TypeInv, TypeOK
      <3> QED BY <2>1, <3>1 DEF Call
    <2>3. calls' \subseteq Call /\ faults' \in Nat
      <3>1. calls \subseteq Call /\ faults \in Nat
        BY DEF TypeInv, TypeOK
      <3> DEFINE d == [c EXCEPT !.pc = "write", !.value = entry[c.to][c.msg.author]]
      <3>2. calls' \subseteq calls \cup {d}
        BY <1>3 DEF ReadCount, WriteCount, CallCutShort
      <3>3. faults' = faults \/ faults' = faults + 1
        BY <1>3 DEF ReadCount, WriteCount, CallCutShort, Fault
      <3> HIDE DEF d
      <3> QED BY <2>2, <3>1, <3>2, <3>3 DEF d
    <2>4. OneMore(c.value) \in Nat
      BY <2>1 DEF OneMore
    <2>5. entry' \in [Students -> [Students -> Nat \cup {NoEntry}]]
      <3>1. CASE WriteCount(c)
        BY <2>1, <2>4, <3>1, EntryTyped DEF WriteCount, TypeInv
      <3>2. CASE ReadCount(c) \/ CallCutShort(c)
        BY <3>2 DEF ReadCount, CallCutShort, TypeInv, TypeOK
      <3> QED BY <1>3, <3>1, <3>2
    <2>6. UNCHANGED <<appVars, rooms, newRooms, pushed, opened, touched>>
      BY <1>3 DEF ReadCount, WriteCount, CallCutShort
    <2> QED BY <1>1, <2>3, <2>5, <2>6 DEF TypeInv, TypeOK
  <1> QED BY <1>2, <1>3

\* The types, and the readiness of what is to be written, are an inductive invariant.
LEMMA TypeInvCorrect == Spec => []TypeInv
  <1>1. Init => TypeInv
    BY DEF Init, TypeInv, TypeOK, Ready, Pending
  <1>2. TypeInv /\ [Next]_vars => TypeInv'
    <2> SUFFICES ASSUME TypeInv, [Next]_vars
                 PROVE  TypeInv'
      OBVIOUS
    <2>1. ASSUME NEW s \in Students, NEW t \in Students,
                 OpenFromProfile(s, t) \/ FromList(s, t) \/ CloseChat(s)
          PROVE  TypeInv'
      BY <2>1, MountTyped, TouchTyped DEF OpenFromProfile, FromList, OpenFromList
    <2>2. ASSUME NEW s \in Students, TypeMessage(s)
          PROVE  TypeInv'
      <3> DEFINE m == [id |-> sent + 1, author |-> s, typedFor |-> screen[s]]
      <3>1. m \in Message /\ screen[s] \in opened[s] /\ target[s] # NoOne
        BY <2>2 DEF TypeMessage, Message, TypeInv, TypeOK, Ready
      <3>2. TypeOK'
        BY <2>2, <3>1 DEF TypeMessage, TypeInv, TypeOK
      <3>3. Ready'
        BY <2>2, <3>1 DEF TypeMessage, TypeInv, Ready, Pending
      <3> QED BY <3>2, <3>3 DEF TypeInv
    <2>3. ASSUME NEW m \in checking, PushMessage(m) \/ DropMessage(m)
          PROVE  TypeInv'
      <3>1. CASE PushMessage(m)
        BY <3>1, PushTyped
      <3>2. CASE DropMessage(m)
        BY <3>2 DEF DropMessage, TypeInv, TypeOK, Ready, Pending
      <3> QED BY <2>3, <3>1, <3>2
    <2>4. CASE UNCHANGED vars
      BY <2>4 DEF vars, appVars, TypeInv, TypeOK, Ready, Pending
    <2>5. CASE AppNext
      <3> HIDE DEF TypeInv
      <3> QED BY <2>1, <2>2, <2>3, <2>5 DEF AppNext
    <2>6. CASE DatabaseNext
      <3> HIDE DEF TypeInv
      <3> QED BY <2>6, ArriveTyped, FunctionTyped DEF DatabaseNext
    <2> HIDE DEF TypeInv
    <2> QED BY <2>1, <2>4, <2>5, <2>6 DEF Next, Elsewhere
  <1> QED BY <1>1, <1>2, PTL DEF Spec

\* The type invariant holds: what the apps and the functions read and write always
\* has the shape the model gives it.
THEOREM TypeCorrect == Spec => []TypeOK
  BY TypeInvCorrect, PTL DEF TypeInv

-----------------------------------------------------------------------------
(* Messages lie where their authors had chats.                             *)

\* What is to be pushed is its app's own, and was typed for somebody its author had
\* a chat with.
LedInv ==
    /\ \A s \in Students : \A w \in Pending(s) : \A m \in w.msgs :
          m.author = s /\ m.typedFor \in opened[s]
    /\ MessagesStayAmongOpened

\* Chats are never unopened, messages and calls never unpushed, touched entries never
\* untouched.
Grown ==
    \A s \in Students :
        /\ opened[s] \subseteq opened'[s] /\ touched[s] \subseteq touched'[s]
        /\ \A t \in Students : pushed[s][t] \subseteq pushed'[s][t]

LEMMA Grows == TypeOK /\ [Next]_vars => Grown
  <1> SUFFICES ASSUME TypeOK, [Next]_vars
               PROVE  Grown
    OBVIOUS
  <1>1. /\ opened \in [Students -> SUBSET Students] /\ touched \in [Students -> SUBSET Students]
        /\ pushed \in [Students -> [Students -> SUBSET Message]]
    BY DEF TypeOK
  <1>2. ASSUME NEW s \in Students, NEW t \in Students,
               OpenFromProfile(s, t) \/ FromList(s, t) \/ CloseChat(s)
        PROVE  Grown
    BY <1>1, <1>2 DEF OpenFromProfile, FromList, OpenFromList, Mount, CloseChat, Hide, Touch,
                      Grown
  <1>3. ASSUME NEW m \in checking, PushMessage(m)
        PROVE  Grown
    BY <1>1, <1>3 DEF PushMessage, Grown
  <1>4. ASSUME UNCHANGED <<pushed, opened, touched>>
        PROVE  Grown
    BY <1>4 DEF Grown
  <1> QED BY <1>2, <1>3, <1>4 DEF Next, Elsewhere, AppNext, DatabaseNext, TypeMessage,
             DropMessage, Arrive, MakeEntry, DeliveredAgain, ReadCount, WriteCount,
             CallCutShort, vars

\* Where nothing arrives, messages stay where they are.
LEMMA RoomsKept ==
  ASSUME TypeOK, LedInv, Grown, UNCHANGED rooms
  PROVE  MessagesStayAmongOpened'
  <1>1. \A r \in Rooms : \A m \in rooms[r] : m.author \in Students
    BY DEF TypeOK, Message
  <1> QED BY <1>1 DEF LedInv, MessagesStayAmongOpened, Grown

\* Messages are only pushed, and only arrive, where their authors had chats.
LEMMA LedInvCorrect == Spec => []LedInv
  <1>1. Init => LedInv
    BY DEF Init, LedInv, MessagesStayAmongOpened, Pending
  <1>2. TypeInv /\ LedInv /\ [Next]_vars => LedInv'
    <2> SUFFICES ASSUME TypeInv, LedInv, [Next]_vars
                 PROVE  LedInv'
      OBVIOUS
    <2>1. Grown /\ TypeOK
      BY Grows DEF TypeInv
    <2>2. ASSUME NEW s \in Students, NEW op, NEW t, NEW msgs, Issue(s, op, t, msgs),
                 UNCHANGED rooms,
                 \A m \in msgs : m.author = s /\ m.typedFor \in opened[s]
          PROVE  LedInv'
      <3>1. ASSUME NEW u \in Students, NEW w \in Pending(u)', NEW m \in w.msgs
            PROVE  m.author = u /\ m.typedFor \in opened'[u]
        <4>1. w \in Pending(u) \/ (u = s /\ w = [op |-> op, of |-> t, msgs |-> msgs])
          BY <2>1, <2>2, PendingIssue
        <4> QED BY <2>1, <2>2, <4>1 DEF LedInv, Grown
      <3> QED BY <2>1, <2>2, <3>1, RoomsKept DEF LedInv
    <2>3. ASSUME NEW s \in Students, NEW t \in Students,
                 OpenFromProfile(s, t) \/ FromList(s, t) \/ CloseChat(s)
          PROVE  LedInv'
      <3>1. UNCHANGED rooms /\ \E op, v : Issue(s, op, v, {})
        BY <2>3 DEF OpenFromProfile, FromList, OpenFromList, Mount, CloseChat, Hide, Touch
      <3> QED BY <2>2, <3>1
    <2>4. ASSUME NEW m \in checking, PushMessage(m)
          PROVE  LedInv'
      <3>1. m.author \in Students /\ m.typedFor \in opened[m.author]
        BY DEF TypeInv, TypeOK, Message, Ready
      <3>2. UNCHANGED rooms /\ Issue(m.author, "push", target[m.author], {m})
        BY <2>4 DEF PushMessage
      <3> QED BY <2>2, <3>1, <3>2
    <2>5. ASSUME NEW s \in Students, Arrive(s)
          PROVE  LedInv'
      <3> DEFINE w == Head(pending[s])
                 r == Room(s, w.of)
      <3>1. /\ w \in Pending(s) /\ w \in Write
            /\ \A u \in Students : Pending(u)' \subseteq Pending(u)
        BY <2>1, <2>5, PendingArrive
      <3>2. opened' = opened
        BY <2>5 DEF Arrive
      <3>3. CASE w.op = "push"
        <4>1. rooms' = [rooms EXCEPT ![r] = @ \cup w.msgs]
          BY <2>5, <3>3 DEF Arrive
        <4>2. w.of \in opened[s] /\ \A m \in w.msgs : m.author = s /\ m.typedFor \in opened[s]
          BY <3>1, <3>3 DEF LedInv, TypeInv, Ready
        <4>3. w.of \in Students
          BY <3>1 DEF Write
        <4> HIDE DEF w
        <4>4. ASSUME NEW q \in Rooms, NEW m \in rooms'[q]
              PROVE  \E t \in Students : /\ q = Room(m.author, t)
                                         /\ {t, m.typedFor} \subseteq opened[m.author]
          <5>1. m \in rooms[q] \/ (q = r /\ m \in w.msgs)
            BY <2>1, <4>1 DEF TypeOK
          <5> QED BY <4>2, <4>3, <5>1 DEF LedInv, MessagesStayAmongOpened
        <4>5. MessagesStayAmongOpened'
          BY <3>2, <4>4 DEF MessagesStayAmongOpened
        <4> QED BY <3>1, <3>2, <4>5 DEF LedInv
      <3>4. CASE w.op # "push"
        <4>1. rooms' = rooms
          BY <2>5, <3>4 DEF Arrive
        <4> QED BY <2>1, <3>1, <3>2, <4>1, RoomsKept DEF LedInv
      <3> QED BY <3>3, <3>4
    <2>6. ASSUME UNCHANGED <<pending, rooms, opened>>
          PROVE  LedInv'
      BY <2>6 DEF LedInv, MessagesStayAmongOpened, Pending
    <2> HIDE DEF LedInv
    <2>7. CASE AppNext
      BY <2>3, <2>4, <2>6, <2>7 DEF AppNext, TypeMessage, DropMessage
    <2>8. CASE DatabaseNext
      BY <2>5, <2>6, <2>8 DEF DatabaseNext, MakeEntry, DeliveredAgain, ReadCount, WriteCount,
                              CallCutShort, appVars
    <2>9. CASE UNCHANGED vars
      BY <2>6, <2>9 DEF vars, appVars
    <2> QED BY <2>3, <2>7, <2>8, <2>9 DEF Next, Elsewhere
  <1> QED BY <1>1, <1>2, TypeInvCorrect, PTL DEF Spec

\* For any number of students and messages: whether the chat was changed under way
\* or not, a message lies only in rooms of its author, with students the author had
\* a chat with.
THEOREM MessagesStayAmongOpenedCorrect == Spec => []MessagesStayAmongOpened
  BY LedInvCorrect, PTL DEF LedInv

-----------------------------------------------------------------------------
(* Entries, and chats, have a cause.                                       *)

\* Behind every write that makes an entry there is a chat that was opened or a
\* message that was pushed, and behind every message an open chat.
CauseInv ==
    /\ \A s, t \in Students :
          /\ pushed[t][s] # {} => t \in opened[s]
          /\ t \in touched[s] => t \in opened[s] \/ Written(s, t)
    /\ \A s \in Students : \A w \in Pending(s) :
          IF w.op = "push" THEN pushed[w.of][s] # {} ELSE w.of \in touched[s]
    /\ \A n \in newRooms : Written(n.room[1], n.room[2])
    /\ \A c \in calls : c.msg \in pushed[c.to][c.msg.author]
    /\ EntriesHaveCause
    /\ OpenedWasAllowed

\* Causes stay.
LEMMA CausesStay ==
  ASSUME Grown, NEW s \in Students, NEW t \in Students
  PROVE  /\ Written(s, t) => Written(s, t)'
         /\ pushed[s][t] # {} => pushed'[s][t] # {}
         /\ t \in opened[s] => t \in opened'[s]
         /\ t \in touched[s] => t \in touched'[s]
  BY DEF Grown, Written

\* A step of the database leaves the histories, and so all causes, as they are: it
\* need only give what it starts, and the entry it sets, a cause.
LEMMA DatabaseKeepsCauses ==
  ASSUME CauseInv, UNCHANGED <<pushed, opened, touched>>,
         \A u \in Students : Pending(u)' \subseteq Pending(u),
         \A n \in newRooms' : Written(n.room[1], n.room[2]),
         \A c \in calls' : c.msg \in pushed[c.to][c.msg.author],
         \A s, t \in Students : entry'[s][t] # NoEntry =>
             entry[s][t] # NoEntry \/ t \in opened[s] \/ Written(s, t)
  PROVE  CauseInv'
  <1>1. \A s, t : Written(s, t)' = Written(s, t)
    BY DEF Written
  <1>2. EntriesHaveCause' /\ OpenedWasAllowed'
    BY <1>1 DEF CauseInv, EntriesHaveCause, OpenedWasAllowed
  <1>3. \A s, t \in Students :
          /\ pushed'[t][s] # {} => t \in opened'[s]
          /\ t \in touched'[s] => t \in opened'[s] \/ Written(s, t)'
    BY <1>1 DEF CauseInv
  <1>4. \A s \in Students : \A w \in Pending(s)' :
          IF w.op = "push" THEN pushed'[w.of][s] # {} ELSE w.of \in touched'[s]
    BY DEF CauseInv
  <1>5. \A n \in newRooms' : Written(n.room[1], n.room[2])'
    BY <1>1
  <1>6. \A c \in calls' : c.msg \in pushed'[c.to][c.msg.author]
    OBVIOUS
  <1> QED BY <1>2, <1>3, <1>4, <1>5, <1>6 DEF CauseInv

\* An app opens a chat with somebody who allows it or with whom there is a cause,
\* closes one, or hides a conversation it has an entry of, or had.
LEMMA TouchKeepsCauses ==
  ASSUME TypeInv, CauseInv, Grown, NEW s \in Students, NEW op \in {"reset", "hide"},
         NEW t \in Students, Touch(s, op, t),
         UNCHANGED <<newRooms, calls, entry, pushed>>,
         t \in opened'[s] \/ Written(s, t),
         \/ opened' = opened
         \/ /\ opened' = [opened EXCEPT ![s] = @ \cup {t}]
            /\ t \in Allowing \/ s \in opened[t]
  PROVE  CauseInv'
  <1>1. \A a, b : Written(a, b)' = Written(a, b)
    BY DEF Written
  <1>2. \A a, b \in Students : b \in touched'[a] => b \in touched[a] \/ (a = s /\ b = t)
    BY DEF Touch, TypeInv, TypeOK
  <1>3. \A a, b \in Students : b \in opened'[a] =>
            \/ b \in opened[a]
            \/ a = s /\ b = t /\ (t \in Allowing \/ s \in opened[t])
    BY DEF TypeInv, TypeOK
  <1>4. ASSUME NEW a \in Students, NEW b \in Students
        PROVE  /\ pushed'[b][a] # {} => b \in opened'[a]
               /\ b \in touched'[a] => b \in opened'[a] \/ Written(a, b)'
    BY <1>1, <1>2, CausesStay DEF CauseInv
  <1>5. ASSUME NEW a \in Students, NEW w \in Pending(a)'
        PROVE  IF w.op = "push" THEN pushed'[w.of][a] # {} ELSE w.of \in touched'[a]
    <2>1. w \in Pending(a) \/ (a = s /\ w = [op |-> op, of |-> t, msgs |-> {}])
      BY PendingIssue DEF Touch, TypeInv
    <2>2. t \in touched'[s]
      BY DEF Touch, TypeInv, TypeOK
    <2> QED BY <2>1, <2>2 DEF CauseInv, Grown
  <1>6. EntriesHaveCause'
    BY <1>1, CausesStay DEF CauseInv, EntriesHaveCause
  <1>7. OpenedWasAllowed'
    <2>1. ASSUME NEW a \in Students, NEW b \in opened'[a]
          PROVE  b \in Allowing \/ a \in opened'[b]
      <3>1. /\ b \in opened[a] \/ (a = s /\ b = t /\ (t \in Allowing \/ s \in opened[t]))
            /\ b \in Students
        <4>1. opened \in [Students -> SUBSET Students]
          BY DEF TypeInv, TypeOK
        <4>2. opened' \in [Students -> SUBSET Students]
          BY <4>1
        <4> QED BY <1>3, <4>2
      <3>2. b \in Allowing \/ a \in opened[b]
        BY <3>1 DEF CauseInv, OpenedWasAllowed
      <3> QED BY <3>1, <3>2, CausesStay
    <2> QED BY <2>1 DEF OpenedWasAllowed
  <1>8. /\ \A n \in newRooms' : Written(n.room[1], n.room[2])'
        /\ \A c \in calls' : c.msg \in pushed'[c.to][c.msg.author]
    BY <1>1 DEF CauseInv
  <1> QED BY <1>4, <1>5, <1>6, <1>7, <1>8 DEF CauseInv

\* Every step leaves the causes behind it.
LEMMA CauseInvCorrect == Spec => []CauseInv
  <1>1. Init => CauseInv
    BY DEF Init, CauseInv, EntriesHaveCause, OpenedWasAllowed, Pending
  <1>2. TypeInv /\ CauseInv /\ [Next]_vars => CauseInv'
    <2> SUFFICES ASSUME TypeInv, CauseInv, [Next]_vars
                 PROVE  CauseInv'
      OBVIOUS
    <2>1. Grown /\ TypeOK
      BY Grows DEF TypeInv
    <2>2. ASSUME NEW s \in Students, NEW t \in Students, Mount(s, t),
                 t \in Allowing \/ s \in opened[t]
          PROVE  CauseInv'
      <3>1. /\ Touch(s, "reset", t) /\ UNCHANGED <<newRooms, calls, entry, pushed>>
            /\ opened' = [opened EXCEPT ![s] = @ \cup {t}]
        BY <2>2 DEF Mount
      <3>2. t \in opened'[s]
        BY <2>1, <3>1 DEF TypeOK
      <3> QED BY <2>1, <2>2, <3>1, <3>2, TouchKeepsCauses
    <2>3. ASSUME NEW s \in Students, NEW t \in Students, OpenFromProfile(s, t) \/ FromList(s, t)
          PROVE  CauseInv'
      <3>1. CASE OpenFromProfile(s, t)
        BY <2>2, <3>1 DEF OpenFromProfile
      <3>2. ASSUME entry[s][t] # NoEntry \/ t \in touched[s]
            PROVE  /\ t \in opened[s] \/ Written(s, t)
                   /\ t \in Allowing \/ s \in opened[t] \/ t \in opened[s]
        <4>1. t \in opened[s] \/ Written(s, t)
          BY <3>2 DEF CauseInv, EntriesHaveCause
        <4>2. Written(s, t) => s \in opened[t] \/ t \in opened[s]
          BY DEF CauseInv, Written
        <4> QED BY <4>1, <4>2
      <3>3. CASE OpenFromList(s, t)
        <4>1. Mount(s, t) /\ (t \in Allowing \/ s \in opened[t])
          BY <3>2, <3>3 DEF OpenFromList, CauseInv, OpenedWasAllowed
        <4> QED BY <2>2, <4>1
      <3>4. CASE Hide(s, t)
        <4>1. /\ Touch(s, "hide", t) /\ UNCHANGED <<newRooms, calls, entry, pushed, opened>>
              /\ t \in opened[s] \/ Written(s, t)
          BY <3>2, <3>4 DEF Hide
        <4> QED BY <2>1, <4>1, TouchKeepsCauses
      <3> QED BY <2>3, <3>1, <3>3, <3>4 DEF FromList
    <2>4. ASSUME NEW s \in Students, CloseChat(s)
          PROVE  CauseInv'
      <3>1. /\ Touch(s, "reset", screen[s])
            /\ UNCHANGED <<newRooms, calls, entry, pushed, opened>>
            /\ screen[s] \in Students /\ screen[s] \in opened[s]
        BY <2>4 DEF CloseChat, TypeInv, TypeOK, Ready
      <3> QED BY <2>1, <3>1, TouchKeepsCauses
    <2>5. ASSUME NEW m \in checking, PushMessage(m)
          PROVE  CauseInv'
      <3> DEFINE t == target[m.author]
                 a == m.author
      <3>1. m \in Message /\ a \in Students /\ t \in opened[a] /\ t \in Students
        BY <2>5, PushTyped DEF Message
      <3>2. /\ UNCHANGED <<newRooms, entry, opened, touched>>
            /\ calls' = calls \cup {[msg |-> m, to |-> t, pc |-> "read", value |-> 0]}
            /\ pushed' = [pushed EXCEPT ![t][a] = @ \cup {m}]
            /\ Issue(a, "push", t, {m})
        BY <2>5 DEF PushMessage
      <3> HIDE DEF t, a
      <3>3. /\ m \in pushed'[t][a]
            /\ \A u, v \in Students :
                  pushed'[v][u] # {} => pushed[v][u] # {} \/ (v = t /\ u = a)
        BY <2>1, <3>1, <3>2 DEF TypeOK
      <3>4. ASSUME NEW u \in Students, NEW v \in Students
            PROVE  /\ pushed'[v][u] # {} => v \in opened'[u]
                   /\ v \in touched'[u] => v \in opened'[u] \/ Written(u, v)'
        BY <2>1, <3>1, <3>2, <3>3, CausesStay DEF CauseInv
      <3>5. ASSUME NEW u \in Students, NEW w \in Pending(u)'
            PROVE  IF w.op = "push" THEN pushed'[w.of][u] # {} ELSE w.of \in touched'[u]
        <4>1. w \in Pending(u) \/ (u = a /\ w = [op |-> "push", of |-> t, msgs |-> {m}])
          BY <2>1, <3>1, <3>2, PendingIssue
        <4>2. CASE w \in Pending(u)
          <5>1. w.of \in Students
            BY <2>1, <4>2, PendingWrites DEF Write
          <5> QED BY <2>1, <4>2, <5>1 DEF CauseInv, Grown
        <4> QED BY <3>3, <4>1, <4>2
      <3>6. \A n \in newRooms' : Written(n.room[1], n.room[2])'
        <4>1. \A n \in newRooms : n.room[1] \in Students /\ n.room[2] \in Students
          BY <2>1 DEF TypeOK, Run, Rooms
        <4> QED BY <2>1, <3>2, <4>1, CausesStay DEF CauseInv
      <3>7. \A c \in calls' : c.msg \in pushed'[c.to][c.msg.author]
        <4>1. \A c \in calls : c.to \in Students /\ c.msg.author \in Students
          BY <2>1 DEF TypeOK, Call, Message
        <4>2. \A c \in calls : c.msg \in pushed'[c.to][c.msg.author]
          BY <2>1, <4>1 DEF CauseInv, Grown
        <4> QED BY <3>2, <3>3, <4>2 DEF a
      <3>8. EntriesHaveCause'
        BY <2>1, <3>2, CausesStay DEF CauseInv, EntriesHaveCause
      <3>9. OpenedWasAllowed'
        BY <3>2 DEF CauseInv, OpenedWasAllowed
      <3> QED BY <3>4, <3>5, <3>6, <3>7, <3>8, <3>9 DEF CauseInv
    <2>6. ASSUME NEW s \in Students, Arrive(s)
          PROVE  CauseInv'
      <3> DEFINE w == Head(pending[s])
      <3>1. /\ w \in Pending(s) /\ w \in Write /\ w.of \in Students
            /\ \A u \in Students : Pending(u)' \subseteq Pending(u)
        BY <2>1, <2>6, PendingArrive DEF Write
      <3>2. UNCHANGED <<calls, pushed, opened, touched>>
        BY <2>6 DEF Arrive
      <3>3. ASSUME NEW n \in newRooms'
            PROVE  Written(n.room[1], n.room[2])
        <4>1. n \in newRooms \/ (w.op = "push" /\ n = [room |-> Room(s, w.of), next |-> 1])
          BY <2>6 DEF Arrive
        <4>2. CASE w.op = "push" /\ n = [room |-> Room(s, w.of), next |-> 1]
          <5>1. Written(s, w.of) /\ w.of \in opened[s]
            BY <3>1, <4>2 DEF CauseInv, Written, TypeInv, Ready
          <5> HIDE DEF w
          <5>2. s # w.of
            BY <5>1 DEF TypeInv, Ready
          <5>3. n.room = <<s, w.of>> \/ n.room = <<w.of, s>>
            BY <3>1, <4>2, <5>2, RoomTyped
          <5> QED BY <5>1, <5>3 DEF Written
        <4> QED BY <4>1, <4>2 DEF CauseInv
      <3>4. ASSUME NEW u \in Students, NEW v \in Students, entry'[u][v] # NoEntry
            PROVE  entry[u][v] # NoEntry \/ v \in opened[u] \/ Written(u, v)
        <4>1. CASE w.op = "push"
          BY <2>6, <3>4, <4>1 DEF Arrive
        <4>2. CASE w.op = "reset"
          <5>1. SetEntry(s, w.of, 0) /\ w.of \in opened[s]
            BY <2>6, <3>1, <4>2 DEF Arrive, TypeInv, Ready
          <5> HIDE DEF w
          <5> QED BY <2>1, <3>1, <3>4, <5>1, EntryTyped
        <4>3. CASE w.op = "hide"
          <5>1. SetEntry(s, w.of, NoEntry)
            BY <2>6, <4>3 DEF Arrive
          <5> HIDE DEF w
          <5>2. entry'[u][v] = IF u = s /\ v = w.of THEN NoEntry ELSE entry[u][v]
            BY <2>1, <3>1, <5>1 DEF SetEntry, TypeOK
          <5> QED BY <3>4, <5>2
        <4> QED BY <3>1, <4>1, <4>2, <4>3 DEF Write
      <3>5. \A c \in calls' : c.msg \in pushed[c.to][c.msg.author]
        BY <3>2 DEF CauseInv
      <3> HIDE DEF w
      <3> QED BY <3>1, <3>2, <3>3, <3>4, <3>5, DatabaseKeepsCauses
    <2>7. ASSUME NEW n \in newRooms, MakeEntry(n) \/ DeliveredAgain(n)
          PROVE  CauseInv'
      <3>1. n \in Run /\ n.room \in Rooms /\ Written(n.room[1], n.room[2])
        BY <2>1 DEF TypeOK, Run, CauseInv
      <3>2. UNCHANGED <<pending, calls, pushed, opened, touched>>
        BY <2>7 DEF MakeEntry, DeliveredAgain, appVars
      <3>3. \A k \in newRooms' : Written(k.room[1], k.room[2])
        <4>1. \A k \in newRooms' : k \in newRooms \/ k.room = n.room
          BY <2>7, <3>1 DEF MakeEntry, DeliveredAgain, Run
        <4> QED BY <3>1, <4>1 DEF CauseInv
      <3>4. ASSUME NEW u \in Students, NEW v \in Students, entry'[u][v] # NoEntry
            PROVE  entry[u][v] # NoEntry \/ v \in opened[u] \/ Written(u, v)
        <4>1. CASE MakeEntry(n)
          <5> DEFINE a == n.room[n.next]
                     b == n.room[3 - n.next]
          <5>1. a \in Students /\ b \in Students /\ Written(a, b)
            <6>1. n.next = 1 \/ n.next = 2
              BY <3>1 DEF Run
            <6>2. n.room[1] \in Students /\ n.room[2] \in Students
              BY <3>1 DEF Rooms
            <6> QED BY <3>1, <6>1, <6>2 DEF Written
          <5>2. SetEntry(a, b, 1) /\ 1 \in Nat \cup {NoEntry}
            BY <4>1 DEF MakeEntry
          <5> HIDE DEF a, b
          <5> QED BY <2>1, <3>4, <5>1, <5>2, EntryTyped
        <4> QED BY <2>7, <3>4, <4>1 DEF DeliveredAgain
      <3>5. \A u \in Students : Pending(u)' = Pending(u)
        BY <3>2 DEF Pending
      <3>6. \A c \in calls' : c.msg \in pushed[c.to][c.msg.author]
        BY <3>2 DEF CauseInv
      <3> QED BY <3>2, <3>3, <3>4, <3>5, <3>6, DatabaseKeepsCauses
    <2>8. ASSUME NEW c \in calls, ReadCount(c) \/ WriteCount(c) \/ CallCutShort(c)
          PROVE  CauseInv'
      <3>1. c \in Call /\ c.to \in Students /\ c.msg.author \in Students
            /\ OneMore(c.value) \in Nat /\ c.msg \in pushed[c.to][c.msg.author]
        BY <2>1 DEF TypeOK, Call, Message, OneMore, CauseInv
      <3>2. UNCHANGED <<pending, newRooms, pushed, opened, touched>>
        BY <2>8 DEF ReadCount, WriteCount, CallCutShort, appVars
      <3>3. \A d \in calls' : d.msg \in pushed[d.to][d.msg.author]
        <4> DEFINE r == [c EXCEPT !.pc = "write", !.value = entry[c.to][c.msg.author]]
        <4>1. r.msg = c.msg /\ r.to = c.to
          BY <3>1 DEF Call
        <4>2. calls' \subseteq calls \cup {r}
          BY <2>8 DEF ReadCount, WriteCount, CallCutShort
        <4> HIDE DEF r
        <4> QED BY <3>1, <4>1, <4>2 DEF CauseInv
      <3>4. ASSUME NEW u \in Students, NEW v \in Students, entry'[u][v] # NoEntry
            PROVE  entry[u][v] # NoEntry \/ v \in opened[u] \/ Written(u, v)
        <4>1. CASE WriteCount(c)
          <5>1. SetEntry(c.to, c.msg.author, OneMore(c.value)) /\ Written(c.to, c.msg.author)
            BY <3>1, <4>1 DEF WriteCount, Written
          <5> QED BY <2>1, <3>1, <3>4, <5>1, EntryTyped
        <4> QED BY <2>8, <3>4, <4>1 DEF ReadCount, CallCutShort
      <3>5. \A u \in Students : Pending(u)' = Pending(u)
        BY <3>2 DEF Pending
      <3>6. \A n \in newRooms' : Written(n.room[1], n.room[2])
        BY <3>2 DEF CauseInv
      <3> QED BY <3>2, <3>3, <3>4, <3>5, <3>6, DatabaseKeepsCauses
    <2>9. ASSUME UNCHANGED <<pending, newRooms, calls, entry, pushed, opened, touched>>
          PROVE  CauseInv'
      BY <2>9 DEF CauseInv, EntriesHaveCause, OpenedWasAllowed, Pending, Written
    <2> HIDE DEF CauseInv
    <2>10. CASE AppNext
      BY <2>3, <2>4, <2>5, <2>9, <2>10 DEF AppNext, TypeMessage, DropMessage
    <2>11. CASE DatabaseNext
      BY <2>6, <2>7, <2>8, <2>11 DEF DatabaseNext
    <2>12. CASE UNCHANGED vars
      BY <2>9, <2>12 DEF vars, appVars
    <2> QED BY <2>3, <2>10, <2>11, <2>12 DEF Next, Elsewhere
  <1> QED BY <1>1, <1>2, TypeInvCorrect, PTL DEF Spec

\* For any number of students: a conversation is listed by its student only if the
\* student has opened the chat or one of the two has written to the other.
THEOREM EntriesHaveCauseCorrect == Spec => []EntriesHaveCause
  BY CauseInvCorrect, PTL DEF CauseInv

\* For any number of students: nobody has a chat with a student who does not allow
\* it, unless that student, or an entry left from an earlier chat, has led there.
THEOREM OpenedWasAllowedCorrect == Spec => []OpenedWasAllowed
  BY CauseInvCorrect, PTL DEF CauseInv

-----------------------------------------------------------------------------
(* A message announces itself.                                             *)

\* A message that was pushed is still to be counted, or its entry announces something.
AnnouncedInv ==
    \A s, t \in Students :
        faults = 0 /\ t \notin touched[s] /\ pushed[s][t] # {}
        => CallsFor(s, t) # {} \/ entry[s][t] > 0

\* A call that reads goes on to write; a call that writes, or is cut short, is over.
LEMMA CallSteps ==
  ASSUME TypeOK, NEW c \in calls, ReadCount(c) \/ WriteCount(c) \/ CallCutShort(c),
         NEW s \in Students, NEW t \in Students
  PROVE  LET r == [c EXCEPT !.pc = "write", !.value = entry[c.to][c.msg.author]] IN
         /\ c.to \in Students /\ c.msg.author \in Students /\ c \in Call /\ r \in Call
         /\ r.value = entry[c.to][c.msg.author]
         /\ CallsFor(s, t)' = IF c.to # s \/ c.msg.author # t THEN CallsFor(s, t)
                              ELSE IF ReadCount(c) THEN (CallsFor(s, t) \ {c}) \cup {r}
                              ELSE CallsFor(s, t) \ {c}
  <1> DEFINE r == [c EXCEPT !.pc = "write", !.value = entry[c.to][c.msg.author]]
  <1>1. c \in Call /\ c.to \in Students /\ c.msg.author \in Students
    BY DEF TypeOK, Call, Message
  <1>2. r \in Call /\ r.to = c.to /\ r.msg = c.msg /\ r.value = entry[c.to][c.msg.author]
    <2>1. entry[c.to][c.msg.author] \in Nat \cup {NoEntry}
      BY <1>1 DEF TypeOK
    <2> QED BY <1>1, <2>1 DEF Call
  <1>3. /\ ReadCount(c) => calls' = (calls \ {c}) \cup {r}
        /\ ~ ReadCount(c) => calls' = calls \ {c}
    BY DEF ReadCount, WriteCount, CallCutShort
  <1> HIDE DEF r
  <1>4. CallsFor(s, t)' = IF c.to # s \/ c.msg.author # t THEN CallsFor(s, t)
                          ELSE IF ReadCount(c) THEN (CallsFor(s, t) \ {c}) \cup {r}
                          ELSE CallsFor(s, t) \ {c}
    <2>1. CASE ReadCount(c)
      BY <1>2, <1>3, <2>1 DEF CallsFor
    <2>2. CASE ~ ReadCount(c)
      BY <1>3, <2>2 DEF CallsFor
    <2> QED BY <2>1, <2>2
  <1> QED BY <1>1, <1>2, <1>4 DEF r

\* No step silences an untouched entry.
LEMMA AnnouncedInvCorrect == Spec => []AnnouncedInv
  <1>1. Init => AnnouncedInv
    BY DEF Init, AnnouncedInv
  <1>2. TypeInv /\ CauseInv /\ AnnouncedInv /\ [Next]_vars => AnnouncedInv'
    <2> SUFFICES ASSUME TypeInv, CauseInv, AnnouncedInv, [Next]_vars,
                        NEW s \in Students, NEW t \in Students, faults' = 0,
                        t \notin touched'[s], pushed'[s][t] # {}
                 PROVE  CallsFor(s, t)' # {} \/ entry'[s][t] > 0
      BY DEF AnnouncedInv
    <2>1. Grown /\ TypeOK /\ t \notin touched[s]
      BY Grows DEF TypeInv, Grown
    <2>2. ASSUME UNCHANGED <<calls, entry, pushed, faults>>
          PROVE  CallsFor(s, t)' # {} \/ entry'[s][t] > 0
      BY <2>1, <2>2 DEF AnnouncedInv, CallsFor
    <2>3. ASSUME NEW u \in Students, NEW v \in Students,
                 OpenFromProfile(u, v) \/ FromList(u, v) \/ CloseChat(u) \/ TypeMessage(u)
          PROVE  CallsFor(s, t)' # {} \/ entry'[s][t] > 0
      <3>1. UNCHANGED <<calls, entry, pushed, faults>>
        BY <2>3 DEF OpenFromProfile, FromList, OpenFromList, Mount, CloseChat, Hide, TypeMessage
      <3> QED BY <2>2, <3>1
    <2>4. ASSUME NEW m \in checking, PushMessage(m)
          PROVE  CallsFor(s, t)' # {} \/ entry'[s][t] > 0
      <3> DEFINE x == [msg |-> m, to |-> target[m.author], pc |-> "read", value |-> 0]
      <3>1. calls' = calls \cup {x} /\ UNCHANGED <<entry, faults>>
            /\ pushed' = [pushed EXCEPT ![target[m.author]][m.author] = @ \cup {m}]
        BY <2>4 DEF PushMessage
      <3>2. CASE s = target[m.author] /\ t = m.author
        <4>1. x \in calls' /\ x.to = s /\ x.msg.author = t
          BY <3>1, <3>2
        <4>2. x \in CallsFor(s, t)'
          <5> HIDE DEF x
          <5> QED BY <4>1 DEF CallsFor
        <4> QED BY <4>2
      <3>3. CASE ~ (s = target[m.author] /\ t = m.author)
        <4>1. pushed'[s][t] = pushed[s][t]
          BY <2>1, <3>1, <3>3 DEF TypeOK
        <4>2. CallsFor(s, t) \subseteq CallsFor(s, t)'
          BY <3>1 DEF CallsFor
        <4> QED BY <2>1, <3>1, <4>1, <4>2 DEF AnnouncedInv
      <3> QED BY <3>2, <3>3
    <2>5. ASSUME NEW u \in Students, Arrive(u)
          PROVE  CallsFor(s, t)' # {} \/ entry'[s][t] > 0
      <3> DEFINE w == Head(pending[u])
      <3>1. w \in Pending(u) /\ w \in Write /\ w.of \in Students
        BY <2>1, <2>5, PendingArrive DEF Write
      <3>2. UNCHANGED <<calls, pushed, touched, faults>>
        BY <2>5 DEF Arrive
      <3>3. entry'[s][t] = entry[s][t]
        <4>1. CASE w.op = "push"
          BY <2>5, <4>1 DEF Arrive
        <4>2. CASE w.op # "push"
          <5>1. w.of \in touched[u]
            BY <3>1, <4>2 DEF CauseInv
          <5>2. SetEntry(u, w.of, 0) \/ SetEntry(u, w.of, NoEntry)
            BY <2>5, <4>2 DEF Arrive
          <5> HIDE DEF w
          <5>3. u # s \/ w.of # t
            BY <2>1, <5>1
          <5> QED BY <2>1, <3>1, <5>2, <5>3 DEF SetEntry, TypeOK
        <4> QED BY <4>1, <4>2
      <3> QED BY <2>1, <3>2, <3>3 DEF AnnouncedInv, CallsFor
    <2>6. ASSUME NEW n \in newRooms, MakeEntry(n) \/ DeliveredAgain(n)
          PROVE  CallsFor(s, t)' # {} \/ entry'[s][t] > 0
      <3>1. MakeEntry(n)
        BY <2>1, <2>6 DEF DeliveredAgain, Fault, TypeOK
      <3>2. UNCHANGED <<calls, pushed, faults>>
        BY <3>1 DEF MakeEntry
      <3>3. entry'[s][t] = entry[s][t] \/ entry'[s][t] = 1
        BY <2>1, <3>1 DEF MakeEntry, SetEntry, TypeOK
      <3> QED BY <2>1, <3>2, <3>3 DEF AnnouncedInv, CallsFor
    <2>7. ASSUME NEW c \in calls, ReadCount(c) \/ WriteCount(c) \/ CallCutShort(c)
          PROVE  CallsFor(s, t)' # {} \/ entry'[s][t] > 0
      <3>1. ReadCount(c) \/ WriteCount(c)
        BY <2>1, <2>7 DEF CallCutShort, Fault, TypeOK
      <3>2. UNCHANGED <<pushed, faults>>
        BY <3>1 DEF ReadCount, WriteCount
      <3>3. CASE c.to = s /\ c.msg.author = t /\ WriteCount(c)
        <4>1. OneMore(c.value) \in Nat /\ OneMore(c.value) > 0
          BY <2>1 DEF OneMore, TypeOK, Call
        <4>2. entry'[s][t] = OneMore(c.value)
          BY <2>1, <3>3 DEF WriteCount, SetEntry, TypeOK
        <4> QED BY <4>1, <4>2
      <3>4. CASE c.to = s /\ c.msg.author = t /\ ReadCount(c)
        <4> DEFINE r == [c EXCEPT !.pc = "write", !.value = entry[c.to][c.msg.author]]
        <4>1. CallsFor(s, t)' = (CallsFor(s, t) \ {c}) \cup {r}
          BY <2>1, <3>4, CallSteps
        <4> HIDE DEF r
        <4> QED BY <4>1
      <3>5. CASE c.to # s \/ c.msg.author # t
        <4>1. CallsFor(s, t)' = CallsFor(s, t)
          BY <2>1, <2>7, <3>5, CallSteps
        <4>2. entry'[s][t] = entry[s][t]
          BY <2>1, <3>1, <3>5 DEF ReadCount, WriteCount, SetEntry, TypeOK
        <4> QED BY <2>1, <3>2, <4>1, <4>2 DEF AnnouncedInv
      <3> QED BY <3>1, <3>3, <3>4, <3>5
    <2>8. CASE UNCHANGED vars
      BY <2>2, <2>8 DEF vars
    <2>9. ASSUME NEW m \in checking, DropMessage(m)
          PROVE  CallsFor(s, t)' # {} \/ entry'[s][t] > 0
      BY <2>2, <2>9 DEF DropMessage
    <2>10. CASE AppNext
      BY <2>3, <2>4, <2>9, <2>10 DEF AppNext
    <2>11. CASE DatabaseNext
      BY <2>5, <2>6, <2>7, <2>11 DEF DatabaseNext
    <2> QED BY <2>3, <2>8, <2>10, <2>11 DEF Next, Elsewhere
  <1> QED BY <1>1, <1>2, TypeInvCorrect, CauseInvCorrect, PTL DEF Spec

\* For any number of students and messages: increments may be lost, but never all of
\* them; an entry that its student has never reset or hidden announces something
\* once a message was counted.
THEOREM AnnouncedUnlessTouchedCorrect == Spec => []AnnouncedUnlessTouched
  <1>1. AnnouncedInv => AnnouncedUnlessTouched
    BY DEF AnnouncedInv, AnnouncedUnlessTouched
  <1> QED BY <1>1, AnnouncedInvCorrect, PTL

-----------------------------------------------------------------------------
(* A count announces at most one message too many.                         *)

\* A message that waits has been pushed nowhere; message numbers are not reused.
Fresh ==
    /\ \A m \in checking : m.id <= sent /\ \A t \in Students : m \notin pushed[t][m.author]
    /\ \A s, t \in Students : \A m \in pushed[s][t] : m.id <= sent

\* There are finitely many calls, and finitely many messages for anybody.
Finite == IsFiniteSet(calls) /\ \A s, t \in Students : IsFiniteSet(pushed[s][t])

\* What a count, or no entry, stands for.
Counts(v) == IF v = NoEntry THEN 0 ELSE v

\* There is a message for every call that is still to be finished, and what has been
\* counted, or read to be written back, leaves room for all of them but one.
Counted(s, t) ==
    LET n == Cardinality(CallsFor(s, t))
        p == Cardinality(pushed[s][t]) IN
    /\ n <= p
    /\ Counts(entry[s][t]) + n <= p + 1
    /\ \A c \in CallsFor(s, t) : Counts(c.value) + n <= p + 1

CountInv == Finite /\ Fresh /\ \A s, t \in Students : Counted(s, t)

\* Calls and messages of one count are finite sets, and the values they hold counts.
LEMMA FiniteParts ==
  ASSUME TypeOK, Finite, NEW s \in Students, NEW t \in Students
  PROVE  /\ IsFiniteSet(CallsFor(s, t)) /\ Cardinality(CallsFor(s, t)) \in Nat
         /\ IsFiniteSet(pushed[s][t]) /\ Cardinality(pushed[s][t]) \in Nat
         /\ Counts(entry[s][t]) \in Nat
         /\ \A c \in CallsFor(s, t) : Counts(c.value) \in Nat
  <1>1. CallsFor(s, t) \subseteq calls
    BY DEF CallsFor
  <1>2. IsFiniteSet(CallsFor(s, t)) /\ IsFiniteSet(pushed[s][t])
    BY <1>1, FS_Subset DEF Finite
  <1>3. entry[s][t] \in Nat \cup {NoEntry} /\ \A c \in calls : c.value \in Nat \cup {NoEntry}
    BY DEF TypeOK, Call
  <1>4. Counts(entry[s][t]) \in Nat /\ \A c \in CallsFor(s, t) : Counts(c.value) \in Nat
    BY <1>1, <1>3 DEF Counts
  <1> QED BY <1>2, <1>4, FS_CardinalityType

\* The state the system starts in.
LEMMA CountInit == Init => CountInv
  <1> SUFFICES ASSUME Init PROVE CountInv
    OBVIOUS
  <1>1. Finite /\ Fresh
    BY FS_EmptySet DEF Init, Finite, Fresh
  <1>2. ASSUME NEW s \in Students, NEW t \in Students
        PROVE  Counted(s, t)
    <2>1. CallsFor(s, t) = {} /\ pushed[s][t] = {} /\ entry[s][t] = NoEntry
      BY <1>2 DEF Init, CallsFor
    <2> QED BY <2>1, FS_EmptySet DEF Counted, Counts
  <1> QED BY <1>1, <1>2 DEF CountInv

\* What neither starts a call nor pushes a message may set counts to 0 or 1.
LEMMA CountsKept ==
  ASSUME TypeOK, CountInv, UNCHANGED <<calls, pushed>>, Fresh',
         \A s, t \in Students : \/ entry'[s][t] = entry[s][t]
                                \/ entry'[s][t] \in {NoEntry, 0, 1}
  PROVE  CountInv'
  <1>1. ASSUME NEW s \in Students, NEW t \in Students
        PROVE  Counted(s, t)'
    <2>1. CallsFor(s, t)' = CallsFor(s, t) /\ pushed'[s][t] = pushed[s][t]
      BY DEF CallsFor
    <2>2. Counts(entry'[s][t]) = Counts(entry[s][t]) \/ Counts(entry'[s][t]) \in {0, 1}
      BY DEF Counts
    <2>3. Counted(s, t)
      BY DEF CountInv
    <2>4. /\ Cardinality(CallsFor(s, t)) \in Nat /\ Cardinality(pushed[s][t]) \in Nat
          /\ Counts(entry[s][t]) \in Nat
      BY FiniteParts DEF CountInv
    <2> QED BY <2>1, <2>2, <2>3, <2>4 DEF Counted
  <1>2. Finite'
    BY DEF CountInv, Finite
  <1> QED BY <1>1, <1>2 DEF CountInv

\* Pushing a message adds one message and one call.
LEMMA CountPush ==
  ASSUME TypeInv, CauseInv, CountInv, NEW m \in checking, PushMessage(m)
  PROVE  CountInv'
  <1> DEFINE d == target[m.author]
             a == m.author
             x == [msg |-> m, to |-> d, pc |-> "read", value |-> 0]
  <1>1. m \in Message /\ a \in Students /\ d \in Students
    BY PushTyped DEF Message
  <1>2. /\ calls' = calls \cup {x} /\ entry' = entry
        /\ checking' = checking \ {m} /\ sent' = sent
        /\ pushed' = [pushed EXCEPT ![d][a] = @ \cup {m}]
    BY DEF PushMessage
  <1>3. \A s, t \in Students :
          pushed'[s][t] = IF s = d /\ t = a THEN pushed[s][t] \cup {m} ELSE pushed[s][t]
    BY <1>1, <1>2 DEF TypeInv, TypeOK
  <1>4. m \notin pushed[d][a] /\ x \notin calls /\ m.id <= sent
    <2>1. m \notin pushed[d][a] /\ m.id <= sent
      BY <1>1 DEF CountInv, Fresh
    <2> QED BY <2>1 DEF CauseInv
  <1>5. x.to = d /\ x.msg.author = a /\ x.value = 0
    OBVIOUS
  <1>6. Fresh'
    BY <1>1, <1>2, <1>3, <1>4 DEF CountInv, Fresh
  <1> HIDE DEF x, d, a
  <1>7. Finite'
    <2>1. IsFiniteSet(calls')
      BY <1>2, FS_AddElement DEF CountInv, Finite
    <2>2. ASSUME NEW s \in Students, NEW t \in Students
          PROVE  IsFiniteSet(pushed'[s][t])
      <3>1. IsFiniteSet(pushed[s][t]) /\ IsFiniteSet(pushed[s][t] \cup {m})
        BY FS_AddElement DEF CountInv, Finite
      <3> QED BY <1>3, <3>1
    <2> QED BY <2>1, <2>2 DEF Finite
  <1>8. ASSUME NEW s \in Students, NEW t \in Students
        PROVE  Counted(s, t)'
    <2>1. Counted(s, t) /\ entry'[s][t] = entry[s][t]
      BY <1>2 DEF CountInv
    <2>2. /\ IsFiniteSet(CallsFor(s, t)) /\ Cardinality(CallsFor(s, t)) \in Nat
          /\ IsFiniteSet(pushed[s][t]) /\ Cardinality(pushed[s][t]) \in Nat
          /\ Counts(entry[s][t]) \in Nat
          /\ \A c \in CallsFor(s, t) : Counts(c.value) \in Nat
      BY FiniteParts DEF CountInv, TypeInv
    <2>3. CASE s = d /\ t = a
      <3>1. CallsFor(s, t)' = CallsFor(s, t) \cup {x} /\ x \notin CallsFor(s, t)
        BY <1>2, <1>4, <1>5, <2>3 DEF CallsFor
      <3>2. pushed'[s][t] = pushed[s][t] \cup {m} /\ m \notin pushed[s][t]
        BY <1>3, <1>4, <2>3
      <3>3. /\ Cardinality(CallsFor(s, t)') = Cardinality(CallsFor(s, t)) + 1
            /\ Cardinality(pushed'[s][t]) = Cardinality(pushed[s][t]) + 1
        BY <2>2, <3>1, <3>2, FS_AddElement
      <3>4. Counts(x.value) = 0
        BY <1>5 DEF Counts, NoEntry
      <3> DEFINE n == Cardinality(CallsFor(s, t))
                 p == Cardinality(pushed[s][t])
      <3>5. n <= p /\ Counts(entry[s][t]) + n <= p + 1
            /\ \A c \in CallsFor(s, t) : Counts(c.value) + n <= p + 1
        BY <2>1 DEF Counted
      <3>6. n \in Nat /\ p \in Nat
        BY <2>2
      <3> HIDE DEF n, p
      <3>7. ASSUME NEW c \in CallsFor(s, t)'
            PROVE  Counts(c.value) + (n + 1) <= (p + 1) + 1
        <4>1. CASE c = x
          BY <3>4, <3>5, <3>6, <4>1
        <4>2. CASE c \in CallsFor(s, t)
          BY <2>2, <3>5, <3>6, <4>2
        <4> QED BY <3>1, <4>1, <4>2
      <3>8. n + 1 <= p + 1 /\ Counts(entry'[s][t]) + (n + 1) <= (p + 1) + 1
        BY <2>1, <2>2, <3>5, <3>6
      <3> QED BY <3>3, <3>7, <3>8 DEF Counted, n, p
    <2>4. CASE ~ (s = d /\ t = a)
      <3>1. CallsFor(s, t)' = CallsFor(s, t) /\ pushed'[s][t] = pushed[s][t]
        BY <1>2, <1>3, <1>5, <2>4 DEF CallsFor
      <3> QED BY <2>1, <3>1 DEF Counted
    <2> QED BY <2>3, <2>4
  <1> QED BY <1>6, <1>7, <1>8 DEF CountInv

\* A step of incrementUnreadDirect: a read keeps the calls of its count as many, a
\* write or a call cut short makes them one fewer.
LEMMA CountStep ==
  ASSUME TypeOK, CountInv, NEW c \in calls, ReadCount(c) \/ WriteCount(c) \/ CallCutShort(c)
  PROVE  CountInv'
  <1> DEFINE r == [c EXCEPT !.pc = "write", !.value = entry[c.to][c.msg.author]]
  <1>1. pushed' = pushed /\ checking' = checking /\ sent' = sent
    BY DEF ReadCount, WriteCount, CallCutShort, appVars
  <1>2. Fresh'
    BY <1>1 DEF CountInv, Fresh
  <1>3. calls' = calls \ {c} \/ calls' = (calls \ {c}) \cup {r}
    BY DEF ReadCount, WriteCount, CallCutShort
  <1>4. Finite'
    <2>1. IsFiniteSet(calls \ {c}) /\ IsFiniteSet((calls \ {c}) \cup {r})
      BY FS_RemoveElement, FS_AddElement DEF CountInv, Finite
    <2> QED BY <1>1, <1>3, <2>1 DEF CountInv, Finite
  <1>5. ASSUME NEW s \in Students, NEW t \in Students
        PROVE  Counted(s, t)'
    <2> DEFINE n == Cardinality(CallsFor(s, t))
               p == Cardinality(pushed[s][t])
    <2>1. Counted(s, t) /\ pushed'[s][t] = pushed[s][t]
      BY <1>1 DEF CountInv
    <2>2. /\ IsFiniteSet(CallsFor(s, t)) /\ n \in Nat /\ p \in Nat
          /\ Counts(entry[s][t]) \in Nat
          /\ \A k \in CallsFor(s, t) : Counts(k.value) \in Nat
      BY FiniteParts DEF CountInv
    <2>3. /\ c.to \in Students /\ c.msg.author \in Students /\ c \in Call
          /\ r.value = entry[c.to][c.msg.author]
          /\ CallsFor(s, t)' = IF c.to # s \/ c.msg.author # t THEN CallsFor(s, t)
                               ELSE IF ReadCount(c) THEN (CallsFor(s, t) \ {c}) \cup {r}
                               ELSE CallsFor(s, t) \ {c}
      BY CallSteps
    <2>4. CASE c.to # s \/ c.msg.author # t
      <3>1. CallsFor(s, t)' = CallsFor(s, t)
        BY <2>3, <2>4
      <3>2. entry'[s][t] = entry[s][t]
        BY <2>3, <2>4 DEF ReadCount, WriteCount, CallCutShort, SetEntry, TypeOK
      <3> QED BY <2>1, <3>1, <3>2 DEF Counted
    <2>5. CASE c.to = s /\ c.msg.author = t
      <3>1. c \in CallsFor(s, t)
        BY <2>5 DEF CallsFor
      <3>2. /\ IsFiniteSet(CallsFor(s, t) \ {c})
            /\ Cardinality(CallsFor(s, t) \ {c}) = n - 1
            /\ Cardinality(CallsFor(s, t) \ {c}) \in Nat
        BY <2>2, <3>1, FS_RemoveElement, FS_CardinalityType
      <3>3. CASE ReadCount(c)
        <4>1. CallsFor(s, t)' = (CallsFor(s, t) \ {c}) \cup {r} /\ entry' = entry
          BY <2>3, <2>5, <3>3 DEF ReadCount
        <4>2. r.value = entry[s][t]
          BY <2>3, <2>5
        <4> HIDE DEF r, n, p
        <4>3. Cardinality(CallsFor(s, t)') <= n /\ Cardinality(CallsFor(s, t)') \in Nat
          <5> DEFINE rest == CallsFor(s, t) \ {c}
          <5> HIDE DEF rest
          <5>1. IsFiniteSet(rest) /\ Cardinality(rest) = n - 1 /\ Cardinality(rest) \in Nat
                /\ CallsFor(s, t)' = rest \cup {r}
            BY <3>2, <4>1 DEF rest
          <5>2. Cardinality(rest \cup {r}) =
                  IF r \in rest THEN Cardinality(rest) ELSE Cardinality(rest) + 1
            BY <5>1, FS_AddElement
          <5> QED BY <2>2, <5>1, <5>2
        <4>4. ASSUME NEW k \in CallsFor(s, t)'
              PROVE  k.value = entry[s][t] \/ k \in CallsFor(s, t)
          BY <4>1, <4>2
        <4> QED BY <2>1, <2>2, <4>1, <4>3, <4>4 DEF Counted, n, p
      <3>4. CASE ~ ReadCount(c)
        <4>1. CallsFor(s, t)' = CallsFor(s, t) \ {c}
          BY <2>3, <2>5, <3>4
        <4>2. Counts(entry'[s][t]) = Counts(c.value) + 1 \/ entry'[s][t] = entry[s][t]
          <5>1. CASE WriteCount(c)
            <6>1. entry'[s][t] = OneMore(c.value)
              BY <2>3, <2>5, <5>1 DEF WriteCount, SetEntry, TypeOK
            <6>2. c.value \in Nat \cup {NoEntry}
              BY <2>3 DEF Call
            <6> QED BY <6>1, <6>2 DEF OneMore, Counts, NoEntry
          <5> QED BY <3>4, <5>1 DEF CallCutShort
        <4>3. Counts(c.value) \in Nat /\ Counts(c.value) + n <= p + 1
          BY <2>1, <2>2, <3>1 DEF Counted
        <4>4. Cardinality(CallsFor(s, t)') = n - 1
          BY <3>2, <4>1
        <4> HIDE DEF n, p
        <4>5. \A k \in CallsFor(s, t)' : k \in CallsFor(s, t)
          BY <4>1
        <4>6. n <= p /\ Counts(entry[s][t]) + n <= p + 1
              /\ \A k \in CallsFor(s, t) : Counts(k.value) + n <= p + 1
          BY <2>1 DEF Counted, n, p
        <4>7. n - 1 <= p /\ Counts(entry'[s][t]) + (n - 1) <= p + 1
              /\ \A k \in CallsFor(s, t)' : Counts(k.value) + (n - 1) <= p + 1
          BY <2>2, <4>2, <4>3, <4>5, <4>6
        <4> QED BY <2>1, <4>4, <4>7 DEF Counted, p
      <3> QED BY <3>3, <3>4
    <2> QED BY <2>4, <2>5
  <1> QED BY <1>2, <1>4, <1>5 DEF CountInv

\* The bound on the counts is kept by every step.
LEMMA CountInvCorrect == Spec => []CountInv
  <1>1. TypeInv /\ CauseInv /\ CountInv /\ [Next]_vars => CountInv'
    <2> SUFFICES ASSUME TypeInv, CauseInv, CountInv, [Next]_vars
                 PROVE  CountInv'
      OBVIOUS
    <2>1. TypeOK
      BY DEF TypeInv
    <2>2. ASSUME UNCHANGED <<calls, pushed, entry, sent>>, checking' \subseteq checking
          PROVE  CountInv'
      <3>1. Fresh'
        BY <2>2 DEF CountInv, Fresh
      <3> QED BY <2>1, <2>2, <3>1, CountsKept
    <2>3. ASSUME NEW s \in Students, NEW t \in Students,
                 OpenFromProfile(s, t) \/ FromList(s, t) \/ CloseChat(s)
          PROVE  CountInv'
      <3>1. UNCHANGED <<calls, pushed, entry, sent, checking>>
        BY <2>3 DEF OpenFromProfile, FromList, OpenFromList, Mount, CloseChat, Hide
      <3> QED BY <2>2, <3>1
    <2>4. ASSUME NEW s \in Students, TypeMessage(s)
          PROVE  CountInv'
      <3> DEFINE m == [id |-> sent + 1, author |-> s, typedFor |-> screen[s]]
      <3>1. /\ UNCHANGED <<calls, pushed, entry>>
            /\ sent' = sent + 1 /\ sent \in Nat /\ checking' = checking \cup {m}
        BY <2>1, <2>4 DEF TypeMessage, TypeOK
      <3>2. \A k \in checking : k \in Message /\ k.id \in Nat
        BY <2>1 DEF TypeOK, Message
      <3>3. \A t \in Students : m \notin pushed[t][s] /\ m.id = sent + 1 /\ m.author = s
        BY <3>1 DEF CountInv, Fresh
      <3> HIDE DEF m
      <3>4. ASSUME NEW k \in checking'
            PROVE  k.id <= sent' /\ \A t \in Students : k \notin pushed'[t][k.author]
        <4>1. CASE k = m
          <5>1. k.id <= sent'
            BY <3>1, <3>3, <4>1, <2>4
          <5> QED BY <3>1, <3>3, <4>1, <5>1
        <4>2. CASE k \in checking
          BY <3>1, <3>2, <4>2 DEF CountInv, Fresh
        <4> QED BY <3>1, <4>1, <4>2
      <3>5. ASSUME NEW u \in Students, NEW v \in Students, NEW k \in pushed'[u][v]
            PROVE  k.id <= sent'
        <4>1. k.id <= sent /\ k.id \in Nat
          BY <2>1, <3>1 DEF CountInv, Fresh, TypeOK, Message
        <4> QED BY <3>1, <4>1
      <3>6. Fresh'
        BY <3>4, <3>5 DEF Fresh
      <3> QED BY <2>1, <3>1, <3>6, CountsKept
    <2>5. ASSUME NEW m \in checking, PushMessage(m) \/ DropMessage(m)
          PROVE  CountInv'
      <3>1. CASE PushMessage(m)
        BY <3>1, CountPush
      <3>2. CASE DropMessage(m)
        <4>1. UNCHANGED <<calls, pushed, entry, sent>> /\ checking' \subseteq checking
          BY <3>2 DEF DropMessage
        <4> QED BY <2>2, <4>1
      <3> QED BY <2>5, <3>1, <3>2
    <2>6. ASSUME UNCHANGED <<calls, pushed, checking, sent>>,
                 \A s, t \in Students : \/ entry'[s][t] = entry[s][t]
                                        \/ entry'[s][t] \in {NoEntry, 0, 1}
          PROVE  CountInv'
      <3>1. Fresh'
        BY <2>6 DEF CountInv, Fresh
      <3> QED BY <2>1, <2>6, <3>1, CountsKept
    <2>7. ASSUME NEW s \in Students, Arrive(s)
          PROVE  CountInv'
      <3> DEFINE w == Head(pending[s])
      <3>1. UNCHANGED <<calls, pushed, checking, sent>>
        BY <2>7 DEF Arrive
      <3>2. entry' = entry \/ SetEntry(s, w.of, 0) \/ SetEntry(s, w.of, NoEntry)
        BY <2>7 DEF Arrive
      <3> HIDE DEF w
      <3>3. \A u, v \in Students : \/ entry'[u][v] = entry[u][v]
                                   \/ entry'[u][v] \in {NoEntry, 0, 1}
        BY <2>1, <3>2 DEF SetEntry, TypeOK
      <3> QED BY <2>6, <3>1, <3>3
    <2>8. ASSUME NEW n \in newRooms, MakeEntry(n) \/ DeliveredAgain(n)
          PROVE  CountInv'
      <3>1. UNCHANGED <<calls, pushed, checking, sent>>
        BY <2>8 DEF MakeEntry, DeliveredAgain, appVars
      <3> DEFINE a == n.room[n.next]
                 b == n.room[3 - n.next]
      <3>2. entry' = entry \/ SetEntry(a, b, 1)
        BY <2>8 DEF MakeEntry, DeliveredAgain
      <3>3. a \in Students /\ b \in Students
        <4>1. n \in Run
          BY <2>1 DEF TypeOK
        <4>2. n.room[1] \in Students /\ n.room[2] \in Students /\ (n.next = 1 \/ n.next = 2)
          BY <4>1 DEF Run, Rooms
        <4> QED BY <4>2
      <3> HIDE DEF a, b
      <3>4. \A u, v \in Students : \/ entry'[u][v] = entry[u][v]
                                   \/ entry'[u][v] \in {NoEntry, 0, 1}
        BY <2>1, <3>2, <3>3, EntryTyped DEF TypeOK
      <3> QED BY <2>6, <3>1, <3>4
    <2>9. ASSUME NEW c \in calls, ReadCount(c) \/ WriteCount(c) \/ CallCutShort(c)
          PROVE  CountInv'
      BY <2>1, <2>9, CountStep
    <2>10. CASE UNCHANGED vars
      BY <2>2, <2>10 DEF vars, appVars
    <2> HIDE DEF CountInv
    <2>11. CASE AppNext
      BY <2>3, <2>4, <2>5, <2>11 DEF AppNext
    <2>12. CASE DatabaseNext
      BY <2>7, <2>8, <2>9, <2>12 DEF DatabaseNext
    <2> QED BY <2>3, <2>10, <2>11, <2>12 DEF Next, Elsewhere
  <1> QED BY <1>1, CountInit, TypeInvCorrect, CauseInvCorrect, PTL DEF Spec

\* For any number of students and messages: however the four writers of an entry
\* interleave, and whatever is delivered twice, its count announces at most one
\* message more than were pushed.
THEOREM AtMostOneTooManyCorrect == Spec => []AtMostOneTooMany
  <1>1. CountInv => AtMostOneTooMany
    BY DEF CountInv, Counted, AtMostOneTooMany, Counts, Unread
  <1> QED BY <1>1, CountInvCorrect, PTL
=============================================================================
