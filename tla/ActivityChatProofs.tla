------------------------- MODULE ActivityChatProofs -------------------------
(* Proofs about the chats and their counts, for any number of students,    *)
(* chats and messages.                                                     *)
EXTENDS ActivityChat, FiniteSetTheorems, TLAPS

\* A chat on the screen, and a message that waits, have a room to go to.
RoomReady ==
    /\ \A s \in Students : screen[s] # NoChat => room[s] # NoChat
    /\ \A m \in checking : room[m.author] # NoChat

TypeInv == TypeOK /\ RoomReady

\* The types and the readiness of rooms are an inductive invariant.
LEMMA TypeInvCorrect == Spec => []TypeInv
  <1>1. Init => TypeInv
    BY DEF Init, TypeInv, TypeOK, RoomReady
  <1>2. TypeInv /\ [Next]_vars => TypeInv'
    <2> SUFFICES ASSUME TypeInv, [Next]_vars
                 PROVE  TypeInv'
      OBVIOUS
    <2> USE NoChatAssumption, InvolvedAssumption DEF TypeInv, TypeOK, RoomReady, clientVars
    <2>1. ASSUME NEW s \in Students, NEW c \in Chats, NEW l \in SUBSET Students, Mount(s, c, l)
          PROVE  TypeInv'
      BY <2>1 DEF Mount, Reset, Message
    <2>2. ASSUME NEW s \in Students, NEW c \in Chats,
                 OpenChat(s, c) \/ OpenNotification(s, c)
          PROVE  TypeInv'
      <3>1. Involved[c] \in SUBSET Students /\ {} \in SUBSET Students
        OBVIOUS
      <3> QED BY <2>1, <2>2, <3>1 DEF OpenChat, OpenNotification
    <2>3. ASSUME NEW s \in Students, CloseChat(s)
          PROVE  TypeInv'
      <3>1. screen[s] \in Chats
        BY <2>3 DEF CloseChat
      <3>2. resets' \in [Students -> SUBSET Chats] /\ touched' \in [Students -> SUBSET Chats]
        BY <2>3, <3>1 DEF CloseChat, Reset
      <3>3. screen' \in [Students -> Chats \cup {NoChat}]
        BY <2>3 DEF CloseChat
      <3>4. RoomReady'
        BY <2>3 DEF CloseChat
      <3> QED BY <2>3, <3>2, <3>3, <3>4 DEF CloseChat
    <2>4. ASSUME NEW s \in Students, NEW c \in Chats, LeaveActivity(s, c) \/ ResetWrite(s, c)
          PROVE  TypeInv'
      <3>1. CASE LeaveActivity(s, c)
        BY <3>1 DEF LeaveActivity, Reset
      <3>2. CASE ResetWrite(s, c)
        <4>1. unread' \in [Students -> [Chats -> Nat]]
          BY <3>2 DEF ResetWrite
        <4>2. resets' \in [Students -> SUBSET Chats]
          BY <3>2 DEF ResetWrite
        <4> QED BY <3>2, <4>1, <4>2 DEF ResetWrite
      <3> QED BY <2>4, <3>1, <3>2
    <2>5. ASSUME NEW s \in Students, TypeMessage(s)
          PROVE  TypeInv'
      <3>1. [id |-> sent + 1, author |-> s, typedIn |-> screen[s], userList |-> userList[s]]
            \in Message
        BY <2>5 DEF TypeMessage, Message
      <3> QED BY <2>5, <3>1 DEF TypeMessage, Message
    <2>6. ASSUME NEW m \in checking, PushMessage(m)
          PROVE  TypeInv'
      <3>1. m \in Message /\ room[m.author] \in Chats /\ m.userList \subseteq Students
        BY DEF Message
      <3>2. calls' \subseteq Call
        BY <2>6, <3>1 DEF PushMessage, IncrementUnread, Call
      <3>3. notified' \in [Students -> SUBSET Chats]
        BY <2>6, <3>1 DEF PushMessage, IncrementUnread
      <3> QED BY <2>6, <3>1, <3>2, <3>3 DEF PushMessage
    <2>7. ASSUME NEW m \in checking, DropMessage(m)
          PROVE  TypeInv'
      BY <2>7 DEF DropMessage
    <2>8. ASSUME NEW t \in calls, ReadCount(t) \/ WriteCount(t) \/ CallCutShort(t)
          PROVE  TypeInv'
      <3>1. t \in Call
        OBVIOUS
      <3>2. [t EXCEPT !.pc = "write", !.value = unread[t.user][t.chat]] \in Call
        <4>1. unread[t.user][t.chat] \in Nat
          BY <3>1 DEF Call
        <4> QED BY <3>1, <4>1 DEF Call
      <3>3. t.value + 1 \in Nat
        BY <3>1 DEF Call
      <3>4. calls' \subseteq Call
        BY <2>8, <3>2 DEF ReadCount, WriteCount, CallCutShort
      <3>5. unread' \in [Students -> [Chats -> Nat]]
        <4>1. CASE WriteCount(t)
          BY <3>3, <4>1 DEF WriteCount
        <4> QED BY <2>8, <4>1 DEF ReadCount, CallCutShort
      <3>6. faults' \in Nat
        BY <2>8 DEF ReadCount, WriteCount, CallCutShort
      <3> QED BY <2>8, <3>4, <3>5, <3>6 DEF ReadCount, WriteCount, CallCutShort
    <2>9. CASE UNCHANGED vars
      BY <2>9 DEF vars
    <2> QED BY <2>2, <2>3, <2>4, <2>5, <2>6, <2>7, <2>8, <2>9 DEF Next, AppNext
  <1> QED BY <1>1, <1>2, PTL DEF Spec

\* The type invariant holds: what the apps and incrementUnread read and write
\* always has the shape the model gives it.
THEOREM TypeCorrect == Spec => []TypeOK
  BY TypeInvCorrect, PTL DEF TypeInv

-----------------------------------------------------------------------------
(* A count never announces more messages than were sent.                   *)

\* A message that waits has been pushed nowhere; message numbers are not reused.
Fresh ==
    /\ \A m \in checking : m.id <= sent /\ \A c \in Chats : m \notin messages[c]
    /\ \A c \in Chats : \A m \in messages[c] : m.id <= sent

\* There are finitely many calls, and finitely many messages in a room.
Finite == IsFiniteSet(calls) /\ \A c \in Chats : IsFiniteSet(messages[c])

\* What has been counted, or read to be written back, leaves room for every call
\* that is still to be finished.
Counted(s, c) ==
    /\ unread[s][c] + Cardinality(CallsFor(s, c)) <= Cardinality(Mail(s, c))
    /\ \A t \in CallsFor(s, c) :
           t.value + Cardinality(CallsFor(s, c)) <= Cardinality(Mail(s, c))

CountInv == Finite /\ Fresh /\ \A s \in Students, c \in Chats : Counted(s, c)

\* Calls and mail of one count are finite sets.
LEMMA FiniteParts ==
  ASSUME Finite, NEW s \in Students, NEW c \in Chats
  PROVE  /\ IsFiniteSet(CallsFor(s, c)) /\ Cardinality(CallsFor(s, c)) \in Nat
         /\ IsFiniteSet(Mail(s, c)) /\ Cardinality(Mail(s, c)) \in Nat
  <1>1. CallsFor(s, c) \subseteq calls /\ Mail(s, c) \subseteq messages[c]
    BY DEF CallsFor, Mail
  <1> QED BY <1>1, FS_Subset, FS_CardinalityType DEF Finite

\* The state the system starts in.
LEMMA CountInit == Init => CountInv
  <1> SUFFICES ASSUME Init PROVE CountInv
    OBVIOUS
  <1>1. Finite /\ Fresh
    BY FS_EmptySet DEF Init, Finite, Fresh
  <1>2. ASSUME NEW s \in Students, NEW c \in Chats
        PROVE  Counted(s, c)
    <2>1. CallsFor(s, c) = {} /\ Mail(s, c) = {}
      BY DEF Init, CallsFor, Mail
    <2> QED BY <2>1, FS_EmptySet DEF Init, Counted
  <1> QED BY <1>1, <1>2 DEF CountInv

\* What neither starts a call nor pushes a message may lower counts, no more.
LEMMA CountsKept ==
  ASSUME TypeInv, CountInv, UNCHANGED <<messages, calls>>,
         NEW s \in Students, NEW c \in Chats,
         unread'[s][c] = unread[s][c] \/ unread'[s][c] = 0
  PROVE  Counted(s, c)'
  <1>1. CallsFor(s, c)' = CallsFor(s, c) /\ Mail(s, c)' = Mail(s, c)
    BY DEF CallsFor, Mail
  <1>2. unread[s][c] \in Nat
    BY DEF TypeInv, TypeOK
  <1>3. Counted(s, c)
    BY DEF CountInv
  <1>4. Cardinality(CallsFor(s, c)) \in Nat /\ Cardinality(Mail(s, c)) \in Nat
    BY FiniteParts DEF CountInv
  <1> QED BY <1>1, <1>2, <1>3, <1>4 DEF Counted

\* Pushing a message adds it to the mail of those it calls on, with one call each.
LEMMA CountPush ==
  ASSUME TypeInv, CountInv, NEW m \in checking, PushMessage(m)
  PROVE  CountInv'
  <1> DEFINE d == room[m.author]
             New == {[msg |-> m, user |-> u, chat |-> d, pc |-> "read", value |-> 0] :
                          u \in m.userList}
  <1>1. m \in Message /\ m.author \in Students /\ d \in Chats /\ m.userList \subseteq Students
    BY DEF TypeInv, TypeOK, RoomReady, Message
  <1>2. messages' = [messages EXCEPT ![d] = @ \cup {m}] /\ calls' = calls \cup New
    BY DEF PushMessage, IncrementUnread
  <1>3. messages \in [Chats -> SUBSET Message] /\ unread' = unread
    BY DEF PushMessage, TypeInv, TypeOK
  <1>4. checking' = checking \ {m} /\ sent' = sent
    BY DEF PushMessage
  <1>5. Finite'
    <2>1. IsFiniteSet(m.userList)
      BY <1>1, FiniteAssumption, FS_Subset
    <2>2. IsFiniteSet(New)
      <3> DEFINE call(u) == [msg |-> m, user |-> u, chat |-> d, pc |-> "read", value |-> 0]
                 f == [u \in m.userList |-> call(u)]
      <3>1. f \in Surjection(m.userList, New)
        BY DEF Surjection
      <3> HIDE DEF New
      <3> QED BY <2>1, <3>1, FS_Surjection
    <2>3. IsFiniteSet(calls')
      <3> HIDE DEF New
      <3> QED BY <1>2, <2>2, FS_Union DEF CountInv, Finite
    <2>4. ASSUME NEW c \in Chats
          PROVE  IsFiniteSet(messages'[c])
      <3>1. IsFiniteSet(messages[c]) /\ IsFiniteSet(messages[c] \cup {m})
        BY FS_AddElement DEF CountInv, Finite
      <3>2. messages'[c] = messages[c] \/ messages'[c] = messages[c] \cup {m}
        BY <1>2, <1>3
      <3> QED BY <3>1, <3>2
    <2> QED BY <2>3, <2>4 DEF Finite
  <1>6. Fresh'
    BY <1>1, <1>2, <1>3, <1>4 DEF CountInv, Fresh
  <1>7. ASSUME NEW s \in Students, NEW c \in Chats
        PROVE  Counted(s, c)'
    <2> DEFINE x == [msg |-> m, user |-> s, chat |-> c, pc |-> "read", value |-> 0]
    <2>1. Counted(s, c) /\ unread[s][c] \in Nat
      BY DEF CountInv, TypeInv, TypeOK
    <2>2. /\ IsFiniteSet(CallsFor(s, c)) /\ Cardinality(CallsFor(s, c)) \in Nat
          /\ IsFiniteSet(Mail(s, c)) /\ Cardinality(Mail(s, c)) \in Nat
      BY FiniteParts DEF CountInv
    <2>3. CASE c = d /\ s \in m.userList
      <3>1. CallsFor(s, c)' = CallsFor(s, c) \cup {x}
        BY <1>2, <2>3 DEF CallsFor
      <3>2. Mail(s, c)' = Mail(s, c) \cup {m} /\ m \notin Mail(s, c)
        BY <1>2, <1>3, <2>3 DEF Mail, CountInv, Fresh
      <3>3. Cardinality(Mail(s, c)') = Cardinality(Mail(s, c)) + 1
        BY <2>2, <3>2, FS_AddElement
      <3>4. /\ Cardinality(CallsFor(s, c)') <= Cardinality(CallsFor(s, c)) + 1
            /\ Cardinality(CallsFor(s, c)') \in Nat
        <4> HIDE DEF x
        <4>1. IsFiniteSet(CallsFor(s, c)')
          BY <2>2, <3>1, FS_AddElement
        <4>2. Cardinality(CallsFor(s, c)') \in Nat
          BY <4>1, FS_CardinalityType
        <4>3. Cardinality(CallsFor(s, c) \cup {x}) =
                IF x \in CallsFor(s, c) THEN Cardinality(CallsFor(s, c))
                                        ELSE Cardinality(CallsFor(s, c)) + 1
          BY <2>2, FS_AddElement
        <4> QED BY <2>2, <3>1, <4>2, <4>3
      <3>5. unread'[s][c] + Cardinality(CallsFor(s, c)') <= Cardinality(Mail(s, c)')
        BY <1>3, <2>1, <2>2, <3>3, <3>4 DEF Counted
      <3>6. ASSUME NEW t \in CallsFor(s, c)'
            PROVE  t.value + Cardinality(CallsFor(s, c)') <= Cardinality(Mail(s, c)')
        <4>1. CASE t = x
          BY <1>3, <2>1, <3>4, <3>3, <2>2, <3>5, <4>1
        <4>2. CASE t \in CallsFor(s, c)
          <5>1. t.value \in Nat
            BY <4>2 DEF CallsFor, TypeInv, TypeOK, Call
          <5> QED BY <5>1, <4>2, <2>1, <2>2, <3>3, <3>4 DEF Counted
        <4> QED BY <3>1, <4>1, <4>2
      <3> QED BY <3>5, <3>6 DEF Counted
    <2>4. CASE ~ (c = d /\ s \in m.userList)
      <3>1. CallsFor(s, c)' = CallsFor(s, c)
        BY <1>2, <2>4 DEF CallsFor
      <3>2. Mail(s, c)' = Mail(s, c)
        BY <1>2, <1>3, <2>4 DEF Mail
      <3> QED BY <1>3, <2>1, <3>1, <3>2 DEF Counted
    <2> QED BY <2>3, <2>4
  <1> QED BY <1>5, <1>6, <1>7 DEF CountInv

\* A step of incrementUnread: a read keeps the calls of its count as many, a write
\* or a call cut short makes them one fewer.
LEMMA CountStep ==
  ASSUME TypeInv, CountInv, NEW t \in calls, ReadCount(t) \/ WriteCount(t) \/ CallCutShort(t)
  PROVE  CountInv'
  <1> DEFINE r == [t EXCEPT !.pc = "write", !.value = unread[t.user][t.chat]]
  <1>1. t \in Call /\ t.user \in Students /\ t.chat \in Chats /\ t.value \in Nat
    BY DEF TypeInv, TypeOK, Call
  <1>2. messages' = messages /\ checking' = checking /\ sent' = sent
    BY DEF ReadCount, WriteCount, CallCutShort, clientVars
  <1>3. Finite'
    <2>1. IsFiniteSet(calls \ {t}) /\ IsFiniteSet((calls \ {t}) \cup {r})
      BY FS_RemoveElement, FS_AddElement DEF CountInv, Finite
    <2>2. calls' = calls \ {t} \/ calls' = (calls \ {t}) \cup {r}
      BY DEF ReadCount, WriteCount, CallCutShort
    <2> QED BY <1>2, <2>1, <2>2 DEF CountInv, Finite
  <1>4. Fresh'
    BY <1>2 DEF CountInv, Fresh
  <1>5. ASSUME NEW s \in Students, NEW c \in Chats
        PROVE  Counted(s, c)'
    <2>1. Counted(s, c) /\ unread[s][c] \in Nat
      BY DEF CountInv, TypeInv, TypeOK
    <2>2. /\ IsFiniteSet(CallsFor(s, c)) /\ Cardinality(CallsFor(s, c)) \in Nat
          /\ IsFiniteSet(Mail(s, c)) /\ Cardinality(Mail(s, c)) \in Nat
      BY FiniteParts DEF CountInv
    <2>3. Mail(s, c)' = Mail(s, c)
      BY <1>2 DEF Mail
    <2>4. \A u \in CallsFor(s, c) : u.value \in Nat
      BY DEF CallsFor, TypeInv, TypeOK, Call
    <2>5. CASE t.user # s \/ t.chat # c
      <3>1. CallsFor(s, c)' = CallsFor(s, c)
        BY <1>1, <2>5 DEF CallsFor, ReadCount, WriteCount, CallCutShort, Call
      <3>2. unread'[s][c] = unread[s][c]
        BY <1>1, <2>5 DEF ReadCount, WriteCount, CallCutShort, TypeInv, TypeOK
      <3> QED BY <2>1, <2>3, <3>1, <3>2 DEF Counted
    <2>6. CASE t.user = s /\ t.chat = c
      <3>1. t \in CallsFor(s, c)
        BY <2>6 DEF CallsFor
      <3>2. /\ IsFiniteSet(CallsFor(s, c) \ {t})
            /\ Cardinality(CallsFor(s, c) \ {t}) = Cardinality(CallsFor(s, c)) - 1
            /\ Cardinality(CallsFor(s, c) \ {t}) \in Nat
        BY <2>2, <3>1, FS_RemoveElement, FS_CardinalityType
      <3>3. CASE ReadCount(t)
        <4>1. CallsFor(s, c)' = (CallsFor(s, c) \ {t}) \cup {r}
          BY <1>1, <2>6, <3>3 DEF CallsFor, ReadCount, Call
        <4>2. /\ Cardinality(CallsFor(s, c)') <= Cardinality(CallsFor(s, c))
              /\ Cardinality(CallsFor(s, c)') \in Nat
          <5> DEFINE rest == CallsFor(s, c) \ {t}
          <5> HIDE DEF r, rest
          <5>1. IsFiniteSet(rest) /\ Cardinality(rest) + 1 = Cardinality(CallsFor(s, c))
                /\ Cardinality(rest) \in Nat /\ CallsFor(s, c)' = rest \cup {r}
            BY <2>2, <3>2, <4>1 DEF rest
          <5>2. IsFiniteSet(CallsFor(s, c)')
            BY <5>1, FS_AddElement
          <5>3. Cardinality(CallsFor(s, c)') \in Nat
            BY <5>2, FS_CardinalityType
          <5>4. Cardinality(rest \cup {r}) =
                  IF r \in rest THEN Cardinality(rest) ELSE Cardinality(rest) + 1
            BY <5>1, FS_AddElement
          <5> QED BY <2>2, <5>1, <5>3, <5>4
        <4>3. unread' = unread /\ r.value = unread[s][c]
          BY <1>1, <2>6, <3>3 DEF ReadCount, Call
        <4>4. \A u \in CallsFor(s, c)' : u.value = unread[s][c] \/ u \in CallsFor(s, c)
          BY <4>1, <4>3
        <4> HIDE DEF r
        <4> QED BY <2>1, <2>2, <2>3, <2>4, <4>2, <4>3, <4>4 DEF Counted
      <3>4. CASE WriteCount(t) \/ CallCutShort(t)
        <4>1. CallsFor(s, c)' = CallsFor(s, c) \ {t}
          BY <3>4 DEF CallsFor, WriteCount, CallCutShort
        <4>2. unread'[s][c] = t.value + 1 \/ unread'[s][c] = unread[s][c]
          BY <1>1, <2>6, <3>4 DEF WriteCount, CallCutShort, TypeInv, TypeOK
        <4>3. \A u \in CallsFor(s, c)' : u \in CallsFor(s, c) /\ u.value \in Nat
          BY <2>4, <4>1
        <4>4. Cardinality(CallsFor(s, c)') + 1 = Cardinality(CallsFor(s, c))
              /\ Cardinality(CallsFor(s, c)') \in Nat
          BY <2>2, <3>2, <4>1
        <4>5. t.value + Cardinality(CallsFor(s, c)) <= Cardinality(Mail(s, c))
          BY <2>1, <3>1 DEF Counted
        <4>6. unread'[s][c] + Cardinality(CallsFor(s, c)') <= Cardinality(Mail(s, c)')
          BY <1>1, <2>1, <2>2, <2>3, <4>2, <4>4, <4>5 DEF Counted
        <4>7. ASSUME NEW u \in CallsFor(s, c)'
              PROVE  u.value + Cardinality(CallsFor(s, c)') <= Cardinality(Mail(s, c)')
          BY <2>1, <2>2, <2>3, <4>3, <4>4 DEF Counted
        <4> QED BY <4>6, <4>7 DEF Counted
      <3> QED BY <3>3, <3>4
    <2> QED BY <2>5, <2>6
  <1> QED BY <1>3, <1>4, <1>5 DEF CountInv

\* The bound on the counts is kept by every step.
LEMMA CountInvCorrect == Spec => []CountInv
  <1>1. TypeInv /\ CountInv /\ [Next]_vars => CountInv'
    <2> SUFFICES ASSUME TypeInv, CountInv, [Next]_vars
                 PROVE  CountInv'
      OBVIOUS
    <2>1. ASSUME UNCHANGED <<messages, calls>>, Fresh',
                 \A s \in Students, c \in Chats :
                     unread'[s][c] = unread[s][c] \/ unread'[s][c] = 0
          PROVE  CountInv'
      BY <2>1, CountsKept DEF CountInv, Finite
    <2>2. ASSUME NEW s \in Students,
                 \/ CloseChat(s)
                 \/ \E c \in Chats : \/ OpenChat(s, c) \/ OpenNotification(s, c)
                                     \/ LeaveActivity(s, c)
          PROVE  CountInv'
      <3>1. UNCHANGED <<messages, calls, unread, checking, sent>>
        BY <2>2 DEF CloseChat, OpenChat, OpenNotification, LeaveActivity, Mount, clientVars
      <3>2. Fresh'
        BY <3>1 DEF CountInv, Fresh
      <3> QED BY <2>1, <3>1, <3>2
    <2>3. ASSUME NEW s \in Students, NEW c \in Chats, ResetWrite(s, c)
          PROVE  CountInv'
      <3>1. UNCHANGED <<messages, calls, checking, sent>>
        BY <2>3 DEF ResetWrite, clientVars
      <3>2. Fresh'
        BY <3>1 DEF CountInv, Fresh
      <3>3. \A u \in Students, e \in Chats :
                unread'[u][e] = unread[u][e] \/ unread'[u][e] = 0
        BY <2>3 DEF ResetWrite, TypeInv, TypeOK
      <3> QED BY <2>1, <3>1, <3>2, <3>3
    <2>4. ASSUME NEW s \in Students, TypeMessage(s)
          PROVE  CountInv'
      <3>1. UNCHANGED <<messages, calls, unread>>
        BY <2>4 DEF TypeMessage
      <3>2. Fresh'
        BY <2>4 DEF TypeMessage, CountInv, Fresh, TypeInv, TypeOK, Message
      <3> QED BY <2>1, <3>1, <3>2
    <2>5. ASSUME NEW m \in checking, DropMessage(m)
          PROVE  CountInv'
      <3>1. UNCHANGED <<messages, calls, unread>>
        BY <2>5 DEF DropMessage
      <3>2. Fresh'
        BY <2>5 DEF DropMessage, CountInv, Fresh
      <3> QED BY <2>1, <3>1, <3>2
    <2>6. CASE UNCHANGED vars
      <3>1. UNCHANGED <<messages, calls, unread, checking, sent>>
        BY <2>6 DEF vars, clientVars
      <3>2. Fresh'
        BY <3>1 DEF CountInv, Fresh
      <3> QED BY <2>1, <3>1, <3>2
    <2>7. ASSUME NEW m \in checking, PushMessage(m)
          PROVE  CountInv'
      BY <2>7, CountPush
    <2>8. ASSUME NEW t \in calls, ReadCount(t) \/ WriteCount(t) \/ CallCutShort(t)
          PROVE  CountInv'
      BY <2>8, CountStep
    <2> HIDE DEF CountInv, TypeInv
    <2>9. CASE AppNext
      BY <2>2, <2>3, <2>4, <2>5, <2>7, <2>9 DEF AppNext
    <2> QED BY <2>6, <2>8, <2>9 DEF Next
  <1> QED BY <1>1, CountInit, TypeInvCorrect, PTL DEF Spec

\* For any number of students, chats and messages, and however the reads and
\* writes of incrementUnread interleave with resets, a count never announces
\* more messages than were sent to the room.
THEOREM NeverOvercountedCorrect == Spec => []NeverOvercounted
  <1>1. CountInv => NeverOvercounted
    BY DEF CountInv, Counted, NeverOvercounted
  <1> QED BY <1>1, CountInvCorrect, PTL

-----------------------------------------------------------------------------
(* Who writes in a chat was led there.                                     *)

\* The student is involved in the chat, or a message there is addressed to the student.
Led(s, c) == s \in Involved[c] \/ Mail(s, c) # {}

\* A student was led to the room of the ChatLib object and has reset its count,
\* as that of the chat on the screen and of the chats messages were typed in;
\* there is a message behind every notification.
LedInv ==
    /\ \A s \in Students : room[s] # NoChat => room[s] \in touched[s] /\ Led(s, room[s])
    /\ \A s \in Students : screen[s] # NoChat => screen[s] \in touched[s]
    /\ \A m \in checking : m.typedIn \in touched[m.author]
    /\ \A s \in Students : \A c \in notified[s] : Mail(s, c) # {}
    /\ AuthorsWereLed

\* What leaves the messages alone and makes no chat untouched leaves the authors
\* led where they were.
LEMMA LedKept ==
  ASSUME TypeInv, LedInv, UNCHANGED messages,
         \A s \in Students : touched[s] \subseteq touched'[s]
  PROVE  /\ AuthorsWereLed'
         /\ \A s, c : Mail(s, c)' = Mail(s, c) /\ Led(s, c)' = Led(s, c)
  <1>1. \A s, c : Mail(s, c)' = Mail(s, c) /\ Led(s, c)' = Led(s, c)
    BY DEF Mail, Led
  <1>2. \A c \in Chats : \A m \in messages[c] : m.author \in Students
    BY DEF TypeInv, TypeOK, Message
  <1> QED BY <1>1, <1>2 DEF LedInv, AuthorsWereLed

\* Pushing a message keeps its author, and everybody it notifies, led.
LEMMA LedPush ==
  ASSUME TypeInv, Fresh, LedInv, NEW m \in checking, PushMessage(m)
  PROVE  LedInv'
  <1> DEFINE d == room[m.author]
  <1>1. m \in Message /\ m.author \in Students /\ d \in Chats /\ d # NoChat
    BY NoChatAssumption DEF TypeInv, TypeOK, RoomReady, Message
  <1>2. messages' = [messages EXCEPT ![d] = @ \cup {m}]
        /\ UNCHANGED <<screen, room, touched>> /\ checking' = checking \ {m}
    BY DEF PushMessage
  <1>3. \A c \in Chats : messages'[c] = IF c = d THEN messages[c] \cup {m} ELSE messages[c]
    BY <1>2 DEF TypeInv, TypeOK
  <1>4. ASSUME NEW s, NEW c \in Chats
        PROVE  Mail(s, c) \subseteq Mail(s, c)' /\ (Led(s, c) => Led(s, c)')
    BY <1>3 DEF Mail, Led
  <1>5. \A s \in Students : room'[s] # NoChat => room'[s] \in touched'[s] /\ Led(s, room[s])'
    BY <1>2, <1>4 DEF LedInv, TypeInv, TypeOK
  <1>6. ASSUME NEW s \in Students, NEW c \in notified'[s]
        PROVE  Mail(s, c)' # {}
    <2>1. c \in notified[s] \/ (c = d /\ s \in m.userList)
      BY <1>1 DEF PushMessage, IncrementUnread
    <2>2. CASE c \in notified[s]
      <3>1. c \in Chats /\ Mail(s, c) # {}
        BY <2>2 DEF TypeInv, TypeOK, LedInv
      <3> QED BY <1>4, <3>1
    <2>3. CASE c = d /\ s \in m.userList
      <3>1. m \in Mail(s, c)'
        BY <1>1, <1>3, <2>3 DEF Mail
      <3> QED BY <3>1
    <2> QED BY <2>1, <2>2, <2>3
  <1>7. ASSUME NEW c \in Chats, NEW n \in messages'[c]
        PROVE  /\ {c, n.typedIn} \subseteq touched'[n.author]
               /\ n.author \in Involved[c] \/ \E o \in Mail(n.author, c)' : o # n
    <2>1. CASE n \in messages[c]
      <3>1. /\ {c, n.typedIn} \subseteq touched[n.author]
            /\ n.author \in Involved[c] \/ \E o \in Mail(n.author, c) : o # n
        BY <2>1 DEF LedInv, AuthorsWereLed
      <3> QED BY <1>2, <1>4, <3>1
    <2>2. CASE n = m /\ c = d
      <3>1. {c, n.typedIn} \subseteq touched[n.author] /\ Led(n.author, c)
        BY <1>1, <2>2 DEF LedInv
      <3>2. \A o \in Mail(n.author, c) : o # n
        BY <1>1, <2>2 DEF Mail, Fresh
      <3>3. Mail(n.author, c) \subseteq Mail(n.author, c)'
        BY <1>4
      <3> QED BY <1>2, <3>1, <3>2, <3>3 DEF Led
    <2> QED BY <1>3, <2>1, <2>2
  <1>8. AuthorsWereLed'
    BY <1>7 DEF AuthorsWereLed
  <1>9. /\ \A s \in Students : screen'[s] # NoChat => screen'[s] \in touched'[s]
        /\ \A n \in checking' : n.typedIn \in touched'[n.author]
    BY <1>2 DEF LedInv
  <1> QED BY <1>5, <1>6, <1>8, <1>9 DEF LedInv

\* Only those who were led to a chat come to have it as their room.
LEMMA LedInvCorrect == Spec => []LedInv
  <1>1. Init => LedInv
    BY DEF Init, LedInv, AuthorsWereLed
  <1>2. TypeInv /\ Fresh /\ LedInv /\ [Next]_vars => LedInv'
    <2> SUFFICES ASSUME TypeInv, Fresh, LedInv, [Next]_vars
                 PROVE  LedInv'
      OBVIOUS
    <2>1. ASSUME NEW s \in Students, NEW c \in Chats, OpenChat(s, c) \/ OpenNotification(s, c)
          PROVE  LedInv'
      <3>1. Led(s, c)
        BY <2>1 DEF OpenChat, OpenNotification, Led, LedInv
      <3>2. /\ UNCHANGED <<checking, messages, notified>>
            /\ screen' = [screen EXCEPT ![s] = c] /\ room' = [room EXCEPT ![s] = c]
            /\ touched' = [touched EXCEPT ![s] = @ \cup {c}]
        BY <2>1 DEF OpenChat, OpenNotification, Mount, Reset
      <3>3. \A u \in Students : touched[u] \subseteq touched'[u]
        BY <3>2 DEF TypeInv, TypeOK
      <3>4. AuthorsWereLed' /\ \A u, e : Mail(u, e)' = Mail(u, e) /\ Led(u, e)' = Led(u, e)
        BY <3>2, <3>3, LedKept
      <3>5. \A u \in Students : /\ room'[u] # NoChat => room'[u] \in touched'[u] /\ Led(u, room'[u])
                                /\ screen'[u] # NoChat => screen'[u] \in touched'[u]
        BY <3>1, <3>2 DEF LedInv, TypeInv, TypeOK
      <3>6. \A m \in checking' : m.typedIn \in touched'[m.author]
        BY <3>2, <3>3 DEF LedInv, TypeInv, TypeOK, Message
      <3>7. \A u \in Students : room'[u] # NoChat => room'[u] \in touched'[u] /\ Led(u, room[u])'
        BY <3>2, <3>5 DEF Led, Mail
      <3> QED BY <3>2, <3>4, <3>5, <3>6, <3>7 DEF LedInv
    <2>2. ASSUME NEW s \in Students, CloseChat(s) \/ \E c \in Chats : LeaveActivity(s, c)
          PROVE  LedInv'
      <3>1. /\ UNCHANGED <<room, checking, messages, notified>>
            /\ \A u \in Students : touched[u] \subseteq touched'[u]
        BY <2>2 DEF CloseChat, LeaveActivity, Reset, clientVars, TypeInv, TypeOK
      <3>2. screen' = screen \/ screen' = [screen EXCEPT ![s] = NoChat]
        BY <2>2 DEF CloseChat, LeaveActivity, clientVars
      <3>3. AuthorsWereLed' /\ \A u, e : Mail(u, e)' = Mail(u, e) /\ Led(u, e)' = Led(u, e)
        BY <3>1, LedKept
      <3>4. \A u \in Students : room'[u] # NoChat => room'[u] \in touched'[u] /\ Led(u, room[u])'
        BY <3>1 DEF Led, Mail, LedInv
      <3>5. \A u \in Students : screen'[u] # NoChat => screen'[u] \in touched'[u]
        BY <3>1, <3>2 DEF LedInv, TypeInv, TypeOK
      <3>6. \A m \in checking' : m.typedIn \in touched'[m.author]
        BY <3>1 DEF LedInv, TypeInv, TypeOK, Message
      <3> QED BY <3>1, <3>3, <3>4, <3>5, <3>6 DEF LedInv
    <2>3. ASSUME UNCHANGED <<screen, room, messages, notified, touched>>,
                 \A m \in checking' : m.typedIn \in touched[m.author]
          PROVE  LedInv'
      BY <2>3 DEF LedInv, Led, Mail, AuthorsWereLed
    <2>4. ASSUME NEW s \in Students, TypeMessage(s)
          PROVE  LedInv'
      BY <2>3, <2>4 DEF TypeMessage, LedInv
    <2>5. ASSUME NEW s \in Students, NEW c \in Chats, ResetWrite(s, c)
          PROVE  LedInv'
      BY <2>3, <2>5 DEF ResetWrite, clientVars, LedInv
    <2>6. ASSUME NEW m \in checking, DropMessage(m)
          PROVE  LedInv'
      BY <2>3, <2>6 DEF DropMessage, LedInv
    <2>7. ASSUME NEW m \in checking, PushMessage(m)
          PROVE  LedInv'
      BY <2>7, LedPush
    <2>8. ASSUME NEW t \in calls, ReadCount(t) \/ WriteCount(t) \/ CallCutShort(t)
          PROVE  LedInv'
      BY <2>3, <2>8 DEF ReadCount, WriteCount, CallCutShort, clientVars, LedInv
    <2>9. CASE UNCHANGED vars
      BY <2>3, <2>9 DEF vars, clientVars, LedInv
    <2>10. CASE AppNext
      <3> HIDE DEF LedInv
      <3> QED BY <2>1, <2>2, <2>4, <2>5, <2>6, <2>7, <2>10 DEF AppNext
    <2> QED BY <2>8, <2>9, <2>10 DEF Next
  <1>3. CountInv => Fresh
    BY DEF CountInv
  <1> QED BY <1>1, <1>2, <1>3, TypeInvCorrect, CountInvCorrect, PTL DEF Spec

\* For any number of students, chats and messages: whoever writes in a chat has
\* opened it, and is involved in it or was led there by an earlier message.
THEOREM AuthorsWereLedCorrect == Spec => []AuthorsWereLed
  BY LedInvCorrect, PTL DEF LedInv

-----------------------------------------------------------------------------
(* What is announced.                                                      *)

\* Mail of who never reset the count is counted, or a call for it is still to write.
Announces(s, c) ==
    faults = 0 /\ c \notin touched[s] /\ Mail(s, c) # {} => CallsFor(s, c) # {} \/ unread[s][c] > 0

AnnouncedInv ==
    \A s \in Students, c \in Chats : (c \in resets[s] => c \in touched[s]) /\ Announces(s, c)

\* Resets spoil nothing that the invariant speaks of.
LEMMA AnnouncedKept ==
  ASSUME AnnouncedInv, UNCHANGED <<messages, calls, unread, faults>>,
         \A s \in Students, c \in Chats : /\ c \in touched[s] => c \in touched'[s]
                                          /\ c \in resets'[s] => c \in resets[s] \cup touched'[s]
  PROVE  AnnouncedInv'
  BY DEF AnnouncedInv, Announces, Mail, CallsFor

LEMMA AnnouncedReset ==
  ASSUME TypeInv, AnnouncedInv, UNCHANGED <<messages, calls, unread, faults>>,
         NEW s \in Students, NEW c, Reset(s, c)
  PROVE  AnnouncedInv'
  BY AnnouncedKept DEF Reset, TypeInv, TypeOK

\* A message that reaches a room brings a call for everybody it is for.
LEMMA AnnouncedPush ==
  ASSUME TypeInv, AnnouncedInv, NEW m \in checking, PushMessage(m)
  PROVE  AnnouncedInv'
  <1> DEFINE here == room[m.author]
             new(u) == [msg |-> m, user |-> u, chat |-> here, pc |-> "read", value |-> 0]
  <1>1. UNCHANGED <<resets, unread, touched, faults>> /\ here \in Chats
    BY DEF PushMessage, TypeInv, RoomReady, TypeOK, Message
  <1>2. calls' = calls \cup {new(u) : u \in m.userList}
    BY DEF PushMessage, IncrementUnread
  <1>3. \A c \in Chats : messages'[c] = IF c = here THEN messages[c] \cup {m} ELSE messages[c]
    BY DEF PushMessage, TypeInv, TypeOK
  <1>4. ASSUME NEW s \in Students, NEW c \in Chats PROVE Announces(s, c)'
    <2>1. CASE c = here /\ s \in m.userList
      <3>1. new(s) \in CallsFor(s, c)'
        BY <1>2, <2>1 DEF CallsFor
      <3> QED BY <3>1 DEF Announces
    <2>2. CASE c # here \/ s \notin m.userList
      <3>1. Mail(s, c)' = Mail(s, c)
        BY <1>3, <2>2 DEF Mail
      <3>2. CallsFor(s, c) \subseteq CallsFor(s, c)'
        BY <1>2 DEF CallsFor
      <3>3. Announces(s, c)
        BY DEF AnnouncedInv
      <3> QED BY <1>1, <3>1, <3>2, <3>3 DEF Announces
    <2> QED BY <2>1, <2>2
  <1> QED BY <1>1, <1>4 DEF AnnouncedInv

\* A call that ends leaves a count above 0.
LEMMA AnnouncedCall ==
  ASSUME TypeInv, AnnouncedInv, NEW t \in calls, ReadCount(t) \/ WriteCount(t) \/ CallCutShort(t)
  PROVE  AnnouncedInv'
  <1>1. UNCHANGED <<messages, resets, touched>>
    BY DEF ReadCount, WriteCount, CallCutShort
  <1>2. faults \in Nat /\ t \in Call /\ unread \in [Students -> [Chats -> Nat]]
    BY DEF TypeInv, TypeOK
  <1>3. ASSUME NEW s \in Students, NEW c \in Chats PROVE Announces(s, c)'
    <2>1. Announces(s, c) /\ Mail(s, c)' = Mail(s, c)
      BY <1>1 DEF AnnouncedInv, Mail
    <2>2. CASE CallCutShort(t)
      BY <1>2, <2>2 DEF CallCutShort, Announces
    <2>3. CASE t.user # s \/ t.chat # c
      <3>1. CallsFor(s, c) \subseteq CallsFor(s, c)'
        BY <2>3 DEF ReadCount, WriteCount, CallCutShort, CallsFor
      <3>2. (unread[s][c])' = unread[s][c] /\ (faults' = 0 => faults = 0)
        BY <1>2, <2>3 DEF ReadCount, WriteCount, CallCutShort
      <3> QED BY <1>1, <2>1, <3>1, <3>2 DEF Announces
    <2>4. CASE ReadCount(t) /\ t.user = s /\ t.chat = c
      <3>1. [t EXCEPT !.pc = "write", !.value = unread[t.user][t.chat]] \in CallsFor(s, c)'
        BY <1>2, <2>4 DEF ReadCount, CallsFor, Call
      <3> QED BY <3>1 DEF Announces
    <2>5. CASE WriteCount(t) /\ t.user = s /\ t.chat = c
      <3>1. (unread[s][c])' = t.value + 1 /\ t.value \in Nat
        BY <1>2, <2>5 DEF WriteCount, Call
      <3> QED BY <3>1 DEF Announces
    <2> QED BY <2>2, <2>3, <2>4, <2>5
  <1> QED BY <1>1, <1>3 DEF AnnouncedInv

\* No step loses all the calls for a count that is never reset.
LEMMA AnnouncedInvCorrect == Spec => []AnnouncedInv
  <1>1. Init => AnnouncedInv
    BY DEF Init, AnnouncedInv, Announces, Mail
  <1>2. TypeInv /\ AnnouncedInv /\ [Next]_vars => AnnouncedInv'
    <2> SUFFICES ASSUME TypeInv, AnnouncedInv, [Next]_vars PROVE AnnouncedInv'
      OBVIOUS
    <2>1. ASSUME NEW s \in Students, NEW c \in Chats,
                 OpenChat(s, c) \/ OpenNotification(s, c) \/ LeaveActivity(s, c)
          PROVE  AnnouncedInv'
      BY <2>1, AnnouncedReset DEF OpenChat, OpenNotification, LeaveActivity, Mount
    <2>2. ASSUME NEW s \in Students, CloseChat(s) PROVE AnnouncedInv'
      BY <2>2, AnnouncedReset DEF CloseChat
    <2>3. ASSUME NEW s \in Students, NEW c \in Chats, ResetWrite(s, c) PROVE AnnouncedInv'
      <3>1. c \in touched[s] /\ UNCHANGED <<messages, calls, touched, faults>>
        BY <2>3 DEF ResetWrite, AnnouncedInv
      <3>2. \A u \in Students, e \in Chats : /\ e \in resets'[u] => e \in resets[u]
                                             /\ u # s \/ e # c => unread'[u][e] = unread[u][e]
        BY <2>3 DEF ResetWrite, TypeInv, TypeOK
      <3> QED BY <3>1, <3>2 DEF AnnouncedInv, Announces, Mail, CallsFor
    <2>4. ASSUME UNCHANGED <<messages, calls, resets, unread, touched, faults>> PROVE AnnouncedInv'
      BY <2>4, AnnouncedKept
    <2>5. ASSUME NEW s \in Students, TypeMessage(s) PROVE AnnouncedInv'
      BY <2>4, <2>5 DEF TypeMessage
    <2>6. ASSUME NEW m \in checking, DropMessage(m) PROVE AnnouncedInv'
      BY <2>4, <2>6 DEF DropMessage
    <2>7. CASE UNCHANGED vars
      BY <2>4, <2>7 DEF vars
    <2>8. CASE AppNext
      BY <2>1, <2>2, <2>3, <2>5, <2>6, <2>8, AnnouncedPush DEF AppNext
    <2> QED BY <2>7, <2>8, AnnouncedCall DEF Next
  <1> QED BY <1>1, <1>2, TypeInvCorrect, PTL DEF Spec

\* Who never opened or left a chat sees that there is something new in it: of the
\* calls of incrementUnread that race each other, one at least is not lost.
THEOREM AnnouncedUnlessResetCorrect == Spec => []AnnouncedUnlessReset
  <1>1. AnnouncedInv => AnnouncedUnlessReset
    BY DEF AnnouncedInv, Announces, AnnouncedUnlessReset
  <1> QED BY <1>1, AnnouncedInvCorrect, PTL

-----------------------------------------------------------------------------
(* Increments are lost to one another, and to nothing else: without        *)
(* faults, and if the calls for a count do not overlap, it is exact.       *)

\* The calls for one count do not overlap.
OneAtATime == \A t, u \in calls : t.user = u.user /\ t.chat = u.chat => t = u

\* A count that was never reset, with the call on its way, is the number of messages.
ExactUnlessTouched ==
    \A s \in Students, c \in Chats :
        faults = 0 /\ c \notin touched[s]
        => unread[s][c] + Cardinality(CallsFor(s, c)) = Cardinality(Mail(s, c))

\* A call for a count has still to count one message, and has read the count as it is.
Exact(s, c) ==
    /\ CallsFor(s, c) = {} => unread[s][c] = Cardinality(Mail(s, c))
    /\ \A t \in CallsFor(s, c) : /\ unread[s][c] + 1 = Cardinality(Mail(s, c))
                                 /\ t.pc = "write" => t.value = unread[s][c]

ExactInv ==
    /\ \A t \in calls : t.msg \in messages[t.chat]
    /\ \A s \in Students, c \in Chats : faults = 0 /\ c \notin touched[s] => Exact(s, c)

\* A call that does not overlap with others is the only one for its count.
LEMMA AloneForCount ==
  ASSUME OneAtATime, NEW s \in Students, NEW c \in Chats, NEW t \in CallsFor(s, c)
  PROVE  CallsFor(s, c) = {t}
  <1>1. \A u \in CallsFor(s, c) : u = t
    BY DEF OneAtATime, CallsFor
  <1> HIDE DEF CallsFor
  <1> QED BY <1>1

\* A message that is pushed finds no call on its way for the counts it calls on.
LEMMA ExactPush ==
  ASSUME TypeInv, CountInv, ExactInv, OneAtATime', NEW m \in checking, PushMessage(m)
  PROVE  ExactInv'
  <1> DEFINE here == room[m.author]
             new(u) == [msg |-> m, user |-> u, chat |-> here, pc |-> "read", value |-> 0]
  <1>1. UNCHANGED <<unread, touched, faults>> /\ here \in Chats
    BY DEF PushMessage, TypeInv, RoomReady, TypeOK, Message
  <1>2. calls' = calls \cup {new(u) : u \in m.userList}
    BY DEF PushMessage, IncrementUnread
  <1>3. \A c \in Chats : messages'[c] = IF c = here THEN messages[c] \cup {m} ELSE messages[c]
    BY DEF PushMessage, TypeInv, TypeOK
  <1>4. \A t \in calls : t.chat \in Chats
    BY DEF TypeInv, TypeOK, Call
  <1>5. m \notin messages[here]
    BY <1>1 DEF CountInv, Fresh
  <1>6. ASSUME NEW s \in Students, NEW c \in Chats, Exact(s, c) PROVE Exact(s, c)'
    <2>1. CASE c = here /\ s \in m.userList
      <3>1. CallsFor(s, c)' = CallsFor(s, c) \cup {new(s)}
        BY <1>2, <2>1 DEF CallsFor
      <3>2. new(s).msg = m /\ new(s).pc = "read"
        OBVIOUS
      <3> HIDE DEF new
      <3>3. \A t \in CallsFor(s, c)' : t = new(s)
        BY <3>1 DEF OneAtATime, CallsFor
      <3>4. CallsFor(s, c) = {}
        BY <1>5, <2>1, <3>1, <3>2, <3>3 DEF ExactInv, CallsFor
      <3>5. Mail(s, c)' = Mail(s, c) \cup {m} /\ m \notin Mail(s, c)
        BY <1>3, <1>5, <2>1 DEF Mail
      <3>6. Cardinality(Mail(s, c)') = Cardinality(Mail(s, c)) + 1
        BY <3>5, FiniteParts, FS_AddElement DEF CountInv
      <3> QED BY <1>1, <1>6, <3>1, <3>2, <3>3, <3>4, <3>6 DEF Exact
    <2>2. CASE c # here \/ s \notin m.userList
      <3>1. Mail(s, c)' = Mail(s, c)
        BY <1>3, <2>2 DEF Mail
      <3>2. CallsFor(s, c)' = CallsFor(s, c)
        BY <1>2, <2>2 DEF CallsFor
      <3> QED BY <1>1, <1>6, <3>1, <3>2 DEF Exact
    <2> QED BY <2>1, <2>2
  <1>7. \A t \in calls' : t.msg \in messages'[t.chat]
    <2>1. \A t \in {new(u) : u \in m.userList} : t.msg = m /\ t.chat = here
      OBVIOUS
    <2>2. \A t \in calls : t.msg \in messages'[t.chat]
      BY <1>3, <1>4 DEF ExactInv
    <2>3. m \in messages'[here]
      BY <1>1, <1>3
    <2> HIDE DEF new, here
    <2> QED BY <1>2, <2>1, <2>2, <2>3
  <1> QED BY <1>1, <1>6, <1>7 DEF ExactInv

\* A call that runs alone writes one more than there was.
LEMMA ExactCall ==
  ASSUME TypeInv, ExactInv, OneAtATime,
         NEW t \in calls, ReadCount(t) \/ WriteCount(t) \/ CallCutShort(t)
  PROVE  ExactInv'
  <1> DEFINE r == [t EXCEPT !.pc = "write", !.value = unread[t.user][t.chat]]
  <1>1. UNCHANGED <<messages, touched>>
    BY DEF ReadCount, WriteCount, CallCutShort
  <1>2. /\ faults \in Nat /\ t \in Call /\ t.user \in Students /\ t.chat \in Chats
        /\ unread \in [Students -> [Chats -> Nat]]
    BY DEF TypeInv, TypeOK, Call
  <1>3. /\ r.msg = t.msg /\ r.user = t.user /\ r.chat = t.chat
        /\ r.pc = "write" /\ r.value = unread[t.user][t.chat]
    BY <1>2 DEF Call
  <1>4. ReadCount(t) => calls' = (calls \ {t}) \cup {r} /\ UNCHANGED <<unread, faults>>
    BY DEF ReadCount
  <1> HIDE DEF r
  <1>5. \A u \in calls' : u.msg \in messages'[u.chat]
    BY <1>1, <1>3, <1>4 DEF ExactInv, WriteCount, CallCutShort
  <1>6. faults' = 0 => faults = 0 /\ ~CallCutShort(t)
    BY <1>2 DEF ReadCount, WriteCount, CallCutShort
  <1>7. ASSUME NEW s \in Students, NEW c \in Chats, Exact(s, c), ReadCount(t) \/ WriteCount(t)
        PROVE  Exact(s, c)'
    <2>1. Mail(s, c)' = Mail(s, c)
      BY <1>1 DEF Mail
    <2>2. CASE t.user # s \/ t.chat # c
      <3>1. CallsFor(s, c)' = CallsFor(s, c) /\ unread'[s][c] = unread[s][c]
        BY <1>2, <1>3, <1>4, <1>7, <2>2 DEF CallsFor, WriteCount
      <3> QED BY <1>7, <2>1, <3>1 DEF Exact
    <2>3. CASE t.user = s /\ t.chat = c
      <3>0. t \in CallsFor(s, c)
        BY <2>3 DEF CallsFor
      <3>1. CallsFor(s, c) = {t} /\ unread[s][c] + 1 = Cardinality(Mail(s, c))
        BY <1>7, <3>0, AloneForCount DEF Exact
      <3>2. CASE ReadCount(t)
        <4>1. CallsFor(s, c)' = {r}
          BY <1>3, <1>4, <2>3, <3>1, <3>2 DEF CallsFor
        <4> QED BY <1>3, <1>4, <2>1, <2>3, <3>1, <3>2, <4>1 DEF Exact
      <3>3. CASE WriteCount(t)
        <4>1. CallsFor(s, c)' = {}
          BY <3>1, <3>3 DEF CallsFor, WriteCount
        <4>2. unread'[s][c] = unread[s][c] + 1
          BY <1>2, <1>7, <2>3, <3>1, <3>3 DEF WriteCount, Exact
        <4> QED BY <2>1, <3>1, <4>1, <4>2 DEF Exact
      <3> QED BY <1>7, <3>2, <3>3
    <2> QED BY <2>2, <2>3
  <1> QED BY <1>1, <1>5, <1>6, <1>7 DEF ExactInv

\* As long as the calls for each count take turns every count stays exact.
LEMMA ExactStep ==
  ASSUME TypeInv, CountInv, AnnouncedInv, ExactInv, OneAtATime, OneAtATime', [Next]_vars
  PROVE  ExactInv'
  <1>1. ASSUME UNCHANGED <<messages, calls, unread, faults>>,
               \A s \in Students, c \in Chats : c \in touched[s] => c \in touched'[s]
        PROVE  ExactInv'
    BY <1>1 DEF ExactInv, Exact, Mail, CallsFor
  <1>2. ASSUME NEW s \in Students, NEW c \in Chats,
               OpenChat(s, c) \/ OpenNotification(s, c) \/ LeaveActivity(s, c)
        PROVE  ExactInv'
    BY <1>1, <1>2 DEF OpenChat, OpenNotification, LeaveActivity, Mount, Reset, TypeInv, TypeOK
  <1>3. ASSUME NEW s \in Students, CloseChat(s) PROVE ExactInv'
    BY <1>1, <1>3 DEF CloseChat, Reset, TypeInv, TypeOK
  <1>4. ASSUME NEW s \in Students, NEW c \in Chats, ResetWrite(s, c) PROVE ExactInv'
    <2>1. c \in touched[s] /\ UNCHANGED <<messages, calls, touched, faults>>
      BY <1>4 DEF ResetWrite, AnnouncedInv
    <2>2. \A u \in Students, e \in Chats : u # s \/ e # c => unread'[u][e] = unread[u][e]
      BY <1>4 DEF ResetWrite, TypeInv, TypeOK
    <2>3. \A u \in Students, e \in Chats :
              CallsFor(u, e)' = CallsFor(u, e) /\ Mail(u, e)' = Mail(u, e)
      BY <2>1 DEF CallsFor, Mail
    <2>4. ASSUME NEW u \in Students, NEW e \in Chats, faults = 0, e \notin touched[u]
          PROVE  Exact(u, e)'
      BY <2>1, <2>2, <2>3, <2>4 DEF ExactInv, Exact
    <2> QED BY <2>1, <2>4 DEF ExactInv
  <1>5. ASSUME NEW s \in Students, TypeMessage(s) PROVE ExactInv'
    BY <1>1, <1>5 DEF TypeMessage
  <1>6. ASSUME NEW m \in checking, DropMessage(m) PROVE ExactInv'
    BY <1>1, <1>6 DEF DropMessage
  <1>7. CASE UNCHANGED vars
    BY <1>1, <1>7 DEF vars
  <1>8. CASE AppNext
    BY <1>2, <1>3, <1>4, <1>5, <1>6, <1>8, ExactPush DEF AppNext
  <1> QED BY <1>7, <1>8, ExactCall DEF Next

\* If the calls of incrementUnread for one count never overlap, and none is cut
\* short, every message of a chat that was never opened or left is counted, once:
\* all that the read and the write apart from each other lose, they lose to overlap.
THEOREM ExactOneAtATime == Spec /\ []OneAtATime => []ExactUnlessTouched
  <1>1. Init => ExactInv
    <2> SUFFICES ASSUME Init PROVE ExactInv
      OBVIOUS
    <2>1. \A s \in Students, c \in Chats : CallsFor(s, c) = {} /\ Mail(s, c) = {}
      BY DEF Init, CallsFor, Mail
    <2> QED BY <2>1, FS_EmptySet DEF Init, ExactInv, Exact
  <1>2. /\ TypeInv /\ CountInv /\ AnnouncedInv /\ ExactInv /\ OneAtATime /\ OneAtATime'
        /\ [Next]_vars
        => ExactInv'
    BY ExactStep
  <1>3. TypeInv /\ ExactInv /\ OneAtATime => ExactUnlessTouched
    <2> SUFFICES ASSUME TypeInv, OneAtATime, NEW s \in Students, NEW c \in Chats, Exact(s, c)
                 PROVE  unread[s][c] + Cardinality(CallsFor(s, c)) = Cardinality(Mail(s, c))
      BY DEF ExactInv, ExactUnlessTouched
    <2>1. CASE CallsFor(s, c) = {}
      BY <2>1, FS_EmptySet DEF Exact, TypeInv, TypeOK
    <2>2. CASE CallsFor(s, c) # {}
      <3> PICK t \in CallsFor(s, c) : TRUE
        BY <2>2
      <3>1. CallsFor(s, c) = {t}
        BY AloneForCount
      <3> QED BY <3>1, FS_Singleton DEF Exact
    <2> QED BY <2>1, <2>2
  <1> QED
    BY <1>1, <1>2, <1>3, TypeInvCorrect, CountInvCorrect, AnnouncedInvCorrect, PTL DEF Spec
=============================================================================
