----------------------- MODULE ConversationListProofs -----------------------
(* Proofs about the list of conversations, for any number of students.     *)
EXTENDS ConversationList, DirectMessagesProofs

\* The list only watches the conversations: what it leads to is one of their steps,
\* and all that is proved about them holds with the list as well.
THEOREM ListKeepsConversations == ListSpec => Spec
  <1>1. ListInit => Init
    BY DEF ListInit
  <1>2. [ListNext]_allVars => [Next]_vars
    <2> SUFFICES ASSUME [ListNext]_allVars
                 PROVE  [Next]_vars
      OBVIOUS
    <2>1. CASE ScreenNext /\ UNCHANGED vars
      BY <2>1
    <2>2. CASE Elsewhere
      BY <2>2 DEF Next
    <2>3. ASSUME NEW s \in Students, NEW t \in Students, HideRow(s, t) \/ Navigate(s, t)
          PROVE  Next
      <3>1. FromList(s, t)
        BY <2>3 DEF HideRow, Navigate, FromList
      <3> QED BY <3>1 DEF Next
    <2>4. CASE UNCHANGED allVars
      BY <2>4 DEF allVars
    <2> QED BY <2>1, <2>2, <2>3, <2>4 DEF ListNext
  <1> QED BY <1>1, <1>2, PTL DEF ListSpec, Spec

-----------------------------------------------------------------------------
(* What an app sees.                                                       *)

\* What an app issues, it sees at once; it sees its other entries as before.
LEMMA SeenIssue ==
  ASSUME TypeOK, NEW s \in Students, NEW op \in {"push", "reset", "hide"}, NEW t, NEW msgs,
         Issue(s, op, t, msgs), UNCHANGED entry, NEW u \in Students, NEW v \in Students
  PROVE  Seen(u, v)' <=> IF u = s /\ v = t /\ op # "push" THEN op = "reset" ELSE Seen(u, v)
  <1> DEFINE x == [op |-> op, of |-> t, msgs |-> msgs]
             q == pending[s]
  <1>1. pending \in [Students -> Seq(Write)] /\ pending' = [pending EXCEPT ![s] = Append(@, x)]
    BY DEF Issue, TypeOK
  <1>2. CASE u # s
    <2>1. pending'[u] = pending[u]
      BY <1>1, <1>2
    <2> QED BY <1>2, <2>1 DEF Seen, Touches
  <1>3. CASE u = s
    <2>1. pending'[u] = Append(q, x) /\ q \in Seq(Write) /\ Len(q) \in Nat
      BY <1>1, <1>3
    <2>2. /\ Len(pending'[u]) = Len(q) + 1 /\ pending'[u][Len(q) + 1] = x
          /\ \A i \in 1 .. Len(q) : pending'[u][i] = pending[u][i]
      <3> HIDE DEF x
      <3> QED BY <1>3, <2>1
    <2>3. x.op = op /\ x.of = t
      OBVIOUS
    <2> HIDE DEF x, q
    <2>4. CASE v = t /\ op # "push"
      <3>1. Len(q) + 1 \in Touches(u, v)'
        BY <2>1, <2>2, <2>3, <2>4 DEF Touches
      <3>2. \A i \in Touches(u, v)' : i \in 1 .. Len(q) + 1
        BY <2>2 DEF Touches
      <3>3. \A i \in Touches(u, v)' : (\A j \in Touches(u, v)' : j <= i) <=> i = Len(q) + 1
        BY <2>1, <3>1, <3>2
      <3> QED BY <1>3, <2>2, <2>3, <2>4, <3>1, <3>3 DEF Seen
    <2>5. CASE ~ (v = t /\ op # "push")
      <3>1. Touches(u, v)' = Touches(u, v)
        BY <1>3, <2>1, <2>2, <2>3, <2>5 DEF Touches, q
      <3>2. \A i \in Touches(u, v) : pending'[u][i] = pending[u][i]
        BY <1>3, <2>2 DEF Touches, q
      <3> QED BY <2>5, <3>1, <3>2 DEF Seen
    <2> QED BY <2>4, <2>5
  <1> QED BY <1>2, <1>3

\* A write that arrives changes nothing in what its app sees.
LEMMA SeenArrive ==
  ASSUME TypeOK, NEW s \in Students, Arrive(s), NEW u \in Students, NEW v \in Students
  PROVE  Seen(u, v)' <=> Seen(u, v)
  <1> DEFINE q == pending[s]
             w == Head(q)
  <1>1. /\ pending \in [Students -> Seq(Write)] /\ q # <<>>
        /\ pending' = [pending EXCEPT ![s] = Tail(@)]
    BY DEF Arrive, TypeOK
  <1>2. w \in Write /\ w.of \in Students
    BY PendingArrive DEF Write
  <1>3. /\ w.op = "push" => entry' = entry
        /\ w.op = "reset" => SetEntry(s, w.of, 0)
        /\ w.op = "hide" => SetEntry(s, w.of, NoEntry)
    BY DEF Arrive
  <1> HIDE DEF w
  <1>4. \A x \in Students :
          entry'[s][x] = IF w.op = "push" \/ x # w.of THEN entry[s][x]
                         ELSE IF w.op = "reset" THEN 0 ELSE NoEntry
    <2>1. w.op \in {"push", "reset", "hide"}
      BY <1>2 DEF Write
    <2>2. CASE w.op = "push"
      BY <1>3, <2>2
    <2>3. CASE w.op = "reset"
      BY <1>2, <1>3, <2>3 DEF SetEntry, TypeOK
    <2>4. CASE w.op = "hide"
      BY <1>2, <1>3, <2>4 DEF SetEntry, TypeOK
    <2> QED BY <2>1, <2>2, <2>3, <2>4
  <1>5. CASE u # s
    <2> HIDE DEF q
    <2>1. pending'[u] = pending[u]
      BY <1>1, <1>5
    <2>2. entry'[u] = entry[u]
      BY <1>2, <1>3, <1>5 DEF SetEntry, TypeOK, Write
    <2> QED BY <2>1, <2>2 DEF Seen, Touches
  <1>6. CASE u = s
    <2>1. q \in Seq(Write) /\ Len(q) \in Nat /\ Len(q) >= 1 /\ w = q[1]
      BY <1>1 DEF w
    <2>2. /\ Len(pending'[u]) = Len(q) - 1
          /\ \A i \in 1 .. Len(q) - 1 : pending'[u][i] = q[i + 1]
      BY <1>1, <1>6
    <2>3. \A i \in Nat \ {0} : i \in Touches(u, v)' <=> i + 1 \in Touches(u, v)
      BY <1>6, <2>1, <2>2 DEF Touches
    <2>4. /\ Touches(u, v) \subseteq 1 .. Len(q) /\ Touches(u, v)' \subseteq 1 .. Len(q) - 1
          /\ 1 \in Touches(u, v) <=> w.op # "push" /\ w.of = v
      BY <1>6, <2>1, <2>2 DEF Touches
    <2>5. \A i \in Touches(u, v)' : pending'[u][i].op = pending[u][i + 1].op
      BY <1>6, <2>2, <2>4
    <2> HIDE DEF q
    <2>6. CASE Touches(u, v)' # {}
      <3>1. Touches(u, v) # {}
        BY <2>1, <2>3, <2>4, <2>6
      <3>2. Seen(u, v)' => Seen(u, v)
        <4>1. SUFFICES ASSUME Seen(u, v)'
                       PROVE  Seen(u, v)
          OBVIOUS
        <4>2. PICK i \in Touches(u, v)' : /\ pending'[u][i].op = "reset"
                                          /\ \A j \in Touches(u, v)' : j <= i
          BY <2>6, <4>1 DEF Seen
        <4>3. i \in Nat \ {0} /\ i + 1 \in Touches(u, v) /\ pending[u][i + 1].op = "reset"
          <5>1. i \in 1 .. Len(q) - 1
            BY <2>4, <4>2
          <5>2. i \in Nat \ {0}
            BY <2>1, <5>1
          <5>3. i + 1 \in Touches(u, v)
            BY <2>3, <4>2, <5>2
          <5>4. pending[u][i + 1].op = "reset"
            BY <2>5, <4>2
          <5> QED BY <5>2, <5>3, <5>4
        <4>4. ASSUME NEW j \in Touches(u, v)
              PROVE  j <= i + 1
          <5>1. CASE j = 1
            BY <4>3, <5>1
          <5>2. CASE j # 1
            <6>1. j \in Nat /\ j - 1 \in Nat \ {0} /\ (j - 1) + 1 = j
              BY <2>1, <2>4, <5>2
            <6>2. j - 1 \in Touches(u, v)'
              BY <2>3, <6>1
            <6> QED BY <4>2, <4>3, <6>1, <6>2
          <5> QED BY <5>1, <5>2
        <4> QED BY <3>1, <4>3, <4>4 DEF Seen
      <3>3. Seen(u, v) => Seen(u, v)'
        <4>1. SUFFICES ASSUME Seen(u, v)
                       PROVE  Seen(u, v)'
          OBVIOUS
        <4>2. PICK i \in Touches(u, v) : /\ pending[u][i].op = "reset"
                                         /\ \A j \in Touches(u, v) : j <= i
          BY <3>1, <4>1 DEF Seen
        <4>3. PICK k \in Touches(u, v)' : TRUE
          BY <2>6
        <4>4. k \in Nat \ {0} /\ k + 1 \in Touches(u, v) /\ i \in Nat /\ k + 1 <= i
          <5>1. k \in 1 .. Len(q) - 1 /\ i \in 1 .. Len(q)
            BY <2>4, <4>2, <4>3
          <5>2. k \in Nat \ {0} /\ i \in Nat
            BY <2>1, <5>1
          <5>3. k + 1 \in Touches(u, v)
            BY <2>3, <4>3, <5>2
          <5> QED BY <4>2, <5>2, <5>3
        <4>5. i - 1 \in Nat \ {0} /\ (i - 1) + 1 = i
          BY <4>4
        <4>6. i - 1 \in Touches(u, v)' /\ pending'[u][i - 1].op = "reset"
          <5>1. i - 1 \in Touches(u, v)'
            BY <2>3, <4>2, <4>5
          <5> QED BY <2>5, <4>2, <4>5, <5>1
        <4>7. ASSUME NEW j \in Touches(u, v)'
              PROVE  j <= i - 1
          <5>1. j \in Nat \ {0} /\ j + 1 \in Touches(u, v)
            <6>1. j \in 1 .. Len(q) - 1
              BY <2>4
            <6>2. j \in Nat \ {0}
              BY <2>1, <6>1
            <6> QED BY <2>3, <6>2
          <5>2. j + 1 <= i
            BY <4>2, <5>1
          <5> QED BY <4>4, <5>1, <5>2
        <4> QED BY <2>6, <4>6, <4>7 DEF Seen
      <3> QED BY <3>2, <3>3
    <2>7. CASE Touches(u, v)' = {}
      <3>1. \A i \in Touches(u, v) : i = 1
        <4> SUFFICES ASSUME NEW i \in Touches(u, v), i # 1
                     PROVE  FALSE
          OBVIOUS
        <4>1. i \in 1 .. Len(q)
          BY <2>4
        <4>2. i - 1 \in Nat \ {0} /\ (i - 1) + 1 = i
          BY <2>1, <4>1
        <4> QED BY <2>3, <2>7, <4>2
      <3>2. Seen(u, v)' <=> entry'[u][v] # NoEntry
        BY <2>7 DEF Seen
      <3>3. CASE 1 \in Touches(u, v)
        <4>1. Touches(u, v) = {1} /\ w.op # "push" /\ w.of = v
          BY <2>4, <3>1, <3>3
        <4>2. Seen(u, v) <=> w.op = "reset"
          BY <1>6, <2>1, <4>1 DEF Seen, q
        <4>3. CASE w.op = "reset"
          BY <1>6, <1>4, <3>2, <4>1, <4>2, <4>3 DEF NoEntry
        <4>4. CASE w.op = "hide"
          BY <1>6, <1>4, <3>2, <4>1, <4>2, <4>4
        <4> QED BY <1>2, <4>1, <4>3, <4>4 DEF Write
      <3>4. CASE 1 \notin Touches(u, v)
        <4>1. Touches(u, v) = {} /\ (w.op = "push" \/ w.of # v)
          BY <2>4, <3>1, <3>4
        <4>2. entry'[u][v] = entry[u][v]
          BY <1>6, <1>4, <4>1
        <4> QED BY <3>2, <4>1, <4>2 DEF Seen
      <3> QED BY <3>3, <3>4
    <2> QED BY <2>6, <2>7
  <1> QED BY <1>5, <1>6

\* Only hiding an entry makes it disappear for its student.
LEMMA SeenStays ==
  ASSUME TypeInv, NEW u \in Students, NEW v \in Students, Seen(u, v),
         \/ Elsewhere
         \/ \E s, t \in Students : \/ OpenFromList(s, t)
                                   \/ Hide(s, t) /\ ~ (u = s /\ v = t)
  PROVE  Seen(u, v)'
  <1>1. TypeOK
    BY DEF TypeInv
  <1>2. ASSUME NEW s \in Students, NEW t \in Students,
               OpenFromProfile(s, t) \/ OpenFromList(s, t) \/ CloseChat(s)
        PROVE  Seen(u, v)'
    <2>1. UNCHANGED entry /\ \E w : Issue(s, "reset", w, {})
      BY <1>2 DEF OpenFromProfile, OpenFromList, Mount, CloseChat, Touch
    <2> QED BY <1>1, <2>1, SeenIssue
  <1>3. ASSUME NEW s \in Students, NEW t \in Students, Hide(s, t), ~ (u = s /\ v = t)
        PROVE  Seen(u, v)'
    <2>1. UNCHANGED entry /\ Issue(s, "hide", t, {})
      BY <1>3 DEF Hide, Touch
    <2> QED BY <1>1, <1>3, <2>1, SeenIssue
  <1>4. ASSUME NEW m \in checking, PushMessage(m)
        PROVE  Seen(u, v)'
    <2>1. /\ UNCHANGED entry /\ Issue(m.author, "push", target[m.author], {m})
          /\ m.author \in Students
      BY <1>1, <1>4 DEF PushMessage, TypeOK, Message
    <2> QED BY <1>1, <2>1, SeenIssue
  <1>5. ASSUME NEW s \in Students, Arrive(s)
        PROVE  Seen(u, v)'
    BY <1>1, <1>5, SeenArrive
  <1>6. ASSUME UNCHANGED pending, entry[u][v] # NoEntry => entry'[u][v] # NoEntry
        PROVE  Seen(u, v)'
    BY <1>6 DEF Seen, Touches
  <1>7. ASSUME NEW s \in Students, TypeMessage(s)
        PROVE  Seen(u, v)'
    BY <1>6, <1>7 DEF TypeMessage
  <1>8. ASSUME NEW m \in checking, DropMessage(m)
        PROVE  Seen(u, v)'
    BY <1>6, <1>8 DEF DropMessage
  <1>9. ASSUME NEW n \in newRooms, MakeEntry(n) \/ DeliveredAgain(n)
        PROVE  Seen(u, v)'
    <2>1. UNCHANGED pending /\ (entry' = entry \/ SetEntry(n.room[n.next], n.room[3 - n.next], 1))
      BY <1>9 DEF MakeEntry, DeliveredAgain, appVars
    <2>2. entry[u][v] # NoEntry => entry'[u][v] # NoEntry
      <3> DEFINE a == n.room[n.next]
                 b == n.room[3 - n.next]
      <3>1. entry \in [Students -> [Students -> Nat \cup {NoEntry}]]
        BY <1>1 DEF TypeOK
      <3>2. entry' = entry \/ entry' = [entry EXCEPT ![a] = [entry[a] EXCEPT ![b] = 1]]
        BY <2>1 DEF SetEntry
      <3> HIDE DEF a, b
      <3>3. entry'[u][v] = entry[u][v] \/ entry'[u][v] = 1
        BY <3>1, <3>2
      <3> QED BY <3>3 DEF NoEntry
    <2> QED BY <1>6, <2>1, <2>2
  <1>10. ASSUME NEW c \in calls, ReadCount(c) \/ WriteCount(c) \/ CallCutShort(c)
        PROVE  Seen(u, v)'
    <2>1. c.to \in Students /\ c.msg.author \in Students /\ OneMore(c.value) \in Nat
      BY <1>1 DEF TypeOK, Call, Message, OneMore
    <2>2. UNCHANGED pending /\ (entry' = entry \/ SetEntry(c.to, c.msg.author, OneMore(c.value)))
      BY <1>10 DEF ReadCount, WriteCount, CallCutShort, appVars
    <2>3. entry[u][v] # NoEntry => entry'[u][v] # NoEntry
      BY <1>1, <2>1, <2>2, EntryTyped DEF NoEntry
    <2> QED BY <1>6, <2>2, <2>3
  <1>11. CASE AppNext
    BY <1>2, <1>4, <1>7, <1>8, <1>11 DEF AppNext
  <1>12. CASE DatabaseNext
    BY <1>5, <1>9, <1>10, <1>12 DEF DatabaseNext
  <1> QED BY <1>2, <1>3, <1>11, <1>12 DEF Elsewhere

\* An entry that its student sees is there, or was touched by the student; and once
\* it was either it remains so.
LEMMA SeenAllowed ==
  ASSUME TypeOK, CauseInv, NEW s \in Students, NEW t \in Students, Seen(s, t)
  PROVE  entry[s][t] # NoEntry \/ t \in touched[s]
  <1>1. CASE Touches(s, t) = {}
    BY <1>1 DEF Seen
  <1>2. CASE Touches(s, t) # {}
    <2>1. PICK i \in Touches(s, t) : TRUE
      BY <1>2
    <2>2. pending[s][i] \in Pending(s) /\ pending[s][i].op # "push" /\ pending[s][i].of = t
      BY <2>1 DEF Touches, Pending
    <2> QED BY <2>2 DEF CauseInv
  <1> QED BY <1>1, <1>2

LEMMA AllowedStays ==
  ASSUME TypeInv, CauseInv, [Next]_vars, NEW s \in Students, NEW t \in Students,
         entry[s][t] # NoEntry \/ t \in touched[s]
  PROVE  entry'[s][t] # NoEntry \/ t \in touched'[s]
  <1>1. TypeOK /\ Grown
    BY Grows DEF TypeInv
  <1>2. CASE t \in touched[s]
    BY <1>1, <1>2 DEF Grown
  <1>3. CASE entry[s][t] # NoEntry /\ t \notin touched[s]
    <2>1. ASSUME NEW u \in Students, Arrive(u)
          PROVE  entry'[s][t] # NoEntry
      <3> DEFINE w == Head(pending[u])
      <3>1. w \in Pending(u) /\ w \in Write /\ w.of \in Students
        BY <1>1, <2>1, PendingArrive DEF Write
      <3>2. CASE w.op = "push"
        BY <1>3, <2>1, <3>2 DEF Arrive
      <3>3. CASE w.op # "push"
        <4>1. w.of \in touched[u]
          BY <3>1, <3>3 DEF CauseInv
        <4>2. SetEntry(u, w.of, 0) \/ SetEntry(u, w.of, NoEntry)
          BY <2>1, <3>3 DEF Arrive
        <4> HIDE DEF w
        <4>3. u # s \/ w.of # t
          BY <1>3, <4>1
        <4> QED BY <1>1, <1>3, <3>1, <4>2, <4>3 DEF SetEntry, TypeOK
      <3> QED BY <3>2, <3>3
    <2>2. ASSUME NEW n \in newRooms, MakeEntry(n) \/ DeliveredAgain(n)
          PROVE  entry'[s][t] # NoEntry
      <3> DEFINE a == n.room[n.next]
                 b == n.room[3 - n.next]
      <3>1. entry' = entry \/ entry' = [entry EXCEPT ![a] = [entry[a] EXCEPT ![b] = 1]]
        BY <2>2 DEF MakeEntry, DeliveredAgain, SetEntry
      <3> HIDE DEF a, b
      <3>2. entry \in [Students -> [Students -> Nat \cup {NoEntry}]]
        BY <1>1 DEF TypeOK
      <3>3. entry'[s][t] = entry[s][t] \/ entry'[s][t] = 1
        BY <3>1, <3>2
      <3> QED BY <1>3, <3>3 DEF NoEntry
    <2>3. ASSUME NEW c \in calls, ReadCount(c) \/ WriteCount(c) \/ CallCutShort(c)
          PROVE  entry'[s][t] # NoEntry
      <3>1. c.to \in Students /\ c.msg.author \in Students /\ OneMore(c.value) \in Nat
        BY <1>1 DEF TypeOK, Call, Message, OneMore
      <3>2. entry' = entry \/ SetEntry(c.to, c.msg.author, OneMore(c.value))
        BY <2>3 DEF ReadCount, WriteCount, CallCutShort
      <3> QED BY <1>1, <1>3, <3>1, <3>2, EntryTyped DEF NoEntry
    <2>4. CASE UNCHANGED entry
      BY <1>3, <2>4
    <2> QED BY <2>1, <2>2, <2>3, <2>4 DEF Next, Elsewhere, AppNext, DatabaseNext, FromList,
               OpenFromProfile, OpenFromList, Mount, CloseChat, Hide, TypeMessage, PushMessage,
               DropMessage, vars
  <1> QED BY <1>2, <1>3

-----------------------------------------------------------------------------
(* The rows.                                                               *)

\* The list keeps its shape.
THEOREM ListTypeCorrect == ListSpec => []ListTypeOK
  <1>1. ListInit => ListTypeOK
    BY DEF ListInit, ListTypeOK
  <1>2. ListTypeOK /\ [ListNext]_allVars => ListTypeOK'
    <2> SUFFICES ASSUME ListTypeOK, [ListNext]_allVars
                 PROVE  ListTypeOK'
      OBVIOUS
    <2> USE DEF ListTypeOK
    <2>1. ASSUME NEW s \in Students,
                 OpenList(s) \/ ReadBlocked(s) \/ GetConversations(s) \/ CloseList(s)
          PROVE  ListTypeOK'
      BY <2>1 DEF OpenList, ReadBlocked, GetConversations, CloseList
    <2>2. ASSUME NEW s \in Students, NEW t \in Students,
                 \/ NameArrives(s, t) \/ BlockArrives(s, t) \/ Unblocked(s, t)
                 \/ PressRow(s, t) \/ NavigateInVain(s, t)
          PROVE  ListTypeOK'
      BY <2>2 DEF NameArrives, BlockArrives, Unblocked, PressRow, NavigateInVain, screenVars
    <2>3. ASSUME Hear, \/ UNCHANGED asked
                       \/ \E s, t \in Students : HideRow(s, t) \/ Navigate(s, t)
          PROVE  ListTypeOK'
      <3>1. asked' \in [Students -> SUBSET Students]
        BY <2>3 DEF HideRow, Navigate
      <3>2. /\ naming' \in [Students -> SUBSET Students]
            /\ peopleList' \in [Students -> SUBSET Students]
        BY <2>3 DEF Hear
      <3> QED BY <2>3, <3>1, <3>2 DEF Hear
    <2>4. CASE UNCHANGED allVars
      BY <2>4 DEF allVars, listVars, screenVars
    <2> QED BY <2>1, <2>2, <2>3, <2>4 DEF ListNext, ScreenNext
  <1> QED BY <1>1, <1>2, PTL DEF ListSpec

\* Before the list listens to the entries it has no rows.
RowsInv ==
    /\ \A s \in Students : stage[s] # "listening" => naming[s] = {} /\ peopleList[s] = {}
    /\ RowsAreEntries

\* The screen changes while the conversations do not.
LEMMA ScreenKeepsRows ==
  ASSUME TypeOK, CauseInv, ListTypeOK, RowsInv, ScreenNext, UNCHANGED vars
  PROVE  RowsInv'
  <1>1. \A s, t : (Seen(s, t) <=> Seen(s, t)')
    BY DEF Seen, Touches, vars, appVars
  <1>2. UNCHANGED <<entry, touched>>
    BY DEF vars
  <1>3. ASSUME \A s \in Students :
                  /\ stage'[s] # "listening" => naming'[s] = {} /\ peopleList'[s] = {}
                  /\ \A t \in naming'[s] \cup peopleList'[s] : t \in Students => Seen(s, t)
                  /\ \A t \in naming'[s] : t \notin peopleList'[s]
                  /\ \A t \in asked'[s] : t \in Students =>
                        entry[s][t] # NoEntry \/ t \in touched[s]
        PROVE  RowsInv'
    BY <1>1, <1>2, <1>3 DEF RowsInv, RowsAreEntries
  <1> USE DEF ListTypeOK, RowsInv, RowsAreEntries
  <1>4. ASSUME NEW s \in Students, OpenList(s) \/ ReadBlocked(s)
        PROVE  RowsInv'
    <2>1. UNCHANGED <<naming, peopleList, asked>>
          /\ \A u \in Students : stage'[u] # "listening" => stage[u] # "listening"
      BY <1>4 DEF OpenList, ReadBlocked
    <2> QED BY <1>1, <1>2, <2>1
  <1>5. ASSUME NEW s \in Students, GetConversations(s)
        PROVE  RowsInv'
    <2>1. /\ UNCHANGED <<peopleList, asked>> /\ stage[s] = "read"
          /\ naming'[s] \subseteq {t \in Students : Seen(s, t)} /\ stage'[s] = "listening"
          /\ \A u \in Students : u # s => naming'[u] = naming[u] /\ stage'[u] = stage[u]
      BY <1>5 DEF GetConversations
    <2>2. peopleList[s] = {}
      BY <2>1
    <2> HIDE DEF ListTypeOK
    <2> QED BY <1>1, <1>2, <2>1, <2>2
  <1>6. ASSUME NEW s \in Students, CloseList(s)
        PROVE  RowsInv'
    <2>1. /\ UNCHANGED asked /\ naming'[s] = {} /\ peopleList'[s] = {}
          /\ \A u \in Students : u # s => /\ naming'[u] = naming[u] /\ stage'[u] = stage[u]
                                          /\ peopleList'[u] = peopleList[u]
      BY <1>6 DEF CloseList
    <2> HIDE DEF ListTypeOK
    <2> QED BY <1>1, <1>2, <2>1
  <1>7. ASSUME NEW s \in Students, NEW t \in Students, NameArrives(s, t)
        PROVE  RowsInv'
    <2>1. /\ UNCHANGED <<asked, stage>> /\ t \in naming[s]
          /\ naming'[s] = naming[s] \ {t} /\ peopleList'[s] = peopleList[s] \cup {t}
          /\ \A u \in Students : u # s => /\ naming'[u] = naming[u]
                                          /\ peopleList'[u] = peopleList[u]
      BY <1>7 DEF NameArrives
    <2>2. stage[s] = "listening"
      BY <2>1
    <2> HIDE DEF ListTypeOK
    <2> QED BY <1>1, <1>2, <2>1, <2>2
  <1>8. ASSUME NEW s \in Students, NEW t \in Students, BlockArrives(s, t) \/ Unblocked(s, t)
        PROVE  RowsInv'
    <2>1. /\ UNCHANGED <<asked, stage, naming>>
          /\ \A u \in Students : peopleList'[u] \subseteq peopleList[u]
      BY <1>8 DEF BlockArrives, Unblocked, screenVars
    <2> HIDE DEF ListTypeOK
    <2>2. \A u \in Students : peopleList[u] = {} => peopleList'[u] = {}
      BY <2>1
    <2> QED BY <1>1, <1>2, <2>1, <2>2
  <1>9. ASSUME NEW s \in Students, NEW t \in Students, PressRow(s, t) \/ NavigateInVain(s, t)
        PROVE  RowsInv'
    <2>1. /\ UNCHANGED <<stage, naming, peopleList>>
          /\ \A u \in Students : \A v \in asked'[u] :
                v \in asked[u] \/ (u = s /\ v = t /\ t \in peopleList[s])
      BY <1>9 DEF PressRow, NavigateInVain
    <2>2. t \in peopleList[s] => entry[s][t] # NoEntry \/ t \in touched[s]
      BY SeenAllowed
    <2> HIDE DEF ListTypeOK
    <2> QED BY <1>1, <1>2, <2>1, <2>2
  <1> QED BY <1>4, <1>5, <1>6, <1>7, <1>8, <1>9 DEF ScreenNext

\* The conversations change, and the list hears of it.
LEMMA HearKeepsRows ==
  ASSUME TypeInv, CauseInv, ListTypeOK, RowsInv, [Next]_vars, Hear,
         \/ Elsewhere /\ UNCHANGED asked
         \/ \E s, t \in Students : HideRow(s, t) \/ Navigate(s, t)
  PROVE  RowsInv'
  <1>1. /\ stage' = stage
        /\ \A s \in Students :
              naming'[s] = IF stage[s] = "listening"
                           THEN naming[s] \cup ({t \in Students : ~Seen(s, t) /\ Seen(s, t)'}
                                                  \ blockedList[s])
                           ELSE naming[s]
        /\ \A s \in Students :
              peopleList'[s] = peopleList[s] \ {t \in Students : Seen(s, t) /\ ~Seen(s, t)'}
    BY DEF Hear
  <1>2. ASSUME NEW s \in Students, NEW t \in Students, t \in asked'[s]
        PROVE  entry'[s][t] # NoEntry \/ t \in touched'[s]
    <2>1. t \in asked[s]
      BY <1>2 DEF HideRow, Navigate, ListTypeOK
    <2> QED BY <2>1, AllowedStays DEF RowsInv, RowsAreEntries
  <1>3. ASSUME NEW s \in Students, NEW t \in Students, t \in naming[s]
        PROVE  Seen(s, t)'
    <2>1. Seen(s, t) /\ t \notin peopleList[s]
      BY <1>3 DEF RowsInv, RowsAreEntries
    <2>2. \/ Elsewhere
          \/ \E a, b \in Students : OpenFromList(a, b) \/ (Hide(a, b) /\ ~ (s = a /\ t = b))
      BY <2>1 DEF HideRow, Navigate
    <2> QED BY <2>1, <2>2, SeenStays
  <1>4. ASSUME NEW s \in Students, NEW t \in Students
        PROVE  /\ t \in naming'[s] \cup peopleList'[s] => Seen(s, t)'
               /\ ~ (t \in naming'[s] /\ t \in peopleList'[s])
    <2>1. /\ t \in peopleList[s] => Seen(s, t)
          /\ ~ (t \in naming[s] /\ t \in peopleList[s])
      BY DEF RowsInv, RowsAreEntries
    <2> QED BY <1>1, <1>3, <2>1
  <1>5. ASSUME NEW s \in Students, stage'[s] # "listening"
        PROVE  naming'[s] = {} /\ peopleList'[s] = {}
    BY <1>1, <1>5 DEF RowsInv
  <1> QED BY <1>2, <1>4, <1>5 DEF RowsInv, RowsAreEntries

\* For any number of students: although names are looked up while entries come and
\* go, every row is that of an entry that is there, and no entry has two rows.
THEOREM RowsAreEntriesCorrect == ListSpec => []RowsAreEntries
  <1>1. ListInit => RowsInv
    BY DEF ListInit, RowsInv, RowsAreEntries
  <1>2. /\ TypeInv /\ CauseInv /\ ListTypeOK /\ RowsInv /\ [Next]_vars
        /\ [ListNext]_allVars
        => RowsInv'
    <2> SUFFICES ASSUME TypeInv, CauseInv, ListTypeOK, RowsInv, [Next]_vars,
                        [ListNext]_allVars
                 PROVE  RowsInv'
      OBVIOUS
    <2>1. CASE ScreenNext /\ UNCHANGED vars
      BY <2>1, ScreenKeepsRows DEF TypeInv
    <2>2. CASE \/ Elsewhere /\ Hear /\ UNCHANGED asked
               \/ \E s, t \in Students : (HideRow(s, t) \/ Navigate(s, t)) /\ Hear
      BY <2>2, HearKeepsRows
    <2>3. CASE UNCHANGED allVars
      <3>1. \A s, t : Seen(s, t) <=> Seen(s, t)'
        BY <2>3 DEF Seen, Touches, allVars, vars, appVars
      <3> QED BY <2>3, <3>1 DEF RowsInv, RowsAreEntries, allVars, listVars, screenVars, vars
    <2> QED BY <2>1, <2>2, <2>3 DEF ListNext
  <1>3. RowsInv => RowsAreEntries
    BY DEF RowsInv
  <1>4. ListSpec => [][Next]_vars /\ []TypeInv /\ []CauseInv
    BY ListKeepsConversations, TypeInvCorrect, CauseInvCorrect, PTL DEF Spec
  <1> QED BY <1>1, <1>2, <1>3, <1>4, ListTypeCorrect, PTL DEF ListSpec
=============================================================================
