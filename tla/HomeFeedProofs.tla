--------------------------- MODULE HomeFeedProofs ---------------------------
(* Proofs about the deck, for any number of posts, hosts, loads, changes.  *)
EXTENDS HomeFeed, FiniteSetTheorems, TLAPS

-----------------------------------------------------------------------------
(* Type correctness.                                                       *)

LEMMA CardsType ==
  ASSUME TypeOK, NEW d \in [Posts -> Nat], Cards(d)
  PROVE  deck' \in [Posts -> Nat] /\ away' \in [Posts -> Nat]
  BY DEF Cards, None, TypeOK

LEMMA BlankType == \A s \in Steps : Blank(s) \in Load
  BY DEF Blank, Load

LEMMA BeginType ==
  ASSUME TypeOK, NEW l \in Loads, Begin(l)
  PROVE  load' \in [Loads -> Load]
  <1>1. "accepted" \in Steps /\ "rejected" \in Choices /\ "accepted" \in Choices
    BY DEF Steps, Choices
  <1>2. Blank("accepted") \in Load
    BY <1>1, BlankType
  <1>3. [Blank("accepted") EXCEPT !.decided = decided["accepted"] \cup decided["rejected"],
                                  !.barred = barred] \in Load
    BY <1>1 DEF TypeOK, Load, Blank
  <1> QED BY <1>3 DEF Begin, TypeOK

LEMMA TypeInit == Init => TypeOK
  <1> SUFFICES ASSUME Init PROVE TypeOK
    OBVIOUS
  <1>1. "idle" \in Steps
    BY DEF Steps
  <1>2. load \in [Loads -> Load]
    BY <1>1, BlankType DEF Init
  <1> QED BY <1>2 DEF Init, TypeOK, None

LEMMA TypeLoads ==
  ASSUME TypeOK, NEW l \in Loads,
         Mount(l) \/ Refresh(l) \/ Rewind(l) \/ LoadNext(l)
  PROVE  TypeOK'
  <1> USE DEF database, screen, joins, events
  <1>1. CASE Mount(l)
    BY <1>1, BeginType DEF Mount, TypeOK
  <1>2. CASE Refresh(l)
    <2>1. load' \in [Loads -> Load]
      BY <1>2, BeginType DEF Refresh
    <2>2. None \in [Posts -> Nat]
      BY DEF None
    <2>3. deck' \in [Posts -> Nat] /\ away' \in [Posts -> Nat]
      BY <1>2, <2>2, CardsType DEF Refresh
    <2> QED BY <1>2, <2>1, <2>3 DEF Refresh, TypeOK
  <1>3. CASE Rewind(l)
    <2>1. Blank("undo") \in Load
      BY BlankType DEF Steps
    <2>2. \A k \in Loads : [load[k] EXCEPT !.decided = @ \ decided["rejected"]] \in Load
      BY DEF TypeOK, Load
    <2>3. load' \in [Loads -> Load]
      BY <1>3, <2>1, <2>2 DEF Rewind
    <2>4. decided' \in [Choices -> SUBSET Posts]
      BY <1>3 DEF Rewind, TypeOK
    <2> QED BY <1>3, <2>3, <2>4 DEF Rewind, TypeOK
  <1>4. CASE ReadHidden(l)
    <2>1. \A c \in Choices : c \in Steps /\ decided[c] \subseteq Posts
      BY DEF TypeOK, Steps
    <2>2. {"accepted", "rejected"} = Choices /\ "blocked" \in Steps
      BY DEF Choices, Steps, Lists
    <2>3. load' \in [Loads -> Load]
      BY <1>4, <2>1, <2>2 DEF ReadHidden, TypeOK, Load
    <2> QED BY <1>4, <2>3 DEF ReadHidden, TypeOK
  <1>5. CASE ReadList(l)
    <2>1. AfterList(load[l].step) \in Steps
      BY <1>5 DEF ReadList, AfterList, Lists, Steps
    <2> DEFINE x == {h \in Hosts : <<load[l].step, h>> \in barred}
               r == [load[l] EXCEPT !.step = AfterList(load[l].step), !.blocked = @ \cup x]
    <2>2. r \in Load
      <3>1. load[l] \in Load /\ x \in SUBSET Hosts
        BY DEF TypeOK
      <3> HIDE DEF x
      <3> QED BY <2>1, <3>1 DEF Load
    <2>3. load' = [load EXCEPT ![l] = r]
      BY <1>5 DEF ReadList
    <2> HIDE DEF r
    <2>4. load' \in [Loads -> Load]
      BY <2>2, <2>3 DEF TypeOK
    <2> QED BY <1>5, <2>4 DEF ReadList, TypeOK
  <1>6. CASE Listen(l)
    <2>1. Blank("listening") \in Load /\ load[l] \in Load
      BY BlankType DEF Steps, TypeOK
    <2>2. load' \in [Loads -> Load]
      BY <1>6, <2>1 DEF Listen, TypeOK
    <2>3. /\ hiddenPosts' \subseteq Posts /\ blockedList' \subseteq Hosts
          /\ decidedBefore' \subseteq Posts /\ barredBefore' \subseteq Lists \X Hosts
      BY <1>6, <2>1 DEF Listen, Load
    <2> QED BY <1>6, <2>2, <2>3 DEF Listen, TypeOK
  <1>7. CASE Rewound(l)
    BY <1>7, BeginType DEF Rewound, TypeOK
  <1> QED BY <1>1, <1>2, <1>3, <1>4, <1>5, <1>6, <1>7 DEF LoadNext

LEMMA TypeEvents ==
  ASSUME TypeOK, NEW l \in Loads, EventNext(l)
  PROVE  TypeOK'
  <1> USE DEF database, joins
  <1>1. ASSUME NEW p \in Posts, Deal(l, p) PROVE TypeOK'
    <2> DEFINE d == IF p \in hiddenPosts \/ HostOf[p] \in blockedList THEN deck
                    ELSE [deck EXCEPT ![p] = @ + 1]
    <2>1. d \in [Posts -> Nat] /\ Cards(d)
      BY <1>1 DEF Deal, TypeOK
    <2> HIDE DEF d
    <2>2. deck' \in [Posts -> Nat] /\ away' \in [Posts -> Nat]
      BY <2>1, CardsType
    <2> QED BY <1>1, <2>2 DEF Deal, TypeOK
  <1>2. ASSUME NEW k \in Lists, NEW h \in Hosts, Hear(l, k, h) PROVE TypeOK'
    <2> DEFINE d == [p \in Posts |-> IF HostOf[p] = h THEN 0 ELSE deck[p]]
    <2>1. d \in [Posts -> Nat] /\ Cards(d)
      BY <1>2 DEF Hear, TypeOK
    <2> HIDE DEF d
    <2>2. deck' \in [Posts -> Nat] /\ away' \in [Posts -> Nat]
      BY <2>1, CardsType
    <2> QED BY <1>2, <2>2 DEF Hear, TypeOK
  <1> QED BY <1>1, <1>2 DEF EventNext

LEMMA TypeSwipes ==
  ASSUME TypeOK, NEW p \in Posts,
         \/ SwipeLeft(p) \/ SwipeRight(p) \/ Joined(p)
         \/ \E listed \in BOOLEAN : Checked(p, listed)
  PROVE  TypeOK'
  <1> USE DEF database, screen, events
  <1>1. [deck EXCEPT ![p] = 0] \in [Posts -> Nat]
    BY DEF TypeOK
  <1>2. CASE SwipeLeft(p)
    <2>1. deck' \in [Posts -> Nat] /\ away' \in [Posts -> Nat]
      BY <1>1, <1>2, CardsType DEF SwipeLeft
    <2> QED BY <1>2, <2>1 DEF SwipeLeft, TypeOK, joins
  <1>3. CASE SwipeRight(p)
    BY <1>3 DEF SwipeRight, TypeOK
  <1>4. CASE Joined(p)
    <2>1. deck' \in [Posts -> Nat] /\ away' \in [Posts -> Nat]
      BY <1>1, <1>4, CardsType DEF Joined
    <2>2. joining' \in [Posts -> Nat]
      BY <1>4 DEF Joined, TypeOK
    <2>3. decided' \in [Choices -> SUBSET Posts]
      BY <1>4 DEF Joined, TypeOK
    <2> QED BY <1>4, <2>1, <2>2, <2>3 DEF Joined, TypeOK
  <1>5. ASSUME NEW listed \in BOOLEAN, Checked(p, listed) PROVE TypeOK'
    BY <1>5 DEF Checked, TypeOK
  <1> QED BY <1>2, <1>3, <1>4, <1>5

LEMMA TypeOthers ==
  ASSUME TypeOK, OthersNext
  PROVE  TypeOK'
  <1> USE DEF screen, joins
  <1>1. ASSUME NEW p \in Posts, GoesLive(p) PROVE TypeOK'
    BY <1>1 DEF GoesLive, Change, TypeOK
  <1>2. ASSUME NEW p \in Posts, Ends(p) PROVE TypeOK'
    <2>1. [deck EXCEPT ![p] = 0] \in [Posts -> Nat]
      BY DEF TypeOK
    <2>2. deck' \in [Posts -> Nat] /\ away' \in [Posts -> Nat]
      BY <1>2, <2>1, CardsType DEF Ends
    <2> QED BY <1>2, <2>2 DEF Ends, Change, TypeOK
  <1>3. ASSUME NEW k \in Lists, NEW h \in Hosts, Bar(k, h) PROVE TypeOK'
    BY <1>3 DEF Bar, Change, TypeOK
  <1>4. ASSUME NEW k \in Lists, NEW h \in Hosts, Unbar(k, h) PROVE TypeOK'
    <2>1. \A l \in Loads : [load[l] EXCEPT !.barred = @ \ {<<k, h>>}] \in Load
      BY DEF TypeOK, Load
    <2>2. load' \in [Loads -> Load]
      BY <1>4, <2>1 DEF Unbar
    <2> QED BY <1>4, <2>2 DEF Unbar, Change, TypeOK, events
  <1> QED BY <1>1, <1>2, <1>3, <1>4 DEF OthersNext

LEMMA TypeNext == TypeOK /\ [Next]_vars => TypeOK'
  <1> SUFFICES ASSUME TypeOK, [Next]_vars PROVE TypeOK'
    OBVIOUS
  <1>1. CASE StudentNext
    BY <1>1, TypeLoads, TypeSwipes DEF StudentNext
  <1>2. CASE OthersNext
    BY <1>2, TypeOthers
  <1>3. ASSUME NEW l \in Loads, LoadNext(l) \/ EventNext(l) PROVE TypeOK'
    BY <1>3, TypeLoads, TypeEvents
  <1>4. CASE UNCHANGED vars
    BY <1>4 DEF TypeOK, vars, database, screen, events, joins
  <1> QED BY <1>1, <1>2, <1>3, <1>4 DEF Next

\* The state of the deck, its loads and its listeners keeps its shape.
THEOREM TypeCorrect == Spec => []TypeOK
  BY TypeInit, TypeNext, PTL DEF Spec

-----------------------------------------------------------------------------
(* Cards per load.                                                         *)

\* A listener brings only live posts, and only once it is attached.
EventsLive ==
    \A l \in Loads : undealt[l] \subseteq live /\ (l \notin Listening => undealt[l] = {})

CopiesInv == EventsLive /\ CopiesPerLoad

LEMMA FiniteListeners ==
  ASSUME NEW p
  PROVE  /\ IsFiniteSet(Listening) /\ Cardinality(Listening) \in Nat
         /\ IsFiniteSet(Bringing(p)) /\ Cardinality(Bringing(p)) \in Nat
         /\ IsFiniteSet(Listening') /\ Cardinality(Listening)' \in Nat
         /\ IsFiniteSet(Bringing(p)') /\ Cardinality(Bringing(p))' \in Nat
  <1>1. /\ Listening \in SUBSET Loads /\ Bringing(p) \in SUBSET Loads
        /\ Listening' \in SUBSET Loads /\ Bringing(p)' \in SUBSET Loads
    BY DEF Listening, Bringing
  <1> QED BY <1>1, LoadsAssumption, FS_Subset, FS_CardinalityType

\* Where the listeners and the live posts stay, and no card or event is added, no
\* bound is passed.
LEMMA CopiesFewer ==
  ASSUME TypeOK, CopiesInv, TypeOK', live' = live, Listening' = Listening,
         \A l \in Loads : undealt'[l] \subseteq undealt[l],
         \A p \in Posts : deck'[p] <= deck[p]
  PROVE  CopiesInv'
  <1>1. EventsLive'
    BY DEF CopiesInv, EventsLive
  <1>2. ASSUME NEW p \in Posts PROVE Cardinality(Bringing(p)') <= Cardinality(Bringing(p))
    <2>1. Bringing(p)' \in SUBSET Bringing(p)
      BY DEF Bringing
    <2> QED BY <2>1, FiniteListeners, FS_Subset
  <1>3. CopiesPerLoad'
    <2> SUFFICES ASSUME NEW p \in Posts
                 PROVE  deck'[p] + Cardinality(Bringing(p)') <=
                           IF p \in live' THEN Cardinality(Listening') ELSE 0
      BY DEF CopiesPerLoad
    <2>1. deck[p] + Cardinality(Bringing(p)) <=
                           IF p \in live THEN Cardinality(Listening) ELSE 0
      BY DEF CopiesInv, CopiesPerLoad
    <2>2. deck[p] \in Nat /\ deck'[p] \in Nat
      BY DEF TypeOK
    <2> QED BY <1>2, <2>1, <2>2, FiniteListeners
  <1> QED BY <1>1, <1>3 DEF CopiesInv

LEMMA CopiesInit == Init => CopiesInv
  <1> SUFFICES ASSUME Init PROVE CopiesInv
    OBVIOUS
  <1>1. EventsLive
    BY DEF Init, EventsLive
  <1>2. \A p \in Posts : Bringing(p) = {} /\ deck[p] = 0
    BY DEF Init, Bringing, None
  <1>3. Listening = {}
    BY DEF Init, Listening, Blank
  <1> QED BY <1>1, <1>2, <1>3, FS_EmptySet DEF CopiesInv, CopiesPerLoad

LEMMA CopiesListen ==
  ASSUME TypeOK, TypeOK', CopiesInv, NEW l \in Loads, Listen(l)
  PROVE  CopiesInv'
  <1>1. l \notin Listening /\ Listening' = Listening \cup {l}
    BY DEF Listen, Listening, Blank, TypeOK
  <1>2. EventsLive'
    BY <1>1 DEF CopiesInv, EventsLive, Listen, TypeOK, database
  <1>3. ASSUME NEW p \in Posts
        PROVE  deck'[p] + Cardinality(Bringing(p)') <=
                  IF p \in live' THEN Cardinality(Listening') ELSE 0
    <2>1. deck[p] + Cardinality(Bringing(p)) <=
                  IF p \in live THEN Cardinality(Listening) ELSE 0
      BY DEF CopiesInv, CopiesPerLoad
    <2>2. deck[p] \in Nat /\ deck' = deck /\ live' = live
      BY DEF TypeOK, Listen, database
    <2>3. CASE p \in live
      <3>1. Bringing(p)' = Bringing(p) \cup {l}
        BY <2>3 DEF Bringing, Listen, TypeOK
      <3>2. Cardinality(Bringing(p)') <= Cardinality(Bringing(p)) + 1
        <4>1. /\ IsFiniteSet(Bringing(p)) /\ Cardinality(Bringing(p)) \in Nat
          BY FiniteListeners
        <4>2. Cardinality(Bringing(p) \cup {l}) = IF l \in Bringing(p)
                 THEN Cardinality(Bringing(p)) ELSE Cardinality(Bringing(p)) + 1
          BY <4>1, FS_AddElement
        <4> QED BY <3>1, <4>1, <4>2
      <3>3. Cardinality(Listening') = Cardinality(Listening) + 1
        BY <1>1, FiniteListeners, FS_AddElement
      <3> QED BY <2>1, <2>2, <2>3, <3>2, <3>3, FiniteListeners
    <2>4. CASE p \notin live
      <3>1. Bringing(p)' \in SUBSET Bringing(p)
        BY <2>4 DEF Bringing, Listen, TypeOK
      <3>2. Cardinality(Bringing(p)') <= Cardinality(Bringing(p))
        BY <3>1, FiniteListeners, FS_Subset
      <3> QED BY <2>1, <2>2, <2>4, <3>2, FiniteListeners
    <2> QED BY <2>3, <2>4
  <1> QED BY <1>2, <1>3 DEF CopiesInv, CopiesPerLoad

LEMMA CopiesDeal ==
  ASSUME TypeOK, TypeOK', CopiesInv, NEW l \in Loads, NEW q \in Posts, Deal(l, q)
  PROVE  CopiesInv'
  <1>1. Listening' = Listening /\ live' = live
    BY DEF Deal, database, Listening
  <1>2. EventsLive'
    BY <1>1 DEF CopiesInv, EventsLive, Deal, TypeOK
  <1>3. ASSUME NEW p \in Posts
        PROVE  deck'[p] + Cardinality(Bringing(p)') <=
                  IF p \in live' THEN Cardinality(Listening') ELSE 0
    <2>1. deck[p] + Cardinality(Bringing(p)) <=
                  IF p \in live THEN Cardinality(Listening) ELSE 0
      BY DEF CopiesInv, CopiesPerLoad
    <2>2. deck[p] \in Nat /\ deck'[p] \in Nat
      BY DEF TypeOK
    <2>3. CASE p = q
      <3>1. Bringing(p)' = Bringing(p) \ {l} /\ l \in Bringing(p)
        BY <2>3 DEF Bringing, Deal, TypeOK
      <3>2. Cardinality(Bringing(p)') = Cardinality(Bringing(p)) - 1
        BY <3>1, FiniteListeners, FS_RemoveElement
      <3>3. deck'[p] <= deck[p] + 1
        BY <2>2, <2>3 DEF Deal, Cards, TypeOK
      <3> QED BY <1>1, <2>1, <2>2, <3>2, <3>3, FiniteListeners
    <2>4. CASE p # q
      <3>1. Bringing(p)' = Bringing(p)
        BY <2>4 DEF Bringing, Deal, TypeOK
      <3>2. deck'[p] = deck[p]
        BY <2>4 DEF Deal, Cards, TypeOK
      <3> QED BY <1>1, <2>1, <3>1, <3>2
    <2> QED BY <2>3, <2>4
  <1> QED BY <1>2, <1>3 DEF CopiesInv, CopiesPerLoad

LEMMA CopiesGoesLive ==
  ASSUME TypeOK, TypeOK', CopiesInv, NEW q \in Posts, GoesLive(q)
  PROVE  CopiesInv'
  <1>1. Listening' = Listening /\ live' = live \cup {q} /\ deck' = deck /\ q \notin live
    BY DEF GoesLive, Listening, screen
  <1>2. EventsLive'
    BY <1>1 DEF CopiesInv, EventsLive, GoesLive, TypeOK
  <1>3. ASSUME NEW p \in Posts
        PROVE  deck'[p] + Cardinality(Bringing(p)') <=
                  IF p \in live' THEN Cardinality(Listening') ELSE 0
    <2>1. deck[p] + Cardinality(Bringing(p)) <=
                  IF p \in live THEN Cardinality(Listening) ELSE 0
      BY DEF CopiesInv, CopiesPerLoad
    <2>2. deck[p] \in Nat
      BY DEF TypeOK
    <2>3. CASE p = q
      <3>1. Bringing(p)' \in SUBSET Listening
        BY <1>2 DEF EventsLive, Bringing, GoesLive, Listening
      <3>2. Cardinality(Bringing(p)') <= Cardinality(Listening)
        BY <3>1, FiniteListeners, FS_Subset
      <3>3. deck[p] = 0
        BY <1>1, <2>1, <2>2, <2>3, FiniteListeners
      <3> QED BY <1>1, <2>3, <3>2, <3>3, FiniteListeners
    <2>4. CASE p # q
      <3>1. Bringing(p)' = Bringing(p)
        BY <2>4 DEF Bringing, GoesLive, TypeOK
      <3> QED BY <1>1, <2>1, <2>4, <3>1
    <2> QED BY <2>3, <2>4
  <1> QED BY <1>2, <1>3 DEF CopiesInv, CopiesPerLoad

LEMMA CopiesEnds ==
  ASSUME TypeOK, TypeOK', CopiesInv, NEW q \in Posts, Ends(q)
  PROVE  CopiesInv'
  <1>1. Listening' = Listening /\ live' = live \ {q}
    BY DEF Ends, Listening
  <1>2. EventsLive'
    BY <1>1 DEF CopiesInv, EventsLive, Ends, TypeOK
  <1>3. ASSUME NEW p \in Posts
        PROVE  deck'[p] + Cardinality(Bringing(p)') <=
                  IF p \in live' THEN Cardinality(Listening') ELSE 0
    <2>1. deck[p] + Cardinality(Bringing(p)) <=
                  IF p \in live THEN Cardinality(Listening) ELSE 0
      BY DEF CopiesInv, CopiesPerLoad
    <2>2. CASE p = q
      <3>1. Bringing(p)' = {}
        BY <2>2 DEF Bringing, Ends, TypeOK
      <3>2. deck'[p] = 0
        BY <2>2 DEF Ends, Cards, TypeOK
      <3> QED BY <1>1, <2>2, <3>1, <3>2, FS_EmptySet
    <2>3. CASE p # q
      <3>1. Bringing(p)' = Bringing(p)
        BY <2>3 DEF Bringing, Ends, TypeOK
      <3>2. deck'[p] = deck[p]
        BY <2>3 DEF Ends, Cards, TypeOK
      <3> QED BY <1>1, <2>1, <2>3, <3>1, <3>2
    <2> QED BY <2>2, <2>3
  <1> QED BY <1>2, <1>3 DEF CopiesInv, CopiesPerLoad

\* All other steps add neither cards nor events.
LEMMA CopiesOther ==
  ASSUME TypeOK, TypeOK', CopiesInv, [Next]_vars,
         ~ \E l \in Loads : Listen(l) \/ \E p \in Posts : Deal(l, p),
         ~ \E p \in Posts : GoesLive(p) \/ Ends(p)
  PROVE  CopiesInv'
  <1> USE DEF database, screen, joins, events
  <1> DEFINE Fewer == /\ live' = live /\ undealt' = undealt /\ Listening' = Listening
                      /\ \A p \in Posts : deck'[p] <= deck[p]
  <1>0. \A p \in Posts : deck[p] \in Nat
    BY DEF TypeOK
  <1>1. ASSUME NEW l \in Loads, Mount(l) \/ Refresh(l) \/ Rewound(l) PROVE Fewer
    <2>1. load[l].step \in {"idle", "undo"}
      BY <1>1 DEF Mount, Refresh, Rewound
    <2>2. Begin(l)
      BY <1>1 DEF Mount, Refresh, Rewound
    <2>3. Listening' = Listening
      BY <2>1, <2>2 DEF Begin, Blank, Listening, TypeOK
    <2>4. \A p \in Posts : deck'[p] <= deck[p]
      BY <1>0, <1>1 DEF Mount, Refresh, Rewound, Cards, None
    <2> QED BY <1>1, <2>3, <2>4 DEF Mount, Refresh, Rewound
  <1>2. ASSUME NEW l \in Loads, Rewind(l) PROVE Fewer
    <2>1. Listening' = Listening
      <3>1. ASSUME NEW k \in Loads \ {l} PROVE load'[k].step = load[k].step
        <4> DEFINE x == decided["rejected"]
        <4>1. load[k] \in Load
          BY DEF TypeOK
        <4>2. load'[k] = [load[k] EXCEPT !.decided = @ \ x]
          BY <1>2 DEF Rewind
        <4> HIDE DEF x
        <4> QED BY <4>1, <4>2 DEF Load
      <3>2. load'[l].step = "undo" /\ load[l].step = "idle"
        BY <1>2 DEF Rewind, Blank
      <3> QED BY <3>1, <3>2 DEF Listening
    <2> QED BY <1>0, <1>2, <2>1 DEF Rewind
  <1>3. ASSUME NEW l \in Loads, ReadHidden(l) PROVE Fewer
    <2>1. Listening' = Listening
      BY <1>3 DEF ReadHidden, Listening, TypeOK, Load
    <2> QED BY <1>0, <1>3, <2>1 DEF ReadHidden
  <1>4. ASSUME NEW l \in Loads, ReadList(l) PROVE Fewer
    <2>1. Listening' = Listening
      BY <1>4 DEF ReadList, AfterList, Lists, Listening, TypeOK, Load
    <2> QED BY <1>0, <1>4, <2>1 DEF ReadList
  <1>5. ASSUME NEW l \in Loads, NEW k \in Lists, NEW h \in Hosts, Hear(l, k, h) PROVE Fewer
    BY <1>0, <1>5 DEF Hear, Cards, Listening
  <1>6. ASSUME NEW p \in Posts, SwipeLeft(p) \/ Joined(p) PROVE Fewer
    BY <1>0, <1>6 DEF SwipeLeft, Joined, Cards, Listening, TypeOK
  <1>7. ASSUME NEW p \in Posts, SwipeRight(p) \/ \E listed \in BOOLEAN : Checked(p, listed)
        PROVE  Fewer
    BY <1>0, <1>7 DEF SwipeRight, Checked, Listening
  <1>8. ASSUME NEW k \in Lists, NEW h \in Hosts, Bar(k, h) PROVE Fewer
    BY <1>0, <1>8 DEF Bar, Listening
  <1>9. ASSUME NEW k \in Lists, NEW h \in Hosts, Unbar(k, h) PROVE Fewer
    <2>1. Listening' = Listening
      BY <1>9 DEF Unbar, Listening, TypeOK, Load
    <2> QED BY <1>0, <1>9, <2>1 DEF Unbar
  <1>10. ASSUME UNCHANGED vars PROVE Fewer
    <2>1. live' = live /\ undealt' = undealt /\ load' = load /\ deck' = deck
      BY <1>10 DEF vars
    <2>2. Listening' = Listening
      BY <2>1 DEF Listening
    <2>3. ASSUME NEW p \in Posts PROVE deck'[p] <= deck[p]
      BY <1>0, <2>1
    <2> QED BY <2>1, <2>2, <2>3
  <1> HIDE DEF Fewer
  <1>11. Fewer
    <2>1. CASE StudentNext
      BY <1>1, <1>2, <1>6, <1>7, <2>1 DEF StudentNext
    <2>2. CASE OthersNext
      BY <1>8, <1>9, <2>2 DEF OthersNext
    <2>3. ASSUME NEW l \in Loads, LoadNext(l) \/ EventNext(l) PROVE Fewer
      BY <1>1, <1>3, <1>4, <1>5, <2>3 DEF LoadNext, EventNext
    <2> QED BY <1>10, <2>1, <2>2, <2>3 DEF Next
  <1>12. /\ live' = live /\ undealt' = undealt /\ Listening' = Listening
         /\ \A p \in Posts : deck'[p] <= deck[p]
    BY <1>11 DEF Fewer
  <1>13. \A l \in Loads : undealt'[l] \subseteq undealt[l]
    BY <1>12
  <1> QED BY <1>12, <1>13, CopiesFewer

LEMMA CopiesNext == TypeOK /\ TypeOK' /\ CopiesInv /\ [Next]_vars => CopiesInv'
  BY CopiesListen, CopiesDeal, CopiesGoesLive, CopiesEnds, CopiesOther

\* However refreshes, rewinds and changes overlap, a post has at most one card for each
\* load, and none once it has gone.
THEOREM CopiesPerLoadCorrect == Spec => []CopiesPerLoad
  <1>1. CopiesInv => CopiesPerLoad
    BY DEF CopiesInv
  <1> QED BY <1>1, CopiesInit, CopiesNext, TypeCorrect, PTL DEF Spec

-----------------------------------------------------------------------------
(* What is in hand and in force.                                           *)

\* The lists that have been read when a load has come to step s.
ReadLists(s) ==
    CASE s = "blockedBy" -> {"blocked"}
      [] s = "softBlockedUids" -> {"blocked", "blockedBy"}
      [] s = "network" -> Lists
      [] OTHER -> {}

\* What was there when a load began, and is there still, is in hand or still to be read.
InHand ==
    \A l \in Loads :
        /\ load[l].step \in {"idle", "undo", "listening"} =>
              load[l].decided = {} /\ load[l].barred = {}
        /\ load[l].step = "accepted" =>
              load[l].decided \subseteq decided["accepted"] \cup decided["rejected"]
        /\ load[l].step = "rejected" =>
              load[l].decided \subseteq load[l].hidden \cup decided["rejected"]
        /\ load[l].step \in Lists \cup {"network"} => load[l].decided \subseteq load[l].hidden
        /\ load[l].barred \subseteq barred
        /\ \A k \in ReadLists(load[l].step), h \in Hosts :
              <<k, h>> \in load[l].barred => h \in load[l].blocked

InForce ==
    /\ decidedBefore \subseteq hiddenPosts
    /\ barredBefore \subseteq barred
    /\ \A k \in Lists, h \in Hosts : <<k, h>> \in barredBefore => h \in blockedList

ListsInv == InHand /\ InForce

\* A load begins with what is there.
LEMMA InHandBegin ==
  ASSUME TypeOK, InHand, NEW l \in Loads, Begin(l), decided' = decided, barred' = barred
  PROVE  InHand'
  <1>1. \A k \in Loads \ {l} : load'[k] = load[k]
    BY DEF Begin, TypeOK
  <1>2. /\ load'[l].step = "accepted"
        /\ load'[l].decided = decided["accepted"] \cup decided["rejected"]
        /\ load'[l].barred = barred
    BY DEF Begin, TypeOK, Blank
  <1>3. ReadLists("accepted") = {}
    BY DEF ReadLists
  <1>4. "accepted" \notin Lists \cup {"network"}
    BY DEF Lists
  <1>5. ASSUME NEW k \in Loads \ {l}
        PROVE  /\ load'[k].step \in {"idle", "undo", "listening"} =>
                     load'[k].decided = {} /\ load'[k].barred = {}
               /\ load'[k].step = "accepted" =>
                     load'[k].decided \subseteq decided'["accepted"] \cup decided'["rejected"]
               /\ load'[k].step = "rejected" =>
                     load'[k].decided \subseteq load'[k].hidden \cup decided'["rejected"]
               /\ load'[k].step \in Lists \cup {"network"} =>
                     load'[k].decided \subseteq load'[k].hidden
               /\ load'[k].barred \subseteq barred'
               /\ \A i \in ReadLists(load'[k].step), h \in Hosts :
                     <<i, h>> \in load'[k].barred => h \in load'[k].blocked
    BY <1>1, <1>5 DEF InHand
  <1> QED BY <1>2, <1>3, <1>4, <1>5 DEF InHand

\* Loads that do not move keep what they have, as long as no entry goes.
LEMMA InHandStays ==
  ASSUME InHand, load' = load, barred \subseteq barred',
         \A c \in Choices : decided[c] \subseteq decided'[c]
  PROVE  InHand'
  <1>1. decided["accepted"] \subseteq decided'["accepted"]
        /\ decided["rejected"] \subseteq decided'["rejected"]
    BY DEF Choices
  <1> QED BY <1>1 DEF InHand

LEMMA InHandRewind ==
  ASSUME TypeOK, InHand, NEW l \in Loads, Rewind(l)
  PROVE  InHand'
  <1> DEFINE x == decided["rejected"]
  <1>1. /\ decided'["accepted"] = decided["accepted"] /\ decided'["rejected"] = {}
        /\ barred' = barred
    BY DEF Rewind, TypeOK, Choices
  <1>2. /\ load'[l].step = "undo" /\ load'[l].decided = {} /\ load'[l].barred = {}
    BY DEF Rewind, Blank
  <1>3. ASSUME NEW k \in Loads \ {l}
        PROVE  /\ load'[k].step = load[k].step /\ load'[k].hidden = load[k].hidden
               /\ load'[k].blocked = load[k].blocked /\ load'[k].barred = load[k].barred
               /\ load'[k].decided = load[k].decided \ x
    <2>1. load[k] \in Load /\ load'[k] = [load[k] EXCEPT !.decided = @ \ x]
      BY DEF Rewind, TypeOK
    <2> HIDE DEF x
    <2> QED BY <2>1 DEF Load
  <1>4. "undo" \notin Lists \cup {"network"} /\ ReadLists("undo") = {}
    BY DEF Lists, ReadLists
  <1> SUFFICES ASSUME NEW k \in Loads
               PROVE  /\ load'[k].step \in {"idle", "undo", "listening"} =>
                            load'[k].decided = {} /\ load'[k].barred = {}
                      /\ load'[k].step = "accepted" =>
                            load'[k].decided \subseteq decided'["accepted"] \cup decided'["rejected"]
                      /\ load'[k].step = "rejected" =>
                            load'[k].decided \subseteq load'[k].hidden \cup decided'["rejected"]
                      /\ load'[k].step \in Lists \cup {"network"} =>
                            load'[k].decided \subseteq load'[k].hidden
                      /\ load'[k].barred \subseteq barred'
                      /\ \A i \in ReadLists(load'[k].step), h \in Hosts :
                            <<i, h>> \in load'[k].barred => h \in load'[k].blocked
    BY DEF InHand
  <1>5. CASE k = l
    BY <1>2, <1>4, <1>5
  <1>6. CASE k # l
    BY <1>1, <1>3, <1>6 DEF InHand
  <1> QED BY <1>5, <1>6

LEMMA InHandUnbar ==
  ASSUME TypeOK, InHand, NEW i \in Lists, NEW g \in Hosts, Unbar(i, g)
  PROVE  InHand'
  <1>1. decided' = decided /\ barred' = barred \ {<<i, g>>}
    BY DEF Unbar
  <1>2. ASSUME NEW k \in Loads
        PROVE  /\ load'[k].step = load[k].step /\ load'[k].hidden = load[k].hidden
               /\ load'[k].blocked = load[k].blocked /\ load'[k].decided = load[k].decided
               /\ load'[k].barred = load[k].barred \ {<<i, g>>}
    <2>1. load[k] \in Load /\ load'[k] = [load[k] EXCEPT !.barred = @ \ {<<i, g>>}]
      BY DEF Unbar, TypeOK
    <2> QED BY <2>1 DEF Load
  <1> QED BY <1>1, <1>2 DEF InHand

LEMMA InHandReads ==
  ASSUME TypeOK, InHand, NEW l \in Loads, ReadHidden(l) \/ ReadList(l)
  PROVE  InHand'
  <1>1. decided' = decided /\ barred' = barred /\ \A k \in Loads \ {l} : load'[k] = load[k]
    BY DEF ReadHidden, ReadList, database, TypeOK
  <1>2. load[l] \in Load
    BY DEF TypeOK
  <1>3. ASSUME NEW k \in Loads \ {l}
        PROVE  /\ load'[k].step \in {"idle", "undo", "listening"} =>
                     load'[k].decided = {} /\ load'[k].barred = {}
               /\ load'[k].step = "accepted" =>
                     load'[k].decided \subseteq decided'["accepted"] \cup decided'["rejected"]
               /\ load'[k].step = "rejected" =>
                     load'[k].decided \subseteq load'[k].hidden \cup decided'["rejected"]
               /\ load'[k].step \in Lists \cup {"network"} =>
                     load'[k].decided \subseteq load'[k].hidden
               /\ load'[k].barred \subseteq barred'
               /\ \A i \in ReadLists(load'[k].step), h \in Hosts :
                     <<i, h>> \in load'[k].barred => h \in load'[k].blocked
    BY <1>1, <1>3 DEF InHand
  <1>4. /\ load'[l].step \in {"idle", "undo", "listening"} =>
              load'[l].decided = {} /\ load'[l].barred = {}
        /\ load'[l].step = "accepted" =>
              load'[l].decided \subseteq decided'["accepted"] \cup decided'["rejected"]
        /\ load'[l].step = "rejected" =>
              load'[l].decided \subseteq load'[l].hidden \cup decided'["rejected"]
        /\ load'[l].step \in Lists \cup {"network"} =>
              load'[l].decided \subseteq load'[l].hidden
        /\ load'[l].barred \subseteq barred'
        /\ \A i \in ReadLists(load'[l].step), h \in Hosts :
              <<i, h>> \in load'[l].barred => h \in load'[l].blocked
    <2>1. CASE ReadHidden(l) /\ load[l].step = "accepted"
      <3>1. /\ load'[l].step = "rejected" /\ load'[l].decided = load[l].decided
            /\ load'[l].hidden = load[l].hidden \cup decided["accepted"]
            /\ load'[l].barred = load[l].barred /\ load'[l].blocked = load[l].blocked
        BY <1>2, <2>1 DEF ReadHidden, TypeOK, Load
      <3>2. ReadLists("rejected") = {} /\ "rejected" \notin Lists \cup {"network"}
        BY DEF ReadLists, Lists
      <3> QED BY <1>1, <2>1, <3>1, <3>2 DEF InHand
    <2>2. CASE ReadHidden(l) /\ load[l].step = "rejected"
      <3>1. /\ load'[l].step = "blocked" /\ load'[l].decided = load[l].decided
            /\ load'[l].hidden = load[l].hidden \cup decided["rejected"]
            /\ load'[l].barred = load[l].barred /\ load'[l].blocked = load[l].blocked
        BY <1>2, <2>2 DEF ReadHidden, TypeOK, Load
      <3>2. ReadLists("blocked") = {} /\ "blocked" \in Lists
        BY DEF ReadLists, Lists
      <3> QED BY <1>1, <2>2, <3>1, <3>2 DEF InHand
    <2>3. CASE ReadList(l)
      <3> DEFINE k == load[l].step
                 n == AfterList(k)
                 x == {h \in Hosts : <<k, h>> \in barred}
      <3>1. k \in Lists
        BY <2>3 DEF ReadList
      <3>2. load' = [load EXCEPT ![l].step = n, ![l].blocked = @ \cup x]
        BY <2>3 DEF ReadList
      <3>3. /\ n \in {"blockedBy", "softBlockedUids", "network"}
            /\ ReadLists(n) = ReadLists(k) \cup {k}
        BY <3>1 DEF Lists, AfterList, ReadLists
      <3> HIDE DEF n, x
      <3>4. /\ load'[l].step = n /\ load'[l].decided = load[l].decided
            /\ load'[l].hidden = load[l].hidden
            /\ load'[l].barred = load[l].barred /\ load'[l].blocked = load[l].blocked \cup x
        BY <1>2, <3>2 DEF TypeOK, Load
      <3>5. load[l].decided \subseteq load[l].hidden /\ load[l].barred \subseteq barred
        BY <3>1 DEF InHand
      <3>6. \A i \in ReadLists(n), h \in Hosts :
               <<i, h>> \in load'[l].barred => h \in load'[l].blocked
        <4> SUFFICES ASSUME NEW i \in ReadLists(n), NEW h \in Hosts, <<i, h>> \in load[l].barred
                     PROVE  h \in load[l].blocked \cup x
          BY <3>4
        <4>1. CASE i = k
          BY <3>5, <4>1 DEF x
        <4>2. CASE i \in ReadLists(k)
          BY <4>2 DEF InHand
        <4> QED BY <3>3, <4>1, <4>2
      <3> QED BY <1>1, <3>3, <3>4, <3>5, <3>6
    <2> QED BY <2>1, <2>2, <2>3 DEF ReadHidden
  <1> QED BY <1>3, <1>4 DEF InHand

LEMMA ListsListen ==
  ASSUME TypeOK, ListsInv, NEW l \in Loads, Listen(l)
  PROVE  ListsInv'
  <1>1. decided' = decided /\ barred' = barred /\ \A k \in Loads \ {l} : load'[k] = load[k]
    BY DEF Listen, database, TypeOK
  <1>2. /\ load'[l].step = "listening" /\ load'[l].decided = {} /\ load'[l].barred = {}
    BY DEF Listen, Blank, TypeOK
  <1>3. "listening" \notin Lists \cup {"network"} /\ ReadLists("listening") = {}
        /\ ReadLists("network") = Lists
    BY DEF ReadLists, Lists
  <1>4. InHand'
    BY <1>1, <1>2, <1>3 DEF InHand, ListsInv
  <1>5. /\ load[l].decided \subseteq load[l].hidden /\ load[l].barred \subseteq barred
        /\ \A i \in Lists, h \in Hosts : <<i, h>> \in load[l].barred => h \in load[l].blocked
    BY <1>3 DEF InHand, ListsInv, Listen
  <1>6. InForce'
    BY <1>1, <1>5 DEF InForce, Listen
  <1> QED BY <1>4, <1>6 DEF ListsInv

LEMMA ListsInit == Init => ListsInv
  <1> SUFFICES ASSUME Init PROVE ListsInv
    OBVIOUS
  <1>1. \A l \in Loads : load[l] = Blank("idle")
    BY DEF Init
  <1>2. "idle" \notin Lists \cup {"network"} /\ ReadLists("idle") = {}
    BY DEF Lists, ReadLists
  <1> QED BY <1>1, <1>2 DEF Init, ListsInv, InHand, InForce, Blank

LEMMA ListsNext == TypeOK /\ ListsInv /\ [Next]_vars => ListsInv'
  <1> SUFFICES ASSUME TypeOK, InHand, InForce, [Next]_vars PROVE InHand' /\ InForce'
    BY DEF ListsInv
  <1> USE DEF database, screen, events, joins
  <1>1. ASSUME NEW l \in Loads, Mount(l) \/ Refresh(l) \/ Rewound(l)
        PROVE  InHand' /\ InForce'
    <2>1. Begin(l) /\ decided' = decided /\ barred' = barred
      BY <1>1 DEF Mount, Refresh, Rewound
    <2>2. InHand'
      BY <2>1, InHandBegin
    <2>3. InForce'
      BY <1>1 DEF Mount, Refresh, Rewound, InForce
    <2> QED BY <2>2, <2>3
  <1>2. ASSUME NEW l \in Loads, Rewind(l) PROVE InHand' /\ InForce'
    BY <1>2, InHandRewind DEF Rewind, InForce
  <1>3. ASSUME NEW l \in Loads, ReadHidden(l) \/ ReadList(l) PROVE InHand' /\ InForce'
    BY <1>3, InHandReads DEF ReadHidden, ReadList, InForce
  <1>4. ASSUME NEW l \in Loads, Listen(l) PROVE InHand' /\ InForce'
    BY <1>4, ListsListen DEF ListsInv
  <1>5. ASSUME NEW p \in Posts, SwipeLeft(p) \/ Joined(p) PROVE InHand' /\ InForce'
    <2>1. \A c \in Choices : decided[c] \subseteq decided'[c]
      BY <1>5 DEF SwipeLeft, Joined, TypeOK
    <2>2. load' = load /\ barred' = barred
      BY <1>5 DEF SwipeLeft, Joined
    <2> QED BY <1>5, <2>1, <2>2, InHandStays DEF SwipeLeft, Joined, InForce
  <1>6. ASSUME NEW k \in Lists, NEW h \in Hosts, Bar(k, h) PROVE InHand' /\ InForce'
    BY <1>6, InHandStays DEF Bar, InForce
  <1>7. ASSUME NEW k \in Lists, NEW h \in Hosts, Unbar(k, h) PROVE InHand' /\ InForce'
    BY <1>7, InHandUnbar DEF Unbar, InForce
  <1>8. ASSUME UNCHANGED <<decided, barred, load, hiddenPosts, blockedList, decidedBefore,
                           barredBefore>>
        PROVE  InHand' /\ InForce'
    BY <1>8, InHandStays DEF InForce
  <1>9. CASE StudentNext
    <2>1. ASSUME NEW p \in Posts, SwipeRight(p) \/ \E listed \in BOOLEAN : Checked(p, listed)
          PROVE  InHand' /\ InForce'
      BY <1>8, <2>1 DEF SwipeRight, Checked
    <2> QED BY <1>1, <1>2, <1>5, <1>9, <2>1 DEF StudentNext
  <1>10. CASE OthersNext
    <2>1. ASSUME NEW p \in Posts, GoesLive(p) \/ Ends(p) PROVE InHand' /\ InForce'
      BY <1>8, <2>1 DEF GoesLive, Ends
    <2> QED BY <1>6, <1>7, <1>10, <2>1 DEF OthersNext
  <1>11. ASSUME NEW l \in Loads, LoadNext(l) \/ EventNext(l) PROVE InHand' /\ InForce'
    <2>1. ASSUME EventNext(l) PROVE InHand' /\ InForce'
      BY <1>8, <2>1 DEF EventNext, Deal, Hear
    <2> QED BY <1>1, <1>3, <1>4, <1>11, <2>1 DEF LoadNext
  <1>12. CASE UNCHANGED vars
    BY <1>8, <1>12 DEF vars
  <1> QED BY <1>9, <1>10, <1>11, <1>12 DEF Next

\* What was read is in force, and nothing that was there all along is missing in it.
LEMMA ListsCorrect == Spec => []ListsInv
  BY ListsInit, ListsNext, TypeCorrect, PTL DEF Spec

-----------------------------------------------------------------------------
(* The cards of barred students, and of posts decided before.              *)

\* Only Deal adds a card, and it heeds what is in force.
LEMMA DeckGrows ==
  ASSUME TypeOK, [Next]_vars, NEW p \in Posts, ~ (deck'[p] <= deck[p])
  PROVE  /\ p \notin hiddenPosts /\ HostOf[p] \notin blockedList
         /\ UNCHANGED <<barredBefore, decidedBefore, blockedList, hiddenPosts, unheard>>
  <1> USE DEF database, screen, events, joins
  <1>0. \A q \in Posts : deck[q] \in Nat
    BY DEF TypeOK
  <1> DEFINE G == p \notin hiddenPosts /\ HostOf[p] \notin blockedList
                  /\ UNCHANGED <<barredBefore, decidedBefore, blockedList, hiddenPosts, unheard>>
  <1>1. ASSUME deck' = deck PROVE G
    BY <1>0, <1>1
  <1>2. ASSUME NEW q \in Posts, Cards([deck EXCEPT ![q] = 0]) PROVE G
    BY <1>0, <1>2 DEF Cards, TypeOK
  <1>3. ASSUME NEW l \in Loads, Refresh(l) PROVE G
    BY <1>0, <1>3 DEF Refresh, Cards, None
  <1>4. ASSUME NEW l \in Loads, NEW k \in Lists, NEW h \in Hosts, Hear(l, k, h) PROVE G
    BY <1>0, <1>4 DEF Hear, Cards
  <1>5. ASSUME NEW l \in Loads, NEW q \in Posts, Deal(l, q) PROVE G
    <2>1. ~ (q \in hiddenPosts \/ HostOf[q] \in blockedList) /\ p = q
      BY <1>0, <1>5 DEF Deal, Cards, TypeOK
    <2> QED BY <1>5, <2>1 DEF Deal
  <1> HIDE DEF G
  <1>6. CASE StudentNext
    <2>1. ASSUME NEW l \in Loads, Mount(l) \/ Rewind(l) PROVE G
      BY <1>1, <2>1 DEF Mount, Rewind
    <2>2. ASSUME NEW q \in Posts, SwipeLeft(q) \/ Joined(q) PROVE G
      BY <1>2, <2>2 DEF SwipeLeft, Joined
    <2>3. ASSUME NEW q \in Posts, SwipeRight(q) \/ \E listed \in BOOLEAN : Checked(q, listed)
          PROVE  G
      BY <1>1, <2>3 DEF SwipeRight, Checked
    <2>4. G
      BY <1>3, <1>6, <2>1, <2>2, <2>3 DEF StudentNext
    <2> QED BY <2>4 DEF G
  <1>7. CASE OthersNext
    <2>1. ASSUME NEW q \in Posts, GoesLive(q) PROVE G
      BY <1>1, <2>1 DEF GoesLive
    <2>2. ASSUME NEW q \in Posts, Ends(q) PROVE G
      BY <1>2, <2>2 DEF Ends
    <2>3. ASSUME NEW k \in Lists, NEW h \in Hosts, Bar(k, h) \/ Unbar(k, h) PROVE G
      BY <1>1, <2>3 DEF Bar, Unbar
    <2>4. G
      BY <1>7, <2>1, <2>2, <2>3 DEF OthersNext
    <2> QED BY <2>4 DEF G
  <1>8. ASSUME NEW l \in Loads, LoadNext(l) \/ EventNext(l) PROVE G
    <2>1. ASSUME LoadNext(l) PROVE G
      BY <1>1, <2>1 DEF LoadNext, ReadHidden, ReadList, Listen, Rewound
    <2> QED BY <1>4, <1>5, <1>8, <2>1 DEF EventNext
  <1>9. CASE UNCHANGED vars
    <2>1. G
      BY <1>1, <1>9 DEF vars
    <2> QED BY <2>1 DEF G
  <1> QED BY <1>6, <1>7, <1>8, <1>9 DEF Next, G

\* No chain of reads that is overtaken by changes lets a post be dealt that was decided,
\* or whose host was barred, all along.
THEOREM DealtUndecidedCorrect == Spec => DealtUndecided
  <1>1. TypeOK /\ ListsInv /\ [Next]_vars =>
          [\A p \in Posts : deck'[p] > deck[p] =>
              p \notin decidedBefore /\ HostOf[p] \notin HostsOf(barredBefore)]_vars
    <2> SUFFICES ASSUME TypeOK, ListsInv, [Next]_vars, NEW p \in Posts, deck'[p] > deck[p],
                        deck[p] \in Nat
                 PROVE  p \notin decidedBefore /\ HostOf[p] \notin HostsOf(barredBefore)
      BY DEF TypeOK
    <2>0. CASE UNCHANGED vars
      BY <2>0 DEF vars, screen
    <2>1. CASE ~UNCHANGED vars
      <3>1. TypeOK'
        BY TypeNext
      <3>2. ~ (deck'[p] <= deck[p])
        BY <3>1 DEF TypeOK
      <3>3. p \notin hiddenPosts /\ HostOf[p] \notin blockedList
        BY <3>2, DeckGrows
      <3>4. barredBefore \subseteq Lists \X Hosts
        BY DEF TypeOK
      <3>5. \A e \in barredBefore : e[2] \in blockedList
        BY <3>4 DEF ListsInv, InForce
      <3> QED BY <3>3, <3>5 DEF ListsInv, InForce, HostsOf
    <2> QED BY <2>0, <2>1
  <1> QED BY <1>1, TypeCorrect, ListsCorrect, PTL DEF Spec, DealtUndecided

LEMMA BarredInit == Init => BarredStayOut
  BY DEF Init, BarredStayOut

LEMMA BarredNext ==
  TypeOK /\ TypeOK' /\ ListsInv /\ BarredStayOut /\ [Next]_vars => BarredStayOut'
  <1> SUFFICES ASSUME TypeOK, TypeOK', ListsInv, BarredStayOut, [Next]_vars,
                      NEW e \in barredBefore', \A l \in Loads : e \notin unheard'[l],
                      NEW p \in Posts, HostOf[p] = e[2]
               PROVE  deck'[p] = 0
    BY DEF BarredStayOut
  <1> USE DEF database, screen, events, joins
  <1>1. deck[p] \in Nat /\ deck'[p] \in Nat
    BY DEF TypeOK
  <1>2. e \in Lists \X Hosts
    BY DEF TypeOK
  <1>3. ASSUME e \in barredBefore, \A l \in Loads : e \notin unheard[l]
        PROVE  deck'[p] = 0
    <2>1. deck[p] = 0
      BY <1>3 DEF BarredStayOut
    <2>2. HostOf[p] \in blockedList
      BY <1>2, <1>3 DEF ListsInv, InForce
    <2>3. deck'[p] <= deck[p]
      BY <2>2, DeckGrows
    <2> QED BY <1>1, <2>1, <2>3
  <1>4. ASSUME barredBefore' \subseteq barredBefore, \A l \in Loads : unheard[l] \subseteq unheard'[l]
        PROVE  deck'[p] = 0
    BY <1>3, <1>4
  <1>5. CASE StudentNext
    <2>1. barredBefore' \subseteq barredBefore /\ unheard' = unheard
      BY <1>5 DEF StudentNext, Mount, Refresh, Rewind, SwipeLeft, SwipeRight, Joined, Checked
    <2> QED BY <1>4, <2>1
  <1>6. CASE OthersNext
    <2>1. /\ barredBefore' \subseteq barredBefore
          /\ \A l \in Loads : unheard[l] \subseteq unheard'[l]
      BY <1>6 DEF OthersNext, GoesLive, Ends, Bar, Unbar
    <2> QED BY <1>4, <2>1
  <1>7. ASSUME NEW l \in Loads, Listen(l) PROVE deck'[p] = 0
    <2>1. barredBefore' \subseteq barred
      BY <1>7 DEF Listen, ListsInv, InHand
    <2>2. unheard'[l] = barred
      BY <1>7 DEF Listen, TypeOK
    <2> QED BY <2>1, <2>2
  <1>8. ASSUME NEW l \in Loads, ReadHidden(l) \/ ReadList(l) \/ Rewound(l) PROVE deck'[p] = 0
    <2>1. barredBefore' = barredBefore /\ unheard' = unheard
      BY <1>8 DEF ReadHidden, ReadList, Rewound
    <2> QED BY <1>4, <2>1
  <1>9. ASSUME NEW l \in Loads, NEW q \in Posts, Deal(l, q) PROVE deck'[p] = 0
    BY <1>4, <1>9 DEF Deal
  <1>10. ASSUME NEW l \in Loads, NEW k \in Lists, NEW h \in Hosts, Hear(l, k, h)
         PROVE  deck'[p] = 0
    <2>1. CASE HostOf[p] = h
      BY <1>10, <2>1 DEF Hear, Cards
    <2>2. CASE HostOf[p] # h
      <3>1. e # <<k, h>>
        BY <2>2
      <3>2. \A m \in Loads : e \notin unheard[m]
        BY <1>10, <3>1 DEF Hear, TypeOK
      <3>3. e \in barredBefore
        BY <1>10 DEF Hear
      <3> QED BY <1>3, <3>2, <3>3
    <2> QED BY <2>1, <2>2
  <1>11. CASE UNCHANGED vars
    BY <1>4, <1>11 DEF vars
  <1> QED BY <1>5, <1>6, <1>7, <1>8, <1>9, <1>10, <1>11 DEF Next, LoadNext, EventNext

\* Whatever overlaps, no card of a student who was barred all along outlives the
\* listener's event.
THEOREM BarredStayOutCorrect == Spec => []BarredStayOut
  BY BarredInit, BarredNext, TypeCorrect, ListsCorrect, PTL DEF Spec
=============================================================================
