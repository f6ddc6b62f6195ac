--------------------------- MODULE BlockingProofs ---------------------------
(* Proofs about blocking, for any number of students and of calls.         *)
EXTENDS Blocking, FiniteSetTheorems, TLAPS

Pcs == {"own", "other", "count", "done", "lost"}

\* Call c is replaced by itself at step pc.
Step(c, pc) == calls' = (calls \ {c}) \cup {[c EXCEPT !.pc = pc]}

\* Calls are numbered without repetition.
Numbered ==
    /\ IsFiniteSet(calls)
    /\ \A c \in calls : c.id < Cardinality(calls)
    /\ \A c, d \in calls : c.id = d.id => c = d

\* What is written next changes a call in nothing else.
LEMMA Advanced ==
  ASSUME NEW c \in Call, NEW pc \in Pcs
  PROVE  /\ [c EXCEPT !.pc = pc] \in Call
         /\ [c EXCEPT !.pc = pc].pc = pc
         /\ [c EXCEPT !.pc = pc].id = c.id
         /\ [c EXCEPT !.pc = pc].kind = c.kind
         /\ [c EXCEPT !.pc = pc].by = c.by
         /\ [c EXCEPT !.pc = pc].of = c.of
  BY DEF Call, Pcs

\* Every action on a call is a step of that call.
LEMMA Stepped ==
  ASSUME NEW c, WriteOwn(c) \/ WriteOther(c) \/ WriteCount(c) \/ CutShort(c)
  PROVE  \E pc \in Pcs : Step(c, pc) /\ pc # "own"
  <1>1. ASSUME NEW pc, NEW next \in Pcs, next # "own", Go(c, pc, next)
        PROVE  \E q \in Pcs : Step(c, q) /\ q # "own"
    BY <1>1 DEF Go, Step
  <1>2. CASE WriteOwn(c)
    BY <1>1, <1>2 DEF WriteOwn, Pcs
  <1>3. CASE WriteOther(c)
    BY <1>1, <1>3 DEF WriteOther, Pcs
  <1>4. CASE WriteCount(c)
    BY <1>1, <1>4 DEF WriteCount, Pcs
  <1>5. CASE CutShort(c)
    BY <1>5 DEF CutShort, Step, Pcs
  <1> QED BY <1>2, <1>3, <1>4, <1>5

\* A step keeps the calls numbered.
LEMMA NumberedStep ==
  ASSUME calls \subseteq Call, Numbered, NEW c \in calls, NEW pc \in Pcs, Step(c, pc)
  PROVE  calls' \subseteq Call /\ Numbered'
  <1> DEFINE d == [c EXCEPT !.pc = pc]
             rest == calls \ {c}
  <1>1. d \in Call /\ d.id = c.id
    BY Advanced
  <1>2. calls' = rest \cup {d}
    BY DEF Step
  <1>3. IsFiniteSet(rest) /\ Cardinality(rest) = Cardinality(calls) - 1
    BY FS_RemoveElement DEF Numbered
  <1>4. d \notin rest
    BY <1>1 DEF Numbered
  <1> HIDE DEF d, rest
  <1>5. IsFiniteSet(calls') /\ Cardinality(calls') = Cardinality(rest) + 1
    BY <1>2, <1>3, <1>4, FS_AddElement
  <1>6. Cardinality(calls) \in Nat
    BY FS_CardinalityType DEF Numbered
  <1>7. Cardinality(calls') = Cardinality(calls)
    BY <1>3, <1>5, <1>6
  <1>8. \A e \in rest : e \in calls /\ e.id # c.id
    BY DEF rest, Numbered
  <1> QED BY <1>1, <1>2, <1>5, <1>7, <1>8 DEF Numbered, rest

\* A new call gets a new number.
LEMMA NumberedAsk ==
  ASSUME calls \subseteq Call, Numbered, NEW kind \in {"block", "unblock"},
         NEW a \in Students, NEW b \in Students, Ask(kind, a, b)
  PROVE  /\ calls' \subseteq Call /\ Numbered'
         /\ \E c \in Call : /\ calls' = calls \cup {c} /\ c \notin calls
                            /\ c.kind = kind /\ c.by = a /\ c.of = b /\ c.pc = "own"
  <1> DEFINE c == [id |-> Cardinality(calls), kind |-> kind, by |-> a, of |-> b, pc |-> "own"]
  <1>1. Cardinality(calls) \in Nat
    BY FS_CardinalityType DEF Numbered
  <1>2. /\ c \in Call /\ c.id = Cardinality(calls)
        /\ c.kind = kind /\ c.by = a /\ c.of = b /\ c.pc = "own"
    BY <1>1 DEF Call
  <1>3. calls' = calls \cup {c}
    BY DEF Ask
  <1>4. \A d \in calls : d.id \in Nat
    BY DEF Call
  <1> HIDE DEF c
  <1>5. c \notin calls
    BY <1>1, <1>2 DEF Numbered
  <1>6. IsFiniteSet(calls') /\ Cardinality(calls') = Cardinality(calls) + 1
    BY <1>3, <1>5, FS_AddElement DEF Numbered
  <1>7. Numbered'
    <2>1. \A d \in calls : d.id < Cardinality(calls)
      BY DEF Numbered
    <2>2. \A d \in calls' : d.id < Cardinality(calls')
      BY <1>1, <1>2, <1>3, <1>4, <1>6, <2>1
    <2>3. \A d, e \in calls' : d.id = e.id => d = e
      <3>1. \A d \in calls : d.id # c.id
        BY <1>1, <1>2, <1>4, <2>1
      <3>2. \A d, e \in calls : d.id = e.id => d = e
        BY DEF Numbered
      <3> QED BY <1>3, <3>1, <3>2
    <2> QED BY <1>6, <2>2, <2>3 DEF Numbered
  <1> QED BY <1>2, <1>3, <1>5, <1>7

BaseInv == TypeOK /\ Numbered

\* Types and numbers are kept by every step.
LEMMA BaseStep == BaseInv /\ [Next]_vars => BaseInv'
  <1> SUFFICES ASSUME BaseInv, [Next]_vars
               PROVE  BaseInv'
    OBVIOUS
  <1> USE DEF BaseInv, TypeOK, screenVars
  <1>1. ASSUME NEW a \in Students, NEW b \in Students,
               BlockFromProfile(a, b) \/ BlockFromConversations(a, b) \/ Unblock(a, b)
        PROVE  BaseInv'
    <2>1. \E kind \in {"block", "unblock"}, o \in Students : Ask(kind, a, o)
      BY <1>1 DEF BlockFromProfile, BlockFromConversations, Unblock
    <2>2. PICK kind \in {"block", "unblock"}, o \in Students : Ask(kind, a, o)
      BY <2>1
    <2>3. calls' \subseteq Call /\ Numbered'
      BY <2>2, NumberedAsk
    <2>4. disturbed' \subseteq Pairs
      BY <2>2 DEF Ask, Pairs
    <2>5. alerts' \subseteq Alert
      BY <1>1 DEF BlockFromProfile, BlockFromConversations, Unblock, Alert
    <2> QED BY <2>2, <2>3, <2>4, <2>5 DEF Ask
  <1>2. ASSUME NEW a \in Students, OpenBlockList(a) \/ CloseBlockList(a)
        PROVE  BaseInv'
    BY <1>2 DEF OpenBlockList, CloseBlockList, Numbered
  <1>3. ASSUME NEW a \in Students, NEW b \in Students, NameArrives(a, b)
        PROVE  BaseInv'
    BY <1>3 DEF NameArrives, Numbered
  <1>4. ASSUME NEW c \in calls, WriteOwn(c) \/ WriteOther(c) \/ WriteCount(c) \/ CutShort(c)
        PROVE  BaseInv'
    <2>1. c \in Call /\ c.by \in Students /\ c.of \in Students
      BY DEF Call
    <2>2. PICK pc \in Pcs : Step(c, pc)
      BY <1>4, Stepped
    <2>3. calls' \subseteq Call /\ Numbered'
      BY <2>2, NumberedStep
    <2>4. CASE WriteOwn(c)
      <3>1. blocked' \in [Students -> SUBSET Students] /\ onBlocks' \subseteq Pairs
        BY <2>1, <2>4 DEF WriteOwn, Go, Pairs
      <3>2. naming' \in [Students -> SUBSET Students] /\ listed' \in [Students -> SUBSET Students]
        BY <2>1, <2>4 DEF WriteOwn, Go
      <3> QED BY <2>3, <2>4, <3>1, <3>2 DEF WriteOwn, Go
    <2>5. CASE WriteOther(c)
      <3>1. blockedBy' \in [Students -> SUBSET Students]
        BY <2>1, <2>5 DEF WriteOther, Go
      <3> QED BY <2>3, <2>5, <3>1 DEF WriteOther, Go
    <2>6. CASE WriteCount(c)
      <3>1. blockCount' \in [Students -> Int]
        BY <2>1, <2>6 DEF WriteCount, Go
      <3> QED BY <2>3, <2>6, <3>1 DEF WriteCount, Go
    <2>7. CASE CutShort(c)
      <3>1. disturbed' \subseteq Pairs /\ faults' \in Nat
        BY <2>1, <2>7 DEF CutShort, Pairs
      <3> QED BY <2>3, <2>7, <3>1 DEF CutShort
    <2> QED BY <1>4, <2>4, <2>5, <2>6, <2>7
  <1>5. ASSUME NEW p \in onBlocks, OnBlock(p)
        PROVE  BaseInv'
    <2>1. p[1] \in Students
      BY DEF Pairs
    <2>2. rejected' \in [Students -> SUBSET Students]
      BY <1>5, <2>1, InterestedAssumption DEF OnBlock
    <2> QED BY <1>5, <2>2 DEF OnBlock, Numbered
  <1>6. CASE UNCHANGED vars
    BY <1>6 DEF vars, Numbered
  <1> HIDE DEF BaseInv, TypeOK
  <1> QED BY <1>1, <1>2, <1>3, <1>4, <1>5, <1>6 DEF Next, AppNext, CallNext

\* Types and numbers are always right.
LEMMA BaseCorrect == Spec => []BaseInv
  <1>1. Init => BaseInv
    BY FS_EmptySet DEF Init, BaseInv, TypeOK, None, Numbered
  <1> QED BY <1>1, BaseStep, PTL DEF Spec

\* The entries, the calls, and what BlockList and the alerts show keep their shape.
THEOREM TypeCorrect == Spec => []TypeOK
  BY BaseCorrect, PTL DEF BaseInv

-----------------------------------------------------------------------------
(* The two sides.  SidesExplained is inductive.                            *)

\* A step of a call changes which calls of its pair are in flight, and of no other.
LEMMA FlyingStep ==
  ASSUME calls \subseteq Call, NEW c \in calls, NEW pc \in Pcs, Step(c, pc)
  PROVE  /\ \A a, b \in Students :
               ~(c.by = a /\ c.of = b) => Flying(a, b)' = Flying(a, b)
         /\ Flying(c.by, c.of)' = (Flying(c.by, c.of) \ {c})
               \cup (IF pc \in {"own", "other", "count"} THEN {[c EXCEPT !.pc = pc]} ELSE {})
  <1> DEFINE d == [c EXCEPT !.pc = pc]
  <1>1. d.pc = pc /\ d.by = c.by /\ d.of = c.of
    BY Advanced
  <1>2. calls' = (calls \ {c}) \cup {d}
    BY DEF Step
  <1> HIDE DEF d
  <1>3. \A a, b \in Students : ~(c.by = a /\ c.of = b) => Flying(a, b)' = Flying(a, b)
    BY <1>1, <1>2 DEF Flying, InFlight
  <1>4. Flying(c.by, c.of)' = (Flying(c.by, c.of) \ {c})
               \cup (IF pc \in {"own", "other", "count"} THEN {d} ELSE {})
    BY <1>1, <1>2 DEF Flying, InFlight
  <1> QED BY <1>3, <1>4 DEF d

\* What SidesExplained says of one pair.
Explained(a, b) ==
    /\ b \in blocked[a] /\ a \notin blockedBy[b]
       => \E c \in Flying(a, b) : c.kind = "block" /\ c.pc = "other"
    /\ b \notin blocked[a] /\ a \in blockedBy[b]
       => \E c \in Flying(a, b) : c.kind = "unblock" /\ c.pc = "other"
    /\ \A c \in Flying(a, b) :
          /\ c.pc # "own" => (b \in blocked[a] <=> c.kind = "block")
          /\ \A d \in Flying(a, b) : c.kind = d.kind

\* A call for the opposite of what is under way disturbs the pair; any other is
\* one more call of the same kind.
LEMMA ExplainedAsk ==
  ASSUME BaseInv, SidesExplained, NEW kind \in {"block", "unblock"},
         NEW x \in Students, NEW y \in Students, Ask(kind, x, y)
  PROVE  SidesExplained'
  <1> SUFFICES ASSUME NEW a \in Students, NEW b \in Students, <<a, b>> \notin disturbed'
               PROVE  Explained(a, b)'
    BY DEF SidesExplained, Explained
  <1>1. <<a, b>> \notin disturbed /\ Explained(a, b)
    BY DEF Ask, SidesExplained, Explained
  <1>2. UNCHANGED <<blocked, blockedBy>>
    BY DEF Ask
  <1>3. PICK c \in Call : /\ calls' = calls \cup {c} /\ c.kind = kind
                          /\ c.by = x /\ c.of = y /\ c.pc = "own"
    BY NumberedAsk DEF BaseInv, TypeOK
  <1>4. CASE a = x /\ b = y
    <2>1. Flying(a, b)' = Flying(a, b) \cup {c}
      BY <1>3, <1>4 DEF Flying, InFlight
    <2>2. \A d \in Flying(a, b) : d.kind = kind
      BY <1>4 DEF Ask, Flying
    <2> QED BY <1>1, <1>2, <1>3, <2>1, <2>2 DEF Explained
  <1>5. CASE ~(a = x /\ b = y)
    <2>1. Flying(a, b)' = Flying(a, b)
      BY <1>3, <1>5 DEF Flying
    <2> QED BY <1>1, <1>2, <2>1 DEF Explained
  <1> QED BY <1>4, <1>5

\* Each write of a call either opens the difference that the call explains, or
\* closes it.
LEMMA ExplainedWrite ==
  ASSUME BaseInv, SidesExplained, NEW c \in calls,
         WriteOwn(c) \/ WriteOther(c) \/ WriteCount(c) \/ CutShort(c)
  PROVE  SidesExplained'
  <1> SUFFICES ASSUME NEW a \in Students, NEW b \in Students, <<a, b>> \notin disturbed'
               PROVE  Explained(a, b)'
    BY DEF SidesExplained, Explained
  <1>1. <<a, b>> \notin disturbed /\ Explained(a, b)
    BY DEF SidesExplained, Explained, WriteOwn, WriteOther, WriteCount, CutShort, Go
  <1>2. /\ c \in Call /\ c.by \in Students /\ c.of \in Students
        /\ c.kind \in {"block", "unblock"} /\ calls \subseteq Call
        /\ blocked \in [Students -> SUBSET Students]
        /\ blockedBy \in [Students -> SUBSET Students]
    BY DEF BaseInv, TypeOK, Call
  <1>3. CASE ~(c.by = a /\ c.of = b)
    <2>1. Flying(a, b)' = Flying(a, b)
      BY <1>2, <1>3, Stepped, FlyingStep
    <2>2. (b \in blocked[a])' <=> b \in blocked[a]
      BY <1>2, <1>3 DEF WriteOwn, WriteOther, WriteCount, CutShort, Go
    <2>3. (a \in blockedBy[b])' <=> a \in blockedBy[b]
      BY <1>2, <1>3 DEF WriteOwn, WriteOther, WriteCount, CutShort, Go
    <2> QED BY <1>1, <2>1, <2>2, <2>3 DEF Explained
  <1>4. CASE c.by = a /\ c.of = b
    <2>1. ~CutShort(c)
      BY <1>4 DEF CutShort
    <2>2. CASE WriteOwn(c)
      <3> DEFINE d == [c EXCEPT !.pc = "other"]
      <3>1. Step(c, "other") /\ c.pc = "own"
        BY <2>2 DEF WriteOwn, Go, Step
      <3>2. d.pc = "other" /\ d.kind = c.kind
        BY <1>2, Advanced DEF Pcs
      <3>3. Flying(a, b)' = (Flying(a, b) \ {c}) \cup {d}
        BY <1>2, <1>4, <3>1, FlyingStep DEF Pcs
      <3>4. c \in Flying(a, b)
        BY <1>4, <3>1 DEF Flying, InFlight
      <3>5. (b \in blocked[a])' <=> c.kind = "block"
        BY <1>2, <1>4, <2>2 DEF WriteOwn
      <3>6. UNCHANGED blockedBy
        BY <2>2 DEF WriteOwn
      <3> HIDE DEF d
      <3>7. \A e \in Flying(a, b)' : e.kind = c.kind
        BY <1>1, <3>2, <3>3, <3>4 DEF Explained
      <3>8. \E e \in Flying(a, b)' : e.kind = c.kind /\ e.pc = "other"
        BY <3>2, <3>3
      <3> QED BY <1>2, <3>5, <3>7, <3>8 DEF Explained
    <2>3. CASE WriteOther(c)
      <3> DEFINE d == [c EXCEPT !.pc = "count"]
      <3>1. Step(c, "count") /\ c.pc = "other"
        BY <2>3 DEF WriteOther, Go, Step
      <3>2. d.pc = "count" /\ d.kind = c.kind
        BY <1>2, Advanced DEF Pcs
      <3>3. Flying(a, b)' = (Flying(a, b) \ {c}) \cup {d}
        BY <1>2, <1>4, <3>1, FlyingStep DEF Pcs
      <3>4. c \in Flying(a, b)
        BY <1>4, <3>1 DEF Flying, InFlight
      <3>5. (a \in blockedBy[b])' <=> c.kind = "block"
        BY <1>2, <1>4, <2>3 DEF WriteOther
      <3>6. UNCHANGED blocked
        BY <2>3 DEF WriteOther
      <3>7. b \in blocked[a] <=> c.kind = "block"
        BY <1>1, <3>1, <3>4 DEF Explained
      <3> HIDE DEF d
      <3>8. \A e \in Flying(a, b)' : e.kind = c.kind
        BY <1>1, <3>2, <3>3, <3>4 DEF Explained
      <3> QED BY <3>5, <3>6, <3>7, <3>8 DEF Explained
    <2>4. CASE WriteCount(c)
      <3>1. Step(c, "done") /\ c.pc = "count"
        BY <2>4 DEF WriteCount, Go, Step
      <3>2. Flying(a, b)' = Flying(a, b) \ {c}
        BY <1>2, <1>4, <3>1, FlyingStep DEF Pcs
      <3>3. UNCHANGED <<blocked, blockedBy>>
        BY <2>4 DEF WriteCount
      <3> QED BY <1>1, <3>1, <3>2, <3>3 DEF Explained
    <2> QED BY <2>1, <2>2, <2>3, <2>4
  <1> QED BY <1>3, <1>4

\* Until the calls of a pair have come to their end its entries differ only as a
\* call on its way explains.
THEOREM SidesExplainedCorrect == Spec => []SidesExplained
  <1>1. Init => SidesExplained
    BY DEF Init, None, SidesExplained, Flying
  <1>2. BaseInv /\ SidesExplained /\ [Next]_vars => SidesExplained'
    <2> SUFFICES ASSUME BaseInv, SidesExplained, [Next]_vars
                 PROVE  SidesExplained'
      OBVIOUS
    <2>1. ASSUME NEW a \in Students, NEW b \in Students,
                 BlockFromProfile(a, b) \/ BlockFromConversations(a, b) \/ Unblock(a, b)
          PROVE  SidesExplained'
      <3>1. \E kind \in {"block", "unblock"}, o \in Students : Ask(kind, a, o)
        BY <2>1 DEF BlockFromProfile, BlockFromConversations, Unblock
      <3> QED BY <3>1, ExplainedAsk
    <2>2. ASSUME UNCHANGED <<blocked, blockedBy, calls, disturbed>>
          PROVE  SidesExplained'
      BY <2>2 DEF SidesExplained, Flying
    <2>3. ASSUME NEW a \in Students,
                 \/ OpenBlockList(a) \/ CloseBlockList(a)
                 \/ \E b \in Students : NameArrives(a, b)
          PROVE  SidesExplained'
      BY <2>2, <2>3 DEF OpenBlockList, CloseBlockList, NameArrives
    <2>4. ASSUME NEW p \in onBlocks, OnBlock(p)
          PROVE  SidesExplained'
      BY <2>2, <2>4 DEF OnBlock
    <2>5. CASE UNCHANGED vars
      BY <2>2, <2>5 DEF vars
    <2> QED BY <2>1, <2>3, <2>4, <2>5, ExplainedWrite DEF Next, AppNext, CallNext
  <1> QED BY <1>1, <1>2, BaseCorrect, PTL DEF Spec

\* However many calls of one kind overlap, the two sides agree once none is in flight.
THEOREM SidesAgreeCorrect == Spec => []SidesAgree
  <1>1. SidesExplained => SidesAgree
    BY DEF SidesExplained, SidesAgree
  <1> QED BY <1>1, SidesExplainedCorrect, PTL

-----------------------------------------------------------------------------
(* The count.                                                              *)

\* A step that does not end a call changes nobody's finished calls.
LEMMA FinishedElsewhere ==
  ASSUME calls \subseteq Call, NEW c \in calls, NEW pc \in Pcs, Step(c, pc),
         c.pc # "done", pc # "done"
  PROVE  \A kind, b : Finished(kind, b)' = Finished(kind, b)
  <1> DEFINE d == [c EXCEPT !.pc = pc]
  <1>1. d.pc = pc
    BY Advanced
  <1>2. calls' = (calls \ {c}) \cup {d}
    BY DEF Step
  <1> HIDE DEF d
  <1> QED BY <1>1, <1>2 DEF Finished

\* The transaction of a call, which is counted with it, changes blockCount by one.
LEMMA CountWritten ==
  ASSUME BaseInv, BlockCountExact, NEW c \in calls, WriteCount(c)
  PROVE  BlockCountExact'
  <1> SUFFICES ASSUME NEW b \in Students
               PROVE  blockCount'[b] = Cardinality(Finished("block", b)')
                                       - Cardinality(Finished("unblock", b)')
    BY DEF BlockCountExact, Finished
  <1> DEFINE d == [c EXCEPT !.pc = "done"]
             Card(kind) == Cardinality(Finished(kind, b))
  <1>1. /\ c \in Call /\ c.of \in Students /\ c.kind \in {"block", "unblock"}
        /\ calls \subseteq Call /\ blockCount \in [Students -> Int]
    BY DEF BaseInv, TypeOK, Call
  <1>2. c.pc = "count" /\ calls' = (calls \ {c}) \cup {d}
    BY DEF WriteCount, Go
  <1>3. /\ d \in Call /\ d.pc = "done" /\ d.id = c.id
        /\ d.kind = c.kind /\ d.by = c.by /\ d.of = c.of
    BY <1>1, Advanced DEF Pcs
  <1>4. \A kind : IsFiniteSet(Finished(kind, b)) /\ Card(kind) \in Nat
    <2>1. \A kind : Finished(kind, b) \subseteq calls
      BY DEF Finished
    <2>2. \A kind : IsFiniteSet(Finished(kind, b))
      BY <2>1, FS_Subset DEF BaseInv, Numbered
    <2> QED BY <2>2, FS_CardinalityType
  <1>5. d \notin calls
    BY <1>2, <1>3 DEF BaseInv, Numbered
  <1> HIDE DEF d
  <1>6. ASSUME NEW kind, ~(c.kind = kind /\ c.of = b)
        PROVE  Finished(kind, b)' = Finished(kind, b)
    BY <1>2, <1>3, <1>6 DEF Finished
  <1>7. ASSUME NEW kind, c.kind = kind, c.of = b
        PROVE  Cardinality(Finished(kind, b)') = Card(kind) + 1
    <2>1. Finished(kind, b)' = Finished(kind, b) \cup {d}
      BY <1>2, <1>3, <1>7 DEF Finished
    <2>2. d \notin Finished(kind, b)
      BY <1>5 DEF Finished
    <2> QED BY <1>4, <2>1, <2>2, FS_AddElement
  <1>8. blockCount[b] = Card("block") - Card("unblock")
    BY DEF BlockCountExact
  <1> HIDE DEF Card
  <1>9. CASE c.of # b
    <2>1. blockCount'[b] = blockCount[b]
      BY <1>1, <1>9 DEF WriteCount
    <2> QED BY <1>6, <1>8, <1>9, <2>1 DEF Card
  <1>10. CASE c.of = b /\ c.kind = "block"
    <2>1. blockCount'[b] = blockCount[b] + 1
      BY <1>1, <1>10 DEF WriteCount
    <2>2. Cardinality(Finished("block", b)') = Card("block") + 1
      BY <1>7, <1>10
    <2>3. Cardinality(Finished("unblock", b)') = Card("unblock")
      BY <1>6, <1>10 DEF Card
    <2>4. Card("block") \in Nat /\ Card("unblock") \in Nat
      BY <1>4 DEF Card
    <2> QED BY <1>8, <2>1, <2>2, <2>3, <2>4
  <1>11. CASE c.of = b /\ c.kind = "unblock"
    <2>1. blockCount'[b] = blockCount[b] - 1
      BY <1>1, <1>11 DEF WriteCount
    <2>2. Cardinality(Finished("unblock", b)') = Card("unblock") + 1
      BY <1>7, <1>11
    <2>3. Cardinality(Finished("block", b)') = Card("block")
      BY <1>6, <1>11 DEF Card
    <2>4. Card("block") \in Nat /\ Card("unblock") \in Nat
      BY <1>4 DEF Card
    <2> QED BY <1>8, <2>1, <2>2, <2>3, <2>4
  <1> QED BY <1>1, <1>9, <1>10, <1>11

\* No increment or decrement of blockCount is lost or made up, whoever else blocks
\* the student at the same time.
THEOREM BlockCountExactCorrect == Spec => []BlockCountExact
  <1>1. Init => BlockCountExact
    <2> SUFFICES ASSUME Init, NEW b \in Students
                 PROVE  blockCount[b] = Cardinality(Finished("block", b))
                                        - Cardinality(Finished("unblock", b))
      BY DEF BlockCountExact
    <2>1. Finished("block", b) = {} /\ Finished("unblock", b) = {} /\ blockCount[b] = 0
      BY DEF Init, Finished
    <2> QED BY <2>1, FS_EmptySet
  <1>2. BaseInv /\ BlockCountExact /\ [Next]_vars => BlockCountExact'
    <2> SUFFICES ASSUME BaseInv, BlockCountExact, [Next]_vars
                 PROVE  BlockCountExact'
      OBVIOUS
    <2>1. ASSUME UNCHANGED blockCount, \A kind, b : Finished(kind, b)' = Finished(kind, b)
          PROVE  BlockCountExact'
      BY <2>1 DEF BlockCountExact
    <2>2. calls \subseteq Call
      BY DEF BaseInv, TypeOK
    <2>3. ASSUME NEW a \in Students, NEW b \in Students,
                 BlockFromProfile(a, b) \/ BlockFromConversations(a, b) \/ Unblock(a, b)
          PROVE  BlockCountExact'
      <3>1. \E kind \in {"block", "unblock"}, o \in Students : Ask(kind, a, o)
        BY <2>3 DEF BlockFromProfile, BlockFromConversations, Unblock
      <3>2. PICK kind \in {"block", "unblock"}, o \in Students : Ask(kind, a, o)
        BY <3>1
      <3>3. PICK c \in Call : calls' = calls \cup {c} /\ c.pc = "own"
        BY <2>2, <3>2, NumberedAsk DEF BaseInv
      <3>4. \A k, s : Finished(k, s)' = Finished(k, s)
        BY <3>3 DEF Finished
      <3> QED BY <2>1, <3>2, <3>4 DEF Ask
    <2>4. ASSUME UNCHANGED <<calls, blockCount>>
          PROVE  BlockCountExact'
      BY <2>1, <2>4 DEF Finished
    <2>5. ASSUME NEW a \in Students,
                 \/ OpenBlockList(a) \/ CloseBlockList(a)
                 \/ \E b \in Students : NameArrives(a, b)
          PROVE  BlockCountExact'
      BY <2>4, <2>5 DEF OpenBlockList, CloseBlockList, NameArrives
    <2>6. ASSUME NEW c \in calls, WriteOwn(c)
          PROVE  BlockCountExact'
      <3>1. Step(c, "other") /\ c.pc = "own"
        BY <2>6 DEF WriteOwn, Go, Step
      <3>2. \A kind, b : Finished(kind, b)' = Finished(kind, b)
        BY <2>2, <3>1, FinishedElsewhere DEF Pcs
      <3> QED BY <2>1, <2>6, <3>2 DEF WriteOwn
    <2>7. ASSUME NEW c \in calls, WriteOther(c)
          PROVE  BlockCountExact'
      <3>1. Step(c, "count") /\ c.pc = "other"
        BY <2>7 DEF WriteOther, Go, Step
      <3>2. \A kind, b : Finished(kind, b)' = Finished(kind, b)
        BY <2>2, <3>1, FinishedElsewhere DEF Pcs
      <3> QED BY <2>1, <2>7, <3>2 DEF WriteOther
    <2>8. ASSUME NEW c \in calls, CutShort(c)
          PROVE  BlockCountExact'
      <3>1. Step(c, "lost") /\ c.pc # "done"
        BY <2>8 DEF CutShort, InFlight, Step
      <3>2. \A kind, b : Finished(kind, b)' = Finished(kind, b)
        BY <2>2, <3>1, FinishedElsewhere DEF Pcs
      <3> QED BY <2>1, <2>8, <3>2 DEF CutShort
    <2>9. ASSUME NEW p \in onBlocks, OnBlock(p)
          PROVE  BlockCountExact'
      BY <2>4, <2>9 DEF OnBlock
    <2>10. CASE UNCHANGED vars
      BY <2>4, <2>10 DEF vars
    <2> QED BY <2>3, <2>5, <2>6, <2>7, <2>8, <2>9, <2>10, CountWritten
         DEF Next, AppNext, CallNext
  <1> QED BY <1>1, <1>2, BaseCorrect, PTL DEF Spec

-----------------------------------------------------------------------------
(* What BlockList shows.                                                   *)

\* UnblockAfterBlock, with what keeps it: an entry was written by a block, too.
ShownInv ==
    /\ UnblockAfterBlock
    /\ \A a, b \in Students : b \in blocked[a] => WasBlocked(a, b)

\* A block that was made stays made.
LEMMA WasBlockedStable ==
  ASSUME BaseInv, [Next]_vars, NEW a \in Students, NEW b \in Students, WasBlocked(a, b)
  PROVE  WasBlocked(a, b)'
  <1>1. calls \subseteq Call
    BY DEF BaseInv, TypeOK
  <1>2. PICK c \in calls : c.kind = "block" /\ c.by = a /\ c.of = b /\ c.pc # "own"
    BY DEF WasBlocked
  <1>3. CASE c \in calls'
    BY <1>2, <1>3 DEF WasBlocked
  <1>4. ASSUME NEW e \in calls,
               WriteOwn(e) \/ WriteOther(e) \/ WriteCount(e) \/ CutShort(e)
        PROVE  WasBlocked(a, b)'
    <2>1. PICK pc \in Pcs : Step(e, pc) /\ pc # "own"
      BY <1>4, Stepped
    <2>2. CASE e = c
      <3> DEFINE d == [e EXCEPT !.pc = pc]
      <3>1. d \in calls'
        BY <2>1 DEF Step
      <3>2. d.kind = "block" /\ d.by = a /\ d.of = b /\ d.pc # "own"
        BY <1>1, <1>2, <2>1, <2>2, Advanced
      <3> QED BY <3>1, <3>2 DEF WasBlocked
    <2>3. CASE e # c
      BY <1>3, <2>1, <2>3 DEF Step
    <2> QED BY <2>2, <2>3
  <1>5. CASE \E e \in calls : WriteOwn(e) \/ WriteOther(e) \/ WriteCount(e) \/ CutShort(e)
    BY <1>4, <1>5
  <1>6. CASE ~\E e \in calls : WriteOwn(e) \/ WriteOther(e) \/ WriteCount(e) \/ CutShort(e)
    <2>1. calls \subseteq calls'
      BY <1>6 DEF Next, AppNext, CallNext, OpenBlockList, CloseBlockList, NameArrives, OnBlock,
                  BlockFromProfile, BlockFromConversations, Unblock, Ask, vars
    <2> QED BY <1>3, <2>1
  <1> QED BY <1>5, <1>6

\* Only entries come to be looked up, only looked-up names come to be listed, and
\* only listed students are unblocked.
LEMMA ShownStep == BaseInv /\ ShownInv /\ [Next]_vars => ShownInv'
  <1> SUFFICES ASSUME BaseInv, ShownInv, [Next]_vars
               PROVE  ShownInv'
    OBVIOUS
  <1>1. \A a, b \in Students : WasBlocked(a, b) => WasBlocked(a, b)'
    BY WasBlockedStable
  <1>2. ASSUME \A a, b \in Students :
                   (b \in naming[a] \cup listed[a] \cup blocked[a])' =>
                   b \in naming[a] \cup listed[a] \cup blocked[a] \/ WasBlocked(a, b)',
               \A c \in calls' : c.kind = "unblock" => WasBlocked(c.by, c.of)'
        PROVE  ShownInv'
    BY <1>1, <1>2 DEF ShownInv, UnblockAfterBlock
  <1>3. /\ calls \subseteq Call
        /\ \A c \in calls : c.by \in Students /\ c.of \in Students
        /\ \A c \in calls : c.kind \in {"block", "unblock"}
        /\ blocked \in [Students -> SUBSET Students]
        /\ naming \in [Students -> SUBSET Students]
        /\ listed \in [Students -> SUBSET Students]
    BY DEF BaseInv, TypeOK, Call
  <1>4. \A c \in calls : c.kind = "unblock" => WasBlocked(c.by, c.of)'
    BY <1>1, <1>3 DEF ShownInv, UnblockAfterBlock
  <1>5. ASSUME NEW kind \in {"block", "unblock"}, NEW a \in Students, NEW b \in Students,
               Ask(kind, a, b), kind = "unblock" => WasBlocked(a, b)
        PROVE  ShownInv'
    <2>1. PICK c \in Call : /\ calls' = calls \cup {c} /\ c.kind = kind
                            /\ c.by = a /\ c.of = b
      BY <1>3, <1>5, NumberedAsk DEF BaseInv
    <2>2. UNCHANGED <<blocked, naming, listed>>
      BY <1>5 DEF Ask, screenVars
    <2> QED BY <1>1, <1>2, <1>4, <1>5, <2>1, <2>2
  <1>6. ASSUME NEW a \in Students, NEW b \in Students, Unblock(a, b)
        PROVE  ShownInv'
    BY <1>5, <1>6 DEF Unblock, ShownInv, UnblockAfterBlock
  <1>7. ASSUME NEW a \in Students, NEW b \in Students,
               BlockFromProfile(a, b) \/ BlockFromConversations(a, b)
        PROVE  ShownInv'
    BY <1>5, <1>7 DEF BlockFromProfile, BlockFromConversations
  <1>8. ASSUME NEW a \in Students, OpenBlockList(a) \/ CloseBlockList(a)
        PROVE  ShownInv'
    BY <1>2, <1>3, <1>4, <1>8 DEF OpenBlockList, CloseBlockList
  <1>9. ASSUME NEW a \in Students, NEW b \in Students, NameArrives(a, b)
        PROVE  ShownInv'
    BY <1>2, <1>3, <1>4, <1>9 DEF NameArrives
  <1>10. ASSUME NEW c \in calls,
                WriteOwn(c) \/ WriteOther(c) \/ WriteCount(c) \/ CutShort(c)
         PROVE  ShownInv'
    <2>1. PICK pc \in Pcs : Step(c, pc) /\ pc # "own"
      BY <1>10, Stepped
    <2> DEFINE d == [c EXCEPT !.pc = pc]
    <2>2. d.kind = c.kind /\ d.by = c.by /\ d.of = c.of /\ d.pc = pc
      BY <1>3, Advanced
    <2>3. calls' = (calls \ {c}) \cup {d}
      BY <2>1 DEF Step
    <2> HIDE DEF d
    <2>4. \A e \in calls' : e.kind = "unblock" => WasBlocked(e.by, e.of)'
      BY <1>4, <2>2, <2>3
    <2>5. c.kind = "block" => WasBlocked(c.by, c.of)'
      BY <2>1, <2>2, <2>3 DEF WasBlocked
    <2>6. \A x, y \in Students :
             (y \in naming[x] \cup listed[x] \cup blocked[x])' =>
             \/ y \in naming[x] \cup listed[x] \cup blocked[x]
             \/ x = c.by /\ y = c.of /\ c.kind = "block"
      <3>1. CASE WriteOwn(c)
        BY <1>3, <3>1 DEF WriteOwn
      <3>2. CASE WriteOther(c) \/ WriteCount(c) \/ CutShort(c)
        BY <3>2 DEF WriteOther, WriteCount, CutShort, screenVars
      <3> QED BY <1>10, <3>1, <3>2
    <2> QED BY <1>2, <2>4, <2>5, <2>6
  <1>11. ASSUME NEW p \in onBlocks, OnBlock(p)
         PROVE  ShownInv'
    BY <1>2, <1>4, <1>11 DEF OnBlock, screenVars
  <1>12. CASE UNCHANGED vars
    BY <1>2, <1>4, <1>12 DEF vars, screenVars
  <1> QED BY <1>6, <1>7, <1>8, <1>9, <1>10, <1>11, <1>12 DEF Next, AppNext, CallNext

\* Stale as BlockList may be, nobody is unblocked who was never blocked.
THEOREM UnblockAfterBlockCorrect == Spec => []UnblockAfterBlock
  <1>1. Init => ShownInv
    BY DEF Init, None, ShownInv, UnblockAfterBlock
  <1>2. ShownInv => UnblockAfterBlock
    BY DEF ShownInv
  <1> QED BY <1>1, <1>2, ShownStep, BaseCorrect, PTL DEF Spec

-----------------------------------------------------------------------------
(* Blocking implements BlockBook.                                          *)

Own == {p \in Pairs : p[2] \in blocked[p[1]]}
Other == {p \in Pairs : p[1] \in blockedBy[p[2]]}

\* The pair of a call is one of the pairs, with the entries that the call writes.
LEMMA PairEntries ==
  ASSUME NEW a \in Students, NEW b \in Students
  PROVE  /\ <<a, b>> \in Book!Pairs
         /\ <<a, b>> \in Own <=> b \in blocked[a]
         /\ <<a, b>> \in Other <=> a \in blockedBy[b]
  BY DEF Own, Other, Pairs, Book!Pairs

\* The first write of a call leaves the entry as it is, or decides anew; the other
\* side has been told of the last decision then.
LEMMA OwnDecides ==
  ASSUME BaseInv, SidesExplained, NEW c \in calls, WriteOwn(c)
  PROVE  Own' = Own \/ \E p \in Book!Pairs : Book!Decide(p)
  <1> DEFINE a == c.by
             b == c.of
  <1>1. /\ c \in Call /\ a \in Students /\ b \in Students /\ c.kind \in {"block", "unblock"}
        /\ blocked \in [Students -> SUBSET Students]
    BY DEF BaseInv, TypeOK, Call
  <1>2. UNCHANGED <<blockedBy, disturbed>> /\ c \in Flying(a, b)
    BY DEF WriteOwn, Go, Flying, InFlight
  <1>3. \A x, y \in Students :
            (y \in blocked[x])' <=> IF x = a /\ y = b THEN c.kind = "block" ELSE y \in blocked[x]
    BY <1>1 DEF WriteOwn
  <1>4. CASE b \in blocked[a] <=> c.kind = "block"
    <2>1. \A x, y \in Students : (y \in blocked[x])' <=> y \in blocked[x]
      BY <1>3, <1>4
    <2> QED BY <2>1 DEF Own, Pairs
  <1>5. CASE ~(b \in blocked[a] <=> c.kind = "block")
    <2>1. <<a, b>> \notin disturbed => (b \in blocked[a] <=> a \in blockedBy[b])
      BY <1>1, <1>2, <1>5 DEF SidesExplained
    <2>2. Own' = Book!Toggle(Own, <<a, b>>)
      <3>1. \A p \in Pairs : p \in Own' <=> IF p = <<a, b>> THEN c.kind = "block" ELSE p \in Own
        BY <1>1, <1>3 DEF Own, Pairs
      <3>2. <<a, b>> \in Own <=> b \in blocked[a]
        BY <1>1, PairEntries
      <3>3. Own \subseteq Pairs /\ Own' \subseteq Pairs /\ <<a, b>> \in Pairs
        BY <1>1 DEF Own, Pairs
      <3> QED BY <1>5, <3>1, <3>2, <3>3 DEF Book!Toggle
    <2>3. Other' = Other
      BY <1>2 DEF Other
    <2>4. Book!Decide(<<a, b>>)
      BY <1>1, <1>2, <2>1, <2>2, <2>3, PairEntries DEF Book!Decide, Own, Other
    <2> QED BY <1>1, <2>4, PairEntries
  <1> QED BY <1>4, <1>5

\* The second write of a call leaves the entry as it is, or tells the other side
\* what has been decided and was not told yet.
LEMMA OtherIsTold ==
  ASSUME BaseInv, SidesExplained, NEW c \in calls, WriteOther(c)
  PROVE  Other' = Other \/ \E p \in Book!Pairs : Book!Tell(p)
  <1> DEFINE a == c.by
             b == c.of
  <1>1. /\ c \in Call /\ a \in Students /\ b \in Students /\ c.kind \in {"block", "unblock"}
        /\ blockedBy \in [Students -> SUBSET Students]
    BY DEF BaseInv, TypeOK, Call
  <1>2. UNCHANGED <<blocked, disturbed>> /\ c \in Flying(a, b) /\ c.pc = "other"
    BY DEF WriteOther, Go, Flying, InFlight
  <1>3. \A x, y \in Students :
            (x \in blockedBy[y])' <=> IF x = a /\ y = b THEN c.kind = "block" ELSE x \in blockedBy[y]
    BY <1>1 DEF WriteOther
  <1>4. CASE a \in blockedBy[b] <=> c.kind = "block"
    <2>1. \A x, y \in Students : (x \in blockedBy[y])' <=> x \in blockedBy[y]
      BY <1>3, <1>4
    <2> QED BY <2>1 DEF Other, Pairs
  <1>5. CASE ~(a \in blockedBy[b] <=> c.kind = "block")
    <2>1. <<a, b>> \notin disturbed => ~(b \in blocked[a] <=> a \in blockedBy[b])
      BY <1>1, <1>2, <1>5 DEF SidesExplained
    <2>2. Other' = Book!Toggle(Other, <<a, b>>)
      <3>1. \A p \in Pairs : p \in Other' <=> IF p = <<a, b>> THEN c.kind = "block" ELSE p \in Other
        BY <1>1, <1>3 DEF Other, Pairs
      <3>2. <<a, b>> \in Other <=> a \in blockedBy[b]
        BY <1>1, PairEntries
      <3>3. Other \subseteq Pairs /\ Other' \subseteq Pairs /\ <<a, b>> \in Pairs
        BY <1>1 DEF Other, Pairs
      <3> QED BY <1>5, <3>1, <3>2, <3>3 DEF Book!Toggle
    <2>3. Own' = Own
      BY <1>2 DEF Own
    <2>4. Book!Tell(<<a, b>>)
      BY <1>1, <1>2, <2>1, <2>2, <2>3, PairEntries DEF Book!Tell, Own, Other
    <2> QED BY <1>1, <2>4, PairEntries
  <1> QED BY <1>4, <1>5

\* Every step of the apps and of the calls is a step of BlockBook or leaves it alone.
LEMMA BookStep ==
  ASSUME BaseInv, SidesExplained, [Next]_vars
  PROVE  [Book!Next]_Book!vars
  <1>1. ASSUME UNCHANGED <<blocked, blockedBy, disturbed>>
        PROVE  [Book!Next]_Book!vars
    BY <1>1 DEF Book!vars
  <1>2. ASSUME UNCHANGED <<blocked, blockedBy>>,
               NEW a \in Students, NEW b \in Students, disturbed' = disturbed \cup {<<a, b>>}
        PROVE  [Book!Next]_Book!vars
    <2>1. Book!SetFree(<<a, b>>)
      BY <1>2 DEF Book!SetFree
    <2> QED BY <1>2, <2>1, PairEntries DEF Book!Next
  <1>3. ASSUME NEW a \in Students, NEW b \in Students,
               BlockFromProfile(a, b) \/ BlockFromConversations(a, b) \/ Unblock(a, b)
        PROVE  [Book!Next]_Book!vars
    <2>1. \E kind \in {"block", "unblock"}, o \in Students : Ask(kind, a, o)
      BY <1>3 DEF BlockFromProfile, BlockFromConversations, Unblock
    <2> QED BY <1>1, <1>2, <2>1 DEF Ask
  <1>4. ASSUME NEW c \in calls, CutShort(c)
        PROVE  [Book!Next]_Book!vars
    <2>1. c.by \in Students /\ c.of \in Students
      BY DEF BaseInv, TypeOK, Call
    <2> QED BY <1>2, <1>4, <2>1 DEF CutShort
  <1>5. ASSUME NEW c \in calls, WriteOwn(c)
        PROVE  [Book!Next]_Book!vars
    <2>1. UNCHANGED <<blockedBy, disturbed>>
      BY <1>5 DEF WriteOwn, Go
    <2>2. Own' = Own \/ Book!Next
      BY <1>5, OwnDecides DEF Book!Next
    <2> QED BY <2>1, <2>2 DEF Book!vars, Own
  <1>6. ASSUME NEW c \in calls, WriteOther(c)
        PROVE  [Book!Next]_Book!vars
    <2>1. UNCHANGED <<blocked, disturbed>>
      BY <1>6 DEF WriteOther, Go
    <2>2. Other' = Other \/ Book!Next
      BY <1>6, OtherIsTold DEF Book!Next
    <2> QED BY <2>1, <2>2 DEF Book!vars, Other
  <1>7. ASSUME \/ \E c \in calls : WriteCount(c)
               \/ \E a \in Students : \/ OpenBlockList(a) \/ CloseBlockList(a)
                                      \/ \E b \in Students : NameArrives(a, b)
               \/ \E p \in onBlocks : OnBlock(p)
        PROVE  [Book!Next]_Book!vars
    BY <1>1, <1>7 DEF WriteCount, Go, OpenBlockList, CloseBlockList, NameArrives, OnBlock
  <1>8. CASE UNCHANGED vars
    BY <1>1, <1>8 DEF vars
  <1> HIDE DEF Book!Next, Book!vars
  <1> QED BY <1>3, <1>4, <1>5, <1>6, <1>7, <1>8 DEF Next, AppNext, CallNext

\* Blocking implements BlockBook: however calls of one kind overlap, nothing is
\* decided before the other side has been told of the last decision, and the other
\* side is told of every decision once, in order.
THEOREM BlockingImplementsBook == Spec => ImplementsBook
  <1>1. Init => Book!Init
    BY DEF Init, None, Book!Init, Pairs
  <1>2. BaseInv /\ SidesExplained /\ [Next]_vars => [Book!Next]_Book!vars
    BY BookStep
  <1> QED
    BY <1>1, <1>2, BaseCorrect, SidesExplainedCorrect, PTL DEF Spec, ImplementsBook, Book!Spec
=============================================================================
