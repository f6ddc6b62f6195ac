------------------------------ MODULE Blocking ------------------------------
(***************************************************************************)
(* One student blocks another, or takes it back.                           *)
(*                                                                         *)
(* blockUser and unblockUser answer the app at once and then make three    *)
(* writes, each started by the one before: the entry under "blocked" of    *)
(* the student who blocks, the entry under "blockedBy" of the other, and a *)
(* transaction on the other's blockCount.  Nothing keeps two calls apart,  *)
(* and the platform may stop a call half-way, as the chain is not          *)
(* returned.  A new entry under "blocked" starts onBlock, which is to      *)
(* reject the blocked student as a guest.                                  *)
(*                                                                         *)
(* A profile finds out whether its student is blocked when it is shown     *)
(* already, so that a student can be blocked again.  BlockList looks up    *)
(* the name of each student before it lists them, and drops them when      *)
(* their entry is removed.  Two look-ups of the same name count as one.    *)
(***************************************************************************)
EXTENDS Integers, FiniteSets

CONSTANTS
    Students,
    Interested,   \* for every host the students who asked to join, undecided
    MaxCalls,     \* bound: calls of blockUser and of unblockUser
    MaxFaults     \* bound: calls cut short

ASSUME StudentsAssumption == IsFiniteSet(Students)
ASSUME InterestedAssumption == Interested \in [Students -> SUBSET Students]
ASSUME BoundsAssumption == MaxCalls \in Nat /\ MaxFaults \in Nat

Pairs == Students \X Students

\* A call, in flight or finished; "of" is blocked or unblocked.
Call == [id : Nat, kind : {"block", "unblock"}, by : Students, of : Students,
         pc : {"own", "other", "count", "done", "lost"}]

\* The alert "... has been blocked": who saw it, of whom, on which screen.
Alert == [to : Students, of : Students, on : {"profile", "conversations"}]

VARIABLES
    blocked,      \* users/U/block/blocked
    blockedBy,    \* users/U/block/blockedBy
    blockCount,   \* users/U/blockCount
    calls,        \* the calls, and what each is to write next
    onBlocks,     \* runs of onBlock still to come
    rejected,     \* the guests a host's post has rejected
    open,         \* the students with BlockList on the screen
    naming,       \* the names BlockList looks up
    listed,       \* the students BlockList shows
    alerts,       \* history: alerts, until the student is unblocked
    disturbed,    \* history: pairs with a block and an unblock at once, or one cut short
    faults

screenVars == <<open, naming, listed>>
vars == <<blocked, blockedBy, blockCount, calls, onBlocks, rejected, screenVars,
          alerts, disturbed, faults>>

None == [s \in Students |-> {}]

Init ==
    /\ blocked = None /\ blockedBy = None
    /\ blockCount = [s \in Students |-> 0]
    /\ calls = {} /\ onBlocks = {} /\ rejected = None
    /\ open = {} /\ naming = None /\ listed = None
    /\ alerts = {} /\ disturbed = {}
    /\ faults = 0

InFlight(c) == c.pc \in {"own", "other", "count"}

-----------------------------------------------------------------------------
(* The apps.                                                               *)

\* a calls for kind on b.
Ask(kind, a, b) ==
    /\ Cardinality(calls) < MaxCalls
    /\ calls' = calls \cup {[id |-> Cardinality(calls), kind |-> kind,
                             by |-> a, of |-> b, pc |-> "own"]}
    /\ disturbed' = IF \E c \in calls : InFlight(c) /\ c.kind # kind /\ c.by = a /\ c.of = b
                    THEN disturbed \cup {<<a, b>>} ELSE disturbed
    /\ UNCHANGED <<blocked, blockedBy, blockCount, onBlocks, rejected, screenVars, faults>>

\* "Block" on the profile of b, which may be a's own.
BlockFromProfile(a, b) ==
    /\ Ask("block", a, b)
    /\ alerts' = alerts \cup {[to |-> a, of |-> b, on |-> "profile"]}

\* "Block" on a conversation with b: what is passed on is a's own uid.
BlockFromConversations(a, b) ==
    /\ a # b
    /\ Ask("block", a, a)
    /\ alerts' = alerts \cup {[to |-> a, of |-> b, on |-> "conversations"]}

\* Bug: BlockList hears only of students blocked from now on.
OpenEmptyList(a) ==
    /\ a \notin open
    /\ open' = open \cup {a}
    /\ UNCHANGED <<blocked, blockedBy, blockCount, calls, onBlocks, rejected, naming, listed,
                   alerts, disturbed, faults>>

OpenBlockList(a) ==
    /\ a \notin open
    /\ open' = open \cup {a}
    /\ naming' = [naming EXCEPT ![a] = blocked[a]]
    /\ UNCHANGED <<blocked, blockedBy, blockCount, calls, onBlocks, rejected, listed,
                   alerts, disturbed, faults>>

\* A name arrives, whatever has become of its student's entry.
NameArrives(a, b) ==
    /\ b \in naming[a]
    /\ naming' = [naming EXCEPT ![a] = @ \ {b}]
    /\ listed' = [listed EXCEPT ![a] = @ \cup {b}]
    /\ UNCHANGED <<blocked, blockedBy, blockCount, calls, onBlocks, rejected, open,
                   alerts, disturbed, faults>>

CloseBlockList(a) ==
    /\ a \in open
    /\ open' = open \ {a}
    /\ naming' = [naming EXCEPT ![a] = {}]
    /\ listed' = [listed EXCEPT ![a] = {}]
    /\ UNCHANGED <<blocked, blockedBy, blockCount, calls, onBlocks, rejected,
                   alerts, disturbed, faults>>

Unblock(a, b) ==
    /\ b \in listed[a]
    /\ Ask("unblock", a, b)
    /\ alerts' = {r \in alerts : ~(r.to = a /\ r.of = b)}

-----------------------------------------------------------------------------
(* blockUser and unblockUser.                                              *)

\* Call c has come to step pc, and goes on to the next.
Go(c, pc, next) ==
    /\ c.pc = pc
    /\ calls' = (calls \ {c}) \cup {[c EXCEPT !.pc = next]}
    /\ UNCHANGED <<rejected, open, alerts, disturbed, faults>>

\* The entry under "blocked".  A new one starts onBlock and comes to BlockList,
\* which forgets a removed one.
WriteOwn(c) ==
    /\ Go(c, "own", "other")
    /\ IF c.kind = "block"
       THEN /\ blocked' = [blocked EXCEPT ![c.by] = @ \cup {c.of}]
            /\ onBlocks' = IF c.of \in blocked[c.by] THEN onBlocks
                           ELSE onBlocks \cup {<<c.by, c.of>>}
            /\ naming' = IF c.by \in open /\ c.of \notin blocked[c.by]
                         THEN [naming EXCEPT ![c.by] = @ \cup {c.of}] ELSE naming
            /\ UNCHANGED listed
       ELSE /\ blocked' = [blocked EXCEPT ![c.by] = @ \ {c.of}]
            /\ listed' = IF c.of \in blocked[c.by]
                         THEN [listed EXCEPT ![c.by] = @ \ {c.of}] ELSE listed
            /\ UNCHANGED <<onBlocks, naming>>
    /\ UNCHANGED <<blockedBy, blockCount>>

\* Bugs: the entry is nested too deep; it goes to the wrong student; it is left.
WriteOtherNested(c) ==
    /\ Go(c, "other", "count")
    /\ blockedBy' = [blockedBy EXCEPT ![c.of] = @ \cup {{c.by}}]
    /\ UNCHANGED <<blocked, blockCount, onBlocks, naming, listed>>
WriteOtherSwapped(c) ==
    /\ Go(c, "other", "count")
    /\ blockedBy' = IF c.kind = "block" THEN [blockedBy EXCEPT ![c.by] = @ \cup {c.of}]
                    ELSE [blockedBy EXCEPT ![c.by] = @ \ {c.of}]
    /\ UNCHANGED <<blocked, blockCount, onBlocks, naming, listed>>
WriteOtherOnce(c) ==
    /\ Go(c, "other", "count")
    /\ blockedBy' = [blockedBy EXCEPT ![c.of] = @ \cup {c.by}]
    /\ UNCHANGED <<blocked, blockCount, onBlocks, naming, listed>>

\* The entry under "blockedBy".
WriteOther(c) ==
    /\ Go(c, "other", "count")
    /\ blockedBy' = IF c.kind = "block" THEN [blockedBy EXCEPT ![c.of] = @ \cup {c.by}]
                    ELSE [blockedBy EXCEPT ![c.of] = @ \ {c.by}]
    /\ UNCHANGED <<blocked, blockCount, onBlocks, naming, listed>>

\* Bug: an unblock counts, too.
CountEveryCall(c) ==
    /\ Go(c, "count", "done")
    /\ blockCount' = [blockCount EXCEPT ![c.of] = @ + 1]
    /\ UNCHANGED <<blocked, blockedBy, onBlocks, naming, listed>>

\* The transaction on blockCount.
WriteCount(c) ==
    /\ Go(c, "count", "done")
    /\ blockCount' = [blockCount EXCEPT ![c.of] = IF c.kind = "block" THEN @ + 1 ELSE @ - 1]
    /\ UNCHANGED <<blocked, blockedBy, onBlocks, naming, listed>>

CutShort(c) ==
    /\ InFlight(c)
    /\ faults < MaxFaults /\ faults' = faults + 1
    /\ calls' = (calls \ {c}) \cup {[c EXCEPT !.pc = "lost"]}
    /\ disturbed' = disturbed \cup {<<c.by, c.of>>}
    /\ UNCHANGED <<blocked, blockedBy, blockCount, onBlocks, rejected, screenVars, alerts>>

\* onBlock compares the blocked student with the id of a DataSnapshot, a field
\* that snapshots do not have.
SnapshotId(guest) == "undefined"

OnBlock(p) ==
    /\ onBlocks' = onBlocks \ {p}
    /\ rejected' = [rejected EXCEPT ![p[1]] =
                        @ \cup {g \in Interested[p[1]] : SnapshotId(g) = p[2]}]
    /\ UNCHANGED <<blocked, blockedBy, blockCount, calls, screenVars, alerts, disturbed, faults>>

-----------------------------------------------------------------------------

AppNext ==
    \E a \in Students :
        \/ OpenBlockList(a) \/ CloseBlockList(a)
        \/ \E b \in Students : \/ BlockFromProfile(a, b) \/ BlockFromConversations(a, b)
                               \/ NameArrives(a, b) \/ Unblock(a, b)

CallNext == \E c \in calls : WriteOwn(c) \/ WriteOther(c) \/ WriteCount(c)

Next ==
    \/ AppNext \/ CallNext
    \/ \E c \in calls : CutShort(c)
    \/ \E p \in onBlocks : OnBlock(p)

Spec == Init /\ [][Next]_vars

(* Functions that are not cut short come to their end, and so do look-ups. *)
FairSpec ==
    /\ Spec
    /\ WF_vars(CallNext)
    /\ \A a, b \in Students : WF_vars(NameArrives(a, b))

-----------------------------------------------------------------------------

TypeOK ==
    /\ blocked \in [Students -> SUBSET Students]
    /\ blockedBy \in [Students -> SUBSET Students]
    /\ blockCount \in [Students -> Int]
    /\ calls \subseteq Call
    /\ onBlocks \subseteq Pairs
    /\ rejected \in [Students -> SUBSET Students]
    /\ open \subseteq Students
    /\ naming \in [Students -> SUBSET Students]
    /\ listed \in [Students -> SUBSET Students]
    /\ alerts \subseteq Alert
    /\ disturbed \subseteq Pairs
    /\ faults \in Nat

\* The calls of a on b that are in flight, of one kind or at one step.
Flying(a, b) == {c \in calls : InFlight(c) /\ c.by = a /\ c.of = b}

Mutual(a, b) == b \in blocked[a] /\ a \in blockedBy[b]

\* However calls of the same kind overlap: unless a block met an unblock of the
\* same pair or a call was cut short, the two students' entries agree once no
\* call is in flight.
SidesAgree ==
    \A a, b \in Students :
        <<a, b>> \notin disturbed /\ Flying(a, b) = {}
        => (b \in blocked[a] <=> a \in blockedBy[b])

\* Until then they differ only as a call on its way explains.
SidesExplained ==
    \A a, b \in Students : <<a, b>> \notin disturbed =>
        /\ b \in blocked[a] /\ a \notin blockedBy[b]
           => \E c \in Flying(a, b) : c.kind = "block" /\ c.pc = "other"
        /\ b \notin blocked[a] /\ a \in blockedBy[b]
           => \E c \in Flying(a, b) : c.kind = "unblock" /\ c.pc = "other"
        /\ \A c \in Flying(a, b) :
              /\ c.pc # "own" => (b \in blocked[a] <=> c.kind = "block")
              /\ \A d \in Flying(a, b) : c.kind = d.kind

-----------------------------------------------------------------------------
(* The promise behind the two entries.                                     *)

Book == INSTANCE BlockBook WITH
            own   <- {p \in Pairs : p[2] \in blocked[p[1]]},
            other <- {p \in Pairs : p[1] \in blockedBy[p[2]]},
            free  <- disturbed

\* The chains of writes implement BlockBook: however calls of one kind overlap,
\* the entry of the other student follows that of the one who blocks, change by change.
ImplementsBook == Book!Spec

-----------------------------------------------------------------------------

Finished(kind, b) == {c \in calls : c.kind = kind /\ c.of = b /\ c.pc = "done"}

\* blockCount is the number of completed blocks less that of completed unblocks:
\* no transaction is lost, whoever else blocks the student at the same time.
BlockCountExact ==
    \A b \in Students :
        blockCount[b] = Cardinality(Finished("block", b)) - Cardinality(Finished("unblock", b))

\* a's own entry on b was written by a block.
WasBlocked(a, b) == \E c \in calls : c.kind = "block" /\ c.by = a /\ c.of = b /\ c.pc # "own"

\* BlockList shows, and unblockUser is called for, only students that were blocked
\* at some time: what it shows may be stale, but not out of the blue.
UnblockAfterBlock ==
    /\ \A a, b \in Students : b \in naming[a] \cup listed[a] => WasBlocked(a, b)
    /\ \A c \in calls : c.kind = "unblock" => WasBlocked(c.by, c.of)

\* Whoever is blocked comes to be blocked on both sides, unless unblocked, or the
\* call is cut short.
EventuallyBlocked ==
    \A a, b \in Students :
        (\E c \in calls : c.kind = "block" /\ c.by = a /\ c.of = b) ~>
        (\/ Mutual(a, b) \/ <<a, b>> \in disturbed
         \/ \E c \in calls : c.kind = "unblock" /\ c.by = a /\ c.of = b)

\* While BlockList is on the screen it comes to show who is blocked.
EventuallyListed ==
    \A a, b \in Students :
        (a \in open /\ b \in blocked[a]) ~> (b \in listed[a] \/ a \notin open \/ b \notin blocked[a])

Settled == onBlocks = {} /\ \A c \in calls : ~InFlight(c)

\* "If you block ..., both you and ... won't be able to see each other's posts or
\* send messages to each other": after the alert on a conversation, and no unblock
\* since, the two are hidden from each other.
ConversationsAlertKept ==
    Settled => \A r \in alerts : r.on = "conversations" => Mutual(r.to, r.of)
=============================================================================
