--------------------------- MODULE DirectMessages ---------------------------
(***************************************************************************)
(* Direct messages between two students, and the entry that each of them   *)
(* keeps of the conversation, with its count of unread messages.           *)
(*                                                                         *)
(* An entry has four writers.  The app of its student resets it when the   *)
(* chat is opened and when it is closed, and removes it when the           *)
(* conversation is hidden; onNewDirectMsgConv sets both entries of a new   *)
(* conversation to 1; incrementUnreadDirect reads the count of the entry   *)
(* and writes back one more; and every write makes the entry anew if it is *)
(* not there.  What an app writes reaches the database later, in order;    *)
(* what it asks of a function, and what a function does, in any order.     *)
(*                                                                         *)
(* As with the chats of activities, an app has one ChatLibDirect, and a    *)
(* message goes to whom that stands for when the network check is over.    *)
(* A tapped notification of a direct message names a screen that does not  *)
(* exist, so that it opens nothing.                                        *)
(***************************************************************************)
EXTENDS Integers, FiniteSets, Sequences

CONSTANTS
    Students,      \* uids, which are compared to name a room
    Allowing,      \* the students who allow direct messages
    MaxMessages,   \* bound: messages typed
    MaxPending,    \* bound: writes of an app under way when it makes another
    MaxVisits,     \* bound: chats opened and conversations hidden
    MaxFaults,     \* bound: calls cut short, events delivered again
    NoOne          \* no screen

ASSUME StudentsAssumption == Students \subseteq Nat /\ IsFiniteSet(Students)
ASSUME AllowingAssumption == Allowing \subseteq Students
ASSUME BoundsAssumption == {MaxMessages, MaxPending, MaxVisits, MaxFaults} \subseteq Nat
ASSUME NoOneAssumption == NoOne \notin Students

Rooms == {r \in Students \X Students : r[1] < r[2]}

Room(a, b) == IF a < b THEN <<a, b>> ELSE <<b, a>>

NoEntry == -1

Message == [id : Nat, author : Students, typedFor : Students]

\* What an app writes: a message pushed to the room with "of", or its entry on "of".
Write == [op : {"push", "reset", "hide"}, of : Students, msgs : SUBSET Message]

\* A run of onNewDirectMsgConv: whose entry of the two is next.
Run == [room : Rooms, next : {1, 2}]

\* A call of incrementUnreadDirect for the entry of "to" on the author.
Call == [msg : Message, to : Students, pc : {"read", "write"}, value : Nat \cup {NoEntry}]

VARIABLES
    screen,      \* whom the chat on the screen of each student is with
    target,      \* targetUid and messagesRef of each student's ChatLibDirect
    sent,        \* the number of messages typed
    checking,    \* messages that wait for the network check
    visits,      \* the number of chats opened and conversations hidden
    pending,     \* what each app has still to write, in order
    rooms,       \* directMessages/R
    newRooms,    \* runs of onNewDirectMsgConv
    calls,       \* calls of incrementUnreadDirect
    entry,       \* users/U/directMessages/V: its unreadCount, if it is there
    pushed,      \* history: the messages V's app has pushed for U, for U and V
    opened,      \* history: whom each student has had a chat with on the screen
    touched,     \* history: the entries each student has ever reset or hidden
    faults

appVars == <<screen, target, sent, checking, visits, pending>>
vars == <<appVars, rooms, newRooms, calls, entry, pushed, opened, touched, faults>>

Init ==
    /\ screen = [s \in Students |-> NoOne]
    /\ target = [s \in Students |-> NoOne]
    /\ sent = 0
    /\ checking = {}
    /\ visits = 0
    /\ pending = [s \in Students |-> <<>>]
    /\ rooms = [r \in Rooms |-> {}]
    /\ newRooms = {}
    /\ calls = {}
    /\ entry = [s \in Students |-> [t \in Students |-> NoEntry]]
    /\ pushed = [s \in Students |-> [t \in Students |-> {}]]
    /\ opened = [s \in Students |-> {}]
    /\ touched = [s \in Students |-> {}]
    /\ faults = 0

-----------------------------------------------------------------------------
(* The apps.                                                               *)

Issue(s, op, t, msgs) ==
    /\ Len(pending[s]) < MaxPending
    /\ pending' = [pending EXCEPT ![s] = Append(@, [op |-> op, of |-> t, msgs |-> msgs])]

\* The app of s resets or hides its entry on t.
Touch(s, op, t) ==
    /\ Issue(s, op, t, {})
    /\ touched' = [touched EXCEPT ![s] = @ \cup {t}]

Visit == visits < MaxVisits /\ visits' = visits + 1

\* Bug: a chat that is on the screen stays there, but ChatLibDirect turns away from it.
MountUnderneath(s, t) ==
    /\ s # t /\ Visit
    /\ target' = [target EXCEPT ![s] = t]
    /\ IF screen[s] = NoOne
       THEN screen' = [screen EXCEPT ![s] = t] /\ opened' = [opened EXCEPT ![s] = @ \cup {t}]
       ELSE UNCHANGED <<screen, opened>>
    /\ Touch(s, "reset", t)
    /\ UNCHANGED <<sent, checking, rooms, newRooms, calls, entry, pushed, faults>>

\* DirectChat mounts.  If a chat is on the screen it stays there.
Mount(s, t) ==
    /\ s # t /\ screen[s] = NoOne /\ Visit
    /\ screen' = [screen EXCEPT ![s] = t]
    /\ target' = [target EXCEPT ![s] = t]
    /\ opened' = [opened EXCEPT ![s] = @ \cup {t}]
    /\ Touch(s, "reset", t)
    /\ UNCHANGED <<sent, checking, rooms, newRooms, calls, entry, pushed, faults>>

\* Bug: the button is on every profile.
OpenAnyProfile(s, t) == Mount(s, t)

\* "Direct Message" on a profile.
OpenFromProfile(s, t) == t \in Allowing /\ Mount(s, t)

\* A row of the list of conversations, which shows entries, or showed them.
OpenFromList(s, t) == (entry[s][t] # NoEntry \/ t \in touched[s]) /\ Mount(s, t)

\* Bug: ChatLibDirect forgets whom the chat was with.
CloseAndForget(s) ==
    /\ screen[s] # NoOne
    /\ screen' = [screen EXCEPT ![s] = NoOne]
    /\ target' = [target EXCEPT ![s] = NoOne]
    /\ Touch(s, "reset", screen[s])
    /\ UNCHANGED <<sent, checking, visits, rooms, newRooms, calls, entry, pushed, opened, faults>>

\* DirectChat unmounts.
CloseChat(s) ==
    /\ screen[s] # NoOne
    /\ screen' = [screen EXCEPT ![s] = NoOne]
    /\ Touch(s, "reset", screen[s])
    /\ UNCHANGED <<target, sent, checking, visits, rooms, newRooms, calls, entry, pushed,
                   opened, faults>>

\* "Hide" on a row of that list.
Hide(s, t) ==
    /\ screen[s] = NoOne /\ Visit
    /\ entry[s][t] # NoEntry \/ t \in touched[s]
    /\ Touch(s, "hide", t)
    /\ UNCHANGED <<screen, target, sent, checking, rooms, newRooms, calls, entry, pushed,
                   opened, faults>>

TypeMessage(s) ==
    /\ screen[s] # NoOne /\ sent < MaxMessages
    /\ sent' = sent + 1
    /\ checking' = checking \cup {[id |-> sent + 1, author |-> s, typedFor |-> screen[s]]}
    /\ UNCHANGED <<screen, target, visits, pending, rooms, newRooms, calls, entry, pushed, opened,
                   touched, faults>>

\* The app is online: the message is pushed and incrementUnreadDirect is called.
PushMessage(m) ==
    LET t == target[m.author] IN
    /\ m \in checking
    /\ checking' = checking \ {m}
    /\ Issue(m.author, "push", t, {m})
    /\ calls' = calls \cup {[msg |-> m, to |-> t, pc |-> "read", value |-> 0]}
    /\ pushed' = [pushed EXCEPT ![t][m.author] = @ \cup {m}]
    /\ UNCHANGED <<screen, target, sent, visits, rooms, newRooms, entry, opened, touched,
                   faults>>

\* The app is offline: an alert is shown and the message is dropped.
DropMessage(m) ==
    /\ m \in checking
    /\ checking' = checking \ {m}
    /\ UNCHANGED <<screen, target, sent, visits, pending, rooms, newRooms, calls, entry, pushed,
                   opened, touched, faults>>

-----------------------------------------------------------------------------
(* The database.                                                           *)

SetEntry(s, t, n) == entry' = [entry EXCEPT ![s][t] = n]

\* The next write of an app arrives.  The first message makes the conversation.  A
\* reset sets the entry whether it is there or not: a hidden one comes back.
Arrive(s) ==
    LET w == Head(pending[s])
        r == Room(s, w.of) IN
    /\ pending[s] # <<>>
    /\ pending' = [pending EXCEPT ![s] = Tail(@)]
    /\ \/ /\ w.op = "push"
          /\ rooms' = [rooms EXCEPT ![r] = @ \cup w.msgs]
          /\ newRooms' = newRooms \cup (IF rooms[r] = {} THEN {[room |-> r, next |-> 1]} ELSE {})
          /\ UNCHANGED entry
       \/ w.op = "reset" /\ SetEntry(s, w.of, 0) /\ UNCHANGED <<rooms, newRooms>>
       \/ w.op = "hide" /\ SetEntry(s, w.of, NoEntry) /\ UNCHANGED <<rooms, newRooms>>
    /\ UNCHANGED <<screen, target, sent, checking, visits, calls, pushed, opened, touched,
                   faults>>

\* Bugs: the entry is on its own student; a new conversation starts with 0.
MakeEntryOnSelf(n) ==
    /\ newRooms' = (newRooms \ {n}) \cup (IF n.next = 1 THEN {[n EXCEPT !.next = 2]} ELSE {})
    /\ SetEntry(n.room[n.next], n.room[n.next], 1)
    /\ UNCHANGED <<appVars, rooms, calls, pushed, opened, touched, faults>>
MakeEntryEmpty(n) ==
    /\ newRooms' = (newRooms \ {n}) \cup (IF n.next = 1 THEN {[n EXCEPT !.next = 2]} ELSE {})
    /\ SetEntry(n.room[n.next], n.room[3 - n.next], 0)
    /\ UNCHANGED <<appVars, rooms, calls, pushed, opened, touched, faults>>

\* onNewDirectMsgConv: the entry of the lesser uid, then that of the other, the
\* author's included.
MakeEntry(n) ==
    /\ newRooms' = (newRooms \ {n}) \cup (IF n.next = 1 THEN {[n EXCEPT !.next = 2]} ELSE {})
    /\ SetEntry(n.room[n.next], n.room[3 - n.next], 1)
    /\ UNCHANGED <<appVars, rooms, calls, pushed, opened, touched, faults>>

ReadCount(c) ==
    /\ c.pc = "read"
    /\ calls' = (calls \ {c}) \cup {[c EXCEPT !.pc = "write", !.value = entry[c.to][c.msg.author]]}
    /\ UNCHANGED <<appVars, rooms, newRooms, entry, pushed, opened, touched, faults>>

\* Bug: an entry that is there is incremented twice.
TwoMore(n) == n + 2

\* The count that was read, 0 if there was no entry, and one more.
OneMore(n) == IF n = NoEntry THEN 1 ELSE n + 1

WriteCount(c) ==
    /\ c.pc = "write"
    /\ calls' = calls \ {c}
    /\ SetEntry(c.to, c.msg.author, OneMore(c.value))
    /\ UNCHANGED <<appVars, rooms, newRooms, pushed, opened, touched, faults>>

Fault == faults < MaxFaults /\ faults' = faults + 1

\* incrementUnreadDirect returns before its reads do: the platform may stop it there.
CallCutShort(c) ==
    /\ Fault
    /\ calls' = calls \ {c}
    /\ UNCHANGED <<appVars, rooms, newRooms, entry, pushed, opened, touched>>

\* The platform starts onNewDirectMsgConv once more.
DeliveredAgain(n) ==
    /\ Fault
    /\ newRooms' = newRooms \cup {[n EXCEPT !.next = 1]}
    /\ UNCHANGED <<appVars, rooms, calls, entry, pushed, opened, touched>>

-----------------------------------------------------------------------------

\* What the list of conversations leads to, and everything else.
FromList(s, t) == OpenFromList(s, t) \/ Hide(s, t)

AppNext ==
    \/ \E s \in Students : \/ CloseChat(s) \/ TypeMessage(s)
                           \/ \E t \in Students : OpenFromProfile(s, t)
    \/ \E m \in checking : PushMessage(m) \/ DropMessage(m)

DatabaseNext ==
    \/ \E s \in Students : Arrive(s)
    \/ \E n \in newRooms : MakeEntry(n) \/ DeliveredAgain(n)
    \/ \E c \in calls : ReadCount(c) \/ WriteCount(c) \/ CallCutShort(c)

Elsewhere == AppNext \/ DatabaseNext

Next == Elsewhere \/ \E s, t \in Students : FromList(s, t)

Spec == Init /\ [][Next]_vars

-----------------------------------------------------------------------------

TypeOK ==
    /\ screen \in [Students -> Students \cup {NoOne}]
    /\ target \in [Students -> Students \cup {NoOne}]
    /\ sent \in Nat
    /\ checking \subseteq Message
    /\ visits \in Nat
    /\ pending \in [Students -> Seq(Write)]
    /\ rooms \in [Rooms -> SUBSET Message]
    /\ newRooms \subseteq Run
    /\ calls \subseteq Call
    /\ entry \in [Students -> [Students -> Nat \cup {NoEntry}]]
    /\ pushed \in [Students -> [Students -> SUBSET Message]]
    /\ opened \in [Students -> SUBSET Students]
    /\ touched \in [Students -> SUBSET Students]
    /\ faults \in Nat

\* The calls for the entry of s on t that are still to be finished.
CallsFor(s, t) == {c \in calls : c.to = s /\ c.msg.author = t}

Unread(s, t) == IF entry[s][t] = NoEntry THEN 0 ELSE entry[s][t]

\* Of the messages pushed for s by t a count announces at most one too many, the
\* one that a new conversation starts with, however the four writers of the entry
\* interleave and whatever is delivered twice.
AtMostOneTooMany ==
    \A s, t \in Students :
        Unread(s, t) + Cardinality(CallsFor(s, t)) <= Cardinality(pushed[s][t]) + 1

\* Has anything been written to the room of s and t, or is it on its way?
Written(s, t) == pushed[s][t] # {} \/ pushed[t][s] # {}

\* A conversation is listed by its student only if the student has opened the chat
\* or one of the two has written to the other: no late write of a function or an
\* app makes an entry out of the blue, or with a third student.
EntriesHaveCause ==
    \A s, t \in Students : entry[s][t] # NoEntry => t \in opened[s] \/ Written(s, t)

\* Whether its chat was changed under way or not, a message lies only in rooms of
\* its author, with students the author had a chat with.
MessagesStayAmongOpened ==
    \A r \in Rooms : \A m \in rooms[r] :
        \E t \in Students : /\ r = Room(m.author, t)
                            /\ {t, m.typedFor} \subseteq opened[m.author]

\* Nobody has a chat with a student who does not allow it, unless that student, or
\* an entry left from an earlier chat, has led there.
OpenedWasAllowed ==
    \A s \in Students : \A t \in opened[s] :
        t \in Allowing \/ s \in opened[t]

\* Increments may be lost to one another, to a reset or to the start of the
\* conversation, but never all of them: an entry that its student has never reset or
\* hidden announces something once a message was counted.
AnnouncedUnlessTouched ==
    \A s, t \in Students :
        /\ faults = 0 /\ t \notin touched[s]
        /\ CallsFor(s, t) = {} /\ pushed[s][t] # {}
        => entry[s][t] > 0
=============================================================================
