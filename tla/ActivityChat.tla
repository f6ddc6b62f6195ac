---------------------------- MODULE ActivityChat ----------------------------
(***************************************************************************)
(* The chats of activities, and the counts of unread messages.             *)
(*                                                                         *)
(* A student's app has one ChatLib object for all its chat screens.  A     *)
(* message is pushed after a network check of unknown length, to the room  *)
(* ChatLib stands for by then, and the function incrementUnread is called  *)
(* with that room and the users of the screen the message was typed on.    *)
(* The function reads and then writes the count of each of those users;    *)
(* reads and writes of several calls interleave, with each other and with  *)
(* the resets made when a chat is opened or closed.  It also notifies the  *)
(* users, and whoever taps the notification opens the chat on a screen     *)
(* that knows of no users.                                                 *)
(*                                                                         *)
(* A count that is not there and a count of 0 are the same to the code.    *)
(* Who is involved in a chat does not change here.                         *)
(***************************************************************************)
EXTENDS Integers, FiniteSets

CONSTANTS
    Students,
    Chats,         \* the activities that have a chat
    Involved,      \* for every chat its host and its confirmed guests
    MaxMessages,   \* bound: messages typed
    MaxFaults,     \* bound: calls of incrementUnread cut short
    NoChat         \* no screen, no room

ASSUME InvolvedAssumption == Involved \in [Chats -> SUBSET Students]
ASSUME FiniteAssumption == IsFiniteSet(Students)
ASSUME BoundsAssumption == MaxMessages \in Nat /\ MaxFaults \in Nat
ASSUME NoChatAssumption == NoChat \notin Chats

Message == [id : Nat, author : Students, typedIn : Chats, userList : SUBSET Students]

\* One round of the loop of incrementUnread: it is to read or to write a count.
Call == [msg : Message, user : Students, chat : Chats, pc : {"read", "write"}, value : Nat]

VARIABLES
    screen,      \* the chat on the screen of each student
    userList,    \* the users the screen was opened with, none if it was given none
    room,        \* taskId and messagesRef of each student's ChatLib
    sent,        \* the number of messages typed
    checking,    \* messages that wait for the network check
    messages,    \* the messages pushed to each room
    calls,       \* what incrementUnread has still to do
    notified,    \* the chats each student has been notified of
    resets,      \* resets issued, not yet in the database
    unread,      \* users/U/messages/C/unreadCount
    touched,     \* history: chats whose count the student has ever reset
    faults

clientVars == <<screen, userList, room, sent, checking>>
vars == <<clientVars, messages, calls, notified, resets, unread, touched, faults>>

Init ==
    /\ screen = [s \in Students |-> NoChat]
    /\ userList = [s \in Students |-> {}]
    /\ room = [s \in Students |-> NoChat]
    /\ sent = 0
    /\ checking = {}
    /\ messages = [c \in Chats |-> {}]
    /\ calls = {}
    /\ notified = [s \in Students |-> {}]
    /\ resets = [s \in Students |-> {}]
    /\ unread = [s \in Students |-> [c \in Chats |-> 0]]
    /\ touched = [s \in Students |-> {}]
    /\ faults = 0

-----------------------------------------------------------------------------
(* The apps.                                                               *)

\* resetUnreadCount is called.
Reset(s, c) ==
    /\ resets' = [resets EXCEPT ![s] = @ \cup {c}]
    /\ touched' = [touched EXCEPT ![s] = @ \cup {c}]

\* ActivityChat mounts with users l.
Mount(s, c, l) ==
    /\ screen[s] = NoChat
    /\ screen' = [screen EXCEPT ![s] = c]
    /\ userList' = [userList EXCEPT ![s] = l]
    /\ room' = [room EXCEPT ![s] = c]
    /\ Reset(s, c)
    /\ UNCHANGED <<sent, checking, messages, calls, notified, unread, faults>>

\* Bug: the chat button is there for everybody.
OpenAnyChat(s, c) == Mount(s, c, Involved[c])

\* The chat button is there for those involved.
OpenChat(s, c) == s \in Involved[c] /\ Mount(s, c, Involved[c])

\* A tapped notification navigates to the chat with the task and nothing else.
\* If a chat is on the screen it stays there.
OpenNotification(s, c) == c \in notified[s] /\ Mount(s, c, {})

\* ActivityChat unmounts.  ChatLib stops listening and keeps its room.
CloseChat(s) ==
    /\ screen[s] # NoChat
    /\ screen' = [screen EXCEPT ![s] = NoChat]
    /\ Reset(s, screen[s])
    /\ UNCHANGED <<userList, room, sent, checking, messages, calls, notified, unread, faults>>

\* Opting out of an activity, or removing it, resets the count as well.
LeaveActivity(s, c) ==
    /\ s \in Involved[c]
    /\ Reset(s, c)
    /\ UNCHANGED <<clientVars, messages, calls, notified, unread, faults>>

\* Bug: the count goes down by one when it is reset.
ResetOne(s, c) ==
    /\ c \in resets[s]
    /\ resets' = [resets EXCEPT ![s] = @ \ {c}]
    /\ unread' = [unread EXCEPT ![s][c] = @ - 1]
    /\ UNCHANGED <<clientVars, messages, calls, notified, touched, faults>>

\* The reset arrives.
ResetWrite(s, c) ==
    /\ c \in resets[s]
    /\ resets' = [resets EXCEPT ![s] = @ \ {c}]
    /\ unread' = [unread EXCEPT ![s][c] = 0]
    /\ UNCHANGED <<clientVars, messages, calls, notified, touched, faults>>

\* sendMessage is called from the chat on the screen.
TypeMessage(s) ==
    /\ screen[s] # NoChat /\ sent < MaxMessages
    /\ sent' = sent + 1
    /\ checking' = checking \cup {[id |-> sent + 1, author |-> s, typedIn |-> screen[s],
                                    userList |-> userList[s]]}
    /\ UNCHANGED <<screen, userList, room, messages, calls, notified, resets, unread,
                   touched, faults>>

\* The function is called for message m in room c.  It refuses a call without
\* users; of each user it notifies the devices and increments the count.
IncrementUnread(m, c) ==
    /\ calls' = calls \cup {[msg |-> m, user |-> u, chat |-> c, pc |-> "read", value |-> 0] :
                                u \in m.userList}
    /\ notified' = [s \in Students |-> IF s \in m.userList THEN notified[s] \cup {c}
                                                          ELSE notified[s]]

\* The app is online: the message is pushed and incrementUnread is called.
PushMessage(m) ==
    LET c == room[m.author] IN
    /\ m \in checking
    /\ checking' = checking \ {m}
    /\ messages' = [messages EXCEPT ![c] = @ \cup {m}]
    /\ IncrementUnread(m, c)
    /\ UNCHANGED <<screen, userList, room, sent, resets, unread, touched, faults>>

\* The app is offline: an alert is shown and the message is dropped.
DropMessage(m) ==
    /\ m \in checking
    /\ checking' = checking \ {m}
    /\ UNCHANGED <<screen, userList, room, sent, messages, calls, notified, resets, unread,
                   touched, faults>>

-----------------------------------------------------------------------------
(* incrementUnread.                                                        *)

ReadCount(t) ==
    /\ t.pc = "read"
    /\ calls' = (calls \ {t}) \cup {[t EXCEPT !.pc = "write", !.value = unread[t.user][t.chat]]}
    /\ UNCHANGED <<clientVars, messages, notified, resets, unread, touched, faults>>

\* Bug: one of the calls writes what it has read.
WriteSameCount(t) ==
    /\ t.pc = "write"
    /\ calls' = calls \ {t}
    /\ unread' = [unread EXCEPT ![t.user][t.chat] = t.value]
    /\ UNCHANGED <<clientVars, messages, notified, resets, touched, faults>>

\* Bug: the count is incremented for the reader and for the writer.
WriteTwo(t) ==
    /\ t.pc = "write"
    /\ calls' = calls \ {t}
    /\ unread' = [unread EXCEPT ![t.user][t.chat] = t.value + 2]
    /\ UNCHANGED <<clientVars, messages, notified, resets, touched, faults>>

WriteCount(t) ==
    /\ t.pc = "write"
    /\ calls' = calls \ {t}
    /\ unread' = [unread EXCEPT ![t.user][t.chat] = t.value + 1]
    /\ UNCHANGED <<clientVars, messages, notified, resets, touched, faults>>

\* incrementUnread returns before its reads do: the platform may stop it there.
CallCutShort(t) ==
    /\ faults < MaxFaults /\ faults' = faults + 1
    /\ calls' = calls \ {t}
    /\ UNCHANGED <<clientVars, messages, notified, resets, unread, touched>>

-----------------------------------------------------------------------------

AppNext ==
    \/ \E s \in Students : \/ CloseChat(s) \/ TypeMessage(s)
                           \/ \E c \in Chats : OpenChat(s, c) \/ OpenNotification(s, c)
                                               \/ LeaveActivity(s, c) \/ ResetWrite(s, c)
    \/ \E m \in checking : PushMessage(m) \/ DropMessage(m)

Next == AppNext \/ \E t \in calls : ReadCount(t) \/ WriteCount(t) \/ CallCutShort(t)

Spec == Init /\ [][Next]_vars

-----------------------------------------------------------------------------

TypeOK ==
    /\ screen \in [Students -> Chats \cup {NoChat}]
    /\ userList \in [Students -> SUBSET Students]
    /\ room \in [Students -> Chats \cup {NoChat}]
    /\ sent \in Nat
    /\ checking \subseteq Message
    /\ messages \in [Chats -> SUBSET Message]
    /\ calls \subseteq Call
    /\ notified \in [Students -> SUBSET Chats]
    /\ resets \in [Students -> SUBSET Chats]
    /\ unread \in [Students -> [Chats -> Nat]]
    /\ touched \in [Students -> SUBSET Chats]
    /\ faults \in Nat

\* The messages of room c that call on the count of student s, and the calls
\* for that count still to be finished.
Mail(s, c) == {m \in messages[c] : s \in m.userList}
CallsFor(s, c) == {t \in calls : t.user = s /\ t.chat = c}

\* However its reads and writes interleave with other calls and with resets,
\* incrementUnread never makes a count announce more messages than were sent,
\* nor count a message before its own write.
NeverOvercounted ==
    \A s \in Students, c \in Chats :
        unread[s][c] + Cardinality(CallsFor(s, c)) <= Cardinality(Mail(s, c))

\* A message may land in another chat than it was typed in, but only in one its
\* author opened.  Only those involved in a chat write there, and those that an
\* earlier message of the chat, typed for them, has led there.
AuthorsWereLed ==
    \A c \in Chats : \A m \in messages[c] :
        /\ {c, m.typedIn} \subseteq touched[m.author]
        /\ m.author \in Involved[c] \/ \E n \in Mail(m.author, c) : n # m

\* Increments may be lost to one another, but never all of them: a count that
\* its student never reset announces something once a message was counted.
AnnouncedUnlessReset ==
    \A s \in Students, c \in Chats :
        /\ faults = 0 /\ c \notin touched[s]
        /\ CallsFor(s, c) = {} /\ Mail(s, c) # {}
        => unread[s][c] > 0
=============================================================================
