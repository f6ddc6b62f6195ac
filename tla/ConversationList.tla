-------------------------- MODULE ConversationList --------------------------
(***************************************************************************)
(* The list of direct messages, on top of the conversations themselves.    *)
(*                                                                         *)
(* The screen reads whom its student has blocked and was blocked by, and   *)
(* from then on listens to the student's entries.  An entry is listed once *)
(* the name of the other student has been looked up; it leaves the list    *)
(* when it is removed, or when the other student comes to be blocked.      *)
(* The rows hide conversations, and lead to the chats once the student's   *)
(* own name has been looked up, wherever the student is by then.           *)
(*                                                                         *)
(* An app hears of its own writes at once, of those of others when they    *)
(* arrive.  The count that a row shows is left out.                        *)
(***************************************************************************)
EXTENDS DirectMessages

CONSTANT Viewers    \* the students who use the list

ASSUME ViewersAssumption == Viewers \subseteq Students

VARIABLES
    stage,        \* how far the screen of each student has come
    blockRecord,  \* users/U/block: those blocked by U, and those who blocked U
    blockedList,  \* those of them that the screen has read
    blockedSince, \* history: those who came to be blocked since it is there
    naming,       \* the entries whose names are looked up
    peopleList,   \* the rows
    asked         \* the rows whose chats are still to be navigated to

screenVars == <<stage, blockedList, blockedSince, naming, peopleList, asked>>
listVars == <<screenVars, blockRecord>>
allVars == <<vars, listVars>>

ListInit ==
    /\ Init
    /\ stage = [s \in Students |-> "closed"]
    /\ blockRecord = [s \in Students |-> {}]
    /\ blockedList = [s \in Students |-> {}]
    /\ blockedSince = [s \in Students |-> {}]
    /\ naming = [s \in Students |-> {}]
    /\ peopleList = [s \in Students |-> {}]
    /\ asked = [s \in Students |-> {}]

\* Where the app of s is still to reset or hide its entry on t.
Touches(s, t) ==
    {i \in 1 .. Len(pending[s]) : pending[s][i].op # "push" /\ pending[s][i].of = t}

\* Is the entry there, as the app sees it?
Seen(s, t) ==
    IF Touches(s, t) = {}
    THEN entry[s][t] # NoEntry
    ELSE \E i \in Touches(s, t) :
            pending[s][i].op = "reset" /\ \A j \in Touches(s, t) : j <= i

-----------------------------------------------------------------------------

\* DirectMessages mounts, and listens to who comes to be blocked.
OpenList(s) ==
    /\ s \in Viewers /\ stage[s] = "closed" /\ screen[s] = NoOne
    /\ stage' = [stage EXCEPT ![s] = "mounted"]
    /\ blockedSince' = [blockedSince EXCEPT ![s] = {}]
    /\ UNCHANGED <<blockRecord, blockedList, naming, peopleList, asked>>

\* getBlockedList.
ReadBlocked(s) ==
    /\ stage[s] = "mounted"
    /\ stage' = [stage EXCEPT ![s] = "read"]
    /\ blockedList' = [blockedList EXCEPT ![s] = blockRecord[s]]
    /\ UNCHANGED <<blockRecord, blockedSince, naming, peopleList, asked>>

\* Bug: only entries that come later are listed.
GetLaterConversations(s) ==
    /\ stage[s] = "read"
    /\ stage' = [stage EXCEPT ![s] = "listening"]
    /\ UNCHANGED <<blockRecord, blockedList, blockedSince, naming, peopleList, asked>>

\* getConversationList: the first entries are those that are there.
GetConversations(s) ==
    /\ stage[s] = "read"
    /\ stage' = [stage EXCEPT ![s] = "listening"]
    /\ naming' = [naming EXCEPT ![s] = {t \in Students : Seen(s, t)} \ blockedList[s]]
    /\ UNCHANGED <<blockRecord, blockedList, blockedSince, peopleList, asked>>

\* Bug: the row is that of no student.
NameNobody(s, t) ==
    /\ t \in naming[s]
    /\ naming' = [naming EXCEPT ![s] = @ \ {t}]
    /\ peopleList' = [peopleList EXCEPT ![s] = @ \cup {0}]
    /\ UNCHANGED <<stage, blockRecord, blockedList, blockedSince, asked>>

\* A name arrives, and with it the row, whoever has come to be blocked meanwhile.
NameArrives(s, t) ==
    /\ t \in naming[s]
    /\ naming' = [naming EXCEPT ![s] = @ \ {t}]
    /\ peopleList' = [peopleList EXCEPT ![s] = @ \cup {t}]
    /\ UNCHANGED <<stage, blockRecord, blockedList, blockedSince, asked>>

CloseList(s) ==
    /\ stage[s] # "closed" /\ screen[s] = NoOne
    /\ stage' = [stage EXCEPT ![s] = "closed"]
    /\ blockedList' = [blockedList EXCEPT ![s] = {}]
    /\ blockedSince' = [blockedSince EXCEPT ![s] = {}]
    /\ naming' = [naming EXCEPT ![s] = {}]
    /\ peopleList' = [peopleList EXCEPT ![s] = {}]
    /\ UNCHANGED <<blockRecord, asked>>

\* blockedListListener: t is blocked by s, or has blocked s.
BlockArrives(s, t) ==
    /\ s # t
    /\ blockRecord' = [blockRecord EXCEPT ![s] = @ \cup {t}]
    /\ peopleList' = [peopleList EXCEPT ![s] = @ \ {t}]
    /\ blockedSince' = IF stage[s] = "closed" THEN blockedSince
                       ELSE [blockedSince EXCEPT ![s] = @ \cup {t}]
    /\ UNCHANGED <<stage, blockedList, naming, asked>>

Unblocked(s, t) ==
    /\ t \in blockRecord[s]
    /\ blockRecord' = [blockRecord EXCEPT ![s] = @ \ {t}]
    /\ UNCHANGED screenVars

\* A row is pressed.
PressRow(s, t) ==
    /\ t \in peopleList[s] /\ screen[s] = NoOne
    /\ asked' = [asked EXCEPT ![s] = @ \cup {t}]
    /\ UNCHANGED <<stage, blockRecord, blockedList, blockedSince, naming, peopleList>>

\* The navigation to the chat of a row that was pressed finds another one there.
NavigateInVain(s, t) ==
    /\ t \in asked[s] /\ screen[s] # NoOne
    /\ asked' = [asked EXCEPT ![s] = @ \ {t}]
    /\ UNCHANGED <<stage, blockRecord, blockedList, blockedSince, naming, peopleList>>

ScreenNext ==
    \E s \in Students :
        \/ OpenList(s) \/ ReadBlocked(s) \/ GetConversations(s) \/ CloseList(s)
        \/ \E t \in Students : \/ NameArrives(s, t) \/ BlockArrives(s, t) \/ Unblocked(s, t)
                                \/ PressRow(s, t) \/ NavigateInVain(s, t)

\* Bug: nothing listens to entries that are removed.
HearAdditions ==
    /\ naming' = [s \in Students |->
                    IF stage[s] = "listening"
                    THEN naming[s] \cup ({t \in Students : ~Seen(s, t) /\ Seen(s, t)'}
                                            \ blockedList[s])
                    ELSE naming[s]]
    /\ UNCHANGED <<stage, blockRecord, blockedList, blockedSince, peopleList>>

\* The listeners to the entries: what a step of the conversations adds is looked
\* up, what it removes leaves the list.
Hear ==
    /\ naming' = [s \in Students |->
                    IF stage[s] = "listening"
                    THEN naming[s] \cup ({t \in Students : ~Seen(s, t) /\ Seen(s, t)'}
                                            \ blockedList[s])
                    ELSE naming[s]]
    /\ peopleList' = [s \in Students |->
                        peopleList[s] \ {t \in Students : Seen(s, t) /\ ~Seen(s, t)'}]
    /\ UNCHANGED <<stage, blockRecord, blockedList, blockedSince>>

HideRow(s, t) == t \in peopleList[s] /\ Hide(s, t) /\ UNCHANGED asked

Navigate(s, t) ==
    /\ t \in asked[s] /\ OpenFromList(s, t)
    /\ asked' = [asked EXCEPT ![s] = @ \ {t}]

ListNext ==
    \/ ScreenNext /\ UNCHANGED vars
    \/ Elsewhere /\ Hear /\ UNCHANGED asked
    \/ \E s, t \in Students : (HideRow(s, t) \/ Navigate(s, t)) /\ Hear

ListSpec == ListInit /\ [][ListNext]_allVars

(* What is read or looked up arrives.                                      *)
FairListSpec ==
    /\ ListSpec
    /\ \A s \in Students :
          /\ WF_allVars((ReadBlocked(s) \/ GetConversations(s)) /\ UNCHANGED vars)
          /\ \A t \in Students : WF_allVars(NameArrives(s, t) /\ UNCHANGED vars)

-----------------------------------------------------------------------------

ListTypeOK ==
    /\ stage \in [Students -> {"closed", "mounted", "read", "listening"}]
    /\ {blockRecord, blockedList, blockedSince, naming, peopleList, asked}
          \subseteq [Students -> SUBSET Students]

\* Although names are looked up while entries come and go, every row is that of an
\* entry that is there, as the app sees it, and no entry has a row twice.  A row that
\* was pressed may be gone by the time it leads to its chat, but that is a chat the
\* conversations allow.
RowsAreEntries ==
    \A s, t \in Students :
        /\ t \in naming[s] \cup peopleList[s] => Seen(s, t)
        /\ t \in asked[s] => entry[s][t] # NoEntry \/ t \in touched[s]
        /\ ~(t \in naming[s] /\ t \in peopleList[s])

\* An entry comes to be listed while the list is there, unless it is hidden, or its
\* student was blocked before the list was opened or since.
EventuallyListed ==
    \A s, t \in Students :
        (stage[s] # "closed" /\ Seen(s, t)) ~>
        (\/ t \in peopleList[s] \/ stage[s] = "closed" \/ ~Seen(s, t)
         \/ t \in blockedList[s] \cup blockedSince[s])
=============================================================================
