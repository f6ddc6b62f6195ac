------------------------------ MODULE HomeFeed ------------------------------
(***************************************************************************)
(* The deck of cards on the home screen of one student.                    *)
(*                                                                         *)
(* Home.js fills the deck by a load: it reads, one after another, the      *)
(* posts the student has accepted and rejected and the three lists of      *)
(* students whose posts are not to be shown, keeps what it has read as     *)
(* hiddenPosts and blockedList, and only then listens to the live posts    *)
(* and to the lists.  The listeners bring every entry that is there, and   *)
(* from then on every new one.  A refresh or a rewind makes another load;  *)
(* no listener is ever taken off, so that each new post is dealt once for  *)
(* every load so far.  Between its reads, and between the events of its    *)
(* listeners, the student swipes and others post, block and unblock.       *)
(*                                                                         *)
(* Posts are the posts of others; the order of the cards is left out, and  *)
(* any card that is shown may be swiped.  Whether the student is listed    *)
(* as a guest already is a matter of Posts; here the check of a right      *)
(* swipe may answer either.  A right swipe of a student who is soft        *)
(* blocked is a left swipe.                                                *)
(***************************************************************************)
EXTENDS Integers, FiniteSets

CONSTANTS
    Posts,
    Hosts,
    HostOf,        \* the host of each post
    Loads,         \* bound: the loads of one visit; each is used once
    MaxChanges,    \* bound: changes that others make to posts and lists
    MaxJoins       \* bound: right swipes under way for one post

ASSUME HostsAssumption == HostOf \in [Posts -> Hosts]
ASSUME LoadsAssumption == IsFiniteSet(Loads)
ASSUME BoundsAssumption == MaxChanges \in Nat /\ MaxJoins \in Nat

\* The lists of students whose posts are hidden, in the order they are read.
Lists == {"blocked", "blockedBy", "softBlockedUids"}
Choices == {"accepted", "rejected"}

VARIABLES
    live,          \* livePosts, as far as the device has been told
    decided,       \* users/U/hiddenPosts
    barred,        \* the entries of the three lists
    load,          \* the loads: the next step, what is in hand, and a history
    hiddenPosts, blockedList,   \* state of the screen: the lists in force
    deck,          \* state of the screen: how many cards of each post
    away,          \* cards swiped to the right since the stack was last mounted
    fetching,      \* state of the screen: the spinner is shown
    undealt,       \* for each load the posts its listener is still to bring
    unheard,       \* for each load the entries its listeners are still to bring
    checking,      \* right swipes that wait for alreadyAccepted
    joining,       \* right swipes that wait for addAcceptor
    decidedBefore, \* history: decided ever since the lists in force began to be read
    barredBefore,  \* history: entries there ever since then
    changes

database == <<live, decided, barred, changes>>
screen == <<hiddenPosts, blockedList, deck, away, fetching, decidedBefore, barredBefore>>
joins == <<checking, joining>>
events == <<undealt, unheard>>
vars == <<database, load, screen, events, joins>>

Steps == {"idle", "undo"} \cup Choices \cup Lists \cup {"network", "listening"}

\* A load; "decided" and "barred" are what was there when it began and is still.
Load == [step : Steps, hidden : SUBSET Posts, blocked : SUBSET Hosts,
         decided : SUBSET Posts, barred : SUBSET (Lists \X Hosts)]

Blank(s) == [step |-> s, hidden |-> {}, blocked |-> {}, decided |-> {}, barred |-> {}]

Listening == {l \in Loads : load[l].step = "listening"}
Loading == {l \in Loads : load[l].step \notin {"idle", "listening"}}

None == [p \in Posts |-> 0]

Init ==
    /\ live \in SUBSET Posts
    /\ decided \in [Choices -> SUBSET Posts]
    /\ barred \in SUBSET (Lists \X Hosts)
    /\ load = [l \in Loads |-> Blank("idle")]
    /\ hiddenPosts = {} /\ blockedList = {}
    /\ deck = None /\ away = None
    /\ fetching = TRUE
    /\ undealt = [l \in Loads |-> {}] /\ unheard = [l \in Loads |-> {}]
    /\ checking = None /\ joining = None
    /\ decidedBefore = {} /\ barredBefore = {}
    /\ changes = 0

-----------------------------------------------------------------------------
(* Loads.                                                                  *)

\* A load begins to read; the history notes what is there.
Begin(l) ==
    load' = [load EXCEPT ![l] = [Blank("accepted") EXCEPT
                !.decided = decided["accepted"] \cup decided["rejected"], !.barred = barred]]

Mount(l) ==
    /\ \A k \in Loads : load[k].step = "idle"
    /\ Begin(l)
    /\ UNCHANGED <<database, screen, events, joins>>

\* The stack shows no card, and the two buttons instead.
Bare == ~fetching /\ \A p \in Posts : deck[p] <= away[p]

\* A new length of the deck mounts the stack anew: swiped cards show again.
Cards(d) ==
    /\ deck' = d
    /\ away' = IF d = deck THEN away ELSE None

Refresh(l) ==
    /\ Bare
    /\ load[l].step = "idle"
    /\ Cards(None)
    /\ hiddenPosts' = {} /\ blockedList' = {} /\ fetching' = TRUE
    /\ decidedBefore' = {} /\ barredBefore' = {}
    /\ Begin(l)
    /\ UNCHANGED <<database, events, joins>>

\* The left swipes are taken back; a load follows when that is confirmed.
Rewind(l) ==
    /\ Bare
    /\ load[l].step = "idle"
    /\ decided' = [decided EXCEPT !["rejected"] = {}]
    /\ load' = [k \in Loads |-> IF k = l THEN Blank("undo")
                ELSE [load[k] EXCEPT !.decided = @ \ decided["rejected"]]]
    /\ decidedBefore' = decidedBefore \ decided["rejected"]
    /\ UNCHANGED <<live, barred, changes, hiddenPosts, blockedList, deck, away, fetching,
                   barredBefore, events, joins>>

Rewound(l) ==
    /\ load[l].step = "undo"
    /\ fetching' = TRUE
    /\ Begin(l)
    /\ UNCHANGED <<database, hiddenPosts, blockedList, deck, away, decidedBefore,
                   barredBefore, events, joins>>

\* Bug: the rejected posts replace the accepted ones instead of joining them.
ReadHiddenAnew(l) ==
    /\ \/ load[l].step = "accepted" /\ load' = [load EXCEPT ![l].step = "rejected",
                                                    ![l].hidden = decided["accepted"]]
       \/ load[l].step = "rejected" /\ load' = [load EXCEPT ![l].step = "blocked",
                                                    ![l].hidden = decided["rejected"]]
    /\ UNCHANGED <<database, screen, events, joins>>

\* getHiddenPosts reads one of its two sets.
ReadHidden(l) ==
    /\ \/ load[l].step = "accepted" /\ load' = [load EXCEPT ![l].step = "rejected",
                                                    ![l].hidden = @ \cup decided["accepted"]]
       \/ load[l].step = "rejected" /\ load' = [load EXCEPT ![l].step = "blocked",
                                                    ![l].hidden = @ \cup decided["rejected"]]
    /\ UNCHANGED <<database, screen, events, joins>>

AfterList(k) == CASE k = "blocked" -> "blockedBy" [] k = "blockedBy" -> "softBlockedUids"
                  [] k = "softBlockedUids" -> "network"

\* getBlockedList reads one of its three lists.
ReadList(l) ==
    LET k == load[l].step IN
    /\ k \in Lists
    /\ load' = [load EXCEPT ![l].step = AfterList(k),
                            ![l].blocked = @ \cup {h \in Hosts : <<k, h>> \in barred}]
    /\ UNCHANGED <<database, screen, events, joins>>

\* Bugs: only new posts are dealt; the lists are not listened to.
ListenFromNow(l) ==
    /\ load[l].step = "network"
    /\ hiddenPosts' = load[l].hidden /\ blockedList' = load[l].blocked
    /\ decidedBefore' = load[l].decided /\ barredBefore' = load[l].barred
    /\ load' = [load EXCEPT ![l] = Blank("listening")]
    /\ unheard' = [unheard EXCEPT ![l] = barred]
    /\ fetching' = FALSE
    /\ UNCHANGED <<database, deck, away, undealt, joins>>
ListenToPostsOnly(l) ==
    /\ load[l].step = "network"
    /\ hiddenPosts' = load[l].hidden /\ blockedList' = load[l].blocked
    /\ decidedBefore' = load[l].decided /\ barredBefore' = load[l].barred
    /\ load' = [load EXCEPT ![l] = Blank("listening")]
    /\ undealt' = [undealt EXCEPT ![l] = live]
    /\ fetching' = FALSE
    /\ UNCHANGED <<database, deck, away, unheard, joins>>

\* The last answer: what was read comes into force, and the listeners are attached.
Listen(l) ==
    /\ load[l].step = "network"
    /\ hiddenPosts' = load[l].hidden /\ blockedList' = load[l].blocked
    /\ decidedBefore' = load[l].decided /\ barredBefore' = load[l].barred
    /\ load' = [load EXCEPT ![l] = Blank("listening")]
    /\ undealt' = [undealt EXCEPT ![l] = live]
    /\ unheard' = [unheard EXCEPT ![l] = barred]
    /\ fetching' = FALSE
    /\ UNCHANGED <<database, deck, away, joins>>

-----------------------------------------------------------------------------
(* Events of the listeners.                                                *)

\* child_added of a live post.
Deal(l, p) ==
    /\ p \in undealt[l]
    /\ undealt' = [undealt EXCEPT ![l] = @ \ {p}]
    /\ Cards(IF p \in hiddenPosts \/ HostOf[p] \in blockedList THEN deck
             ELSE [deck EXCEPT ![p] = @ + 1])
    /\ fetching' = FALSE
    /\ UNCHANGED <<database, load, hiddenPosts, blockedList, decidedBefore, barredBefore,
                   unheard, joins>>

\* child_added of an entry of a list: the cards of the host go; blockedList stays.
Hear(l, k, h) ==
    /\ <<k, h>> \in unheard[l]
    /\ unheard' = [unheard EXCEPT ![l] = @ \ {<<k, h>>}]
    /\ Cards([p \in Posts |-> IF HostOf[p] = h THEN 0 ELSE deck[p]])
    /\ UNCHANGED <<database, load, hiddenPosts, blockedList, fetching, decidedBefore,
                   barredBefore, undealt, joins>>

-----------------------------------------------------------------------------
(* The student.                                                            *)

Shown(p) == deck[p] > away[p]

\* decideOnPost takes all cards of the post, and notes the rejection.
SwipeLeft(p) ==
    /\ Shown(p)
    /\ Cards([deck EXCEPT ![p] = 0])
    /\ decided' = [decided EXCEPT !["rejected"] = @ \cup {p}]
    /\ UNCHANGED <<live, barred, changes, load, hiddenPosts, blockedList, fetching,
                   decidedBefore, barredBefore, events, joins>>

\* acceptTaskNew: the card leaves the stack, but stays in the deck.
SwipeRight(p) ==
    /\ Shown(p)
    /\ checking[p] + joining[p] < MaxJoins
    /\ away' = [away EXCEPT ![p] = @ + 1]
    /\ checking' = [checking EXCEPT ![p] = @ + 1]
    /\ UNCHANGED <<database, load, hiddenPosts, blockedList, deck, fetching, decidedBefore,
                   barredBefore, events, joining>>

Checked(p, listed) ==
    /\ checking[p] > 0
    /\ checking' = [checking EXCEPT ![p] = @ - 1]
    /\ joining' = IF listed THEN joining ELSE [joining EXCEPT ![p] = @ + 1]
    /\ UNCHANGED <<database, load, screen, events>>

\* addAcceptor notes the acceptance; then all cards of the post go.
Joined(p) ==
    /\ joining[p] > 0
    /\ joining' = [joining EXCEPT ![p] = @ - 1]
    /\ decided' = [decided EXCEPT !["accepted"] = @ \cup {p}]
    /\ Cards([deck EXCEPT ![p] = 0])
    /\ UNCHANGED <<live, barred, changes, load, hiddenPosts, blockedList, fetching,
                   decidedBefore, barredBefore, events, checking>>

-----------------------------------------------------------------------------
(* The others.                                                             *)

Change == changes < MaxChanges /\ changes' = changes + 1

GoesLive(p) ==
    /\ Change
    /\ p \notin live
    /\ live' = live \cup {p}
    /\ undealt' = [l \in Loads |-> IF l \in Listening THEN undealt[l] \cup {p} ELSE undealt[l]]
    /\ UNCHANGED <<decided, barred, load, screen, unheard, joins>>

\* Bug: one card is taken off, whether there are several or none.
EndsOneCard(p) ==
    /\ Change
    /\ p \in live
    /\ live' = live \ {p}
    /\ undealt' = [l \in Loads |-> undealt[l] \ {p}]
    /\ Cards([deck EXCEPT ![p] = @ - 1])
    /\ UNCHANGED <<decided, barred, load, hiddenPosts, blockedList, fetching, decidedBefore,
                   barredBefore, unheard, joins>>

\* child_removed: all cards of the post go.
Ends(p) ==
    /\ Change
    /\ p \in live
    /\ live' = live \ {p}
    /\ undealt' = [l \in Loads |-> undealt[l] \ {p}]
    /\ Cards([deck EXCEPT ![p] = 0])
    /\ UNCHANGED <<decided, barred, load, hiddenPosts, blockedList, fetching, decidedBefore,
                   barredBefore, unheard, joins>>

\* An entry comes; the listeners are to bring it.
Bar(k, h) ==
    /\ Change
    /\ <<k, h>> \notin barred
    /\ barred' = barred \cup {<<k, h>>}
    /\ unheard' = [l \in Loads |-> IF l \in Listening THEN unheard[l] \cup {<<k, h>>}
                                   ELSE unheard[l]]
    /\ UNCHANGED <<live, decided, load, screen, undealt, joins>>

\* An entry goes; Home.js does not listen for that.
Unbar(k, h) ==
    /\ Change
    /\ <<k, h>> \in barred
    /\ barred' = barred \ {<<k, h>>}
    /\ load' = [l \in Loads |-> [load[l] EXCEPT !.barred = @ \ {<<k, h>>}]]
    /\ barredBefore' = barredBefore \ {<<k, h>>}
    /\ UNCHANGED <<live, decided, hiddenPosts, blockedList, deck, away, fetching, decidedBefore,
                   events, joins>>

-----------------------------------------------------------------------------

LoadNext(l) == ReadHidden(l) \/ ReadList(l) \/ Listen(l) \/ Rewound(l)

EventNext(l) ==
    \/ \E p \in Posts : Deal(l, p)
    \/ \E k \in Lists, h \in Hosts : Hear(l, k, h)

StudentNext ==
    \/ \E l \in Loads : Mount(l) \/ Refresh(l) \/ Rewind(l)
    \/ \E p \in Posts : \/ SwipeLeft(p) \/ SwipeRight(p) \/ Joined(p)
                        \/ \E listed \in BOOLEAN : Checked(p, listed)

OthersNext ==
    \/ \E p \in Posts : GoesLive(p) \/ Ends(p)
    \/ \E k \in Lists, h \in Hosts : Bar(k, h) \/ Unbar(k, h)

Next == StudentNext \/ OthersNext \/ \E l \in Loads : LoadNext(l) \/ EventNext(l)

Spec == Init /\ [][Next]_vars

(* Reads are answered, and listeners bring what is there.                  *)
FairSpec ==
    /\ Spec
    /\ \A l \in Loads : WF_vars(LoadNext(l))
    /\ \A l \in Loads, p \in Posts : WF_vars(Deal(l, p))

-----------------------------------------------------------------------------

TypeOK ==
    /\ live \subseteq Posts
    /\ decided \in [Choices -> SUBSET Posts]
    /\ barred \subseteq Lists \X Hosts
    /\ load \in [Loads -> Load]
    /\ hiddenPosts \subseteq Posts /\ blockedList \subseteq Hosts
    /\ deck \in [Posts -> Nat] /\ away \in [Posts -> Nat]
    /\ fetching \in BOOLEAN
    /\ undealt \in [Loads -> SUBSET Posts]
    /\ unheard \in [Loads -> SUBSET (Lists \X Hosts)]
    /\ checking \in [Posts -> Nat] /\ joining \in [Posts -> Nat]
    /\ decidedBefore \subseteq Posts
    /\ barredBefore \subseteq Lists \X Hosts
    /\ changes \in Nat

Bringing(p) == {l \in Loads : p \in undealt[l]}

\* A post that is live has at most one card for each load whose listeners are
\* attached, those counted that are still to be dealt; one that is not has none.
CopiesPerLoad ==
    \A p \in Posts : deck[p] + Cardinality(Bringing(p)) <=
                        IF p \in live THEN Cardinality(Listening) ELSE 0

HostsOf(entries) == {e[2] : e \in entries}

\* A student who is barred ever since the load in force began has no card once the
\* listeners have brought the entry: neither the three reads, nor cards that were
\* dealt while the lists were empty, let a post of theirs stay.
BarredStayOut ==
    \A e \in barredBefore : (\A l \in Loads : e \notin unheard[l])
        => \A p \in Posts : HostOf[p] = e[2] => deck[p] = 0

\* No card is dealt for a post that was decided, or of a student who was barred, ever
\* since the load in force began.
DealtUndecided ==
    [][\A p \in Posts : deck'[p] > deck[p] =>
          p \notin decidedBefore /\ HostOf[p] \notin HostsOf(barredBefore)]_vars

Wanted(p) ==
    /\ p \in live
    /\ \A c \in Choices : p \notin decided[c]
    /\ HostOf[p] \notin HostsOf(barred)

\* A load that nothing overlaps brings every live post that is neither decided nor of
\* a barred student to the deck, however refreshes and swipes go on.
EventuallyDealt ==
    \A p \in Posts, l \in Loads :
        (load[l].step = "accepted" /\ Loading = {l} /\ Wanted(p)) ~>
        (deck[p] > 0 \/ ~Wanted(p) \/ Cardinality(Loading) > 1)
=============================================================================
