# Tagmate in TLA+

Tagmate is a React-Native app with a serverless back end: the apps write to a Firebase Realtime Database, and Cloud
Functions (`src/functions/index.js`) react to the writes or are called by the apps. There is no server that orders
anything. What is hard to get right is therefore always of the same kind: several apps and several functions, each
making its database operations one by one, in any order, on data that is kept in more than one place.

This directory holds the specifications of that machinery, the TLC runs on small instances, and TLAPS proofs for
instances of any size. Paths below are relative to the repository; `FN` stands for `functions/index.js` and `FU` for
`src/lib/firebaseUtils.js`.

## Inventory

| Part | State | Operations | Interacts with |
|---|---|---|---|
| **Post lifecycle** (FN, FU, `CreatePost`, `DashboardDetails`, `GuestList`, `EditEvent`, `Home`) | the post in `networks/N/allPosts`, its live copy in `livePosts`, its copies on the dashboards of host and guests | create, edit, close the guest list, accept, reject, join, opt out, mark as done, remove; functions `addLivePosts`, `manageLivePosts`, `manageDonePosts`, `onConfirmGuest` | decks and dashboards read the copies; notifications; `onBlock` writes `acceptorIds` |
| **Activity chat** (`ChatLib`, `ActivityChat`, `App`, FN `incrementUnread`) | messages per room, `unreadCount` per student and chat, the room and users of the app's one `ChatLib` object | open, close, send, increment, reset | who is involved comes from the post; `sendUnreadPushNotification` |
| **Blocking** (FN `blockUser`, `unblockUser`, `onBlock`, `ViewProfile`, `DirectMessages`, `BlockList`) | `block/blocked`, `block/blockedBy`, `blockCount` | block, unblock, list, reject blocked guests | feeds, conversations and guest lists hide blocked students |
| **Direct messages** (`ChatLibDirect`, `DirectChat`, `DirectMessages`, FN `onNewDirectMsgConv`, `incrementUnreadDirect`, `onDirectMsgDelete`) | an entry per conversation and student, messages per room, the rows of the list of conversations | start, send, increment, reset, hide, list | blocking |
| **Home feed** (`Home`, FU `getHiddenPosts`, `getBlockedList`) | the deck, the posts decided upon, the lists of barred students as they were read | load, refresh, listen, swipe, rewind | live posts, blocking, joining |
| **Device tokens, notifications** (FU `saveDeviceToken`, FN `send...`, `Notification`) | array of tokens per user | save, send | everything that changes a count |
| **Sign-up, network gate** (`Login`, `EmailLogin`, `Loading`, `AuthActions`, FU `addNetworkDetails`, `setInitialThumbnail`, FN `setDirectMsgTrue`) | the record of the student; who is signed in | sign in, set the record, add network and thumbnail, route, sign out | tokens are saved to the same record meanwhile |
| **Avatar** (`Profile`, `NewUserSetProfile`, `EditBio`, FN `generateThumbnail`) | images and thumbnails in the storage, their id and URLs in the record | upload, delete, scale | the record of the student |
| **Dashboard, badges** (`Dashboard`, `IconWithBadge`, FN `notifyHostOnNewGuest`) | `totalInterested`, unread totals | count, show | posts, chats |
| Reports, legal pages, web site, archived functions, native projects | one idempotent write; static files | - | - |

Which behaviours are hard, and what would make each part right:

* **Posts.** A function gets the post *as it was at the event*, may run much later, twice, or be killed, and writes
  copies that the next function writes too. Counters are incremented by many clients. Hosts and guests act on screens
  that show an older state. Right means: no copy runs ahead of the post, only guests have guest copies, a closed list keeps
  its members, counters are exact, and once functions rest the copies agree, the host's included.
* **Chat.** A read-modify-write without a transaction races itself and the resets; a global object is read after an
  asynchronous check. Right means: a count never announces what was not sent and does announce something; messages
  stay with students who were shown the chat.
* **Blocking.** Three chained writes per call, calls not ordered, the chain may be cut. Right means: the two sides agree,
  the count loses nothing, the list shows only who was blocked, and what the screens promise comes true.
* **Direct messages.** One conversation entry has four writers; hiding deletes it while the others update it, which makes it
  anew. A list of the entries looks up names while they come and go. Right means: a count is never far off and never silent,
  an entry has a cause, a message stays with students its author had a chat with, each row is an entry and each entry a row.
* **Feed.** A load reads five things one after another and then listens; a refresh or a rewind starts another, and the listeners
  of the first stay on. Right means: no more cards of a post than loads, no card of what was decided or of who was barred when
  the load began, nobody barred stays in the deck, and a load brings everything that is wanted.
* **Tokens, sign-up.** An account is made by five reads and writes of one app, while other screens and devices write to it and
  any of them may be killed, and there is a way to the screens that takes no such step. Right means: who has been walked through
  all of it has a whole record for good, and a token saved by itself is not lost to those that are not.
* **Avatars.** Two chains of calls per upload, deletions and a function that nobody waits for. Right means: the picture that was
  chosen last, once shown, is there.

`PROJECT.json` lists each of these hazards at its line.

## Plan

Most important first; each module follows the same pattern: *one action per database operation, a set of outstanding work,
histories only for properties*.

1. `Posts` with the abstract `PostBoard` - the core: everything else reads what it writes. Done, with proofs.
2. `ActivityChat` - done, with proofs.
3. `Blocking` - done, with proofs.
4. `DirectMessages`, and `ConversationList` on top of it - done, with proofs.
5. `HomeFeed` - done, with proofs.
6. `Account`, and `Avatar` on top of it - done, with proofs.
7. `Dashboard`: the totals on the screen against what they count, composed with `Posts` and `ActivityChat`. Not done.

Theorems still worth proving: that a count of direct messages is exact if its calls do not overlap, as `ExactOneAtATime` says of
activities (the entry begins at 1, which makes the message that began it a case of its own); and an abstract mailbox that both chats
implement (messages waiting, a mark that says whether there are any), which would state once what `NeverOvercounted`,
`AtMostOneTooMany` and the two `Announced...` properties say of each.

## Modules

| Module | Contents |
|---|---|
| `Posts` | one post, from creation to end, with its copies, functions, apps and faults |
| `PostBoard` | abstract: what the host and the guests may rely on |
| `MCPosts`, `MCSlicedPosts` | instances of `Posts` for TLC: symmetry, a constraint, and slices |
| `PostsProofs` | proofs of invariants, and of `Posts` implementing `PostBoard` |
| `SettledPostsProofs` | proofs of what a post comes to: its closed list, and the agreement of its copies |
| `ActivityChat`, `MCActivityChat`, `ActivityChatProofs` | chats and unread counts |
| `Blocking`, `MCBlocking`, `BlockingProofs` | blocking and unblocking |
| `BlockBook` | abstract: what the two sides of a block may rely on |
| `DirectMessages`, `MCDirectMessages`, `DirectMessagesProofs` | conversations between two students, their entries and counts |
| `ConversationList`, `MCConversationList`, `ConversationListProofs` | the screen that lists them, composed with `DirectMessages` and the block record |
| `HomeFeed`, `MCHomeFeed`, `HomeFeedProofs` | the deck of one student |
| `Account` | the record of one student, made and used by several devices |
| `Avatar` | the pictures the student uploads, composed with `Account` |
| `MCAccount`, `AccountProofs` | two slices of the composition for TLC; proofs about both modules |

Definitions whose comment begins with "Bug" are not part of a specification. Each is a plausible mistake in the definition
it precedes; replacing that definition by it makes the named property fail, which shows that the property says something.

### Posts

`post` is the record in `allPosts` without `acceptorIds`, which is `acceptors` (no function reads it from a
snapshot). `livePost`, `hostPost`, `guestPosts` are the copies. A Cloud Function in flight is an element of
`work`: its next step, its event's snapshot, and the guests it has read. Every write to the post that changes something
adds the functions it starts (`Updated`, `WriteGuest`), exactly as the triggers at FN 536, 580, 605 and 686 do.

* `manageLivePosts` is three steps (`ManageLive`, `ManageHost`, `ManageGuests`) as it is in the code, with its early
  exits: for a finalized post the live copy is removed, and `Object.keys` of absent confirmed guests ends it there.
* `manageDonePosts` reads the guests and then erases their copies; `onConfirmGuest` reads the post and then copies it.
* A copy is written with `update`, so a key that is absent from a snapshot survives in the copy: `Merge`.
* `addAcceptor` and `acceptGuest` issue plain writes, which reach the database in order, and transactions, which
  may arrive at any time after: the sets `todo` and `accepting` hold what is outstanding.
* Two `Slots` stand for two cards of the same post in one deck, which a refresh produces; `alreadyAccepted` is read at the
  swipe, the writes come later.
* Faults, bounded by `MaxFaults`: a function killed between steps, an event delivered again to any of the four functions
  (`DeliveredAgain`: the twin is a function of its own and runs when it likes), `createNewPost` cut short (it does not return its
  promise), an app killed with outstanding writes.
* `calm` is a history: the last write to the post that raised an event met nothing in flight, and no function of it was lost. It
  says nothing of the writes before it. Without it the agreement of the copies fails, by the races that are listed below.
* Left out: names, pictures, text (an edit is a number); what rejects a student in `onBlock` (see Blocking); deletion of
  a post from the console (`onDeletePost`; no code in the repository deletes a post).

### ActivityChat

`screen` and `userList` are the mounted `ActivityChat` and its navigation parameters, `room` the one `ChatLib` object's
current room. `TypeMessage` starts the network check (`ChatLib.js` 90), after which `PushMessage` uses the *current* room
but the users of the screen the message was typed on, or `DropMessage` gives up. `incrementUnread` is one read and
one write per user. Resets are issued when a chat is opened, closed or left, and arrive later. A chat opened from a
notification has no users (`App.js` 59); its messages then raise nobody's count.

### Blocking

A call is a record with the write it is to make next: own entry, other's entry, count. `CutShort` loses it. `disturbed`
records pairs for which a block and an unblock were in flight together or a call was cut short; for those the code
keeps no promise. `BlockList` listens to entries, looks up a name for each, and lists it when the name arrives, whatever
happened since. `OnBlock` compares with `guest.id` of a `DataSnapshot`, which does not exist. `BlockBook` is the promise: pairs are
decided by the own entry and told to the other side, one by one, except for the pairs that are `disturbed`.

### DirectMessages and ConversationList

`entry[s][t]` is the `unreadCount` of `users/s/directMessages/t`, or `NoEntry`. Its writers are the resets of a chat that
opens or closes (FU 714), *Hide* in the list (`DirectMessages.js` 68), `onNewDirectMsgConv` (FN 356: both entries of the
pair, one after the other, the author's own included) and `incrementUnreadDirect` (FN 140: a read and a write). All of them
use `update` or `set`, so every one but *Hide* makes the entry if it is not there: a hidden conversation comes back
when a chat closes or a message arrives.

* `pending[s]` is what the app of `s` has written and the database has not yet seen; it arrives in order (`Arrive`).
  Calls of functions are not ordered with it. The app sees its own writes at once, and `Seen` says what it sees.
* `target` is `targetUid` and `messagesRef` of the one `ChatLibDirect`: a message goes to whom they stand for after the
  network check (`ChatLibDirect.js` 94), though it was typed for `typedFor`.
* A `DirectChat` that is on the screen stays there when another navigation to one arrives, which is what `navigate` does
  with a mounted route of that name: `Mount` needs an empty screen. A tapped notification names a route, `ChatDirect`, that
  `Router.js` does not have, and opens nothing.
* Faults: `incrementUnreadDirect` cut short (it returns before its reads end), `onNewDirectMsgConv` delivered again.
* `ConversationList` extends `DirectMessages`. Its `Hear` gives, for every step of the conversations, what the listeners
  `child_added` and `child_removed` do in the same step; `naming` holds the names that are being looked up, `asked` the rows
  that were pressed and wait for `getName` (`DirectMessages.js` 112). The alert before *Hide* is modal, so pressing and
  hiding are one action. All rows share the `ActionSheet` of the row that was rendered last, so that *Hide* may be for
  another row than the one pressed: `HideRow` is for any row.
* Left out: `onDirectMsgDelete` (the alert says hiding "will also delete your chat", but no code deletes a room), the count
  shown on a row, students an administrator has blocked; the three reads of `getBlockedList` are one step. Each student
  has one device.

### HomeFeed

One student's `Home` screen. A load is an element of `Loads` that goes through the reads of `getHiddenPosts` and
`getBlockedList` in their order (`step`), gathering what it has read, and then, in `Listen`, puts it in force and attaches its
listeners. `undealt` and `unheard` are the events those listeners are still to bring.

* `deck` counts the cards of each post. `away` counts those swiped to the right, which leave the stack and not `myTasks`. `Cards`
  is every `setState` of `myTasks`: since the stack's key is its length (`Home.js` 806), a new length mounts it anew and shows
  the swiped cards again.
* *Refresh* and *Rewind* are offered only where the stack shows no card and no spinner (`Bare`, `Home.js` 778-803).
* A right swipe waits for `alreadyAccepted`, which may answer either way, and then for `addAcceptor`.
* The others make posts live, end them, and put entries into the lists or take them out; there is no listener for the latter.
* Initially the lists, the posts and the decisions may be anything: the student has been there before.
* `load[l].decided`, `load[l].barred` and the two variables `...Before` are histories: what was there when the load began, and
  has been ever since.
* Left out: the order of the cards, the student's own posts, pop-ups, `rewindListener` and `acceptTask`, which nothing calls.

### Account and Avatar

`Account` is `users/U` and the apps of U's devices. `app[d]` is where device `d` is: closed, in *Loading*, in *Login*, in one of
the steps of signing up, or on the screens. A call of `saveDeviceToken` is an element of `saves`, a read and a write;
`listening` says which screens save new tokens, and they are never taken off, not even by a sign-out, as in the code
(`Loading.js` 175, `Home.js` 93). *Kill* is the platform ending an app; the sign-in outlives it.

* There are two ways to sign in. `SignIn` is Google's (`Login.js` 107), and walks the student through the steps. `EmailSignIn` is
  `EmailLogin.js` 44, offered on iOS (`Login.js` 282): it navigates to the screens at once, with no step at all.
* `SetDirectMsgTrue` may run at any time once there is a record, any number of times, or never: the event of the creation is
  delivered at least once, and late, and the function writes `true` whatever is there. `Toggle` writes the opposite of what the
  *screen* shows (`Profile.js` 175), which is on at first and later what its listener last heard, so it may write either value.
* `SetRecord` replaces the whole record, the token array, the switch and the id of the uploaded image included.

`Avatar` extends it. `ids[u]` and `file[u]` are the two chains of an upload; `deleting` the deletions asked for, in no order;
`thumbing` the runs of `generateThumbnail`. Its steps are those of `Account`, with `UpdateAvatar` at the end of an upload, or
leave the account alone. The calls that one device makes of the database are answered in the order made (`Foremost`); devices are not ordered.

* Histories say what has happened that a promise depends on: `walked` (an app came to the screens through every step), `cut` (an app
  was killed on the way), `emailed` (somebody signed in with a password), `erased` (a record was set in place of one that was
  there), `crossed` (an upload began while another device still had an id to read). Without each of these TLC finds the property
  that names it violated: each is something the code really does, and is listed below.
* Left out: services and coins, `networks/N/users`, the check of the address, and the content of images.

## What is checked

Runs that must pass:

| Run | Instance | Shows |
|---|---|---|
| `posts_private` | private, in three slices: 1 guest, 2 functions in flight when a client writes; 2 interchangeable guests, functions of one write at a time; 1 guest and 1 fault | type, copies never ahead, guest copies of listed guests only, all of them counted, a closed list keeps its members; at rest all three kinds of copies agree with the post if its last write met nothing in flight |
| `posts_public` | public, 1 guest, 2 cards, 1 fault | the counter of the interested with a repeated join and killed apps; guest copies; the refinement of `PostBoard` |
| `posts_serial` | private, 1 guest, 1 edit, fairness | when functions do not overlap with further writes the copies come where they belong: into the decks, out of them, to dashboards |
| `chat_rooms` | 2 students, 2 chats, 2 messages, 1 fault | type, counts never too high although a call is cut short, authors were led to the chat, a count never reset is not lost entirely |
| `block_pair` | 2 students, 2 calls, 1 fault, fairness | sides differ only while a call explains it, count exact; the refinement of `BlockBook`; a block reaches both sides; the list comes to show it |
| `direct_chat` | 3 students of whom 2 allow messages, 2 messages, 3 chats opened or conversations hidden, 1 write pending per app, 1 fault | type, counts at most one too high, entries have a cause, messages stay with students their author had a chat with, chats were allowed, an untouched entry is not silent |
| `direct_list` | 2 students, one with the list, 1 message, 4 visits, 2 writes pending, fairness | every row is an entry that is there, and leads to a chat that is allowed; each entry comes to be listed |
| `feed` | 1 post, 2 loads, 3 changes by others, 1 right swipe under way, every initial state, fairness | no more cards than loads; no card of what was decided or barred; nobody barred stays; a load alone brings what is wanted |
| `account` | 2 devices, 2 uploads, 2 tokens, 1 exit, in two slices | records made whole stay whole, tokens are kept, the newest picture is there |

Runs that must find a violation (each is something the code or its text says, and the code does not do):

| Run | Says | Does |
|---|---|---|
| `posts_public_closed` | the alert at `DashboardDetails.js` 273, "New users won't be able to join this group." | the swipe of a card dealt before the close still lists the student of a public post (FU 637) |
| `posts_finalized_live` | FN 629 "Since the post's guest list is finalized, it is no longer in livePosts" | a `manageLivePosts` with an older snapshot, running last, puts it back |
| `block_conversations_alert` | the alert at `DirectMessages.js` 81 | line 95 passes the module's own `uid`: a student blocks herself |

Seen while modelling, and not given runs.

* *Posts.* An older snapshot may overwrite the live copy and stay until the next write (FN 678); `onConfirmGuest` or `manageLivePosts` may
  put a copy of a finished post back on a guest's dashboard, or one on that of a guest who opted out (FN 547, 649); `manageLivePosts`
  updates the host's copy whether or not it is there (FN 634), so that a post the host removed may come back to the dashboard;
  `markRequestDone` may turn a removed post into a done one (FN 188; `PostBoard` has the move); `onPublicPostAccept` (FN 553) refers
  to an undefined `pushId` and always fails. With two cards in the deck a student who was accepted and
  opted out can ask again, and be accepted again; the entry is not new then, `onConfirmGuest` (`onCreate`, FN 536) does not run, and
  the guest is going with nothing on the dashboard. A late join of a public post that was removed leaves the guest a copy of it.
* *Chats.* Of two overlapping increments one is lost (FN 111, FN 148), against "When a message is sent, increment the unread count" (FN 98).
  An increment that read the count before a reset writes it back after (FU 708); one that the platform stops is never made (FN 107).
  A chat opened from a notification does not know its users, and its messages raise nobody's count (`App.js` 59).
* *Blocking.* `onBlock` rejects nobody: FN 322 compares with `guest.id` of a `DataSnapshot`, which has no such field, against the comment
  at FN 291, "we coerce the blocked user to be rejected". An unblock that runs late undoes a block asked for after it (FN 221). A chain that
  is cut after its first write is never taken up again (FN 206). `BlockList` lists a student whose entry went while the name was looked
  up, and offers another unblock (`BlockList.js` 57). A student who comes to be blocked while the name is looked up is listed after all (`DirectMessages.js` 158), against the comment at line 123.
* *Deck.* When a student is blocked while `Home` is on the screen, the cards go but `blockedList` stays as it was, so that the next post
  of that host is dealt, against "update the blockedList state" (`Home.js` 281). A post swiped to the left while a load reads is dealt
  again by it (`Home.js` 392 says it "won't show it again"); so are posts between the emptying of the lists by a refresh and its last
  read (501). A card swiped to the right comes back when the stack is mounted anew (806), and stays in the deck for good if
  `alreadyAccepted` answers that the student is a guest (448). A student who is barred between two reads of a load is missed by it (FU 288).
* *Sign-up.* A student who signs in with a password is on the screens without any record, network or thumbnail (`EmailLogin.js` 47),
  and if Home then saves a token, there is a record without a name. A student whose app is killed between the record and the
  network goes to the screens on the next start, with no network (`Loading.js` 50 looks at the first name only). However a record
  was begun without a name, `addNewGoogleUser` never adds one (`AuthActions.js` 22). With two devices signing up, the second `set`
  erases what was written since. `setDirectMsgTrue` writes `true` over the student's own choice whenever it runs late or again (FN 602);
  after a record was erased it does not run by itself. Tokens stay in the record after a sign-out, and the listeners go on saving to it.
* *Avatars.* If `generateThumbnail` has not finished when the thumbnail's URL is asked for (`Profile.js` 227), the record is not updated, and goes on
  showing an image that was deleted. A device that reads the id late deletes the picture another device has put. A first thumbnail that
  arrives late replaces that of an upload (FU 143). Images put by `NewUserSetProfile` and `EditBio` are never deleted.
* *Dashboard.* The listener of unread counts looks for the field `taskId` (`Dashboard.js` 216), which no code writes (FU 708 writes `id`), so that
  the marks of a post change only when the screen is loaded anew.

### Bounds

* *One post*: functions and apps touch one post at a time; nothing relates two posts except totals that are not modelled.
* *One or two guests*: guests meet only in the counters, in `acceptAllGuests` and in the loops over guests. Two are enough
  for each of these; the proofs cover any number.
* *`MaxWork`* bounds the functions in flight when a client starts another write. Functions of *one* write already
  overlap with `MaxWork = 1`; with 2, those of two writes do, which is when snapshots are out of order.
* *One fault*: what a fault leaves behind, not how often, matters to the invariants; the proofs have no bound.
* *Slices of `Posts`*, in `MCSlicedPosts`: overlapping writes, several guests and faults multiply, and the whole product is out of TLC's
  reach. Each slice has one of them in full. `overlap`: one guest, and writes that meet functions; `crowd`: two guests,
  and writes that wait for the functions of the one before; `fault`: one guest, and one fault at any point, in which a repeated delivery
  outlives later writes. Only in `fault` is the post dealt before the host has opened it from the dashboard, and only in `crowd` does the host
  reject somebody. The run of a public post has no slices; an action constraint (`OneCardIfRepeated`, in `MCPosts`) keeps a second card
  from being used while a repeated delivery is in flight, and allows it before and after.
  The proofs of the properties checked there have no slices.
* *Three students, three visits* (`MaxVisits`: chats opened and conversations hidden): a message is misrouted when its
  author opens a second chat during the network check; the two chats must be allowed, so there are three students, and two of
  them allow messages. The list needs one student and one other, but more visits: open, hide, open again, close.
* *`MaxPending`* is how many writes of one app are under way when it makes another. With 1, an app's write already
  races the functions and the other apps; with 2, a hide follows a reset that has not arrived.
* *One post, two loads, three changes* for the deck: cards of different posts meet only in the key of the stack; the second
  load overlaps the first or follows it; two changes bar a host and let a post live in either order, the third undoes one of them.
* *Two slices* of `Account` and `Avatar`, in `MCAccount`: a student signs up on two devices and uploads nothing, or is signed up on both,
  does not sign in or out, and uploads twice. The whole product is out of TLC's reach, and unnecessary: uploads need the screens and write
  three fields that signing up does not read, except the thumbnail, of which it asks whether there is one, and whether there is a
  record. Two tokens let one device have a new one; one exit is one kill or one sign-out, at any step. The proofs have none of these bounds.
* *Two messages, two calls*: a lost increment, a misrouted message, or an unblock after a block each need two.
* *Deadlock* is checked for chats, blocking and the list, where somebody can always open or close a screen. A post may come
  to rest, and so do the direct chats, the deck and the account when visits, changes and exits are used up.

### Fairness

Weak fairness on functions and on issued writes: the platform runs what it started and the database client
sends what it queued, unless a fault intervenes. Nothing a user decides to do is fair. `EventuallyOnDashboard` and the
other liveness properties of posts are stated for runs without faults, those of blocking with an explicit
"unless cut short". `WF(CallNext)` for blocking is one condition for all calls: calls are finitely many, so each ends.
For the list, what it reads and the names it looks up arrive (`FairListSpec`); nothing is assumed of the conversations.
For the deck, each load's reads are answered and each live post is brought by its listeners; neither the student nor the others are fair.

## What is proved

For any sets of students, guests, cards and chats (finite where they are counted), any bounds, and any value of the flags;
the only assumptions are the `ASSUME`s of the modules.

* `PostsProofs`: `TypeCorrect`; `WorkNeverAheadCorrect`, `CopiesNeverAheadCorrect`,
  `GuestCopyMeansMemberCorrect`, `InterestedCountExactCorrect`, `MembersCountedCorrect`.
  `CopiesNeverAhead` is not inductive: a late function writes its snapshot. It becomes so with `WorkNeverAhead` (no
  snapshot in flight is ahead of the post, and `onConfirmGuest`'s lists its guest), with `DoneCallLate` (a call of
  `markRequestDone` is outstanding only for a post that was closed) and `NothingBefore`. Guest copies need in addition
  that a copy lists its guest (`OwnCopyLists`; `Merge` must not lose the list) and that nobody is listed without having
  asked (`AskedFirst`). The proof of `interestedCount` follows the set of swipes that have counted; each transaction adds one swipe. That of
  `confirmedCount` keeps a balance (`Covered`): a write that lists a guest makes the host or a join owe a count, which is
  there to be owed (`CountFollows`), the transaction pays it back, and who opts out was listed before (by `GuestCopyMeansMember`).
  `AskedFirst`, `NothingBefore` and `DoneCallLate` are theorems of their own (`AskedFirstCorrect`, `BeforeAndLate`), which the next module cites.
  `PostsImplementBoard`: every action maps to one of `Create`, `Move`, `List`, `Deal`, `Show`
  or to a stutter; a `Show` step needs the membership invariant, a `Move` needs `DoneCallLate`.
* `SettledPostsProofs`: `ClosedListKeptCorrect`, `CalmCopiesSettle`, `FinalizedNotLiveWhenCalm`, `SettledAgreementCorrect`. The hypotheses
  are constants of the instance: a private post for the first and the last, and one card per student for the last. None is there for
  the prover's sake: `posts_public_closed` refutes the first for public posts, `posts_finalized_live` shows that `calm` is needed,
  and for the others see *Posts* under what was seen. Functions may have overlapped, been repeated or been killed in any number
  before the last write, and that write's own may overlap and be repeated.
  *Closed list.* Once the post is not open the host's app has no plain write of `acceptGuest` on its way (`ListClosed`), because they
  arrive before the close it issues after them; and who opts out was listed, by `GuestCopyMeansMember`.
  *Calm.* While it is calm, what is in flight holds the post as it is (`CalmWork`). Each copy then is right, or a function is in
  flight whose next step puts it right (`LiveSettles`, `HostSettles`, `CalmGuestSettles`);
  a write that is not calm owes nothing, and one that is starts the functions that will do it. For the
  guests one must know in addition that a guest is accepted once (`AcceptedOnce`) and that copies are erased only when a post is over
  (`ErasesLate`). That a guest going to an open post has a copy needs no calm, only that nothing failed (`OpenGuestSettles`).
* `ActivityChatProofs`: `TypeCorrect`, `NeverOvercountedCorrect`, `AuthorsWereLedCorrect`, `AnnouncedUnlessResetCorrect`. The count, the calls still to
  write, and *what a call has read* must together stay below the messages pushed. A call that has read `v` is safe
  because its own message is not among the `v` counted (`Counted`); message ids are fresh and sets finite (`Fresh`,
  `Finite`), and the room of an app is always one its student opened (`RoomReady`, `LedInv`). Without faults the mail of a student who
  never reset a count is in it or a call for it is still to write, and resets outstanding are of chats that were touched (`AnnouncedInv`).
  `ExactOneAtATime` says how much of that is due to overlap: in a behaviour without faults in which the calls for one count never
  overlap (`[]OneAtATime`), a count that was never reset, with the call on its way, *equals* the messages it was raised for.
* `BlockingProofs`: `TypeCorrect`, `SidesExplainedCorrect`, `SidesAgreeCorrect`, `BlockCountExactCorrect`,
  `UnblockAfterBlockCorrect`. `SidesExplained` is the inductive form of `SidesAgree`: if the sides differ there is a call about
  to write the other one, and every call beyond its first write agrees with the blocker's entry. The count needs that calls
  are told apart (`Numbered`), the list that an entry itself comes from a block (`ShownInv`). `BlockingImplementsBook`: a first write
  that changes the own entry is a `Decide`, which finds the sides agreeing because a call between its first and second write
  would be of the other kind; a second write that changes the other entry is a `Tell`; the rest are `SetFree` or stutters.
  `UnblockAfterBlock` (the list offers only who was blocked at some time) is proved and has no run.
* `DirectMessagesProofs`: `TypeCorrect`, `MessagesStayAmongOpenedCorrect`, `EntriesHaveCauseCorrect`,
  `OpenedWasAllowedCorrect`, `AnnouncedUnlessTouchedCorrect`, `AtMostOneTooManyCorrect`. `TypeInv` adds to the types that
  whatever waits for the network check, or to be written, has a target (`Ready`). `LedInv` and `CauseInv` carry each claim back to
  what is still outstanding: behind a pending write, a run or a call there is a chat that was opened or a message that was
  pushed, and these histories only grow (`Grows`). `CountInv` bounds, for each entry, the count, the *value each call has
  read*, and the calls still to write by the messages pushed and one.
* `ConversationListProofs`: `ListKeepsConversations` (`ListSpec => Spec`), so that all of the above holds of the list too;
  `ListTypeCorrect`; `RowsAreEntriesCorrect`. The latter rests on what a step can do to what an app *sees*: issuing a
  write changes it at once, its arrival does not change it (`SeenIssue`, `SeenArrive`), and an entry that is seen goes
  only when its own row is hidden (`SeenStays`).

* `HomeFeedProofs`: `TypeCorrect`, `CopiesPerLoadCorrect`, `DealtUndecidedCorrect`, `BarredStayOutCorrect`. The cards of a post and the
  loads that are still to bring it are counted together: an event turns one into the other. What was decided or barred ever since
  a load began is in what the load has read, or a read that will find it is still to come (`InHand`). Deals go by the lists in
  force, which have it when the load listens (`InForce`).
* `AccountProofs`: `TypeCorrect`, `TokensKeptCorrect`, `WholeRecordCorrect`; `AvatarImplementsAccount` (`AvatarSpec => Spec`), so that
  these hold with uploads, too; `AvatarTypeCorrect`, `PictureThereCorrect`. `TokensSafe` adds that what a later save has read includes what is kept,
  and that a save that is alone is the only one. `WholeSafe` adds to `WholeRecord` what each
  step of signing up has already made sure of: who has come to the thumbnail has a network, and nothing but a `set` that meets a record
  takes either away; while nobody was killed on the way or came in with a password, every record that is there has a name, because
  tokens are then saved only by devices that have been through it. `PictureThere` needs `NewestKept`: others that are still
  to read an id are of the newest upload's device, and of one device's reads the newest's is the last (`LastIsLast`), so that
  nobody reads its id; and the URLs are answered only for what is there.

Only model-checked: all liveness properties (the prover has no rules for fairness and `ENABLED` that it could apply).
No module uses `RECURSIVE` operators or induction over data, which the
prover could not handle either.

## Not modelled

* *Dashboard and badges* show the copies of `Posts` and the counts of `ActivityChat` and write neither; totals are kept on the screen. Two
  posts and their chats at once would be needed to say anything of them.
* *Reports* are one idempotent write. *Legal pages*, the *web site* and the *archived functions* are static or not loaded by anything.
* *Push notifications, storage, sign-in with Google, Google Calendar* are external: what the app assumes of them is in the actions that use them.
* *Native projects*: `android` and `ios` are generated, and `ios/Pods` holds the vendored SDKs. They are most of the C, C++ and Objective-C
  in the repository and none of it is code of this program, whose logic is JavaScript throughout; only that is modelled.
* Navigation, layout and formatting carry no state that several parties share.
