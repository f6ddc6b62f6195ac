------------------------------ MODULE Account ------------------------------
(***************************************************************************)
(* The record of one student, users/U, and the apps that make it.          *)
(*                                                                         *)
(* Nobody creates an account in one step.  Login.js signs the student in   *)
(* and then, each after a read of its own, sets the record if there was    *)
(* none, adds the network and the first thumbnail, and goes on to the      *)
(* screens.  EmailLogin.js signs in a student who has a password, and goes *)
(* to the screens at once.  Loading.js, on a later start, goes there       *)
(* directly if the record has a first name.  Loading and Home save the     *)
(* token of the device, by reading the array of tokens and writing it      *)
(* back.  Whichever write is the first starts setDirectMsgTrue, which      *)
(* switches direct messages on, when it runs and as often as it runs; the  *)
(* student has a switch of her own for them.                               *)
(*                                                                         *)
(* An app may be killed at any step.  The sign-in outlives it.  What one   *)
(* app asks of the database is done in the order it asks; two devices are  *)
(* not ordered.  Services and coins, which nothing below depends on, are   *)
(* left out, and so are addresses that Login.js refuses.                   *)
(***************************************************************************)
EXTENDS Integers, FiniteSets

CONSTANTS
    Devices,
    Uploads,       \* the pictures the student may upload
    MaxTokens,     \* bound: tokens are numbered as they are given, up to this
    MaxExits       \* bound: apps killed and students signed out

ASSUME UploadsAssumption == "none" \notin Uploads /\ "photo" \notin Uploads
ASSUME BoundsAssumption == MaxTokens \in Nat \ {0} /\ MaxExits \in Nat

\* A token says which device it is for.
Tokens == Devices \X (1 .. MaxTokens)

\* What profilePicture and thumbnail may be; "photo" is the one of the Google account.
Pictures == {"none", "photo"} \cup Uploads
Switch == {"none", "on", "off"}

VARIABLES
    named,         \* firstName, lastName and coins are there
    network,       \* so is the network
    picture, thumbnail,
    profileImageId,  \* the id of the image uploaded from the profile, or "none"
    dmAllow,
    deviceTokens,
    app,           \* what each app is doing
    signedIn,      \* the devices that have the student's sign-in
    token,         \* the number of each device's token
    listening,     \* the screens of each app that listen for another token
    saves,         \* saveDeviceToken in flight
    cut,           \* history: an app was killed while it signed up
    emailed,       \* history: somebody signed in with a password
    walked,        \* history: an app came to the screens by way of every step of signing up
    erased,        \* history: a record was set in place of one that was there
    kept,          \* history: tokens saved by a call that met no other
    exits

record == <<named, network, picture, thumbnail, profileImageId, dmAllow, deviceTokens>>
apps == <<app, signedIn, token, listening>>
histories == <<cut, emailed, walked, erased>>
past == <<histories, kept>>
vars == <<record, apps, saves, past, exits>>

\* The steps of signing up: a read, and the write that may follow it.
SignUpSteps == {"record", "set", "network", "addNetwork", "thumbnail", "addThumbnail"}
AppStates == {"closed", "loading", "login", "main"} \cup SignUpSteps

\* The screens that save tokens; their listeners outlive them, and a sign-out.
Savers == {"Loading", "Home"}
Save == [token : Tokens, by : Savers, step : {"read", "write"}, got : SUBSET Tokens, alone : BOOLEAN]

Exists == named \/ network \/ deviceTokens # {} \/ dmAllow # "none"
              \/ picture # "none" \/ thumbnail # "none" \/ profileImageId # "none"

Init ==
    /\ named = FALSE /\ network = FALSE
    /\ picture = "none" /\ thumbnail = "none" /\ profileImageId = "none"
    /\ dmAllow = "none"
    /\ deviceTokens = {}
    /\ app = [d \in Devices |-> "closed"]
    /\ signedIn = {}
    /\ token = [d \in Devices |-> 1]
    /\ listening = [d \in Devices |-> {}]
    /\ saves = {}
    /\ cut = FALSE /\ emailed = FALSE /\ walked = FALSE /\ erased = FALSE
    /\ kept = {}
    /\ exits = 0

\* The devices that are to find out whether there is a record, or to set it.
Making == {d \in Devices : app[d] \in {"record", "set"}}

-----------------------------------------------------------------------------
(* Tokens.                                                                 *)

\* A call of saveDeviceToken; calls in flight are not alone then, nor are two at once.
NewSave(t, k, only) == [token |-> t, by |-> k, step |-> "read", got |-> {},
                        alone |-> only /\ saves = {} /\ Making = {}]
Jostled == {[s EXCEPT !.alone = FALSE] : s \in saves}

StartSaves(t, screens) ==
    saves' = Jostled \cup {NewSave(t, k, screens = {k}) : k \in screens}

\* Loading or Home saves the token of d, and listens from then on.
StartScreen(d, k) ==
    /\ listening' = [listening EXCEPT ![d] = @ \cup {k}]
    /\ StartSaves(<<d, token[d]>>, {k})
NoScreen == UNCHANGED <<listening, saves>>

ReadTokens(s) ==
    /\ s.step = "read"
    /\ IF s.token \in deviceTokens
       THEN /\ saves' = saves \ {s}
            /\ kept' = IF s.alone THEN kept \cup {s.token} ELSE kept
       ELSE /\ saves' = (saves \ {s}) \cup {[s EXCEPT !.step = "write", !.got = deviceTokens]}
            /\ UNCHANGED kept
    /\ UNCHANGED <<record, apps, histories, exits>>

\* Bug: the token is written in place of the array.
WriteOneToken(s) ==
    /\ s.step = "write"
    /\ deviceTokens' = {s.token}
    /\ saves' = saves \ {s}
    /\ kept' = IF s.alone THEN kept \cup {s.token} ELSE kept
    /\ UNCHANGED <<named, network, picture, thumbnail, profileImageId, dmAllow, apps,
                   histories, exits>>

WriteTokens(s) ==
    /\ s.step = "write"
    /\ deviceTokens' = s.got \cup {s.token}
    /\ saves' = saves \ {s}
    /\ kept' = IF s.alone THEN kept \cup {s.token} ELSE kept
    /\ UNCHANGED <<named, network, picture, thumbnail, profileImageId, dmAllow, apps,
                   histories, exits>>

\* The platform gives d another token: every listener saves it.
RefreshToken(d) ==
    /\ app[d] # "closed"
    /\ \E n \in 1 .. MaxTokens :
          /\ \A e \in Devices : token[e] < n
          /\ \E e \in Devices : token[e] = n - 1
          /\ token' = [token EXCEPT ![d] = n]
          /\ IF listening[d] # {} THEN StartSaves(<<d, n>>, listening[d]) ELSE UNCHANGED saves
    /\ UNCHANGED <<record, app, signedIn, listening, past, exits>>

-----------------------------------------------------------------------------
(* Starting the app, signing in and out.                                   *)

Goes(d, step) == app' = [app EXCEPT ![d] = step]

\* Loading.js saves the token of a device that is signed in, whatever comes of it.
Open(d) ==
    /\ app[d] = "closed"
    /\ IF d \in signedIn THEN Goes(d, "loading") /\ StartScreen(d, "Loading")
       ELSE Goes(d, "login") /\ NoScreen
    /\ UNCHANGED <<record, signedIn, token, past, exits>>

\* A record without a first name is that of a student who has yet to sign in.
Loaded(d) ==
    /\ app[d] = "loading"
    /\ IF named THEN Goes(d, "main") /\ StartScreen(d, "Home")
       ELSE Goes(d, "login") /\ NoScreen
    /\ UNCHANGED <<record, signedIn, token, past, exits>>

SignIn(d) ==
    /\ app[d] = "login"
    /\ Goes(d, "record")
    /\ signedIn' = signedIn \cup {d}
    /\ saves' = Jostled
    /\ UNCHANGED <<record, token, listening, past, exits>>

\* EmailLogin.js, on iOS: the screens open at once, and no step of signing up is made.
EmailSignIn(d) ==
    /\ app[d] = "login"
    /\ Goes(d, "main") /\ StartScreen(d, "Home")
    /\ signedIn' = signedIn \cup {d}
    /\ emailed' = TRUE
    /\ UNCHANGED <<record, token, cut, walked, erased, kept, exits>>

SignOut(d) ==
    /\ app[d] = "main"
    /\ exits < MaxExits /\ exits' = exits + 1
    /\ Goes(d, "login")
    /\ signedIn' = signedIn \ {d}
    /\ UNCHANGED <<record, token, listening, saves, past>>

Kill(d) ==
    /\ app[d] # "closed"
    /\ exits < MaxExits /\ exits' = exits + 1
    /\ Goes(d, "closed")
    /\ listening' = [listening EXCEPT ![d] = {}]
    /\ saves' = {s \in saves : s.token[1] # d}
    /\ cut' = (cut \/ app[d] \in SignUpSteps)
    /\ UNCHANGED <<record, signedIn, token, emailed, walked, erased, kept>>

-----------------------------------------------------------------------------
(* Signing up.                                                             *)

signUpRest == <<signedIn, token, listening, saves, cut, emailed, walked, kept, exits>>

\* addNewGoogleUser reads the record, and sets all of it if there is none.
ReadRecord(d) ==
    /\ app[d] = "record"
    /\ Goes(d, IF Exists THEN "network" ELSE "set")
    /\ UNCHANGED <<record, erased, signUpRest>>

SetRecord(d) ==
    /\ app[d] = "set"
    /\ Goes(d, "network")
    /\ named' = TRUE /\ picture' = "photo"
    /\ network' = FALSE /\ thumbnail' = "none" /\ profileImageId' = "none"
    /\ dmAllow' = "none" /\ deviceTokens' = {}
    /\ erased' = (erased \/ Exists)
    /\ UNCHANGED signUpRest

\* Bug: who has a record is taken to have a network.
ReadNetworkOfRecord(d) ==
    /\ app[d] = "network"
    /\ Goes(d, IF Exists THEN "thumbnail" ELSE "addNetwork")
    /\ UNCHANGED <<record, erased, signUpRest>>

ReadNetwork(d) ==
    /\ app[d] = "network"
    /\ Goes(d, IF network THEN "thumbnail" ELSE "addNetwork")
    /\ UNCHANGED <<record, erased, signUpRest>>

\* addNetworkDetails lets the chain go on as soon as it has read, and sends its write
\* along with the next read; here the write is put before that read.
AddNetwork(d) ==
    /\ app[d] = "addNetwork"
    /\ Goes(d, "thumbnail")
    /\ network' = TRUE
    /\ UNCHANGED <<named, picture, thumbnail, profileImageId, dmAllow, deviceTokens, erased,
                   signUpRest>>

\* With a thumbnail there the screens open, and Home saves the token of the device.
\* NewUserSetProfile, which a new student sees first, counts as one of them.
ReadThumbnail(d) ==
    /\ app[d] = "thumbnail"
    /\ IF thumbnail = "none" THEN Goes(d, "addThumbnail") /\ NoScreen /\ UNCHANGED walked
       ELSE Goes(d, "main") /\ StartScreen(d, "Home") /\ walked' = TRUE
    /\ UNCHANGED <<record, signedIn, token, cut, emailed, erased, kept, exits>>

AddThumbnail(d) ==
    /\ app[d] = "addThumbnail"
    /\ Goes(d, "main") /\ StartScreen(d, "Home") /\ walked' = TRUE
    /\ thumbnail' = "photo"
    /\ UNCHANGED <<named, network, picture, profileImageId, dmAllow, deviceTokens, signedIn, token,
                   cut, emailed, erased, kept, exits>>

\* The writes of an upload; uploads are steps of Avatar.tla.  Who uploads has been on
\* the screens, so that the record is there unless a password opened them.
Uploading == Exists \/ emailed

UpdateAvatar(u) ==
    /\ Uploading
    /\ picture' = u /\ thumbnail' = u
    /\ UNCHANGED <<named, network, profileImageId, dmAllow, deviceTokens, apps, saves, past, exits>>

RecordImageId(u) ==
    /\ Uploading
    /\ profileImageId' = u
    /\ UNCHANGED <<named, network, picture, thumbnail, dmAllow, deviceTokens, apps, saves, past,
                   exits>>

-----------------------------------------------------------------------------
(* Direct messages.                                                        *)

dmAllowRest == <<named, network, picture, thumbnail, profileImageId, deviceTokens, apps, saves,
                 past, exits>>

\* The event of the creation is delivered late, once or more often, or is lost.
SetDirectMsgTrue ==
    /\ Exists
    /\ dmAllow' = "on"
    /\ UNCHANGED dmAllowRest

\* dmAllowToggle writes the opposite of what the screen shows, which is on at first and
\* later what the listener has last heard: it may be behind the record.
Toggle(d) ==
    /\ app[d] = "main"
    /\ dmAllow' \in {"on", "off"}
    /\ UNCHANGED dmAllowRest

-----------------------------------------------------------------------------

SignUpNext(d) ==
    \/ ReadRecord(d) \/ SetRecord(d) \/ ReadNetwork(d) \/ AddNetwork(d)
    \/ ReadThumbnail(d) \/ AddThumbnail(d)

StudentNext(d) == Open(d) \/ SignIn(d) \/ EmailSignIn(d) \/ SignOut(d) \/ Toggle(d)

Next ==
    \/ \E d \in Devices : StudentNext(d) \/ SignUpNext(d) \/ Loaded(d)
    \/ \E d \in Devices : RefreshToken(d) \/ Kill(d)
    \/ \E s \in saves : ReadTokens(s) \/ WriteTokens(s)
    \/ \E u \in Uploads : UpdateAvatar(u) \/ RecordImageId(u)
    \/ SetDirectMsgTrue

Spec == Init /\ [][Next]_vars

-----------------------------------------------------------------------------

TypeOK ==
    /\ named \in BOOLEAN /\ network \in BOOLEAN
    /\ picture \in Pictures /\ thumbnail \in Pictures
    /\ profileImageId \in Uploads \cup {"none"}
    /\ dmAllow \in Switch
    /\ deviceTokens \subseteq Tokens
    /\ app \in [Devices -> AppStates]
    /\ signedIn \subseteq Devices
    /\ token \in [Devices -> 1 .. MaxTokens]
    /\ listening \in [Devices -> SUBSET Savers]
    /\ saves \subseteq Save
    /\ cut \in BOOLEAN /\ emailed \in BOOLEAN /\ walked \in BOOLEAN /\ erased \in BOOLEAN
    /\ kept \subseteq Tokens
    /\ exits \in Nat

\* As long as no record is set in place of another, a record that an app has walked
\* through every step of signing up for has a network and a thumbnail for good, however
\* other apps and other writes began it; and if no app was killed on the way and nobody
\* came in with a password, whoever is on the screens has these and a name.
WholeRecord ==
    ~erased =>
        /\ walked => network /\ thumbnail # "none"
        /\ (\E d \in Devices : app[d] = "main") /\ ~cut /\ ~emailed
                => named /\ network /\ thumbnail # "none"

\* A token saved by a call that met neither another call nor the making of a record
\* is there for good, whatever calls and sign-ups overlap later.
TokensKept == kept \subseteq deviceTokens
=============================================================================
