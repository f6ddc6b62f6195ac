--------------------------- MODULE AccountProofs ---------------------------
(* Proofs about the record of a student, for any number of devices, uploads *)
(* and tokens, and however often apps are killed.                           *)
EXTENDS Avatar, TLAPS

-----------------------------------------------------------------------------
(* Type correctness.                                                       *)

LEMMA StartSavesType ==
  ASSUME saves \subseteq Save, NEW t \in Tokens, NEW screens \in SUBSET Savers,
         StartSaves(t, screens)
  PROVE  saves' \subseteq Save
  <1>1. \A k \in screens : NewSave(t, k, screens = {k}) \in Save
    BY DEF NewSave, Save, Savers
  <1>2. Jostled \subseteq Save
    BY DEF Jostled, Save
  <1> QED BY <1>1, <1>2 DEF StartSaves

LEMMA StartScreenType ==
  ASSUME TypeOK, NEW d \in Devices, NEW k \in Savers, StartScreen(d, k)
  PROVE  /\ listening' \in [Devices -> SUBSET Savers]
         /\ saves' \subseteq Save
  <1>1. <<d, token[d]>> \in Tokens
    BY DEF TypeOK, Tokens
  <1>2. listening' \in [Devices -> SUBSET Savers]
    BY DEF StartScreen, TypeOK
  <1> QED BY <1>1, <1>2, StartSavesType DEF StartScreen, TypeOK

LEMMA GoesType ==
  ASSUME app \in [Devices -> AppStates], NEW d \in Devices, NEW step \in AppStates,
         Goes(d, step)
  PROVE  app' \in [Devices -> AppStates]
  BY DEF Goes

LEMMA StepsOfApps ==
  {"closed", "loading", "login", "main", "record", "set", "network", "addNetwork",
   "thumbnail", "addThumbnail"} = AppStates
  BY DEF AppStates, SignUpSteps

LEMMA TypeInit == Init => TypeOK
  <1> SUFFICES ASSUME Init PROVE TypeOK
    OBVIOUS
  <1>1. 1 \in 1 .. MaxTokens
    BY BoundsAssumption
  <1>2. token \in [Devices -> 1 .. MaxTokens]
    BY <1>1 DEF Init
  <1>3. app \in [Devices -> AppStates]
    BY StepsOfApps DEF Init
  <1> QED BY <1>2, <1>3 DEF Init, TypeOK, Pictures, Switch

LEMMA TypeTokens ==
  ASSUME TypeOK,
         \/ \E s \in saves : ReadTokens(s) \/ WriteTokens(s)
         \/ \E d \in Devices : RefreshToken(d)
  PROVE  TypeOK'
  <1> USE DEF record, apps, histories
  <1>1. ASSUME NEW s \in saves, ReadTokens(s) PROVE TypeOK'
    <2>1. s \in Save
      BY DEF TypeOK
    <2>2. [s EXCEPT !.step = "write", !.got = deviceTokens] \in Save
      BY <2>1 DEF Save, TypeOK
    <2>3. saves' \subseteq Save
      BY <1>1, <2>2 DEF ReadTokens, TypeOK
    <2>4. kept' \subseteq Tokens
      BY <1>1, <2>1 DEF ReadTokens, TypeOK, Save
    <2> QED BY <1>1, <2>3, <2>4 DEF ReadTokens, TypeOK
  <1>2. ASSUME NEW s \in saves, WriteTokens(s) PROVE TypeOK'
    <2>1. s \in Save
      BY DEF TypeOK
    <2>2. kept' \subseteq Tokens /\ deviceTokens' \subseteq Tokens /\ saves' \subseteq Save
      BY <1>2, <2>1 DEF WriteTokens, TypeOK, Save
    <2> QED BY <1>2, <2>2 DEF WriteTokens, TypeOK
  <1>3. ASSUME NEW d \in Devices, RefreshToken(d) PROVE TypeOK'
    <2>1. PICK n \in 1 .. MaxTokens :
            /\ token' = [token EXCEPT ![d] = n]
            /\ IF listening[d] # {} THEN StartSaves(<<d, n>>, listening[d]) ELSE UNCHANGED saves
      BY <1>3 DEF RefreshToken
    <2>2. token' \in [Devices -> 1 .. MaxTokens]
      BY <2>1 DEF TypeOK
    <2>3. <<d, n>> \in Tokens /\ listening[d] \in SUBSET Savers
      BY DEF TypeOK, Tokens
    <2>4. saves' \subseteq Save
      BY <2>1, <2>3, StartSavesType DEF TypeOK
    <2> QED BY <1>3, <2>2, <2>4 DEF RefreshToken, TypeOK, past, histories
  <1> QED BY <1>1, <1>2, <1>3

LEMMA TypeStudent ==
  ASSUME TypeOK, NEW d \in Devices,
         StudentNext(d) \/ Loaded(d) \/ Kill(d)
  PROVE  TypeOK'
  <1> USE DEF record, past, histories
  <1> USE StepsOfApps
  <1>1. {"Loading", "Home"} = Savers
    BY DEF Savers
  <1>2. CASE Open(d)
    <2>1. app' \in [Devices -> AppStates]
      BY <1>2, GoesType DEF Open, TypeOK
    <2>2. /\ listening' \in [Devices -> SUBSET Savers]
          /\ saves' \subseteq Save
      BY <1>1, <1>2, StartScreenType DEF Open, TypeOK, NoScreen
    <2> QED BY <1>2, <2>1, <2>2 DEF Open, TypeOK
  <1>3. CASE Loaded(d)
    <2>1. app' \in [Devices -> AppStates]
      BY <1>3, GoesType DEF Loaded, TypeOK
    <2>2. /\ listening' \in [Devices -> SUBSET Savers]
          /\ saves' \subseteq Save
      BY <1>1, <1>3, StartScreenType DEF Loaded, TypeOK, NoScreen
    <2> QED BY <1>3, <2>1, <2>2 DEF Loaded, TypeOK
  <1>4. CASE SignIn(d)
    <2>1. app' \in [Devices -> AppStates]
      BY <1>4, GoesType DEF SignIn, TypeOK
    <2>2. saves' \subseteq Save
      BY <1>4 DEF SignIn, Jostled, TypeOK, Save
    <2> QED BY <1>4, <2>1, <2>2 DEF SignIn, TypeOK
  <1>5. CASE SignOut(d)
    <2>1. app' \in [Devices -> AppStates]
      BY <1>5, GoesType DEF SignOut, TypeOK
    <2> QED BY <1>5, <2>1 DEF SignOut, TypeOK
  <1>6. CASE Toggle(d)
    <2>1. dmAllow' \in Switch
      BY <1>6 DEF Toggle, Switch
    <2> QED BY <1>6, <2>1 DEF Toggle, dmAllowRest, TypeOK, apps
  <1>7. CASE Kill(d)
    <2>1. app' \in [Devices -> AppStates]
      BY <1>7, GoesType DEF Kill, TypeOK
    <2>2. listening' \in [Devices -> SUBSET Savers] /\ saves' \subseteq Save
      BY <1>7 DEF Kill, TypeOK
    <2>3. cut' \in BOOLEAN /\ exits' \in Nat
      BY <1>7 DEF Kill, TypeOK
    <2> QED BY <1>7, <2>1, <2>2, <2>3 DEF Kill, TypeOK
  <1>8. CASE EmailSignIn(d)
    <2>1. app' \in [Devices -> AppStates]
      BY <1>8, GoesType DEF EmailSignIn, TypeOK
    <2>2. listening' \in [Devices -> SUBSET Savers] /\ saves' \subseteq Save
      BY <1>1, <1>8, StartScreenType DEF EmailSignIn
    <2> QED BY <1>8, <2>1, <2>2 DEF EmailSignIn, TypeOK
  <1> QED BY <1>2, <1>3, <1>4, <1>5, <1>6, <1>7, <1>8 DEF StudentNext

LEMMA TypeSignUp ==
  ASSUME TypeOK, NEW d \in Devices, SignUpNext(d)
  PROVE  TypeOK'
  <1> USE DEF record, past, histories, signUpRest
  <1> USE StepsOfApps
  <1>1. CASE ReadRecord(d)
    <2>1. app' \in [Devices -> AppStates]
      BY <1>1, GoesType DEF ReadRecord, TypeOK
    <2> QED BY <1>1, <2>1 DEF ReadRecord, TypeOK
  <1>2. CASE SetRecord(d)
    <2>1. app' \in [Devices -> AppStates]
      BY <1>2, GoesType DEF SetRecord, TypeOK
    <2>2. profileImageId' \in Uploads \cup {"none"} /\ erased' \in BOOLEAN
      BY <1>2 DEF SetRecord, TypeOK, Exists
    <2>3. /\ named' \in BOOLEAN /\ network' \in BOOLEAN /\ deviceTokens' \subseteq Tokens
          /\ picture' \in Pictures /\ thumbnail' \in Pictures /\ dmAllow' \in Switch
      BY <1>2 DEF SetRecord, Pictures, Switch
    <2> QED BY <1>2, <2>1, <2>2, <2>3 DEF SetRecord, TypeOK
  <1>3. CASE ReadNetwork(d)
    <2>1. app' \in [Devices -> AppStates]
      BY <1>3, GoesType DEF ReadNetwork, TypeOK
    <2> QED BY <1>3, <2>1 DEF ReadNetwork, TypeOK
  <1>4. CASE AddNetwork(d)
    <2>1. app' \in [Devices -> AppStates]
      BY <1>4, GoesType DEF AddNetwork, TypeOK
    <2>2. network' \in BOOLEAN
      BY <1>4 DEF AddNetwork
    <2> QED BY <1>4, <2>1, <2>2 DEF AddNetwork, TypeOK
  <1>5. CASE ReadThumbnail(d)
    <2>1. app' \in [Devices -> AppStates]
      BY <1>5, GoesType DEF ReadThumbnail, TypeOK
    <2>2. /\ listening' \in [Devices -> SUBSET Savers]
          /\ saves' \subseteq Save
      BY <1>5, StartScreenType DEF ReadThumbnail, TypeOK, NoScreen, Savers
    <2> QED BY <1>5, <2>1, <2>2 DEF ReadThumbnail, TypeOK
  <1>6. CASE AddThumbnail(d)
    <2>1. app' \in [Devices -> AppStates]
      BY <1>6, GoesType DEF AddThumbnail, TypeOK
    <2>2. /\ listening' \in [Devices -> SUBSET Savers]
          /\ saves' \subseteq Save
      BY <1>6, StartScreenType DEF AddThumbnail, TypeOK, Savers
    <2>3. thumbnail' \in Pictures
      BY <1>6 DEF AddThumbnail, Pictures
    <2> QED BY <1>6, <2>1, <2>2, <2>3 DEF AddThumbnail, TypeOK
  <1> QED BY <1>1, <1>2, <1>3, <1>4, <1>5, <1>6 DEF SignUpNext

LEMMA TypeNext == TypeOK /\ [Next]_vars => TypeOK'
  <1> SUFFICES ASSUME TypeOK, [Next]_vars PROVE TypeOK'
    OBVIOUS
  <1>1. CASE UNCHANGED vars
    BY <1>1 DEF vars, record, apps, past, histories, TypeOK
  <1>2. ASSUME NEW u \in Uploads, UpdateAvatar(u) \/ RecordImageId(u) PROVE TypeOK'
    BY <1>2 DEF UpdateAvatar, RecordImageId, apps, past, histories, TypeOK, Pictures
  <1>3. CASE SetDirectMsgTrue
    BY <1>3 DEF SetDirectMsgTrue, dmAllowRest, apps, past, histories, TypeOK, Switch
  <1> QED BY <1>1, <1>2, <1>3, TypeTokens, TypeStudent, TypeSignUp DEF Next

\* Each field of the record, each app, each save in flight and each token is one the
\* code can produce: users/U as Login, Loading, Home and Profile write it.
THEOREM TypeCorrect == Spec => []TypeOK
  BY TypeInit, TypeNext, PTL DEF Spec

-----------------------------------------------------------------------------
(* Tokens.                                                                 *)

\* A save that is alone is the only one, and nobody makes a record meanwhile; so what
\* it saved is in the array that every later save reads, and no record is set after it.
TokensSafe ==
    /\ TokensKept
    /\ \A s \in saves : s.step = "write" => kept \subseteq s.got
    /\ \A s \in saves : s.alone => saves = {s} /\ Making = {}
    /\ \A d \in Devices : app[d] = "set" => kept = {}

LEMMA StartSavesSafe ==
  ASSUME TypeOK, TokensSafe, NEW t, NEW screens \in SUBSET Savers, StartSaves(t, screens),
         UNCHANGED <<kept, deviceTokens>>,
         screens # {}, Making = {} => Making' = {},
         \A d \in Devices : app'[d] = "set" => app[d] = "set"
  PROVE  TokensSafe'
  <1>1. \A s \in saves' : s.step = "write" => kept' \subseteq s.got
    BY DEF StartSaves, Jostled, NewSave, TokensSafe, TypeOK, Save
  <1>2. ASSUME NEW s \in saves', s.alone PROVE saves' = {s} /\ Making' = {}
    <2>1. \A r \in Jostled : ~r.alone
      BY DEF Jostled, TypeOK, Save
    <2>2. PICK k \in screens : s = NewSave(t, k, screens = {k})
      BY <1>2, <2>1 DEF StartSaves
    <2>3. screens = {k} /\ saves = {} /\ Making = {}
      BY <1>2, <2>2 DEF NewSave
    <2>4. Jostled = {}
      BY <2>3 DEF Jostled
    <2> QED BY <2>2, <2>3, <2>4 DEF StartSaves
  <1> QED BY <1>1, <1>2 DEF TokensSafe, TokensKept

LEMMA TokensInit == Init => TokensSafe
  BY DEF Init, TokensSafe, TokensKept

\* Steps that touch neither saves nor what they wrote.
LEMMA TokensRest ==
  ASSUME TypeOK, TokensSafe, UNCHANGED <<saves, kept, deviceTokens>>,
         Making = {} => Making' = {},
         \A d \in Devices : app'[d] = "set" => app[d] = "set"
  PROVE  TokensSafe'
  BY DEF TokensSafe, TokensKept

LEMMA TokensOfSaves ==
  ASSUME TypeOK, TokensSafe, NEW s \in saves, ReadTokens(s) \/ WriteTokens(s)
  PROVE  TokensSafe'
  <1>1. UNCHANGED app /\ Making' = Making
    BY DEF ReadTokens, WriteTokens, apps, Making
  <1>2. s \in Save /\ (s.alone => \A d \in Devices : app[d] # "set")
    BY DEF TypeOK, TokensSafe, Making
  <1>3. CASE ReadTokens(s) /\ s.token \in deviceTokens
    <2>1. saves' = saves \ {s} /\ deviceTokens' = deviceTokens
      BY <1>3 DEF ReadTokens, record
    <2>2. CASE s.alone
      <3>1. saves' = {}
        BY <2>1, <2>2 DEF TokensSafe
      <3>2. kept' \subseteq deviceTokens'
        BY <1>3, <2>1, <2>2 DEF ReadTokens, TokensSafe, TokensKept
      <3> QED BY <1>1, <1>2, <2>2, <3>1, <3>2 DEF TokensSafe, TokensKept
    <2>3. CASE ~s.alone
      <3>1. kept' = kept
        BY <1>3, <2>3 DEF ReadTokens
      <3> QED BY <1>1, <2>1, <2>3, <3>1 DEF TokensSafe, TokensKept
    <2> QED BY <2>2, <2>3
  <1>4. CASE ReadTokens(s) /\ s.token \notin deviceTokens
    <2> DEFINE w == [s EXCEPT !.step = "write", !.got = deviceTokens]
    <2>1. /\ saves' = (saves \ {s}) \cup {w}
          /\ UNCHANGED <<kept, deviceTokens>>
      BY <1>4 DEF ReadTokens, record
    <2>2. w.got = deviceTokens /\ w.alone = s.alone
      BY <1>2 DEF Save
    <2> HIDE DEF w
    <2>3. \A r \in saves' : r.step = "write" => kept' \subseteq r.got
      BY <2>1, <2>2 DEF TokensSafe, TokensKept
    <2>4. \A r \in saves' : r.alone => saves' = {r} /\ Making' = {}
      BY <1>1, <2>1, <2>2 DEF TokensSafe
    <2> QED BY <1>1, <2>1, <2>3, <2>4 DEF TokensSafe, TokensKept
  <1>5. CASE WriteTokens(s)
    <2>1. saves' = saves \ {s} /\ deviceTokens' = s.got \cup {s.token} /\ kept \subseteq s.got
      BY <1>5 DEF WriteTokens, TokensSafe
    <2>2. CASE s.alone
      <3>1. saves' = {}
        BY <2>1, <2>2 DEF TokensSafe
      <3>2. kept' \subseteq deviceTokens'
        BY <1>5, <2>1, <2>2 DEF WriteTokens
      <3> QED BY <1>1, <1>2, <2>2, <3>1, <3>2 DEF TokensSafe, TokensKept
    <2>3. CASE ~s.alone
      <3>1. kept' = kept
        BY <1>5, <2>3 DEF WriteTokens
      <3> QED BY <1>1, <2>1, <2>3, <3>1 DEF TokensSafe, TokensKept
    <2> QED BY <2>2, <2>3
  <1> QED BY <1>3, <1>4, <1>5

\* A step of one app to "step" leaves the others where they are.
LEMMA Gone ==
  ASSUME TypeOK, NEW d \in Devices, NEW step \in AppStates, Goes(d, step)
  PROVE  app'[d] = step /\ \A e \in Devices \ {d} : app'[e] = app[e]
  BY DEF Goes, TypeOK

LEMMA GoneOn ==
  ASSUME TypeOK, NEW d \in Devices, NEW step \in AppStates \ {"record", "set"}, Goes(d, step)
  PROVE  /\ Making = {} => Making' = {}
         /\ \A e \in Devices : app'[e] = "set" => app[e] = "set"
  BY Gone DEF Making

LEMMA TokensOfApps ==
  ASSUME TypeOK, TokensSafe, NEW d \in Devices,
         StudentNext(d) \/ Loaded(d) \/ Kill(d) \/ RefreshToken(d)
  PROVE  TokensSafe'
  <1> USE StepsOfApps
  <1>0. {"Loading"} \in SUBSET Savers /\ {"Home"} \in SUBSET Savers
    BY DEF Savers
  <1>1. CASE Open(d)
    <2>1. \/ Goes(d, "loading") /\ StartSaves(<<d, token[d]>>, {"Loading"})
          \/ Goes(d, "login") /\ UNCHANGED saves
      BY <1>1 DEF Open, StartScreen, NoScreen
    <2> QED BY <1>0, <1>1, <2>1, GoneOn, StartSavesSafe, TokensRest DEF Open, record, past
  <1>2. CASE Loaded(d)
    <2>1. \/ Goes(d, "main") /\ StartSaves(<<d, token[d]>>, {"Home"})
          \/ Goes(d, "login") /\ UNCHANGED saves
      BY <1>2 DEF Loaded, StartScreen, NoScreen
    <2> QED BY <1>0, <1>2, <2>1, GoneOn, StartSavesSafe, TokensRest DEF Loaded, record, past
  <1>3. CASE SignIn(d)
    <2>1. saves' = Jostled /\ UNCHANGED <<kept, deviceTokens>>
      BY <1>3 DEF SignIn, record, past
    <2>2. \A e \in Devices : app'[e] = "set" => app[e] = "set"
      BY <1>3, Gone DEF SignIn
    <2>3. \A r \in saves' : ~r.alone /\ (r.step = "write" => kept \subseteq r.got)
      BY <2>1 DEF Jostled, TypeOK, Save, TokensSafe
    <2> QED BY <2>1, <2>2, <2>3 DEF TokensSafe, TokensKept
  <1>4. CASE SignOut(d)
    <2> QED BY <1>4, GoneOn, TokensRest DEF SignOut, record, past
  <1>5. CASE Toggle(d)
    <2> QED BY <1>5, TokensRest DEF Toggle, dmAllowRest, apps, past, Making
  <1>6. CASE Kill(d)
    <2>1. saves' \subseteq saves /\ UNCHANGED <<kept, deviceTokens>>
      BY <1>6 DEF Kill, record
    <2>2. /\ Making = {} => Making' = {}
          /\ \A e \in Devices : app'[e] = "set" => app[e] = "set"
      BY <1>6, GoneOn DEF Kill
    <2>3. \A r \in saves' : r.alone => saves' = {r} /\ Making' = {}
      BY <2>1, <2>2 DEF TokensSafe
    <2> QED BY <2>1, <2>2, <2>3 DEF TokensSafe, TokensKept
  <1>7. CASE RefreshToken(d)
    <2>1. UNCHANGED <<kept, deviceTokens, app>> /\ Making' = Making
      BY <1>7 DEF RefreshToken, record, past, Making
    <2>2. CASE listening[d] = {}
      BY <1>7, <2>1, <2>2, TokensRest DEF RefreshToken
    <2>3. CASE listening[d] # {}
      <3>1. PICK n \in 1 .. MaxTokens : StartSaves(<<d, n>>, listening[d])
        BY <1>7, <2>3 DEF RefreshToken
      <3>2. listening[d] \in SUBSET Savers
        BY DEF TypeOK
      <3> QED BY <2>1, <2>3, <3>1, <3>2, StartSavesSafe
    <2> QED BY <2>2, <2>3
  <1>8. CASE EmailSignIn(d)
    BY <1>0, <1>8, GoneOn, StartSavesSafe DEF EmailSignIn, StartScreen, record
  <1> QED BY <1>1, <1>2, <1>3, <1>4, <1>5, <1>6, <1>7, <1>8 DEF StudentNext

LEMMA TokensOfSignUp ==
  ASSUME TypeOK, TokensSafe, NEW d \in Devices, SignUpNext(d)
  PROVE  TokensSafe'
  <1> USE StepsOfApps
  <1>1. CASE ReadRecord(d)
    <2>1. UNCHANGED <<saves, kept, deviceTokens>> /\ (app'[d] = "set" => ~Exists)
      BY <1>1, Gone DEF ReadRecord, record, signUpRest
    <2>2. ~Exists => kept = {}
      BY DEF Exists, TokensSafe, TokensKept
    <2>3. \A e \in Devices : app'[e] = "set" => kept' = {}
      BY <1>1, <2>1, <2>2, Gone DEF ReadRecord, TokensSafe
    <2>4. d \in Making
      BY <1>1 DEF ReadRecord, Making
    <2> QED BY <2>1, <2>3, <2>4 DEF TokensSafe, TokensKept
  <1>2. CASE SetRecord(d)
    <2>1. kept = {} /\ d \in Making /\ UNCHANGED <<saves, kept>>
      BY <1>2 DEF SetRecord, TokensSafe, Making, signUpRest
    <2> QED BY <2>1 DEF TokensSafe, TokensKept
  <1>3. CASE ReadNetwork(d)
    BY <1>3, GoneOn, TokensRest DEF ReadNetwork, record, signUpRest
  <1>4. CASE AddNetwork(d)
    BY <1>4, GoneOn, TokensRest DEF AddNetwork, signUpRest
  <1>5. {"Home"} \in SUBSET Savers
    BY DEF Savers
  <1>6. CASE ReadThumbnail(d)
    <2>1. \/ Goes(d, "main") /\ StartSaves(<<d, token[d]>>, {"Home"})
          \/ Goes(d, "addThumbnail") /\ UNCHANGED saves
      BY <1>6 DEF ReadThumbnail, StartScreen, NoScreen
    <2> QED BY <1>5, <1>6, <2>1, GoneOn, StartSavesSafe, TokensRest DEF ReadThumbnail, record
  <1>7. CASE AddThumbnail(d)
    BY <1>5, <1>7, GoneOn, StartSavesSafe DEF AddThumbnail, StartScreen
  <1> QED BY <1>1, <1>2, <1>3, <1>4, <1>6, <1>7 DEF SignUpNext

LEMMA TokensNext == TypeOK /\ TokensSafe /\ [Next]_vars => TokensSafe'
  <1> SUFFICES ASSUME TypeOK, TokensSafe, [Next]_vars PROVE TokensSafe'
    OBVIOUS
  <1>1. CASE UNCHANGED vars
    BY <1>1, TokensRest DEF vars, record, apps, past, Making
  <1>2. ASSUME NEW u \in Uploads, UpdateAvatar(u) \/ RecordImageId(u) PROVE TokensSafe'
    BY <1>2, TokensRest DEF UpdateAvatar, RecordImageId, apps, past, Making
  <1>3. CASE SetDirectMsgTrue
    BY <1>3, TokensRest DEF SetDirectMsgTrue, dmAllowRest, apps, past, Making
  <1> QED BY <1>1, <1>2, <1>3, TokensOfSaves, TokensOfApps, TokensOfSignUp DEF Next

\* A token that one call of saveDeviceToken saved, meeting neither another call nor the
\* making of the record, is never lost to the reads and writes that overlap later.
THEOREM TokensKeptCorrect == Spec => []TokensKept
  <1>1. TokensSafe => TokensKept
    BY DEF TokensSafe
  <1> QED BY <1>1, TypeCorrect, TokensInit, TokensNext, PTL DEF Spec

-----------------------------------------------------------------------------
(* Whole records.                                                          *)

\* Whoever is through with signing up has found the network, or written it; and if every
\* app was, from the first to the last step, the record was begun by setting all of it.
WholeSafe ==
    ~erased =>
        /\ walked => network /\ thumbnail # "none"
        /\ \A d \in Devices : app[d] \in {"thumbnail", "addThumbnail"} => network
        /\ ~cut /\ ~emailed =>
            /\ Exists => named
            /\ \A d \in Devices :
                /\ app[d] \in SignUpSteps \cup {"loading", "main"} => d \in signedIn
                /\ d \in signedIn /\ app[d] \notin SignUpSteps => network /\ thumbnail # "none"
                /\ app[d] \in {"network", "addNetwork"} => Exists
                /\ listening[d] # {} => Exists
            /\ saves # {} => Exists

LEMMA WholeInit == Init => WholeSafe
  BY DEF Init, WholeSafe, SignUpSteps, Exists

\* Steps that do not write the record.
LEMMA ExistsSame == UNCHANGED record => Exists' = Exists
  BY DEF record, Exists

\* A network or a thumbnail makes a record.
LEMMA SomeRecord == named \/ network \/ thumbnail # "none" => Exists
  BY DEF Exists

\* Steps of one app that leave the record alone.
LEMMA WholeGoes ==
  ASSUME TypeOK, WholeSafe, UNCHANGED <<record, erased>>, cut => cut', emailed => emailed',
         walked' => walked \/ erased \/ (network /\ thumbnail # "none"),
         NEW d \in Devices, NEW step \in AppStates, Goes(d, step),
         \A e \in Devices \ {d} : e \in signedIn' <=> e \in signedIn,
         step \in {"thumbnail", "addThumbnail"} => network \/ erased,
         ~cut' /\ ~emailed' /\ ~erased =>
            /\ step \in SignUpSteps \cup {"loading", "main"} => d \in signedIn'
            /\ d \in signedIn' /\ step \notin SignUpSteps => network /\ thumbnail # "none"
            /\ step \in {"network", "addNetwork"} => Exists
            /\ \A e \in Devices : listening'[e] # {} => Exists
            /\ saves' # {} => Exists
  PROVE  WholeSafe'
  <1>1. /\ Exists' = Exists /\ named' = named /\ network' = network
        /\ thumbnail' = thumbnail
    BY ExistsSame DEF record
  <1>2. app'[d] = step /\ \A e \in Devices \ {d} : app'[e] = app[e]
    BY Gone
  <1> QED BY <1>1, <1>2 DEF WholeSafe

\* Steps that write fields of their own to the record, and leave the apps alone.
LEMMA WholeWrites ==
  ASSUME TypeOK, WholeSafe,
         UNCHANGED <<app, signedIn, listening, named, network, cut, emailed, walked, erased>>,
         Exists', ~cut /\ ~emailed /\ ~erased => Exists, saves' \subseteq saves,
         thumbnail' # "none" \/ UNCHANGED thumbnail
  PROVE  WholeSafe'
  BY DEF WholeSafe

LEMMA WholeOfStarts ==
  ASSUME TypeOK, WholeSafe, NEW d \in Devices, Open(d) \/ Loaded(d)
  PROVE  WholeSafe'
  <1> USE StepsOfApps DEF past, histories
  <1>1. /\ app[d] \in {"closed", "loading"}
        /\ UNCHANGED <<record, signedIn, cut, emailed, walked, erased>>
    BY DEF Open, Loaded
  <1>2. \/ Goes(d, "login") /\ NoScreen /\ (d \in signedIn => app[d] = "loading")
        \/ Goes(d, "loading") /\ StartScreen(d, "Loading") /\ d \in signedIn
        \/ Goes(d, "main") /\ StartScreen(d, "Home") /\ app[d] = "loading"
    BY DEF Open, Loaded
  <1>3. app[d] \notin SignUpSteps
    BY <1>1 DEF SignUpSteps
  <1>4. ~cut /\ ~emailed /\ ~erased =>
            /\ app[d] = "loading" => d \in signedIn
            /\ d \in signedIn => network /\ thumbnail # "none" /\ Exists
    BY <1>3, SomeRecord DEF WholeSafe
  <1>5. CASE Goes(d, "login") /\ NoScreen
    BY <1>1, <1>4, <1>5, WholeGoes DEF NoScreen, WholeSafe, SignUpSteps
  <1>6. ASSUME NEW k \in Savers, StartScreen(d, k)
        PROVE  \A e \in Devices \ {d} : listening'[e] = listening[e]
    BY <1>6 DEF StartScreen, TypeOK
  <1>7. CASE Goes(d, "loading") /\ StartScreen(d, "Loading") /\ d \in signedIn
    BY <1>1, <1>4, <1>6, <1>7, WholeGoes DEF WholeSafe, SignUpSteps, Savers
  <1>8. CASE Goes(d, "main") /\ StartScreen(d, "Home") /\ app[d] = "loading"
    BY <1>1, <1>4, <1>6, <1>8, WholeGoes DEF WholeSafe, SignUpSteps, Savers
  <1> QED BY <1>2, <1>5, <1>7, <1>8

LEMMA WholeOfApps ==
  ASSUME TypeOK, WholeSafe, NEW d \in Devices,
         SignIn(d) \/ EmailSignIn(d) \/ SignOut(d) \/ Kill(d) \/ RefreshToken(d)
  PROVE  WholeSafe'
  <1> USE StepsOfApps DEF past, histories
  <1>1. CASE SignIn(d)
    <2>1. saves = {} => saves' = {}
      BY <1>1 DEF SignIn, Jostled
    <2> QED BY <1>1, <2>1, WholeGoes DEF SignIn, SignUpSteps, WholeSafe
  <1>2. CASE EmailSignIn(d)
    BY <1>2, WholeGoes DEF EmailSignIn, WholeSafe
  <1>3. CASE SignOut(d)
    BY <1>3, WholeGoes DEF SignOut, SignUpSteps, WholeSafe
  <1>4. CASE Kill(d)
    <2>1. /\ saves' \subseteq saves /\ Goes(d, "closed")
          /\ UNCHANGED <<record, signedIn, emailed, walked, erased>>
      BY <1>4 DEF Kill
    <2>2. \A e \in Devices : listening'[e] # {} => listening[e] # {}
      BY <1>4 DEF Kill, TypeOK
    <2>3. (~cut' => ~cut /\ app[d] \notin SignUpSteps) /\ (cut => cut')
      BY <1>4 DEF Kill
    <2> QED BY <2>1, <2>2, <2>3, WholeGoes DEF SignUpSteps, WholeSafe
  <1>5. CASE RefreshToken(d)
    <2>1. /\ UNCHANGED <<app, signedIn, listening, cut, emailed, walked, erased>>
          /\ Exists' = Exists /\ UNCHANGED <<named, network, thumbnail>>
      BY <1>5, ExistsSame DEF RefreshToken, record
    <2>2. saves' # {} => saves # {} \/ listening[d] # {}
      BY <1>5 DEF RefreshToken, StartSaves
    <2> QED BY <2>1, <2>2 DEF WholeSafe
  <1> QED BY <1>1, <1>2, <1>3, <1>4, <1>5

LEMMA WholeOfWrites ==
  ASSUME TypeOK, WholeSafe,
         \/ \E s \in saves : ReadTokens(s) \/ WriteTokens(s)
         \/ \E u \in Uploads : UpdateAvatar(u) \/ RecordImageId(u)
         \/ \E d \in Devices : Toggle(d)
         \/ SetDirectMsgTrue
  PROVE  WholeSafe'
  <1> USE DEF past, histories, apps
  <1>1. ASSUME NEW s \in saves, ReadTokens(s) PROVE WholeSafe'
    <2>1. Exists' = Exists
      BY <1>1, ExistsSame DEF ReadTokens
    <2> QED BY <1>1, <2>1 DEF ReadTokens, WholeSafe, record
  <1>2. ASSUME NEW s \in saves, WriteTokens(s) PROVE WholeSafe'
    <2>1. Exists'
      BY <1>2 DEF WriteTokens, Exists
    <2>2. ~cut /\ ~emailed /\ ~erased => Exists
      BY DEF WholeSafe
    <2> QED BY <1>2, <2>1, <2>2, WholeWrites DEF WriteTokens
  <1>3. ASSUME NEW u \in Uploads, UpdateAvatar(u) PROVE WholeSafe'
    <2>1. Exists' /\ thumbnail' # "none"
      BY <1>3, UploadsAssumption DEF UpdateAvatar, Exists
    <2> QED BY <1>3, <2>1, WholeWrites DEF UpdateAvatar, Uploading
  <1>4. ASSUME NEW u \in Uploads, RecordImageId(u) PROVE WholeSafe'
    <2>1. Exists'
      BY <1>4, UploadsAssumption DEF RecordImageId, Exists
    <2> QED BY <1>4, <2>1, WholeWrites DEF RecordImageId, Uploading
  <1>5. ASSUME NEW d \in Devices, Toggle(d) PROVE WholeSafe'
    <2>1. Exists'
      BY <1>5 DEF Toggle, Exists
    <2>2. ~cut /\ ~emailed /\ ~erased => Exists
      BY <1>5, SomeRecord DEF Toggle, WholeSafe, SignUpSteps
    <2> QED BY <1>5, <2>1, <2>2, WholeWrites DEF Toggle, dmAllowRest
  <1>6. CASE SetDirectMsgTrue
    <2>1. Exists'
      BY <1>6 DEF SetDirectMsgTrue, Exists
    <2> QED BY <1>6, <2>1, WholeWrites DEF SetDirectMsgTrue, dmAllowRest
  <1> QED BY <1>1, <1>2, <1>3, <1>4, <1>5, <1>6

LEMMA WholeOfSignUp ==
  ASSUME TypeOK, WholeSafe, NEW d \in Devices, SignUpNext(d)
  PROVE  WholeSafe'
  <1> USE StepsOfApps DEF signUpRest
  <1>1. app[d] \in SignUpSteps /\ (~cut /\ ~emailed /\ ~erased => d \in signedIn)
    BY DEF SignUpNext, ReadRecord, SetRecord, ReadNetwork, AddNetwork, ReadThumbnail, AddThumbnail,
           SignUpSteps, WholeSafe
  <1>2. CASE ReadRecord(d)
    BY <1>1, <1>2, WholeGoes DEF ReadRecord, SignUpSteps, WholeSafe
  <1>3. CASE SetRecord(d)
    <2>1. /\ Exists' /\ named' /\ (~erased' => ~erased /\ ~Exists)
          /\ UNCHANGED <<signedIn, listening, saves, cut, emailed, walked>>
      BY <1>3 DEF SetRecord, Exists
    <2>2. app'[d] = "network" /\ \A e \in Devices \ {d} : app'[e] = app[e]
      BY <1>3, Gone DEF SetRecord
    <2>3. ~Exists => ~network /\ thumbnail = "none"
      BY SomeRecord
    <2> QED BY <1>1, <2>1, <2>2, <2>3 DEF WholeSafe, SignUpSteps
  <1>4. CASE ReadNetwork(d)
    <2>1. app[d] = "network" /\ (network => Exists)
      BY <1>4, SomeRecord DEF ReadNetwork
    <2> QED BY <1>1, <1>4, <2>1, WholeGoes DEF ReadNetwork, SignUpSteps, WholeSafe
  <1>5. CASE AddNetwork(d)
    <2>1. /\ app[d] = "addNetwork" /\ Exists' /\ network'
          /\ UNCHANGED <<signedIn, listening, saves, cut, emailed, walked, erased, named, thumbnail>>
      BY <1>5 DEF AddNetwork, Exists
    <2>2. app'[d] = "thumbnail" /\ \A e \in Devices \ {d} : app'[e] = app[e]
      BY <1>5, Gone DEF AddNetwork
    <2> QED BY <1>1, <2>1, <2>2 DEF WholeSafe, SignUpSteps
  <1>6. CASE ReadThumbnail(d)
    <2>1. /\ app[d] = "thumbnail" /\ (~erased => network)
          /\ UNCHANGED <<record, signedIn, cut, emailed, erased>>
      BY <1>6 DEF ReadThumbnail, WholeSafe
    <2>2. CASE thumbnail = "none"
      BY <1>1, <1>6, <2>1, <2>2, WholeGoes DEF ReadThumbnail, NoScreen, SignUpSteps, WholeSafe
    <2>3. CASE thumbnail # "none"
      <3>1. Goes(d, "main") /\ StartScreen(d, "Home")
        BY <1>6, <2>3 DEF ReadThumbnail
      <3>2. Exists
        BY <2>3, SomeRecord
      <3> QED BY <1>1, <2>1, <2>3, <3>1, <3>2, WholeGoes DEF SignUpSteps
    <2> QED BY <2>2, <2>3
  <1>7. CASE AddThumbnail(d)
    <2>1. /\ app[d] = "addThumbnail" /\ thumbnail' # "none" /\ (~erased => network)
          /\ UNCHANGED <<signedIn, cut, emailed, erased, named, network>>
      BY <1>7 DEF AddThumbnail, WholeSafe
    <2>2. app'[d] = "main" /\ \A e \in Devices \ {d} : app'[e] = app[e]
      BY <1>7, Gone DEF AddThumbnail
    <2>3. ~erased => Exists /\ Exists'
      BY <2>1, SomeRecord DEF Exists
    <2> QED BY <1>1, <2>1, <2>2, <2>3 DEF WholeSafe, SignUpSteps
  <1> QED BY <1>2, <1>3, <1>4, <1>5, <1>6, <1>7 DEF SignUpNext

LEMMA WholeNext == TypeOK /\ WholeSafe /\ [Next]_vars => WholeSafe'
  <1> SUFFICES ASSUME TypeOK, WholeSafe, [Next]_vars PROVE WholeSafe'
    OBVIOUS
  <1>1. CASE UNCHANGED vars
    <2>1. Exists' = Exists
      BY <1>1, ExistsSame DEF vars
    <2> QED BY <1>1, <2>1 DEF vars, record, apps, past, histories, WholeSafe
  <1> QED BY <1>1, WholeOfStarts, WholeOfApps, WholeOfWrites, WholeOfSignUp
          DEF Next, StudentNext

\* Unless a record is set in place of another: who has been walked through every step of
\* signing up keeps a network and a thumbnail, whatever apps were killed and whoever came
\* in with a password; and if nobody was or did, nobody is on the screens with half a record.
THEOREM WholeRecordCorrect == Spec => []WholeRecord
  <1>1. WholeSafe => WholeRecord
    <2> SUFFICES ASSUME WholeSafe, ~erased
                 PROVE  /\ walked => network /\ thumbnail # "none"
                        /\ \A d \in Devices : app[d] = "main" /\ ~cut /\ ~emailed
                              => named /\ network /\ thumbnail # "none"
      BY DEF WholeRecord
    <2>1. ASSUME NEW d \in Devices, app[d] = "main", ~cut, ~emailed
          PROVE  named /\ network /\ thumbnail # "none"
      <3>1. d \in signedIn /\ app[d] \notin SignUpSteps
        BY <2>1 DEF WholeSafe, SignUpSteps
      <3>2. network /\ thumbnail # "none"
        BY <2>1, <3>1 DEF WholeSafe
      <3> QED BY <2>1, <3>2, SomeRecord DEF WholeSafe
    <2> QED BY <2>1 DEF WholeSafe
  <1> QED BY <1>1, TypeCorrect, WholeInit, WholeNext, PTL DEF Spec

-----------------------------------------------------------------------------
(* Avatars.                                                                *)

LEMMA AvatarStep == [AvatarNext]_avatarVars => [Next]_vars
  <1> SUFFICES ASSUME [AvatarNext]_avatarVars PROVE [Next]_vars
    OBVIOUS
  <1>1. CASE UNCHANGED avatarVars
    BY <1>1 DEF avatarVars
  <1>2. CASE AccountNext
    BY <1>2 DEF AccountNext, Next
  <1>3. CASE \E d \in Devices : KillUploads(d)
    BY <1>3 DEF KillUploads, Next
  <1>4. ASSUME NEW u \in Uploads, UploadNext(u) PROVE [Next]_vars
    BY <1>4 DEF UploadNext, BeginOnProfile, BeginOnBio, Begin, ReadId, RecordId, PutFile,
                ImageURL, ThumbURL, Answer, WriteAvatar, Next
  <1>5. CASE StorageNext
    BY <1>5 DEF StorageNext, Download, UploadThumb, Delete
  <1> QED BY <1>1, <1>2, <1>3, <1>4, <1>5 DEF AvatarNext

\* With its uploads the record still does only what Account.tla says, so that what is
\* proved of Account.tla holds of the composition.
THEOREM AvatarImplementsAccount == AvatarSpec => Spec
  BY AvatarStep, PTL DEF AvatarSpec, AvatarInit, Spec

\* The upload begun last, unless another device was still to read an id then.
Newest(u) == begun # <<>> /\ u = Last(begun) /\ u \notin crossed

\* No upload deletes the newest: others that are still to read an id are of the same
\* device, and read before the newest has recorded its own.
NewestKept ==
    \A u \in Begun : Newest(u) =>
        /\ \A v \in Begun : v # u /\ ids[v] = "read"
              => from[v] = from[u] /\ ids[u] # "record" /\ profileImageId # u
        /\ \A x \in deleting : x[2] # u
        /\ file[u] \in {"image", "thumb", "write"} \/ picture = u => u \in images
        /\ file[u] = "write" \/ picture = u => u \in thumbs

OnlyBegun ==
    /\ profileImageId \in Begun \cup {"none"}
    /\ picture \in Begun \cup {"none", "photo"}
    /\ \A x \in deleting : x[2] \in Begun
    /\ \A u \in Uploads : ids[u] # "no" => u \in Begun /\ profileImageId # u
    /\ \A u \in Uploads : file[u] # "no" => u \in Begun
    /\ \A x \in thumbing : file[x[1]] # "put"

AvatarSafe == AvatarTypeOK /\ OnlyBegun /\ NewestKept

LEMMA NoneBegun == ToSet(<<>>) = {}
  BY DEF ToSet

LEMMA AvatarSafeInit == AvatarInit => AvatarSafe
  <1> SUFFICES ASSUME AvatarInit PROVE AvatarSafe
    OBVIOUS
  <1>1. TypeOK /\ Begun = {} /\ begun = <<>>
    BY TypeInit, NoneBegun DEF AvatarInit, NothingUploaded, Begun
  <1>2. begun \in Seq(Uploads) /\ IsInjective(begun)
    BY <1>1 DEF IsInjective
  <1>3. AvatarTypeOK
    BY <1>1, <1>2 DEF AvatarInit, NothingUploaded, AvatarTypeOK, IdSteps, FileSteps
  <1> QED BY <1>1, <1>3 DEF AvatarSafe, AvatarInit, NothingUploaded, Init, OnlyBegun, NewestKept

\* begun grows by what has not been begun.
LEMMA BeginOne ==
  ASSUME begun \in Seq(Uploads), IsInjective(begun), NEW u \in Uploads, u \notin Begun,
         begun' = Append(begun, u)
  PROVE  /\ begun' \in Seq(Uploads) /\ IsInjective(begun')
         /\ Begun' = Begun \cup {u}
         /\ begun' # <<>> /\ Last(begun') = u
  <1>1. /\ begun' \in Seq(Uploads) /\ Len(begun') = Len(begun) + 1 /\ Len(begun) \in Nat
        /\ begun'[Len(begun) + 1] = u
        /\ \A i \in 1 .. Len(begun) : begun'[i] = begun[i]
    OBVIOUS
  <1>2. DOMAIN begun = 1 .. Len(begun) /\ DOMAIN begun' = 1 .. Len(begun) + 1
    BY <1>1
  <1>3. \A i \in DOMAIN begun : begun[i] # u
    BY DEF Begun, ToSet
  <1>4. IsInjective(begun')
    BY <1>1, <1>2, <1>3 DEF IsInjective
  <1>5. Begun' = Begun \cup {u}
    BY <1>1, <1>2 DEF Begun, ToSet
  <1> QED BY <1>1, <1>4, <1>5 DEF Last

\* Nothing was begun after the last.
LEMMA LastIsLast ==
  ASSUME begun \in Seq(Uploads), IsInjective(begun), begun # <<>>, NEW v, Before(Last(begun), v)
  PROVE  v = Last(begun)
  <1>1. PICK i, j \in DOMAIN begun : i <= j /\ begun[i] = Last(begun) /\ begun[j] = v
    BY DEF Before
  <1>2. Len(begun) \in Nat /\ Len(begun) # 0 /\ DOMAIN begun = 1 .. Len(begun)
    OBVIOUS
  <1>3. i = Len(begun)
    BY <1>1, <1>2 DEF IsInjective, Last
  <1> QED BY <1>1, <1>2, <1>3 DEF Last

\* Which upload is the newest changes only when one begins.
LEMMA SameUploads ==
  ASSUME UNCHANGED <<begun, from, crossed>>
  PROVE  /\ Begun' = Begun
         /\ begun \in Seq(Uploads) /\ IsInjective(begun)
              => begun' \in Seq(Uploads) /\ IsInjective(begun')
         /\ \A u : Newest(u)' <=> Newest(u)
  BY DEF Begun, Newest

\* Of the account's own steps only the making of the record changes the picture, and
\* it drops the id.
LEMMA PictureOfAccount ==
  ASSUME AccountNext
  PROVE  picture' \in {picture, "photo"} /\ profileImageId' \in {profileImageId, "none"}
  <1>1. ASSUME NEW d \in Devices,
               StudentNext(d) \/ SignUpNext(d) \/ Loaded(d) \/ RefreshToken(d)
        PROVE  picture' \in {picture, "photo"} /\ profileImageId' \in {profileImageId, "none"}
    BY <1>1 DEF StudentNext, SignUpNext, Loaded, RefreshToken, Open, SignIn, EmailSignIn, SignOut,
                Toggle, dmAllowRest, ReadRecord, SetRecord, ReadNetwork, AddNetwork, ReadThumbnail,
                AddThumbnail, record
  <1>2. ASSUME NEW s \in saves, ReadTokens(s) \/ WriteTokens(s)
        PROVE  UNCHANGED <<picture, profileImageId>>
    BY <1>2 DEF ReadTokens, WriteTokens, record
  <1>3. SetDirectMsgTrue => UNCHANGED <<picture, profileImageId>>
    BY DEF SetDirectMsgTrue, dmAllowRest
  <1> QED BY <1>1, <1>2, <1>3 DEF AccountNext

LEMMA AvatarOfAccount ==
  ASSUME AvatarSafe, TypeOK', UNCHANGED avatars, picture' \in {picture, "photo"},
         profileImageId' \in {profileImageId, "none"}
  PROVE  AvatarSafe'
  <1> USE DEF avatars, uploading, storage
  <1>1. AvatarTypeOK'
    BY SameUploads DEF AvatarSafe, AvatarTypeOK
  <1>2. \A u \in Begun : (picture' = u => picture = u) /\ (profileImageId' = u => profileImageId = u)
    BY UploadsAssumption DEF AvatarSafe, AvatarTypeOK, Begun, ToSet
  <1>3. \A u \in Uploads : profileImageId' = u => profileImageId = u
    BY UploadsAssumption
  <1>4. OnlyBegun'
    BY <1>3, SameUploads DEF AvatarSafe, OnlyBegun
  <1>5. NewestKept'
    BY <1>2, SameUploads DEF AvatarSafe, NewestKept
  <1> QED BY <1>1, <1>4, <1>5 DEF AvatarSafe

LEMMA AvatarOfKill ==
  ASSUME AvatarSafe, TypeOK', NEW d \in Devices, KillUploads(d)
  PROVE  AvatarSafe'
  <1> USE DEF storage
  <1>1. /\ UNCHANGED <<profileImageId, begun, from, storage, crossed, picture>>
        /\ Begun' = Begun
    BY SameUploads DEF KillUploads, Kill, record
  <1>2. /\ ids' \in [Uploads -> IdSteps] /\ file' \in [Uploads -> FileSteps]
        /\ \A u \in Uploads : ids'[u] \in {ids[u], "no"} /\ file'[u] \in {file[u], "no"}
    BY DEF KillUploads, AvatarSafe, AvatarTypeOK, IdSteps, FileSteps
  <1>3. \A u \in Begun : u \in Uploads
    BY DEF AvatarSafe, AvatarTypeOK, Begun, ToSet
  <1>4. AvatarTypeOK'
    BY <1>1, <1>2, <1>3, SameUploads DEF AvatarSafe, AvatarTypeOK
  <1>5. OnlyBegun'
    BY <1>1, <1>2, <1>3 DEF AvatarSafe, AvatarTypeOK, OnlyBegun
  <1>6. NewestKept'
    BY <1>1, <1>2, <1>3, SameUploads DEF AvatarSafe, NewestKept
  <1> QED BY <1>4, <1>5, <1>6 DEF AvatarSafe

LEMMA AvatarOfBegin ==
  ASSUME AvatarSafe, TypeOK', NEW d \in Devices, NEW u \in Uploads,
         NEW first \in {"no", "read"}, Begin(d, u, first)
  PROVE  AvatarSafe'
  <1> USE DEF storage
  <1>1. /\ begun' \in Seq(Uploads) /\ IsInjective(begun')
        /\ Begun' = Begun \cup {u}
        /\ begun' # <<>> /\ Last(begun') = u
        /\ u \notin Begun
    BY BeginOne DEF Begin, AvatarSafe, AvatarTypeOK
  <1>2. /\ UNCHANGED <<profileImageId, images, thumbs, deleting, thumbing, picture>>
    BY DEF Begin, vars, record
  <1>3. /\ ids' \in [Uploads -> IdSteps] /\ file' \in [Uploads -> FileSteps]
        /\ ids'[u] = first /\ file'[u] = "put"
        /\ \A v \in Uploads \ {u} : ids'[v] = ids[v] /\ file'[v] = file[v]
    BY DEF Begin, Follow, AvatarSafe, AvatarTypeOK, IdSteps, FileSteps
  <1>4. /\ from' \in [Begun' -> Devices] /\ from'[u] = d
        /\ \A v \in Begun : from'[v] = from[v]
    BY <1>1 DEF Begin, AvatarSafe, AvatarTypeOK
  <1>5. /\ crossed' \subseteq Begun'
        /\ u \notin crossed' => \A v \in Begun : ids[v] = "read" => from[v] = d
    BY <1>1 DEF Begin, AvatarSafe, AvatarTypeOK
  <1>6. \A v \in Begun : v \in Uploads
    BY DEF AvatarSafe, AvatarTypeOK, Begun, ToSet
  <1>7. AvatarTypeOK'
    BY <1>1, <1>2, <1>3, <1>4, <1>5, <1>6 DEF AvatarSafe, AvatarTypeOK
  <1>8. OnlyBegun'
    BY <1>1, <1>2, <1>3, <1>6, UploadsAssumption DEF AvatarSafe, AvatarTypeOK, OnlyBegun
  <1>9. NewestKept'
    <2>1. \A v : Newest(v)' => v = u /\ u \notin crossed'
      BY <1>1 DEF Newest
    <2>2. profileImageId # u /\ picture # u /\ \A x \in deleting : x[2] # u
      BY <1>1, UploadsAssumption DEF AvatarSafe, OnlyBegun
    <2> QED BY <1>1, <1>2, <1>3, <1>4, <1>5, <1>6, <2>1, <2>2 DEF NewestKept
  <1> QED BY <1>7, <1>8, <1>9 DEF AvatarSafe

\* The newest reads last of its device, so that nobody else is to read after it.
LEMMA AvatarOfReadId ==
  ASSUME AvatarSafe, TypeOK', NEW u \in Uploads, ReadId(u)
  PROVE  AvatarSafe'
  <1>1. /\ UNCHANGED <<profileImageId, begun, from, crossed, picture, file, images, thumbs, thumbing>>
        /\ Begun' = Begun
    BY SameUploads DEF ReadId, vars, record
  <1>2. /\ ids' \in [Uploads -> IdSteps]
        /\ ids[u] = "read" /\ ids'[u] = "record" /\ u \in Begun
        /\ \A v \in Uploads \ {u} : ids'[v] = ids[v]
    BY DEF ReadId, Foremost, Follow, AvatarSafe, AvatarTypeOK, IdSteps
  <1>3. deleting' = deleting \cup {x \in Objects : x[2] = profileImageId}
    BY DEF ReadId
  <1>4. \A v \in Begun : v \in Uploads
    BY DEF AvatarSafe, AvatarTypeOK, Begun, ToSet
  <1>5. AvatarTypeOK'
    BY <1>1, <1>2, <1>3, SameUploads DEF AvatarSafe, AvatarTypeOK
  <1>6. OnlyBegun'
    <2>1. \A x \in Objects : x[2] \in Uploads
      BY DEF Objects
    <2> QED BY <1>1, <1>2, <1>3, <2>1, UploadsAssumption DEF AvatarSafe, OnlyBegun
  <1>7. ASSUME NEW w \in Begun, Newest(w)
        PROVE  /\ profileImageId # w
               /\ \A v \in Begun : v # w /\ ids'[v] = "read"
                     => from[v] = from[w] /\ ids'[w] # "record"
    <2>1. /\ profileImageId # w
          /\ \A v \in Begun : v # w /\ ids[v] = "read" => from[v] = from[w] /\ ids[w] # "record"
      BY <1>2, <1>7 DEF AvatarSafe, NewestKept, OnlyBegun
    <2>2. CASE w # u
      BY <1>2, <1>4, <2>1, <2>2
    <2>3. CASE w = u
      <3>1. \A v \in Begun : ids[v] = "read" /\ from[v] = from[u] => v = u
        BY <1>7, <2>3, LastIsLast DEF ReadId, Foremost, Newest, AvatarSafe, AvatarTypeOK
      <3> QED BY <1>2, <1>4, <2>1, <2>3, <3>1
    <2> QED BY <2>2, <2>3
  <1>8. NewestKept'
    BY <1>1, <1>3, <1>7, SameUploads DEF AvatarSafe, NewestKept
  <1> QED BY <1>5, <1>6, <1>8 DEF AvatarSafe

LEMMA AvatarOfRecordId ==
  ASSUME AvatarSafe, TypeOK', NEW u \in Uploads, RecordId(u)
  PROVE  AvatarSafe'
  <1> USE DEF storage
  <1>1. /\ UNCHANGED <<begun, from, crossed, picture, file, storage>>
        /\ Begun' = Begun /\ profileImageId' = u
    BY SameUploads DEF RecordId, RecordImageId
  <1>2. /\ ids' \in [Uploads -> IdSteps]
        /\ ids[u] = "record" /\ ids'[u] = "no" /\ u \in Begun
        /\ \A v \in Uploads \ {u} : ids'[v] = ids[v]
    BY DEF RecordId, Foremost, Follow, AvatarSafe, AvatarTypeOK, IdSteps
  <1>3. \A v \in Begun : v \in Uploads
    BY DEF AvatarSafe, AvatarTypeOK, Begun, ToSet
  <1>4. AvatarTypeOK'
    BY <1>1, <1>2, SameUploads DEF AvatarSafe, AvatarTypeOK
  <1>5. OnlyBegun'
    BY <1>1, <1>2 DEF AvatarSafe, OnlyBegun
  <1>6. NewestKept'
    BY <1>1, <1>2, <1>3, SameUploads DEF AvatarSafe, NewestKept
  <1> QED BY <1>4, <1>5, <1>6 DEF AvatarSafe

\* Steps of the chain of the file: it goes on only with what the storage has.
LEMMA AvatarOfFile ==
  ASSUME AvatarSafe, TypeOK', NEW u \in Uploads,
         PutFile(u) \/ ImageURL(u) \/ ThumbURL(u) \/ WriteAvatar(u)
  PROVE  AvatarSafe'
  <1>1. /\ UNCHANGED <<begun, from, crossed, profileImageId, ids, deleting, thumbs>>
        /\ Begun' = Begun
    BY SameUploads DEF PutFile, ImageURL, ThumbURL, WriteAvatar, Answer, storage, UpdateAvatar,
                       vars, record
  <1>2. \A v \in Begun : v \in Uploads
    BY DEF AvatarSafe, AvatarTypeOK, Begun, ToSet
  <1>3. /\ file' \in [Uploads -> FileSteps]
        /\ \A v \in Uploads \ {u} : file'[v] = file[v]
        /\ file[u] # "no" /\ file'[u] # "put"
    BY DEF PutFile, ImageURL, ThumbURL, WriteAvatar, Answer, Follow, AvatarSafe, AvatarTypeOK,
           FileSteps
  <1>4. u \in Begun
    BY <1>3 DEF AvatarSafe, OnlyBegun
  <1>5. /\ images \subseteq images' /\ images' \subseteq images \cup {u}
        /\ thumbing' \subseteq thumbing \cup {<<u, "download">>}
    BY DEF PutFile, ImageURL, ThumbURL, WriteAvatar, Answer, storage
  <1>6. AvatarTypeOK'
    BY <1>1, <1>2, <1>3, <1>4, <1>5, SameUploads DEF AvatarSafe, AvatarTypeOK
  <1>7. picture' = picture \/ (picture' = u /\ file[u] = "write")
    BY DEF PutFile, ImageURL, ThumbURL, WriteAvatar, Answer, UpdateAvatar, vars, record
  <1>8. OnlyBegun'
    BY <1>1, <1>2, <1>3, <1>4, <1>5, <1>7 DEF AvatarSafe, AvatarTypeOK, OnlyBegun
  <1>9. /\ Newest(u) /\ file'[u] \in {"image", "thumb", "write"} => u \in images'
        /\ Newest(u) /\ file'[u] = "write" => u \in thumbs
    <2>1. CASE PutFile(u)
      BY <2>1 DEF PutFile, Follow, AvatarSafe, AvatarTypeOK
    <2>2. CASE ImageURL(u)
      BY <1>4, <2>2 DEF ImageURL, Answer, Follow, storage, AvatarSafe, AvatarTypeOK, NewestKept
    <2>3. CASE ThumbURL(u)
      BY <1>4, <2>3 DEF ThumbURL, Answer, Follow, storage, AvatarSafe, AvatarTypeOK, NewestKept
    <2>4. CASE WriteAvatar(u)
      BY <1>4, <2>4 DEF WriteAvatar, Follow, AvatarSafe, AvatarTypeOK
    <2> QED BY <2>1, <2>2, <2>3, <2>4
  <1>10. NewestKept'
    BY <1>1, <1>2, <1>3, <1>5, <1>7, <1>9, SameUploads DEF AvatarSafe, NewestKept
  <1> QED BY <1>6, <1>8, <1>10 DEF AvatarSafe

LEMMA AvatarOfStorage ==
  ASSUME AvatarSafe, TypeOK', StorageNext
  PROVE  AvatarSafe'
  <1>1. /\ UNCHANGED <<begun, from, crossed, profileImageId, ids, file, picture>>
        /\ Begun' = Begun
    BY SameUploads DEF StorageNext, Download, UploadThumb, Delete, uploading, vars, record
  <1>2. \A v \in Begun : v \in Uploads
    BY DEF AvatarSafe, AvatarTypeOK, Begun, ToSet
  <1>3. deleting' \subseteq deleting
    BY DEF StorageNext, Download, UploadThumb, Delete
  <1>4. ASSUME NEW u \in Uploads, Download(u) \/ UploadThumb(u) PROVE AvatarSafe'
    <2>1. /\ images' = images /\ thumbs \subseteq thumbs' /\ thumbs' \subseteq thumbs \cup {u}
          /\ u \in Begun /\ file[u] # "put"
          /\ thumbing' \subseteq thumbing \cup {<<u, "upload">>}
      BY <1>4 DEF Download, UploadThumb, AvatarSafe, AvatarTypeOK, OnlyBegun
    <2>2. AvatarTypeOK'
      BY <1>1, <1>2, <1>3, <2>1, SameUploads DEF AvatarSafe, AvatarTypeOK
    <2>3. OnlyBegun'
      BY <1>1, <1>3, <2>1 DEF AvatarSafe, OnlyBegun
    <2>4. NewestKept'
      BY <1>1, <1>3, <2>1, SameUploads DEF AvatarSafe, NewestKept
    <2> QED BY <2>2, <2>3, <2>4 DEF AvatarSafe
  <1>5. ASSUME NEW x \in deleting, Delete(x) PROVE AvatarSafe'
    <2>1. /\ images' \subseteq images /\ thumbs' \subseteq thumbs /\ thumbing' = thumbing
          /\ \A u : u # x[2] => (u \in images => u \in images') /\ (u \in thumbs => u \in thumbs')
      BY <1>5 DEF Delete
    <2>2. AvatarTypeOK'
      BY <1>1, <1>2, <1>3, <2>1, SameUploads DEF AvatarSafe, AvatarTypeOK
    <2>3. OnlyBegun'
      BY <1>1, <1>3, <2>1 DEF AvatarSafe, OnlyBegun
    <2>4. NewestKept'
      BY <1>1, <1>3, <2>1, SameUploads DEF AvatarSafe, NewestKept
    <2> QED BY <2>2, <2>3, <2>4 DEF AvatarSafe
  <1> QED BY <1>4, <1>5 DEF StorageNext

LEMMA AvatarSafeNext == AvatarSafe /\ [AvatarNext]_avatarVars => AvatarSafe'
  <1> SUFFICES ASSUME AvatarSafe, [AvatarNext]_avatarVars PROVE AvatarSafe'
    OBVIOUS
  <1>0. TypeOK'
    BY TypeNext, AvatarStep DEF AvatarSafe, AvatarTypeOK
  <1>1. CASE UNCHANGED avatarVars
    BY <1>0, <1>1, AvatarOfAccount DEF avatarVars, vars, record
  <1>2. CASE AccountNext /\ UNCHANGED avatars
    BY <1>0, <1>2, PictureOfAccount, AvatarOfAccount
  <1>3. CASE \E d \in Devices : KillUploads(d)
    BY <1>0, <1>3, AvatarOfKill
  <1>4. ASSUME NEW u \in Uploads, UploadNext(u) PROVE AvatarSafe'
    <2>1. CASE \E d \in Devices : BeginOnProfile(d, u) \/ BeginOnBio(d, u)
      BY <1>0, <2>1, AvatarOfBegin DEF BeginOnProfile, BeginOnBio
    <2> QED BY <1>0, <1>4, <2>1, AvatarOfReadId, AvatarOfRecordId, AvatarOfFile DEF UploadNext
  <1>5. CASE StorageNext
    BY <1>0, <1>5, AvatarOfStorage
  <1> QED BY <1>1, <1>2, <1>3, <1>4, <1>5 DEF AvatarNext

\* Every chain of an upload, and the storage, are where uploadImage and
\* generateThumbnail of index.js can bring them.
THEOREM AvatarTypeCorrect == AvatarSpec => []AvatarTypeOK
  <1>1. AvatarSafe => AvatarTypeOK
    BY DEF AvatarSafe
  <1> QED BY <1>1, AvatarSafeInit, AvatarSafeNext, PTL DEF AvatarSpec

\* The picture chosen last is there, with its thumbnail, once the record shows it, and
\* no upload of its device takes it away again.
THEOREM PictureThereCorrect == AvatarSpec => []PictureThere
  <1>1. AvatarSafe => PictureThere
    <2> SUFFICES ASSUME AvatarSafe, begun # <<>>, picture = Last(begun), picture \notin crossed
                 PROVE  /\ picture \in images /\ <<"image", picture>> \notin deleting
                        /\ picture \in thumbs /\ <<"thumb", picture>> \notin deleting
      BY DEF PictureThere
    <2>1. picture \in Begun
      BY DEF Last, Begun, ToSet, AvatarSafe, AvatarTypeOK
    <2> QED BY <2>1 DEF AvatarSafe, NewestKept, Newest
  <1> QED BY <1>1, AvatarSafeInit, AvatarSafeNext, PTL DEF AvatarSpec
=============================================================================
