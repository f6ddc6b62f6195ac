------------------------------- MODULE Avatar -------------------------------
(***************************************************************************)
(* The pictures a student uploads, composed with the record of Account.tla *)
(* that is to show the last of them.                                       *)
(*                                                                         *)
(* Profile.js starts two chains of calls at once.  One reads the id of the *)
(* image before, asks the storage to delete that image and its thumbnail,  *)
(* and records the new id.  The other puts the file, asks for its URL, then *)
(* for that of its thumbnail, and writes both with updateAvatar; it gives  *)
(* up when one of them is not there.  NewUserSetProfile.js and EditBio.js  *)
(* start the second chain only.  A thumbnail is made by generateThumbnail, *)
(* a function that the arrival of the file starts: nobody waits for it.    *)
(* The storage keeps no order between calls.                               *)
(***************************************************************************)
EXTENDS Account, Sequences, SequencesExt

VARIABLES
    begun,           \* the uploads, in the order in which they were begun
    from,            \* the device of each
    ids,             \* where the chain of the ids is
    file,            \* where the chain of the file is
    images, thumbs,  \* what the storage has
    deleting,        \* deletions asked for
    thumbing,        \* generateThumbnail at work
    crossed          \* history: uploads begun while another device's had its id to read

uploading == <<begun, from, ids, file>>
storage == <<images, thumbs, deleting, thumbing>>
avatars == <<uploading, storage, crossed>>
avatarVars == <<vars, avatars>>

Begun == ToSet(begun)
Objects == {"image", "thumb"} \X Uploads

NothingUploaded ==
    /\ begun = <<>>
    /\ from = [u \in {} |-> 0]
    /\ ids = [u \in Uploads |-> "no"]
    /\ file = [u \in Uploads |-> "no"]
    /\ images = {} /\ thumbs = {}
    /\ deleting = {} /\ thumbing = {}
    /\ crossed = {}

AvatarInit == Init /\ NothingUploaded

Follow(chain, u, step) == [chain EXCEPT ![u] = step]

-----------------------------------------------------------------------------
(* The app.                                                                *)

\* uploadImage, of a screen that does or does not record ids.
Begin(d, u, first) ==
    /\ app[d] = "main"
    /\ u \notin Begun
    /\ begun' = Append(begun, u)
    /\ from' = [v \in Begun \cup {u} |-> IF v = u THEN d ELSE from[v]]
    /\ ids' = Follow(ids, u, first)
    /\ file' = Follow(file, u, "put")
    /\ crossed' = IF \E v \in Begun : ids[v] = "read" /\ from[v] # d
                  THEN crossed \cup {u} ELSE crossed
    /\ UNCHANGED <<vars, storage>>

BeginOnProfile(d, u) == Begin(d, u, "read")
BeginOnBio(d, u) == Begin(d, u, "no")

Before(u, v) == \E i, j \in DOMAIN begun : i <= j /\ begun[i] = u /\ begun[j] = v

\* Of the calls one device makes, the first is answered first.
Foremost(u, step) ==
    /\ u \in Begun /\ ids[u] = step
    /\ \A v \in Begun : ids[v] = step /\ from[v] = from[u] => Before(u, v)

\* Bug: the id is recorded before the one of the image before is read.
ReadIdRecorded(u) ==
    /\ Foremost(u, "read")
    /\ ids' = Follow(ids, u, "record")
    /\ deleting' = deleting \cup {<<"image", u>>, <<"thumb", u>>}
    /\ UNCHANGED <<vars, begun, from, file, images, thumbs, thumbing, crossed>>

ReadId(u) ==
    /\ Foremost(u, "read")
    /\ ids' = Follow(ids, u, "record")
    /\ deleting' = deleting \cup {x \in Objects : x[2] = profileImageId}
    /\ UNCHANGED <<vars, begun, from, file, images, thumbs, thumbing, crossed>>

RecordId(u) ==
    /\ Foremost(u, "record")
    /\ ids' = Follow(ids, u, "no")
    /\ RecordImageId(u)
    /\ UNCHANGED <<begun, from, file, storage, crossed>>

\* Follows the chain of the file if the storage can answer, and ends it if not.
Answer(u, step, possible, next) ==
    /\ file[u] = step
    /\ file' = Follow(file, u, IF possible THEN next ELSE "no")
    /\ UNCHANGED <<vars, begun, from, ids, storage, crossed>>

ImageURL(u) == Answer(u, "image", u \in images, "thumb")
ThumbURL(u) == Answer(u, "thumb", u \in thumbs, "write")

WriteAvatar(u) ==
    /\ file[u] = "write"
    /\ file' = Follow(file, u, "no")
    /\ UpdateAvatar(u)
    /\ UNCHANGED <<begun, from, ids, storage, crossed>>

\* An app that is killed follows no chain any more.
KillUploads(d) ==
    LET Stop(chain) == [u \in Uploads |-> IF u \in Begun /\ from[u] = d THEN "no" ELSE chain[u]] IN
    /\ Kill(d)
    /\ ids' = Stop(ids) /\ file' = Stop(file)
    /\ UNCHANGED <<begun, from, storage, crossed>>

-----------------------------------------------------------------------------
(* The storage and generateThumbnail.                                      *)

\* Bug: the file is put again and again.
PutAgain(u) ==
    /\ file[u] = "put"
    /\ images' = images \cup {u}
    /\ thumbing' = thumbing \cup {<<u, "download">>}
    /\ UNCHANGED <<vars, uploading, thumbs, deleting, crossed>>

PutFile(u) ==
    /\ file[u] = "put"
    /\ file' = Follow(file, u, "image")
    /\ images' = images \cup {u}
    /\ thumbing' = thumbing \cup {<<u, "download">>}
    /\ UNCHANGED <<vars, begun, from, ids, thumbs, deleting, crossed>>

\* A function that finds no image fails, and is not started again.
Download(u) ==
    LET work == thumbing \ {<<u, "download">>} IN
    /\ <<u, "download">> \in thumbing
    /\ thumbing' = IF u \in images THEN work \cup {<<u, "upload">>} ELSE work
    /\ UNCHANGED <<vars, uploading, images, thumbs, deleting, crossed>>

UploadThumb(u) ==
    /\ <<u, "upload">> \in thumbing
    /\ thumbing' = thumbing \ {<<u, "upload">>}
    /\ thumbs' = thumbs \cup {u}
    /\ UNCHANGED <<vars, uploading, images, deleting, crossed>>

\* A deletion of what is not there changes nothing.
Delete(x) ==
    /\ x \in deleting
    /\ deleting' = deleting \ {x}
    /\ images' = IF x[1] = "image" THEN images \ {x[2]} ELSE images
    /\ thumbs' = IF x[1] = "thumb" THEN thumbs \ {x[2]} ELSE thumbs
    /\ UNCHANGED <<vars, uploading, thumbing, crossed>>

-----------------------------------------------------------------------------

UploadNext(u) ==
    \/ \E d \in Devices : BeginOnProfile(d, u) \/ BeginOnBio(d, u)
    \/ ReadId(u) \/ RecordId(u)
    \/ PutFile(u) \/ ImageURL(u) \/ ThumbURL(u) \/ WriteAvatar(u)

StorageNext == \/ \E u \in Uploads : Download(u) \/ UploadThumb(u)
               \/ \E x \in deleting : Delete(x)

AccountNext ==
    \/ \E d \in Devices : StudentNext(d) \/ SignUpNext(d) \/ Loaded(d) \/ RefreshToken(d)
    \/ \E s \in saves : ReadTokens(s) \/ WriteTokens(s)
    \/ SetDirectMsgTrue

AvatarNext ==
    \/ AccountNext /\ UNCHANGED avatars
    \/ \E d \in Devices : KillUploads(d)
    \/ \E u \in Uploads : UploadNext(u)
    \/ StorageNext

AvatarSpec == AvatarInit /\ [][AvatarNext]_avatarVars

-----------------------------------------------------------------------------

IdSteps == {"no", "read", "record"}
FileSteps == {"no", "put", "image", "thumb", "write"}

AvatarTypeOK ==
    /\ TypeOK
    /\ begun \in Seq(Uploads) /\ IsInjective(begun)
    /\ from \in [Begun -> Devices]
    /\ ids \in [Uploads -> IdSteps] /\ file \in [Uploads -> FileSteps]
    /\ images \cup thumbs \subseteq {u \in Begun : file[u] # "put"}
    /\ deleting \subseteq Objects
    /\ thumbing \subseteq Begun \X {"download", "upload"}
    /\ crossed \subseteq Begun

\* When the record shows the picture that was chosen last, the storage has it and its
\* thumbnail, and no deletion on its way takes them: what an upload deletes is never
\* its own, nor what a later one has put, unless another device came to read between.
PictureThere ==
    begun # <<>> /\ picture = Last(begun) /\ picture \notin crossed =>
        /\ picture \in images /\ <<"image", picture>> \notin deleting
        /\ picture \in thumbs /\ <<"thumb", picture>> \notin deleting
=============================================================================
