----------------------------- MODULE MCAccount -----------------------------
(* Two slices of AvatarSpec: one student signs up on two devices and uploads *)
(* nothing; or is signed up on both, does not sign out, and uploads.         *)
EXTENDS Avatar

VARIABLE slice

SignedUp ==
    /\ named = TRUE /\ network = TRUE
    /\ picture = "photo" /\ thumbnail = "photo" /\ profileImageId = "none" /\ dmAllow = "on"
    /\ deviceTokens = {<<d, 1>> : d \in Devices}
    /\ app = [d \in Devices |-> "main"]
    /\ signedIn = Devices
    /\ token = [d \in Devices |-> 1]
    /\ listening = [d \in Devices |-> Savers]
    /\ saves = {}
    /\ cut = FALSE /\ emailed = FALSE /\ walked = TRUE /\ erased = FALSE /\ kept = {}
    /\ exits = 0

SlicedInit ==
    \/ slice = "signUp" /\ AvatarInit
    \/ slice = "upload" /\ SignedUp /\ NothingUploaded

SignUpSlice == (AccountNext /\ UNCHANGED avatars) \/ (\E d \in Devices : KillUploads(d))

UploadSlice ==
    \/ \E d \in Devices : KillUploads(d)
    \/ (\E d \in Devices : Open(d) \/ Loaded(d)) /\ UNCHANGED avatars
    \/ (\E s \in saves : ReadTokens(s) \/ WriteTokens(s)) /\ UNCHANGED avatars
    \/ \E u \in Uploads : UploadNext(u)
    \/ StorageNext

SlicedNext ==
    /\ UNCHANGED slice
    /\ \/ slice = "signUp" /\ SignUpSlice
       \/ slice = "upload" /\ UploadSlice

SlicedSpec == SlicedInit /\ [][SlicedNext]_<<avatarVars, slice>>
=============================================================================
