SPECIFICATION SlicedSpec
CONSTANTS
    Devices = {1, 2}
    Uploads = {u1, u2}
    MaxTokens = 2
    MaxExits = 1
CHECK_DEADLOCK FALSE
INVARIANT AvatarTypeOK
INVARIANT WholeRecord
INVARIANT TokensKept
INVARIANT PictureThere
