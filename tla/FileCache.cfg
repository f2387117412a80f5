SPECIFICATION FairFileSpec
CONSTANTS
    Reader = {r1, r2}
    Scanner = scanner
    Admin = {a1}
    NoThread = nobody
    MaxEdits = 3
    MayFail = TRUE
    MayExpire = FALSE
INVARIANT LoadsSound
PROPERTY FileCacheSettles
