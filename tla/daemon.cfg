\* Two daemons on one socket and one rules.d, which is edited once; they may both run
\* until one of them serves.
\* Daemons that have ended are not started again.
CHECK_DEADLOCK FALSE
SPECIFICATION FairSpec
CONSTANTS
    x = x  y = y  torn = torn  None = None
    Loaders <- MCDaemons  Names <- MCNames  Contents = {x, y, torn}  Broken = {torn}
    IdsOf <- MCIdsOf  FilesAtFirst <- MCFilesAtFirst  MaxEdits = 1
    MayFail = {"read_enter", "file_open"}
    Overlap = {"attach", "remove", "listen", "reload"}
INVARIANTS TypeOK LoadedFromDisk SocketFollowsDaemon EntriesTraced RestoredFromDisk
PROPERTIES ShutdownEnds
