CONSTANTS
    Programs = {"inotify_dtree"}
    Inodes = {"i1", "i2"}
    RootInodes = {"r", "s"}
    Populated = FALSE
    Names = {"a", "b"}
    MaxOps = 2
    QueueMax = 2
    AbortOptions = {TRUE, FALSE}
    WatchInodes = {}
    UserKinds = {"any", "patient"}
    Daemons = {"d1", "d2"}
    MaxInodes = 3
    Users = {"u1", "u2"}
    Flockers = {"f1", "f2"}
    Bytes = {1, 2}
    MaxTyped = 2
    Writers = {"w1", "w2"}
    NumBytes = 3
    BufferSize = 2
    IpcUsers = {1, 2}
    Kinds = {"pmsg", "psem", "pshm", "svmsg", "svsem"}
    MaxRuns = 4
    MaxObjects = 2
    SemLines <- MCSemLines
SPECIFICATION Spec
INVARIANT Consistent
CHECK_DEADLOCK FALSE
