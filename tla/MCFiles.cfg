CONSTANTS
    Programs = {"inotify_dtree", "watch-directory-tree", "create_pid_file", "i_fcntl_locking",
                "t_flock", "atomic_append", "ipc_tools"}
    Inodes = {"i1", "i2"}
    RootInodes = {"r", "s"}
    Populated = TRUE
    Names = {"a", "b"}
    MaxOps = 2
    QueueMax = 2
    AbortOptions = {TRUE, FALSE}
    WatchInodes = {1, 2, 3}
    UserKinds = {"any", "patient"}
    Daemons = {"d1", "d2"}
    MaxInodes = 3
    Users = {"u1", "u2"}
    Flockers = {"f1", "f2"}
    Bytes = {1, 2}
    MaxTyped = 2
    Writers = {"w1", "w2"}
    NumBytes = 3
    BufferSize = 2
    IpcUsers = {1, 2}
    Kinds = {"pmsg", "psem", "pshm", "svmsg", "svsem"}
    MaxRuns = 4
    MaxObjects = 2
    SemLines <- MCSemLines
SPECIFICATION Spec
INVARIANTS TreesFollowed NoLeak SharingRight IpcRight
CHECK_DEADLOCK FALSE
