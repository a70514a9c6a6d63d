CONSTANTS
    Checked = {"fifo_seqnum", "mq_notify", "sem_init"}
    Clients = {c1, c2, c3}
    SeqLens = {1, 3}
    INT_MAX = 5
    None = None
    MaxMsg = 2
    SendLimit = 4
    Procs = {p1, p2, p3}
    SemOps <- MCSemOps
    MAX_TRIES = 2
SPECIFICATION FSpec
INVARIANTS UniqueRanges RepliesAllocated Notified NothingLost
PROPERTY IpcProgress
CHECK_DEADLOCK FALSE
