CONSTANTS
    Checked = {"one_time_init", "multi_join", "prod_cons", "threads"}
    NumThreads = 3
    Calls = 2
    TotThreads = 3
    NumProducers = 3
    Units <- MCUnits
    thPrograms = {"thread_incr", "thread_incr_ex", "mutex", "rwlock", "spinlock", "psem",
                  "thread_lock_speed", "prod_no_condvar", "simple_thread", "detached_attrib",
                  "self_join", "thread_cancel", "cleanup_cancel", "cleanup_signal", "barrier",
                  "strerror", "strerror_tls", "strerror_tsd", "dirname_basename",
                  "pending_signals", "pthread_fork"}
    Loops = 2
    NThreads = 2
SPECIFICATION FSpec
INVARIANTS AtMostOnce ReturnsInitialised JoinRight ConsumedRight ThreadsRight
PROPERTY ThreadsEnd
CHECK_DEADLOCK FALSE
