CONSTANTS
    Checked = {"userns"}
    numSigs = 5
    NumTimers = 2
    MaxExpire = 3
    MaxSignals = 3
    ttyPrograms = {"cbreak", "raw", "no_echo", "handling_SIGTSTP"}
    Typed = 2
    Written = 2
    NumMembers = 2
    jcPrograms = {"catch_SIGHUP", "disc_SIGHUP", "orphaned", "job_mon"}
    Kids = {1, 2, 3}
    Orphan = 9
    childPrograms = {"multi_SIGCHLD", "multi_wait", "system", "simple_system", "simple_init"}
    Lists <- MCLists
    MAX_OPT = 2
    Levels = 3
    Arguments <- MCArguments
    MaxChain = 2
    MaxThreads = 2
    PathLists <- MCPathLists
    MaxSigint = 1
    MaxSend = 3
    SleepTime = 3
    Granule = 2
    MaxAway = 2
    sigPrograms = {"t_sigsuspend", "t_sigsuspend_pause", "sig_receiver", "sigaction", "longjmp",
                   "siglongjmp", "catch_rtsigs", "ignore_pending_sig", "sig_ign", "signalfd_sigval",
                   "t_sigwaitinfo", "intquit", "ouch", "sigaction_nodefer", "sigaction_resethand",
                   "sig_order", "sigcont", "SIGFPE", "SIGFPE_i", "SIGFPE_b", "timed_read",
                   "timed_read_restart", "real_timer", "alarm", "timer_create", "t_nanosleep",
                   "t_clock_nanosleep", "t_clock_nanosleep_a", "clock_nanosleep", "daemon_SIGHUP"}
    fkPrograms = {"simple_pipe", "pipe_sync", "pipe_ls_wc", "change_case", "popen_glob", "t_fork",
                  "t_vfork", "vfork_fd_test", "vfork_ex", "footprint", "fork_file_sharing",
                  "fork_stdio_buf", "fork_whos_on_first", "fork_whos_on_first_ex", "anon_mmap",
                  "make_zombie", "make_zombie_ex", "orphan", "dead_parent_process",
                  "three_generations", "negative_exit_status", "child_status", "child_status_ex",
                  "test_fork", "test_vfork", "fork_sig_sync"}
    NKids = 2
    BUF_SIZE = 2
SPECIFICATION FSpec
INVARIANT MapsBeforeExec
CHECK_DEADLOCK FALSE
