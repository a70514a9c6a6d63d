CONSTANTS
    Checked = {"stream", "datagram", "svmsg_file", "fd_passing", "altio"}
    Clients = {1, 2}
    Mortal = {2}
    stPrograms = {"is_seqnum", "is_seqnum_v2", "seqnum", "seqnum2", "is_echo", "is_echo_v2",
                  "us_xfr", "us_xfr_v2", "namespace", "kv", "remote"}
    Inputs <- MCInputs
    MaxFail = 1
    Addresses = 2
    INT_LEN = 3
    REQ_MAX_LEN = 5
    BUF_SIZE = 2
    dgPrograms = {"ud_ucase", "i6d_ucase", "id_echo", "reliability"}
    Messages <- MCMessages
    QLEN = 2
    MaxFaults = 1
    MaxLost = 1
    FsClients = {1, 2, 3}
    FsMortal = {1}
    Blocks <- MCBlocks
    Unopenable = Unopenable
    QBYTES = 2
    ScmPrograms = {"rights", "cred", "multi"}
    ScmFiles <- MCFiles
    ControlSizes <- MCControlSizes
    alPrograms = {"self_pipe", "select_mq", "epoll_input", "multithread_epoll_wait",
                  "epoll_flags_fork", "demo_sigio"}
    Workers = {1, 2}
    MaxInput = 3
    PIPE_MAX = 2
    MAX_BUF = 1
    Lengths = {1}
SPECIFICATION FSpec
INVARIANTS StreamsRight DatagramsRight FilesRight Passed NothingMissed
CHECK_DEADLOCK FALSE
