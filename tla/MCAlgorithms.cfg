CONSTANTS
    Checked = {"malloc", "seccomp", "acl_update", "ns_capable", "rewrites", "environ", "execlp"}
    SizeMod = 16
    Meta = 1
    HeapMax = 12
    Requests = {0, 1, 2, 3}
    OtherIncr = 2
    Chains <- MCChains
    FilterFiles <- MCFilterFiles
    Programs = {"control_open", "deny_open", "arg64", "perf", "trap_sigsys", "logging", "multiarch", "launch"}
    Files <- MCFiles
    CommandLines <- MCCommandLines
    Users = {"ann", "bob"}
    MAX_ENTRIES = 3
    LastNs = 3
    Uids = {0, 1}
    Texts <- MCTexts
    NL = "n"
    MaxLines = 3
    BlockSizes = {2, 3}
    MAX_BUFFERS_CNT = 2
    Lengths = {0, 1, 3, 4}
    Trees <- MCTrees
    Perms <- MCPerms
    Gids = {1, 2}
    MaxFd = 2
    Names = {"A", "B"}
    Values = {"1", "2"}
    MaxEnv = 3
    Paths <- MCPaths
    ArgCounts = {1, 3}
    GROW = 4
SPECIFICATION FSpec
INVARIANTS LiveDisjoint OnHeap FreeSucceeds FilterVerdicts AclsUpdated VerdictRight LibraryRight
CHECK_DEADLOCK FALSE
