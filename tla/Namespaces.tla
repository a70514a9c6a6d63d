------------------------------- MODULE Namespaces -------------------------------
(***************************************************************************)
(* What a process shares with, and keeps of, the process that created it:  *)
(* user namespaces, the flags of clone() and nested PID namespaces, and    *)
(* the parent that dies. Each of the three parts has variables and a next- *)
(* state relation of its own.                                              *)
(***************************************************************************)
EXTENDS Integers, Sequences, FiniteSets, FiniteSetsExt

----------------------------------------------------------------------------
(***************************************************************************)
(* namespaces/userns_child_exec.c with userns_functions.c, and             *)
(* ns_child_exec.c, which has neither maps nor repeatable options: a child *)
(* in new namespaces that executes a command once the parent has written   *)
(* its UID and GID maps.  End of file on a pipe tells it.                  *)
(*                                                                         *)
(* Capability sets are given for one capability: the set of those of       *)
(* p(ermitted), e(ffective), i(nheritable), b(ounding) and a(mbient) that  *)
(* hold it.  A user ID is "root", "user" or, if unmapped, "overflow".      *)
(***************************************************************************)
CONSTANTS Lists,        \* the sequences of repeatable options
          MAX_OPT

VARIABLES
    opts,               \* [userns, uid_map, gid_map, root, deny, list]
    privileged,         \* may the parent write any map?
    upc, ucpc,          \* the parent, the child
    wrEnd,              \* who holds the write end of the pipe
    written,            \* the files of the child written so far: uid_map, gid_map, setgroups
    caps, uid, nextOpt

unVars == <<opts, privileged, upc, ucpc, wrEnd, written, caps, uid, nextOpt>>
childVars == <<caps, uid, nextOpt>>

NoOpts == [userns |-> FALSE, uid_map |-> FALSE, gid_map |-> FALSE, root |-> FALSE, deny |-> TRUE,
           list |-> <<>>]

UsernsInit == /\ opts = NoOpts /\ privileged = FALSE /\ upc = "parse" /\ ucpc = "unborn" /\ wrEnd = {}
              /\ written = {} /\ caps = {} /\ uid = "user" /\ nextOpt = 1

(* -b never stores its argument, and -S is not known. *)
Usage(o) == \/ (o.uid_map \/ o.gid_map \/ o.root) /\ ~o.userns
            \/ o.root /\ (o.uid_map \/ o.gid_map)
            \/ \E k \in DOMAIN o.list : o.list[k][1] = "S"
            \/ Len(o.list) > MAX_OPT

parse_command_options ==
    /\ upc = "parse" /\ privileged' \in BOOLEAN
    /\ \E o \in [userns : BOOLEAN, uid_map : BOOLEAN, gid_map : BOOLEAN, root : BOOLEAN,
                 deny : BOOLEAN, list : Lists] :
         /\ opts' = o /\ upc' = IF Usage(o) THEN "usage" ELSE "pipe"
    /\ UNCHANGED <<ucpc, wrEnd, written, childVars>>

(* ns_child_exec.c has no pipe: its child executes the command at once. *)
ns_child_exec ==
    /\ upc = "parse" /\ privileged' \in BOOLEAN
    /\ \E u \in BOOLEAN : opts' = [NoOpts EXCEPT !.userns = u]
    /\ caps' = (IF opts'.userns THEN {"p", "e", "b"} ELSE {"b"})
    /\ uid' = (IF opts'.userns THEN "overflow" ELSE "user")
    /\ upc' = "waitpid" /\ ucpc' = "exec" /\ UNCHANGED <<wrEnd, written, nextOpt>>

(* pipe() and clone(): in a new user namespace the child has every capability and no user ID. *)
Clone ==
    /\ upc = "pipe"
    /\ \/ /\ upc' = "uid_map" /\ ucpc' = "close" /\ wrEnd' = {"parent", "child"}
          /\ caps' = (IF opts.userns THEN {"p", "e", "b"} ELSE {"b"})
          /\ uid' = (IF opts.userns THEN "overflow" ELSE "user")
       \/ upc' = "failed" /\ UNCHANGED <<ucpc, wrEnd, caps, uid>>
    /\ UNCHANGED <<opts, privileged, written, nextOpt>>

---------------------------------------------------------------------------
(* The parent: errExit() at any failure, which also closes its end of the pipe. *)
Mapped == IF opts.root THEN "root" ELSE "user"
errExit == upc' = "failed" /\ wrEnd' = wrEnd \ {"parent"} /\ UNCHANGED <<written, uid>>
parentLeaves == <<opts, privileged, ucpc, caps, nextOpt>>

update_map(file, allowed, next) ==
    \/ /\ allowed /\ ucpc # "dead" /\ upc' = next /\ written' = written \cup {file}
       /\ uid' = (IF file = "uid_map" THEN Mapped ELSE uid) /\ UNCHANGED wrEnd
    \/ errExit

Skip(next) == upc' = next /\ UNCHANGED <<wrEnd, written, uid>>

UpdateUidMap ==
    /\ upc = "uid_map"
    /\ IF opts.uid_map \/ opts.root THEN update_map("uid_map", opts.root \/ privileged, "setgroups")
       ELSE Skip("setgroups")
    /\ UNCHANGED parentLeaves

proc_setgroups_write ==
    /\ upc = "setgroups"
    /\ IF (opts.gid_map \/ opts.root) /\ opts.deny
       THEN \/ upc' = "gid_map" /\ written' = written \cup {"setgroups"} /\ UNCHANGED <<wrEnd, uid>>
            \/ errExit
       ELSE Skip("gid_map")
    /\ UNCHANGED parentLeaves

UpdateGidMap ==
    /\ upc = "gid_map"
    /\ IF opts.gid_map \/ opts.root
       THEN update_map("gid_map", privileged \/ (opts.root /\ "setgroups" \in written), "closePipe")
       ELSE Skip("closePipe")
    /\ UNCHANGED parentLeaves

MutClosePipe == /\ upc = "uid_map" /\ upc' = "waitpid" /\ wrEnd' = wrEnd \ {"parent"}
                /\ UNCHANGED <<opts, privileged, ucpc, written, childVars>>

ClosePipe == /\ upc = "closePipe" /\ upc' = "waitpid" /\ wrEnd' = wrEnd \ {"parent"}
             /\ UNCHANGED <<opts, privileged, ucpc, written, childVars>>

Waitpid == /\ upc = "waitpid" /\ ucpc \in {"command", "dead"} /\ upc' = "exited"
           /\ UNCHANGED <<opts, privileged, ucpc, wrEnd, written, childVars>>

---------------------------------------------------------------------------
(* The child. *)
CloseWrite == /\ ucpc = "close" /\ ucpc' = "read" /\ wrEnd' = wrEnd \ {"child"}
              /\ UNCHANGED <<opts, privileged, upc, written, childVars>>

ReadPipe == /\ ucpc = "read" /\ wrEnd = {} /\ ucpc' = "options"
            /\ UNCHANGED <<opts, privileged, upc, wrEnd, written, childVars>>

(* One letter of -X: a capability is raised only if the kernel allows it. *)
Allowed(s, c) == CASE s = "p" -> FALSE [] s = "e" -> "p" \in c [] s = "i" -> "p" \in c
                   [] s = "a" -> {"p", "i"} \subseteq c
Modify(op, s, c) ==
    IF op = "-" THEN IF s \in {"p", "i"} THEN c \ (IF s = "p" THEN {"p", "e", "a"} ELSE {"i", "a"}) ELSE c \ {s}
    ELSE c \cup {s}
ModifyFails(op, s, c) == \/ op = "+" /\ s \notin c /\ (s = "b" \/ ~Allowed(s, c))
                         \/ op = "-" /\ s = "b" /\ "e" \notin c
(* cap_set_proc() of -x to the sets new: nothing new in the permitted set, nothing in the
   effective set that is not permitted; what is no longer permitted and inheritable is
   no longer ambient. *)
SetFails(new, c) == \/ "p" \in new /\ "p" \notin c
                    \/ "e" \in new /\ "p" \notin new
                    \/ "i" \in new /\ c \cap {"p", "i"} = {}
cap_set_proc(new, c) == new \cup (c \cap (IF {"p", "i"} \subseteq new THEN {"a", "b"} ELSE {"b"}))
raiseInheritableAndAmbientCaps(doAmbient, c) ==
    LET i == IF Allowed("i", c) THEN c \cup {"i"} ELSE c
    IN  IF doAmbient /\ Allowed("a", i) THEN i \cup {"a"} ELSE i

(* setresuid() to an ID that is mapped; leaving user 0 clears the sets. *)
Setuid(c) == IF uid = "root" THEN c \ {"p", "e", "a"} ELSE c

Die == ucpc' = "dead" /\ UNCHANGED <<caps, uid, nextOpt>>
set_securebits == Die                   \* its argument is NULL, which it reads

perform_repeatable_options ==
    /\ ucpc = "options" /\ nextOpt <= Len(opts.list)
    /\ LET o == opts.list[nextOpt]
           done == nextOpt' = nextOpt + 1 /\ UNCHANGED ucpc
       IN  \/ o[1] = "h" /\ caps' = raiseInheritableAndAmbientCaps(FALSE, caps) /\ done /\ UNCHANGED uid
           \/ o[1] = "a" /\ caps' = raiseInheritableAndAmbientCaps(TRUE, caps) /\ done /\ UNCHANGED uid
           \/ o[1] = "b" /\ set_securebits
           \/ /\ o[1] = "s"
              /\ \/ "e" \in caps /\ "uid_map" \in written /\ caps' = Setuid(caps) /\ uid' = "user" /\ done
                 \/ ("e" \notin caps \/ "uid_map" \notin written) /\ Die
           \/ o[1] \in {"d", "w"} /\ done /\ UNCHANGED <<caps, uid>>
           \/ /\ o[1] = "x"
              /\ IF SetFails(o[2], caps) THEN Die
                 ELSE caps' = cap_set_proc(o[2], caps) /\ done /\ UNCHANGED uid
           \/ /\ o[1] = "X"
              /\ IF ModifyFails(o[2], o[3], caps) THEN Die
                 ELSE caps' = Modify(o[2], o[3], caps) /\ done /\ UNCHANGED uid
    /\ UNCHANGED <<opts, privileged, upc, wrEnd, written>>

OptionsDone == /\ ucpc = "options" /\ nextOpt > Len(opts.list) /\ ucpc' = "exec"
               /\ UNCHANGED <<opts, privileged, upc, wrEnd, written, childVars>>

(* execve() of a file that has no capabilities of its own. *)
Exec == /\ ucpc = "exec"
        /\ \/ /\ ucpc' = "command"
              /\ caps' = IF uid = "root"
                         THEN caps \cup (IF caps \cap {"i", "b"} # {} THEN {"p", "e"} ELSE {})
                         ELSE (caps \ {"p", "e"}) \cup (IF "a" \in caps THEN {"p", "e"} ELSE {})
           \/ ucpc' = "dead" /\ UNCHANGED caps                          \* it cannot be executed
        /\ UNCHANGED <<opts, privileged, upc, wrEnd, written, uid, nextOpt>>

UsernsNext == \/ parse_command_options \/ ns_child_exec \/ Clone \/ UpdateUidMap \/ proc_setgroups_write
              \/ UpdateGidMap \/ ClosePipe \/ Waitpid \/ CloseWrite \/ ReadPipe
              \/ perform_repeatable_options \/ OptionsDone \/ Exec

---------------------------------------------------------------------------
WantsUidMap == opts.uid_map \/ opts.root
WantsGidMap == opts.gid_map \/ opts.root
MapsWritten == (WantsUidMap => "uid_map" \in written) /\ (WantsGidMap => "gid_map" \in written)

(* The command runs with the maps asked for unless the parent has given up; if the
   user is mapped to root and no option takes a capability away, the command has it
   although it crossed an execve() (userns_child_exec.c:540-548). *)
MapsKeepCaps ==
    /\ ucpc = "command" /\ upc # "failed" => MapsWritten
    /\ ucpc = "command" /\ upc # "failed" /\ opts.root
         /\ (\A k \in DOMAIN opts.list : opts.list[k][1] \in {"h", "a", "d", "w"})
       => {"p", "e"} \subseteq caps

(* "ensure that the parent sets the UID and GID maps before the child calls execve()"
   (userns_child_exec.c:540-542). *)
MapsBeforeExec == ucpc = "command" => MapsWritten

----------------------------------------------------------------------------
(***************************************************************************)
(* procexec/demo_clone.c, procexec/t_clone.c: a child made by clone() that *)
(* changes attributes which it may share with its parent, and a parent     *)
(* that looks afterwards.  namespaces/multi_pidns.c and                    *)
(* pidns_init_sleep.c: clone() of processes into nested PID namespaces.    *)
(***************************************************************************)
CONSTANTS Levels        \* the deepest nesting of PID namespaces tried

VARIABLES
    clprog, clpc, chpc, \* the program, parent and child
    flags,              \* the set of CLONE_ flags
    attr,               \* [who -> [umask, fd, sig]]: changed by the child?
    report,             \* what the parent finds changed
    level,              \* multi_pidns: the argument; clProc[k] is the process k levels below main()
    clProc, mounted

clVars == <<clprog, clpc, chpc, flags, attr, report, level, clProc, mounted>>
cloneVars == <<chpc, flags, attr, report>>
nsVars == <<level, clProc, mounted>>
Attributes == {"umask", "fd", "sig"}
Shares(a) == CASE a = "umask" -> "CLONE_FS" [] a = "fd" -> "CLONE_FILES" [] a = "sig" -> "CLONE_SIGHAND"
Depths == 0..Levels

CloneInit == /\ clprog = "" /\ clpc = "start" /\ chpc = "unborn" /\ flags = {}
             /\ attr = [w \in {"parent", "child"} |-> {}] /\ report = {}
             /\ level = 0 /\ clProc = [k \in Depths |-> "unborn"] /\ mounted = {}

---------------------------------------------------------------------------
(* The letters of the argument: d, f, s, v. *)
Options ==
    /\ clpc = "start" /\ clpc' = "clone" /\ clprog' = "demo_clone"
    /\ flags' \in SUBSET {"CLONE_FILES", "CLONE_FS", "CLONE_SIGHAND", "CLONE_VM"}
    /\ UNCHANGED <<chpc, attr, report, nsVars>>

(* t_clone knows one flag, and its child only closes the descriptor. *)
t_clone ==
    /\ clpc = "start" /\ clpc' = "waitpid" /\ clprog' = "t_clone" /\ chpc' = "closeOnly"
    /\ flags' \in SUBSET {"CLONE_FILES"}
    /\ UNCHANGED <<attr, report, nsVars>>

(* clone(): EINVAL for shared handlers without shared memory. *)
CloneChild ==
         /\ clpc = "clone"
         /\ IF "CLONE_SIGHAND" \in flags /\ "CLONE_VM" \notin flags
            THEN clpc' = "errExit" /\ UNCHANGED chpc
            ELSE clpc' = "waitpid" /\ chpc' = "umask"
         /\ UNCHANGED <<clprog, flags, attr, report, nsVars>>

Changes(a, next) ==
    /\ chpc' = next /\ UNCHANGED <<clprog, clpc, flags, report, nsVars>>
    /\ attr' = [w \in {"parent", "child"} |->
                  IF w = "child" \/ Shares(a) \in flags THEN attr[w] \cup {a} ELSE attr[w]]

t_cloneChild == chpc = "closeOnly" /\ Changes("fd", "zombie")

MutchildFunc == \/ chpc = "umask" /\ Changes("umask", "close")
                \/ chpc = "close" /\ Changes("fd", "zombie")
childFunc == \/ chpc = "umask" /\ Changes("umask", "close")
             \/ chpc = "close" /\ Changes("fd", "signal")
             \/ chpc = "signal" /\ Changes("sig", "zombie")

WaitChild == /\ clpc = "waitpid" /\ chpc = "zombie" /\ clpc' = "check"
             /\ UNCHANGED <<clprog, cloneVars, nsVars>>

(* The parent looks at its umask, writes to the descriptor, raises SIGTERM... *)
Check == /\ clpc = "check" /\ clprog = "demo_clone" /\ clpc' = "exit" /\ report' = attr["parent"]
         /\ UNCHANGED <<clprog, chpc, flags, attr, nsVars>>

(* ...or only writes to the descriptor. *)
t_cloneCheck == /\ clpc = "check" /\ clprog = "t_clone" /\ clpc' = "exit"
                /\ report' = attr["parent"] \cap {"fd"}
                /\ UNCHANGED <<clprog, chpc, flags, attr, nsVars>>

---------------------------------------------------------------------------
(* multi_pidns.c: childFunc() calls itself in ever deeper namespaces; process k
   is the init process of namespace k, and main() is process 0. *)
MultiPidns ==
    /\ clpc = "start" /\ clprog' = "multi_pidns" /\ level' \in Depths
    /\ clpc' = "running" /\ clProc' = [clProc EXCEPT ![0] = "created"] /\ UNCHANGED <<cloneVars, mounted>>

(* pidns_init_sleep.c makes one child in a new namespace, which mounts "/proc" on the
   directory of the command line if there is one. *)
pidns_init_sleep ==
    /\ clpc = "start" /\ clprog' = "pidns_init_sleep" /\ level' = 1 /\ clpc' = "running"
    /\ clProc' = [clProc EXCEPT ![0] = "created"] /\ UNCHANGED <<cloneVars, mounted>>

MountPoint(k) == level - k                   \* "/proc" and the value of level there
Mount(k) ==
    /\ k > 0 /\ clProc[k] = "born"
    /\ clProc' = [clProc EXCEPT ![k] = "created"] /\ mounted' = mounted \cup {<<MountPoint(k), k>>}
    /\ UNCHANGED <<clprog, clpc, cloneVars, level>>

NoMount(k) ==
    /\ clprog = "pidns_init_sleep" /\ k = 1 /\ clProc[k] = "born"
    /\ clProc' = [clProc EXCEPT ![k] = "created"]
    /\ UNCHANGED <<clprog, clpc, cloneVars, level, mounted>>

Nested(k) ==
    /\ clProc[k] = "created"
    /\ clProc' = IF k < level THEN [clProc EXCEPT ![k] = "waitpid", ![k + 1] = "born"]
                 ELSE [clProc EXCEPT ![k] = "sleep"]
    /\ UNCHANGED <<clprog, clpc, cloneVars, level, mounted>>

(* A process ends: all processes of its namespace and of those below are killed. *)
End(k) ==
    /\ clProc[k] \notin {"unborn", "dead"}
    /\ clProc' = [j \in Depths |-> IF j = k \/ (k > 0 /\ j > k /\ clProc[j] # "unborn") THEN "dead" ELSE clProc[j]]
    /\ UNCHANGED <<clprog, clpc, cloneVars, level, mounted>>

ChildDead(k) == /\ clProc[k] = "waitpid" /\ clProc[k + 1] = "dead" /\ End(k)

CloneNext == \/ Options \/ t_clone \/ CloneChild \/ childFunc \/ t_cloneChild \/ WaitChild \/ Check \/ t_cloneCheck
             \/ MultiPidns \/ pidns_init_sleep
             \/ \E k \in Depths : Mount(k) \/ NoMount(k) \/ Nested(k) \/ ChildDead(k) \/ (k > 0 /\ End(k))

---------------------------------------------------------------------------
(* What demo_clone reports changed is exactly what the flags make common to both
   processes; no process in a nested namespace outlives the init process of an outer
   one; and every namespace has its own mount point (demo_clone.c:178, multi_pidns.c:61). *)
CloneRight ==
    /\ clpc = "exit" => report = {a \in attr["child"] : Shares(a) \in flags}
    /\ clpc = "exit" /\ clprog = "demo_clone" => attr["child"] = Attributes
    /\ \A j, k \in Depths : 0 < j /\ j < k /\ clProc[j] = "dead" => clProc[k] \in {"unborn", "dead"}
    /\ \A m, n \in mounted : m[1] = n[1] => m[2] = n[2]

----------------------------------------------------------------------------
(***************************************************************************)
(* procexec/pdeath_signal.c: a chain of multithreaded ancestors and, at    *)
(* its end, a child that asks for a signal when its parent dies.  The      *)
(* parent of a process is a thread; when it dies the process passes to     *)
(* another thread of its process, to the nearest ancestor that is a        *)
(* subreaper, or to init.                                                  *)
(***************************************************************************)
CONSTANTS Arguments,    \* sequences of ancestors: [at |-> subreaper?, plus |-> a flag per thread]
          MaxChain, MaxThreads

VARIABLES
    pargs,              \* the command line; process 0 is main(), process k ancestor k
    thr,                \* for every process its threads: "none", "new", "sleep", "dead"
    father,             \* the thread that is the parent of each process
    tnum, marked,       \* createThreads(): the next token; nextParentMarked
    born,               \* how often each process has been created
    child,              \* the child: "unborn", "presleep", "postsleep", "exited"
    pdPending, pdCnt,       \* SIGUSR1, and how often the handler has run
    deaths              \* history: deaths of the child's parent after prctl()

pdVars == <<pargs, thr, father, tnum, marked, born, child, pdPending, pdCnt, deaths>>

Procs == 0..(MaxChain + 1)
Threads == 0..(MaxThreads - 1)
Tids == Procs \X Threads
Reaper == <<-1, 0>>                          \* the init process
Child == Len(pargs) + 1

PdeathInit == /\ pargs = <<>> /\ thr = [x \in Tids |-> "none"] /\ father = [p \in Procs |-> Reaper]
              /\ tnum = [p \in Procs |-> 0] /\ marked = [p \in Procs |-> FALSE]
              /\ born = [p \in Procs |-> 0] /\ child = "unborn" /\ pdPending = FALSE /\ pdCnt = 0 /\ deaths = 0

Start == /\ born[0] = 0 /\ pargs' \in Arguments
         /\ thr' = [thr EXCEPT ![<<0, 0>>] = "creator"] /\ born' = [born EXCEPT ![0] = 1]
         /\ UNCHANGED <<father, tnum, marked, child, pdPending, pdCnt, deaths>>

Alive(x) == x \in Tids /\ thr[x] \notin {"none", "dead"}
LiveThreads(p) == {u \in Threads : Alive(<<p, u>>)}

RECURSIVE FindReaper(_, _)
FindReaper(p, f) ==                         \* up the chain of parents
    IF f[p] = Reaper THEN Reaper
    ELSE LET q == f[p][1]
         IN  IF q > 0 /\ pargs[q].at /\ LiveThreads(q) # {} THEN <<q, Min(LiveThreads(q))>>
             ELSE FindReaper(q, f)

(* The threads in T of process p die: its children get new parents. *)
NewFather(p, T, x) ==
    IF x \notin {<<p, t>> : t \in T} THEN x
    ELSE IF LiveThreads(p) \ T # {} THEN <<p, Min(LiveThreads(p) \ T)>> ELSE FindReaper(p, father)

ThreadDies(p, T) ==
           /\ thr' = [x \in Tids |-> IF x[1] = p /\ x[2] \in T THEN "dead" ELSE thr[x]]
           /\ father' = [q \in Procs |-> NewFather(p, T, father[q])]
           /\ LET hit == child = "postsleep" /\ father[Child] \in {<<p, t>> : t \in T}
              IN  deaths' = (IF hit THEN deaths + 1 ELSE deaths) /\ pdPending' = (pdPending \/ hit)

---------------------------------------------------------------------------
(* createAncestor() and createChild(): fork() in the calling thread. *)
Fork(p, t, next) ==
    /\ thr' = [thr EXCEPT ![<<p, t>>] = next,
                          ![<<p + 1, 0>>] = IF p + 1 = Child THEN "sleep" ELSE "createThreads"]
    /\ father' = [father EXCEPT ![p + 1] = <<p, t>>] /\ born' = [born EXCEPT ![p + 1] = @ + 1]
    /\ child' = IF p + 1 = Child THEN "presleep" ELSE child

createAncestor(p) ==
    /\ thr[<<p, 0>>] = "creator" /\ p = 0
    /\ Fork(0, 0, "wait") /\ UNCHANGED <<pargs, tnum, marked, pdPending, pdCnt, deaths>>

Plus(p) == pargs[p].plus[tnum[p] + 1]

(* One token: a second '+' ends the whole process. *)
createThreads(p) ==
    /\ p \in 1..Len(pargs) /\ thr[<<p, 0>>] = "createThreads" /\ tnum[p] < Len(pargs[p].plus)
    /\ \/ /\ Plus(p) /\ marked[p] /\ ThreadDies(p, Threads) /\ UNCHANGED <<tnum, marked>>
       \/ /\ ~(Plus(p) /\ marked[p])
          /\ tnum' = [tnum EXCEPT ![p] = @ + 1]
          /\ marked' = [marked EXCEPT ![p] = @ \/ Plus(p)]
          /\ thr' = IF tnum[p] = 0 THEN thr
                    ELSE [thr EXCEPT ![<<p, tnum[p]>>] = IF Plus(p) THEN "creator" ELSE "sleep"]
          /\ UNCHANGED <<father, deaths, pdPending>>
    /\ UNCHANGED <<pargs, born, child, pdCnt>>

MutThreadsCreated(p) ==                     \* the default of the initial thread is forgotten
    /\ p \in 1..Len(pargs) /\ thr[<<p, 0>>] = "createThreads" /\ tnum[p] = Len(pargs[p].plus)
    /\ thr' = [thr EXCEPT ![<<p, 0>>] = IF pargs[p].plus[1] THEN "creator" ELSE "sleep"]
    /\ UNCHANGED <<pargs, father, tnum, marked, born, child, pdPending, pdCnt, deaths>>

ThreadsCreated(p) ==
    /\ p \in 1..Len(pargs) /\ thr[<<p, 0>>] = "createThreads" /\ tnum[p] = Len(pargs[p].plus)
    /\ thr' = [thr EXCEPT ![<<p, 0>>] = IF pargs[p].plus[1] \/ ~marked[p] THEN "creator" ELSE "sleep"]
    /\ UNCHANGED <<pargs, father, tnum, marked, born, child, pdPending, pdCnt, deaths>>

performPerThreadSteps(p, t) ==
    /\ p \in 1..Len(pargs) /\ thr[<<p, t>>] = "creator"
    /\ Fork(p, t, "sleep") /\ UNCHANGED <<pargs, tnum, marked, pdPending, pdCnt, deaths>>

(* The sleep is over: pthread_exit(). *)
threadStartFunc(p, t) ==
    /\ p \in 1..Len(pargs) /\ thr[<<p, t>>] = "sleep" /\ ThreadDies(p, {t})
    /\ UNCHANGED <<pargs, tnum, marked, born, child, pdCnt>>

Wait == /\ thr[<<0, 0>>] = "wait" /\ born[1] > 0 /\ LiveThreads(1) = {} /\ ThreadDies(0, {0})
        /\ UNCHANGED <<pargs, tnum, marked, born, child, pdCnt>>

---------------------------------------------------------------------------
Prctl == /\ child = "presleep" /\ child' = "postsleep"
         /\ UNCHANGED <<pargs, thr, father, tnum, marked, born, pdPending, pdCnt, deaths>>

handler == /\ child = "postsleep" /\ pdPending /\ pdPending' = FALSE /\ pdCnt' = pdCnt + 1
           /\ UNCHANGED <<pargs, thr, father, tnum, marked, born, child, deaths>>

ChildExits == /\ child = "postsleep" /\ child' = "exited"
              /\ thr' = [thr EXCEPT ![<<Child, 0>>] = "dead"]
              /\ UNCHANGED <<pargs, father, tnum, marked, born, pdPending, pdCnt, deaths>>

PdeathNext == \/ Start \/ createAncestor(0) \/ Wait \/ Prctl \/ handler \/ ChildExits
              \/ \E p \in Procs : createThreads(p) \/ ThreadsCreated(p)
              \/ \E p \in Procs, t \in Threads : performPerThreadSteps(p, t) \/ threadStartFunc(p, t)

---------------------------------------------------------------------------
(* Every ancestor creates the next process exactly once, in the thread the argument
   says, unless a second '+' ended it; so the child exists once and its parent is a
   living thread or init.  After prctl() the child is told of the death of its parent
   as often as that happens, deaths in quick succession counting once (:183, :293). *)
ChainRight ==
    /\ \A p \in Procs : born[p] <= 1
    /\ \A p \in 1..Len(pargs) :
         LET ones == {k \in DOMAIN pargs[p].plus : pargs[p].plus[k]}
         IN  /\ born[p] = 1 /\ (\A t \in Threads : thr[<<p, t>>] \in {"none", "dead"})
                /\ Cardinality(ones) < 2 => born[p + 1] = 1
    /\ \A p \in Procs : born[p] = 1 /\ p > 0 /\ father[p] # Reaper => Alive(father[p])
    /\ pdCnt + (IF pdPending THEN 1 ELSE 0) <= deaths
    /\ deaths > 0 => pdCnt > 0 \/ pdPending
=============================================================================
