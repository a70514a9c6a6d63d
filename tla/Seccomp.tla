------------------------------- MODULE Seccomp -------------------------------
(***************************************************************************)
(* The seccomp/ programs that install BPF filters: a process whose system  *)
(* calls are judged by the filters it has installed, across execve().      *)
(*                                                                         *)
(* A system call is [arch, nr, args].  The flags of open() are a set of    *)
(* bit names, and a 64-bit argument is a pair <<low word, high word>> of   *)
(* words below Word.  Every other argument is the pair <<0, 0>>.           *)
(***************************************************************************)
EXTENDS Integers, Sequences, SequencesExt, FiniteSets

CONSTANTS Chains,       \* command lines of seccomp_multiarch: sequences of ABIs
          FilterFiles,  \* command lines of seccomp_launch: sequences of filters to load
          Programs      \* the programs that may be started

VARIABLES
    prog, pc,
    filters,    \* installed filters, the most recent one first
    noNewPrivs, \* PR_SET_NO_NEW_PRIVS
    privileged, \* has the process CAP_SYS_ADMIN?
    handled,    \* has SIGSYS a handler?
    argv, next, \* the command line and the index of the argument to process next
    openNr,     \* the system call open() makes, which depends on the C library
    env,        \* is NO_SECCOMP_FILTER set?
    results     \* what became of the system calls the program is about

scVars == <<prog, pc, filters, noNewPrivs, privileged, handled, argv, next,
            openNr, env, results>>

----------------------------------------------------------------------------
\* The kernel: the BPF machine and the choice among the filters' verdicts.
Ld(field) == [op |-> "ld", k |-> field, jt |-> 0, jf |-> 0]
Jump(op, k, jt, jf) == [op |-> op, k |-> k, jt |-> jt, jf |-> jf]
Ret(action) == [op |-> "ret", k |-> action, jt |-> 0, jf |-> 0]

Kill == <<"kill", 0>>
Trap == <<"trap", 0>>
Errno(e) == <<"errno", e>>
UserNotif == <<"notif", 0>>
Trace == <<"trace", 0>>
Log == <<"log", 0>>
Allow == <<"allow", 0>>
Precedence == <<"kill", "trap", "errno", "notif", "trace", "log", "allow">>
Rank(v) == CHOOSE i \in DOMAIN Precedence : Precedence[i] = v[1]

Load(call, field) ==
    CASE field = "arch" -> call.arch
      [] field = "nr"   -> call.nr
      [] field = "arg1" -> IF call.nr = 2 THEN call.args[2] ELSE call.args[2][1]
      [] field = "arg1high" -> call.args[2][2]
      [] field = "arg2" -> call.args[3]

Taken(ins, a) == CASE ins.op = "jeq"  -> a = ins.k
                   [] ins.op = "jge"  -> a >= ins.k
                   [] ins.op = "jgt"  -> a > ins.k
                   [] ins.op = "jset" -> a \cap ins.k # {}

RECURSIVE Exec(_, _, _, _)
Exec(f, call, i, a) ==
    LET ins == f[i] IN
    CASE ins.op = "ret" -> ins.k
      [] ins.op = "ld"  -> Exec(f, call, i + 1, Load(call, ins.k))
      [] ins.op = "ja"  -> Exec(f, call, i + 1 + ins.k, a)
      [] OTHER          -> Exec(f, call, i + 1 + (IF Taken(ins, a) THEN ins.jt ELSE ins.jf), a)

Verdict(f, call) == Exec(f, call, 1, 0)

\* Every installed filter is run; the verdict that ranks first counts.
Judge(fs, call) ==
    LET verdicts == {Verdict(fs[i], call) : i \in DOMAIN fs} \cup {Allow}
    IN CHOOSE v \in verdicts : \A w \in verdicts : Rank(v) =< Rank(w)

----------------------------------------------------------------------------
\* System call numbers.
X32_SYSCALL_BIT == 2^30
NR == [open |-> 2, read |-> 0, lseek |-> 8, mkdir |-> 83, getppid |-> 110, geteuid |-> 107, openat |-> 257,
       execve |-> 59, seccomp |-> 317, mq_notify |-> 244]
NR_mq_notify == [x86_64 |-> 244, i386 |-> 281, x32 |-> 527]
NoArg == <<0, 0>>
Call(nr) == [arch |-> "x86_64", nr |-> nr, args |-> <<NoArg, NoArg, NoArg>>]
Open(nr, flags) == [arch |-> "x86_64", nr |-> nr,
                    args |-> IF nr = NR.open THEN <<NoArg, flags, {}>> ELSE <<NoArg, NoArg, flags>>]
Seek(offset) == [Call(NR.lseek) EXCEPT !.args[2] = offset]
MqNotify(abi) == [arch |-> IF abi = "i386" THEN "i386" ELSE "x86_64",
                  nr |-> NR_mq_notify[abi] + (IF abi = "x32" THEN X32_SYSCALL_BIT ELSE 0),
                  args |-> <<NoArg, NoArg, NoArg>>]

\* The filters.
X86_64_CHECK_ARCH_AND_LOAD_SYSCALL_NR ==
    <<Ld("arch"), Jump("jeq", "x86_64", 0, 2), Ld("nr"), Jump("jge", X32_SYSCALL_BIT, 0, 1), Ret(Kill)>>

MutControlOpen ==                       \* O_RDWR forgotten
    X86_64_CHECK_ARCH_AND_LOAD_SYSCALL_NR \o
    <<Jump("jeq", NR.open, 2, 0), Jump("jeq", NR.openat, 3, 0), Ret(Allow),
      Ld("arg1"), Jump("ja", 1, 0, 0), Ld("arg2"),
      Jump("jset", {"O_CREAT"}, 0, 1), Ret(Kill),
      Jump("jset", {"O_WRONLY"}, 0, 1), Ret(Errno("ENOTSUP")), Ret(Allow)>>
ControlOpen ==
    X86_64_CHECK_ARCH_AND_LOAD_SYSCALL_NR \o
    <<Jump("jeq", NR.open, 2, 0), Jump("jeq", NR.openat, 3, 0), Ret(Allow),
      Ld("arg1"), Jump("ja", 1, 0, 0), Ld("arg2"),
      Jump("jset", {"O_CREAT"}, 0, 1), Ret(Kill),
      Jump("jset", {"O_WRONLY", "O_RDWR"}, 0, 1), Ret(Errno("ENOTSUP")), Ret(Allow)>>

DenyOpen ==
    <<Ld("arch"), Jump("jeq", "x86_64", 1, 0), Ret(Kill),
      Ld("nr"), Jump("jge", X32_SYSCALL_BIT, 0, 1), Ret(Kill),
      Jump("jeq", NR.open, 2, 0), Jump("jeq", NR.openat, 1, 0), Ret(Allow), Ret(Kill)>>

Arg64 ==
    X86_64_CHECK_ARCH_AND_LOAD_SYSCALL_NR \o
    <<Jump("jeq", NR.lseek, 1, 0), Ret(Allow),
      Ld("arg1high"), Jump("jeq", 0, 1, 0), Ret(Errno(2)),
      Ld("arg1"), Jump("jgt", 1000, 0, 1), Ret(Errno(1)), Ret(Allow)>>

Multiarch ==
    <<Ld("arch"), Jump("jeq", "x86_64", 0, 5), Ld("nr"),
      Jump("jeq", NR_mq_notify.x86_64, 0, 1), Ret(Errno(NR_mq_notify.x86_64)),
      Jump("jeq", NR_mq_notify.x32 + X32_SYSCALL_BIT, 0, 5), Ret(Errno(NR_mq_notify.x32)),
      Jump("jeq", "i386", 0, 4), Ld("nr"),
      Jump("jeq", NR_mq_notify.i386, 0, 1), Ret(Errno(NR_mq_notify.i386)),
      Ret(Allow), Ret(Kill)>>

Perf ==
    X86_64_CHECK_ARCH_AND_LOAD_SYSCALL_NR \o
    <<Jump("jeq", NR.open, 1, 0), Ret(Allow), Ret(Kill)>>

TrapSigsys ==
    <<Ld("arch"), Jump("jeq", "x86_64", 1, 0), Ret(Kill),
      Ld("nr"), Jump("jge", X32_SYSCALL_BIT, 0, 1), Ret(Kill),
      Jump("jeq", NR.getppid, 0, 1), Ret(Trap), Ret(Allow)>>

Logging == X86_64_CHECK_ARCH_AND_LOAD_SYSCALL_NR \o <<Ret(Log)>>

----------------------------------------------------------------------------
\* The programs.  Their system calls outside Calls are allowed by the filters.
Filter == [control_open |-> ControlOpen, deny_open |-> DenyOpen, arg64 |-> Arg64,
           multiarch |-> Multiarch, perf |-> Perf, trap_sigsys |-> TrapSigsys, logging |-> Logging]

ControlOpenMain == <<Open(openNr, {}), Open(openNr, {"O_WRONLY"}), Open(openNr, {"O_RDWR"}),
                     Open(openNr, {"O_CREAT", "O_RDWR"})>>
DenyOpenMain == <<Open(openNr, {})>>
Arg64Main == <<Open(openNr, {"O_RDWR"}), Seek(<<0, 0>>), Seek(<<10000, 0>>), Seek(<<1, 1>>)>>
PerfMain == <<Call(NR.getppid), Call(NR.getppid)>>
TrapSigsysMain == <<Call(NR.getppid)>>
LoggingMain == <<Call(NR.geteuid), Call(NR.getppid)>>
Calls == CASE prog = "control_open" -> ControlOpenMain
           [] prog = "deny_open"    -> DenyOpenMain
           [] prog = "arg64"        -> Arg64Main
           [] prog = "perf"         -> PerfMain
           [] prog = "trap_sigsys"  -> TrapSigsysMain
           [] prog = "logging"      -> LoggingMain
           [] prog = "multiarch"    -> <<MqNotify(argv[next])>>

Init == /\ prog = "none" /\ pc = "start" /\ filters = <<>> /\ noNewPrivs = FALSE
        /\ privileged = FALSE /\ handled = FALSE /\ argv = <<>> /\ next = 1
        /\ openNr = NR.open /\ env = FALSE /\ results = <<>>

Start == /\ pc = "start"
         /\ prog' \in Programs
         /\ argv' \in CASE prog' = "multiarch" -> Chains
                        [] prog' = "launch"    -> FilterFiles
                        [] OTHER               -> {<<>>}
         /\ openNr' \in {NR.open, NR.openat} /\ privileged' \in BOOLEAN
         /\ pc' = IF prog' = "launch" THEN "load" ELSE "prctl"
         /\ UNCHANGED <<filters, noNewPrivs, handled, next, env, results>>

\* install_filter(): seccomp() wants CAP_SYS_ADMIN or no_new_privs.
Install(f) == IF noNewPrivs' \/ privileged
              THEN filters' = <<f>> \o filters /\ pc' = "calls"
              ELSE filters' = filters /\ pc' = "failed"

\* main() up to the calls the program is about.  multiarch does it on the first
\* execution only; trap_sigsys also establishes its handler.
PrctlAndInstall ==
    /\ pc = "prctl"
    /\ IF prog = "multiarch" /\ env
       THEN UNCHANGED <<noNewPrivs, filters>> /\ pc' = "calls"
       ELSE noNewPrivs' = TRUE /\ Install(Filter[prog])
    /\ handled' = (prog = "trap_sigsys")
    /\ UNCHANGED <<prog, privileged, argv, next, openNr, env, results>>

\* What a system call comes to in the process that makes it.
Outcome(call) == LET v == Judge(filters, call) IN
    CASE v = Kill \/ (v = Trap /\ ~handled) -> "killed"
      [] v = Trap -> "SIGSYS"
      [] v[1] = "errno" -> v
      [] v \in {UserNotif, Trace} -> Errno("ENOSYS")
      [] OTHER -> "executed"

SystemCall ==
    /\ pc = "calls" /\ Len(results) < Len(Calls)
    /\ LET r == Outcome(Calls[Len(results) + 1]) IN
       /\ results' = Append(results, r)
       /\ pc' = IF r = "killed" THEN "killed"
                ELSE IF prog = "multiarch" /\ r = "executed" THEN "failed" ELSE "calls"
    /\ UNCHANGED <<prog, filters, noNewPrivs, privileged, handled, argv, next, openNr, env>>

\* multiarch executes the next binary, which inherits filters and environment.
ExecNext ==
    /\ pc = "calls" /\ Len(results) = Len(Calls) /\ prog = "multiarch" /\ next < Len(argv)
    /\ env' = TRUE /\ next' = next + 1 /\ results' = <<>> /\ pc' = "prctl"
    /\ UNCHANGED <<prog, filters, noNewPrivs, privileged, handled, argv, openNr>>

Exit == /\ pc = "calls" /\ Len(results) = Len(Calls) /\ ~(prog = "multiarch" /\ next < Len(argv))
        /\ pc' = "exited"
        /\ UNCHANGED <<prog, filters, noNewPrivs, privileged, handled, argv, next, openNr, env, results>>

\* seccomp_launch: the calls loadFilter() makes are judged by the filters it has
\* already loaded.  A file whose size is odd ends the program.
LoadCalls == <<Open(openNr, {}), Call(NR.read), Call(NR.seccomp)>>
loadFilter ==
    /\ pc = "load" /\ next =< Len(argv)
    /\ noNewPrivs' = TRUE
    /\ LET outcomes == {Outcome(LoadCalls[i]) : i \in DOMAIN LoadCalls} IN
       CASE "killed" \in outcomes -> pc' = "killed" /\ UNCHANGED <<filters, next>>
         [] outcomes # {"executed"} \/ argv[next] = "odd" -> pc' = "failed" /\ UNCHANGED <<filters, next>>
         [] OTHER -> /\ filters' = <<Filter[argv[next]]>> \o filters
                     /\ next' = next + 1 /\ pc' = "load"
    /\ UNCHANGED <<prog, privileged, handled, argv, openNr, env, results>>

LaunchExec ==
    /\ pc = "load" /\ next > Len(argv)
    /\ pc' = CASE Outcome(Call(NR.execve)) = "executed" -> "exec"
               [] Outcome(Call(NR.execve)) = "killed" -> "killed"
               [] OTHER -> "failed"
    /\ UNCHANGED <<prog, filters, noNewPrivs, privileged, handled, argv, next, openNr, env, results>>

\* dump_seccomp_filter: filter number 0 is the most recently installed one.
fetchFilter(filterIndex) == IF filterIndex < Len(filters) THEN filters[filterIndex + 1] ELSE "ENOENT"

Next == Start \/ PrctlAndInstall \/ SystemCall \/ ExecNext \/ Exit \/ loadFilter \/ LaunchExec

----------------------------------------------------------------------------
\* What the comments in the programs say of every system call.
OtherABI(call) == call.arch # "x86_64" \/ call.nr >= X32_SYSCALL_BIT
Flags(call) == IF call.nr = NR.open THEN call.args[2] ELSE call.args[3]
Policy(p, call) ==
    CASE p = "multiarch" ->
             IF call.arch \notin {"x86_64", "i386"} THEN Kill
             ELSE IF \E abi \in DOMAIN NR_mq_notify : call = MqNotify(abi)
                  THEN Errno(NR_mq_notify[CHOOSE abi \in DOMAIN NR_mq_notify : call = MqNotify(abi)])
             ELSE Allow
      [] OtherABI(call) -> Kill
      [] p = "control_open" /\ call.nr \in {NR.open, NR.openat} ->
             IF "O_CREAT" \in Flags(call) THEN Kill
             ELSE IF Flags(call) \cap {"O_WRONLY", "O_RDWR"} # {} THEN Errno("ENOTSUP") ELSE Allow
      [] p = "deny_open" /\ call.nr \in {NR.open, NR.openat} -> Kill
      [] p = "perf" /\ call.nr = NR.open -> Kill
      [] p = "arg64" /\ call.nr = NR.lseek ->
             IF call.args[2][2] > 0 THEN Errno(2)
             ELSE IF call.args[2][1] > 1000 THEN Errno(1) ELSE Allow
      [] p = "trap_sigsys" /\ call.nr = NR.getppid -> Trap
      [] p = "logging" -> Log
      [] OTHER -> Allow

FlagSets == SUBSET {"O_WRONLY", "O_CREAT", "O_APPEND"} \cup {{"O_RDWR"}, {"O_RDWR", "O_CREAT"}}
NativeCalls == {Open(nr, fl) : nr \in {NR.open, NR.openat}, fl \in FlagSets}
               \cup {Seek(<<l, h>>) : l \in {0, 1000, 1001}, h \in {0, 1}}
               \cup {Call(NR[c]) : c \in {"read", "mkdir", "getppid", "geteuid", "execve", "seccomp"}}
               \cup {MqNotify("x86_64")}
AllCalls == NativeCalls \cup {[c EXCEPT !.arch = a] : c \in NativeCalls, a \in {"i386", "arm"}}
            \cup {[c EXCEPT !.nr = @ + X32_SYSCALL_BIT] : c \in NativeCalls}
            \cup {MqNotify(abi) : abi \in DOMAIN NR_mq_notify}

\* Each filter, executed instruction by instruction, gives every system call of
\* every ABI the verdict its program's comments promise.
FilterVerdicts == filters # <<>> /\ prog # "launch" =>
                      \A call \in AllCalls : Judge(filters, call) = Policy(prog, call)

\* main() sees what it demonstrates: deny_open never prints its message
\* (:104), control_open gets through open() to its fourth call, and every
\* binary of a chain fails with the number of its own ABI, judged by the one
\* filter the first binary installed.
Documented ==
    /\ pc = "exited" =>
       results = CASE prog = "arg64" -> <<"executed", "executed", Errno(1), Errno(2)>>
                   [] prog = "trap_sigsys" -> <<"SIGSYS">>
                   [] prog = "multiarch" -> <<Errno(NR_mq_notify[argv[next]])>>
                   [] prog \in {"perf", "logging"} -> <<"executed", "executed">>
    /\ pc = "killed" =>
       CASE prog = "control_open" -> results = <<"executed", Errno("ENOTSUP"), Errno("ENOTSUP"), "killed">>
         [] prog = "deny_open" -> results = <<"killed">>
         [] OTHER -> prog = "launch"
    /\ pc = "failed" => prog = "launch"
    /\ prog = "multiarch" => Len(filters) =< 1

\* The program runs only with every filter of the command line, and
\* dump_seccomp_filter finds them counted from the last one.
LaunchedWithAll == pc = "exec" => \A i \in 0..Len(argv) :
    fetchFilter(i) = IF i < Len(argv) THEN Filter[argv[Len(argv) - i]] ELSE "ENOENT"
=============================================================================
