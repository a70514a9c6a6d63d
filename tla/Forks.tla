------------------------------- MODULE Forks -------------------------------
(***************************************************************************)
(* The programs of procexec/ and pipes/ that create processes with fork()  *)
(* and vfork(), mmap/anon_mmap.c, and their rewrites under exercises/24,   *)
(* 25, 26 and 28.  A program is the list of calls that parent and children *)
(* make; the child of Fork(to) goes on at call `to', the parent at the     *)
(* next one.  Processes, pipes, the stdio buffer and wait() are modelled   *)
(* once, from how the programs use them.                                   *)
(***************************************************************************)
EXTENDS Integers, Sequences, FiniteSetsExt, SequencesExt

CONSTANTS fkPrograms,  \* the programs of this instance
          NKids,       \* children, where the command line says how many
          BUF_SIZE     \* bytes of one read()

VARIABLES fkprog,  \* the program
          proc,    \* the processes; 0 is the first
          kern     \* what they share: pipes, output, an open file, a mapping

fkVars == <<fkprog, proc, kern>>

Procs == 0 .. NKids
InitPid == NKids + 1

----------------------------------------------------------------------------
(* The calls.                                                              *)

Fork(to) == [op |-> "fork", to |-> to, vfork |-> FALSE, fail |-> 0]
ForkElse(to, fail) == [Fork(to) EXCEPT !.fail = fail]   \* goes on there if it fails
Vfork(to) == [Fork(to) EXCEPT !.vfork = TRUE]
Pipe(r, w) == [op |-> "pipe", r |-> r, w |-> w]
Close(d) == [op |-> "close", d |-> d]
Dup2(d, e) == [op |-> "dup2", d |-> d, e |-> e]
Text(x) == [op |-> "text", x |-> x]             \* what is to be written
Upper == [op |-> "upper"]
Write(d) == [op |-> "write", d |-> d]
Read(d, eof) == [op |-> "read", d |-> d, eof |-> eof]
Printf(x) == [op |-> "printf", x |-> x]         \* into the stdio buffer
Wait == [op |-> "wait"]
WaitNoReap == [op |-> "waitid"]                 \* waitid(WNOWAIT)
WaitChange(to) == [op |-> "waitchange", to |-> to]
Multiply == [op |-> "multiply"]
SetFile == [op |-> "setfile"]                   \* lseek(1000), O_APPEND
Increment == [op |-> "increment"]               \* of the shared mapping
Pattern(eof) == [op |-> "pattern", eof |-> eof]
Sleep == [op |-> "sleep"]
Pause == [op |-> "pause"]
Kill == [op |-> "kill"]                         \* SYNC_SIG to getppid()
KillZombie == [op |-> "killzombie"]
Suspend == [op |-> "suspend"]
Orphaned(to) == [op |-> "orphaned", to |-> to]  \* getppid() has changed
Getppid == [op |-> "getppid"]
Loop(n, to) == [op |-> "loop", n |-> n, to |-> to]
Goto(to) == [op |-> "goto", to |-> to]
Exit(n) == [op |-> "exit", n |-> n, flush |-> TRUE]
_Exit(n) == [op |-> "exit", n |-> n, flush |-> FALSE]

----------------------------------------------------------------------------
(* The programs.                                                           *)

Argument == <<1, 2, 3>>
Newline == 0

Mutsimple_pipe ==                       \* the child keeps the write end
    <<Pipe("r1", "w1"), Fork(9), Close("r1"), Text(Argument), Write("w1"), Close("w1"), Wait, Exit(0),
      Sleep, Read("r1", 13), Write("out"), Goto(10), Text(<<Newline>>), Write("out"),
      Close("r1"), _Exit(0)>>
simple_pipe ==
    <<Pipe("r1", "w1"), Fork(9), Close("r1"), Text(Argument), Write("w1"), Close("w1"), Wait, Exit(0),
      Close("w1"), Read("r1", 13), Write("out"), Goto(10), Text(<<Newline>>), Write("out"),
      Close("r1"), _Exit(0)>>

Mutpipe_sync ==                         \* the children close the pipe before their work
    <<Pipe("r1", "w1"), Fork(7), Loop(NKids, 2), Close("w1"), Read("r1", 6), Exit(0),
      Close("r1"), Close("w1"), Sleep, _Exit(0)>>
pipe_sync ==
    <<Pipe("r1", "w1"), Fork(7), Loop(NKids, 2), Close("w1"), Read("r1", 6), Exit(0),
      Close("r1"), Sleep, Close("w1"), _Exit(0)>>

(* ls and wc, calls 12-14 and 18-21, are the programs that are executed.   *)
pipe_ls_wc ==
    <<Pipe("r1", "w1"), Fork(9), Fork(15), Close("r1"), Close("w1"), Wait, Wait, Exit(0),
      Close("r1"), Dup2("w1", "out"), Close("w1"), Text(Argument), Write("out"), Exit(0),
      Close("w1"), Dup2("r1", "in"), Close("r1"), Read("in", 20), Goto(18), Text(<<"lines">>),
      Write("out"), Exit(0)>>

(* Two lines of input, none longer than BUF_SIZE.                          *)
change_case ==
    <<Pipe("r1", "w1"), Pipe("r2", "w2"), Fork(15), Close("r1"), Close("w2"),
      Text(<<1, 2>>), Write("w1"), Read("r2", 10), Write("out"),
      Text(<<3>>), Write("w1"), Read("r2", 14), Write("out"), Exit(0),
      Close("w1"), Close("r2"), Read("r1", 21), Upper, Write("w2"), Goto(17), _Exit(0)>>

(* Calls 4-10 are popen(), the loop over its output and pclose(); from 12  *)
(* on the shell and ls run.  From 18 on popen() has failed.                *)
popen_glob ==
    <<Pattern(11), Pipe("r1", "w1"), ForkElse(12, 18), Close("w1"), Read("r1", 8), Write("out"), Goto(5),
      Close("r1"), Wait, Goto(1), Exit(0),
      Close("r1"), Dup2("w1", "out"), Close("w1"), Text(Argument), Write("out"), Exit(0),
      Close("r1"), Close("w1"), Goto(1)>>

t_fork == <<Fork(4), Sleep, Exit(0), Multiply, Exit(0)>>
t_vfork == <<Vfork(3), Exit(0), Sleep, Text(<<"child">>), Write("out"), Multiply, _Exit(0)>>
vfork_fd_test == <<Vfork(5), Close("out"), Close("out"), Exit(0), Close("out"), _Exit(0)>>
vfork_ex ==
    <<Printf("wololo"), [Vfork(5) EXCEPT !.fail = 3], Printf("Father"), Exit(0),
      Multiply, Close("in"), Close("out"), Exit(0)>>
footprint == <<Fork(4), Wait, Exit(0), Multiply, Exit(7)>>
fork_file_sharing == <<Fork(4), Wait, Exit(0), SetFile, _Exit(0)>>
fork_stdio_buf == <<Printf("Hello"), Text(<<"Ciao">>), Write("out"), Fork(5), Exit(0)>>
fork_whos_on_first == <<Fork(5), Wait, Loop(NKids, 1), Exit(0), Text(<<"child">>), Write("out"), _Exit(0)>>
fork_whos_on_first_ex == fork_whos_on_first      \* the copy of the exercises
anon_mmap == <<Fork(4), Wait, Exit(0), Increment, Exit(0)>>

make_zombie == <<Fork(5), Sleep, KillZombie, Exit(0), _Exit(0)>>
make_zombie_ex == <<Fork(5), WaitNoReap, KillZombie, Exit(0), _Exit(0)>>
orphan == <<Fork(4), Sleep, Exit(0), Orphaned(6), Goto(4), _Exit(0)>>
dead_parent_process == <<Fork(4), Sleep, Exit(0), Getppid, Sleep, Getppid, Exit(0)>>
three_generations ==
    <<Fork(4), Sleep, Exit(0), Fork(7), Sleep, Exit(0), Getppid, Sleep, Getppid, Sleep, Getppid, Exit(0)>>
negative_exit_status == <<ForkElse(4, 2), Wait, Exit(0), Exit(-2)>>
child_status == <<Fork(4), WaitChange(3), Exit(0), Pause, Goto(4)>>
child_status_ex == <<Fork(4), WaitChange(3), Exit(0), Pause, Goto(4)>>

test_fork == <<Fork(5), Wait, Loop(NKids, 1), Exit(0), Exit(0)>>
test_vfork == <<Vfork(5), Wait, Loop(NKids, 1), Exit(0), Exit(0)>>

(* procexec/fork_sig_sync.c and exercises/24: the child does its work and  *)
(* then sends the signal for which the parent waits.                       *)
fork_sig_sync == <<Fork(4), Suspend, Exit(0), Multiply, Kill, _Exit(0)>>

Prog ==
    CASE fkprog = "simple_pipe" -> simple_pipe
      [] fkprog = "pipe_sync" -> pipe_sync
      [] fkprog = "pipe_ls_wc" -> pipe_ls_wc
      [] fkprog = "change_case" -> change_case
      [] fkprog = "popen_glob" -> popen_glob
      [] fkprog = "t_fork" -> t_fork
      [] fkprog = "t_vfork" -> t_vfork
      [] fkprog = "vfork_fd_test" -> vfork_fd_test
      [] fkprog = "vfork_ex" -> vfork_ex
      [] fkprog = "footprint" -> footprint
      [] fkprog = "fork_file_sharing" -> fork_file_sharing
      [] fkprog = "fork_stdio_buf" -> fork_stdio_buf
      [] fkprog = "fork_whos_on_first" -> fork_whos_on_first
      [] fkprog = "fork_whos_on_first_ex" -> fork_whos_on_first_ex
      [] fkprog = "anon_mmap" -> anon_mmap
      [] fkprog = "make_zombie" -> make_zombie
      [] fkprog = "make_zombie_ex" -> make_zombie_ex
      [] fkprog = "orphan" -> orphan
      [] fkprog = "dead_parent_process" -> dead_parent_process
      [] fkprog = "three_generations" -> three_generations
      [] fkprog = "negative_exit_status" -> negative_exit_status
      [] fkprog = "child_status" -> child_status
      [] fkprog = "child_status_ex" -> child_status_ex
      [] fkprog = "test_fork" -> test_fork
      [] fkprog = "test_vfork" -> test_vfork
      [] fkprog = "fork_sig_sync" -> fork_sig_sync

----------------------------------------------------------------------------
(* Processes.  `shares' marks the child of a vfork(), `v' stands for the   *)
(* variables, `buf' for the stdio buffer, `reg' for the I/O buffer.  A     *)
(* wait status below 256 is the exit status, the others tell of signals.   *)
SIGKILL == 256 + 9
SIGPIPE == 256 + 13
STOPPED == 512
CONTINUED == 513

Closed == [d \in {"in", "out", "r1", "w1", "r2", "w2"} |-> "closed"]
Nothing ==
    [pc |-> 1, st |-> "none", parent |-> InitPid, status |-> 0, child |-> InitPid, waited |-> 0, v |-> 1,
     buf |-> <<>>, reg |-> <<>>, fd |-> Closed, shares |-> FALSE, j |-> 0, pend |-> FALSE,
     change |-> 0, ppids |-> <<>>]

Init ==
    /\ fkprog = "none"
    /\ proc = [p \in Procs |-> Nothing]
    /\ kern = [pipe |-> [k \in {"1", "2"} |-> <<>>], out |-> <<>>, offset |-> 0, append |-> FALSE,
               addr |-> 1, failed |-> FALSE, kills |-> 0]

Start(g) ==
    /\ fkprog = "none"
    /\ fkprog' = g
    /\ proc' = [proc EXCEPT ![0].st = "run", ![0].fd = [Closed EXCEPT !["in"] = "tty", !["out"] = "tty"]]
    /\ UNCHANGED kern

Call(p) == Prog[proc[p].pc]
At(p, op) == fkprog # "none" /\ proc[p].st = "run" /\ Call(p).op = op
Step(p) == [proc EXCEPT ![p].pc = @ + 1]
Jump(p, to) == [proc EXCEPT ![p].pc = to]
Alive(p) == proc[p].st \in {"run", "held", "stopped"}
ChildrenOf(p) == {q \in Procs : proc[q].parent = p /\ proc[q].st \notin {"none", "gone"}}

(* The end of process p of ps: its children are adopted, the parent of a   *)
(* vfork() goes on in the memory they shared.                              *)
Ended(ps, p, status) ==
    LET par == ps[p].parent IN
    [q \in Procs |->
       CASE q = p -> [ps[p] EXCEPT !.st = IF par = InitPid THEN "gone" ELSE "zombie",
                                   !.status = status, !.fd = Closed]
         [] q = par /\ ps[p].shares -> [ps[q] EXCEPT !.st = "run", !.v = ps[p].v, !.buf = ps[p].buf]
         [] q # p /\ ps[q].parent = p ->
              [ps[q] EXCEPT !.parent = InitPid, !.st = IF @ = "zombie" THEN "gone" ELSE @]
         [] OTHER -> ps[q]]

Flushed(p) == IF proc[p].fd["out"] = "tty" THEN kern.out \o proc[p].buf ELSE kern.out

DoFork(p) ==
    /\ At(p, "fork")
    /\ LET new == Min({q \in Procs : proc[q].st \in {"none", "gone"}})
           call == Call(p) IN
       proc' = [proc EXCEPT
                  ![p].pc = @ + 1, ![p].child = new, ![p].st = IF call.vfork THEN "held" ELSE "run",
                  ![new] = [proc[p] EXCEPT !.pc = call.to, !.parent = p, !.shares = call.vfork,
                                           !.st = "run", !.child = InitPid, !.pend = FALSE]]
    /\ UNCHANGED <<fkprog, kern>>

(* A failed fork() is an errExit(), or the parent goes on.                 *)
ForkFails(p) ==
    /\ At(p, "fork")
    /\ IF Call(p).fail = 0
       THEN /\ proc' = Ended(proc, p, 1)
            /\ kern' = [kern EXCEPT !.out = Flushed(p), !.failed = TRUE]
       ELSE proc' = Jump(p, Call(p).fail) /\ kern' = [kern EXCEPT !.failed = TRUE]
    /\ UNCHANGED fkprog

DoPipe(p) ==
    /\ \/ At(p, "pipe") /\ proc' = [Step(p) EXCEPT ![p].fd[Call(p).r] = Call(p).r, ![p].fd[Call(p).w] = Call(p).w]
       \/ At(p, "close") /\ proc' = [Step(p) EXCEPT ![p].fd[Call(p).d] = "closed"]
       \/ At(p, "dup2") /\ proc' = [Step(p) EXCEPT ![p].fd[Call(p).e] = proc[p].fd[Call(p).d]]
    /\ UNCHANGED <<fkprog, kern>>

K(d) == IF d \in {"r1", "w1"} THEN "1" ELSE "2"
HasOpen(d) == \E q \in Procs : \E e \in DOMAIN Closed : proc[q].fd[e] = d
OtherEnd(d) == CASE d = "r1" -> "w1" [] d = "w1" -> "r1" [] d = "r2" -> "w2" [] OTHER -> "r2"

(* A pipe without readers ends its writer by SIGPIPE.                      *)
DoWrite(p) ==
    /\ At(p, "write")
    /\ LET to == proc[p].fd[Call(p).d] IN
       CASE to = "tty" -> proc' = Step(p) /\ kern' = [kern EXCEPT !.out = @ \o proc[p].reg]
         [] to = "closed" -> proc' = Step(p) /\ UNCHANGED kern
         [] to # "tty" /\ to # "closed" /\ HasOpen(OtherEnd(to)) ->
              proc' = Step(p) /\ kern' = [kern EXCEPT !.pipe[K(to)] = @ \o proc[p].reg]
         [] OTHER -> proc' = Ended(proc, p, SIGPIPE) /\ UNCHANGED kern
    /\ UNCHANGED fkprog

DoRead(p) ==
    /\ At(p, "read")
    /\ LET from == proc[p].fd[Call(p).d]
           s == kern.pipe[K(from)]
           n == Min({Len(s), BUF_SIZE}) IN
       \/ /\ s # <<>>
          /\ proc' = [Step(p) EXCEPT ![p].reg = SubSeq(s, 1, n)]
          /\ kern' = [kern EXCEPT !.pipe[K(from)] = SubSeq(s, n + 1, Len(s))]
       \/ /\ s = <<>> /\ ~HasOpen(OtherEnd(from))
          /\ proc' = Jump(p, Call(p).eof) /\ UNCHANGED kern
    /\ UNCHANGED fkprog

DoMemory(p) ==
    /\ \/ At(p, "text") /\ proc' = [Step(p) EXCEPT ![p].reg = Call(p).x]
       \/ At(p, "upper") /\ proc' = [Step(p) EXCEPT ![p].reg = [i \in DOMAIN @ |-> 10 + @[i]]]
       \/ At(p, "printf") /\ proc' = [Step(p) EXCEPT ![p].buf = Append(@, Call(p).x)]
       \/ At(p, "multiply") /\ proc' = [Step(p) EXCEPT ![p].v = @ * 3]
       \/ At(p, "getppid") /\ proc' = [Step(p) EXCEPT ![p].ppids = Append(@, proc[p].parent)]
       \/ At(p, "loop") /\ proc' = [Jump(p, IF proc[p].j + 1 < Call(p).n THEN Call(p).to ELSE proc[p].pc + 1)
                                      EXCEPT ![p].j = @ + 1]
       \/ At(p, "goto") /\ proc' = Jump(p, Call(p).to)
       \/ At(p, "sleep") /\ proc' = Step(p)
       \/ At(p, "orphaned") /\ proc' = IF proc[p].parent = InitPid THEN Jump(p, Call(p).to) ELSE Step(p)
    /\ UNCHANGED <<fkprog, kern>>

DoShared(p) ==
    /\ \/ At(p, "setfile") /\ kern' = [kern EXCEPT !.offset = 1000, !.append = TRUE]
       \/ At(p, "increment") /\ kern' = [kern EXCEPT !.addr = @ + 1]
    /\ proc' = Step(p)
    /\ UNCHANGED fkprog

(* popen_glob: the next line of input; empty lines and bad patterns are    *)
(* skipped.                                                                *)
DoPattern(p) ==
    /\ At(p, "pattern")
    /\ \/ proc[p].j < NKids /\ proc' = [Step(p) EXCEPT ![p].j = @ + 1]      \* a pattern
       \/ proc[p].j < NKids /\ proc' = [proc EXCEPT ![p].j = @ + 1]         \* an empty or a bad one
       \/ proc' = Jump(p, Call(p).eof)
    /\ UNCHANGED <<fkprog, kern>>

(* wait(): the status has eight bits.                                      *)
DoWait(p) ==
    /\ \/ /\ At(p, "wait")
          /\ \/ \E q \in ChildrenOf(p) : /\ proc[q].st = "zombie"
                                         /\ proc' = [Step(p) EXCEPT ![q].st = "gone", ![p].waited = proc[q].status]
             \/ ChildrenOf(p) = {} /\ proc' = Step(p)
       \/ At(p, "waitid") /\ (\E q \in ChildrenOf(p) : proc[q].st = "zombie") /\ proc' = Step(p)
       \/ /\ At(p, "waitchange")
          /\ \E q \in ChildrenOf(p) :
               \/ /\ proc[q].st = "zombie"
                  /\ proc' = [Jump(p, Call(p).to) EXCEPT ![q].st = "gone", ![p].waited = proc[q].status]
               \/ /\ proc[q].change # 0
                  /\ proc' = [proc EXCEPT ![q].change = 0, ![p].waited = proc[q].change]
    /\ UNCHANGED <<fkprog, kern>>

(* Signals: SYNC_SIG is blocked, and delivered in sigsuspend().            *)
DoSignal(p) ==
    /\ \/ /\ At(p, "kill")
          /\ proc' = IF proc[p].parent = InitPid THEN Step(p) ELSE [Step(p) EXCEPT ![proc[p].parent].pend = TRUE]
       \/ At(p, "killzombie")
          /\ LET q == proc[p].child IN
             proc' = IF proc[q].st = "run" THEN Ended(Step(p), q, SIGKILL) ELSE Step(p)
       \/ At(p, "suspend") /\ proc[p].pend /\ proc' = [Step(p) EXCEPT ![p].pend = FALSE]
    /\ UNCHANGED <<fkprog, kern>>

(* The user of child_status.c stops, continues or kills the child.         *)
UserSignal(p) ==
    /\ fkprog \in {"child_status", "child_status_ex"} /\ p # 0 /\ kern.kills < 3
    /\ \/ At(p, "pause") /\ proc' = [proc EXCEPT ![p].st = "stopped", ![p].change = STOPPED]
       \/ proc[p].st = "stopped" /\ proc' = [proc EXCEPT ![p].st = "run", ![p].change = CONTINUED]
       \/ Alive(p) /\ proc' = Ended(proc, p, SIGKILL)
    /\ kern' = [kern EXCEPT !.kills = @ + 1]
    /\ UNCHANGED fkprog

DoExit(p) ==
    /\ At(p, "exit")
    /\ proc' = Ended([proc EXCEPT ![p].buf = IF Call(p).flush THEN <<>> ELSE @], p, Call(p).n % 256)
    /\ kern' = IF Call(p).flush THEN [kern EXCEPT !.out = Flushed(p)] ELSE kern
    /\ UNCHANGED fkprog

Next ==
    \/ \E g \in fkPrograms : Start(g)
    \/ \E p \in Procs :
         \/ DoFork(p) \/ ForkFails(p) \/ DoPipe(p) \/ DoWrite(p) \/ DoRead(p) \/ DoMemory(p) \/ DoShared(p)
         \/ DoPattern(p) \/ DoWait(p) \/ DoSignal(p) \/ UserSignal(p) \/ DoExit(p)

Spec == Init /\ [][Next]_fkVars

----------------------------------------------------------------------------
Blocked(p) ==
    \/ proc[p].st = "held"
    \/ At(p, "read") /\ kern.pipe[K(proc[p].fd[Call(p).d])] = <<>> /\ HasOpen(OtherEnd(proc[p].fd[Call(p).d]))
    \/ (At(p, "wait") \/ At(p, "waitid")) /\ ChildrenOf(p) # {} /\ \A q \in ChildrenOf(p) : proc[q].st # "zombie"
    \/ At(p, "suspend") /\ ~proc[p].pend

Done == fkprog # "none" /\ \A p \in Procs : ~Alive(p)

(* The processes never wait for each other: every end of a pipe that would *)
(* keep its reader from seeing end-of-file is closed (simple_pipe.c:48,    *)
(* :73; pipe_sync.c:75; pipe_ls_wc.c:80-83; change_case.c:49-52, :96-99),  *)
(* also after a failed fork(), and the signal of fork_sig_sync.c cannot    *)
(* come too early to be seen (:38-41).                                     *)
NoHang ==
    \/ \A p \in Procs : ~Alive(p)
    \/ \E p \in Procs : Alive(p) /\ ~Blocked(p)

(* What the programs show.  The reader of a pipe passes on what was        *)
(* written, in order, and nobody is ended by SIGPIPE; the parent of        *)
(* pipe_sync is ready only when every child has done its work              *)
(* (pipe_sync.c:23-25); change_case prints the text in upper case.  What   *)
(* the child of fork() changes the parent does not see, what the child of  *)
(* vfork() changes it does (t_vfork.c:34), but not in its descriptors      *)
(* (vfork_fd_test.c:35-37); exit() of that child loses "wololo"            *)
(* (exercises/24 vfork.c:20-28).  Open files and mappings are shared.      *)
(* Buffered text is printed twice, after what was written                  *)
(* (fork_stdio_buf.c:22-30).  A signal does not remove a zombie            *)
(* (make_zombie.c:49-55); an orphan's parent is gone (orphan.c:39); the    *)
(* exit status -2 is seen as 254 (exercises/25 README.md:17).              *)
ForksRight ==
    /\ ~kern.failed => \A p \in Procs : proc[p].status # SIGPIPE
    /\ (fkprog = "simple_pipe" /\ Done /\ ~kern.failed) => kern.out = Append(Argument, Newline)
    /\ (fkprog = "pipe_ls_wc" /\ Done /\ ~kern.failed) => kern.out = <<"lines">>
    /\ (fkprog = "popen_glob") => \A i \in DOMAIN kern.out : kern.out[i] = ((i - 1) % 3) + 1
    /\ (fkprog = "change_case" /\ Done /\ ~kern.failed) => kern.out = <<11, 12, 13>>
    /\ (fkprog = "pipe_sync" /\ proc[0].pc = 6) => \A p \in Procs \ {0} : proc[p].pc = 10 \/ ~Alive(p)
    /\ (fkprog \in {"t_fork", "footprint", "fork_sig_sync"}) => proc[0].v = 1
    /\ (fkprog \in {"t_vfork", "vfork_ex"} /\ proc[0].pc > 2 /\ Alive(0) /\ ~kern.failed /\ proc[0].st # "held") =>
          proc[0].v = 3
    /\ (fkprog = "vfork_fd_test" /\ proc[0].pc = 2 /\ Alive(0)) => proc[0].fd["out"] = "tty"
    /\ (fkprog = "vfork_ex" /\ ~kern.failed) => "wololo" \notin Range(kern.out)
    /\ (fkprog = "fork_file_sharing" /\ proc[0].pc = 3 /\ ~kern.failed) => kern.offset = 1000 /\ kern.append
    /\ (fkprog = "anon_mmap" /\ proc[0].pc = 3 /\ ~kern.failed) => kern.addr = 2
    /\ (fkprog = "fork_stdio_buf" /\ Done /\ ~kern.failed) => kern.out = <<"Ciao", "Hello", "Hello">>
    /\ (fkprog \in {"fork_whos_on_first", "fork_whos_on_first_ex"} /\ Done /\ ~kern.failed) => Len(kern.out) = NKids
    /\ (fkprog \in {"make_zombie", "make_zombie_ex"} /\ proc[0].pc = 4 /\ Alive(0)) => proc[1].st = "zombie"
    /\ (fkprog = "orphan" /\ proc[1].st = "gone") => ~Alive(0)
    /\ (fkprog = "negative_exit_status" /\ proc[0].pc = 3 /\ ~kern.failed) => proc[0].waited = 254
    /\ (fkprog = "footprint" /\ proc[0].pc = 3 /\ ~kern.failed) => proc[0].waited = 7
    /\ (fkprog = "fork_sig_sync" /\ proc[0].pc = 3) => proc[1].v = 3
    /\ (fkprog \in {"test_fork", "test_vfork"}) => Cardinality(ChildrenOf(0)) <= 1

=============================================================================
