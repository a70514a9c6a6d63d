------------------------------- MODULE Terminals -------------------------------
(***************************************************************************)
(* Terminals: the programs that change their settings, the ones that run   *)
(* another program on a pseudoterminal, and the ones a terminal's process  *)
(* groups and its disconnection are about. Each of the three parts has     *)
(* variables and a next-state relation of its own.                         *)
(***************************************************************************)
EXTENDS Integers, Sequences

----------------------------------------------------------------------------
(***************************************************************************)
(* Programs that change the settings of the terminal and give them back:   *)
(* tty/test_tty_functions.c (cbreak or raw mode) with tty/tty_functions.c, *)
(* tty/no_echo.c, and pgsjc/handling_SIGTSTP.c, which has the same SIGTSTP *)
(* handler without a terminal.  Signals arrive between any two steps; a    *)
(* stopped process waits for SIGCONT, and the user may change the settings *)
(* (tty/new_intr.c) before sending it.                                     *)
(***************************************************************************)
CONSTANTS MaxSignals,       \* how many signals are sent
          ttyPrograms       \* a subset of {"cbreak", "raw", "no_echo", "handling_SIGTSTP"}

VARIABLES
    tprog, tpc,
    ignored,                \* the signals the program was started with ignored
    term,                   \* the settings of the terminal: [flags, intr]
    userTermios,            \* the program's copy
    stack,                  \* the handlers that run, the innermost first: [sig, at, our]
    ttyCaught,                 \* the signals that have a handler; the others have the default action
    unblocked,              \* is SIGTSTP unblocked inside its handler?
    ttyPending, stopped,
    ended,                  \* "": running; "exit" or "killed"
    signals                 \* how many signals have been sent

ttyVars == <<tprog, ignored, tpc, term, userTermios, stack, ttyCaught, unblocked, ttyPending, stopped, ended, signals>>

Cooked == {"ICANON", "ECHO", "ISIG", "IEXTEN", "ICRNL", "IXON", "OPOST"}
VDISABLE == "off"

Termios(f, c) == [flags |-> f, intr |-> c]
ttySetCbreak(t) == Termios((t.flags \ {"ICANON", "ECHO", "ICRNL"}) \cup {"ISIG"}, t.intr)
ttySetRaw(t) == Termios(t.flags \ {"ICANON", "ISIG", "IEXTEN", "ECHO", "ICRNL", "IXON", "OPOST"}, t.intr)
EchoOff(t) == Termios(t.flags \ {"ECHO"}, t.intr)
new_intr(t) == Termios(t.flags, VDISABLE)

TtyInit == /\ tprog = "" /\ ignored = {} /\ tpc = "exec" /\ term = Termios(Cooked, "^C")
           /\ userTermios = <<>> /\ stack = <<>> /\ ttyCaught = {} /\ unblocked = FALSE
           /\ ttyPending = {} /\ stopped = FALSE /\ ended = "" /\ signals = 0

Inherit == ignored' \in SUBSET {"QUIT", "INT", "TSTP"}

Exec == /\ tpc = "exec" /\ tprog' \in ttyPrograms \ {"handling_SIGTSTP"} /\ tpc' = "mode" /\ Inherit
        /\ UNCHANGED <<term, userTermios, stack, ttyCaught, unblocked, ttyPending, stopped, ended, signals>>

InMain == ~stopped /\ ended = "" /\ stack = <<>>
Handling == ~stopped /\ ended = "" /\ stack # <<>>

---------------------------------------------------------------------------
(* main(). *)
SetMode == /\ InMain /\ tpc = "mode" /\ userTermios' = term
           /\ term' = CASE tprog = "cbreak" -> ttySetCbreak(term)
                        [] tprog = "raw" -> ttySetRaw(term)
                        [] tprog = "no_echo" -> EchoOff(term)
           /\ tpc' = CASE tprog = "cbreak" -> "QUIT" [] tprog = "raw" -> "TERM" [] tprog = "no_echo" -> "loop"
           /\ UNCHANGED <<tprog, ignored, stack, ttyCaught, unblocked, ttyPending, stopped, ended, signals>>

(* One sigaction() after the other, tpc the signal; in raw mode only SIGTERM.  A signal
   that is ignored stays so. *)
NextHandler == [QUIT |-> "INT", INT |-> "TSTP", TSTP |-> "TERM", TERM |-> "loop"]
Install == /\ InMain /\ tpc \in {"QUIT", "INT", "TSTP", "TERM"}
           /\ ttyCaught' = ttyCaught \cup ({tpc} \ ignored) /\ tpc' = NextHandler[tpc]
           /\ UNCHANGED <<tprog, ignored, term, userTermios, stack, unblocked, ttyPending, stopped, ended, signals>>

(* It has no terminal to set: one sigaction(), unless the signal is ignored, then pause(). *)
handling_SIGTSTP ==
    /\ tpc = "exec" /\ "handling_SIGTSTP" \in ttyPrograms /\ tprog' = "handling_SIGTSTP"
    /\ Inherit /\ ttyCaught' = {"TSTP"} \ ignored' /\ tpc' = "loop"
    /\ UNCHANGED <<term, userTermios, stack, unblocked, ttyPending, stopped, ended, signals>>

Quit == /\ InMain /\ tpc = "loop" /\ tprog # "handling_SIGTSTP"          \* 'q', end of file or an error
        /\ tpc' = "restored" /\ term' = userTermios
        /\ UNCHANGED <<tprog, ignored, userTermios, stack, ttyCaught, unblocked, ttyPending, stopped, ended, signals>>

ExitTty == /\ InMain /\ tpc = "restored" /\ ended' = "exit"
           /\ UNCHANGED <<tprog, ignored, tpc, term, userTermios, stack, ttyCaught, unblocked, ttyPending, stopped, signals>>

---------------------------------------------------------------------------
Top == stack[1]
Frame(s, k, t) == [sig |-> s, at |-> k, our |-> t]
At(k) == stack' = <<Frame(Top.sig, k, Top.our)>> \o Tail(stack)

handler ==
    /\ Handling /\ Top.sig \in {"QUIT", "INT", "TERM"}
    /\ \/ Top.at = 1 /\ term' = userTermios /\ At(2) /\ UNCHANGED ended
       \/ Top.at = 2 /\ ended' = "exit" /\ UNCHANGED <<term, stack>>
    /\ UNCHANGED <<tprog, ignored, tpc, userTermios, ttyCaught, unblocked, ttyPending, stopped, signals>>

HasTty == tprog = "cbreak"

MutGiveBack ==                              \* the terminal is left as it is during the stop
    /\ Handling /\ Top.sig = "TSTP" /\ Top.at = 1
    /\ stack' = <<Frame("TSTP", 3, term)>> \o Tail(stack)
    /\ UNCHANGED <<tprog, ignored, tpc, term, userTermios, ttyCaught, unblocked, ttyPending, stopped, ended, signals>>

GiveBack ==                                 \* save ours, restore the user's
    /\ Handling /\ Top.sig = "TSTP"
    /\ \/ Top.at = 1 /\ stack' = <<Frame("TSTP", 2, term)>> \o Tail(stack) /\ UNCHANGED term
       \/ Top.at = 2 /\ At(3) /\ term' = IF HasTty THEN userTermios ELSE term
    /\ UNCHANGED <<tprog, ignored, tpc, userTermios, ttyCaught, unblocked, ttyPending, stopped, ended, signals>>

StopAgain ==                                \* SIG_DFL, raise(), unblock: the process stops
    /\ Handling /\ Top.sig = "TSTP"
    /\ \/ Top.at = 3 /\ ttyCaught' = ttyCaught \ {"TSTP"} /\ At(4) /\ UNCHANGED <<ttyPending, unblocked>>
       \/ Top.at = 4 /\ ttyPending' = ttyPending \cup {"TSTP"} /\ At(5) /\ UNCHANGED <<ttyCaught, unblocked>>
       \/ Top.at = 5 /\ unblocked' = TRUE /\ At(6) /\ UNCHANGED <<ttyCaught, ttyPending>>
    /\ UNCHANGED <<tprog, ignored, tpc, term, userTermios, stopped, ended, signals>>

Resume ==                                   \* block again, the handler again, the terminal
    /\ Handling /\ Top.sig = "TSTP" /\ ~(unblocked /\ "TSTP" \in ttyPending)
    /\ \/ Top.at = 6 /\ unblocked' = FALSE /\ At(7) /\ UNCHANGED <<ttyCaught, userTermios, term>>
       \/ Top.at = 7 /\ ttyCaught' = ttyCaught \cup {"TSTP"} /\ At(8) /\ UNCHANGED <<unblocked, userTermios, term>>
       \/ Top.at = 8 /\ userTermios' = (IF HasTty THEN term ELSE userTermios) /\ At(9)
                     /\ UNCHANGED <<ttyCaught, unblocked, term>>
       \/ Top.at = 9 /\ term' = (IF HasTty THEN Top.our ELSE term) /\ stack' = Tail(stack)
                     /\ UNCHANGED <<ttyCaught, unblocked, userTermios>>
    /\ UNCHANGED <<tprog, ignored, tpc, ttyPending, stopped, ended, signals>>

---------------------------------------------------------------------------
(* The kernel: sending and delivering signals. *)
SentTty == CASE tprog \in {"cbreak", "no_echo"} -> {"QUIT", "INT", "TSTP", "TERM"}
             [] tprog = "raw" -> {"TERM"}                 \* ISIG is off: no signals from the keyboard
             [] OTHER -> {"TSTP"}

SendTty == /\ tpc # "exec" /\ ended = "" /\ signals < MaxSignals
           /\ \E s \in SentTty \ ignored : ttyPending' = ttyPending \cup {s}
           /\ signals' = signals + 1
           /\ UNCHANGED <<tprog, ignored, tpc, term, userTermios, stack, ttyCaught, unblocked, stopped, ended>>

Blocked(s) == (\E i \in DOMAIN stack : stack[i].sig = s) /\ ~(s = "TSTP" /\ unblocked)

DeliverTty ==
       /\ ~stopped /\ ended = ""
       /\ \E s \in ttyPending : ~Blocked(s) /\ ttyPending' = ttyPending \ {s}
            /\ \/ /\ s \in ttyCaught /\ stack' = <<Frame(s, 1, <<>>)>> \o stack
                  /\ UNCHANGED <<stopped, ended>>
               \/ s \notin ttyCaught /\ s = "TSTP" /\ stopped' = TRUE /\ UNCHANGED <<stack, ended>>
               \/ s \notin ttyCaught /\ s # "TSTP" /\ ended' = "killed" /\ UNCHANGED <<stack, stopped>>
       /\ UNCHANGED <<tprog, ignored, tpc, term, userTermios, ttyCaught, unblocked, signals>>

NewIntr == /\ stopped /\ term.intr # VDISABLE /\ term' = new_intr(term)
           /\ UNCHANGED <<tprog, ignored, tpc, userTermios, stack, ttyCaught, unblocked, ttyPending, stopped, ended, signals>>

Continue == /\ stopped /\ stopped' = FALSE /\ ttyPending' = ttyPending \ {"TSTP"}     \* SIGCONT
            /\ UNCHANGED <<tprog, ignored, tpc, term, userTermios, stack, ttyCaught, unblocked, ended, signals>>

TtyNext == \/ Exec \/ handling_SIGTSTP \/ SetMode \/ Install \/ Quit \/ ExitTty \/ handler \/ GiveBack \/ StopAgain
           \/ Resume \/ SendTty \/ DeliverTty \/ NewIntr \/ Continue

---------------------------------------------------------------------------
(* Once its handlers are in place the program does not leave the terminal in its own
   mode: whenever it is stopped, and when it ends, the settings are ones the user chose,
   in whatever order the signals come (test_tty_functions.c:57, :37, :170). *)
TtyGivenBack ==
    /\ tprog \in {"cbreak", "raw"} /\ tpc \in {"loop", "restored"} /\ (stopped \/ ended # "")
         => term.flags = Cooked
    /\ ended = "exit" => term.flags = Cooked

(* A handled SIGTSTP stops the process once more, and the handler is back in place
   when it returns (handling_SIGTSTP.c:53). *)
HandlerBack == /\ tpc \in {"loop", "restored"} /\ stack = <<>> /\ tprog \in {"cbreak", "handling_SIGTSTP"}
                    => "TSTP" \in ttyCaught \cup ignored /\ ~unblocked
               /\ \A i \in DOMAIN stack : stack[i].sig = "TSTP" /\ stack[i].at \in 1..5 /\ i = 1
                    => ~stopped

----------------------------------------------------------------------------
(***************************************************************************)
(* pty/pty_master_open.c, pty/pty_fork.c and the two programs that relay   *)
(* between the terminal and a child on a pseudoterminal: pty/script.c,     *)
(* which also keeps a typescript, and pty/unbuffer.c.  The pseudoterminal  *)
(* is external: two queues; once every descriptor of the slave is closed   *)
(* the master reads what is left and then an error.                        *)
(***************************************************************************)
CONSTANTS Typed,            \* how many bytes the user types
          Written           \* how many bytes the child writes

VARIABLES
    pprog,                  \* "script" or "unbuffer"
    ppc,                    \* the parent
    masterFd,               \* is the master open in the parent?
    slave,                  \* the child: "none", "setsid", "open", "dup", "exec", "running", "gone"
    opened,                 \* has the slave been opened?
    ctty,                   \* does the child have the slave as controlling terminal?
    terminal,               \* "cooked" or "raw"
    handlers,               \* has ttyReset() been registered with atexit()?
    inFds,                  \* what select() found ready
    keyboard,               \* bytes typed and not read
    relayBuf,               \* buf: what has been read from the master and not yet written on
    toSlave, toMaster,      \* the queues of the pseudoterminal
    childOut,               \* history: all the child has written
    childIn,                \* history: all the child has read
    screen, typescript      \* what was written to STDOUT_FILENO and to scriptFd

ptyVars == <<pprog, ppc, masterFd, slave, opened, ctty, terminal, handlers, inFds, keyboard, relayBuf, toSlave,
             toMaster, childOut, childIn, screen, typescript>>

PtyInit == /\ pprog = "" /\ ppc = "start" /\ masterFd = FALSE /\ slave = "none" /\ opened = FALSE
           /\ ctty = FALSE /\ terminal = "cooked" /\ handlers = FALSE /\ inFds = {} /\ keyboard = Typed
           /\ relayBuf = <<>> /\ toSlave = <<>> /\ toMaster = <<>> /\ childOut = <<>> /\ childIn = <<>>
           /\ screen = <<>> /\ typescript = <<>>

ptyChild == <<slave, opened, ctty, childOut, childIn>>
io == <<keyboard, relayBuf, toSlave, toMaster, screen, typescript>>

(* exit(): the registered handler puts the terminal back. *)
ExitAs(how) == ppc' = how /\ terminal' = (IF handlers THEN "cooked" ELSE terminal) /\ masterFd' = FALSE
exit == ExitAs("ended")
fatal == ExitAs("fatal")

---------------------------------------------------------------------------
(* posix_openpt(), then grantpt(), unlockpt(), ptsname() and the length of the name:
   when one of them fails the master is closed again. *)
ptyMasterOpen ==
    /\ \/ /\ ppc = "start" /\ pprog' \in {"script", "unbuffer"}
          /\ \/ ppc' = "grant" /\ masterFd' = TRUE
             \/ ppc' = "failed" /\ UNCHANGED masterFd
       \/ /\ ppc = "grant" /\ UNCHANGED pprog
          /\ \/ ppc' = "fork" /\ UNCHANGED masterFd
             \/ ppc' = "failed" /\ masterFd' = FALSE
    /\ UNCHANGED <<ptyChild, terminal, handlers, inFds, io>>

MutptyFork ==                                       \* a failed fork() leaves the master open
    /\ ppc = "fork" /\ \/ ppc' = "relay" /\ slave' = "setsid"
                       \/ ppc' = "failed" /\ UNCHANGED slave
    /\ UNCHANGED <<pprog, masterFd, opened, ctty, childOut, childIn, terminal, handlers, inFds, io>>

ptyFork ==
    /\ ppc = "fork"
    /\ \/ ppc' = "relay" /\ slave' = "setsid" /\ UNCHANGED masterFd
       \/ ppc' = "failed" /\ masterFd' = FALSE /\ UNCHANGED slave
    /\ UNCHANGED <<pprog, opened, ctty, childOut, childIn, terminal, handlers, inFds, io>>

errExit == /\ ppc = "failed" /\ ppc' = "ended"
           /\ UNCHANGED <<pprog, masterFd, ptyChild, terminal, handlers, inFds, io>>

(* The child: a new session, then the slave, which becomes its controlling terminal
   because a session leader without one opens it. *)
ChildStart ==
    /\ \/ slave = "setsid" /\ slave' = "open" /\ UNCHANGED <<opened, ctty>>
       \/ slave = "open" /\ slave' = "dup" /\ opened' = TRUE /\ ctty' = TRUE
       \/ slave = "dup" /\ slave' = "exec" /\ UNCHANGED <<opened, ctty>>
       \/ slave = "exec" /\ slave' = "running" /\ UNCHANGED <<opened, ctty>>
       \/ slave \in {"setsid", "open", "dup", "exec"} /\ slave' = "gone" /\ UNCHANGED <<opened, ctty>>   \* err_exit()
    /\ UNCHANGED <<pprog, ppc, masterFd, childOut, childIn, terminal, handlers, inFds, io>>

ChildRuns ==                                        \* external: the shell or the command
    /\ slave = "running"
    /\ \/ /\ Len(childOut) < Written /\ childOut' = Append(childOut, Len(childOut) + 1)
          /\ toMaster' = Append(toMaster, Len(childOut) + 1) /\ UNCHANGED <<slave, toSlave, childIn>>
       \/ /\ toSlave # <<>> /\ childIn' = Append(childIn, toSlave[1]) /\ toSlave' = Tail(toSlave)
          /\ UNCHANGED <<slave, childOut, toMaster>>
       \/ slave' = "gone" /\ UNCHANGED <<childOut, childIn, toSlave, toMaster>>
    /\ UNCHANGED <<pprog, ppc, masterFd, opened, ctty, terminal, handlers, inFds, keyboard, relayBuf, screen, typescript>>

---------------------------------------------------------------------------
(* The parent of script opens the typescript. *)
OpenTypescript ==
    /\ ppc = "relay" /\ \/ ppc' = "raw" /\ UNCHANGED <<terminal, masterFd>>
                        \/ exit
    /\ UNCHANGED <<pprog, ptyChild, handlers, inFds, io>>

(* Both set raw mode, without checking that it was, and register ttyReset(). *)
Prepare ==
    /\ \/ /\ ppc = (IF pprog = "script" THEN "raw" ELSE "relay")
          /\ ppc' = "atexit" /\ terminal' \in {"raw", "cooked"} /\ UNCHANGED <<handlers, masterFd>>
       \/ ppc = "atexit" /\ ppc' = "select" /\ handlers' = TRUE /\ UNCHANGED <<terminal, masterFd>>
       \/ ppc = "atexit" /\ exit /\ UNCHANGED handlers
    /\ UNCHANGED <<pprog, ptyChild, inFds, io>>

Hangup == opened /\ slave = "gone"

Select ==
    /\ ppc = "select"
    /\ inFds' = {f \in {"stdin", "master"} : \/ f = "stdin" /\ keyboard > 0
                                             \/ f = "master" /\ (toMaster # <<>> \/ Hangup)}
    /\ inFds' # {} /\ ppc' = "stdin"
    /\ UNCHANGED <<pprog, masterFd, ptyChild, terminal, handlers, io>>

StdinToPty ==                                       \* read(), then write() of what it gave
    /\ \/ /\ ppc = "stdin" /\ "stdin" \in inFds /\ keyboard' = keyboard - 1 /\ ppc' = "toMaster"
          /\ UNCHANGED <<toSlave, terminal, masterFd>>
       \/ ppc = "stdin" /\ "stdin" \notin inFds /\ ppc' = "master"
          /\ UNCHANGED <<keyboard, toSlave, terminal, masterFd>>
       \/ /\ ppc = "toMaster" /\ toSlave' = Append(toSlave, Typed - keyboard) /\ ppc' = "master"
          /\ UNCHANGED <<keyboard, terminal, masterFd>>
       \/ ppc = "toMaster" /\ fatal /\ UNCHANGED <<keyboard, toSlave>>
    /\ UNCHANGED <<pprog, ptyChild, handlers, inFds, relayBuf, toMaster, screen, typescript>>

PtyToStdout ==                                      \* a failed or partial write() is fatal()
    /\ \/ ppc = "master" /\ "master" \notin inFds /\ ppc' = "select"
          /\ UNCHANGED <<terminal, masterFd, toMaster, relayBuf, screen>>
       \/ ppc = "master" /\ "master" \in inFds /\ toMaster = <<>> /\ exit              \* EIO
          /\ UNCHANGED <<toMaster, relayBuf, screen>>
       \/ /\ ppc = "master" /\ "master" \in inFds /\ toMaster # <<>>
          /\ relayBuf' = toMaster /\ toMaster' = <<>> /\ ppc' = "stdout"
          /\ UNCHANGED <<terminal, masterFd, screen>>
       \/ /\ ppc = "stdout" /\ screen' = screen \o relayBuf
          /\ ppc' = IF pprog = "script" THEN "typescript" ELSE "select"
          /\ UNCHANGED <<terminal, masterFd, toMaster, relayBuf>>
       \/ /\ ppc = "stdout" /\ fatal
          /\ \E n \in 0..(Len(relayBuf) - 1) : screen' = screen \o SubSeq(relayBuf, 1, n)
          /\ UNCHANGED <<toMaster, relayBuf>>
    /\ UNCHANGED <<pprog, ptyChild, handlers, inFds, keyboard, toSlave, typescript>>

Typescript ==                                       \* the same buffer
    /\ ppc = "typescript"
    /\ \/ typescript' = typescript \o relayBuf /\ ppc' = "select" /\ UNCHANGED <<terminal, masterFd>>
       \/ fatal /\ \E n \in 0..(Len(relayBuf) - 1) : typescript' = typescript \o SubSeq(relayBuf, 1, n)
    /\ UNCHANGED <<pprog, ptyChild, handlers, inFds, keyboard, relayBuf, toSlave, toMaster, screen>>

Disconnect ==                                       \* read() on the terminal: end of file
    /\ ppc = "stdin" /\ "stdin" \in inFds /\ exit
    /\ UNCHANGED <<pprog, ptyChild, handlers, inFds, io>>

script == /\ pprog = "script"
          /\ \/ OpenTypescript \/ Prepare \/ Select \/ StdinToPty \/ Disconnect
             \/ PtyToStdout \/ Typescript

unbuffer == /\ pprog = "unbuffer"
            /\ Prepare \/ Select \/ StdinToPty \/ Disconnect \/ PtyToStdout

PtyNext == ptyMasterOpen \/ ptyFork \/ errExit \/ ChildStart \/ ChildRuns \/ script \/ unbuffer

---------------------------------------------------------------------------
(* What the child writes appears on the screen unchanged and in order, and the typescript
   never differs from the screen by more than the buffer being written; unless a write()
   failed nothing the child wrote is missing when the parent ends because the child is
   gone; the child reads what was typed; the child runs with the slave as its controlling
   terminal (script.c:120). *)
Relayed ==
    /\ ppc # "fatal" => childOut = screen \o (IF ppc = "stdout" THEN relayBuf ELSE <<>>) \o toMaster
    /\ \E n \in 0..Len(childOut) : screen = SubSeq(childOut, 1, n)
    /\ \E n \in 0..Len(screen) : typescript = SubSeq(screen, 1, n)
    /\ ppc = "select" /\ pprog = "script" => typescript = screen
    /\ \A i \in DOMAIN childIn : childIn[i] = i
    /\ slave = "running" => ctty

(* The terminal is back in its mode when the parent exits once ttyReset() is registered,
   and a ptyFork() that fails leaves no descriptor of the master behind (pty_fork.c:70). *)
PtyCleanUp ==
    /\ ppc \in {"ended", "fatal"} /\ handlers => terminal = "cooked"
    /\ ppc \in {"failed", "ended", "fatal"} => ~masterFd

----------------------------------------------------------------------------
(***************************************************************************)
(* pgsjc/: process groups that lose their terminal or their parent.        *)
(*   "catch_SIGHUP"  the handler is set before fork(); the child may move  *)
(*                   to a group of its own                                 *)
(*   "disc_SIGHUP"   children set the handler themselves; the program is   *)
(*                   the controlling process of the terminal               *)
(*   "orphaned"      orphaned_pgrp_SIGHUP: children stop or pause, then    *)
(*                   the parent exits                                      *)
(*   "job_mon"       a pipeline whose members number themselves            *)
(* Process 0 is the parent (for job_mon the first member); 1..N the rest.  *)
(***************************************************************************)
CONSTANTS NumMembers, jcPrograms

VARIABLES
    jprog,
    letter,         \* the argument of each child: "d", "s" or "p"
    jpc,            \* "none", "start", "move", "set", "mark", "wait", "dead"
    group,          \* the process group: 0 is the foreground group
    jcHandlers,       \* the signals each process catches
    pend, caught,
    halted,         \* the processes stopped by SIGSTOP or SIGTSTP
    disconnected,   \* history: those in the foreground group, or stopped, when the terminal, or the parent, went
    cmdNum, pipe    \* job_mon: the numbers, and what each member has been sent (0: nothing)

jcVars == <<jprog, letter, jpc, group, jcHandlers, pend, caught, halted, disconnected, cmdNum, pipe>>
P == 0..NumMembers

JobInit == /\ jprog = "" /\ letter = [p \in P |-> "s"] /\ jpc = [p \in P |-> "none"]
           /\ group = [p \in P |-> 0] /\ jcHandlers = [p \in P |-> {}] /\ pend = [p \in P |-> {}]
           /\ caught = [p \in P |-> {}] /\ halted = {} /\ disconnected = {}
           /\ cmdNum = [p \in P |-> 0] /\ pipe = [p \in P |-> 0]

JobGo(p, to) == jpc' = [jpc EXCEPT ![p] = to]
sigs == <<pend, caught, halted, disconnected>>
mon == <<cmdNum, pipe>>

Letters(prog) == CASE prog = "job_mon" -> {"s"} [] prog = "orphaned" -> {"s", "p"} [] OTHER -> {"d", "s"}

JobStart ==
    /\ jprog = "" /\ jprog' \in jcPrograms
    /\ letter' \in {l \in [P -> Letters(jprog')] : l[0] = "s"}
    /\ jcHandlers' = [jcHandlers EXCEPT ![0] = IF jprog' = "catch_SIGHUP" THEN {"HUP"}
                                               ELSE IF jprog' = "orphaned" THEN {"HUP", "CONT"} ELSE {}]
    /\ jpc' = IF jprog' = "job_mon" THEN [p \in P |-> "set"] ELSE [jpc EXCEPT ![0] = "fork"]
    /\ UNCHANGED <<group, sigs, mon>>

RunningJob(p) == jpc[p] \notin {"none", "dead"} /\ p \notin halted
Calm(p) == RunningJob(p) /\ pend[p] = {}

(* fork() of the next child: it inherits dispositions and group. *)
JobFork ==
    /\ jpc[0] = "fork" /\ Calm(0)
    /\ \E p \in 1..NumMembers : /\ jpc[p] = "none" /\ \A q \in 1..(p - 1) : jpc[q] # "none"
                                /\ jpc' = [jpc EXCEPT ![p] = "start",
                                                      ![0] = IF p = NumMembers \/ jprog = "catch_SIGHUP" THEN "wait" ELSE "fork"]
                                /\ jcHandlers' = [jcHandlers EXCEPT ![p] = jcHandlers[0]]
    /\ UNCHANGED <<jprog, letter, group, sigs, mon>>

(* setpgid(0, 0), if the argument says so. *)
MutMove(p) == /\ jpc[p] = "start" /\ Calm(p) /\ jprog # "orphaned" /\ jprog # "job_mon"
              /\ JobGo(p, "set") /\ UNCHANGED <<jprog, letter, group, jcHandlers, sigs, mon>>
Move(p) ==
    /\ jpc[p] = "start" /\ Calm(p) /\ jprog # "orphaned" /\ jprog # "job_mon"
    /\ group' = [group EXCEPT ![p] = IF letter[p] = "d" THEN p ELSE group[p]]
    /\ JobGo(p, "set") /\ UNCHANGED <<jprog, letter, jcHandlers, sigs, mon>>

JobSigaction(p) ==
    /\ jpc[p] = "set" /\ Calm(p)
    /\ jcHandlers' = [jcHandlers EXCEPT ![p] = IF jprog = "job_mon" THEN {"INT", "TSTP", "CONT"} ELSE {"HUP"}]
    /\ JobGo(p, IF jprog = "job_mon" THEN "read" ELSE "wait")
    /\ UNCHANGED <<jprog, letter, group, sigs, mon>>

(* job_mon: the first member reads from a terminal, the others from a pipe. *)
ReadNumber(p) ==
    /\ jpc[p] = "read" /\ Calm(p)
    /\ \/ /\ p = 0 \/ pipe[p] # 0
          /\ cmdNum' = [cmdNum EXCEPT ![p] = (IF p = 0 THEN 0 ELSE pipe[p]) + 1]
          /\ pipe' = IF p < NumMembers THEN [pipe EXCEPT ![p + 1] = cmdNum'[p]] ELSE pipe
          /\ JobGo(p, "wait")
       \/ p > 0 /\ pipe[p] = 0 /\ jpc[p - 1] = "dead" /\ JobGo(p, "dead") /\ UNCHANGED mon
    /\ UNCHANGED <<jprog, letter, group, jcHandlers, sigs>>

(* orphaned_pgrp_SIGHUP: the child stops itself or pauses. *)
StopOrPause(p) ==
    /\ jprog = "orphaned" /\ jpc[p] = "start" /\ Calm(p)
    /\ halted' = IF letter[p] = "s" THEN halted \cup {p} ELSE halted
    /\ JobGo(p, IF letter[p] = "s" THEN "stopped" ELSE "wait")
    /\ UNCHANGED <<jprog, letter, group, jcHandlers, pend, caught, disconnected, mon>>

Stopped(p) == /\ jpc[p] = "stopped" /\ Calm(p) /\ JobGo(p, "dead")          \* raise() returns, _exit()
              /\ UNCHANGED <<jprog, letter, group, jcHandlers, sigs, mon>>

---------------------------------------------------------------------------
Sent(S, sig) == [p \in P |-> IF p \in S /\ jpc[p] \notin {"none", "dead"} THEN pend[p] \cup sig ELSE pend[p]]

(* The terminal is disconnected: the controlling process gets SIGHUP. *)
DisconnectTerminal ==
            /\ jprog \in {"catch_SIGHUP", "disc_SIGHUP"} /\ RunningJob(0)
            /\ disconnected = {} /\ disconnected' = {p \in P : group[p] = 0 /\ jpc[p] # "none"}
            /\ pend' = IF jprog = "disc_SIGHUP" THEN Sent({0}, {"HUP"})
                       ELSE Sent({p \in P : group[p] = 0}, {"HUP"})             \* the shell has died of it
            /\ UNCHANGED <<jprog, letter, jpc, group, jcHandlers, caught, halted, mon>>

(* Somebody types Control-C or Control-Z. *)
Keyboard ==
    /\ jprog = "job_mon" /\ \E s \in {"INT", "TSTP"} : pend' = Sent({p \in P : caught[p] = {}}, {s}) /\ pend' # pend
    /\ UNCHANGED <<jprog, letter, jpc, group, jcHandlers, caught, halted, disconnected, mon>>

(* The end of a process: a controlling process passes SIGHUP on to the foreground
   group; a group that is orphaned with a stopped member gets SIGHUP and SIGCONT. *)
Ends(p) ==
    /\ JobGo(p, "dead")
    /\ LET fg == {q \in P \ {p} : group[q] = 0}
       IN  pend' = IF p = 0 /\ jprog = "disc_SIGHUP" THEN [Sent(fg, {"HUP"}) EXCEPT ![p] = {}]
                   ELSE IF p = 0 /\ jprog = "orphaned" /\ fg \cap halted # {}
                   THEN [Sent(fg, {"HUP", "CONT"}) EXCEPT ![p] = {}]
                   ELSE [pend EXCEPT ![p] = {}]

JobDeliver(p) == \E s \in pend[p] :
    /\ jpc[p] \notin {"none", "dead"} /\ (p \notin halted \/ s = "CONT")
    /\ \/ /\ s \in jcHandlers[p]
          /\ pend' = [pend EXCEPT ![p] = @ \ {s}] /\ caught' = [caught EXCEPT ![p] = @ \cup {s}]
          /\ halted' = IF s = "TSTP" THEN halted \cup {p} ELSE halted \ {p}
          /\ jpc' = IF jprog = "orphaned" /\ jpc[p] = "wait" /\ p # 0 THEN [jpc EXCEPT ![p] = "dead"] ELSE jpc
       \/ /\ s \notin jcHandlers[p] /\ s # "CONT"
          /\ IF s = "TSTP" THEN halted' = halted \cup {p} /\ pend' = [pend EXCEPT ![p] = @ \ {s}] /\ UNCHANGED jpc
             ELSE Ends(p) /\ UNCHANGED halted
          /\ UNCHANGED caught
    /\ UNCHANGED <<jprog, letter, group, jcHandlers, disconnected, mon>>

(* sleep(3) is over, or the alarm ends the process. *)
JobExit(p) ==
    /\ jpc[p] = "wait" /\ Calm(p) /\ (jprog = "orphaned" => p = 0) /\ jprog # "job_mon"
    /\ Ends(p)
    /\ disconnected' = IF jprog = "orphaned" THEN halted ELSE disconnected
    /\ UNCHANGED <<jprog, letter, group, jcHandlers, caught, halted, mon>>

---------------------------------------------------------------------------
(* The programs. *)
catch_SIGHUP == /\ jprog = "catch_SIGHUP"
                /\ JobFork \/ \E p \in P : Move(p) \/ JobSigaction(p) \/ JobExit(p)
disc_SIGHUP == /\ jprog = "disc_SIGHUP"
               /\ JobFork \/ \E p \in P : Move(p) \/ JobSigaction(p) \/ JobExit(p)
orphaned_pgrp_SIGHUP == /\ jprog = "orphaned"
                        /\ JobFork \/ \E p \in P : StopOrPause(p) \/ Stopped(p) \/ JobExit(p)
job_mon == jprog = "job_mon" /\ \E p \in P : JobSigaction(p) \/ ReadNumber(p)

JobNext == \/ JobStart \/ catch_SIGHUP \/ disc_SIGHUP \/ orphaned_pgrp_SIGHUP \/ job_mon
           \/ DisconnectTerminal \/ Keyboard \/ \E p \in P : JobDeliver(p)

---------------------------------------------------------------------------
(* Only processes that were in the foreground group when the terminal went get SIGHUP,
   however their own setpgid() and sigaction() interleave with it, and a child that moves
   to a group of its own before it installs its handler catches none; a child that had
   stopped itself before the parent left is continued; the members of a pipeline are
   numbered by their position (disc_SIGHUP.c:62, orphaned_pgrp_SIGHUP.c:24, job_mon.c:94). *)
GroupsRight ==
    /\ jprog = "catch_SIGHUP" => \A p \in P : "HUP" \in pend[p] \cup caught[p] => p \in disconnected
    /\ jprog = "disc_SIGHUP" => \A p \in P : "HUP" \in caught[p] => letter[p] = "s"
    /\ jprog = "orphaned" => \A p \in 1..NumMembers : ("HUP" \in caught[p] => jpc[0] = "dead")
    /\ jprog = "orphaned" => \A p \in 1..NumMembers : (p \in halted \cap disconnected => "CONT" \in pend[p])
    /\ \A p \in P : cmdNum[p] \in {0, p + 1}

----------------------------------------------------------------------------
(***************************************************************************)
(* The three parts side by side.                                           *)
(***************************************************************************)
ASSUME TermAssumption ==
    /\ Typed \in Nat /\ Written \in Nat /\ NumMembers \in Nat
    /\ ttyPrograms \subseteq {"cbreak", "raw", "no_echo", "handling_SIGTSTP"}
    /\ jcPrograms \subseteq {"catch_SIGHUP", "disc_SIGHUP", "orphaned", "job_mon"}

TerminalsInit == TtyInit /\ PtyInit /\ JobInit
TerminalsNext == \/ TtyNext /\ UNCHANGED <<ptyVars, jcVars>>
                 \/ PtyNext /\ UNCHANGED <<ttyVars, jcVars>>
                 \/ JobNext /\ UNCHANGED <<ttyVars, ptyVars>>
TerminalsSpec == TerminalsInit /\ [][TerminalsNext]_<<ttyVars, ptyVars, jcVars>>

(* The programs that change a terminal give it back whenever they stop or end (tty/,
   pgsjc/), what is typed and written crosses the pseudo-terminal complete and in order
   (pty/), and the signals of job control reach the process groups they are meant for
   (pgsjc/). *)
TerminalsRight == TtyGivenBack /\ HandlerBack /\ Relayed /\ PtyCleanUp /\ GroupsRight
=============================================================================
