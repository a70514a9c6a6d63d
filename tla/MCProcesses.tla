------------------------------- MODULE MCProcesses -------------------------------
(***************************************************************************)
(* The programs of processes, signals, timers, terminals and namespaces,   *)
(* one at a time: the variable running says which one, and the variables   *)
(* of the others keep their initial values. SigPingPong, SeccompNotify,    *)
(* Children and Terminals are extended, the others are instances.          *)
(***************************************************************************)
EXTENDS SigPingPong, SeccompNotify, Children, Terminals, TLC

CONSTANTS Checked, Arguments, MaxChain, MaxThreads, Lists, MAX_OPT,
          Levels, sigPrograms, MaxSend, SleepTime, Granule, MaxAway, fkPrograms, NKids, BUF_SIZE, NumTimers, MaxExpire

VARIABLES running,
          tmProgram, tmPc, handled, tmBlocked, armed, expired, queued, overrun, getoverrun,
          accepting, shown, starting, signalling, expireCnt, unprinted, overlap,
          opts, privileged, upc, ucpc, wrEnd, written, caps, uid, nextOpt,
          clprog, clpc, chpc, flags, attr, report, level, clProc, mounted,
          pargs, thr, father, tnum, marked, born, child, pdPending, pdCnt, deaths,
          sprog, spc, smask, susp, frames, sigPend, disp, glob, timer, clock, sent, status,
          fkprog, proc, kern

tmVars == <<tmProgram, tmPc, handled, tmBlocked, armed, expired, queued, overrun, getoverrun,
            accepting, shown, starting, signalling, expireCnt, unprinted, overlap>>
unVars == <<opts, privileged, upc, ucpc, wrEnd, written, caps, uid, nextOpt>>
clVars == <<clprog, clpc, chpc, flags, attr, report, level, clProc, mounted>>
pdVars == <<pargs, thr, father, tnum, marked, born, child, pdPending, pdCnt, deaths>>
sigVars == <<sprog, spc, smask, susp, frames, sigPend, disp, glob, timer, clock, sent, status>>
fkVars == <<fkprog, proc, kern>>
allVars == <<running, vars, tmVars, ttyVars, ptyVars, jcVars, chVars, unVars, clVars, pdVars,
             noVars, sigVars, fkVars>>

\* Command lines of pdeath_signal.c: up to two ancestors, with subreapers (@)
\* and additional threads (+), which may be marked as the parent of the next.
Anc(a, p) == [at |-> a, plus |-> p]
MCArguments ==
    {<<>>, <<Anc(TRUE, <<FALSE, TRUE>>)>>, <<Anc(TRUE, <<FALSE, FALSE>>), Anc(FALSE, <<TRUE>>)>>,
     <<Anc(TRUE, <<FALSE>>), Anc(TRUE, <<FALSE, TRUE>>)>>, <<Anc(FALSE, <<TRUE, TRUE>>)>>,
     <<Anc(FALSE, <<FALSE, TRUE>>), Anc(FALSE, <<TRUE, TRUE>>)>>}

\* Command lines of seccomp_user_notification.c.
MCPathLists == {<<"tmp", "other">>, <<"other", "tmp">>, <<"bye", "tmp">>, <<"tmp", "tmp">>}

\* Repeated options of userns_child_exec.c: one of each kind, pairs in which the
\* order matters, and one more than fit.
MCLists == {<<>>, <<<<"h">>>>, <<<<"a">>>>, <<<<"S">>>>, <<<<"d">>>>,
            <<<<"X", "-", "p">>, <<"X", "+", "e">>>>, <<<<"X", "+", "i">>, <<"X", "+", "a">>>>,
            <<<<"b">>, <<"X", "-", "b">>>>, <<<<"s">>, <<"X", "-", "e">>>>,
            <<<<"X", "-", "e">>, <<"s">>>>, <<<<"x", {"p"}>>>>, <<<<"x", {"i"}>>, <<"x", {"p", "e"}>>>>,
            <<<<"d">>, <<"w">>, <<"d">>>>}

Tm == INSTANCE Ptmr WITH program <- tmProgram, pc <- tmPc, blocked <- tmBlocked,
                         Programs <- {"handler", "sigwaitinfo", "thread"}
Nm == INSTANCE Namespaces
Sg == INSTANCE Signals WITH pend <- sigPend
Fk == INSTANCE Forks

FInit == /\ running \in Checked /\ Init /\ Tm!Init /\ TerminalsInit /\ ChildrenInit
         /\ Nm!UsernsInit /\ Nm!CloneInit /\ Nm!PdeathInit /\ NotifyInit /\ Sg!Init /\ Fk!Init
         /\ running # "sig_ping_pong" => program = "sync"
         /\ running # "ptmr" => tmProgram = "handler"

PingPong == /\ running = "sig_ping_pong" /\ Next
            /\ UNCHANGED <<running, tmVars, ttyVars, ptyVars, jcVars, chVars, unVars, clVars,
                          pdVars, noVars, sigVars, fkVars>>
Timing == /\ running = "ptmr" /\ Tm!Next
          /\ UNCHANGED <<running, vars, ttyVars, ptyVars, jcVars, chVars, unVars, clVars,
                        pdVars, noVars, sigVars, fkVars>>
TerminalModes == /\ running = "tty" /\ TtyNext
                 /\ UNCHANGED <<running, vars, tmVars, ptyVars, jcVars, chVars, unVars, clVars,
                               pdVars, noVars, sigVars, fkVars>>
PseudoTerminals == /\ running = "pty" /\ PtyNext
                   /\ UNCHANGED <<running, vars, tmVars, ttyVars, jcVars, chVars, unVars,
                                 clVars, pdVars, noVars, sigVars, fkVars>>
Jobs == /\ running = "job_control" /\ JobNext
        /\ UNCHANGED <<running, vars, tmVars, ttyVars, ptyVars, chVars, unVars, clVars, pdVars,
                      noVars, sigVars, fkVars>>
Waiting == /\ running = "children" /\ ChildrenNext
           /\ UNCHANGED <<running, vars, tmVars, ttyVars, ptyVars, jcVars, unVars, clVars,
                         pdVars, noVars, sigVars, fkVars>>
UserNamespace == /\ running = "userns" /\ Nm!UsernsNext
                 /\ UNCHANGED <<running, vars, tmVars, ttyVars, ptyVars, jcVars, chVars, clVars,
                               pdVars, noVars, sigVars, fkVars>>
Cloning == /\ running = "clone" /\ Nm!CloneNext
           /\ UNCHANGED <<running, vars, tmVars, ttyVars, ptyVars, jcVars, chVars, unVars,
                         pdVars, noVars, sigVars, fkVars>>
ParentDeath == /\ running = "pdeath" /\ Nm!PdeathNext
               /\ UNCHANGED <<running, vars, tmVars, ttyVars, ptyVars, jcVars, chVars, unVars,
                             clVars, noVars, sigVars, fkVars>>
Notifying == /\ running = "seccomp_notify" /\ NotifyNext
             /\ UNCHANGED <<running, vars, tmVars, ttyVars, ptyVars, jcVars, chVars, unVars,
                           clVars, pdVars, sigVars, fkVars>>
Signalling == /\ running = "signals" /\ Sg!Next
              /\ UNCHANGED <<running, vars, tmVars, ttyVars, ptyVars, jcVars, chVars, unVars,
                            clVars, pdVars, noVars, fkVars>>
Forking == /\ running = "forks" /\ Fk!Next
           /\ UNCHANGED <<running, vars, tmVars, ttyVars, ptyVars, jcVars, chVars, unVars,
                         clVars, pdVars, noVars, sigVars>>

FNext == PingPong \/ Timing \/ TerminalModes \/ PseudoTerminals \/ Jobs \/ Waiting
         \/ UserNamespace \/ Cloning \/ ParentDeath \/ Notifying \/ Signalling \/ Forking

FSpec == /\ FInit /\ [][FNext]_allVars
         /\ WF_vars(running = "sig_ping_pong" /\ Parent)
         /\ WF_vars(running = "sig_ping_pong" /\ Child)
         /\ WF_tmVars(running = "ptmr" /\ Tm!Process)
         /\ WF_tmVars(running = "ptmr" /\ Tm!NotifyThread)
         /\ \A t \in Tm!Timers : SF_tmVars(running = "ptmr" /\ Tm!Accept(t))

----------------------------------------------------------------------------
\* A process in new namespaces executes its command with the identity and the
\* capabilities its options ask for (namespaces/), the flags of clone() decide
\* what is shared (procexec/), and the death of a parent is told to the child
\* each time it gets another (pdeath_signal.c).
NamespacesRight == Nm!MapsKeepCaps /\ Nm!CloneRight /\ Nm!ChainRight

\* userns_child_exec.c:540-542, of the maps and execve().
MapsBeforeExec == Nm!MapsBeforeExec

\* The programs of signals/ and timers/ block, catch and see exactly the signals
\* they mean to, and no expiration of a timer is lost, shown or counted twice,
\* nor counted without telling main().
SignalsRight == /\ Sg!MasksRight /\ Sg!SignalsSeen
                /\ Tm!Accounted /\ Tm!Counted /\ Tm!MainTold

\* The programs of pipes/ and procexec/ transfer all they were given in the order
\* they promise, and no process waits for an end of file that cannot come.
ForksRight == Fk!NoHang /\ Fk!ForksRight

\* Both sides of a signal ping-pong finish unless one of them dies, and every
\* expiration of a timer is shown unless its program ends first; main() of
\* ptmr_sigev_thread.c prints every count reached while it waits.
SignalsArrive == /\ running = "sig_ping_pong" => BothFinish
                 /\ running = "ptmr" => Tm!AllShown /\ Tm!CountPrinted
=============================================================================
