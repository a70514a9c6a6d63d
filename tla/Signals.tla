------------------------------ MODULE Signals ------------------------------
(***************************************************************************)
(* The single-process programs of signals/, timers/ and daemons/ and their *)
(* rewrites under exercises/20, 22 and 23.  A program is the list of the   *)
(* calls its main() makes, in order, with what its handler does; the       *)
(* kernel that runs it (pending signals, masks, dispositions, frames,      *)
(* timers) is modelled once, from how the programs use it.  Signals come   *)
(* from outside at any moment; a pending signal that is not blocked is     *)
(* delivered before the next instruction, the lowest number first, as      *)
(* Linux does.                                                             *)
(***************************************************************************)
EXTENDS Integers, Sequences, FiniteSetsExt

CONSTANTS sigPrograms,  \* the programs of this instance
          MaxSend,      \* bound: signals sent from outside
          SleepTime,    \* the time the sleeping programs are asked to sleep
          Granule,      \* the granularity of the software clock
          MaxAway       \* bound: the time these programs spend outside their sleep

SIGHUP == 1
SIGINT == 2
SIGQUIT == 3
SIGFPE == 8
SIGUSR1 == 10
SIGUSR2 == 12
SIGALRM == 14
SIGTERM == 15
SIGCONT == 18
SIGRTMIN == 34
Signos == {SIGHUP, SIGINT, SIGQUIT, SIGFPE, SIGUSR1, SIGUSR2, SIGALRM, SIGTERM, SIGCONT,
           SIGRTMIN, SIGRTMIN + 1}
Queued(sig) == sig >= SIGRTMIN

VARIABLES sprog,   \* the program
          spc,     \* the next call of its main()
          smask,   \* its signal mask
          susp,    \* <<the mask to put back>> while in sigsuspend()
          frames,  \* the handlers running, the innermost first
          pend,    \* pending signals, with their number
          disp,    \* dispositions
          glob,    \* the program's variables
          timer,   \* "off", "once" or "interval"
          clock,
          sent,    \* signals sent from outside
          status   \* "run", "exited" or "killed"

sigVars == <<sprog, spc, smask, susp, frames, pend, disp, glob, timer, clock, sent, status>>

----------------------------------------------------------------------------
(* The calls.                                                              *)

Caught(mask, flags) == [to |-> "handler", mask |-> mask, flags |-> flags]
SIG_DFL == [to |-> "default", mask |-> {}, flags |-> {}]
SIG_IGN == [to |-> "ignore", mask |-> {}, flags |-> {}]

Sigaction(sigs, act) == [op |-> "sigaction", sigs |-> sigs, act |-> act]
SetMask(sigs) == [op |-> "setmask", sigs |-> sigs]
Block(sigs) == [op |-> "block", sigs |-> sigs]
Suspend(sigs) == [op |-> "suspend", sigs |-> sigs]
Pause == [op |-> "pause"]
Work == [op |-> "work"]
Raise(sig) == [op |-> "raise", sig |-> sig]
Sigwait(sigs) == [op |-> "sigwait", sigs |-> sigs]
When(flag, to) == [op |-> "when", flag |-> flag, to |-> to]
Set(flag, value) == [op |-> "set", flag |-> flag, value |-> value]
Goto(to) == [op |-> "goto", to |-> to]
Setjmp(to, savemask) == [op |-> "setjmp", to |-> to, savemask |-> savemask]
Arm(kind) == [op |-> "arm", kind |-> kind]
ReadInput == [op |-> "read"]
Fault == [op |-> "fault"]
GetTime == [op |-> "gettime"]
Sleep(abs) == [op |-> "sleep", abs |-> abs]
CountTo(n, to) == [op |-> "count", n |-> n, to |-> to]
ReadConfig == [op |-> "config"]
Exit == [op |-> "exit"]

(* A handler: the signals that set the program's flag, the ones it counts, *)
(* the ones on which it ends the program, whether it jumps, and whether it *)
(* sets the flag only after a sleep.                                       *)
Handler(flag, count) ==
    [flag |-> flag, count |-> count, exits |-> {}, jumps |-> FALSE, late |-> FALSE]

Program(handler, sends, calls) == [handler |-> handler, sends |-> sends, calls |-> calls]

----------------------------------------------------------------------------
(* The programs.                                                           *)

(* signals/t_sigsuspend.c: the handler flags SIGQUIT and counts both.      *)
sigsuspendHandler == Handler({SIGQUIT}, {SIGINT, SIGQUIT})

t_sigsuspend ==
    Program(sigsuspendHandler, {SIGINT, SIGQUIT},
            <<Block({SIGINT, SIGQUIT}), Sigaction({SIGINT, SIGQUIT}, Caught({}, {})),
              When("got", 7), Work, Suspend({}), Goto(3), SetMask({}), Exit>>)

(* The same compiled with USE_PAUSE.                                       *)
t_sigsuspend_pause ==
    Program(sigsuspendHandler, {SIGINT, SIGQUIT},
            <<Block({SIGINT, SIGQUIT}), Sigaction({SIGINT, SIGQUIT}, Caught({}, {})),
              When("got", 8), Work, SetMask({}), Pause, Goto(3), SetMask({}), Exit>>)

(* signals/sig_receiver.c with a block time, fed by sig_sender.c; and      *)
(* exercises/20 sigaction.c.                                               *)
receiverHandler == Handler({SIGINT}, Signos \ {SIGINT})

sig_receiver ==
    Program(receiverHandler, {SIGINT, SIGUSR1},
            <<Sigaction(Signos, Caught({}, {"SA_RESTART"})), SetMask(Signos), Work, SetMask({}),
              When("got", 7), Goto(5), Exit>>)

sigaction_ex ==
    Program(receiverHandler, {SIGINT, SIGUSR1},
            <<Sigaction(Signos, Caught({}, {})), When("got", 4), Goto(2), Exit>>)

(* signals/sigmask_longjmp.c, plain and with USE_SIGSETJMP.                *)
jumpHandler == [Handler({}, {SIGINT}) EXCEPT !.jumps = TRUE]

sigmask_longjmp(savemask) ==
    Program(jumpHandler, {SIGINT},
            <<Sigaction({SIGINT}, Caught({}, {})), Setjmp(4, savemask), Set("canJump", TRUE),
              Pause, Goto(4)>>)

(* signals/catch_rtsigs.c, with a block time.                              *)
siginfoHandler == Handler({SIGINT, SIGTERM}, Signos \ {SIGINT, SIGTERM})

Mutcatch_rtsigs ==                          \* sa_mask is left empty
    Program(siginfoHandler, {SIGINT, SIGTERM, SIGRTMIN},
            <<Sigaction(Signos \ {SIGQUIT}, Caught({}, {})), SetMask(Signos \ {SIGINT, SIGTERM}),
              Work, SetMask({}), When("got", 8), Pause, Goto(5), Exit>>)
catch_rtsigs ==
    Program(siginfoHandler, {SIGINT, SIGTERM, SIGRTMIN},
            <<Sigaction(Signos \ {SIGQUIT}, Caught(Signos, {})), SetMask(Signos \ {SIGINT, SIGTERM}),
              Work, SetMask({}), When("got", 8), Pause, Goto(5), Exit>>)

(* signals/ignore_pending_sig.c and exercises/20 sig_ign.c.                *)
ignore_pending_sig ==
    Program(Handler({}, {SIGINT}), {SIGINT},
            <<Sigaction({SIGINT}, Caught({}, {})), SetMask({SIGINT}), Work,
              Sigaction({SIGINT}, SIG_IGN), Work, Sigaction({SIGINT}, Caught({}, {})), Work,
              SetMask({}), Exit>>)

sig_ign ==
    Program(Handler({}, {SIGUSR1}), {},
            <<SetMask(Signos), Raise(SIGUSR1), Sigaction({SIGUSR1}, Caught({}, {})),
              Sigaction({SIGUSR1}, SIG_IGN), Raise(SIGUSR1), Sigaction({SIGUSR1}, SIG_IGN),
              SetMask({}), Exit>>)

(* signals/signalfd_sigval.c and t_sigwaitinfo.c: signals taken by a call. *)
signalfd_sigval ==
    Program(Handler({}, {}), {SIGINT, SIGRTMIN},
            <<Block({SIGINT, SIGRTMIN}), Sigwait({SIGINT, SIGRTMIN}), Goto(2)>>)

t_sigwaitinfo ==
    Program(Handler({SIGINT, SIGTERM}, {}), {SIGINT, SIGRTMIN},
            <<SetMask(Signos), Work, Sigwait(Signos), When("got", 6), Goto(3), Exit>>)

(* signals/intquit.c and ouch.c.                                           *)
intquit ==
    Program([Handler({}, {SIGINT}) EXCEPT !.exits = {SIGQUIT}], {SIGINT, SIGQUIT},
            <<Sigaction({SIGINT}, Caught({}, {"SA_RESTART"})),
              Sigaction({SIGQUIT}, Caught({}, {"SA_RESTART"})), Pause, Goto(3)>>)

ouch ==
    Program(Handler({}, {SIGINT}), {SIGINT},
            <<Sigaction({SIGINT}, Caught({}, {"SA_RESTART"})), Work, Goto(2)>>)

(* exercises/20: SA_NODEFER, with a slow handler that clears shouldCont    *)
(* last, and SA_RESETHAND.                                                 *)
sigaction_nodefer ==
    Program([Handler({SIGINT}, {SIGINT}) EXCEPT !.late = TRUE], {SIGINT},
            <<Sigaction({SIGINT}, Caught({}, {"SA_NODEFER"})), When("got", 4), Goto(2), Exit>>)

sigaction_resethand ==
    Program(Handler({}, {SIGINT}), {SIGINT},
            <<Sigaction({SIGINT}, Caught({}, {"SA_RESETHAND"})), Work, Goto(2)>>)

(* exercises/22 sig-order.c and sigcont.c (the six rounds before the       *)
(* unblocking shortened to one).                                           *)
sig_order ==
    Program(Handler({}, Signos), {},
            <<Sigaction(Signos, Caught({}, {})), SetMask(Signos), Raise(SIGINT), Raise(SIGRTMIN),
              Raise(SIGRTMIN), Raise(SIGRTMIN + 1), Raise(SIGUSR2), Work, SetMask({}), Exit>>)

sigcont ==
    Program(Handler({}, {SIGCONT}), {SIGCONT},
            <<Sigaction({SIGCONT}, Caught({}, {})), Block({SIGCONT}), Work, SetMask({}), Work, Exit>>)

(* signals/demo_SIGFPE.c with the letters i and b of its option string.    *)
demo_SIGFPE(ignored, blocking) ==
    Program(Handler({}, {}), {},
            <<Sigaction({SIGFPE}, IF ignored THEN SIG_IGN ELSE Caught({}, {"SA_RESTART"})),
              IF blocking THEN Block({SIGFPE}) ELSE Work, Fault, SetMask({}), Exit>>)

(* timers/timed_read.c, with and without its restart flag.                 *)
timed_read(flags) ==
    Program(Handler({}, {SIGALRM}), {},
            <<Sigaction({SIGALRM}, Caught({}, flags)), Arm("once"), ReadInput, Arm("off"), Exit>>)

(* timers/real_timer.c with an interval: three signals, then out.          *)
real_timer ==
    Program(Handler({SIGALRM}, {}), {},
            <<Sigaction({SIGALRM}, Caught({}, {})), Arm("interval"), When("got", 5), Goto(3),
              Set("got", FALSE), CountTo(3, 8), Goto(3), Exit>>)

(* exercises/23 alarm.c (SIGALRM is left at its default) and               *)
(* timer-create.c.                                                         *)
alarm_ex == Program(Handler({}, {}), {}, <<Arm("once"), Work, Goto(2)>>)

timer_create_ex ==
    Program(Handler({}, {SIGALRM}), {},
            <<Sigaction({SIGALRM}, Caught({}, {})), Arm("interval"), Pause, Exit>>)

(* timers/t_nanosleep.c, t_clock_nanosleep.c (relative or TIMER_ABSTIME)   *)
(* and exercises/23 clock_nanosleep.c: read the clock and sleep, again     *)
(* until the sleep completes.                                              *)
t_nanosleep(abs) ==
    Program(Handler({}, {}), {SIGINT},
            <<Sigaction({SIGINT}, Caught({}, {})), GetTime, Sleep(abs), Exit>>)
t_clock_nanosleep(abs) == t_nanosleep(abs)
clock_nanosleep == t_nanosleep(TRUE)

(* daemons/daemon_SIGHUP.c, with its log and its configuration file reread *)
(* when SIGHUP has been seen.                                              *)
Mutdaemon_SIGHUP ==
    Program(Handler({SIGHUP}, {}), {SIGHUP},
            <<Sigaction({SIGHUP}, Caught({}, {"SA_RESTART"})), ReadConfig, Work, When("got", 6), Goto(3),
              ReadConfig, Set("got", FALSE), Goto(3)>>)
daemon_SIGHUP ==
    Program(Handler({SIGHUP}, {}), {SIGHUP},
            <<Sigaction({SIGHUP}, Caught({}, {"SA_RESTART"})), ReadConfig, Work, When("got", 6), Goto(3),
              Set("got", FALSE), ReadConfig, Goto(3)>>)

Prog ==
    CASE sprog = "t_sigsuspend" -> t_sigsuspend
      [] sprog = "t_sigsuspend_pause" -> t_sigsuspend_pause
      [] sprog = "sig_receiver" -> sig_receiver
      [] sprog = "sigaction" -> sigaction_ex
      [] sprog = "longjmp" -> sigmask_longjmp(FALSE)
      [] sprog = "siglongjmp" -> sigmask_longjmp(TRUE)
      [] sprog = "catch_rtsigs" -> catch_rtsigs
      [] sprog = "ignore_pending_sig" -> ignore_pending_sig
      [] sprog = "sig_ign" -> sig_ign
      [] sprog = "signalfd_sigval" -> signalfd_sigval
      [] sprog = "t_sigwaitinfo" -> t_sigwaitinfo
      [] sprog = "intquit" -> intquit
      [] sprog = "ouch" -> ouch
      [] sprog = "sigaction_nodefer" -> sigaction_nodefer
      [] sprog = "sigaction_resethand" -> sigaction_resethand
      [] sprog = "sig_order" -> sig_order
      [] sprog = "sigcont" -> sigcont
      [] sprog = "SIGFPE" -> demo_SIGFPE(FALSE, FALSE)
      [] sprog = "SIGFPE_i" -> demo_SIGFPE(TRUE, FALSE)
      [] sprog = "SIGFPE_b" -> demo_SIGFPE(FALSE, TRUE)
      [] sprog = "timed_read" -> timed_read({})
      [] sprog = "timed_read_restart" -> timed_read({"SA_RESTART"})
      [] sprog = "real_timer" -> real_timer
      [] sprog = "alarm" -> alarm_ex
      [] sprog = "timer_create" -> timer_create_ex
      [] sprog = "t_nanosleep" -> t_nanosleep(FALSE)
      [] sprog = "t_clock_nanosleep" -> t_clock_nanosleep(FALSE)
      [] sprog = "t_clock_nanosleep_a" -> t_clock_nanosleep(TRUE)
      [] sprog = "clock_nanosleep" -> clock_nanosleep
      [] sprog = "daemon_SIGHUP" -> daemon_SIGHUP

Call == Prog.calls[spc]

----------------------------------------------------------------------------
(* The kernel.                                                             *)

Init ==
    /\ sprog = "none" /\ spc = 1 /\ smask = {} /\ susp = <<>> /\ frames = <<>>
    /\ pend = [s \in Signos |-> 0]
    /\ disp = [s \in Signos |-> SIG_DFL]
    /\ glob = [got |-> FALSE, canJump |-> FALSE, env |-> [pc |-> 0, mask |-> {}],
               cnt |-> [s \in Signos |-> 0], first |-> 0, num |-> 0, conf |-> 0, known |-> 0,
               jumped |-> FALSE, early |-> FALSE, dropped |-> 0,
               start |-> 0, request |-> SleepTime, began |-> 0, end |-> 0, woke |-> 0,
               restarts |-> 0, away |-> 0]
    /\ timer = "off" /\ clock = 0 /\ sent = 0
    /\ status = "new"

Start(p) ==
    /\ status = "new"
    /\ sprog' = p
    /\ status' = "run"
    /\ UNCHANGED <<spc, smask, susp, frames, pend, disp, glob, timer, clock, sent>>

(* Making a signal pending: a standard signal is pending once, and one     *)
(* that is ignored is dropped unless it is blocked.                        *)
Pending(p, sig) ==
    IF disp[sig].to = "ignore" /\ sig \notin smask THEN p
    ELSE IF Queued(sig) THEN [p EXCEPT ![sig] = @ + 1] ELSE [p EXCEPT ![sig] = 1]

Deliverable == {s \in Signos \ smask : pend[s] > 0}

(* Another process sends a signal; the administrator of daemon_SIGHUP has  *)
(* changed the configuration file before.                                  *)
Send(sig) ==
    /\ status = "run" /\ sig \in Prog.sends /\ sent < MaxSend
    /\ sent' = sent + 1
    /\ pend' = Pending(pend, sig)
    /\ glob' = [glob EXCEPT !.conf = IF sig = SIGHUP THEN @ + 1 ELSE @]
    /\ UNCHANGED <<sprog, spc, smask, susp, frames, disp, timer, clock, status>>

Expire ==
    /\ status = "run" /\ timer # "off" /\ sent < MaxSend
    /\ sent' = sent + 1
    /\ pend' = Pending(pend, SIGALRM)
    /\ timer' = IF timer = "once" THEN "off" ELSE timer
    /\ UNCHANGED <<sprog, spc, smask, susp, frames, disp, glob, clock, status>>

(* Time passes in a sleep, which ends at a tick of the software clock, and *)
(* while the program handles a signal or is between two calls.             *)
RoundUp(t) == ((t + Granule - 1) \div Granule) * Granule
Sleepers == {"t_nanosleep", "t_clock_nanosleep", "t_clock_nanosleep_a", "clock_nanosleep"}

Tick ==
    /\ status = "run" /\ sprog \in Sleepers
    /\ clock' = clock + 1
    /\ \/ clock < glob.end /\ UNCHANGED glob
       \/ glob.end = 0 /\ glob.away < MaxAway /\ glob' = [glob EXCEPT !.away = @ + 1]
    /\ UNCHANGED <<sprog, spc, smask, susp, frames, pend, disp, timer, sent, status>>

(* The calls a signal ends: sigsuspend() and pause() always, read() unless *)
(* SA_RESTART; a sleep returns what is left of it.                         *)
Interrupts(sig) ==
    /\ frames = <<>>
    /\ \/ Call.op = "pause" \/ susp # <<>>
       \/ Call.op = "read" /\ "SA_RESTART" \notin disp[sig].flags

(* A relative sleep goes on with the remaining time, an absolute one with  *)
(* the same request.                                                       *)
Resleeps == frames = <<>> /\ Call.op = "sleep" /\ glob.end > 0

Deliver(sig) ==
    /\ status = "run" /\ sig \in Deliverable /\ sig = Min(Deliverable)
    /\ pend' = [pend EXCEPT ![sig] = @ - 1]
    /\ IF disp[sig].to = "handler"
       THEN /\ frames' = <<[sig |-> sig, at |-> "entry",
                            mask |-> IF susp = <<>> THEN smask ELSE Head(susp)]>> \o frames
            /\ smask' = (smask \cup disp[sig].mask)
                            \cup (IF "SA_NODEFER" \in disp[sig].flags THEN {} ELSE {sig})
            /\ disp' = IF "SA_RESETHAND" \in disp[sig].flags
                       THEN [disp EXCEPT ![sig] = SIG_DFL] ELSE disp
            /\ susp' = <<>>
            /\ spc' = IF Interrupts(sig) THEN spc + 1 ELSE spc
            /\ glob' = [glob EXCEPT
                          !.early = @ \/ (sig = SIGALRM /\ frames = <<>> /\ Call.op # "read"),
                          !.request = IF Resleeps /\ ~Call.abs THEN glob.end - clock ELSE @,
                          !.end = IF Resleeps THEN 0 ELSE @,
                          !.restarts = IF Resleeps THEN @ + 1 ELSE @]
            /\ UNCHANGED status
       ELSE /\ status' = IF disp[sig].to = "default" /\ sig # SIGCONT THEN "killed" ELSE status
            /\ UNCHANGED <<frames, smask, disp, susp, spc, glob>>
    /\ UNCHANGED <<sprog, timer, clock, sent>>

Ready == status = "run" /\ Deliverable = {}

(* The handler's instructions.                                             *)
Counted(g, sig) ==
    LET h == Prog.handler IN
    [g EXCEPT !.got = @ \/ (sig \in h.flag /\ ~h.late),
              !.cnt[sig] = IF sig \in h.count THEN @ + 1 ELSE @,
              !.first = IF @ # 0 THEN @ ELSE IF Queued(sig) THEN 2 ELSE 1]

HandlerBody ==
    /\ Ready /\ frames # <<>> /\ Head(frames).at = "entry"
    /\ LET sig == Head(frames).sig IN
       IF sig \in Prog.handler.exits
       THEN /\ status' = "exited"
            /\ UNCHANGED <<frames, smask, glob, spc>>
       ELSE IF Prog.handler.jumps /\ glob.canJump
       THEN /\ frames' = <<>>
            /\ spc' = glob.env.pc
            /\ smask' = IF Prog.calls[2].savemask THEN glob.env.mask ELSE smask
            /\ glob' = [Counted(glob, sig) EXCEPT !.jumped = TRUE]
            /\ UNCHANGED status
       ELSE /\ frames' = <<[Head(frames) EXCEPT !.at = "return"]>> \o Tail(frames)
            /\ glob' = Counted(glob, sig)
            /\ UNCHANGED <<smask, spc, status>>
    /\ UNCHANGED <<sprog, susp, pend, disp, timer, clock, sent>>

HandlerReturn ==
    /\ Ready /\ frames # <<>> /\ Head(frames).at = "return"
    /\ smask' = Head(frames).mask
    /\ glob' = [glob EXCEPT !.got = @ \/ Head(frames).sig \in Prog.handler.flag]
    /\ frames' = Tail(frames)
    /\ UNCHANGED <<sprog, spc, susp, pend, disp, timer, clock, sent, status>>

----------------------------------------------------------------------------
(* The calls of main().                                                    *)

Next1 == spc' = spc + 1
Running(op) == Ready /\ frames = <<>> /\ susp = <<>> /\ Call.op = op

(* sigaction(): ignoring a signal discards it where it is pending.         *)
DoSigaction ==
    /\ Running("sigaction") /\ Next1
    /\ disp' = [s \in Signos |-> IF s \in Call.sigs THEN Call.act ELSE disp[s]]
    /\ pend' = [s \in Signos |-> IF s \in Call.sigs /\ Call.act.to = "ignore" THEN 0 ELSE pend[s]]
    /\ glob' = [glob EXCEPT !.dropped = @ + pend[SIGINT] - pend'[SIGINT]]
    /\ UNCHANGED <<sprog, smask, susp, frames, timer, clock, sent, status>>

DoMask ==
    /\ \/ Running("setmask") /\ smask' = Call.sigs
       \/ Running("block") /\ smask' = smask \cup Call.sigs
    /\ Next1
    /\ UNCHANGED <<sprog, susp, frames, pend, disp, glob, timer, clock, sent, status>>

DoSuspend ==
    /\ Running("suspend")
    /\ susp' = <<smask>>
    /\ smask' = Call.sigs
    /\ UNCHANGED <<sprog, spc, frames, pend, disp, glob, timer, clock, sent, status>>

DoRaise ==
    /\ Running("raise") /\ Next1
    /\ pend' = Pending(pend, Call.sig)
    /\ UNCHANGED <<sprog, smask, susp, frames, disp, glob, timer, clock, sent, status>>

(* sigwaitinfo() or a read() of the signalfd takes the lowest signal.      *)
DoSigwait ==
    /\ Running("sigwait") /\ Next1
    /\ LET waiting == {s \in Call.sigs : pend[s] > 0} IN
       /\ waiting # {}
       /\ pend' = [pend EXCEPT ![Min(waiting)] = @ - 1]
       /\ glob' = [glob EXCEPT !.got = @ \/ Min(waiting) \in Prog.handler.flag,
                               !.cnt[Min(waiting)] = @ + 1]
    /\ UNCHANGED <<sprog, smask, susp, frames, disp, timer, clock, sent, status>>

(* Steps that change the program's own variables, or only take time; a     *)
(* sleep sets its end when it starts and is over then.                     *)
DoCompute ==
    /\ \/ Running("work") /\ Next1 /\ UNCHANGED <<glob, timer>>
       \/ Running("goto") /\ spc' = Call.to /\ UNCHANGED <<glob, timer>>
       \/ /\ Running("when")
          /\ spc' = IF glob[Call.flag] THEN Call.to ELSE spc + 1
          /\ UNCHANGED <<glob, timer>>
       \/ Running("set") /\ Next1 /\ glob' = [glob EXCEPT ![Call.flag] = Call.value] /\ UNCHANGED timer
       \/ /\ Running("setjmp") /\ Next1
          /\ glob' = [glob EXCEPT !.env = [pc |-> Call.to, mask |-> smask]]
          /\ UNCHANGED timer
       \/ Running("arm") /\ Next1 /\ timer' = Call.kind /\ UNCHANGED glob
       \/ Running("read") /\ Next1 /\ UNCHANGED <<glob, timer>>
       \/ /\ Running("count")
          /\ glob' = [glob EXCEPT !.num = @ + 1]
          /\ spc' = IF glob.num + 1 >= Call.n THEN Call.to ELSE spc + 1
          /\ UNCHANGED timer
       \/ Running("config") /\ Next1 /\ glob' = [glob EXCEPT !.known = glob.conf] /\ UNCHANGED timer
       \/ Running("gettime") /\ Next1 /\ glob' = [glob EXCEPT !.start = clock] /\ UNCHANGED timer
       \/ /\ Running("sleep") /\ glob.end = 0 /\ UNCHANGED <<spc, timer>>
          /\ glob' = [glob EXCEPT !.began = clock,
                         !.end = RoundUp(glob.request + IF Call.abs THEN glob.start ELSE clock)]
       \/ /\ Running("sleep") /\ glob.end > 0 /\ clock >= glob.end /\ Next1 /\ UNCHANGED timer
          /\ glob' = [glob EXCEPT !.woke = clock, !.end = 0]
    /\ UNCHANGED <<sprog, smask, susp, frames, pend, disp, clock, sent, status>>

(* The division by zero: with SIGFPE ignored or blocked Linux kills the    *)
(* process; otherwise the handler runs, and the division is tried again.   *)
DoFault ==
    /\ Running("fault")
    /\ IF SIGFPE \in smask \/ disp[SIGFPE].to # "handler"
       THEN status' = "killed" /\ UNCHANGED pend
       ELSE pend' = [pend EXCEPT ![SIGFPE] = 1] /\ UNCHANGED status
    /\ UNCHANGED <<sprog, spc, smask, susp, frames, disp, glob, timer, clock, sent>>

DoExit ==
    /\ Running("exit")
    /\ status' = "exited"
    /\ UNCHANGED <<sprog, spc, smask, susp, frames, pend, disp, glob, timer, clock, sent>>

Next ==
    \/ \E p \in sigPrograms : Start(p)
    \/ \E sig \in Signos : Send(sig) \/ Deliver(sig)
    \/ Expire \/ Tick \/ HandlerBody \/ HandlerReturn
    \/ DoSigaction \/ DoMask \/ DoSuspend \/ DoRaise \/ DoSigwait \/ DoCompute \/ DoFault \/ DoExit

Spec == Init /\ [][Next]_sigVars

----------------------------------------------------------------------------
(* What the masks of the programs are for.  The critical section of        *)
(* t_sigsuspend (signals/t_sigsuspend.c:93-141) is never interrupted: its  *)
(* handler runs only in sigsuspend() and after the mask is restored, and   *)
(* between them the mask is back.  siglongjmp() leaves the handler with    *)
(* the mask main() had, longjmp() with the handler's                       *)
(* (sigmask_longjmp.c:52-56), and no jump goes to an env that is not set   *)
(* (:47).  The handlers of catch_rtsigs never interrupt each other         *)
(* (catch_rtsigs.c:86-88).  SIGCONT is not handled while it is blocked     *)
(* (exercises/22 README.md:21-23).                                         *)
MasksRight ==
    /\ (sprog = "t_sigsuspend" /\ status = "run") =>
          /\ (frames # <<>>) => spc \in {6, 8}
          /\ (frames = <<>> /\ susp = <<>> /\ spc \in 2 .. 6) => smask = {SIGINT, SIGQUIT}
    /\ (sprog = "siglongjmp" /\ frames = <<>>) => smask = {}
    /\ (sprog = "longjmp" /\ frames = <<>>) => smask = IF glob.jumped THEN {SIGINT} ELSE {}
    /\ glob.canJump => glob.env.pc # 0
    /\ (sprog = "catch_rtsigs") => Len(frames) <= 1
    /\ (sprog = "sigcont" /\ frames # <<>>) => spc \in {1, 2, 5, 6}

(* What becomes of a signal.  SIGHUP sent after the configuration file was *)
(* changed makes the daemon read it (daemon_SIGHUP.c:150-155): as long as  *)
(* what it knows is old, a SIGHUP is pending, or its handler is running,   *)
(* or hupReceived is set, or it is on the way to the file.  The program    *)
(* never sees a signal that was pending when it began to ignore it         *)
(* (exercises/20 README.md:23-24).  Of the signals of sig-order.c the      *)
(* realtime ones are handled first (exercises/22 README.md:51), every one  *)
(* of them once.  read() is waiting with no alarm to come only where the   *)
(* alarm came before read() or the read is restarted (timed_read.c:49-51). *)
(* real_timer ends after three alarms (:104, :124).  t_nanosleep and the   *)
(* relative t_clock_nanosleep never sleep less than they are asked to, and *)
(* longer by what they spend outside the sleep and less than one granule   *)
(* for each time they sleep (:71): frequent signals prolong the sleep.     *)
(* With TIMER_ABSTIME the sleep ends when it should, whatever the signals, *)
(* or when the program calls it after that time (exercises/23              *)
(* README.md:42-47).  A division by zero ends the process unless SIGFPE is *)
(* caught (demo_SIGFPE.c:17-24).                                           *)
SignalsSeen ==
    /\ (sprog = "daemon_SIGHUP" /\ status = "run" /\ glob.known # glob.conf) =>
          \/ pend[SIGHUP] > 0 \/ glob.got \/ spc \in {1, 2, 7} \/ frames # <<>>
    /\ (sprog = "sig_ign") => glob.cnt[SIGUSR1] = 0
    /\ (sprog = "ignore_pending_sig") => glob.cnt[SIGINT] + pend[SIGINT] + glob.dropped <= sent
    /\ (sprog = "sig_order" /\ status = "exited") =>
          glob.first = 2 /\ glob.cnt[SIGRTMIN] = 2 /\ glob.cnt[SIGRTMIN + 1] = 1 /\ glob.cnt[SIGINT] = 1
    /\ (sprog \in {"timed_read", "timed_read_restart"} /\ status = "run" /\ Call.op = "read"
          /\ timer = "off" /\ pend[SIGALRM] = 0 /\ frames = <<>>) =>
          glob.early \/ sprog = "timed_read_restart"
    /\ (sprog = "real_timer" /\ status = "exited") => glob.num = 3
    /\ (sprog \in {"t_nanosleep", "t_clock_nanosleep"} /\ status = "exited") =>
          LET extra == glob.woke - glob.start - SleepTime
          IN  extra >= 0 /\ extra <= glob.away + (glob.restarts + 1) * (Granule - 1)
    /\ (sprog \in {"t_clock_nanosleep_a", "clock_nanosleep"} /\ status = "exited") =>
          LET due == RoundUp(glob.start + SleepTime)
          IN  glob.woke = IF glob.began > due THEN glob.began ELSE due
    /\ (sprog \in {"SIGFPE", "SIGFPE_i", "SIGFPE_b"}) =>
          status # "exited" /\ (status = "killed" => sprog # "SIGFPE")
    /\ (sprog = "sigaction_resethand" /\ status = "killed") => glob.cnt[SIGINT] <= 1

=============================================================================
