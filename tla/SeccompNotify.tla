----------------------------- MODULE SeccompNotify -----------------------------
(***************************************************************************)
(* seccomp/seccomp_user_notification.c with sockets/scm_functions.c: a     *)
(* target whose mkdir() calls are answered by a tracer, and their parent.  *)
(* The target sends the tracer the notification descriptor over a socket   *)
(* pair that all three processes inherit.  A pathname is "tmp" (below      *)
(* /tmp), "bye" or "other".                                                *)
(***************************************************************************)
EXTENDS Integers, Sequences

CONSTANTS PathLists,    \* the command lines: sequences of pathnames
          MaxSigint     \* bound on the signals sent to the target

VARIABLES
    nopts,              \* [args, secondFilter, killTracer]
    mpc, targetPc, tracerPc,      \* the parent, the target and the tracer
    filters,            \* the filters installed in the target
    listener,           \* who holds the notification descriptor: "target", "socket", "tracer"
    ends,               \* who holds the target's end of the socket pair
    notif,              \* the call that waits for an answer: [id, path], id 0 if none
    lastId, arg, sigints,
    req, mem,           \* what the tracer has received and has read of the target
    asked,              \* the calls, by ID, for which the tracer has called mkdir() itself
    gone,               \* the calls, by ID, that ended before the tracer received them
    results             \* the calls of the target that have returned: [id, path, got]

noVars == <<nopts, mpc, targetPc, tracerPc, filters, listener, ends, notif, lastId, arg, sigints,
            req, mem, asked, gone, results>>
NoCall == [id |-> 0, path |-> ""]

NotifyInit == /\ nopts = [args |-> <<>>, secondFilter |-> "none", killTracer |-> TRUE]
        /\ mpc = "options" /\ targetPc = "unborn" /\ tracerPc = "unborn" /\ filters = {}
        /\ listener = {} /\ ends = {} /\ notif = NoCall /\ lastId = 0 /\ arg = 1 /\ sigints = 0
        /\ req = NoCall /\ mem = "" /\ asked = {} /\ gone = {} /\ results = {}

---------------------------------------------------------------------------
(* The parent: socketpair(), the two children, then wait. *)
parseCommandLineOptions ==
    /\ mpc = "options" /\ mpc' = "fork1"
    /\ nopts' \in [args : PathLists, secondFilter : {"none", "e", "t"}, killTracer : BOOLEAN]
    /\ ends' = {"parent"}
    /\ UNCHANGED <<targetPc, tracerPc, filters, listener, notif, lastId, arg, sigints, req, mem, asked, results, gone>>

targetProcess == /\ mpc = "fork1" /\ mpc' = "fork2" /\ targetPc' = "sigaction" /\ ends' = ends \cup {"target"}
                 /\ UNCHANGED <<nopts, tracerPc, filters, listener, notif, lastId, arg, sigints, req, mem, asked, results, gone>>

tracerProcess == /\ mpc = "fork2" /\ mpc' = "close" /\ tracerPc' = "recvfd" /\ ends' = ends \cup {"tracer"}
                 /\ UNCHANGED <<nopts, targetPc, filters, listener, notif, lastId, arg, sigints, req, mem, asked, results, gone>>

CloseSocketPair == /\ mpc = "close" /\ mpc' = "waitTarget" /\ ends' = ends \ {"parent"}
                   /\ UNCHANGED <<nopts, targetPc, tracerPc, filters, listener, notif, lastId, arg, sigints, req, mem, asked, results, gone>>

(* The descriptor and the call that waits for its holder go with the last holder. *)
Release(h, e) == listener' = listener \ {h} /\ ends' = ends \ {e}

WaitTarget ==
    /\ mpc = "waitTarget" /\ targetPc = "dead"
    /\ IF nopts.killTracer
       THEN mpc' = "exited" /\ tracerPc' = "dead" /\ Release("tracer", "tracer")
       ELSE mpc' = "waitTracer" /\ UNCHANGED <<tracerPc, listener, ends>>
    /\ UNCHANGED <<nopts, targetPc, filters, notif, lastId, arg, sigints, req, mem, asked, results, gone>>

WaitTracer == /\ mpc = "waitTracer" /\ tracerPc = "dead" /\ mpc' = "exited"
              /\ UNCHANGED <<nopts, targetPc, tracerPc, filters, listener, ends, notif, lastId, arg, sigints, req, mem, asked, results, gone>>

---------------------------------------------------------------------------
(* The target. *)
TargetSigaction == /\ targetPc = "sigaction" /\ targetPc' = "notifyFilter"
             /\ UNCHANGED <<nopts, mpc, tracerPc, filters, listener, ends, notif, lastId, arg, sigints, req, mem, asked, results, gone>>

installNotifyFilter ==
    /\ targetPc = "notifyFilter" /\ filters' = filters \cup {"notify"} /\ listener' = listener \cup {"target"}
    /\ targetPc' = IF nopts.secondFilter = "none" THEN "sendfd" ELSE "filter2"
    /\ UNCHANGED <<nopts, mpc, tracerPc, ends, notif, lastId, arg, sigints, req, mem, asked, results, gone>>

installFilter2 ==
    /\ targetPc = "filter2" /\ filters' = filters \cup {nopts.secondFilter} /\ targetPc' = "sendfd"
    /\ UNCHANGED <<nopts, mpc, tracerPc, listener, ends, notif, lastId, arg, sigints, req, mem, asked, results, gone>>

sendfd == /\ targetPc = "sendfd" /\ targetPc' = "closefd" /\ listener' = listener \cup {"socket"}
          /\ UNCHANGED <<nopts, mpc, tracerPc, filters, ends, notif, lastId, arg, sigints, req, mem, asked, results, gone>>

CloseNotifyFd == /\ targetPc = "closefd" /\ targetPc' = "next" /\ Release("target", "target")
                 /\ UNCHANGED <<nopts, mpc, tracerPc, filters, notif, lastId, arg, sigints, req, mem, asked, results, gone>>

Returned(c, got) == results' = results \cup {[id |-> c.id, path |-> c.path, got |-> got]}

(* mkdir(): ERRNO outranks USER_NOTIF, which outranks TRACE; without a listener ENOSYS. *)
Mkdir ==
    /\ targetPc = "next" /\ arg <= Len(nopts.args)
    /\ lastId' = lastId + 1
    /\ LET c == [id |-> lastId + 1, path |-> nopts.args[arg]]
       IN  \/ "e" \in filters /\ Returned(c, "ENOTSUP") /\ arg' = arg + 1 /\ UNCHANGED <<targetPc, notif>>
           \/ "e" \notin filters /\ listener = {} /\ Returned(c, "ENOSYS") /\ arg' = arg + 1 /\ UNCHANGED <<targetPc, notif>>
           \/ "e" \notin filters /\ listener # {} /\ notif' = c /\ targetPc' = "blocked" /\ UNCHANGED <<results, arg>>
    /\ UNCHANGED <<nopts, mpc, tracerPc, filters, listener, ends, sigints, req, mem, asked, gone>>

(* A call that ends before the tracer has received its notification. *)
Vanishes == gone' = IF notif \notin {NoCall, req} THEN gone \cup {notif.id} ELSE gone

(* The listener goes away, or the handler interrupts the call. *)
MkdirFails ==
    /\ Vanishes /\ targetPc = "blocked" /\ targetPc' = "next" /\ arg' = arg + 1 /\ notif' = NoCall
    /\ \/ listener = {} /\ Returned(notif, "ENOSYS") /\ UNCHANGED sigints
       \/ sigints < MaxSigint /\ sigints' = sigints + 1 /\ Returned(notif, "EINTR")
    /\ UNCHANGED <<nopts, mpc, tracerPc, filters, listener, ends, lastId, req, mem, asked>>

(* It ends, or is killed, by SIGINT too as long as it has no handler. *)
TargetEnds ==
    /\ Vanishes /\ targetPc \notin {"unborn", "dead"}
    /\ (targetPc = "next" /\ arg > Len(nopts.args)) \/ sigints < MaxSigint
    /\ sigints' = IF targetPc = "next" /\ arg > Len(nopts.args) THEN sigints ELSE sigints + 1
    /\ targetPc' = "dead" /\ notif' = NoCall /\ Release("target", "target")
    /\ UNCHANGED <<nopts, mpc, tracerPc, filters, lastId, arg, req, mem, asked, results>>

---------------------------------------------------------------------------
(* The tracer. *)
TracerEnds == tracerPc' = "dead" /\ Release("tracer", "tracer") /\ UNCHANGED <<req, mem, asked, notif, targetPc, arg, results>>

(* Its own copy of the target's end keeps recvmsg() from seeing the end of file. *)
recvfd ==
    /\ tracerPc = "recvfd" /\ "socket" \in listener
    /\ tracerPc' = "recv" /\ listener' = (listener \ {"socket"}) \cup {"tracer"} /\ ends' = ends \ {"tracer"}
    /\ UNCHANGED <<nopts, mpc, targetPc, filters, notif, lastId, arg, sigints, req, mem, asked, results, gone>>

NotifRecv == /\ tracerPc = "recv" /\ notif # NoCall /\ notif # req /\ req' = notif /\ tracerPc' = "open"
             /\ UNCHANGED <<nopts, mpc, targetPc, filters, listener, ends, notif, lastId, arg, sigints, mem, asked, results, gone>>

(* The ioctl() that waited for a call which has gone since: ENOENT, and errExit(). *)
RecvFails == /\ tracerPc = "recv" /\ notif = NoCall /\ gone # {} /\ TracerEnds
             /\ UNCHANGED <<nopts, mpc, filters, lastId, sigints, gone>>

(* open() of /proc/PID/mem, the checks of the ID, which only report, and read(). *)
ReadMem ==
    /\ tracerPc = "open"
    /\ \/ targetPc # "dead" /\ mem' = req.path /\ tracerPc' = "answer"
          /\ UNCHANGED <<req, asked, notif, targetPc, arg, results, listener, ends>>
       \/ targetPc = "dead" /\ TracerEnds
    /\ UNCHANGED <<nopts, mpc, filters, lastId, sigints, gone>>

(* Below /tmp the tracer calls mkdir() itself; the answer is success whatever that
   call returns, the directory made or not. *)
Respond == /\ tracerPc = "answer" /\ tracerPc' = "send"
           /\ asked' = IF mem = "tmp" THEN asked \cup {req.id} ELSE asked
           /\ UNCHANGED <<nopts, mpc, targetPc, filters, listener, ends, notif, lastId, arg, sigints, req, mem, results, gone>>

MutNotifSend ==                             \* the answer goes to whatever call waits
    /\ tracerPc = "send" /\ tracerPc' = IF mem = "bye" THEN "dead" ELSE "recv"
    /\ IF notif # NoCall
       THEN Returned(notif, IF mem = "tmp" THEN "ok" ELSE "EPERM") /\ notif' = NoCall /\ targetPc' = "next" /\ arg' = arg + 1
       ELSE UNCHANGED <<notif, targetPc, arg, results>>
    /\ IF mem = "bye" THEN Release("tracer", "tracer") ELSE UNCHANGED <<listener, ends>>
    /\ UNCHANGED <<nopts, mpc, filters, lastId, sigints, req, mem, asked, gone>>

NotifSend ==                                \* ENOENT if the call is gone
    /\ tracerPc = "send" /\ tracerPc' = IF mem = "bye" THEN "dead" ELSE "recv"
    /\ IF notif # NoCall /\ notif.id = req.id
       THEN Returned(notif, IF mem = "tmp" THEN "ok" ELSE "EPERM") /\ notif' = NoCall /\ targetPc' = "next" /\ arg' = arg + 1
       ELSE UNCHANGED <<notif, targetPc, arg, results>>
    /\ IF mem = "bye" THEN Release("tracer", "tracer") ELSE UNCHANGED <<listener, ends>>
    /\ UNCHANGED <<nopts, mpc, filters, lastId, sigints, req, mem, asked, gone>>

NotifyNext == \/ parseCommandLineOptions \/ targetProcess \/ tracerProcess \/ CloseSocketPair \/ WaitTarget
        \/ WaitTracer \/ TargetSigaction \/ installNotifyFilter \/ installFilter2 \/ sendfd \/ CloseNotifyFd
        \/ Mkdir \/ MkdirFails \/ TargetEnds \/ recvfd \/ NotifRecv \/ RecvFails \/ ReadMem \/ Respond \/ NotifSend

NotifySpec == NotifyInit /\ [][NotifyNext]_noVars

---------------------------------------------------------------------------
(* Every answer belongs to the call that gets it, although a call may have been
   interrupted and followed by another while the tracer worked on its answer: no call
   returns twice; success is reported only for a pathname below /tmp, and only after the
   tracer has called mkdir() for this very call (it ignores the result of that mkdir(),
   so the directory itself may be missing, :446), EPERM only for other pathnames; no call
   is notified past a filter that returns ERRNO; the call that waits is the last one made,
   for the current argument (:454, :356). *)
AnswersMatch ==
    /\ \A r \in results : /\ r.got = "ok" => r.path = "tmp" /\ r.id \in asked
                          /\ r.got = "EPERM" => r.path # "tmp"
                          /\ nopts.secondFilter = "e" <=> r.got = "ENOTSUP"
                          /\ \A o \in results : o.id = r.id => o = r
    /\ nopts.secondFilter = "e" => asked = {}
    /\ targetPc = "blocked" => notif.path = nopts.args[arg] /\ notif.id = lastId
=============================================================================
