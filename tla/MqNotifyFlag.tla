--------------------------- MODULE MqNotifyFlag ---------------------------
(***************************************************************************)
(* pmsg/mq_notify_via_signal.c (and mq_notify_siginfo.c, the same loop     *)
(* with a SA_SIGINFO handler): the notification signal sets gotSig; the    *)
(* main loop tests it, clears it, registers again and drains the queue.    *)
(* The handler runs between any two steps of the loop.                     *)
(***************************************************************************)
EXTENDS PosixMq

VARIABLES pc,         \* where the main program is
          gotSig,     \* the handler's flag
          pending     \* NOTIFY_SIG is pending for the process

vars == <<qlen, sent, received, registered, pc, gotSig, pending>>

PCs == {"open", "sigaction", "test", "clear", "notify", "drain", "sleep", "failed"}

TypeOK == /\ MqTypeOK
          /\ pc \in PCs
          /\ gotSig \in 0..1
          /\ pending \in BOOLEAN

Init == MqInit /\ pc = "open" /\ gotSig = 1 /\ pending = FALSE

----------------------------------------------------------------------------
\* Another process sends; NOTIFY_SIG is generated if that notifies us.
Send == /\ MqSend
        /\ registered' = (registered /\ ~SendNotifies)
        /\ pending' = (pending \/ SendNotifies)
        /\ UNCHANGED <<pc, gotSig>>

\* handler(): NOTIFY_SIG is never blocked, so it runs at any point.
Handler == /\ pending
           /\ pending' = FALSE
           /\ gotSig' = 1
           /\ UNCHANGED <<qlen, sent, received, registered, pc>>

----------------------------------------------------------------------------
\* mq_open() needs an existing queue.
Open == /\ pc = "open"
        /\ pc' \in {"sigaction", "failed"}
        /\ UNCHANGED <<mqVars, gotSig, pending>>

\* sigaction(); via_signal then calls mq_getattr() and malloc().
EstablishHandler == /\ pc = "sigaction"
                    /\ pc' \in {"test", "failed"}
                    /\ UNCHANGED <<mqVars, gotSig, pending>>

Test == /\ pc = "test"
        /\ pc' = IF gotSig = 1 THEN "clear" ELSE "sleep"
        /\ UNCHANGED <<mqVars, gotSig, pending>>

Clear == /\ pc = "clear"
         /\ gotSig' = 0
         /\ pc' = "notify"
         /\ UNCHANGED <<mqVars, pending>>

Register == /\ pc = "notify"
            /\ MqNotify
            /\ pc' = IF registered THEN "failed" ELSE "drain"
            /\ UNCHANGED <<gotSig, pending>>

\* BUG: gotSig is cleared after the queue was drained.
MutDrain == /\ pc = "drain"
            /\ \/ ReceiveOK /\ UNCHANGED <<pc, gotSig>>
               \/ ReceiveAgain /\ pc' = "sleep" /\ gotSig' = 0
            /\ UNCHANGED pending

\* One mq_receive() of the draining loop; EAGAIN ends the loop.
Drain == /\ pc = "drain"
         /\ \/ ReceiveOK /\ UNCHANGED pc
            \/ ReceiveAgain /\ pc' = "sleep"
         /\ UNCHANGED <<gotSig, pending>>

\* sleep(5) ends by timeout or because the handler interrupted it.
Sleep == /\ pc = "sleep"
         /\ pc' = "test"
         /\ UNCHANGED <<mqVars, gotSig, pending>>

Main == Open \/ EstablishHandler \/ Test \/ Clear \/ Register \/ Drain \/ Sleep

Next == Main \/ Handler \/ Send

Spec == Init /\ [][Next]_vars

----------------------------------------------------------------------------
\* mq_notify() never fails with EBUSY: whenever the loop is about to register
\* (via_signal:90), the previous registration has been consumed.  It rests on
\* gotSig being set only by a notification.
NeverBusy == pc = "notify" => ~registered

\* No stranded message: whenever the loop goes round without a signal pending
\* or recorded, the registration is in force and the queue is empty, so the
\* next message will wake the program.  It rests on the order clear, register,
\* drain (via_signal:84-100).
NoStranded ==
    pc \in {"test", "sleep"} /\ gotSig = 0 /\ ~pending => registered /\ qlen = 0

\* A message on the queue is received, those queued before the first
\* registration included (the comment at via_signal:77).
EventuallyDrained == qlen > 0 /\ pc \notin {"open", "sigaction", "failed"} ~> qlen = 0
=============================================================================
