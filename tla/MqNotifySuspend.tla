-------------------------- MODULE MqNotifySuspend --------------------------
(***************************************************************************)
(* pmsg/mq_notify_sig.c (NOTIFY_SIG blocked, accepted by sigsuspend() with *)
(* an empty mask) and pmsg/mq_notify_sigwaitinfo.c (the same loop, the     *)
(* signal accepted by sigwaitinfo()).  Neither drains the queue before its *)
(* first wait.                                                             *)
(***************************************************************************)
EXTENDS PosixMq

VARIABLES program,    \* which of the two programs runs
          pc,         \* where it is
          pending,    \* NOTIFY_SIG is pending (it is blocked outside the wait)
          missed      \* history: a message was queued before registration

vars == <<qlen, sent, received, registered, program, pc, pending, missed>>

Programs == {"mq_notify_sig", "mq_notify_sigwaitinfo"}
PCs == {"open", "block", "sigaction", "notify", "wait", "renotify", "drain", "failed"}

TypeOK == /\ MqTypeOK
          /\ program \in Programs
          /\ pc \in PCs
          /\ pending \in BOOLEAN
          /\ missed \in BOOLEAN

Init == /\ MqInit
        /\ program \in Programs
        /\ pc = "open" /\ pending = FALSE /\ missed = FALSE

\* Another process sends; NOTIFY_SIG is generated if that notifies us.
Send == /\ MqSend
        /\ registered' = (registered /\ ~SendNotifies)
        /\ pending' = (pending \/ SendNotifies)
        /\ UNCHANGED <<program, pc, missed>>

\* mq_open(), mq_getattr() and malloc() succeed or end the program.
Open == /\ pc = "open"
        /\ pc' \in {"block", "failed"}
        /\ UNCHANGED <<mqVars, program, pending, missed>>

BlockSignal == /\ pc = "block"
               /\ pc' \in {"failed", IF program = "mq_notify_sig" THEN "sigaction" ELSE "notify"}
               /\ UNCHANGED <<mqVars, program, pending, missed>>

EstablishHandler == /\ pc = "sigaction"
                    /\ pc' \in {"notify", "failed"}
                    /\ UNCHANGED <<mqVars, program, pending, missed>>

Register == /\ pc = "notify"
            /\ MqNotify
            /\ pc' = IF registered THEN "failed" ELSE "wait"
            /\ missed' = (qlen > 0)
            /\ UNCHANGED <<program, pending>>

\* BUG: pause() with the signal unblocked may return, or not start to wait,
\* without the notification signal.
MutWait == /\ pc = "wait"
           /\ pending' = FALSE
           /\ pc' = "renotify"
           /\ UNCHANGED <<mqVars, program, missed>>

\* sigsuspend() or sigwaitinfo(): returns once the signal is pending.
Wait == /\ pc = "wait" /\ pending
        /\ pending' = FALSE
        /\ pc' = "renotify"
        /\ UNCHANGED <<mqVars, program, missed>>

Reregister == /\ pc = "renotify"
              /\ MqNotify
              /\ pc' = IF registered THEN "failed" ELSE "drain"
              /\ UNCHANGED <<program, pending, missed>>

Drain == /\ pc = "drain"
         /\ \/ ReceiveOK /\ UNCHANGED pc
            \/ ReceiveAgain /\ pc' = "wait"
         /\ UNCHANGED <<program, pending, missed>>

Main == Open \/ BlockSignal \/ EstablishHandler \/ Register \/ Wait \/ Reregister \/ Drain

Next == Main \/ Send

Spec == Init /\ [][Next]_vars

----------------------------------------------------------------------------
\* mq_notify() (mq_notify_sig.c:83,93) never fails with EBUSY.
NeverBusy == pc \in {"notify", "renotify"} => ~registered

\* Once the wait is entered with no signal pending, the queue is empty and the
\* registration in force, unless a message was there before the registration:
\* registering before draining (mq_notify_sig.c:93-97) loses no wake-up.
NoStranded == pc = "wait" /\ ~pending /\ ~missed => registered /\ qlen = 0

\* The comment at mq_notify_sig.c:33: if a message was on the queue at the
\* first registration, "the program would never receive a notification".
MissedIsForever == missed => pc = "wait" /\ ~pending /\ received = 0

\* Every message sent to a registered program that missed none is received.
EventuallyDrained ==
    qlen > 0 /\ ~missed /\ pc \in {"wait", "renotify", "drain"} ~> qlen = 0
=============================================================================
