-------------------------- MODULE MqNotifyThread --------------------------
(***************************************************************************)
(* pmsg/mq_notify_thread.c and pmsg/mq_notify_via_thread.c: each           *)
(* notification starts a thread that registers again and drains the queue; *)
(* threads of several notifications, and in via_thread main() itself,      *)
(* drain concurrently.                                                     *)
(***************************************************************************)
EXTENDS PosixMq

VARIABLES program,    \* which of the two programs runs
          pc,         \* where main() is
          thread,     \* thread[i]: state of the thread the i-th message started
          missed,     \* history: a message was queued before registration
          exited      \* errExit() was called

vars == <<qlen, sent, received, registered, program, pc, thread, missed, exited>>

Programs == {"mq_notify_thread", "mq_notify_via_thread"}
ThreadIds == 1..SendLimit

TypeOK == /\ MqTypeOK
          /\ program \in Programs
          /\ pc \in {"open", "notify", "drain", "pause"}
          /\ thread \in [ThreadIds -> {"none", "notify", "drain", "done"}]
          /\ missed \in BOOLEAN
          /\ exited \in BOOLEAN

Init == /\ MqInit
        /\ program \in Programs
        /\ pc = "open"
        /\ thread = [i \in ThreadIds |-> "none"]
        /\ missed = FALSE /\ exited = FALSE

\* Another process sends; a notification starts a thread in threadFunc().
Send == /\ MqSend
        /\ registered' = (registered /\ ~SendNotifies)
        /\ thread' = IF SendNotifies THEN [thread EXCEPT ![sent'] = "notify"] ELSE thread
        /\ UNCHANGED <<program, pc, missed, exited>>

\* main(): mq_open() succeeds or ends the program.
Open == /\ pc = "open" /\ ~exited
        /\ \/ pc' = "notify" /\ UNCHANGED exited
           \/ exited' = TRUE /\ UNCHANGED pc
        /\ UNCHANGED <<mqVars, program, thread, missed>>

\* notifySetup() in the thread that is at the given point.
notifySetup == /\ MqNotify
               /\ exited' = registered

\* main(): register; mq_notify_thread.c then pauses, via_thread drains first.
MainNotify == /\ pc = "notify" /\ ~exited
              /\ notifySetup
              /\ missed' = (program = "mq_notify_thread" /\ qlen > 0)
              /\ pc' = IF program = "mq_notify_via_thread" THEN "drain" ELSE "pause"
              /\ UNCHANGED <<program, thread>>

MainDrain == /\ pc = "drain" /\ ~exited
             /\ \/ ReceiveOK /\ UNCHANGED pc
                \/ ReceiveAgain /\ pc' = "pause"
             /\ UNCHANGED <<program, thread, missed, exited>>

\* threadFunc(): re-register (mq_getattr() and malloc() come before it in
\* mq_notify_thread.c, after it in drainQueue()).
ThreadNotify(i) == /\ thread[i] = "notify" /\ ~exited
                   /\ notifySetup
                   /\ thread' = [thread EXCEPT ![i] = "drain"]
                   /\ UNCHANGED <<program, pc, missed>>

\* BUG: the thread registers again after its drain as well.
MutThreadDrain(i) == /\ thread[i] = "drain" /\ ~exited
                     /\ \/ ReceiveOK /\ UNCHANGED thread
                        \/ ReceiveAgain /\ thread' = [thread EXCEPT ![i] = "notify"]
                     /\ UNCHANGED <<program, pc, missed, exited>>

\* drainQueue(): one mq_receive() of its loop.
ThreadDrain(i) == /\ thread[i] = "drain" /\ ~exited
                  /\ \/ ReceiveOK /\ UNCHANGED thread
                     \/ ReceiveAgain /\ thread' = [thread EXCEPT ![i] = "done"]
                  /\ UNCHANGED <<program, pc, missed, exited>>

Main == Open \/ MainNotify \/ MainDrain
Thread(i) == ThreadNotify(i) \/ ThreadDrain(i)

Next == Main \/ Send \/ \E i \in ThreadIds : Thread(i)

Spec == Init /\ [][Next]_vars

----------------------------------------------------------------------------
Active == pc \in {"notify", "drain"} \/ \E i \in ThreadIds : thread[i] \in {"notify", "drain"}

\* However many notification threads run at once, at most one of them holds
\* the right to register, so notifySetup() never fails with EBUSY.
NeverBusy == /\ \A i \in ThreadIds : thread[i] = "notify" => ~registered
             /\ \A i, j \in ThreadIds :
                   thread[i] = "notify" /\ thread[j] = "notify" => i = j

\* When main() sleeps in pause() and no notification thread is left, the queue
\* is empty and the next message will start a thread.  In via_thread this
\* includes messages queued before the registration ("Handle possibility that
\* messages were already queued", via_thread:100).
NoStranded == pc = "pause" /\ ~exited /\ ~Active /\ ~missed => registered /\ qlen = 0

\* Every message is received, unless mq_notify_thread.c missed one at startup.
EventuallyDrained == qlen > 0 /\ pc \in {"drain", "pause"} /\ ~missed ~> qlen = 0
=============================================================================
