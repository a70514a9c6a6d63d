------------------------------ MODULE PosixMq ------------------------------
(***************************************************************************)
(* A POSIX message queue as the mq_notify programs of pmsg/ use it.  The   *)
(* kernel is not part of the repository: the operators are what the        *)
(* programs rely on.  A message is told apart from others by nothing the   *)
(* programs look at, so the queue is its length.                           *)
(***************************************************************************)
EXTENDS Naturals

CONSTANTS MaxMsg,     \* mq_maxmsg: a sender blocks while the queue is full
          SendLimit   \* bound: the number of messages senders ever send

ASSUME MqAssumption == MaxMsg \in Nat \ {0} /\ SendLimit \in Nat

VARIABLES qlen,       \* messages on the queue
          sent,       \* messages sent so far
          received,   \* messages mq_receive() has returned so far
          registered  \* the process is registered for notification

mqVars == <<qlen, sent, received, registered>>

MqTypeOK == /\ qlen \in Nat /\ sent \in Nat /\ received \in Nat
            /\ registered \in BOOLEAN

MqInit == qlen = 0 /\ sent = 0 /\ received = 0 /\ registered = FALSE

\* mq_send() by some other process.  A message that reaches an empty queue
\* removes the registration and notifies the registered process.
MqSend == /\ sent < SendLimit /\ qlen < MaxMsg
          /\ qlen' = qlen + 1
          /\ sent' = sent + 1
          /\ UNCHANGED received

SendNotifies == qlen = 0 /\ registered

\* mq_notify(): it fails with EBUSY, changing nothing, while a registration is
\* in force; either way one is in force afterwards.
MqNotify == registered' = TRUE /\ UNCHANGED <<qlen, sent, received>>

\* mq_receive() on a descriptor opened with O_NONBLOCK.
ReceiveOK == /\ qlen > 0
             /\ qlen' = qlen - 1
             /\ received' = received + 1
             /\ UNCHANGED <<sent, registered>>
ReceiveAgain == qlen = 0 /\ UNCHANGED mqVars
=============================================================================
