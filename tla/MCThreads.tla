------------------------------- MODULE MCThreads -------------------------------
(***************************************************************************)
(* The programs of threads, one at a time: the variable running says which *)
(* one, and the variables of the others keep their initial values.         *)
(* The programs of Threads are an instance, the others are extended.       *)
(***************************************************************************)
EXTENDS OneTimeInit, MultiJoin, ProdCons

CONSTANTS Checked, thPrograms, Loops, NThreads

VARIABLES running, thprog, th, mem, over

thVars == <<thprog, th, mem, over>>
allVars == <<running, vars, mjVars, pcVars, thVars>>

\* Three producers, one of which produces nothing.
MCUnits == <<2, 0, 1>>

Th == INSTANCE Threads

FInit == /\ running \in Checked /\ Init /\ MjInit /\ PcInit /\ Th!Init
         /\ running # "one_time_init" => version = "checked"
         /\ running # "prod_cons" => program = "prod_condvar"

Once == /\ running = "one_time_init" /\ Next
        /\ UNCHANGED <<running, mjVars, pcVars, thVars>>
Joining == /\ running = "multi_join" /\ MjNext
           /\ UNCHANGED <<running, vars, pcVars, thVars>>
Producing == /\ running = "prod_cons" /\ PcNext
             /\ UNCHANGED <<running, vars, mjVars, thVars>>
Threading == /\ running = "threads" /\ Th!Next
             /\ UNCHANGED <<running, vars, mjVars, pcVars>>

FNext == Once \/ Joining \/ Producing \/ Threading

FSpec == /\ FInit /\ [][FNext]_allVars
         /\ WF_vars(running = "one_time_init" /\ Create)
         /\ WF_vars(running = "one_time_init" /\ Join)
         /\ \A t \in Threads : WF_vars(running = "one_time_init" /\ Thread(t))
         /\ SF_mjVars(running = "multi_join" /\ MainStep)
         /\ \A t \in MjThreads : SF_mjVars(running = "multi_join" /\ ~MjEnded /\ MjThread(t))
         /\ SF_pcVars(running = "prod_cons" /\ Consumer)
         /\ \A p \in Producers : SF_pcVars(running = "prod_cons" /\ ~PcEnded /\ Producer(p))

----------------------------------------------------------------------------
\* The other programs of threads/ and exercises/29 to 33: increments under a lock
\* are not lost, cleanup handlers leave the mutex free, a thread sees its own
\* buffer only, and nobody waits for a thread that cannot come.
ThreadsRight == Th!NoLostIncrement /\ Th!ThreadsRight

\* Every thread of one_time_init.c is joined, thread_multijoin.c joins them all
\* and the consumer of prod_condvar.c ends.
ThreadsEnd == /\ running = "one_time_init" => AllJoined
              /\ running = "multi_join" => MjTerminates
              /\ running = "prod_cons" => PcTerminates
=============================================================================
