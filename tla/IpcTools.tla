-------------------------------- MODULE IpcTools --------------------------------
(***************************************************************************)
(* The command-line tools that create, use and remove one IPC object:      *)
(* POSIX queues (pmsg/), semaphores (psem/) and shared memory (pshm/), and *)
(* System V queues (svmsg/) and semaphore sets (svsem/, with the event     *)
(* flags of event_flags.c).  Users run tools at the same time; a tool      *)
(* keeps the object it opened although its name may be removed and given   *)
(* to a new object meanwhile.  A behaviour is about one kind of object.    *)
(***************************************************************************)
EXTENDS Integers, Sequences, SequencesExt, FiniteSetsExt, TLC

CONSTANTS Users, Kinds,     \* a subset of {"pmsg", "psem", "pshm", "svmsg", "svsem"}
          MaxRuns,          \* how many tools are run
          MaxObjects,       \* how many objects are created
          SemLines          \* the arguments of svsem_op: sequences of groups of operations

VARIABLES
    kind,
    name,           \* what the name, key or identifier refers to: 0 or an index of objs
    objs,
    tool,           \* what every user runs
    ran,            \* how many tools have been started: also the name of a message
    log             \* history: see Init

ipcVars == <<kind, name, objs, tool, ran, log>>

None == [cmd |-> "", pc |-> 0, fd |-> 0, arg |-> <<>>, id |-> 0, alone |-> TRUE]
Sems == {1, 2}

Init == /\ kind = "" /\ name = 0 /\ objs = <<>> /\ tool = [u \in Users |-> None] /\ ran = 0
        /\ log = [sent |-> <<>>,        \* the messages, in the order in which they were sent
                  got |-> <<>>,         \* those received, in order
                  printed |-> {},       \* what svmsg_receive has shown
                  count |-> <<>>,       \* for every semaphore: what was created, posted and waited for
                  wrong |-> {}]         \* the runs that, undisturbed, did not do what they are for

Choose == kind = "" /\ kind' \in Kinds /\ UNCHANGED <<name, objs, tool, ran, log>>

Idle(u) == tool[u].cmd = "" /\ ran < MaxRuns
At(u, cmd, pc) == tool[u].cmd = cmd /\ tool[u].pc = pc
Obj(u) == objs[tool[u].fd]
Starts(u, cmd, fd, arg) ==
    /\ Idle(u) /\ ran' = ran + 1
    /\ tool' = [v \in Users |-> IF v = u
                  THEN [cmd |-> cmd, pc |-> 1, fd |-> fd, arg |-> arg, id |-> ran + 1,
                        alone |-> \A w \in Users : tool[w].cmd = ""]
                  ELSE [tool[v] EXCEPT !.alone = FALSE]]
Goes(u, pc) == tool' = [tool EXCEPT ![u].pc = pc] /\ UNCHANGED ran
Ends(u) == tool' = [tool EXCEPT ![u] = None] /\ UNCHANGED ran
RunsAtOnce(u) == Idle(u) /\ ran' = ran + 1 /\ UNCHANGED tool

(* mq_open(), sem_open() and shm_open() of an object that must exist. *)
Opens(u, cmd, arg) == /\ IF name = 0 THEN RunsAtOnce(u) ELSE Starts(u, cmd, name, arg)
                      /\ UNCHANGED <<kind, name, objs, log>>
(* The same with O_CREAT, or msgget() and semget(); an object that exists is left alone. *)
OpenCreate(creat, new) ==
    IF name = 0 /\ creat THEN Len(objs) < MaxObjects /\ objs' = Append(objs, new) /\ name' = Len(objs) + 1
    ELSE UNCHANGED <<objs, name>>
Unlink(u, k) == /\ kind = k /\ RunsAtOnce(u) /\ name' = 0 /\ UNCHANGED <<kind, objs, log>>
Set(u, o) == objs' = [objs EXCEPT ![tool[u].fd] = o]

---------------------------------------------------------------------------
(* POSIX message queues: the highest priority first, the oldest of a priority first. *)
pmsg_create(u) ==
    /\ kind = "pmsg" /\ RunsAtOnce(u)
    /\ \E c \in BOOLEAN, m \in {1, 2} : OpenCreate(c, [max |-> m, msgs |-> <<>>])
    /\ UNCHANGED <<kind, log>>

Enqueue(msgs, m) == SelectSeq(msgs, LAMBDA o : o.class >= m.class) \o <<m>>
                       \o SelectSeq(msgs, LAMBDA o : o.class < m.class)

pmsg_send(u) ==
    \/ kind = "pmsg" /\ \E n \in BOOLEAN, prio \in {0, 1} : Opens(u, "pmsg_send", [n |-> n, prio |-> prio])
    \/ /\ At(u, "pmsg_send", 1)
       /\ LET m == [id |-> tool[u].id, class |-> tool[u].arg.prio, q |-> tool[u].fd] IN
          IF Len(Obj(u).msgs) < Obj(u).max
          THEN Set(u, [Obj(u) EXCEPT !.msgs = Enqueue(@, m)]) /\ log' = [log EXCEPT !.sent = Append(@, m)]
          ELSE tool[u].arg.n /\ UNCHANGED <<objs, log>>
       /\ Ends(u) /\ UNCHANGED <<kind, name>>

pmsg_receive(u) ==
    \/ kind = "pmsg" /\ \E n \in BOOLEAN : Opens(u, "pmsg_receive", [n |-> n])
    \/ /\ At(u, "pmsg_receive", 1)
       /\ IF Obj(u).msgs # <<>>
          THEN /\ Set(u, [Obj(u) EXCEPT !.msgs = Tail(@)])
               /\ log' = [log EXCEPT !.got = Append(@, Head(Obj(u).msgs))]
          ELSE tool[u].arg.n /\ UNCHANGED <<objs, log>>
       /\ Ends(u) /\ UNCHANGED <<kind, name>>

pmsg_unlink(u) == Unlink(u, "pmsg")

---------------------------------------------------------------------------
(* POSIX named semaphores. *)
psem_create(u) ==
    /\ kind = "psem" /\ RunsAtOnce(u)
    /\ \E c \in BOOLEAN, v \in {0, 1} :
         /\ OpenCreate(c, [value |-> v])
         /\ log' = IF Len(objs') > Len(objs) THEN [log EXCEPT !.count = Append(@, v)] ELSE log
    /\ UNCHANGED kind

Taken(u) == /\ Obj(u).value > 0 /\ Set(u, [Obj(u) EXCEPT !.value = @ - 1])
            /\ log' = [log EXCEPT !.count[tool[u].fd] = @ - 1]
NotTaken(u) == Obj(u).value = 0 /\ UNCHANGED <<objs, log>>

psem_wait(u) == \/ kind = "psem" /\ Opens(u, "psem_wait", <<>>)
                \/ At(u, "psem_wait", 1) /\ Taken(u) /\ Ends(u) /\ UNCHANGED <<kind, name>>
psem_trywait(u) == \/ kind = "psem" /\ Opens(u, "psem_trywait", <<>>)
                   \/ /\ At(u, "psem_trywait", 1) /\ (Taken(u) \/ NotTaken(u)) /\ Ends(u)
                      /\ UNCHANGED <<kind, name>>
psem_timedwait(u) == \/ kind = "psem" /\ Opens(u, "psem_timedwait", <<>>)
                     \/ /\ At(u, "psem_timedwait", 1) /\ (Taken(u) \/ NotTaken(u)) /\ Ends(u)   \* ETIMEDOUT
                        /\ UNCHANGED <<kind, name>>
psem_post(u) ==
    \/ kind = "psem" /\ Opens(u, "psem_post", <<>>)
    \/ /\ At(u, "psem_post", 1) /\ Set(u, [Obj(u) EXCEPT !.value = @ + 1])
       /\ log' = [log EXCEPT !.count[tool[u].fd] = @ + 1] /\ Ends(u) /\ UNCHANGED <<kind, name>>
psem_unlink(u) == Unlink(u, "psem")

---------------------------------------------------------------------------
(* POSIX shared memory; a byte stands for a page, and 0 for one never written. *)
Resize(bytes, n) == [i \in 1..n |-> IF i <= Len(bytes) THEN bytes[i] ELSE 0]

pshm_create(u) ==
    \/ /\ kind = "pshm" /\ Idle(u)
       /\ \E c, x \in BOOLEAN, size \in {0, 2} :
            /\ OpenCreate(c, [bytes |-> <<>>])
            /\ IF name' = 0 \/ (name # 0 /\ c /\ x) THEN RunsAtOnce(u)
               ELSE Starts(u, "pshm_create", name', [size |-> size])
       /\ UNCHANGED <<kind, log>>
    \/ /\ At(u, "pshm_create", 1) /\ Set(u, [bytes |-> Resize(Obj(u).bytes, tool[u].arg.size)])
       /\ Ends(u) /\ UNCHANGED <<kind, name, log>>

Mutftruncate(u) ==                              \* the object keeps its size
    /\ At(u, "pshm_write", 1)
    /\ Set(u, [bytes |-> Resize(Obj(u).bytes, Max({tool[u].arg.len, Len(Obj(u).bytes)}))])
    /\ Goes(u, 2) /\ UNCHANGED <<kind, name, log>>
ftruncate(u) ==
    /\ At(u, "pshm_write", 1) /\ Set(u, [bytes |-> Resize(Obj(u).bytes, tool[u].arg.len)])
    /\ Goes(u, 2) /\ UNCHANGED <<kind, name, log>>

(* memcpy() meets SIGBUS when the object has been made shorter meanwhile. *)
memcpy(u) ==
    /\ tool[u].cmd = "pshm_write" /\ tool[u].pc >= 2
    /\ LET i == tool[u].pc - 1  done == i > tool[u].arg.len
           whole == Obj(u).bytes = [k \in 1..tool[u].arg.len |-> tool[u].id] IN
       \/ /\ done /\ Ends(u) /\ UNCHANGED objs
          /\ log' = IF tool[u].alone /\ ~whole THEN [log EXCEPT !.wrong = @ \cup {"pshm_write"}] ELSE log
       \/ ~done /\ i > Len(Obj(u).bytes) /\ Ends(u) /\ UNCHANGED <<objs, log>>
       \/ /\ ~done /\ i <= Len(Obj(u).bytes) /\ Set(u, [bytes |-> [Obj(u).bytes EXCEPT ![i] = tool[u].id]])
          /\ Goes(u, i + 2) /\ UNCHANGED log
    /\ UNCHANGED <<kind, name>>

pshm_write(u) ==
    \/ kind = "pshm" /\ \E len \in {1, 2} : Opens(u, "pshm_write", [len |-> len])
    \/ ftruncate(u) \/ memcpy(u)

(* fstat(), mmap() (an error when the size is 0), write(). *)
pshm_read(u) ==
    \/ kind = "pshm" /\ Opens(u, "pshm_read", [size |-> 0])
    \/ /\ At(u, "pshm_read", 1) /\ UNCHANGED ran
       /\ tool' = [tool EXCEPT ![u] = IF Obj(u).bytes = <<>> THEN None
                                     ELSE [@ EXCEPT !.pc = 2, !.arg.size = Len(Obj(u).bytes)]]
       /\ UNCHANGED <<kind, name, objs, log>>
    \/ /\ At(u, "pshm_read", 2) /\ Ends(u)
       /\ log' = IF tool[u].alone /\ Len(Obj(u).bytes) # tool[u].arg.size
                 THEN [log EXCEPT !.wrong = @ \cup {"pshm_read"}] ELSE log
       /\ UNCHANGED <<kind, name, objs>>

pshm_unlink(u) == Unlink(u, "pshm")

---------------------------------------------------------------------------
(* System V message queues: an identifier that was removed is an error, for those who
   wait as well.  Lengths are in bytes; a text includes its terminating null byte. *)
MAX_MTEXT == 3
Removed(u) == tool[u].fd # name
Fails(u) == Ends(u) /\ UNCHANGED <<kind, name, objs, log>>

svmsg_create(u) ==
    /\ kind = "svmsg" /\ RunsAtOnce(u)
    /\ \E c \in BOOLEAN : OpenCreate(c, [qbytes |-> 3, msgs |-> <<>>])
    /\ UNCHANGED <<kind, log>>

MutmsgLen(text) == text                         \* without the null byte
msgLen(text) == IF text = 0 THEN 0 ELSE text + 1

svmsg_send(u) ==
    \/ kind = "svmsg" /\ \E n \in BOOLEAN, type \in {1, 2}, text \in {0, 1} :
                             Opens(u, "svmsg_send", [n |-> n, type |-> type, text |-> text])
    \/ /\ At(u, "svmsg_send", 1)
       /\ LET len == msgLen(tool[u].arg.text)
              m == [id |-> tool[u].id, class |-> tool[u].arg.type, q |-> tool[u].fd,
                    len |-> len, nul |-> len > tool[u].arg.text]
              room == /\ FoldLeft(LAMBDA n, o : n + o.len, 0, Obj(u).msgs) + len <= Obj(u).qbytes
                      /\ Len(Obj(u).msgs) < Obj(u).qbytes IN
          \/ (Removed(u) \/ (~room /\ tool[u].arg.n)) /\ Fails(u)
          \/ /\ ~Removed(u) /\ room /\ Set(u, [Obj(u) EXCEPT !.msgs = Append(@, m)])
             /\ log' = [log EXCEPT !.sent = Append(@, m)]
             /\ Ends(u) /\ UNCHANGED <<kind, name>>

(* msgrcv(): the first message, the first of a type or not of it, or the first of the
   lowest type up to a bound. *)
Wanted(msgs, a) ==
    {i \in DOMAIN msgs :
        CASE a.type = 0 -> TRUE
          [] a.type > 0 -> (msgs[i].class = a.type) = ~a.x
          [] OTHER -> /\ msgs[i].class <= -a.type
                      /\ \A j \in DOMAIN msgs : msgs[j].class >= msgs[i].class}

svmsg_receive(u) ==
    \/ kind = "svmsg" /\ \E n, e, x \in BOOLEAN, type \in {-2, 0, 1}, max \in {1, MAX_MTEXT} :
            Opens(u, "svmsg_receive", [n |-> n, e |-> e, x |-> x, type |-> type, max |-> max])
    \/ /\ At(u, "svmsg_receive", 1)
       /\ LET a == tool[u].arg  w == Wanted(Obj(u).msgs, a) IN
          \/ (Removed(u) \/ (w = {} /\ a.n)) /\ Fails(u)
          \/ /\ ~Removed(u) /\ w # {}
             /\ LET m == Obj(u).msgs[Min(w)] IN
                \/ m.len > a.max /\ ~a.e /\ Fails(u)                     \* E2BIG: it stays
                \/ /\ m.len <= a.max \/ a.e
                   /\ Set(u, [Obj(u) EXCEPT !.msgs = RemoveAt(@, Min(w))])
                   /\ log' = [log EXCEPT !.got = Append(@, m),
                                 !.printed = @ \cup {[cut |-> m.len > a.max, empty |-> m.len = 0,
                                                     nul |-> m.nul /\ m.len <= a.max]}]
                   /\ Ends(u) /\ UNCHANGED <<kind, name>>

(* IPC_STAT, then IPC_SET of the copy with another limit. *)
svmsg_chqbytes(u) ==
    \/ kind = "svmsg" /\ \E b \in {2, 4} : Opens(u, "svmsg_chqbytes", [qbytes |-> b])
    \/ /\ At(u, "svmsg_chqbytes", 1)
       /\ \/ Removed(u) /\ Fails(u)
          \/ /\ ~Removed(u) /\ Set(u, [Obj(u) EXCEPT !.qbytes = tool[u].arg.qbytes])
             /\ Ends(u) /\ UNCHANGED <<kind, name, log>>

svmsg_rm(u) == Unlink(u, "svmsg")

---------------------------------------------------------------------------
(* System V semaphore sets.  "net" is history: what the values would be if the
   operations typed with "u" had not been made. *)
NewSet == [vals |-> [s \in Sems |-> 0], adj |-> [u \in Users |-> [s \in Sems |-> 0]],
           net |-> [s \in Sems |-> 0], clamped |-> FALSE]

svsem_create(u) == /\ kind = "svsem" /\ RunsAtOnce(u) /\ \E c \in BOOLEAN : OpenCreate(c, NewSet)
                   /\ UNCHANGED <<kind, log>>
svsem_rm(u) == Unlink(u, "svsem")

(* SETVAL and SETALL forget what the processes have to undo. *)
SetVals(o, new) == [o EXCEPT !.vals = new @@ @, !.net = new @@ @,
                             !.adj = [u \in Users |-> [s \in Sems |-> IF s \in DOMAIN new THEN 0 ELSE @[u][s]]]]

(* semop(): all the operations of the group, or none and the process waits. *)
Apply(vals, ops) ==
    FoldLeft(LAMBDA st, op :
               IF ~st.ok THEN st
               ELSE IF st.vals[op.num] + op.op < 0 \/ (op.op = 0 /\ st.vals[op.num] # 0)
               THEN [st EXCEPT !.ok = FALSE, !.nowait = "n" \in op.flg]
               ELSE [st EXCEPT !.vals[op.num] = @ + op.op],
             [vals |-> vals, ok |-> TRUE, nowait |-> FALSE], ops)
Undone(adj, ops) ==
    FoldLeft(LAMBDA a, op : IF "u" \in op.flg THEN [a EXCEPT ![op.num] = @ - op.op] ELSE a, adj, ops)

(* An operation is typed as a number, a sign, a value and flags; "=" takes 0 only. *)
Malformed(t) == t.sign = "=" /\ t.value # 0
MutparseOps(group) == [i \in DOMAIN group |->           \* the second flag letter is not looked at
    [num |-> group[i].num, op |-> IF group[i].sign = "-" THEN -group[i].value ELSE group[i].value,
     flg |-> IF "n" \in group[i].flags THEN {"n"} ELSE group[i].flags]]
parseOps(group) == [i \in DOMAIN group |->
    [num |-> group[i].num, op |-> IF group[i].sign = "-" THEN -group[i].value ELSE group[i].value,
     flg |-> group[i].flags]]

Typed(t) == IF t.sign = "-" THEN -t.value ELSE t.value
Semop(u, ops, typed) ==
    LET r == Apply(Obj(u).vals, ops) IN
    /\ r.ok
    /\ Set(u, [Obj(u) EXCEPT !.vals = r.vals, !.adj[u] = Undone(@, ops),
                             !.net = FoldLeft(LAMBDA n, t : IF "u" \in t.flags THEN n
                                                            ELSE [n EXCEPT ![t.num] = @ + Typed(t)], @, typed)])

(* At exit the kernel takes back what was done with SEM_UNDO, down to 0 at most. *)
ExitUndo(u) ==
    IF Removed(u) THEN UNCHANGED objs
    ELSE LET o == Obj(u) IN
         Set(u, [o EXCEPT !.vals = [s \in Sems |-> Max({0, o.vals[s] + o.adj[u][s]})],
                          !.adj[u] = [s \in Sems |-> 0],
                          !.clamped = @ \/ \E s \in Sems : o.vals[s] + o.adj[u][s] < 0])

svsem_op(u) ==
    \/ kind = "svsem" /\ \E line \in SemLines : Opens(u, "svsem_op", line)
    \/ /\ tool[u].cmd = "svsem_op"
       /\ LET k == tool[u].pc  line == tool[u].arg
              over == k > Len(line)
              bad == ~over /\ \E i \in DOMAIN line[k] : Malformed(line[k][i])
              ops == parseOps(line[k])
              blocked == ~over /\ ~bad /\ ~Removed(u) /\ ~Apply(Obj(u).vals, ops).ok IN
          \/ /\ over \/ bad \/ Removed(u) \/ (blocked /\ Apply(Obj(u).vals, ops).nowait)
             /\ ExitUndo(u) /\ Ends(u)
          \/ ~over /\ ~bad /\ ~Removed(u) /\ Semop(u, ops, line[k]) /\ Goes(u, k + 1)
       /\ UNCHANGED <<kind, name, log>>

(* IPC_STAT, then SETALL; a wrong number of values ends it in between. *)
svsem_setall(u) ==
    \/ kind = "svsem" /\ \E v \in [Sems -> {0, 1}] : Opens(u, "svsem_setall", v)
    \/ /\ At(u, "svsem_setall", 1)
       /\ \/ Removed(u) /\ Fails(u)
          \/ /\ ~Removed(u) /\ Ends(u) /\ UNCHANGED <<kind, name, log>>
             /\ Set(u, [SetVals(Obj(u), tool[u].arg) EXCEPT !.clamped = FALSE])

One(op) == <<[num |-> 1, op |-> op, flg |-> {}]>>
OneTyped(op) == <<[num |-> 1, sign |-> IF op < 0 THEN "-" ELSE "+", value |-> IF op < 0 THEN -op ELSE op,
                   flags |-> {}]>>

(* Either a set with its first value, known to others only then, or one operation. *)
svsem_demo(u) ==
    \/ /\ kind = "svsem" /\ name = 0 /\ RunsAtOnce(u) /\ UNCHANGED <<kind, log>>
       /\ \E v \in {0, 1} : OpenCreate(TRUE, SetVals(NewSet, [s \in {1} |-> v]))
    \/ kind = "svsem" /\ \E op \in {-1, 0, 1} : Opens(u, "svsem_demo", [op |-> op])
    \/ /\ At(u, "svsem_demo", 1)
       /\ \/ Removed(u) /\ Fails(u)
          \/ /\ ~Removed(u) /\ Semop(u, One(tool[u].arg.op), OneTyped(tool[u].arg.op))
             /\ Ends(u) /\ UNCHANGED <<kind, name, log>>

(* Creating and SETVAL are two steps: an operation between them is lost. *)
svsem_bad_init(u) ==
    \/ /\ kind = "svsem" /\ OpenCreate(TRUE, NewSet) /\ Starts(u, "svsem_bad_init", name', [mine |-> name = 0])
       /\ UNCHANGED <<kind, log>>
    \/ /\ tool[u].cmd = "svsem_bad_init"
       /\ \/ Removed(u) /\ Fails(u)
          \/ /\ ~Removed(u) /\ tool[u].pc = 1 /\ tool[u].arg.mine
             /\ Set(u, SetVals(Obj(u), [s \in {1} |-> 0])) /\ Goes(u, 2) /\ UNCHANGED <<kind, name, log>>
          \/ /\ ~Removed(u) /\ (tool[u].pc = 2 \/ ~tool[u].arg.mine)
             /\ Semop(u, One(1), OneTyped(1)) /\ Ends(u) /\ UNCHANGED <<kind, name, log>>

(* The event flags: semaphore 2, which is 0 when the flag is set. *)
waitForEventFlag(u) ==
    \/ kind = "svsem" /\ Opens(u, "waitForEventFlag", <<>>)
    \/ /\ At(u, "waitForEventFlag", 1) /\ (Removed(u) \/ Obj(u).vals[2] = 0)     \* retried after EINTR
       /\ Fails(u)
FlagTo(u, v) == /\ kind = "svsem" /\ RunsAtOnce(u) /\ UNCHANGED <<kind, name, log>>
                /\ objs' = IF name = 0 THEN objs ELSE [objs EXCEPT ![name] = SetVals(@, [s \in {2} |-> v])]
clearEventFlag(u) == FlagTo(u, 1)
setEventFlag(u) == FlagTo(u, 0)

---------------------------------------------------------------------------
Next == Choose \/ \E u \in Users :
    \/ pmsg_create(u) \/ pmsg_send(u) \/ pmsg_receive(u) \/ pmsg_unlink(u)
    \/ psem_create(u) \/ psem_wait(u) \/ psem_trywait(u) \/ psem_timedwait(u) \/ psem_post(u) \/ psem_unlink(u)
    \/ pshm_create(u) \/ pshm_write(u) \/ pshm_read(u) \/ pshm_unlink(u)
    \/ svmsg_create(u) \/ svmsg_send(u) \/ svmsg_receive(u) \/ svmsg_chqbytes(u) \/ svmsg_rm(u)
    \/ svsem_create(u) \/ svsem_op(u) \/ svsem_setall(u) \/ svsem_demo(u) \/ svsem_bad_init(u) \/ svsem_rm(u)
    \/ waitForEventFlag(u) \/ clearEventFlag(u) \/ setEventFlag(u)

---------------------------------------------------------------------------
(* Messages of one priority (pmsg_send.c:56) or type (svmsg_send.c:79) of one queue are
   received once each and in the order in which they were sent, whoever receives them
   and whatever was removed and created again under the same name; and what
   svmsg_receive shows as a string ends with a null byte unless -e cut it. *)
MessagesRight ==
    /\ \A i, j \in DOMAIN log.got : i # j => log.got[i].id # log.got[j].id
    /\ \A i, j \in DOMAIN log.sent :
         i < j /\ log.sent[i].q = log.sent[j].q /\ log.sent[i].class = log.sent[j].class
           => \A g \in DOMAIN log.got :
                log.got[g] = log.sent[j] => \E h \in 1..(g - 1) : log.got[h] = log.sent[i]
    /\ \A i \in DOMAIN log.sent :
         \/ \E g \in DOMAIN log.got : log.got[g] = log.sent[i]
         \/ Contains(objs[log.sent[i].q].msgs, log.sent[i])
    /\ \A p \in log.printed : p.nul \/ p.empty \/ p.cut

(* A semaphore is what it was created with and what was posted and taken since, on the
   object that each tool opened (psem_wait.c:37); a set is what the operations typed
   without "u" make it once the processes that typed "u" have ended (svsem_op.c:83). *)
SemaphoresRight ==
    /\ kind = "psem" => \A i \in DOMAIN objs : objs[i].value = log.count[i] /\ objs[i].value >= 0
    /\ kind = "svsem" => \A i \in DOMAIN objs : \A s \in Sems :
         LET o == objs[i] IN
         /\ o.vals[s] >= 0
         /\ name = i /\ ~o.clamped => o.vals[s] = o.net[s] - MapThenSumSet(LAMBDA u : o.adj[u][s], Users)
         /\ (\A u \in Users : tool[u].cmd # "svsem_op") /\ name = i /\ ~o.clamped => o.vals[s] = o.net[s]

(* Left alone, pshm_write leaves exactly its string in the object, although the object
   was longer or shorter before, and pshm_read shows all of it (pshm_write.c:40). *)
MemoryRight == log.wrong = {}

IpcRight == MessagesRight /\ SemaphoresRight /\ MemoryRight
=============================================================================
