# A TLA+ verification of the programs of *The Linux Programming Interface*

The repository holds some 900 small programs: `src/book-src` is the code of the
book, one directory per topic, and `src/exercises` the repository owner's
solutions to its exercises. There is no single system. What can go wrong in
these programs, and what a test would hardly reach, is in how a process
interleaves with its signal handlers, its threads, its children and the other
processes it talks to, and, in a few, in what they compute. The modules here
model the programs that have such a protocol or such an algorithm. They are
checked with TLC on small instances, and the central safety properties of seventeen
of the modules are proved with TLAPS for every value of the constants.

`PROJECT.json` lists components, runs, mutations, the map from definitions to
source lines, findings, hazards and theorems. This file explains them.

## 1. The parts and their modules

Each module has its state as variables, one action per step of the program that
another actor can observe, and a program counter named after the system calls.
A module belongs to one program and its variants, or to a family of programs
that make the same calls. Where several programs share a module, a variable
(`program`, `version`, `prog`) says which one runs in a behaviour. Modules that
join related parts give each part an `Init` and a `Next` of its own
(`LockInit` and `LockingNext` in `FileSharing`, for example).

Three modules, `Forks`, `Signals` and `Threads`, hold many short programs. There
a program is the list of calls it makes, in the order of the source, and one set
of actions executes the calls: processes, pipes and stdio buffers in `Forks`;
pending signals, masks, handler frames and timers in `Signals`; mutexes,
condition variables, barriers and cancellation in `Threads`.

`errExit()` and `fatal()` appear as a state ("failed", "killed", `dead`) in which
the process has ended. Output and formatting are left out unless a property is
about them. Definitions named `Mut...` are mutations: the definition that
follows, with a plausible bug. They are part of no specification; `PROJECT.json`
says which property each one breaks.

### Files

| Module | Models | What makes it hard |
|---|---|---|
| `InotifyDtree` | `inotify/inotify_dtree.c`, its cache of directory paths, watches and commands, with `rand_dtree.c` and other users changing the trees | a rename is two events, which may come in two `read()`s; the queue overflows; the tree changes while `nftw()` walks it |
| `WatchTree` | `exercises/19-.../watch-directory-tree.c` | the tree changes between an event and the watch it leads to; users of three kinds: any operation at any time, waiting for the program between operations, or only creating |
| `FileSharing` | `filelock/create_pid_file.c`; `i_fcntl_locking.c`, `t_flock.c`; `fileio/atomic_append.c` and its rewrite | two daemons start at once, either dies, the file is deleted; waiting requests and circular waits, locks of a process and of an open file; seek and write are two steps |
| `IpcTools` | the tools of `pmsg/`, `psem/`, `pshm/`, `svmsg/`, `svsem/`, with `event_flags.c` | users run them at the same time; a name is removed and given to a new object while somebody uses the old one |

### Algorithms

| Module | Models | What makes it hard |
|---|---|---|
| `Malloc` | `exercises/07-.../malloc.c` | long sequences of calls, the width of `size_t`, foreign `sbrk()` |
| `Seccomp` | the filter programs of `seccomp/`, as BPF programs that are interpreted | architectures, 64-bit arguments, several filters, `execve()` |
| `AccessControl` | `acl/acl_update.c`; `namespaces/ns_capable.c` | one bad entry among several over several files; a walk over user namespaces that opens and closes descriptors as it goes |
| `Rewrites` | the exercises that replace `tail`, `readv()`, `writev()`, `getcwd()`, `access()`, `dup()` and `setenv()`; `proc/setenv.c`; `procexec/execlp.c` | each is compared with a definition of what it replaces, the known deviations included |

### Processes

| Module | Models | What makes it hard |
|---|---|---|
| `SigPingPong` | `exercises/22-.../benchmark/sig*.c`, `exercises/24-.../fork_sig_sync.c` | a standard signal is not queued |
| `Signals` | single-process programs of `signals/`, `timers/`, `daemons/` and `exercises/20`, `22`, `23` | a signal between any two steps |
| `Ptmr` | `timers/ptmr_sigev_signal.c` and its rewrite, `ptmr_sigev_thread.c` | expirations during set-up and during handling; several notification threads at once |
| `Children` | `procexec/multi_SIGCHLD.c`, `multi_wait.c`, `system.c`, `simple_system.c`, `namespaces/simple_init.c` | a SIGCHLD for several children; children that end before they are waited for |
| `Forks` | `procexec/`, `pipes/`, `mmap/anon_mmap.c` and `exercises/24` to `28` | open pipe ends, failing `fork()`, memory shared by `vfork()`, stdio buffers |
| `Terminals` | `tty/` modes and `handling_SIGTSTP.c`; `pty/script.c` and `unbuffer.c`; the SIGHUP and job programs of `pgsjc/` | stop, continue and end in every state of the terminal; which group gets SIGHUP |
| `Namespaces` | `userns_child_exec.c`, `ns_child_exec.c`; `demo_clone.c`, `t_clone.c`, `multi_pidns.c`; the parent-death signal chain | parent and child meet on a pipe, either may die |
| `SeccompNotify` | `seccomp/seccomp_user_notification.c` with `sockets/scm_functions.c` | a call interrupted while its notification is being handled |

### Threads

| Module | Models | What makes it hard |
|---|---|---|
| `OneTimeInit` | both versions of `one_time_init()` | the flag is read without the mutex |
| `MultiJoin` | `threads/thread_multijoin.c` | joins under the mutex, lost and spurious wake-ups |
| `ProdCons` | `threads/prod_condvar.c`, `prod_no_condvar.c` | lost wake-ups, `exit()` while producers run |
| `Threads` | the other programs of `threads/`, `psem/thread_incr_psem.c`, `exercises/29` to `33` | lost updates, cancellation between two calls, destructors |

### Interprocess communication

| Module | Models | What makes it hard |
|---|---|---|
| `PosixMq`, `MqNotifyFlag`, `MqNotifySuspend`, `MqNotifyThread` | the six `pmsg/mq_notify*` programs; the queue is its length | a notification is one-shot; a message queued before registration is never notified |
| `FifoSeqnum` | `pipes/fifo_seqnum_{server,client}.c` | clients that fail or are killed at any point; a blocking `open()` returns together with its peer's; the counter is an `int` |
| `SemInit` | `svsem/svsem_good_init.c` | creation and initialisation are two steps |
| `ShmXfr`, `Transfer` | `svshm/svshm_xfr_{writer,reader}.c` on `svsem/binary_sems.c`; `Transfer` is the abstract one-block channel | death of either process, objects removed too early |

### Servers

| Module | Models | What makes it hard |
|---|---|---|
| `StreamServers` | the stream servers and clients of `sockets/` and `exercises/57`, `59`, `61`, with their three line readers | reads that cut the stream anywhere, killed clients, dead children |
| `SocketMessages` | datagram servers; `scm_rights`, `scm_cred` and `scm_multi` | loss, duplication and truncation; ancillary data that does not fit |
| `FileServer` | `svmsg/svmsg_file_{server,client}.c` | a full queue, a client that leaves early, EINTR |
| `Altio` | `altio/self_pipe.c`, `select_mq.c`, `epoll_input.c`, `demo_sigio.c` and the epoll experiments | a signal just before `select()`, edges reported once |

The kernel and the C library (queues, `sbrk()`, `kill()`, `nftw()`, timers,
sockets) are not in the repository. They are modelled from how the programs use
them and marked external in the map.

Parts interact where the programs do. `ShmXfr` composes a writer and a reader
with the operations of `binary_sems.c`; `FifoSeqnum`, `StreamServers`,
`SocketMessages` and `FileServer` a server with any number of clients;
`SigPingPong` a parent and a child; `InotifyDtree` the monitor with the users of
its trees; `SemInit` any number of processes running the same program.

## 2. Runs

The programs of a family share a run. In `MCFiles` the variable `program`, in
the other `MC` modules the variable `running`, is chosen in the first state: that
program runs, and the variables of the others keep their initial values, so the
state spaces add up and do not multiply. A property of such a run is the
conjunction of what the components promise; the comment above it says which
component properties it joins.

| Run | Module | Distinct states |
|---|---|---|
| `files` | `MCFiles`: inotify monitors, PID file, locks, appenders, IPC tools | 850112 |
| `algorithms` | `MCAlgorithms`: allocator, seccomp filters, ACLs, capabilities, rewrites | 53835 |
| `processes` | `MCProcesses`: signals, timers, children, forks, terminals, namespaces, seccomp notification | 96636 |
| `threads` | `MCThreads`: one-time initialisation, joins, producers, the other thread programs | 10750 |
| `ipc` | `MCIpc`: FIFO server, six `mq_notify` programs, semaphore initialisation | 174247 |
| `servers` | `MCServers`: stream, datagram and file servers, descriptor passing, `altio/` | 563850 |
| `shm_xfr` | `ShmXfr` | 351 |

What they show:

- **files.** `TreesFollowed`: both directory watchers hold exactly the
  directories that exist once the events are processed, if nothing changed while
  they worked; `inotify_dtree.c` also after it has rebuilt its cache because of
  an overflow or an inconsistency. `NoLeak`: whatever changes when, no watch and
  no cache entry is left behind and recorded paths are right. `SharingRight`: one
  daemon runs and the PID file names it; locks exclude, no circle of users waits;
  appends through `O_APPEND` are not lost. `IpcRight`: messages arrive by priority
  or type, and oldest first; a semaphore has the value its history gives; what a
  tool wrote alone is what is there.
- **algorithms.** `LiveDisjoint`, `OnHeap`, `FreeSucceeds`: live blocks do not
  overlap, lie below the break, and `myFree()`'s assertion holds.
  `FilterVerdicts`: every filter lets through and stops what its program says,
  also on other architectures and together with others. `AclsUpdated`: a
  successful run leaves every file with the ACL asked for, and whenever the
  program stops no file has an invalid ACL and the files after the failing one
  are untouched. `VerdictRight`: the printed verdict is what the kernel's rules
  say, for every tree of namespaces (it says nothing about descriptors).
  `LibraryRight`: the rewrites do what they replace does, but for the deviations
  listed below.
- **processes.** `NoCoalescing`, `ParentAfterChild`: no signal of the ping-pong is
  lost. `SignalsRight`: masks protect what they are meant to, no signal or
  expiration is lost or seen twice, sleeps are never too short. `ChildrenRight`: no
  zombie is forgotten, and `system()` gets its own child's status and gives the
  dispositions back. `ForksRight`: no process waits for an end of file that cannot
  come, and what is transferred is complete. `TerminalsRight`: a terminal is given
  back whenever its program stops or ends, a pseudo-terminal relays everything,
  hangups reach the groups they are meant for. `NamespacesRight`: commands run with
  the maps, identity and sharing that the options ask for, and every ancestor's
  death is announced. `AnswersMatch`: the target's `mkdir()` succeeds only for a
  pathname below `/tmp` and after the supervisor has called `mkdir()` for this very
  call, fails with EPERM only for others, and no call is answered twice.
  `SignalsArrive` (liveness): both sides finish; every expiration is shown.
- **threads.** `AtMostOnce`, `ReturnsInitialised`: the init function runs once,
  and before any call returns. `JoinRight`: counters agree with the table, no lost
  wake-up, a join never waits for a thread that needs the mutex. `ConsumedRight`:
  units are conserved. `ThreadsRight`: no update under a lock is lost, cleanup
  leaves the mutex free, barriers hold, buffers are private. `ThreadsEnd`
  (liveness): all is joined and consumed.
- **ipc.** `UniqueRanges`, `RepliesAllocated`: until the counter passes `INT_MAX`
  ranges never overlap, and a client that got a number owns it. `Notified`: in all
  six programs `mq_notify()` never fails with EBUSY and no message is stranded; one
  queued before the registration is lost for good in the two programs whose
  comments warn of it. `NothingLost`: no semaphore operation is lost to the
  initialisation. `IpcProgress` (liveness): messages are received, nobody waits
  for ever for the initialisation, clients are served.
- **servers.** `StreamsRight`: what a client gets is the answer to its own
  requests, whole and in order, however reads cut the stream and whoever is
  killed; ended children are reaped; no client waits for an answer nobody will
  send. `DatagramsRight`: answers come in order unless the network duplicates, and
  a waiting client has a datagram on its way unless one was lost or the server
  ended. `FilesRight`: a client gets the start of its own file or its own error,
  the whole file if no call failed. `Passed`: descriptors and credentials arrive
  as sent. `NothingMissed`: no input, signal or message is missed. The cases these
  five leave out are listed below.
- **shm_xfr.** `Exclusive` turns, `ObjectsOutliveReader`, `BothFinish`, and
  `ImplementsTransfer`, the refinement of the abstract channel `Transfer`, which
  includes order and completeness.

Five more runs each show that a program does not do what a comment or a text
says of it. They are the findings of `PROJECT.json`:

- `watch_tree_nested`: `handleEvent()` of `watch-directory-tree.c` watches a new
  directory but does not look for subdirectories made before the watch was set.
  The users of this run only create directories.
- `inotify_dtree_rename`: a directory renamed while `nftw()` walks the tree is
  missing from the cache for good. `TreesFollowed` is therefore stated for trees
  that rest while the program works.
- `execlp_argv`: `execlp.c` grows its vector by one slot and records 100.
- `simple_init_pause`: SIGCHLD is not blocked between `fork()` and `pause()`, so
  the shell of `simple_init.c` may wait for a signal that has been handled.
- `userns_maps`: a child of `userns_child_exec.c` whose parent fails executes its
  command without the maps.

### Exceptions in the properties

Where the code makes an exception, the property states it. These are all of them;
what the code does in these cases is in the model, but nothing is claimed of it.

Files:

- `CalmConsistent` speaks of trees that rest while `inotify_dtree.c` works; what a
  rename during the walk does is a finding.
- `PatientWatched` speaks of users who wait for the program between their
  operations. With others, a directory removed before its event is handled ends
  the program (`watchDir()` exits), and a nested one can be missed, which is a
  finding.
- `OneInstance` holds until the PID file is deleted; afterwards two daemons may run,
  each with a file of its own.
- `NoCircularWait` ends with the first command for open file description locks:
  `fcntl()` does not look for circles among those.

Algorithms:

- `LibraryRight`: `tail` prints one newline more than the real one, the whole file
  for `-n 0`, and is right exactly if the lines lie in the last `MAX_BUFFERS_CNT`
  blocks; `duplicate2()` of a
  descriptor and itself ends the process, `duplicate()` does when no descriptor is
  free; `myunsetenv()` leaves one of two neighbouring definitions of a name.
- `VerdictRight` is about the verdict. That a failing `ns_capable` leaves its
  descriptors to `exit()` is in the model, and no property is about it.

Processes:

- `SignalsSeen`: a sleep restarted after signals is longer than asked for by the
  time spent outside it and by less than one granule of the clock per sleep; an
  alarm that comes before `read()`, or a restarted `read()`, leaves `timed_read.c`
  waiting.
- `AllShown` in `Ptmr`: the exercise arms its timers before it blocks their
  signal, and an expiration in between ends it.
- `Counted` in `Ptmr`: `ptmr_sigev_thread.c:44` calls `expireCnt` the "Number of
  expirations of all timers". It is, unless a timer has two threads that have not
  counted yet: both then add the overruns of the later notification, and nothing
  more is claimed of the count. `MainTold`: what is counted before `main()` takes the
  mutex is not printed until the next expiration, because nobody waits for its
  signal.
- `ChildrenRight`: `simple_system.c` gives up when a signal interrupts `waitpid()`
  and leaves its child to the caller; what `system.c` promises is claimed of that
  program alone.
- `ForksRight`: what is transferred is claimed when no `fork()` failed.
- `MapsKeepCaps`: a child whose parent has failed is left out; it is a finding.
- `AnswersMatch`: the supervisor ignores what its own `mkdir()` returns, so success
  is reported also when the directory could not be made.

Threads:

- Memory is sequentially consistent. The unlocked read of the flag in the
  exercise's `one_time_init()` is a data race in C; the model has its
  interleavings, not what a compiler or a weaker memory may add.
- `PcTerminates` in `ProdCons`: with nothing to produce, `prod_condvar.c` never
  sets `done` and waits for ever, so some producer makes a unit.
- `ThreadsRight`: a thread of `thread_cleanup.c` cancelled before it has pushed
  its handler (`thread_cleanup.c:46`) leaks its buffer, and the property excepts it.
  Of the self-join and detached-thread programs it only says how the program does
  not end.
- `NoLostIncrement`: without a lock (`thread_incr.c`) increments are lost, and the
  property says only how many may be.

Interprocess communication:

- `MissedIsForever`, and `missed` in `NoStranded` and `EventuallyDrained`: a
  message queued before the first registration.
- `UniqueRanges` and `RepliesAllocated` end where `seqNum` passes `INT_MAX`
  (`wrapped`); from there on ranges repeat.
- `Served` in `FifoSeqnum`: a client killed between its request and its `open()`
  leaves a FIFO on which the server's `open()` waits for ever. The property says that
  nothing else stops the server.

Servers:

- `StreamsRight`: a request without a key makes `kv_server.c` use an
  uninitialised index, so its answer and the server's survival are not claimed, nor
  is the answer to a key outside the table. A request without an end of line, or
  an echo client whose parent was killed before `shutdown()`, keeps its server
  waiting. When `fork()` fails, `remote_execution/server.c:73` goes on without
  closing the connection, so its client waits.
- `DatagramsRight`: under loss the client of `i6d_ucase` waits for ever; a copied
  datagram shifts the answers; the `ud_ucase` server ends when a client is gone before it
  is answered, the server of `udp-reliability` when two senders count at the same
  time.
- `FilesRight`: after a failing `read()`, or when the server has given up, a client
  may get less than its file; the queue of a killed client stays.
- `Passed`: that no descriptor is left over is claimed without `-n`. What
  `CMSG_NXTHDR` finds behind a truncated header, and whether a sender without
  credentials is given its own, is open in the model; credentials of nobody appear
  only where no byte of data was sent.
- `NothingMissed`: `epoll_input.c` closes a FIFO that got a new writer after the
  hang-up was returned; with `-xo` and `-sp` no waiter of the epoll experiments is
  ever woken; input typed before `demo_sigio.c` sets O_ASYNC raises no signal;
  `select_mq.c:150` takes an empty message for end of file, so the run sends none.

### Bounds

The constants are in the `.cfg` files; the sets too long for one are the
definitions `MC...` of the `MC` modules. They are chosen so that each resource can
be empty, partly used and full, and so that one actor can be served, one dead and
one waiting.

- `files`: 4 directories in two trees (the WatchTree part: 3), 2 names, at most 2
  changes by users, an event queue of 2, so that it overflows; an inode is used
  once and a name again and again, so a path can belong to a second directory
  while events of the first are queued. 2 daemons and 3 files for the PID file,
  which may be deleted and made again. 2 users and 2 flockers on 2 bytes with 2
  commands each; 2 writers of 3 bytes with a buffer of 2. 2 users of the IPC
  tools, 4 invocations, 2 objects, so that a name is reused.
- `algorithms`: 4-bit sizes, a heap of 12 units, requests of 0 to 3: enough for
  reuse of a larger block, a foreign `sbrk()` between blocks and exhaustion.
  Filters are tried with every system call they mention on every architecture.
  `MAX_ENTRIES` is 3, so that a specification can be too long; 4 user namespaces,
  in every shape of tree; texts of up to 5 characters read in blocks of 2 and 3,
  of which `tail` holds 2 (`MAX_BUFFERS_CNT`), so that it runs out of them; tables
  of 3 descriptors, which can be full; environments of 3 definitions, which can
  define a name twice; PATHs of up to 4 characters with empty prefixes anywhere; an
  argument vector that grows by 4 (100 in the code).
- `processes`: 5 rounds of the ping-pong (the theorem covers every number); 2
  timers with 3 expirations: one shown, one queued, one overrun; 3 signals at
  arbitrary moments; sleeps of 3 ticks on a clock with granules of 2, with up to 2
  ticks spent outside a sleep, so that rounding up and time away both show; one
  SIGINT and at most 2 repeatable options; 3 children; 2 characters typed and written; 2 group members;
  3 levels of PID namespaces; chains of 2 ancestors with 2 threads.
- `threads`: 3 threads, so that two can contend while a third is past the section;
  2 calls or loops each. Three producers with different counts.
- `ipc`: 3 clients with lengths 1 and 3, and an `INT_MAX` of 5, which the counter
  passes: one client served, one dead, one queued. Queue
  capacity 2 and 4 messages, so that a second notification can meet the handling
  of the first. 3 processes with operations -1, 0 and 2, and 2 tries for
  `MAX_TRIES`, which is 10 in the code; only that the number is finite matters.
- `servers`: 2 clients, one of which may be killed; buffers, queues and pipes of 2;
  one failing call; one lost or duplicated datagram. 3 clients of the file server,
  with files of three blocks, one block and one that cannot be opened, and queues
  of 2 bytes. Control buffers of sizes just below, at and above what each message
  needs. 2 waiters on an epoll instance; messages of one length that is not 0.
- `shm_xfr`: 4 blocks; a turn depends only on the previous one, and the theorem
  covers every number.

Actors are not declared symmetric: clients have different lengths, and liveness
is checked in most runs.

### Fairness

Weak fairness of each process or thread says that the scheduler runs whatever
can run. Stronger assumptions are made in four places:

- `MCIpc`: a pending signal that is not blocked is delivered.
- `Ptmr`: strong fairness of accepting each timer's signal, since signals of one
  number are delivered in the order in which they were queued.
- `MultiJoin`: strong fairness of each thread, since `main()` may take the mutex
  any number of times after spurious wake-ups.
- `ProdCons`: the same, because the consumer of `prod_no_condvar.c` takes and
  releases the mutex without pause and POSIX promises no order to the producers:
  without it the polling program need not end.

Failures and kills are never fair: they may happen and need not. `files`,
`algorithms` and `servers` state no liveness and assume no fairness; where a
program may have to wait for somebody there, a safety property says that the
other one can still act (`NoStuckClient`, `NoCircularWait`, `NoHang`).

`CHECK_DEADLOCK FALSE` stands in every configuration, since every program may
end, fail, or wait for input that nobody types. That nobody waits for ever is
stated by the properties instead.

## 3. Hazards and properties

`PROJECT.json` lists each hazard at its line with the properties aimed at it.
The properties fall into five groups: nothing is lost (`Notified`, `NoCoalescing`,
`SignalsRight`, `NothingLost`, `NothingMissed`, `ConsumedRight`); nothing happens
twice or to two at once (`AtMostOnce`, `Exclusive`, `UniqueRanges`,
`LiveDisjoint`, `SharingRight`); nothing is used too early or too late, or left
behind (`ReturnsInitialised`, `ObjectsOutliveReader`, `ParentAfterChild`, `NoLeak`,
`ChildrenRight`, `TerminalsRight`); what is computed is right (`FilterVerdicts`,
`AclsUpdated`, `VerdictRight`, `LibraryRight`); and something happens in the end
(`IpcProgress`, `ThreadsEnd`, `SignalsArrive`, `BothFinish`).

## 4. Proofs

Each theorem is proved by the usual three facts: an inductive invariant holds
initially, every step preserves it, and it implies the property. There are eight
proof modules, each for one or several components.

| Module | Theorems | Inductive invariant |
|---|---|---|
| `FileSharingProofs` | `SharingCorrect` | `PidInv`, `LockInv`, `AppendInv` |
| `AlgorithmsProofs` | `MallocCorrect`, `AclCorrect`, `CapableCorrect` | `IInv`, `AclInv`, `CapInv` |
| `ProcessesProofs` | `SigPingPongCorrect`, `ChildrenCorrect` | `IInv`, `ChildrenInv` |
| `ThreadsProofs` | `OneTimeInitCorrect`, `MultiJoinCorrect`, `ProdConsCorrect` | `OnceInv`, `MjInv`, `PcInv` |
| `IpcProofs` | `FifoSeqnumCorrect`, `SeqUnique`, `SeqAllocated`, `MqNotifyCorrect`, `SemInitCorrect` | `SeqInv`, one of `FlagInv`, `SuspendInv` and `ThreadInv`, `SemInv` |
| `SocketMessagesProofs` | `DatagramsCorrect`, `PassingCorrect` | `DgInv`, `ScmInv` |
| `FileServerProofs` | `FileServerCorrect` | `FsInv` |
| `ShmXfrProofs` | `ShmXfrCorrect`, `ShmXfrImplements`, `NotifyCorrect` | `IInv`, `NotifyInv` |

The arguments:

- *PID files.* A daemon past `lockRegion()` holds the lock on the inode it opened,
  so nobody overwrites what it wrote (`Holds`); until the file is deleted, all have
  opened the same inode (`Named`).
- *Locks.* A circle of waiting processes through one that begins to wait would,
  cut down to those its first neighbour waits for, have been a circle before.
  Until an OFD command is typed all locks belong to processes (`ProcessLocks`).
- *Appending.* Whoever has called `lseek()` has written nothing behind the place
  it goes to write at (`BehindOffset`); bytes are missing only if another process,
  without O_APPEND, has written (`NoneLost`).
- *Malloc.* The blocks lie in the list in the order of addresses and do not
  overlap (`Ordered`), because `sbrk()` only moves the break up. The theorem has the
  hypothesis `SmallRequests`: no request, with its header, reaches half of
  `SizeMod`. Nothing in the code enforces it; a larger request is negative as the
  argument of `sbrk()`, which lowers the break while the block is still handed out.
- *acl_update.* The invariant says what the entries applied so far make of the
  ACL of the current file (`Partly`). Recalculating the mask after each entry, as
  the code does, is the same as once at the end (`MaskedChange`).
- *ns_capable.* The walk up the tree passes no ancestor over (`Walked`);
  `Descriptors` says which descriptors are open at each place, which the walk
  needs because it reads the tree through them.
- *SigPingPong.* In round n the two processes are in one of a few joint positions,
  with the one signal in one place and the four counters given by n.
- *Children.* `InSystem` says what keeps the caller's handler out of `system()` from
  its first statement to its last; the counters count the children not yet reaped.
- *OneTimeInit.* Whoever is between lock and unlock holds the mutex; the flag
  and the two counters of the init function follow from where the holder is
  (`OncePhase`), and who leaves saw the flag set (`SawDone`).
- *MultiJoin, ProdCons.* The counters are the cardinalities of sets of threads or
  of units while the mutex is free, and a sleeper is woken by whoever is still to
  signal. Sums over producers are cardinalities of sets of pairs.
- *FifoSeqnum.* While the counter has not wrapped, every range handed out ends at
  or below it, except the one whose reply was just written, which starts at it
  (`SeqRanges`).
- *mq_notify.* The right to register is a token in exactly one place: the kernel,
  a pending signal, the flag, the loop between clearing the flag and registering, or
  one thread. A message waits behind a registration only while somebody drains.
- *SemInit.* Only the creator initialises, and nobody performs an operation before
  `sem_otime` says that it has finished, so the value is the sum of the operations.
- *Datagrams.* Each client has at most one datagram in the system as long as
  none is copied (`Single`), and it is the one the client waits for (`Content`).
- *Passing.* The invariant follows the message from the sender's buffer to the
  socket and through the receiver's walk over the headers (`InSocket`, `Walking`);
  which headers fit a buffer is the subject of a few lemmas on sizes.
- *FileServer.* A request is in one place: on its way, with the server or with a
  child (`OnePlace`); what is in the client's queue, after what it has received, is
  what its child has sent (`InFlight`, `Received`).
- *ShmXfr.* There is one turn: in WRITE_SEM, with the writer, in READ_SEM or with
  the reader (`Turn`, between `Setup` and `After`), and where it is says what the
  segment holds (`Data`). Every step is then a step of `Transfer` or none.
- *SeccompNotify.* What the tracer knows is about the call it has received, and
  that call is the waiting one if the two have the same number (`Traced`); a call
  that waits has not returned (`Waiting`).

Assumptions. Some of the named `ASSUME`s say what the code enforces:
`SeqLensAssumption` and `SigsAssumption` are `getInt(..., GN_GT_0)`,
`OnceAssumption`, `MjAssumption` and `BlocksAssumption` the types of counts. Others
describe the world around the code: the files of one `acl_update` command line are
different, a message has at most 1024 descriptors, the size of a queue and the
number of faults are natural numbers, marks such as `None` and `Nobody` are no
processes. Two are stronger than the code: `SmallRequests`, above, and `Units` of
`ProdCons`, natural numbers, while `atoi()` lets a negative count through.

Only model-checked:

- all liveness properties, since fairness and `ENABLED` are outside the prover's
  reach;
- `Seccomp`, `Rewrites` and `Namespaces`, whose recursive definitions the prover
  does not take;
- `Forks`, `Signals` and `Threads`, tables of fixed programs, for which a proof
  would add little to the enumeration;
- `InotifyDtree`, `WatchTree`, `IpcTools`, `Terminals`, `Ptmr`, `StreamServers` and
  `Altio`.

## 5. Not modelled

Most of the remaining programs make one system call, or walk over file system or
process metadata, and print what they find. They have no state of their own and
no second actor. `PROJECT.json` lists them by group with the reason:

- printing of kernel or library data: time, system information, limits, login
  accounting, users, extended attributes, directories, event printers, the
  inspection tools of the IPC directories, credentials and capabilities;
- one pass over its input: file I/O and buffering demonstrations, memory mappings
  (`anon_mmap.c` is in `Forks`), options, shared libraries, exec demonstrations;
- a fixed sequence of calls: `becomeDaemon()`, syslog, most of cgroups,
  priorities and resources;
- `timers/demo_timerfd.c`, `ptmr_null_evp.c`: print one expiration after another;
- `sockets/rdwrn.c` and `read_line_buf.c`: no program of the repository calls
  them; the remaining socket programs make a few calls in a row and print;
- remaining signal demonstrations: `crypt()`'s static buffer, signal stacks and
  `abort()` depend on library internals.

Left out of modelled parts:

- `ShmXfr` starts without objects of an earlier, killed transfer; with a left-over
  semaphore set the reader may be given a turn before the writer has reset
  `READ_SEM`. `binary_sems.c` is used with its default settings, so SEM_UNDO is
  left out.
- `WatchTree` leaves out renames and queue overflow, which the program only
  prints. In `InotifyDtree` the commands that print or set an output option, and
  the length of pathnames, are left out.
- `Altio` leaves out `poll_pipes.c` and `t_select.c`, which make one call.
- Failures of pthread calls that end the process are left out of the thread
  modules, and failures of `malloc()` where the program does not check them.
- `zapSubtree()` of `inotify_dtree.c` removes its watches in one step. The texts given
  to `tail` hold no null bytes. Of `dirname-basename.c` the text that `basename()`
  computes, by exchanges that C leaves unsequenced, is left out; whose buffer it is
  in is modelled.
- `catch_rtsigs.c` waits until it is told to end; that it is told is not claimed.
