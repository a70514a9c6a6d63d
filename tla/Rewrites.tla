------------------------------- MODULE Rewrites -------------------------------
(***************************************************************************)
(* The exercises that write again what the C library or a command does:    *)
(* tail, readv() and writev(), getcwd(), access(), dup() and others;       *)
(* setenv() and unsetenv(); execlp(). Each of the three parts has          *)
(* variables and a next-state relation of its own.                         *)
(***************************************************************************)
EXTENDS Integers, Sequences, SequencesExt, FiniteSets, FiniteSetsExt

----------------------------------------------------------------------------
(***************************************************************************)
(* Library functions and commands that the exercises write again: tail     *)
(* (13-5), readv()/writev() (5-7), getcwd() (18-5), access() with the      *)
(* effective IDs (15-3), dup()/dup2() (5-4).  Each call is one step that   *)
(* records its arguments and its result.                                   *)
(***************************************************************************)
CONSTANTS Texts,        \* the contents of files: sequences over {NL, other}
          NL,
          MaxLines,     \* the values of -n
          BlockSizes,   \* f_bsize of the file system
          MAX_BUFFERS_CNT, \* the length of the array buffers (1000)
          Lengths,      \* bytesToRead of scatter-gather
          Trees,        \* [parent, entries, links]: directory trees
          Perms,        \* sets of permission bits
          Uids, Gids,
          MaxFd

VARIABLE call           \* the last call: [fn, its arguments, got]

Descending(S) == SetToSortSeq(S, LAMBDA a, b : a > b)

---------------------------------------------------------------------------
(* tail.c: buffers[0] holds the last block of the file, buffers[1] the one
   before it ...  A newline that ends the file does not count.  The texts have no
   null byte, at which printf() would stop. *)
readBuf(file, filePos, bufSize) == SubSeq(file, Max({0, filePos - bufSize}) + 1, filePos)

Output(buffers, initBuf, initBufPos) ==
    SubSeq(buffers[initBuf], initBufPos + 1, Len(buffers[initBuf]))
        \o FlattenSeq(Reverse(SubSeq(buffers, 1, initBuf - 1))) \o <<NL>>

Overrun == <<"overrun">>                    \* a block is read past the end of buffers

MutScan(file, n, bufSize, filePos, buffers, linesCount) ==     \* the boundary case dropped
    LET buffer == readBuf(file, filePos, bufSize)
        newlines == Descending({i \in DOMAIN buffer : buffer[i] = NL})
    IN  IF n \in DOMAIN newlines THEN Output(Append(buffers, buffer), Len(buffers) + 1, newlines[n])
        ELSE file

RECURSIVE Scan(_, _, _, _, _, _)
Scan(file, n, bufSize, filePos, buffers, linesCount) ==
    LET buffer == readBuf(file, filePos, bufSize)
        bufCount == Len(buffers) + 1
        newlines == Descending({i \in DOMAIN buffer : /\ buffer[i] = NL
                                                      /\ ~(bufCount = 1 /\ i = Len(buffer))})
        all == Append(buffers, buffer)
        stop == n - linesCount + 1
    IN  IF Len(buffers) = MAX_BUFFERS_CNT THEN Overrun
        ELSE IF stop \in DOMAIN newlines
        THEN IF newlines[stop] = Len(buffer)
             THEN Output(all, bufCount - 1, 0)
             ELSE Output(all, bufCount, newlines[stop])
        ELSE IF filePos - Len(buffer) = 0 THEN Output(all, bufCount, 0)
        ELSE Scan(file, n, bufSize, filePos - Len(buffer), all, linesCount + Len(newlines))

tail(file, n, bufSize) == Scan(file, n, bufSize, Len(file), <<>>, 1)

LastLines(file, n) ==
    LET ends == Descending({i \in 1..(Len(file) - 1) : file[i] = NL})
    IN  IF n \in DOMAIN ends THEN SubSeq(file, ends[n] + 1, Len(file)) ELSE file

RunTail == \E file \in Texts, n \in 0..MaxLines, b \in BlockSizes :
          call' = [fn |-> "tail", file |-> file, n |-> n, block |-> b, got |-> tail(file, n, b)]

---------------------------------------------------------------------------
(* scatter-gather.c: the vector has two bytes per buffer. *)
Junk == "junk"                              \* a byte of inBuffer nobody has written

RECURSIVE Split(_)
Split(bytes) == IF bytes = 0 THEN <<>> ELSE <<Min({bytes, 2})>> \o Split(bytes - Min({bytes, 2}))

RECURSIVE Scatter(_, _)
Scatter(lens, data) ==
    IF lens = <<>> THEN <<>>
    ELSE LET k == Min({Len(data), Head(lens)})
         IN  <<[i \in 1..Head(lens) |-> IF i <= k THEN data[i] ELSE Junk]>>
                \o Scatter(Tail(lens), SubSeq(data, k + 1, Len(data)))

customReadv(file, lens) ==
    LET sz == FoldSeq(LAMBDA l, s : s + l, 0, lens)
    IN  Scatter(lens, SubSeq(file, 1, Min({sz, Len(file)})))

customWritev(iov) == FlattenSeq(iov)

ScatterGather == \E file \in Texts, bytes \in Lengths :
    call' = [fn |-> "readv", file |-> file, n |-> bytes,
             got |-> customWritev(customReadv(file, Split(bytes)))]

---------------------------------------------------------------------------
(* getcwd.c: climb to the root, looking in every parent directory for the
   entry that is the directory just left.  stat() follows symbolic links. *)
Dangling == -1                              \* the entry is a symbolic link to nothing

RECURSIVE mygetcwd(_, _, _)
mygetcwd(tree, dir, cwd) ==
    IF tree.parent[dir] = dir THEN cwd
    ELSE LET up == tree.parent[dir]
             entries == tree.entries[up]
             stops == {k \in DOMAIN entries : entries[k].to \in {dir, Dangling}}
             first == entries[Min(stops)]
         IN  IF first.to = Dangling THEN <<"errExit">>
             ELSE mygetcwd(tree, up, <<first.name>> \o cwd)

RECURSIVE Lookup(_, _, _)
Lookup(tree, dir, path) ==                          \* where the kernel finds a path
    IF path = <<>> THEN dir
    ELSE LET hits == {k \in DOMAIN tree.entries[dir] : tree.entries[dir][k].name = path[1]}
         IN  IF hits = {} THEN Dangling
             ELSE Lookup(tree, tree.entries[dir][Min(hits)].to, Tail(path))

RunGetcwd == \E tree \in Trees : \E dir \in DOMAIN tree.parent :
    call' = [fn |-> "getcwd", tree |-> tree, dir |-> dir, got |-> mygetcwd(tree, dir, <<>>)]

---------------------------------------------------------------------------
(* access.c: the class of the caller decides which bits count; user 0 may all. *)
Class(file, euid, egid) == IF euid = file.uid THEN "USR" ELSE IF egid = file.gid THEN "GRP" ELSE "OTH"

myaccess(file, euid, egid, mode) ==
    euid = 0 \/ \A m \in mode : <<m, Class(file, euid, egid)>> \in file.perms

RunAccess == \E file \in [uid : Uids, gid : Gids, perms : Perms], e \in Uids, g \in Gids,
               mode \in SUBSET {"R", "W", "X"} :
    call' = [fn |-> "access", file |-> file, euid |-> e, egid |-> g, mode |-> mode,
             got |-> myaccess(file, e, g, mode)]

---------------------------------------------------------------------------
(* dup.c over a table of descriptors: fds[d] is the open file of d, 0 if none.  When
   fcntl() cannot duplicate, the functions end the process. *)
Exit == -2
F_DUPFD(fds, fd, atLeast) ==
    LET newFd == Min({d \in atLeast..(MaxFd + 1) : d > MaxFd \/ fds[d] = 0})
    IN  IF fds[fd] = 0 \/ newFd > MaxFd THEN [ret |-> Exit, fds |-> fds]
        ELSE [ret |-> newFd, fds |-> [fds EXCEPT ![newFd] = fds[fd]]]

duplicate(fds, fd) == IF fds[fd] = 0 THEN [ret |-> -1, fds |-> fds] ELSE F_DUPFD(fds, fd, 0)

duplicate2(fds, fd, fdNumber) ==            \* fdNumber is closed first, also if it is fd
    IF fds[fd] = 0 THEN [ret |-> -1, fds |-> fds]
    ELSE F_DUPFD([fds EXCEPT ![fdNumber] = 0], fd, fdNumber)

RunDup == \E fds \in [0..MaxFd -> 0..2], fd, fdNumber \in 0..MaxFd :
    \/ call' = [fn |-> "dup", fds |-> fds, fd |-> fd, got |-> duplicate(fds, fd)]
    \/ call' = [fn |-> "dup2", fds |-> fds, fd |-> fd, number |-> fdNumber,
                got |-> duplicate2(fds, fd, fdNumber)]

---------------------------------------------------------------------------
RewritesInit == call = [fn |-> "none"]

RewritesNext == call.fn = "none" /\ (RunTail \/ ScatterGather \/ RunGetcwd \/ RunAccess \/ RunDup)

(* tail prints the last n lines (the whole file for -n 0) and one more newline, whatever
   the block size: the first line may begin in an earlier block, end a block or be the
   whole file (tail.c:96).  It does so exactly if these lines and the newline before them
   lie in the last MAX_BUFFERS_CNT blocks, and runs off its array otherwise (:95). *)
TailRight == call.fn = "tail" =>
    LET lines == LastLines(call.file, call.n)
        needed == Min({Len(lines) + 1, Len(call.file)})
    IN  call.got = IF needed > MAX_BUFFERS_CNT * call.block THEN Overrun ELSE Append(lines, NL)

(* What was read into the vector and written from it is the beginning of the
   file, in order; only bytes the file does not have are left over (:24). *)
GatherRight == call.fn = "readv" =>
    LET k == Min({call.n, Len(call.file)})
    IN  Len(call.got) = call.n /\ SubSeq(call.got, 1, k) = SubSeq(call.file, 1, k)

(* A path that mygetcwd() returns leads back to the directory it was called in,
   also where a symbolic link to a directory on the way is read first (:60). *)
GetcwdRight == call.fn = "getcwd" /\ call.got # <<"errExit">> =>
    Lookup(call.tree, 0, call.got) = call.dir

(* Only one class of permission bits decides: the owner does not get what only
   the group or the others have (access.c:68). *)
AccessRight == call.fn = "access" /\ call.euid # 0 =>
    LET f == call.file
        bits(c) == {m \in {"R", "W", "X"} : <<m, c>> \in f.perms}
    IN  call.got = (\/ call.euid = f.uid /\ call.mode \subseteq bits("USR")
                    \/ call.euid # f.uid /\ call.egid = f.gid /\ call.mode \subseteq bits("GRP")
                    \/ call.euid # f.uid /\ call.egid # f.gid /\ call.mode \subseteq bits("OTH"))

(* duplicate() takes the lowest free descriptor, duplicate2() of two different
   descriptors the one asked for, whatever that was before (dup.c:22); both return -1
   for a descriptor that is not open.  duplicate2() of an open descriptor and itself,
   which the exercise asks to be handled, closes it and ends the process (:22-27);
   duplicate() ends it when no descriptor is free (:12). *)
DupRight ==
    /\ call.fn \in {"dup", "dup2"} => (call.got.ret = -1 <=> call.fds[call.fd] = 0)
    /\ call.fn = "dup" /\ call.got.ret = Exit => \A d \in 0..MaxFd : call.fds[d] # 0
    /\ call.fn = "dup" /\ call.got.ret \notin {-1, Exit} =>
         /\ \A d \in 0..(call.got.ret - 1) : call.fds[d] # 0
         /\ call.fds[call.got.ret] = 0
         /\ call.got.fds = [call.fds EXCEPT ![call.got.ret] = call.fds[call.fd]]
    /\ call.fn = "dup2" /\ call.fd # call.number /\ call.fds[call.fd] # 0 =>
         /\ call.got.ret = call.number
         /\ call.got.fds = [call.fds EXCEPT ![call.number] = call.fds[call.fd]]
    /\ call.fn = "dup2" /\ call.fd = call.number /\ call.fds[call.fd] # 0 => call.got.ret = Exit

RewritesRight == TailRight /\ GatherRight /\ GetcwdRight /\ AccessRight /\ DupRight

----------------------------------------------------------------------------
(***************************************************************************)
(* The environment list and the functions that change it: unsetenv() and   *)
(* setenv() of proc/setenv.c, the exercise's myunsetenv() and mysetenv()   *)
(* (06-processes/myenv.c) and proc/modify_env.c.  A list given to execve() *)
(* may define a name more than once.                                       *)
(***************************************************************************)
CONSTANTS Names, Values,
          MaxEnv            \* the longest list

VARIABLES environ,          \* a sequence of [name, value]
          done              \* history: the last call and the list before it

envVars == <<environ, done>>

Entry(n, v) == [name |-> n, value |-> v]
Defines(env, n) == {i \in DOMAIN env : env[i].name = n}
getenv(env, n) ==                                   \* external: the first definition
    IF Defines(env, n) = {} THEN "NULL"
    ELSE env[CHOOSE i \in Defines(env, n) : \A j \in Defines(env, n) : i <= j].value
putenv(env, e) ==                                   \* external: replaces the first definition
    LET d == Defines(env, e.name)
    IN  IF d = {} THEN Append(env, e)
        ELSE [env EXCEPT ![CHOOSE i \in d : \A j \in d : i <= j] = e]

(* Remove an entry by moving every later one down, and look at the same place again. *)
RECURSIVE Unset(_, _, _)
Unset(env, name, ep) ==
    IF ep > Len(env) THEN env
    ELSE IF env[ep].name = name THEN Unset(RemoveAt(env, ep), name, ep)
    ELSE Unset(env, name, ep + 1)

Mutunsetenv(env, name) == Unset(env, name, 2)       \* the first entry is never looked at

unsetenv(env, name) == Unset(env, name, 1)

setenv(env, name, value, overwrite) ==
    IF getenv(env, name) # "NULL" /\ ~overwrite THEN env
    ELSE putenv(unsetenv(env, name), Entry(name, value))

(* The exercise's loop moves on after a removal. *)
RECURSIVE MyUnset(_, _, _)
MyUnset(env, name, p) ==
    IF p > Len(env) THEN env
    ELSE MyUnset(IF env[p].name = name THEN RemoveAt(env, p) ELSE env, name, p + 1)

myunsetenv(env, name) == MyUnset(env, name, 1)

mysetenv(env, name, value, overwrite) ==
    IF ~overwrite /\ getenv(env, name) # "NULL" THEN env
    ELSE putenv(myunsetenv(env, name), Entry(name, value))

(* modify_env.c: clearenv(), the definitions of the command line, then GREET
   unless it is defined, and no BYE. *)
modify_env(args, greet, hello, bye) ==
    unsetenv(setenv(FoldLeft(putenv, <<>>, args), greet, hello, FALSE), bye)

---------------------------------------------------------------------------
Lists == UNION {[1..k -> {Entry(n, v) : n \in Names, v \in Values}] : k \in 0..MaxEnv}

EnvInit == environ = <<>> /\ done = [op |-> "exec"]

execve == done.op = "exec" /\ environ' \in Lists /\ done' = [op |-> "started"]

Called(op, n, v, o) == done' = [op |-> op, name |-> n, value |-> v, overwrite |-> o, before |-> environ]

Unsetenv == \E n \in Names : environ' = unsetenv(environ, n) /\ Called("unsetenv", n, "NULL", TRUE)
Myunsetenv == \E n \in Names : environ' = myunsetenv(environ, n) /\ Called("myunsetenv", n, "NULL", TRUE)
Setenv == \E n \in Names, v \in Values, o \in BOOLEAN :
            environ' = setenv(environ, n, v, o) /\ Called("setenv", n, v, o)
Mysetenv == \E n \in Names, v \in Values, o \in BOOLEAN :
            environ' = mysetenv(environ, n, v, o) /\ Called("mysetenv", n, v, o)
Modify == \E greet, bye \in Names, hello \in Values : greet # bye
            /\ environ' = modify_env(environ, greet, hello, bye)
            /\ done' = [op |-> "modify_env", greet |-> greet, hello |-> hello, bye |-> bye,
                        before |-> environ]

EnvNext == \/ execve
           \/ done.op = "started" /\ (Unsetenv \/ Myunsetenv \/ Setenv \/ Mysetenv \/ Modify)

---------------------------------------------------------------------------
Others(env, n) == SelectSeq(env, LAMBDA e : e.name # n)

(* A call changes the definitions of its own name only; after setenv() the name
   has the new value, or the old one if it may not be overwritten; unsetenv()
   leaves no definition, however many there were (setenv.c:37).  The exercise's
   myunsetenv(), asked to remove them all too, leaves one exactly if two of them
   were next to each other (myenv.c:23). *)
EnvironRight ==
    /\ done.op \in {"setenv", "mysetenv", "unsetenv", "myunsetenv"} =>
         Others(environ, done.name) = Others(done.before, done.name)
    /\ done.op \in {"setenv", "mysetenv"} =>
         getenv(environ, done.name) =
            IF done.overwrite \/ Defines(done.before, done.name) = {} THEN done.value
            ELSE getenv(done.before, done.name)
    /\ done.op = "unsetenv" => Defines(environ, done.name) = {}
    /\ done.op = "myunsetenv" =>
         LET d == Defines(done.before, done.name)
         IN  Defines(environ, done.name) = {} <=> \A i \in d : i + 1 \notin d
    /\ done.op = "modify_env" =>
         /\ Defines(environ, done.bye) = {}
         /\ getenv(environ, done.greet) \in {done.hello} \cup {e.value : e \in ToSet(done.before)}

----------------------------------------------------------------------------
(***************************************************************************)
(* procexec/execlp.c: execlp() written with execve().  The argument vector *)
(* is built from the variable argument list, the prefixes of PATH are      *)
(* tried in turn, a file without a recognised format is given to the       *)
(* shell.  execve() is external: it succeeds, and then nothing of this     *)
(* program runs any more, or it fails with some error.                     *)
(***************************************************************************)
CONSTANTS Paths,            \* the values of PATH: sequences over ":" and other characters;
                            \* <<>> is also an undefined PATH
          ArgCounts,        \* the number of arguments before the terminating NULL
          GROW              \* argvSize starts at and grows by this (100)

VARIABLES
    xpc,
    path, nargs, slash,     \* the call: PATH, the arguments, does filename contain a slash?
    argc, argvSize,
    slots,                  \* history: how many pointers the block of argv really has room for
    prStart,                \* the index in PATH where the next prefix starts
    tried,                  \* the prefixes given to execve() so far, with its result
    savedErrno, fndEACCES,
    outcome                 \* "": not known yet; the file or "sh" that runs, or the errno returned

xVars == <<xpc, path, nargs, slash, argc, argvSize, slots, prStart, tried, savedErrno, fndEACCES, outcome>>

Errors == {"ENOENT", "EACCES", "ENOEXEC"}

ExecInit == /\ xpc = "call" /\ path = <<>> /\ nargs = 0 /\ slash = FALSE /\ argc = 0 /\ argvSize = 0
            /\ slots = 0 /\ prStart = 1 /\ tried = <<>> /\ savedErrno = "" /\ fndEACCES = FALSE
            /\ outcome = ""

Call == /\ xpc = "call" /\ xpc' = "args"
        /\ path' \in Paths /\ nargs' \in ArgCounts /\ slash' \in BOOLEAN
        /\ argvSize' = GROW /\ slots' = GROW /\ argc' = 1
        /\ UNCHANGED <<prStart, tried, savedErrno, fndEACCES, outcome>>

(* argv[argc - 1] is NULL once the terminator has been copied: argc > nargs. *)
NextArg ==
    /\ xpc = "args" /\ argc <= nargs
    /\ IF argc + 1 >= argvSize THEN argvSize' = argvSize + GROW /\ slots' = 1    \* realloc(argv, sizeof(void *))
       ELSE UNCHANGED <<argvSize, slots>>
    /\ argc' = argc + 1
    /\ UNCHANGED <<xpc, path, nargs, slash, prStart, tried, savedErrno, fndEACCES, outcome>>

ArgsDone == /\ xpc = "args" /\ argc > nargs
            /\ xpc' = IF slash THEN "pathname" ELSE "search"
            /\ UNCHANGED <<path, nargs, slash, argc, argvSize, slots, prStart, tried, savedErrno,
                           fndEACCES, outcome>>

PATH == IF path = <<>> THEN <<".">> ELSE path
prEnd == Min({i \in prStart..(Len(PATH) + 1) : i = Len(PATH) + 1 \/ PATH[i] = ":"})
Prefix == IF prEnd = prStart THEN <<".">> ELSE SubSeq(PATH, prStart, prEnd - 1)

(* One execve(); on ENOEXEC the shell is tried with the same arguments. *)
Try(prefix, after) ==
    \/ /\ outcome' = "file" /\ xpc' = "running"
       /\ tried' = Append(tried, [prefix |-> prefix, result |-> "ok"])
       /\ UNCHANGED <<savedErrno, fndEACCES>>
    \/ \E e \in Errors :
         /\ tried' = Append(tried, [prefix |-> prefix, result |-> e])
         /\ savedErrno' = e
         /\ fndEACCES' = (fndEACCES \/ (e = "EACCES" /\ xpc = "search"))
         /\ \/ e = "ENOEXEC" /\ outcome' = "sh" /\ xpc' = "running"
            \/ outcome' = outcome /\ xpc' = after       \* not ENOEXEC, or the shell cannot be run

Pathname == /\ xpc = "pathname" /\ Try(<<"/">>, "fail")
            /\ UNCHANGED <<path, nargs, slash, argc, argvSize, slots, prStart>>

MutSearch == /\ xpc = "search" /\ prStart <= Len(PATH)      \* an empty last prefix is left out
             /\ Try(Prefix, IF prEnd >= Len(PATH) THEN "fail" ELSE "search")
             /\ prStart' = prEnd + 1
             /\ UNCHANGED <<path, nargs, slash, argc, argvSize, slots>>

Search == /\ xpc = "search"
          /\ Try(Prefix, IF prEnd = Len(PATH) + 1 THEN "fail" ELSE "search")
          /\ prStart' = prEnd + 1
          /\ UNCHANGED <<path, nargs, slash, argc, argvSize, slots>>

Fail == /\ xpc = "fail" /\ xpc' = "returned"
        /\ outcome' = IF fndEACCES THEN "EACCES" ELSE savedErrno
        /\ UNCHANGED <<path, nargs, slash, argc, argvSize, slots, prStart, tried, savedErrno, fndEACCES>>

ExecNext == Call \/ NextArg \/ ArgsDone \/ Pathname \/ Search \/ Fail

---------------------------------------------------------------------------
(* The prefixes of PATH: what lies between the colons, "." where that is empty. *)
PathPrefixes ==
        LET cuts == {0, Len(PATH) + 1} \cup {i \in DOMAIN PATH : PATH[i] = ":"}
            start(k) == CHOOSE c \in cuts : Cardinality({d \in cuts : d < c}) = k - 1
        IN  [k \in 1..(Cardinality(cuts) - 1) |->
                IF start(k + 1) = start(k) + 1 THEN <<".">> ELSE SubSeq(PATH, start(k) + 1, start(k + 1) - 1)]

(* The search tries the prefixes of PATH in order and none twice; it stops at the
   first file or script that runs; when nothing runs every prefix has been tried and
   errno is EACCES if any of them gave that, the last error otherwise (:203). *)
SearchRight ==
    /\ xpc # "call" /\ ~slash =>
         /\ Len(tried) <= Len(PathPrefixes)
         /\ \A k \in DOMAIN tried : tried[k].prefix = PathPrefixes[k]
    /\ \A k \in DOMAIN tried : k < Len(tried) => tried[k].result # "ok"
    /\ xpc = "returned" =>
         /\ ~slash => Len(tried) = Len(PathPrefixes)
         /\ outcome = IF \E k \in DOMAIN tried : tried[k].result = "EACCES" THEN "EACCES"
                      ELSE tried[Len(tried)].result

(* "Currently allocated size of argv" (:56): argvSize, which decides when the vector
   is resized, never promises more room than the block has. *)
ArgvSizeTrue == argvSize <= slots
=============================================================================
