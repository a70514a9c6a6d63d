------------------------------- MODULE MCAlgorithms -------------------------------
(***************************************************************************)
(* The programs whose difficulty is what they compute, one at a time: the  *)
(* variable running says which one, and the variables of the others keep   *)
(* their initial values. The allocator of exercises/07 and AccessControl   *)
(* are extended, the others are instances.                                 *)
(***************************************************************************)
EXTENDS Malloc, AccessControl, TLC

CONSTANTS Checked, Chains, FilterFiles, Programs, Texts, NL, MaxLines, BlockSizes,
          MAX_BUFFERS_CNT, Lengths, Trees, Perms, Gids, MaxFd, Names, Values, MaxEnv, Paths, ArgCounts, GROW

VARIABLES running,
          prog, pc, filters, noNewPrivs, privileged, handled, argv, next, openNr, env, results,
          call,
          environ, done,
          xpc, path, nargs, slash, argc, argvSize, slots, prStart, tried, savedErrno, fndEACCES,
          outcome

scVars == <<prog, pc, filters, noNewPrivs, privileged, handled, argv, next, openNr, env,
            results>>
rwVars == <<call>>
envVars == <<environ, done>>
xVars == <<xpc, path, nargs, slash, argc, argvSize, slots, prStart, tried, savedErrno,
           fndEACCES, outcome>>
allVars == <<running, vars, scVars, aclVars, nsVars, rwVars, envVars, xVars>>

\* Command lines of seccomp_multiarch.c and seccomp_launch.c.
MCChains == {<<"x86_64">>, <<"x86_64", "i386">>, <<"i386", "x32", "x86_64">>, <<"x32", "x32">>}
MCFilterFiles == {<<>>, <<"trap_sigsys">>, <<"deny_open", "trap_sigsys">>,
                  <<"perf", "logging", "arg64">>, <<"multiarch", "odd">>, <<"arg64", "perf">>}

\* Entries of acl_update.c's command line: correct ones, repeated ones, and one
\* for each way an entry can be wrong.
Entry(t, q, p) == [colon |-> TRUE, tag |-> t, qual |-> q, perms |-> p]
Entries == {
    <<Entry("u", "", <<"r", "w", "-">>), Entry("g", "", <<"r">>), Entry("o", "", <<"-">>)>>,
    <<Entry("u", "ann", <<"r", "w">>)>>,
    <<Entry("user", "ann", <<"w">>), Entry("m", "", <<"x">>), Entry("u", "ann", <<"x">>)>>,
    <<Entry("g", "eve", <<"r">>)>>, <<Entry("g", "bob", <<"r">>), Entry("u", "", <<"q">>)>>,
    <<Entry("o", "ann", <<"r">>), Entry("z", "", <<"r">>)>>,
    <<[Entry("o", "ann", <<"r">>) EXCEPT !.colon = FALSE]>>,
    <<Entry("u", "ann", <<>>), Entry("m", "", <<>>)>>,
    <<Entry("u", "ann", <<>>), Entry("group", "", <<>>)>>,
    <<Entry("mask", "", <<"r">>), Entry("g", "ann", <<"x">>)>>,
    <<Entry("mask", "", <<"r">>), Entry("g", "ann", <<"x">>), Entry("u", "ann", <<"x">>),
      Entry("u", "bob", <<"x">>)>>}
MCCommandLines == [op : {"m", "x", "V", "k"}, d : BOOLEAN, n : BOOLEAN, spec : Entries]
MCFiles == <<"d1", "d2">>

\* Texts for tail.c; trees of depth 2 for getcwd.c with links and dangling links.
MCTexts == UNION {[1..n -> {"n", "x"}] : n \in 0..5}
To(n, t) == [name |-> n, to |-> t]
MCTrees ==
    {[parent |-> (0 :> 0 @@ 1 :> 0 @@ 2 :> 1), entries |-> (0 :> e0 @@ 1 :> e1 @@ 2 :> <<>>)] :
       e0 \in {<<To("a", 1)>>, <<To("l", 1), To("a", 1)>>, <<To("l", 2), To("a", 1)>>,
               <<To("a", 1), To("d", -1)>>, <<To("d", -1), To("a", 1)>>},
       e1 \in {<<To("b", 2)>>, <<To("f", 9), To("b", 2)>>, <<To("l", 2), To("b", 2)>>}}
MCPerms == SUBSET ({"R", "W"} \X {"USR", "GRP", "OTH"})

\* Values of PATH, with empty prefixes in every place.
MCPaths == UNION {[1..n -> {":", "a"}] : n \in 0..4}

Sc == INSTANCE Seccomp
Rw == INSTANCE Rewrites

FInit == /\ running \in Checked /\ Init /\ Sc!Init /\ AclInit /\ CapableInit /\ Rw!RewritesInit /\ Rw!EnvInit
         /\ Rw!ExecInit

Allocator == /\ running = "malloc" /\ Next
             /\ UNCHANGED <<running, scVars, aclVars, nsVars, rwVars, envVars, xVars>>
Filters == /\ running = "seccomp" /\ Sc!Next
           /\ UNCHANGED <<running, vars, aclVars, nsVars, rwVars, envVars, xVars>>
Acls == /\ running = "acl_update" /\ AclNext
        /\ UNCHANGED <<running, vars, scVars, nsVars, rwVars, envVars, xVars>>
Capable == /\ running = "ns_capable" /\ CapableNext
           /\ UNCHANGED <<running, vars, scVars, aclVars, rwVars, envVars, xVars>>
Rewriting == /\ running = "rewrites" /\ Rw!RewritesNext
             /\ UNCHANGED <<running, vars, scVars, aclVars, nsVars, envVars, xVars>>
Environment == /\ running = "environ" /\ Rw!EnvNext
               /\ UNCHANGED <<running, vars, scVars, aclVars, nsVars, rwVars, xVars>>
Executing == /\ running = "execlp" /\ Rw!ExecNext
             /\ UNCHANGED <<running, vars, scVars, aclVars, nsVars, rwVars, envVars>>

FNext == Allocator \/ Filters \/ Acls \/ Capable \/ Rewriting \/ Environment \/ Executing

FSpec == FInit /\ [][FNext]_allVars

----------------------------------------------------------------------------
\* Every filter lets through and stops what its program says it does, also on
\* the architectures it was not written for, and however many filters are
\* installed together.
FilterVerdicts == Sc!FilterVerdicts /\ Sc!Documented /\ Sc!LaunchedWithAll

\* The exercises' versions of tail, readv() and writev(), getcwd(), access(), dup()
\* and setenv(), and execlp.c, return what the functions they replace return, but
\* for the cases each part names: tail prints one more newline and holds a limited
\* number of blocks, duplicate2() of a descriptor and itself ends the process, and
\* myunsetenv() leaves the second of two neighbouring definitions.
LibraryRight == Rw!RewritesRight /\ Rw!EnvironRight /\ Rw!SearchRight

\* execlp.c:56, of the size of the argument vector.
ArgvSizeTrue == Rw!ArgvSizeTrue
=============================================================================
