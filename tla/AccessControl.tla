------------------------------- MODULE AccessControl -------------------------------
(***************************************************************************)
(* Who may do what: acl_update.c sets the entries of access control lists, *)
(* ns_capable.c says which capabilities a process has in a namespace.      *)
(***************************************************************************)
EXTENDS Integers, Sequences, Functions

----------------------------------------------------------------------------
(***************************************************************************)
(* acl/acl_update.c: modifying and removing entries of the access or the   *)
(* default ACLs of several directories.  An ACL maps <<tag, qualifier>> to *)
(* a set of permissions.  An entry specification is its text, cut at the   *)
(* colons: perms is a sequence of characters, empty if there are none.     *)
(***************************************************************************)
CONSTANTS Files,        \* the arguments, a sequence of directories
          CommandLines, \* sets of [op, d, n, spec]: option -m, -x or -k, -d, -n, and the entries
          Users,        \* names that have an ID
          MAX_ENTRIES

\* No directory is named twice; a specification is a sequence of entries.
ASSUME AclAssumption == /\ Files \in Seq(Range(Files))
                        /\ \A i, k \in DOMAIN Files : Files[i] = Files[k] => i = k
                        /\ \A c \in CommandLines : /\ c.op \in {"m", "x", "V", "k"}
                                                  /\ c.spec \in Seq(Range(c.spec))

VARIABLES
    acls,       \* the access and the default ACL of every directory
    opts,       \* the command line
    aclist,     \* the entries parsed from it
    acl,        \* the ACL of the current file
    j, en, apc,
    before      \* history: acls when the program started

aclVars == <<acls, opts, aclist, acl, j, en, apc, before>>

\* libacl: the entries an ACL needs, and the mask acl_calc_mask() sets.
acl_valid(a) == /\ {<<"USER_OBJ", 0>>, <<"GROUP_OBJ", 0>>, <<"OTHER", 0>>} \subseteq DOMAIN a
                /\ (\E e \in DOMAIN a : e[1] \in {"USER", "GROUP"}) => <<"MASK", 0>> \in DOMAIN a
GroupClass(a) == {e \in DOMAIN a : e[1] \in {"USER", "GROUP_OBJ", "GROUP"}}
acl_calc_mask(a) == LET m == UNION {a[e] : e \in GroupClass(a)}
                    IN [e \in DOMAIN a \cup {<<"MASK", 0>>} |-> IF e = <<"MASK", 0>> THEN m ELSE a[e]]
Minimal == [e \in {<<"USER_OBJ", 0>>, <<"GROUP_OBJ", 0>>, <<"OTHER", 0>>} |-> {"r"}]

Bad == [ok |-> FALSE, entry |-> <<"", 0>>, perms |-> {}]
Tag(e) == CASE e.tag \in {"u", "user"}  -> IF e.qual # "" THEN "USER" ELSE "USER_OBJ"
            [] e.tag \in {"g", "group"} -> IF e.qual # "" THEN "GROUP" ELSE "GROUP_OBJ"
            [] e.tag \in {"o", "other"} -> "OTHER"
            [] e.tag \in {"m", "mask"}  -> "MASK"
            [] OTHER -> "bad"
parseEntrySpec(e, permsReqd) ==
    LET hasPerms == e.perms # <<>>
        qual == IF Tag(e) \in {"USER", "GROUP"} THEN e.qual ELSE 0
    IN IF \/ ~e.colon \/ hasPerms # permsReqd \/ Tag(e) = "bad"
          \/ Tag(e) \in {"USER", "GROUP"} /\ qual \notin Users
          \/ Range(e.perms) \ {"r", "w", "x", "-"} # {}
       THEN Bad
       ELSE [ok |-> TRUE, entry |-> <<Tag(e), qual>>, perms |-> Range(e.perms) \ {"-"}]

\* The parsed entries, <<>> for failure: there is at least one entry.
parseACL(spec, permsReqd) ==
    LET parsed == [i \in DOMAIN spec |-> parseEntrySpec(spec[i], permsReqd)]
    IN IF Len(spec) > MAX_ENTRIES \/ \E i \in DOMAIN parsed : ~parsed[i].ok THEN <<>> ELSE parsed

AclInit == /\ acls = [f \in Range(Files) |-> [ACCESS |-> Minimal, DEFAULT |-> <<>>]]
           /\ opts = [op |-> "none"] /\ aclist = <<>> /\ acl = <<>> /\ j = 1 /\ en = 1
           /\ apc = "start" /\ before = acls

Type == IF opts.d THEN "DEFAULT" ELSE "ACCESS"

\* A directory inherits a default ACL when its parent has one.
Inherit(f) == /\ apc = "start" /\ acls[f].DEFAULT = <<>>
              /\ acls' = [acls EXCEPT ![f].DEFAULT = Minimal] /\ before' = acls'
              /\ UNCHANGED <<opts, aclist, acl, j, en, apc>>

Options ==
    /\ apc = "start" /\ opts' \in CommandLines
    /\ aclist' = IF opts'.op = "k" THEN <<>> ELSE parseACL(opts'.spec, opts'.op # "x")
    /\ apc' = CASE opts'.op = "V" /\ opts'.d -> "error"
                [] opts'.op \in {"m", "x", "V"} /\ aclist' = <<>> -> "error"
                [] opts'.op = "V" -> "exit"
                [] OTHER -> "file"
    /\ UNCHANGED <<acls, acl, j, en, before>>

NextFile == \/ /\ apc = "file" /\ j > Len(Files) /\ apc' = "exit"
               /\ UNCHANGED <<acls, opts, aclist, acl, j, en, before>>
            \/ /\ apc = "file" /\ j =< Len(Files) /\ opts.op = "k"
               /\ acls' = [acls EXCEPT ![Files[j]].DEFAULT = <<>>] /\ j' = j + 1
               /\ UNCHANGED <<opts, aclist, acl, en, apc, before>>
            \/ /\ apc = "file" /\ j =< Len(Files) /\ opts.op # "k"
               /\ acl' = acls[Files[j]][Type] /\ en' = 1 /\ apc' = "entry"
               /\ UNCHANGED <<acls, opts, aclist, j, before>>

\* findEntry() and what follows it: the entry is deleted, or created and set.
Change(a, e) == IF opts.op = "x" THEN [x \in DOMAIN a \ {e.entry} |-> a[x]]
                ELSE [x \in DOMAIN a \cup {e.entry} |-> IF x = e.entry THEN e.perms ELSE a[x]]

\* The mask is recalculated after every entry unless -n was given.
Masked(a) == IF opts.n THEN a ELSE acl_calc_mask(a)

MutApplyEntry ==
    /\ apc = "entry" /\ en =< Len(aclist)
    /\ acl' = Change(Masked(acl), aclist[en])
    /\ IF acl_valid(acl')
       THEN acls' = [acls EXCEPT ![Files[j]][Type] = acl'] /\ en' = en + 1 /\ apc' = apc
       ELSE apc' = "error" /\ UNCHANGED <<acls, en>>
    /\ UNCHANGED <<opts, aclist, j, before>>
ApplyEntry ==
    /\ apc = "entry" /\ en =< Len(aclist)
    /\ acl' = Masked(Change(acl, aclist[en]))
    /\ IF acl_valid(acl')
       THEN acls' = [acls EXCEPT ![Files[j]][Type] = acl'] /\ en' = en + 1 /\ apc' = apc
       ELSE apc' = "error" /\ UNCHANGED <<acls, en>>
    /\ UNCHANGED <<opts, aclist, j, before>>

FileDone == /\ apc = "entry" /\ en > Len(aclist) /\ j' = j + 1 /\ apc' = "file"
            /\ UNCHANGED <<acls, opts, aclist, acl, en, before>>

AclNext == (\E f \in Range(Files) : Inherit(f)) \/ Options \/ NextFile \/ ApplyEntry \/ FileDone

AclSpec == AclInit /\ [][AclNext]_aclVars

----------------------------------------------------------------------------
\* What the first n entries of the specification make of an ACL: the last one
\* given for a tag and a qualifier counts.
Asked(a, n) ==
    LET given == {aclist[i].entry : i \in 1..n}
        last(e) == {i \in 1..n : aclist[i].entry = e /\ \A k \in 1..n : aclist[k].entry = e => k =< i}
    IN IF opts.op = "x" THEN [e \in DOMAIN a \ given |-> a[e]]
       ELSE [e \in DOMAIN a \cup given |->
                 IF e \in given THEN UNION {aclist[i].perms : i \in last(e)} ELSE a[e]]

\* The ACL it asks for; the mask is the union of the group class unless -n.
Wanted(a) == Masked(Asked(a, Len(aclist)))

\* A successful run leaves every file with the ACL the specification asks for
\* and its other ACL as it was; and whenever it stops, no file has an ACL the
\* kernel would refuse, and files after the failing one are untouched.
AclsUpdated ==
    /\ apc = "exit" /\ opts.op \in {"m", "x"} => \A f \in Range(Files) :
           acls[f] = [before[f] EXCEPT ![Type] = Wanted(@)]
    /\ \A f \in Range(Files), t \in {"ACCESS", "DEFAULT"} : acls[f][t] = <<>> \/ acl_valid(acls[f][t])
    /\ apc = "error" => \A i \in DOMAIN Files : i > j => acls[Files[i]] = before[Files[i]]

----------------------------------------------------------------------------
(***************************************************************************)
(* namespaces/ns_capable.c: which capabilities a process has in a          *)
(* namespace, found by walking up the tree of user namespaces with file    *)
(* descriptors.  The kernel hands out the lowest free descriptor, so a     *)
(* number that has been closed comes back for something else.              *)
(***************************************************************************)
CONSTANTS LastNs,            \* user namespaces are 0..LastNs, 0 the initial one
          Uids

VARIABLES
    nsParent,           \* the parent of every user namespace but the initial one
    owner,              \* the user ID of the creator of every user namespace
    input,              \* [user: is the target a user namespace?, ns: its (owning) user
                        \*  namespace, pidNs, euid]: the arguments
    fds,                \* the descriptors that are open: what they refer to
    target_ns, target_userns, pid_userns, desc_userns, child, parent,
    npc,
    verdict             \* "none", "sets" or "all": what is printed

nsVars == <<nsParent, owner, input, fds, target_ns, target_userns, pid_userns, desc_userns,
            child, parent, npc, verdict>>

ASSUME LastNsAssumption == LastNs \in Nat

UserNs == 0..LastNs
None == -1
Free == CHOOSE f \in 3..(LastNs + 9) : f \notin DOMAIN fds /\ \A g \in 3..(f - 1) : g \in DOMAIN fds
With(f, ns) == [g \in DOMAIN fds \cup {f} |-> IF g = f THEN ns ELSE fds[g]]
Without(F) == [g \in DOMAIN fds \ F |-> fds[g]]

CapableInit == /\ nsParent = <<>> /\ owner = <<>> /\ input = <<>> /\ fds = <<>>
               /\ target_ns = None /\ target_userns = None /\ pid_userns = None /\ desc_userns = None
               /\ child = None /\ parent = None /\ npc = "start" /\ verdict = ""

regs == <<target_ns, target_userns, pid_userns, desc_userns, child, parent>>
world == <<nsParent, owner, input>>

OpenTarget ==
    /\ npc = "start"
    /\ nsParent' \in {p \in [1..LastNs -> 0..(LastNs - 1)] : \A i \in 1..LastNs : p[i] < i}
    /\ owner' \in {o \in [UserNs -> Uids] : o[0] = 0}
    /\ input' \in [user : BOOLEAN, ns : UserNs, pidNs : UserNs, euid : Uids]
    /\ fds' = With(Free, IF input'.user THEN input'.ns ELSE None)
    /\ target_ns' = Free /\ npc' = "owning"
    /\ UNCHANGED <<target_userns, pid_userns, desc_userns, child, parent, verdict>>

owning_userns_of ==
    /\ npc = "owning" /\ npc' = "pid"
    /\ IF input.user THEN target_userns' = target_ns /\ fds' = fds
       ELSE /\ target_userns' = Free
            /\ fds' = [g \in (DOMAIN fds \cup {Free}) \ {target_ns} |-> IF g = Free THEN input.ns ELSE fds[g]]
    /\ UNCHANGED <<world, target_ns, pid_userns, desc_userns, child, parent, verdict>>

OpenPid ==
    /\ npc = "pid"
    /\ pid_userns' = Free /\ fds' = With(Free, input.pidNs)
    /\ IF input.pidNs = fds[target_userns] THEN verdict' = "sets" /\ npc' = "close"
       ELSE verdict' = verdict /\ npc' = "walk"
    /\ child' = target_userns
    /\ UNCHANGED <<world, target_ns, target_userns, desc_userns, parent>>

\* is_ancestor_userns(): one turn of the loop.
MutWalk ==
    /\ npc = "walk"
    /\ IF fds[child] = 0
       THEN desc_userns' = None /\ verdict' = "none" /\ npc' = "close" /\ UNCHANGED <<fds, child, parent>>
       ELSE LET p == nsParent[fds[child]] IN
            /\ parent' = Free /\ verdict' = verdict
            /\ IF p = fds[pid_userns]
               THEN desc_userns' = pid_userns /\ npc' = "owner" /\ UNCHANGED <<fds, child>>
               ELSE /\ fds' = [g \in (DOMAIN fds \cup {Free}) \ {child} |-> IF g = Free THEN p ELSE fds[g]]
                    /\ child' = Free /\ npc' = "walk" /\ desc_userns' = desc_userns
    /\ UNCHANGED <<world, target_ns, target_userns, pid_userns>>
is_ancestor_userns ==
    /\ npc = "walk"
    /\ IF fds[child] = 0
       THEN desc_userns' = None /\ verdict' = "none" /\ npc' = "close" /\ UNCHANGED <<fds, child, parent>>
       ELSE LET p == nsParent[fds[child]] IN
            /\ parent' = Free /\ verdict' = verdict
            /\ IF p = fds[pid_userns]
               THEN desc_userns' = child /\ npc' = "owner" /\ UNCHANGED <<fds, child>>
               ELSE /\ fds' = [g \in (DOMAIN fds \cup {Free}) \ {child} |-> IF g = Free THEN p ELSE fds[g]]
                    /\ child' = Free /\ npc' = "walk" /\ desc_userns' = desc_userns
    /\ UNCHANGED <<world, target_ns, target_userns, pid_userns>>

CheckOwner ==
    /\ npc = "owner"
    /\ verdict' = IF input.euid = owner[fds[desc_userns]] THEN "all" ELSE "sets"
    /\ npc' = "closeDesc"
    /\ UNCHANGED <<world, fds, regs>>

\* errExit() follows a close() that fails.
Close(f, next) == IF f \in DOMAIN fds THEN fds' = Without({f}) /\ npc' = next
                  ELSE fds' = fds /\ npc' = "failed"

CloseDesc == /\ npc = "closeDesc"
             /\ IF desc_userns # target_userns THEN Close(desc_userns, "close")
                ELSE npc' = "close" /\ UNCHANGED fds
             /\ UNCHANGED <<world, regs, verdict>>
CloseTarget == npc = "close" /\ Close(target_userns, "closePid") /\ UNCHANGED <<world, regs, verdict>>
ClosePid == npc = "closePid" /\ Close(pid_userns, "exit") /\ UNCHANGED <<world, regs, verdict>>

CapableNext == OpenTarget \/ owning_userns_of \/ OpenPid \/ is_ancestor_userns \/ CheckOwner
               \/ CloseDesc \/ CloseTarget \/ ClosePid

CapableSpec == CapableInit /\ [][CapableNext]_nsVars

----------------------------------------------------------------------------
\* The namespaces from ns up to the initial one: the smallest set with ns in it
\* that holds the parent of each of its members.
Lineage(ns) == {m \in UserNs : \A S \in SUBSET UserNs :
                    ns \in S /\ (\A k \in S \ {0} : nsParent[k] \in S) => m \in S}

\* The printed verdict is the kernel's rule: a process in the target's user
\* namespace has its capability sets there, one in an ancestor namespace has all
\* capabilities if it owns the next namespace on the way down to the target, and
\* a process anywhere else has none.
VerdictRight ==
    verdict # "" =>
        LET below == {m \in Lineage(input.ns) \ {0} : nsParent[m] = input.pidNs}
        IN /\ input.pidNs = input.ns => verdict = "sets"
           /\ input.pidNs \notin Lineage(input.ns) => verdict = "none"
           /\ input.pidNs \in Lineage(input.ns) \ {input.ns} =>
                verdict = IF \A m \in below : owner[m] = input.euid THEN "all" ELSE "sets"
=============================================================================
