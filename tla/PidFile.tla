------------------------------- MODULE PidFile -------------------------------
(***************************************************************************)
(* The pid file of verben: `verben start' and `verben stop' (main in       *)
(* src/src/verben.c) look at it with pid_file_running, a start that finds  *)
(* no daemon writes it with pid_file_create (src/src/daemon.c), and the    *)
(* master removes it as it exits.  Commands may run at the same time, and  *)
(* die; pids are reused.                                                   *)
(*                                                                         *)
(* The file is opened, locked, read and removed in steps of their own: the *)
(* lock is on the inode that was opened, the removal is of whatever file   *)
(* has the name by then.                                                   *)
(***************************************************************************)
EXTENDS Naturals, FiniteSets, FiniteSetsExt

CONSTANTS
    Pids,      \* process ids
    Inodes,    \* a set of naturals
    Crashes,   \* bound: processes that are killed
    Faults,    \* may a lock be interrupted, or a write fail?
    None       \* no process, or no inode

PidFileAssumption ==
    /\ Inodes \subseteq Nat /\ IsFiniteSet(Inodes)
    /\ Crashes \in Nat /\ Faults \in BOOLEAN
    /\ None \notin Pids \cup Inodes

VARIABLES
    pc,        \* what the process with a pid is about to do
    action,    \* daemon_action of a command: "start" or "stop"
    fd,        \* the inode a process has open, or None
    pid,       \* what pid_file_running has found: 0 (that is None) or a pid
    name,      \* the inode that pid_file names, or None
    content,   \* content[i]: the pid in the file, or None while it is empty
    reading, writing,   \* reading[i], writing[i]: the processes with such a lock
    told,      \* masters with a SIGQUIT to take
    crashes,
    maker,     \* history: the living process that made an inode, or None
    misfired,  \* history: a file whose maker lives has been removed by another
    overlap    \* history: two commands have been in progress together

process == <<pc, action, fd, pid, told>>
disk    == <<name, content, reading, writing, maker, misfired>>
vars    == <<process, disk, crashes, overlap>>

Checking == {"open", "lock", "read", "probe", "remove"}      \* pid_file_running
Creating == {"create", "wrlock", "write"}                    \* pid_file_create
Commands == Checking \cup Creating \cup {"decide", "kill"}

InProgress == {p \in Pids : pc[p] \in Commands}
Daemons    == {p \in Pids : pc[p] = "run"}

\* kill(p, 0) succeeds, or fails with EPERM.
DeniedIsDead(p) == FALSE    \* mutant of Alive: EPERM is taken for ESRCH
Alive(p) == pc[p] # "none"

Init ==
    /\ pc = [p \in Pids |-> "none"] /\ action = [p \in Pids |-> "start"]
    /\ fd = [p \in Pids |-> None] /\ pid = [p \in Pids |-> None]
    /\ told = {}
    /\ name = None /\ content = [i \in Inodes |-> None]
    /\ reading = [i \in Inodes |-> {}] /\ writing = [i \in Inodes |-> {}]
    /\ maker = [i \in Inodes |-> None] /\ misfired = FALSE
    /\ crashes = 0 /\ overlap = FALSE

-----------------------------------------------------------------------------
Goto(p, step) == pc' = [pc EXCEPT ![p] = step]

\* close(2) gives up the locks a process has on the file.
Unlocked(locks, p) == [i \in Inodes |-> locks[i] \ {p}]
CloseFd(p) ==
    /\ fd' = [fd EXCEPT ![p] = None]
    /\ reading' = Unlocked(reading, p)
    /\ writing' = Unlocked(writing, p)

\* unlink(pid_file): it goes by the name.
UnlinkBy(p) ==
    /\ name' = None
    /\ misfired' = (misfired \/ (name # None /\ maker[name] \notin {p, None}))

\* Every end of process p.
Ends(p) ==
    /\ Goto(p, "none")
    /\ CloseFd(p)
    /\ pid' = [pid EXCEPT ![p] = None]
    /\ told' = told \ {p}
    /\ maker' = [i \in Inodes |-> IF maker[i] = p THEN None ELSE maker[i]]
    /\ UNCHANGED <<action, content, overlap>>

\* BOOT_FAILED, or the exit of a command that is done.
Exits(p) == Ends(p) /\ UNCHANGED <<name, misfired>>

\* A command is given, and gets a pid that is free.
Run(p, what) ==
    /\ pc[p] = "none"
    /\ Goto(p, "open")
    /\ action' = [action EXCEPT ![p] = what]
    /\ overlap' = (overlap \/ InProgress # {})
    /\ UNCHANGED <<fd, pid, told, disk, crashes>>

\* A process that has nothing to do with verben comes, or goes.
Stranger(p) ==
    /\ pc[p] \in {"none", "stranger"}
    /\ Goto(p, IF pc[p] = "none" THEN "stranger" ELSE "none")
    /\ UNCHANGED <<action, fd, pid, told, disk, crashes, overlap>>

-----------------------------------------------------------------------------
(* pid_file_running *)

Open(p) ==
    /\ pc[p] = "open"
    /\ fd' = [fd EXCEPT ![p] = name]
    /\ Goto(p, IF name = None THEN "decide" ELSE "lock")
    /\ UNCHANGED <<action, pid, told, disk, crashes, overlap>>

\* F_WRLCK fails on a descriptor opened O_RDONLY; F_RDLCK waits for writers.
ReadLock(p) ==
    /\ pc[p] = "lock"
    /\ writing[fd[p]] = {}
    /\ reading' = [reading EXCEPT ![fd[p]] = @ \cup {p}]
    /\ Goto(p, "read")
    /\ UNCHANGED <<action, fd, pid, told, name, content, writing, maker, misfired, crashes, overlap>>

ReadLockFails(p) == Faults /\ pc[p] = "lock" /\ Exits(p) /\ UNCHANGED crashes

\* strtol of an empty file is 0: it is taken for corrupted, and removed.
Read(p) ==
    /\ pc[p] = "read"
    /\ pid' = [pid EXCEPT ![p] = content[fd[p]]]
    /\ Goto(p, IF content[fd[p]] = None THEN "remove" ELSE "probe")
    /\ UNCHANGED <<action, fd, told, disk, crashes, overlap>>

\* kill(pid, 0)
Probe(p) ==
    /\ pc[p] = "probe"
    /\ IF Alive(pid[p])
       THEN Goto(p, "decide") /\ CloseFd(p)
       ELSE Goto(p, "remove") /\ UNCHANGED <<fd, reading, writing>>
    /\ UNCHANGED <<action, pid, told, name, content, maker, misfired, crashes, overlap>>

\* The file looks stale: away with it.
Remove(p) ==
    /\ pc[p] = "remove"
    /\ UnlinkBy(p)
    /\ CloseFd(p)
    /\ pid' = [pid EXCEPT ![p] = None]
    /\ Goto(p, "decide")
    /\ UNCHANGED <<action, told, content, maker, crashes, overlap>>

-----------------------------------------------------------------------------
(* main, after pid_file_running *)

Refused(p) ==
    /\ pc[p] = "decide"
    /\ (action[p] = "start") = (pid[p] # None)
    /\ Exits(p)
    /\ UNCHANGED crashes

\* daemonize: a child goes on, with a pid of its own.
Daemonize(p, child) ==
    /\ pc[p] = "decide"
    /\ action[p] = "start" /\ pid[p] = None
    /\ pc[child] = "none"
    /\ pc' = [pc EXCEPT ![p] = "none", ![child] = "create"]
    /\ UNCHANGED <<action, fd, pid, told, disk, crashes, overlap>>

GoesToKill(p) ==
    /\ pc[p] = "decide"
    /\ action[p] = "stop" /\ pid[p] # None
    /\ Goto(p, "kill")
    /\ UNCHANGED <<action, fd, pid, told, disk, crashes, overlap>>

\* kill(pid, SIGQUIT): a master takes it, most other processes die of it.
Kill(p) ==
    /\ pc[p] = "kill"
    /\ pc' = [pc EXCEPT ![p] = "none"]
    /\ told' = told \cup ({pid[p]} \cap Daemons)
    /\ pid' = [pid EXCEPT ![p] = None]
    /\ UNCHANGED <<action, fd, disk, crashes, overlap>>

-----------------------------------------------------------------------------
(* pid_file_create, and the master *)

\* Inodes without a name that nobody has open.
Free == {i \in Inodes : i # name /\ \A p \in Pids : fd[p] # i}

MakesFile(p) ==
    LET i == Min(Free) IN
    /\ Free # {}
    /\ name' = i
    /\ fd' = [fd EXCEPT ![p] = i]
    /\ content' = [content EXCEPT ![i] = None]
    /\ maker' = [maker EXCEPT ![i] = p]
    /\ Goto(p, "wrlock")
    /\ UNCHANGED <<action, pid, told, reading, writing, misfired, crashes, overlap>>

\* Mutant of Create: without O_EXCL
CreateAnyway(p) ==
    /\ pc[p] = "create"
    /\ \/ name = None /\ MakesFile(p)
       \/ /\ name # None
          /\ fd' = [fd EXCEPT ![p] = name]
          /\ Goto(p, "wrlock")
          /\ UNCHANGED <<action, pid, told, disk, crashes, overlap>>

\* open with O_CREAT | O_EXCL
Create(p) ==
    /\ pc[p] = "create"
    /\ name = None
    /\ MakesFile(p)

CreateFails(p) == pc[p] = "create" /\ name # None /\ Exits(p) /\ UNCHANGED crashes

WriteLock(p) ==
    /\ pc[p] = "wrlock"
    /\ reading[fd[p]] \cup writing[fd[p]] = {}
    /\ writing' = [writing EXCEPT ![fd[p]] = {p}]
    /\ Goto(p, "write")
    /\ UNCHANGED <<action, fd, pid, told, name, content, reading, maker, misfired, crashes, overlap>>

Write(p) ==
    /\ pc[p] = "write"
    /\ content' = [content EXCEPT ![fd[p]] = p]
    /\ CloseFd(p)
    /\ Goto(p, "run")
    /\ UNCHANGED <<action, pid, told, name, maker, misfired, crashes, overlap>>

\* The lock is interrupted, or the disk is full: the new file is removed.
CreateGivesUp(p) ==
    /\ Faults
    /\ pc[p] \in {"wrlock", "write"}
    /\ UnlinkBy(p)
    /\ Ends(p)
    /\ UNCHANGED crashes

\* The master exits: it was told to, and its children are gone.
MasterExits(p) ==
    /\ pc[p] = "run"
    /\ p \in told
    /\ UnlinkBy(p)
    /\ Ends(p)
    /\ UNCHANGED crashes

\* kill -9, or BOOT_FAILED of a start that has its file already.
Dies(p) ==
    /\ pc[p] \in Commands \cup {"run"}
    /\ crashes < Crashes
    /\ crashes' = crashes + 1
    /\ Exits(p)

Step(p) ==
    \/ Open(p) \/ ReadLock(p) \/ Read(p) \/ Probe(p) \/ Remove(p)
    \/ Refused(p) \/ GoesToKill(p) \/ Kill(p)
    \/ \E child \in Pids : Daemonize(p, child)
    \/ Create(p) \/ CreateFails(p) \/ WriteLock(p) \/ Write(p) \/ MasterExits(p)

Next ==
    \E p \in Pids :
        \/ Step(p)
        \/ ReadLockFails(p) \/ CreateGivesUp(p) \/ Dies(p)
        \/ Run(p, "start") \/ Run(p, "stop") \/ Stranger(p)

Spec == Init /\ [][Next]_vars

-----------------------------------------------------------------------------
(* Properties *)

\* The comments of verben.c:589-607: a daemon that runs is named by the pid
\* file, so a second start is refused and a stop reaches it; hence there is
\* one at most.  It holds until the file of a living process is removed by
\* another (daemon.c:233, 240).
NamesTheDaemon ==
    misfired \/ \A p \in Daemons : name # None /\ content[name] = p

\* That takes two commands at the same time: one after the other, with
\* crashes, stale files and reused pids, never remove a file in use.
OnlyOverlapMisfires == misfired => overlap
=============================================================================
