------------------------------ MODULE LogRotate ------------------------------
(***************************************************************************)
(* The log file of verben and its rotation (src/src/log.c).  Every process *)
(* of the daemon writes to the same path with a descriptor of its own and  *)
(* rotates by itself: nothing is locked.  Sizes are counted in lines; a    *)
(* file keeps its lines when it is renamed, and is lost when another is    *)
(* renamed to its name.                                                    *)
(***************************************************************************)
EXTENDS Integers, Sequences, FiniteSetsExt

CONSTANTS
    Writers,     \* processes
    log_size,    \* lines a file may have before it is rotated
    log_number,  \* rotated files
    Lines,       \* bound: lines a process writes
    Inodes,      \* bound: files at a time, a set of naturals
    Faults,      \* bound: kills, and failures of open and write
    None

LogAssumption ==
    /\ log_size \in Nat /\ log_number \in Nat \ {0} /\ Lines \in Nat
    /\ Inodes \subseteq Nat /\ None \notin Inodes
    /\ Faults \in Nat

Slots   == 0 .. log_number - 1
Current == log_number              \* path itself; slot i is path.i
Names   == 0 .. log_number         \* from the oldest to the newest

VARIABLES
    pc, i,       \* where a process is in log_write and log_rotate, with its loop index
    fd,          \* log_files[0].fd: an inode, or None
    file,        \* file[s]: the inode with a name, or None
    lines,       \* lines[n]: what inode n holds, a sequence of <<process, number>>
    written,     \* lines a process has written
    faults,      \* kills and failures so far
    halfway,     \* history: a process was killed between two renames of a shift
    overlap      \* history: two processes have been rotating at the same time

vars == <<pc, i, fd, file, lines, written, faults, halfway, overlap>>

Init ==
    /\ pc = [p \in Writers |-> "idle"] /\ i = [p \in Writers |-> 0]
    /\ fd = [p \in Writers |-> None]
    /\ file = [s \in Names |-> None]
    /\ lines = [n \in Inodes |-> <<>>]
    /\ written = [p \in Writers |-> 0]
    /\ faults = 0 /\ halfway = FALSE /\ overlap = FALSE

-----------------------------------------------------------------------------
Goto(p, step, n) == pc' = [pc EXCEPT ![p] = step] /\ i' = [i EXCEPT ![p] = n]
OnlyGoes == UNCHANGED <<fd, file, lines, written, faults, halfway>>

Rotating == {q \in Writers : pc[q] \in {"scan", "rename", "shift"}}

\* rename(2): nothing happens if there is no such file.
Renamed(from, to) ==
    IF file[from] = None THEN file
    ELSE [file EXCEPT ![to] = file[from], ![from] = None]

\* log_write, and the fstat of log_rotate.
Call(p) ==
    /\ pc[p] = "idle"
    /\ written[p] < Lines
    /\ CASE fd[p] = None                  -> Goto(p, "open", 0)
         [] fd[p] # None /\ Len(lines[fd[p]]) > log_size -> Goto(p, "scan", 0)
         [] OTHER                         -> Goto(p, "write", 0)
    /\ overlap' = (overlap \/ (pc'[p] = "scan" /\ Rotating # {}))
    /\ OnlyGoes

\* the slot looked at in round n of a scan
FromTheTop(n) == log_number - 1 - n    \* mutant of Slot: from the newest
Slot(n) == n

\* access(path.i): the first slot that is vacant is for path.
Scan(p) ==
    /\ pc[p] = "scan"
    /\ CASE i[p] = log_number          -> Goto(p, "shift", 1)
         [] i[p] \in Slots /\ file[Slot(i[p])] = None -> Goto(p, "rename", Slot(i[p]))
         [] OTHER                       -> Goto(p, "scan", i[p] + 1)
    /\ OnlyGoes /\ UNCHANGED overlap

\* Some of the files have been shifted, and some have not.
MidShift(p) == pc[p] = "shift" /\ 1 < i[p] /\ i[p] < log_number

\* rename(path, path.i), close, and fd = -1
Rename(p) ==
    /\ pc[p] = "rename"
    /\ file' = Renamed(Current, i[p])
    /\ fd' = [fd EXCEPT ![p] = None]
    /\ Goto(p, "open", 0)
    /\ UNCHANGED <<lines, written, faults, halfway, overlap>>

\* No slot is vacant: path.1 becomes path.0, and so on, one at a time.  The line
\* goes to the descriptor as it is.
Shift(p) ==
    /\ pc[p] = "shift"
    /\ IF i[p] < log_number
       THEN /\ file' = Renamed(i[p], i[p] - 1)
            /\ Goto(p, "shift", i[p] + 1)
       ELSE /\ file' = file
            /\ Goto(p, "write", 0)
    /\ UNCHANGED <<fd, lines, written, faults, halfway, overlap>>

\* Files without a name that nobody has open: their lines are gone.
Lost == {n \in Inodes : (\A s \in Names : file[s] # n) /\ (\A p \in Writers : fd[p] # n)}

\* open(path, O_CREAT | O_APPEND)
Open(p) ==
    /\ pc[p] = "open"
    /\ IF file[Current] # None
       THEN /\ fd' = [fd EXCEPT ![p] = file[Current]]
            /\ UNCHANGED <<file, lines>>
       ELSE /\ Lost # {}
            /\ fd' = [fd EXCEPT ![p] = Min(Lost)]
            /\ file' = [file EXCEPT ![Current] = Min(Lost)]
            /\ lines' = [n \in Inodes |-> IF n \in Lost THEN <<>> ELSE lines[n]]
    /\ Goto(p, "write", 0)
    /\ UNCHANGED <<written, faults, halfway, overlap>>

\* O_APPEND
Write(p) ==
    /\ pc[p] = "write"
    /\ written' = [written EXCEPT ![p] = @ + 1]
    /\ lines' = [lines EXCEPT ![fd[p]] = Append(@, <<p, written'[p]>>)]
    /\ Goto(p, "idle", 0)
    /\ UNCHANGED <<fd, file, faults, halfway, overlap>>

Fault == faults < Faults /\ faults' = faults + 1

\* open or write fails: the line is dropped.
GivesUp(p) ==
    /\ Fault
    /\ pc[p] \in {"open", "write"}
    /\ Goto(p, "idle", 0)
    /\ UNCHANGED <<fd, file, lines, written, halfway, overlap>>

\* The process is killed; another takes its place.
Dies(p) ==
    /\ Fault
    /\ halfway' = (halfway \/ MidShift(p))
    /\ fd' = [fd EXCEPT ![p] = None]
    /\ Goto(p, "idle", 0)
    /\ UNCHANGED <<file, lines, written, overlap>>

Next == \E p \in Writers :
    \/ Call(p) \/ Scan(p) \/ Rename(p) \/ Shift(p) \/ Open(p) \/ Write(p)
    \/ GivesUp(p) \/ Dies(p)

Spec == Init /\ [][Next]_vars

-----------------------------------------------------------------------------
(* Properties *)

Content(s) == IF file[s] = None THEN <<>> ELSE lines[file[s]]

\* Where a reader of path.0, path.1, ... path finds a line, in its order.
Places == UNION {{s} \X (1 .. Len(Content(s))) : s \in Names}
LineAt(a) == Content(a[1])[a[2]]
Before(a, b) == a[1] < b[1] \/ (a[1] = b[1] /\ a[2] < b[2])

InOrder(p) ==
    \A a, b \in Places :
        Before(a, b) /\ LineAt(a)[1] = p /\ LineAt(b)[1] = p => LineAt(a)[2] < LineAt(b)[2]

\* With one process the files hold the latest lines without a gap, in order,
\* and no file grows much beyond log_size, if there are at least two slots
\* (log.c:63-78): with one there is nothing to shift and none is ever vacant.
\* A kill within a shift ends this; another, or a failure, costs one line more
\* in a file, for whoever opens it does not look at its size.
KeepsLatest ==
    \A p \in Writers : Writers = {p} /\ log_number > 1 /\ ~halfway =>
        /\ InOrder(p)
        /\ \A a \in Places : \A n \in LineAt(a)[2] .. written[p] :
              \E b \in Places : LineAt(b) = <<p, n>>
        /\ \A s \in Names : Len(Content(s)) <= log_size + 2 + faults

\* Each process rotates by the size of the file it has open, which may have
\* been rotated away by another long ago: the lines of each process that are
\* left stay in their order all the same, unless a shift has been cut short
\* (log.c:73) or two have been rotating at the same time.
LinesInOrder == halfway \/ overlap \/ \A p \in Writers : InOrder(p)
=============================================================================
