----------------------------- MODULE PartsProofs -----------------------------
(***************************************************************************)
(* Proofs about the parts of MCParts, for any values of their constants:   *)
(* first the pid file, for any number of processes, commands, crashes and  *)
(* failures.  Its inductive invariant says what a process knows of the     *)
(* file at each place, of one it has made, always, and of one it has       *)
(* opened, as long as no other command has been in progress.  The list,    *)
(* the vector, the hash table and the string keep the invariants of        *)
(* StructuresProofs, the timers and the logs those of TimeEventsProofs and *)
(* LogRotateProofs.                                                        *)
(***************************************************************************)
EXTENDS MCParts, StructuresProofs

Places == Commands \cup {"none", "stranger", "run"}

\* A process in pid_file_create that has made its file.
HasMade == {"wrlock", "write"}

TypeInv ==
    /\ pc \in [Pids -> Places]
    /\ fd \in [Pids -> Inodes \cup {None}]
    /\ pid \in [Pids -> Pids \cup {None}]
    /\ content \in [Inodes -> Pids \cup {None}]
    /\ maker \in [Inodes -> Pids \cup {None}]
    /\ name \in Inodes \cup {None}
    /\ misfired \in BOOLEAN /\ overlap \in BOOLEAN

\* The locals a place relies on have their values.
Locals ==
    \A p \in Pids :
        /\ pc[p] \in {"lock", "read"} => fd[p] \in Inodes
        /\ pc[p] = "probe" => pid[p] \in Pids

\* The maker of an inode is still at it, or runs and is what it says.
Made ==
    \A i \in Inodes, p \in Pids :
        maker[i] = p =>
            \/ pc[p] \in HasMade /\ fd[p] = i
            \/ pc[p] = "run" /\ content[i] = p

\* What a process writes to is what it made.
Making == \A p \in Pids : pc[p] \in HasMade => fd[p] \in Inodes /\ maker[fd[p]] = p

\* The file of a living process has the name, until one is removed.
Named ==
    ~misfired =>
        \A p \in Pids :
            /\ pc[p] \in HasMade => name = fd[p]
            /\ pc[p] = "run" => name \in Inodes /\ maker[name] = p

\* A command that has been alone has seen the file there is, and condemns
\* none whose maker lives.
Alone ==
    ~overlap =>
        /\ ~misfired
        /\ \A p, q \in InProgress : p = q
        /\ \A p \in Pids :
            /\ pc[p] \in {"lock", "read"} => name \in {None, fd[p]}
            /\ pc[p] = "probe" => name = None \/ maker[name] \in {None, pid[p]}
            /\ pc[p] = "remove" => name = None \/ maker[name] = None

IInv == TypeInv /\ Locals /\ Made /\ Making /\ Named /\ Alone
-----------------------------------------------------------------------------
\* A set of naturals that is not empty has the least element Min chooses.
LEMMA MinIsIn ==
    ASSUME NEW S, S \subseteq Nat, S # {}
    PROVE  Min(S) \in S
<1> DEFINE R == OpToRel(<, Nat)
<1>1. PICK x \in S : \A y \in S : <<y, x>> \notin R
    <2> HIDE DEF R
    <2>1. IsWellFoundedOn(R, Nat)
        BY NatLessThanWellFounded DEF R
    <2> QED
        BY <2>1, WFMin
<1>2. ASSUME NEW y \in S PROVE x =< y
    <2>1. <<y, x>> \in Nat \X Nat /\ ~ (y < x)
        BY <1>1 DEF OpToRel
    <2> QED
        BY <2>1
<1> QED
    BY <1>2 DEF Min

\* The inode a new file gets is free.
LEMMA FreeInode ==
    ASSUME PidFileAssumption, Free # {}
    PROVE  Min(Free) \in Free
BY MinIsIn DEF PidFileAssumption, Free

\* Every step keeps the invariant.
LEMMA StepKeepsIInv ==
    ASSUME PidFileAssumption, IInv, [Next]_vars
    PROVE  IInv'
<1> USE DEF PidFileAssumption, IInv, TypeInv, Locals, Made, Making, Named, Alone,
            InProgress, Places, Commands, Checking, Creating, HasMade, Goto, disk
<1>1. ASSUME NEW p \in Pids, Open(p) PROVE IInv'
    BY <1>1 DEF Open
<1>2. ASSUME NEW p \in Pids, ReadLock(p) PROVE IInv'
    BY <1>2 DEF ReadLock
<1>3. ASSUME NEW p \in Pids, Read(p) PROVE IInv'
    <2>1. TypeInv'
        BY ZenonT(60), <1>3 DEF Read
    <2>2. Locals'
        BY <2>1, <1>3 DEF Read
    <2>3. Made'
        BY <2>1, <1>3 DEF Read
    <2>4. Making'
        BY <2>1, <1>3 DEF Read
    <2>5. Named'
        BY <2>1, <1>3 DEF Read
    <2>6. Alone'
        BY <2>1, <1>3 DEF Read
    <2> QED
        BY <2>1, <2>2, <2>3, <2>4, <2>5, <2>6
<1>4. ASSUME NEW p \in Pids, Probe(p) PROVE IInv'
    BY <1>4 DEF Probe, CloseFd, Alive
<1>5. ASSUME NEW p \in Pids, Remove(p) PROVE IInv'
    BY <1>5 DEF Remove, UnlinkBy, CloseFd
<1>6. ASSUME NEW p \in Pids, Refused(p) PROVE IInv'
    BY <1>6 DEF Refused, Exits, Ends, CloseFd
<1>7. ASSUME NEW p \in Pids, GoesToKill(p) PROVE IInv'
    BY <1>7 DEF GoesToKill
<1>8. ASSUME NEW p \in Pids, Kill(p) PROVE IInv'
    BY <1>8 DEF Kill
<1>9. ASSUME NEW p \in Pids, NEW child \in Pids, Daemonize(p, child) PROVE IInv'
    BY <1>9 DEF Daemonize
<1>10. ASSUME NEW p \in Pids, Create(p) PROVE IInv'
    <2>1. TypeInv'
        BY FreeInode, <1>10 DEF Create, MakesFile, Free
    <2>2. Locals'
        BY <2>1, FreeInode, <1>10 DEF Create, MakesFile, Free
    <2>3. Made'
        BY <2>1, FreeInode, <1>10 DEF Create, MakesFile, Free
    <2>4. Making'
        BY <2>1, FreeInode, <1>10 DEF Create, MakesFile, Free
    <2>5. Named'
        BY <2>1, FreeInode, <1>10 DEF Create, MakesFile, Free
    <2>6. Alone'
        BY <2>1, FreeInode, <1>10 DEF Create, MakesFile, Free
    <2> QED
        BY <2>1, <2>2, <2>3, <2>4, <2>5, <2>6
<1>11. ASSUME NEW p \in Pids, CreateFails(p) PROVE IInv'
    BY <1>11 DEF CreateFails, Exits, Ends, CloseFd
<1>12. ASSUME NEW p \in Pids, WriteLock(p) PROVE IInv'
    BY <1>12 DEF WriteLock
<1>13. ASSUME NEW p \in Pids, Write(p) PROVE IInv'
    BY <1>13 DEF Write, CloseFd
<1>14. ASSUME NEW p \in Pids, MasterExits(p) PROVE IInv'
    BY <1>14 DEF MasterExits, UnlinkBy, Ends, CloseFd
<1>15. ASSUME NEW p \in Pids, ReadLockFails(p) PROVE IInv'
    BY <1>15 DEF ReadLockFails, Exits, Ends, CloseFd
<1>16. ASSUME NEW p \in Pids, CreateGivesUp(p) PROVE IInv'
    BY <1>16 DEF CreateGivesUp, UnlinkBy, Ends, CloseFd
<1>17. ASSUME NEW p \in Pids, Dies(p) PROVE IInv'
    BY <1>17 DEF Dies, Exits, Ends, CloseFd
<1>18. ASSUME NEW p \in Pids, NEW what \in {"start", "stop"}, Run(p, what) PROVE IInv'
    <2>1. TypeInv'
        BY <1>18 DEF Run
    <2>2. Locals'
        BY <2>1, <1>18 DEF Run
    <2>3. Made'
        BY <2>1, <1>18 DEF Run
    <2>4. Making'
        BY <2>1, <1>18 DEF Run
    <2>5. Named'
        BY <2>1, <1>18 DEF Run
    <2>6. Alone'
        <3>1. ASSUME ~overlap' PROVE InProgress = {} /\ ~overlap /\ pc' = [pc EXCEPT ![p] = "open"]
            BY <3>1, <1>18 DEF Run
        <3>2. ASSUME ~overlap' PROVE \A q \in Pids : pc'[q] \in Commands => q = p /\ pc'[q] = "open"
            BY <3>1, <3>2
        <3> QED
            BY <3>1, <3>2, <1>18 DEF Run
    <2> QED
        BY <2>1, <2>2, <2>3, <2>4, <2>5, <2>6
<1>19. ASSUME NEW p \in Pids, Stranger(p) PROVE IInv'
    BY <1>19 DEF Stranger
<1>20. CASE UNCHANGED vars
    BY <1>20 DEF vars, process
<1> QED
    BY <1>1, <1>2, <1>3, <1>4, <1>5, <1>6, <1>7, <1>8, <1>9, <1>10, <1>11, <1>12, <1>13,
       <1>14, <1>15, <1>16, <1>17, <1>18, <1>19, <1>20
    DEF Next, Step

\* The invariant holds in every state.
LEMMA Invariance ==
    ASSUME PidFileAssumption
    PROVE  Spec => []IInv
<1>1. Init => IInv
    <2> SUFFICES ASSUME Init PROVE IInv
        OBVIOUS
    <2> USE DEF Init, Places, Commands, Checking, Creating, HasMade, PidFileAssumption
    <2>1. TypeInv
        BY DEF TypeInv
    <2>2. Locals /\ Making /\ Named
        BY DEF Locals, Making, Named
    <2>3. Made
        BY DEF Made
    <2>4. Alone
        BY DEF Alone, InProgress
    <2> QED
        BY <2>1, <2>2, <2>3, <2>4 DEF IInv
<1>2. IInv /\ [Next]_vars => IInv'
    BY StepKeepsIInv
<1> QED
    BY <1>1, <1>2, PTL DEF Spec

-----------------------------------------------------------------------------
\* As long as no file has been removed under its maker, the pid file names
\* every daemon that runs (main in verben.c, 589-607): a start is refused
\* and a stop arrives, for any number of processes, crashes and failures.
THEOREM DaemonIsNamed ==
    ASSUME PidFileAssumption
    PROVE  Spec => []NamesTheDaemon
<1>1. IInv => NamesTheDaemon
    BY DEF IInv, TypeInv, Made, Named, NamesTheDaemon, Daemons, HasMade, PidFileAssumption
<1> QED
    BY <1>1, Invariance, PTL

\* So there is one daemon at most.
THEOREM OneDaemon ==
    ASSUME PidFileAssumption
    PROVE  Spec => [](misfired \/ \A p, q \in Daemons : p = q)
<1>1. IInv => misfired \/ \A p, q \in Daemons : p = q
    BY DEF IInv, TypeInv, Named, Daemons, PidFileAssumption
<1> QED
    BY <1>1, Invariance, PTL

\* A file is removed under its maker only when two commands have been in
\* progress together (pid_file_running in daemon.c, 233 and 240): crashes,
\* stale files, reused pids and failed writes are not enough.
THEOREM OnlyOverlap ==
    ASSUME PidFileAssumption
    PROVE  Spec => []OnlyOverlapMisfires
<1>1. IInv => OnlyOverlapMisfires
    BY DEF IInv, TypeInv, Alone, OnlyOverlapMisfires
<1> QED
    BY <1>1, Invariance, PTL
-----------------------------------------------------------------------------
(* The data structures *)

\* What keeps the list well.
ListInv == part = "list" => ListWell

\* It does, in every behaviour.
LEMMA ListKept == PartsSpec => []ListInv
<1>1. PartsInit => ListInv
  BY ListInit DEF PartsInit, ListInv
<1>2. ListInv /\ [PartsNext]_partsVars => ListInv'
  <2>. SUFFICES ASSUME ListWell, [PartsNext]_partsVars, part = "list" PROVE ListWell'
    BY DEF ListInv, PartsNext, partsVars
  <2>1. [List!Next]_listVars
    BY DEF PartsNext, partsVars
  <2>. QED
    BY <2>1, ListStays
<1>. QED
  BY <1>1, <1>2, PTL DEF PartsSpec

\* An iteration meets every node that was in the list when it began and has
\* not gone since, though the caller deletes the node it was given
\* (dlist.c:131-203).
THEOREM IteratorVisitsAll == PartsSpec => []VisitsAll
<1>1. ListInv => VisitsAll
  BY ListVisitsAll DEF ListInv, VisitsAll
<1>. QED
  BY <1>1, ListKept, PTL

\* Both ways along the links, by index and by key, and in a copy of it, the
\* list is what was put into it, in that order (dlist.c:49-295).
THEOREM LinksAgree == PartsSpec => []Agrees
<1>1. ListInv => Agrees
  BY ListAgrees DEF ListInv, Agrees
<1>. QED
  BY <1>1, ListKept, PTL

\* What keeps the vector well.
VecInv == part = "vector" => VecWell

\* It does, in every behaviour.
LEMMA VecKept == PartsSpec => []VecInv
<1>1. PartsInit => VecInv
  BY VecInit DEF PartsInit, VecInv
<1>2. VecInv /\ [PartsNext]_partsVars => VecInv'
  <2>. SUFFICES ASSUME VecWell, [PartsNext]_partsVars, part = "vector" PROVE VecWell'
    BY DEF VecInv, PartsNext, partsVars
  <2>1. [Array!Next]_vecVars
    BY DEF PartsNext, partsVars
  <2>. QED
    BY <2>1, VecStays
<1>. QED
  BY <1>1, <1>2, PTL DEF PartsSpec

\* A descriptor leads to what was stored under it last, and an iteration over
\* what was pushed meets it all, but for the vectors of one and of none
\* (vector.c:32-74, 118-133).
THEOREM VectorIsAnArray == PartsSpec => []IsAnArray
<1>1. VecInv => IsAnArray
  BY VecIsAnArray DEF VecInv, IsAnArray
<1>. QED
  BY <1>1, VecKept, PTL

\* What keeps the hash table well.
HashInv == part = "hash table" => HashWell

\* It does, in every behaviour.
LEMMA HashKept == PartsSpec => []HashInv
<1>1. PartsInit => HashInv
  BY HashInit DEF PartsInit, HashInv
<1>2. HashInv /\ [PartsNext]_partsVars => HashInv'
  <2>. SUFFICES ASSUME HashWell, [PartsNext]_partsVars, part = "hash table" PROVE HashWell'
    BY DEF HashInv, PartsNext, partsVars
  <2>1. [Table!Next]_hashVars
    BY DEF PartsNext, partsVars
  <2>. QED
    BY <2>1, HashStays
<1>. QED
  BY <1>1, <1>2, PTL DEF PartsSpec

\* Each key is found with its latest value and none that was deleted, count
\* is how many there are, and a traversal meets each once, through collisions,
\* resizes and insertions that fail; a copy is the same of some of the entries,
\* and of all when no calloc failed while it was filled (hash.c:82-300).
THEOREM TableIsAMap == PartsSpec => []IsTheMap
<1>1. HashInv => IsTheMap
  BY HashIsTheMap DEF HashInv, IsTheMap
<1>. QED
  BY <1>1, HashKept, PTL

\* What keeps the string well.
StrInv == part = "string" => StrWell

\* It does, in every behaviour.
LEMMA StrKept == PartsSpec => []StrInv
<1>1. PartsInit => StrInv
  BY StrInit DEF PartsInit, StrInv
<1>2. StrInv /\ [PartsNext]_partsVars => StrInv'
  <2>. SUFFICES ASSUME StrWell, [PartsNext]_partsVars, part = "string" PROVE StrWell'
    BY DEF StrInv, PartsNext, partsVars
  <2>1. [String!Next]_strVars
    BY DEF PartsNext, partsVars
  <2>. QED
    BY <2>1, StrStays
<1>. QED
  BY <1>1, <1>2, PTL DEF PartsSpec

\* A buffer holds its string and the terminator and no operation writes past
\* it; the tokens of the string, with the separators, are the string; and what
\* quoting writes of it, splitting reads back (sds.c:59-277, 320-398, 426-625).
THEOREM StringIsAString == PartsSpec => []IsAString
<1>1. StrInv => IsAString
  BY StrIsAString DEF StrInv, IsAString
<1>. QED
  BY <1>1, StrKept, PTL

-----------------------------------------------------------------------------
(* The timers *)

TP == INSTANCE TimeEventsProofs

LEMMA TimersAlike ==
    /\ Timers!vars = TP!vars
    /\ Timers!Init = TP!Init
    /\ Timers!Next = TP!Next
    /\ Timers!PassIsFair = TP!PassIsFair
    /\ Timers!TimeEventsAssumption = TP!TimeEventsAssumption
<1>1. \A ts, id, when : Timers!Created(ts, id, when) = TP!Created(ts, id, when)
  BY DEF Timers!Created, TP!Created
<1>2. \A ts, id : Timers!Deleted(ts, id) = TP!Deleted(ts, id)
  BY DEF Timers!Deleted, TP!Deleted, Timers!IsFirst, TP!IsFirst, Timers!RemoveAt, TP!RemoveAt
<1>3. \A ts, id, when : Timers!Rearmed(ts, id, when) = TP!Rearmed(ts, id, when)
  BY DEF Timers!Rearmed, TP!Rearmed
<1>4. \A t : Timers!Skipped(t) = TP!Skipped(t) /\ Timers!Expired(t) = TP!Expired(t)
  BY DEF Timers!Skipped, TP!Skipped, Timers!Expired, TP!Expired
<1>5. Timers!vars = TP!vars /\ Timers!Init = TP!Init
      /\ Timers!PassIsFair = TP!PassIsFair
      /\ Timers!TimeEventsAssumption = TP!TimeEventsAssumption
  BY DEF Timers!vars, TP!vars, Timers!Init, TP!Init, Timers!PassIsFair, TP!PassIsFair,
         Timers!InPass, TP!InPass, Timers!Ended, TP!Ended,
         Timers!TimeEventsAssumption, TP!TimeEventsAssumption
<1>6. Timers!Create = TP!Create
  BY <1>1 DEF Timers!Create, TP!Create, Timers!Outside, TP!Outside, Timers!InPass, TP!InPass
<1>7. Timers!Tick = TP!Tick
  BY DEF Timers!Tick, TP!Tick, Timers!Outside, TP!Outside
<1>8. Timers!Begin = TP!Begin
  BY <1>4 DEF Timers!Begin, TP!Begin, Timers!InPass, TP!InPass
<1>9. Timers!Skip = TP!Skip
  BY <1>4 DEF Timers!Skip, TP!Skip, Timers!InPass, TP!InPass, Timers!Ended, TP!Ended
<1>10. Timers!Handle = TP!Handle
  BY <1>1, <1>2, <1>3, <1>4, ZenonT(60)
  DEF Timers!Handle, TP!Handle, Timers!InPass, TP!InPass, Timers!Ended, TP!Ended,
      Timers!Ids, TP!Ids
<1>11. Timers!End = TP!End
  BY DEF Timers!End, TP!End, Timers!InPass, TP!InPass, Timers!Ended, TP!Ended
<1>. QED
  BY <1>5, <1>6, <1>7, <1>8, <1>9, <1>10, <1>11 DEF Timers!Next, TP!Next
\* A pass handles what was due, and nothing new (ae.c:233-280).
THEOREM PassesAreFair == PartsSpec => []PassIsFair
<1>1. PartsInit => TP!IInv
  BY PartsAssumption, TimersAlike, TP!InitInv DEF PartsInit
<1>2. [PartsNext]_partsVars => [TP!Next]_TP!vars
  BY TimersAlike DEF PartsNext, partsVars, timeVars, TP!vars
<1>3. TP!IInv /\ [TP!Next]_TP!vars => TP!IInv'
  BY PartsAssumption, TimersAlike, TP!NextInv
<1>4. TP!IInv => PassIsFair
  BY PartsAssumption, TimersAlike, TP!IInvFair DEF PassIsFair
<1>. QED
  BY <1>1, <1>2, <1>3, <1>4, PTL DEF PartsSpec

-----------------------------------------------------------------------------
(* The logs *)

OP == INSTANCE LogRotateProofs WITH
    pc <- log_pc, i <- log_i, fd <- log_fd, overlap <- log_overlap, Writers <- {1},
    log_size <- OneSize, Lines <- OneLines, Inodes <- OneInodes,
    Faults <- LogFaults, None <- NULL
MP == INSTANCE LogRotateProofs WITH
    pc <- log_pc, i <- log_i, fd <- log_fd, overlap <- log_overlap,
    log_size <- ManySize, Lines <- ManyLines, Inodes <- ManyInodes,
    Faults <- LogFaults, None <- NULL

LEMMA LogOneAlike ==
    /\ LogOne!vars = OP!vars /\ LogOne!Init = OP!Init /\ LogOne!Next = OP!Next
    /\ LogOne!KeepsLatest = OP!KeepsLatest
    /\ LogOne!LogAssumption = OP!LogAssumption
<1>1. LogOne!vars = OP!vars /\ LogOne!Init = OP!Init
      /\ LogOne!LogAssumption = OP!LogAssumption
  BY DEF LogOne!vars, OP!vars, LogOne!Init, OP!Init, LogOne!Names, OP!Names,
         LogOne!LogAssumption, OP!LogAssumption
<1>2. LogOne!KeepsLatest = OP!KeepsLatest
  BY DEF LogOne!KeepsLatest, OP!KeepsLatest, LogOne!InOrder, OP!InOrder, LogOne!Before, OP!Before,
         LogOne!LineAt, OP!LineAt, LogOne!Places, OP!Places,
         LogOne!Content, OP!Content, LogOne!Names, OP!Names
<1>3. \A p, step, n : LogOne!Goto(p, step, n) = OP!Goto(p, step, n)
  BY DEF LogOne!Goto, OP!Goto
<1>4. LogOne!OnlyGoes = OP!OnlyGoes /\ LogOne!Fault = OP!Fault
  BY DEF LogOne!OnlyGoes, OP!OnlyGoes, LogOne!Fault, OP!Fault
<1>5. \A from, to : LogOne!Renamed(from, to) = OP!Renamed(from, to)
  BY DEF LogOne!Renamed, OP!Renamed
<1>6. ASSUME NEW p PROVE LogOne!Call(p) = OP!Call(p)
  BY <1>3, <1>4 DEF LogOne!Call, OP!Call, LogOne!Rotating, OP!Rotating
<1>7. ASSUME NEW p PROVE LogOne!Scan(p) = OP!Scan(p)
  BY <1>3, <1>4 DEF LogOne!Scan, OP!Scan, LogOne!Slots, OP!Slots, LogOne!Slot, OP!Slot
<1>8. ASSUME NEW p PROVE LogOne!Rename(p) = OP!Rename(p)
  BY <1>3, <1>5 DEF LogOne!Rename, OP!Rename, LogOne!Current, OP!Current
<1>9. ASSUME NEW p PROVE LogOne!Shift(p) = OP!Shift(p)
  BY <1>3, <1>5 DEF LogOne!Shift, OP!Shift
<1>10. ASSUME NEW p PROVE LogOne!Open(p) = OP!Open(p)
  BY <1>3 DEF LogOne!Open, OP!Open, LogOne!Current, OP!Current, LogOne!Lost, OP!Lost, LogOne!Names, OP!Names,
              LogOne!Min, OP!Min
<1>11. ASSUME NEW p PROVE LogOne!Write(p) = OP!Write(p)
  BY <1>3 DEF LogOne!Write, OP!Write
<1>12. ASSUME NEW p PROVE LogOne!GivesUp(p) = OP!GivesUp(p)
  BY <1>3, <1>4 DEF LogOne!GivesUp, OP!GivesUp
<1>13. ASSUME NEW p PROVE LogOne!Dies(p) = OP!Dies(p)
  BY <1>3, <1>4 DEF LogOne!Dies, OP!Dies, LogOne!MidShift, OP!MidShift
<1>14. LogOne!Next = OP!Next
  BY <1>6, <1>7, <1>8, <1>9, <1>10, <1>11, <1>12, <1>13 DEF LogOne!Next, OP!Next
<1>. QED
  BY <1>1, <1>2, <1>14

LEMMA LogManyAlike ==
    /\ LogMany!vars = MP!vars /\ LogMany!Init = MP!Init /\ LogMany!Next = MP!Next
    /\ LogMany!LinesInOrder = MP!LinesInOrder
    /\ LogMany!LogAssumption = MP!LogAssumption
<1>1. LogMany!vars = MP!vars /\ LogMany!Init = MP!Init
      /\ LogMany!LogAssumption = MP!LogAssumption
  BY DEF LogMany!vars, MP!vars, LogMany!Init, MP!Init, LogMany!Names, MP!Names,
         LogMany!LogAssumption, MP!LogAssumption
<1>2. LogMany!LinesInOrder = MP!LinesInOrder
  BY DEF LogMany!LinesInOrder, MP!LinesInOrder, LogMany!InOrder, MP!InOrder, LogMany!Before, MP!Before,
         LogMany!LineAt, MP!LineAt, LogMany!Places, MP!Places,
         LogMany!Content, MP!Content, LogMany!Names, MP!Names
<1>3. \A p, step, n : LogMany!Goto(p, step, n) = MP!Goto(p, step, n)
  BY DEF LogMany!Goto, MP!Goto
<1>4. LogMany!OnlyGoes = MP!OnlyGoes /\ LogMany!Fault = MP!Fault
  BY DEF LogMany!OnlyGoes, MP!OnlyGoes, LogMany!Fault, MP!Fault
<1>5. \A from, to : LogMany!Renamed(from, to) = MP!Renamed(from, to)
  BY DEF LogMany!Renamed, MP!Renamed
<1>6. ASSUME NEW p PROVE LogMany!Call(p) = MP!Call(p)
  BY <1>3, <1>4 DEF LogMany!Call, MP!Call, LogMany!Rotating, MP!Rotating
<1>7. ASSUME NEW p PROVE LogMany!Scan(p) = MP!Scan(p)
  BY <1>3, <1>4 DEF LogMany!Scan, MP!Scan, LogMany!Slots, MP!Slots, LogMany!Slot, MP!Slot
<1>8. ASSUME NEW p PROVE LogMany!Rename(p) = MP!Rename(p)
  BY <1>3, <1>5 DEF LogMany!Rename, MP!Rename, LogMany!Current, MP!Current
<1>9. ASSUME NEW p PROVE LogMany!Shift(p) = MP!Shift(p)
  BY <1>3, <1>5 DEF LogMany!Shift, MP!Shift
<1>10. ASSUME NEW p PROVE LogMany!Open(p) = MP!Open(p)
  BY <1>3 DEF LogMany!Open, MP!Open, LogMany!Current, MP!Current, LogMany!Lost, MP!Lost, LogMany!Names, MP!Names,
              LogMany!Min, MP!Min
<1>11. ASSUME NEW p PROVE LogMany!Write(p) = MP!Write(p)
  BY <1>3 DEF LogMany!Write, MP!Write
<1>12. ASSUME NEW p PROVE LogMany!GivesUp(p) = MP!GivesUp(p)
  BY <1>3, <1>4 DEF LogMany!GivesUp, MP!GivesUp
<1>13. ASSUME NEW p PROVE LogMany!Dies(p) = MP!Dies(p)
  BY <1>3, <1>4 DEF LogMany!Dies, MP!Dies, LogMany!MidShift, MP!MidShift
<1>14. LogMany!Next = MP!Next
  BY <1>6, <1>7, <1>8, <1>9, <1>10, <1>11, <1>12, <1>13 DEF LogMany!Next, MP!Next
<1>. QED
  BY <1>1, <1>2, <1>14

\* One process keeps its latest lines, in order and without a gap, and no file
\* grows much beyond log_size (log.c:37-95, 117-152).
THEOREM OneKeepsLatest == PartsSpec => []KeepsLatest
<1>. DEFINE Keeps == part = "log of one" => OP!IInv /\ \A p \in {1} : OP!Single(p)
<1>1. PartsInit => Keeps
  BY PartsAssumption, LogOneAlike, OP!InitInv, OP!InitSingle DEF PartsInit
<1>2. [PartsNext]_partsVars => part' = part /\ (part = "log of one" => [OP!Next]_OP!vars)
  BY LogOneAlike DEF PartsNext, partsVars, logVars, OP!vars
<1>3. Keeps /\ [PartsNext]_partsVars => Keeps'
  <2>. SUFFICES ASSUME Keeps, [PartsNext]_partsVars, part = "log of one"
                PROVE  OP!IInv' /\ \A p \in {1} : OP!Single(p)'
    BY <1>2
  <2>1. OP!IInv'
    BY <1>2, PartsAssumption, LogOneAlike, OP!NextInv
  <2>. QED
    BY <1>2, <2>1, PartsAssumption, LogOneAlike, OP!NextSingle
<1>4. Keeps => KeepsLatest
  BY PartsAssumption, LogOneAlike, OP!SingleKeeps DEF KeepsLatest
<1>. HIDE DEF Keeps
<1>. QED
  BY <1>1, <1>3, <1>4, PTL DEF PartsSpec

\* The lines of any number of processes stay in order unless two rotate at the
\* same time or one is killed in a shift (log.c:37-95).
THEOREM ManyInOrder == PartsSpec => []LinesInOrder
<1>. DEFINE Keeps == part = "log of many" => MP!IInv
<1>1. PartsInit => Keeps
  BY PartsAssumption, LogManyAlike, MP!InitInv DEF PartsInit
<1>2. [PartsNext]_partsVars => part' = part /\ (part = "log of many" => [MP!Next]_MP!vars)
  BY LogManyAlike DEF PartsNext, partsVars, logVars, MP!vars
<1>3. Keeps /\ [PartsNext]_partsVars => Keeps'
  BY <1>2, PartsAssumption, LogManyAlike, MP!NextInv
<1>4. Keeps => LinesInOrder
  BY PartsAssumption, LogManyAlike, MP!IInvInOrder DEF LinesInOrder, MP!LinesInOrder
<1>. HIDE DEF Keeps
<1>. QED
  BY <1>1, <1>3, <1>4, PTL DEF PartsSpec
=============================================================================
