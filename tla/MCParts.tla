------------------------------- MODULE MCParts -------------------------------
(***************************************************************************)
(* The parts that share no state with another, each with its small         *)
(* instance, side by side: in a behaviour one of them, `part', takes the   *)
(* steps, and the others stay as they begin.  The pid file is the module   *)
(* itself, with its constants, Init, Next and properties; the others are   *)
(* instances, those of the data structures in the module Structures.       *)
(***************************************************************************)
EXTENDS PidFile, Structures

CONSTANTS
    log_number, LogFaults,               \* logs
    OneSize, OneLines, OneInodes,        \* log of one process
    Writers, ManySize, ManyLines, ManyInodes,
    Period, Delays, MaxId, MaxTime       \* timers

VARIABLES
    part,
    log_pc, log_i, log_fd, file, lines, written, faults, halfway, log_overlap,
    frames, outcome, reads, values, blocks, wrong,              \* configuration
    timers, next_id, now, te, maxid, began, due, handled        \* timers

logVars  == <<log_pc, log_i, log_fd, file, lines, written, faults, halfway, log_overlap>>
confVars == <<frames, outcome, reads, values, blocks, wrong>>
timeVars == <<timers, next_id, now, te, maxid, began, due, handled>>

-----------------------------------------------------------------------------
\* One process, and some
LogOne == INSTANCE LogRotate WITH
    pc <- log_pc, i <- log_i, fd <- log_fd, overlap <- log_overlap, Writers <- {1},
    log_size <- OneSize, Lines <- OneLines, Inodes <- OneInodes,
    Faults <- LogFaults, None <- NULL
LogMany == INSTANCE LogRotate WITH
    pc <- log_pc, i <- log_i, fd <- log_fd, overlap <- log_overlap,
    log_size <- ManySize, Lines <- ManyLines, Inodes <- ManyInodes,
    Faults <- LogFaults, None <- NULL

\* Keys of the hash table that collide with one slot, with two, and with four.
FourKeys == {"a", "b", "c", "d"}
Colliding == [a |-> 0, b |-> 1, c |-> 2, d |-> 4]

\* Strings with all that quoting and splitting tell apart
SomeChars  == {"a", "0", "x", " ", "NL", "NUL", "\\", "\""}
SomePieces == {<<"a">>, <<"0", "0">>, <<"NUL">>, <<"\\">>, <<"\"">>, <<" ", "x">>, <<"NL">>}
SomeSets   == {{" ", "a"}}
SomeSeps   == {<<"0">>, <<"0", "0">>, <<"0", "x">>}

Reader == INSTANCE Conf WITH
    Keys <- {"a", "b"}, MaxLines <- 5, MaxFiles <- 2

Timers == INSTANCE TimeEvents

\* The constants are as each module assumes.
ASSUME PartsAssumption ==
    /\ PidFileAssumption
    /\ LogOne!LogAssumption /\ LogMany!LogAssumption
    /\ Reader!ConfAssumption /\ Timers!TimeEventsAssumption

-----------------------------------------------------------------------------
Parts == {"pid file", "log of one", "log of many", "list", "hash table", "vector",
          "string", "configuration", "timers"}

PartsInit ==
    /\ part \in Parts
    /\ Init
    /\ IF part = "log of one" THEN LogOne!Init ELSE LogMany!Init
    /\ List!Init /\ Table!Init /\ Array!Init /\ String!Init /\ Reader!Init /\ Timers!Init

PartsNext ==
    \/ part = "pid file" /\ Next
       /\ UNCHANGED <<part, logVars, listVars, hashVars, vecVars, strVars, confVars, timeVars>>
    \/ part = "log of one" /\ LogOne!Next
       /\ UNCHANGED <<part, vars, listVars, hashVars, vecVars, strVars, confVars, timeVars>>
    \/ part = "log of many" /\ LogMany!Next
       /\ UNCHANGED <<part, vars, listVars, hashVars, vecVars, strVars, confVars, timeVars>>
    \/ part = "list" /\ List!Next
       /\ UNCHANGED <<part, logVars, vars, hashVars, vecVars, strVars, confVars, timeVars>>
    \/ part = "hash table" /\ Table!Next
       /\ UNCHANGED <<part, logVars, vars, listVars, vecVars, strVars, confVars, timeVars>>
    \/ part = "vector" /\ Array!Next
       /\ UNCHANGED <<part, logVars, vars, listVars, hashVars, strVars, confVars, timeVars>>
    \/ part = "string" /\ String!Next
       /\ UNCHANGED <<part, logVars, vars, listVars, hashVars, vecVars, confVars, timeVars>>
    \/ part = "configuration" /\ Reader!Next
       /\ UNCHANGED <<part, logVars, vars, listVars, hashVars, vecVars, strVars, timeVars>>
    \/ part = "timers" /\ Timers!Next
       /\ UNCHANGED <<part, logVars, vars, listVars, hashVars, vecVars, strVars, confVars>>

partsVars ==
    <<part, vars, logVars, listVars, hashVars, vecVars, strVars, confVars, timeVars>>

PartsSpec == PartsInit /\ [][PartsNext]_partsVars

-----------------------------------------------------------------------------
(* The properties of the other parts; PidFile has its own *)

\* One process keeps its latest lines (LogRotate).
KeepsLatest == part = "log of one" => LogOne!KeepsLatest

\* Those that do not rotate at the same time keep theirs in order (LogRotate).
LinesInOrder == part = "log of many" => LogMany!LinesInOrder

\* The links are the list (DList).
Agrees == part = "list" => List!Agrees

\* An iteration meets every node, though nodes go (DList).
VisitsAll == part = "list" => List!VisitsAll

\* The table and its copies are maps (Hash).
IsTheMap == part = "hash table" => Table!IsTheMap

\* The vector has what was stored, and returns it (Vector).
IsAnArray == part = "vector" => Array!IsAnArray

\* The buffer has the string; it splits, and survives quoting (Sds).
IsAString == part = "string" => String!IsAString

\* The latest value of a key is the one read; errors are reported (Conf).
ReadsRight == part = "configuration" => Reader!ReadsRight

\* A pass handles what was due, and nothing new (TimeEvents).
PassIsFair == part = "timers" => Timers!PassIsFair
=============================================================================
