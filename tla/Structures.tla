----------------------------- MODULE Structures -----------------------------
(***************************************************************************)
(* The data structures of src/src as the parts of MCParts: the doubly      *)
(* linked list, the hash table, the vector and the string, each over its   *)
(* own variables and constants.  StructuresProofs is about any values of   *)
(* these.                                                                  *)
(***************************************************************************)
EXTENDS Integers, Sequences

CONSTANTS
    NULL,                                           \* no node, no entry, nothing stored
    Values,                                         \* what is stored
    Nodes,                                          \* list
    Keys, hash_func, HASH_INIT_SLOTS, TableSlots,   \* hash table
    InitSlots, VecSlots, VecCount, W,               \* vector
    Chars, MaxLen, MaxRoom, Pieces, Sets, Seps      \* string

VARIABLES
    dl, iter, curr, list, owed,    \* list
    ht, copy, map, copied, whole,  \* hash table
    vec, set, pushed,              \* vector
    s, str                         \* string

listVars == <<dl, iter, curr, list, owed>>
hashVars == <<ht, copy, map, copied, whole>>
vecVars  == <<vec, set, pushed>>
strVars  == <<s, str>>

List == INSTANCE DList
Table == INSTANCE Hash WITH MaxSlots <- TableSlots
Array == INSTANCE Vector WITH MaxSlots <- VecSlots, MaxCount <- VecCount, Garbage <- NULL
String == INSTANCE Sds

\* The constants are as each module assumes.
ASSUME StructuresAssumption ==
    /\ List!DListAssumption /\ Table!HashAssumption
    /\ Array!VectorAssumption /\ String!SdsAssumption
=============================================================================
