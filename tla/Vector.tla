------------------------------- MODULE Vector -------------------------------
(***************************************************************************)
(* The vector (src/src/vector.c), by which a connection process goes from  *)
(* a descriptor to its client, and its iterator.  count is the number of   *)
(* writes, not the number of elements; unsigned arithmetic wraps at W.     *)
(***************************************************************************)
EXTENDS Integers, Sequences, FiniteSets

CONSTANTS
    Values,
    InitSlots,    \* the slots asked for, 16 if none are
    MaxSlots,     \* bound on the size
    MaxCount,     \* bound on the writes
    W,            \* 2^32 in the program
    Garbage       \* what realloc leaves in new slots

VectorAssumption ==
    /\ InitSlots \in Nat /\ MaxSlots \in Nat /\ MaxCount \in Nat
    /\ W \in Nat \ {0, 1} /\ W > MaxCount /\ W > MaxSlots
    /\ Garbage \notin Values

VARIABLES
    vec,      \* [slots, count, data: data[i] is slot i]
    set,      \* what was written at each index, where any was
    pushed    \* the values of vector_push, as long as there was no vector_set_at

vars == <<vec, set, pushed>>

Zero == "zero"    \* calloc
NotOnlyPushes == <<Zero>>

Init ==
    LET slots == IF InitSlots = 0 THEN 16 ELSE InitSlots IN
    /\ vec = [slots |-> slots, count |-> 0, data |-> [i \in 0 .. slots - 1 |-> Zero]]
    /\ set = <<>> /\ pushed = <<>>

-----------------------------------------------------------------------------
Wrap(n) == (n + W) % W

\* vector_resize: realloc to twice the slots
Doubled(v) ==
    [v EXCEPT !.slots = 2 * @,
              !.data = [i \in 0 .. 2 * v.slots - 1 |->
                           IF i < v.slots THEN v.data[i] ELSE Garbage]]

\* Mutant of WithRoom: it resizes once.
RoomOnce(v, index) == IF index < v.slots THEN v ELSE Doubled(v)

\* vector_set_at resizes until there is room.
WithRoom(v, index) ==
    LET grown[n \in Nat] ==
            IF n = 0 THEN v
            ELSE LET w == grown[n - 1] IN IF index < w.slots THEN w ELSE Doubled(w)
    IN  grown[index + 1]

SetAt(v, index, value) ==
    LET w == WithRoom(v, index) IN
    [w EXCEPT !.data[index] = value, !.count = Wrap(@ + 1)]

\* vector_get_at, NULL beyond the slots
GetAt(v, index) == IF index >= v.slots THEN "NULL" ELSE v.data[index]

\* vector_push resizes when one slot is left.
Room(v) == IF v.count = Wrap(v.slots - 1) THEN Doubled(v) ELSE v

\* vector_iter_next: whether there is a next, and the iterator then
AtEnd(v, it) == it.pos = Wrap(v.count - 1)
IterNext(v, it) ==
    IF ~it.started /\ it.pos = 0 THEN [pos |-> it.pos, started |-> TRUE]
    ELSE [pos |-> Wrap(it.pos + 1), started |-> it.started]

\* The values that `init; do ... while (vector_iter_next() == 0)' meets;
\* Garbage for a slot beyond the vector.
Iterated(v) ==
    LET At(it) == IF it.pos < v.slots THEN v.data[it.pos] ELSE Garbage
        its[n \in 0 .. W] ==
            IF n = 0 THEN <<[pos |-> 0, started |-> FALSE]>>
            ELSE LET past == its[n - 1]
                     it   == past[Len(past)]
                 IN  IF AtEnd(v, it) THEN past ELSE Append(past, IterNext(v, it))
        all == its[W]
    IN  [j \in 1 .. Len(all) - 1 |-> At(all[j + 1])]

-----------------------------------------------------------------------------
\* vector_push
Push ==
    \E value \in Values :
        /\ vec.count < MaxCount
        /\ vec.count < MaxSlots - 1
        /\ vec' = SetAt(Room(vec), vec.count, value)
        /\ pushed' = IF pushed = NotOnlyPushes THEN pushed ELSE Append(pushed, value)
        /\ set' = [i \in DOMAIN set \cup {vec.count} |-> IF i = vec.count THEN value ELSE set[i]]

Set ==
    \E index \in 0 .. MaxSlots - 1, value \in Values :
        /\ vec.count < MaxCount
        /\ vec' = SetAt(vec, index, value)
        /\ pushed' = NotOnlyPushes
        /\ set' = [i \in DOMAIN set \cup {index} |-> IF i = index THEN value ELSE set[i]]

Next == Push \/ Set

Spec == Init /\ [][Next]_vars

-----------------------------------------------------------------------------
(* Properties *)

\* A descriptor always leads to what was stored under it last, however the
\* vector has grown since (vector.c:41-72, conn.c:60, 206, 349).
Stores == \A i \in DOMAIN set : GetAt(vec, i) = set[i]

\* Pushes alone make a sequence, which the iterator returns if there are two
\* or more (vector.c:118-133).  Of one it returns none; of none it returns W.
Iterates ==
    pushed # NotOnlyPushes =>
        /\ vec.count = Len(pushed)
        /\ CASE pushed = <<>>    -> Len(Iterated(vec)) = W
             [] Len(pushed) = 1   -> Iterated(vec) = <<>>
             [] Len(pushed) > 1   -> Iterated(vec) = pushed

IsAnArray == Stores /\ Iterates
=============================================================================
