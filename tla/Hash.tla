-------------------------------- MODULE Hash --------------------------------
(***************************************************************************)
(* The hash table (src/src/hash.c) that holds the configuration: chains    *)
(* of entries, a table that doubles when there are as many entries as      *)
(* slots, and iterators.  `map' is the map it promises to be.              *)
(***************************************************************************)
EXTENDS Integers, Sequences, FiniteSets, SequencesExt, FiniteSetsExt, Functions

CONSTANTS
    Keys, Values,
    hash_func,          \* a function from Keys to Nat
    HASH_INIT_SLOTS,
    MaxSlots,           \* bound on the size of the table
    NULL

HashAssumption ==
    /\ hash_func \in [Keys -> Nat]
    /\ HASH_INIT_SLOTS \in Nat \ {0} /\ MaxSlots \in Nat
    /\ NULL \notin Values

VARIABLES
    ht,     \* [slots, count, data]: data[i] is a chain of <<key, value>>, or data is NULL
    copy,   \* what the last hash_dup has returned, or NULL
    map,    \* the entries that were inserted and not deleted
    copied, \* history: map when copy was made
    whole   \* history: no calloc failed while copy was filled

vars == <<ht, copy, map, copied, whole>>

\* HASH_INIT_SLOTS times a power of two
next_power(size) ==
    LET up[i \in Nat] == IF i >= size THEN i ELSE up[2 * i] IN up[HASH_INIT_SLOTS]

hash_init(slots) ==
    [slots |-> next_power(slots), count |-> 0,
     data |-> [i \in 0 .. next_power(slots) - 1 |-> <<>>]]

Init ==
    /\ ht = hash_init(HASH_INIT_SLOTS)
    /\ copy = NULL
    /\ map = <<>> /\ copied = <<>> /\ whole = TRUE

-----------------------------------------------------------------------------
Index(h, key) == hash_func[key] % h.slots
Chain(h, key) == h.data[Index(h, key)]

\* Where key is in a chain, or 0.
Position(chain, key) ==
    LET at == {j \in DOMAIN chain : chain[j][1] = key} IN IF at = {} THEN 0 ELSE Min(at)

hash_get_val(h, key) ==
    LET j == Position(Chain(h, key), key)
    IN  IF j = 0 THEN NULL ELSE Chain(h, key)[j][2]

WithChain(h, i, chain) == [h EXCEPT !.data[i] = chain]

\* The entries in the order of hash_foreach and hash_iter_next.
Entries(h) == FlattenSeq([i \in 1 .. h.slots |-> h.data[i - 1]])

\* An entry that is moved, or new, goes to the head of its chain.
Pushed(h, entry) ==
    [WithChain(h, Index(h, entry[1]), <<entry>> \o Chain(h, entry[1]))
        EXCEPT !.count = h.count + 1]

\* Mutant of Resized: entry i stays at i
NotRehashed(h) ==
    [slots |-> h.slots * 2, count |-> h.count,
     data  |-> [i \in 0 .. h.slots * 2 - 1 |-> IF i < h.slots THEN h.data[i] ELSE <<>>]]

\* hash_resize: every chain turns round.
Resized(h) ==
    LET moved[n \in 0 .. Len(Entries(h))] ==
            IF n = 0 THEN hash_init(h.slots * 2) ELSE Pushed(moved[n - 1], Entries(h)[n])
    IN  moved[Len(Entries(h))]

\* calloc fails in it: the table is larger and has no data (hash.c:227-232).
FailedResize(h) == [slots |-> next_power(h.slots * 2), count |-> 0, data |-> NULL]

\* hash_insert, once there is room
Inserted(h, entry) ==
    LET j == Position(Chain(h, entry[1]), entry[1])
    IN  IF j # 0
        THEN WithChain(h, Index(h, entry[1]), [Chain(h, entry[1]) EXCEPT ![j] = entry])
        ELSE Pushed(h, entry)

Full(h) == h.count \div h.slots >= 1     \* HASH_RESIZE_RATIO

hash_insert(h, entry) == Inserted(IF Full(h) THEN Resized(h) ELSE h, entry)

\* hash_dup, when n entries are copied: inserted one after the other, in a
\* table where there is always room.
Dup(h, n) ==
    LET inserted[k \in 0 .. Len(Entries(h))] ==
            IF k = 0 THEN hash_init(h.slots) ELSE hash_insert(inserted[k - 1], Entries(h)[k])
    IN  inserted[n]

-----------------------------------------------------------------------------
Usable == ht.data # NULL

Insert ==
    \E key \in Keys, v \in Values :
        /\ Usable
        /\ Full(ht) => ht.slots * 2 <= MaxSlots
        /\ ht' = hash_insert(ht, <<key, v>>)
        /\ map' = [k \in DOMAIN map \cup {key} |-> IF k = key THEN v ELSE map[k]]
        /\ UNCHANGED <<copy, copied, whole>>

\* There is no memory, and hash_insert returns -1: for the larger table, or,
\* when the key is new, for the entry (hash.c:109), which may be after a resize.
InsertFails ==
    /\ Usable
    /\ \/ Full(ht) /\ ht' = FailedResize(ht)
       \/ /\ \E key \in Keys : hash_get_val(ht, key) = NULL
          /\ Full(ht) => ht.slots * 2 <= MaxSlots
          /\ ht' = IF Full(ht) THEN Resized(ht) ELSE ht
    /\ UNCHANGED <<copy, map, copied, whole>>

\* hash_delete; -1 when there is no such key
Delete ==
    \E key \in Keys :
        LET j == Position(Chain(ht, key), key) IN
        /\ Usable
        /\ j # 0
        /\ ht' = [WithChain(ht, Index(ht, key), RemoveAt(Chain(ht, key), j))
                    EXCEPT !.count = @ - 1]
        /\ map' = Restrict(map, DOMAIN map \ {key})
        /\ UNCHANGED <<copy, copied, whole>>

\* hash_foreach with hash_delete: it has saved next before the entry goes.
Clear ==
    /\ Usable
    /\ ht' = [ht EXCEPT !.count = 0, !.data = [i \in DOMAIN ht.data |-> <<>>]]
    /\ map' = <<>>
    /\ UNCHANGED <<copy, copied, whole>>

\* The result of hash_foreach, which ends at the first entry that cannot be
\* inserted, is ignored (hash.c:267): there may be n entries in the copy.
Duplicate ==
    /\ Usable
    /\ next_power(ht.slots) <= MaxSlots
    /\ \/ /\ \E n \in 0 .. Len(Entries(ht)) :
                copy' = Dup(ht, n) /\ whole' = (n = Len(Entries(ht)))
          /\ copied' = map
       \/ copy' = NULL /\ copied' = <<>> /\ whole' = TRUE    \* hash_create fails
    /\ UNCHANGED <<ht, map>>

Next == Insert \/ InsertFails \/ Delete \/ Clear \/ Duplicate

Spec == Init /\ [][Next]_vars

-----------------------------------------------------------------------------
(* Properties *)

Is(h, m) ==
    /\ h.count = Cardinality(DOMAIN m)
    /\ \A key \in Keys :
          hash_get_val(h, key) = IF key \in DOMAIN m THEN m[key] ELSE NULL
    /\ ToSet(Entries(h)) = {<<key, m[key]>> : key \in DOMAIN m}
    /\ Len(Entries(h)) = h.count

\* Through collisions, replacements, deletions, resizes and insertions that
\* fail the table is the map (hash.c:82-172, 221-251): each key is found with
\* its latest value, count is right, and hash_foreach and hash_iter_next meet
\* every entry once.  Only a resize without memory loses the entries, all of
\* them (hash.c:230).  A copy (hash.c:254) has entries of the map it was taken
\* of and no others, however the table changes afterwards, but all of them
\* only when no calloc failed, which its caller is not told (hash.c:267).
IsTheMap ==
    /\ Usable => Is(ht, map)
    /\ copy # NULL =>
          \E keys \in SUBSET DOMAIN copied :
              /\ Is(copy, Restrict(copied, keys))
              /\ whole => keys = DOMAIN copied
=============================================================================
