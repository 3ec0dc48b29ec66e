------------------------------- MODULE DList -------------------------------
(***************************************************************************)
(* The doubly linked list (src/src/dlist.c), which holds the clients of a  *)
(* connection process: server_cron walks it and deletes as it goes, as the *)
(* comment of dlist_next allows.  The list promises a sequence; `list' is  *)
(* that sequence, kept beside the links.                                   *)
(***************************************************************************)
EXTENDS Integers, Sequences, FiniteSets, SequencesExt, FiniteSetsExt

CONSTANTS
    Nodes,     \* what malloc may return, a set of naturals
    Values,
    NULL

DListAssumption ==
    Nodes \subseteq Nat /\ IsFiniteSet(Nodes) /\ NULL \notin Nodes /\ NULL \notin Values

VARIABLES
    dl,        \* [head, tail, len, prev, next, value], the last three by node
    iter,      \* dlist_iter: [next, direction], or NULL when there is none
    curr,      \* what dlist_next has just returned
    list,      \* the nodes in their order, as the operations promise
    owed       \* the nodes the iterator has to return yet

vars == <<dl, iter, curr, list, owed>>

Directions == {"head", "tail"}

NoNodes == [n \in Nodes |-> NULL]
dlist_init == [head |-> NULL, tail |-> NULL, len |-> 0,
               prev |-> NoNodes, next |-> NoNodes, value |-> NoNodes]

Init ==
    /\ dl = dlist_init
    /\ iter = NULL /\ curr = NULL
    /\ list = <<>> /\ owed = {}

-----------------------------------------------------------------------------
(* The operations on the links *)

AddHead(d, n, v) ==
    [head |-> n, tail |-> IF d.len = 0 THEN n ELSE d.tail, len |-> d.len + 1,
     prev |-> [m \in Nodes |-> IF m = n THEN NULL ELSE IF m = d.head THEN n ELSE d.prev[m]],
     next |-> [d.next EXCEPT ![n] = d.head],
     value |-> [d.value EXCEPT ![n] = v]]

AddTail(d, n, v) ==
    [head |-> IF d.len = 0 THEN n ELSE d.head, tail |-> n, len |-> d.len + 1,
     prev |-> [d.prev EXCEPT ![n] = d.tail],
     next |-> [m \in Nodes |-> IF m = n THEN NULL ELSE IF m = d.tail THEN n ELSE d.next[m]],
     value |-> [d.value EXCEPT ![n] = v]]

\* dlist_insert_node: n goes after, or before, old.
InsertNode(d, old, n, v, after) ==
    LET p == IF after THEN old ELSE d.prev[old]
        s == IF after THEN d.next[old] ELSE old
    IN  [head |-> IF ~after /\ d.head = old THEN n ELSE d.head,
         tail |-> IF after /\ d.tail = old THEN n ELSE d.tail,
         len |-> d.len + 1,
         prev |-> [m \in Nodes |-> IF m = n THEN p ELSE IF m = s THEN n ELSE d.prev[m]],
         next |-> [m \in Nodes |-> IF m = n THEN s ELSE IF m = p THEN n ELSE d.next[m]],
         value |-> [d.value EXCEPT ![n] = v]]

\* Mutant of DeleteNode: the tail is left alone.
DeleteNotTail(d, n) ==
    LET p == d.prev[n] s == d.next[n] IN
    [head |-> IF p = NULL THEN s ELSE d.head, tail |-> d.tail, len |-> d.len - 1,
     prev |-> [m \in Nodes |-> IF m = n THEN NULL ELSE IF m = s THEN p ELSE d.prev[m]],
     next |-> [m \in Nodes |-> IF m = n THEN NULL ELSE IF m = p THEN s ELSE d.next[m]],
     value |-> [d.value EXCEPT ![n] = NULL]]

\* dlist_delete_node; the node is freed.
DeleteNode(d, n) ==
    LET p == d.prev[n] s == d.next[n] IN
    [head |-> IF p = NULL THEN s ELSE d.head,
     tail |-> IF s = NULL THEN p ELSE d.tail,
     len  |-> d.len - 1,
     prev |-> [m \in Nodes |-> IF m = n THEN NULL ELSE IF m = s THEN p ELSE d.prev[m]],
     next |-> [m \in Nodes |-> IF m = n THEN NULL ELSE IF m = p THEN s ELSE d.next[m]],
     value |-> [d.value EXCEPT ![n] = NULL]]

\* dlist_index: n[k] is the node k steps from one end.
Index(d, index) ==
    LET step == IF index < 0 THEN d.prev ELSE d.next
        from == IF index < 0 THEN d.tail ELSE d.head
        n[k \in Nat] == IF k = 0 THEN from
                        ELSE LET m == n[k - 1] IN IF m = NULL THEN NULL ELSE step[m]
    IN  n[IF index < 0 THEN -index - 1 ELSE index]

\* The nodes an iterator returns, in their order.
Walk(d, direction) ==
    LET step == IF direction = "head" THEN d.next ELSE d.prev
        from == IF direction = "head" THEN d.head ELSE d.tail
        w[k \in 0 .. Cardinality(Nodes)] ==
            IF k = 0 THEN IF from = NULL THEN <<>> ELSE <<from>>
            ELSE LET sofar == w[k - 1] IN
                 IF sofar = <<>> \/ step[Last(sofar)] = NULL THEN sofar
                 ELSE Append(sofar, step[Last(sofar)])
    IN  w[Cardinality(Nodes)]

\* dlist_search_key, without a match method
SearchKey(d, key) ==
    LET w     == Walk(d, "head")
        found == {j \in DOMAIN w : d.value[w[j]] = key}
    IN  IF found = {} THEN NULL ELSE w[Min(found)]

\* dlist_dup, without a dup method: the nodes of the copy are other ones, which
\* have here the names of those they copy.
Dup(d) ==
    LET w == Walk(d, "head")
        copy[k \in 0 .. Len(w)] ==
            IF k = 0 THEN dlist_init
            ELSE AddTail(copy[k - 1], w[k], d.value[w[k]])
    IN  copy[Len(w)]

-----------------------------------------------------------------------------
(* The steps *)

Fresh == Nodes \ Range(list)
NewNode == CHOOSE n \in Fresh : \A m \in Fresh : n <= m

Add ==
    \E v \in Values :
        /\ Fresh # {}
        /\ \/ /\ dl' = AddHead(dl, NewNode, v)
              /\ list' = <<NewNode>> \o list
           \/ /\ dl' = AddTail(dl, NewNode, v)
              /\ list' = Append(list, NewNode)
           \/ \E j \in DOMAIN list, after \in BOOLEAN :
              /\ dl' = InsertNode(dl, list[j], NewNode, v, after)
              /\ list' = InsertAt(list, IF after THEN j + 1 ELSE j, NewNode)
        /\ UNCHANGED <<iter, curr, owed>>

\* With an iterator about, only the node it has just returned may go.
Delete ==
    \E j \in DOMAIN list :
        /\ iter # NULL => list[j] = curr
        /\ dl' = DeleteNode(dl, list[j])
        /\ list' = RemoveAt(list, j)
        /\ curr' = NULL
        /\ UNCHANGED <<iter, owed>>

\* dlist_rewind, dlist_rewind_tail
Rewind ==
    \E direction \in Directions :
        /\ iter' = [next |-> IF direction = "head" THEN dl.head ELSE dl.tail,
                    direction |-> direction]
        /\ curr' = NULL
        /\ owed' = Range(list)
        /\ UNCHANGED <<dl, list>>

\* Mutant of After: the directions are swapped.
Before(d, n, direction) == IF direction = "head" THEN d.prev[n] ELSE d.next[n]

After(d, n, direction) == IF direction = "head" THEN d.next[n] ELSE d.prev[n]

NextNode ==
    /\ iter # NULL
    /\ curr' = iter.next
    /\ iter' = IF iter.next = NULL THEN NULL      \* the end: it is destroyed
               ELSE [iter EXCEPT !.next = After(dl, iter.next, iter.direction)]
    /\ owed' = IF iter.next = NULL THEN {} ELSE owed \ {iter.next}
    /\ UNCHANGED <<dl, list>>

Next == Add \/ Delete \/ Rewind \/ NextNode

Spec == Init /\ [][Next]_vars

-----------------------------------------------------------------------------
(* Properties *)

\* Both chains, len, dlist_index, dlist_search_key and dlist_dup agree with
\* the sequence, whatever was added and deleted where (dlist.c:96-148).
Agrees ==
    /\ dl.len = Len(list)
    /\ Walk(dl, "head") = list
    /\ Walk(dl, "tail") = Reverse(list)
    /\ \A j \in 0 .. Cardinality(Nodes) :
          /\ Index(dl, j) = IF j < dl.len THEN list[j + 1] ELSE NULL
          /\ Index(dl, -1 - j) = IF j < dl.len THEN list[dl.len - j] ELSE NULL
    /\ \A v \in Values : SearchKey(dl, v) =
          LET js == {j \in DOMAIN list : dl.value[list[j]] = v}
          IN  IF js = {} THEN NULL ELSE list[Min(js)]
    /\ LET copy == Dup(dl) IN
       /\ copy.len = dl.len
       /\ \A j \in DOMAIN list : copy.value[Walk(copy, "head")[j]] = dl.value[list[j]]

\* An iteration that adds, and deletes what it has just been given, as
\* server_cron does, is never led to a freed node and returns every node that
\* was there when it began (dlist.c:184-202).
VisitsAll ==
    iter # NULL =>
        /\ iter.next # NULL => iter.next \in Range(list)
        /\ owed \subseteq Range(list)
        /\ iter.next = NULL => owed = {}
=============================================================================
