---------------------------- MODULE ShmQueueInv ----------------------------
(***************************************************************************)
(* The inductive invariant of ShmQueue.  Between head and tail lies a      *)
(* chain of blocks, each beginning where the one before ends or, once, at  *)
(* Start behind a pad; a producer's copy of head and a consumer's copy of  *)
(* tail are positions the real ones have since moved forward from.         *)
(***************************************************************************)
EXTENDS ShmQueue

-----------------------------------------------------------------------------
(* What holds in every state: types, the lock, bounds of local copies *)

\* A process between OPT_LOCK and OPT_UNLOCK owns the lock.
Owner == \A p \in Procs : Inside(p) /\ Locks(p) => lock = p

\* The block the push at hand writes lies within the ring.
PushBounds ==
    \A p \in Producers :
        /\ pc[p] # "idle" => arg[p] \in Msgs
        /\ pc[p] \in {"space", "wrap"} => ltail[p] = tail /\ tail < Size
        /\ pc[p] = "wrap" => Start + Need(p) < lhead[p] /\ lhead[p] <= tail
        /\ pc[p] \in {"header", "copy", "commit"} => tail + Need(p) <= Size

PopBounds ==
    \A c \in Consumers : pc[c] \in {"test", "copy", "commit"} => lhead[c] = head /\ head < Size

HeaderBounds ==
    \A o \in Words : IsHeader(mem[o]) => o + MsgLen[mem[o].msg] <= Size

TypeInv == TypeOK /\ Owner /\ PushBounds /\ PopBounds /\ HeaderBounds

-----------------------------------------------------------------------------
(* What holds until a pop wraps head under a copy of tail at Size *)

End(b) == b.at + MsgLen[b.msg]

\* Every block lies between head and tail, going round the ring if need be.
Geometry ==
    \A i \in 1 .. Len(chain) :
        /\ End(chain[i]) <= Size
        /\ head <= tail => head <= chain[i].at /\ End(chain[i]) <= tail
        /\ tail < head => head <= chain[i].at \/ End(chain[i]) <= tail

\* Block b precedes d in a ring whose head and tail are at h and t.
Ordered(b, d, h, t) ==
    \/ /\ End(b) <= d.at
       /\ t < h /\ End(b) <= t => End(d) <= t
    \/ t < h /\ h <= b.at /\ End(d) <= t

Before(b, d) == Ordered(b, d, head, tail)

Order == \A i, j \in 1 .. Len(chain) : i < j => Before(chain[i], chain[j])

\* A consumer standing at o goes on at t: there, or at Start over a pad.
Leads(o, t) ==
    \/ t = o
    \/ t = Start /\ tail < head /\ head <= o /\ (o = Size \/ mem[o] = Pad)

From(i) == IF i = 0 THEN head ELSE End(chain[i])
To(i)   == IF i = Len(chain) THEN tail ELSE chain[i + 1].at
Links   == \A i \in 0 .. Len(chain) : Leads(From(i), To(i))

\* head has moved forward from h, without passing tail.
HeadFrom(h) == IF h <= tail THEN h <= head /\ head <= tail
                            ELSE h <= head \/ head <= tail

\* tail has moved forward from t, without meeting head.
TailFrom(t) == IF head <= t THEN t <= tail \/ tail < head
                            ELSE t <= tail /\ tail < head

\* The n words from tail on are free, and filling them leaves tail # head.
Room(n) == /\ tail + n <= Size
           /\ IF head <= tail THEN tail + n = Size => head # Start
                              ELSE tail + n < head

PushSound(p) ==
    /\ pc[p] \in {"tail", "space", "wrap"} => HeadFrom(lhead[p])
    /\ pc[p] = "tail" /\ tail = Size => lhead[p] # Start
    /\ pc[p] = "wrap" => mem[tail] = Pad
    /\ pc[p] \in {"header", "copy", "commit"} => Room(Need(p))
    /\ pc[p] \in {"copy", "commit"} => mem[tail] = Word(arg[p], 0)
    /\ pc[p] = "commit" => \A k \in 1 .. Need(p) - 1 : mem[tail + k] = Word(arg[p], k)

PopSound(c) ==
    /\ pc[c] \in {"head", "test"} => TailFrom(ltail[c])
    /\ pc[c] = "head" /\ seen[c] => ltail[c] # head /\ (head = Size => ltail[c] # Start)
    /\ pc[c] = "test" /\ seen[c] => ltail[c] # head
    /\ pc[c] \in {"copy", "commit"} => chain # <<>> /\ chain[1].at = head
    /\ pc[c] = "commit" => arg[c] = chain[1].msg

HeadOffStart == tail = Size => head # Start

Ring == HeadOffStart /\ Geometry /\ Order /\ Links /\ BlocksIntact

Sound == /\ Ring
         /\ \A p \in Producers : PushSound(p)
         /\ \A c \in Consumers : PopSound(c)

\* The inductive invariant: TypeInv always; Sound as long as no pop has
\* wrapped head under a copy of tail that stood at Size (shmq.c:221-226).
IInv == TypeInv /\ (~stale => Sound)
=============================================================================
