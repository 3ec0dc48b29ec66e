------------------------------ MODULE ShmQueue ------------------------------
(***************************************************************************)
(* The shared-memory ring of src/src/shmq.c, one step per access to the    *)
(* shared header or to the ring's memory.  Offsets and sizes are counted   *)
(* in words of sizeof(shmq_block_t) bytes, the unit of SHMQ_ALIGN: a block *)
(* is a header word (its size) followed by its payload words.              *)
(*                                                                         *)
(* verben uses the ring twice.  recv_queue has one producer that neither   *)
(* locks nor waits (the connection process) and consumers that do both     *)
(* (the workers); send_queue has it the other way round.  A process stands *)
(* for one place of the master's process table: when it dies another is    *)
(* forked in its place, and the kernel undoes its semaphore (SEM_UNDO).    *)
(***************************************************************************)
EXTENDS Integers, Sequences

CONSTANTS
    Producers, Consumers,   \* processes that push, processes that pop
    Msgs,                   \* messages that may be pushed, any number of times
    MsgLen,                 \* MsgLen[m]: words of m's block, header included
    Start, Size,            \* the ring is the words Start .. Size-1
    PushLock, PushWait,     \* flags of every push (SHMQ_LOCK, SHMQ_WAIT)
    PopLock, PopWait,       \* flags of every pop
    MayDie, MayStop,        \* processes that may be killed, sent SIGTERM
    NoMsg, NoProc           \* not a message, not a process

Procs == Producers \cup Consumers

ASSUME RingAssumption == /\ Start \in Nat /\ Size \in Nat
                         /\ Start < Size

\* struct message (inc/conn.h) is always part of the payload.
ASSUME MsgAssumption == /\ MsgLen \in [Msgs -> Nat]
                        /\ \A m \in Msgs : MsgLen[m] >= 2
                        /\ NoMsg \notin Msgs

ASSUME ProcAssumption == /\ Producers \cap Consumers = {}
                         /\ NoProc \notin Procs
                         /\ MayDie \subseteq Procs
                         /\ MayStop \subseteq Procs

\* A side that takes no lock has one process (conn.c:153, conn.c:329), and
\* the two sides never contend for the lock.
ASSUME SideAssumption ==
    /\ {PushLock, PushWait, PopLock, PopWait} \subseteq BOOLEAN
    /\ ~(PushLock /\ PopLock)
    /\ PushLock \/ \A p, q \in Producers : p = q
    /\ PopLock \/ \A c, d \in Consumers : c = d

VARIABLES
    head, tail,   \* header words: offsets of the first block, of the free room
    mem,          \* the words Start .. Size-1
    lock,         \* the process holding the queue's lock, or NoProc
    stop,         \* stop[p]: shmq_stop of process p
    pc,           \* where p is in shmq_push or shmq_pop
    lhead, ltail, \* p's local copies of head and tail
    arg,          \* the message p pushes; p's buffer *retdata
    chain,        \* history: the blocks pushed and not popped, oldest first
                  \* (not kept any more once stale)
    seen,         \* history: chain was not empty when c last read tail
    stale         \* history: a pop has wrapped head under its copy of a
                  \* tail that stood at Size

shared == <<head, tail, mem>>
ghost  == <<chain, seen, stale>>
vars   == <<head, tail, mem, lock, stop, pc, lhead, ltail, arg, chain, seen, stale>>

-----------------------------------------------------------------------------
(* Words of the ring *)

Word(m, k) == [msg |-> m, word |-> k]    \* word 0 holds the size of m's block
Pad        == Word(NoMsg, 0)             \* a size word with PAD_BLOCK set
Blank      == Word(NoMsg, 1)
IsHeader(w) == w.msg \in Msgs /\ w.word = 0

Words   == Start .. Size - 1
Offsets == Start .. Size
Cells   == {Pad, Blank} \cup {w \in [msg : Msgs, word : Nat] : w.word < MsgLen[w.msg]}

PushSteps == {"idle", "lock", "stop", "tail", "space", "wrap", "header", "copy", "commit", "unlock"}
PopSteps  == {"idle", "lock", "stop", "head", "test", "copy", "commit", "return", "unlock"}

Locks(p) == IF p \in Producers THEN PushLock ELSE PopLock

TypeOK ==
    /\ head \in Offsets /\ tail \in Offsets
    /\ mem \in [Words -> Cells]
    /\ lock \in Procs \cup {NoProc}
    /\ stop \in [Procs -> BOOLEAN]
    /\ pc \in [Procs -> PushSteps \cup PopSteps]
    /\ \A p \in Producers : pc[p] \in PushSteps
    /\ \A c \in Consumers : pc[c] \in PopSteps
    /\ lhead \in [Procs -> Offsets]
    /\ ltail \in [Procs -> Offsets]
    /\ arg \in [Procs -> Msgs \cup {NoMsg}]
    /\ chain \in Seq([at : Offsets, msg : Msgs])
    /\ seen \in [Consumers -> BOOLEAN]
    /\ stale \in BOOLEAN

Init ==
    /\ head = Start /\ tail = Start
    /\ mem = [o \in Words |-> Blank]
    /\ lock = NoProc
    /\ stop = [p \in Procs |-> FALSE]
    /\ pc = [p \in Procs |-> "idle"]
    /\ lhead = [p \in Procs |-> Start]
    /\ ltail = [p \in Procs |-> Start]
    /\ arg = [p \in Procs |-> NoMsg]
    /\ chain = <<>>
    /\ seen = [c \in Consumers |-> FALSE]
    /\ stale = FALSE

Goto(p, step) == pc' = [pc EXCEPT ![p] = step]

-----------------------------------------------------------------------------
(* OPT_LOCK, OPT_UNLOCK and the stop test: common to push and pop *)

\* Mutant of Enter: push and pop are called without SHMQ_LOCK.
EnterUnlocked(p) == Goto(p, "stop")

Enter(p) == Goto(p, IF Locks(p) THEN "lock" ELSE "stop")

LockTake(p) ==
    /\ pc[p] = "lock"
    /\ lock = NoProc
    /\ lock' = p
    /\ Goto(p, "stop")
    /\ UNCHANGED <<shared, stop, lhead, ltail, arg, ghost>>

\* Mutant of LockInterrupted: OPT_LOCK does not look at what LOCK_LOCK returns.
LockIgnored(p) ==
    /\ pc[p] = "lock"
    /\ stop[p]
    /\ Goto(p, "stop")
    /\ UNCHANGED <<shared, lock, stop, lhead, ltail, arg, ghost>>

\* semop returns EINTR when the signal arrives while p sleeps on the lock:
\* push or pop returns -1 at once.
LockInterrupted(p) ==
    /\ pc[p] = "lock"
    /\ stop[p]
    /\ Goto(p, "idle")
    /\ UNCHANGED <<shared, lock, stop, lhead, ltail, arg, ghost>>

StopSeen(p) ==
    /\ pc[p] = "stop"
    /\ stop[p]
    /\ Goto(p, "unlock")
    /\ UNCHANGED <<shared, lock, stop, lhead, ltail, arg, ghost>>

\* The locals of push and pop cease to exist.
DropLocals(p) ==
    /\ lhead' = [lhead EXCEPT ![p] = Start]
    /\ ltail' = [ltail EXCEPT ![p] = Start]
    /\ arg' = [arg EXCEPT ![p] = NoMsg]
    /\ seen' = [c \in Consumers |-> c # p /\ seen[c]]

\* Mutant of Return: no OPT_UNLOCK.
ReturnLocked(p) ==
    /\ pc[p] \in {"unlock", "return"}
    /\ DropLocals(p)
    /\ Goto(p, "idle")
    /\ UNCHANGED <<shared, lock, stop, chain, stale>>

\* Push and pop end here, with a result ("return") or without ("unlock").
Return(p) ==
    /\ pc[p] \in {"unlock", "return"}
    /\ lock' = IF Locks(p) THEN NoProc ELSE lock
    /\ DropLocals(p)
    /\ Goto(p, "idle")
    /\ UNCHANGED <<shared, stop, chain, stale>>

\* SIGTERM: the handler of a worker calls shmq_stop_wait.
SetStop(p) ==
    /\ p \in MayStop
    /\ ~stop[p]
    /\ stop' = [stop EXCEPT ![p] = TRUE]
    /\ UNCHANGED <<shared, lock, pc, lhead, ltail, arg, ghost>>

\* p dies between two steps and is forked again; SEM_UNDO frees its lock.
Die(p) ==
    /\ p \in MayDie
    /\ pc[p] # "idle"
    /\ lock' = IF lock = p THEN NoProc ELSE lock
    /\ stop' = [stop EXCEPT ![p] = FALSE]
    /\ DropLocals(p)
    /\ Goto(p, "idle")
    /\ UNCHANGED <<shared, chain, stale>>

-----------------------------------------------------------------------------
(* shmq_push *)

Need(p) == MsgLen[arg[p]]    \* req_size

PushCall(p, m) ==
    /\ pc[p] = "idle"
    /\ arg' = [arg EXCEPT ![p] = m]
    /\ Enter(p)
    /\ UNCHANGED <<shared, lock, stop, lhead, ltail, ghost>>

PushReadHead(p) ==
    /\ pc[p] = "stop"
    /\ ~stop[p]
    /\ lhead' = [lhead EXCEPT ![p] = head]
    /\ Goto(p, "tail")
    /\ UNCHANGED <<shared, lock, stop, ltail, arg, ghost>>

PushReadTail(p) ==
    /\ pc[p] = "tail"
    /\ tail' = IF tail = Size THEN Start ELSE tail
    /\ ltail' = [ltail EXCEPT ![p] = tail']
    /\ Goto(p, "space")
    /\ UNCHANGED <<head, mem, lock, stop, lhead, arg, ghost>>

\* Mutants of FitsAtTail: tail may become equal to head; the end is not tested.
FitsToTheEnd(h, t, n) == IF t >= h THEN t + n <= Size ELSE t + n < h
FitsAnywhere(h, t, n) == t >= h \/ t + n < h

\* The block fits at the tail, without making tail equal to head.
FitsAtTail(h, t, n) ==
    IF t >= h THEN t + n < Size \/ (h # Start /\ t + n = Size)
              ELSE t + n < h

\* Mutant of FitsAtStart: no pad is ever used.
NeverAtStart(h, t, n) == FALSE

\* The block fits below head once the rest of the ring is padded.
FitsAtStart(h, t, n) == t >= h /\ Start + n < h

PushFits(p) ==
    /\ pc[p] = "space"
    /\ FitsAtTail(lhead[p], ltail[p], Need(p))
    /\ Goto(p, "header")
    /\ UNCHANGED <<shared, lock, stop, lhead, ltail, arg, ghost>>

PushPad(p) ==
    /\ pc[p] = "space"
    /\ ~FitsAtTail(lhead[p], ltail[p], Need(p))
    /\ FitsAtStart(lhead[p], ltail[p], Need(p))
    /\ mem' = [mem EXCEPT ![ltail[p]] = Pad]
    /\ Goto(p, "wrap")
    /\ UNCHANGED <<head, tail, lock, stop, lhead, ltail, arg, ghost>>

PushWrap(p) ==
    /\ pc[p] = "wrap"
    /\ tail' = Start
    /\ Goto(p, "header")
    /\ UNCHANGED <<head, mem, lock, stop, lhead, ltail, arg, ghost>>

\* No space: with SHMQ_WAIT sleep and retry, still holding the lock.
PushFull(p) ==
    /\ pc[p] = "space"
    /\ ~FitsAtTail(lhead[p], ltail[p], Need(p))
    /\ ~FitsAtStart(lhead[p], ltail[p], Need(p))
    /\ Goto(p, IF PushWait THEN "stop" ELSE "unlock")
    /\ UNCHANGED <<shared, lock, stop, lhead, ltail, arg, ghost>>

PushHeader(p) ==
    /\ pc[p] = "header"
    /\ mem' = [mem EXCEPT ![tail] = Word(arg[p], 0)]
    /\ Goto(p, "copy")
    /\ UNCHANGED <<head, tail, lock, stop, lhead, ltail, arg, ghost>>

PushCopy(p) ==
    /\ pc[p] = "copy"
    /\ mem' = [o \in Words |-> IF o \in tail + 1 .. tail + Need(p) - 1
                               THEN Word(arg[p], o - tail) ELSE mem[o]]
    /\ Goto(p, "commit")
    /\ UNCHANGED <<head, tail, lock, stop, lhead, ltail, arg, ghost>>

PushCommit(p) ==
    /\ pc[p] = "commit"
    /\ tail' = tail + Need(p)
    /\ chain' = IF stale THEN chain ELSE Append(chain, [at |-> tail, msg |-> arg[p]])
    /\ Goto(p, "unlock")
    /\ UNCHANGED <<head, mem, lock, stop, lhead, ltail, arg, seen, stale>>

-----------------------------------------------------------------------------
(* shmq_pop *)

PopCall(c) ==
    /\ pc[c] = "idle"
    /\ Enter(c)
    /\ UNCHANGED <<shared, lock, stop, lhead, ltail, arg, ghost>>

PopReadTail(c) ==
    /\ pc[c] = "stop"
    /\ ~stop[c]
    /\ ltail' = [ltail EXCEPT ![c] = tail]
    /\ seen' = [seen EXCEPT ![c] = chain # <<>>]
    /\ Goto(c, "head")
    /\ UNCHANGED <<shared, lock, stop, lhead, arg, chain, stale>>

PopReadHead(c) ==
    /\ pc[c] = "head"
    /\ head' = IF head = Size THEN Start ELSE head
    /\ lhead' = [lhead EXCEPT ![c] = head']
    /\ stale' = (stale \/ (head = Size /\ ltail[c] = Size))
    /\ chain' = IF stale' THEN <<>> ELSE chain
    /\ Goto(c, "test")
    /\ UNCHANGED <<tail, mem, lock, stop, ltail, arg, seen>>

\* With SHMQ_WAIT sleep and retry, still holding the lock.
PopEmpty(c) ==
    /\ pc[c] = "test"
    /\ lhead[c] = ltail[c]
    /\ Goto(c, IF PopWait THEN "stop" ELSE "unlock")
    /\ UNCHANGED <<shared, lock, stop, lhead, ltail, arg, ghost>>

PopPad(c) ==
    /\ pc[c] = "test"
    /\ lhead[c] # ltail[c]
    /\ mem[lhead[c]] = Pad
    /\ head' = Start
    /\ Goto(c, "stop")
    /\ UNCHANGED <<tail, mem, lock, stop, lhead, ltail, arg, ghost>>

PopHeader(c) ==
    /\ pc[c] = "test"
    /\ lhead[c] # ltail[c]
    /\ IsHeader(mem[lhead[c]])
    /\ Goto(c, "copy")
    /\ UNCHANGED <<shared, lock, stop, lhead, ltail, arg, ghost>>

\* malloc fails: the block stays in the ring.
PopNoMemory(c) ==
    /\ pc[c] = "copy"
    /\ Goto(c, "unlock")
    /\ UNCHANGED <<shared, lock, stop, lhead, ltail, arg, ghost>>

\* Only after stale: the word taken for a size is payload or was never
\* written; the outcome kept is the one where malloc refuses that size.
PopGarbage(c) ==
    /\ pc[c] = "test"
    /\ lhead[c] # ltail[c]
    /\ mem[lhead[c]] # Pad /\ ~IsHeader(mem[lhead[c]])
    /\ Goto(c, "unlock")
    /\ UNCHANGED <<shared, lock, stop, lhead, ltail, arg, ghost>>

\* What memcpy finds in the block at offset o: a message, or a mixture.
Payload(o) ==
    LET m == mem[o].msg IN
    IF IsHeader(mem[o]) /\ \A k \in 1 .. MsgLen[m] - 1 : mem[o + k] = Word(m, k)
    THEN m ELSE NoMsg

PopCopy(c) ==
    /\ pc[c] = "copy"
    /\ arg' = [arg EXCEPT ![c] = Payload(lhead[c])]
    /\ Goto(c, "commit")
    /\ UNCHANGED <<shared, lock, stop, lhead, ltail, ghost>>

\* head (still lhead[c]) advances by the size read once more from the block.
PopCommit(c) ==
    /\ pc[c] = "commit"
    /\ IF IsHeader(mem[lhead[c]])
       THEN head' = lhead[c] + MsgLen[mem[lhead[c]].msg]
       ELSE head' \in Offsets
    /\ chain' = IF chain = <<>> THEN chain ELSE Tail(chain)
    /\ Goto(c, "return")
    /\ UNCHANGED <<tail, mem, lock, stop, lhead, ltail, arg, seen, stale>>

-----------------------------------------------------------------------------
PushStep(p) ==
    \/ PushReadHead(p) \/ PushReadTail(p) \/ PushFits(p) \/ PushPad(p)
    \/ PushWrap(p) \/ PushFull(p) \/ PushHeader(p) \/ PushCopy(p) \/ PushCommit(p)

PopStep(c) ==
    \/ PopReadTail(c) \/ PopReadHead(c) \/ PopEmpty(c) \/ PopPad(c)
    \/ PopHeader(c) \/ PopNoMemory(c) \/ PopGarbage(c) \/ PopCopy(c) \/ PopCommit(c)

AnyStep(p) ==
    \/ LockTake(p) \/ LockInterrupted(p) \/ StopSeen(p) \/ Return(p)
    \/ SetStop(p) \/ Die(p)

Next ==
    \/ \E p \in Procs : AnyStep(p)
    \/ \E p \in Producers : PushStep(p) \/ \E m \in Msgs : PushCall(p, m)
    \/ \E c \in Consumers : PopStep(c) \/ PopCall(c)

Spec == Init /\ [][Next]_vars

\* A process inside push or pop is scheduled again, and malloc does not fail
\* for ever.  A consumer calls shmq_pop again: a worker in its loop, whatever
\* the last call returned (worker.c:40-60).  The connection process does once
\* notified (conn.c:329), and that another byte comes when a pop has failed is
\* assumed here: Server is about the notifier.  Nothing makes a producer push,
\* a signal arrive or a process die.
Fairness ==
    /\ \A p \in Procs : WF_vars(LockTake(p)) /\ WF_vars(StopSeen(p)) /\ WF_vars(Return(p))
    /\ \A p \in Producers : WF_vars(PushStep(p))
    /\ \A c \in Consumers : WF_vars(PopCall(c)) /\ WF_vars(PopStep(c)) /\ SF_vars(PopCopy(c))

FairSpec == Spec /\ Fairness

-----------------------------------------------------------------------------
(* Properties *)

Inside(p) == pc[p] \notin {"idle", "lock"}

\* On each side of the ring at most one process is between OPT_LOCK and
\* OPT_UNLOCK, whichever processes are stopped, interrupted or killed: the
\* lock is never freed under the feet of a process that waits holding it.
OneInside ==
    /\ \A p, q \in Producers : Inside(p) /\ Inside(q) => p = q
    /\ \A c, d \in Consumers : Inside(c) /\ Inside(d) => c = d

\* The words of every block pushed and not popped are what its push wrote:
\* no later push, pad or wrap (shmq.c:130-190) overwrites them.
BlocksIntact ==
    \A i \in 1 .. Len(chain) :
        LET b == chain[i] IN
        \A k \in 0 .. MsgLen[b.msg] - 1 :
            b.at + k \in Words /\ mem[b.at + k] = Word(b.msg, k)

\* A pop that has copied its block (shmq.c:260) has the oldest message, whole.
PopsOldest ==
    \A c \in Consumers : pc[c] = "commit" => chain # <<>> /\ arg[c] = chain[1].msg

\* A pop gives up as empty (shmq.c:228) only if the ring was empty when it
\* read tail: what keeps a wake-up of the connection process from being lost.
EmptyIsEmpty ==
    \A c \in Consumers : pc[c] = "test" /\ lhead[c] = ltail[c] => ~seen[c]

\* The three above can break only after a pop has wrapped head while its copy
\* of tail stood at Size, i.e. after a ring filled up to Size was drained.
SoundUnlessStale == ~stale => BlocksIntact /\ PopsOldest /\ EmptyIsEmpty

\* The comment of shmq.c:141, for the push that is about to wrap tail.
HeadNotAtStart ==
    \A p \in Producers : pc[p] = "tail" /\ tail = Size => lhead[p] # Start

NeverStale == ~stale

\* The ring implements the queue of Fifo: messages leave in the order their
\* pushes advanced tail, each handed to one consumer at most.
Queue == INSTANCE Fifo WITH
    queue <- [i \in DOMAIN chain |-> chain[i].msg],
    taken <- [c \in Consumers |-> IF pc[c] = "return" THEN arg[c] ELSE NoMsg]
IsFifo == Queue!Spec

\* A worker waits for a block holding the lock of recv_queue and the other
\* sleeps on the lock, yet a pushed block is popped, by whichever is left when
\* some are killed, however often malloc fails, if not for ever, and unless
\* the ring is stale or a worker is told to stop.
BlocksArePopped ==
    <>[][\A p \in Procs : ~Die(p)]_vars =>
        (chain # <<>> ~> stale \/ \E c \in Consumers : pc[c] = "return" \/ stop[c])

\* A push that waits for room holding the lock ends, whatever the others push,
\* when a block takes at most half of the ring.
PushesEnd == \A p \in Producers : Inside(p) ~> pc[p] = "idle"
=============================================================================
