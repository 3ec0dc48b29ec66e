--------------------------- MODULE ShmQueueProofs ---------------------------
(***************************************************************************)
(* Theorems about ShmQueue, for every ring, every set of messages and      *)
(* processes and every choice of flags its assumptions allow.              *)
(***************************************************************************)
EXTENDS ShmQueueInv, SequenceTheorems, TLAPS

\* The messages of a sequence of blocks
MsgsOf(s) == [i \in DOMAIN s |-> s[i].msg]

LEMMA MsgsOfTyped ==
    ASSUME NEW S, \A x \in S : x.msg \in Msgs, NEW s \in Seq(S)
    PROVE  MsgsOf(s) \in Seq(Msgs) /\ Len(MsgsOf(s)) = Len(s)
           /\ \A i \in 1 .. Len(s) : MsgsOf(s)[i] = s[i].msg
<1>1. Len(s) \in Nat /\ DOMAIN s = 1 .. Len(s) /\ \A i \in 1 .. Len(s) : s[i] \in S
  BY LenProperties, ElementOfSeq
<1>2. MsgsOf(s) \in [1 .. Len(s) -> Msgs]
  BY <1>1 DEF MsgsOf
<1>. QED
  BY <1>1, <1>2 DEF MsgsOf

LEMMA MsgsOfAppend ==
    ASSUME NEW S, \A x \in S : x.msg \in Msgs, NEW s \in Seq(S), NEW b \in S
    PROVE  MsgsOf(Append(s, b)) = Append(MsgsOf(s), b.msg)
<1>. DEFINE t == Append(s, b)
            u == Append(MsgsOf(s), b.msg)
<1>1. /\ t \in Seq(S) /\ Len(t) = Len(s) + 1 /\ t[Len(s) + 1] = b
      /\ \A i \in 1 .. Len(s) : t[i] = s[i]
  BY AppendProperties
<1>2. /\ u \in Seq(Msgs) /\ Len(u) = Len(s) + 1 /\ u[Len(s) + 1] = b.msg
      /\ \A i \in 1 .. Len(s) : u[i] = s[i].msg
  BY MsgsOfTyped, AppendProperties
<1>. HIDE DEF t, u
<1>3. /\ MsgsOf(t) \in Seq(Msgs) /\ Len(MsgsOf(t)) = Len(s) + 1
      /\ \A i \in 1 .. Len(s) + 1 : MsgsOf(t)[i] = t[i].msg
  BY <1>1, MsgsOfTyped
<1>4. Len(s) \in Nat
  BY LenProperties
<1>5. \A i \in 1 .. Len(s) + 1 : MsgsOf(t)[i] = u[i]
  BY <1>1, <1>2, <1>3, <1>4
<1>6. MsgsOf(t) = u
  BY <1>2, <1>3, <1>5, SeqEqual
<1>. QED
  BY <1>6 DEF t, u

LEMMA MsgsOfTail ==
    ASSUME NEW S, \A x \in S : x.msg \in Msgs, NEW s \in Seq(S), s # <<>>
    PROVE  MsgsOf(s) # <<>> /\ Head(MsgsOf(s)) = s[1].msg /\ MsgsOf(Tail(s)) = Tail(MsgsOf(s))
<1>. DEFINE t == Tail(s)
            m == MsgsOf(s)
            u == Tail(m)
<1>1. Len(s) \in Nat \ {0}
  BY EmptySeq
<1>2. m \in Seq(Msgs) /\ Len(m) = Len(s) /\ \A i \in 1 .. Len(s) : m[i] = s[i].msg
  BY MsgsOfTyped
<1>3. t \in Seq(S) /\ Len(t) = Len(s) - 1 /\ \A i \in 1 .. Len(s) - 1 : t[i] = s[i + 1]
  BY HeadTailProperties
<1>. HIDE DEF m
<1>4. m # <<>> /\ Head(m) = s[1].msg
  BY <1>1, <1>2
<1>5. u \in Seq(Msgs) /\ Len(u) = Len(s) - 1 /\ \A i \in 1 .. Len(s) - 1 : u[i] = m[i + 1]
  BY <1>2, <1>4, HeadTailProperties
<1>. HIDE DEF t, u
<1>6. /\ MsgsOf(t) \in Seq(Msgs) /\ Len(MsgsOf(t)) = Len(s) - 1
      /\ \A i \in 1 .. Len(s) - 1 : MsgsOf(t)[i] = t[i].msg
  BY <1>3, MsgsOfTyped
<1>7. ASSUME NEW i \in 1 .. Len(s) - 1 PROVE MsgsOf(t)[i] = u[i]
  <2>1. i + 1 \in 1 .. Len(s)
    BY <1>1
  <2>2. m[i + 1] = s[i + 1].msg
    BY <1>2, <2>1
  <2>. QED
    BY <1>3, <1>5, <1>6, <2>2
<1>8. MsgsOf(t) = u
  BY <1>5, <1>6, <1>7, SeqEqual
<1>. QED
  BY <1>4, <1>8 DEF t, u, m

-----------------------------------------------------------------------------
USE RingAssumption, MsgAssumption, ProcAssumption, SideAssumption

LEMMA InitType == Init => TypeInv
<1>. SUFFICES ASSUME Init PROVE TypeInv
  OBVIOUS
<1>1. TypeOK
  <2>1. head \in Offsets /\ tail \in Offsets
    BY DEF Init, Offsets
  <2>2. mem \in [Words -> Cells]
    BY DEF Init, Cells
  <2>3. chain \in Seq([at : Offsets, msg : Msgs])
    BY DEF Init
  <2>. QED
    BY <2>1, <2>2, <2>3 DEF Init, TypeOK, Procs, Offsets, PushSteps, PopSteps
<1>2. Owner /\ PushBounds /\ PopBounds
  BY DEF Init, Owner, PushBounds, PopBounds, Inside, Procs
<1>3. HeaderBounds
  BY DEF Init, HeaderBounds, IsHeader, Blank, Word
<1>. QED
  BY <1>1, <1>2, <1>3 DEF TypeInv

LEMMA Alone == ASSUME TypeInv PROVE OneInside
BY DEF TypeInv, Owner, OneInside, Locks, Procs

\* The words a push writes; only the first is taken for a block's size.
LEMMA CellFacts ==
    /\ Pad \in Cells /\ ~IsHeader(Pad)
    /\ \A m \in Msgs : \A k \in 0 .. MsgLen[m] - 1 :
          /\ Word(m, k) \in Cells
          /\ Word(m, k) # Pad
          /\ IsHeader(Word(m, k)) <=> k = 0
    /\ \A m \in Msgs : MsgLen[m] \in Nat /\ MsgLen[m] >= 2
BY DEF Pad, Cells, Word, IsHeader

\* Steps on the lock, the stop flag and the process table.
LEMMA AnyStepType ==
    ASSUME TypeInv, NEW p \in Procs, AnyStep(p) PROVE TypeInv'
<1>1. CASE LockTake(p)
  <2>1. TypeOK'
    BY <1>1 DEF TypeInv, TypeOK, LockTake, Goto, shared, ghost, Procs, PushSteps, PopSteps
  <2>2. Owner'
    BY <1>1 DEF TypeInv, TypeOK, Owner, LockTake, Goto, Inside, Locks
  <2>3. PushBounds'
    BY <1>1 DEF TypeInv, TypeOK, PushBounds, LockTake, Goto, shared, Need, Procs
  <2>4. (PopBounds /\ HeaderBounds)'
    BY <1>1 DEF TypeInv, TypeOK, PopBounds, HeaderBounds, LockTake, Goto, shared, Procs
  <2>. QED
    BY <2>1, <2>2, <2>3, <2>4 DEF TypeInv
<1>2. CASE LockInterrupted(p)
  <2>1. TypeOK'
    BY <1>2 DEF TypeInv, TypeOK, LockInterrupted, Goto, shared, ghost, Procs, PushSteps, PopSteps
  <2>2. Owner'
    BY <1>2 DEF TypeInv, TypeOK, Owner, LockInterrupted, Goto, Inside, Locks
  <2>3. PushBounds'
    BY <1>2 DEF TypeInv, TypeOK, PushBounds, LockInterrupted, Goto, shared, Need, Procs
  <2>4. (PopBounds /\ HeaderBounds)'
    BY <1>2 DEF TypeInv, TypeOK, PopBounds, HeaderBounds, LockInterrupted, Goto, shared, Procs
  <2>. QED
    BY <2>1, <2>2, <2>3, <2>4 DEF TypeInv
<1>3. CASE StopSeen(p)
  <2>1. TypeOK'
    BY <1>3 DEF TypeInv, TypeOK, StopSeen, Goto, shared, ghost, Procs, PushSteps, PopSteps
  <2>2. Owner'
    BY <1>3 DEF TypeInv, TypeOK, Owner, StopSeen, Goto, Inside, Locks
  <2>3. PushBounds'
    BY <1>3 DEF TypeInv, TypeOK, PushBounds, StopSeen, Goto, shared, Need, Procs
  <2>4. (PopBounds /\ HeaderBounds)'
    BY <1>3 DEF TypeInv, TypeOK, PopBounds, HeaderBounds, StopSeen, Goto, shared, Procs
  <2>. QED
    BY <2>1, <2>2, <2>3, <2>4 DEF TypeInv
<1>4. CASE Return(p)
  <2>1. TypeOK'
    BY <1>4 DEF TypeInv, TypeOK, Return, Goto, shared, ghost, Procs, PushSteps, PopSteps, DropLocals, Offsets
  <2>2. Owner'
    BY <1>4 DEF TypeInv, TypeOK, Owner, Return, Goto, Inside, Locks
  <2>3. PushBounds'
    BY <1>4 DEF TypeInv, TypeOK, PushBounds, Return, Goto, shared, Need, Procs, DropLocals
  <2>4. (PopBounds /\ HeaderBounds)'
    BY <1>4 DEF TypeInv, TypeOK, PopBounds, HeaderBounds, Return, Goto, shared, Procs, DropLocals
  <2>. QED
    BY <2>1, <2>2, <2>3, <2>4 DEF TypeInv
<1>5. CASE SetStop(p)
  <2>1. TypeOK'
    BY <1>5 DEF TypeInv, TypeOK, SetStop, Goto, shared, ghost, Procs, PushSteps, PopSteps
  <2>2. Owner'
    BY <1>5 DEF TypeInv, TypeOK, Owner, SetStop, Goto, Inside, Locks
  <2>3. PushBounds'
    BY <1>5 DEF TypeInv, TypeOK, PushBounds, SetStop, Goto, shared, Need, Procs
  <2>4. (PopBounds /\ HeaderBounds)'
    BY <1>5 DEF TypeInv, TypeOK, PopBounds, HeaderBounds, SetStop, Goto, shared, Procs
  <2>. QED
    BY <2>1, <2>2, <2>3, <2>4 DEF TypeInv
<1>6. CASE Die(p)
  <2>1. TypeOK'
    BY <1>6 DEF TypeInv, TypeOK, Die, Goto, shared, ghost, Procs, PushSteps, PopSteps, DropLocals, Offsets
  <2>2. Owner'
    BY <1>6 DEF TypeInv, TypeOK, Owner, Die, Goto, Inside, Locks
  <2>3. PushBounds'
    BY <1>6 DEF TypeInv, TypeOK, PushBounds, Die, Goto, shared, Need, Procs, DropLocals
  <2>4. (PopBounds /\ HeaderBounds)'
    BY <1>6 DEF TypeInv, TypeOK, PopBounds, HeaderBounds, Die, Goto, shared, Procs, DropLocals
  <2>. QED
    BY <2>1, <2>2, <2>3, <2>4 DEF TypeInv
<1>. QED
  BY <1>1, <1>2, <1>3, <1>4, <1>5, <1>6 DEF AnyStep

\* Steps of shmq_push.
LEMMA PushStepType ==
    ASSUME TypeInv, NEW p \in Producers, PushStep(p) \/ \E m \in Msgs : PushCall(p, m)
    PROVE  TypeInv'
<1>. USE Alone DEF OneInside
<1>1. CASE PushReadHead(p)
  <2>1. TypeOK'
    BY <1>1 DEF TypeInv, TypeOK, PushReadHead, Goto, shared, ghost, Procs, PushSteps, PopSteps, Offsets
  <2>2. Owner'
    BY <1>1 DEF TypeInv, TypeOK, Owner, PushReadHead, Goto, Inside, Locks
  <2>3. PushBounds'
    BY <1>1 DEF TypeInv, TypeOK, PushBounds, PushReadHead, Goto, shared, Need, Procs, Inside, FitsAtTail, FitsAtStart, Offsets
  <2>4. (PopBounds /\ HeaderBounds)'
    BY <1>1 DEF TypeInv, TypeOK, PopBounds, HeaderBounds, PushReadHead, Goto, shared, Procs
  <2>. QED
    BY <2>1, <2>2, <2>3, <2>4 DEF TypeInv
<1>2. CASE PushReadTail(p)
  <2>1. TypeOK'
    BY <1>2 DEF TypeInv, TypeOK, PushReadTail, Goto, shared, ghost, Procs, PushSteps, PopSteps, Offsets
  <2>2. Owner'
    BY <1>2 DEF TypeInv, TypeOK, Owner, PushReadTail, Goto, Inside, Locks
  <2>3. PushBounds'
    BY <1>2 DEF TypeInv, TypeOK, PushBounds, PushReadTail, Goto, shared, Need, Procs, Inside, FitsAtTail, FitsAtStart, Offsets
  <2>4. (PopBounds /\ HeaderBounds)'
    BY <1>2 DEF TypeInv, TypeOK, PopBounds, HeaderBounds, PushReadTail, Goto, shared, Procs
  <2>. QED
    BY <2>1, <2>2, <2>3, <2>4 DEF TypeInv
<1>3. CASE PushFits(p)
  <2>1. TypeOK'
    BY <1>3 DEF TypeInv, TypeOK, PushFits, Goto, shared, ghost, Procs, PushSteps, PopSteps, Offsets
  <2>2. Owner'
    BY <1>3 DEF TypeInv, TypeOK, Owner, PushFits, Goto, Inside, Locks
  <2>3. PushBounds'
    BY <1>3 DEF TypeInv, TypeOK, PushBounds, PushFits, Goto, shared, Need, Procs, Inside, FitsAtTail, FitsAtStart, Offsets
  <2>4. (PopBounds /\ HeaderBounds)'
    BY <1>3 DEF TypeInv, TypeOK, PopBounds, HeaderBounds, PushFits, Goto, shared, Procs
  <2>. QED
    BY <2>1, <2>2, <2>3, <2>4 DEF TypeInv
<1>4. CASE PushPad(p)
  <2>1. TypeOK'
    <3>1. mem' \in [Words -> Cells]
      BY <1>4 DEF TypeInv, TypeOK, PushBounds, PushPad, Words, Offsets, Cells
    <3>. QED
      BY <1>4, <3>1 DEF TypeInv, TypeOK, PushPad, Goto, ghost, Procs, PushSteps, PopSteps
  <2>2. Owner'
    BY <1>4 DEF TypeInv, TypeOK, Owner, PushPad, Goto, Inside, Locks
  <2>3. PushBounds'
    BY <1>4 DEF TypeInv, TypeOK, PushBounds, PushPad, Goto, shared, Need, Procs, Inside, FitsAtTail, FitsAtStart, Offsets
  <2>4. (PopBounds /\ HeaderBounds)'
    <3>1. PopBounds'
      BY <1>4 DEF TypeInv, TypeOK, PopBounds, PushPad, Goto, Procs
    <3>2. HeaderBounds'
      BY <1>4, CellFacts DEF TypeInv, TypeOK, HeaderBounds, PushPad
    <3>. QED
      BY <3>1, <3>2
  <2>. QED
    BY <2>1, <2>2, <2>3, <2>4 DEF TypeInv
<1>5. CASE PushWrap(p)
  <2>1. TypeOK'
    BY <1>5 DEF TypeInv, TypeOK, PushWrap, Goto, shared, ghost, Procs, PushSteps, PopSteps, Offsets
  <2>2. Owner'
    BY <1>5 DEF TypeInv, TypeOK, Owner, PushWrap, Goto, Inside, Locks
  <2>3. PushBounds'
    <3>1. Need(p) \in Nat /\ Start + Need(p) <= Size /\ Need(p)' = Need(p)
      BY <1>5 DEF TypeInv, TypeOK, PushBounds, PushWrap, Procs, Offsets, Need
    <3>2. \A q \in Producers : q # p => ~Inside(q)
      BY <1>5 DEF PushWrap, Inside
    <3>. QED
      BY <1>5, <3>1, <3>2 DEF TypeInv, TypeOK, PushBounds, PushWrap, Goto, Need, Procs, Inside
  <2>4. (PopBounds /\ HeaderBounds)'
    BY <1>5 DEF TypeInv, TypeOK, PopBounds, HeaderBounds, PushWrap, Goto, shared, Procs
  <2>. QED
    BY <2>1, <2>2, <2>3, <2>4 DEF TypeInv
<1>6. CASE PushFull(p)
  <2>1. TypeOK'
    BY <1>6 DEF TypeInv, TypeOK, PushFull, Goto, shared, ghost, Procs, PushSteps, PopSteps, Offsets
  <2>2. Owner'
    BY <1>6 DEF TypeInv, TypeOK, Owner, PushFull, Goto, Inside, Locks
  <2>3. PushBounds'
    BY <1>6 DEF TypeInv, TypeOK, PushBounds, PushFull, Goto, shared, Need, Procs, Inside, FitsAtTail, FitsAtStart, Offsets
  <2>4. (PopBounds /\ HeaderBounds)'
    BY <1>6 DEF TypeInv, TypeOK, PopBounds, HeaderBounds, PushFull, Goto, shared, Procs
  <2>. QED
    BY <2>1, <2>2, <2>3, <2>4 DEF TypeInv
<1>7. CASE PushHeader(p)
  <2>1. TypeOK'
    <3>1. Word(arg[p], 0) \in Cells
      BY <1>7, CellFacts DEF TypeInv, TypeOK, PushBounds, PushHeader
    <3>2. mem' \in [Words -> Cells]
      BY <1>7, <3>1 DEF TypeInv, TypeOK, PushHeader
    <3>. QED
      BY <1>7, <3>2 DEF TypeInv, TypeOK, PushHeader, Goto, ghost, Procs, PushSteps, PopSteps
  <2>2. Owner'
    BY <1>7 DEF TypeInv, TypeOK, Owner, PushHeader, Goto, Inside, Locks
  <2>3. PushBounds'
    BY <1>7 DEF TypeInv, TypeOK, PushBounds, PushHeader, Goto, shared, Need, Procs, Inside, FitsAtTail, FitsAtStart, Offsets
  <2>4. (PopBounds /\ HeaderBounds)'
    <3>1. PopBounds'
      BY <1>7 DEF TypeInv, TypeOK, PopBounds, PushHeader, Goto, Procs
    <3>2. HeaderBounds'
      BY <1>7, CellFacts DEF TypeInv, TypeOK, PushBounds, HeaderBounds, PushHeader, Need, IsHeader, Word
    <3>. QED
      BY <3>1, <3>2
  <2>. QED
    BY <2>1, <2>2, <2>3, <2>4 DEF TypeInv
<1>8. CASE PushCopy(p)
  <2>1. TypeOK'
    <3>1. arg[p] \in Msgs /\ Need(p) \in Nat /\ tail \in Nat
      BY <1>8 DEF TypeInv, TypeOK, PushBounds, PushCopy, Need, Offsets
    <3>2. \A o \in tail + 1 .. tail + Need(p) - 1 : Word(arg[p], o - tail) \in Cells
      BY <3>1, CellFacts DEF Need
    <3>3. mem' \in [Words -> Cells]
      BY <1>8, <3>2 DEF TypeInv, TypeOK, PushCopy
    <3>. QED
      BY <1>8, <3>3 DEF TypeInv, TypeOK, PushCopy, Goto, ghost, Procs, PushSteps, PopSteps
  <2>2. Owner'
    BY <1>8 DEF TypeInv, TypeOK, Owner, PushCopy, Goto, Inside, Locks
  <2>3. PushBounds'
    BY <1>8 DEF TypeInv, TypeOK, PushBounds, PushCopy, Goto, shared, Need, Procs, Inside, FitsAtTail, FitsAtStart, Offsets
  <2>4. (PopBounds /\ HeaderBounds)'
    <3>1. PopBounds'
      BY <1>8 DEF TypeInv, TypeOK, PopBounds, PushCopy, Goto, Procs
    <3>2. arg[p] \in Msgs /\ Need(p) \in Nat /\ tail \in Nat
      BY <1>8 DEF TypeInv, TypeOK, PushBounds, PushCopy, Need, Offsets
    <3>3. \A o \in tail + 1 .. tail + Need(p) - 1 : ~IsHeader(Word(arg[p], o - tail))
      BY <3>2 DEF IsHeader, Word
    <3>4. HeaderBounds'
      BY <1>8, <3>3 DEF TypeInv, TypeOK, HeaderBounds, PushCopy
    <3>. QED
      BY <3>1, <3>4
  <2>. QED
    BY <2>1, <2>2, <2>3, <2>4 DEF TypeInv
<1>9. CASE PushCommit(p)
  <2>1. TypeOK'
    <3>1. tail \in Nat /\ Need(p) \in Nat /\ arg[p] \in Msgs /\ tail' \in Offsets
      BY SMTT(30), <1>9 DEF TypeInv, TypeOK, PushBounds, PushCommit, Need, Offsets
    <3>2. chain' \in Seq([at : Offsets, msg : Msgs])
      <4>. DEFINE S == [at : Offsets, msg : Msgs]
                  b == [at |-> tail, msg |-> arg[p]]
      <4>1. b \in S /\ chain \in Seq(S)
        BY <3>1 DEF TypeInv, TypeOK
      <4>2. chain' = chain \/ chain' = Append(chain, b)
        BY <1>9 DEF PushCommit
      <4>3. chain' \in Seq(S)
        <5>. HIDE DEF S, b
        <5>. QED
          BY <4>1, <4>2
      <4>. QED
        BY <4>3
    <3>. QED
      BY <1>9, <3>1, <3>2 DEF TypeInv, TypeOK, PushCommit, Goto, Procs, PushSteps, PopSteps
  <2>2. Owner'
    BY <1>9 DEF TypeInv, TypeOK, Owner, PushCommit, Goto, Inside, Locks
  <2>3. PushBounds'
    BY ZenonT(60), <1>9 DEF TypeInv, TypeOK, PushBounds, PushCommit, Goto, shared, Need, Procs, Inside, FitsAtTail, FitsAtStart, Offsets
  <2>4. (PopBounds /\ HeaderBounds)'
    BY <1>9 DEF TypeInv, TypeOK, PopBounds, HeaderBounds, PushCommit, Goto, shared, Procs
  <2>. QED
    BY <2>1, <2>2, <2>3, <2>4 DEF TypeInv
<1>10. CASE \E m \in Msgs : PushCall(p, m)
  <2>. PICK m \in Msgs : PushCall(p, m)
    BY <1>10
  <2>1. TypeOK'
    BY DEF TypeInv, TypeOK, PushCall, Goto, shared, ghost, Procs, PushSteps, PopSteps, Enter
  <2>2. Owner'
    BY DEF TypeInv, TypeOK, Owner, PushCall, Goto, Inside, Locks, Enter
  <2>3. PushBounds'
    BY DEF TypeInv, TypeOK, PushBounds, PushCall, Goto, shared, Need, Procs, Enter
  <2>4. (PopBounds /\ HeaderBounds)'
    BY DEF TypeInv, TypeOK, PopBounds, HeaderBounds, PushCall, Goto, shared, Enter, Procs
  <2>. QED
    BY <2>1, <2>2, <2>3, <2>4 DEF TypeInv
<1>. QED
  BY <1>1, <1>2, <1>3, <1>4, <1>5, <1>6, <1>7, <1>8, <1>9, <1>10 DEF PushStep

\* Steps of shmq_pop.
LEMMA PopStepType ==
    ASSUME TypeInv, NEW c \in Consumers, PopStep(c) \/ PopCall(c) PROVE TypeInv'
<1>. USE Alone DEF OneInside
<1>1. CASE PopReadTail(c)
  <2>1. TypeOK'
    BY <1>1 DEF TypeInv, TypeOK, PopReadTail, Goto, shared, ghost, Procs, PushSteps, PopSteps, Offsets, Enter
  <2>2. Owner'
    BY <1>1 DEF TypeInv, TypeOK, Owner, PopReadTail, Goto, Inside, Locks, Enter
  <2>3. PushBounds'
    BY <1>1 DEF TypeInv, TypeOK, PushBounds, PopReadTail, Goto, shared, Need, Procs, Enter
  <2>4. (PopBounds /\ HeaderBounds)'
    BY <1>1 DEF TypeInv, TypeOK, PopBounds, HeaderBounds, Inside, Enter, Offsets, PopReadTail, Goto, shared, Procs
  <2>. QED
    BY <2>1, <2>2, <2>3, <2>4 DEF TypeInv
<1>2. CASE PopReadHead(c)
  <2>1. TypeOK'
    BY <1>2 DEF TypeInv, TypeOK, PopReadHead, Goto, shared, ghost, Procs, PushSteps, PopSteps, Offsets, Enter
  <2>2. Owner'
    BY <1>2 DEF TypeInv, TypeOK, Owner, PopReadHead, Goto, Inside, Locks, Enter
  <2>3. PushBounds'
    BY <1>2 DEF TypeInv, TypeOK, PushBounds, PopReadHead, Goto, shared, Need, Procs, Enter
  <2>4. (PopBounds /\ HeaderBounds)'
    BY <1>2 DEF TypeInv, TypeOK, PopBounds, HeaderBounds, Inside, Enter, Offsets, PopReadHead, Goto, shared, Procs
  <2>. QED
    BY <2>1, <2>2, <2>3, <2>4 DEF TypeInv
<1>3. CASE PopEmpty(c)
  <2>1. TypeOK'
    BY <1>3 DEF TypeInv, TypeOK, PopEmpty, Goto, shared, ghost, Procs, PushSteps, PopSteps, Offsets, Enter
  <2>2. Owner'
    BY <1>3 DEF TypeInv, TypeOK, Owner, PopEmpty, Goto, Inside, Locks, Enter
  <2>3. PushBounds'
    BY <1>3 DEF TypeInv, TypeOK, PushBounds, PopEmpty, Goto, shared, Need, Procs, Enter
  <2>4. (PopBounds /\ HeaderBounds)'
    BY <1>3 DEF TypeInv, TypeOK, PopBounds, HeaderBounds, Inside, Enter, Offsets, PopEmpty, Goto, shared, Procs
  <2>. QED
    BY <2>1, <2>2, <2>3, <2>4 DEF TypeInv
<1>4. CASE PopPad(c)
  <2>1. TypeOK'
    BY <1>4 DEF TypeInv, TypeOK, PopPad, Goto, shared, ghost, Procs, PushSteps, PopSteps, Offsets, Enter
  <2>2. Owner'
    BY <1>4 DEF TypeInv, TypeOK, Owner, PopPad, Goto, Inside, Locks, Enter
  <2>3. PushBounds'
    BY <1>4 DEF TypeInv, TypeOK, PushBounds, PopPad, Goto, shared, Need, Procs, Enter
  <2>4. (PopBounds /\ HeaderBounds)'
    BY ZenonT(60), <1>4 DEF TypeInv, TypeOK, PopBounds, HeaderBounds, Inside, Enter, Offsets, PopPad, Goto, shared, Procs
  <2>. QED
    BY <2>1, <2>2, <2>3, <2>4 DEF TypeInv
<1>5. CASE PopHeader(c)
  <2>1. TypeOK'
    BY <1>5 DEF TypeInv, TypeOK, PopHeader, Goto, shared, ghost, Procs, PushSteps, PopSteps, Offsets, Enter
  <2>2. Owner'
    BY <1>5 DEF TypeInv, TypeOK, Owner, PopHeader, Goto, Inside, Locks, Enter
  <2>3. PushBounds'
    BY <1>5 DEF TypeInv, TypeOK, PushBounds, PopHeader, Goto, shared, Need, Procs, Enter
  <2>4. (PopBounds /\ HeaderBounds)'
    BY <1>5 DEF TypeInv, TypeOK, PopBounds, HeaderBounds, Inside, Enter, Offsets, PopHeader, Goto, shared, Procs
  <2>. QED
    BY <2>1, <2>2, <2>3, <2>4 DEF TypeInv
<1>6. CASE PopNoMemory(c)
  <2>1. TypeOK'
    BY <1>6 DEF TypeInv, TypeOK, PopNoMemory, Goto, shared, ghost, Procs, PushSteps, PopSteps, Offsets, Enter
  <2>2. Owner'
    BY <1>6 DEF TypeInv, TypeOK, Owner, PopNoMemory, Goto, Inside, Locks, Enter
  <2>3. PushBounds'
    BY <1>6 DEF TypeInv, TypeOK, PushBounds, PopNoMemory, Goto, shared, Need, Procs, Enter
  <2>4. (PopBounds /\ HeaderBounds)'
    BY <1>6 DEF TypeInv, TypeOK, PopBounds, HeaderBounds, Inside, Enter, Offsets, PopNoMemory, Goto, shared, Procs
  <2>. QED
    BY <2>1, <2>2, <2>3, <2>4 DEF TypeInv
<1>7. CASE PopGarbage(c)
  <2>1. TypeOK'
    BY <1>7 DEF TypeInv, TypeOK, PopGarbage, Goto, shared, ghost, Procs, PushSteps, PopSteps, Offsets, Enter
  <2>2. Owner'
    BY <1>7 DEF TypeInv, TypeOK, Owner, PopGarbage, Goto, Inside, Locks, Enter
  <2>3. PushBounds'
    BY <1>7 DEF TypeInv, TypeOK, PushBounds, PopGarbage, Goto, shared, Need, Procs, Enter
  <2>4. (PopBounds /\ HeaderBounds)'
    BY <1>7 DEF TypeInv, TypeOK, PopBounds, HeaderBounds, Inside, Enter, Offsets, PopGarbage, Goto, shared, Procs
  <2>. QED
    BY <2>1, <2>2, <2>3, <2>4 DEF TypeInv
<1>8. CASE PopCopy(c)
  <2>1. TypeOK'
    <3>1. Payload(lhead[c]) \in Msgs \cup {NoMsg}
      BY DEF Payload, IsHeader
    <3>. QED
      BY <1>8, <3>1 DEF TypeInv, TypeOK, PopCopy, Goto, shared, ghost, Procs, PushSteps, PopSteps
  <2>2. Owner'
    BY <1>8 DEF TypeInv, TypeOK, Owner, PopCopy, Goto, Inside, Locks, Enter
  <2>3. PushBounds'
    BY <1>8 DEF TypeInv, TypeOK, PushBounds, PopCopy, Goto, shared, Need, Procs, Enter
  <2>4. (PopBounds /\ HeaderBounds)'
    BY <1>8 DEF TypeInv, TypeOK, PopBounds, HeaderBounds, Inside, Enter, Offsets, PopCopy, Goto, shared, Procs
  <2>. QED
    BY <2>1, <2>2, <2>3, <2>4 DEF TypeInv
<1>9. CASE PopCommit(c)
  <2>1. TypeOK'
    <3>1. head' \in Offsets
      BY <1>9 DEF TypeInv, TypeOK, PopCommit, PopBounds, HeaderBounds, Words, Offsets, Procs, IsHeader
    <3>2. chain' \in Seq([at : Offsets, msg : Msgs])
      BY <1>9 DEF TypeInv, TypeOK, PopCommit
    <3>. QED
      BY <1>9, <3>1, <3>2 DEF TypeInv, TypeOK, PopCommit, Goto, Procs, PushSteps, PopSteps
  <2>2. Owner'
    BY <1>9 DEF TypeInv, TypeOK, Owner, PopCommit, Goto, Inside, Locks, Enter
  <2>3. PushBounds'
    BY <1>9 DEF TypeInv, TypeOK, PushBounds, PopCommit, Goto, shared, Need, Procs, Enter
  <2>4. (PopBounds /\ HeaderBounds)'
    BY <1>9 DEF TypeInv, TypeOK, PopBounds, HeaderBounds, Inside, Enter, Offsets, PopCommit, Goto, shared, Procs
  <2>. QED
    BY <2>1, <2>2, <2>3, <2>4 DEF TypeInv
<1>10. CASE PopCall(c)
  <2>1. TypeOK'
    BY <1>10 DEF TypeInv, TypeOK, PopCall, Goto, shared, ghost, Procs, PushSteps, PopSteps, Offsets, Enter
  <2>2. Owner'
    BY <1>10 DEF TypeInv, TypeOK, Owner, PopCall, Goto, Inside, Locks, Enter
  <2>3. PushBounds'
    BY <1>10 DEF TypeInv, TypeOK, PushBounds, PopCall, Goto, shared, Need, Procs, Enter
  <2>4. (PopBounds /\ HeaderBounds)'
    BY <1>10 DEF TypeInv, TypeOK, PopBounds, HeaderBounds, Inside, Enter, Offsets, PopCall, Goto, shared, Procs
  <2>. QED
    BY <2>1, <2>2, <2>3, <2>4 DEF TypeInv
<1>. QED
  BY <1>1, <1>2, <1>3, <1>4, <1>5, <1>6, <1>7, <1>8, <1>9, <1>10 DEF PopStep

LEMMA TypeStutter == ASSUME TypeInv, UNCHANGED vars PROVE TypeInv'
<1>1. TypeOK' /\ Owner'
  BY DEF TypeInv, TypeOK, Owner, vars, Inside
<1>2. PushBounds' /\ PopBounds' /\ HeaderBounds'
  BY DEF TypeInv, PushBounds, PopBounds, HeaderBounds, vars, Need
<1>. QED
  BY <1>1, <1>2 DEF TypeInv

LEMMA TypeStep == TypeInv /\ [Next]_vars => TypeInv'
BY AnyStepType, PushStepType, PopStepType, TypeStutter DEF Next

LEMMA TypeAlways == Spec => []TypeInv
<1>. QED
  BY InitType, TypeStep, PTL DEF Spec

\* Every variable of the ring keeps its type: offsets stay within the ring
\* and no word outside it is written (shmq_push and shmq_pop, shmq.c:121-274),
\* stale pops included.
THEOREM TypeCorrect == Spec => []TypeOK
<1>1. TypeInv => TypeOK
  BY DEF TypeInv
<1>. QED
  BY <1>1, TypeAlways, PTL

\* At most one process of each side is between OPT_LOCK and OPT_UNLOCK
\* (shmq.c:28-40), however many are interrupted, stopped or killed.
THEOREM MutualExclusion == Spec => []OneInside
<1>1. TypeInv => OneInside
  BY Alone
<1>. QED
  BY <1>1, TypeAlways, PTL

-----------------------------------------------------------------------------
(* Until a pop goes stale: steps that leave the ring alone *)

LEMMA InitSound == Init => Sound
<1>. SUFFICES ASSUME Init PROVE Sound
  OBVIOUS
<1>1. Ring
  BY DEF Init, Ring, HeadOffStart, Geometry, Order, Links, BlocksIntact, Leads, From, To
<1>2. \A p \in Producers : PushSound(p)
  BY DEF Init, PushSound, Procs
<1>3. \A c \in Consumers : PopSound(c)
  BY DEF Init, PopSound, Procs
<1>. QED
  BY <1>1, <1>2, <1>3 DEF Sound

RingUnchanged == UNCHANGED <<head, tail, mem, chain>>

LEMMA RingFrame == ASSUME Ring, RingUnchanged PROVE Ring'
BY DEF RingUnchanged, Ring, HeadOffStart, Geometry, Order, Links, BlocksIntact,
       Before, Ordered, End, Leads, From, To

LEMMA PushFrame ==
    ASSUME NEW q \in Producers, PushSound(q), RingUnchanged,
           pc'[q] = pc[q], lhead'[q] = lhead[q], arg'[q] = arg[q]
    PROVE  PushSound(q)'
BY DEF RingUnchanged, PushSound, HeadFrom, Room, Need

LEMMA PopFrame ==
    ASSUME NEW d \in Consumers, PopSound(d), UNCHANGED <<head, tail, chain>>,
           pc'[d] = pc[d], ltail'[d] = ltail[d], arg'[d] = arg[d], seen'[d] = seen[d]
    PROVE  PopSound(d)'
BY DEF PopSound, TailFrom

Quiet == {"idle", "lock", "stop", "unlock", "return"}

LEMMA QuietPush == ASSUME NEW q \in Producers, pc[q] \in Quiet PROVE PushSound(q)
BY DEF PushSound, Quiet

LEMMA QuietPop == ASSUME NEW d \in Consumers, pc[d] \in Quiet PROVE PopSound(d)
BY DEF PopSound, Quiet

\* A step of p that leaves the ring alone and brings p to a place where
\* nothing is claimed of it.
LEMMA QuietStep ==
    ASSUME TypeInv, Sound, NEW p \in Procs, RingUnchanged,
           pc' \in [Procs -> PushSteps \cup PopSteps], pc'[p] \in Quiet,
           \A q \in Procs : q # p => /\ pc'[q] = pc[q] /\ lhead'[q] = lhead[q]
                                    /\ ltail'[q] = ltail[q] /\ arg'[q] = arg[q],
           \A d \in Consumers : d # p => seen'[d] = seen[d]
    PROVE  Sound'
<1>1. Ring'
  BY RingFrame DEF Sound
<1>2. ASSUME NEW q \in Producers PROVE PushSound(q)'
  <2>1. CASE q = p
    BY <2>1 DEF PushSound, Quiet
  <2>2. CASE q # p
    BY <2>2, PushFrame DEF Sound, Procs
  <2>. QED
    BY <2>1, <2>2
<1>3. ASSUME NEW d \in Consumers PROVE PopSound(d)'
  <2>1. CASE d = p
    BY <2>1 DEF PopSound, Quiet
  <2>2. CASE d # p
    BY <2>2, PopFrame DEF Sound, Procs, RingUnchanged
  <2>. QED
    BY <2>1, <2>2
<1>. QED
  BY <1>1, <1>2, <1>3 DEF Sound

LEMMA AnyStepSound ==
    ASSUME TypeInv, Sound, NEW p \in Procs, AnyStep(p) PROVE Sound'
<1>. USE QuietStep DEF Quiet, Goto, shared, ghost, RingUnchanged, TypeInv, TypeOK
<1>1. CASE LockTake(p)
  BY <1>1, AnyStepType DEF LockTake
<1>2. CASE LockInterrupted(p)
  BY <1>2, AnyStepType DEF LockInterrupted
<1>3. CASE StopSeen(p)
  BY <1>3, AnyStepType DEF StopSeen
<1>4. CASE Return(p)
  BY <1>4, AnyStepType DEF Return, DropLocals
<1>5. CASE SetStop(p)
  <2>1. Ring'
    BY <1>5, RingFrame DEF SetStop, Sound
  <2>2. ASSUME NEW q \in Producers PROVE PushSound(q)'
    BY <1>5, PushFrame DEF SetStop, Sound
  <2>3. ASSUME NEW d \in Consumers PROVE PopSound(d)'
    BY <1>5, PopFrame DEF SetStop, Sound, RingUnchanged
  <2>. QED
    BY <2>1, <2>2, <2>3 DEF Sound
<1>6. CASE Die(p)
  <2>1. TypeInv' /\ pc'[p] \in Quiet /\ RingUnchanged
    BY <1>6, AnyStepType DEF Die
  <2>2. \A d \in Consumers : d # p => seen'[d] = seen[d]
    BY <1>6, Zenon DEF Die, DropLocals
  <2>. QED
    BY <1>6, <2>1, <2>2 DEF Die, DropLocals
<1>. QED
  BY <1>1, <1>2, <1>3, <1>4, <1>5, <1>6 DEF AnyStep

\* The invariant of the others survives a step of p that leaves the ring alone.
LEMMA LocalStep ==
    ASSUME TypeInv, Sound, NEW p \in Procs, RingUnchanged,
           \A q \in Procs : q # p => /\ pc'[q] = pc[q] /\ lhead'[q] = lhead[q]
                                    /\ ltail'[q] = ltail[q] /\ arg'[q] = arg[q],
           \A d \in Consumers : d # p => seen'[d] = seen[d],
           p \in Producers => PushSound(p)',
           p \in Consumers => PopSound(p)'
    PROVE  Sound'
<1>1. Ring'
  BY RingFrame DEF Sound
<1>2. ASSUME NEW q \in Producers, q # p PROVE PushSound(q)'
  BY <1>2, PushFrame DEF Sound, Procs
<1>3. ASSUME NEW d \in Consumers, d # p PROVE PopSound(d)'
  BY <1>3, PopFrame DEF Sound, Procs, RingUnchanged
<1>. QED
  BY <1>1, <1>2, <1>3 DEF Sound

LEMMA PushReadHeadSound ==
    ASSUME TypeInv, Sound, NEW p \in Producers, PushReadHead(p) PROVE Sound'
<1>1. p \in Procs /\ p \notin Consumers
  BY DEF Procs
<1>2. pc'[p] = "tail" /\ lhead'[p] = head /\ UNCHANGED <<head, tail>>
  BY <1>1 DEF PushReadHead, shared, Goto, TypeInv, TypeOK
<1>3. HeadFrom(head)' /\ (tail = Size => head # Start)
  BY <1>2 DEF HeadFrom, Sound, Ring, HeadOffStart, TypeInv, TypeOK, Offsets
<1>4. PushSound(p)'
  BY <1>2, <1>3 DEF PushSound
<1>. QED
  BY <1>1, <1>4, LocalStep DEF RingUnchanged, PushReadHead, shared, ghost, Goto, TypeInv, TypeOK

LEMMA PushFitsSound ==
    ASSUME TypeInv, Sound, NEW p \in Producers, PushFits(p) PROVE Sound'
<1>. USE DEF PushFits, shared, ghost, Goto, TypeInv, TypeOK
<1>1. p \in Procs /\ p \notin Consumers /\ Need(p) \in Nat /\ Need(p)' = Need(p)
  BY DEF Procs, PushBounds, Need
<1>2. Room(Need(p))
  BY <1>1 DEF Sound, PushSound, HeadFrom, Offsets, FitsAtTail, Room, PushBounds
<1>3. PushSound(p)'
  BY <1>1, <1>2 DEF Sound, PushSound, Procs, Room
<1>. QED
  BY <1>1, <1>3, LocalStep DEF RingUnchanged

LEMMA PushCallSound ==
    ASSUME TypeInv, Sound, NEW p \in Producers, NEW m \in Msgs, PushCall(p, m)
    PROVE  Sound'
<1>1. PushSound(p)'
  BY DEF PushCall, Enter, Goto, TypeInv, TypeOK, PushSound, Procs
<1>2. p \in Procs /\ p \notin Consumers
  BY DEF Procs
<1>. QED
  BY <1>1, <1>2, LocalStep DEF RingUnchanged, PushCall, Enter, Goto, shared, ghost, TypeInv, TypeOK

LEMMA PushFullSound ==
    ASSUME TypeInv, Sound, NEW p \in Producers, PushFull(p) PROVE Sound'
<1>1. PushSound(p)'
  BY DEF PushFull, Goto, TypeInv, TypeOK, PushSound, Procs
<1>2. p \in Procs /\ p \notin Consumers
  BY DEF Procs
<1>. QED
  BY <1>1, <1>2, LocalStep DEF RingUnchanged, PushFull, Goto, shared, ghost, TypeInv, TypeOK

-----------------------------------------------------------------------------
(* Steps of shmq_push that change the ring *)

\* No other producer is inside, so nothing is claimed of it.
LEMMA OtherPushers ==
    ASSUME TypeInv, NEW p \in Producers, Inside(p), NEW q \in Producers, q # p, pc'[q] = pc[q]
    PROVE  PushSound(q)'
BY Alone DEF OneInside, Inside, PushSound

\* The blocks of the chain lie in the ring, and so do their ends.
LEMMA ChainFacts ==
    ASSUME TypeInv, Sound
    PROVE  \A i \in 1 .. Len(chain) :
               /\ chain[i].at \in Offsets /\ chain[i].msg \in Msgs
               /\ MsgLen[chain[i].msg] \in Nat /\ MsgLen[chain[i].msg] >= 2
               /\ End(chain[i]) \in Offsets
               /\ chain[i].at < End(chain[i])
<1>1. ASSUME NEW i \in 1 .. Len(chain) PROVE chain[i] \in [at : Offsets, msg : Msgs]
  <2>. DEFINE S == [at : Offsets, msg : Msgs]
  <2>1. chain \in Seq(S)
    BY DEF TypeInv, TypeOK
  <2>. HIDE DEF S
  <2>2. chain[i] \in S
    BY <2>1
  <2>. QED
    BY <2>2 DEF S
<1>2. ASSUME NEW i \in 1 .. Len(chain) PROVE End(chain[i]) <= Size
  BY DEF Sound, Ring, Geometry
<1>. QED
  BY <1>1, <1>2 DEF End, Offsets

\* A push that writes one word at tail, or the n words after tail, touches
\* neither a block nor a pad in use.
LEMMA WriteAtTail ==
    ASSUME TypeInv, Sound, NEW n \in Nat, n >= 1,
           head <= tail \/ tail + n < head,
           mem' \in [Words -> Cells],
           \A o \in Words : o \notin tail .. tail + n - 1 => mem'[o] = mem[o],
           UNCHANGED <<head, tail, chain>>
    PROVE  Ring'
<1>0. head \in Nat /\ tail \in Nat /\ chain \in Seq([at : Offsets, msg : Msgs])
  BY DEF TypeInv, TypeOK, Offsets
<1>1. HeadOffStart' /\ Geometry' /\ Order'
  BY DEF Sound, Ring, HeadOffStart, Geometry, Order, Before, Ordered, End
<1>2. Links'
  <2>1. ASSUME NEW o \in Offsets, NEW t, Leads(o, t) PROVE Leads(o, t)'
    <3>1. CASE t = o
      BY <3>1 DEF Leads
    <3>2. CASE t = Start /\ tail < head /\ head <= o /\ o = Size
      BY <3>2 DEF Leads
    <3>3. CASE t = Start /\ tail < head /\ head <= o /\ o # Size /\ mem[o] = Pad
      <4>1. o \in Words /\ o \notin tail .. tail + n - 1
        BY <1>0, <3>3 DEF Offsets, Words
      <4>. QED
        BY <3>3, <4>1 DEF Leads
    <3>. QED
      BY <2>1, <3>1, <3>2, <3>3 DEF Leads
  <2>2. ASSUME NEW i \in 0 .. Len(chain)
        PROVE  From(i) \in Offsets /\ From(i)' = From(i) /\ To(i)' = To(i)
    BY <1>0, ChainFacts DEF From, To, End, TypeInv, TypeOK
  <2>. QED
    BY <2>1, <2>2 DEF Sound, Ring, Links
<1>3. BlocksIntact'
  <2>1. SUFFICES ASSUME NEW i \in 1 .. Len(chain), NEW k \in 0 .. MsgLen[chain[i].msg] - 1
                 PROVE  mem'[chain[i].at + k] = mem[chain[i].at + k]
    <3>1. BlocksIntact
      BY DEF Sound, Ring
    <3>2. chain' = chain
      OBVIOUS
    <3>. QED
      BY <3>1, <3>2 DEF BlocksIntact
  <2>2. /\ chain[i].at \in Nat /\ MsgLen[chain[i].msg] \in Nat
        /\ End(chain[i]) = chain[i].at + MsgLen[chain[i].msg]
    BY SMTT(30), <1>0, ChainFacts DEF Offsets, End
  <2>3. chain[i].at + k \in Words
    BY <1>0 DEF Sound, Ring, BlocksIntact
  <2>4. chain[i].at + k \notin tail .. tail + n - 1
    <3>1. /\ head <= tail => End(chain[i]) <= tail
          /\ tail < head => head <= chain[i].at \/ End(chain[i]) <= tail
      BY DEF Sound, Ring, Geometry
    <3>. QED
      BY SMTT(30), <1>0, <2>2, <3>1
  <2>. QED
    BY <2>3, <2>4
<1>. QED
  BY <1>1, <1>2, <1>3 DEF Ring

LEMMA PushPadSound ==
    ASSUME TypeInv, Sound, NEW p \in Producers, PushPad(p) PROVE Sound'
<1>1. /\ p \in Procs /\ Inside(p) /\ pc'[p] = "wrap"
      /\ ltail[p] = tail /\ tail \in Words /\ head <= tail
  BY DEF PushPad, Goto, Inside, TypeInv, TypeOK, Procs, PushBounds, FitsAtStart, Sound,
         PushSound, HeadFrom, Words, Offsets
<1>2. mem' \in [Words -> Cells]
  BY PushStepType DEF PushStep, TypeInv, TypeOK
<1>3. Ring'
  <2>1. \A o \in Words : o \notin tail .. tail + 1 - 1 => mem'[o] = mem[o]
    BY <1>1 DEF PushPad, Words, TypeInv, TypeOK
  <2>. QED
    BY <1>1, <1>2, <2>1, WriteAtTail DEF PushPad, ghost
<1>4. PushSound(p)'
  BY <1>1 DEF PushPad, PushSound, Sound, HeadFrom, TypeInv, TypeOK
<1>5. ASSUME NEW q \in Producers, q # p PROVE PushSound(q)'
  BY <1>1, <1>5, OtherPushers DEF PushPad, Goto, TypeInv, TypeOK, Procs
<1>6. ASSUME NEW d \in Consumers PROVE PopSound(d)'
  BY <1>1, PopFrame DEF PushPad, Goto, ghost, Sound, TypeInv, TypeOK, Procs
<1>. QED
  BY <1>3, <1>4, <1>5, <1>6 DEF Sound

LEMMA PushHeaderSound ==
    ASSUME TypeInv, Sound, NEW p \in Producers, PushHeader(p) PROVE Sound'
<1>1. /\ p \in Procs /\ Inside(p) /\ pc'[p] = "copy" /\ arg[p] \in Msgs
      /\ Need(p) \in Nat /\ Need(p) >= 2 /\ Need(p)' = Need(p) /\ Room(Need(p))
  BY DEF PushHeader, Goto, Inside, TypeInv, TypeOK, Procs, PushBounds, Sound, PushSound, Need
<1>2. tail \in Words /\ (head <= tail \/ tail + 1 < head)
  BY <1>1 DEF TypeInv, TypeOK, Room, Words, Offsets
<1>3. mem' \in [Words -> Cells]
  BY PushStepType DEF PushStep, TypeInv, TypeOK
<1>4. Ring'
  <2>1. \A o \in Words : o \notin tail .. tail + 1 - 1 => mem'[o] = mem[o]
    BY <1>2 DEF PushHeader, Words, TypeInv, TypeOK
  <2>. QED
    BY <1>2, <1>3, <2>1, WriteAtTail DEF PushHeader, ghost
<1>5. PushSound(p)'
  BY <1>1, <1>2 DEF PushHeader, PushSound, Room, TypeInv, TypeOK
<1>6. ASSUME NEW q \in Producers, q # p PROVE PushSound(q)'
  BY <1>1, <1>6, OtherPushers DEF PushHeader, Goto, TypeInv, TypeOK, Procs
<1>7. ASSUME NEW d \in Consumers PROVE PopSound(d)'
  BY <1>1, PopFrame DEF PushHeader, Goto, ghost, Sound, TypeInv, TypeOK, Procs
<1>. QED
  BY <1>4, <1>5, <1>6, <1>7 DEF Sound

LEMMA PushCopySound ==
    ASSUME TypeInv, Sound, NEW p \in Producers, PushCopy(p) PROVE Sound'
<1>1. /\ p \in Procs /\ Inside(p) /\ pc'[p] = "commit" /\ arg[p] \in Msgs
      /\ Need(p) \in Nat /\ Need(p) >= 2 /\ Need(p)' = Need(p) /\ Room(Need(p))
      /\ mem[tail] = Word(arg[p], 0)
  BY DEF PushCopy, Goto, Inside, TypeInv, TypeOK, Procs, PushBounds, Sound, PushSound, Need
<1>2. head \in Nat /\ tail \in Words /\ (head <= tail \/ tail + Need(p) < head)
  BY <1>1 DEF TypeInv, TypeOK, Room, Words, Offsets
<1>3. mem' \in [Words -> Cells]
  BY PushStepType DEF PushStep, TypeInv, TypeOK
<1>4. Ring'
  <2>1. \A o \in Words : o \notin tail .. tail + Need(p) - 1 => mem'[o] = mem[o]
    BY <1>1, <1>2 DEF PushCopy, Words
  <2>. QED
    BY <1>1, <1>2, <1>3, <2>1, WriteAtTail DEF PushCopy, ghost
<1>5. mem'[tail] = mem[tail]
  BY <1>2 DEF PushCopy, Words
<1>6. \A k \in 1 .. Need(p) - 1 : mem'[tail + k] = Word(arg[p], k)
  <2>1. SUFFICES ASSUME NEW k \in 1 .. Need(p) - 1 PROVE mem'[tail + k] = Word(arg[p], k)
    OBVIOUS
  <2>2. tail + k \in Words /\ tail + k \in tail + 1 .. tail + Need(p) - 1 /\ (tail + k) - tail = k
    BY <1>1, <1>2 DEF Room, Words
  <2>. QED
    BY <2>2 DEF PushCopy
<1>7. PushSound(p)'
  BY <1>1, <1>2, <1>5, <1>6 DEF PushCopy, PushSound, Room
<1>8. ASSUME NEW q \in Producers, q # p PROVE PushSound(q)'
  BY <1>1, <1>8, OtherPushers DEF PushCopy, Goto, TypeInv, TypeOK, Procs
<1>9. ASSUME NEW d \in Consumers PROVE PopSound(d)'
  BY <1>1, PopFrame DEF PushCopy, Goto, ghost, Sound, TypeInv, TypeOK, Procs
<1>. QED
  BY <1>4, <1>7, <1>8, <1>9 DEF Sound

\* tail goes back to Start, over a pad or from Size, while head is above Start.
LEMMA WrapTail ==
    ASSUME TypeInv, Sound, Start < head, head <= tail,
           tail = Size \/ mem[tail] = Pad,
           tail' = Start, UNCHANGED <<head, mem, chain>>
    PROVE  Ring'
<1>0. head \in Nat /\ tail \in Nat /\ chain \in Seq([at : Offsets, msg : Msgs])
  BY DEF TypeInv, TypeOK, Offsets
<1>1. HeadOffStart' /\ BlocksIntact'
  BY DEF Sound, Ring, HeadOffStart, BlocksIntact
<1>2. Geometry'
  BY <1>0 DEF Sound, Ring, Geometry, End
<1>3. Order'
  <2>1. SUFFICES ASSUME NEW i \in 1 .. Len(chain), NEW j \in 1 .. Len(chain), i < j
                 PROVE  Before(chain[i], chain[j])'
    BY DEF Order
  <2>2. Before(chain[i], chain[j])
    BY <2>1 DEF Sound, Ring, Order
  <2>3. End(chain[i]) <= chain[j].at /\ Start < End(chain[i]) /\ End(chain[i]) \in Nat
    <3>1. chain[i].at \in Offsets /\ End(chain[i]) \in Offsets /\ chain[i].at < End(chain[i])
      BY ChainFacts
    <3>2. End(chain[i]) <= chain[j].at
      BY <1>0, <2>2 DEF Before, Ordered
    <3>. QED
      BY <3>1, <3>2 DEF Offsets
  <2>. QED
    BY <2>3 DEF Before, Ordered, End
<1>4. Links'
  <2>1. SUFFICES ASSUME NEW i \in 0 .. Len(chain) PROVE Leads(From(i), To(i))'
    BY DEF Links
  <2>2. To(i) = From(i)
    BY <1>0 DEF Sound, Ring, Links, Leads
  <2>3. From(i)' = From(i) /\ From(i) \in Offsets
    BY <1>0, ChainFacts DEF From, End, TypeInv, TypeOK
  <2>4. CASE i = Len(chain)
    BY <1>0, <2>2, <2>3, <2>4 DEF To, Leads
  <2>5. CASE i # Len(chain)
    BY <1>0, <2>2, <2>3, <2>5 DEF To, Leads
  <2>. QED
    BY <2>4, <2>5
<1>. QED
  BY <1>1, <1>2, <1>3, <1>4 DEF Ring

LEMMA WrapTailPops ==
    ASSUME TypeInv, Sound, Start < head, head <= tail,
           tail' = Start, UNCHANGED <<head, chain>>,
           NEW d \in Consumers,
           pc'[d] = pc[d], ltail'[d] = ltail[d], arg'[d] = arg[d], seen'[d] = seen[d]
    PROVE  PopSound(d)'
<1>1. pc[d] \in {"head", "test"} => TailFrom(ltail[d])'
  BY DEF TypeInv, TypeOK, Offsets, Procs, TailFrom, Sound, PopSound
<1>. QED
  BY <1>1 DEF Sound, PopSound

LEMMA PushWrapSound ==
    ASSUME TypeInv, Sound, NEW p \in Producers, PushWrap(p) PROVE Sound'
<1>1. /\ p \in Procs /\ Inside(p) /\ pc'[p] = "header" /\ mem[tail] = Pad
      /\ Need(p) \in Nat /\ Need(p)' = Need(p) /\ lhead[p] \in Offsets
      /\ Start + Need(p) < lhead[p] /\ lhead[p] <= tail /\ HeadFrom(lhead[p])
  BY DEF PushWrap, Goto, Inside, TypeInv, TypeOK, Procs, PushBounds, Sound, PushSound, Need
<1>2. head \in Nat /\ tail \in Nat /\ head <= tail /\ Start + Need(p) < head
  BY <1>1 DEF TypeInv, TypeOK, Offsets, HeadFrom
<1>3. Ring'
  BY <1>1, <1>2, WrapTail DEF PushWrap, ghost
<1>4. PushSound(p)'
  <2>1. Room(Need(p))'
    BY <1>1, <1>2 DEF PushWrap, Room, TypeInv, TypeOK, Offsets
  <2>. QED
    BY <1>1, <2>1 DEF PushSound
<1>5. ASSUME NEW q \in Producers, q # p PROVE PushSound(q)'
  BY <1>1, <1>5, OtherPushers DEF PushWrap, Goto, TypeInv, TypeOK, Procs
<1>6. ASSUME NEW d \in Consumers PROVE PopSound(d)'
  BY <1>1, <1>2, WrapTailPops DEF PushWrap, Goto, ghost, TypeInv, TypeOK, Procs
<1>. QED
  BY <1>3, <1>4, <1>5, <1>6 DEF Sound

LEMMA PushReadTailSound ==
    ASSUME TypeInv, Sound, NEW p \in Producers, PushReadTail(p) PROVE Sound'
<1>1. /\ p \in Procs /\ Inside(p) /\ pc'[p] = "space" /\ lhead' = lhead
      /\ lhead[p] \in Offsets /\ HeadFrom(lhead[p]) /\ (tail = Size => lhead[p] # Start)
  BY DEF PushReadTail, Goto, Inside, TypeInv, TypeOK, Procs, Sound, PushSound
<1>2. ASSUME NEW q \in Producers, q # p PROVE PushSound(q)'
  BY <1>1, <1>2, OtherPushers DEF PushReadTail, Goto, TypeInv, TypeOK, Procs
<1>3. head \in Offsets /\ tail \in Offsets
  BY DEF TypeInv, TypeOK
<1>4. CASE tail = Size
  <2>1. Start < head /\ head <= tail /\ Start < lhead[p] /\ lhead[p] <= head
    BY <1>1, <1>3, <1>4 DEF HeadFrom, Offsets
  <2>2. tail' = Start /\ UNCHANGED <<head, mem, chain, seen, arg>>
    BY <1>4 DEF PushReadTail, ghost
  <2>3. Ring'
    BY <1>4, <2>1, <2>2, WrapTail
  <2>4. HeadFrom(lhead[p])'
    BY <1>1, <1>3, <2>1, <2>2 DEF HeadFrom, Offsets
  <2>5. PushSound(p)'
    BY <1>1, <2>4 DEF PushSound
  <2>6. ASSUME NEW d \in Consumers PROVE PopSound(d)'
    BY <1>1, <2>1, <2>2, WrapTailPops DEF PushReadTail, Goto, TypeInv, TypeOK, Procs
  <2>. QED
    BY <1>2, <2>3, <2>5, <2>6 DEF Sound
<1>5. CASE tail # Size
  <2>1. UNCHANGED <<head, tail, mem, chain, seen, arg>>
    BY <1>5 DEF PushReadTail, ghost
  <2>2. Ring'
    BY <2>1, RingFrame DEF RingUnchanged, Sound
  <2>3. PushSound(p)'
    BY <1>1, <2>1 DEF PushSound, HeadFrom
  <2>4. ASSUME NEW d \in Consumers PROVE PopSound(d)'
    BY ZenonT(60), <1>1, <2>1, PopFrame DEF PushReadTail, Goto, Sound, TypeInv, TypeOK, Procs
  <2>. QED
    BY <1>2, <2>2, <2>3, <2>4 DEF Sound
<1>. QED
  BY <1>4, <1>5

LEMMA PushCommitSound ==
    ASSUME TypeInv, Sound, ~stale, NEW p \in Producers, PushCommit(p) PROVE Sound'
<1>. DEFINE n == Need(p)
            b == [at |-> tail, msg |-> arg[p]]
            N == Len(chain)
<1>1. /\ p \in Procs /\ Inside(p) /\ pc'[p] = "unlock" /\ arg[p] \in Msgs
      /\ n \in Nat /\ n >= 2 /\ n = MsgLen[arg[p]] /\ Room(n)
      /\ mem[tail] = Word(arg[p], 0)
      /\ \A k \in 1 .. n - 1 : mem[tail + k] = Word(arg[p], k)
  BY DEF PushCommit, Goto, Inside, TypeInv, TypeOK, Procs, PushBounds, Sound, PushSound, Need
<1>2. /\ head \in Nat /\ tail \in Nat /\ chain \in Seq([at : Offsets, msg : Msgs])
      /\ head <= Size /\ tail \in Offsets /\ Start <= tail
  BY DEF TypeInv, TypeOK, Offsets
<1>3. /\ UNCHANGED <<head, mem>> /\ tail' = tail + n /\ N \in Nat
      /\ chain' = Append(chain, b) /\ Len(chain') = N + 1
      /\ \A i \in 1 .. N : chain'[i] = chain[i]
      /\ chain'[N + 1] = b
  BY <1>2 DEF PushCommit
<1>4. (tail' < head') <=> (tail < head)
  BY <1>1, <1>2, <1>3 DEF Room
<1>5. b.at = tail /\ b.msg = arg[p] /\ End(b) = tail + n
  BY <1>1 DEF End
<1>. HIDE DEF n, b, N
<1>6. \A i \in 1 .. N : /\ chain[i].at \in Nat /\ End(chain[i]) \in Nat
                       /\ chain[i].at < End(chain[i]) /\ End(chain[i]) <= Size
  BY ChainFacts DEF Offsets, N
<1>7. HeadOffStart'
  BY <1>1, <1>2, <1>3 DEF HeadOffStart, Room
<1>8. Geometry'
  <2>1. SUFFICES ASSUME NEW i \in 1 .. N + 1
                 PROVE  /\ End(chain'[i]) <= Size
                        /\ head <= tail' => head <= chain'[i].at /\ End(chain'[i]) <= tail'
                        /\ tail' < head => head <= chain'[i].at \/ End(chain'[i]) <= tail'
    BY <1>3 DEF Geometry, End
  <2>2. CASE i \in 1 .. N
    <3>1. /\ End(chain[i]) <= Size
          /\ head <= tail => head <= chain[i].at /\ End(chain[i]) <= tail
          /\ tail < head => head <= chain[i].at \/ End(chain[i]) <= tail
      BY <2>2 DEF Sound, Ring, Geometry, N
    <3>2. chain[i].at \in Nat /\ End(chain[i]) \in Nat /\ chain'[i] = chain[i]
      BY <1>3, <1>6, <2>2
    <3>. QED
      BY SMTT(30), <1>1, <1>2, <1>3, <1>4, <3>1, <3>2
  <2>3. CASE i = N + 1
    BY <1>1, <1>2, <1>3, <1>4, <1>5, <2>3 DEF Room
  <2>. QED
    BY <1>3, <2>2, <2>3
<1>9. Order'
  <2>1. ASSUME NEW i \in 1 .. N, NEW j \in 1 .. N, i < j PROVE Ordered(chain[i], chain[j], head, tail')
    <3>1. Before(chain[i], chain[j])
      BY <2>1 DEF Sound, Ring, Order, N
    <3>2. tail < head => head <= chain[i].at \/ End(chain[i]) <= tail
      BY DEF Sound, Ring, Geometry, N
    <3>3. (tail < head /\ End(chain[i]) <= tail + n /\ ~(End(chain[i]) <= tail)) => head <= chain[i].at
      BY <3>2
    <3>4. tail + n < head \/ head <= tail
      BY <1>1, <1>2 DEF Room
    <3>5. /\ chain[i].at \in Nat /\ End(chain[i]) \in Nat /\ chain[i].at < End(chain[i])
          /\ chain[j].at \in Nat /\ End(chain[j]) \in Nat
      BY <1>6
    <3>8. /\ n \in Nat /\ head \in Nat /\ tail \in Nat /\ tail' = tail + n
          /\ (tail' < head) <=> (tail < head)
      BY <1>1, <1>2, <1>3, <1>4
    <3>6. CASE End(chain[i]) <= chain[j].at /\ (tail < head /\ End(chain[i]) <= tail => End(chain[j]) <= tail)
      <4>1. tail' < head /\ End(chain[i]) <= tail' => End(chain[j]) <= tail'
        BY <3>3, <3>4, <3>5, <3>6, <3>8
      <4>. QED
        BY <3>6, <4>1 DEF Ordered
    <3>7. CASE tail < head /\ head <= chain[i].at /\ End(chain[j]) <= tail
      <4>1. tail' < head /\ End(chain[j]) <= tail'
        BY <3>5, <3>7, <3>8
      <4>. QED
        BY <3>7, <4>1 DEF Ordered
    <3>. QED
      BY <3>1, <3>6, <3>7 DEF Before, Ordered
  <2>2. ASSUME NEW i \in 1 .. N PROVE Ordered(chain[i], b, head, tail')
    <3>1. /\ head <= tail => head <= chain[i].at /\ End(chain[i]) <= tail
          /\ tail < head => head <= chain[i].at \/ End(chain[i]) <= tail
      BY DEF Sound, Ring, Geometry, N
    <3>2. chain[i].at \in Nat /\ End(chain[i]) \in Nat
      BY <1>6
    <3>3. \/ End(chain[i]) <= tail
          \/ tail' < head /\ head <= chain[i].at
      BY <1>2, <1>4, <1>3, <3>1, <3>2
    <3>4. End(b) <= tail'
      BY <1>1, <1>2, <1>3, <1>5
    <3>. QED
      BY <1>2, <1>3, <1>5, <3>2, <3>3, <3>4 DEF Ordered
  <2>3. SUFFICES ASSUME NEW i \in 1 .. N + 1, NEW j \in 1 .. N + 1, i < j
                 PROVE  Ordered(chain'[i], chain'[j], head, tail')
    BY <1>3 DEF Order, Before
  <2>4. i \in 1 .. N /\ (j \in 1 .. N \/ j = N + 1)
    BY <1>3, <2>3
  <2>. QED
    BY <1>3, <2>1, <2>2, <2>3, <2>4
<1>10. Links'
  <2>1. SUFFICES ASSUME NEW i \in 0 .. N + 1 PROVE Leads(From(i), To(i))'
    BY <1>3 DEF Links
  <2>2. CASE i \in 0 .. N
    <3>1. From(i)' = From(i) /\ To(i)' = To(i)
      BY <1>3, <1>5, <2>2 DEF From, To, End, N
    <3>2. Leads(From(i), To(i))
      BY <2>2 DEF Sound, Ring, Links, N
    <3>. QED
      BY <1>3, <1>4, <3>1, <3>2 DEF Leads
  <2>3. CASE i = N + 1
    BY <1>3, <1>5, <2>3 DEF From, To, Leads, End
  <2>. QED
    BY <1>3, <2>2, <2>3
<1>11. BlocksIntact'
  <2>1. SUFFICES ASSUME NEW i \in 1 .. N + 1, NEW k \in 0 .. MsgLen[chain'[i].msg] - 1
                 PROVE  /\ chain'[i].at + k \in Words
                        /\ mem[chain'[i].at + k] = Word(chain'[i].msg, k)
    BY <1>3 DEF BlocksIntact
  <2>2. CASE i \in 1 .. N
    BY <1>3, <2>2 DEF Sound, Ring, BlocksIntact, N
  <2>3. CASE i = N + 1
    <3>1. k \in 0 .. n - 1
      BY <1>1, <1>3, <1>5, <2>3
    <3>2. tail + k \in Words
      BY SMTT(30), <1>1, <1>2, <3>1 DEF Room, Words
    <3>3. mem[tail + k] = Word(arg[p], k)
      <4>1. k = 0 \/ k \in 1 .. n - 1
        BY <1>1, <3>1
      <4>2. k = 0 => tail + k = tail
        BY <1>2
      <4>. QED
        BY <1>1, <4>1, <4>2
    <3>. QED
      BY <1>3, <1>5, <2>3, <3>2, <3>3
  <2>. QED
    BY <1>3, <2>2, <2>3
<1>12. PushSound(p)'
  BY <1>1 DEF PushSound
<1>13. ASSUME NEW q \in Producers, q # p PROVE PushSound(q)'
  BY <1>1, <1>13, OtherPushers DEF PushCommit, Goto, TypeInv, TypeOK, Procs
<1>14. ASSUME NEW d \in Consumers PROVE PopSound(d)'
  <2>1. /\ pc'[d] = pc[d] /\ d \in Procs /\ UNCHANGED <<ltail, arg, seen>>
        /\ ltail[d] \in Nat /\ PopSound(d)
    BY <1>1 DEF PushCommit, Goto, TypeInv, TypeOK, Procs, Offsets, Sound
  <2>2. TailFrom(ltail[d]) => TailFrom(ltail[d])'
    BY SMTT(30), <1>1, <1>2, <1>3, <2>1 DEF TailFrom, Room
  <2>3. ASSUME chain # <<>> PROVE chain' # <<>> /\ chain'[1] = chain[1]
    <3>1. N >= 1
      BY <1>2, <1>3, <2>3 DEF N
    <3>2. Len(chain') # 0 /\ Len(<<>>) = 0
      BY <1>3
    <3>. QED
      BY <1>3, <3>1, <3>2
  <2>. QED
    BY <1>3, <2>1, <2>2, <2>3 DEF PopSound
<1>. QED
  BY <1>7, <1>8, <1>9, <1>10, <1>11, <1>12, <1>13, <1>14 DEF Sound, Ring

-----------------------------------------------------------------------------
(* Steps of shmq_pop *)

\* No other consumer is inside, so nothing is claimed of it.
LEMMA OtherPoppers ==
    ASSUME TypeInv, NEW c \in Consumers, Inside(c), NEW d \in Consumers, d # c, pc'[d] = pc[d]
    PROVE  PopSound(d)'
BY Alone DEF OneInside, Inside, PopSound

LEMMA PopReadTailSound ==
    ASSUME TypeInv, Sound, NEW c \in Consumers, PopReadTail(c) PROVE Sound'
<1>1. /\ c \in Procs /\ c \notin Producers /\ pc'[c] = "head" /\ ltail'[c] = tail
      /\ seen'[c] <=> chain # <<>>
      /\ UNCHANGED <<head, tail, mem, chain>>
  BY DEF PopReadTail, Goto, shared, TypeInv, TypeOK, Procs
<1>2. head \in Nat /\ tail \in Nat /\ head <= Size /\ chain \in Seq([at : Offsets, msg : Msgs])
  BY DEF TypeInv, TypeOK, Offsets
<1>3. TailFrom(tail)'
  BY <1>1, <1>2 DEF TailFrom
<1>4. ASSUME chain # <<>> PROVE tail # head /\ (head = Size => tail # Start)
  <2>1. 1 \in 1 .. Len(chain)
    BY <1>2, <1>4
  <2>2. /\ chain[1].at \in Offsets /\ End(chain[1]) \in Offsets /\ chain[1].at < End(chain[1])
        /\ head <= tail => head <= chain[1].at /\ End(chain[1]) <= tail
        /\ tail < head => head <= chain[1].at \/ End(chain[1]) <= tail
    BY <2>1, ChainFacts DEF Sound, Ring, Geometry
  <2>. QED
    BY <1>2, <2>2 DEF Offsets
<1>5. PopSound(c)'
  BY <1>1, <1>3, <1>4 DEF PopSound
<1>. QED
  BY <1>1, <1>5, LocalStep DEF RingUnchanged, PopReadTail, Goto, shared, TypeInv, TypeOK

\* A pop that has found head different from its copy of tail stands on the
\* oldest block, or on the pad before it.
LEMMA FirstBlock ==
    ASSUME TypeInv, Sound, NEW c \in Consumers, pc[c] = "test", lhead[c] # ltail[c]
    PROVE  /\ lhead[c] = head /\ head \in Words
           /\ \/ chain # <<>> /\ chain[1].at = head /\ mem[head] = Word(chain[1].msg, 0)
              \/ mem[head] = Pad /\ tail < head /\ To(0) = Start
<1>1. /\ c \in Procs /\ lhead[c] = head /\ head \in Words /\ tail \in Nat /\ head \in Nat
      /\ ltail[c] \in Nat /\ TailFrom(ltail[c]) /\ chain \in Seq([at : Offsets, msg : Msgs])
  BY DEF Procs, TypeInv, TypeOK, PopBounds, Offsets, Words, Sound, PopSound
<1>2. Leads(head, To(0))
  <2>1. 0 \in 0 .. Len(chain)
    BY <1>1
  <2>2. From(0) = head
    BY DEF From
  <2>. QED
    BY <2>1, <2>2 DEF Sound, Ring, Links
<1>3. CASE chain = <<>>
  <2>1. To(0) = tail
    BY <1>3 DEF To
  <2>2. tail # head
    BY <1>1 DEF TailFrom
  <2>. QED
    BY <1>1, <1>2, <2>1, <2>2 DEF Leads, Words
<1>4. CASE chain # <<>>
  <2>1. 1 \in 1 .. Len(chain) /\ To(0) = chain[1].at
    BY <1>1, <1>4 DEF To
  <2>2. mem[chain[1].at] = Word(chain[1].msg, 0)
    <3>1. 0 \in 0 .. MsgLen[chain[1].msg] - 1 /\ chain[1].at + 0 = chain[1].at
      BY <2>1, ChainFacts DEF Offsets
    <3>. QED
      BY <2>1, <3>1 DEF Sound, Ring, BlocksIntact
  <2>. QED
    BY <1>1, <1>2, <1>4, <2>1, <2>2 DEF Leads, Words
<1>. QED
  BY <1>1, <1>3, <1>4

\* head goes back to Start, from Size or over a pad, while tail is below it.
LEMMA WrapHead ==
    ASSUME TypeInv, Sound, tail < head, To(0) = Start,
           head' = Start, UNCHANGED <<tail, mem, chain>>
    PROVE  Ring'
<1>0. /\ head \in Nat /\ tail \in Nat /\ Start <= tail /\ head <= Size
      /\ chain \in Seq([at : Offsets, msg : Msgs])
  BY DEF TypeInv, TypeOK, Offsets
<1>1. HeadOffStart' /\ BlocksIntact'
  BY <1>0 DEF HeadOffStart, Sound, Ring, BlocksIntact
<1>2. ASSUME NEW i \in 1 .. Len(chain)
      PROVE  End(chain[i]) <= tail /\ Start <= chain[i].at
  <2>1. 1 \in 1 .. Len(chain) /\ chain[1].at = Start
    BY <1>0 DEF To
  <2>2. End(chain[1]) <= tail
    BY <1>0, <2>1 DEF Sound, Ring, Geometry
  <2>3. i # 1 => Before(chain[1], chain[i])
    BY <1>0, <2>1 DEF Sound, Ring, Order
  <2>4. Start <= chain[i].at
    BY ChainFacts DEF Offsets
  <2>. QED
    BY <1>0, <2>1, <2>2, <2>3, <2>4 DEF Before, Ordered
<1>3. Geometry'
  <2>1. \A i \in 1 .. Len(chain) : End(chain[i]) <= Size
    BY DEF Sound, Ring, Geometry
  <2>. QED
    BY <1>0, <1>2, <2>1 DEF Geometry, End
<1>4. Order'
  <2>1. SUFFICES ASSUME NEW i \in 1 .. Len(chain), NEW j \in 1 .. Len(chain), i < j
                 PROVE  Ordered(chain[i], chain[j], Start, tail)
    BY DEF Order, Before
  <2>2. Ordered(chain[i], chain[j], head, tail)
    BY <2>1 DEF Sound, Ring, Order, Before
  <2>3. End(chain[i]) <= tail /\ chain[i].at \in Nat /\ End(chain[i]) \in Nat /\ chain[i].at < End(chain[i])
    BY <1>2, ChainFacts DEF Offsets
  <2>. QED
    BY <1>0, <2>2, <2>3 DEF Ordered
<1>5. Links'
  <2>1. SUFFICES ASSUME NEW i \in 0 .. Len(chain) PROVE Leads(From(i), To(i))'
    BY DEF Links
  <2>2. To(i)' = To(i)
    BY DEF To
  <2>3. CASE i = 0
    BY <2>2, <2>3 DEF From, Leads
  <2>4. CASE i # 0
    <3>1. i \in 1 .. Len(chain) /\ From(i) = End(chain[i]) /\ From(i)' = From(i)
      BY <1>0, <2>4 DEF From, End
    <3>2. End(chain[i]) \in Nat /\ End(chain[i]) <= tail
      BY <1>2, <3>1, ChainFacts DEF Offsets
    <3>3. Leads(From(i), To(i))
      BY DEF Sound, Ring, Links
    <3>. QED
      BY <1>0, <2>2, <3>1, <3>2, <3>3 DEF Leads
  <2>. QED
    BY <2>3, <2>4
<1>. QED
  BY <1>1, <1>3, <1>4, <1>5 DEF Ring

LEMMA WrapHeadPushes ==
    ASSUME TypeInv, Sound, tail < head, head' = Start, UNCHANGED <<tail, mem>>,
           NEW q \in Producers, pc'[q] = pc[q], lhead'[q] = lhead[q], arg'[q] = arg[q]
    PROVE  PushSound(q)'
<1>1. /\ head \in Nat /\ tail \in Nat /\ Start <= tail /\ head <= Size
      /\ q \in Procs /\ lhead[q] \in Nat
  BY DEF TypeInv, TypeOK, Offsets, Procs
<1>2. HeadFrom(lhead[q]) => HeadFrom(lhead[q])'
  BY <1>1 DEF HeadFrom
<1>3. ASSUME pc[q] \in {"header", "copy", "commit"}, Room(Need(q)) PROVE Room(Need(q))'
  <2>1. Need(q) \in Nat /\ Need(q)' = Need(q)
    BY <1>3 DEF TypeInv, PushBounds, Need
  <2>. QED
    BY <1>1, <1>3, <2>1 DEF Room
<1>. QED
  BY <1>2, <1>3 DEF Sound, PushSound, Need

LEMMA PopReadHeadSound ==
    ASSUME TypeInv, Sound, NEW c \in Consumers, PopReadHead(c), ~stale' PROVE Sound'
<1>1. /\ c \in Procs /\ c \notin Producers /\ Inside(c) /\ pc'[c] = "test"
      /\ UNCHANGED <<tail, mem, chain, ltail, arg, seen>>
      /\ ltail[c] \in Nat /\ ltail[c] <= Size /\ head \in Nat /\ tail \in Nat /\ head <= Size
      /\ Start <= ltail[c] /\ PopSound(c) /\ TailFrom(ltail[c])
  BY DEF PopReadHead, Goto, Inside, TypeInv, TypeOK, Offsets, Procs, Sound, PopSound
<1>2. ASSUME NEW d \in Consumers, d # c PROVE PopSound(d)'
  BY <1>1, <1>2, OtherPoppers DEF PopReadHead, Goto, TypeInv, TypeOK, Procs
<1>3. \A q \in Producers : pc'[q] = pc[q] /\ lhead'[q] = lhead[q] /\ arg'[q] = arg[q]
  BY <1>1 DEF PopReadHead, Goto, TypeInv, TypeOK, Procs
<1>4. CASE head = Size
  <2>1. head' = Start /\ ltail[c] # Size
    BY <1>4 DEF PopReadHead
  <2>2. tail < head
    BY <1>1, <1>4, <2>1 DEF TailFrom
  <2>3. To(0) = Start
    <3>1. Leads(head, To(0))
      BY DEF Sound, Ring, Links, From, TypeInv, TypeOK
    <3>2. CASE chain = <<>>
      BY <1>1, <2>2, <3>1, <3>2 DEF Leads, To
    <3>3. CASE chain # <<>>
      <4>1. 1 \in 1 .. Len(chain) /\ To(0) = chain[1].at
        BY <3>3 DEF To, TypeInv, TypeOK
      <4>2. chain[1].at < End(chain[1]) /\ End(chain[1]) \in Offsets /\ chain[1].at \in Offsets
        BY <4>1, ChainFacts
      <4>. QED
        BY <1>1, <1>4, <3>1, <4>1, <4>2 DEF Leads, Offsets
    <3>. QED
      BY <3>2, <3>3
  <2>4. Ring'
    BY <1>1, <2>1, <2>2, <2>3, WrapHead
  <2>5. ASSUME NEW q \in Producers PROVE PushSound(q)'
    BY <1>1, <1>3, <2>1, <2>2, WrapHeadPushes
  <2>6. PopSound(c)'
    <3>1. TailFrom(ltail[c])'
      BY <1>1, <1>4, <2>1 DEF TailFrom
    <3>2. seen[c] => ltail[c] # Start
      BY <1>4 DEF PopReadHead, Sound, PopSound
    <3>. QED
      BY <1>1, <2>1, <3>1, <3>2 DEF PopSound
  <2>. QED
    BY <1>2, <2>4, <2>5, <2>6 DEF Sound
<1>5. CASE head # Size
  <2>1. UNCHANGED <<head, tail, mem, chain>>
    BY <1>1, <1>5 DEF PopReadHead
  <2>2. Ring'
    BY <2>1, RingFrame DEF RingUnchanged, Sound
  <2>3. ASSUME NEW q \in Producers PROVE PushSound(q)'
    BY <1>3, <2>1, PushFrame DEF RingUnchanged, Sound
  <2>4. PopSound(c)'
    <3>1. TailFrom(ltail[c])'
      BY <1>1, <2>1 DEF TailFrom
    <3>2. seen[c] => ltail[c] # head
      BY DEF PopReadHead, Sound, PopSound
    <3>. QED
      BY <1>1, <2>1, <3>1, <3>2 DEF PopSound
  <2>. QED
    BY <1>2, <2>2, <2>3, <2>4 DEF Sound
<1>. QED
  BY <1>4, <1>5

LEMMA PopPadSound ==
    ASSUME TypeInv, Sound, NEW c \in Consumers, PopPad(c) PROVE Sound'
<1>1. /\ c \in Procs /\ c \notin Producers /\ Inside(c) /\ pc'[c] = "stop" /\ head' = Start
      /\ UNCHANGED <<tail, mem, chain, lhead, ltail, arg>>
      /\ pc[c] = "test" /\ lhead[c] # ltail[c] /\ mem[lhead[c]] = Pad
  BY DEF PopPad, Goto, Inside, ghost, TypeInv, TypeOK, Procs
<1>2. tail < head /\ To(0) = Start
  <2>1. chain # <<>> => chain[1].msg \in Msgs
    BY ChainFacts DEF TypeInv, TypeOK
  <2>2. chain # <<>> => Word(chain[1].msg, 0) # Pad
    BY <2>1 DEF Word, Pad
  <2>. QED
    BY <1>1, <2>2, FirstBlock
<1>3. Ring'
  BY <1>1, <1>2, WrapHead
<1>4. ASSUME NEW q \in Producers PROVE PushSound(q)'
  BY <1>1, <1>2, WrapHeadPushes DEF PopPad, Goto, TypeInv, TypeOK, Procs
<1>5. ASSUME NEW d \in Consumers, d # c PROVE PopSound(d)'
  BY <1>1, <1>5, OtherPoppers DEF PopPad, Goto, TypeInv, TypeOK, Procs
<1>6. PopSound(c)'
  BY <1>1 DEF PopSound
<1>. QED
  BY <1>3, <1>4, <1>5, <1>6 DEF Sound

LEMMA PopHeaderSound ==
    ASSUME TypeInv, Sound, NEW c \in Consumers, PopHeader(c) PROVE Sound'
<1>1. /\ c \in Procs /\ c \notin Producers /\ pc'[c] = "copy"
      /\ UNCHANGED <<head, tail, mem, chain>>
      /\ pc[c] = "test" /\ lhead[c] # ltail[c] /\ mem[lhead[c]] # Pad
  BY DEF PopHeader, Goto, shared, ghost, TypeInv, TypeOK, Procs, IsHeader, Pad, Word
<1>2. chain # <<>> /\ chain[1].at = head
  BY <1>1, FirstBlock
<1>3. PopSound(c)'
  BY <1>1, <1>2 DEF PopSound
<1>. QED
  BY <1>1, <1>3, LocalStep DEF RingUnchanged, PopHeader, Goto, ghost, TypeInv, TypeOK

LEMMA PopCopySound ==
    ASSUME TypeInv, Sound, NEW c \in Consumers, PopCopy(c) PROVE Sound'
<1>1. /\ c \in Procs /\ c \notin Producers /\ pc'[c] = "commit"
      /\ UNCHANGED <<head, tail, mem, chain>>
      /\ pc[c] = "copy" /\ lhead[c] = head /\ arg'[c] = Payload(head)
  BY DEF PopCopy, Goto, shared, ghost, TypeInv, TypeOK, PopBounds, Procs
<1>2. chain # <<>> /\ chain[1].at = head /\ 1 \in 1 .. Len(chain)
  BY <1>1 DEF Sound, PopSound, TypeInv, TypeOK
<1>3. Payload(head) = chain[1].msg
  <2>1. chain[1].msg \in Msgs /\ MsgLen[chain[1].msg] \in Nat /\ MsgLen[chain[1].msg] >= 2
        /\ head \in Nat
    BY <1>2, ChainFacts DEF TypeInv, TypeOK, Offsets
  <2>2. \A k \in 0 .. MsgLen[chain[1].msg] - 1 : mem[head + k] = Word(chain[1].msg, k)
    BY <1>2 DEF Sound, Ring, BlocksIntact
  <2>3. mem[head] = Word(chain[1].msg, 0)
    <3>1. 0 \in 0 .. MsgLen[chain[1].msg] - 1 /\ head + 0 = head
      BY <2>1
    <3>. QED
      BY <2>2, <3>1
  <2>4. mem[head].msg = chain[1].msg /\ IsHeader(mem[head])
    BY <2>1, <2>3 DEF Word, IsHeader
  <2>. QED
    BY <2>1, <2>2, <2>4 DEF Payload
<1>4. PopSound(c)'
  BY <1>1, <1>2, <1>3 DEF PopSound
<1>. QED
  BY <1>1, <1>4, LocalStep DEF RingUnchanged, PopCopy, Goto, ghost, TypeInv, TypeOK

LEMMA PopCommitSound ==
    ASSUME TypeInv, Sound, NEW c \in Consumers, PopCommit(c) PROVE Sound'
<1>. DEFINE N == Len(chain)
            e == End(chain[1])
<1>1. /\ c \in Procs /\ c \notin Producers /\ Inside(c) /\ pc'[c] = "return"
      /\ UNCHANGED <<tail, mem, lhead, arg>>
      /\ pc[c] = "commit" /\ lhead[c] = head
  BY DEF PopCommit, Goto, Inside, TypeInv, TypeOK, PopBounds, Procs
<1>2. /\ head \in Nat /\ tail \in Nat /\ head < Size /\ chain \in Seq([at : Offsets, msg : Msgs])
  BY <1>1 DEF TypeInv, TypeOK, PopBounds, Offsets
<1>3. /\ chain # <<>> /\ chain[1].at = head /\ N \in Nat /\ N >= 1
      /\ chain' = Tail(chain) /\ Len(chain') = N - 1
      /\ \A i \in 1 .. N - 1 : chain'[i] = chain[i + 1]
  BY <1>1, <1>2 DEF Sound, PopSound, PopCommit
<1>4. \A i \in 1 .. N : /\ chain[i].at \in Nat /\ End(chain[i]) \in Nat
                       /\ chain[i].at < End(chain[i]) /\ End(chain[i]) <= Size
  BY ChainFacts DEF Offsets
<1>5. head' = e
  <2>1. chain[1].msg \in Msgs /\ MsgLen[chain[1].msg] \in Nat /\ MsgLen[chain[1].msg] >= 2
    BY <1>3, ChainFacts
  <2>2. 0 \in 0 .. MsgLen[chain[1].msg] - 1 /\ head + 0 = head
    BY <1>2, <2>1
  <2>3. mem[head] = Word(chain[1].msg, 0)
    <3>1. 1 \in 1 .. Len(chain)
      BY <1>3
    <3>2. mem[chain[1].at + 0] = Word(chain[1].msg, 0)
      BY <2>2, <3>1 DEF Sound, Ring, BlocksIntact
    <3>. QED
      BY <1>3, <2>2, <3>2
  <2>. QED
    BY <1>1, <1>3, <2>1, <2>3 DEF PopCommit, IsHeader, Word, End
<1>6. /\ e \in Nat /\ head < e /\ e <= Size
      /\ head <= tail => e <= tail
      /\ (tail < e) <=> (tail < head)
  <2>1. /\ e \in Nat /\ head < e /\ e <= Size
        /\ head <= tail => e <= tail
    BY <1>3, <1>4 DEF Sound, Ring, Geometry
  <2>. QED
    BY <1>2, <2>1
<1>7. ASSUME NEW i \in 2 .. N
      PROVE  /\ End(chain[i]) <= Size
             /\ head <= tail => e <= chain[i].at /\ End(chain[i]) <= tail
             /\ tail < head => e <= chain[i].at \/ End(chain[i]) <= tail
  <2>1. Ordered(chain[1], chain[i], head, tail)
    BY <1>3 DEF Sound, Ring, Order, Before
  <2>2. /\ End(chain[i]) <= Size
        /\ head <= tail => head <= chain[i].at /\ End(chain[i]) <= tail
    BY <1>3 DEF Sound, Ring, Geometry
  <2>. QED
    BY <1>2, <2>1, <2>2 DEF Ordered
<1>. HIDE DEF N, e
<1>8. HeadOffStart'
  BY <1>1, <1>2, <1>5, <1>6 DEF HeadOffStart, TypeInv, TypeOK, Offsets
<1>9. Geometry'
  <2>1. SUFFICES ASSUME NEW i \in 1 .. N - 1
                 PROVE  /\ End(chain'[i]) <= Size
                        /\ e <= tail => e <= chain'[i].at /\ End(chain'[i]) <= tail
                        /\ tail < e => e <= chain'[i].at \/ End(chain'[i]) <= tail
    BY <1>1, <1>3, <1>5 DEF Geometry, End
  <2>2. i + 1 \in 2 .. N /\ chain'[i] = chain[i + 1]
    BY <1>3
  <2>. QED
    BY <1>2, <1>6, <1>7, <2>2
<1>10. Order'
  <2>1. SUFFICES ASSUME NEW i \in 1 .. N - 1, NEW j \in 1 .. N - 1, i < j
                 PROVE  Ordered(chain'[i], chain'[j], e, tail)
    BY <1>1, <1>3, <1>5 DEF Order, Before
  <2>2. /\ i + 1 \in 2 .. N /\ i + 1 \in 1 .. N /\ chain'[i] = chain[i + 1]
        /\ j + 1 \in 2 .. N /\ j + 1 \in 1 .. N /\ chain'[j] = chain[j + 1]
    BY <1>3
  <2>3. Ordered(chain[i + 1], chain[j + 1], head, tail)
    BY <2>1, <2>2 DEF Sound, Ring, Order, Before, N
  <2>4. tail < head => e <= chain[i + 1].at \/ End(chain[i + 1]) <= tail
    BY <1>7, <2>2
  <2>5. /\ chain[i + 1].at \in Nat /\ End(chain[i + 1]) \in Nat
        /\ chain[i + 1].at < End(chain[i + 1])
    BY <1>4, <2>2
  <2>. QED
    BY SMTT(30), <1>2, <1>6, <2>2, <2>3, <2>4, <2>5 DEF Ordered
<1>11. Links'
  <2>1. SUFFICES ASSUME NEW i \in 0 .. N - 1 PROVE Leads(From(i), To(i))'
    BY <1>3 DEF Links
  <2>2. i + 1 \in 1 .. N /\ i + 1 \in 0 .. N /\ i + 1 # 0
    BY <1>3
  <2>3. From(i)' = From(i + 1)
    BY <1>3, <1>5, <2>2 DEF From, End, e
  <2>4. To(i)' = To(i + 1)
    <3>1. CASE i = N - 1
      BY <1>1, <1>3, <3>1 DEF To, N
    <3>2. CASE i # N - 1
      <4>1. i + 1 \in 1 .. N - 1 /\ i + 1 # N
        BY <1>3, <3>2
      <4>. QED
        BY <1>3, <3>2, <4>1 DEF To, N
    <3>. QED
      BY <3>1, <3>2
  <2>5. Leads(From(i + 1), To(i + 1)) /\ From(i + 1) = End(chain[i + 1])
    BY <2>2 DEF Sound, Ring, Links, From, N
  <2>6. ASSUME tail < head, head <= End(chain[i + 1]) PROVE e <= End(chain[i + 1])
    <3>1. CASE i = 0
      BY <1>6, <3>1 DEF e
    <3>2. CASE i # 0
      <4>1. i + 1 \in 2 .. N
        BY <2>2, <3>2
      <4>2. e <= chain[i + 1].at \/ End(chain[i + 1]) <= tail
        BY <1>7, <2>6, <4>1
      <4>. QED
        BY <1>2, <1>4, <1>6, <2>2, <2>6, <4>2
    <3>. QED
      BY <3>1, <3>2
  <2>. QED
    BY <1>1, <1>2, <1>5, <1>6, <2>3, <2>4, <2>5, <2>6 DEF Leads
<1>12. BlocksIntact'
  <2>1. SUFFICES ASSUME NEW i \in 1 .. N - 1, NEW k \in 0 .. MsgLen[chain'[i].msg] - 1
                 PROVE  /\ chain'[i].at + k \in Words
                        /\ mem[chain'[i].at + k] = Word(chain'[i].msg, k)
    BY ZenonT(60), <1>1, <1>3 DEF BlocksIntact
  <2>2. i + 1 \in 1 .. N /\ chain'[i] = chain[i + 1]
    BY <1>3
  <2>. QED
    BY <2>2 DEF Sound, Ring, BlocksIntact, N
<1>13. ASSUME NEW q \in Producers PROVE PushSound(q)'
  <2>1. /\ q \in Procs /\ pc'[q] = pc[q] /\ lhead'[q] = lhead[q] /\ arg'[q] = arg[q]
        /\ lhead[q] \in Nat /\ PushSound(q) /\ Need(q)' = Need(q)
    BY <1>1 DEF PopCommit, Goto, TypeInv, TypeOK, Procs, Offsets, Sound, Need
  <2>2. HeadFrom(lhead[q]) => HeadFrom(lhead[q])'
    BY <1>1, <1>2, <1>5, <1>6, <2>1 DEF HeadFrom
  <2>3. ASSUME pc[q] \in {"header", "copy", "commit"} PROVE Room(Need(q))'
    <3>1. Need(q) \in Nat /\ Room(Need(q))
      BY <2>1, <2>3 DEF TypeInv, PushBounds, Need, PushSound
    <3>. QED
      BY <1>1, <1>2, <1>5, <1>6, <2>1, <3>1 DEF Room, TypeInv, TypeOK, Offsets
  <2>. QED
    BY <1>1, <2>1, <2>2, <2>3 DEF PushSound
<1>14. PopSound(c)'
  BY <1>1 DEF PopSound
<1>15. ASSUME NEW d \in Consumers, d # c PROVE PopSound(d)'
  BY <1>1, <1>15, OtherPoppers DEF PopCommit, Goto, TypeInv, TypeOK, Procs
<1>. QED
  BY <1>8, <1>9, <1>10, <1>11, <1>12, <1>13, <1>14, <1>15 DEF Sound, Ring

\* Steps of a pop that neither change the ring nor claim anything.
LEMMA PopQuietSound ==
    ASSUME TypeInv, Sound, NEW c \in Consumers,
           PopCall(c) \/ PopEmpty(c) \/ PopNoMemory(c) \/ PopGarbage(c)
    PROVE  Sound'
<1>1. c \in Procs /\ pc'[c] \in Quiet
  BY DEF PopCall, PopEmpty, PopNoMemory, PopGarbage, Enter, Goto, Quiet, TypeInv, TypeOK, Procs
<1>2. RingUnchanged /\ UNCHANGED <<lhead, ltail, arg, seen>>
  BY DEF PopCall, PopEmpty, PopNoMemory, PopGarbage, shared, ghost, RingUnchanged
<1>3. pc' \in [Procs -> PushSteps \cup PopSteps]
  BY PopStepType DEF PopStep, TypeInv, TypeOK
<1>4. \A q \in Procs : q # c => pc'[q] = pc[q]
  BY DEF PopCall, PopEmpty, PopNoMemory, PopGarbage, Enter, Goto, TypeInv, TypeOK
<1>. QED
  BY <1>1, <1>2, <1>3, <1>4, QuietStep

-----------------------------------------------------------------------------
(* The theorems *)

LEMMA SoundStep == TypeInv /\ ~stale' /\ (~stale => Sound) /\ [Next]_vars => Sound'
<1>. SUFFICES ASSUME TypeInv, ~stale', ~stale => Sound, [Next]_vars PROVE Sound'
  OBVIOUS
<1>1. CASE UNCHANGED vars
  <2>1. Sound /\ RingUnchanged /\ UNCHANGED <<pc, lhead, ltail, arg, seen>>
    BY <1>1 DEF vars, RingUnchanged
  <2>. QED
    BY <2>1, RingFrame, PushFrame, PopFrame DEF Sound, RingUnchanged
<1>2. CASE \E p \in Procs : AnyStep(p)
  <2>. PICK p \in Procs : AnyStep(p)
    BY <1>2
  <2>1. ~stale
    BY DEF AnyStep, LockTake, LockInterrupted, StopSeen, Return, SetStop, Die, ghost
  <2>. QED
    BY <2>1, AnyStepSound
<1>3. CASE \E p \in Producers : PushStep(p) \/ \E m \in Msgs : PushCall(p, m)
  <2>. PICK p \in Producers : PushStep(p) \/ \E m \in Msgs : PushCall(p, m)
    BY <1>3
  <2>1. ~stale
    BY DEF PushStep, PushCall, PushReadHead, PushReadTail, PushFits, PushPad, PushWrap, PushFull,
           PushHeader, PushCopy, PushCommit, ghost
  <2>. QED
    BY <2>1, PushReadHeadSound, PushReadTailSound, PushFitsSound, PushPadSound, PushWrapSound,
       PushFullSound, PushHeaderSound, PushCopySound, PushCommitSound, PushCallSound DEF PushStep
<1>4. CASE \E c \in Consumers : PopStep(c) \/ PopCall(c)
  <2>. PICK c \in Consumers : PopStep(c) \/ PopCall(c)
    BY <1>4
  <2>1. ~stale
    BY DEF PopStep, PopCall, PopReadTail, PopReadHead, PopEmpty, PopPad, PopHeader, PopNoMemory,
           PopGarbage, PopCopy, PopCommit, ghost
  <2>. QED
    BY <2>1, PopReadTailSound, PopReadHeadSound, PopPadSound, PopHeaderSound, PopCopySound,
       PopCommitSound, PopQuietSound DEF PopStep
<1>. QED
  BY <1>1, <1>2, <1>3, <1>4 DEF Next

\* What lies between head and tail is the chain of blocks pushed and not
\* popped, and every copy of head or tail in a process's hands (shmq.c:136, 219)
\* is one they have moved forward from, until a pop makes that untrue.
THEOREM Inductive == Spec => []IInv
<1>1. Init => IInv
  BY InitType, InitSound DEF IInv
<1>2. IInv /\ [Next]_vars => IInv'
  BY TypeStep, SoundStep DEF IInv
<1>. QED
  BY <1>1, <1>2, PTL DEF Spec

\* Until a pop wraps head under a copy of tail at Size (shmq.c:221-226), no
\* push overwrites a block in use, a pop gets the oldest message whole, and a
\* pop gives up only on a ring it found empty.
THEOREM SoundQueue == Spec => []SoundUnlessStale
<1>1. TypeInv /\ Sound => BlocksIntact
  BY DEF Sound, Ring
<1>2. TypeInv /\ Sound => PopsOldest
  BY DEF Sound, PopSound, PopsOldest
<1>3. TypeInv /\ Sound => EmptyIsEmpty
  BY DEF Sound, PopSound, EmptyIsEmpty, TypeInv, PopBounds
<1>4. IInv => SoundUnlessStale
  BY <1>1, <1>2, <1>3 DEF IInv, SoundUnlessStale
<1>. QED
  BY <1>4, Inductive, PTL

\* The comment of shmq.c:141 holds of the push that wraps tail, until then.
THEOREM WrapCommentUnlessStale == Spec => [](~stale => HeadNotAtStart)
<1>1. IInv => (~stale => HeadNotAtStart)
  BY DEF IInv, Sound, PushSound, HeadNotAtStart
<1>. QED
  BY <1>1, Inductive, PTL

\* Room for n words in a ring that is empty with head and tail at h.
Accepts(h, n) == FitsAtTail(h, h, n) \/ FitsAtStart(h, h, n)

\* An empty ring takes a block wherever head and tail stand if and only if the
\* block is no longer than half of it: the wait of shmq.c:155 and 176, which
\* keeps the lock, can be endless for longer ones.
THEOREM HalfRing ==
    ASSUME NEW n \in Nat \ {0}, n <= Size - Start
    PROVE  (\A h \in Words : Accepts(h, n)) <=> 2 * n <= Size - Start
<1>1. ASSUME 2 * n <= Size - Start, NEW h \in Words PROVE Accepts(h, n)
  BY <1>1 DEF Accepts, FitsAtTail, FitsAtStart, Words
<1>2. ASSUME 2 * n > Size - Start PROVE \E h \in Words : ~Accepts(h, n)
  <2>1. CASE n < Size - Start
    <3>1. Start + n \in Words /\ ~Accepts(Start + n, n)
      BY <1>2, <2>1 DEF Accepts, FitsAtTail, FitsAtStart, Words
    <3>. QED
      BY <3>1
  <2>2. CASE n = Size - Start
    <3>1. Start \in Words /\ ~Accepts(Start, n)
      BY <2>2 DEF Accepts, FitsAtTail, FitsAtStart, Words
    <3>. QED
      BY <3>1
  <2>. QED
    BY <2>1, <2>2
<1>. QED
  BY <1>1, <1>2

-----------------------------------------------------------------------------
(* The ring implements the queue of Fifo as long as no pop goes stale, and *)
(* none does in a ring that no run of blocks can fill exactly up to Size.  *)

(* Every step of the ring is a step of the queue, or leaves it alone *)

USE RingAssumption, MsgAssumption, ProcAssumption, SideAssumption

Blocks == [at : Offsets, msg : Msgs]
Taken  == [c \in Consumers |-> IF pc[c] = "return" THEN arg[c] ELSE NoMsg]

LEMMA BlockMsgs == \A x \in Blocks : x.msg \in Msgs
BY DEF Blocks

LEMMA InitQueue == Init => Queue!Init
BY DEF Init, Queue!Init, Procs

\* A step of p that neither commits a push nor enters or leaves "return".
LEMMA QueueIdle ==
    ASSUME TypeInv, NEW p \in Procs, chain' = chain,
           \A q \in Procs : q # p => pc'[q] = pc[q] /\ arg'[q] = arg[q],
           pc[p] # "return", pc'[p] # "return"
    PROVE  UNCHANGED Queue!vars
BY DEF Queue!vars, Procs

LEMMA QueueAnyStep ==
    ASSUME TypeInv, NEW p \in Procs, AnyStep(p) PROVE [Queue!Next]_(Queue!vars)
<1>1. chain' = chain /\ \A q \in Procs : q # p => pc'[q] = pc[q] /\ arg'[q] = arg[q]
  BY DEF AnyStep, LockTake, LockInterrupted, StopSeen, Return, SetStop, Die, DropLocals, Goto,
         ghost, TypeInv, TypeOK
<1>2. CASE SetStop(p)
  BY <1>1, <1>2 DEF SetStop, Queue!vars
<1>3. CASE ~SetStop(p)
  <2>1. pc'[p] # "return"
    BY <1>3 DEF AnyStep, LockTake, LockInterrupted, StopSeen, Return, Die, Goto, TypeInv, TypeOK
  <2>2. CASE pc[p] # "return"
    BY <1>1, <2>1, <2>2, QueueIdle
  <2>3. CASE pc[p] = "return"
    <3>1. p \in Consumers
      BY <2>3 DEF Procs, TypeInv, TypeOK, PushSteps
    <3>2. Taken' = [Taken EXCEPT ![p] = NoMsg]
      BY <1>1, <2>1, <3>1 DEF Taken, Procs
    <3>3. CASE arg[p] = NoMsg
      BY <1>1, <2>1, <2>3, <3>1, <3>2, <3>3 DEF Queue!vars, Taken, Procs
    <3>4. CASE arg[p] # NoMsg
      <4>1. Queue!Forget(p)
        BY <1>1, <2>3, <3>1, <3>2, <3>4 DEF Queue!Forget, Taken
      <4>. QED
        BY <3>1, <4>1 DEF Queue!Next
    <3>. QED
      BY <3>3, <3>4
  <2>. QED
    BY <2>2, <2>3
<1>. QED
  BY <1>2, <1>3

LEMMA QueuePushCommit ==
    ASSUME TypeInv, ~stale, NEW p \in Producers, PushCommit(p) PROVE Queue!Next
<1>1. arg[p] \in Msgs /\ tail \in Offsets /\ chain \in Seq(Blocks)
  BY DEF PushCommit, TypeInv, TypeOK, PushBounds, Blocks
<1>2. MsgsOf(chain') = Append(MsgsOf(chain), arg[p])
  <2>. DEFINE b == [at |-> tail, msg |-> arg[p]]
  <2>1. b \in Blocks /\ b.msg = arg[p] /\ chain' = Append(chain, b)
    BY <1>1 DEF PushCommit, Blocks
  <2>. HIDE DEF b
  <2>. QED
    BY <1>1, <2>1, MsgsOfAppend, BlockMsgs
<1>3. ASSUME NEW c \in Consumers PROVE pc'[c] = pc[c] /\ arg'[c] = arg[c]
  <2>1. c \in Procs /\ c # p
    BY DEF Procs
  <2>. QED
    BY <2>1 DEF PushCommit, Goto, TypeInv, TypeOK
<1>. PICK m \in Msgs : m = arg[p]
  BY <1>1
<1>4. Queue!Push(m)
  BY <1>2, <1>3 DEF Queue!Push, MsgsOf
<1>. QED
  BY <1>4 DEF Queue!Next

LEMMA QueuePopCommit ==
    ASSUME TypeInv, Sound, NEW c \in Consumers, PopCommit(c) PROVE Queue!Next
<1>1. /\ c \in Procs /\ chain \in Seq(Blocks) /\ chain # <<>> /\ chain' = Tail(chain)
      /\ pc[c] = "commit" /\ arg[c] = chain[1].msg
      /\ arg' = arg /\ pc'[c] = "return" /\ \A q \in Procs : q # c => pc'[q] = pc[q]
  BY DEF PopCommit, Goto, TypeInv, TypeOK, Procs, Blocks, Sound, PopSound
<1>2. /\ MsgsOf(chain) # <<>> /\ Head(MsgsOf(chain)) = arg[c]
      /\ MsgsOf(chain') = Tail(MsgsOf(chain))
  BY <1>1, MsgsOfTail, BlockMsgs
<1>3. Taken[c] = NoMsg /\ Taken' = [Taken EXCEPT ![c] = arg[c]]
  BY <1>1 DEF Taken, Procs
<1>4. Queue!Pop(c)
  BY <1>2, <1>3 DEF Queue!Pop, MsgsOf, Taken
<1>. QED
  BY <1>4 DEF Queue!Next

LEMMA QueueStep ==
    ASSUME TypeInv, Sound, ~stale, ~stale', [Next]_vars PROVE [Queue!Next]_(Queue!vars)
<1>1. CASE UNCHANGED vars
  BY <1>1 DEF vars, Queue!vars
<1>2. ASSUME NEW p \in Procs, AnyStep(p) PROVE [Queue!Next]_(Queue!vars)
  BY <1>2, QueueAnyStep
<1>3. ASSUME NEW p \in Producers, PushStep(p) \/ \E m \in Msgs : PushCall(p, m)
      PROVE  [Queue!Next]_(Queue!vars)
  <2>1. CASE PushCommit(p)
    BY <2>1, QueuePushCommit
  <2>2. CASE ~PushCommit(p)
    <3>1. chain' = chain /\ \A q \in Procs : q # p => pc'[q] = pc[q] /\ arg'[q] = arg[q]
      BY <1>3, <2>2
      DEF PushStep, PushCall, PushReadHead, PushReadTail, PushFits, PushPad, PushWrap, PushFull,
          PushHeader, PushCopy, Enter, Goto, ghost, TypeInv, TypeOK
    <3>2. p \in Procs /\ pc[p] # "return" /\ pc'[p] # "return"
      BY <1>3, PushStepType DEF TypeInv, TypeOK, Procs, PushSteps
    <3>. QED
      BY <3>1, <3>2, QueueIdle
  <2>. QED
    BY <2>1, <2>2
<1>4. ASSUME NEW c \in Consumers, PopStep(c) \/ PopCall(c) PROVE [Queue!Next]_(Queue!vars)
  <2>1. CASE PopCommit(c)
    BY <2>1, QueuePopCommit
  <2>2. CASE ~PopCommit(c)
    <3>1. chain' = chain /\ \A q \in Procs : q # c => pc'[q] = pc[q] /\ arg'[q] = arg[q]
      BY <1>4, <2>2
      DEF PopStep, PopCall, PopReadTail, PopReadHead, PopEmpty, PopPad, PopHeader, PopNoMemory,
          PopGarbage, PopCopy, Enter, Goto, ghost, TypeInv, TypeOK
    <3>2. c \in Procs /\ pc[c] # "return" /\ pc'[c] # "return"
      BY <1>4, <2>2
      DEF PopStep, PopCall, PopReadTail, PopReadHead, PopEmpty, PopPad, PopHeader, PopNoMemory,
          PopGarbage, PopCopy, Enter, Goto, TypeInv, TypeOK, Procs
    <3>. QED
      BY <3>1, <3>2, QueueIdle
  <2>. QED
    BY <2>1, <2>2
<1>. QED
  BY <1>1, <1>2, <1>3, <1>4 DEF Next

\* As long as no pop goes stale, the ring is a queue: what shmq_pop returns
\* is what shmq_push was given, in order, each message to one process.
THEOREM Refinement == Spec /\ []NeverStale => IsFifo
<1>1. Init => Queue!Init
  BY InitQueue
<1>2. IInv /\ NeverStale /\ NeverStale' /\ [Next]_vars => [Queue!Next]_(Queue!vars)
  BY QueueStep DEF IInv, NeverStale
<1>. QED
  BY <1>1, <1>2, Inductive, PTL DEF Spec, IsFifo, Queue!Spec

-----------------------------------------------------------------------------
(* Rings that never go stale *)

\* Blocks laid from Start on can end at the offsets in Ends only.
EndsOnly(Ends) ==
    /\ Start \in Ends
    /\ \A o \in Ends, m \in Msgs : o + MsgLen[m] \in Ends

InEnds(Ends) ==
    /\ tail \in Ends
    /\ \A c \in Consumers : pc[c] = "head" => ltail[c] \in Ends

\* If no run of blocks laid from Start on can end exactly at Size, no pop ever
\* wraps head under a stale tail (shmq.c:223): with Refinement, such a ring is
\* a queue for ever.
THEOREM NoExactFill ==
    ASSUME NEW Ends, EndsOnly(Ends), Size \notin Ends
    PROVE  Spec => []NeverStale
<1>1. Init => InEnds(Ends) /\ NeverStale
  BY DEF Init, InEnds, NeverStale, EndsOnly, Procs
<1>2. TypeInv /\ InEnds(Ends) /\ NeverStale /\ [Next]_vars => (InEnds(Ends) /\ NeverStale)'
  <2>. SUFFICES ASSUME TypeInv, InEnds(Ends), NeverStale, [Next]_vars
                PROVE  (InEnds(Ends) /\ NeverStale)'
    OBVIOUS
  <2>1. CASE UNCHANGED vars
    BY <2>1 DEF vars, InEnds, NeverStale
  <2>2. ASSUME NEW p \in Procs, AnyStep(p) PROVE (InEnds(Ends) /\ NeverStale)'
    <3>1. tail' = tail /\ stale' = stale
      BY <2>2 DEF AnyStep, LockTake, LockInterrupted, StopSeen, Return, SetStop, Die, shared, ghost
    <3>2. \A c \in Consumers : pc'[c] = "head" => pc[c] = "head" /\ ltail'[c] = ltail[c]
      BY <2>2 DEF AnyStep, LockTake, LockInterrupted, StopSeen, Return, SetStop, Die, DropLocals,
                  Goto, TypeInv, TypeOK, Procs
    <3>. QED
      BY <3>1, <3>2 DEF InEnds, NeverStale
  <2>3. ASSUME NEW p \in Producers, PushStep(p) \/ \E m \in Msgs : PushCall(p, m)
        PROVE  (InEnds(Ends) /\ NeverStale)'
    <3>1. tail' \in Ends
      <4>1. CASE PushCommit(p)
        BY <4>1 DEF PushCommit, InEnds, EndsOnly, TypeInv, PushBounds, Need
      <4>2. CASE ~PushCommit(p)
        BY <2>3, <4>2
        DEF PushStep, PushCall, PushReadHead, PushReadTail, PushFits, PushPad, PushWrap, PushFull,
            PushHeader, PushCopy, shared, InEnds, EndsOnly
      <4>. QED
        BY <4>1, <4>2
    <3>2. ASSUME NEW c \in Consumers PROVE pc'[c] = pc[c] /\ ltail'[c] = ltail[c]
      <4>1. c \in Procs /\ c # p
        BY DEF Procs
      <4>. QED
        BY <2>3, <4>1
        DEF PushStep, PushCall, PushReadHead, PushReadTail, PushFits, PushPad, PushWrap, PushFull,
            PushHeader, PushCopy, PushCommit, Enter, Goto, TypeInv, TypeOK
    <3>3. stale' = stale
      BY <2>3
      DEF PushStep, PushCall, PushReadHead, PushReadTail, PushFits, PushPad, PushWrap, PushFull,
          PushHeader, PushCopy, PushCommit, ghost
    <3>. QED
      BY <3>1, <3>2, <3>3 DEF InEnds, NeverStale
  <2>4. ASSUME NEW c \in Consumers, PopStep(c) \/ PopCall(c) PROVE (InEnds(Ends) /\ NeverStale)'
    <3>1. tail' = tail
      BY <2>4
      DEF PopStep, PopCall, PopReadTail, PopReadHead, PopEmpty, PopPad, PopHeader, PopNoMemory,
          PopGarbage, PopCopy, PopCommit, shared
    <3>2. ~stale'
      <4>1. PopReadHead(c) => ltail[c] # Size
        BY DEF PopReadHead, InEnds
      <4>. QED
        BY <2>4, <4>1
        DEF PopStep, PopCall, PopReadTail, PopReadHead, PopEmpty, PopPad, PopHeader, PopNoMemory,
            PopGarbage, PopCopy, PopCommit, ghost, NeverStale
    <3>3. \A d \in Consumers : pc'[d] = "head" => \/ pc[d] = "head" /\ ltail'[d] = ltail[d]
                                                  \/ ltail'[d] = tail
      BY <2>4
      DEF PopStep, PopCall, PopReadTail, PopReadHead, PopEmpty, PopPad, PopHeader, PopNoMemory,
          PopGarbage, PopCopy, PopCommit, Enter, Goto, TypeInv, TypeOK, Procs
    <3>. QED
      BY <3>1, <3>2, <3>3 DEF InEnds, NeverStale
  <2>. QED
    BY <2>1, <2>2, <2>3, <2>4 DEF Next
<1>. QED
  BY <1>1, <1>2, TypeAlways, PTL DEF Spec
=============================================================================
