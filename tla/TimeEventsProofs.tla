-------------------------- MODULE TimeEventsProofs --------------------------
(***************************************************************************)
(* Proofs about TimeEvents, for any number of timers, delays and passes:   *)
(* a pass handles what was due when it began, nothing that was created in  *)
(* it, and none more often than the time that passes in it allows.         *)
(***************************************************************************)
EXTENDS TimeEvents, SequenceTheorems, TLAPS

Timer == [id : Nat, when : Nat]

Distinct(ts) == \A j, k \in 1 .. Len(ts) : ts[j].id = ts[k].id => j = k

TypeInv ==
    /\ timers \in Seq(Timer)
    /\ next_id \in 0 .. MaxId /\ now \in Nat
    /\ te \in Nat /\ maxid \in Int
    /\ began \in Nat /\ due \subseteq 0 .. MaxId
    /\ handled \in [0 .. MaxId -> Nat]

\* No identifier is given twice.
Numbered == Distinct(timers) /\ \A t \in Range(timers) : t.id < next_id

\* A pass handles timers that were there when it began.
Old ==
    /\ InPass => maxid < next_id /\ began <= now
    /\ \A id \in 0 .. MaxId : handled[id] > 0 => id <= maxid

\* What was due and has not been handled is still to come in the list.
Ahead(id) == \E j \in 1 .. Len(timers) :
    te <= j /\ timers[j].id = id /\ timers[j].when <= began /\ id <= maxid

Owed == InPass => \A id \in due : handled[id] > 0 \/ Ahead(id)

\* A timer handled h times has waited h - 1 times, and is armed once more.
Paced ==
    InPass => \A id \in 0 .. MaxId : handled[id] > 0 =>
        /\ began + (handled[id] - 1) * Period <= now
        /\ \A t \in Range(timers) : t.id = id => began + handled[id] * Period <= t.when

IInv == TypeInv /\ Numbered /\ Old /\ Owed /\ Paced

-----------------------------------------------------------------------------
(* The operations on a list of timers with distinct identifiers *)

\* The elements of a sequence of timers, by their places.
LEMMA InList ==
    ASSUME NEW ts \in Seq(Timer)
    PROVE  /\ Len(ts) \in Nat /\ DOMAIN ts = 1 .. Len(ts)
           /\ \A j \in 1 .. Len(ts) : ts[j] \in Timer
           /\ \A t : t \in Range(ts) <=> \E j \in 1 .. Len(ts) : t = ts[j]
<1>1. Len(ts) \in Nat /\ DOMAIN ts = 1 .. Len(ts)
  BY LenProperties
<1>2. \A j \in 1 .. Len(ts) : ts[j] \in Timer
  BY ElementOfSeq
<1>. QED
  BY <1>1, <1>2 DEF Range

\* ae_create_time_event puts the new timer before the others.
LEMMA CreatedList ==
    ASSUME NEW ts \in Seq(Timer), Distinct(ts), NEW id \in Nat, NEW when \in Nat,
           \A t \in Range(ts) : t.id # id
    PROVE  /\ Created(ts, id, when) \in Seq(Timer)
           /\ Distinct(Created(ts, id, when))
           /\ \A t : t \in Range(Created(ts, id, when)) <=>
                 t \in Range(ts) \/ t = [id |-> id, when |-> when]
<1>. DEFINE new == [id |-> id, when |-> when]
            cs  == <<new>> \o ts
<1>1. /\ Len(ts) \in Nat
      /\ \A t : t \in Range(ts) <=> \E j \in 1 .. Len(ts) : t = ts[j]
  BY InList
<1>2. new \in Timer /\ <<new>> \in Seq(Timer) /\ Len(<<new>>) = 1 /\ <<new>>[1] = new
  BY DEF Timer
<1>. HIDE DEF new
<1>3. /\ cs \in Seq(Timer) /\ Len(cs) = 1 + Len(ts)
      /\ \A j \in 1 .. 1 + Len(ts) :
            cs[j] = IF j <= 1 THEN <<new>>[j] ELSE ts[j - 1]
  BY <1>2, ConcatProperties, Zenon
<1>4. cs[1] = new /\ \A j \in 1 .. Len(ts) : cs[j + 1] = ts[j]
  <2>1. 1 \in 1 .. 1 + Len(ts) /\ \A j \in 1 .. Len(ts) : j + 1 \in 1 .. 1 + Len(ts)
                                    /\ ~(j + 1 <= 1) /\ j + 1 - 1 = j
    BY <1>1
  <2>. QED
    BY <1>2, <1>3, <2>1
<1>5. new.id = id
  BY DEF new
<1>. HIDE DEF cs
<1>6. Distinct(cs)
  <2>. SUFFICES ASSUME NEW j \in 1 .. Len(cs), NEW k \in 1 .. Len(cs), cs[j].id = cs[k].id
               PROVE  j = k
    BY DEF Distinct
  <2>1. j = 1 \/ \E m \in 1 .. Len(ts) : j = m + 1 /\ cs[j] = ts[m] /\ cs[j].id # id
    <3>1. j = 1 \/ (j - 1 \in 1 .. Len(ts) /\ j = (j - 1) + 1)
      BY <1>1, <1>3
    <3>. QED
      BY <3>1, <1>1, <1>4
  <2>2. k = 1 \/ \E m \in 1 .. Len(ts) : k = m + 1 /\ cs[k] = ts[m] /\ cs[k].id # id
    <3>1. k = 1 \/ (k - 1 \in 1 .. Len(ts) /\ k = (k - 1) + 1)
      BY <1>1, <1>3
    <3>. QED
      BY <3>1, <1>1, <1>4
  <2>. QED
    BY <2>1, <2>2, <1>4, <1>5 DEF Distinct
<1>7. ASSUME NEW t PROVE t \in Range(cs) <=> t \in Range(ts) \/ t = new
  <2>1. t \in Range(cs) <=> \E j \in 1 .. Len(cs) : t = cs[j]
    BY <1>3, InList
  <2>2. \A j \in 1 .. Len(cs) : j = 1 \/ (j - 1 \in 1 .. Len(ts) /\ cs[j] = ts[j - 1])
    <3>1. \A j \in 1 .. Len(cs) : j = 1 \/ (j - 1 \in 1 .. Len(ts) /\ (j - 1) + 1 = j)
      BY <1>1, <1>3
    <3>. QED
      BY <3>1, <1>4
  <2>3. 1 \in 1 .. Len(cs) /\ \A j \in 1 .. Len(ts) : j + 1 \in 1 .. Len(cs)
    BY <1>1, <1>3
  <2>4. t \in Range(cs) => t \in Range(ts) \/ t = new
    BY <2>1, <2>2, <1>1, <1>4, Zenon
  <2>5. t \in Range(ts) => t \in Range(cs)
    <3>1. ASSUME NEW j \in 1 .. Len(ts), t = ts[j] PROVE t \in Range(cs)
      BY <3>1, <2>1, <2>3, <1>4
    <3>. QED
      BY <3>1, <1>1
  <2>. QED
    BY <2>1, <2>3, <2>4, <2>5, <1>4, Zenon
<1>. QED
  BY <1>3, <1>6, <1>7 DEF Created, cs, new

\* ae_delete_time_event takes out the timer with the identifier, if any.
LEMMA DeletedList ==
    ASSUME NEW ts \in Seq(Timer), Distinct(ts), NEW id
    PROVE  /\ Deleted(ts, id) \in Seq(Timer)
           /\ Distinct(Deleted(ts, id))
           /\ \A t : t \in Range(Deleted(ts, id)) <=> t \in Range(ts) /\ t.id # id
<1>1. /\ Len(ts) \in Nat /\ DOMAIN ts = 1 .. Len(ts)
      /\ \A j \in 1 .. Len(ts) : ts[j] \in Timer
      /\ \A t : t \in Range(ts) <=> \E j \in 1 .. Len(ts) : t = ts[j]
  BY InList
<1>2. CASE \A j \in DOMAIN ts : ts[j].id # id
  BY <1>1, <1>2 DEF Deleted
<1>3. CASE \E j \in DOMAIN ts : ts[j].id = id
  <2>. DEFINE i == CHOOSE j \in DOMAIN ts : IsFirst(ts, id, j)
              a == SubSeq(ts, 1, i - 1)
              b == SubSeq(ts, i + 1, Len(ts))
              d == a \o b
  <2>1. i \in 1 .. Len(ts) /\ ts[i].id = id
    <3>1. PICK j \in 1 .. Len(ts) : ts[j].id = id
      BY <1>1, <1>3
    <3>2. \A k \in 1 .. j - 1 : ts[k].id # id
      BY <1>1, <3>1 DEF Distinct
    <3>3. IsFirst(ts, id, j)
      BY <3>1, <3>2 DEF IsFirst
    <3>. QED
      BY <1>1, <3>1, <3>3 DEF IsFirst
  <2>2. Deleted(ts, id) = d
    BY <1>3 DEF Deleted, RemoveAt
  <2>. HIDE DEF i
  <2>3. /\ a \in Seq(Timer) /\ Len(a) = i - 1
        /\ \A j \in 1 .. i - 1 : a[j] = ts[j]
    <3>1. 1 \in Int /\ i - 1 \in Int /\ \A j \in 1 .. i - 1 : ts[j] \in Timer
      BY <1>1, <2>1
    <3>2. /\ a \in Seq(Timer)
          /\ Len(a) = IF 1 <= i - 1 THEN (i - 1) - 1 + 1 ELSE 0
          /\ \A j \in 1 .. (i - 1) - 1 + 1 : a[j] = ts[1 + j - 1]
      BY <3>1, SubSeqProperties
    <3>. QED
      BY <2>1, <3>2
  <2>4. /\ b \in Seq(Timer) /\ Len(b) = Len(ts) - i
        /\ \A j \in 1 .. Len(ts) - i : b[j] = ts[i + j]
    <3>1. i + 1 \in Int /\ Len(ts) \in Int /\ \A j \in i + 1 .. Len(ts) : ts[j] \in Timer
      BY <1>1, <2>1
    <3>2. /\ b \in Seq(Timer)
          /\ Len(b) = IF i + 1 <= Len(ts) THEN Len(ts) - (i + 1) + 1 ELSE 0
          /\ \A j \in 1 .. Len(ts) - (i + 1) + 1 : b[j] = ts[i + 1 + j - 1]
      BY <3>1, SubSeqProperties
    <3>3. ASSUME NEW j \in 1 .. Len(ts) - i PROVE b[j] = ts[i + j]
      <4>1. j \in 1 .. Len(ts) - (i + 1) + 1 /\ i + 1 + j - 1 = i + j
        BY <1>1, <2>1
      <4>. QED
        BY <3>2, <4>1, Zenon
    <3>. HIDE DEF b
    <3>4. i + 1 <= Len(ts) \/ i = Len(ts)
      <4>1. Len(ts) \in Nat /\ i \in 1 .. Len(ts)
        BY <1>1, <2>1, Zenon
      <4>. QED
        BY <4>1
    <3>5. Len(b) = Len(ts) - i
      <4>1. CASE i + 1 <= Len(ts)
        BY <1>1, <2>1, <3>2, <4>1
      <4>2. CASE i = Len(ts)
        BY <1>1, <2>1, <3>2, <4>2
      <4>. QED
        BY <3>4, <4>1, <4>2
    <3>. QED
      BY <3>2, <3>3, <3>5, Zenon
  <2>. HIDE DEF a, b
  <2>5. /\ d \in Seq(Timer) /\ Len(d) = Len(a) + Len(b)
        /\ \A j \in 1 .. Len(a) + Len(b) :
              d[j] = IF j <= Len(a) THEN a[j] ELSE b[j - Len(a)]
    BY <2>3, <2>4, ConcatProperties, Zenon
  <2>. HIDE DEF d
  <2>6. Len(d) = Len(ts) - 1
    BY <1>1, <2>1, <2>3, <2>4, <2>5
  <2>7. \A j \in 1 .. Len(d) : d[j] = IF j < i THEN ts[j] ELSE ts[j + 1]
    <3>. TAKE j \in 1 .. Len(d)
    <3>1. CASE j < i
      BY <1>1, <2>1, <2>3, <2>5, <2>6, <3>1
    <3>2. CASE ~(j < i)
      <4>1. j - Len(a) \in 1 .. Len(ts) - i /\ i + (j - Len(a)) = j + 1 /\ ~(j <= Len(a))
        BY <1>1, <2>1, <2>3, <2>6, <3>2
      <4>2. d[j] = b[j - Len(a)]
        BY <1>1, <2>4, <2>5, <2>6, <4>1
      <4>. QED
        BY <2>4, <3>2, <4>1, <4>2
    <3>. QED
      BY <3>1, <3>2
  <2>8. Distinct(d)
    <3>. SUFFICES ASSUME NEW j \in 1 .. Len(d), NEW k \in 1 .. Len(d), d[j].id = d[k].id
                 PROVE  j = k
      BY DEF Distinct
    <3>. DEFINE At(m) == IF m < i THEN m ELSE m + 1
    <3>1. At(j) \in 1 .. Len(ts) /\ At(k) \in 1 .. Len(ts)
      BY <1>1, <2>1, <2>6
    <3>2. d[j] = ts[At(j)] /\ d[k] = ts[At(k)]
      BY <2>7
    <3>3. At(j) = At(k)
      BY <3>1, <3>2 DEF Distinct
    <3>. QED
      BY <1>1, <2>1, <2>6, <3>3
  <2>9. ASSUME NEW t PROVE t \in Range(d) <=> t \in Range(ts) /\ t.id # id
    <3>1. t \in Range(d) <=> \E j \in 1 .. Len(d) : t = d[j]
      BY <2>5, InList
    <3>2. ASSUME NEW j \in 1 .. Len(d) PROVE d[j] \in Range(ts) /\ d[j].id # id
      <4>1. PICK m \in 1 .. Len(ts) : m # i /\ d[j] = ts[m]
        <5>1. j \in 1 .. Len(ts) /\ j + 1 \in 1 .. Len(ts)
          BY <1>1, <2>6
        <5>. QED
          BY <2>1, <2>7, <5>1
      <4>. QED
        BY <1>1, <2>1, <4>1 DEF Distinct
    <3>3. ASSUME NEW m \in 1 .. Len(ts), m # i PROVE ts[m] \in Range(d)
      <4>1. CASE m < i
        BY <1>1, <2>1, <2>5, <2>6, <2>7, <4>1, InList
      <4>2. CASE m > i
        <5>1. m - 1 \in 1 .. Len(d) /\ ~(m - 1 < i) /\ (m - 1) + 1 = m
          BY <1>1, <2>1, <2>6, <4>2
        <5>2. d[m - 1] = ts[m]
          BY <2>7, <5>1
        <5>. QED
          BY <2>5, <5>1, <5>2, InList
      <4>. QED
        BY <1>1, <2>1, <3>3, <4>1, <4>2
    <3>. QED
      BY <1>1, <2>1, <3>1, <3>2, <3>3
  <2>. QED
    BY <2>2, <2>5, <2>8, <2>9
<1>. QED
  BY <1>2, <1>3

\* The timer with the identifier, if any, is armed again where it is.
LEMMA RearmedList ==
    ASSUME NEW ts \in Seq(Timer), Distinct(ts), NEW id, NEW when \in Nat
    PROVE  /\ Rearmed(ts, id, when) \in Seq(Timer)
           /\ Distinct(Rearmed(ts, id, when))
           /\ \A t \in Range(ts) : t.id # id => t \in Range(Rearmed(ts, id, when))
           /\ \A t \in Range(Rearmed(ts, id, when)) :
                 \/ t \in Range(ts) /\ t.id # id
                 \/ t.id = id /\ t.when = when
<1>. DEFINE r == Rearmed(ts, id, when)
<1>1. /\ Len(ts) \in Nat /\ DOMAIN ts = 1 .. Len(ts)
      /\ \A j \in 1 .. Len(ts) : ts[j] \in Timer
      /\ \A t : t \in Range(ts) <=> \E j \in 1 .. Len(ts) : t = ts[j]
  BY InList
<1>2. \A j \in 1 .. Len(ts) :
        r[j] = IF ts[j].id = id THEN [ts[j] EXCEPT !.when = when] ELSE ts[j]
  BY <1>1 DEF Rearmed
<1>3. \A j \in 1 .. Len(ts) :
        /\ r[j] \in Timer /\ r[j].id = ts[j].id
        /\ IF ts[j].id = id THEN r[j].when = when ELSE r[j] = ts[j]
  BY <1>1, <1>2 DEF Timer
<1>4. r \in Seq(Timer) /\ Len(r) = Len(ts)
  <2>1. r \in [1 .. Len(ts) -> Timer]
    BY <1>1, <1>3 DEF Rearmed
  <2>. QED
    BY <1>1, <2>1
<1>5. \A t : t \in Range(r) <=> \E j \in 1 .. Len(ts) : t = r[j]
  BY <1>4, InList
<1>. HIDE DEF r
<1>6. Distinct(r)
  BY <1>3, <1>4 DEF Distinct
<1>7. \A t \in Range(ts) : t.id # id => t \in Range(r)
  BY <1>1, <1>3, <1>5
<1>8. \A t \in Range(r) : \/ t \in Range(ts) /\ t.id # id
                          \/ t.id = id /\ t.when = when
  BY <1>1, <1>3, <1>5
<1>. QED
  BY <1>4, <1>6, <1>7, <1>8 DEF r

-----------------------------------------------------------------------------
(* Multiples of Period *)

\* Products grow with their factors: the provers have no such fact of their own.
LEMMA Grows ==
    ASSUME NEW P \in Nat, NEW a \in Int, NEW b \in Int, a <= b
    PROVE  a * P <= b * P
<1>1. b - a \in Nat
  OBVIOUS
<1>2. (b - a) * P >= 0
  BY <1>1
<1>. QED
  BY <1>2

\* A handling more is a period more.
LEMMA Once ==
    ASSUME NEW P \in Nat, NEW a \in Int
    PROVE  (a + 1) * P = a * P + P /\ a * P \in Int
OBVIOUS

\* Whoever has waited h - 1 times in d has at most one time more than fit in d.
LEMMA Fits ==
    ASSUME NEW P \in Nat \ {0}, NEW h \in Int, NEW d \in Nat, (h - 1) * P <= d
    PROVE  h <= 1 + (d \div P)
<1>. DEFINE q == d \div P
<1>1. q \in Int /\ d < (q + 1) * P
  <2>1. q \in Int /\ d = P * q + (d % P) /\ d % P \in 0 .. P - 1
    OBVIOUS
  <2>. QED
    BY <2>1
<1>. HIDE DEF q
<1>2. SUFFICES ASSUME q + 1 <= h - 1 PROVE FALSE
  BY <1>1 DEF q
<1>3. (q + 1) * P <= (h - 1) * P
  BY <1>1, <1>2, Grows
<1>4. (q + 1) * P \in Int /\ (h - 1) * P \in Int
  BY <1>1
<1>. QED
  BY <1>1, <1>3, <1>4

-----------------------------------------------------------------------------
(* The steps *)

LEMMA InitInv == ASSUME TimeEventsAssumption, Init PROVE IInv
<1>1. TypeInv
  BY DEF Init, TypeInv, TimeEventsAssumption
<1>2. Numbered
  BY DEF Init, Numbered, Distinct, Range
<1>3. Old /\ Owed /\ Paced
  BY DEF Init, Old, Owed, Paced, InPass
<1>. QED
  BY <1>1, <1>2, <1>3 DEF IInv

\* Nobody creates a timer within a pass but a handler.
LEMMA CreateInv == ASSUME TimeEventsAssumption, IInv, Create PROVE IInv'
<1>1. PICK ms \in Delays :
        /\ ~InPass /\ next_id < MaxId
        /\ timers' = Created(timers, next_id, now + ms)
        /\ next_id' = next_id + 1
        /\ Outside /\ UNCHANGED now
  BY DEF Create
<1>2. /\ timers \in Seq(Timer) /\ Distinct(timers) /\ next_id \in Nat
      /\ now + ms \in Nat /\ \A t \in Range(timers) : t.id # next_id
  BY DEF IInv, TypeInv, Numbered, TimeEventsAssumption
<1>. DEFINE new == [id |-> next_id, when |-> now + ms]
<1>3. /\ timers' \in Seq(Timer) /\ Distinct(timers)'
      /\ \A t : t \in Range(timers)' <=> t \in Range(timers) \/ t = new
  <2>1. /\ Created(timers, next_id, now + ms) \in Seq(Timer)
        /\ Distinct(Created(timers, next_id, now + ms))
        /\ \A t : t \in Range(Created(timers, next_id, now + ms)) <=>
              t \in Range(timers) \/ t = new
    BY <1>2, CreatedList
  <2>. QED
    BY <1>1, <2>1
<1>4. TypeInv'
  BY <1>1, <1>3 DEF IInv, TypeInv, Outside, TimeEventsAssumption
<1>5. Numbered'
  <2>1. \A t \in Range(timers) : t \in Timer
    BY <1>2, InList
  <2>2. \A t \in Range(timers)' : t.id < next_id'
    BY <1>1, <1>3, <2>1, SMTT(30) DEF IInv, TypeInv, Numbered, Timer
  <2>. QED
    BY <1>3, <2>2 DEF Numbered
<1>6. Old' /\ Owed' /\ Paced'
  <2>1. ~InPass' /\ maxid' = maxid /\ handled' = handled
    BY <1>1 DEF InPass, Outside
  <2>2. Old'
    BY <2>1 DEF IInv, Old
  <2>3. Owed'
    BY <2>1 DEF Owed
  <2>4. Paced'
    BY <2>1 DEF Paced
  <2>. QED
    BY <2>2, <2>3, <2>4
<1>. QED
  BY <1>4, <1>5, <1>6 DEF IInv

LEMMA TickInv == ASSUME TimeEventsAssumption, IInv, Tick PROVE IInv'
<1>1. TypeInv' /\ Numbered'
  BY DEF IInv, TypeInv, Numbered, Tick, Outside
<1>2. Old' /\ Owed'
  <2>1. /\ now' = now + 1 /\ now \in Nat /\ began \in Nat
        /\ UNCHANGED <<timers, next_id, te, maxid, began, due, handled>>
    BY DEF IInv, TypeInv, Tick, Outside
  <2>2. began <= now => began <= now + 1
    BY <2>1
  <2>3. Old'
    BY <2>1, <2>2 DEF IInv, Old, InPass
  <2>4. Owed'
    BY <2>1 DEF IInv, Owed, Ahead, InPass
  <2>. QED
    BY <2>3, <2>4
<1>3. Paced'
  <2>1. \A id \in 0 .. MaxId : began + (handled[id] - 1) * Period \in Int
    <3>. TAKE id \in 0 .. MaxId
    <3>1. began \in Nat /\ handled[id] - 1 \in Int /\ Period \in Nat
      BY DEF IInv, TypeInv, TimeEventsAssumption
    <3>2. (handled[id] - 1) * Period \in Int
      BY <3>1, Once
    <3>. QED
      BY <3>1, <3>2
  <2>2. /\ now \in Nat /\ now' = now + 1
        /\ UNCHANGED <<timers, te, began, handled>>
    BY DEF IInv, TypeInv, Tick, Outside
  <2>3. \A id \in 0 .. MaxId : began + (handled[id] - 1) * Period <= now =>
           began + (handled[id] - 1) * Period <= now + 1
    BY <2>1, <2>2
  <2>. QED
    BY <2>2, <2>3 DEF IInv, Paced, InPass
<1>. QED
  BY <1>1, <1>2, <1>3 DEF IInv

\* All that is due is in the list.
LEMMA BeginInv == ASSUME TimeEventsAssumption, IInv, Begin PROVE IInv'
<1>1. /\ Len(timers) \in Nat /\ DOMAIN timers = 1 .. Len(timers)
      /\ \A j \in 1 .. Len(timers) : timers[j] \in Timer /\ timers[j].id < next_id
  BY InList DEF IInv, TypeInv, Numbered
<1>2. TypeInv'
  <2>1. due' \subseteq 0 .. MaxId
    BY <1>1 DEF Begin, IInv, TypeInv, Timer, TimeEventsAssumption
  <2>. QED
    BY <2>1 DEF Begin, IInv, TypeInv
<1>3. Numbered'
  BY DEF Begin, IInv, Numbered
<1>4. Old'
  BY DEF Begin, IInv, TypeInv, Old, InPass
<1>5. Owed'
  <2>. SUFFICES ASSUME NEW id \in due' PROVE Ahead(id)'
    BY DEF Owed
  <2>1. PICK j \in 1 .. Len(timers) : id = timers[j].id /\ now >= timers[j].when
    BY <1>1 DEF Begin, Expired
  <2>2. /\ 1 <= j /\ timers[j].id <= next_id - 1 /\ timers[j].when <= now
    BY <1>1, <2>1 DEF IInv, TypeInv, Timer
  <2>. QED
    BY <2>1, <2>2 DEF Begin, Ahead
<1>6. Paced'
  BY DEF Begin, Paced
<1>. QED
  BY <1>2, <1>3, <1>4, <1>5, <1>6 DEF IInv

\* A timer that is skipped is not due, or has been handled.
LEMMA SkipInv == ASSUME TimeEventsAssumption, IInv, Skip PROVE IInv'
<1>1. TypeInv' /\ Numbered' /\ Old'
  BY DEF Skip, IInv, TypeInv, Numbered, Old, InPass
<1>2. Owed'
  <2>. SUFFICES ASSUME NEW id \in due, ~(handled[id] > 0) PROVE Ahead(id)'
    BY DEF Skip, Owed
  <2>1. PICK j \in 1 .. Len(timers) :
          te <= j /\ timers[j].id = id /\ timers[j].when <= began /\ id <= maxid
    BY DEF Skip, IInv, Owed, Ahead
  <2>2. /\ j \in Nat /\ te \in Nat /\ timers[j].when \in Nat /\ id \in Nat
        /\ began \in Nat /\ now \in Nat /\ maxid \in Int /\ began <= now
    BY InList DEF Skip, IInv, TypeInv, Timer, Old
  <2>3. j # te
    BY <2>1, <2>2 DEF Skip, Skipped, Expired
  <2>. QED
    BY <2>1, <2>2, <2>3 DEF Skip, Ahead
<1>3. Paced'
  BY DEF Skip, IInv, Paced
<1>. QED
  BY <1>1, <1>2, <1>3 DEF IInv

\* A handler deletes and creates at most one timer, and its own is deleted or
\* armed again.
LEMMA HandleInv == ASSUME TimeEventsAssumption, IInv, Handle PROVE IInv'
<1>. DEFINE id == timers[te].id
<1>1. PICK ret \in {0, Period}, new \in Delays \cup {NULL}, gone \in Ids \cup {NULL} :
        LET kept == Deleted(timers, gone)
            with == IF new = NULL THEN kept ELSE Created(kept, next_id, now + new)
        IN  /\ InPass /\ ~Ended /\ ~Skipped(timers[te])
            /\ new # NULL => next_id < MaxId
            /\ gone = id => ret = 0
            /\ timers' = IF ret = 0 THEN Deleted(with, id) ELSE Rearmed(with, id, now + ret)
            /\ next_id' = IF new = NULL THEN next_id ELSE next_id + 1
            /\ te' = 1
            /\ handled' = [handled EXCEPT ![id] = @ + 1]
            /\ due' = due \ {gone}
            /\ UNCHANGED <<now, maxid, began>>
  BY DEF Handle
<1>2. /\ timers' \in Seq(Timer) /\ Distinct(timers)'
      /\ \A t \in Range(timers)' :
            \/ t \in Range(timers) /\ t.id # id
            \/ t.id = next_id /\ new # NULL
            \/ t.id = id /\ t.when = now + Period
      /\ \A t \in Range(timers) : t.id # id /\ t.id # gone => t \in Range(timers)'
  <2>1. PICK kept : kept = Deleted(timers, gone)
    OBVIOUS
  <2>2. PICK with : with = IF new = NULL THEN kept ELSE Created(kept, next_id, now + new)
    OBVIOUS
  <2>3. PICK ts : ts = IF ret = 0 THEN Deleted(with, id) ELSE Rearmed(with, id, now + ret)
    OBVIOUS
  <2>4. timers' = ts
    BY <1>1, <2>1, <2>2, <2>3
  <2>. HIDE DEF id
  <2>5. /\ ts \in Seq(Timer) /\ Distinct(ts)
        /\ \A t \in Range(ts) :
              \/ t \in Range(timers) /\ t.id # id
              \/ t.id = next_id /\ new # NULL
              \/ t.id = id /\ t.when = now + Period
        /\ \A t \in Range(timers) : t.id # id /\ t.id # gone => t \in Range(ts)
    <3>1. /\ timers \in Seq(Timer) /\ Distinct(timers) /\ next_id \in Nat /\ now \in Nat
          /\ \A t \in Range(timers) : t \in Timer /\ t.id # next_id
      BY InList DEF IInv, TypeInv, Numbered, Timer
    <3>2. /\ kept \in Seq(Timer) /\ Distinct(kept)
          /\ \A t : t \in Range(kept) <=> t \in Range(timers) /\ t.id # gone
      <4>1. /\ Deleted(timers, gone) \in Seq(Timer) /\ Distinct(Deleted(timers, gone))
            /\ \A t : t \in Range(Deleted(timers, gone)) <=> t \in Range(timers) /\ t.id # gone
        BY <3>1, DeletedList
      <4>. QED
        BY <2>1, <4>1
    <3>3. /\ with \in Seq(Timer) /\ Distinct(with)
          /\ \A t \in Range(with) : t \in Range(timers) \/ (t.id = next_id /\ new # NULL)
          /\ \A t \in Range(timers) : t.id # gone => t \in Range(with)
      <4>1. CASE new = NULL
        BY <2>2, <3>2, <4>1
      <4>2. CASE new # NULL
        <5>1. now + new \in Nat
          BY <3>1, <4>2 DEF TimeEventsAssumption
        <5>2. \A t \in Range(kept) : t.id # next_id
          BY <3>1, <3>2
        <5>3. with = Created(kept, next_id, now + new)
          BY <2>2, <4>2
        <5>4. /\ with \in Seq(Timer) /\ Distinct(with)
              /\ \A t : t \in Range(with) <=>
                    t \in Range(kept) \/ t = [id |-> next_id, when |-> now + new]
          BY <3>1, <3>2, <5>1, <5>2, <5>3, CreatedList, Zenon
        <5>5. \A t : t = [id |-> next_id, when |-> now + new] => t.id = next_id
          OBVIOUS
        <5>. QED
          BY <3>2, <4>2, <5>4, <5>5, Zenon
      <4>. QED
        BY <4>1, <4>2
    <3>4. CASE ret = 0
      <4>1. ts = Deleted(with, id)
        BY <2>3, <3>4
      <4>2. /\ Deleted(with, id) \in Seq(Timer) /\ Distinct(Deleted(with, id))
            /\ \A t : t \in Range(Deleted(with, id)) <=> t \in Range(with) /\ t.id # id
        BY <3>3, DeletedList
      <4>. QED
        BY <3>3, <4>1, <4>2
    <3>5. CASE ret # 0
      <4>1. ts = Rearmed(with, id, now + Period) /\ now + Period \in Nat
        BY <2>3, <3>1, <3>5 DEF TimeEventsAssumption
      <4>. DEFINE r == Rearmed(with, id, now + Period)
      <4>2. /\ r \in Seq(Timer) /\ Distinct(r)
            /\ \A t \in Range(with) : t.id # id => t \in Range(r)
            /\ \A t \in Range(r) : \/ t \in Range(with) /\ t.id # id
                                   \/ t.id = id /\ t.when = now + Period
        BY <3>3, <4>1, RearmedList
      <4>. QED
        BY <3>3, <4>1, <4>2
    <3>. QED
      BY <3>4, <3>5
  <2>. QED
    BY <2>4, <2>5
<1>3. /\ te \in 1 .. Len(timers) /\ timers[te] \in Timer
      /\ timers[te] \in Range(timers) /\ timers[te].when <= now /\ id <= maxid
      /\ id \in 0 .. MaxId /\ id < next_id /\ maxid < next_id /\ began <= now
      /\ next_id \in 0 .. MaxId /\ next_id' \in Nat /\ next_id <= next_id'
      /\ next_id' <= MaxId /\ (new # NULL => next_id < next_id')
      /\ maxid \in Int /\ now \in Nat /\ began \in Nat /\ handled \in [0 .. MaxId -> Nat]
  <2>1. /\ timers \in Seq(Timer) /\ te \in Nat /\ maxid \in Int /\ now \in Nat
        /\ next_id \in 0 .. MaxId /\ began \in Nat /\ MaxId \in Nat
        /\ handled \in [0 .. MaxId -> Nat]
    BY DEF IInv, TypeInv, TimeEventsAssumption
  <2>2. te \in 1 .. Len(timers)
    BY <1>1, <2>1, InList DEF InPass, Ended
  <2>3. timers[te] \in Timer /\ timers[te] \in Range(timers)
    BY <2>1, <2>2, InList
  <2>4. timers[te].when <= now /\ id <= maxid
    BY <1>1, <2>1, <2>3 DEF Skipped, Expired, Timer
  <2>5. id < next_id /\ maxid < next_id /\ began <= now
    BY <1>1, <2>3 DEF IInv, Numbered, Old
  <2>6. id \in 0 .. MaxId
    BY <2>1, <2>3, <2>5 DEF Timer
  <2>7. /\ next_id' \in Nat /\ next_id <= next_id' /\ next_id' <= MaxId
        /\ (new # NULL => next_id < next_id')
    BY <1>1, <2>1
  <2>. QED
    BY <2>1, <2>2, <2>3, <2>4, <2>5, <2>6, <2>7
<1>4. /\ handled' \in [0 .. MaxId -> Nat] /\ handled'[id] = handled[id] + 1
      /\ \A d \in 0 .. MaxId : d # id => handled'[d] = handled[d]
  BY <1>1, <1>3
<1>5. UNCHANGED <<now, maxid, began>> /\ te' = 1 /\ due' \subseteq due /\ gone \notin due'
  BY <1>1
<1>. HIDE DEF id
<1>6. TypeInv'
  BY <1>2, <1>3, <1>4, <1>5 DEF IInv, TypeInv
<1>7. Numbered'
  <2>1. \A t \in Range(timers) : t \in Timer /\ t.id < next_id
    BY InList DEF IInv, TypeInv, Numbered
  <2>2. \A t \in Range(timers)' : t.id < next_id'
    BY <1>2, <1>3, <2>1, SMTT(30) DEF Timer
  <2>. QED
    BY <1>2, <2>2 DEF Numbered
<1>8. Old'
  <2>1. \A d \in 0 .. MaxId : handled'[d] > 0 => d <= maxid
    BY <1>3, <1>4 DEF IInv, Old
  <2>2. maxid' < next_id' /\ began' <= now'
    BY <1>3, <1>5
  <2>. QED
    BY <1>5, <2>1, <2>2 DEF Old
<1>9. Owed'
  <2>. SUFFICES ASSUME NEW d \in due', ~(handled'[d] > 0) PROVE Ahead(d)'
    BY DEF Owed
  <2>1. d \in due /\ d \in 0 .. MaxId /\ d # gone
    BY <1>5 DEF IInv, TypeInv
  <2>2. d # id /\ ~(handled[d] > 0)
    BY <1>3, <1>4, <2>1
  <2>3. PICK j \in 1 .. Len(timers) :
          timers[j].id = d /\ timers[j].when <= began /\ d <= maxid
    BY <1>1, <2>1, <2>2 DEF IInv, Owed, Ahead
  <2>4. timers[j] \in Range(timers)'
    BY <1>2, <2>1, <2>2, <2>3, InList DEF IInv, TypeInv
  <2>5. \A t : t \in Range(timers)' => \E k \in 1 .. Len(timers') : t = timers'[k]
    BY <1>2, InList
  <2>6. PICK k \in 1 .. Len(timers') : timers[j] = timers'[k]
    BY <2>4, <2>5
  <2>7. 1 <= k
    OBVIOUS
  <2>. QED
    BY <1>5, <2>3, <2>6, <2>7 DEF Ahead
<1>10. Paced'
  <2>. SUFFICES ASSUME NEW d \in 0 .. MaxId, handled'[d] > 0
               PROVE  /\ began + (handled'[d] - 1) * Period <= now
                      /\ \A t \in Range(timers)' :
                            t.id = d => began + handled'[d] * Period <= t.when
    BY <1>5 DEF Paced
  <2>1. \A t \in Range(timers) : t \in Timer
    BY InList DEF IInv, TypeInv
  <2>2. CASE d # id
    <3>1. /\ handled'[d] = handled[d] /\ d <= maxid
          /\ began + (handled[d] - 1) * Period <= now
          /\ \A t \in Range(timers) : t.id = d => began + handled[d] * Period <= t.when
      BY <1>1, <1>4, <2>2 DEF IInv, Old, Paced
    <3>2. d # next_id
      BY <1>3, <3>1
    <3>. QED
      BY <1>2, <2>2, <3>1, <3>2
  <2>3. CASE d = id
    <3>. PICK h \in Nat : h = handled[id]
      BY <1>3
    <3>1. handled'[d] = h + 1 /\ (h + 1) - 1 = h /\ Period \in Nat
      BY <1>3, <1>4, <2>3 DEF TimeEventsAssumption
    <3>2. began + h * Period <= now
      <4>1. CASE h = 0
        <5>1. h * Period = 0
          BY <3>1, <4>1
        <5>. QED
          BY <1>3, <5>1
      <4>2. CASE h > 0
        <5>1. began + h * Period <= timers[te].when
          BY <1>1, <1>3, <4>2 DEF IInv, Paced, id
        <5>2. timers[te].when \in Nat /\ h * Period \in Int
          BY <1>3, <3>1, Once, SMTT(30) DEF Timer
        <5>. QED
          BY <1>3, <5>1, <5>2
      <4>. QED
        BY <3>1, <4>1, <4>2
    <3>3. began + (h + 1) * Period <= now + Period
      <4>1. PICK x \in Int : x = h * Period /\ (h + 1) * Period = x + Period
        BY <3>1, Once
      <4>2. began \in Nat /\ now \in Nat /\ Period \in Nat /\ began + x <= now
        BY <3>1, <3>2, <4>1 DEF IInv, TypeInv
      <4>3. began + (x + Period) <= now + Period
        BY <4>2
      <4>. QED
        BY <4>1, <4>3
    <3>4. \A t \in Range(timers)' : t.id = d => t.when = now + Period
      BY <1>2, <1>3, <2>3
    <3>5. handled'[d] - 1 = h /\ began + (handled'[d] - 1) * Period <= now
      BY <3>1, <3>2
    <3>6. began + handled'[d] * Period <= now + Period
      BY <3>1, <3>3
    <3>. QED
      BY <3>4, <3>5, <3>6
  <2>. QED
    BY <2>2, <2>3
<1>. QED
  BY <1>6, <1>7, <1>8, <1>9, <1>10 DEF IInv

\* A pass that ends leaves nothing behind.
LEMMA EndInv == ASSUME TimeEventsAssumption, IInv, End PROVE IInv'
<1>1. te' = 0 /\ UNCHANGED <<timers, next_id, now, maxid, began, due, handled>>
  BY DEF End
<1>2. TypeInv' /\ Numbered'
  BY <1>1 DEF IInv, TypeInv, Numbered
<1>3. ~InPass'
  BY <1>1 DEF InPass
<1>4. Old'
  BY <1>1, <1>3 DEF IInv, Old
<1>5. Owed' /\ Paced'
  BY <1>3 DEF Owed, Paced
<1>. QED
  BY <1>2, <1>4, <1>5 DEF IInv

LEMMA NextInv == ASSUME TimeEventsAssumption, IInv, [Next]_vars PROVE IInv'
<1>1. CASE UNCHANGED vars
  BY <1>1 DEF vars, IInv, TypeInv, Numbered, Old, Owed, Ahead, Paced, InPass
<1>. QED
  BY <1>1, CreateInv, TickInv, BeginInv, SkipInv, HandleInv, EndInv DEF Next

LEMMA IInvFair == ASSUME TimeEventsAssumption, IInv PROVE PassIsFair
<1>1. ASSUME InPass, Ended, NEW id \in due PROVE handled[id] > 0
  <2>1. te > Len(timers) /\ te \in Nat /\ Len(timers) \in Nat
    BY <1>1, InList DEF IInv, TypeInv, Ended
  <2>2. ~Ahead(id)
    BY <2>1 DEF Ahead
  <2>. QED
    BY <1>1, <2>2 DEF IInv, Owed
<1>2. ASSUME NEW id \in 0 .. MaxId, InPass PROVE handled[id] <= 1 + (now - began) \div Period
  <2>1. /\ handled[id] \in Nat /\ now - began \in Nat /\ Period \in Nat \ {0}
        /\ handled[id] > 0 => began + (handled[id] - 1) * Period <= now
    BY <1>2 DEF IInv, TypeInv, Old, Paced, TimeEventsAssumption
  <2>2. CASE handled[id] > 0
    <3>1. (handled[id] - 1) * Period \in Int
      BY <2>1, Once
    <3>2. (handled[id] - 1) * Period <= now - began
      BY <1>2, <2>1, <2>2, <3>1 DEF IInv, TypeInv
    <3>. QED
      BY <2>1, <3>2, Fits
  <2>3. CASE handled[id] = 0
    <3>1. (0 - 1) * Period <= now - began /\ 0 \in Int
      BY <2>1
    <3>2. 0 <= 1 + (now - began) \div Period
      BY <2>1, <3>1, Fits
    <3>. QED
      BY <2>3, <3>2
  <2>. QED
    BY <2>1, <2>2, <2>3
<1>3. \A id \in 0 .. MaxId : handled[id] > 0 => id <= maxid
  BY DEF IInv, Old
<1>. QED
  BY <1>1, <1>2, <1>3 DEF PassIsFair

-----------------------------------------------------------------------------
\* A pass handles every timer that was due when it began and is not deleted
\* (ae.c:243-281), none that was created in it, and none more often than the
\* time that has passed in it allows.
THEOREM Fair == ASSUME TimeEventsAssumption PROVE Spec => []PassIsFair
<1>1. Init => IInv
  BY InitInv
<1>2. IInv /\ [Next]_vars => IInv'
  BY NextInv
<1>3. IInv => PassIsFair
  BY IInvFair
<1>. QED
  BY <1>1, <1>2, <1>3, PTL DEF Spec
=============================================================================
