--------------------------- MODULE LogRotateProofs ---------------------------
(***************************************************************************)
(* Proofs about LogRotate, for any number of processes, slots and lines:   *)
(* the lines of each process stay in their order unless two rotate at the  *)
(* same time or one is killed in a shift, and a single process keeps its   *)
(* latest ones.                                                            *)
(***************************************************************************)
EXTENDS LogRotate, WellFoundedInduction, SequenceTheorems, TLAPS

Steps == {"idle", "scan", "rename", "shift", "open", "write"}

TypeInv ==
    /\ pc \in [Writers -> Steps]
    /\ i \in [Writers -> 0 .. log_number]
    /\ fd \in [Writers -> Inodes \cup {None}]
    /\ file \in [Names -> Inodes \cup {None}]
    /\ lines \in [Inodes -> Seq(Writers \X Nat)]
    /\ written \in [Writers -> Nat]
    /\ faults \in Nat /\ halfway \in BOOLEAN /\ overlap \in BOOLEAN

\* A process is where its index and its descriptor allow it to be.
Located ==
    \A p \in Writers :
        /\ pc[p] = "rename" => i[p] \in Slots
        /\ pc[p] = "shift" => i[p] > 0
        /\ pc[p] \in {"scan", "rename", "shift", "write"} => fd[p] # None

\* A file has one name.
Apart == \A s, t \in Names : file[s] = file[t] /\ file[s] # None => s = t

\* Line m of q is in the file with name s.
Has(s, q, m) ==
    file[s] # None /\ \E j \in 1 .. Len(lines[file[s]]) : lines[file[s]][j] = <<q, m>>

\* What is in a file has been written, in its order.
Sorted ==
    \A n \in Inodes : \A j \in 1 .. Len(lines[n]) :
        /\ lines[n][j][2] <= written[lines[n][j][1]]
        /\ \A k \in 1 .. Len(lines[n]) :
              j < k /\ lines[n][j][1] = lines[n][k][1] => lines[n][j][2] < lines[n][k][2]

\* Rotations exclude each other as long as nothing is said to overlap.
Alone == ~overlap => \A p, q \in Rotating : p = q

\* The slots in use are the first ones but for a shift, which has one vacant.
Packed == \A s, t \in Slots : s < t /\ file[t] # None => file[s] # None

Shape ==
    /\ (\A p \in Writers : pc[p] # "shift") => Packed
    /\ \A p \in Writers :
          /\ pc[p] \in {"scan", "rename"} => \A s \in Slots : s < i[p] => file[s] # None
          /\ pc[p] = "rename" => file[i[p]] = None
          /\ pc[p] = "shift" =>
                /\ \A s \in Slots : s # i[p] - 1 => file[s] # None
                /\ IF i[p] = 1 THEN file[0] # None ELSE file[i[p] - 1] = None

\* The lines of a process are in order from file to file, and none of them is
\* in a later file than the one it has open.
Order ==
    /\ \A s, t \in Names, q \in Writers, m, n \in Nat :
          s < t /\ Has(s, q, m) /\ Has(t, q, n) => m < n
    /\ \A s, t \in Names, q \in Writers, m \in Nat :
          fd[q] # None /\ file[t] = fd[q] /\ Has(s, q, m) => s <= t

\* As long as no shift has been cut short, and no two have been rotating.
Kept == ~halfway /\ ~overlap => Shape /\ Order

IInv == TypeInv /\ Located /\ Apart /\ Sorted /\ Alone /\ Kept

-----------------------------------------------------------------------------
\* A set of naturals that is not empty has the least element Min chooses.
LEMMA MinIsIn ==
    ASSUME NEW S, S \subseteq Nat, S # {}
    PROVE  Min(S) \in S
<1>. DEFINE R == OpToRel(<, Nat)
<1>1. PICK x \in S : \A y \in S : <<y, x>> \notin R
  <2>. HIDE DEF R
  <2>1. IsWellFoundedOn(R, Nat)
    BY NatLessThanWellFounded DEF R
  <2>. QED
    BY <2>1, WFMin
<1>2. ASSUME NEW y \in S PROVE x <= y
  <2>1. <<y, x>> \in Nat \X Nat /\ ~ (y < x)
    BY <1>1 DEF OpToRel
  <2>. QED
    BY <2>1
<1>. QED
  BY <1>2 DEF Min

\* A line is read where it is.
LEMMA HasLine ==
    ASSUME TypeInv, NEW a \in Places
    PROVE  /\ a[1] \in Names /\ a[2] \in 1 .. Len(Content(a[1]))
           /\ Content(a[1]) = lines[file[a[1]]] /\ file[a[1]] \in Inodes
           /\ LineAt(a) \in Writers \X Nat
           /\ Has(a[1], LineAt(a)[1], LineAt(a)[2])
<1>1. a[1] \in Names /\ a[2] \in 1 .. Len(Content(a[1]))
  BY DEF Places
<1>2. file[a[1]] # None
  BY <1>1 DEF Content
<1>3. file[a[1]] \in Inodes /\ Content(a[1]) = lines[file[a[1]]]
  BY <1>1, <1>2 DEF Content, TypeInv
<1>4. lines[file[a[1]]] \in Seq(Writers \X Nat)
  BY <1>3 DEF TypeInv
<1>5. LineAt(a) = lines[file[a[1]]][a[2]] /\ a[2] \in 1 .. Len(lines[file[a[1]]])
  BY <1>1, <1>3 DEF LineAt
<1>6. LineAt(a) \in Writers \X Nat
  BY <1>4, <1>5, ElementOfSeq
<1>7. LineAt(a) = <<LineAt(a)[1], LineAt(a)[2]>>
  BY <1>6
<1>. QED
  BY <1>1, <1>2, <1>3, <1>5, <1>6, <1>7 DEF Has

LEMMA IInvInOrder ==
    ASSUME LogAssumption, IInv, ~halfway, ~overlap, NEW p \in Writers
    PROVE  InOrder(p)
<1>. SUFFICES ASSUME NEW a \in Places, NEW b \in Places, Before(a, b),
                     LineAt(a)[1] = p, LineAt(b)[1] = p
              PROVE  LineAt(a)[2] < LineAt(b)[2]
  BY DEF InOrder
<1>1. TypeInv /\ Sorted /\ Order
  BY DEF IInv, Kept
<1>2. /\ a[1] \in Names /\ a[2] \in 1 .. Len(Content(a[1]))
      /\ Content(a[1]) = lines[file[a[1]]] /\ file[a[1]] \in Inodes
      /\ LineAt(a) \in Writers \X Nat /\ Has(a[1], p, LineAt(a)[2])
  BY <1>1, HasLine
<1>3. /\ b[1] \in Names /\ b[2] \in 1 .. Len(Content(b[1]))
      /\ LineAt(b) \in Writers \X Nat /\ Has(b[1], p, LineAt(b)[2])
  BY <1>1, HasLine
<1>4. LineAt(a)[2] \in Nat /\ LineAt(b)[2] \in Nat
  BY <1>2, <1>3
<1>5. CASE a[1] < b[1]
  BY <1>1, <1>2, <1>3, <1>4, <1>5 DEF Order
<1>6. CASE a[1] = b[1] /\ a[2] < b[2]
  <2>1. /\ LineAt(a) = lines[file[a[1]]][a[2]]
        /\ LineAt(b) = lines[file[a[1]]][b[2]]
        /\ a[2] \in 1 .. Len(lines[file[a[1]]]) /\ b[2] \in 1 .. Len(lines[file[a[1]]])
    BY <1>2, <1>3, <1>6 DEF LineAt
  <2>. QED
    BY <1>1, <1>2, <1>6, <2>1 DEF Sorted
<1>. QED
  BY <1>5, <1>6 DEF Before

-----------------------------------------------------------------------------
LEMMA InitInv == ASSUME LogAssumption, Init PROVE IInv
<1>1. TypeInv
  <2>1. lines \in [Inodes -> Seq(Writers \X Nat)]
    BY EmptySeq DEF Init
  <2>2. i \in [Writers -> 0 .. log_number]
    BY DEF Init, LogAssumption
  <2>. QED
    BY <2>1, <2>2 DEF Init, TypeInv, Steps
<1>2. Located /\ Apart
  BY DEF Init, Located, Apart, Names
<1>3. \A n \in Inodes : lines[n] = <<>>
  BY DEF Init
<1>4. Sorted
  <2>1. 1 .. Len(<<>>) = {}
    OBVIOUS
  <2>. QED
    BY <1>3, <2>1 DEF Sorted
<1>5. Alone
  BY DEF Init, Alone, Rotating
<1>6. Shape
  BY DEF Init, Shape, Packed, Slots, Names, LogAssumption
<1>7. Order
  BY DEF Init, Order, Has, Names
<1>. QED
  BY <1>1, <1>2, <1>4, <1>5, <1>6, <1>7 DEF IInv, Kept

\* What a step that only moves one process leaves alone.
LEMMA FilesAsTheyWere ==
    ASSUME IInv, UNCHANGED <<fd, file, lines, written>>
    PROVE  Apart' /\ Sorted' /\ (Order => Order')
BY DEF IInv, Apart, Sorted, Order, Has

\* Nobody rotates that did not, and who does is where it was.
LEMMA ShapeStays ==
    ASSUME LogAssumption, TypeInv, Shape, \A s \in Slots : file'[s] = file[s],
           NEW p \in Writers, NEW st, st \notin {"scan", "rename", "shift"}, NEW n,
           pc' = [pc EXCEPT ![p] = st], i' = [i EXCEPT ![p] = n],
           Located, pc[p] = "shift" => Packed
    PROVE  Shape'
<1>1. /\ pc'[p] = st
      /\ \A q \in Writers : q # p => pc'[q] = pc[q] /\ i'[q] = i[q]
  BY DEF TypeInv
<1>2. (\A q \in Writers : pc'[q] # "shift") => Packed
  BY <1>1 DEF Shape
<1>3. ((\A q \in Writers : pc[q] # "shift") => Packed)'
  BY <1>2 DEF Packed
<1>4. ASSUME NEW q \in Writers, pc'[q] \in {"scan", "rename", "shift"}
      PROVE  /\ pc'[q] = pc[q] /\ i'[q] = i[q] /\ i[q] \in 0 .. log_number
             /\ (pc[q] = "rename" => i[q] \in Slots)
             /\ (pc[q] = "shift" => i[q] > 0)
  BY <1>1, <1>4 DEF TypeInv, Located
<1>5. 0 \in Slots /\ \A m \in 0 .. log_number : m > 0 => m - 1 \in Slots
  BY DEF Slots, LogAssumption
<1>. QED
  BY <1>3, <1>4, <1>5 DEF Shape

\* Who rotates is the same, and nobody else is said to.
LEMMA AloneStays ==
    ASSUME TypeInv, Alone, NEW p \in Writers, NEW st,
           st \in {"scan", "rename", "shift"} => p \in Rotating,
           pc' = [pc EXCEPT ![p] = st], ~overlap' => ~overlap
    PROVE  Alone'
<1>1. /\ pc'[p] = st
      /\ \A q \in Writers : q # p => pc'[q] = pc[q]
  BY DEF TypeInv
<1>2. Rotating' \subseteq Rotating
  BY <1>1 DEF Rotating
<1>. QED
  BY <1>2 DEF Alone

LEMMA CallInv == ASSUME LogAssumption, IInv, NEW p \in Writers, Call(p) PROVE IInv'
<1>1. PICK st \in {"open", "scan", "write"} :
        /\ pc' = [pc EXCEPT ![p] = st] /\ i' = [i EXCEPT ![p] = 0]
        /\ st \in {"scan", "write"} => fd[p] # None
  BY DEF Call, Goto
<1>2. /\ pc[p] = "idle" /\ pc'[p] = st /\ i'[p] = 0
      /\ \A q \in Writers : q # p => pc'[q] = pc[q] /\ i'[q] = i[q]
      /\ overlap' = (overlap \/ (st = "scan" /\ Rotating # {}))
      /\ UNCHANGED <<fd, file, lines, written, faults, halfway>>
  BY <1>1 DEF Call, OnlyGoes, IInv, TypeInv
<1>3. TypeInv'
  <2>1. pc' \in [Writers -> Steps]
    BY <1>1 DEF IInv, TypeInv, Steps
  <2>2. i' \in [Writers -> 0 .. log_number]
    BY <1>1 DEF IInv, TypeInv, LogAssumption
  <2>3. overlap' \in BOOLEAN
    BY <1>2 DEF IInv, TypeInv
  <2>. QED
    BY <1>2, <2>1, <2>2, <2>3 DEF IInv, TypeInv
<1>4. Located'
  BY <1>1, <1>2 DEF IInv, Located
<1>5. Apart' /\ Sorted' /\ (Order => Order')
  BY <1>2, FilesAsTheyWere
<1>6. Alone'
  <2>1. CASE st # "scan"
    BY <1>1, <1>2, <2>1, AloneStays DEF IInv
  <2>2. CASE st = "scan" /\ ~overlap'
    <3>1. Rotating = {}
      BY <1>2, <2>2
    <3>2. Rotating' \subseteq {p}
      BY <1>2, <3>1 DEF Rotating
    <3>. QED
      BY <3>2 DEF Alone
  <2>. QED
    BY <2>1, <2>2 DEF Alone
<1>7. Kept'
  <2>. SUFFICES ASSUME ~halfway', ~overlap' PROVE Shape' /\ Order'
    BY DEF Kept
  <2>1. Shape /\ Order
    BY <1>2 DEF IInv, Kept
  <2>2. CASE st # "scan"
    <3>1. /\ TypeInv /\ Located /\ \A s \in Slots : file'[s] = file[s]
          /\ pc[p] # "shift" /\ st \notin {"scan", "rename", "shift"}
      BY <1>2, <2>2 DEF IInv
    <3>2. Shape'
      BY <1>1, <2>1, <3>1, ShapeStays
    <3>. QED
      BY <1>5, <2>1, <3>2
  <2>3. CASE st = "scan"
    <3>1. \A q \in Writers : q # p => pc[q] \notin {"scan", "rename", "shift"}
      BY <1>2, <2>3 DEF Rotating
    <3>2. Packed'
      BY <1>2, <2>1, <3>1 DEF Shape, Packed
    <3>3. \A s \in Slots : ~(s < 0)
      BY DEF Slots, LogAssumption
    <3>. QED
      BY <1>2, <2>3, <3>1, <3>2, <3>3, <1>5, <2>1 DEF Shape
  <2>. QED
    BY <2>2, <2>3
<1>. QED
  BY <1>3, <1>4, <1>5, <1>6, <1>7 DEF IInv

LEMMA ScanInv == ASSUME LogAssumption, IInv, NEW p \in Writers, Scan(p) PROVE IInv'
<1>0. i[p] \in 0 .. log_number /\ log_number \in Nat \ {0}
  BY DEF IInv, TypeInv, LogAssumption
<1>1. PICK st \in {"shift", "rename", "scan"}, n \in 0 .. log_number :
        /\ pc' = [pc EXCEPT ![p] = st] /\ i' = [i EXCEPT ![p] = n]
        /\ st = "shift" => i[p] = log_number /\ n = 1
        /\ st = "rename" => i[p] \in Slots /\ n = i[p] /\ file[n] = None
        /\ st = "scan" => i[p] \in Slots /\ n = i[p] + 1 /\ file[i[p]] # None
  <2>1. CASE i[p] = log_number
    <3>1. Goto(p, "shift", 1)
      BY <1>0, <2>1 DEF Scan, Slots
    <3>2. 1 \in 0 .. log_number
      BY <1>0
    <3>. QED
      BY <2>1, <3>1, <3>2 DEF Goto
  <2>2. CASE i[p] # log_number /\ file[i[p]] = None
    <3>1. i[p] \in Slots
      BY <1>0, <2>2 DEF Slots
    <3>2. Goto(p, "rename", i[p])
      BY <2>2, <3>1 DEF Scan, Slot
    <3>. QED
      BY <1>0, <2>2, <3>1, <3>2 DEF Goto
  <2>3. CASE i[p] # log_number /\ file[i[p]] # None
    <3>1. i[p] \in Slots /\ i[p] + 1 \in 0 .. log_number
      BY <1>0, <2>3 DEF Slots
    <3>2. Goto(p, "scan", i[p] + 1)
      BY <2>3, <3>1 DEF Scan, Slot
    <3>. QED
      BY <1>0, <2>3, <3>1, <3>2 DEF Goto
  <2>. QED
    BY <2>1, <2>2, <2>3
<1>2. /\ pc[p] = "scan" /\ pc'[p] = st /\ i'[p] = n
      /\ \A q \in Writers : q # p => pc'[q] = pc[q] /\ i'[q] = i[q]
      /\ UNCHANGED <<fd, file, lines, written, faults, halfway, overlap>>
  BY <1>1 DEF Scan, OnlyGoes, IInv, TypeInv
<1>3. TypeInv'
  <2>1. pc' \in [Writers -> Steps]
    BY <1>1 DEF IInv, TypeInv, Steps
  <2>2. i' \in [Writers -> 0 .. log_number]
    BY <1>1 DEF IInv, TypeInv
  <2>. QED
    BY <1>2, <2>1, <2>2 DEF IInv, TypeInv
<1>4. Located'
  BY <1>1, <1>2 DEF IInv, Located
<1>5. Apart' /\ Sorted' /\ (Order => Order')
  BY <1>2, FilesAsTheyWere
<1>6. Alone'
  BY <1>1, <1>2, AloneStays DEF IInv, Rotating
<1>7. Kept'
  <2>. SUFFICES ASSUME ~halfway', ~overlap' PROVE Shape' /\ Order'
    BY DEF Kept
  <2>1. Shape /\ Order
    BY <1>2 DEF IInv, Kept
  <2>2. \A q \in Writers : q # p => pc'[q] \notin {"scan", "rename", "shift"}
    BY <1>2 DEF IInv, Alone, Rotating
  <2>3. \A s \in Slots : s < i[p] => file[s] # None
    BY <1>2, <2>1 DEF Shape
  <2>4. Packed
    BY <1>2, <2>1, <2>2 DEF Shape
  <2>5. Packed'
    BY <1>2, <2>4 DEF Packed
  <2>6. CASE st = "shift"
    <3>1. \A s \in Slots : file[s] # None
      BY <1>0, <1>1, <2>3, <2>6 DEF Slots
    <3>2. 0 \in Slots
      BY <1>0 DEF Slots
    <3>. QED
      BY <1>1, <1>2, <1>5, <2>1, <2>2, <2>5, <2>6, <3>1, <3>2 DEF Shape
  <2>7. CASE st = "rename"
    BY <1>1, <1>2, <1>5, <2>1, <2>2, <2>3, <2>5, <2>7 DEF Shape
  <2>8. CASE st = "scan"
    <3>1. \A s \in Slots : s < n => s < i[p] \/ s = i[p]
      BY <1>0, <1>1, <2>8 DEF Slots
    <3>. QED
      BY <1>1, <1>2, <1>5, <2>1, <2>2, <2>3, <2>5, <2>8, <3>1 DEF Shape
  <2>. QED
    BY <2>6, <2>7, <2>8
<1>. QED
  BY <1>3, <1>4, <1>5, <1>6, <1>7 DEF IInv

\* rename(2) of a file that there is, to a place that is next to it or vacant.
LEMMA RenamedFiles ==
    ASSUME LogAssumption, TypeInv, Apart, NEW from \in Names, NEW to \in Names, from # to,
           file[from] # None, file' = Renamed(from, to)
    PROVE  /\ file' \in [Names -> Inodes \cup {None}] /\ Apart'
           /\ file'[to] = file[from] /\ file'[from] = None
           /\ \A s \in Names : s # to /\ s # from => file'[s] = file[s]
<1>1. file' = [file EXCEPT ![to] = file[from], ![from] = None]
  BY DEF Renamed
<1>2. /\ file' \in [Names -> Inodes \cup {None}]
      /\ file'[to] = file[from] /\ file'[from] = None
      /\ \A s \in Names : s # to /\ s # from => file'[s] = file[s]
  BY <1>1 DEF TypeInv
<1>. QED
  BY <1>2 DEF Apart

\* It keeps files in order if none that is left is between the two places.
LEMMA RenamedOrder ==
    ASSUME LogAssumption, TypeInv, Apart, Order,
           NEW from \in Names, NEW to \in Names, from # to,
           file' = Renamed(from, to), UNCHANGED lines,
           \A q \in Writers : fd'[q] \in {fd[q], None},
           \A s \in Names : s # to /\ s # from /\ file[s] # None =>
              (s < to => s < from) /\ (to < s => from < s)
    PROVE  Order'
<1>1. CASE file[from] = None
  <2>1. file' = file
    BY <1>1 DEF Renamed
  <2>2. \A q \in Writers : fd'[q] # None => fd'[q] = fd[q]
    OBVIOUS
  <2>3. \A x \in Names, q \in Writers, m \in Nat : Has(x, q, m)' = Has(x, q, m)
    BY Zenon, <2>1 DEF Has
  <2>4. \A x, y \in Names, q \in Writers, m, n \in Nat :
           x < y /\ Has(x, q, m)' /\ Has(y, q, n)' => m < n
    BY <2>3 DEF Order
  <2>5. \A x, y \in Names, q \in Writers, m \in Nat :
           fd'[q] # None /\ file'[y] = fd'[q] /\ Has(x, q, m)' => x <= y
    BY <2>1, <2>2, <2>3 DEF Order
  <2>. QED
    BY Zenon, <2>4, <2>5 DEF Order
<1>2. CASE file[from] # None
  <2>. DEFINE Was(s) == IF s = to THEN from ELSE s
  <2>1. /\ file'[from] = None
        /\ \A s \in Names : file'[s] # None => file'[s] = file[Was(s)] /\ Was(s) \in Names
    BY <1>2, RenamedFiles
  <2>2. \A s, t \in Names : file'[s] # None /\ file'[t] # None /\ s < t => Was(s) < Was(t)
    <3>. SUFFICES ASSUME NEW s \in Names, NEW t \in Names,
                         file'[s] # None, file'[t] # None, s < t
                  PROVE  Was(s) < Was(t)
      OBVIOUS
    <3>1. s # from /\ t # from
      BY <2>1
    <3>2. s \in Nat /\ t \in Nat
      BY DEF Names, LogAssumption
    <3>3. CASE s # to /\ t # to
      BY <3>3
    <3>4. CASE s = to
      <4>1. t # to /\ file[t] # None
        BY <3>2, <3>4, <2>1
      <4>. QED
        BY <3>1, <3>4, <4>1
    <3>5. CASE t = to
      <4>1. s # to /\ file[s] # None
        BY <3>2, <3>5, <2>1
      <4>. QED
        BY <3>1, <3>5, <4>1
    <3>. QED
      BY <3>3, <3>4, <3>5
  <2>3. ASSUME NEW s \in Names, NEW q \in Writers, NEW m \in Nat, Has(s, q, m)'
        PROVE  Has(Was(s), q, m) /\ file'[s] # None
    BY <2>1, <2>3 DEF Has
  <2>. HIDE DEF Was
  <2>4. ASSUME NEW s \in Names, NEW t \in Names, NEW q \in Writers, NEW m \in Nat, NEW n \in Nat,
               s < t, Has(s, q, m)', Has(t, q, n)'
        PROVE  m < n
    <3>1. /\ Has(Was(s), q, m) /\ file'[s] # None
          /\ Has(Was(t), q, n) /\ file'[t] # None
      BY <2>3, <2>4
    <3>2. Was(s) < Was(t) /\ Was(s) \in Names /\ Was(t) \in Names
      BY <2>1, <2>2, <2>4, <3>1
    <3>. QED
      BY <3>1, <3>2 DEF Order
  <2>5. ASSUME NEW s \in Names, NEW t \in Names, NEW q \in Writers, NEW m \in Nat,
               fd'[q] # None, file'[t] = fd'[q], Has(s, q, m)'
        PROVE  s <= t
    <3>1. Has(Was(s), q, m) /\ file'[s] # None /\ file'[t] # None
      BY <2>3, <2>5
    <3>2. file'[t] = file[Was(t)] /\ Was(s) \in Names /\ Was(t) \in Names
      BY <2>1, <3>1
    <3>3. fd'[q] = fd[q]
      BY <2>5
    <3>4. Was(s) <= Was(t)
      BY <2>5, <3>1, <3>2, <3>3 DEF Order
    <3>5. s \in Nat /\ t \in Nat /\ Was(s) \in Nat /\ Was(t) \in Nat
      BY <3>2 DEF Names, LogAssumption
    <3>6. ~(t < s)
      BY <2>2, <3>1, <3>4, <3>5
    <3>. QED
      BY <3>5, <3>6
  <2>. QED
    BY <2>4, <2>5 DEF Order
<1>. QED
  BY <1>1, <1>2

LEMMA RenameInv == ASSUME LogAssumption, IInv, NEW p \in Writers, Rename(p) PROVE IInv'
<1>1. /\ pc[p] = "rename" /\ pc' = [pc EXCEPT ![p] = "open"] /\ i' = [i EXCEPT ![p] = 0]
      /\ file' = Renamed(Current, i[p])
      /\ fd' = [fd EXCEPT ![p] = None]
      /\ UNCHANGED <<lines, written, faults, halfway, overlap>>
  BY DEF Rename, Goto
<1>2. /\ i[p] \in Slots /\ i[p] \in Names /\ Current \in Names /\ i[p] # Current
      /\ Current = log_number /\ log_number \in Nat \ {0}
  BY <1>1 DEF IInv, Located, Slots, Names, Current, LogAssumption
<1>3. /\ pc'[p] = "open" /\ i'[p] = 0 /\ fd'[p] = None
      /\ \A q \in Writers : q # p => pc'[q] = pc[q] /\ i'[q] = i[q] /\ fd'[q] = fd[q]
  BY <1>1 DEF IInv, TypeInv
<1>4. file' \in [Names -> Inodes \cup {None}] /\ Apart'
  <2>1. CASE file[Current] = None
    BY <1>1, <2>1 DEF Renamed, IInv, TypeInv, Apart
  <2>2. CASE file[Current] # None
    BY <1>1, <1>2, <2>2, RenamedFiles DEF IInv
  <2>. QED
    BY <2>1, <2>2
<1>5. TypeInv'
  <2>1. pc' \in [Writers -> Steps] /\ fd' \in [Writers -> Inodes \cup {None}]
    BY <1>1 DEF IInv, TypeInv, Steps
  <2>2. i' \in [Writers -> 0 .. log_number]
    BY <1>1, <1>2 DEF IInv, TypeInv
  <2>. QED
    BY <1>1, <1>4, <2>1, <2>2 DEF IInv, TypeInv
<1>6. Located'
  BY <1>3 DEF IInv, Located
<1>7. Sorted'
  BY <1>1 DEF IInv, Sorted
<1>8. Alone'
  BY <1>1, AloneStays DEF IInv
<1>9. Kept'
  <2>. SUFFICES ASSUME ~halfway', ~overlap' PROVE Shape' /\ Order'
    BY DEF Kept
  <2>1. Shape /\ Order
    BY <1>1 DEF IInv, Kept
  <2>2. \A q \in Writers : pc'[q] \notin {"scan", "rename", "shift"}
    BY <1>1, <1>3 DEF IInv, Alone, Rotating
  <2>3. /\ Packed /\ file[i[p]] = None
        /\ \A s \in Slots : s < i[p] => file[s] # None
    <3>1. \A q \in Writers : pc[q] # "shift"
      BY <1>1, <1>3, <2>2
    <3>. QED
      BY <1>1, <2>1, <3>1 DEF Shape
  <2>4. \A s \in Slots : i[p] < s => file[s] = None
    BY <1>2, <2>3 DEF Packed
  <2>5. \A s \in Slots : s \in Names /\ s # Current /\ s \in Nat
    BY <1>2 DEF Slots, Names
  <2>6. Packed'
    <3>1. CASE file[Current] = None
      BY <1>1, <2>3, <3>1 DEF Renamed, Packed
    <3>2. CASE file[Current] # None
      <4>1. \A s \in Slots : s # i[p] => file'[s] = file[s]
        BY <1>1, <1>2, <2>5, <3>2, RenamedFiles DEF IInv
      <4>2. \A s, t \in Slots : s < t /\ file'[t] # None => s < i[p]
        BY <1>2, <2>4, <2>5, <4>1
      <4>. QED
        BY <1>2, <2>3, <2>5, <4>1, <4>2 DEF Packed
    <3>. QED
      BY <3>1, <3>2
  <2>7. Order'
    <3>1. \A q \in Writers : fd'[q] \in {fd[q], None}
      BY <1>3
    <3>2. \A s \in Names : s # i[p] /\ s # Current /\ file[s] # None =>
             (s < i[p] => s < Current) /\ (i[p] < s => Current < s)
      <4>1. \A s \in Names : s # Current => s \in Slots /\ s < Current
        BY <1>2 DEF Slots, Names
      <4>. QED
        BY <2>4, <4>1
    <3>. QED
      BY <1>1, <1>2, <2>1, <3>1, <3>2, RenamedOrder DEF IInv
  <2>. QED
    BY <2>2, <2>6, <2>7 DEF Shape
<1>. QED
  BY <1>4, <1>5, <1>6, <1>7, <1>8, <1>9 DEF IInv

LEMMA ShiftInv == ASSUME LogAssumption, IInv, NEW p \in Writers, Shift(p) PROVE IInv'
<1>1. /\ pc[p] = "shift" /\ UNCHANGED <<fd, lines, written, faults, halfway, overlap>>
      /\ i[p] \in 1 .. log_number /\ log_number \in Nat \ {0}
  BY DEF Shift, IInv, TypeInv, Located, LogAssumption
<1>2. PICK st \in {"shift", "write"}, n \in 0 .. log_number :
        /\ pc' = [pc EXCEPT ![p] = st] /\ i' = [i EXCEPT ![p] = n]
        /\ st = "shift" => /\ i[p] < log_number /\ n = i[p] + 1
                           /\ file' = Renamed(i[p], i[p] - 1)
        /\ st = "write" => i[p] = log_number /\ n = 0 /\ file' = file
  BY <1>1 DEF Shift, Goto
<1>3. /\ pc'[p] = st /\ i'[p] = n
      /\ \A q \in Writers : q # p => pc'[q] = pc[q] /\ i'[q] = i[q]
  BY <1>2 DEF IInv, TypeInv
<1>4. i[p] \in Names /\ i[p] - 1 \in Names /\ i[p] - 1 \in Slots /\ i[p] # i[p] - 1
  BY <1>1 DEF Names, Slots
<1>5. /\ file' \in [Names -> Inodes \cup {None}] /\ Apart'
      /\ st = "shift" /\ file[i[p]] # None =>
            /\ file'[i[p] - 1] = file[i[p]] /\ file'[i[p]] = None
            /\ \A s \in Names : s # i[p] - 1 /\ s # i[p] => file'[s] = file[s]
  <2>1. CASE st = "write" \/ file[i[p]] = None
    BY <1>2, <2>1 DEF Renamed, IInv, TypeInv, Apart
  <2>2. CASE st = "shift" /\ file[i[p]] # None
    BY <1>2, <1>4, <2>2, RenamedFiles DEF IInv
  <2>. QED
    BY <2>1, <2>2
<1>6. fd[p] # None
  BY <1>1 DEF IInv, Located
<1>7. TypeInv'
  <2>1. pc' \in [Writers -> Steps]
    BY <1>2 DEF IInv, TypeInv, Steps
  <2>2. i' \in [Writers -> 0 .. log_number]
    BY <1>2 DEF IInv, TypeInv
  <2>. QED
    BY <1>1, <1>5, <2>1, <2>2 DEF IInv, TypeInv
<1>8. Located'
  BY <1>1, <1>2, <1>3, <1>6 DEF IInv, Located
<1>9. Sorted'
  BY <1>1 DEF IInv, Sorted
<1>10. Alone'
  <2>1. p \in Rotating
    BY <1>1 DEF Rotating
  <2>. QED
    BY <1>1, <1>2, <2>1, AloneStays DEF IInv
<1>11. Kept'
  <2>. SUFFICES ASSUME ~halfway', ~overlap' PROVE Shape' /\ Order'
    BY DEF Kept
  <2>1. Shape /\ Order
    BY <1>1 DEF IInv, Kept
  <2>2. \A q \in Writers : q # p => pc'[q] \notin {"scan", "rename", "shift"}
    BY <1>1, <1>3 DEF IInv, Alone, Rotating
  <2>3. \A s \in Slots : s # i[p] - 1 => file[s] # None
    BY <1>1, <2>1 DEF Shape
  <2>4. \A s \in Slots : s \in Names /\ s \in Nat /\ s < log_number
    BY <1>1 DEF Slots, Names
  <2>5. CASE st = "shift"
    <3>1. i[p] \in Slots /\ i[p] < log_number /\ i'[p] = i[p] + 1 /\ i[p] + 1 - 1 = i[p]
      BY <1>1, <1>2, <1>3, <2>5 DEF Slots
    <3>2. file[i[p]] # None
      BY <1>4, <2>3, <3>1
    <3>3. /\ \A s \in Slots : s # i[p] => file'[s] # None
          /\ file'[i[p]] = None
      BY <1>5, <2>3, <2>4, <2>5, <3>2
    <3>4. Shape'
      BY <1>1, <1>3, <2>2, <2>5, <3>1, <3>3 DEF Shape
    <3>5. \A q \in Writers : fd'[q] \in {fd[q], None}
      BY <1>1
    <3>6. \A s \in Names : s # i[p] - 1 /\ s # i[p] /\ file[s] # None =>
             (s < i[p] - 1 => s < i[p]) /\ (i[p] - 1 < s => i[p] < s)
      BY <1>1 DEF Names
    <3>7. Order'
      BY <1>1, <1>2, <1>4, <2>1, <2>5, <3>5, <3>6, RenamedOrder DEF IInv
    <3>. QED
      BY <3>4, <3>7
  <2>6. CASE st = "write"
    <3>1. i[p] = log_number /\ UNCHANGED file
      BY <1>2, <2>6
    <3>2. Packed
      BY <1>1, <2>3, <2>4, <3>1 DEF Packed
    <3>3. Packed'
      BY <3>1, <3>2 DEF Packed
    <3>4. Shape'
      BY <1>3, <2>2, <2>6, <3>3 DEF Shape
    <3>5. Order'
      BY <1>1, <2>1, <3>1 DEF Order, Has
    <3>. QED
      BY <3>4, <3>5
  <2>. QED
    BY <2>5, <2>6
<1>. QED
  BY <1>5, <1>7, <1>8, <1>9, <1>10, <1>11 DEF IInv

\* The file is there, or made: either way f is its inode, and what the others
\* have open and the names lead to is left alone.
LEMMA Opened ==
    ASSUME LogAssumption, TypeInv, NEW p \in Writers, Open(p)
    PROVE  \E f \in Inodes :
              /\ fd' = [fd EXCEPT ![p] = f] /\ file' = [file EXCEPT ![Current] = f]
              /\ lines' \in [Inodes -> Seq(Writers \X Nat)]
              /\ \A n \in Inodes : lines'[n] \in {lines[n], <<>>}
              /\ \A s \in Names : file[s] # None => lines'[file[s]] = lines[file[s]]
              /\ \/ f = file[Current]
                 \/ /\ file[Current] = None /\ lines'[f] = <<>>
                    /\ \A s \in Names : file[s] # f
                    /\ \A q \in Writers : fd[q] # f
<1>0. Current \in Names
  BY DEF Current, Names, LogAssumption
<1>1. CASE file[Current] # None
  <2>1. fd' = [fd EXCEPT ![p] = file[Current]] /\ UNCHANGED <<file, lines>>
    BY <1>1 DEF Open
  <2>2. file[Current] \in Inodes
    BY <1>0, <1>1 DEF TypeInv
  <2>3. file = [file EXCEPT ![Current] = file[Current]]
    BY <1>0 DEF TypeInv
  <2>. QED
    BY <2>1, <2>2, <2>3 DEF TypeInv
<1>2. CASE file[Current] = None
  <2>1. /\ Lost # {}
        /\ fd' = [fd EXCEPT ![p] = Min(Lost)]
        /\ file' = [file EXCEPT ![Current] = Min(Lost)]
        /\ lines' = [n \in Inodes |-> IF n \in Lost THEN <<>> ELSE lines[n]]
    BY <1>2 DEF Open
  <2>2. Min(Lost) \in Lost
    <3>1. Lost \subseteq Nat
      BY DEF Lost, LogAssumption
    <3>. QED
      BY <2>1, <3>1, MinIsIn
  <2>3. /\ Min(Lost) \in Inodes /\ \A s \in Names : file[s] # Min(Lost)
        /\ \A q \in Writers : fd[q] # Min(Lost)
    BY <2>2 DEF Lost
  <2>4. \A s \in Names : file[s] # None => file[s] \in Inodes /\ file[s] \notin Lost
    BY DEF Lost, TypeInv
  <2>5. /\ \A n \in Inodes : lines'[n] \in {lines[n], <<>>}
        /\ \A s \in Names : file[s] # None => lines'[file[s]] = lines[file[s]]
        /\ lines'[Min(Lost)] = <<>>
    BY <2>1, <2>2, <2>3, <2>4
  <2>6. lines' \in [Inodes -> Seq(Writers \X Nat)]
    <3>1. <<>> \in Seq(Writers \X Nat)
      BY EmptySeq
    <3>. QED
      BY <2>1, <3>1 DEF TypeInv
  <2>. HIDE DEF Lost
  <2>. QED
    BY <1>2, <2>1, <2>3, <2>5, <2>6
<1>. QED
  BY <1>1, <1>2

LEMMA OpenInv == ASSUME LogAssumption, IInv, NEW p \in Writers, Open(p) PROVE IInv'
<1>1. /\ pc[p] = "open" /\ pc' = [pc EXCEPT ![p] = "write"] /\ i' = [i EXCEPT ![p] = 0]
      /\ UNCHANGED <<written, faults, halfway, overlap>>
  BY DEF Open, Goto
<1>2. /\ pc'[p] = "write" /\ \A q \in Writers : q # p => pc'[q] = pc[q]
  BY <1>1 DEF IInv, TypeInv
<1>3. Current \in Names /\ \A s \in Slots : s \in Names /\ s # Current
  BY DEF Current, Names, Slots, LogAssumption
<1>4. \A s \in Names : s <= Current
  BY DEF Current, Names, LogAssumption
<1>5. PICK f \in Inodes :
        /\ fd' = [fd EXCEPT ![p] = f] /\ file' = [file EXCEPT ![Current] = f]
        /\ lines' \in [Inodes -> Seq(Writers \X Nat)]
        /\ \A n \in Inodes : lines'[n] \in {lines[n], <<>>}
        /\ \A s \in Names : file[s] # None => lines'[file[s]] = lines[file[s]]
        /\ \/ f = file[Current]
           \/ /\ file[Current] = None /\ lines'[f] = <<>>
              /\ \A s \in Names : file[s] # f
              /\ \A q \in Writers : fd[q] # f
  BY Opened DEF IInv
<1>6. /\ fd'[p] = f /\ file'[Current] = f /\ f # None
      /\ \A q \in Writers : q # p => fd'[q] = fd[q]
      /\ \A s \in Names : s # Current => file'[s] = file[s]
  BY <1>3, <1>5 DEF IInv, TypeInv, LogAssumption
<1>7. TypeInv'
  <2>1. pc' \in [Writers -> Steps]
    BY <1>1 DEF IInv, TypeInv, Steps
  <2>2. i' \in [Writers -> 0 .. log_number]
    BY <1>1 DEF IInv, TypeInv, LogAssumption
  <2>3. fd' \in [Writers -> Inodes \cup {None}] /\ file' \in [Names -> Inodes \cup {None}]
    BY <1>5 DEF IInv, TypeInv
  <2>. QED
    BY <1>1, <1>5, <2>1, <2>2, <2>3 DEF IInv, TypeInv
<1>8. Located'
  <2>1. \A q \in Writers : q # p => i'[q] = i[q]
    BY <1>1 DEF IInv, TypeInv
  <2>. QED
    BY <1>2, <1>6, <2>1 DEF IInv, Located
<1>9. Apart'
  BY <1>5, <1>6 DEF IInv, Apart
<1>10. Sorted'
  <2>1. \A n \in Inodes : lines'[n] = lines[n] \/ 1 .. Len(lines'[n]) = {}
    <3>1. 1 .. Len(<<>>) = {}
      OBVIOUS
    <3>. QED
      BY <1>5, <3>1
  <2>. QED
    BY <1>1, <2>1 DEF IInv, Sorted
<1>11. Alone'
  BY <1>1, AloneStays DEF IInv
<1>12. Kept'
  <2>. SUFFICES ASSUME ~halfway', ~overlap' PROVE Shape' /\ Order'
    BY DEF Kept
  <2>1. Shape /\ Order
    BY <1>1 DEF IInv, Kept
  <2>2. Shape'
    <3>1. /\ TypeInv /\ Located /\ \A s \in Slots : file'[s] = file[s]
          /\ pc[p] # "shift"
      BY <1>1, <1>3, <1>6 DEF IInv
    <3>. QED
      BY <1>1, <2>1, <3>1, ShapeStays
  <2>3. ASSUME NEW s \in Names, NEW q \in Writers, NEW m \in Nat, Has(s, q, m)'
        PROVE  Has(s, q, m)
    <3>1. file'[s] # None /\ \E j \in 1 .. Len(lines'[file'[s]]) : lines'[file'[s]][j] = <<q, m>>
      BY <2>3 DEF Has
    <3>2. lines'[file'[s]] # <<>>
      <4>1. 1 .. Len(<<>>) = {}
        OBVIOUS
      <4>. QED
        BY <3>1, <4>1
    <3>3. file'[s] = file[s]
      BY <1>5, <1>6, <3>2
    <3>. QED
      BY <1>5, <3>1, <3>3 DEF Has
  <2>4. \A s, t \in Names, q \in Writers, m, n \in Nat :
           s < t /\ Has(s, q, m)' /\ Has(t, q, n)' => m < n
    BY <2>1, <2>3 DEF Order
  <2>5. ASSUME NEW s \in Names, NEW t \in Names, NEW q \in Writers, NEW m \in Nat,
               fd'[q] # None, file'[t] = fd'[q], Has(s, q, m)'
        PROVE  s <= t
    <3>1. CASE t = Current
      BY <1>4, <3>1
    <3>2. CASE t # Current
      <4>1. file[t] = fd'[q] /\ file'[t] # None
        BY <1>6, <2>5, <3>2
      <4>2. q # p
        BY <1>3, <1>6, <1>9, <2>5, <3>2 DEF Apart
      <4>. QED
        BY <1>6, <2>1, <2>3, <2>5, <4>1, <4>2 DEF Order
    <3>. QED
      BY <3>1, <3>2
  <2>. QED
    BY <2>2, <2>4, <2>5 DEF Order
<1>. QED
  BY <1>7, <1>8, <1>9, <1>10, <1>11, <1>12 DEF IInv

\* What a line more in an inode is to those who read it.
LEMMA Appended ==
    ASSUME NEW S, NEW ls \in Seq(S), NEW l \in S
    PROVE  /\ Append(ls, l) \in Seq(S) /\ Len(Append(ls, l)) = Len(ls) + 1 /\ Len(ls) \in Nat
           /\ \A j \in 1 .. Len(ls) : Append(ls, l)[j] = ls[j]
           /\ Append(ls, l)[Len(ls) + 1] = l
<1>1. /\ Append(ls, l) \in Seq(S) /\ Len(Append(ls, l)) = Len(ls) + 1
      /\ \A j \in 1 .. Len(ls) : Append(ls, l)[j] = ls[j]
      /\ Append(ls, l)[Len(ls) + 1] = l
  BY AppendProperties
<1>2. Len(ls) \in Nat
  BY LenProperties
<1>. QED
  BY <1>1, <1>2

\* A line more is in the inode a process has open.
LEMMA Logged ==
    ASSUME LogAssumption, IInv, NEW p \in Writers, Write(p)
    PROVE  /\ fd[p] \in Inodes /\ Len(lines[fd[p]]) \in Nat
           /\ lines'[fd[p]] \in Seq(Writers \X Nat)
           /\ Len(lines'[fd[p]]) = Len(lines[fd[p]]) + 1
           /\ \A j \in 1 .. Len(lines[fd[p]]) : lines'[fd[p]][j] = lines[fd[p]][j]
           /\ lines'[fd[p]][Len(lines[fd[p]]) + 1] = <<p, written[p] + 1>>
           /\ \A n \in Inodes : n # fd[p] => lines'[n] = lines[n]
<1>1. /\ pc[p] = "write"
      /\ written' = [written EXCEPT ![p] = written[p] + 1]
      /\ lines' = [lines EXCEPT ![fd[p]] = Append(lines[fd[p]], <<p, written'[p]>>)]
  BY DEF Write
<1>2. /\ fd[p] \in Inodes /\ lines[fd[p]] \in Seq(Writers \X Nat) /\ written[p] \in Nat
      /\ written'[p] = written[p] + 1
  BY <1>1 DEF IInv, TypeInv, Located
<1>3. lines'[fd[p]] = Append(lines[fd[p]], <<p, written[p] + 1>>)
  BY <1>1, <1>2 DEF IInv, TypeInv
<1>4. <<p, written[p] + 1>> \in Writers \X Nat
  BY <1>2
<1>5. PICK w : w = written[p] + 1
  OBVIOUS
<1>6. \A n \in Inodes : n # fd[p] => lines'[n] = lines[n]
  BY <1>1 DEF IInv, TypeInv
<1>7. lines'[fd[p]] = Append(lines[fd[p]], <<p, w>>) /\ <<p, w>> \in Writers \X Nat
  BY <1>3, <1>4, <1>5
<1>8. /\ lines'[fd[p]] \in Seq(Writers \X Nat) /\ Len(lines[fd[p]]) \in Nat
      /\ Len(lines'[fd[p]]) = Len(lines[fd[p]]) + 1
      /\ \A j \in 1 .. Len(lines[fd[p]]) : lines'[fd[p]][j] = lines[fd[p]][j]
      /\ lines'[fd[p]][Len(lines[fd[p]]) + 1] = <<p, w>>
  BY <1>2, <1>7, Appended
<1>. QED
  BY <1>2, <1>5, <1>6, <1>8

LEMMA HasLogged ==
    ASSUME LogAssumption, IInv, NEW p \in Writers, Write(p),
           NEW s \in Names, NEW q \in Writers, NEW m \in Nat
    PROVE  Has(s, q, m)' <=> Has(s, q, m) \/ (q = p /\ m = written[p] + 1 /\ file[s] = fd[p])
<1>1. PICK L \in Nat : L = Len(lines[fd[p]])
  BY Logged
<1>2. PICK w \in Nat : w = written[p] + 1
  BY DEF IInv, TypeInv
<1>3. /\ fd[p] \in Inodes /\ fd[p] # None
      /\ Len(lines'[fd[p]]) = L + 1
      /\ \A j \in 1 .. L : lines'[fd[p]][j] = lines[fd[p]][j]
      /\ lines'[fd[p]][L + 1] = <<p, w>>
      /\ \A n \in Inodes : n # fd[p] => lines'[n] = lines[n]
      /\ file' = file
  BY <1>1, <1>2, Logged DEF Write, LogAssumption
<1>4. CASE file[s] = None
  BY <1>3, <1>4 DEF Has
<1>5. CASE file[s] # None /\ file[s] # fd[p]
  <2>1. lines'[file[s]] = lines[file[s]]
    BY <1>3, <1>5 DEF IInv, TypeInv
  <2>. QED
    BY <1>3, <1>5, <2>1 DEF Has
<1>6. CASE file[s] = fd[p]
  <2>1. ASSUME Has(s, q, m) PROVE Has(s, q, m)'
    <3>1. PICK j \in 1 .. L : lines[fd[p]][j] = <<q, m>>
      BY <1>1, <1>6, <2>1 DEF Has
    <3>2. j \in 1 .. L + 1 /\ lines'[fd[p]][j] = <<q, m>>
      BY <1>3, <3>1
    <3>. QED
      BY <1>3, <1>6, <3>2 DEF Has
  <2>2. ASSUME q = p, m = w PROVE Has(s, q, m)'
    <3>1. L + 1 \in 1 .. L + 1
      OBVIOUS
    <3>. QED
      BY <1>3, <1>6, <2>2, <3>1 DEF Has
  <2>3. ASSUME Has(s, q, m)' PROVE Has(s, q, m) \/ (q = p /\ m = w)
    <3>1. PICK j \in 1 .. L + 1 : lines'[fd[p]][j] = <<q, m>>
      BY <1>3, <1>6, <2>3 DEF Has
    <3>2. CASE j = L + 1
      BY <1>3, <3>1, <3>2
    <3>3. CASE j # L + 1
      <4>1. j \in 1 .. L
        BY <3>3
      <4>2. lines[fd[p]][j] = <<q, m>>
        BY <1>3, <3>1, <4>1
      <4>. QED
        BY <1>1, <1>3, <1>6, <4>1, <4>2 DEF Has
    <3>. QED
      BY <3>2, <3>3
  <2>. QED
    BY <1>2, <1>6, <2>1, <2>2, <2>3
<1>. QED
  BY <1>4, <1>5, <1>6

LEMMA WriteInv == ASSUME LogAssumption, IInv, NEW p \in Writers, Write(p) PROVE IInv'
<1>1. /\ pc[p] = "write" /\ pc' = [pc EXCEPT ![p] = "idle"] /\ i' = [i EXCEPT ![p] = 0]
      /\ written' = [written EXCEPT ![p] = written[p] + 1]
      /\ lines' = [lines EXCEPT ![fd[p]] = Append(lines[fd[p]], <<p, written'[p]>>)]
      /\ UNCHANGED <<fd, file, faults, halfway, overlap>>
  BY DEF Write, Goto
<1>2. /\ fd[p] \in Inodes /\ lines[fd[p]] \in Seq(Writers \X Nat) /\ written[p] \in Nat
      /\ pc'[p] = "idle" /\ \A q \in Writers : q # p => pc'[q] = pc[q] /\ i'[q] = i[q]
      /\ written'[p] = written[p] + 1 /\ \A q \in Writers : q # p => written'[q] = written[q]
  BY <1>1 DEF IInv, TypeInv, Located
<1>. DEFINE w == written[p] + 1
            L == Len(lines[fd[p]])
<1>3. /\ lines'[fd[p]] \in Seq(Writers \X Nat) /\ Len(lines'[fd[p]]) = L + 1 /\ L \in Nat
      /\ \A j \in 1 .. L : lines'[fd[p]][j] = lines[fd[p]][j]
      /\ lines'[fd[p]][L + 1] = <<p, w>>
      /\ \A n \in Inodes : n # fd[p] => lines'[n] = lines[n]
  BY Logged
<1>. HIDE DEF L
<1>4. TypeInv'
  <2>1. pc' \in [Writers -> Steps]
    BY <1>1 DEF IInv, TypeInv, Steps
  <2>2. i' \in [Writers -> 0 .. log_number]
    BY <1>1 DEF IInv, TypeInv, LogAssumption
  <2>3. written' \in [Writers -> Nat]
    BY <1>1, <1>2 DEF IInv, TypeInv
  <2>4. lines' \in [Inodes -> Seq(Writers \X Nat)]
    BY <1>1, <1>2, <1>3 DEF IInv, TypeInv
  <2>. QED
    BY <1>1, <2>1, <2>2, <2>3, <2>4 DEF IInv, TypeInv
<1>5. Located'
  BY <1>1, <1>2 DEF IInv, Located
<1>6. Apart'
  BY <1>1 DEF IInv, Apart
\* The number of the new line is above those of all others of p.
<1>7. \A n \in Inodes : \A j \in 1 .. Len(lines[n]) :
        /\ lines[n][j] \in Writers \X Nat
        /\ lines[n][j][2] <= written'[lines[n][j][1]]
        /\ lines[n][j][1] = p => lines[n][j][2] < w
  <2>. SUFFICES ASSUME NEW n \in Inodes, NEW j \in 1 .. Len(lines[n])
               PROVE  /\ lines[n][j] \in Writers \X Nat
                      /\ lines[n][j][2] <= written'[lines[n][j][1]]
                      /\ lines[n][j][1] = p => lines[n][j][2] < w
    OBVIOUS
  <2>1. lines[n][j] \in Writers \X Nat
    <3>1. lines[n] \in Seq(Writers \X Nat)
      BY DEF IInv, TypeInv
    <3>. QED
      BY <3>1, ElementOfSeq
  <2>2. PICK q \in Writers, m \in Nat : lines[n][j] = <<q, m>>
    BY <2>1
  <2>3. m <= written[q] /\ written[q] \in Nat
    BY <2>2, SMTT(30) DEF IInv, Sorted, TypeInv
  <2>4. lines[n][j][1] = q /\ lines[n][j][2] = m
    BY <2>2
  <2>. QED
    BY <1>2, <2>1, <2>3, <2>4
<1>8. Sorted'
  <2>. SUFFICES ASSUME NEW n \in Inodes, NEW j \in 1 .. Len(lines'[n])
               PROVE  /\ lines'[n][j][2] <= written'[lines'[n][j][1]]
                      /\ \A k \in 1 .. Len(lines'[n]) :
                            j < k /\ lines'[n][j][1] = lines'[n][k][1] =>
                               lines'[n][j][2] < lines'[n][k][2]
    BY DEF Sorted
  <2>1. CASE n # fd[p]
    BY <1>3, <1>7, <2>1 DEF IInv, Sorted
  <2>2. CASE n = fd[p] /\ j = L + 1
    <3>1. lines'[n][j][1] = p /\ lines'[n][j][2] = w
      BY <1>3, <2>2
    <3>2. \A k \in 1 .. Len(lines'[n]) : ~(j < k)
      BY <1>3, <2>2
    <3>. QED
      BY <1>2, <3>1, <3>2
  <2>3. CASE n = fd[p] /\ j # L + 1
    <3>1. j \in 1 .. L /\ lines'[n][j] = lines[n][j] /\ j \in 1 .. Len(lines[n])
      BY <1>3, <2>3, SMTT(30) DEF L
    <3>2. lines'[n][j][2] <= written'[lines'[n][j][1]]
      BY <1>7, <3>1
    <3>3. ASSUME NEW k \in 1 .. Len(lines'[n]), j < k, lines'[n][j][1] = lines'[n][k][1]
          PROVE  lines'[n][j][2] < lines'[n][k][2]
      <4>1. CASE k = L + 1
        <5>1. lines'[n][k][1] = p /\ lines'[n][k][2] = w
          BY <1>3, <2>3, <4>1
        <5>. QED
          BY <1>7, <3>1, <3>3, <5>1
      <4>2. CASE k # L + 1
        <5>1. k \in 1 .. L /\ lines'[n][k] = lines[n][k] /\ k \in 1 .. Len(lines[n])
          <6>1. k \in 1 .. L
            BY <1>3, <2>3, <4>2
          <6>. QED
            BY <1>3, <2>3, <6>1 DEF L
        <5>. QED
          BY <3>1, <3>3, <5>1 DEF IInv, Sorted
      <4>. QED
        BY <4>1, <4>2
    <3>. QED
      BY <3>2, <3>3
  <2>. QED
    BY <2>1, <2>2, <2>3
<1>9. Alone'
  BY <1>1, AloneStays DEF IInv
<1>10. Kept'
  <2>. SUFFICES ASSUME ~halfway', ~overlap' PROVE Shape' /\ Order'
    BY DEF Kept
  <2>1. Shape /\ Order
    BY <1>1 DEF IInv, Kept
  <2>2. Shape'
    <3>1. TypeInv /\ Located /\ pc[p] # "shift" /\ \A s \in Slots : file'[s] = file[s]
      BY <1>1 DEF IInv
    <3>. QED
      BY <1>1, <2>1, <3>1, ShapeStays
  <2>3. \A s \in Names, q \in Writers, m \in Nat :
           Has(s, q, m)' => Has(s, q, m) \/ (q = p /\ m = w /\ file[s] = fd[p])
    BY HasLogged
  <2>4. ASSUME NEW s \in Names, NEW m \in Nat, Has(s, p, m) PROVE m < w
    <3>1. PICK j \in 1 .. Len(lines[file[s]]) : lines[file[s]][j] = <<p, m>>
      BY <2>4 DEF Has
    <3>2. file[s] \in Inodes
      BY <2>4 DEF Has, IInv, TypeInv
    <3>3. lines[file[s]][j][1] = p /\ lines[file[s]][j][2] = m
      BY <3>1
    <3>. QED
      BY <1>7, <3>2, <3>3
  <2>. HIDE DEF w
  <2>5. ASSUME NEW s \in Names, NEW t \in Names, NEW q \in Writers, NEW m \in Nat, NEW n \in Nat,
               s < t, Has(s, q, m)', Has(t, q, n)'
        PROVE  m < n
    <3>1. /\ Has(s, q, m) \/ (q = p /\ m = w /\ file[s] = fd[p])
          /\ Has(t, q, n) \/ (q = p /\ n = w /\ file[t] = fd[p])
      BY <2>3, <2>5
    <3>2. s \in Nat /\ t \in Nat /\ fd[p] # None
      BY <1>2 DEF Names, LogAssumption
    <3>3. CASE Has(s, q, m) /\ Has(t, q, n)
      BY <2>1, <2>5, <3>3 DEF Order
    <3>4. CASE Has(s, q, m) /\ q = p /\ n = w /\ file[t] = fd[p]
      BY <2>4, <3>4
    <3>5. CASE q = p /\ m = w /\ file[s] = fd[p] /\ Has(t, q, n)
      <4>1. t <= s
        BY <2>1, <3>2, <3>5 DEF Order
      <4>. QED
        BY <2>5, <3>2, <4>1
    <3>6. CASE file[s] = fd[p] /\ file[t] = fd[p]
      BY <2>5, <3>2, <3>6 DEF IInv, Apart
    <3>. QED
      BY <3>1, <3>3, <3>4, <3>5, <3>6
  <2>6. ASSUME NEW s \in Names, NEW t \in Names, NEW q \in Writers, NEW m \in Nat,
               fd'[q] # None, file'[t] = fd'[q], Has(s, q, m)'
        PROVE  s <= t
    <3>1. fd[q] # None /\ file[t] = fd[q] /\ s \in Nat /\ t \in Nat
      BY <1>1, <2>6 DEF Names, LogAssumption
    <3>2. Has(s, q, m) \/ (q = p /\ file[s] = fd[p])
      BY <2>3, <2>6
    <3>3. CASE Has(s, q, m)
      BY <2>1, <3>1, <3>3 DEF Order
    <3>4. CASE q = p /\ file[s] = fd[p]
      BY <3>1, <3>4 DEF IInv, Apart
    <3>. QED
      BY <3>2, <3>3, <3>4
  <2>. QED
    BY <2>2, <2>5, <2>6 DEF Order
<1>. QED
  BY <1>4, <1>5, <1>6, <1>8, <1>9, <1>10 DEF IInv

LEMMA GivesUpInv == ASSUME LogAssumption, IInv, NEW p \in Writers, GivesUp(p) PROVE IInv'
<1>1. /\ pc[p] \in {"open", "write"} /\ pc' = [pc EXCEPT ![p] = "idle"]
      /\ i' = [i EXCEPT ![p] = 0] /\ faults' = faults + 1
      /\ UNCHANGED <<fd, file, lines, written, halfway, overlap>>
  BY DEF GivesUp, Goto, Fault
<1>2. /\ pc'[p] = "idle" /\ \A q \in Writers : q # p => pc'[q] = pc[q] /\ i'[q] = i[q]
  BY <1>1 DEF IInv, TypeInv
<1>3. TypeInv'
  <2>1. pc' \in [Writers -> Steps]
    BY <1>1 DEF IInv, TypeInv, Steps
  <2>2. i' \in [Writers -> 0 .. log_number]
    BY <1>1 DEF IInv, TypeInv, LogAssumption
  <2>. QED
    BY <1>1, <2>1, <2>2 DEF IInv, TypeInv
<1>4. Located'
  BY <1>1, <1>2 DEF IInv, Located
<1>5. Apart' /\ Sorted' /\ (Order => Order')
  BY <1>1, FilesAsTheyWere
<1>6. Alone'
  BY <1>1, AloneStays DEF IInv
<1>7. Kept'
  <2>. SUFFICES ASSUME ~halfway', ~overlap' PROVE Shape' /\ Order'
    BY DEF Kept
  <2>1. Shape /\ Order
    BY <1>1 DEF IInv, Kept
  <2>2. TypeInv /\ Located /\ pc[p] # "shift" /\ \A s \in Slots : file'[s] = file[s]
    BY <1>1 DEF IInv
  <2>3. Shape'
    BY <1>1, <2>1, <2>2, ShapeStays
  <2>. QED
    BY <1>5, <2>1, <2>3
<1>. QED
  BY <1>3, <1>4, <1>5, <1>6, <1>7 DEF IInv

LEMMA DiesInv == ASSUME LogAssumption, IInv, NEW p \in Writers, Dies(p) PROVE IInv'
<1>1. /\ pc' = [pc EXCEPT ![p] = "idle"] /\ i' = [i EXCEPT ![p] = 0]
      /\ fd' = [fd EXCEPT ![p] = None]
      /\ faults' = faults + 1 /\ halfway' = (halfway \/ MidShift(p))
      /\ UNCHANGED <<file, lines, written, overlap>>
  BY DEF Dies, Goto, Fault
<1>2. /\ pc'[p] = "idle" /\ fd'[p] = None
      /\ \A q \in Writers : q # p => pc'[q] = pc[q] /\ i'[q] = i[q] /\ fd'[q] = fd[q]
  BY <1>1 DEF IInv, TypeInv
<1>3. TypeInv'
  <2>1. pc' \in [Writers -> Steps] /\ fd' \in [Writers -> Inodes \cup {None}]
    BY <1>1 DEF IInv, TypeInv, Steps
  <2>2. i' \in [Writers -> 0 .. log_number]
    BY <1>1 DEF IInv, TypeInv, LogAssumption
  <2>3. halfway' \in BOOLEAN
    BY <1>1 DEF IInv, TypeInv, MidShift
  <2>. QED
    BY <1>1, <2>1, <2>2, <2>3 DEF IInv, TypeInv
<1>4. Located'
  BY <1>1, <1>2 DEF IInv, Located
<1>5. Apart' /\ Sorted'
  BY <1>1 DEF IInv, Apart, Sorted
<1>6. Alone'
  BY <1>1, AloneStays DEF IInv
<1>7. Kept'
  <2>. SUFFICES ASSUME ~halfway', ~overlap' PROVE Shape' /\ Order'
    BY DEF Kept
  <2>1. Shape /\ Order /\ ~MidShift(p)
    BY <1>1 DEF IInv, Kept
  <2>2. Order'
    BY <1>1, <1>2, <2>1 DEF Order, Has
  <2>3. ASSUME pc[p] = "shift" PROVE Packed
    <3>1. /\ log_number \in Nat \ {0} /\ i[p] \in 0 .. log_number /\ i[p] > 0
          /\ ~(1 < i[p] /\ i[p] < log_number)
      BY <2>1, <2>3 DEF MidShift, IInv, TypeInv, Located, LogAssumption
    <3>2. /\ \A s \in Slots : s # i[p] - 1 => file[s] # None
          /\ i[p] = 1 => file[0] # None
      BY <2>1, <2>3 DEF Shape
    <3>3. \A s \in Slots : s \in Nat /\ s < log_number
      BY <3>1 DEF Slots
    <3>4. CASE i[p] = 1
      BY <3>1, <3>2, <3>3, <3>4 DEF Packed
    <3>5. CASE i[p] = log_number
      BY <3>1, <3>2, <3>3, <3>5 DEF Packed
    <3>. QED
      BY <3>1, <3>4, <3>5
  <2>4. TypeInv /\ Located /\ \A s \in Slots : file'[s] = file[s]
    BY <1>1 DEF IInv
  <2>5. Shape'
    BY <1>1, <2>1, <2>3, <2>4, ShapeStays
  <2>. QED
    BY <2>2, <2>5
<1>. QED
  BY <1>3, <1>4, <1>5, <1>6, <1>7 DEF IInv

-----------------------------------------------------------------------------
LEMMA NextInv == ASSUME LogAssumption, IInv, [Next]_vars PROVE IInv'
<1>1. CASE UNCHANGED vars
  <2>1. /\ UNCHANGED <<pc, i, fd, file, lines, written, faults, halfway, overlap>>
    BY <1>1 DEF vars
  <2>2. TypeInv' /\ Located' /\ Alone'
    BY <2>1 DEF IInv, TypeInv, Located, Alone, Rotating
  <2>3. Apart' /\ Sorted' /\ (Order => Order')
    BY <2>1, FilesAsTheyWere
  <2>4. Shape => Shape'
    BY <2>1 DEF Shape, Packed
  <2>. QED
    BY <2>1, <2>2, <2>3, <2>4 DEF IInv, Kept
<1>2. CASE Next
  <2>1. PICK p \in Writers :
          \/ Call(p) \/ Scan(p) \/ Rename(p) \/ Shift(p) \/ Open(p) \/ Write(p)
          \/ GivesUp(p) \/ Dies(p)
    BY <1>2 DEF Next
  <2>. QED
    BY <2>1, CallInv, ScanInv, RenameInv, ShiftInv, OpenInv, WriteInv, GivesUpInv, DiesInv
<1>. QED
  BY <1>1, <1>2

\* The lines of each process that are left are in their order, unless a shift
\* was cut short or two have been rotating at the same time (log.c:37-95).
THEOREM KeptInOrder == ASSUME LogAssumption PROVE Spec => []LinesInOrder
<1>1. Init => IInv
  BY InitInv
<1>2. IInv /\ [Next]_vars => IInv'
  BY NextInv
<1>3. IInv => LinesInOrder
  BY IInvInOrder DEF LinesInOrder
<1>. QED
  BY <1>1, <1>2, <1>3, PTL DEF Spec

-----------------------------------------------------------------------------
(* One process *)

\* Whatever follows a line that is left has been left as well.
Whole(p) ==
    \A s \in Names, m \in Nat : Has(s, p, m) =>
        \A n \in m .. written[p] : \E t \in Names : Has(t, p, n)

\* path may have a line too many before it is looked at, and one more after a
\* shift, which leaves the newest slot vacant for it.
Size(s) == Len(Content(s))
Limit == log_size + faults
Vacant == file[log_number - 1] = None

Bounded(p) ==
    /\ \A s \in Names : Size(s) <= Limit + 2
    /\ pc[p] \in {"scan", "rename"} \/ (pc[p] = "idle" /\ fd[p] # None) =>
          Size(Current) <= Limit + 1 \/ Vacant
    /\ pc[p] \in {"open", "write"} \/ (pc[p] = "idle" /\ fd[p] = None) =>
          Size(Current) <= Limit \/ (Size(Current) <= Limit + 1 /\ Vacant)
    /\ pc[p] = "shift" => Size(Current) <= Limit + 1

Single(p) ==
    /\ ~overlap
    /\ fd[p] # None => fd[p] = file[Current]
    /\ ~halfway /\ log_number > 1 => Whole(p) /\ Bounded(p)

LEMMA SizeIsNat ==
    ASSUME TypeInv, NEW s \in Names
    PROVE  Size(s) \in Nat
<1>1. CASE file[s] = None
  <2>1. Size(s) = Len(<<>>)
    BY <1>1 DEF Size, Content
  <2>. QED
    BY <2>1
<1>2. CASE file[s] # None
  <2>1. Content(s) \in Seq(Writers \X Nat)
    BY <1>2 DEF Content, TypeInv
  <2>. QED
    BY <2>1, LenProperties DEF Size
<1>. QED
  BY <1>1, <1>2

\* What the numbers of the sizes are.
LEMMA Numbers ==
    ASSUME LogAssumption, TypeInv
    PROVE  /\ Current \in Names /\ Current = log_number /\ log_number \in Nat \ {0}
           /\ log_number - 1 \in Slots /\ log_number - 1 \in Names
           /\ Slots \subseteq Names /\ \A s \in Slots : s # Current
           /\ Limit \in Nat /\ log_size \in Nat /\ log_size <= Limit
           /\ \A s \in Names : Size(s) \in Nat
<1>1. /\ Current \in Names /\ Current = log_number /\ log_number \in Nat \ {0}
      /\ log_number - 1 \in Slots /\ log_number - 1 \in Names
      /\ Slots \subseteq Names /\ \A s \in Slots : s # Current
  BY DEF LogAssumption, Current, Names, Slots
<1>2. Limit \in Nat /\ log_size \in Nat /\ log_size <= Limit
  BY DEF LogAssumption, TypeInv, Limit
<1>. QED
  BY <1>1, <1>2, SizeIsNat

\* Whoever only moves, or fails, leaves what is read as it is.
LEMMA SingleMoves ==
    ASSUME LogAssumption, IInv, NEW p \in Writers, Writers = {p}, Single(p),
           UNCHANGED <<file, lines, written>>,
           fd'[p] \in {fd[p], None}, overlap' = overlap, ~halfway' => ~halfway,
           ~halfway' /\ log_number > 1 =>
              (Bounded(p) /\ (\A s \in Names : Size(s)' = Size(s)) /\ Vacant' = Vacant =>
                 Bounded(p)')
    PROVE  Single(p)'
<1>1. /\ ~overlap' /\ (fd'[p] # None => fd'[p] = file'[Current])
      /\ \A s \in Names : Size(s)' = Size(s)
      /\ Vacant' = Vacant
  BY DEF Single, Size, Content, Vacant
<1>2. Whole(p) => Whole(p)'
  BY DEF Whole, Has
<1>. QED
  BY <1>1, <1>2 DEF Single

LEMMA CallSingle ==
    ASSUME LogAssumption, IInv, NEW p \in Writers, Writers = {p}, Single(p), Call(p)
    PROVE  Single(p)'
<1>1. /\ pc[p] = "idle" /\ UNCHANGED <<fd, file, lines, written, faults, halfway>>
  BY DEF Call, OnlyGoes
<1>2. PICK st \in {"open", "scan", "write"} :
        /\ pc' = [pc EXCEPT ![p] = st]
        /\ st = "open" => fd[p] = None
        /\ st = "scan" => fd[p] # None
        /\ st = "write" => fd[p] # None /\ ~(Len(lines[fd[p]]) > log_size)
  BY DEF Call, Goto
<1>3. pc'[p] = st
  BY <1>2 DEF IInv, TypeInv
<1>4. overlap' = overlap
  <2>1. Rotating = {}
    BY <1>1 DEF Rotating
  <2>. QED
    BY <2>1 DEF Call, IInv, TypeInv
<1>5. /\ Current \in Names /\ Size(Current) \in Nat /\ Limit \in Nat
      /\ log_size \in Nat /\ log_size <= Limit
  BY Numbers DEF IInv
<1>6. Limit' = Limit
  BY <1>1 DEF Limit
<1>7. st = "write" => Size(Current) <= Limit
  <2>. SUFFICES ASSUME st = "write" PROVE Size(Current) <= Limit
    OBVIOUS
  <2>1. Size(Current) = Len(lines[fd[p]])
    BY <1>2 DEF Single, Size, Content
  <2>2. ~(Size(Current) > log_size)
    BY <1>2, <2>1
  <2>. QED
    BY <1>5, <2>2
<1>8. ASSUME Bounded(p), \A s \in Names : Size(s)' = Size(s), Vacant' = Vacant
      PROVE  Bounded(p)'
  <2>. HIDE DEF Size, Limit, Vacant
  <2>. QED
    BY <1>1, <1>2, <1>3, <1>5, <1>6, <1>7, <1>8 DEF Bounded
<1>. QED
  BY <1>1, <1>4, <1>8, SingleMoves

LEMMA ScanSingle ==
    ASSUME LogAssumption, IInv, IInv', NEW p \in Writers, Writers = {p}, Single(p), Scan(p)
    PROVE  Single(p)'
<1>1. pc[p] = "scan" /\ UNCHANGED <<fd, file, lines, written, faults, halfway, overlap>>
  BY DEF Scan, OnlyGoes
<1>2. pc'[p] \in {"scan", "rename", "shift"} /\ (pc'[p] = "shift" => i'[p] = 1)
  <2>1. \/ Goto(p, "shift", 1) \/ Goto(p, "rename", Slot(i[p])) \/ Goto(p, "scan", i[p] + 1)
    <3>1. CASE i[p] = log_number
      BY <3>1 DEF Scan, Slots, LogAssumption
    <3>2. CASE i[p] # log_number /\ i[p] \in Slots /\ file[Slot(i[p])] = None
      BY <3>2 DEF Scan
    <3>3. CASE i[p] # log_number /\ ~(i[p] \in Slots /\ file[Slot(i[p])] = None)
      BY <3>3 DEF Scan
    <3>. QED
      BY <3>1, <3>2, <3>3
  <2>. QED
    BY <2>1 DEF Goto, IInv, TypeInv
<1>3. /\ Current \in Names /\ Size(Current) \in Nat /\ Limit \in Nat
      /\ log_number - 1 \in Slots /\ log_number \in Nat
  BY Numbers DEF IInv
<1>4. Limit' = Limit
  BY <1>1 DEF Limit
<1>5. ASSUME pc'[p] = "shift", ~halfway', log_number > 1 PROVE ~Vacant'
  <2>1. \A s \in Slots : s # i'[p] - 1 => file'[s] # None
    <3>1. Shape'
      BY <1>1, <1>5 DEF IInv, Kept, Single
    <3>. QED
      BY <1>5, <3>1 DEF Shape
  <2>2. log_number - 1 # i'[p] - 1
    BY <1>2, <1>3, <1>5
  <2>. QED
    BY <1>3, <2>1, <2>2 DEF Vacant
<1>6. ASSUME ~halfway', log_number > 1, Bounded(p),
             \A s \in Names : Size(s)' = Size(s), Vacant' = Vacant
      PROVE  Bounded(p)'
  <2>. HIDE DEF Size, Limit, Vacant
  <2>. QED
    BY <1>1, <1>2, <1>3, <1>4, <1>5, <1>6 DEF Bounded
<1>. QED
  BY <1>1, <1>6, SingleMoves

LEMMA GivesUpSingle ==
    ASSUME LogAssumption, IInv, NEW p \in Writers, Writers = {p}, Single(p), GivesUp(p)
    PROVE  Single(p)'
<1>1. /\ pc[p] \in {"open", "write"} /\ pc' = [pc EXCEPT ![p] = "idle"] /\ faults' = faults + 1
      /\ UNCHANGED <<fd, file, lines, written, halfway, overlap>>
  BY DEF GivesUp, Goto, Fault
<1>2. pc'[p] = "idle"
  BY <1>1 DEF IInv, TypeInv
<1>3. /\ Current \in Names /\ \A s \in Names : Size(s) \in Nat
      /\ Limit \in Nat
  BY Numbers DEF IInv
<1>4. Limit' = Limit + 1
  BY <1>1 DEF Limit, LogAssumption, IInv, TypeInv
<1>5. ASSUME Bounded(p), \A s \in Names : Size(s)' = Size(s), Vacant' = Vacant
      PROVE  Bounded(p)'
  <2>. HIDE DEF Size, Limit, Vacant
  <2>. QED
    BY <1>1, <1>2, <1>3, <1>4, <1>5 DEF Bounded
<1>. QED
  BY <1>1, <1>5, SingleMoves

LEMMA DiesSingle ==
    ASSUME LogAssumption, IInv, NEW p \in Writers, Writers = {p}, Single(p), Dies(p)
    PROVE  Single(p)'
<1>1. /\ pc' = [pc EXCEPT ![p] = "idle"] /\ fd' = [fd EXCEPT ![p] = None]
      /\ faults' = faults + 1 /\ halfway' = (halfway \/ MidShift(p))
      /\ UNCHANGED <<file, lines, written, overlap>>
  BY DEF Dies, Goto, Fault
<1>2. pc'[p] = "idle" /\ fd'[p] = None /\ pc[p] \in Steps
  BY <1>1 DEF IInv, TypeInv
<1>3. /\ Current \in Names /\ \A s \in Names : Size(s) \in Nat
      /\ Limit \in Nat
  BY Numbers DEF IInv
<1>4. Limit' = Limit + 1
  BY <1>1 DEF Limit, LogAssumption, IInv, TypeInv
<1>5. ASSUME Bounded(p), \A s \in Names : Size(s)' = Size(s), Vacant' = Vacant
      PROVE  Bounded(p)'
  <2>1. Size(Current) <= Limit + 2
    BY <1>3, <1>5 DEF Bounded
  <2>2. Size(Current) <= Limit + 1 \/ Vacant
    <3>. HIDE DEF Size, Limit, Vacant
    <3>. QED
      BY <1>2, <1>3, <1>5 DEF Bounded, Steps
  <2>. HIDE DEF Size, Limit, Vacant
  <2>. QED
    BY <1>2, <1>3, <1>4, <1>5, <2>1, <2>2 DEF Bounded
<1>6. ~halfway' => ~halfway
  BY <1>1
<1>. QED
  BY <1>1, <1>2, <1>5, <1>6, SingleMoves

\* rename(2) to a vacant place loses nothing, and its size goes along.
LEMMA RenamedWhole ==
    ASSUME LogAssumption, TypeInv, Apart, NEW p \in Writers, Whole(p),
           NEW from \in Names, NEW to \in Names, from # to, file[to] = None,
           file' = Renamed(from, to), UNCHANGED <<lines, written>>
    PROVE  /\ Whole(p)'
           /\ Size(from)' = 0 /\ Size(to)' = Size(from)
           /\ \A s \in Names : s # from /\ s # to => Size(s)' = Size(s)
<1>0. Len(<<>>) = 0
  OBVIOUS
<1>1. CASE file[from] = None
  <2>1. file' = file /\ lines' = lines /\ written' = written
    BY <1>1 DEF Renamed
  <2>2. Whole(p)'
    <3>1. \A s \in Names, m \in Nat : Has(s, p, m)' <=> Has(s, p, m)
      BY <2>1 DEF Has
    <3>. QED
      BY <2>1, <3>1 DEF Whole
  <2>3. \A s \in Names : Size(s)' = Size(s)
    BY <2>1 DEF Size, Content
  <2>4. Content(from) = <<>> /\ Content(to) = <<>>
    BY <1>1 DEF Content
  <2>5. Size(from) = 0 /\ Size(to) = 0
    BY <1>0, <2>4 DEF Size
  <2>. QED
    BY <2>2, <2>3, <2>5
<1>2. CASE file[from] # None
  <2>1. /\ file'[to] = file[from] /\ file'[from] = None
        /\ \A s \in Names : s # to /\ s # from => file'[s] = file[s]
    BY <1>2, RenamedFiles
  <2>2. /\ Size(from)' = 0 /\ Size(to)' = Size(from)
        /\ \A s \in Names : s # from /\ s # to => Size(s)' = Size(s)
    BY <1>0, <2>1 DEF Size, Content
  <2>3. ASSUME NEW s \in Names, NEW m \in Nat, Has(s, p, m)
        PROVE  \E t \in Names : Has(t, p, m)'
    BY <2>1, <2>3 DEF Has
  <2>4. ASSUME NEW s \in Names, NEW m \in Nat, Has(s, p, m)'
        PROVE  \E t \in Names : Has(t, p, m)
    BY <2>1, <2>4 DEF Has
  <2>5. ASSUME NEW s \in Names, NEW m \in Nat, Has(s, p, m)', NEW n \in m .. written[p]
        PROVE  \E t \in Names : Has(t, p, n)'
    <3>1. PICK t \in Names : Has(t, p, m)
      BY <2>4, <2>5
    <3>2. n \in Nat
      OBVIOUS
    <3>3. PICK u \in Names : Has(u, p, n)
      BY <3>1, <2>5 DEF Whole
    <3>. QED
      BY <2>3, <3>2, <3>3
  <2>. QED
    BY <2>2, <2>5 DEF Whole
<1>. QED
  BY <1>1, <1>2

LEMMA RenameSingle ==
    ASSUME LogAssumption, IInv, NEW p \in Writers, Writers = {p}, Single(p), Rename(p)
    PROVE  Single(p)'
<1>1. /\ pc[p] = "rename" /\ pc' = [pc EXCEPT ![p] = "open"]
      /\ file' = Renamed(Current, i[p]) /\ fd' = [fd EXCEPT ![p] = None]
      /\ UNCHANGED <<lines, written, faults, halfway, overlap>>
  BY DEF Rename, Goto
<1>2. pc'[p] = "open" /\ fd'[p] = None
  BY <1>1 DEF IInv, TypeInv
<1>3. ~overlap' /\ (fd'[p] # None => fd'[p] = file'[Current])
  BY <1>1, <1>2 DEF Single
<1>4. ASSUME ~halfway', log_number > 1 PROVE Whole(p)' /\ Bounded(p)'
  <2>1. Whole(p) /\ Bounded(p) /\ Shape
    BY <1>1, <1>4 DEF Single, IInv, Kept
  <2>2. PICK to \in Slots : to = i[p] /\ file[to] = None
    BY <1>1, <2>1 DEF IInv, Located, Shape
  <2>3. /\ Current \in Names /\ to \in Names /\ Current # to /\ Limit \in Nat
        /\ log_number - 1 \in Names /\ \A s \in Names : Size(s) \in Nat
    BY <2>2, Numbers DEF IInv
  <2>4. /\ Whole(p)' /\ Size(Current)' = 0 /\ Size(to)' = Size(Current)
        /\ \A s \in Names : s # Current /\ s # to => Size(s)' = Size(s)
    <3>1. file' = Renamed(Current, to) /\ TypeInv /\ Apart
      BY <1>1, <2>2 DEF IInv
    <3>. QED
      BY <1>1, <2>1, <2>2, <2>3, <3>1, RenamedWhole
  <2>5. Limit' = Limit
    BY <1>1 DEF Limit
  <2>6. Bounded(p)'
    <3>. HIDE DEF Size, Limit, Vacant
    <3>. QED
      BY <1>2, <2>1, <2>3, <2>4, <2>5 DEF Bounded
  <2>. QED
    BY <2>4, <2>6
<1>. QED
  BY <1>3, <1>4 DEF Single

LEMMA ShiftSingle ==
    ASSUME LogAssumption, IInv, NEW p \in Writers, Writers = {p}, Single(p), Shift(p)
    PROVE  Single(p)'
<1>1. /\ pc[p] = "shift" /\ UNCHANGED <<fd, lines, written, faults, halfway, overlap>>
      /\ i[p] \in 1 .. log_number /\ log_number \in Nat \ {0}
  BY DEF Shift, IInv, TypeInv, Located, LogAssumption
<1>2. PICK st \in {"shift", "write"} :
        /\ pc' = [pc EXCEPT ![p] = st]
        /\ st = "shift" => i[p] < log_number /\ file' = Renamed(i[p], i[p] - 1)
        /\ st = "write" => i[p] = log_number /\ file' = file
  BY <1>1 DEF Shift, Goto
<1>3. pc'[p] = st
  BY <1>2 DEF IInv, TypeInv
<1>4. PICK from \in Names, to \in Slots :
        /\ from = i[p] /\ to = i[p] - 1 /\ from # to
        /\ st = "shift" => from \in Slots /\ file' = Renamed(from, to)
  <2>1. i[p] \in Names /\ i[p] - 1 \in Slots /\ i[p] # i[p] - 1
    BY <1>1 DEF Names, Slots
  <2>2. i[p] < log_number => i[p] \in Slots
    BY <1>1 DEF Slots
  <2>. QED
    BY <1>2, <2>1, <2>2
<1>5. /\ Current \in Names /\ Limit \in Nat /\ to \in Names
      /\ log_number - 1 \in Names /\ \A s \in Names : Size(s) \in Nat
      /\ \A s \in Slots : s \in Names /\ s # Current
  BY Numbers DEF IInv
<1>6. fd[p] # None => fd[p] = file[Current]
  BY DEF Single
<1>7. file'[Current] = file[Current]
  BY <1>2, <1>4, <1>5 DEF Renamed, IInv, TypeInv
<1>8. ~overlap' /\ (fd'[p] # None => fd'[p] = file'[Current])
  BY <1>1, <1>6, <1>7 DEF Single
<1>9. ASSUME ~halfway', log_number > 1 PROVE Whole(p)' /\ Bounded(p)'
  <2>1. Whole(p) /\ Bounded(p) /\ Shape /\ Order
    BY <1>1, <1>9 DEF Single, IInv, Kept
  <2>2. Limit' = Limit
    BY <1>1 DEF Limit
  <2>3. /\ \A s \in Slots : s # to => file[s] # None
        /\ from # 1 => file[to] = None
    BY <1>1, <1>4, <2>1 DEF Shape
  <2>4. CASE st = "write"
    <3>1. from = log_number /\ from # 1 /\ file' = file
      BY <1>2, <1>4, <1>9, <2>4
    <3>2. Vacant /\ Vacant'
      BY <1>4, <2>3, <3>1 DEF Vacant
    <3>3. \A s \in Names : Size(s)' = Size(s)
      BY <1>1, <3>1 DEF Size, Content
    <3>4. Whole(p)'
      <4>1. \A s \in Names, m \in Nat : Has(s, p, m)' <=> Has(s, p, m)
        BY <1>1, <3>1 DEF Has
      <4>. QED
        BY <1>1, <2>1, <4>1 DEF Whole
    <3>5. Bounded(p)'
      <4>. HIDE DEF Size, Limit, Vacant
      <4>. QED
        BY <1>1, <1>3, <1>5, <2>1, <2>2, <2>4, <3>2, <3>3 DEF Bounded
    <3>. QED
      BY <3>4, <3>5
  <2>5. CASE st = "shift"
    <3>1. from \in Slots /\ from # to /\ file[from] # None /\ file' = Renamed(from, to)
      BY <1>4, <2>3, <2>5
    <3>2. /\ file'[to] = file[from] /\ file'[from] = None
          /\ \A s \in Names : s # to /\ s # from => file'[s] = file[s]
      BY <1>5, <3>1, RenamedFiles DEF IInv
    <3>3. /\ Size(from)' = 0 /\ Size(to)' = Size(from)
          /\ \A s \in Names : s # from /\ s # to => Size(s)' = Size(s)
      <4>1. Len(<<>>) = 0
        OBVIOUS
      <4>. QED
        BY <1>1, <1>5, <3>1, <3>2, <4>1 DEF Size, Content
    <3>4. Bounded(p)'
      <4>. HIDE DEF Size, Limit, Vacant
      <4>. QED
        BY <1>1, <1>3, <1>5, <2>1, <2>2, <2>5, <3>1, <3>3 DEF Bounded
    <3>5. CASE from # 1
      <4>1. file[to] = None
        BY <2>3, <3>5
      <4>2. Whole(p)'
        BY <1>1, <1>5, <2>1, <3>1, <4>1, RenamedWhole DEF IInv
      <4>. QED
        BY <3>4, <4>2
    <3>6. CASE from = 1
\* What path.0 held is lost, and it was the oldest.
      <4>1. to = 0
        BY <1>4, <3>6
      <4>2. ASSUME NEW s \in Names, NEW m \in Nat, Has(s, p, m)'
            PROVE  \E t \in Names : t # to /\ Has(t, p, m)
        <5>1. CASE s = to
          BY <1>1, <1>5, <3>1, <3>2, <4>2, <5>1, SMTT(30) DEF Has
        <5>2. CASE s # to
          <6>1. s # from
            BY <3>2, <4>2 DEF Has
          <6>. QED
            BY <1>1, <3>2, <4>2, <5>2, <6>1 DEF Has
        <5>. QED
          BY <5>1, <5>2
      <4>3. ASSUME NEW t \in Names, NEW m \in Nat, t # to, Has(t, p, m)
            PROVE  \E s \in Names : Has(s, p, m)'
        <5>1. CASE t = from
          <6>1. Has(to, p, m)'
            BY <1>1, <1>5, <3>1, <3>2, <4>3, <5>1 DEF Has
          <6>. QED
            BY <1>5, <6>1
        <5>2. CASE t # from
          <6>1. Has(t, p, m)'
            BY <1>1, <3>2, <4>3, <5>2 DEF Has
          <6>. QED
            BY <6>1
        <5>. QED
          BY <5>1, <5>2
      <4>4. \A t \in Names : t # to => to < t
        BY <4>1 DEF Names
      <4>5. ASSUME NEW s \in Names, NEW m \in Nat, Has(s, p, m)', NEW n \in m .. written[p]
            PROVE  \E t \in Names : Has(t, p, n)'
        <5>1. PICK t \in Names : t # to /\ Has(t, p, m)
          BY <4>2, <4>5
        <5>2. n \in Nat /\ m <= n
          OBVIOUS
        <5>3. PICK u \in Names : Has(u, p, n)
          BY <2>1, <4>5, <5>1 DEF Whole
        <5>4. u # to
          <6>. SUFFICES ASSUME u = to PROVE FALSE
            OBVIOUS
          <6>1. n < m
            BY <1>5, <2>1, <4>4, <5>1, <5>2, <5>3 DEF Order
          <6>. QED
            BY <5>2, <6>1
        <5>. QED
          BY <4>3, <5>2, <5>3, <5>4
      <4>6. Whole(p)'
        BY <1>1, <4>5 DEF Whole
      <4>. QED
        BY <3>4, <4>6
    <3>. QED
      BY <3>5, <3>6
  <2>. QED
    BY <2>4, <2>5
<1>. QED
  BY <1>8, <1>9 DEF Single

LEMMA OpenSingle ==
    ASSUME LogAssumption, IInv, NEW p \in Writers, Writers = {p}, Single(p), Open(p)
    PROVE  Single(p)'
<1>1. /\ pc[p] = "open" /\ pc' = [pc EXCEPT ![p] = "write"]
      /\ UNCHANGED <<written, faults, halfway, overlap>>
  BY DEF Open, Goto
<1>2. /\ Current \in Names /\ Limit \in Nat
      /\ log_number - 1 \in Names /\ log_number - 1 # Current
      /\ \A s \in Names : Size(s) \in Nat
  BY Numbers DEF IInv
<1>3. PICK f \in Inodes :
        /\ fd' = [fd EXCEPT ![p] = f] /\ file' = [file EXCEPT ![Current] = f]
        /\ \A s \in Names : file[s] # None => lines'[file[s]] = lines[file[s]]
        /\ \/ f = file[Current]
           \/ file[Current] = None /\ lines'[f] = <<>>
  BY Opened DEF IInv
<1>4. /\ pc'[p] = "write" /\ fd'[p] = f /\ file'[Current] = f /\ f # None
      /\ \A s \in Names : s # Current => file'[s] = file[s]
  BY <1>1, <1>2, <1>3 DEF IInv, TypeInv, LogAssumption
<1>5. ~overlap' /\ (fd'[p] # None => fd'[p] = file'[Current])
  BY <1>1, <1>4 DEF Single
<1>6. \A s \in Names : s # Current => Size(s)' = Size(s)
  BY <1>3, <1>4 DEF Size, Content
<1>7. Size(Current)' \in {Size(Current), 0}
  <2>1. CASE f = file[Current]
    <3>1. lines'[f] = lines[f] /\ Content(Current) = lines[f]
      BY <1>2, <1>3, <1>4, <2>1 DEF Content
    <3>2. Content(Current)' = lines'[f]
      BY <1>4 DEF Content
    <3>. QED
      BY <3>1, <3>2 DEF Size
  <2>2. CASE lines'[f] = <<>>
    <3>1. Size(Current)' = Len(<<>>)
      BY <1>4, <2>2 DEF Size, Content
    <3>. QED
      BY <3>1
  <2>. QED
    BY <1>3, <2>1, <2>2
<1>8. \A s \in Names, m \in Nat : Has(s, p, m)' <=> Has(s, p, m)
  <2>. SUFFICES ASSUME NEW s \in Names, NEW m \in Nat
               PROVE  Has(s, p, m)' <=> Has(s, p, m)
    OBVIOUS
  <2>1. CASE s # Current \/ f = file[Current]
    <3>1. file'[s] = file[s]
      BY <1>4, <2>1
    <3>2. file[s] # None => lines'[file[s]] = lines[file[s]]
      BY <1>3
    <3>. QED
      BY <3>1, <3>2 DEF Has
  <2>2. CASE s = Current /\ file[Current] = None /\ lines'[f] = <<>>
    <3>1. 1 .. Len(<<>>) = {}
      OBVIOUS
    <3>. QED
      BY <1>4, <2>2, <3>1 DEF Has
  <2>. QED
    BY <1>3, <2>1, <2>2
<1>9. Whole(p) => Whole(p)'
  BY <1>1, <1>8 DEF Whole
<1>10. Vacant' = Vacant
  BY <1>2, <1>4 DEF Vacant
<1>11. Limit' = Limit
  BY <1>1 DEF Limit
<1>12. Bounded(p) => Bounded(p)'
  <2>. HIDE DEF Size, Limit, Vacant
  <2>1. /\ Size(Current)' \in Nat /\ Size(Current)' <= Size(Current)
        /\ Size(Current) \in Nat
    BY <1>2, <1>7
  <2>. QED
    BY <1>1, <1>2, <1>4, <1>6, <1>10, <1>11, <2>1 DEF Bounded
<1>. QED
  BY <1>1, <1>5, <1>9, <1>12 DEF Single

LEMMA WriteSingle ==
    ASSUME LogAssumption, IInv, NEW p \in Writers, Writers = {p}, Single(p), Write(p)
    PROVE  Single(p)'
<1>1. /\ pc[p] = "write" /\ pc' = [pc EXCEPT ![p] = "idle"]
      /\ UNCHANGED <<fd, file, faults, halfway, overlap>>
  BY DEF Write, Goto
<1>2. /\ Current \in Names /\ Limit \in Nat /\ \A s \in Names : Size(s) \in Nat
  BY Numbers DEF IInv
<1>3. /\ pc'[p] = "idle" /\ fd[p] # None /\ fd[p] = file[Current]
  BY <1>1 DEF IInv, TypeInv, Located, Single
<1>4. ~overlap' /\ (fd'[p] # None => fd'[p] = file'[Current])
  BY <1>1 DEF Single
<1>5. \A s \in Names : s # Current => Size(s)' = Size(s)
  <2>. SUFFICES ASSUME NEW s \in Names, s # Current PROVE Size(s)' = Size(s)
    OBVIOUS
  <2>1. CASE file[s] = None
    BY <1>1, <2>1 DEF Size, Content
  <2>2. CASE file[s] # None
    <3>1. file[s] # fd[p] /\ file[s] \in Inodes
      BY <1>2, <1>3, <2>2 DEF IInv, Apart, TypeInv
    <3>2. lines'[file[s]] = lines[file[s]]
      BY <3>1, Logged
    <3>. QED
      BY <1>1, <2>2, <3>2 DEF Size, Content
  <2>. QED
    BY <2>1, <2>2
<1>6. Size(Current)' = Size(Current) + 1
  <2>1. Len(lines'[fd[p]]) = Len(lines[fd[p]]) + 1
    BY Logged
  <2>. QED
    BY <1>1, <1>3, <2>1 DEF Size, Content
<1>7. Limit' = Limit /\ Vacant' = Vacant
  BY <1>1 DEF Limit, Vacant
<1>8. Bounded(p) => Bounded(p)'
  <2>. HIDE DEF Size, Limit, Vacant
  <2>. QED
    BY <1>1, <1>2, <1>3, <1>5, <1>6, <1>7 DEF Bounded
<1>9. PICK v \in Nat : v = written[p]
  BY DEF IInv, TypeInv
<1>10. written'[p] = v + 1
  BY <1>9 DEF Write, IInv, TypeInv
<1>11. \A s \in Names, m \in Nat :
         Has(s, p, m)' <=> Has(s, p, m) \/ (m = v + 1 /\ file[s] = fd[p])
  BY <1>9, HasLogged
<1>12. ASSUME Whole(p) PROVE Whole(p)'
  <2>. SUFFICES ASSUME NEW s \in Names, NEW m \in Nat, Has(s, p, m)', NEW n \in m .. v + 1
               PROVE  \E t \in Names : Has(t, p, n)'
    BY <1>10 DEF Whole
  <2>1. n \in Nat /\ m <= n /\ n <= v + 1
    OBVIOUS
  <2>2. CASE n = v + 1
    BY <1>2, <1>3, <1>11, <2>1, <2>2
  <2>3. CASE n # v + 1
    <3>1. n \in m .. v /\ m # v + 1
      BY <2>1, <2>3
    <3>2. Has(s, p, m)
      BY <1>11, <3>1
    <3>3. PICK t \in Names : Has(t, p, n)
      BY <1>9, <1>12, <3>1, <3>2 DEF Whole
    <3>. QED
      BY <1>11, <2>1, <3>3
  <2>. QED
    BY <2>2, <2>3
<1>. QED
  BY <1>1, <1>4, <1>8, <1>12 DEF Single

LEMMA InitSingle ==
    ASSUME LogAssumption, Init, NEW p \in Writers
    PROVE  Single(p)
<1>1. /\ pc[p] = "idle" /\ fd[p] = None /\ overlap = FALSE
      /\ \A s \in Names : file[s] = None
  BY DEF Init
<1>2. TypeInv
  BY InitInv DEF IInv
<1>3. Whole(p)
  BY <1>1 DEF Whole, Has
<1>4. \A s \in Names : Size(s) = 0
  <2>1. \A s \in Names : Content(s) = <<>>
    BY <1>1 DEF Content
  <2>2. Len(<<>>) = 0
    OBVIOUS
  <2>. QED
    BY <2>1, <2>2 DEF Size
<1>5. Bounded(p)
  <2>1. Current \in Names /\ Limit \in Nat
    BY <1>2, Numbers
  <2>. HIDE DEF Size, Limit, Vacant
  <2>. QED
    BY <1>1, <1>4, <2>1 DEF Bounded
<1>. QED
  BY <1>1, <1>3, <1>5 DEF Single

LEMMA NextSingle ==
    ASSUME LogAssumption, IInv, IInv', NEW p \in Writers, Writers = {p}, Single(p),
           [Next]_vars
    PROVE  Single(p)'
<1>1. CASE UNCHANGED vars
  <2>1. UNCHANGED <<pc, i, fd, file, lines, written, faults, halfway, overlap>>
    BY <1>1 DEF vars
  <2>2. Limit' = Limit
    BY <2>1 DEF Limit
  <2>3. ASSUME Bounded(p), \A s \in Names : Size(s)' = Size(s), Vacant' = Vacant
        PROVE  Bounded(p)'
    <3>1. Current \in Names
      BY Numbers DEF IInv
    <3>. HIDE DEF Size, Limit, Vacant
    <3>. QED
      BY <2>1, <2>2, <2>3, <3>1 DEF Bounded
  <2>. QED
    BY <2>1, <2>3, SingleMoves
<1>2. CASE Next
  <2>1. \/ Call(p) \/ Scan(p) \/ Rename(p) \/ Shift(p) \/ Open(p) \/ Write(p)
        \/ GivesUp(p) \/ Dies(p)
    BY <1>2 DEF Next
  <2>. QED
    BY <2>1, CallSingle, ScanSingle, RenameSingle, ShiftSingle, OpenSingle, WriteSingle,
       GivesUpSingle, DiesSingle
<1>. QED
  BY <1>1, <1>2

\* A line that is somewhere is found by a reader.
LEMMA Found ==
    ASSUME NEW s \in Names, NEW q, NEW m, Has(s, q, m)
    PROVE  \E b \in Places : LineAt(b) = <<q, m>>
<1>1. PICK j \in 1 .. Len(lines[file[s]]) : lines[file[s]][j] = <<q, m>>
  BY DEF Has
<1>2. Content(s) = lines[file[s]]
  BY DEF Has, Content
<1>3. <<s, j>> \in Places
  BY <1>1, <1>2 DEF Places
<1>4. LineAt(<<s, j>>) = <<q, m>>
  BY <1>1, <1>2 DEF LineAt
<1>. QED
  BY <1>3, <1>4

LEMMA SingleKeeps ==
    ASSUME LogAssumption, IInv, \A p \in Writers : Writers = {p} => Single(p)
    PROVE  KeepsLatest
<1>. SUFFICES ASSUME NEW p \in Writers, Writers = {p}, log_number > 1, ~halfway
              PROVE  /\ InOrder(p)
                     /\ \A a \in Places : \A n \in LineAt(a)[2] .. written[p] :
                           \E b \in Places : LineAt(b) = <<p, n>>
                     /\ \A s \in Names : Len(Content(s)) <= log_size + 2 + faults
  BY DEF KeepsLatest
<1>1. ~overlap /\ Whole(p) /\ Bounded(p) /\ TypeInv
  BY DEF Single, IInv
<1>2. InOrder(p)
  BY <1>1, IInvInOrder
<1>3. ASSUME NEW a \in Places, NEW n \in LineAt(a)[2] .. written[p]
      PROVE  \E b \in Places : LineAt(b) = <<p, n>>
  <2>1. /\ a[1] \in Names /\ LineAt(a) \in Writers \X Nat
        /\ Has(a[1], LineAt(a)[1], LineAt(a)[2])
    BY <1>1, HasLine
  <2>2. PICK s \in Names, m \in Nat : /\ s = a[1] /\ m = LineAt(a)[2]
                                      /\ Has(s, p, m)
    BY <2>1
  <2>3. n \in m .. written[p] /\ n \in Nat
    BY <2>2
  <2>4. PICK t \in Names : Has(t, p, n)
    BY <1>1, <2>2, <2>3 DEF Whole
  <2>. QED
    BY <2>4, Found
<1>4. \A s \in Names : Len(Content(s)) <= log_size + 2 + faults
  <2>1. \A s \in Names : Size(s) \in Nat /\ Size(s) <= log_size + faults + 2
    BY <1>1, Numbers DEF Bounded, Limit
  <2>2. log_size \in Nat /\ faults \in Nat
    BY <1>1 DEF LogAssumption, TypeInv
  <2>. HIDE DEF Size
  <2>3. \A s \in Names : Size(s) <= log_size + 2 + faults
    BY <2>1, <2>2
  <2>. QED
    BY <2>3 DEF Size
<1>. QED
  BY <1>2, <1>3, <1>4

\* A single process keeps its latest lines, in order and without a gap, and no
\* file grows beyond log_size by more than two lines and one for each failure,
\* unless it is killed within a shift (log.c:37-95, 117-152).
THEOREM Latest == ASSUME LogAssumption PROVE Spec => []KeepsLatest
<1>. DEFINE Alive == IInv /\ \A p \in Writers : Writers = {p} => Single(p)
<1>1. Init => Alive
  BY InitInv, InitSingle
<1>2. Alive /\ [Next]_vars => Alive'
  <2>. SUFFICES ASSUME Alive, [Next]_vars PROVE Alive'
    OBVIOUS
  <2>1. IInv'
    BY NextInv
  <2>2. ASSUME NEW p \in Writers, Writers = {p} PROVE Single(p)'
    BY <2>1, <2>2, NextSingle
  <2>. QED
    BY <2>1, <2>2
<1>3. Alive => KeepsLatest
  BY SingleKeeps
<1>. HIDE DEF Alive
<1>. QED
  BY <1>1, <1>2, <1>3, PTL DEF Spec
=============================================================================
