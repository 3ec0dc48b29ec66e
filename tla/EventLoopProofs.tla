-------------------------- MODULE EventLoopProofs --------------------------
(***************************************************************************)
(* Proofs about EventLoop, for any number of descriptors, whatever closes  *)
(* and is accepted within a round.  InSync is inductive with the types and *)
(* with the two descriptors that are never closed.  How long a client may  *)
(* be idle follows from how old the clock and access_time can be at each   *)
(* place of the loop.                                                      *)
(***************************************************************************)
EXTENDS EventLoop, WellFoundedInduction, TLAPS

\* The pipe and the listening socket stay registered.
AlwaysThere == "r" \in mask[Notifier] /\ "r" \in mask[Listen]

\* A connection that was reported is still there to be accepted.
Expected == "r" \in fired[Listen] => backlog > 0

IInv == TypeOK /\ AlwaysThere /\ Expected /\ InSync

-----------------------------------------------------------------------------
\* A set of naturals that is not empty has the least element Min chooses.
LEMMA MinIsLeast ==
    ASSUME NEW S, S \subseteq Nat, S # {}
    PROVE  Min(S) \in S /\ \A y \in S : Min(S) <= y
<1> DEFINE R == OpToRel(<, Nat)
<1>1. PICK x \in S : \A y \in S : <<y, x>> \notin R
    <2> HIDE DEF R
    <2>1. IsWellFoundedOn(R, Nat)
        BY NatLessThanWellFounded DEF R
    <2> QED
        BY <2>1, WFMin
<1>2. ASSUME NEW y \in S PROVE x <= y
    <2>1. <<y, x>> \in Nat \X Nat /\ ~ (y < x)
        BY <1>1 DEF OpToRel
    <2> QED
        BY <2>1
<1> QED
    BY <1>2 DEF Min

\* An element no other exceeds is the one Max chooses.
LEMMA MaxIs ==
    ASSUME NEW S, S \subseteq Int, NEW m \in S, \A y \in S : y <= m
    PROVE  Max(S) = m
<1>1. PICK x \in S : \A y \in S : x >= y
    OBVIOUS
<1>2. Max(S) \in S /\ \A y \in S : Max(S) >= y
    BY <1>1 DEF Max
<1>3. Max(S) \in Int /\ m \in Int /\ Max(S) >= m /\ m >= Max(S)
    BY <1>2
<1> QED
    BY <1>3

\* A set of descriptors that is not empty has a greatest.
LEMMA MaxExists ==
    ASSUME NEW n \in Nat, NEW S, S \subseteq -1 .. n, S # {}
    PROVE  Max(S) \in S /\ \A y \in S : y <= Max(S)
<1> DEFINE T == {n - x : x \in S}
<1>1. T \subseteq Nat /\ T # {}
    <2>1. ASSUME NEW x \in S PROVE n - x \in Nat
        OBVIOUS
    <2> QED
        BY <2>1
<1>2. PICK x \in S : Min(T) = n - x
    BY <1>1, MinIsLeast
<1>3. ASSUME NEW y \in S PROVE y <= x
    <2>1. n - x <= n - y
        BY <1>1, <1>2, MinIsLeast
    <2> QED
        BY <2>1
<1>4. S \subseteq Int
    OBVIOUS
<1>5. Max(S) = x
    BY <1>3, <1>4, MaxIs
<1> QED
    BY <1>3, <1>5
-----------------------------------------------------------------------------
\* Highest is a registered descriptor that no other exceeds.
LEMMA HighestIs ==
    ASSUME NEW m \in [Fds -> Events], Registered(m) # {}
    PROVE  /\ Highest(m) \in Registered(m)
           /\ \A fd \in Registered(m) : fd <= Highest(m)
<1>1. Registered(m) \subseteq -1 .. SetSize - 1
    BY Bounds DEF Registered, Fds
<1> QED
    BY <1>1, MaxExists, Bounds DEF Highest

LEMMA HighestUnique ==
    ASSUME NEW m \in [Fds -> Events], NEW h \in Registered(m),
           \A fd \in Registered(m) : fd <= h
    PROVE  Highest(m) = h
<1>1. Registered(m) \subseteq Int /\ Registered(m) # {}
    BY Bounds DEF Registered, Fds
<1> QED
    BY <1>1, MaxIs DEF Highest

\* Whatever one handler watches and closes, the table and the epoll set stay
\* the same, and maxfd the highest of them.
LEMMA Retabled ==
    ASSUME TypeOK, AlwaysThere, InSync,
           NEW watched \in SUBSET ClientFds, NEW gone \in SUBSET ClientFds,
           NEW evs \in Events, watched # {} => evs # {},
           watched \cap gone = {},
           Retable(watched, evs, gone)
    PROVE  /\ mask' = Masks(watched, evs, gone) /\ mask' \in [Fds -> Events]
           /\ owner' \in [Fds -> {"none", "live", "freed"}]
           /\ interest' = mask'
           /\ AlwaysThere'
           /\ maxfd' = Highest(mask') /\ maxfd' \in Fds
<1> USE Bounds DEF ClientFds, Fds, Notifier, Listen, AlwaysThere, InSync, TypeOK
<1>1. mask' = Masks(watched, evs, gone) /\ mask' \in [Fds -> Events]
    BY DEF Retable, Masks, Events
<1>2. interest' = mask'
    BY <1>1 DEF Retable, Masks
<1>3. owner' \in [Fds -> {"none", "live", "freed"}]
    BY DEF Retable
<1>4. AlwaysThere'
    BY <1>1 DEF Masks
<1>5. Registered(mask') = (Registered(mask) \cup watched) \ gone
    <2>1. \A fd \in Fds :
              mask'[fd] # {} <=> (mask[fd] # {} \/ fd \in watched) /\ fd \notin gone
        BY <1>1 DEF Masks
    <2>2. DOMAIN mask = Fds /\ DOMAIN mask' = Fds
        BY <1>1
    <2>3. watched \subseteq Fds
        OBVIOUS
    <2> HIDE DEF ClientFds, Fds, AlwaysThere, InSync, TypeOK
    <2> QED
        BY <2>1, <2>2, <2>3 DEF Registered
<1>6. Notifier \in Registered(mask) /\ Notifier \in Registered(mask')
    BY <1>1, <1>4 DEF Registered
<1>7. maxfd \in Registered(mask) /\ \A fd \in Registered(mask) : fd <= maxfd
    BY <1>6, HighestIs
<1>8. maxfd' = Highest(mask')
    <2>1. CASE maxfd \in gone
        BY <2>1, <1>1 DEF Retable, MaxFd
    <2>2. CASE maxfd \notin gone
        <3> DEFINE S == watched \cup {maxfd}
        <3>1. S \subseteq -1 .. SetSize - 1 /\ S # {}
            <4>1. maxfd \in Fds
                BY <1>7 DEF Registered
            <4>2. ASSUME NEW fd \in watched PROVE fd \in -1 .. SetSize - 1
                OBVIOUS
            <4>3. maxfd \in -1 .. SetSize - 1
                BY <4>1
            <4> HIDE DEF ClientFds, Fds, AlwaysThere, InSync, TypeOK
            <4> QED
                BY <4>2, <4>3
        <3>2. Max(S) \in S /\ \A fd \in S : fd <= Max(S)
            <4> HIDE DEF S
            <4>1. SetSize - 1 \in Nat
                OBVIOUS
            <4> QED
                BY <3>1, <4>1, MaxExists
        <3>3. maxfd' = Max(S)
            BY <2>2 DEF Retable, MaxFd
        <3>4. maxfd' \in Registered(mask')
            BY <3>2, <3>3, <2>2, <1>5, <1>7
        <3>5. ASSUME NEW fd \in Registered(mask') PROVE fd <= maxfd'
            <4>1. CASE fd \in watched
                BY <4>1, <3>2, <3>3
            <4>2. CASE fd \in Registered(mask)
                <5>1. fd <= maxfd /\ maxfd <= maxfd'
                    BY <4>2, <1>7, <3>2, <3>3
                <5> QED
                    BY <5>1, <4>2, <3>1, <3>2, <3>3 DEF Registered
            <4> QED
                BY <4>1, <4>2, <1>5
        <3> QED
            BY <3>4, <3>5, <1>1, HighestUnique
    <2> QED
        BY <2>1, <2>2
<1>9. maxfd' \in Fds
    BY <1>8, <1>6, <1>1, HighestIs DEF Registered
<1> QED
    BY <1>1, <1>2, <1>3, <1>4, <1>8, <1>9
-----------------------------------------------------------------------------
\* The clients that one handler watches and closes.
LEMMA WatchedAndClosed ==
    ASSUME IInv,
           NEW watched \in SUBSET open, NEW gone \in SUBSET open,
           NEW evs \in Events, watched # {} => evs # {},
           watched \cap gone = {},
           WatchAndClose(watched, evs, gone)
    PROVE  /\ AlwaysThere' /\ InSync'
           /\ mask' \in [Fds -> Events] /\ interest' \in [Fds -> Events]
           /\ owner' \in [Fds -> {"none", "live", "freed"}]
           /\ maxfd' \in Fds
           /\ open' \subseteq open /\ waiting' \subseteq open'
           /\ age' \in [ClientFds -> 0 .. Epoch]
           /\ idle' \in [ClientFds -> 0 .. OldIdle]
<1> USE DEF IInv
<1>1. watched \in SUBSET ClientFds /\ gone \in SUBSET ClientFds
    BY DEF TypeOK
<1>2. /\ mask' = Masks(watched, evs, gone) /\ mask' \in [Fds -> Events]
      /\ owner' \in [Fds -> {"none", "live", "freed"}]
      /\ interest' = mask'
      /\ AlwaysThere'
      /\ maxfd' = Highest(mask') /\ maxfd' \in Fds
    BY <1>1, Retabled DEF WatchAndClose
<1>3. open' = open \ gone /\ waiting' = waiting \ gone
    BY DEF WatchAndClose
<1>4. \A fd \in ClientFds : /\ mask'[fd] # {} <=> fd \in open'
                            /\ fd \in open' => owner'[fd] = "live" /\ "r" \in mask'[fd]
    <2> SUFFICES ASSUME NEW fd \in ClientFds
                 PROVE  /\ mask'[fd] # {} <=> fd \in open'
                        /\ fd \in open' => owner'[fd] = "live" /\ "r" \in mask'[fd]
        OBVIOUS
    <2>1. fd \in Fds
        BY Bounds DEF ClientFds, Fds
    <2> QED
        BY <2>1, <1>2, <1>3 DEF InSync, Masks, WatchAndClose, Retable
<1>5. age' \in [ClientFds -> 0 .. Epoch] /\ idle' \in [ClientFds -> 0 .. OldIdle]
    BY Bounds DEF WatchAndClose, TypeOK, Epoch, OldAccess, OldIdle
<1> QED
    BY <1>2, <1>3, <1>4, <1>5 DEF InSync, TypeOK
\* accept gives a descriptor that is not in use.
LEMMA FreshDescriptor ==
    ASSUME TypeOK, Fits(LowestFree)
    PROVE  LowestFree \in ClientFds \ open
<1>1. (2 .. SetSize) \ open \subseteq Nat /\ SetSize \in (2 .. SetSize) \ open
    BY Bounds DEF TypeOK, ClientFds
<1>2. LowestFree \in (2 .. SetSize) \ open
    <2> DEFINE S == (2 .. SetSize) \ open
    <2>1. S \subseteq Nat /\ S # {}
        BY <1>1
    <2> HIDE DEF S
    <2>2. Min(S) \in S
        BY <2>1, MinIsLeast
    <2> QED
        BY <2>2 DEF S, LowestFree
<1> QED
    BY <1>2, Bounds DEF Fits, ClientFds

\* The loop over fired, whichever handler it calls.
LEMMA Turned ==
    ASSUME TypeOK, NEW fd \in Fds, NEW ev, Turn(fd, ev)
    PROVE  /\ fired' \in [Fds -> Events] /\ at' \in Fds \cup {None}
           /\ phase' = phase /\ quit' = quit
           /\ fired'[Listen] \subseteq fired[Listen]
           /\ ev \notin fired'[fd]
           /\ fd = Listen => ev \in fired[Listen]
BY Bounds DEF TypeOK, Turn, Events, Fds, Listen

\* close_client of one client.
LEMMA ClosedOne ==
    ASSUME IInv, NEW fd \in open, Close({fd})
    PROVE  /\ AlwaysThere' /\ InSync'
           /\ mask' \in [Fds -> Events] /\ interest' \in [Fds -> Events]
           /\ owner' \in [Fds -> {"none", "live", "freed"}]
           /\ maxfd' \in Fds
           /\ open' \subseteq open /\ waiting' \subseteq open'
           /\ age' \in [ClientFds -> 0 .. Epoch]
           /\ idle' \in [ClientFds -> 0 .. OldIdle]
<1>1. WatchAndClose({}, {}, {fd}) /\ {} \in Events
    BY DEF Close, Events
<1> QED
    BY <1>1, WatchedAndClosed

\* The access time of a client after a read or a write.
LEMMA AccessedTypes ==
    ASSUME TypeOK, NEW fd \in ClientFds, Accessed(fd)
    PROVE  age' \in [ClientFds -> 0 .. Epoch] /\ idle' \in [ClientFds -> 0 .. OldIdle]
BY Bounds DEF TypeOK, Accessed, Touch, Epoch, OldAccess, OldIdle, Unset

\* Every step keeps the invariant.
LEMMA StepKeepsIInv ==
    ASSUME IInv, [Next]_vars
    PROVE  IInv'
<1> USE Bounds DEF IInv, table, world, time
<1>1. ASSUME Top PROVE IInv'
    BY <1>1 DEF Top, TypeOK, AlwaysThere, Expected, InSync
<1>2. ASSUME Poll PROVE IInv'
    <2>1. fired' \in [Fds -> Events]
        BY <1>2 DEF Poll, Reported, TypeOK, Events
    <2>2. Expected'
        <3>1. Listen \in Fds /\ Listen # Notifier /\ Listen \notin open
            BY DEF Listen, Notifier, Fds, ClientFds, TypeOK
        <3>2. "r" \in fired'[Listen] => "r" \in Ready(Listen)
            BY <3>1, <1>2 DEF Poll, Reported
        <3>3. "r" \in Ready(Listen) => backlog > 0
            BY <3>1 DEF Ready
        <3> QED
            BY <3>2, <3>3, <1>2 DEF Poll, Expected
    <2> QED
        BY <2>1, <2>2, <1>2 DEF Poll, TypeOK, AlwaysThere, InSync
<1>3. ASSUME FilesDone PROVE IInv'
    BY <1>3 DEF FilesDone, TypeOK, AlwaysThere, Expected, InSync
<1>4. ASSUME NotDue PROVE IInv'
    BY <1>4 DEF NotDue, TypeOK, AlwaysThere, Expected, InSync
<1>5. ASSUME ServerCron PROVE IInv'
    <2> DEFINE late == {fd \in open : Expired(fd)}
    <2>1. WatchAndClose({}, {}, late) /\ late \in SUBSET open /\ {} \in Events
        BY <1>5 DEF ServerCron, Close, Events
    <2> HIDE DEF late
    <2>2. /\ AlwaysThere' /\ InSync'
          /\ mask' \in [Fds -> Events] /\ interest' \in [Fds -> Events]
          /\ owner' \in [Fds -> {"none", "live", "freed"}]
          /\ maxfd' \in Fds
          /\ open' \subseteq open /\ waiting' \subseteq open'
          /\ age' \in [ClientFds -> 0 .. Epoch]
          /\ idle' \in [ClientFds -> 0 .. OldIdle]
        BY <2>1, WatchedAndClosed
    <2>3. lag' \in (0 .. OldAccess) \cup {Unset} /\ left' \in {0, 1, NoTimer}
        BY <1>5 DEF ServerCron, OldAccess, CronReturn
    <2> QED
        BY <2>2, <2>3, <1>5 DEF ServerCron, TypeOK, Expected
<1>6. ASSUME NEW fd \in Fds, NEW ev \in {"r", "w"}, Skip(fd, ev) PROVE IInv'
    BY <1>6, Turned DEF Skip, TypeOK, AlwaysThere, Expected, InSync
<1>7. ASSUME Accept PROVE IInv'
    <2> DEFINE fd == LowestFree
    <2>1. fd \in ClientFds /\ fd \notin open /\ fd \in Fds
        BY <1>7, FreshDescriptor DEF Accept, ClientFds, Fds
    <2>2. PICK evs \in {{"r"}, {"r", "w"}} : Retable({fd}, evs, {})
        BY <1>7 DEF Accept
    <2> HIDE DEF fd
    <2>3. /\ mask' = Masks({fd}, evs, {}) /\ mask' \in [Fds -> Events]
          /\ owner' \in [Fds -> {"none", "live", "freed"}]
          /\ interest' = mask'
          /\ AlwaysThere'
          /\ maxfd' = Highest(mask') /\ maxfd' \in Fds
        <3>1. evs \in Events /\ evs # {} /\ {fd} \in SUBSET ClientFds /\ {} \in SUBSET ClientFds
            BY <2>1 DEF Events
        <3> QED
            BY <3>1, <2>2, Retabled
    <2>4. open' = open \cup {fd} /\ waiting' = waiting
        BY <1>7 DEF Accept, fd
    <2>5. ASSUME NEW c \in ClientFds
          PROVE  /\ mask'[c] # {} <=> c \in open'
                 /\ c \in open' => owner'[c] = "live" /\ "r" \in mask'[c]
        <3>1. c \in Fds
            BY DEF ClientFds, Fds
        <3>2. mask'[c] = (IF c = fd THEN mask[c] \cup evs ELSE mask[c])
            BY <2>3, <3>1 DEF Masks
        <3>3. owner'[c] = (IF c = fd THEN "live" ELSE owner[c])
            BY <2>2, <3>1 DEF Retable
        <3> QED
            BY <3>2, <3>3, <2>4 DEF InSync
    <2>6. Turn(Listen, "r") /\ Listen \in Fds
        BY <1>7 DEF Accept, Handle, Listen, Fds
    <2>7. fired' \in [Fds -> Events] /\ at' \in Fds \cup {None} /\ phase' = phase /\ quit' = quit
          /\ "r" \notin fired'[Listen] /\ backlog > 0
        BY <2>6, Turned DEF Expected
    <2>8. backlog' \in 0 .. Backlog /\ notified' = notified /\ left' = left /\ lag' = lag /\ spent' = spent
        BY <2>7, <1>7 DEF Accept, TypeOK
    <2>9. age' \in [ClientFds -> 0 .. Epoch] /\ idle' \in [ClientFds -> 0 .. OldIdle]
        BY <1>7, <2>1 DEF Accept, Touch, TypeOK, Epoch, OldAccess, OldIdle, Unset, fd
    <2>10. open' \subseteq ClientFds /\ waiting' \subseteq open'
        BY <2>1, <2>4 DEF TypeOK
    <2> QED
        BY <2>3, <2>5, <2>7, <2>8, <2>9, <2>10 DEF TypeOK, InSync, Expected
<1>8. ASSUME AcceptRefused PROVE IInv'
    <2>1. Turn(Listen, "r") /\ Listen \in Fds
        BY <1>8 DEF AcceptRefused, Handle, Listen, Fds
    <2>2. fired' \in [Fds -> Events] /\ at' \in Fds \cup {None} /\ phase' = phase /\ quit' = quit
          /\ "r" \notin fired'[Listen] /\ backlog > 0
        BY <2>1, Turned DEF Expected
    <2>3. /\ owner' \in [Fds -> {"none", "live", "freed"}]
          /\ \A fd \in open : owner'[fd] = owner[fd]
        <3>1. CASE Fits(LowestFree)
            <4>1. owner' = [owner EXCEPT ![LowestFree] = "freed"]
                BY <3>1, <1>8 DEF AcceptRefused
            <4>2. LowestFree \in ClientFds \ open
                BY <3>1, FreshDescriptor
            <4>3. open \subseteq ClientFds /\ ClientFds \subseteq Fds
                BY DEF TypeOK, ClientFds, Fds
            <4> QED
                BY <4>1, <4>2, <4>3 DEF TypeOK
        <3>2. CASE ~Fits(LowestFree)
            BY <3>2, <1>8 DEF AcceptRefused, TypeOK
        <3> QED
            BY <3>1, <3>2
    <2>4. backlog' \in 0 .. Backlog
        BY <2>2, <1>8 DEF AcceptRefused, TypeOK
    <2> QED
        BY <2>2, <2>3, <2>4, <1>8 DEF AcceptRefused, TypeOK, AlwaysThere, Expected, InSync
<1>9. ASSUME NEW answered \in SUBSET open, NEW failed \in SUBSET (open \ answered),
             NotifierHandler(answered, failed)
      PROVE  IInv'
    <2>1. WatchAndClose(answered, {"w"}, failed) /\ {"w"} \in Events /\ answered \cap failed = {}
        BY <1>9 DEF NotifierHandler, Events
    <2>2. /\ AlwaysThere' /\ InSync'
          /\ mask' \in [Fds -> Events] /\ interest' \in [Fds -> Events]
          /\ owner' \in [Fds -> {"none", "live", "freed"}]
          /\ maxfd' \in Fds
          /\ open' \subseteq open /\ waiting' \subseteq open'
          /\ age' \in [ClientFds -> 0 .. Epoch]
          /\ idle' \in [ClientFds -> 0 .. OldIdle]
        BY <2>1, WatchedAndClosed
    <2>3. Turn(Notifier, "r") /\ Notifier \in Fds
        BY <1>9 DEF NotifierHandler, Handle, Notifier, Fds
    <2>4. fired' \in [Fds -> Events] /\ at' \in Fds \cup {None} /\ phase' = phase /\ quit' = quit
          /\ fired'[Listen] \subseteq fired[Listen]
        BY <2>3, Turned
    <2> QED
        BY <2>2, <2>4, <1>9 DEF NotifierHandler, TypeOK, Expected
<1>10. ASSUME NEW fd \in open, ReadFromClient(fd) PROVE IInv'
    <2>1. fd \in ClientFds /\ fd \in Fds
        BY DEF TypeOK, ClientFds, Fds
    <2>2. fired' \in [Fds -> Events] /\ at' \in Fds \cup {None} /\ phase' = phase /\ quit' = quit
          /\ fired'[Listen] \subseteq fired[Listen]
        BY <2>1, <1>10, Turned DEF ReadFromClient, Handle
    <2>3. CASE Accessed(fd) /\ waiting' = waiting \ {fd} /\ UNCHANGED <<table, open>>
        <3>1. age' \in [ClientFds -> 0 .. Epoch] /\ idle' \in [ClientFds -> 0 .. OldIdle]
            BY <2>1, <2>3, AccessedTypes
        <3> QED
            BY <3>1, <2>2, <2>3, <1>10 DEF ReadFromClient, TypeOK, AlwaysThere, Expected, InSync
    <2>4. CASE Close({fd})
        <3>1. /\ AlwaysThere' /\ InSync'
          /\ mask' \in [Fds -> Events] /\ interest' \in [Fds -> Events]
          /\ owner' \in [Fds -> {"none", "live", "freed"}]
          /\ maxfd' \in Fds
          /\ open' \subseteq open /\ waiting' \subseteq open'
          /\ age' \in [ClientFds -> 0 .. Epoch]
          /\ idle' \in [ClientFds -> 0 .. OldIdle]
            BY <2>4, ClosedOne
        <3> QED
            BY <3>1, <2>2, <1>10 DEF ReadFromClient, TypeOK, Expected
    <2> QED
        BY <2>3, <2>4, <1>10 DEF ReadFromClient
<1>11. ASSUME NEW fd \in open, WriteToClient(fd) PROVE IInv'
    <2>1. fd \in ClientFds /\ fd \in Fds
        BY DEF TypeOK, ClientFds, Fds
    <2>2. fired' \in [Fds -> Events] /\ at' \in Fds \cup {None} /\ phase' = phase /\ quit' = quit
          /\ fired'[Listen] \subseteq fired[Listen]
        BY <2>1, <1>11, Turned DEF WriteToClient, Handle
    <2>3. CASE /\ mask' = [mask EXCEPT ![fd] = @ \ {"w"}]
               /\ interest' = [interest EXCEPT ![fd] = mask'[fd]]
               /\ Accessed(fd)
               /\ UNCHANGED <<owner, maxfd, open, waiting>>
        <3>1. age' \in [ClientFds -> 0 .. Epoch] /\ idle' \in [ClientFds -> 0 .. OldIdle]
            BY <2>1, <2>3, AccessedTypes
        <3>2. mask' \in [Fds -> Events] /\ interest' = mask'
            BY <2>1, <2>3 DEF TypeOK, Events, InSync
        <3>3. \A c \in Fds : mask'[c] # {} <=> mask[c] # {}
            BY <2>1, <2>3 DEF TypeOK, InSync
        <3>4. Registered(mask') = Registered(mask)
            BY <3>2, <3>3 DEF Registered, TypeOK
        <3>5. maxfd' = Highest(mask')
            BY <3>4, <2>3 DEF Highest, InSync
        <3>6. AlwaysThere'
            BY <2>1, <2>3 DEF AlwaysThere, Notifier, Listen, ClientFds, Fds, TypeOK
        <3>7. \A c \in ClientFds : /\ mask'[c] # {} <=> c \in open'
                                   /\ c \in open' => owner'[c] = "live" /\ "r" \in mask'[c]
            BY <2>1, <2>3 DEF InSync, TypeOK
        <3> QED
            BY <3>1, <3>2, <3>5, <3>6, <3>7, <2>2, <2>3, <1>11 DEF WriteToClient, TypeOK, Expected, InSync
    <2>4. CASE Accessed(fd) /\ UNCHANGED <<table, open, waiting>>
        <3>1. age' \in [ClientFds -> 0 .. Epoch] /\ idle' \in [ClientFds -> 0 .. OldIdle]
            BY <2>1, <2>4, AccessedTypes
        <3> QED
            BY <3>1, <2>2, <2>4, <1>11 DEF WriteToClient, TypeOK, AlwaysThere, Expected, InSync
    <2>5. CASE Close({fd})
        <3>1. /\ AlwaysThere' /\ InSync'
          /\ mask' \in [Fds -> Events] /\ interest' \in [Fds -> Events]
          /\ owner' \in [Fds -> {"none", "live", "freed"}]
          /\ maxfd' \in Fds
          /\ open' \subseteq open /\ waiting' \subseteq open'
          /\ age' \in [ClientFds -> 0 .. Epoch]
          /\ idle' \in [ClientFds -> 0 .. OldIdle]
            BY <2>5, ClosedOne
        <3> QED
            BY <3>1, <2>2, <1>11 DEF WriteToClient, TypeOK, Expected
    <2> QED
        BY <2>3, <2>4, <2>5, <1>11 DEF WriteToClient
<1>12. ASSUME Connect PROVE IInv'
    BY <1>12 DEF Connect, TypeOK, AlwaysThere, Expected, InSync
<1>13. ASSUME WorkerNotifies PROVE IInv'
    BY <1>13 DEF WorkerNotifies, TypeOK, AlwaysThere, Expected, InSync
<1>14. ASSUME Quit PROVE IInv'
    BY <1>14 DEF Quit, TypeOK, AlwaysThere, Expected, InSync
<1>15. ASSUME Tick PROVE IInv'
    <2>1. age' \in [ClientFds -> 0 .. Epoch] /\ idle' \in [ClientFds -> 0 .. OldIdle]
        BY <1>15 DEF Tick, Older, TypeOK, Epoch, OldAccess, OldIdle
    <2>2. lag' \in (0 .. OldAccess) \cup {Unset}
        BY <1>15 DEF Tick, Older, TypeOK, OldAccess, Unset
    <2>3. spent' \in 0 .. Delay /\ left' \in {0, 1, NoTimer}
        BY <1>15 DEF Tick, TypeOK, NoTimer
    <2> QED
        BY <2>1, <2>2, <2>3, <1>15 DEF Tick, TypeOK, AlwaysThere, Expected, InSync
<1>16. ASSUME NEW fd \in open, Peer(fd) PROVE IInv'
    BY <1>16 DEF Peer, TypeOK, AlwaysThere, Expected, InSync
<1>17. CASE UNCHANGED vars
    BY <1>17 DEF vars, TypeOK, AlwaysThere, Expected, InSync
<1> QED
    BY <1>1, <1>2, <1>3, <1>4, <1>5, <1>6, <1>7, <1>8, <1>9, <1>10, <1>11, <1>12, <1>13,
       <1>14, <1>15, <1>16, <1>17
    DEF Next, LoopStep
\* The invariant holds in every state.
LEMMA Invariance == Spec => []IInv
<1>1. Init => IInv
    <2> SUFFICES ASSUME Init PROVE IInv
        OBVIOUS
    <2> USE Bounds DEF Init, Fds, ClientFds, Notifier, Listen
    <2>1. mask \in [Fds -> Events] /\ interest \in [Fds -> Events] /\ fired \in [Fds -> Events]
        BY DEF Events
    <2>2. TypeOK
        <3>1. quit \in BOOLEAN /\ notified \in BOOLEAN
            BY Zenon
        <3>2. /\ lag \in (0 .. OldAccess) \cup {Unset} /\ left \in {0, 1, NoTimer}
              /\ spent \in 0 .. Delay /\ backlog \in 0 .. Backlog
            OBVIOUS
        <3>3. age \in [ClientFds -> 0 .. Epoch] /\ idle \in [ClientFds -> 0 .. OldIdle]
            BY DEF Epoch, OldAccess, OldIdle
        <3>4. owner \in [Fds -> {"none", "live", "freed"}] /\ maxfd \in Fds
            OBVIOUS
        <3> QED
            BY <2>1, <3>1, <3>2, <3>3, <3>4 DEF TypeOK
    <2>3. AlwaysThere /\ Expected
        BY DEF AlwaysThere, Expected
    <2>4. maxfd = Highest(mask)
        <3>1. Listen \in Registered(mask) /\ \A fd \in Registered(mask) : fd <= Listen
            BY DEF Registered
        <3> QED
            BY <3>1, <2>1, HighestUnique
    <2>5. InSync
        <3>1. ASSUME NEW fd \in ClientFds PROVE fd \in Fds /\ fd \notin {Notifier, Listen}
            OBVIOUS
        <3>2. \A fd \in ClientFds : mask[fd] = {}
            BY <3>1
        <3>3. open = {} /\ interest = mask
            OBVIOUS
        <3> QED
            BY <2>4, <3>2, <3>3 DEF InSync
    <2> QED
        BY <2>2, <2>3, <2>5 DEF IInv
<1>2. IInv /\ [Next]_vars => IInv'
    BY StepKeepsIInv
<1> QED
    BY <1>1, <1>2, PTL DEF Spec

-----------------------------------------------------------------------------
\* Every variable keeps its type: no descriptor reaches past the tables of
\* AE_SETSIZE (ae.c:76), and no connection is accepted that is not there.
THEOREM TypeCorrect == Spec => []TypeOK
<1>1. IInv => TypeOK
    BY DEF IInv
<1> QED
    BY <1>1, Invariance, PTL

\* The event table, the epoll set, maxfd and the clients agree at all times,
\* however many descriptors are closed and accepted within a round (ae.c:101,
\* conn.c:54).
THEOREM AlwaysInSync == Spec => []InSync
<1>1. IInv => InSync
    BY DEF IInv
<1> QED
    BY <1>1, Invariance, PTL

\* The test of ae.c:363 is enough: an event for a descriptor that has been
\* closed since it was reported finds no client that was freed.
THEOREM NoHandlerOnFreed == Spec => []NoFreedClient
<1>1. IInv => NoFreedClient
    BY DEF IInv, InSync, NoFreedClient, Stale
<1> QED
    BY <1>1, Invariance, PTL

-----------------------------------------------------------------------------
(* Time: what the clock of the loop, an access_time and the real age of a  *)
(* client's last traffic may differ by.                                    *)

\* Ticks since server_cron at most: it sleeps for one of them, the round that
\* is then under way takes at most Delay, and so does the one that calls it.
Past ==
    IF left = 1 THEN 0
    ELSE IF phase = "top" THEN spent
    ELSE IF phase = "poll" THEN Delay ELSE Delay + spent

\* The client was not idle for longer when server_cron looked last, its
\* access_time is no newer than its traffic, and older by two rounds at most.
InTime(fd) ==
    /\ idle[fd] <= Timeout + Past
    /\ idle[fd] <= age[fd] \/ age[fd] > Timeout
    /\ age[fd] = Epoch \/ age[fd] <= idle[fd] + 2 * Delay

Timing ==
    /\ left \in {0, 1}
    /\ lag # Unset => lag <= Past
    /\ \A fd \in open : InTime(fd)

\* Past is a number of ticks, two rounds' at most.
LEMMA PastBounds ==
    ASSUME TypeOK
    PROVE  Past \in 0 .. 2 * Delay
BY Bounds DEF TypeOK, Past, NoTimer

\* A step that leaves the clock and the clients alone keeps the times right
\* as long as Past does not shrink.
LEMMA TimesKept ==
    ASSUME TypeOK, TypeOK', Timing, Past' >= Past,
           UNCHANGED <<left, lag>>, NEW S, S \subseteq open, open' = S,
           \A fd \in S : age'[fd] = age[fd] /\ idle'[fd] = idle[fd]
    PROVE  Timing'
<1>1. Past \in Int /\ Past' \in Int
    BY PastBounds, Bounds DEF TypeOK, Past, NoTimer
<1>2. ASSUME NEW fd \in open' PROVE InTime(fd)'
    <2>1. InTime(fd) /\ age'[fd] = age[fd] /\ idle'[fd] = idle[fd]
        BY DEF Timing
    <2>2. fd \in ClientFds /\ idle[fd] \in Int /\ age[fd] \in Int
        BY DEF TypeOK
    <2> QED
        BY <1>1, <2>1, <2>2, Bounds DEF InTime
<1>3. lag' # Unset => lag' <= Past'
    BY <1>1 DEF Timing, TypeOK
<1> QED
    BY <1>2, <1>3 DEF Timing

\* A handler within a round, which gives the client on fd a new access_time or
\* none at all.
LEMMA TimesTouched ==
    ASSUME TypeOK, TypeOK', Timing,
           UNCHANGED <<left, lag, spent, phase>>,
           NEW fd \in ClientFds, NEW access, Touch(fd, access),
           access \in {lag, Epoch, 0}, access # Unset,
           open' \subseteq open \cup {fd}
    PROVE  Timing'
<1> USE Bounds
<1>1. Past' = Past /\ Past \in 0 .. 2 * Delay
    BY PastBounds DEF Past
<1>2. ASSUME NEW c \in open' PROVE InTime(c)'
    <2>1. c \in ClientFds /\ idle'[c] \in Nat /\ age'[c] \in Nat
        BY DEF TypeOK, OldIdle, Epoch, OldAccess
    <2>2. CASE c = fd
        <3>1. idle'[c] = 0 /\ age'[c] = access
            BY <2>1, <2>2 DEF Touch, TypeOK
        <3>2. access = Epoch \/ access <= 2 * Delay
            BY <1>1, <3>1, <2>1 DEF Timing
        <3>3. Timeout \in Nat /\ Delay \in Nat /\ Past' \in Nat
            BY <1>1
        <3> QED
            BY <3>1, <3>2, <3>3, <2>1 DEF InTime
    <2>3. CASE c # fd
        <3>1. idle'[c] = idle[c] /\ age'[c] = age[c] /\ c \in open
            BY <2>1, <2>3 DEF Touch, TypeOK
        <3>2. InTime(c)
            BY <3>1 DEF Timing
        <3> QED
            BY <3>1, <3>2, <1>1 DEF InTime
    <2> QED
        BY <2>2, <2>3
<1>3. lag' # Unset => lag' <= Past'
    BY <1>1 DEF Timing
<1>4. left' \in {0, 1}
    BY DEF Timing
<1> QED
    BY <1>2, <1>3, <1>4 DEF Timing

\* A handler that closes clients and leaves the times of the others.
LEMMA TimesClosed ==
    ASSUME TypeOK, TypeOK', Timing,
           UNCHANGED <<left, lag, spent, phase>>,
           NEW watched, NEW evs, NEW gone, WatchAndClose(watched, evs, gone)
    PROVE  Timing'
<1>1. Past' = Past /\ Past \in Int
    BY PastBounds, Bounds DEF Past
<1>2. open' = open \ gone
    BY DEF WatchAndClose
<1>3. ASSUME NEW c \in open \ gone PROVE age'[c] = age[c] /\ idle'[c] = idle[c]
    <2>1. c \in ClientFds
        BY DEF TypeOK
    <2> QED
        BY <2>1, <1>3 DEF WatchAndClose
<1> DEFINE S == open \ gone
<1>4. S \subseteq open /\ open' = S /\ Past' >= Past
    BY <1>1, <1>2
<1>5. \A c \in S : age'[c] = age[c] /\ idle'[c] = idle[c]
    BY <1>3
<1> HIDE DEF S
<1> QED
    BY <1>4, <1>5, TimesKept

\* Accessed gives a client the loop's clock, or no time at all.
LEMMA TimesAccessed ==
    ASSUME TypeOK, TypeOK', Timing,
           UNCHANGED <<left, lag, spent, phase>>,
           NEW fd \in ClientFds, Accessed(fd), open' = open
    PROVE  Timing'
<1> DEFINE access == IF lag = Unset THEN Epoch ELSE lag
<1>1. Touch(fd, access) /\ access \in {lag, Epoch, 0} /\ access # Unset
    BY Bounds DEF Accessed, Unset, Epoch, OldAccess
<1> HIDE DEF access
<1> QED
    BY <1>1, TimesTouched

\* After server_cron no client has been idle for longer than the timeout.
LEMMA TimesSwept ==
    ASSUME TypeOK, TypeOK', Timing, ServerCron
    PROVE  Timing'
<1> USE Bounds
<1> DEFINE late == {fd \in open : Expired(fd)}
<1>1. left' = 1 /\ lag' = 0 /\ Past' = 0
    BY DEF ServerCron, CronReturn, Past
<1>2. WatchAndClose({}, {}, late) /\ open' = open \ late
    BY DEF ServerCron, Close, WatchAndClose
<1>3. ASSUME NEW c \in open' PROVE InTime(c)'
    <2>1. c \in open /\ c \in ClientFds /\ c \notin late /\ ~Expired(c)
        BY <1>2 DEF TypeOK
    <2>2. age'[c] = age[c] /\ idle'[c] = idle[c]
        BY <2>1, <1>2 DEF WatchAndClose
    <2>3. age[c] \in Nat /\ idle[c] \in Nat
        BY <2>1 DEF TypeOK, OldIdle, Epoch, OldAccess
    <2>4. age[c] <= Timeout
        BY <2>1, <2>3 DEF Expired
    <2>5. idle[c] <= age[c] /\ (age[c] = Epoch \/ age[c] <= idle[c] + 2 * Delay)
        BY <2>1, <2>3, <2>4 DEF Timing, InTime
    <2> QED
        BY <1>1, <2>2, <2>3, <2>4, <2>5 DEF InTime
<1> QED
    BY <1>1, <1>3 DEF Timing

\* A tick makes everything one older.
LEMMA TimesTicked ==
    ASSUME TypeOK, TypeOK', Timing, Tick
    PROVE  Timing'
<1> USE Bounds
<1>1. left \in {0, 1} /\ left' = 0 /\ phase' = phase /\ open' = open
    BY DEF Timing, Tick, world
<1>2. Past \in 0 .. 2 * Delay /\ Past' \in Nat /\ Past' >= Past + 1
    <2>1. Past \in 0 .. 2 * Delay
        BY PastBounds
    <2>2. spent \in Nat /\ spent' \in Nat /\ Delay \in Nat /\ Delay >= 1
        BY DEF TypeOK
    <2>3. CASE phase = "poll"
        <3>1. left = 1 /\ Past = 0 /\ Past' = Delay
            BY <2>3, <1>1 DEF Tick, Past
        <3> QED
            BY <3>1, <2>2, <2>1
    <2>4. CASE phase # "poll"
        <3>1. spent' = spent + 1
            BY <2>4 DEF Tick
        <3> QED
            BY <2>4, <3>1, <2>2, <2>1, <1>1 DEF Past
    <2> QED
        BY <2>3, <2>4
<1>3. ASSUME NEW c \in open' PROVE InTime(c)'
    <2>1. c \in open /\ c \in ClientFds /\ InTime(c)
        BY <1>1 DEF TypeOK, Timing
    <2>2. age'[c] = Older(age[c], OldAccess) /\ idle'[c] = Older(idle[c], OldIdle)
        BY <2>1 DEF Tick
    <2>3. age[c] \in 0 .. Epoch /\ idle[c] \in 0 .. OldIdle
        BY <2>1 DEF TypeOK
    <2>4. Timeout \in Nat /\ Delay \in Nat /\ Delay >= 1
        OBVIOUS
    <2> QED
        BY <1>2, <2>1, <2>2, <2>3, <2>4 DEF InTime, Older, OldAccess, OldIdle, Epoch
<1>4. lag' # Unset => lag' <= Past'
    <2>1. lag # Unset => lag \in Int /\ lag <= Past
        BY DEF Timing, TypeOK
    <2>2. lag' # Unset => lag # Unset /\ (lag' = lag \/ lag' = lag + 1)
        BY DEF Tick, Older
    <2> QED
        BY <2>1, <2>2, <1>2
<1> QED
    BY <1>1, <1>3, <1>4 DEF Timing

\* Every step keeps the times right.
LEMMA StepKeepsTiming ==
    ASSUME IInv, Timing, [Next]_vars
    PROVE  Timing'
<1> USE Bounds DEF IInv, table, world, time
<1>1. TypeOK /\ TypeOK'
    BY StepKeepsIInv
<1>2. spent \in Nat /\ spent <= Delay /\ spent' \in Nat /\ Delay \in Nat /\ left \in {0, 1}
    BY <1>1 DEF TypeOK, Timing
<1>3. ASSUME UNCHANGED <<world, left, lag, age, idle>>, Past' >= Past PROVE Timing'
    BY <1>1, <1>3, TimesKept
<1>4. ASSUME UNCHANGED <<open, time>>, Past' >= Past PROVE Timing'
    BY <1>1, <1>4, TimesKept
<1>5. CASE Top
    <2>1. Past' >= Past
        BY <1>5, <1>2 DEF Top, Past
    <2> QED
        BY <2>1, <1>3, <1>5 DEF Top
<1>6. CASE Poll \/ FilesDone \/ NotDue
    <2>1. Past' >= Past
        <3>1. left' = left /\ spent' = spent
            BY <1>6 DEF Poll, FilesDone, NotDue
        <3>2. \/ phase = "poll" /\ phase' = "files"
              \/ phase = "files" /\ phase' = "times"
              \/ phase = "times" /\ phase' = "top" /\ left = 1
            BY <1>2, <1>6 DEF Poll, FilesDone, NotDue
        <3> QED
            BY <3>1, <3>2, <1>2 DEF Past
    <2> QED
        BY <2>1, <1>4, <1>6 DEF Poll, FilesDone, NotDue
<1>7. CASE Connect \/ WorkerNotifies \/ AcceptRefused
    <2>1. UNCHANGED <<phase, open, time>>
        BY <1>7 DEF Connect, WorkerNotifies, AcceptRefused, Handle, Turn
    <2>2. Past' >= Past
        BY <2>1, <1>1, PastBounds DEF Past
    <2> QED
        BY <2>1, <2>2, <1>4
<1>8. CASE \/ \E fd \in open : Peer(fd)
           \/ \E fd \in Fds, ev \in {"r", "w"} : Skip(fd, ev)
           \/ UNCHANGED vars
    <2>1. UNCHANGED <<phase, open, time>>
        BY <1>8 DEF Peer, Skip, Turn, vars
    <2>2. Past' >= Past
        BY <2>1, <1>1, PastBounds DEF Past
    <2> QED
        BY <2>1, <2>2, <1>4
<1>9. CASE Quit
    <2>1. Past' >= Past
        BY <1>9, <1>2 DEF Quit, Past
    <2> QED
        BY <2>1, <1>4, <1>9 DEF Quit
<1>10. CASE ServerCron
    BY <1>1, <1>10, TimesSwept
<1>11. CASE Tick
    BY <1>1, <1>11, TimesTicked
<1>12. CASE Accept
    <2> DEFINE fd == LowestFree
               access == IF lag = Unset THEN 0 ELSE lag
    <2>1. fd \in ClientFds
        BY <1>12, FreshDescriptor DEF Accept
    <2>2. /\ Touch(fd, access) /\ access \in {lag, Epoch, 0} /\ access # Unset
          /\ open' = open \cup {fd}
        BY <1>12 DEF Accept, Unset
    <2>3. UNCHANGED <<left, lag, spent, phase>>
        BY <1>12 DEF Accept, Handle, Turn
    <2> HIDE DEF fd, access
    <2> QED
        BY <1>1, <2>1, <2>2, <2>3, TimesTouched
<1>13. ASSUME NEW answered \in SUBSET open, NEW failed \in SUBSET (open \ answered),
              NotifierHandler(answered, failed)
       PROVE  Timing'
    <2>1. WatchAndClose(answered, {"w"}, failed) /\ UNCHANGED <<left, lag, spent, phase>>
        BY <1>13 DEF NotifierHandler, Handle, Turn
    <2> QED
        BY <1>1, <2>1, TimesClosed
<1>14. ASSUME NEW fd \in open, ReadFromClient(fd) \/ WriteToClient(fd) PROVE Timing'
    <2>1. fd \in ClientFds /\ UNCHANGED <<left, lag, spent, phase>>
        BY <1>14 DEF TypeOK, ReadFromClient, WriteToClient, Handle, Turn
    <2>2. CASE Accessed(fd) /\ open' = open
        BY <1>1, <2>1, <2>2, TimesAccessed
    <2>3. CASE Close({fd})
        BY <1>1, <2>1, <2>3, TimesClosed DEF Close
    <2> QED
        BY <2>2, <2>3, <1>14 DEF ReadFromClient, WriteToClient
<1> QED
    BY <1>5, <1>6, <1>7, <1>8, <1>9, <1>10, <1>11, <1>12, <1>13, <1>14 DEF Next, LoopStep

\* The times are right in every state.
LEMMA TimingInvariance == Spec => []Timing
<1>1. Init => Timing
    BY Bounds DEF Init, Timing, Unset
<1>2. IInv /\ Timing /\ [Next]_vars => Timing'
    BY StepKeepsTiming
<1> QED
    BY <1>1, <1>2, Invariance, PTL DEF Spec

\* No client is idle for longer than client_timeout and two rounds of the loop
\* (conn.c:66), whatever the rounds are spent on.
THEOREM AlwaysPunctual == Spec => []Punctual
<1>1. IInv /\ Timing => Punctual
    <2> SUFFICES ASSUME IInv, Timing, NEW fd \in open
                 PROVE  idle[fd] <= Timeout + 2 * Delay
        BY DEF Punctual
    <2>1. TypeOK /\ InTime(fd) /\ idle[fd] \in Int
        BY Bounds DEF IInv, Timing, TypeOK, OldIdle
    <2> QED
        BY <2>1, PastBounds, Bounds DEF InTime
<1> QED
    BY <1>1, Invariance, TimingInvariance, PTL

\* server_cron closes no client that was active within client_timeout less
\* two rounds, unless it was read from before the clock was set (conn.c:95).
THEOREM NeverHasty == Spec => NotHasty
<1>1. IInv /\ Timing => [\A fd \in open : ServerCron /\ fd \notin open' =>
                             age[fd] = Epoch \/ idle[fd] > Timeout - 2 * Delay]_vars
    <2> SUFFICES ASSUME IInv, Timing, NEW fd \in open, ServerCron, fd \notin open'
                 PROVE  age[fd] = Epoch \/ idle[fd] > Timeout - 2 * Delay
        OBVIOUS
    <2>1. fd \in ClientFds /\ idle[fd] \in Int /\ age[fd] \in Int /\ InTime(fd)
        BY Bounds DEF IInv, Timing, TypeOK, OldIdle, Epoch, OldAccess
    <2>2. Expired(fd)
        BY DEF ServerCron, Close, WatchAndClose
    <2> QED
        BY <2>1, <2>2, Bounds DEF InTime, Expired
<1> QED
    BY <1>1, Invariance, TimingInvariance, PTL DEF NotHasty
=============================================================================
