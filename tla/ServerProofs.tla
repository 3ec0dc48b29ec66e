---------------------------- MODULE ServerProofs ----------------------------
(***************************************************************************)
(* Proofs about Server, for any number of connections, workers, requests   *)
(* and deaths, and queues and pipe of any size: conn_vec, clients and      *)
(* event masks agree, and no response waits without a wake-up.             *)
(*                                                                         *)
(* The order of requests and responses: a request, then the response to    *)
(* it, is in one place at a time: in recv_queue, with a worker, in         *)
(* send_queue, in the buffer of a client or with its peer.  Every step     *)
(* moves some from the head of one place to the end of another, or loses   *)
(* some, or puts a new one somewhere.  So no response is received twice;   *)
(* and with one worker the places are one long queue, along which the      *)
(* order of requests is kept.  A peer that does not pipeline has one       *)
(* request in these places at a time, so that nothing comes between the    *)
(* response that asks for a close and the close.                           *)
(***************************************************************************)
EXTENDS Server, WellFoundedInduction, SequenceTheorems, FiniteSetTheorems, TLAPS

\* A worker has a message from shmq_pop to shmq_push.
Holding == \A w \in Workers : wpc[w] \in {"process", "push"} => wmsg[w] \in Message

\* No message is of a connection process to come.
PidsPast ==
    /\ \A i \in 1 .. Len(recvq) : recvq[i].pid <= pid
    /\ \A i \in 1 .. Len(sendq) : sendq[i].pid <= pid
    /\ \A w \in Workers : wpc[w] \in {"process", "push"} => wmsg[w].pid <= pid

\* AE_WRITABLE is asked for on the descriptors of clients only.
Watched == \A f \in writable : vec[f] # Nil

IInv == TypeOK /\ Holding /\ PidsPast /\ NoDangling /\ Watched /\ NoLostWakeup

-----------------------------------------------------------------------------
\* A set of naturals that is not empty has the least element Min chooses.
LEMMA MinIsIn ==
    ASSUME NEW S, S \subseteq Nat, S # {}
    PROVE  Min(S) \in S
<1> DEFINE R == OpToRel(<, Nat)
<1>1. PICK x \in S : \A y \in S : <<y, x>> \notin R
    <2> HIDE DEF R
    <2>1. IsWellFoundedOn(R, Nat)
        BY NatLessThanWellFounded DEF R
    <2> QED
        BY <2>1, WFMin
<1>2. ASSUME NEW y \in S PROVE x =< y
    <2>1. <<y, x>> \in Nat \X Nat /\ ~ (y < x)
        BY <1>1 DEF OpToRel
    <2> QED
        BY <2>1
<1> QED
    BY <1>2 DEF Min

\* close_client of any clients leaves the others as they are.
LEMMA ClosedAll ==
    ASSUME TypeOK, NoDangling, Watched, NEW gone \in SUBSET Live, CloseAll(gone)
    PROVE  /\ client' \in [Addrs -> Client \cup {Nil}]
           /\ vec' \in [Fds -> Addrs \cup {Nil}]
           /\ writable' \subseteq Fds
           /\ peer' \in [Conns -> {"away", "open", "left", "closed"}]
           /\ wire' \in [Conns -> Nat]
           /\ NoDangling' /\ Watched'
<1> DEFINE fds == {client[a].fd : a \in gone}
<1>1. /\ client' = [a \in Addrs |-> IF a \in gone THEN Nil ELSE client[a]]
      /\ vec' = [f \in Fds |-> IF f \in fds THEN Nil ELSE vec[f]]
      /\ writable' = writable \ fds
    BY DEF CloseAll, Unlisted
<1>2. \A a \in Live : a \notin gone => client[a].fd \notin fds
    BY DEF NoDangling
<1>3. \A a \in Live : client[a] \in Client /\ client[a].fd \in Fds
    BY DEF TypeOK, Live, Client
<1> HIDE DEF fds
<1>4. /\ client' \in [Addrs -> Client \cup {Nil}]
      /\ vec' \in [Fds -> Addrs \cup {Nil}]
      /\ writable' \subseteq Fds
    BY <1>1 DEF TypeOK
<1>5. /\ peer' \in [Conns -> {"away", "open", "left", "closed"}]
      /\ wire' \in [Conns -> Nat]
    BY DEF CloseAll, TypeOK
<1>6. Live' = Live \ gone
    BY <1>1 DEF Live
<1>7. ASSUME NEW f \in Fds, vec'[f] # Nil PROVE client'[vec'[f]] # Nil /\ client'[vec'[f]].fd = f
    <2>1. f \notin fds /\ vec'[f] = vec[f] /\ vec[f] \in Addrs
        BY <1>1, <1>7 DEF TypeOK
    <2>2. client[vec[f]] # Nil /\ client[vec[f]].fd = f
        BY <2>1, <1>7 DEF NoDangling
    <2>3. vec[f] \notin gone
        BY <2>1, <2>2 DEF fds
    <2> QED
        BY <1>1, <2>1, <2>2, <2>3
<1>8. ASSUME NEW a \in Live'
      PROVE  vec'[client'[a].fd] = a /\ (client'[a].send # <<>> <=> client'[a].fd \in writable')
    <2>1. a \in Live /\ a \notin gone /\ client'[a] = client[a] /\ client[a].fd \notin fds
        BY <1>6, <1>1, <1>2 DEF Live
    <2> QED
        BY <2>1, <1>1, <1>3 DEF NoDangling
<1>9. NoDangling'
    BY <1>7, <1>8 DEF NoDangling
<1>10. Watched'
    BY <1>1 DEF Watched, TypeOK
<1> QED
    BY <1>4, <1>5, <1>9, <1>10

-----------------------------------------------------------------------------
\* A handler that leaves vectors, clients and masks alone keeps their agreement.
LEMMA ClientsKept ==
    ASSUME NoDangling, Watched, UNCHANGED <<client, vec, writable>>
    PROVE  NoDangling' /\ Watched'
BY DEF NoDangling, Watched, Live

\* A step of the connection process or a peer that leaves queues and workers alone.
LEMMA QueuesKept ==
    ASSUME Holding, PidsPast, NoLostWakeup,
           UNCHANGED <<pid, draining, recvq, sendq, pipe, wpc, wmsg, orphaned>>
    PROVE  Holding' /\ PidsPast' /\ NoLostWakeup'
BY DEF Holding, PidsPast, NoLostWakeup

\* A client whose buffers change is watched exactly when it has something to send.
LEMMA ClientChanged ==
    ASSUME TypeOK, NoDangling, Watched, NEW a \in Live, NEW c \in Client,
           client' = [client EXCEPT ![a] = c], c.fd = client[a].fd, vec' = vec,
           writable' \subseteq Fds, writable' \ {c.fd} = writable \ {c.fd},
           (c.send # <<>>) <=> (c.fd \in writable')
    PROVE  client' \in [Addrs -> Client \cup {Nil}] /\ NoDangling' /\ Watched'
<1>1. a \in Addrs /\ client[a] # Nil /\ c # Nil /\ vec[c.fd] = a /\ a # Nil
    BY NilIsNoClient, Bounds DEF Live, NoDangling
<1>2. client' \in [Addrs -> Client \cup {Nil}]
    BY <1>1 DEF TypeOK
<1>3. \A b \in Addrs : client'[b] = IF b = a THEN c ELSE client[b]
    BY <1>1 DEF TypeOK
<1>4. Live' = Live
    BY <1>1, <1>3 DEF Live
<1>5. ASSUME NEW b \in Live, b # a PROVE client[b].fd # c.fd
    BY <1>1, <1>5 DEF NoDangling
<1>6. ASSUME NEW f \in Fds, vec[f] # Nil PROVE client'[vec[f]] # Nil /\ client'[vec[f]].fd = f
    BY <1>1, <1>3, <1>6 DEF NoDangling, TypeOK
<1>7. ASSUME NEW b \in Live
      PROVE  vec[client'[b].fd] = b /\ (client'[b].send # <<>> <=> client'[b].fd \in writable')
    BY <1>1, <1>3, <1>5 DEF NoDangling, Live
<1>8. NoDangling'
    BY <1>4, <1>6, <1>7 DEF NoDangling
<1>9. Watched'
    BY <1>1 DEF Watched
<1> QED
    BY <1>2, <1>8, <1>9

\* conn_handler fills a free entry of conn_vec with a free address.
LEMMA ClientAdded ==
    ASSUME TypeOK, NoDangling, Watched, NEW a \in Addrs, client[a] = Nil,
           NEW c \in Client, vec[c.fd] = Nil,
           client' = [client EXCEPT ![a] = c], vec' = [vec EXCEPT ![c.fd] = a],
           writable' = IF c.send # <<>> THEN writable \cup {c.fd} ELSE writable
    PROVE  /\ client' \in [Addrs -> Client \cup {Nil}]
           /\ vec' \in [Fds -> Addrs \cup {Nil}]
           /\ writable' \subseteq Fds
           /\ NoDangling' /\ Watched'
<1>1. c.fd \in Fds /\ c # Nil /\ a # Nil /\ Nil \notin Addrs /\ c.fd \notin writable
    BY NilIsNoClient, Bounds DEF Client, Watched
<1>2. /\ client' \in [Addrs -> Client \cup {Nil}]
      /\ vec' \in [Fds -> Addrs \cup {Nil}]
      /\ writable' \subseteq Fds
    BY <1>1 DEF TypeOK
<1>3. /\ \A b \in Addrs : client'[b] = IF b = a THEN c ELSE client[b]
      /\ \A f \in Fds : vec'[f] = IF f = c.fd THEN a ELSE vec[f]
    BY <1>1 DEF TypeOK
<1>4. Live' = Live \cup {a}
    BY <1>1, <1>3 DEF Live
<1>5. ASSUME NEW b \in Live PROVE client[b].fd # c.fd /\ b # a
    BY <1>1 DEF NoDangling, Live
<1>6. ASSUME NEW f \in Fds, vec'[f] # Nil PROVE client'[vec'[f]] # Nil /\ client'[vec'[f]].fd = f
    BY <1>1, <1>3, <1>6 DEF NoDangling, TypeOK
<1>7. ASSUME NEW b \in Live'
      PROVE  vec'[client'[b].fd] = b /\ (client'[b].send # <<>> <=> client'[b].fd \in writable')
    <2>1. CASE b = a
        BY <2>1, <1>1, <1>3
    <2>2. CASE b # a
        <3>1. b \in Live /\ client'[b] = client[b] /\ client[b].fd \in Fds /\ client[b].fd # c.fd
            BY <2>2, <1>3, <1>4, <1>5 DEF Live, TypeOK, Client
        <3> QED
            BY <3>1, <1>3 DEF NoDangling
    <2> QED
        BY <2>1, <2>2
<1>8. NoDangling'
    BY <1>6, <1>7 DEF NoDangling
<1>9. Watched'
    BY <1>1, <1>3 DEF Watched, TypeOK
<1> QED
    BY <1>2, <1>8, <1>9

-----------------------------------------------------------------------------
\* The queues: what shmq_push and shmq_pop keep of them.
LEMMA Pushed ==
    ASSUME NEW q \in Seq(Message), Len(q) <= QueueCap, ~Full(q), NEW m \in Message,
           NEW p, \A i \in 1 .. Len(q) : q[i].pid <= p, m.pid <= p
    PROVE  /\ Append(q, m) \in Seq(Message) /\ Len(Append(q, m)) <= QueueCap
           /\ \A i \in 1 .. Len(Append(q, m)) : Append(q, m)[i].pid <= p
<1>1. QueueCap \in Nat /\ Len(q) \in Nat /\ Len(Append(q, m)) = Len(q) + 1
    BY Bounds
<1>2. \A i \in 1 .. Len(q) + 1 : Append(q, m)[i] = IF i = Len(q) + 1 THEN m ELSE q[i]
    OBVIOUS
<1> QED
    BY <1>1, <1>2 DEF Full

LEMMA Popped ==
    ASSUME NEW q \in Seq(Message), Len(q) <= QueueCap, q # <<>>,
           NEW p, \A i \in 1 .. Len(q) : q[i].pid <= p
    PROVE  /\ Head(q) \in Message /\ Head(q).pid <= p
           /\ Tail(q) \in Seq(Message) /\ Len(Tail(q)) <= QueueCap
           /\ \A i \in 1 .. Len(Tail(q)) : Tail(q)[i].pid <= p
<1>1. QueueCap \in Nat /\ Len(q) \in Nat \ {0} /\ Len(Tail(q)) = Len(q) - 1 /\ Head(q) = q[1]
    BY Bounds
<1>2. \A i \in 1 .. Len(q) - 1 : Tail(q)[i] = q[i + 1]
    BY <1>1
<1> QED
    BY <1>1, <1>2

\* Requests * Pieces is a natural number.
LEMMA AllPieces == Requests * Pieces \in Nat
<1>1. Requests \in Nat /\ Pieces \in Nat
    BY Bounds
<1> QED
    BY <1>1

-----------------------------------------------------------------------------
(* The handlers *)

LEMMA PeerSendKeeps ==
    ASSUME IInv, NEW k \in Conns, PeerSend(k)
    PROVE  IInv'
<1>1. NoDangling' /\ Watched'
    BY ClientsKept DEF IInv, PeerSend, proc
<1>2. Holding' /\ PidsPast' /\ NoLostWakeup'
    BY QueuesKept DEF IInv, PeerSend, proc, work, hist
<1>3. sent' \in [Conns -> 0 .. Requests * Pieces]
    <2>1. sent[k] \in 0 .. Requests * Pieces /\ sent[k] < Requests * Pieces
        BY DEF IInv, TypeOK, PeerSend, MaySend
    <2>2. sent[k] + 1 \in 0 .. Requests * Pieces
        BY <2>1, AllPieces
    <2> QED
        BY <2>2 DEF IInv, TypeOK, PeerSend
<1>4. wire' \in [Conns -> Nat]
    BY DEF IInv, TypeOK, PeerSend
<1>5. TypeOK'
    BY <1>3, <1>4 DEF IInv, TypeOK, PeerSend, proc, work, hist
<1> QED
    BY <1>1, <1>2, <1>5 DEF IInv

\* PeerLeave and AcceptRefused change the state of a connection only.
LEMMA PeerStateKeeps ==
    ASSUME IInv, NEW k \in Conns, NEW state \in {"left", "closed"},
           peer' = [peer EXCEPT ![k] = state],
           UNCHANGED <<proc, recvq, sendq, pipe, work, wire, sent, got, hist>>
    PROVE  IInv'
<1>1. NoDangling' /\ Watched'
    BY ClientsKept DEF IInv, proc
<1>2. Holding' /\ PidsPast' /\ NoLostWakeup'
    BY QueuesKept DEF IInv, proc, work, hist
<1>3. TypeOK'
    BY DEF IInv, TypeOK, proc, work, hist
<1> QED
    BY <1>1, <1>2, <1>3 DEF IInv

\* Drop and ServerCron close clients, and touch nothing else.
LEMMA ClosingKeeps ==
    ASSUME IInv, NEW gone \in SUBSET Live, CloseAll(gone),
           UNCHANGED <<pid, draining, recvq, sendq, pipe, work, sent, got, hist>>
    PROVE  IInv'
<1>1. /\ client' \in [Addrs -> Client \cup {Nil}]
      /\ vec' \in [Fds -> Addrs \cup {Nil}]
      /\ writable' \subseteq Fds
      /\ peer' \in [Conns -> {"away", "open", "left", "closed"}]
      /\ wire' \in [Conns -> Nat]
      /\ NoDangling' /\ Watched'
    BY ClosedAll DEF IInv
<1>2. Holding' /\ PidsPast' /\ NoLostWakeup'
    BY QueuesKept DEF IInv, work, hist
<1>3. TypeOK'
    BY <1>1 DEF IInv, TypeOK, work, hist
<1> QED
    BY <1>1, <1>2, <1>3 DEF IInv

LEMMA AcceptKeeps ==
    ASSUME IInv, NEW k \in Conns, NEW a \in Addrs, NEW result, NEW hello \in BOOLEAN,
           Accept(k, a, result, hello)
    PROVE  IInv'
<1> DEFINE free == {f \in Fds : vec[f] = Nil}
           fd   == Min(free)
           shut == result = "close"
           text == IF hello THEN <<[conn |-> k, n |-> 0, close |-> shut]>> ELSE <<>>
           c    == [fd |-> fd, conn |-> k, close |-> shut, need |-> 0, recv |-> 0, send |-> text]
<1>1. fd \in Fds /\ vec[fd] = Nil
    <2>1. free \subseteq Nat /\ free # {}
        BY Bounds DEF Accept
    <2>2. fd \in free
        BY <2>1, MinIsIn
    <2> QED
        BY <2>2
<1>2. /\ client[a] = Nil
      /\ client' = [client EXCEPT ![a] = c]
      /\ vec' = [vec EXCEPT ![fd] = a]
      /\ writable' = IF hello THEN writable \cup {fd} ELSE writable
      /\ peer' = [peer EXCEPT ![k] = "open"]
      /\ place' = [place EXCEPT ![k] = <<a, fd, pid>>]
    BY DEF Accept
<1>3. UNCHANGED <<pid, draining, recvq, sendq, pipe, wpc, wmsg, wire, sent, got, asked, orphaned>>
    BY DEF Accept, work
<1> HIDE DEF fd
<1>4. shut \in BOOLEAN
    BY Zenon
<1> HIDE DEF shut
<1>5. text \in Seq(Response) /\ (text # <<>> <=> hello)
    <2>1. [conn |-> k, n |-> 0, close |-> shut] \in Response
        BY <1>4 DEF Response
    <2> QED
        BY <2>1
<1> HIDE DEF text
<1>6. c \in Client /\ c.fd = fd /\ c.send = text
    BY <1>1, <1>4, <1>5 DEF Client
<1> HIDE DEF c
<1>7. /\ client' \in [Addrs -> Client \cup {Nil}]
      /\ vec' \in [Fds -> Addrs \cup {Nil}]
      /\ writable' \subseteq Fds
      /\ NoDangling' /\ Watched'
    BY <1>1, <1>2, <1>5, <1>6, ClientAdded DEF IInv
<1>8. Holding' /\ PidsPast' /\ NoLostWakeup'
    BY <1>3, QueuesKept DEF IInv
<1>9. peer' \in [Conns -> {"away", "open", "left", "closed"}]
    BY <1>2 DEF IInv, TypeOK
<1>10. place' \in [Conns -> Addrs \X Fds \X (1 .. Incarnations) \cup {Nil}]
    BY <1>1, <1>2 DEF IInv, TypeOK
<1>11. TypeOK'
    BY <1>3, <1>7, <1>9, <1>10 DEF IInv, TypeOK
<1> QED
    BY <1>7, <1>8, <1>11 DEF IInv

\* read_from_client: more of a request, a whole one dispatched, or a close.
LEMMA ReadKeeps ==
    ASSUME IInv, NEW a \in Addrs, NEW u \in Int, Read(a, u)
    PROVE  IInv'
<1> DEFINE c  == client[a]
           k  == c.conn
           to == c.recv + u
<1>1. /\ c \in Client /\ a \in Live /\ k \in Conns /\ c.fd \in Fds /\ c.recv \in Nat
      /\ c.send \in Seq(Response) /\ (c.send # <<>> <=> c.fd \in writable)
    BY DEF IInv, TypeOK, Live, Read, Client, NoDangling
<1>2. u \in 1 .. wire[k] /\ wire[k] \in Nat /\ asked[k] \in Nat /\ pid \in 1 .. Incarnations
    BY <1>1 DEF Read, IInv, TypeOK
<1>3. to \in Nat /\ wire[k] - u \in Nat
    BY <1>1, <1>2
<1>4. UNCHANGED <<pid, draining, sendq, pipe, wpc, wmsg, sent, got, place, orphaned>>
    BY DEF Read, work
<1> DEFINE msg == [addr |-> a, fd |-> c.fd, pid |-> pid, conn |-> k, n |-> asked[k] + 1,
                   close |-> FALSE]
<1>5. PICK need \in IF c.need = 0 THEN HandleInput(to) ELSE {c.need} :
          \/ /\ need = 0 \/ to < need
             /\ client' = [client EXCEPT ![a].recv = to, ![a].need = need]
             /\ wire' = [wire EXCEPT ![k] = @ - u]
             /\ UNCHANGED <<vec, writable, recvq, peer, asked>>
          \/ /\ need # 0 /\ to >= need
             /\ ~Full(recvq)
             /\ recvq' = Append(recvq, msg)
             /\ asked' = [asked EXCEPT ![k] = @ + 1]
             /\ client' = [client EXCEPT ![a].recv = to - need, ![a].need = 0]
             /\ wire' = [wire EXCEPT ![k] = @ - u]
             /\ UNCHANGED <<vec, writable, peer>>
          \/ /\ need # 0 /\ to >= need
             /\ Full(recvq) \/ Faults
             /\ Close(a)
             /\ UNCHANGED <<recvq, asked>>
    BY DEF Read
<1>6. need \in {0, Pieces} /\ need \in Nat
    BY <1>1, Bounds DEF HandleInput, Client
<1>7. ASSUME NEW r \in Nat, NEW d \in {0, Pieces},
             client' = [client EXCEPT ![a].recv = r, ![a].need = d],
             UNCHANGED <<vec, writable>>
      PROVE  client' \in [Addrs -> Client \cup {Nil}] /\ NoDangling' /\ Watched'
    <2> DEFINE e == [c EXCEPT !.recv = r, !.need = d]
    <2>1. e \in Client /\ e.fd = c.fd /\ e.send = c.send
        BY <1>1 DEF Client
    <2>2. client' = [client EXCEPT ![a] = e]
        BY <1>1, <1>7 DEF IInv, TypeOK
    <2> HIDE DEF e
    <2> QED
        BY ZenonT(60), <2>1, <2>2, <1>1, <1>7, ClientChanged DEF IInv, TypeOK
<1>8. CASE /\ client' = [client EXCEPT ![a].recv = to, ![a].need = need]
           /\ wire' = [wire EXCEPT ![k] = @ - u]
           /\ UNCHANGED <<vec, writable, recvq, peer, asked>>
    <2>1. client' \in [Addrs -> Client \cup {Nil}] /\ NoDangling' /\ Watched'
        BY <1>3, <1>6, <1>7, <1>8
    <2>2. Holding' /\ PidsPast' /\ NoLostWakeup'
        BY <1>4, <1>8, QueuesKept DEF IInv
    <2>3. wire' \in [Conns -> Nat]
        BY <1>1, <1>3, <1>8 DEF IInv, TypeOK
    <2>4. TypeOK'
        BY <1>4, <1>8, <2>1, <2>3 DEF IInv, TypeOK
    <2> QED
        BY <2>1, <2>2, <2>4 DEF IInv
<1>9. CASE /\ to >= need
           /\ ~Full(recvq)
           /\ recvq' = Append(recvq, msg)
           /\ asked' = [asked EXCEPT ![k] = @ + 1]
           /\ client' = [client EXCEPT ![a].recv = to - need, ![a].need = 0]
           /\ wire' = [wire EXCEPT ![k] = @ - u]
           /\ UNCHANGED <<vec, writable, peer>>
    <2>0. to - need \in Nat /\ 0 \in {0, Pieces}
        BY <1>3, <1>6, <1>9
    <2>1. client' \in [Addrs -> Client \cup {Nil}] /\ NoDangling' /\ Watched'
        BY <2>0, <1>7, <1>9
    <2>2. msg \in Message /\ msg.pid <= pid
        BY <1>1, <1>2 DEF Message
    <2> HIDE DEF msg
    <2>3. /\ recvq' \in Seq(Message) /\ Len(recvq') <= QueueCap
          /\ \A i \in 1 .. Len(recvq') : recvq'[i].pid <= pid
        BY <1>9, <2>2, Pushed DEF IInv, TypeOK, PidsPast
    <2>4. Holding' /\ PidsPast' /\ NoLostWakeup'
        BY <1>4, <2>3 DEF IInv, Holding, PidsPast, NoLostWakeup
    <2>5. wire' \in [Conns -> Nat] /\ asked' \in [Conns -> Nat]
        <3>1. asked[k] + 1 \in Nat
            BY <1>2
        <3>2. wire' \in [Conns -> Nat]
            BY <1>1, <1>3, <1>9 DEF IInv, TypeOK
        <3>3. asked' \in [Conns -> Nat]
            BY <1>1, <3>1, <1>9 DEF IInv, TypeOK
        <3> QED
            BY <3>2, <3>3
    <2>6. TypeOK'
        BY <1>4, <1>9, <2>1, <2>3, <2>5 DEF IInv, TypeOK
    <2> QED
        BY <2>1, <2>4, <2>6 DEF IInv
<1>10. CASE Close(a) /\ UNCHANGED <<recvq, asked>>
    BY <1>1, <1>4, <1>10, ClosingKeeps DEF Close, work, hist
<1> QED
    BY <1>5, <1>8, <1>9, <1>10

\* send_to_client: the responses written leave the buffer, and the last one
\* the event mask or the client.
LEMMA WriteKeeps ==
    ASSUME IInv, NEW a \in Addrs, NEW i \in Int, Write(a, i)
    PROVE  IInv'
<1> DEFINE c == client[a]
<1>1. /\ c \in Client /\ a \in Live /\ c.conn \in Conns /\ c.fd \in Fds
      /\ c.send \in Seq(Response) /\ c.fd \in writable
    BY DEF IInv, TypeOK, Live, Write, Client
<1>2. i \in 0 .. Len(c.send) /\ Len(c.send) \in Nat
    BY <1>1 DEF Write
<1>3. UNCHANGED <<pid, draining, recvq, sendq, pipe, wpc, wmsg, sent, asked, place, orphaned>>
    BY DEF Write, work, hist
<1>4. SubSeq(c.send, 1, i) \in Seq(Response) /\ Rest(c.send, i) \in Seq(Response)
    BY <1>1, <1>2 DEF Rest
<1>5. got' \in [Conns -> Seq(Response)]
    <2>1. got[c.conn] \o SubSeq(c.send, 1, i) \in Seq(Response)
        BY <1>1, <1>4 DEF IInv, TypeOK
    <2>2. got' = got \/ got' = [got EXCEPT ![c.conn] = @ \o SubSeq(c.send, 1, i)]
        BY DEF Write
    <2> QED
        BY <2>1, <2>2 DEF IInv, TypeOK
<1>6. Holding' /\ PidsPast' /\ NoLostWakeup'
    BY <1>3, QueuesKept DEF IInv
<1>7. CASE Close(a)
    <2>1. /\ client' \in [Addrs -> Client \cup {Nil}]
          /\ vec' \in [Fds -> Addrs \cup {Nil}]
          /\ writable' \subseteq Fds
          /\ peer' \in [Conns -> {"away", "open", "left", "closed"}]
          /\ wire' \in [Conns -> Nat]
          /\ NoDangling' /\ Watched'
        BY <1>1, <1>7, ClosedAll DEF IInv, Close
    <2>2. TypeOK'
        BY <1>3, <1>5, <2>1 DEF IInv, TypeOK
    <2> QED
        BY <1>6, <2>1, <2>2 DEF IInv
<1>8. CASE /\ client' = [client EXCEPT ![a].send = Rest(@, i)]
           /\ writable' = IF i = Len(c.send) THEN writable \ {c.fd} ELSE writable
           /\ UNCHANGED <<vec, peer, wire>>
    <2> DEFINE e == [c EXCEPT !.send = Rest(c.send, i)]
    <2>1. e \in Client /\ e.fd = c.fd /\ e.send = Rest(c.send, i)
        BY <1>1, <1>4 DEF Client
    <2>2. client' = [client EXCEPT ![a] = e]
        BY <1>1, <1>8 DEF IInv, TypeOK
    <2>3. Rest(c.send, i) # <<>> <=> i # Len(c.send)
        <3>1. Len(Rest(c.send, i)) = Len(c.send) - i
            BY <1>1, <1>2 DEF Rest
        <3> QED
            BY <1>1, <1>2, <1>4, <3>1
    <2> HIDE DEF e
    <2>4. /\ writable' \subseteq Fds /\ writable' \ {e.fd} = writable \ {e.fd}
          /\ (e.send # <<>>) <=> (e.fd \in writable')
        BY <1>1, <1>8, <2>1, <2>3 DEF IInv, TypeOK
    <2>5. client' \in [Addrs -> Client \cup {Nil}] /\ NoDangling' /\ Watched'
        BY <2>1, <2>2, <2>4, <1>1, <1>8, ClientChanged DEF IInv
    <2>6. TypeOK'
        BY <1>3, <1>5, <1>8, <2>4, <2>5 DEF IInv, TypeOK
    <2> QED
        BY <1>6, <2>5, <2>6 DEF IInv
<1> QED
    BY <1>7, <1>8 DEF Write

\* notifier_handler reads the pipe, and its loop takes over the waiting responses.
LEMMA NotifierReadKeeps ==
    ASSUME IInv, NotifierRead
    PROVE  IInv'
<1>1. UNCHANGED <<pid, client, vec, writable, recvq, sendq, wpc, wmsg, peer, wire, sent, got,
                  asked, place, orphaned>>
    BY DEF NotifierRead, work, net, hist
<1>2. pipe' \in 0 .. PipeCap
    <2>1. pipe \in 0 .. PipeCap /\ PipeCap \in Nat /\ PipeRead \in Nat
        BY Bounds DEF IInv, TypeOK
    <2> QED
        BY <2>1 DEF NotifierRead, notifier_read
<1>3. draining' = TRUE /\ draining' \in BOOLEAN
    BY Zenon DEF NotifierRead
<1>4. NoDangling' /\ Watched'
    BY <1>1, ClientsKept DEF IInv
<1>5. Holding' /\ PidsPast' /\ NoLostWakeup'
    BY <1>1, <1>3 DEF IInv, Holding, PidsPast, NoLostWakeup
<1>6. TypeOK'
    BY <1>1, <1>2, <1>3 DEF IInv, TypeOK
<1> QED
    BY <1>4, <1>5, <1>6 DEF IInv

\* What the loop of notifier_handler does with the response it takes.
LEMMA TakenKeeps ==
    ASSUME IInv, draining, sendq # <<>>, sendq' = Tail(sendq),
           UNCHANGED <<pid, draining, recvq, pipe, wpc, wmsg, sent, got, asked, place, orphaned>>
    PROVE  /\ Holding' /\ PidsPast' /\ NoLostWakeup' /\ Head(sendq) \in Message
           /\ /\ client' \in [Addrs -> Client \cup {Nil}] /\ vec' \in [Fds -> Addrs \cup {Nil}]
              /\ writable' \subseteq Fds /\ wire' \in [Conns -> Nat]
              /\ peer' \in [Conns -> {"away", "open", "left", "closed"}]
              => TypeOK'
<1>1. /\ sendq' \in Seq(Message) /\ Len(sendq') <= QueueCap /\ Head(sendq) \in Message
      /\ \A i \in 1 .. Len(sendq') : sendq'[i].pid <= pid
    BY Popped DEF IInv, TypeOK, PidsPast
<1>2. Holding' /\ PidsPast' /\ NoLostWakeup'
    BY <1>1 DEF IInv, Holding, PidsPast, NoLostWakeup
<1> QED
    BY <1>1, <1>2 DEF IInv, TypeOK

LEMMA DiscardKeeps ==
    ASSUME IInv, Discard
    PROVE  IInv'
<1>1. /\ draining /\ sendq # <<>> /\ sendq' = Tail(sendq)
      /\ UNCHANGED <<pid, draining, recvq, pipe, wpc, wmsg, sent, got, asked, place, orphaned>>
      /\ UNCHANGED <<client, vec, writable, peer, wire>>
    BY DEF Discard, proc, work, net, hist
<1>2. NoDangling' /\ Watched'
    BY <1>1, ClientsKept DEF IInv
<1>3. /\ client' \in [Addrs -> Client \cup {Nil}] /\ vec' \in [Fds -> Addrs \cup {Nil}]
      /\ writable' \subseteq Fds /\ wire' \in [Conns -> Nat]
      /\ peer' \in [Conns -> {"away", "open", "left", "closed"}]
    BY <1>1 DEF IInv, TypeOK
<1> QED
    BY <1>1, <1>2, <1>3, TakenKeeps DEF IInv

LEMMA HandOverKeeps ==
    ASSUME IInv, HandOver
    PROVE  IInv'
<1> DEFINE m == Head(sendq)
           a == m.addr
           c == client[a]
           r == [conn |-> m.conn, n |-> m.n, close |-> m.close]
<1>1. /\ draining /\ sendq # <<>> /\ sendq' = Tail(sendq) /\ vec[m.fd] = a
      /\ UNCHANGED <<pid, draining, recvq, pipe, wpc, wmsg, sent, got, asked, place, orphaned>>
    BY DEF HandOver, Accepts, work, hist
<1>2. Holding' /\ PidsPast' /\ NoLostWakeup' /\ m \in Message
    BY <1>1, TakenKeeps
<1>3. a \in Live /\ c \in Client /\ c.fd \in Fds /\ c.send \in Seq(Response) /\ m.close \in BOOLEAN
    <2>1. m.fd \in Fds /\ a \in Addrs /\ m.close \in BOOLEAN /\ a # Nil
        BY <1>2, Bounds DEF Message
    <2>2. c # Nil
        BY <1>1, <2>1 DEF IInv, NoDangling
    <2> QED
        BY <2>1, <2>2 DEF Live, Client, IInv, TypeOK
<1>4. CASE /\ client' = [client EXCEPT ![a] =
                  [c EXCEPT !.close = m.close, !.send = Buffered(@, r)]]
           /\ writable' = writable \cup {c.fd}
           /\ UNCHANGED <<vec, peer, wire>>
    <2> DEFINE e == [c EXCEPT !.close = m.close, !.send = Buffered(@, r)]
    <2>1. r \in Response
        BY <1>2 DEF Message, Response
    <2> HIDE DEF r
    <2>2. Append(c.send, r) \in Seq(Response) /\ Append(c.send, r) # <<>>
        BY <1>3, <2>1, AppendProperties
    <2>3. e \in Client /\ e.fd = c.fd /\ e.send # <<>>
        BY <1>3, <2>2 DEF Client, Buffered
    <2>4. client' = [client EXCEPT ![a] = e]
        BY <1>4
    <2> HIDE DEF e
    <2>5. writable' \subseteq Fds /\ writable' \ {e.fd} = writable \ {e.fd} /\ e.fd \in writable'
        BY <1>3, <1>4, <2>3 DEF IInv, TypeOK
    <2> HIDE DEF a
    <2>6. client' \in [Addrs -> Client \cup {Nil}] /\ NoDangling' /\ Watched'
        BY <1>3, <1>4, <2>3, <2>4, <2>5, ClientChanged DEF IInv
    <2>7. vec' \in [Fds -> Addrs \cup {Nil}] /\ wire' \in [Conns -> Nat]
          /\ peer' \in [Conns -> {"away", "open", "left", "closed"}]
        BY <1>4 DEF IInv, TypeOK
    <2> QED
        BY <1>1, <1>2, <2>5, <2>6, <2>7, TakenKeeps DEF IInv
<1>5. CASE Close(a)
    <2>1. /\ client' \in [Addrs -> Client \cup {Nil}]
          /\ vec' \in [Fds -> Addrs \cup {Nil}]
          /\ writable' \subseteq Fds
          /\ peer' \in [Conns -> {"away", "open", "left", "closed"}]
          /\ wire' \in [Conns -> Nat]
          /\ NoDangling' /\ Watched'
        BY <1>3, <1>5, ClosedAll DEF IInv, Close
    <2> QED
        BY <1>1, <1>2, <2>1, TakenKeeps DEF IInv
<1> QED
    BY <1>4, <1>5 DEF HandOver

LEMMA DrainedKeeps ==
    ASSUME IInv, Drained
    PROVE  IInv'
<1>1. /\ sendq = <<>>
      /\ UNCHANGED <<pid, client, vec, writable, recvq, sendq, pipe, wpc, wmsg, peer, wire, sent,
                     got, asked, place>>
    BY DEF Drained, work, net
<1>2. draining' \in BOOLEAN /\ orphaned' \in BOOLEAN
    BY Zenon DEF Drained
<1>3. NoDangling' /\ Watched'
    BY <1>1, ClientsKept DEF IInv
<1>4. Holding' /\ PidsPast'
    BY <1>1 DEF IInv, Holding, PidsPast
<1>5. NoLostWakeup'
    BY <1>1 DEF NoLostWakeup
<1>6. TypeOK'
    BY <1>1, <1>2 DEF IInv, TypeOK
<1> QED
    BY <1>3, <1>4, <1>5, <1>6 DEF IInv

\* A new connection process has no clients, and no message is for it.
LEMMA ConnDiesKeeps ==
    ASSUME IInv, ConnDies
    PROVE  IInv'
<1>1. UNCHANGED <<recvq, sendq, pipe, wpc, wmsg, sent, got, asked, place, orphaned>>
    BY DEF ConnDies, work, hist
<1>2. pid \in Nat /\ pid' = pid + 1 /\ pid' \in 1 .. Incarnations
    <2>1. Incarnations \in Nat
        BY Bounds
    <2> QED
        BY <2>1 DEF ConnDies, IInv, TypeOK
<1>3. draining' \in BOOLEAN
    BY Zenon DEF ConnDies
<1>4. /\ client' \in [Addrs -> Client \cup {Nil}] /\ vec' \in [Fds -> Addrs \cup {Nil}]
      /\ writable' = {} /\ wire' \in [Conns -> Nat]
      /\ peer' \in [Conns -> {"away", "open", "left", "closed"}]
    BY DEF ConnDies, IInv, TypeOK
<1>5. NoDangling' /\ Watched'
    BY DEF ConnDies, NoDangling, Watched, Live
<1>6. \A i \in 1 .. Len(sendq) : sendq[i].pid \in Int /\ sendq[i].pid <= pid
    <2>1. \A i \in 1 .. Len(sendq) : sendq[i] \in Message
        BY DEF IInv, TypeOK
    <2> QED
        BY <2>1 DEF IInv, PidsPast, Message
<1>7. \A i \in 1 .. Len(recvq) : recvq[i].pid \in Int /\ recvq[i].pid <= pid
    <2>1. \A i \in 1 .. Len(recvq) : recvq[i] \in Message
        BY DEF IInv, TypeOK
    <2> QED
        BY <2>1 DEF IInv, PidsPast, Message
<1>8. \A w \in Workers : wpc[w] \in {"process", "push"} => wmsg[w].pid \in Int /\ wmsg[w].pid <= pid
    BY DEF IInv, PidsPast, Holding, Message
<1>9. Holding' /\ PidsPast'
    BY <1>1, <1>2, <1>6, <1>7, <1>8 DEF IInv, Holding, PidsPast
<1>10. NoLostWakeup'
    <2>1. DOMAIN sendq = 1 .. Len(sendq)
        BY DEF IInv, TypeOK
    <2>2. ~ \E i \in DOMAIN sendq : sendq[i].pid = pid'
        BY <1>2, <1>6, <2>1
    <2> QED
        BY <1>1, <2>2 DEF NoLostWakeup
<1>11. TypeOK'
    BY <1>1, <1>2, <1>3, <1>4 DEF IInv, TypeOK
<1> QED
    BY <1>5, <1>9, <1>10, <1>11 DEF IInv

-----------------------------------------------------------------------------
(* Workers *)

\* A worker's step leaves the clients alone; what is said of its own message,
\* of the queues and the pipe is left to show.
LEMMA WorkerKeeps ==
    ASSUME IInv, NEW w \in Workers, NEW step \in {"pop", "process", "push", "notify"},
           NEW m \in Message \cup {Nil}, Goto(w, step), wmsg' = [wmsg EXCEPT ![w] = m],
           step \in {"process", "push"} => m \in Message /\ m.pid <= pid,
           UNCHANGED <<proc, net, asked, place>>, orphaned' \in BOOLEAN, pipe' \in 0 .. PipeCap,
           recvq' \in Seq(Message), Len(recvq') <= QueueCap,
           sendq' \in Seq(Message), Len(sendq') <= QueueCap,
           \A i \in 1 .. Len(recvq') : recvq'[i].pid <= pid,
           \A i \in 1 .. Len(sendq') : sendq'[i].pid <= pid,
           NoLostWakeup'
    PROVE  IInv'
<1>1. UNCHANGED <<pid, draining, client, vec, writable, peer, wire, sent, got, asked, place>>
    BY DEF proc, net
<1>2. NoDangling' /\ Watched'
    BY <1>1, ClientsKept DEF IInv
<1>3. wpc' = [wpc EXCEPT ![w] = step]
    BY DEF Goto
<1>4. /\ wpc' \in [Workers -> {"pop", "process", "push", "notify"}]
      /\ wmsg' \in [Workers -> Message \cup {Nil}]
    BY <1>3 DEF IInv, TypeOK
<1>5. \A v \in Workers : /\ wpc'[v] = IF v = w THEN step ELSE wpc[v]
                         /\ wmsg'[v] = IF v = w THEN m ELSE wmsg[v]
    BY <1>3 DEF IInv, TypeOK
<1>6. Holding'
    BY <1>5 DEF IInv, Holding
<1>7. PidsPast'
    BY <1>1, <1>5 DEF IInv, PidsPast
<1>8. TypeOK'
    BY <1>1, <1>4 DEF IInv, TypeOK
<1> QED
    BY <1>2, <1>6, <1>7, <1>8 DEF IInv

\* A step of a worker that was not about to notify takes no wake-up away.
LEMMA WakeupKept ==
    ASSUME IInv, NEW w \in Workers, wpc[w] # "notify", NEW step, Goto(w, step),
           UNCHANGED <<pid, draining, sendq, pipe>>, orphaned => orphaned'
    PROVE  NoLostWakeup'
<1>1. \A v \in Workers : wpc[v] = "notify" => wpc'[v] = "notify"
    BY DEF Goto, IInv, TypeOK
<1> QED
    BY <1>1 DEF IInv, NoLostWakeup

LEMMA WorkerPopKeeps ==
    ASSUME IInv, NEW w \in Workers, WorkerPop(w)
    PROVE  IInv'
<1>1. /\ wpc[w] = "pop" /\ Goto(w, "process") /\ wmsg' = [wmsg EXCEPT ![w] = Head(recvq)]
      /\ recvq # <<>> /\ recvq' = Tail(recvq)
      /\ UNCHANGED <<proc, net, pid, draining, sendq, pipe, asked, place, orphaned>>
    BY DEF WorkerPop, proc, net, hist
<1>2. /\ Head(recvq) \in Message /\ Head(recvq).pid <= pid
      /\ recvq' \in Seq(Message) /\ Len(recvq') <= QueueCap
      /\ \A i \in 1 .. Len(recvq') : recvq'[i].pid <= pid
    BY <1>1, Popped DEF IInv, TypeOK, PidsPast
<1>3. NoLostWakeup'
    BY <1>1, WakeupKept
<1>4. /\ sendq' \in Seq(Message) /\ Len(sendq') <= QueueCap
      /\ \A i \in 1 .. Len(sendq') : sendq'[i].pid <= pid
      /\ pipe' \in 0 .. PipeCap /\ orphaned' \in BOOLEAN
    BY <1>1 DEF IInv, TypeOK, PidsPast
<1> QED
    BY <1>1, <1>2, <1>3, <1>4, WorkerKeeps

LEMMA WorkerProcessKeeps ==
    ASSUME IInv, NEW w \in Workers, NEW result, WorkerProcess(w, result)
    PROVE  IInv'
<1> DEFINE shut == result # "ok"
           m    == [wmsg[w] EXCEPT !.close = shut]
<1>1. /\ wpc[w] = "process" /\ Goto(w, "push") /\ wmsg' = [wmsg EXCEPT ![w].close = shut]
      /\ UNCHANGED <<proc, net, pid, draining, recvq, sendq, pipe, asked, place, orphaned>>
    BY DEF WorkerProcess, proc, net, hist
<1>2. shut \in BOOLEAN
    BY Zenon
<1> HIDE DEF shut
<1>3. wmsg[w] \in Message /\ wmsg[w].pid <= pid
    BY <1>1 DEF IInv, Holding, PidsPast
<1>4. m \in Message /\ m.pid <= pid
    BY <1>2, <1>3 DEF Message
<1>5. wmsg' = [wmsg EXCEPT ![w] = m]
    BY <1>1 DEF IInv, TypeOK
<1> HIDE DEF m
<1>6. NoLostWakeup'
    BY <1>1, WakeupKept
<1>7. /\ recvq' \in Seq(Message) /\ Len(recvq') <= QueueCap
      /\ \A i \in 1 .. Len(recvq') : recvq'[i].pid <= pid
      /\ sendq' \in Seq(Message) /\ Len(sendq') <= QueueCap
      /\ \A i \in 1 .. Len(sendq') : sendq'[i].pid <= pid
      /\ pipe' \in 0 .. PipeCap /\ orphaned' \in BOOLEAN
    BY <1>1 DEF IInv, TypeOK, PidsPast
<1> QED
    BY <1>1, <1>4, <1>5, <1>6, <1>7, WorkerKeeps

\* The worker that pushes is the one that will notify.
LEMMA WorkerPushKeeps ==
    ASSUME IInv, NEW w \in Workers, WorkerPush(w)
    PROVE  IInv'
<1>1. /\ wpc[w] = "push" /\ Goto(w, "notify") /\ wmsg' = [wmsg EXCEPT ![w] = Nil]
      /\ ~Full(sendq) /\ sendq' = Append(sendq, wmsg[w])
      /\ UNCHANGED <<proc, net, pid, recvq, pipe, asked, place, orphaned>>
    BY DEF WorkerPush, proc, net, hist
<1>2. wmsg[w] \in Message /\ wmsg[w].pid <= pid
    BY <1>1 DEF IInv, Holding, PidsPast
<1>3. /\ sendq' \in Seq(Message) /\ Len(sendq') <= QueueCap
      /\ \A i \in 1 .. Len(sendq') : sendq'[i].pid <= pid
    BY <1>1, <1>2, Pushed DEF IInv, TypeOK, PidsPast
<1>4. wpc'[w] = "notify"
    BY <1>1 DEF Goto, IInv, TypeOK
<1>5. NoLostWakeup'
    BY <1>4 DEF NoLostWakeup
<1>6. /\ recvq' \in Seq(Message) /\ Len(recvq') <= QueueCap
      /\ \A i \in 1 .. Len(recvq') : recvq'[i].pid <= pid
      /\ pipe' \in 0 .. PipeCap /\ orphaned' \in BOOLEAN
    BY <1>1 DEF IInv, TypeOK, PidsPast
<1> QED
    BY <1>1, <1>3, <1>5, <1>6, WorkerKeeps

\* After a notifier_write the pipe is not empty, whether it was full or not.
LEMMA WorkerNotifyKeeps ==
    ASSUME IInv, NEW w \in Workers, WorkerNotify(w)
    PROVE  IInv'
<1>1. /\ Goto(w, "pop") /\ wmsg' = wmsg
      /\ pipe' = IF pipe < PipeCap THEN pipe + 1 ELSE pipe
      /\ UNCHANGED <<proc, net, pid, recvq, sendq, asked, place, orphaned>>
    BY DEF WorkerNotify, notifier_write, proc, net, hist
<1>2. wmsg[w] \in Message \cup {Nil} /\ wmsg' = [wmsg EXCEPT ![w] = wmsg[w]]
    BY <1>1 DEF IInv, TypeOK
<1>3. pipe' \in 0 .. PipeCap /\ pipe' > 0
    <2>1. pipe \in 0 .. PipeCap /\ PipeCap \in Nat \ {0}
        BY Bounds DEF IInv, TypeOK
    <2> QED
        BY <1>1, <2>1
<1>4. NoLostWakeup'
    BY <1>3 DEF NoLostWakeup
<1>5. /\ recvq' \in Seq(Message) /\ Len(recvq') <= QueueCap
      /\ \A i \in 1 .. Len(recvq') : recvq'[i].pid <= pid
      /\ sendq' \in Seq(Message) /\ Len(sendq') <= QueueCap
      /\ \A i \in 1 .. Len(sendq') : sendq'[i].pid <= pid
      /\ orphaned' \in BOOLEAN
    BY <1>1 DEF IInv, TypeOK, PidsPast
<1> QED
    BY <1>1, <1>2, <1>3, <1>4, <1>5, WorkerKeeps

\* A worker dies before it has pushed, or its response is orphaned.
LEMMA WorkerDiesKeeps ==
    ASSUME IInv, NEW w \in Workers, WorkerDies(w)
    PROVE  IInv'
<1>1. /\ Goto(w, "pop") /\ wmsg' = [wmsg EXCEPT ![w] = Nil]
      /\ orphaned' = (orphaned \/ wpc[w] = "notify")
      /\ UNCHANGED <<proc, net, pid, draining, recvq, sendq, pipe, asked, place>>
    BY DEF WorkerDies, proc, net
<1>2. orphaned' \in BOOLEAN
    BY <1>1, Zenon
<1>3. NoLostWakeup'
    <2>1. CASE wpc[w] = "notify"
        BY <1>1, <2>1 DEF NoLostWakeup
    <2>2. CASE wpc[w] # "notify"
        BY <1>1, <2>2, WakeupKept
    <2> QED
        BY <2>1, <2>2
<1>4. /\ recvq' \in Seq(Message) /\ Len(recvq') <= QueueCap
      /\ \A i \in 1 .. Len(recvq') : recvq'[i].pid <= pid
      /\ sendq' \in Seq(Message) /\ Len(sendq') <= QueueCap
      /\ \A i \in 1 .. Len(sendq') : sendq'[i].pid <= pid
      /\ pipe' \in 0 .. PipeCap
    BY <1>1 DEF IInv, TypeOK, PidsPast
<1> QED
    BY <1>1, <1>2, <1>3, <1>4, WorkerKeeps

-----------------------------------------------------------------------------
LEMMA InitIsSound ==
    ASSUME Init
    PROVE  IInv
<1>1. TypeOK
    <2>1. draining \in BOOLEAN /\ orphaned \in BOOLEAN
        BY Zenon DEF Init
    <2>2. Incarnations \in Nat \ {0} /\ PipeCap \in Nat /\ QueueCap \in Nat
        BY Bounds
    <2>3. /\ recvq \in Seq(Message) /\ Len(recvq) <= QueueCap
          /\ sendq \in Seq(Message) /\ Len(sendq) <= QueueCap
        BY <2>2 DEF Init
    <2>4. 0 \in 0 .. Requests * Pieces /\ pid \in 1 .. Incarnations /\ pipe \in 0 .. PipeCap
        BY <2>2, AllPieces DEF Init
    <2>5. got \in [Conns -> Seq(Response)]
        BY DEF Init
    <2> QED
        BY <2>1, <2>3, <2>4, <2>5 DEF Init, TypeOK
<1>2. Holding /\ PidsPast /\ NoDangling /\ Watched /\ NoLostWakeup
    BY DEF Init, Holding, PidsPast, NoDangling, Watched, NoLostWakeup, Live
<1> QED
    BY <1>1, <1>2 DEF IInv

LEMMA StepKeepsIInv ==
    ASSUME IInv, [Next]_vars
    PROVE  IInv'
<1>1. CASE \E k \in Conns : PeerSend(k)
    BY <1>1, PeerSendKeeps
<1>2. CASE \E k \in Conns : PeerLeave(k)
    BY <1>2, PeerStateKeeps DEF PeerLeave
<1>3. CASE \E k \in Conns : AcceptRefused(k)
    BY <1>3, PeerStateKeeps DEF AcceptRefused
<1>4. CASE \E k \in Conns, a \in Addrs, result \in Hooks \ {"error"}, hello \in Greets :
               Accept(k, a, result, hello)
    BY <1>4, AcceptKeeps, Bounds
<1>5. CASE \E a \in Addrs, u \in 1 .. Requests * Pieces : Read(a, u)
    BY <1>5, ReadKeeps
<1>6. CASE \E a \in Addrs, i \in 0 .. Cardinality(Conns) * (Requests + 1) : Write(a, i)
    BY <1>6, WriteKeeps
<1>7. CASE \E a \in Addrs : Drop(a)
    BY <1>7, ClosingKeeps DEF Drop, Close, Live
<1>8. CASE \E idle \in SUBSET Live : ServerCron(idle)
    BY <1>8, ClosingKeeps DEF ServerCron
<1>9. CASE NotifierRead
    BY <1>9, NotifierReadKeeps
<1>10. CASE Discard
    BY <1>10, DiscardKeeps
<1>11. CASE HandOver
    BY <1>11, HandOverKeeps
<1>12. CASE Drained
    BY <1>12, DrainedKeeps
<1>13. CASE ConnDies
    BY <1>13, ConnDiesKeeps
<1>14. CASE \E w \in Workers : WorkerPop(w)
    BY <1>14, WorkerPopKeeps
<1>15. CASE \E w \in Workers : WorkerPush(w)
    BY <1>15, WorkerPushKeeps
<1>16. CASE \E w \in Workers : WorkerNotify(w)
    BY <1>16, WorkerNotifyKeeps
<1>17. CASE \E w \in Workers : WorkerDies(w)
    BY <1>17, WorkerDiesKeeps
<1>18. CASE \E w \in Workers, result \in Hooks : WorkerProcess(w, result)
    BY <1>18, WorkerProcessKeeps
<1>19. CASE UNCHANGED vars
    BY <1>19, ClientsKept, QueuesKept DEF IInv, TypeOK, vars, proc, work, net, hist
<1> QED
    BY <1>1, <1>2, <1>3, <1>4, <1>5, <1>6, <1>7, <1>8, <1>9, <1>10, <1>11, <1>12, <1>13, <1>14,
       <1>15, <1>16, <1>17, <1>18, <1>19 DEF Next, Serve

LEMMA Invariance == Spec => []IInv
<1>1. Init => IInv
    BY InitIsSound
<1>2. IInv /\ [Next]_vars => IInv'
    BY StepKeepsIInv
<1> QED
    BY <1>1, <1>2, PTL DEF Spec

\* Every variable keeps its type: no queue or pipe holds more than it has room for.
THEOREM TypeCorrect == Spec => []TypeOK
<1>1. IInv => TypeOK
    BY DEF IInv
<1> QED
    BY <1>1, Invariance, PTL

\* The event loop and conn_vec never name a client_conn that close_client has freed.
THEOREM NothingDangles == Spec => []NoDangling
<1>1. IInv => NoDangling
    BY DEF IInv
<1> QED
    BY <1>1, Invariance, PTL

\* However workers, peers and the connection process are interleaved, a
\* response of the present connection process in send_queue has a wake-up on
\* its way, unless a worker died between shmq_push and notifier_write.
THEOREM NoWakeupIsLost == Spec => []NoLostWakeup
<1>1. IInv => NoLostWakeup
    BY DEF IInv
<1> QED
    BY <1>1, Invariance, PTL

-----------------------------------------------------------------------------
(* Whatever is reused and whoever dies, a response that reaches the wrong  *)
(* client was made for one that has been closed since, of the same         *)
(* address, descriptor and connection process.                             *)

\* A message names the client of its connection.
Names(m) == peer[m.conn] # "away" /\ place[m.conn] = <<m.addr, m.fd, m.pid>>

\* A response in the hands of k's client is for it or for a twin of it that
\* has been closed.
Twin(r, k) ==
    /\ peer[r.conn] # "away" /\ place[r.conn] = place[k]
    /\ r.conn = k \/ peer[r.conn] = "closed"

Addressed ==
    /\ \A i \in 1 .. Len(recvq) : Names(recvq[i])
    /\ \A i \in 1 .. Len(sendq) : Names(sendq[i])
    /\ \A w \in Workers : wpc[w] \in {"process", "push"} => Names(wmsg[w])

\* The client at a is where its connection was accepted to.
At(a) ==
    /\ peer[client[a].conn] \in {"open", "left"}
    /\ place[client[a].conn] = <<a, client[a].fd, pid>>
    /\ \A i \in 1 .. Len(client[a].send) : Twin(client[a].send[i], client[a].conn)

Placed == \A a \in Live : At(a)

\* A connection that is neither to come nor closed has its client.
Present == \A k \in Conns : peer[k] \in {"open", "left"} => \E a \in Live : client[a].conn = k

Received ==
    \A k \in Conns : /\ peer[k] = "away" => got[k] = <<>>
                     /\ \A i \in 1 .. Len(got[k]) : Twin(got[k][i], k)

PInv == IInv /\ Addressed /\ Placed /\ Present /\ Received

\* The place of a connection is settled by the accept that ends "away", and
\* "closed" is for good.
Settled ==
    \A k \in Conns : /\ peer[k] # "away" => peer'[k] # "away" /\ place'[k] = place[k]
                     /\ peer[k] = "closed" => peer'[k] = "closed"

\* A peer leaves or is turned away, or none does.
LeftOrRefused ==
    \/ peer' = peer
    \/ \E k \in Conns : \/ peer[k] = "open" /\ peer' = [peer EXCEPT ![k] = "left"]
                        \/ peer[k] = "away" /\ peer' = [peer EXCEPT ![k] = "closed"]

-----------------------------------------------------------------------------
\* Messages that stay where they are name the same clients.
LEMMA StillAddressed ==
    ASSUME PInv, Settled, UNCHANGED <<recvq, sendq, wpc, wmsg>>
    PROVE  Addressed'
<1>1. ASSUME NEW m \in Message, Names(m)
      PROVE  peer'[m.conn] # "away" /\ place'[m.conn] = <<m.addr, m.fd, m.pid>>
    BY <1>1 DEF Settled, Names, Message
<1>2. /\ \A i \in 1 .. Len(recvq) : recvq[i] \in Message
      /\ \A i \in 1 .. Len(sendq) : sendq[i] \in Message
      /\ \A w \in Workers : wpc[w] \in {"process", "push"} => wmsg[w] \in Message
    BY DEF PInv, IInv, TypeOK, Holding
<1>3. \A i \in 1 .. Len(recvq') : Names(recvq[i])'
    BY <1>1, <1>2 DEF PInv, Addressed, Names
<1>4. \A i \in 1 .. Len(sendq') : Names(sendq[i])'
    BY <1>1, <1>2 DEF PInv, Addressed, Names
<1>5. \A w \in Workers : wpc'[w] \in {"process", "push"} => Names(wmsg[w])'
    BY <1>1, <1>2 DEF PInv, Addressed, Names
<1> QED
    BY <1>3, <1>4, <1>5 DEF Addressed

\* A client that no handler touches stays where it is.
LEMMA StillAt ==
    ASSUME PInv, Settled, pid' = pid, NEW a \in Live, client'[a] = client[a],
           peer'[client[a].conn] \in {"open", "left"}
    PROVE  At(a)'
<1>1. /\ client[a].conn \in Conns
      /\ \A i \in 1 .. Len(client[a].send) : client[a].send[i].conn \in Conns
    <2>1. client[a] \in Client
        BY DEF PInv, IInv, TypeOK, Live
    <2>2. client[a].conn \in Conns /\ client[a].send \in Seq(Response)
        BY <2>1 DEF Client
    <2>3. \A i \in 1 .. Len(client[a].send) : client[a].send[i] \in Response
        BY <2>2
    <2> QED
        BY <2>2, <2>3 DEF Response
<1>2. /\ peer[client[a].conn] \in {"open", "left"} /\ place[client[a].conn] = <<a, client[a].fd, pid>>
      /\ \A i \in 1 .. Len(client[a].send) : Twin(client[a].send[i], client[a].conn)
    BY DEF PInv, Placed, At
<1>3. place'[client[a].conn] = <<a, client[a].fd, pid>>
    BY <1>1, <1>2 DEF Settled
<1>4. ASSUME NEW i \in 1 .. Len(client[a].send)
      PROVE  /\ peer'[client[a].send[i].conn] # "away"
             /\ place'[client[a].send[i].conn] = place'[client[a].conn]
             /\ \/ client[a].send[i].conn = client[a].conn
                \/ peer'[client[a].send[i].conn] = "closed"
    BY <1>1, <1>2 DEF Settled, Twin
<1>5. \A i \in 1 .. Len(client'[a].send) : Twin(client[a].send[i], client[a].conn)'
    BY <1>4 DEF Twin
<1> QED
    BY <1>3, <1>5 DEF At

\* What was received stays received.
LEMMA StillReceived ==
    ASSUME PInv, Settled, got' = got
    PROVE  Received'
<1>1. \A k \in Conns : \A i \in 1 .. Len(got[k]) : got[k][i].conn \in Conns
    <2>1. ASSUME NEW k \in Conns, NEW i \in 1 .. Len(got[k])
          PROVE  got[k][i] \in Response
        <3>1. got[k] \in Seq(Response)
            BY DEF PInv, IInv, TypeOK
        <3> QED
            BY <3>1
    <2> QED
        BY <2>1 DEF Response
<1>2. \A k \in Conns : \A i \in 1 .. Len(got[k]) : peer[k] # "away" /\ Twin(got[k][i], k)
    <2>1. \A k \in Conns : got[k] = <<>> => Len(got[k]) = 0
        OBVIOUS
    <2> QED
        BY <2>1 DEF PInv, Received
<1>3. ASSUME NEW k \in Conns, NEW i \in 1 .. Len(got[k])
      PROVE  /\ peer'[got[k][i].conn] # "away" /\ place'[got[k][i].conn] = place'[k]
             /\ got[k][i].conn = k \/ peer'[got[k][i].conn] = "closed"
    BY <1>1, <1>2 DEF Settled, Twin
<1>4. \A k \in Conns : \A i \in 1 .. Len(got'[k]) : Twin(got[k][i], k)'
    BY <1>3 DEF Twin
<1>5. \A k \in Conns : peer'[k] = "away" => got'[k] = <<>>
    BY DEF PInv, Received, Settled
<1> QED
    BY <1>4, <1>5 DEF Received

\* Live clients are of different connections.
LEMMA OneClient ==
    ASSUME PInv, NEW a \in Live, NEW b \in Live, client[a].conn = client[b].conn
    PROVE  a = b
BY DEF PInv, Placed, At

\* close_client opens no connection, and the other clients stay.
LEMMA StillPlaced ==
    ASSUME PInv, NEW gone \in SUBSET Live, CloseAll(gone), place' = place, pid' = pid
    PROVE  Settled /\ Placed' /\ Present'
<1> DEFINE conns == {client[a].conn : a \in gone}
<1>1. /\ client' = [a \in Addrs |-> IF a \in gone THEN Nil ELSE client[a]]
      /\ peer' = [k \in Conns |-> IF k \in conns THEN "closed" ELSE peer[k]]
    BY DEF CloseAll
<1>2. Settled
    BY <1>1 DEF Settled, PInv, IInv, TypeOK
<1>3. ASSUME NEW a \in Live, a \notin gone
      PROVE  a \in Live' /\ client'[a] = client[a] /\ client[a].conn \notin conns
    BY <1>1, <1>3, OneClient DEF Live
<1>4. ASSUME NEW a \in Live'
      PROVE  a \in Live /\ a \notin gone
    BY <1>1 DEF Live
<1>5. ASSUME NEW a \in Live'
      PROVE  At(a)'
    <2>1. a \in Live /\ client'[a] = client[a] /\ client[a].conn \notin conns
        BY <1>3, <1>4
    <2>2. client[a].conn \in Conns /\ peer[client[a].conn] \in {"open", "left"}
        BY <2>1 DEF PInv, IInv, TypeOK, Live, Client, Placed, At
    <2> HIDE DEF conns
    <2>3. peer'[client[a].conn] \in {"open", "left"}
        BY <1>1, <2>1, <2>2
    <2> QED
        BY <1>2, <2>1, <2>3, StillAt
<1>6. ASSUME NEW k \in Conns, peer'[k] \in {"open", "left"}
      PROVE  \E a \in Live' : client'[a].conn = k
    <2>1. k \notin conns /\ peer[k] \in {"open", "left"}
        BY <1>1, <1>6
    <2>2. PICK a \in Live : client[a].conn = k
        BY <2>1 DEF PInv, Present
    <2>3. a \notin gone
        BY <2>1, <2>2
    <2> QED
        BY <1>3, <2>2, <2>3
<1> QED
    BY <1>2, <1>5, <1>6 DEF Placed, Present

\* The clients are untouched, and connections stay as they are but for one that
\* is left or turned away.
LEMMA StillThere ==
    ASSUME PInv, UNCHANGED <<pid, client, place>>,
           LeftOrRefused
    PROVE  Settled /\ Placed' /\ Present'
<1>1. /\ Settled
      /\ \A k \in Conns : peer[k] \in {"open", "left"} <=> peer'[k] \in {"open", "left"}
    BY DEF LeftOrRefused, Settled, PInv, IInv, TypeOK
<1>2. Live' = Live /\ \A a \in Live : client[a].conn \in Conns
    BY DEF Live, PInv, IInv, TypeOK, Client
<1>3. \A a \in Live : peer[client[a].conn] \in {"open", "left"}
    BY DEF PInv, Placed, At
<1>4. Placed'
    BY <1>1, <1>2, <1>3, StillAt DEF Placed
<1>5. Present'
    BY <1>1, <1>2 DEF PInv, Present
<1> QED
    BY <1>1, <1>4, <1>5

\* A step that changes no connection, client or response received.
LEMMA StillServed ==
    ASSUME PInv, UNCHANGED <<pid, client, peer, place, got>>
    PROVE  Settled /\ Placed' /\ Present' /\ Received'
BY StillThere, StillReceived DEF LeftOrRefused

-----------------------------------------------------------------------------
(* The handlers.  IInv' is StepKeepsIInv of ServerProofs. *)

\* Peers send and leave, accept turns away, pipe and flags change.
LEMMA QuietPlaces ==
    ASSUME PInv, UNCHANGED <<pid, client, place, got, recvq, sendq, wpc, wmsg>>,
           LeftOrRefused
    PROVE  Addressed' /\ Placed' /\ Present' /\ Received'
BY StillThere, StillAddressed, StillReceived

LEMMA ClosingPlaces ==
    ASSUME PInv, NEW gone \in SUBSET Live, CloseAll(gone),
           UNCHANGED <<pid, place, got, recvq, sendq, wpc, wmsg>>
    PROVE  Addressed' /\ Placed' /\ Present' /\ Received'
BY StillPlaced, StillAddressed, StillReceived

\* What accept makes is a client_conn, on a descriptor that is free.
LEMMA NewClient ==
    ASSUME NEW k \in Conns, NEW shut \in BOOLEAN, NEW hello \in BOOLEAN,
           \E f \in Fds : vec[f] = Nil
    PROVE  LET fd   == Min({f \in Fds : vec[f] = Nil})
               text == IF hello THEN <<[conn |-> k, n |-> 0, close |-> shut]>> ELSE <<>>
           IN  /\ fd \in Fds
               /\ [fd |-> fd, conn |-> k, close |-> shut, need |-> 0, recv |-> 0, send |-> text]
                     \in Client
<1> DEFINE free == {f \in Fds : vec[f] = Nil}
           text == IF hello THEN <<[conn |-> k, n |-> 0, close |-> shut]>> ELSE <<>>
<1>1. Min(free) \in Fds
    <2>1. free \subseteq Nat /\ free # {}
        BY Bounds
    <2>2. Min(free) \in free
        BY <2>1, MinIsIn
    <2> QED
        BY <2>2
<1>2. text \in Seq(Response)
    <2>1. [conn |-> k, n |-> 0, close |-> shut] \in Response
        BY DEF Response
    <2> QED
        BY <2>1
<1> HIDE DEF text, free
<1>3. [fd |-> Min(free), conn |-> k, close |-> shut, need |-> 0, recv |-> 0, send |-> text]
          \in Client
    BY <1>1, <1>2 DEF Client
<1> QED
    BY <1>1, <1>3 DEF text, free

\* A connection is accepted once: no message and no response is of it yet.
LEMMA AcceptPlaces ==
    ASSUME PInv, NEW k \in Conns, NEW a \in Addrs, NEW result, NEW hello \in BOOLEAN,
           Accept(k, a, result, hello)
    PROVE  Addressed' /\ Placed' /\ Present' /\ Received'
<1> DEFINE fd   == Min({f \in Fds : vec[f] = Nil})
           shut == result = "close"
           text == IF hello THEN <<[conn |-> k, n |-> 0, close |-> shut]>> ELSE <<>>
           c    == [fd |-> fd, conn |-> k, close |-> shut, need |-> 0, recv |-> 0, send |-> text]
<1>1. /\ peer[k] = "away" /\ client[a] = Nil
      /\ client' = [client EXCEPT ![a] = c]
      /\ peer' = [peer EXCEPT ![k] = "open"]
      /\ place' = [place EXCEPT ![k] = <<a, fd, pid>>]
      /\ UNCHANGED <<pid, recvq, sendq, wpc, wmsg, got>>
    BY DEF Accept, work
<1>2. c.fd = fd /\ c.conn = k /\ c.send = text
    OBVIOUS
<1>3. \A i \in 1 .. Len(text) : text[i].conn = k
    OBVIOUS
<1>11. c \in Client
    <2>1. shut \in BOOLEAN /\ \E f \in Fds : vec[f] = Nil
        <3>1. \E f \in Fds : vec[f] = Nil
            BY DEF Accept
        <3>2. shut \in BOOLEAN
            BY Zenon
        <3> QED
            BY <3>1, <3>2
    <2> HIDE DEF shut
    <2> QED
        BY <2>1, NewClient
<1> HIDE DEF fd, text, c
<1>4. peer'[k] = "open" /\ place'[k] = <<a, fd, pid>>
    BY <1>1 DEF PInv, IInv, TypeOK
<1>5. Settled
    BY <1>1 DEF Settled, PInv, IInv, TypeOK
<1>6. client'[a] = c
    BY <1>1 DEF PInv, IInv, TypeOK
<1>7. ASSUME NEW b \in Live', b # a
      PROVE  b \in Live /\ client'[b] = client[b]
    BY <1>1, <1>7 DEF Live, PInv, IInv, TypeOK
<1>8. At(a)'
    <2>1. \A i \in 1 .. Len(text) : Twin(text[i], k)'
        BY <1>3, <1>4 DEF Twin
    <2> QED
        BY <1>1, <1>2, <1>4, <1>6, <2>1 DEF At
<1>9. Placed'
    <2>1. ASSUME NEW b \in Live', b # a
          PROVE  peer'[client[b].conn] \in {"open", "left"}
        <3>1. client[b].conn \in Conns /\ peer[client[b].conn] \in {"open", "left"}
            BY <1>7, <2>1 DEF PInv, IInv, TypeOK, Live, Client, Placed, At
        <3> QED
            BY <1>1, <3>1 DEF PInv, IInv, TypeOK
    <2> QED
        BY <1>1, <1>5, <1>7, <1>8, <2>1, StillAt DEF Placed
<1>10. Present'
    <2>1. \A b \in Live : b # a /\ b \in Live' /\ client'[b] = client[b]
        BY <1>1 DEF Live, PInv, IInv, TypeOK
    <2>2. a \in Live' /\ client'[a].conn = k
        BY <1>2, <1>6, <1>11, NilIsNoClient DEF Live
    <2>3. \A l \in Conns : l # k => peer'[l] = peer[l]
        BY <1>1 DEF PInv, IInv, TypeOK
    <2> QED
        BY <2>1, <2>2, <2>3 DEF PInv, Present
<1> QED
    BY <1>1, <1>5, <1>9, <1>10, StillAddressed, StillReceived

\* A client whose connection stays and whose responses are twins of it.
LEMMA Retained ==
    ASSUME PInv, IInv', UNCHANGED <<pid, vec, peer, place>>, NEW a \in Live, NEW c,
           client' = [client EXCEPT ![a] = c], c.conn = client[a].conn, c.fd = client[a].fd,
           \A i \in 1 .. Len(c.send) : Twin(c.send[i], c.conn)
    PROVE  Settled /\ Placed' /\ Present'
<1>1. Settled
    BY DEF Settled
<1>2. a \in Addrs /\ client[a] # Nil
    BY DEF Live
<1>3. client'[a] = c
    BY <1>2 DEF PInv, IInv, TypeOK
<1>4. ASSUME NEW b \in Live', b # a
      PROVE  b \in Live /\ client'[b] = client[b]
    BY <1>4 DEF Live, PInv, IInv, TypeOK
<1>5. At(a)'
    <2>1. peer[c.conn] \in {"open", "left"} /\ place[c.conn] = <<a, c.fd, pid>>
        BY DEF PInv, Placed, At
    <2>2. \A i \in 1 .. Len(c.send) : Twin(c.send[i], c.conn)'
        BY DEF Twin
    <2> QED
        BY <1>3, <2>1, <2>2 DEF At
<1>6. Placed'
    <2>1. \A b \in Live : peer'[client[b].conn] \in {"open", "left"}
        BY DEF PInv, Placed, At
    <2> QED
        BY <1>1, <1>4, <1>5, <2>1, StillAt DEF Placed
<1>7. Present'
    <2>1. \A b \in Live : b \in Live' /\ client'[b].conn = client[b].conn
        <3>1. client[a].fd \in Fds /\ vec[client[a].fd] = a
            BY DEF PInv, IInv, NoDangling, TypeOK, Live, Client
        <3>2. client'[a] # Nil
            BY <1>2, <3>1, Bounds DEF IInv, NoDangling
        <3>3. \A b \in Live : b # a => client'[b] = client[b]
            BY DEF Live, PInv, IInv, TypeOK
        <3> QED
            BY <1>2, <1>3, <3>2, <3>3 DEF Live
    <2> QED
        BY <2>1 DEF PInv, Present
<1> QED
    BY <1>1, <1>6, <1>7

LEMMA ReadPlaces ==
    ASSUME PInv, IInv', NEW a \in Addrs, NEW u, Read(a, u)
    PROVE  Addressed' /\ Placed' /\ Present' /\ Received'
<1> DEFINE c  == client[a]
           k  == c.conn
           msg == [addr |-> a, fd |-> c.fd, pid |-> pid, conn |-> k, n |-> asked[k] + 1,
                   close |-> FALSE]
<1>1. UNCHANGED <<pid, sendq, wpc, wmsg, got, place>>
    BY DEF Read, work
<1>2. /\ a \in Live /\ c \in Client
      /\ peer[k] \in {"open", "left"} /\ place[k] = <<a, c.fd, pid>>
      /\ \A i \in 1 .. Len(c.send) : Twin(c.send[i], k)
    BY DEF Read, Live, PInv, IInv, TypeOK, Placed, At
<1>3. \/ /\ \E r, d : client' = [client EXCEPT ![a].recv = r, ![a].need = d]
         /\ UNCHANGED <<vec, peer>>
         /\ recvq' = recvq \/ recvq' = Append(recvq, msg)
      \/ Close(a) /\ UNCHANGED recvq
    BY DEF Read
<1>4. CASE Close(a) /\ UNCHANGED recvq
    BY <1>1, <1>2, <1>4, ClosingPlaces DEF Close
<1>5. CASE /\ \E r, d : client' = [client EXCEPT ![a].recv = r, ![a].need = d]
           /\ UNCHANGED <<vec, peer>>
           /\ recvq' = recvq \/ recvq' = Append(recvq, msg)
    <2>1. PICK r, d : client' = [client EXCEPT ![a].recv = r, ![a].need = d]
        BY <1>5
    <2> DEFINE e == [c EXCEPT !.recv = r, !.need = d]
    <2>2. e.conn = k /\ e.fd = c.fd /\ e.send = c.send
        BY <1>2 DEF Client
    <2>3. client' = [client EXCEPT ![a] = e]
        BY <1>2, <2>1 DEF PInv, IInv, TypeOK
    <2> HIDE DEF e
    <2>4. \A i \in 1 .. Len(e.send) : Twin(e.send[i], e.conn)
        BY <1>2, <2>2
    <2>5. Settled /\ Placed' /\ Present'
        BY <1>1, <1>2, <1>5, <2>2, <2>3, <2>4, Retained
    <2>6. Names(msg)
        BY <1>2 DEF Names
    <2> HIDE DEF msg
    <2>7. \A i \in 1 .. Len(recvq') : Names(recvq'[i])
        <3>1. recvq \in Seq(Message)
            BY DEF PInv, IInv, TypeOK
        <3>2. \A i \in 1 .. Len(recvq) : Names(recvq[i])
            BY DEF PInv, Addressed
        <3>3. CASE recvq' = Append(recvq, msg)
            BY <2>6, <3>1, <3>2, <3>3
        <3> QED
            BY <1>5, <3>2, <3>3
    <2>8. Addressed'
        BY <1>1, <1>5, <2>7 DEF PInv, Addressed, Names
    <2> QED
        BY <1>1, <2>5, <2>8, StillReceived
<1> QED
    BY <1>3, <1>4, <1>5

LEMMA WritePlaces ==
    ASSUME PInv, IInv', NEW a \in Addrs, NEW i \in Int, Write(a, i)
    PROVE  Addressed' /\ Placed' /\ Present' /\ Received'
<1> DEFINE c    == client[a]
           k    == c.conn
           out  == SubSeq(c.send, 1, i)
           rest == Rest(c.send, i)
<1>1. UNCHANGED <<pid, recvq, sendq, wpc, wmsg, place>>
    BY DEF Write, work, hist
<1>2. /\ a \in Live /\ c \in Client /\ k \in Conns /\ c.send \in Seq(Response)
      /\ peer[k] \in {"open", "left"} /\ place[k] = <<a, c.fd, pid>>
      /\ \A j \in 1 .. Len(c.send) : Twin(c.send[j], k)
    BY DEF Write, Live, Client, PInv, IInv, TypeOK, Placed, At
<1>3. i \in 0 .. Len(c.send)
    BY DEF Write
<1>4. /\ Len(out) = i /\ \A j \in 1 .. i : out[j] = c.send[j]
      /\ Len(rest) = Len(c.send) - i /\ \A j \in 1 .. Len(c.send) - i : rest[j] = c.send[j + i]
    BY <1>2, <1>3 DEF Rest
<1>5. /\ out \in Seq(Response) /\ \A j \in 1 .. Len(out) : Twin(out[j], k)
      /\ \A j \in 1 .. Len(rest) : Twin(rest[j], k)
    <2>1. out \in Seq(Response)
        BY <1>2, <1>3
    <2> QED
        BY <2>1, <1>2, <1>3, <1>4
<1>6. Settled /\ Placed' /\ Present'
    <2>1. CASE Close(a)
        BY <2>1, <1>1, <1>2, StillPlaced DEF Close
    <2>2. CASE client' = [client EXCEPT ![a].send = Rest(@, i)] /\ UNCHANGED <<vec, peer>>
        <3> DEFINE e == [c EXCEPT !.send = rest]
        <3>1. e.conn = k /\ e.fd = c.fd /\ e.send = rest
            BY <1>2 DEF Client
        <3>2. client' = [client EXCEPT ![a] = e]
            BY <1>2, <2>2 DEF PInv, IInv, TypeOK
        <3> HIDE DEF e, rest
        <3> QED
            BY <1>1, <1>2, <1>5, <2>2, <3>1, <3>2, Retained
    <2> QED
        BY <2>1, <2>2 DEF Write
<1> HIDE DEF out
<1>7. CASE got' = got
    BY <1>1, <1>6, <1>7, StillAddressed, StillReceived
<1>8. CASE got' = [got EXCEPT ![k] = @ \o out]
    <2>1. got[k] \in Seq(Response)
        BY <1>2 DEF PInv, IInv, TypeOK
    <2>2. \A j \in 1 .. Len(got[k]) : Twin(got[k][j], k)
        BY <1>2 DEF PInv, Received
    <2>3. \A j \in 1 .. Len(got[k] \o out) : Twin((got[k] \o out)[j], k)
        <3>1. ASSUME NEW j \in 1 .. Len(got[k] \o out)
              PROVE  Twin((got[k] \o out)[j], k)
            <4>1. CASE j <= Len(got[k])
                <5>1. (got[k] \o out)[j] = got[k][j]
                    BY <4>1, <2>1, <1>5
                <5> QED
                    BY <4>1, <5>1, <2>1, <2>2
            <4>2. CASE j > Len(got[k])
                <5>1. (got[k] \o out)[j] = out[j - Len(got[k])] /\ j - Len(got[k]) \in 1 .. Len(out)
                    BY <4>2, <2>1, <1>5
                <5> QED
                    BY <5>1, <1>5
            <4> QED
                BY <4>1, <4>2, <2>1
        <3> QED
            BY <3>1
    <2>4. /\ got'[k] = got[k] \o out
          /\ \A l \in Conns : l # k => got'[l] = got[l]
        BY <1>2, <1>8 DEF PInv, IInv, TypeOK
    <2>5. ASSUME NEW l \in Conns, NEW j \in 1 .. Len(got'[l])
          PROVE  /\ got'[l][j] \in Response
                 /\ peer[l] # "away" /\ Twin(got'[l][j], l)
        <3>1. CASE l = k
            <4>1. got'[k] \in Seq(Response)
                BY <2>1, <2>4, <1>5
            <4> QED
                BY <3>1, <2>3, <2>4, <1>2, <4>1
        <3>2. CASE l # k
            <4>1. got'[l] = got[l] /\ got[l] \in Seq(Response)
                BY <3>2, <2>4 DEF PInv, IInv, TypeOK
            <4>2. j \in 1 .. Len(got[l])
                BY <4>1
            <4>3. got[l] # <<>> /\ got[l][j] \in Response
                BY <4>1, <4>2
            <4>4. peer[l] # "away" /\ Twin(got[l][j], l)
                BY <4>2, <4>3 DEF PInv, Received
            <4> QED
                BY <4>1, <4>3, <4>4
        <3> QED
            BY <3>1, <3>2
    <2>6. ASSUME NEW l \in Conns, NEW j \in 1 .. Len(got'[l])
          PROVE  Twin(got[l][j], l)'
        BY <2>5, <1>6 DEF Settled, Twin, Response
    <2>7. ASSUME NEW l \in Conns, peer'[l] = "away"
          PROVE  got'[l] = <<>>
        BY <2>4, <2>7, <1>2, <1>6 DEF Settled, PInv, Received
    <2>8. Received'
        BY <2>6, <2>7 DEF Received
    <2> QED
        BY <1>1, <1>6, <2>8, StillAddressed
<1> QED
    BY <1>7, <1>8 DEF Write, out

\* The loop of notifier_handler has one message less to hand over.
LEMMA TakenPlaces ==
    ASSUME PInv, Settled, sendq # <<>>, sendq' = Tail(sendq), UNCHANGED <<recvq, wpc, wmsg>>
    PROVE  Addressed' /\ Names(Head(sendq)) /\ Head(sendq) \in Message
<1>1. sendq \in Seq(Message) /\ recvq \in Seq(Message)
    BY DEF PInv, IInv, TypeOK
<1>2. ASSUME NEW m \in Message, Names(m)
      PROVE  peer'[m.conn] # "away" /\ place'[m.conn] = <<m.addr, m.fd, m.pid>>
    BY <1>2 DEF Settled, Names, Message
<1>3. \A i \in 1 .. Len(sendq) : sendq[i] \in Message /\ Names(sendq[i])
    BY <1>1 DEF PInv, Addressed
<1>4. /\ Head(sendq) = sendq[1] /\ 1 \in 1 .. Len(sendq)
      /\ \A i \in 1 .. Len(sendq') : i + 1 \in 1 .. Len(sendq) /\ sendq'[i] = sendq[i + 1]
    BY <1>1
<1>5. \A i \in 1 .. Len(sendq') : sendq'[i] \in Message /\ Names(sendq'[i])
    BY <1>3, <1>4
<1>6. \A i \in 1 .. Len(sendq') : Names(sendq[i])'
    BY <1>2, <1>5 DEF Names
<1>7. \A i \in 1 .. Len(recvq') : Names(recvq[i])'
    <2>1. \A i \in 1 .. Len(recvq) : recvq[i] \in Message /\ Names(recvq[i])
        BY <1>1 DEF PInv, Addressed
    <2> QED
        BY <1>2, <2>1 DEF Names
<1>8. \A w \in Workers : wpc'[w] \in {"process", "push"} => Names(wmsg[w])'
    BY <1>2 DEF PInv, IInv, Holding, Addressed, Names
<1> QED
    BY <1>3, <1>4, <1>6, <1>7, <1>8 DEF Addressed

LEMMA DiscardPlaces ==
    ASSUME PInv, Discard
    PROVE  Addressed' /\ Placed' /\ Present' /\ Received'
BY StillServed, TakenPlaces DEF Discard, proc, work, net, hist

\* The checks of notifier_handler let through what was made for this client
\* or for a twin of it.
LEMMA HandOverPlaces ==
    ASSUME PInv, IInv', HandOver
    PROVE  Addressed' /\ Placed' /\ Present' /\ Received'
<1> DEFINE m == Head(sendq)
           a == m.addr
           c == client[a]
           r == [conn |-> m.conn, n |-> m.n, close |-> m.close]
<1>1. /\ sendq # <<>> /\ sendq' = Tail(sendq) /\ vec[m.fd] = a /\ m.pid = pid
      /\ UNCHANGED <<pid, recvq, wpc, wmsg, got, place>>
    BY DEF HandOver, Accepts, work, hist
<1>2. m \in Message /\ Names(m)
    <2>1. sendq \in Seq(Message) /\ 1 \in 1 .. Len(sendq) /\ m = sendq[1]
        BY <1>1 DEF PInv, IInv, TypeOK
    <2> QED
        BY <2>1 DEF PInv, Addressed
<1>3. a \in Live /\ c \in Client /\ c.fd = m.fd
    <2>1. m.fd \in Fds /\ a \in Addrs /\ a # Nil
        BY <1>2, Bounds DEF Message
    <2>2. c # Nil /\ c.fd = m.fd
        BY <1>1, <2>1 DEF PInv, IInv, NoDangling
    <2> QED
        BY <2>1, <2>2 DEF Live, PInv, IInv, TypeOK
<1>4. /\ place[c.conn] = <<a, c.fd, pid>> /\ c.send \in Seq(Response)
      /\ \A i \in 1 .. Len(c.send) : Twin(c.send[i], c.conn)
    BY <1>3 DEF PInv, Placed, At, Client
<1>5. Twin(r, c.conn)
    <2>1. m.conn \in Conns /\ a \in Live
        BY <1>2, <1>3 DEF Message
    <2>2. ASSUME peer[m.conn] # "closed" PROVE m.conn = c.conn
        <3>1. peer[m.conn] \in {"open", "left"}
            BY <1>2, <2>1, <2>2 DEF Names, PInv, IInv, TypeOK
        <3>2. PICK b \in Live : client[b].conn = m.conn
            BY <2>1, <3>1 DEF PInv, Present
        <3>3. place[m.conn] = <<b, client[b].fd, pid>> /\ place[m.conn] = <<a, m.fd, m.pid>>
            BY <1>2, <3>2 DEF PInv, Placed, At, Names
        <3> QED
            BY <3>2, <3>3
    <2> QED
        BY <1>1, <1>2, <1>3, <1>4, <2>2 DEF Twin, Names
<1>6. CASE Close(a)
    BY <1>1, <1>3, <1>6, StillPlaced, StillReceived, TakenPlaces DEF Close
<1>7. CASE /\ client' = [client EXCEPT ![a] =
                  [c EXCEPT !.close = m.close, !.send = Buffered(@, r)]]
           /\ UNCHANGED <<vec, peer>>
    <2> DEFINE e == [c EXCEPT !.close = m.close, !.send = Buffered(@, r)]
    <2>1. e.conn = c.conn /\ e.fd = c.fd /\ e.send = Append(c.send, r)
        BY <1>3 DEF Client, Buffered
    <2>2. client' = [client EXCEPT ![a] = e]
        BY <1>7
    <2> HIDE DEF e
    <2>3. \A i \in 1 .. Len(e.send) : Twin(e.send[i], e.conn)
        <3> HIDE DEF r
        <3>0. c.send \in Seq(Response) /\ e.send = Append(c.send, r)
            BY <1>4, <2>1
        <3>1. /\ Len(e.send) = Len(c.send) + 1 /\ Len(c.send) \in Nat
              /\ e.send[Len(c.send) + 1] = r
              /\ \A i \in 1 .. Len(c.send) : e.send[i] = c.send[i]
            BY <3>0
        <3>2. ASSUME NEW i \in 1 .. Len(e.send)
              PROVE  i = Len(c.send) + 1 \/ i \in 1 .. Len(c.send)
            BY <3>1
        <3> QED
            BY <1>4, <1>5, <2>1, <3>1, <3>2
    <2> HIDE DEF a
    <2>4. Settled /\ Placed' /\ Present'
        BY <1>1, <1>3, <1>7, <2>1, <2>2, <2>3, Retained
    <2> QED
        BY <1>1, <2>4, StillReceived, TakenPlaces
<1> QED
    BY <1>6, <1>7 DEF HandOver

\* A new connection process: no clients, the messages for the old one name it.
LEMMA ConnDiesPlaces ==
    ASSUME PInv, ConnDies
    PROVE  Addressed' /\ Placed' /\ Present' /\ Received'
<1>1. UNCHANGED <<recvq, sendq, wpc, wmsg, got, place>>
    BY DEF ConnDies, work, hist
<1>2. Settled
    BY <1>1 DEF ConnDies, Settled
<1>3. Placed' /\ Present'
    BY DEF ConnDies, Placed, Present, Live
<1> QED
    BY <1>1, <1>2, <1>3, StillAddressed, StillReceived

\* A worker passes on the message it popped, with the names it has.
LEMMA WorkerPlaces ==
    ASSUME PInv, NEW w \in Workers,
           WorkerPop(w) \/ WorkerPush(w) \/ WorkerNotify(w) \/ WorkerDies(w)
               \/ \E result \in Hooks : WorkerProcess(w, result)
    PROVE  Addressed' /\ Placed' /\ Present' /\ Received'
<1>1. UNCHANGED <<pid, client, peer, place, got>>
    BY DEF WorkerPop, WorkerPush, WorkerNotify, WorkerDies, WorkerProcess, proc, net, hist
<1>2. /\ recvq \in Seq(Message) /\ sendq \in Seq(Message)
      /\ wpc \in [Workers -> {"pop", "process", "push", "notify"}]
      /\ wmsg \in [Workers -> Message \cup {Nil}]
      /\ wpc[w] \in {"process", "push"} => wmsg[w] \in Message /\ Names(wmsg[w])
    BY DEF PInv, IInv, TypeOK, Holding, Addressed
<1>3. /\ \A i \in 1 .. Len(recvq) : Names(recvq[i])
      /\ \A i \in 1 .. Len(sendq) : Names(sendq[i])
      /\ \A v \in Workers : wpc[v] \in {"process", "push"} => Names(wmsg[v])
    BY DEF PInv, Addressed
<1>4. SUFFICES /\ \A i \in 1 .. Len(recvq') : Names(recvq'[i])
               /\ \A i \in 1 .. Len(sendq') : Names(sendq'[i])
               /\ \A v \in Workers : wpc'[v] \in {"process", "push"} => Names(wmsg'[v])
    BY <1>1, StillServed DEF Addressed, Names
<1>5. CASE WorkerPop(w)
    <2>1. /\ recvq # <<>> /\ recvq' = Tail(recvq) /\ sendq' = sendq
          /\ wmsg' = [wmsg EXCEPT ![w] = Head(recvq)] /\ wpc' = [wpc EXCEPT ![w] = "process"]
        BY <1>5 DEF WorkerPop, Goto
    <2>2. /\ Head(recvq) = recvq[1] /\ 1 \in 1 .. Len(recvq)
          /\ \A i \in 1 .. Len(recvq') : i + 1 \in 1 .. Len(recvq) /\ recvq'[i] = recvq[i + 1]
        BY <1>2, <2>1
    <2> QED
        BY <1>2, <1>3, <2>1, <2>2
<1>6. CASE WorkerPush(w)
    <2>1. /\ wpc[w] = "push" /\ sendq' = Append(sendq, wmsg[w]) /\ recvq' = recvq
          /\ wpc' = [wpc EXCEPT ![w] = "notify"] /\ wmsg' = [wmsg EXCEPT ![w] = Nil]
        BY <1>6 DEF WorkerPush, Goto
    <2>2. \A i \in 1 .. Len(sendq') : Names(sendq'[i])
        BY <1>2, <1>3, <2>1
    <2>3. \A v \in Workers : wpc'[v] \in {"process", "push"} => Names(wmsg'[v])
        BY <1>2, <1>3, <2>1
    <2> QED
        BY <1>3, <2>1, <2>2, <2>3
<1>7. CASE WorkerNotify(w) \/ WorkerDies(w)
    <2>1. /\ UNCHANGED <<recvq, sendq>> /\ wpc' = [wpc EXCEPT ![w] = "pop"]
          /\ wmsg' = wmsg \/ wmsg' = [wmsg EXCEPT ![w] = Nil]
        BY <1>7 DEF WorkerNotify, WorkerDies, Goto
    <2> QED
        BY <1>2, <1>3, <2>1
<1>8. CASE \E result \in Hooks : WorkerProcess(w, result)
    <2>1. PICK b : /\ wpc[w] = "process" /\ UNCHANGED <<recvq, sendq>>
                   /\ wpc' = [wpc EXCEPT ![w] = "push"] /\ wmsg' = [wmsg EXCEPT ![w].close = b]
        BY <1>8 DEF WorkerProcess, Goto
    <2>2. /\ wmsg'[w].conn = wmsg[w].conn /\ wmsg'[w].addr = wmsg[w].addr
          /\ wmsg'[w].fd = wmsg[w].fd /\ wmsg'[w].pid = wmsg[w].pid
        BY <1>2, <2>1 DEF Message
    <2>3. Names(wmsg'[w])
        BY <1>2, <2>1, <2>2 DEF Names
    <2> QED
        BY <1>2, <1>3, <2>1, <2>3
<1> QED
    BY <1>5, <1>6, <1>7, <1>8

-----------------------------------------------------------------------------
LEMMA InitPlaces ==
    ASSUME Init
    PROVE  PInv
<1>1. Addressed /\ Placed /\ Present /\ Received
    BY DEF Init, Addressed, Placed, Present, Received, Live
<1> QED
    BY <1>1, InitIsSound DEF PInv

LEMMA StepKeepsPlaces ==
    ASSUME PInv, [Next]_vars
    PROVE  PInv'
<1>1. IInv'
    BY StepKeepsIInv DEF PInv
<1>2. CASE \E k \in Conns : PeerSend(k) \/ PeerLeave(k) \/ AcceptRefused(k)
    <2>1. LeftOrRefused
        BY <1>2 DEF LeftOrRefused, PeerSend, PeerLeave, AcceptRefused
    <2>2. UNCHANGED <<pid, client, place, got, recvq, sendq, wpc, wmsg>>
        BY <1>2 DEF PeerSend, PeerLeave, AcceptRefused, proc, work, hist
    <2> QED
        BY <1>1, <2>1, <2>2, QuietPlaces DEF PInv
<1>3. CASE \E k \in Conns, a \in Addrs, result \in Hooks \ {"error"}, hello \in Greets :
               Accept(k, a, result, hello)
    BY <1>1, <1>3, AcceptPlaces, Bounds DEF PInv
<1>4. CASE \E a \in Addrs, u \in 1 .. Requests * Pieces : Read(a, u)
    BY <1>1, <1>4, ReadPlaces DEF PInv
<1>5. CASE \E a \in Addrs, i \in 0 .. Cardinality(Conns) * (Requests + 1) : Write(a, i)
    BY <1>1, <1>5, WritePlaces DEF PInv
<1>6. CASE \E a \in Addrs : Drop(a)
    BY <1>1, <1>6, ClosingPlaces DEF PInv, Drop, Close, Live, work, hist
<1>7. CASE \E idle \in SUBSET Live : ServerCron(idle)
    BY <1>1, <1>7, ClosingPlaces DEF PInv, ServerCron, work, hist
<1>8. CASE NotifierRead \/ Drained \/ UNCHANGED vars
    BY <1>1, <1>8, QuietPlaces DEF PInv, LeftOrRefused, NotifierRead, Drained, vars, proc, work, net, hist
<1>9. CASE Discard \/ HandOver \/ ConnDies
    BY <1>1, <1>9, DiscardPlaces, HandOverPlaces, ConnDiesPlaces DEF PInv
<1>10. CASE \E w \in Workers :
                WorkerPop(w) \/ WorkerPush(w) \/ WorkerNotify(w) \/ WorkerDies(w)
                    \/ \E result \in Hooks : WorkerProcess(w, result)
    BY <1>1, <1>10, WorkerPlaces DEF PInv
<1> QED
    BY <1>2, <1>3, <1>4, <1>5, <1>6, <1>7, <1>8, <1>9, <1>10 DEF Next, Serve

\* However often addresses, descriptors and connection processes are reused, a
\* response that reaches a connection it is not for was made for one that had
\* been closed by then, and whose client had the same address, descriptor and
\* connection process: the checks of notifier_handler (conn.c:342 and 350) let
\* nothing else through.
THEOREM OnlyTwins == Spec => []OnlyTwinsMixedUp
<1>1. Init => PInv
    BY InitPlaces
<1>2. PInv /\ [Next]_vars => PInv'
    BY StepKeepsPlaces
<1>3. PInv => OnlyTwinsMixedUp
    <2>1. ASSUME PInv, NEW k \in Conns, NEW i \in DOMAIN got[k]
          PROVE  Twin(got[k][i], k)
        <3>1. DOMAIN got[k] = 1 .. Len(got[k])
            BY <2>1 DEF PInv, IInv, TypeOK
        <3> QED
            BY <2>1, <3>1 DEF PInv, Received
    <2> QED
        BY <2>1 DEF OnlyTwinsMixedUp, Twin
<1> QED
    BY <1>1, <1>2, <1>3, PTL DEF Spec

-----------------------------------------------------------------------------
(* Sequences h[x] of messages or responses, for x in a set X of places *)

\* What makes a message and the response to it the same.
Key(r) == <<r.conn, r.n>>

ApartIn(X, h) ==
    \A x, y \in X : \A i \in 1 .. Len(h[x]), j \in 1 .. Len(h[y]) :
        Key(h[x][i]) = Key(h[y][j]) => x = y /\ i = j

\* Whatever is ahead of something else precedes it: in its own place, or in
\* one that is before the other's.  before and precedes are sets of pairs.
OrderedIn(X, h, before, precedes) ==
    \A x, y \in X : \A i \in 1 .. Len(h[x]), j \in 1 .. Len(h[y]) :
        <<x, y>> \in before \/ (x = y /\ i < j) =>
            <<Key(h[x][i]), Key(h[y][j])>> \in precedes

\* From h to g the first n of p go to the end of q, or anywhere out of sight;
\* other places may lose what they have at their ends.
MovesIn(X, h, g, p, q, n) ==
    \A x \in X : \A i \in 1 .. Len(g[x]) :
        \/ x # p /\ i <= Len(h[x]) /\ Key(g[x][i]) = Key(h[x][i])
        \/ x = p /\ i + n <= Len(h[p]) /\ Key(g[p][i]) = Key(h[p][i + n])
        \/ /\ x = q /\ i > Len(h[q])
           /\ i - Len(h[q]) <= n /\ n <= Len(h[p])
           /\ Key(g[q][i]) = Key(h[p][i - Len(h[q])])

\* From h to g one with the key t comes to the end of q.
PostsIn(X, h, g, q, t) ==
    \A x \in X : \A i \in 1 .. Len(g[x]) :
        \/ i <= Len(h[x]) /\ Key(g[x][i]) = Key(h[x][i])
        \/ x = q /\ i = Len(h[q]) + 1 /\ Key(g[q][i]) = t

LenNat(X, h) == \A x \in X : Len(h[x]) \in Nat

\* What precedes what still does.
KeptIn(X, h, precedes, precedes1) ==
    \A x, y \in X : \A i \in 1 .. Len(h[x]), j \in 1 .. Len(h[y]) :
        <<Key(h[x][i]), Key(h[y][j])>> \in precedes =>
            <<Key(h[x][i]), Key(h[y][j])>> \in precedes1

\* No place comes to be before another; and q, if it is one of them, is the
\* next one before p.
NextBefore(X, before, before1, p, q) ==
    /\ \A x, y \in X : <<x, y>> \in before1 => <<x, y>> \in before
    /\ q \in X => /\ <<q, p>> \in before /\ <<q, q>> \notin before1
                  /\ \A y \in X : <<y, q>> \in before1 => <<y, p>> \in before
                  /\ \A y \in X : <<q, y>> \in before1 => y = p \/ <<p, y>> \in before

\* What is g[x][i] was h[u][k].
From(h, g, p, q, n, x, i, u, k) ==
    /\ Key(g[x][i]) = Key(h[u][k])
    /\ \/ x # p /\ u = x /\ k = i
       \/ x = p /\ u = p /\ k = i + n
       \/ x = q /\ u = p /\ k = i - Len(h[q]) /\ k <= n

\* What is moved comes from somewhere.
LEMMA MovedFrom ==
    ASSUME NEW X, NEW h, NEW g, LenNat(X, h), LenNat(X, g),
           NEW p \in X, NEW q, NEW n \in Nat, MovesIn(X, h, g, p, q, n),
           NEW x \in X, NEW i \in 1 .. Len(g[x])
    PROVE  \E u \in X : \E k \in 1 .. Len(h[u]) :
               From(h, g, p, q, n, x, i, u, k)
<1>1. i \in Nat \ {0} /\ Len(h[x]) \in Nat /\ Len(h[p]) \in Nat
    BY DEF LenNat
<1>2. \/ x # p /\ i <= Len(h[x]) /\ Key(g[x][i]) = Key(h[x][i])
      \/ x = p /\ i + n <= Len(h[p]) /\ Key(g[p][i]) = Key(h[p][i + n])
      \/ /\ x = q /\ i > Len(h[q]) /\ i - Len(h[q]) <= n /\ n <= Len(h[p])
         /\ Key(g[q][i]) = Key(h[p][i - Len(h[q])])
    BY DEF MovesIn
<1>3. CASE x # p /\ i <= Len(h[x]) /\ Key(g[x][i]) = Key(h[x][i])
    <2>1. i \in 1 .. Len(h[x])
        BY <1>1, <1>3
    <2> QED
        BY <1>3, <2>1 DEF From
<1>4. CASE x = p /\ i + n <= Len(h[p]) /\ Key(g[p][i]) = Key(h[p][i + n])
    <2>1. i + n \in 1 .. Len(h[p])
        BY <1>1, <1>4
    <2> QED
        BY <1>4, <2>1 DEF From
<1>5. CASE /\ x = q /\ i > Len(h[q]) /\ i - Len(h[q]) <= n /\ n <= Len(h[p])
           /\ Key(g[q][i]) = Key(h[p][i - Len(h[q])])
    <2>1. i - Len(h[q]) \in 1 .. Len(h[p])
        BY <1>1, <1>5
    <2> QED
        BY <1>5, <2>1 DEF From
<1> QED
    BY <1>2, <1>3, <1>4, <1>5

\* What is moved stays apart.
LEMMA MovedApart ==
    ASSUME NEW X, NEW h, NEW g, LenNat(X, h), LenNat(X, g),
           NEW p \in X, NEW q, p # q, NEW n \in Nat,
           ApartIn(X, h), MovesIn(X, h, g, p, q, n)
    PROVE  ApartIn(X, g)
<1> SUFFICES ASSUME NEW x \in X, NEW y \in X,
                    NEW i \in 1 .. Len(g[x]), NEW j \in 1 .. Len(g[y]),
                    Key(g[x][i]) = Key(g[y][j])
             PROVE  x = y /\ i = j
    BY DEF ApartIn
<1>1. PICK u \in X : \E k \in 1 .. Len(h[u]) :
          From(h, g, p, q, n, x, i, u, k)
    BY MovedFrom
<1>2. PICK v \in X : \E l \in 1 .. Len(h[v]) :
          From(h, g, p, q, n, y, j, v, l)
    BY MovedFrom
<1>3. PICK k \in 1 .. Len(h[u]) :
          From(h, g, p, q, n, x, i, u, k)
    BY <1>1
<1>4. PICK l \in 1 .. Len(h[v]) :
          From(h, g, p, q, n, y, j, v, l)
    BY <1>2
<1>5. u = v /\ k = l
    <2>1. k \in 1 .. Len(h[u]) /\ l \in 1 .. Len(h[v])
        BY <1>3, <1>4
    <2>2. Key(h[u][k]) = Key(h[v][l])
        BY <1>3, <1>4 DEF From
    <2> QED
        BY <2>1, <2>2 DEF ApartIn
<1>6. i \in Nat \ {0} /\ j \in Nat \ {0}
    BY DEF LenNat
<1>7. x = q \/ y = q => Len(h[q]) \in Nat
    BY DEF LenNat
<1>8. CASE x = q /\ y = q
    BY <1>3, <1>4, <1>5, <1>6, <1>7, <1>8 DEF From
<1>9. CASE x = q /\ y # q
    BY <1>3, <1>4, <1>5, <1>6, <1>7, <1>9 DEF From
<1>10. CASE x # q /\ y = q
    BY <1>3, <1>4, <1>5, <1>6, <1>7, <1>10 DEF From
<1>11. CASE x # q /\ y # q
    BY <1>3, <1>4, <1>5, <1>6, <1>11 DEF From
<1> QED
    BY <1>8, <1>9, <1>10, <1>11

\* What is new comes from nowhere, the rest from where it is.
LEMMA PostedFrom ==
    ASSUME NEW X, NEW h, NEW g, LenNat(X, h), LenNat(X, g),
           NEW q, NEW t, PostsIn(X, h, g, q, t),
           NEW x \in X, NEW i \in 1 .. Len(g[x])
    PROVE  \/ i \in 1 .. Len(h[x]) /\ Key(g[x][i]) = Key(h[x][i])
           \/ x = q /\ i = Len(h[q]) + 1 /\ Key(g[x][i]) = t
<1>1. i \in Nat \ {0} /\ Len(h[x]) \in Nat
    BY DEF LenNat
<1>2. \/ i <= Len(h[x]) /\ Key(g[x][i]) = Key(h[x][i])
      \/ x = q /\ i = Len(h[q]) + 1 /\ Key(g[q][i]) = t
    BY DEF PostsIn
<1> QED
    BY <1>1, <1>2

\* What is new and has a new key is apart from the rest.
LEMMA PostedApart ==
    ASSUME NEW X, NEW h, NEW g, LenNat(X, h), LenNat(X, g), NEW q, NEW t,
           \A x \in X : \A i \in 1 .. Len(h[x]) : Key(h[x][i]) # t,
           ApartIn(X, h), PostsIn(X, h, g, q, t)
    PROVE  ApartIn(X, g)
<1> SUFFICES ASSUME NEW x \in X, NEW y \in X,
                    NEW i \in 1 .. Len(g[x]), NEW j \in 1 .. Len(g[y]),
                    Key(g[x][i]) = Key(g[y][j])
             PROVE  x = y /\ i = j
    BY DEF ApartIn
<1>1. \/ i \in 1 .. Len(h[x]) /\ Key(g[x][i]) = Key(h[x][i])
      \/ x = q /\ i = Len(h[q]) + 1 /\ Key(g[x][i]) = t
    BY PostedFrom
<1>2. \/ j \in 1 .. Len(h[y]) /\ Key(g[y][j]) = Key(h[y][j])
      \/ y = q /\ j = Len(h[q]) + 1 /\ Key(g[y][j]) = t
    BY PostedFrom
<1>3. \A u, v \in X : \A k \in 1 .. Len(h[u]), l \in 1 .. Len(h[v]) :
          Key(h[u][k]) = Key(h[v][l]) => u = v /\ k = l
    BY DEF ApartIn
<1> QED
    BY <1>1, <1>2, <1>3

\* What is moved on to the place before stays in order.
LEMMA MovedOrdered ==
    ASSUME NEW X, NEW h, NEW g, LenNat(X, h), LenNat(X, g),
           NEW p \in X, NEW q, p # q, NEW n \in Nat,
           NEW before, NEW before1, NEW precedes, NEW precedes1,
           OrderedIn(X, h, before, precedes), MovesIn(X, h, g, p, q, n),
           NextBefore(X, before, before1, p, q), KeptIn(X, h, precedes, precedes1)
    PROVE  OrderedIn(X, g, before1, precedes1)
<1> SUFFICES ASSUME NEW x \in X, NEW y \in X,
                    NEW i \in 1 .. Len(g[x]), NEW j \in 1 .. Len(g[y]),
                    <<x, y>> \in before1 \/ (x = y /\ i < j)
             PROVE  <<Key(g[x][i]), Key(g[y][j])>> \in precedes1
    BY DEF OrderedIn
<1>1. PICK u \in X : \E k \in 1 .. Len(h[u]) :
          From(h, g, p, q, n, x, i, u, k)
    BY MovedFrom
<1>2. PICK v \in X : \E l \in 1 .. Len(h[v]) :
          From(h, g, p, q, n, y, j, v, l)
    BY MovedFrom
<1>3. PICK k \in 1 .. Len(h[u]) :
          From(h, g, p, q, n, x, i, u, k)
    BY <1>1
<1>4. PICK l \in 1 .. Len(h[v]) :
          From(h, g, p, q, n, y, j, v, l)
    BY <1>2
<1>5. i \in Nat \ {0} /\ j \in Nat \ {0}
    BY DEF LenNat
<1>6. k \in 1 .. Len(h[u]) /\ l \in 1 .. Len(h[v]) /\ Len(h[p]) \in Nat
    BY <1>3, <1>4 DEF LenNat
<1>7. <<u, v>> \in before \/ (u = v /\ k < l)
    <2>1. x = q \/ y = q => Len(h[q]) \in Nat
        BY DEF LenNat
    <2>2. CASE x # q /\ y # q
        BY <2>2, <1>3, <1>4, <1>5 DEF From, NextBefore
    <2>3. CASE x = q /\ y = q
        <3>1. q \in X /\ i < j /\ <<q, p>> \in before
            BY <2>3 DEF NextBefore
        <3>2. /\ (u = q /\ k = i) \/ (u = p /\ k = i - Len(h[q]))
              /\ (v = q /\ l = j) \/ (v = p /\ l = j - Len(h[q]))
            BY <1>3, <1>4, <2>3 DEF From
        <3>3. ASSUME u = p, v = q PROVE FALSE
            <4>1. k = i - Len(h[q]) /\ l = j
                BY <3>2, <3>3
            <4>2. k >= 1 /\ l <= Len(h[q])
                BY <1>6, <2>1, <2>3, <3>3
            <4> QED
                BY <1>5, <2>1, <2>3, <3>1, <4>1, <4>2
        <3> QED
            BY <1>5, <2>1, <2>3, <3>1, <3>2, <3>3
    <2>4. CASE x = q /\ y # q
        BY SMTT(30), <2>1, <2>4, <1>3, <1>4, <1>5 DEF From, NextBefore
    <2>5. CASE x # q /\ y = q
        BY <2>1, <2>5, <1>3, <1>4, <1>5 DEF From, NextBefore
    <2> QED
        BY <2>2, <2>3, <2>4, <2>5
<1>8. <<Key(h[u][k]), Key(h[v][l])>> \in precedes
    BY <1>6, <1>7 DEF OrderedIn
<1> QED
    BY <1>3, <1>4, <1>6, <1>8 DEF From, KeptIn

\* What is new stays in order if all that is before it precedes it, and it
\* precedes all that is behind it.
LEMMA PostedOrdered ==
    ASSUME NEW X, NEW h, NEW g, LenNat(X, h), LenNat(X, g), NEW q \in X, NEW t,
           NEW before, NEW before1, NEW precedes, NEW precedes1,
           OrderedIn(X, h, before, precedes), PostsIn(X, h, g, q, t),
           \A x, y \in X : Len(h[x]) > 0 /\ Len(h[y]) > 0 /\ <<x, y>> \in before1 => <<x, y>> \in before,
           KeptIn(X, h, precedes, precedes1),
           <<q, q>> \notin before1,
           \A x \in X : \A i \in 1 .. Len(h[x]) :
               /\ x = q \/ <<x, q>> \in before1 => <<Key(h[x][i]), t>> \in precedes1
               /\ <<q, x>> \in before1 => <<t, Key(h[x][i])>> \in precedes1
    PROVE  OrderedIn(X, g, before1, precedes1)
<1> SUFFICES ASSUME NEW x \in X, NEW y \in X,
                    NEW i \in 1 .. Len(g[x]), NEW j \in 1 .. Len(g[y]),
                    <<x, y>> \in before1 \/ (x = y /\ i < j)
             PROVE  <<Key(g[x][i]), Key(g[y][j])>> \in precedes1
    BY DEF OrderedIn
<1>1. \/ i \in 1 .. Len(h[x]) /\ Key(g[x][i]) = Key(h[x][i])
      \/ x = q /\ i = Len(h[q]) + 1 /\ Key(g[x][i]) = t
    BY PostedFrom
<1>2. \/ j \in 1 .. Len(h[y]) /\ Key(g[y][j]) = Key(h[y][j])
      \/ y = q /\ j = Len(h[q]) + 1 /\ Key(g[y][j]) = t
    BY PostedFrom
<1>3. i \in Nat \ {0} /\ j \in Nat \ {0} /\ Len(h[x]) \in Nat /\ Len(h[y]) \in Nat
    BY DEF LenNat
<1>4. CASE /\ i \in 1 .. Len(h[x]) /\ Key(g[x][i]) = Key(h[x][i])
           /\ j \in 1 .. Len(h[y]) /\ Key(g[y][j]) = Key(h[y][j])
    <2>1. Len(h[x]) > 0 /\ Len(h[y]) > 0
        BY <1>3, <1>4
    <2>2. <<x, y>> \in before \/ (x = y /\ i < j)
        BY <2>1
    <2>3. <<Key(h[x][i]), Key(h[y][j])>> \in precedes
        BY <1>4, <2>2 DEF OrderedIn
    <2> QED
        BY <1>4, <2>3 DEF KeptIn
<1>5. CASE x = q /\ i = Len(h[q]) + 1 /\ Key(g[x][i]) = t
    <2>1. y # q /\ <<q, y>> \in before1
        BY <1>2, <1>3, <1>5
    <2>2. j \in 1 .. Len(h[y]) /\ Key(g[y][j]) = Key(h[y][j])
        BY <1>2, <2>1
    <2> QED
        BY <1>5, <2>1, <2>2
<1>6. CASE y = q /\ j = Len(h[q]) + 1 /\ Key(g[y][j]) = t
    BY <1>1, <1>3, <1>5, <1>6
<1> QED
    BY <1>1, <1>2, <1>4, <1>5, <1>6

-----------------------------------------------------------------------------
(* The places of Server *)

Recvq       == <<"recvq", Nil>>
Sendq       == <<"sendq", Nil>>
HandsOf(w)  == <<"worker", w>>
BufferOf(a) == <<"client", a>>
PeerOf(k)   == <<"peer", k>>
Nowhere     == <<"nowhere", Nil>>

Carriers ==
    {Recvq, Sendq} \cup {HandsOf(w) : w \in Workers} \cup {BufferOf(a) : a \in Addrs}
        \cup {PeerOf(k) : k \in Conns}

held ==
    [x \in Carriers |->
        IF x[1] = "recvq" THEN recvq
        ELSE IF x[1] = "sendq" THEN sendq
        ELSE IF x[1] = "worker"
             THEN IF wpc[x[2]] \in {"process", "push"} THEN <<wmsg[x[2]]>> ELSE <<>>
        ELSE IF x[1] = "client"
             THEN IF client[x[2]] # Nil THEN client[x[2]].send ELSE <<>>
        ELSE got[x[2]]]

\* Whatever is held is of a connection that has come.
Known ==
    /\ LenNat(Carriers, held)
    /\ \A x \in Carriers : \A i \in 1 .. Len(held[x]) :
           /\ held[x][i].conn \in Conns /\ held[x][i].n \in Nat
           /\ peer[held[x][i].conn] # "away"

LEMMA Kinds ==
    /\ Recvq \in Carriers /\ Sendq \in Carriers /\ Nowhere \notin Carriers
    /\ \A w \in Workers : HandsOf(w) \in Carriers
    /\ \A a \in Addrs : BufferOf(a) \in Carriers
    /\ \A k \in Conns : PeerOf(k) \in Carriers
    /\ \A x \in Carriers : \/ x = Recvq \/ x = Sendq
                           \/ \E w \in Workers : x = HandsOf(w)
                           \/ \E a \in Addrs : x = BufferOf(a)
                           \/ \E k \in Conns : x = PeerOf(k)
BY DEF Carriers, Recvq, Sendq, HandsOf, BufferOf, PeerOf, Nowhere

LEMMA Distinct ==
    /\ Recvq # Sendq
    /\ \A w \in Workers : HandsOf(w) # Recvq /\ HandsOf(w) # Sendq
    /\ \A a \in Addrs : BufferOf(a) # Recvq /\ BufferOf(a) # Sendq
    /\ \A k \in Conns : PeerOf(k) # Recvq /\ PeerOf(k) # Sendq
    /\ \A w \in Workers, a \in Addrs : HandsOf(w) # BufferOf(a)
    /\ \A w \in Workers, k \in Conns : HandsOf(w) # PeerOf(k)
    /\ \A a \in Addrs, k \in Conns : BufferOf(a) # PeerOf(k)
    /\ \A v, w \in Workers : HandsOf(v) = HandsOf(w) => v = w
    /\ \A a, b \in Addrs : BufferOf(a) = BufferOf(b) => a = b
    /\ \A k, l \in Conns : PeerOf(k) = PeerOf(l) => k = l
BY DEF Recvq, Sendq, HandsOf, BufferOf, PeerOf

HeldAre ==
    /\ held[Recvq] = recvq /\ held[Sendq] = sendq
    /\ \A w \in Workers : held[HandsOf(w)] =
           IF wpc[w] \in {"process", "push"} THEN <<wmsg[w]>> ELSE <<>>
    /\ \A a \in Addrs : held[BufferOf(a)] = IF client[a] # Nil THEN client[a].send ELSE <<>>
    /\ \A k \in Conns : held[PeerOf(k)] = got[k]

LEMMA HeldIs == HeldAre
<1>1. held[Recvq] = recvq
    BY Kinds DEF held, Recvq
<1>2. held[Sendq] = sendq
    BY Kinds DEF held, Sendq
<1>3. ASSUME NEW w \in Workers
      PROVE  held[HandsOf(w)] = IF wpc[w] \in {"process", "push"} THEN <<wmsg[w]>> ELSE <<>>
    BY Kinds DEF held, HandsOf
<1>4. ASSUME NEW a \in Addrs
      PROVE  held[BufferOf(a)] = IF client[a] # Nil THEN client[a].send ELSE <<>>
    BY Kinds DEF held, BufferOf
<1>5. ASSUME NEW k \in Conns
      PROVE  held[PeerOf(k)] = got[k]
    BY Kinds DEF held, PeerOf
<1> QED
    BY <1>1, <1>2, <1>3, <1>4, <1>5 DEF HeldAre

LEMMA HeldNext == HeldAre'
BY HeldIs, PTL

LEMMA AllKnown == PInv => Known
<1> SUFFICES ASSUME PInv PROVE Known
    OBVIOUS
<1>1. ASSUME NEW x \in Carriers
      PROVE  /\ Len(held[x]) \in Nat
             /\ \A i \in 1 .. Len(held[x]) : /\ held[x][i].conn \in Conns /\ held[x][i].n \in Nat
                                             /\ peer[held[x][i].conn] # "away"
    <2>1. CASE x = Recvq
        <3>1. held[x] = recvq /\ recvq \in Seq(Message)
            BY <2>1, HeldIs DEF HeldAre, PInv, IInv, TypeOK
        <3>2. \A i \in 1 .. Len(recvq) : recvq[i] \in Message
            BY <3>1
        <3> QED
            BY <3>1, <3>2 DEF PInv, Addressed, Names, Message
    <2>2. CASE x = Sendq
        <3>1. held[x] = sendq /\ sendq \in Seq(Message)
            BY <2>2, HeldIs DEF HeldAre, PInv, IInv, TypeOK
        <3>2. \A i \in 1 .. Len(sendq) : sendq[i] \in Message
            BY <3>1
        <3> QED
            BY <3>1, <3>2 DEF PInv, Addressed, Names, Message
    <2>3. ASSUME NEW w \in Workers, x = HandsOf(w)
          PROVE  /\ Len(held[x]) \in Nat
                 /\ \A i \in 1 .. Len(held[x]) : /\ held[x][i].conn \in Conns /\ held[x][i].n \in Nat
                                                 /\ peer[held[x][i].conn] # "away"
        <3>1. CASE wpc[w] \in {"process", "push"}
            <4>1. held[x] = <<wmsg[w]>> /\ wmsg[w] \in Message /\ Names(wmsg[w])
                BY <2>3, <3>1, HeldIs DEF HeldAre, PInv, IInv, Holding, Addressed
            <4>2. \A i \in 1 .. Len(held[x]) : held[x][i] = wmsg[w]
                BY <4>1
            <4>3. Len(held[x]) = 1
                BY <4>1
            <4> QED
                BY <4>1, <4>2, <4>3 DEF Names, Message
        <3>2. CASE wpc[w] \notin {"process", "push"}
            <4>1. held[x] = <<>>
                BY <2>3, <3>2, HeldIs DEF HeldAre
            <4>2. Len(held[x]) = 0
                BY <4>1
            <4> QED
                BY <4>2
        <3> QED
            BY <3>1, <3>2
    <2>4. ASSUME NEW a \in Addrs, x = BufferOf(a)
          PROVE  /\ Len(held[x]) \in Nat
                 /\ \A i \in 1 .. Len(held[x]) : /\ held[x][i].conn \in Conns /\ held[x][i].n \in Nat
                                                 /\ peer[held[x][i].conn] # "away"
        <3>1. CASE client[a] # Nil
            <4>1. held[x] = client[a].send /\ client[a] \in Client /\ a \in Live
                BY <2>4, <3>1, HeldIs DEF HeldAre, PInv, IInv, TypeOK, Live
            <4>2. held[x] \in Seq(Response)
                BY <4>1 DEF Client
            <4>3. \A i \in 1 .. Len(held[x]) : held[x][i] \in Response
                BY <4>2
            <4> QED
                BY <4>1, <4>2, <4>3 DEF PInv, Placed, At, Twin, Response
        <3>2. CASE client[a] = Nil
            <4>1. held[x] = <<>>
                BY <2>4, <3>2, HeldIs DEF HeldAre
            <4>2. Len(held[x]) = 0
                BY <4>1
            <4> QED
                BY <4>2
        <3> QED
            BY <3>1, <3>2
    <2>5. ASSUME NEW k \in Conns, x = PeerOf(k)
          PROVE  /\ Len(held[x]) \in Nat
                 /\ \A i \in 1 .. Len(held[x]) : /\ held[x][i].conn \in Conns /\ held[x][i].n \in Nat
                                                 /\ peer[held[x][i].conn] # "away"
        <3>1. held[x] = got[k] /\ got[k] \in Seq(Response)
            BY <2>5, HeldIs DEF HeldAre, PInv, IInv, TypeOK
        <3>2. \A i \in 1 .. Len(got[k]) : got[k][i] \in Response
            BY <3>1
        <3> QED
            BY <3>1, <3>2 DEF PInv, Received, Twin, Response
    <2> QED
        BY <2>1, <2>2, <2>3, <2>4, <2>5, Kinds
<1> QED
    BY <1>1 DEF Known, LenNat

LEMMA StillKnown == PInv' => Known'
BY AllKnown, PTL

LEMMA KnownKey ==
    ASSUME PInv, NEW x \in Carriers, NEW i \in 1 .. Len(held[x])
    PROVE  Key(held[x][i]) \in Conns \X Nat /\ peer[Key(held[x][i])[1]] # "away"
BY AllKnown DEF Known, Key

-----------------------------------------------------------------------------
(* What a step moves *)

\* A place keeps what it holds, or loses some from the end.
Keeps(x) ==
    \A i \in 1 .. Len(held'[x]) :
        i <= Len(held[x]) /\ Key(held'[x][i]) = Key(held[x][i])

\* The clients that are there after a step were there before it.
NoneNew == \A a \in Live' : a \in Live /\ client'[a].conn = client[a].conn

\* The way of a request and its response, or out of sight.
Route(p, q) ==
    \/ q = Nowhere
    \/ p = Recvq /\ \E w \in Workers : q = HandsOf(w)
    \/ (\E w \in Workers : p = HandsOf(w)) /\ q = Sendq
    \/ p = Sendq /\ \E a \in Live' : q = BufferOf(a)
    \/ \E a \in Live : p = BufferOf(a) /\ q = PeerOf(client[a].conn)

\* Some go on along the route, and some may be lost.
Onward ==
    /\ \E p \in Carriers, q \in Carriers \cup {Nowhere}, n \in Nat :
           Route(p, q) /\ MovesIn(Carriers, held, held', p, q, n)
    /\ NoneNew
    /\ asked' = asked

\* The next request of a client is dispatched.
Dispatched ==
    \E a \in Live : LET k == client[a].conn IN
        /\ PostsIn(Carriers, held, held', Recvq, <<k, asked[k] + 1>>)
        /\ asked' = [asked EXCEPT ![k] = @ + 1]
        /\ NoneNew

\* A new client is greeted by handle_open.
Greeted ==
    \E k \in Conns, a \in Addrs :
        /\ peer[k] = "away" /\ client[a] = Nil
        /\ PostsIn(Carriers, held, held', BufferOf(a), <<k, 0>>)
        /\ asked' = asked
        /\ \A b \in Live' : \/ b = a /\ client'[b].conn = k
                            \/ b \in Live /\ client'[b].conn = client[b].conn

LEMMA Alike ==
    ASSUME NEW x, held'[x] = held[x]
    PROVE  Keeps(x)
BY DEF Keeps

LEMMA Emptied ==
    ASSUME NEW x, held'[x] = <<>>
    PROVE  Keeps(x)
BY DEF Keeps

\* Nothing moves.
LEMMA Unmoved ==
    ASSUME Known, \A x \in Carriers : Keeps(x), NoneNew, asked' = asked
    PROVE  Onward
<1>1. MovesIn(Carriers, held, held', Recvq, Nowhere, 0)
    BY Kinds DEF MovesIn, Keeps, Known, LenNat
<1> QED
    BY <1>1, Kinds DEF Onward, Route

\* What is taken from p and put to q, if q is a place, moves.
LEMMA Carried ==
    ASSUME NEW p \in Carriers, NEW q \in Carriers \cup {Nowhere}, p # q, NEW n \in Nat,
           \A x \in Carriers : x # p /\ x # q => Keeps(x),
           \A i \in 1 .. Len(held'[p]) :
               i + n <= Len(held[p]) /\ Key(held'[p][i]) = Key(held[p][i + n]),
           q \in Carriers =>
               \A i \in 1 .. Len(held'[q]) :
                   \/ i <= Len(held[q]) /\ Key(held'[q][i]) = Key(held[q][i])
                   \/ /\ i > Len(held[q]) /\ i - Len(held[q]) <= n /\ n <= Len(held[p])
                      /\ Key(held'[q][i]) = Key(held[p][i - Len(held[q])])
    PROVE  MovesIn(Carriers, held, held', p, q, n)
BY DEF MovesIn, Keeps

\* Variables a step leaves alone, and the places they stand for.
LEMMA SameQueues ==
    /\ recvq' = recvq => Keeps(Recvq)
    /\ sendq' = sendq => Keeps(Sendq)
BY HeldIs, HeldNext, Alike DEF HeldAre

LEMMA SameHands ==
    ASSUME UNCHANGED <<wpc, wmsg>>
    PROVE  \A w \in Workers : Keeps(HandsOf(w))
BY HeldIs, HeldNext, Alike DEF HeldAre

LEMMA SameBuffers ==
    ASSUME client' = client
    PROVE  (\A a \in Addrs : Keeps(BufferOf(a))) /\ NoneNew
BY HeldIs, HeldNext, Alike DEF HeldAre, NoneNew, Live

LEMMA SamePeers ==
    ASSUME got' = got
    PROVE  \A k \in Conns : Keeps(PeerOf(k))
BY HeldIs, HeldNext, Alike DEF HeldAre

LEMMA ClosedBuffers ==
    ASSUME NEW gone \in SUBSET Live, CloseAll(gone)
    PROVE  (\A a \in Addrs : Keeps(BufferOf(a))) /\ NoneNew
<1>1. client' = [a \in Addrs |-> IF a \in gone THEN Nil ELSE client[a]]
    BY DEF CloseAll
<1>2. NoneNew
    BY <1>1 DEF NoneNew, Live
<1>3. ASSUME NEW a \in Addrs
      PROVE  Keeps(BufferOf(a))
    <2>1. client'[a] = client[a] \/ client'[a] = Nil
        BY <1>1
    <2>2. held'[BufferOf(a)] = held[BufferOf(a)] \/ held'[BufferOf(a)] = <<>>
        BY <2>1, HeldIs, HeldNext DEF HeldAre
    <2> QED
        BY <2>2, Alike, Emptied
<1> QED
    BY <1>2, <1>3

LEMMA QuietMoves ==
    ASSUME Known, UNCHANGED <<recvq, sendq, wpc, wmsg, client, got, asked>>
    PROVE  Onward
BY Kinds, SameQueues, SameHands, SameBuffers, SamePeers, Unmoved

LEMMA ClosingMoves ==
    ASSUME Known, NEW gone \in SUBSET Live, CloseAll(gone),
           UNCHANGED <<recvq, sendq, wpc, wmsg, got, asked>>
    PROVE  Onward
BY Kinds, SameQueues, SameHands, ClosedBuffers, SamePeers, Unmoved

LEMMA ConnDiesMoves ==
    ASSUME Known, ConnDies
    PROVE  Onward
<1>1. /\ client' = [a \in Addrs |-> Nil]
      /\ UNCHANGED <<recvq, sendq, wpc, wmsg, got, asked>>
    BY DEF ConnDies, work, hist
<1>2. NoneNew
    BY <1>1 DEF NoneNew, Live
<1>3. \A a \in Addrs : Keeps(BufferOf(a))
    BY <1>1, HeldNext, Emptied DEF HeldAre
<1> QED
    BY <1>1, <1>2, <1>3, Kinds, SameQueues, SameHands, SamePeers, Unmoved

LEMMA WorkerPopMoves ==
    ASSUME PInv, NEW w \in Workers, WorkerPop(w)
    PROVE  Onward
<1>1. /\ wpc[w] = "pop" /\ recvq # <<>> /\ recvq' = Tail(recvq)
      /\ wmsg' = [wmsg EXCEPT ![w] = Head(recvq)] /\ wpc' = [wpc EXCEPT ![w] = "process"]
      /\ UNCHANGED <<sendq, client, got, asked>>
    BY DEF WorkerPop, Goto, proc, net, hist
<1>2. recvq \in Seq(Message) /\ wpc \in [Workers -> {"pop", "process", "push", "notify"}]
      /\ wmsg \in [Workers -> Message \cup {Nil}]
    BY DEF PInv, IInv, TypeOK
<1>3. held[HandsOf(w)] = <<>> /\ held'[HandsOf(w)] = <<recvq[1]>>
    <2>1. wpc'[w] = "process" /\ wmsg'[w] = recvq[1]
        BY <1>1, <1>2
    <2>2. wpc[w] \notin {"process", "push"}
        BY <1>1
    <2>3. held[HandsOf(w)] = <<>>
        BY <2>2, HeldIs DEF HeldAre
    <2>4. held'[HandsOf(w)] = <<wmsg'[w]>>
        BY <2>1, HeldNext DEF HeldAre
    <2> QED
        BY <2>1, <2>3, <2>4
<1>4. held[Recvq] = recvq /\ held'[Recvq] = Tail(recvq)
    BY <1>1, HeldIs, HeldNext DEF HeldAre
<1>5. ASSUME NEW x \in Carriers, x # Recvq, x # HandsOf(w)
      PROVE  Keeps(x)
    <2>1. ASSUME NEW v \in Workers, v # w
          PROVE  Keeps(HandsOf(v))
        <3>1. wpc'[v] = wpc[v] /\ wmsg'[v] = wmsg[v]
            BY <1>1, <1>2, <2>1
        <3> QED
            BY <3>1, HeldIs, HeldNext, Alike DEF HeldAre
    <2> QED
        BY <1>1, <1>5, <2>1, Kinds, SameQueues, SameBuffers, SamePeers
<1>6. MovesIn(Carriers, held, held', Recvq, HandsOf(w), 1)
    <2>1. \A i \in 1 .. Len(held'[Recvq]) :
              i + 1 <= Len(held[Recvq]) /\ Key(held'[Recvq][i]) = Key(held[Recvq][i + 1])
        BY <1>1, <1>2, <1>4
    <2>2. \A i \in 1 .. Len(held'[HandsOf(w)]) :
              /\ i > Len(held[HandsOf(w)]) /\ i - Len(held[HandsOf(w)]) <= 1 /\ 1 <= Len(held[Recvq])
              /\ Key(held'[HandsOf(w)][i]) = Key(held[Recvq][i - Len(held[HandsOf(w)])])
        <3>1. Len(held'[HandsOf(w)]) = 1 /\ held'[HandsOf(w)][1] = recvq[1]
            BY <1>3
        <3>2. Len(held[HandsOf(w)]) = 0 /\ 1 <= Len(held[Recvq])
            BY <1>1, <1>2, <1>3, <1>4
        <3> QED
            BY <1>4, <3>1, <3>2
    <2> QED
        BY <1>5, <2>1, <2>2, Carried, Kinds, Distinct
<1> QED
    BY <1>1, <1>6, Kinds, SameBuffers DEF Onward, Route

LEMMA WorkerPushMoves ==
    ASSUME PInv, NEW w \in Workers, WorkerPush(w)
    PROVE  Onward
<1>1. /\ wpc[w] = "push" /\ sendq' = Append(sendq, wmsg[w])
      /\ wmsg' = [wmsg EXCEPT ![w] = Nil] /\ wpc' = [wpc EXCEPT ![w] = "notify"]
      /\ UNCHANGED <<recvq, client, got, asked>>
    BY DEF WorkerPush, Goto, proc, net, hist
<1>2. sendq \in Seq(Message) /\ wpc \in [Workers -> {"pop", "process", "push", "notify"}]
      /\ wmsg \in [Workers -> Message \cup {Nil}] /\ wmsg[w] \in Message
    BY <1>1 DEF PInv, IInv, TypeOK, Holding
<1>3. held[HandsOf(w)] = <<wmsg[w]>> /\ held'[HandsOf(w)] = <<>>
    <2>1. wpc'[w] = "notify"
        BY <1>1, <1>2
    <2> QED
        BY <1>1, <2>1, HeldIs, HeldNext DEF HeldAre
<1>4. held[Sendq] = sendq /\ held'[Sendq] = Append(sendq, wmsg[w])
    BY <1>1, HeldIs, HeldNext DEF HeldAre
<1>5. ASSUME NEW x \in Carriers, x # Sendq, x # HandsOf(w)
      PROVE  Keeps(x)
    <2>1. ASSUME NEW v \in Workers, v # w
          PROVE  Keeps(HandsOf(v))
        <3>1. wpc'[v] = wpc[v] /\ wmsg'[v] = wmsg[v]
            BY <1>1, <1>2, <2>1
        <3> QED
            BY <3>1, HeldIs, HeldNext, Alike DEF HeldAre
    <2> QED
        BY <1>1, <1>5, <2>1, Kinds, SameQueues, SameBuffers, SamePeers
<1>6. MovesIn(Carriers, held, held', HandsOf(w), Sendq, 1)
    <2>1. \A i \in 1 .. Len(held'[HandsOf(w)]) :
              /\ i + 1 <= Len(held[HandsOf(w)])
              /\ Key(held'[HandsOf(w)][i]) = Key(held[HandsOf(w)][i + 1])
        BY <1>3
    <2>2. \A i \in 1 .. Len(held'[Sendq]) :
              \/ i <= Len(held[Sendq]) /\ Key(held'[Sendq][i]) = Key(held[Sendq][i])
              \/ /\ i > Len(held[Sendq]) /\ i - Len(held[Sendq]) <= 1 /\ 1 <= Len(held[HandsOf(w)])
                 /\ Key(held'[Sendq][i]) = Key(held[HandsOf(w)][i - Len(held[Sendq])])
        <3>1. Len(held[HandsOf(w)]) = 1 /\ held[HandsOf(w)][1] = wmsg[w]
            BY <1>3
        <3> QED
            BY <1>2, <1>4, <3>1
    <2> QED
        BY <1>5, <2>1, <2>2, Carried, Kinds, Distinct
<1> QED
    BY <1>1, <1>6, Kinds, SameBuffers DEF Onward, Route

\* The other steps of a worker: it may lose what it holds.
LEMMA WorkerMoves ==
    ASSUME PInv, NEW w \in Workers,
           WorkerNotify(w) \/ WorkerDies(w) \/ \E result \in Hooks : WorkerProcess(w, result)
    PROVE  Onward
<1>1. UNCHANGED <<recvq, sendq, client, got, asked>>
    BY DEF WorkerNotify, WorkerDies, WorkerProcess, proc, net, hist
<1>2. /\ wpc \in [Workers -> {"pop", "process", "push", "notify"}]
      /\ wmsg \in [Workers -> Message \cup {Nil}]
      /\ wpc[w] \in {"process", "push"} => wmsg[w] \in Message
    BY DEF PInv, IInv, TypeOK, Holding
<1>3. ASSUME NEW v \in Workers, v # w
      PROVE  Keeps(HandsOf(v))
    <2>1. wpc'[v] = wpc[v] /\ wmsg'[v] = wmsg[v]
        BY <1>2, <1>3 DEF WorkerNotify, WorkerDies, WorkerProcess, Goto
    <2> QED
        BY <2>1, HeldIs, HeldNext, Alike DEF HeldAre
<1>4. Keeps(HandsOf(w))
    <2>1. CASE WorkerNotify(w) \/ WorkerDies(w)
        <3>1. wpc'[w] = "pop"
            BY <1>2, <2>1 DEF WorkerNotify, WorkerDies, Goto
        <3> QED
            BY <3>1, HeldNext, Emptied DEF HeldAre
    <2>2. CASE \E result \in Hooks : WorkerProcess(w, result)
        <3>1. PICK b : /\ wpc[w] = "process" /\ wpc' = [wpc EXCEPT ![w] = "push"]
                       /\ wmsg' = [wmsg EXCEPT ![w].close = b]
            BY <2>2 DEF WorkerProcess, Goto
        <3>2. /\ wpc'[w] = "push"
              /\ wmsg'[w].conn = wmsg[w].conn /\ wmsg'[w].n = wmsg[w].n
            BY <1>2, <3>1 DEF Message
        <3>3. held[HandsOf(w)] = <<wmsg[w]>> /\ held'[HandsOf(w)] = <<wmsg'[w]>>
            BY <3>1, <3>2, HeldIs, HeldNext DEF HeldAre
        <3>4. /\ Len(held[HandsOf(w)]) = 1 /\ Len(held'[HandsOf(w)]) = 1
              /\ held[HandsOf(w)][1] = wmsg[w] /\ held'[HandsOf(w)][1] = wmsg'[w]
            BY <3>3
        <3> QED
            BY <3>2, <3>4 DEF Keeps, Key
    <2> QED
        BY <2>1, <2>2
<1> QED
    BY <1>1, <1>3, <1>4, AllKnown, Kinds, SameQueues, SameBuffers, SamePeers, Unmoved

\* What notifier_handler takes from send_queue.
LEMMA Taken ==
    ASSUME PInv, sendq # <<>>, sendq' = Tail(sendq)
    PROVE  /\ held[Sendq][1] = Head(sendq) /\ Len(held[Sendq]) >= 1
           /\ \A i \in 1 .. Len(held'[Sendq]) :
                  i + 1 <= Len(held[Sendq]) /\ Key(held'[Sendq][i]) = Key(held[Sendq][i + 1])
<1>1. sendq \in Seq(Message)
    BY DEF PInv, IInv, TypeOK
<1>2. held[Sendq] = sendq /\ held'[Sendq] = Tail(sendq)
    BY HeldIs, HeldNext DEF HeldAre
<1> QED
    BY <1>1, <1>2

LEMMA DiscardMoves ==
    ASSUME PInv, Discard
    PROVE  Onward
<1>1. /\ sendq # <<>> /\ sendq' = Tail(sendq)
      /\ UNCHANGED <<recvq, wpc, wmsg, client, got, asked>>
    BY DEF Discard, proc, work, net, hist
<1>2. MovesIn(Carriers, held, held', Sendq, Nowhere, 1)
    BY <1>1, Taken, Carried, Kinds, SameQueues, SameHands, SameBuffers, SamePeers
<1> QED
    BY <1>1, <1>2, Kinds, SameBuffers DEF Onward, Route

LEMMA HandOverMoves ==
    ASSUME PInv, HandOver
    PROVE  Onward
<1> DEFINE m == Head(sendq)
           a == m.addr
           c == client[a]
           r == [conn |-> m.conn, n |-> m.n, close |-> m.close]
           e == [c EXCEPT !.close = m.close, !.send = Buffered(@, r)]
<1>1. /\ sendq # <<>> /\ sendq' = Tail(sendq) /\ vec[m.fd] = a
      /\ UNCHANGED <<recvq, wpc, wmsg, got, asked>>
    BY DEF HandOver, Accepts, work, hist
<1>2. a \in Live /\ c \in Client
    <2>1. m \in Message
        BY <1>1 DEF PInv, IInv, TypeOK
    <2>2. m.fd \in Fds /\ a \in Addrs /\ a # Nil
        BY <2>1, Bounds DEF Message
    <2> QED
        BY <1>1, <2>2 DEF PInv, IInv, NoDangling, Live, TypeOK
<1>3. CASE Close(a)
    <2>1. (\A b \in Addrs : Keeps(BufferOf(b))) /\ NoneNew
        BY <1>2, <1>3, ClosedBuffers DEF Close
    <2>2. MovesIn(Carriers, held, held', Sendq, Nowhere, 1)
        BY <1>1, <2>1, Taken, Carried, Kinds, SameQueues, SameHands, SamePeers
    <2> QED
        BY <1>1, <2>1, <2>2, Kinds DEF Onward, Route
<1>4. CASE client' = [client EXCEPT ![a] = e]
    <2>1. e.conn = c.conn /\ e.send = Append(c.send, r) /\ c.send \in Seq(Response)
        BY <1>2 DEF Client, Buffered
    <2>2. Key(r) = Key(m)
        BY DEF Key
    <2> HIDE DEF e, r, m
    <2>3. a \in Addrs /\ client[a] # Nil /\ client'[a] = e
          /\ \A b \in Addrs : b # a => client'[b] = client[b]
        BY <1>2, <1>4 DEF Live, PInv, IInv, TypeOK
    <2>4. NoneNew
        BY <2>1, <2>3 DEF NoneNew, Live
    <2>5. CASE e = Nil
        <3>1. \A b \in Addrs : Keeps(BufferOf(b))
            BY <2>3, <2>5, HeldIs, HeldNext, Alike, Emptied DEF HeldAre
        <3>2. MovesIn(Carriers, held, held', Sendq, Nowhere, 1)
            BY <1>1, <3>1, Taken, Carried, Kinds, SameQueues, SameHands, SamePeers
        <3> QED
            BY <1>1, <2>4, <3>2, Kinds DEF Onward, Route
    <2>6. CASE e # Nil
        <3>1. held[BufferOf(a)] = c.send /\ held'[BufferOf(a)] = Append(c.send, r)
            BY <2>1, <2>3, <2>6, HeldIs, HeldNext DEF HeldAre
        <3>2. \A b \in Addrs : b # a => Keeps(BufferOf(b))
            BY <2>3, HeldIs, HeldNext, Alike DEF HeldAre
        <3>3. held[Sendq][1] = m /\ Len(held[Sendq]) >= 1
            BY <1>1, Taken DEF m
        <3>4. \A i \in 1 .. Len(held'[BufferOf(a)]) :
                  \/ /\ i <= Len(held[BufferOf(a)])
                     /\ Key(held'[BufferOf(a)][i]) = Key(held[BufferOf(a)][i])
                  \/ /\ i > Len(held[BufferOf(a)]) /\ i - Len(held[BufferOf(a)]) <= 1
                     /\ 1 <= Len(held[Sendq])
                     /\ Key(held'[BufferOf(a)][i]) = Key(held[Sendq][i - Len(held[BufferOf(a)])])
            BY <2>1, <2>2, <3>1, <3>3
        <3>5. MovesIn(Carriers, held, held', Sendq, BufferOf(a), 1)
            BY ZenonT(60), <1>1, <2>3, <3>2, <3>4, Taken, Carried, Kinds, Distinct, SameQueues, SameHands, SamePeers
        <3>6. a \in Live'
            BY <2>3, <2>6 DEF Live
        <3> QED
            BY <1>1, <2>3, <2>4, <3>5, <3>6, Kinds DEF Onward, Route
    <2> QED
        BY <2>5, <2>6
<1> QED
    BY <1>3, <1>4 DEF HandOver

\* The clients after the step touch only the client at a, and not its connection.
LEMMA OneTouched ==
    ASSUME PInv, NEW a \in Live, NEW e, client' = [client EXCEPT ![a] = e],
           e.conn = client[a].conn
    PROVE  /\ NoneNew
           /\ \A b \in Addrs : b # a => Keeps(BufferOf(b))
           /\ held[BufferOf(a)] = client[a].send
           /\ held'[BufferOf(a)] = IF e # Nil THEN e.send ELSE <<>>
<1>1. a \in Addrs /\ client[a] # Nil /\ client'[a] = e
      /\ \A b \in Addrs : b # a => client'[b] = client[b]
    BY DEF Live, PInv, IInv, TypeOK
<1>2. NoneNew
    BY <1>1 DEF NoneNew, Live
<1>3. \A b \in Addrs : b # a => Keeps(BufferOf(b))
    BY <1>1, HeldIs, HeldNext, Alike DEF HeldAre
<1> QED
    BY <1>1, <1>2, <1>3, HeldIs, HeldNext DEF HeldAre

LEMMA Joined ==
    ASSUME NEW S, NEW s \in Seq(S), NEW t \in Seq(S)
    PROVE  /\ Len(s \o t) = Len(s) + Len(t)
           /\ \A j \in 1 .. Len(s) + Len(t) :
                  (s \o t)[j] = IF j <= Len(s) THEN s[j] ELSE t[j - Len(s)]
OBVIOUS

LEMMA WriteMoves ==
    ASSUME PInv, NEW a \in Addrs, NEW i \in Int, Write(a, i)
    PROVE  Onward
<1> DEFINE c == client[a]
           k == c.conn
           e == [c EXCEPT !.send = Rest(c.send, i)]
           out == SubSeq(c.send, 1, i)
<1>1. UNCHANGED <<recvq, sendq, wpc, wmsg, asked>>
    BY DEF Write, work, hist
<1>2. /\ a \in Live /\ c \in Client /\ k \in Conns /\ c.send \in Seq(Response)
      /\ i \in 0 .. Len(c.send)
    BY DEF Write, Live, Client, PInv, IInv, TypeOK
<1>3. held[BufferOf(a)] = c.send
    BY <1>2, HeldIs DEF HeldAre, Live
<1>4. /\ NoneNew
      /\ \A b \in Addrs : b # a => Keeps(BufferOf(b))
      /\ held'[BufferOf(a)] = <<>> \/ held'[BufferOf(a)] = SubSeq(c.send, i + 1, Len(c.send))
    <2>1. CASE Close(a)
        <3>1. client' = [b \in Addrs |-> IF b = a THEN Nil ELSE client[b]]
            BY <2>1 DEF Close, CloseAll
        <3>2. held'[BufferOf(a)] = <<>>
            BY <3>1, HeldNext DEF HeldAre
        <3> QED
            BY <1>2, <2>1, <3>2, ClosedBuffers DEF Close
    <2>2. CASE client' = [client EXCEPT ![a].send = Rest(@, i)]
        <3>1. e.conn = k /\ e.send = SubSeq(c.send, i + 1, Len(c.send))
            BY <1>2 DEF Client, Rest
        <3>2. client' = [client EXCEPT ![a] = e]
            BY <1>2, <2>2 DEF PInv, IInv, TypeOK
        <3> HIDE DEF e
        <3> QED
            BY <1>2, <3>1, <3>2, OneTouched
    <2> QED
        BY <2>1, <2>2 DEF Write
<1>5. \A j \in 1 .. Len(held'[BufferOf(a)]) :
          /\ j + i <= Len(held[BufferOf(a)])
          /\ Key(held'[BufferOf(a)][j]) = Key(held[BufferOf(a)][j + i])
    <2>1. CASE held'[BufferOf(a)] = <<>>
        BY <2>1
    <2>2. CASE held'[BufferOf(a)] = SubSeq(c.send, i + 1, Len(c.send))
        BY <1>2, <1>3, <2>2
    <2> QED
        BY <1>4, <2>1, <2>2
<1>8. i \in Nat /\ BufferOf(a) \in Carriers
    BY <1>2, Kinds
<1>9. \A x \in Carriers : \/ x = BufferOf(a) \/ Keeps(x)
                          \/ \E l \in Conns : x = PeerOf(l)
    BY <1>1, <1>4, Kinds, SameQueues, SameHands
<1>6. CASE got' = got
    <2>1. MovesIn(Carriers, held, held', BufferOf(a), Nowhere, i)
        <3>1. \A x \in Carriers : x # BufferOf(a) => Keeps(x)
            BY <1>6, <1>9, SamePeers
        <3> QED
            BY <1>5, <1>8, <3>1, Carried, Kinds
    <2> QED
        BY <1>1, <1>2, <1>4, <2>1, Kinds DEF Onward, Route
<1>7. CASE got' = [got EXCEPT ![k] = @ \o out]
    <2>1. /\ got[k] \in Seq(Response) /\ got'[k] = got[k] \o out
          /\ \A l \in Conns : l # k => got'[l] = got[l]
        BY <1>2, <1>7 DEF PInv, IInv, TypeOK
    <2>2. /\ out \in Seq(Response) /\ Len(out) = i
          /\ \A j \in 1 .. i : out[j] = c.send[j]
        BY <1>2
    <2> HIDE DEF out
    <2>3. held[PeerOf(k)] = got[k] /\ held'[PeerOf(k)] = got[k] \o out
        BY <1>2, <2>1, HeldIs, HeldNext DEF HeldAre
    <2>4. \A l \in Conns : l # k => Keeps(PeerOf(l))
        BY <2>1, HeldIs, HeldNext, Alike DEF HeldAre
    <2>7. /\ Len(got[k] \o out) = Len(got[k]) + Len(out) /\ Len(got[k]) \in Nat
          /\ \A j \in 1 .. Len(got[k]) + Len(out) :
                 (got[k] \o out)[j] = IF j <= Len(got[k]) THEN got[k][j] ELSE out[j - Len(got[k])]
        <3>1. got[k] \in Seq(Response) /\ out \in Seq(Response)
            BY <2>1, <2>2
        <3> QED
            BY <3>1, Joined
    <2>5. ASSUME NEW j \in 1 .. Len(held'[PeerOf(k)])
          PROVE  \/ j <= Len(held[PeerOf(k)]) /\ Key(held'[PeerOf(k)][j]) = Key(held[PeerOf(k)][j])
                 \/ /\ j > Len(held[PeerOf(k)]) /\ j - Len(held[PeerOf(k)]) <= i
                    /\ i <= Len(held[BufferOf(a)])
                    /\ Key(held'[PeerOf(k)][j]) = Key(held[BufferOf(a)][j - Len(held[PeerOf(k)])])
        <3>1. j \in 1 .. Len(got[k]) + Len(out)
            BY <2>2, <2>3, <2>7
        <3>4. (got[k] \o out)[j] = IF j <= Len(got[k]) THEN got[k][j] ELSE out[j - Len(got[k])]
            BY <2>7, <3>1
        <3>2. CASE j <= Len(got[k])
            <4>1. (got[k] \o out)[j] = got[k][j]
                BY <3>2, <3>4
            <4> QED
                BY <2>3, <3>2, <4>1
        <3>3. CASE j > Len(got[k])
            <4>1. j - Len(got[k]) \in 1 .. i
                BY SMTT(30), <1>2, <2>2, <2>7, <3>1, <3>3
            <4>2. (got[k] \o out)[j] = out[j - Len(got[k])]
                BY <2>7, <3>1, <3>3, <3>4
            <4>3. held'[PeerOf(k)][j] = held[BufferOf(a)][j - Len(held[PeerOf(k)])]
                BY <1>3, <2>2, <2>3, <4>1, <4>2
            <4>4. i <= Len(held[BufferOf(a)]) /\ j - Len(held[PeerOf(k)]) <= i
                BY <1>2, <1>3, <2>3, <4>1
            <4> QED
                BY <2>3, <3>3, <4>3, <4>4
        <3> QED
            BY <2>7, <3>1, <3>2, <3>3
    <2>6. MovesIn(Carriers, held, held', BufferOf(a), PeerOf(k), i)
        <3>1. \A x \in Carriers : x # BufferOf(a) /\ x # PeerOf(k) => Keeps(x)
            BY <1>9, <2>4
        <3>2. PeerOf(k) \in Carriers /\ BufferOf(a) # PeerOf(k)
            BY <1>2, Kinds, Distinct
        <3> QED
            BY <1>5, <1>8, <2>5, <3>1, <3>2, Carried
    <2> QED
        BY <1>1, <1>2, <1>4, <2>6, Kinds DEF Onward, Route
<1> QED
    BY <1>6, <1>7 DEF Write, out

LEMMA ReadMoves ==
    ASSUME PInv, NEW a \in Addrs, NEW u, Read(a, u)
    PROVE  Onward \/ Dispatched
<1> DEFINE c == client[a]
           k == c.conn
           msg == [addr |-> a, fd |-> c.fd, pid |-> pid, conn |-> k, n |-> asked[k] + 1,
                   close |-> FALSE]
<1>1. UNCHANGED <<sendq, wpc, wmsg, got>>
    BY DEF Read, work
<1>2. a \in Live /\ c \in Client
    BY DEF Read, Live, PInv, IInv, TypeOK
<1>3. CASE Close(a) /\ UNCHANGED <<recvq, asked>>
    BY <1>1, <1>2, <1>3, AllKnown, ClosingMoves DEF Close
<1>4. CASE /\ \E r, d : client' = [client EXCEPT ![a].recv = r, ![a].need = d]
           /\ \/ UNCHANGED <<recvq, asked>>
              \/ recvq' = Append(recvq, msg) /\ asked' = [asked EXCEPT ![k] = @ + 1]
    <2>1. PICK r, d : client' = [client EXCEPT ![a].recv = r, ![a].need = d]
        BY <1>4
    <2> DEFINE e == [c EXCEPT !.recv = r, !.need = d]
    <2>2. e.conn = k /\ e.send = c.send
        BY <1>2 DEF Client
    <2>3. client' = [client EXCEPT ![a] = e]
        BY <1>2, <2>1 DEF PInv, IInv, TypeOK
    <2> HIDE DEF e
    <2>4. NoneNew /\ \A b \in Addrs : Keeps(BufferOf(b))
        BY <1>2, <2>2, <2>3, OneTouched, Alike, Emptied
    <2>5. CASE UNCHANGED <<recvq, asked>>
        BY <1>1, <2>4, <2>5, AllKnown, Kinds, SameQueues, SameHands, SamePeers, Unmoved
    <2>6. CASE recvq' = Append(recvq, msg) /\ asked' = [asked EXCEPT ![k] = @ + 1]
        <3>1. Key(msg) = <<k, asked[k] + 1>>
            BY DEF Key
        <3> HIDE DEF msg
        <3>2. held[Recvq] = recvq /\ held'[Recvq] = Append(recvq, msg) /\ recvq \in Seq(Message)
            BY <2>6, HeldIs, HeldNext DEF HeldAre, PInv, IInv, TypeOK
        <3>3. \A i \in 1 .. Len(held'[Recvq]) :
                  \/ i <= Len(held[Recvq]) /\ Key(held'[Recvq][i]) = Key(held[Recvq][i])
                  \/ i = Len(held[Recvq]) + 1 /\ Key(held'[Recvq][i]) = <<k, asked[k] + 1>>
            BY <3>1, <3>2
        <3>4. \A x \in Carriers : x # Recvq => Keeps(x)
            BY <1>1, <2>4, Kinds, SameQueues, SameHands, SamePeers
        <3>5. PostsIn(Carriers, held, held', Recvq, <<k, asked[k] + 1>>)
            BY <3>3, <3>4 DEF PostsIn, Keeps
        <3> QED
            BY <1>2, <2>4, <2>6, <3>5 DEF Dispatched
    <2> QED
        BY <1>4, <2>5, <2>6
<1> QED
    <2>1. \/ Close(a) /\ UNCHANGED <<recvq, asked>>
          \/ /\ \E r, d : client' = [client EXCEPT ![a].recv = r, ![a].need = d]
             /\ \/ UNCHANGED <<recvq, asked>>
                \/ recvq' = Append(recvq, msg) /\ asked' = [asked EXCEPT ![k] = @ + 1]
        BY DEF Read
    <2> QED
        BY <1>3, <1>4, <2>1

LEMMA AcceptMoves ==
    ASSUME PInv, NEW k \in Conns, NEW a \in Addrs, NEW result, NEW hello \in BOOLEAN,
           Accept(k, a, result, hello)
    PROVE  Greeted
<1> DEFINE fd   == Min({f \in Fds : vec[f] = Nil})
           shut == result = "close"
           r    == [conn |-> k, n |-> 0, close |-> shut]
           text == IF hello THEN <<r>> ELSE <<>>
           c    == [fd |-> fd, conn |-> k, close |-> shut, need |-> 0, recv |-> 0, send |-> text]
<1>1. /\ peer[k] = "away" /\ client[a] = Nil
      /\ client' = [client EXCEPT ![a] = c]
      /\ UNCHANGED <<recvq, sendq, wpc, wmsg, got, asked>>
    BY DEF Accept, work
<1>2. c.conn = k /\ c.send = text /\ Key(r) = <<k, 0>>
    BY DEF Key
<1>3. text = <<>> \/ text = <<r>>
    OBVIOUS
<1> HIDE DEF c, text, r
<1>4. client'[a] = c /\ \A b \in Addrs : b # a => client'[b] = client[b]
    BY <1>1 DEF PInv, IInv, TypeOK
<1>5. \A b \in Live' : \/ b = a /\ client'[b].conn = k
                       \/ b \in Live /\ client'[b].conn = client[b].conn
    BY <1>2, <1>4 DEF Live
<1>6. held[BufferOf(a)] = <<>> /\ (held'[BufferOf(a)] = <<>> \/ held'[BufferOf(a)] = <<r>>)
    <2>1. held'[BufferOf(a)] = text \/ held'[BufferOf(a)] = <<>>
        BY <1>2, <1>4, HeldNext DEF HeldAre
    <2> QED
        BY <1>1, <1>3, <2>1, HeldIs DEF HeldAre
<1>7. \A b \in Addrs : b # a => Keeps(BufferOf(b))
    BY <1>4, HeldIs, HeldNext, Alike DEF HeldAre
<1>8. \A i \in 1 .. Len(held'[BufferOf(a)]) :
          i = Len(held[BufferOf(a)]) + 1 /\ Key(held'[BufferOf(a)][i]) = <<k, 0>>
    BY <1>2, <1>6
<1>9. \A x \in Carriers : x # BufferOf(a) => Keeps(x)
    BY <1>1, <1>7, Kinds, SameQueues, SameHands, SamePeers
<1>10. PostsIn(Carriers, held, held', BufferOf(a), <<k, 0>>)
    BY <1>8, <1>9 DEF PostsIn, Keeps
<1> QED
    BY <1>1, <1>5, <1>10 DEF Greeted

LEMMA StepMoves ==
    ASSUME PInv, [Next]_vars
    PROVE  Onward \/ Dispatched \/ Greeted
<1>1. CASE \E k \in Conns : PeerSend(k) \/ PeerLeave(k) \/ AcceptRefused(k)
    BY <1>1, AllKnown, QuietMoves DEF PeerSend, PeerLeave, AcceptRefused, proc, work, hist
<1>2. CASE \E k \in Conns, a \in Addrs, result \in Hooks \ {"error"}, hello \in Greets :
               Accept(k, a, result, hello)
    BY <1>2, AcceptMoves, Bounds
<1>3. CASE \E a \in Addrs, u \in 1 .. Requests * Pieces : Read(a, u)
    BY <1>3, ReadMoves
<1>4. CASE \E a \in Addrs, i \in 0 .. Cardinality(Conns) * (Requests + 1) : Write(a, i)
    BY <1>4, WriteMoves
<1>5. CASE \E a \in Addrs : Drop(a)
    BY <1>5, AllKnown, ClosingMoves DEF Drop, Close, Live, work, hist
<1>6. CASE \E idle \in SUBSET Live : ServerCron(idle)
    BY <1>6, AllKnown, ClosingMoves DEF ServerCron, work, hist
<1>7. CASE NotifierRead \/ Drained \/ UNCHANGED vars
    BY <1>7, AllKnown, QuietMoves DEF NotifierRead, Drained, vars, proc, work, net, hist
<1>8. CASE Discard \/ HandOver \/ ConnDies
    BY <1>8, AllKnown, DiscardMoves, HandOverMoves, ConnDiesMoves
<1>9. CASE \E w \in Workers :
                WorkerPop(w) \/ WorkerPush(w) \/ WorkerNotify(w) \/ WorkerDies(w)
                    \/ \E result \in Hooks : WorkerProcess(w, result)
    BY <1>9, WorkerPopMoves, WorkerPushMoves, WorkerMoves
<1> QED
    BY <1>1, <1>2, <1>3, <1>4, <1>5, <1>6, <1>7, <1>8, <1>9 DEF Next, Serve

-----------------------------------------------------------------------------
(* Each request and its response are in one place *)

Apart == ApartIn(Carriers, held)

\* Requests are numbered as they are dispatched; a greeting has the number 0.
Numbered == {t \in Conns \X Nat : t[2] <= asked[t[1]]}

Counted == \A x \in Carriers : \A i \in 1 .. Len(held[x]) : Key(held[x][i]) \in Numbered

AInv == PInv /\ Apart /\ Counted

LEMMA Apartness ==
    ASSUME PInv, NEW p \in Carriers, NEW q, Route(p, q)
    PROVE  p # q
<1>1. \A a \in Live : a \in Addrs /\ client[a].conn \in Conns
    BY DEF PInv, IInv, TypeOK, Live, Client
<1>2. \A a \in Live' : a \in Addrs
    BY DEF Live
<1> QED
    BY <1>1, <1>2, Kinds, Distinct DEF Route

LEMMA OnwardCounts ==
    ASSUME AInv, PInv', Onward
    PROVE  Apart' /\ Counted'
<1>1. PICK p \in Carriers, q \in Carriers \cup {Nowhere}, n \in Nat :
          Route(p, q) /\ MovesIn(Carriers, held, held', p, q, n)
    BY DEF Onward
<1>2. p # q
    BY <1>1, Apartness DEF AInv
<1>3. LenNat(Carriers, held) /\ LenNat(Carriers, held')
    BY AllKnown, StillKnown DEF AInv, Known
<1>4. Apart'
    <2>1. ApartIn(Carriers, held')
        BY <1>1, <1>2, <1>3, MovedApart DEF AInv, Apart
    <2> QED
        BY <2>1 DEF Apart
<1>5. ASSUME NEW x \in Carriers, NEW i \in 1 .. Len(held'[x])
      PROVE  Key(held'[x][i]) \in Numbered'
    <2>1. PICK u \in Carriers : \E k \in 1 .. Len(held[u]) :
              From(held, held', p, q, n, x, i, u, k)
        BY <1>1, <1>3, MovedFrom
    <2>2. Key(held'[x][i]) \in Numbered
        BY <2>1 DEF From, AInv, Counted
    <2> QED
        BY <2>2 DEF Onward, Numbered
<1>6. Counted'
    <2>1. \A x \in Carriers : \A i \in 1 .. Len(held'[x]) : Key(held'[x][i]) \in Numbered'
        BY <1>5
    <2> QED
        BY <2>1 DEF Counted, Key
<1> QED
    BY <1>4, <1>6

\* The key of what is new has not been used.
LEMMA PostingCounts ==
    ASSUME AInv, PInv', NEW q, NEW t, PostsIn(Carriers, held, held', q, t),
           \A x \in Carriers : \A i \in 1 .. Len(held[x]) : Key(held[x][i]) # t,
           t \in Numbered', \A k \in Conns : asked[k] <= asked'[k] /\ asked'[k] \in Nat
    PROVE  Apart' /\ Counted'
<1>1. LenNat(Carriers, held) /\ LenNat(Carriers, held')
    BY AllKnown, StillKnown DEF AInv, Known
<1>2. Apart'
    <2>1. ApartIn(Carriers, held')
        BY <1>1, PostedApart DEF AInv, Apart
    <2> QED
        BY <2>1 DEF Apart
<1>3. \A u \in Numbered : u \in Numbered'
    <2>1. asked \in [Conns -> Nat]
        BY DEF AInv, PInv, IInv, TypeOK
    <2>2. ASSUME NEW u \in Conns \X Nat, u[2] <= asked[u[1]]
          PROVE  u[2] <= asked'[u[1]]
        <3>1. u[1] \in Conns /\ u[2] \in Nat
            OBVIOUS
        <3> QED
            BY <2>1, <2>2, <3>1
    <2> QED
        BY <2>2 DEF Numbered
<1>4. ASSUME NEW x \in Carriers, NEW i \in 1 .. Len(held'[x])
      PROVE  Key(held'[x][i]) \in Numbered'
    <2>1. \/ i \in 1 .. Len(held[x]) /\ Key(held'[x][i]) = Key(held[x][i])
          \/ x = q /\ i = Len(held[q]) + 1 /\ Key(held'[x][i]) = t
        BY <1>1, PostedFrom
    <2> QED
        BY <2>1, <1>3 DEF AInv, Counted
<1>5. Counted'
    <2>1. \A x \in Carriers : \A i \in 1 .. Len(held'[x]) : Key(held'[x][i]) \in Numbered'
        BY <1>4
    <2> QED
        BY <2>1 DEF Counted, Key
<1> QED
    BY <1>2, <1>5

LEMMA DispatchedCounts ==
    ASSUME AInv, PInv', Dispatched
    PROVE  Apart' /\ Counted'
<1>1. PICK a \in Live :
          /\ PostsIn(Carriers, held, held', Recvq, <<client[a].conn, asked[client[a].conn] + 1>>)
          /\ asked' = [asked EXCEPT ![client[a].conn] = @ + 1]
    BY DEF Dispatched
<1> DEFINE k == client[a].conn
           t == <<k, asked[k] + 1>>
<1>2. k \in Conns /\ asked \in [Conns -> Nat]
    BY DEF AInv, PInv, IInv, TypeOK, Live, Client
<1> HIDE DEF k
<1>3. asked' = [asked EXCEPT ![k] = @ + 1]
    BY <1>1 DEF k
<1>4. t \in Numbered'
    BY <1>2, <1>3 DEF Numbered
<1>5. ASSUME NEW x \in Carriers, NEW i \in 1 .. Len(held[x])
      PROVE  Key(held[x][i]) # t
    <2>1. Key(held[x][i]) \in Numbered
        BY DEF AInv, Counted
    <2> QED
        BY <2>1, <1>2 DEF Numbered
<1>6. \A l \in Conns : asked[l] <= asked'[l] /\ asked'[l] \in Nat
    BY <1>2, <1>3
<1>7. PostsIn(Carriers, held, held', Recvq, t)
    BY <1>1 DEF k
<1> HIDE DEF t
<1> QED
    BY <1>4, <1>5, <1>6, <1>7, PostingCounts

LEMMA GreetedCounts ==
    ASSUME AInv, PInv', Greeted
    PROVE  Apart' /\ Counted'
<1>1. PICK k \in Conns, a \in Addrs :
          /\ peer[k] = "away" /\ PostsIn(Carriers, held, held', BufferOf(a), <<k, 0>>)
          /\ asked' = asked
    BY DEF Greeted
<1>2. asked \in [Conns -> Nat]
    BY DEF AInv, PInv, IInv, TypeOK
<1>3. <<k, 0>> \in Numbered'
    BY <1>1, <1>2 DEF Numbered
<1>4. ASSUME NEW x \in Carriers, NEW i \in 1 .. Len(held[x])
      PROVE  Key(held[x][i]) # <<k, 0>>
    BY <1>1, AllKnown DEF AInv, Known, Key
<1>5. \A l \in Conns : asked[l] <= asked'[l] /\ asked'[l] \in Nat
    BY <1>1, <1>2
<1> QED
    BY <1>1, <1>3, <1>4, <1>5, PostingCounts

\* Nothing is held at first.
LEMMA NothingHeld ==
    ASSUME Init
    PROVE  \A x \in Carriers : Len(held[x]) = 0
<1>1. \A x \in Carriers : held[x] = <<>>
    BY Kinds, HeldIs DEF HeldAre, Init
<1> QED
    BY <1>1

LEMMA InitCounts ==
    ASSUME Init
    PROVE  AInv
BY InitPlaces, NothingHeld DEF AInv, Apart, ApartIn, Counted

LEMMA StepKeepsCounts ==
    ASSUME AInv, [Next]_vars
    PROVE  AInv'
<1>1. PInv'
    BY StepKeepsPlaces DEF AInv
<1>2. Onward \/ Dispatched \/ Greeted
    BY StepMoves DEF AInv
<1> QED
    BY <1>1, <1>2, OnwardCounts, DispatchedCounts, GreetedCounts DEF AInv

\* Whatever dies and whatever is reused, no response reaches its client twice,
\* or two clients: a message is in one place at a time, in a queue, with a
\* worker, in a client's buffer or with a peer, and every handler takes it from
\* where it was.
THEOREM ReceivedOnce == Spec => []NoDuplicates
<1>1. Init => AInv
    BY InitCounts
<1>2. AInv /\ [Next]_vars => AInv'
    BY StepKeepsCounts
<1>3. AInv => NoDuplicates
    <2>1. ASSUME AInv, NEW k \in Conns, NEW l \in Conns, NEW i \in DOMAIN got[k],
                 NEW j \in DOMAIN got[l], got[k][i].conn = got[l][j].conn, got[k][i].n = got[l][j].n
          PROVE  k = l /\ i = j
        <3>1. DOMAIN got[k] = 1 .. Len(got[k]) /\ DOMAIN got[l] = 1 .. Len(got[l])
            BY <2>1 DEF AInv, PInv, IInv, TypeOK
        <3>2. held[PeerOf(k)] = got[k] /\ held[PeerOf(l)] = got[l]
            BY HeldIs DEF HeldAre
        <3>3. Key(got[k][i]) = Key(got[l][j])
            BY <2>1 DEF Key
        <3>4. PeerOf(k) = PeerOf(l) /\ i = j
            BY <2>1, <3>1, <3>2, <3>3, Kinds DEF AInv, Apart, ApartIn
        <3> QED
            BY <3>4, Distinct
    <2> QED
        BY <2>1 DEF NoDuplicates
<1> QED
    BY <1>1, <1>2, <1>3, PTL DEF Spec

-----------------------------------------------------------------------------
(* With one worker, the places are one queue *)

OneWorker == \A v, w \in Workers : v = w

Hands   == {HandsOf(w) : w \in Workers}
Buffers == {BufferOf(a) : a \in Addrs}
Peers   == {PeerOf(k) : k \in Conns}

\* What is at x has passed y, or will never be there.
Ahead(x, y) ==
    \/ y = Recvq /\ x # Recvq
    \/ y \in Hands /\ x \in {Sendq} \cup Buffers \cup Peers
    \/ y = Sendq /\ x \in Buffers \cup Peers
    \/ \E a \in Live : y = BufferOf(a) /\ x = PeerOf(client[a].conn)

Before == {z \in Carriers \X Carriers : Ahead(z[1], z[2])}

\* Requests of one connection come in their order.  What is for one connection
\* comes before what is for its twin only if it is closed, or a greeting.
Comes(t, u) ==
    IF t[1] = u[1] THEN t[2] < u[2]
    ELSE t[2] > 0 /\ place[t[1]] = place[u[1]] => peer[t[1]] = "closed"

Precedes == {z \in (Conns \X Nat) \X (Conns \X Nat) : Comes(z[1], z[2])}

Ordered == OrderedIn(Carriers, held, Before, Precedes)

OInv == AInv /\ Ordered

LEMMA StepSettles ==
    ASSUME PInv, [Next]_vars
    PROVE  Settled
<1>1. place \in [Conns -> Addrs \X Fds \X (1 .. Incarnations) \cup {Nil}]
      /\ peer \in [Conns -> {"away", "open", "left", "closed"}]
    BY DEF PInv, IInv, TypeOK
<1>2. ASSUME NEW gone, CloseAll(gone), place' = place
      PROVE  Settled
    BY <1>1, <1>2 DEF CloseAll, Settled
<1>3. ASSUME peer' = peer, place' = place
      PROVE  Settled
    BY <1>3 DEF Settled
<1>4. CASE \E k \in Conns : PeerSend(k) \/ PeerLeave(k) \/ AcceptRefused(k)
    BY <1>1, <1>4 DEF Settled, PeerSend, PeerLeave, AcceptRefused, hist
<1>5. CASE \E k \in Conns, a \in Addrs, result \in Hooks \ {"error"}, hello \in Greets :
               Accept(k, a, result, hello)
    <2>1. PICK k \in Conns : /\ peer[k] = "away" /\ peer' = [peer EXCEPT ![k] = "open"]
                             /\ \E p : place' = [place EXCEPT ![k] = p]
        BY <1>5 DEF Accept
    <2> QED
        BY <1>1, <2>1 DEF Settled
<1>6. CASE \E a \in Addrs, u \in 1 .. Requests * Pieces : Read(a, u)
    BY <1>2, <1>3, <1>6 DEF Read, Close
<1>7. CASE \E a \in Addrs, i \in 0 .. Cardinality(Conns) * (Requests + 1) : Write(a, i)
    BY <1>2, <1>3, <1>7 DEF Write, Close, hist
<1>8. CASE \E a \in Addrs : Drop(a)
    BY <1>2, <1>8 DEF Drop, Close, hist
<1>9. CASE \E idle \in SUBSET Live : ServerCron(idle)
    BY <1>2, <1>9 DEF ServerCron, hist
<1>10. CASE NotifierRead \/ Drained \/ Discard \/ UNCHANGED vars
    BY <1>3, <1>10 DEF NotifierRead, Drained, Discard, vars, net, hist
<1>11. CASE HandOver
    BY <1>2, <1>3, <1>11 DEF HandOver, Close, hist
<1>12. CASE ConnDies
    BY <1>1, <1>12 DEF Settled, ConnDies, hist
<1>13. CASE \E w \in Workers :
                 WorkerPop(w) \/ WorkerPush(w) \/ WorkerNotify(w) \/ WorkerDies(w)
                     \/ \E result \in Hooks : WorkerProcess(w, result)
    BY <1>3, <1>13 DEF WorkerPop, WorkerPush, WorkerNotify, WorkerDies, WorkerProcess, net, hist
<1> QED
    BY <1>4, <1>5, <1>6, <1>7, <1>8, <1>9, <1>10, <1>11, <1>12, <1>13 DEF Next, Serve

\* What precedes what is held goes on doing so.
LEMMA StillPrecedes ==
    ASSUME PInv, Settled
    PROVE  KeptIn(Carriers, held, Precedes, Precedes')
<1> SUFFICES ASSUME NEW x \in Carriers, NEW y \in Carriers,
                    NEW i \in 1 .. Len(held[x]), NEW j \in 1 .. Len(held[y]),
                    <<Key(held[x][i]), Key(held[y][j])>> \in Precedes
             PROVE  <<Key(held[x][i]), Key(held[y][j])>> \in Precedes'
    BY DEF KeptIn
<1>1. PICK t, u : /\ t = Key(held[x][i]) /\ t \in Conns \X Nat /\ peer[t[1]] # "away"
                  /\ u = Key(held[y][j]) /\ u \in Conns \X Nat /\ peer[u[1]] # "away"
    BY AllKnown DEF Known, Key
<1>2. <<t, u>> \in Precedes
    BY <1>1
<1>3. t[1] \in Conns /\ u[1] \in Conns
    BY <1>1
<1>4. place'[t[1]] = place[t[1]] /\ place'[u[1]] = place[u[1]]
      /\ (peer[t[1]] = "closed" => peer'[t[1]] = "closed")
    BY <1>1, <1>3 DEF Settled
<1>5. Comes(t, u)
    BY <1>2 DEF Precedes
<1>6. Comes(t, u)'
    BY <1>4, <1>5 DEF Comes
<1>7. <<t, u>> \in Precedes'
    BY <1>1, <1>6 DEF Precedes
<1> QED
    BY <1>1, <1>7

LEMMA OnwardIsNext ==
    ASSUME PInv, OneWorker, NoneNew, NEW p \in Carriers, NEW q, Route(p, q)
    PROVE  NextBefore(Carriers, Before, Before', p, q)
<1>1. /\ \A a \in Live : a \in Addrs /\ client[a].conn \in Conns
      /\ \A a \in Live' : a \in Addrs /\ a \in Live /\ client'[a].conn = client[a].conn
    BY DEF PInv, IInv, TypeOK, Live, Client, NoneNew
<1>2. ASSUME NEW x \in Carriers, NEW y \in Carriers, Ahead(x, y)'
      PROVE  Ahead(x, y)
    BY <1>1, <1>2 DEF Ahead
<1>3. \A x, y \in Carriers : /\ <<x, y>> \in Before <=> Ahead(x, y)
                             /\ <<x, y>> \in Before' <=> Ahead(x, y)'
    BY DEF Before
<1>4. ASSUME q \in Carriers
      PROVE  /\ Ahead(q, p) /\ ~Ahead(q, q)'
             /\ \A y \in Carriers : Ahead(y, q)' => Ahead(y, p)
             /\ \A y \in Carriers : Ahead(q, y)' => y = p \/ Ahead(p, y)
    <2>1. CASE p = Recvq /\ \E w \in Workers : q = HandsOf(w)
        BY <1>1, <2>1, Kinds, Distinct DEF Ahead, Hands, Buffers, Peers
    <2>2. CASE (\E w \in Workers : p = HandsOf(w)) /\ q = Sendq
        BY <1>1, <2>2, Kinds, Distinct DEF Ahead, Hands, Buffers, Peers, OneWorker
    <2>3. CASE p = Sendq /\ \E a \in Live' : q = BufferOf(a)
        BY <1>1, <2>3, Kinds, Distinct DEF Ahead, Hands, Buffers, Peers
    <2>4. CASE \E a \in Live : p = BufferOf(a) /\ q = PeerOf(client[a].conn)
        BY <1>1, <2>4, OneClient, Kinds, Distinct DEF Ahead, Hands, Buffers, Peers
    <2> QED
        BY <1>4, <2>1, <2>2, <2>3, <2>4, Kinds DEF Route
<1> QED
    BY <1>2, <1>3, <1>4 DEF NextBefore

LEMMA OnwardOrders ==
    ASSUME OneWorker, OInv, PInv', Settled, Onward
    PROVE  Ordered'
<1>1. PICK p \in Carriers, q \in Carriers \cup {Nowhere}, n \in Nat :
          Route(p, q) /\ MovesIn(Carriers, held, held', p, q, n)
    BY DEF Onward
<1>2. p # q
    BY <1>1, Apartness DEF OInv, AInv
<1>3. LenNat(Carriers, held) /\ LenNat(Carriers, held')
    BY AllKnown, StillKnown DEF OInv, AInv, Known
<1>4. NextBefore(Carriers, Before, Before', p, q)
    BY <1>1, OnwardIsNext DEF OInv, AInv, Onward
<1>5. KeptIn(Carriers, held, Precedes, Precedes')
    BY StillPrecedes DEF OInv, AInv
<1>6. OrderedIn(Carriers, held', Before', Precedes')
    BY <1>1, <1>2, <1>3, <1>4, <1>5, MovedOrdered DEF OInv, Ordered
<1> QED
    BY <1>6 DEF Ordered

\* A live client's connection has no twin that is not closed.
LEMMA NoOpenTwin ==
    ASSUME PInv, NEW a \in Live, NEW l \in Conns, l # client[a].conn,
           peer[l] # "away", place[l] = place[client[a].conn]
    PROVE  peer[l] = "closed"
<1> SUFFICES ASSUME peer[l] # "closed" PROVE FALSE
    OBVIOUS
<1>1. peer[l] \in {"open", "left"}
    BY DEF PInv, IInv, TypeOK
<1>2. PICK b \in Live : client[b].conn = l
    BY <1>1 DEF PInv, Present
<1>3. place[l] = <<b, client[b].fd, pid>> /\ place[client[a].conn] = <<a, client[a].fd, pid>>
    BY <1>2 DEF PInv, Placed, At
<1>4. b = a
    <2>1. <<b, client[b].fd, pid>> = <<a, client[a].fd, pid>>
        BY <1>3
    <2> QED
        BY <2>1
<1> QED
    BY <1>2, <1>4

\* What is dispatched is the last of its connection, and comes after all that
\* is under way.
LEMMA DispatchedOrders ==
    ASSUME OInv, PInv', Settled, Dispatched
    PROVE  Ordered'
<1>1. PICK a \in Live :
          /\ PostsIn(Carriers, held, held', Recvq, <<client[a].conn, asked[client[a].conn] + 1>>)
          /\ NoneNew
    BY DEF Dispatched
<1>2. PICK k, t : k = client[a].conn /\ k \in Conns /\ t = <<k, asked[k] + 1>>
                  /\ asked \in [Conns -> Nat] /\ peer[k] # "away"
    <2>1. client[a].conn \in Conns /\ asked \in [Conns -> Nat]
        BY DEF OInv, AInv, PInv, IInv, TypeOK, Live, Client
    <2>2. peer[client[a].conn] # "away"
        BY DEF OInv, AInv, PInv, Placed, At
    <2> QED
        BY <2>1, <2>2
<1>3. LenNat(Carriers, held) /\ LenNat(Carriers, held')
    BY AllKnown, StillKnown DEF OInv, AInv, Known
<1>4. ASSUME NEW x \in Carriers, NEW y \in Carriers, <<x, y>> \in Before'
      PROVE  <<x, y>> \in Before
    <2>1. \A b \in Live' : b \in Live /\ client'[b].conn = client[b].conn
        BY <1>1 DEF NoneNew
    <2> QED
        BY <1>4, <2>1 DEF Before, Ahead
<1>5. \A x \in Carriers : <<Recvq, x>> \notin Before'
    <2>1. \A b \in Live' : client'[b].conn \in Conns
        BY <1>1 DEF NoneNew, OInv, AInv, PInv, IInv, TypeOK, Live, Client
    <2> QED
        BY <2>1, Kinds, Distinct DEF Before, Ahead, Live, Hands, Buffers, Peers
<1>6. ASSUME NEW x \in Carriers, NEW i \in 1 .. Len(held[x])
      PROVE  <<Key(held[x][i]), t>> \in Precedes'
    <2>1. PICK u : u = Key(held[x][i]) /\ u \in Conns \X Nat /\ peer[u[1]] # "away"
        BY KnownKey DEF OInv, AInv
    <2>2. u[1] \in Conns /\ u[2] \in Nat /\ u[2] <= asked[u[1]]
        BY <2>1 DEF OInv, AInv, Counted, Numbered
    <2>3. t[1] = k /\ t[2] = asked[k] + 1 /\ t \in Conns \X Nat
        BY <1>2
    <2>4. CASE u[1] = k
        <3>1. Comes(u, t)'
            BY <1>2, <2>2, <2>3, <2>4 DEF Comes
        <3> QED
            BY <2>1, <2>3, <3>1 DEF Precedes
    <2>5. CASE u[1] # k
        <3>1. place'[u[1]] = place'[k] => peer'[u[1]] = "closed"
            BY <1>2, <2>1, <2>2, <2>5, NoOpenTwin DEF OInv, AInv, Settled
        <3>2. Comes(u, t)'
            BY <2>3, <2>5, <3>1 DEF Comes
        <3> QED
            BY <2>1, <2>3, <3>2 DEF Precedes
    <2> QED
        BY <2>4, <2>5
<1>7. KeptIn(Carriers, held, Precedes, Precedes')
    BY StillPrecedes DEF OInv, AInv
<1>8. PostsIn(Carriers, held, held', Recvq, t)
    BY <1>1, <1>2
<1>9. OrderedIn(Carriers, held', Before', Precedes')
    BY <1>3, <1>4, <1>5, <1>6, <1>7, <1>8, Kinds, PostedOrdered DEF OInv, Ordered
<1> QED
    BY <1>9 DEF Ordered

\* A greeting comes before anything that may yet come to its client.
LEMMA GreetedOrders ==
    ASSUME OInv, PInv', Settled, Greeted
    PROVE  Ordered'
<1>1. PICK k \in Conns, a \in Addrs :
          /\ peer[k] = "away" /\ client[a] = Nil
          /\ PostsIn(Carriers, held, held', BufferOf(a), <<k, 0>>)
          /\ \A b \in Live' : \/ b = a /\ client'[b].conn = k
                              \/ b \in Live /\ client'[b].conn = client[b].conn
    BY DEF Greeted
<1>2. LenNat(Carriers, held) /\ LenNat(Carriers, held')
    BY AllKnown, StillKnown DEF OInv, AInv, Known
<1>3. held[BufferOf(a)] = <<>> /\ held[PeerOf(k)] = <<>>
    BY <1>1, HeldIs DEF HeldAre, OInv, AInv, PInv, Received
<1>4. Len(held[BufferOf(a)]) = 0 /\ Len(held[PeerOf(k)]) = 0
    BY <1>3
<1>5. ASSUME NEW x \in Carriers, NEW y \in Carriers, <<x, y>> \in Before',
             Len(held[x]) > 0, Len(held[y]) > 0
      PROVE  <<x, y>> \in Before
    <2>1. y # BufferOf(a)
        BY <1>4, <1>5
    <2> QED
        BY <1>1, <1>5, <2>1 DEF Before, Ahead
<1>6. <<BufferOf(a), BufferOf(a)>> \notin Before'
    BY <1>1, Kinds, Distinct DEF Before, Ahead, Live, Hands, Buffers, Peers
<1>7. ASSUME NEW x \in Carriers, NEW i \in 1 .. Len(held[x])
      PROVE  /\ x # BufferOf(a) /\ <<x, BufferOf(a)>> \notin Before'
             /\ <<<<k, 0>>, Key(held[x][i])>> \in Precedes'
    <2>1. x # BufferOf(a) /\ x # PeerOf(k)
        BY <1>4
    <2>2. <<x, BufferOf(a)>> \notin Before'
        BY <1>1, <2>1, Kinds, Distinct DEF Before, Ahead, Live, Hands, Buffers, Peers
    <2>3. PICK t, u : /\ u = Key(held[x][i]) /\ u \in Conns \X Nat /\ u[1] # k
                      /\ t = <<k, 0>> /\ t \in Conns \X Nat /\ t[1] = k /\ t[2] = 0
        <3>1. Key(held[x][i]) \in Conns \X Nat /\ Key(held[x][i])[1] # k
            BY <1>1, KnownKey DEF OInv, AInv
        <3>2. <<k, 0>> \in Conns \X Nat
            OBVIOUS
        <3> QED
            BY <3>1, <3>2
    <2>4. Comes(t, u)'
        BY <2>3 DEF Comes
    <2> QED
        BY <2>1, <2>2, <2>3, <2>4 DEF Precedes
<1>8. KeptIn(Carriers, held, Precedes, Precedes')
    BY StillPrecedes DEF OInv, AInv
<1>9. OrderedIn(Carriers, held', Before', Precedes')
    BY <1>1, <1>2, <1>5, <1>6, <1>7, <1>8, Kinds, PostedOrdered DEF OInv, Ordered
<1> QED
    BY <1>9 DEF Ordered

LEMMA InitOrders ==
    ASSUME Init
    PROVE  OInv
BY InitCounts, NothingHeld DEF OInv, Ordered, OrderedIn

LEMMA StepKeepsOrder ==
    ASSUME OneWorker, OInv, [Next]_vars
    PROVE  OInv'
<1>1. AInv' /\ PInv'
    BY StepKeepsCounts DEF OInv, AInv
<1>2. Settled /\ (Onward \/ Dispatched \/ Greeted)
    BY StepMoves, StepSettles DEF OInv, AInv
<1> QED
    BY <1>1, <1>2, OnwardOrders, DispatchedOrders, GreetedOrders DEF OInv

\* With one worker a connection gets the responses to its own requests in the
\* order of the requests, even if its peer sends on before it is answered:
\* recv_queue, the worker, send_queue, the buffer of the client and the peer
\* are one long queue.
THEOREM InOrderWithOneWorker ==
    ASSUME OneWorker
    PROVE  Spec => []InOrder
<1>1. Init => OInv
    BY InitOrders
<1>2. OInv /\ [Next]_vars => OInv'
    BY StepKeepsOrder
<1>3. OInv => InOrder
    <2>1. ASSUME OInv, NEW k \in Conns, NEW i \in OwnAnswers(k), NEW j \in OwnAnswers(k), i < j
          PROVE  got[k][i].n < got[k][j].n
        <3>1. DOMAIN got[k] = 1 .. Len(got[k]) /\ held[PeerOf(k)] = got[k] /\ PeerOf(k) \in Carriers
            BY HeldIs, Kinds, <2>1 DEF HeldAre, OInv, AInv, PInv, IInv, TypeOK
        <3>2. i \in 1 .. Len(got[k]) /\ j \in 1 .. Len(got[k])
              /\ got[k][i].conn = k /\ got[k][j].conn = k
            BY <3>1, <2>1 DEF OwnAnswers
        <3>3. <<Key(got[k][i]), Key(got[k][j])>> \in Precedes
            BY <2>1, <3>1, <3>2 DEF OInv, Ordered, OrderedIn
        <3>4. PICK t, u : t = Key(got[k][i]) /\ u = Key(got[k][j]) /\ Comes(t, u)
            BY <3>3 DEF Precedes
        <3> QED
            BY <3>2, <3>4 DEF Comes, Key
    <2> QED
        BY <2>1 DEF InOrder
<1> QED
    BY <1>1, <1>2, <1>3, PTL DEF Spec

-----------------------------------------------------------------------------
(* What peers that do not pipeline send *)

\* Nothing has been sent on a connection that is still to come.
Fresh == \A k \in Conns : peer[k] = "away" => asked[k] = 0 /\ sent[k] = 0 /\ wire[k] = 0

\* What a peer has sent has been dispatched, is in its client's recvbuf or on
\* its way there.
Bytes ==
    /\ \A a \in Live : LET k == client[a].conn IN
           asked[k] * Pieces + client[a].recv + wire[k] = sent[k]
    /\ \A k \in Conns : asked[k] * Pieces <= sent[k]

BInv == PInv /\ Fresh /\ Bytes

LEMMA Counters ==
    ASSUME PInv
    PROVE  /\ wire \in [Conns -> Nat] /\ sent \in [Conns -> Nat] /\ asked \in [Conns -> Nat]
           /\ Pieces \in Nat \ {0} /\ \A k \in Conns : asked[k] * Pieces \in Nat
           /\ \A a \in Live : /\ a \in Addrs /\ client[a] \in Client
                              /\ client[a].conn \in Conns /\ client[a].recv \in Nat
<1>1. wire \in [Conns -> Nat] /\ asked \in [Conns -> Nat] /\ Pieces \in Nat \ {0}
    BY Bounds DEF PInv, IInv, TypeOK
<1>2. sent \in [Conns -> Nat]
    <2>1. sent \in [Conns -> 0 .. Requests * Pieces] /\ 0 .. Requests * Pieces \subseteq Nat
        BY AllPieces DEF PInv, IInv, TypeOK
    <2> HIDE DEF PInv
    <2> QED
        BY <2>1
<1>3. \A a \in Live : /\ a \in Addrs /\ client[a] \in Client
                      /\ client[a].conn \in Conns /\ client[a].recv \in Nat
    BY DEF PInv, IInv, TypeOK, Live, Client
<1>4. \A k \in Conns : asked[k] * Pieces \in Nat
    BY <1>1
<1> QED
    BY <1>1, <1>2, <1>3, <1>4

\* A step that dispatches nothing and sends nothing.
LEMMA StillBytes ==
    ASSUME BInv, UNCHANGED <<asked, sent>>,
           \A a \in Live' : /\ a \in Live /\ client'[a].conn = client[a].conn
                            /\ client'[a].recv = client[a].recv
                            /\ wire'[client[a].conn] = wire[client[a].conn],
           \A k \in Conns : peer'[k] = "away" => peer[k] = "away" /\ wire'[k] \in {0, wire[k]}
    PROVE  Fresh' /\ Bytes'
<1>1. Fresh'
    BY DEF BInv, Fresh
<1>2. Bytes'
    BY DEF BInv, Bytes
<1> QED
    BY <1>1, <1>2

LEMMA QuietBytes ==
    ASSUME BInv, UNCHANGED <<asked, sent, client, wire>>, LeftOrRefused
    PROVE  Fresh' /\ Bytes'
<1>1. Live' = Live
    BY DEF Live
<1>2. \A k \in Conns : peer'[k] = "away" => peer[k] = "away"
    BY DEF LeftOrRefused, BInv, PInv, IInv, TypeOK
<1> QED
    BY <1>1, <1>2, StillBytes

LEMMA ClosingBytes ==
    ASSUME BInv, UNCHANGED <<asked, sent>>, NEW gone \in SUBSET Live, CloseAll(gone)
    PROVE  Fresh' /\ Bytes'
<1>1. /\ client' = [a \in Addrs |-> IF a \in gone THEN Nil ELSE client[a]]
      /\ peer' = [k \in Conns |-> IF k \in {client[a].conn : a \in gone} THEN "closed" ELSE peer[k]]
      /\ wire' = [k \in Conns |-> IF k \in {client[a].conn : a \in gone} THEN 0 ELSE wire[k]]
    BY DEF CloseAll
<1>2. ASSUME NEW a \in Live'
      PROVE  a \in Live /\ client'[a] = client[a] /\ wire'[client[a].conn] = wire[client[a].conn]
    <2>1. a \in Live /\ a \notin gone /\ client'[a] = client[a]
        BY <1>1 DEF Live
    <2>2. client[a].conn \in Conns /\ client[a].conn \notin {client[b].conn : b \in gone}
        <3>1. \A b \in gone : client[b].conn # client[a].conn
            BY <2>1, OneClient DEF BInv
        <3> QED
            BY <2>1, <3>1, Counters DEF BInv
    <2> QED
        BY <1>1, <2>1, <2>2
<1>3. \A k \in Conns : peer'[k] = "away" => peer[k] = "away" /\ wire'[k] \in {0, wire[k]}
    BY <1>1
<1> QED
    BY <1>2, <1>3, StillBytes

LEMMA ConnDiesBytes ==
    ASSUME BInv, ConnDies
    PROVE  Fresh' /\ Bytes'
<1>1. /\ UNCHANGED <<asked, sent>> /\ wire' = [k \in Conns |-> 0] /\ Live' = {}
      /\ peer' = [k \in Conns |-> IF peer[k] = "away" THEN "away" ELSE "closed"]
    BY DEF ConnDies, Live, hist
<1> QED
    BY <1>1, StillBytes

LEMMA PeerSendBytes ==
    ASSUME BInv, NEW k \in Conns, PeerSend(k)
    PROVE  Fresh' /\ Bytes'
<1>1. /\ peer[k] = "open" /\ sent' = [sent EXCEPT ![k] = @ + 1] /\ wire' = [wire EXCEPT ![k] = @ + 1]
      /\ UNCHANGED <<asked, client, peer>>
    BY DEF PeerSend, proc, hist
<1>2. Live' = Live /\ wire \in [Conns -> Nat] /\ sent \in [Conns -> Nat]
      /\ \A l \in Conns : asked[l] * Pieces \in Nat
      /\ \A a \in Live : client[a].conn \in Conns /\ client[a].recv \in Nat
    BY <1>1, Counters DEF BInv, Live
<1>3. /\ sent'[k] = sent[k] + 1 /\ wire'[k] = wire[k] + 1
      /\ \A l \in Conns : l # k => sent'[l] = sent[l] /\ wire'[l] = wire[l]
    BY <1>1, <1>2
<1>4. Fresh'
    BY <1>1, <1>3 DEF BInv, Fresh
<1>5. ASSUME NEW a \in Live
      PROVE  asked[client[a].conn] * Pieces + client[a].recv + wire'[client[a].conn]
                 = sent'[client[a].conn]
    <2>1. asked[client[a].conn] * Pieces + client[a].recv + wire[client[a].conn]
              = sent[client[a].conn]
        BY DEF BInv, Bytes
    <2>2. wire[client[a].conn] \in Nat /\ asked[client[a].conn] * Pieces \in Nat
        BY <1>2
    <2>3. CASE client[a].conn = k
        BY <1>2, <1>3, <2>1, <2>2, <2>3
    <2>4. CASE client[a].conn # k
        BY <1>2, <1>3, <2>1, <2>4
    <2> QED
        BY <2>3, <2>4
<1>6. \A l \in Conns : asked[l] * Pieces <= sent'[l]
    <2>1. \A l \in Conns : asked[l] * Pieces <= sent[l] /\ sent[l] \in Nat /\ sent'[l] >= sent[l]
        BY <1>2, <1>3 DEF BInv, Bytes
    <2>2. \A l \in Conns : sent'[l] \in Nat
        BY <1>2, <1>3
    <2> QED
        BY <1>2, <2>1, <2>2
<1> QED
    BY <1>1, <1>2, <1>4, <1>5, <1>6 DEF Bytes

LEMMA AcceptBytes ==
    ASSUME BInv, NEW k \in Conns, NEW a \in Addrs, NEW result, NEW hello,
           Accept(k, a, result, hello)
    PROVE  Fresh' /\ Bytes'
<1>1. PICK c : /\ peer[k] = "away" /\ c.conn = k /\ c.recv = 0
               /\ client' = [client EXCEPT ![a] = c]
               /\ peer' = [peer EXCEPT ![k] = "open"]
               /\ UNCHANGED <<asked, sent, wire>>
    <2> DEFINE c == [fd |-> Min({f \in Fds : vec[f] = Nil}), conn |-> k,
                     close |-> result = "close", need |-> 0, recv |-> 0,
                     send |-> IF hello THEN <<[conn |-> k, n |-> 0, close |-> result = "close"]>>
                              ELSE <<>>]
    <2>1. /\ peer[k] = "away" /\ client' = [client EXCEPT ![a] = c]
          /\ peer' = [peer EXCEPT ![k] = "open"] /\ UNCHANGED <<asked, sent, wire>>
        BY DEF Accept
    <2>2. c.conn = k /\ c.recv = 0
        OBVIOUS
    <2> HIDE DEF c
    <2> QED
        BY <2>1, <2>2
<1>2. /\ client'[a] = c /\ \A b \in Addrs : b # a => client'[b] = client[b]
      /\ Pieces \in Nat
    BY <1>1, Bounds DEF BInv, PInv, IInv, TypeOK
<1>3. Fresh'
    BY <1>1 DEF BInv, PInv, IInv, TypeOK, Fresh
<1>4. asked[k] * Pieces + c.recv + wire[k] = sent[k]
    <2>1. asked[k] = 0 /\ wire[k] = 0 /\ sent[k] = 0
        BY <1>1 DEF BInv, Fresh
    <2> QED
        BY <1>1, <1>2, <2>1
<1>5. ASSUME NEW b \in Live'
      PROVE  asked[client'[b].conn] * Pieces + client'[b].recv + wire[client'[b].conn]
                 = sent[client'[b].conn]
    <2>1. CASE b = a
        BY <1>1, <1>2, <1>4, <2>1
    <2>2. CASE b # a
        BY <1>2, <2>2 DEF Live, BInv, Bytes
    <2> QED
        BY <2>1, <2>2
<1> QED
    BY <1>1, <1>3, <1>5 DEF BInv, Bytes

\* A read that takes u pieces and leaves r in the buffer, of a request whose
\* length d is known, or 0, with n requests dispatched.
Takes(a, u, r, d, n) == LET k == client[a].conn IN
    /\ client' = [client EXCEPT ![a].recv = r, ![a].need = d]
    /\ wire' = [wire EXCEPT ![k] = @ - u]
    /\ asked' = [asked EXCEPT ![k] = n]
    /\ UNCHANGED peer

LEMMA ReadBytes ==
    ASSUME BInv, NEW a \in Addrs, NEW u \in Int, Read(a, u)
    PROVE  Fresh' /\ Bytes'
<1> DEFINE c  == client[a]
           k  == c.conn
           to == c.recv + u
           msg == [addr |-> a, fd |-> c.fd, pid |-> pid, conn |-> k, n |-> asked[k] + 1,
                   close |-> FALSE]
<1>0. PICK need \in IF c.need = 0 THEN HandleInput(to) ELSE {c.need} :
          \/ /\ need = 0 \/ to < need
             /\ client' = [client EXCEPT ![a].recv = to, ![a].need = need]
             /\ wire' = [wire EXCEPT ![k] = @ - u]
             /\ UNCHANGED <<vec, writable, recvq, peer, asked>>
          \/ /\ need # 0 /\ to >= need
             /\ ~Full(recvq)
             /\ recvq' = Append(recvq, msg)
             /\ asked' = [asked EXCEPT ![k] = @ + 1]
             /\ client' = [client EXCEPT ![a].recv = to - need, ![a].need = 0]
             /\ wire' = [wire EXCEPT ![k] = @ - u]
             /\ UNCHANGED <<vec, writable, peer>>
          \/ /\ need # 0 /\ to >= need
             /\ Full(recvq) \/ Faults
             /\ Close(a)
             /\ UNCHANGED <<recvq, asked>>
    BY DEF Read
<1>1. /\ a \in Live /\ c \in Client /\ k \in Conns /\ c.recv \in Nat
      /\ wire \in [Conns -> Nat] /\ sent \in [Conns -> Nat] /\ asked \in [Conns -> Nat]
      /\ Pieces \in Nat /\ u \in 1 .. wire[k] /\ UNCHANGED sent
      /\ \A l \in Conns : asked[l] * Pieces \in Nat
    <2>1. a \in Live /\ u \in 1 .. wire[k] /\ UNCHANGED sent
        BY DEF Read, Live
    <2> QED
        BY <2>1, Counters DEF BInv
<1>2. asked[k] * Pieces + c.recv + wire[k] = sent[k] /\ peer[k] # "away"
    BY <1>1 DEF BInv, Bytes, PInv, Placed, At
<1>3. CASE Close(a) /\ UNCHANGED asked
    BY <1>1, <1>3, ClosingBytes DEF Close
<1>4. ASSUME NEW r \in Nat, NEW d, NEW n \in Nat, Takes(a, u, r, d, n),
             n * Pieces + r = asked[k] * Pieces + c.recv + u
      PROVE  Fresh' /\ Bytes'
    <2>1. /\ \A b \in Live' : b \in Live
          /\ client'[a].conn = k /\ client'[a].recv = r
          /\ \A b \in Addrs : b # a => client'[b] = client[b]
        BY <1>1, <1>4 DEF BInv, PInv, IInv, TypeOK, Client, Live, Takes
    <2>2. /\ wire'[k] = wire[k] - u /\ asked'[k] = n
          /\ \A l \in Conns : l # k => wire'[l] = wire[l] /\ asked'[l] = asked[l]
          /\ UNCHANGED peer
        BY <1>1, <1>4 DEF Takes
    <2> HIDE DEF k
    <2>3. n * Pieces + r + wire'[k] = sent[k]
        BY <1>1, <1>2, <1>4, <2>2 DEF k
    <2>4. ASSUME NEW b \in Live', b # a
          PROVE  asked'[client'[b].conn] * Pieces + client'[b].recv + wire'[client'[b].conn]
                     = sent'[client'[b].conn]
        <3>1. b \in Live /\ client'[b] = client[b] /\ client[b].conn # k /\ client[b].conn \in Conns
            <4>1. b \in Live /\ client'[b] = client[b]
                BY <2>1, <2>4 DEF Live
            <4> QED
                BY <1>1, <2>4, <4>1, OneClient, Counters DEF BInv, k
        <3> QED
            BY <1>1, <2>2, <3>1 DEF BInv, Bytes
    <2>5. n * Pieces <= sent[k]
        <3>1. wire'[k] \in Nat
            BY <1>1, <2>2
        <3> QED
            BY <1>1, <1>4, <2>3, <3>1
    <2>6. \A l \in Conns : asked'[l] * Pieces <= sent'[l]
        BY <1>1, <2>2, <2>5 DEF BInv, Bytes
    <2>7. Fresh'
        BY <1>1, <1>2, <1>4, <2>2 DEF BInv, Fresh, k
    <2>8. Bytes'
        BY <1>1, <2>1, <2>2, <2>3, <2>4, <2>6 DEF Bytes
    <2> QED
        BY <2>7, <2>8
<1>5. /\ need \in {0, Pieces} /\ asked = [asked EXCEPT ![k] = asked[k]]
      /\ to \in Nat /\ asked[k] \in Nat
      /\ asked[k] * Pieces + to = asked[k] * Pieces + c.recv + u
    <2>1. need \in {0, Pieces}
        BY <1>0, <1>1 DEF HandleInput, Client
    <2> QED
        BY <1>1, <2>1
<1>6. \/ Takes(a, u, to, need, asked[k])
      \/ to >= Pieces /\ Takes(a, u, to - Pieces, 0, asked[k] + 1)
      \/ Close(a) /\ UNCHANGED asked
    BY <1>0, <1>5 DEF Takes
<1>7. to >= Pieces =>
          /\ to - Pieces \in Nat /\ asked[k] + 1 \in Nat
          /\ (asked[k] + 1) * Pieces + (to - Pieces) = asked[k] * Pieces + c.recv + u
    <2>1. (asked[k] + 1) * Pieces = asked[k] * Pieces + Pieces
        BY <1>1
    <2> QED
        BY <1>1, <1>5, <2>1
<1> HIDE DEF c, k, to
<1>8. CASE Takes(a, u, to, need, asked[k])
    BY <1>4, <1>5, <1>8
<1>9. CASE to >= Pieces /\ Takes(a, u, to - Pieces, 0, asked[k] + 1)
    BY <1>4, <1>7, <1>9
<1> QED
    BY <1>3, <1>6, <1>8, <1>9

\* A client goes on with what it has read.
LEMMA RetainedBytes ==
    ASSUME BInv, UNCHANGED <<asked, sent, wire, peer>>, NEW a \in Live, NEW e,
           client' = [client EXCEPT ![a] = e], e.conn = client[a].conn, e.recv = client[a].recv
    PROVE  Fresh' /\ Bytes'
<1>1. a \in Addrs /\ client'[a] = e /\ \A b \in Addrs : b # a => client'[b] = client[b]
    BY DEF BInv, PInv, IInv, TypeOK, Live
<1>2. \A b \in Live' : /\ b \in Live /\ client'[b].conn = client[b].conn
                       /\ client'[b].recv = client[b].recv
    BY <1>1 DEF Live
<1>3. /\ \A b \in Live' : wire'[client[b].conn] = wire[client[b].conn]
      /\ \A k \in Conns : peer'[k] = "away" => peer[k] = "away" /\ wire'[k] \in {0, wire[k]}
    OBVIOUS
<1> QED
    BY <1>2, <1>3, StillBytes

LEMMA WriteBytes ==
    ASSUME BInv, NEW a \in Addrs, NEW i \in Int, Write(a, i)
    PROVE  Fresh' /\ Bytes'
<1>1. a \in Live /\ client[a] \in Client /\ UNCHANGED <<asked, sent>>
    BY DEF Write, Live, BInv, PInv, IInv, TypeOK, hist
<1>2. CASE Close(a)
    BY <1>1, <1>2, ClosingBytes DEF Close
<1>3. CASE /\ client' = [client EXCEPT ![a].send = Rest(@, i)]
           /\ UNCHANGED <<vec, peer, wire>>
    <2> DEFINE e == [client[a] EXCEPT !.send = Rest(@, i)]
    <2>1. e.conn = client[a].conn /\ e.recv = client[a].recv
        BY <1>1 DEF Client
    <2>2. client' = [client EXCEPT ![a] = e]
        BY <1>1, <1>3 DEF BInv, PInv, IInv, TypeOK
    <2> HIDE DEF e
    <2> QED
        BY <1>1, <1>3, <2>1, <2>2, RetainedBytes
<1> QED
    BY <1>2, <1>3 DEF Write

\* The client that a response is handed to.
LEMMA Addressee ==
    ASSUME PInv, draining, sendq # <<>>, Accepts(Head(sendq))
    PROVE  /\ Head(sendq) \in Message /\ Names(Head(sendq)) /\ Head(sendq) = sendq[1]
           /\ Head(sendq).addr \in Live /\ client[Head(sendq).addr] \in Client
           /\ place[Head(sendq).conn] = place[client[Head(sendq).addr].conn]
<1> DEFINE m == Head(sendq)
           a == m.addr
<1>1. m \in Message /\ Names(m) /\ m = sendq[1]
    <2>1. sendq \in Seq(Message) /\ 1 \in 1 .. Len(sendq) /\ m = sendq[1]
        BY DEF PInv, IInv, TypeOK
    <2> QED
        BY <2>1 DEF PInv, Addressed
<1>2. vec[m.fd] = a /\ m.pid = pid /\ m.fd \in Fds /\ a \in Addrs /\ a # Nil
    BY <1>1, Bounds DEF Accepts, Message
<1>3. client[a] # Nil /\ client[a].fd = m.fd
    BY <1>2 DEF PInv, IInv, NoDangling
<1>4. a \in Live /\ client[a] \in Client
    BY <1>2, <1>3 DEF Live, PInv, IInv, TypeOK
<1>5. place[client[a].conn] = <<a, m.fd, pid>>
    BY <1>3, <1>4 DEF PInv, Placed, At
<1> QED
    BY <1>1, <1>2, <1>4, <1>5 DEF Names

LEMMA HandOverBytes ==
    ASSUME BInv, HandOver
    PROVE  Fresh' /\ Bytes'
<1> DEFINE m == Head(sendq)
           a == m.addr
           r == [conn |-> m.conn, n |-> m.n, close |-> m.close]
           e == [client[a] EXCEPT !.close = m.close, !.send = Buffered(@, r)]
<1>1. a \in Live /\ client[a] \in Client /\ UNCHANGED <<asked, sent>>
    BY Addressee DEF HandOver, BInv, hist
<1>2. CASE Close(a)
    BY <1>1, <1>2, ClosingBytes DEF Close
<1>3. CASE client' = [client EXCEPT ![a] = e] /\ UNCHANGED <<vec, peer, wire>>
    <2>1. e.conn = client[a].conn /\ e.recv = client[a].recv
        BY <1>1 DEF Client
    <2> HIDE DEF e
    <2> QED
        BY <1>1, <1>3, <2>1, RetainedBytes
<1> QED
    BY <1>2, <1>3 DEF HandOver

LEMMA InitBytes ==
    ASSUME Init
    PROVE  BInv
<1>1. Fresh
    BY DEF Fresh, Init
<1>2. Bytes
    BY Bounds DEF Bytes, Init, Live
<1> QED
    BY <1>1, <1>2, InitPlaces DEF BInv

LEMMA StepKeepsBytes ==
    ASSUME BInv, [Next]_vars
    PROVE  Fresh' /\ Bytes'
<1>2. CASE \E k \in Conns : PeerSend(k)
    BY <1>2, PeerSendBytes
<1>3. CASE \E k \in Conns : PeerLeave(k) \/ AcceptRefused(k)
    <2>1. LeftOrRefused
        BY <1>3 DEF LeftOrRefused, PeerLeave, AcceptRefused
    <2>2. UNCHANGED <<asked, sent, client, wire>>
        BY <1>3 DEF PeerLeave, AcceptRefused, proc, hist
    <2> QED
        BY <2>1, <2>2, QuietBytes
<1>4. CASE \E k \in Conns, a \in Addrs, result \in Hooks \ {"error"}, hello \in Greets :
               Accept(k, a, result, hello)
    BY <1>4, AcceptBytes
<1>5. CASE \E a \in Addrs, u \in 1 .. Requests * Pieces : Read(a, u)
    BY <1>5, ReadBytes
<1>6. CASE \E a \in Addrs, i \in 0 .. Cardinality(Conns) * (Requests + 1) : Write(a, i)
    BY <1>6, WriteBytes
<1>7. CASE \E a \in Addrs : Drop(a)
    BY <1>7, ClosingBytes DEF Drop, Close, Live, hist
<1>8. CASE \E idle \in SUBSET Live : ServerCron(idle)
    BY <1>8, ClosingBytes DEF ServerCron, hist
<1>9. CASE NotifierRead \/ Discard \/ Drained \/ UNCHANGED vars
    BY <1>9, QuietBytes DEF LeftOrRefused, NotifierRead, Discard, Drained, vars, proc, net, hist
<1>10. CASE HandOver \/ ConnDies
    BY <1>10, HandOverBytes, ConnDiesBytes
<1>11. CASE \E w \in Workers :
                 WorkerPop(w) \/ WorkerPush(w) \/ WorkerNotify(w) \/ WorkerDies(w)
                     \/ \E result \in Hooks : WorkerProcess(w, result)
    BY <1>11, QuietBytes DEF LeftOrRefused, WorkerPop, WorkerPush, WorkerNotify, WorkerDies,
                             WorkerProcess, proc, net, hist
<1> QED
    BY <1>2, <1>3, <1>4, <1>5, <1>6, <1>7, <1>8, <1>9, <1>10, <1>11 DEF Next, Serve

-----------------------------------------------------------------------------
(* A peer that does not pipeline waits for its response *)

\* A peer receives, and what it has received stays.
Grows ==
    \A k \in Conns : \A i \in 1 .. Len(got[k]) : i \in 1 .. Len(got'[k]) /\ got'[k][i] = got[k][i]

\* A peer that does not pipeline is at most one request ahead of its responses.
Frugal == \A k \in Conns \ Pipelining : sent[k] <= (Cardinality(OwnAnswers(k)) + 1) * Pieces

FInv == BInv /\ Frugal

Finite == \A k \in Conns :
    /\ got[k] \in Seq(Response) /\ Len(got[k]) \in Nat
    /\ OwnAnswers(k) = {i \in 1 .. Len(got[k]) : got[k][i].conn = k /\ got[k][i].n > 0}
    /\ IsFiniteSet(OwnAnswers(k)) /\ Cardinality(OwnAnswers(k)) \in Nat

LEMMA AnswersFinite == PInv => Finite
<1> SUFFICES ASSUME PInv, NEW k \in Conns
             PROVE  /\ got[k] \in Seq(Response) /\ Len(got[k]) \in Nat
                    /\ OwnAnswers(k) =
                           {i \in 1 .. Len(got[k]) : got[k][i].conn = k /\ got[k][i].n > 0}
                    /\ IsFiniteSet(OwnAnswers(k)) /\ Cardinality(OwnAnswers(k)) \in Nat
    BY DEF Finite
<1>1. got[k] \in Seq(Response)
    BY DEF PInv, IInv, TypeOK
<1>2. Len(got[k]) \in Nat /\ DOMAIN got[k] = 1 .. Len(got[k])
    BY <1>1
<1>3. OwnAnswers(k) = {i \in 1 .. Len(got[k]) : got[k][i].conn = k /\ got[k][i].n > 0}
    BY <1>2 DEF OwnAnswers
<1>4. IsFiniteSet(1 .. Len(got[k])) /\ OwnAnswers(k) \subseteq 1 .. Len(got[k])
    BY <1>2, <1>3, FS_Interval
<1> QED
    BY <1>1, <1>2, <1>3, <1>4, FS_Subset, FS_CardinalityType

LEMMA StillFinite == PInv' => Finite'
BY AnswersFinite, PTL

LEMMA StepGrows ==
    ASSUME PInv, [Next]_vars
    PROVE  Grows
<1>1. \A k \in Conns : got[k] \in Seq(Response)
    BY DEF PInv, IInv, TypeOK
<1>2. ASSUME UNCHANGED got PROVE Grows
    BY <1>1, <1>2 DEF Grows
<1>3. ASSUME NEW a \in Addrs, NEW i \in Int, Write(a, i)
      PROVE  Grows
    <2> DEFINE c == client[a]
               k == c.conn
               out == SubSeq(c.send, 1, i)
    <2>1. k \in Conns /\ c.send \in Seq(Response) /\ i \in 0 .. Len(c.send)
        BY <1>3 DEF Write, Client, PInv, IInv, TypeOK
    <2>2. out \in Seq(Response)
        BY <2>1
    <2>3. CASE got' = [got EXCEPT ![k] = @ \o out]
        <3>1. got'[k] = got[k] \o out /\ \A l \in Conns : l # k => got'[l] = got[l]
            BY <2>1, <2>3 DEF PInv, IInv, TypeOK
        <3> HIDE DEF out, k
        <3>2. \A j \in 1 .. Len(got[k]) : /\ j \in 1 .. Len(got[k] \o out)
                                          /\ (got[k] \o out)[j] = got[k][j]
            BY <1>1, <2>1, <2>2
        <3> QED
            BY <1>1, <2>1, <3>1, <3>2 DEF Grows
    <2> QED
        BY <1>2, <1>3, <2>3 DEF Write
<1>4. CASE \E k \in Conns : PeerSend(k) \/ PeerLeave(k) \/ AcceptRefused(k)
    BY <1>2, <1>4 DEF PeerSend, PeerLeave, AcceptRefused, net
<1>5. CASE \E k \in Conns, a \in Addrs, result \in Hooks \ {"error"}, hello \in Greets :
               Accept(k, a, result, hello)
    BY <1>2, <1>5 DEF Accept
<1>6. CASE \E a \in Addrs, u \in 1 .. Requests * Pieces : Read(a, u)
    BY <1>2, <1>6 DEF Read
<1>7. CASE \E a \in Addrs, i \in 0 .. Cardinality(Conns) * (Requests + 1) : Write(a, i)
    BY <1>3, <1>7
<1>8. CASE (\E a \in Addrs : Drop(a)) \/ \E idle \in SUBSET Live : ServerCron(idle)
    BY <1>2, <1>8 DEF Drop, ServerCron
<1>9. CASE NotifierRead \/ Discard \/ HandOver \/ Drained \/ ConnDies \/ UNCHANGED vars
    BY <1>2, <1>9 DEF NotifierRead, Discard, HandOver, Drained, ConnDies, vars, net
<1>10. CASE \E w \in Workers :
                 WorkerPop(w) \/ WorkerPush(w) \/ WorkerNotify(w) \/ WorkerDies(w)
                     \/ \E result \in Hooks : WorkerProcess(w, result)
    BY <1>2, <1>10 DEF WorkerPop, WorkerPush, WorkerNotify, WorkerDies, WorkerProcess, net
<1> QED
    BY <1>4, <1>5, <1>6, <1>7, <1>8, <1>9, <1>10 DEF Next, Serve

LEMMA Multiples ==
    ASSUME NEW P \in Nat \ {0}, NEW n \in Nat, NEW m \in Nat
    PROVE  /\ n * P \in Nat /\ (n * P) % P = 0
           /\ n < (n \div P + 1) * P
           /\ n <= m => (n + 1) * P <= (m + 1) * P
           /\ n * P <= (m + 1) * P => n <= m + 1
<1>1. n * P \in Nat
    OBVIOUS
<1>2. (n * P) % P = 0
    OBVIOUS
<1>3. n < (n \div P + 1) * P
    OBVIOUS
<1>4. n <= m => (n + 1) * P <= (m + 1) * P
    OBVIOUS
<1>5. n * P <= (m + 1) * P => n <= m + 1
    OBVIOUS
<1> QED
    BY <1>1, <1>2, <1>3, <1>4, <1>5

\* What has been received stays, so the peer is no further ahead.
LEMMA StillFrugal ==
    ASSUME FInv, PInv', Grows, UNCHANGED sent
    PROVE  Frugal'
<1>1. Finite /\ Finite'
    BY AnswersFinite, StillFinite DEF FInv, BInv
<1>2. Pieces \in Nat \ {0}
    BY Counters DEF FInv, BInv
<1>3. ASSUME NEW k \in Conns \ Pipelining
      PROVE  sent'[k] <= (Cardinality(OwnAnswers(k))' + 1) * Pieces
    <2>1. OwnAnswers(k) \subseteq OwnAnswers(k)'
        BY <1>1 DEF Finite, Grows
    <2>2. Cardinality(OwnAnswers(k)) <= Cardinality(OwnAnswers(k)')
        BY <1>1, <2>1, FS_Subset DEF Finite
    <2> DEFINE n == Cardinality(OwnAnswers(k))
               m == Cardinality(OwnAnswers(k)')
    <2>3. n \in Nat /\ m \in Nat /\ sent[k] <= (n + 1) * Pieces /\ sent[k] \in Nat
        BY <1>1, Counters DEF Finite, FInv, BInv, Frugal
    <2> HIDE DEF n, m
    <2>4. (n + 1) * Pieces <= (m + 1) * Pieces
        BY <1>2, <2>2, <2>3, Multiples DEF n, m
    <2>5. (n + 1) * Pieces \in Nat /\ (m + 1) * Pieces \in Nat
        BY <1>2, <2>3, Multiples
    <2>6. sent'[k] <= (m + 1) * Pieces
        BY <2>3, <2>4, <2>5
    <2> QED
        BY <2>6 DEF m
<1> QED
    BY <1>3 DEF Frugal

LEMMA PeerSendFrugal ==
    ASSUME FInv, NEW k \in Conns, PeerSend(k)
    PROVE  Frugal'
<1>1. MaySend(k) /\ sent' = [sent EXCEPT ![k] = @ + 1] /\ UNCHANGED got
    BY DEF PeerSend
<1>2. sent \in [Conns -> Nat] /\ Pieces \in Nat \ {0} /\ Finite
    BY Counters, AnswersFinite DEF FInv, BInv
<1>3. \A l \in Conns : UNCHANGED OwnAnswers(l)
    BY <1>1 DEF OwnAnswers
<1>4. ASSUME k \notin Pipelining
      PROVE  sent[k] + 1 <= (Cardinality(OwnAnswers(k)) + 1) * Pieces
    <2> DEFINE n == Cardinality(OwnAnswers(k))
    <2>1. n \in Nat /\ sent[k] <= (n + 1) * Pieces /\ sent[k] \in Nat /\ n + 1 \in Nat
        BY <1>2, <1>4 DEF Finite, FInv, Frugal
    <2>2. sent[k] % Pieces # 0 \/ n = sent[k] \div Pieces
        BY <1>1, <1>4 DEF MaySend
    <2> HIDE DEF n
    <2>3. (n + 1) * Pieces \in Nat /\ ((n + 1) * Pieces) % Pieces = 0
          /\ sent[k] < (sent[k] \div Pieces + 1) * Pieces
        BY <1>2, <2>1, Multiples
    <2>4. sent[k] < (n + 1) * Pieces
        BY <2>1, <2>2, <2>3
    <2>5. sent[k] + 1 <= (n + 1) * Pieces
        BY <2>1, <2>3, <2>4
    <2> QED
        BY <2>5 DEF n
<1>5. ASSUME NEW l \in Conns \ Pipelining
      PROVE  sent'[l] <= (Cardinality(OwnAnswers(l)) + 1) * Pieces
    BY <1>1, <1>2, <1>4, <1>5 DEF FInv, Frugal
<1>6. \A l \in Conns : Cardinality(OwnAnswers(l))' = Cardinality(OwnAnswers(l))
    BY <1>3
<1> QED
    BY <1>5, <1>6 DEF Frugal

LEMMA InitFrugal ==
    ASSUME Init
    PROVE  FInv
<1>1. BInv /\ \A k \in Conns : sent[k] = 0
    BY InitBytes DEF Init
<1>2. Finite /\ Pieces \in Nat
    BY <1>1, AnswersFinite, Counters DEF BInv
<1>3. \A k \in Conns : (Cardinality(OwnAnswers(k)) + 1) * Pieces \in Nat
    BY <1>2 DEF Finite
<1> QED
    BY <1>1, <1>3 DEF FInv, Frugal

\* Only a peer that may send does.
LEMMA OnlyPeersSend ==
    ASSUME [Next]_vars
    PROVE  UNCHANGED sent \/ \E k \in Conns : PeerSend(k)
<1>1. CASE \E k \in Conns : PeerSend(k) \/ PeerLeave(k) \/ AcceptRefused(k)
    BY <1>1 DEF PeerLeave, AcceptRefused
<1>2. CASE \E k \in Conns, a \in Addrs, result \in Hooks \ {"error"}, hello \in Greets :
               Accept(k, a, result, hello)
    BY <1>2 DEF Accept
<1>3. CASE \E a \in Addrs, u \in 1 .. Requests * Pieces : Read(a, u)
    BY <1>3 DEF Read
<1>4. CASE \E a \in Addrs, i \in 0 .. Cardinality(Conns) * (Requests + 1) : Write(a, i)
    BY <1>4 DEF Write
<1>5. CASE (\E a \in Addrs : Drop(a)) \/ \E idle \in SUBSET Live : ServerCron(idle)
    BY <1>5 DEF Drop, ServerCron
<1>6. CASE NotifierRead \/ Discard \/ HandOver \/ Drained \/ ConnDies \/ UNCHANGED vars
    BY <1>6 DEF NotifierRead, Discard, HandOver, Drained, ConnDies, vars, net
<1>7. CASE \E w \in Workers :
                 WorkerPop(w) \/ WorkerPush(w) \/ WorkerNotify(w) \/ WorkerDies(w)
                     \/ \E result \in Hooks : WorkerProcess(w, result)
    BY <1>7 DEF WorkerPop, WorkerPush, WorkerNotify, WorkerDies, WorkerProcess, net
<1> QED
    BY <1>1, <1>2, <1>3, <1>4, <1>5, <1>6, <1>7 DEF Next, Serve

LEMMA StepKeepsFrugal ==
    ASSUME FInv, [Next]_vars
    PROVE  FInv'
<1>1. PInv' /\ Fresh' /\ Bytes'
    BY StepKeepsPlaces, StepKeepsBytes DEF FInv, BInv
<1>2. Grows
    BY StepGrows DEF FInv, BInv
<1>3. Frugal'
    BY <1>1, <1>2, OnlyPeersSend, StillFrugal, PeerSendFrugal
<1> QED
    BY <1>1, <1>3 DEF FInv, BInv

\* A request of k or the response to it.
OfConn(r, k) == r.conn = k /\ r.n > 0

\* No more than one request of a peer that does not pipeline is under way.
LEMMA OneUnderWay ==
    ASSUME AInv, FInv, NEW k \in Conns \ Pipelining,
           NEW x \in Carriers \ {PeerOf(k)}, NEW i \in 1 .. Len(held[x]), OfConn(held[x][i], k),
           NEW y \in Carriers \ {PeerOf(k)}, NEW j \in 1 .. Len(held[y]), OfConn(held[y][j], k)
    PROVE  x = y /\ i = j
<1> SUFFICES ASSUME ~(x = y /\ i = j) PROVE FALSE
    OBVIOUS
<1> DEFINE n   == held[x][i].n
           m   == held[y][j].n
           own == OwnAnswers(k)
           all == 1 .. asked[k]
           f   == [l \in own |-> got[k][l].n]
<1>1. /\ asked \in [Conns -> Nat] /\ sent \in [Conns -> Nat] /\ Pieces \in Nat \ {0}
      /\ asked[k] * Pieces <= sent[k] /\ sent[k] <= (Cardinality(own) + 1) * Pieces
      /\ IsFiniteSet(own) /\ Cardinality(own) \in Nat
      /\ own = {l \in 1 .. Len(got[k]) : got[k][l].conn = k /\ got[k][l].n > 0}
    BY Counters, AnswersFinite DEF FInv, BInv, Bytes, Frugal, Finite
<1>2. asked[k] <= Cardinality(own) + 1
    <2>1. asked[k] \in Nat /\ Cardinality(own) \in Nat
        BY <1>1
    <2>2. asked[k] * Pieces \in Nat /\ (Cardinality(own) + 1) * Pieces \in Nat
        BY SMTT(30), <1>1
    <2>3. asked[k] * Pieces <= (Cardinality(own) + 1) * Pieces
        BY <1>1, <2>2
    <2> HIDE DEF own
    <2> QED
        BY <1>1, <2>1, <2>3, Multiples
<1>3. \A z \in Carriers : \A l \in 1 .. Len(held[z]) :
          OfConn(held[z][l], k) => held[z][l].n \in all
    <2>1. ASSUME NEW z \in Carriers, NEW l \in 1 .. Len(held[z]), OfConn(held[z][l], k)
          PROVE  held[z][l].n \in all
        <3>1. PICK t : t = Key(held[z][l]) /\ t \in Conns \X Nat /\ t[2] <= asked[t[1]]
            BY DEF AInv, Counted, Numbered
        <3>2. t[1] = k /\ t[2] = held[z][l].n
            BY <2>1, <3>1 DEF Key, OfConn
        <3>3. t[2] \in Nat /\ t[2] > 0 /\ t[2] <= asked[k] /\ asked[k] \in Nat
            BY <1>1, <2>1, <3>1, <3>2 DEF OfConn
        <3>4. t[2] \in 1 .. asked[k]
            BY <3>3
        <3> QED
            BY <3>2, <3>4
    <2> QED
        BY <2>1
<1>4. n \in all /\ m \in all
    BY <1>3
<1>5. PeerOf(k) \in Carriers /\ held[PeerOf(k)] = got[k]
    BY Kinds, HeldIs DEF HeldAre
<1>6. \A l \in own : /\ l \in 1 .. Len(held[PeerOf(k)]) /\ held[PeerOf(k)][l] = got[k][l]
                     /\ OfConn(got[k][l], k)
    BY <1>1, <1>5 DEF OfConn
<1>7. \A z, u \in Carriers : \A l \in 1 .. Len(held[z]), o \in 1 .. Len(held[u]) :
          OfConn(held[z][l], k) /\ OfConn(held[u][o], k) /\ held[z][l].n = held[u][o].n
              => z = u /\ l = o
    <2>1. ASSUME NEW z \in Carriers, NEW u \in Carriers, NEW l \in 1 .. Len(held[z]),
                 NEW o \in 1 .. Len(held[u]), OfConn(held[z][l], k), OfConn(held[u][o], k),
                 held[z][l].n = held[u][o].n
          PROVE  z = u /\ l = o
        <3>1. Key(held[z][l]) = Key(held[u][o])
            BY <2>1 DEF Key, OfConn
        <3> QED
            BY <3>1 DEF AInv, Apart, ApartIn
    <2> QED
        BY SMTT(30), <2>1
<1>8. n # m
    BY <1>7
<1>9. f \in [own -> all \ {n, m}]
    <2>1. ASSUME NEW l \in own PROVE got[k][l].n \in all \ {n, m}
        <3>1. PICK h, o : /\ h = PeerOf(k) /\ o = l /\ h \in Carriers /\ o \in 1 .. Len(held[h])
                          /\ OfConn(held[h][o], k) /\ held[h][o].n = got[k][l].n
                          /\ x # h /\ y # h
            BY <1>5, <1>6
        <3>2. got[k][l].n # n /\ got[k][l].n # m
            BY <1>7, <3>1
        <3> QED
            BY <1>3, <3>1, <3>2
    <2> QED
        BY <2>1
<1>10. \A l, o \in own : f[l] = f[o] => l = o
    <2>1. ASSUME NEW l \in own, NEW o \in own, got[k][l].n = got[k][o].n PROVE l = o
        BY <1>5, <1>6, <1>7, <2>1
    <2> QED
        BY <2>1
<1>11. f \in Injection(own, all \ {n, m})
    BY <1>9, <1>10 DEF Injection, IsInjective
<1>12. IsFiniteSet(all \ {n, m}) /\ Cardinality(all \ {n, m}) = asked[k] - 2
    <2>1. asked[k] \in Nat /\ asked[k] >= 1
        BY <1>1, <1>4
    <2>2. IsFiniteSet(all) /\ Cardinality(all) = asked[k]
        <3>1. asked[k] \in Int /\ 1 \in Int /\ ~(1 > asked[k]) /\ asked[k] - 1 + 1 = asked[k]
            BY <2>1
        <3> QED
            BY <3>1, FS_Interval
    <2> HIDE DEF all, n, m
    <2>3. IsFiniteSet(all \ {n}) /\ Cardinality(all \ {n}) = asked[k] - 1
        BY <1>4, <2>1, <2>2, FS_RemoveElement
    <2>4. m \in all \ {n} /\ (all \ {n}) \ {m} = all \ {n, m}
        BY <1>4, <1>8
    <2>5. IsFiniteSet((all \ {n}) \ {m})
          /\ Cardinality((all \ {n}) \ {m}) = Cardinality(all \ {n}) - 1
        BY <2>3, <2>4, FS_RemoveElement
    <2>6. asked[k] - 1 - 1 = asked[k] - 2
        BY <2>1
    <2> QED
        BY <2>3, <2>4, <2>5, <2>6
<1> HIDE DEF f, own, all, n, m
<1>13. Cardinality(own) <= asked[k] - 2
    BY <1>11, <1>12, FS_Injection
<1> QED
    BY <1>1, <1>2, <1>13

\* A response with close_conn is the last one in its client's buffer, and the
\* client remembers it.
Ends(c) ==
    \A j \in 1 .. Len(c.send) :
        OfConn(c.send[j], c.conn) /\ c.send[j].close => j = Len(c.send) /\ c.close

Unended(k) == \A i \in OwnAnswers(k) : ~got[k][i].close

Final == \A a \in Live :
    client[a].conn \notin Pipelining => Unended(client[a].conn) /\ Ends(client[a])

CInv == OInv /\ FInv /\ Final

\* Clients that stay as they are.
LEMMA StillFinal ==
    ASSUME Final, UNCHANGED got,
           \A b \in Live' : /\ b \in Live /\ client'[b].conn = client[b].conn
                            /\ client'[b].send = client[b].send
                            /\ client'[b].close = client[b].close
    PROVE  Final'
<1>1. ASSUME NEW b \in Live', client'[b].conn \notin Pipelining
      PROVE  (Unended(client[b].conn) /\ Ends(client[b]))'
    <2>1. b \in Live /\ client[b].conn \notin Pipelining /\ client'[b].conn = client[b].conn
        BY <1>1
    <2>2. Unended(client[b].conn) /\ Ends(client[b])
        BY <2>1 DEF Final
    <2>3. (Ends(client[b]))'
        BY <2>1, <2>2 DEF Ends
    <2>4. (Unended(client[b].conn))'
        BY <2>1, <2>2 DEF Unended, OwnAnswers
    <2> QED
        BY <2>3, <2>4
<1> QED
    BY <1>1 DEF Final

LEMMA ClosingFinal ==
    ASSUME Final, UNCHANGED got, NEW gone, CloseAll(gone)
    PROVE  Final'
<1>1. \A b \in Live' : b \in Live /\ client'[b] = client[b]
    BY DEF CloseAll, Live
<1> QED
    BY <1>1, StillFinal

LEMMA AcceptFinal ==
    ASSUME CInv, NEW k \in Conns, NEW a \in Addrs, NEW result, NEW hello,
           Accept(k, a, result, hello)
    PROVE  Final'
<1>1. PICK c : /\ peer[k] = "away" /\ c.conn = k
               /\ c.send = <<>> \/ \E close : c.send = <<[conn |-> k, n |-> 0, close |-> close]>>
               /\ client' = [client EXCEPT ![a] = c]
               /\ UNCHANGED got
    <2> DEFINE c == [fd |-> Min({f \in Fds : vec[f] = Nil}), conn |-> k,
                     close |-> result = "close", need |-> 0, recv |-> 0,
                     send |-> IF hello THEN <<[conn |-> k, n |-> 0, close |-> result = "close"]>>
                              ELSE <<>>]
    <2>1. peer[k] = "away" /\ client' = [client EXCEPT ![a] = c] /\ UNCHANGED got
        BY DEF Accept
    <2>2. /\ c.conn = k
          /\ c.send = <<>> \/ \E close : c.send = <<[conn |-> k, n |-> 0, close |-> close]>>
        <3>1. c.send = IF hello THEN <<[conn |-> k, n |-> 0, close |-> result = "close"]>> ELSE <<>>
            OBVIOUS
        <3> QED
            BY <3>1
    <2> HIDE DEF c
    <2> QED
        BY <2>1, <2>2
<1>2. client'[a] = c /\ \A b \in Addrs : b # a => client'[b] = client[b]
    BY <1>1 DEF CInv, OInv, AInv, PInv, IInv, TypeOK
<1>3. \A j \in 1 .. Len(c.send) : ~OfConn(c.send[j], k)
    <2>1. CASE c.send = <<>>
        BY <2>1
    <2>2. ASSUME NEW close, c.send = <<[conn |-> k, n |-> 0, close |-> close]>>
          PROVE  \A j \in 1 .. Len(c.send) : ~OfConn(c.send[j], k)
        BY <2>2 DEF OfConn
    <2> QED
        BY <1>1, <2>1, <2>2
<1>4. got[k] = <<>>
    BY <1>1 DEF CInv, OInv, AInv, PInv, Received
<1>5. ASSUME NEW b \in Live', (client[b].conn)' \notin Pipelining
      PROVE  (Unended(client[b].conn) /\ Ends(client[b]))'
    <2>1. CASE b = a
        BY <1>1, <1>2, <1>3, <1>4, <2>1 DEF Unended, OwnAnswers, Ends
    <2>2. CASE b # a
        <3>1. b \in Live /\ client'[b] = client[b] /\ client[b].conn \notin Pipelining
            BY <1>2, <1>5, <2>2 DEF Live
        <3>2. Unended(client[b].conn) /\ Ends(client[b])
            BY <3>1 DEF CInv, Final
        <3> QED
            BY <1>1, <3>1, <3>2 DEF Unended, OwnAnswers, Ends
    <2> QED
        BY <2>1, <2>2
<1> QED
    BY <1>5 DEF Final

LEMMA ReadFinal ==
    ASSUME CInv, NEW a \in Addrs, NEW u \in Int, Read(a, u)
    PROVE  Final'
<1>1. UNCHANGED got /\ a \in Live /\ client[a] \in Client
    BY DEF Read, Live, CInv, OInv, AInv, PInv, IInv, TypeOK
<1>2. CASE Close(a)
    BY <1>1, <1>2, ClosingFinal DEF Close, CInv
<1>3. ASSUME NEW r, NEW d, client' = [client EXCEPT ![a].recv = r, ![a].need = d]
      PROVE  Final'
    <2>1. /\ client'[a].conn = client[a].conn /\ client'[a].send = client[a].send
          /\ client'[a].close = client[a].close
          /\ \A b \in Addrs : b # a => client'[b] = client[b]
        BY <1>1, <1>3 DEF CInv, OInv, AInv, PInv, IInv, TypeOK, Client
    <2>2. \A b \in Live' : /\ b \in Live /\ client'[b].conn = client[b].conn
                           /\ client'[b].send = client[b].send
                           /\ client'[b].close = client[b].close
        BY <1>1, <2>1 DEF Live
    <2> QED
        BY <1>1, <2>2, StillFinal DEF CInv
<1>4. Close(a) \/ \E r, d : client' = [client EXCEPT ![a].recv = r, ![a].need = d]
    BY DEF Read
<1> QED
    BY <1>2, <1>3, <1>4

\* What a peer has received is what it had received or what is written to it.
LEMMA Extended ==
    ASSUME NEW k \in Conns, got[k] \in Seq(Response), NEW out \in Seq(Response),
           got'[k] = got[k] \o out, NEW j \in OwnAnswers(k)'
    PROVE  \/ j \in OwnAnswers(k) /\ got'[k][j] = got[k][j]
           \/ \E o \in 1 .. Len(out) : got'[k][j] = out[o] /\ OfConn(out[o], k)
<1>1. /\ Len(got[k]) \in Nat /\ Len(out) \in Nat /\ DOMAIN got[k] = 1 .. Len(got[k])
      /\ DOMAIN got'[k] = 1 .. Len(got[k]) + Len(out)
    <2> DEFINE s == got[k]
    <2>1. s \in Seq(Response)
        OBVIOUS
    <2> HIDE DEF s
    <2>2. /\ Len(s) \in Nat /\ Len(out) \in Nat /\ DOMAIN s = 1 .. Len(s)
          /\ DOMAIN (s \o out) = 1 .. Len(s) + Len(out)
        BY <2>1
    <2> QED
        BY <2>2 DEF s
<1>2. \A l \in 1 .. Len(got[k]) + Len(out) :
          got'[k][l] = IF l <= Len(got[k]) THEN got[k][l] ELSE out[l - Len(got[k])]
    BY Joined
<1>3. j \in 1 .. Len(got[k]) + Len(out) /\ OfConn(got'[k][j], k)
    BY <1>1 DEF OwnAnswers, OfConn
<1>4. CASE j <= Len(got[k])
    <2>1. got'[k][j] = got[k][j]
        BY <1>2, <1>3, <1>4
    <2>2. j \in DOMAIN got[k]
        BY <1>1, <1>3, <1>4
    <2> QED
        BY <1>3, <2>1, <2>2 DEF OwnAnswers, OfConn
<1>5. CASE j > Len(got[k])
    <2>1. j - Len(got[k]) \in 1 .. Len(out)
        BY <1>1, <1>3, <1>5
    <2>2. ~(j <= Len(got[k]))
        BY <1>1, <1>3, <1>5
    <2>3. got'[k][j] = out[j - Len(got[k])]
        BY <1>2, <1>3, <2>2
    <2> QED
        BY <1>3, <2>1, <2>3
<1>6. j <= Len(got[k]) \/ j > Len(got[k])
    BY <1>1, <1>3
<1> QED
    BY <1>4, <1>5, <1>6

LEMMA WriteFinal ==
    ASSUME CInv, NEW a \in Addrs, NEW i \in Int, Write(a, i)
    PROVE  Final'
<1> DEFINE c   == client[a]
           out == SubSeq(c.send, 1, i)
           e   == [c EXCEPT !.send = Rest(@, i)]
<1>0. PICK k : k = c.conn
    OBVIOUS
<1>1. /\ a \in Live /\ c \in Client /\ k \in Conns /\ c.send \in Seq(Response)
      /\ i \in 0 .. Len(c.send) /\ got[k] \in Seq(Response)
    BY <1>0 DEF Write, Live, Client, CInv, OInv, AInv, PInv, IInv, TypeOK
<1>2. \A l \in Conns : l # k => got'[l] = got[l]
    BY <1>0, <1>1 DEF Write, CInv, OInv, AInv, PInv, IInv, TypeOK
<1>3. ASSUME NEW b \in Live, b # a, client'[b] = client[b], client[b].conn \notin Pipelining
      PROVE  (Unended(client[b].conn) /\ Ends(client[b]))'
    <2>1. client[b].conn \in Conns /\ client[b].conn # k
        BY <1>0, <1>1, <1>3, OneClient, Counters DEF CInv, FInv, BInv
    <2>2. Unended(client[b].conn) /\ Ends(client[b])
        BY <1>3 DEF CInv, Final
    <2>3. (Ends(client[b]))'
        BY <1>3, <2>2 DEF Ends
    <2>4. (Unended(client[b].conn))'
        BY <1>2, <1>3, <2>1, <2>2 DEF Unended, OwnAnswers
    <2> QED
        BY <2>3, <2>4
<1>4. CASE Close(a)
    <2>1. \A b \in Live' : b \in Live /\ b # a /\ client'[b] = client[b]
        BY <1>4 DEF Close, CloseAll, Live
    <2>2. \A b \in Live' : (client[b].conn)' \notin Pipelining => client[b].conn \notin Pipelining
        BY <2>1
    <2> QED
        BY <1>3, <2>1, <2>2 DEF Final
<1>5. CASE ~Closes(c, i) /\ client' = [client EXCEPT ![a].send = Rest(@, i)]
    <2>1. e.conn = k /\ e.send = SubSeq(c.send, i + 1, Len(c.send)) /\ e.close = c.close
        BY <1>0, <1>1 DEF Client, Rest
    <2>2. client'[a] = e /\ \A b \in Addrs : b # a => client'[b] = client[b]
        BY <1>1, <1>5 DEF CInv, OInv, AInv, PInv, IInv, TypeOK
    <2> HIDE DEF e
    <2>3. ASSUME k \notin Pipelining
          PROVE  Ends(e) /\ Unended(k)'
        <3>1. Unended(k) /\ Ends(c)
            BY <1>0, <1>1, <2>3 DEF CInv, Final
        <3>2. /\ Len(e.send) = Len(c.send) - i
              /\ \A j \in 1 .. Len(c.send) - i : e.send[j] = c.send[j + i]
            BY <1>1, <2>1
        <3>3. ASSUME NEW j \in 1 .. Len(e.send), OfConn(e.send[j], k), e.send[j].close
              PROVE  j = Len(e.send) /\ e.close
            <4>1. j + i \in 1 .. Len(c.send) /\ e.send[j] = c.send[j + i]
                BY <1>1, <3>2
            <4>2. j + i = Len(c.send) /\ c.close
                BY <1>0, <3>1, <3>3, <4>1 DEF Ends
            <4> QED
                BY <1>1, <2>1, <3>2, <4>2
        <3>4. \A j \in 1 .. i : ~(OfConn(c.send[j], k) /\ c.send[j].close)
            <4>1. ASSUME NEW j \in 1 .. i, OfConn(c.send[j], k), c.send[j].close
                  PROVE  FALSE
                <5>1. j \in 1 .. Len(c.send)
                    BY <1>1
                <5>2. j = Len(c.send) /\ c.close
                    BY <1>0, <3>1, <4>1, <5>1 DEF Ends
                <5>3. i = Len(c.send)
                    BY <1>1, <5>2
                <5> QED
                    BY <1>5, <5>2, <5>3 DEF Closes
            <4> QED
                BY <4>1
        <3>5. Ends(e)
            BY <2>1, <3>3 DEF Ends
        <3>6. CASE got' = got
            BY <3>1, <3>5, <3>6 DEF Unended, OwnAnswers
        <3>7. CASE got' = [got EXCEPT ![k] = @ \o out]
            <4>1. got'[k] = got[k] \o out
                BY <1>1, <3>7 DEF CInv, OInv, AInv, PInv, IInv, TypeOK
            <4>2. out \in Seq(Response) /\ Len(out) = i /\ \A j \in 1 .. i : out[j] = c.send[j]
                BY <1>1
            <4> HIDE DEF out, c
            <4>3. \A j \in OwnAnswers(k)' :
                      \/ j \in OwnAnswers(k) /\ got'[k][j] = got[k][j]
                      \/ \E o \in 1 .. Len(out) : got'[k][j] = out[o] /\ OfConn(out[o], k)
                BY <1>1, <4>1, <4>2, Extended
            <4>4. \A j \in OwnAnswers(k)' : ~got'[k][j].close
                BY <3>1, <3>4, <4>2, <4>3 DEF Unended
            <4>5. Unended(k)'
                BY <4>4 DEF Unended
            <4> QED
                BY <3>5, <4>5
        <3> QED
            BY <1>0, <3>6, <3>7 DEF Write, out
    <2>4. ASSUME NEW b \in Live', (client[b].conn)' \notin Pipelining
          PROVE  (Unended(client[b].conn) /\ Ends(client[b]))'
        <3>1. CASE b = a
            BY <2>1, <2>2, <2>3, <2>4, <3>1 DEF Ends, Unended, OwnAnswers
        <3>2. CASE b # a
            <4>1. b \in Live /\ client'[b] = client[b] /\ client[b].conn \notin Pipelining
                BY <2>2, <2>4, <3>2 DEF Live
            <4> QED
                BY <1>3, <3>2, <4>1
        <3> QED
            BY <3>1, <3>2
    <2> QED
        BY <2>4 DEF Final
<1> QED
    BY <1>4, <1>5 DEF Write

\* Nothing comes to a client after a response to a peer that does not pipeline.
LEMMA NothingBehind ==
    ASSUME CInv, NEW a \in Live, client[a].conn \notin Pipelining,
           NEW j \in 1 .. Len(client[a].send), OfConn(client[a].send[j], client[a].conn),
           sendq # <<>>, place[Head(sendq).conn] = place[client[a].conn]
    PROVE  FALSE
<1> DEFINE m == Head(sendq)
           c == client[a]
           k == c.conn
<1>1. k \in Conns /\ a \in Addrs /\ c # Nil /\ peer[k] \in {"open", "left"}
    BY DEF CInv, OInv, AInv, PInv, IInv, TypeOK, Live, Client, Placed, At
<1>2. held[BufferOf(a)] = c.send /\ BufferOf(a) \in Carriers \ {PeerOf(k)}
    BY <1>1, HeldIs, Kinds, Distinct DEF HeldAre
<1>3. held[Sendq] = sendq /\ Sendq \in Carriers \ {PeerOf(k)} /\ Sendq # BufferOf(a)
    BY <1>1, HeldIs, Kinds, Distinct DEF HeldAre
<1>4. 1 \in 1 .. Len(held[Sendq]) /\ held[Sendq][1] = m
    <2>1. sendq \in Seq(Message)
        BY DEF CInv, OInv, AInv, PInv, IInv, TypeOK
    <2> QED
        BY <1>3, <2>1
<1>5. <<BufferOf(a), Sendq>> \in Before
    BY <1>1, <1>2, <1>3 DEF Before, Ahead, Buffers
<1>6. PICK t, u : /\ t = Key(held[BufferOf(a)][j]) /\ u = Key(held[Sendq][1])
                  /\ <<t, u>> \in Precedes /\ u \in Conns \X Nat
    <2>1. j \in 1 .. Len(held[BufferOf(a)])
        BY <1>2
    <2>2. <<Key(held[BufferOf(a)][j]), Key(held[Sendq][1])>> \in Precedes
        BY <1>2, <1>3, <1>4, <1>5, <2>1 DEF CInv, OInv, Ordered, OrderedIn
    <2>3. Key(held[Sendq][1]) \in Conns \X Nat
        BY <1>3, <1>4, KnownKey DEF CInv, OInv, AInv
    <2> QED
        BY <2>2, <2>3
<1>7. Comes(t, u) /\ t[1] = k /\ t[2] = c.send[j].n /\ t[2] > 0 /\ u[1] = m.conn /\ u[2] = m.n
      /\ u[2] \in Nat
    BY <1>2, <1>4, <1>6 DEF Precedes, Key, OfConn
<1>8. CASE m.conn # k
    BY <1>1, <1>7, <1>8 DEF Comes
<1>9. CASE m.conn = k
    <2>1. t[2] < u[2]
        BY <1>7, <1>9 DEF Comes
    <2>2. t[2] \in Nat
        BY <1>6, <1>7 DEF Precedes
    <2>3. OfConn(held[Sendq][1], k)
        BY <1>4, <1>7, <1>9, <2>1, <2>2 DEF OfConn
    <2>4. OfConn(held[BufferOf(a)][j], k) /\ j \in 1 .. Len(held[BufferOf(a)])
        BY <1>2
    <2>5. k \in Conns \ Pipelining
        BY <1>1
    <2> HIDE DEF k, m, c
    <2> QED
        BY <1>2, <1>3, <1>4, <2>3, <2>4, <2>5, OneUnderWay DEF CInv, OInv
<1> QED
    BY <1>8, <1>9

LEMMA HandOverFinal ==
    ASSUME CInv, HandOver
    PROVE  Final'
<1> DEFINE m == Head(sendq)
           a == m.addr
           c == client[a]
           r == [conn |-> m.conn, n |-> m.n, close |-> m.close]
           e == [c EXCEPT !.close = m.close, !.send = Buffered(@, r)]
<1>1. /\ a \in Live /\ c \in Client /\ UNCHANGED got /\ sendq # <<>>
      /\ place[m.conn] = place[c.conn]
    BY Addressee DEF HandOver, CInv, OInv, AInv
<1>2. CASE Close(a)
    BY <1>1, <1>2, ClosingFinal DEF Close, CInv
<1>3. CASE client' = [client EXCEPT ![a] = e]
    <2>1. /\ e.conn = c.conn /\ e.close = m.close /\ e.send = Append(c.send, r)
          /\ c.send \in Seq(Response)
        BY <1>1 DEF Client, Buffered
    <2>2. client'[a] = e /\ \A b \in Addrs : b # a => client'[b] = client[b]
        BY <1>1, <1>3 DEF CInv, OInv, AInv, PInv, IInv, TypeOK, Live
    <2>3. r.close = m.close
        OBVIOUS
    <2> HIDE DEF e, r
    <2>4. /\ Len(e.send) = Len(c.send) + 1 /\ Len(c.send) \in Nat /\ e.send[Len(c.send) + 1] = r
          /\ \A j \in 1 .. Len(c.send) : e.send[j] = c.send[j]
        BY <2>1
    <2>5. ASSUME c.conn \notin Pipelining, NEW j \in 1 .. Len(e.send), OfConn(e.send[j], c.conn),
                 e.send[j].close
          PROVE  j = Len(e.send) /\ e.close
        <3>1. CASE j \in 1 .. Len(c.send)
            BY <1>1, <2>4, <2>5, <3>1, NothingBehind
        <3>2. CASE j = Len(c.send) + 1
            BY <2>1, <2>3, <2>4, <2>5, <3>2
        <3> QED
            BY <2>4, <3>1, <3>2
    <2>6. PICK k : k = c.conn
        OBVIOUS
    <2>7. ASSUME k \notin Pipelining
          PROVE  Ends(e) /\ Unended(k)'
        <3>1. Unended(k)
            BY <1>1, <2>6, <2>7 DEF CInv, Final
        <3>2. Unended(k)'
            BY <1>1, <3>1 DEF Unended, OwnAnswers
        <3>3. Ends(e)
            BY <2>1, <2>5, <2>6, <2>7 DEF Ends
        <3> QED
            BY <3>2, <3>3
    <2>8. ASSUME NEW b \in Live', (client[b].conn)' \notin Pipelining
          PROVE  (Unended(client[b].conn) /\ Ends(client[b]))'
        <3>1. CASE b = a
            <4>1. client'[b] = e /\ e.conn = k
                BY <2>1, <2>2, <2>6, <3>1
            <4>2. Ends(e) /\ Unended(k)'
                BY <2>7, <2>8, <4>1
            <4> QED
                BY <4>1, <4>2 DEF Ends, Unended, OwnAnswers
        <3>2. CASE b # a
            <4>1. b \in Live /\ client'[b] = client[b] /\ client[b].conn \notin Pipelining
                BY <2>2, <2>8, <3>2 DEF Live
            <4>2. Unended(client[b].conn) /\ Ends(client[b])
                BY <4>1 DEF CInv, Final
            <4> QED
                BY <1>1, <4>1, <4>2 DEF Unended, OwnAnswers, Ends
        <3> QED
            BY <3>1, <3>2
    <2> QED
        BY <2>8 DEF Final
<1> QED
    BY <1>2, <1>3 DEF HandOver

LEMMA StepKeepsFinal ==
    ASSUME CInv, [Next]_vars
    PROVE  Final'
<1>1. ASSUME UNCHANGED <<client, got>>
      PROVE  Final'
    <2>1. \A b \in Live' : b \in Live /\ client'[b] = client[b]
        BY <1>1 DEF Live
    <2> QED
        BY <1>1, <2>1, StillFinal DEF CInv
<1>2. CASE \E k \in Conns : PeerSend(k) \/ PeerLeave(k) \/ AcceptRefused(k)
    BY <1>1, <1>2 DEF PeerSend, PeerLeave, AcceptRefused, proc, net
<1>3. CASE \E k \in Conns, a \in Addrs, result \in Hooks \ {"error"}, hello \in Greets :
               Accept(k, a, result, hello)
    BY <1>3, AcceptFinal
<1>4. CASE \E a \in Addrs, u \in 1 .. Requests * Pieces : Read(a, u)
    BY <1>4, ReadFinal
<1>5. CASE \E a \in Addrs, i \in 0 .. Cardinality(Conns) * (Requests + 1) : Write(a, i)
    BY <1>5, WriteFinal
<1>6. CASE (\E a \in Addrs : Drop(a)) \/ \E idle \in SUBSET Live : ServerCron(idle)
    BY <1>6, ClosingFinal DEF Drop, ServerCron, Close, CInv
<1>7. CASE NotifierRead \/ Discard \/ Drained \/ UNCHANGED vars
    BY <1>1, <1>7 DEF NotifierRead, Discard, Drained, vars, proc, net
<1>8. CASE HandOver
    BY <1>8, HandOverFinal
<1>9. CASE ConnDies
    <2>1. Live' = {} /\ UNCHANGED got
        BY <1>9 DEF ConnDies, Live
    <2> QED
        BY <2>1 DEF Final
<1>10. CASE \E w \in Workers :
                 WorkerPop(w) \/ WorkerPush(w) \/ WorkerNotify(w) \/ WorkerDies(w)
                     \/ \E result \in Hooks : WorkerProcess(w, result)
    BY <1>1, <1>10 DEF WorkerPop, WorkerPush, WorkerNotify, WorkerDies, WorkerProcess, proc, net
<1> QED
    BY <1>2, <1>3, <1>4, <1>5, <1>6, <1>7, <1>8, <1>9, <1>10 DEF Next, Serve

\* With one worker, the write that hands a peer the response to its request that
\* the plugin wanted followed by a close closes the connection, unless the peer
\* sends on before it is answered: such a response is the last one in its
\* client's buffer, for the peer has no other request under way, and what is
\* made for a closed connection has passed before.
THEOREM CloseFollowsWithOneWorker ==
    ASSUME OneWorker
    PROVE  Spec => []CloseFollows
<1>1. Init => CInv
    <2>1. Init => Live = {}
        BY DEF Init, Live
    <2>2. Live = {} => Final
        BY DEF Final
    <2> QED
        BY <2>1, <2>2, InitOrders, InitFrugal DEF CInv
<1>2. CInv /\ [Next]_vars => CInv'
    <2>1. ASSUME CInv, [Next]_vars
          PROVE  CInv'
        <3>1. OInv'
            BY <2>1, StepKeepsOrder DEF CInv
        <3>2. FInv'
            BY <2>1, StepKeepsFrugal DEF CInv
        <3>3. Final'
            BY <2>1, StepKeepsFinal
        <3> QED
            BY <3>1, <3>2, <3>3 DEF CInv
    <2> QED
        BY <2>1
<1>3. CInv => CloseFollows
    BY DEF CInv, Final, Unended, CloseFollows
<1> QED
    BY <1>1, <1>2, <1>3, PTL DEF Spec
=============================================================================
