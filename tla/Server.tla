------------------------------- MODULE Server -------------------------------
(***************************************************************************)
(* The path of a request through verben: the connection process            *)
(* (src/src/conn.c) reads it from a client and puts it in recv_queue, a    *)
(* worker (src/src/worker.c) processes it and puts the response in         *)
(* send_queue, and a byte in the notifier pipe (src/src/notifier.c) makes  *)
(* the connection process hand the response to the client.                 *)
(*                                                                         *)
(* A response names its client by the address of a client_conn, a file     *)
(* descriptor and the pid of the connection process: all three are reused. *)
(* The queues are sequences, as Fifo says and ShmQueue implements.  Bytes  *)
(* are counted in pieces, Pieces of them to a request; responses are       *)
(* written whole.                                                          *)
(***************************************************************************)
EXTENDS Integers, Sequences, FiniteSets, FiniteSetsExt

CONSTANTS
    Conns,         \* TCP connections, each made once
    Addrs,         \* addresses malloc may return for a client_conn
    Fds,           \* file descriptors for clients, a set of naturals
    Workers,
    Pieces,        \* pieces of a request
    Requests,      \* bound: requests a peer sends on a connection
    Incarnations,  \* bound: connection processes, one after the other
    QueueCap,      \* messages each queue has room for
    PipeCap,       \* bytes the pipe has room for
    PipeRead,      \* bytes one notifier_read takes at most
    ClientLimit,   \* client_limit of verben.conf, 0 for none
    Pipelining,    \* the connections whose peers send on before they are answered
    Hooks,         \* results of the plugin's hooks: a subset of {"ok", "close", "error"}
    Greets,        \* does handle_open give a text to send? a subset of BOOLEAN
    Faults,        \* may malloc, epoll_ctl or the peer fail?
    Timeouts,      \* may server_cron find a client idle for too long?
    MortalWorkers, \* workers that may die
    Nil            \* a null pointer

ASSUME Bounds ==
    /\ Fds \subseteq Nat
    /\ {Pieces, Requests, Incarnations, QueueCap, PipeCap, PipeRead} \subseteq Nat \ {0}
    /\ ClientLimit \in Nat
    /\ Pipelining \subseteq Conns
    /\ {Faults, Timeouts} \subseteq BOOLEAN
    /\ Greets \subseteq BOOLEAN /\ Greets # {}
    /\ Hooks \subseteq {"ok", "close", "error"} /\ "ok" \in Hooks
    /\ MortalWorkers \subseteq Workers
    /\ Nil \notin Addrs

VARIABLES
    pid,       \* the connection process, numbered by incarnation
    draining,  \* is it in the loop of notifier_handler?
    client,    \* client[a]: the client_conn at address a, or Nil
    vec,       \* conn_vec: vec[fd] is the address of the client on fd, or Nil
    writable,  \* fds watched for AE_WRITABLE
    recvq, sendq, pipe,
    wpc, wmsg, \* where a worker is in its loop, the message it holds
    peer,      \* state of a connection: "away", "open", "left" (peer shut it), "closed"
    wire,      \* wire[k]: pieces sent by the peer and not read yet
    sent,      \* sent[k]: pieces the peer has sent
    got,       \* got[k]: the responses the peer has received, in order
    asked,     \* history: requests of k dispatched to the workers
    place,     \* history: <<address, fd, pid>> of k's client
    orphaned   \* history: a worker has died between its push and its
               \* notifier_write, and send_queue has not been empty since

net  == <<peer, wire, sent, got>>
proc == <<pid, draining, client, vec, writable>>
work == <<wpc, wmsg>>
hist == <<asked, place, orphaned>>
vars == <<proc, recvq, sendq, pipe, work, net, hist>>

-----------------------------------------------------------------------------
Message  == [addr : Addrs, fd : Fds, pid : 1 .. Incarnations, conn : Conns,
             n : Nat, close : BOOLEAN]
Response == [conn : Conns, n : Nat, close : BOOLEAN]
Client   == [fd : Fds, conn : Conns, close : BOOLEAN, need : {0, Pieces},
             recv : Nat, send : Seq(Response)]

ASSUME NilIsNoClient == Nil \notin Client

TypeOK ==
    /\ pid \in 1 .. Incarnations /\ draining \in BOOLEAN
    /\ client \in [Addrs -> Client \cup {Nil}]
    /\ vec \in [Fds -> Addrs \cup {Nil}]
    /\ writable \subseteq Fds
    /\ recvq \in Seq(Message) /\ Len(recvq) <= QueueCap
    /\ sendq \in Seq(Message) /\ Len(sendq) <= QueueCap
    /\ pipe \in 0 .. PipeCap
    /\ wpc \in [Workers -> {"pop", "process", "push", "notify"}]
    /\ wmsg \in [Workers -> Message \cup {Nil}]
    /\ peer \in [Conns -> {"away", "open", "left", "closed"}]
    /\ wire \in [Conns -> Nat]
    /\ sent \in [Conns -> 0 .. Requests * Pieces]
    /\ got \in [Conns -> Seq(Response)]
    /\ asked \in [Conns -> Nat]
    /\ place \in [Conns -> Addrs \X Fds \X (1 .. Incarnations) \cup {Nil}]
    /\ orphaned \in BOOLEAN

Init ==
    /\ pid = 1 /\ draining = FALSE
    /\ client = [a \in Addrs |-> Nil]
    /\ vec = [f \in Fds |-> Nil]
    /\ writable = {}
    /\ recvq = <<>> /\ sendq = <<>> /\ pipe = 0
    /\ wpc = [w \in Workers |-> "pop"]
    /\ wmsg = [w \in Workers |-> Nil]
    /\ peer = [k \in Conns |-> "away"]
    /\ wire = [k \in Conns |-> 0]
    /\ sent = [k \in Conns |-> 0]
    /\ got = [k \in Conns |-> <<>>]
    /\ asked = [k \in Conns |-> 0]
    /\ place = [k \in Conns |-> Nil]
    /\ orphaned = FALSE

Live == {a \in Addrs : client[a] # Nil}

\* shmq_push finds no room.
NeverFull(q) == FALSE    \* mutant of Full
Full(q) == Len(q) = QueueCap

-----------------------------------------------------------------------------
(* Peers *)

OwnAnswers(k) == {i \in DOMAIN got[k] : got[k][i].conn = k /\ got[k][i].n > 0}

\* A peer that does not pipeline finishes one request, waits for its
\* response, and starts the next.
MaySend(k) ==
    /\ sent[k] < Requests * Pieces
    /\ k \in Pipelining \/ sent[k] % Pieces # 0 \/ Cardinality(OwnAnswers(k)) = sent[k] \div Pieces

PeerSend(k) ==
    /\ peer[k] = "open"
    /\ MaySend(k)
    /\ sent' = [sent EXCEPT ![k] = @ + 1]
    /\ wire' = [wire EXCEPT ![k] = @ + 1]
    /\ UNCHANGED <<proc, recvq, sendq, pipe, work, peer, got, hist>>

PeerLeave(k) ==
    /\ Faults
    /\ peer[k] = "open"
    /\ peer' = [peer EXCEPT ![k] = "left"]
    /\ UNCHANGED <<proc, recvq, sendq, pipe, work, wire, sent, got, hist>>

-----------------------------------------------------------------------------
(* The event loop of the connection process: one handler at a time *)

\* vector_set_at(conn_vec, fd, NULL) for each fd
StillListed(fds) == vec    \* mutant of Unlisted
Unlisted(fds) == [f \in Fds |-> IF f \in fds THEN Nil ELSE vec[f]]

\* close_client of every client in gone: their fds and addresses may be
\* reused from here on.
CloseAll(gone) ==
    LET fds   == {client[a].fd : a \in gone}
        conns == {client[a].conn : a \in gone}
    IN
    /\ client' = [a \in Addrs |-> IF a \in gone THEN Nil ELSE client[a]]
    /\ vec' = Unlisted(fds)
    /\ writable' = writable \ fds
    /\ peer' = [k \in Conns |-> IF k \in conns THEN "closed" ELSE peer[k]]
    /\ wire' = [k \in Conns |-> IF k \in conns THEN 0 ELSE wire[k]]

Close(a) == CloseAll({a})

\* accept takes the lowest free descriptor, malloc any free address.
Accept(k, a, result, hello) ==
    LET fd   == Min({f \in Fds : vec[f] = Nil})
        text == IF hello THEN <<[conn |-> k, n |-> 0, close |-> result = "close"]>> ELSE <<>>
    IN
    /\ ~draining
    /\ peer[k] = "away"
    /\ client[a] = Nil
    /\ \E f \in Fds : vec[f] = Nil
    /\ ClientLimit = 0 \/ Cardinality(Live) < ClientLimit
    /\ client' = [client EXCEPT ![a] =
                     [fd |-> fd, conn |-> k, close |-> result = "close", need |-> 0,
                      recv |-> 0, send |-> text]]
    /\ vec' = [vec EXCEPT ![fd] = a]
    /\ writable' = IF hello THEN writable \cup {fd} ELSE writable
    /\ peer' = [peer EXCEPT ![k] = "open"]
    /\ place' = [place EXCEPT ![k] = <<a, fd, pid>>]
    /\ UNCHANGED <<pid, draining, recvq, sendq, pipe, work, wire, sent, got, asked, orphaned>>

\* The client is closed within the handler that accepted it: over
\* client_limit, turned away by handle_open, or for lack of resources.
AcceptRefused(k) ==
    /\ ~draining
    /\ peer[k] = "away"
    /\ \/ ClientLimit # 0 /\ Cardinality(Live) >= ClientLimit
       \/ "error" \in Hooks
       \/ Faults
    /\ peer' = [peer EXCEPT ![k] = "closed"]
    /\ UNCHANGED <<proc, recvq, sendq, pipe, work, wire, sent, got, hist>>

\* handle_input on a buffer of u pieces: 0 while the length is unknown.
HandleInput(u) == IF u < Pieces THEN {0, Pieces} ELSE {Pieces}

\* read returns u pieces; at most one request is taken from the buffer.
Read(a, u) ==
    LET c == client[a] IN
    /\ ~draining
    /\ c # Nil
    /\ u \in 1 .. wire[c.conn]
    /\ \E need \in IF c.need = 0 THEN HandleInput(c.recv + u) ELSE {c.need} :
        LET here == c.recv + u
            msg  == [addr |-> a, fd |-> c.fd, pid |-> pid, conn |-> c.conn,
                     n |-> asked[c.conn] + 1, close |-> FALSE]
        IN
        \/ /\ need = 0 \/ here < need
           /\ client' = [client EXCEPT ![a].recv = here, ![a].need = need]
           /\ wire' = [wire EXCEPT ![c.conn] = @ - u]
           /\ UNCHANGED <<vec, writable, recvq, peer, asked>>
        \/ /\ need # 0 /\ here >= need
           /\ ~Full(recvq)
           /\ recvq' = Append(recvq, msg)
           /\ asked' = [asked EXCEPT ![c.conn] = @ + 1]
           /\ client' = [client EXCEPT ![a].recv = here - need, ![a].need = 0]
           /\ wire' = [wire EXCEPT ![c.conn] = @ - u]
           /\ UNCHANGED <<vec, writable, peer>>
        \/ /\ need # 0 /\ here >= need
           /\ Full(recvq) \/ Faults
           /\ Close(a)
           /\ UNCHANGED <<recvq, asked>>
    /\ UNCHANGED <<pid, draining, sendq, pipe, work, sent, got, place, orphaned>>

\* End of file, a read or write error, or a length the plugin refuses.
Drop(a) ==
    /\ ~draining
    /\ client[a] # Nil
    /\ Faults
    /\ Close(a)
    /\ UNCHANGED <<pid, draining, recvq, sendq, pipe, work, sent, got, hist>>

\* server_cron closes the clients idle for more than client_timeout.
ServerCron(idle) ==
    /\ Timeouts
    /\ ~draining
    /\ idle # {} /\ idle \subseteq Live
    /\ CloseAll(idle)
    /\ UNCHANGED <<pid, draining, recvq, sendq, pipe, work, sent, got, hist>>

\* What stays in the buffer when i responses have been written.
Unchanged(send, i) == send    \* mutant of Rest
Rest(send, i) == SubSeq(send, i + 1, Len(send))

\* close_conn is set and the buffer is empty.
NeverCloses(c, i) == FALSE    \* mutant of Closes
Closes(c, i) == c.close /\ i = Len(c.send)

\* write takes the first i responses of the buffer.
Write(a, i) ==
    LET c == client[a] IN
    /\ ~draining
    /\ c # Nil
    /\ c.fd \in writable
    /\ i \in 0 .. Len(c.send)
    /\ got' = IF peer[c.conn] = "open"
              THEN [got EXCEPT ![c.conn] = @ \o SubSeq(c.send, 1, i)] ELSE got
    /\ \/ /\ Closes(c, i)
          /\ Close(a)
       \/ /\ ~Closes(c, i)
          /\ client' = [client EXCEPT ![a].send = Rest(@, i)]
          /\ writable' = IF i = Len(c.send) THEN writable \ {c.fd} ELSE writable
          /\ UNCHANGED <<vec, peer, wire>>
    /\ UNCHANGED <<pid, draining, recvq, sendq, pipe, work, sent, hist>>

notifier_read == pipe' = IF pipe > PipeRead THEN pipe - PipeRead ELSE 0

\* notifier_handler empties (part of) the pipe before it looks at the queue.
NotifierRead ==
    /\ ~draining
    /\ pipe > 0
    /\ notifier_read
    /\ draining' = TRUE
    /\ UNCHANGED <<pid, client, vec, writable, recvq, sendq, work, net, hist>>

\* Mutant of Accepts: pids are not compared.
AcceptsAnyPid(m) == vec[m.fd] = m.addr

\* Is the client the message names the one it was made for?
Accepts(m) == m.pid = pid /\ vec[m.fd] = m.addr

Discard ==
    /\ draining
    /\ sendq # <<>>
    /\ ~Accepts(Head(sendq))
    /\ sendq' = Tail(sendq)
    /\ UNCHANGED <<proc, recvq, pipe, work, net, hist>>

\* sdscatlen
BufferedFirst(send, r) == <<r>> \o send    \* mutant of Buffered
Buffered(send, r) == Append(send, r)

\* The response goes to the client's buffer, and AE_WRITABLE is asked for.
HandOver ==
    LET m == Head(sendq)
        c == client[m.addr]
    IN
    /\ draining
    /\ sendq # <<>>
    /\ Accepts(m)
    /\ sendq' = Tail(sendq)
    /\ \/ /\ client' = [client EXCEPT ![m.addr] =
                 [c EXCEPT !.close = m.close,
                           !.send = Buffered(@, [conn |-> m.conn, n |-> m.n, close |-> m.close])]]
          /\ writable' = writable \cup {c.fd}
          /\ UNCHANGED <<vec, peer, wire>>
       \/ Faults /\ Close(m.addr)
    /\ UNCHANGED <<pid, draining, recvq, pipe, work, sent, got, hist>>

\* Mutant of Drained: the loop may end before the queue is empty.
DrainedEarly ==
    /\ draining
    /\ draining' = FALSE
    /\ UNCHANGED <<pid, client, vec, writable, recvq, sendq, pipe, work, net, hist>>

Drained ==
    /\ draining
    /\ sendq = <<>>
    /\ draining' = FALSE
    /\ orphaned' = FALSE
    /\ UNCHANGED <<pid, client, vec, writable, recvq, sendq, pipe, work, net, asked, place>>

\* The connection process dies; the master forks another.  Its sockets are
\* gone, the queues and the pipe stay.
ConnDies ==
    /\ pid < Incarnations
    /\ pid' = pid + 1
    /\ draining' = FALSE
    /\ client' = [a \in Addrs |-> Nil]
    /\ vec' = [f \in Fds |-> Nil]
    /\ writable' = {}
    /\ peer' = [k \in Conns |-> IF peer[k] = "away" THEN "away" ELSE "closed"]
    /\ wire' = [k \in Conns |-> 0]
    /\ UNCHANGED <<recvq, sendq, pipe, work, sent, got, hist>>

-----------------------------------------------------------------------------
(* Workers *)

Goto(w, step) == wpc' = [wpc EXCEPT ![w] = step]

WorkerPop(w) ==
    /\ wpc[w] = "pop"
    /\ recvq # <<>>
    /\ wmsg' = [wmsg EXCEPT ![w] = Head(recvq)]
    /\ recvq' = Tail(recvq)
    /\ Goto(w, "process")
    /\ UNCHANGED <<proc, sendq, pipe, net, hist>>

\* handle_process: VERBEN_CONN_CLOSE and VERBEN_ERROR ask for a close.
WorkerProcess(w, result) ==
    /\ wpc[w] = "process"
    /\ wmsg' = [wmsg EXCEPT ![w].close = result # "ok"]
    /\ Goto(w, "push")
    /\ UNCHANGED <<proc, recvq, sendq, pipe, net, hist>>

WorkerPush(w) ==
    /\ wpc[w] = "push"
    /\ ~Full(sendq)
    /\ sendq' = Append(sendq, wmsg[w])
    /\ wmsg' = [wmsg EXCEPT ![w] = Nil]
    /\ Goto(w, "notify")
    /\ UNCHANGED <<proc, recvq, pipe, net, hist>>

\* A full pipe makes the write fail, and needs no more bytes.
notifier_write == pipe' = IF pipe < PipeCap THEN pipe + 1 ELSE pipe

WorkerNotify(w) ==
    /\ wpc[w] = "notify"
    /\ notifier_write
    /\ Goto(w, "pop")
    /\ UNCHANGED <<proc, recvq, sendq, wmsg, net, hist>>

\* A worker dies (or is told to quit while it waits to push) and is replaced.
WorkerDies(w) ==
    /\ w \in MortalWorkers
    /\ wpc[w] # "pop"
    /\ orphaned' = (orphaned \/ wpc[w] = "notify")
    /\ wmsg' = [wmsg EXCEPT ![w] = Nil]
    /\ Goto(w, "pop")
    /\ UNCHANGED <<proc, recvq, sendq, pipe, net, asked, place>>

-----------------------------------------------------------------------------
Serve(a) == \/ \E u \in 1 .. Requests * Pieces : Read(a, u)
            \/ \E i \in 0 .. Cardinality(Conns) * (Requests + 1) : Write(a, i)

Next ==
    \/ \E k \in Conns : PeerSend(k) \/ PeerLeave(k) \/ AcceptRefused(k)
    \/ \E k \in Conns, a \in Addrs, result \in Hooks \ {"error"}, hello \in Greets :
           Accept(k, a, result, hello)
    \/ \E a \in Addrs : Serve(a) \/ Drop(a)
    \/ \E idle \in SUBSET Live : ServerCron(idle)
    \/ NotifierRead \/ Discard \/ HandOver \/ Drained \/ ConnDies
    \/ \E w \in Workers : \/ WorkerPop(w) \/ WorkerPush(w) \/ WorkerNotify(w) \/ WorkerDies(w)
                          \/ \E result \in Hooks : WorkerProcess(w, result)

Spec == Init /\ [][Next]_vars

\* epoll reports every ready descriptor, so a ready handler is run again and
\* again; a worker that can go on does; a peer finishes what it has begun.
Fairness ==
    /\ \A k \in Conns : WF_vars(PeerSend(k) /\ sent[k] % Pieces # 0)
    /\ \A a \in Addrs : /\ SF_vars(\E u \in 1 .. Requests * Pieces : Read(a, u) /\ wire'[client[a].conn] = 0)
                        /\ SF_vars(client[a] # Nil /\ Write(a, Len(client[a].send)))
    /\ SF_vars(NotifierRead) /\ WF_vars(Discard) /\ WF_vars(HandOver) /\ WF_vars(Drained)
    /\ \A w \in Workers : /\ SF_vars(WorkerPop(w)) /\ SF_vars(WorkerPush(w)) /\ WF_vars(WorkerNotify(w))
                          /\ WF_vars(\E result \in Hooks : WorkerProcess(w, result))

FairSpec == Spec /\ Fairness

-----------------------------------------------------------------------------
(* Properties *)

\* conn_vec, the client structures and the event masks always agree: nothing
\* names a client_conn that close_client (conn.c:54) has freed.
NoDangling ==
    /\ \A f \in Fds : vec[f] # Nil => client[vec[f]] # Nil /\ client[vec[f]].fd = f
    /\ \A a \in Live : vec[client[a].fd] = a
    /\ \A a \in Live : (client[a].send # <<>>) <=> (client[a].fd \in writable)

\* A response of the present connection process that waits in send_queue has
\* a wake-up on its way, unless a worker died before it wrote one: the order
\* of notifier_read and shmq_pop (conn.c:324-329) loses none.
NoLostWakeup ==
    (\E i \in DOMAIN sendq : sendq[i].pid = pid) =>
        pipe > 0 \/ draining \/ orphaned \/ \E w \in Workers : wpc[w] = "notify"

\* A response reaches a connection it is not for only if the one it is for was
\* closed before it came, and that connection's client took the address, the
\* descriptor and the connection process of the closed one's: the checks of
\* conn.c:342 and 350 let nothing else through.
OnlyTwinsMixedUp ==
    \A k \in Conns : \A i \in DOMAIN got[k] : LET l == got[k][i].conn IN
        l # k => peer[l] = "closed" /\ place[l] = place[k]

\* No response is received twice, whatever dies.
NoDuplicates ==
    \A k, l \in Conns : \A i \in DOMAIN got[k], j \in DOMAIN got[l] :
        got[k][i].conn = got[l][j].conn /\ got[k][i].n = got[l][j].n => k = l /\ i = j

\* A connection gets the responses to its own requests in their order.
InOrder ==
    \A k \in Conns : \A i, j \in OwnAnswers(k) : i < j => got[k][i].n < got[k][j].n

\* The comment of conn.c:347: a message let through is for that client.
RightClient == \A k \in Conns : \A i \in DOMAIN got[k] : got[k][i].conn = k

\* The comment of worker.c:81: a response sent with close_conn is followed by
\* the close of its connection.  The write that hands it to the peer closes it
\* at once, if its peer does not pipeline.
CloseFollows ==
    \A a \in Live : LET k == client[a].conn IN
        k \notin Pipelining => \A i \in OwnAnswers(k) : ~got[k][i].close

\* The comment of conn.c:133: a request that has arrived whole is dispatched.
WholeIsDispatched ==
    \A k \in Conns : sent[k] >= Pieces * Requests ~> asked[k] = Requests \/ peer[k] = "closed"

\* Every request of a peer that does not pipeline is answered, or its
\* connection closed.
Answered ==
    \A k \in Conns \ Pipelining : \A n \in 1 .. Requests :
        sent[k] = n * Pieces ~> Cardinality(OwnAnswers(k)) >= n \/ peer[k] = "closed"
=============================================================================
