-------------------------------- MODULE Fifo --------------------------------
(***************************************************************************)
(* What src/inc/shmq.h promises to the processes that share a queue:       *)
(* shmq_push appends a message, shmq_pop hands the oldest message to one   *)
(* caller.  A process that dies or finishes forgets what it was handed.    *)
(***************************************************************************)
EXTENDS Sequences

CONSTANTS Consumers, Msgs, NoMsg

VARIABLES
    queue,    \* the messages pushed and not yet popped, oldest first
    taken     \* taken[c]: the message a pop is returning to c, or NoMsg

vars == <<queue, taken>>

TypeOK == /\ queue \in Seq(Msgs)
          /\ taken \in [Consumers -> Msgs \cup {NoMsg}]

Init == /\ queue = <<>>
        /\ taken = [c \in Consumers |-> NoMsg]

Push(m) == /\ queue' = Append(queue, m)
           /\ UNCHANGED taken

Pop(c) == /\ queue # <<>>
          /\ taken[c] = NoMsg
          /\ taken' = [taken EXCEPT ![c] = Head(queue)]
          /\ queue' = Tail(queue)

Forget(c) == /\ taken[c] # NoMsg
             /\ taken' = [taken EXCEPT ![c] = NoMsg]
             /\ UNCHANGED queue

Next == \/ \E m \in Msgs : Push(m)
        \/ \E c \in Consumers : Pop(c) \/ Forget(c)

Spec == Init /\ [][Next]_vars
=============================================================================
