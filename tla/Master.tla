------------------------------- MODULE Master -------------------------------
(***************************************************************************)
(* The master process of verben (src/src/verben.c): it forks a connection  *)
(* process and the workers, respawns a child that exits, and shuts the     *)
(* daemon down on SIGQUIT or SIGTERM.  SIGCHLD, SIGINT and SIGQUIT are     *)
(* blocked except in sigsuspend; SIGTERM never is.                         *)
(*                                                                         *)
(* A child tells what a SIGTERM is for by its vb_process, which it         *)
(* inherits from the master and sets only when its own code begins         *)
(* (worker.c:27, conn.c:387).                                              *)
(***************************************************************************)
EXTENDS Integers, FiniteSets

CONSTANTS
    WorkerNum,     \* worker_num of verben.conf
    InitMayFail,   \* may handle_init fail in a child?
    Strangers,     \* may SIGTERM come from outside, once, to the master or a child?
    MaxCrashes,    \* bound: children that crash
    MaxForkFails   \* bound: forks that fail

ASSUME MasterAssumption ==
    /\ {WorkerNum, MaxCrashes, MaxForkFails} \subseteq Nat
    /\ {InitMayFail, Strangers} \subseteq BOOLEAN

Slots == 1 .. WorkerNum + 1

VARIABLES
    mpc,      \* where the master is
    task,     \* who called spawn_process: "create" or "reap"
    at,       \* the loop index of create_processes and of reap_children
    slot,     \* vb_process_slot
    last,     \* vb_last_process: slots 1 .. last are in use
    table,    \* vb_processes: what each slot runs and whether it is known to have exited
    live,     \* what reap_children returned
    vb_reap, vb_quit,
    pending,  \* blocked signals waiting for the master
    child,    \* the process in each slot, as it really is
    quit,     \* vb_quit of each child
    wquit,    \* vb_worker_quit of each child
    term,     \* children with a SIGTERM to take
    status,   \* how the last process of a slot ended
    early,    \* history: a worker had vb_quit set before it was a worker
    crashes, forkFails, strange

master  == <<mpc, task, at, slot, last, table, live, vb_reap, vb_quit>>
flags   == <<quit, wquit, term>>
bounds  == <<crashes, forkFails, strange>>
vars    == <<master, pending, child, flags, status, early, bounds>>

Alive == {s \in Slots : child[s] \in {"born", "init", "failing", "run"}}

TypeOK ==
    /\ mpc \in {"create", "fork", "record", "suspend", "woken", "reap", "decide", "gone"}
    /\ task \in {"create", "reap"}
    /\ at \in 1 .. WorkerNum + 2
    /\ slot \in Slots /\ last \in 0 .. WorkerNum + 1
    /\ table \in [Slots -> [proc : {"conn", "worker"}, exited : BOOLEAN]]
    /\ live \in BOOLEAN /\ vb_reap \in BOOLEAN /\ vb_quit \in BOOLEAN
    /\ early \in BOOLEAN /\ strange \in BOOLEAN
    /\ pending \subseteq {"QUIT", "CHLD"}
    /\ child \in [Slots -> {"none", "born", "init", "failing", "run", "zombie"}]
    /\ quit \in [Slots -> BOOLEAN] /\ wquit \in [Slots -> BOOLEAN]
    /\ term \subseteq Alive
    /\ status \in [Slots -> {"none", "crash", "failed", "clean"}]
    /\ crashes \in 0 .. MaxCrashes /\ forkFails \in 0 .. MaxForkFails

Init ==
    /\ mpc = "create" /\ task = "create"
    /\ at = 1 /\ slot = 1 /\ last = 0
    /\ table = [s \in Slots |-> [proc |-> "worker", exited |-> FALSE]]
    /\ live = TRUE /\ vb_reap = FALSE /\ vb_quit = FALSE
    /\ pending = {}
    /\ child = [s \in Slots |-> "none"]
    /\ quit = [s \in Slots |-> FALSE] /\ wquit = [s \in Slots |-> FALSE]
    /\ term = {}
    /\ status = [s \in Slots |-> "none"]
    /\ early = FALSE /\ strange = FALSE
    /\ crashes = 0 /\ forkFails = 0

-----------------------------------------------------------------------------
(* Signals of the master *)

\* process_get_status: every child waited for is looked up in the table,
\* which names a child only once its pid has been recorded.
Collect(zombies) ==
    /\ child' = [s \in Slots |-> IF s \in zombies THEN "none" ELSE child[s]]
    /\ table' = [s \in Slots |->
          IF s \in zombies /\ s <= last /\ ~(mpc = "record" /\ s = slot)
          THEN [table[s] EXCEPT !.exited = TRUE] ELSE table[s]]

\* Are SIGCHLD and SIGQUIT blocked?
Unmasked == FALSE    \* mutant of Masked: no sigprocmask
Masked == mpc # "suspend"

Wakes == mpc' = IF mpc = "suspend" THEN "woken" ELSE mpc

\* All the pending signals are delivered before sigsuspend returns.
TakeSignals ==
    /\ ~Masked /\ mpc # "gone"
    /\ pending # {}
    /\ pending' = {}
    /\ vb_quit' = (vb_quit \/ "QUIT" \in pending)
    /\ vb_reap' = (vb_reap \/ "CHLD" \in pending)
    /\ Collect(IF "CHLD" \in pending THEN {s \in Slots : child[s] = "zombie"} ELSE {})
    /\ Wakes
    /\ UNCHANGED <<task, at, slot, last, live, flags, status, early, bounds>>

\* SIGTERM from outside; it is never blocked.
TermMaster ==
    /\ Strangers /\ ~strange
    /\ mpc # "gone"
    /\ strange' = TRUE
    /\ vb_quit' = TRUE
    /\ Wakes
    /\ UNCHANGED <<task, at, slot, last, table, live, vb_reap, pending, child, flags, status,
                   early, crashes, forkFails>>

\* verben stop
Stop ==
    /\ mpc # "gone"
    /\ pending' = pending \cup {"QUIT"}
    /\ UNCHANGED <<master, child, flags, status, early, bounds>>

-----------------------------------------------------------------------------
(* The master *)

\* children to create
OneMore == WorkerNum + 2    \* mutant of Total
Total == WorkerNum + 1

\* create_processes: the connection process, then the workers, each in the
\* first slot that is free.
Create ==
    /\ mpc = "create"
    /\ IF at <= Total THEN mpc' = "fork" /\ slot' = last + 1
                              ELSE mpc' = "suspend" /\ slot' = slot
    /\ UNCHANGED <<task, at, last, table, live, vb_reap, vb_quit, pending, child, flags, status,
                   early, bounds>>

Kind == IF task = "reap" THEN table[slot].proc ELSE IF at = 1 THEN "conn" ELSE "worker"

\* fork: the child has the flags of the master.
Fork ==
    /\ mpc = "fork"
    /\ mpc' = "record"
    /\ child' = [child EXCEPT ![slot] = "born"]
    /\ quit' = [quit EXCEPT ![slot] = vb_quit]
    /\ wquit' = [wquit EXCEPT ![slot] = FALSE]
    /\ early' = (early \/ (vb_quit /\ Kind = "worker"))
    /\ UNCHANGED <<task, at, slot, last, table, live, vb_reap, vb_quit, pending, term, status, bounds>>

\* create_processes and reap_children both go on with the next one.
ForkFails ==
    /\ mpc = "fork"
    /\ forkFails < MaxForkFails
    /\ forkFails' = forkFails + 1
    /\ mpc' = task
    /\ at' = at + 1
    /\ UNCHANGED <<task, slot, last, table, live, vb_reap, vb_quit, pending, child, flags, status,
                   early, crashes, strange>>

Record ==
    /\ mpc = "record"
    /\ table' = [table EXCEPT ![slot] = [proc |-> Kind, exited |-> FALSE]]
    /\ last' = IF slot > last THEN slot ELSE last
    /\ live' = (live \/ task = "reap")
    /\ mpc' = task
    /\ at' = at + 1
    /\ UNCHANGED <<task, slot, vb_reap, vb_quit, pending, child, flags, status, early, bounds>>

\* After sigsuspend.
Woken ==
    /\ mpc = "woken"
    /\ IF vb_reap
       THEN mpc' = "reap" /\ task' = "reap" /\ at' = 1 /\ live' = FALSE /\ vb_reap' = FALSE
       ELSE mpc' = "decide" /\ UNCHANGED <<task, at, live, vb_reap>>
    /\ UNCHANGED <<slot, last, table, vb_quit, pending, child, flags, status, early, bounds>>

\* reap_children: every child is a respawning one, and none is exiting.
Reap ==
    /\ mpc = "reap"
    /\ \/ /\ at > last
          /\ mpc' = "decide"
          /\ UNCHANGED <<at, slot, live>>
       \/ /\ at <= last /\ ~table[at].exited
          /\ live' = TRUE
          /\ at' = at + 1
          /\ UNCHANGED <<mpc, slot>>
       \/ /\ at <= last /\ table[at].exited /\ vb_quit
          /\ at' = at + 1
          /\ UNCHANGED <<mpc, slot, live>>
       \/ /\ at <= last /\ table[at].exited /\ ~vb_quit
          /\ mpc' = "fork"
          /\ slot' = at
          /\ UNCHANGED <<at, live>>
    /\ UNCHANGED <<task, last, table, vb_reap, vb_quit, pending, child, flags, status, early, bounds>>

\* The master may exit.
Hurry == vb_quit    \* mutant of Over: it waits for nobody
Over == vb_quit /\ ~live

\* Exit when no child is left, or tell the children to: kill(0, SIGTERM).
Decide ==
    /\ mpc = "decide"
    /\ mpc' = IF Over THEN "gone" ELSE "suspend"
    /\ term' = IF vb_quit /\ live THEN Alive ELSE term
    /\ UNCHANGED <<task, at, slot, last, table, live, vb_reap, vb_quit, pending, child, quit, wquit,
                   status, early, bounds>>

-----------------------------------------------------------------------------
(* The children *)

\* kind of the process really running in slot s
Proc(s) == IF mpc = "record" /\ s = slot THEN Kind ELSE table[s].proc

\* Mutant of TakeTerm: the handler of a worker does not set vb_worker_quit.
TakeTermWeakly(s) ==
    /\ s \in term
    /\ term' = term \ {s}
    /\ quit' = [quit EXCEPT ![s] = TRUE]
    /\ early' = (early \/ (Proc(s) = "worker" /\ child[s] = "born"))
    /\ UNCHANGED <<master, pending, child, wquit, status, bounds>>

\* The handler acts as vb_process says: as the master's while the child is "born".
TakeTerm(s) ==
    /\ s \in term
    /\ term' = term \ {s}
    /\ quit' = [quit EXCEPT ![s] = TRUE]
    /\ wquit' = [wquit EXCEPT ![s] = @ \/ (Proc(s) = "worker" /\ child[s] # "born" /\ ~quit[s])]
    /\ early' = (early \/ (Proc(s) = "worker" /\ child[s] = "born"))
    /\ UNCHANGED <<master, pending, child, status, bounds>>

TermChild(s) ==
    /\ Strangers /\ ~strange
    /\ s \in Alive
    /\ strange' = TRUE
    /\ term' = term \cup {s}
    /\ UNCHANGED <<master, pending, child, quit, wquit, status, early, crashes, forkFails>>

Step(s, from, to) ==
    /\ child[s] = from
    /\ child' = [child EXCEPT ![s] = to]

Begin(s) ==
    /\ Step(s, "born", "init")
    /\ UNCHANGED <<master, pending, flags, status, early, bounds>>

InitOk(s) ==
    /\ Step(s, "init", "run")
    /\ UNCHANGED <<master, pending, flags, status, early, bounds>>

\* Mutant of InitFails: the child exits without a word to the master.
InitFailsQuietly(s) ==
    /\ InitMayFail
    /\ Step(s, "init", "failing")
    /\ UNCHANGED <<master, pending, flags, status, early, bounds>>

\* kill(getppid(), SIGQUIT), then exit(0)
InitFails(s) ==
    /\ InitMayFail
    /\ Step(s, "init", "failing")
    /\ pending' = pending \cup {"QUIT"}
    /\ UNCHANGED <<master, flags, status, early, bounds>>

Dies(s, how) ==
    /\ child' = [child EXCEPT ![s] = "zombie"]
    /\ status' = [status EXCEPT ![s] = how]
    /\ term' = term \ {s}
    /\ pending' = pending \cup {"CHLD"}

GiveUp(s) ==
    /\ child[s] = "failing"
    /\ Dies(s, "failed")
    /\ UNCHANGED <<master, quit, wquit, early, bounds>>

\* The loops of ae_main and of worker_process_cycle end.
Leave(s) ==
    /\ child[s] = "run"
    /\ IF Proc(s) = "conn" THEN quit[s] ELSE wquit[s]
    /\ Dies(s, "clean")
    /\ UNCHANGED <<master, quit, wquit, early, bounds>>

Crash(s) ==
    /\ s \in Alive
    /\ crashes < MaxCrashes
    /\ crashes' = crashes + 1
    /\ Dies(s, "crash")
    /\ UNCHANGED <<master, quit, wquit, early, forkFails, strange>>

-----------------------------------------------------------------------------
Next ==
    \/ TakeSignals \/ TermMaster \/ Stop
    \/ Create \/ Fork \/ ForkFails \/ Record \/ Woken \/ Reap \/ Decide
    \/ \E s \in Slots : \/ TakeTerm(s) \/ TermChild(s) \/ Begin(s) \/ InitOk(s) \/ InitFails(s)
                        \/ GiveUp(s) \/ Leave(s) \/ Crash(s)

Spec == Init /\ [][Next]_vars

\* The kernel runs every process; handle_init returns.
Fairness ==
    /\ WF_vars(TakeSignals) /\ WF_vars(Create) /\ WF_vars(Fork \/ ForkFails) /\ WF_vars(Record)
    /\ WF_vars(Woken) /\ WF_vars(Reap) /\ WF_vars(Decide)
    /\ \A s \in Slots : /\ WF_vars(TakeTerm(s)) /\ WF_vars(Begin(s)) /\ WF_vars(InitOk(s) \/ InitFails(s))
                        /\ WF_vars(GiveUp(s)) /\ WF_vars(Leave(s))

FairSpec == Spec /\ Fairness

-----------------------------------------------------------------------------
(* Properties *)

\* The master frees the queues and removes the pid file (verben.c:458-468)
\* only when no child is left to use them.
LeavesNobody == mpc = "gone" => \A s \in Slots : child[s] = "none"

\* A child the master has lost sight of would never be respawned, or never
\* let the master exit: the blocked SIGCHLD (verben.c:408) prevents it.
KeepsTrack ==
    \A s \in 1 .. last :
        ~(mpc = "record" /\ s = slot) => (table[s].exited <=> child[s] = "none")

\* A child whose handle_init failed is not respawned: its SIGQUIT
\* (worker.c:33) is taken before its SIGCHLD.
FailedStaysDown ==
    [][\A s \in Slots : child[s] = "none" /\ child'[s] = "born" => status[s] # "failed"]_vars

\* Told to quit, the daemon ends, unless a worker was told before it was a
\* worker (verben.c:163), or no child was ever forked.
StopEnds == vb_quit ~> mpc = "gone" \/ early \/ last = 0

\* The comment of verben.c:442: the master spawns a process again when a
\* child has aborted.
RunsAgain == \A s \in Slots : child[s] = "zombie" ~> child[s] = "run" \/ vb_quit

\* plugin.h:12: when handle_init fails, the daemon exits.
InitFailureEnds == (\E s \in Slots : status[s] = "failed") ~> mpc = "gone"
=============================================================================
