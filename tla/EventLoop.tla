------------------------------ MODULE EventLoop ------------------------------
(***************************************************************************)
(* The event loop of the connection process: src/src/ae.c over             *)
(* src/src/ae_epoll.c, with the handlers that src/src/conn.c registers.    *)
(* Where Server takes any ready handler as the next step, here a round     *)
(* goes through the descriptors that one epoll_wait has reported, whatever *)
(* the handlers run before have closed or accepted since, and then runs    *)
(* server_cron if it is due.  Queues and bytes are left to Server.         *)
(*                                                                         *)
(* Time is counted in ticks of one second, the grain of time(NULL) and     *)
(* the period of server_cron.  Instants are kept as ages, capped.          *)
(***************************************************************************)
EXTENDS Integers, FiniteSets, FiniteSetsExt

CONSTANTS
    Timeout,   \* client_timeout of verben.conf, in seconds
    Limit,     \* client_limit of verben.conf, 0 for none
    SetSize,   \* AE_SETSIZE: descriptors from SetSize on are refused
    Delay,     \* bound: ticks that pass in one round outside epoll_wait
    Backlog    \* bound: connections waiting to be accepted

ASSUME Bounds ==
    /\ {Timeout, Delay, Backlog} \subseteq Nat \ {0} /\ Limit \in Nat
    /\ SetSize \in Nat /\ SetSize > 2

Notifier  == 0                  \* the read end of the notifier pipe
Listen    == 1                  \* listen_fd
ClientFds == 2 .. SetSize - 1
Fds       == 0 .. SetSize - 1
Unset     == -1                 \* of unix_clock: server_cron has not run yet
None      == -1                 \* no descriptor
NoTimer   == 2                  \* the list of timers is empty

\* Bounds: older than that is as old.
OldAccess == Timeout + 1
Epoch     == OldAccess + 1    \* older than any time
OldIdle   == Timeout + 2 * Delay + 1

VARIABLES
    phase,     \* "top": about to test *quit; "poll": on the way to or in epoll_wait;
               \* "files", "times": in the loops over fired and over the timers; "ended"
    quit,      \* vb_quit, set by SIGTERM
    mask,      \* events[fd].mask, a set of "r" and "w"
    owner,     \* events[fd].client_data: "none", "live", or "freed" (a client_conn that is gone)
    interest,  \* the events the epoll set has for fd
    maxfd,
    fired,     \* what epoll_wait reported for fd and is not yet dealt with
    at,        \* the fd between its AE_READABLE and its AE_WRITABLE handler
    open,      \* descriptors of clients
    waiting,   \* descriptors of clients where a read would find data, the end or an error
    notified, backlog,   \* what the pipe and the listening socket hold
    left,      \* ticks until server_cron is due, or NoTimer
    lag,       \* age of unix_clock, or Unset
    age,       \* age[fd]: age of access_time, Epoch when that is 0
    idle,      \* history: age of the client's last read, write or accept
    spent      \* ticks in this round so far

table == <<mask, owner, interest, maxfd>>
world == <<open, waiting, notified, backlog>>
time  == <<left, lag, age, idle, spent>>
vars  == <<phase, quit, table, fired, at, world, time>>

Events == SUBSET {"r", "w"}

TypeOK ==
    /\ phase \in {"top", "poll", "files", "times", "ended"} /\ quit \in BOOLEAN
    /\ mask \in [Fds -> Events] /\ interest \in [Fds -> Events] /\ fired \in [Fds -> Events]
    /\ owner \in [Fds -> {"none", "live", "freed"}]
    /\ maxfd \in Fds \cup {None} /\ at \in Fds \cup {None}
    /\ open \subseteq ClientFds
    /\ waiting \subseteq open
    /\ notified \in BOOLEAN /\ backlog \in 0 .. Backlog
    /\ left \in {0, 1, NoTimer} /\ lag \in (0 .. OldAccess) \cup {Unset} /\ spent \in 0 .. Delay
    /\ age \in [ClientFds -> 0 .. Epoch] /\ idle \in [ClientFds -> 0 .. OldIdle]

\* conn_process_cycle registers the pipe, the listening socket and a timer
\* that is due after a millisecond.
Init ==
    /\ phase = "top" /\ quit = FALSE
    /\ mask = [fd \in Fds |-> IF fd \in {Notifier, Listen} THEN {"r"} ELSE {}]
    /\ interest = mask
    /\ owner = [fd \in Fds |-> "none"]
    /\ maxfd = Listen
    /\ fired = [fd \in Fds |-> {}] /\ at = None
    /\ open = {} /\ waiting = {}
    /\ notified = FALSE /\ backlog = 0
    /\ left \in 0 .. 1 /\ lag = Unset /\ spent = 0
    /\ age = [fd \in ClientFds |-> 0] /\ idle = age

-----------------------------------------------------------------------------
(* The table of file events *)

Registered(m) == {fd \in DOMAIN m : m[fd] # {}}
Highest(m)    == IF Registered(m) = {} THEN None ELSE Max(Registered(m))

\* ae_create_file_event of events evs for each fd in watched, and
\* ae_delete_file_event of both events for each fd in gone.  (The deletion of
\* conn.c:58 may leave AE_WRITABLE, the one that follows does not.)
Masks(watched, evs, gone) ==
    [fd \in Fds |-> CASE fd \in gone    -> {}
                      [] fd \in watched -> mask[fd] \cup evs
                      [] OTHER          -> mask[fd]]

\* el->maxfd when the masks have become new.
NeverLower(watched, gone, new) == Max(watched \cup {maxfd})    \* mutant of MaxFd
MaxFd(watched, gone, new) == IF maxfd \in gone THEN Highest(new) ELSE Max(watched \cup {maxfd})

\* epoll_ctl is told the whole new mask of a descriptor.
Retable(watched, evs, gone) ==
    LET new == Masks(watched, evs, gone) IN
    /\ mask' = new
    /\ interest' = [fd \in Fds |-> IF fd \in watched \cup gone THEN new[fd] ELSE interest[fd]]
    /\ maxfd' = MaxFd(watched, gone, new)
    /\ owner' = [fd \in Fds |-> CASE fd \in gone    -> "freed"
                                  [] fd \in watched -> "live"
                                  [] OTHER          -> owner[fd]]

\* ae_create_file_event for the clients on watched; close_client of those on
\* gone: their descriptors are free from here on, and what
\* events[fd].client_data points to is too.
WatchAndClose(watched, evs, gone) ==
    /\ Retable(watched, evs, gone)
    /\ open' = open \ gone
    /\ waiting' = waiting \ gone
    /\ age' = [fd \in ClientFds |-> IF fd \in gone THEN 0 ELSE age[fd]]
    /\ idle' = [fd \in ClientFds |-> IF fd \in gone THEN 0 ELSE idle[fd]]

Close(gone) == WatchAndClose({}, {}, gone)

-----------------------------------------------------------------------------
(* One round: ae_main and ae_process_events *)

\* ae_main's while (!*quit), and how long epoll_wait may sleep.
Top ==
    /\ phase = "top"
    /\ phase' = IF quit THEN "ended" ELSE "poll"
    /\ spent' = 0
    /\ UNCHANGED <<quit, table, fired, at, world, left, lag, age, idle>>

\* The kernel's view of a descriptor; a client can always be written to,
\* or the write fails at once.
Ready(fd) ==
    CASE fd = Notifier -> IF notified THEN {"r"} ELSE {}
      [] fd = Listen   -> IF backlog > 0 THEN {"r"} ELSE {}
      [] fd \in open   -> IF fd \in waiting THEN {"r", "w"} ELSE {"w"}
      [] OTHER         -> {}

Reported == [fd \in Fds |-> interest[fd] \cap Ready(fd)]

\* epoll_wait returns what is ready, or nothing when the timer is due.
Poll ==
    /\ phase = "poll"
    /\ left = 0 \/ Registered(Reported) # {}
    /\ fired' = Reported
    /\ phase' = "files"
    /\ UNCHANGED <<quit, table, at, world, time>>

\* It is ev's turn on fd: the readable handler of a descriptor comes right
\* before its writable one; descriptors come in any order.
Turn(fd, ev) ==
    /\ phase = "files"
    /\ at \in {None, fd}
    /\ ev \in fired[fd]
    /\ ev = "w" => "r" \notin fired[fd]
    /\ fired' = [fired EXCEPT ![fd] = @ \ {ev}]
    /\ at' = IF fired[fd] = {ev} THEN None ELSE fd
    /\ UNCHANGED <<phase, quit>>

\* The event is not asked for any more.
NeverStale(fd, ev) == FALSE    \* mutant of Stale: fe->mask is not looked at
Stale(fd, ev) == ev \notin mask[fd]

Skip(fd, ev) ==
    /\ Turn(fd, ev)
    /\ Stale(fd, ev)
    /\ UNCHANGED <<table, world, time>>

Handle(fd, ev) == Turn(fd, ev) /\ ~Stale(fd, ev)

\* Mutant of FilesDone: the loop over fired ends too early.
FilesLeft ==
    /\ phase = "files"
    /\ at = None
    /\ phase' = "times"
    /\ UNCHANGED <<quit, table, fired, at, world, time>>

FilesDone ==
    /\ phase = "files"
    /\ Registered(fired) = {}
    /\ phase' = "times"
    /\ UNCHANGED <<quit, table, fired, at, world, time>>

-----------------------------------------------------------------------------
(* The handlers of conn.c *)

\* The access_time of the client on fd becomes the one with the given age.
Touch(fd, access) ==
    /\ age' = [age EXCEPT ![fd] = access]
    /\ idle' = [idle EXCEPT ![fd] = 0]

\* access_time = unix_clock
Accessed(fd) == Touch(fd, IF lag = Unset THEN Epoch ELSE lag)

LowestFree == Min((2 .. SetSize) \ open)

\* ae_create_file_event accepts the descriptor.
FitsToo(fd) == fd <= SetSize    \* mutant of Fits
Fits(fd) == fd < SetSize

\* The new client stays; with a text from handle_open it is watched for
\* AE_WRITABLE too.
Accept ==
    LET fd == LowestFree IN
    /\ Handle(Listen, "r")
    /\ Fits(fd)
    /\ Limit = 0 \/ Cardinality(open) < Limit
    /\ \E evs \in {{"r"}, {"r", "w"}} : Retable({fd}, evs, {})
    /\ open' = open \cup {fd}
    /\ backlog' = backlog - 1
    /\ Touch(fd, IF lag = Unset THEN 0 ELSE lag)
    /\ UNCHANGED <<waiting, notified, left, lag, spent>>

\* It is closed within the handler: no room in events, over client_limit,
\* turned away by handle_open, or no memory.  A client_conn that was
\* registered leaves its address in events[fd].
AcceptRefused ==
    LET fd == LowestFree IN
    /\ Handle(Listen, "r")
    /\ backlog' = backlog - 1
    /\ owner' = IF Fits(fd) THEN [owner EXCEPT ![fd] = "freed"] ELSE owner
    /\ UNCHANGED <<mask, interest, maxfd, open, waiting, notified, time>>

\* notifier_handler hands responses to the clients in answered; those in
\* failed are closed, as ae_create_file_event failed.
NotifierHandler(answered, failed) ==
    /\ Handle(Notifier, "r")
    /\ notified' = FALSE
    /\ WatchAndClose(answered, {"w"}, failed)
    /\ UNCHANGED <<backlog, left, lag, spent>>

\* read finds nothing (EAGAIN), or all that came; or the client is closed: at
\* the end, after an error, or as the plugin refuses what came.
ReadFromClient(fd) ==
    /\ Handle(fd, "r")
    /\ \/ /\ Accessed(fd)
          /\ waiting' = waiting \ {fd}
          /\ UNCHANGED <<table, open>>
       \/ /\ fd \in waiting
          /\ Close({fd})
    /\ UNCHANGED <<notified, backlog, left, lag, spent>>

\* write takes all of sendbuf, and the client may be closed after it; or a
\* part; or it fails.
WriteToClient(fd) ==
    /\ Handle(fd, "w")
    /\ \/ /\ mask' = [mask EXCEPT ![fd] = @ \ {"w"}]
          /\ interest' = [interest EXCEPT ![fd] = mask'[fd]]
          /\ Accessed(fd)
          /\ UNCHANGED <<owner, maxfd, open, waiting>>
       \/ Accessed(fd) /\ UNCHANGED <<table, open, waiting>>
       \/ Close({fd})
    /\ UNCHANGED <<notified, backlog, left, lag, spent>>

\* unix_clock - access_time > client_timeout
OneLate(fd) == age[fd] >= Timeout    \* mutant of Expired
Expired(fd) == age[fd] > Timeout

\* server_cron's return value, in seconds; process_time_events deletes a
\* timer whose handler returns no more.
Once       == 0    \* mutant of CronReturn
CronReturn == 1

\* process_time_events: the only timer is server_cron's.
ServerCron ==
    /\ phase = "times"
    /\ left = 0
    /\ Close({fd \in open : Expired(fd)})
    /\ lag' = 0
    /\ left' = IF CronReturn > 0 THEN CronReturn ELSE NoTimer
    /\ phase' = "top"
    /\ UNCHANGED <<quit, fired, at, notified, backlog, spent>>

NotDue ==
    /\ phase = "times"
    /\ left > 0
    /\ phase' = "top"
    /\ UNCHANGED <<quit, table, fired, at, world, time>>

-----------------------------------------------------------------------------
(* Around the loop: peers, workers, signals and time *)

Connect ==
    /\ backlog < Backlog
    /\ backlog' = backlog + 1
    /\ UNCHANGED <<phase, quit, table, fired, at, open, waiting, notified, time>>

Peer(fd) ==
    /\ waiting' = waiting \cup {fd}
    /\ UNCHANGED <<phase, quit, table, fired, at, open, notified, backlog, time>>

WorkerNotifies ==
    /\ notified' = TRUE
    /\ UNCHANGED <<phase, quit, table, fired, at, open, waiting, backlog, time>>

\* SIGTERM.  It interrupts epoll_wait, unless it comes just before the call.
Quit ==
    /\ ~quit
    /\ quit' = TRUE
    /\ phase' \in IF phase = "poll" THEN {"poll", "times"} ELSE {phase}
    /\ UNCHANGED <<table, fired, at, world, time>>

Older(n, cap) == IF n >= cap THEN n ELSE n + 1

\* Handlers take time, at most Delay ticks a round; epoll_wait returns
\* as soon as something is ready or due.
Tick ==
    /\ phase # "ended"
    /\ IF phase = "poll"
       THEN left > 0 /\ Registered(Reported) = {} /\ spent' = spent
       ELSE spent < Delay /\ spent' = spent + 1
    /\ left' = IF left = 1 THEN 0 ELSE left
    /\ lag' = IF lag = Unset THEN Unset ELSE Older(lag, OldAccess)
    /\ age' = [fd \in ClientFds |-> IF fd \in open THEN Older(age[fd], OldAccess) ELSE age[fd]]
    /\ idle' = [fd \in ClientFds |-> IF fd \in open THEN Older(idle[fd], OldIdle) ELSE idle[fd]]
    /\ UNCHANGED <<phase, quit, table, fired, at, world>>

LoopStep ==
    \/ Top \/ Poll \/ FilesDone \/ NotDue \/ ServerCron
    \/ \E fd \in Fds, ev \in {"r", "w"} : Skip(fd, ev)
    \/ Accept \/ AcceptRefused
    \/ \E answered \in SUBSET open : \E failed \in SUBSET (open \ answered) :
           NotifierHandler(answered, failed)
    \/ \E fd \in open : ReadFromClient(fd) \/ WriteToClient(fd)

Next ==
    \/ LoopStep
    \/ Connect \/ WorkerNotifies \/ Quit \/ Tick
    \/ \E fd \in open : Peer(fd)

Spec == Init /\ [][Next]_vars

\* The process runs, and time goes on whatever it does.
FairSpec == Spec /\ WF_vars(LoopStep) /\ SF_vars(Tick)

-----------------------------------------------------------------------------
(* Properties *)

\* The event table, the epoll set and the open descriptors never disagree
\* (ae.c:101, conn.c:54): events are watched on open descriptors only, with the
\* client_conn that lives there, and maxfd is the highest of them.
InSync ==
    /\ interest = mask
    /\ maxfd = Highest(mask)
    /\ \A fd \in ClientFds : /\ mask[fd] # {} <=> fd \in open
                             /\ fd \in open => owner[fd] = "live" /\ "r" \in mask[fd]

\* An event that epoll_wait reported for a descriptor which has been closed
\* and accepted anew since (ae.c:363) runs no handler on the old client_conn.
NoFreedClient ==
    \A fd \in ClientFds : phase = "files" /\ fired[fd] # {} /\ ~Stale(fd, "r") => owner[fd] = "live"

\* server_cron (conn.c:66) closes a client early only by the grain of its
\* clock and the time a round takes, unless access_time was set before the
\* clock (conn.c:95).
NotHasty ==
    [][\A fd \in open : ServerCron /\ fd \notin open' =>
            age[fd] = Epoch \/ idle[fd] > Timeout - 2 * Delay]_vars

\* It closes it late by no more: a client is not left idle for longer.
Punctual == \A fd \in open : idle[fd] <= Timeout + 2 * Delay

\* Every event is served however many descriptors are busy, and SIGTERM ends
\* the loop even if it comes between the test of *quit and epoll_wait (ae.c:418).
Served ==
    /\ \A fd \in ClientFds : fd \in waiting ~> fd \notin waiting \/ phase = "ended"
    /\ notified ~> ~notified \/ phase = "ended"
QuitEnds == quit ~> phase = "ended"
=============================================================================
