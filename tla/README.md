# A TLA+ model of verben

verben is a TCP server framework: a plugin says what a request is and what
its response is, the daemon does the rest.  A *master* forks one *connection
process*, which owns every socket, and some *workers*, which call the plugin.
Requests travel through a ring in shared memory (`recv_queue`), responses
through another (`send_queue`), and a pipe (the *notifier*) wakes the
connection process when there are responses to write.

    client --- conn process --- recv_queue ---> worker
                 ^   ^                            |  |
                 |   +------- notifier pipe <-----|--+
                 +----------- send_queue <--------+
    master: fork, SIGCHLD -> respawn, SIGQUIT/SIGTERM -> shut down

This directory holds the modules, the TLC configurations and the proofs.
`PROJECT.json` maps every definition to its source lines.  Paths below are
relative to the repository.

## Inventory

| component | state | operations | what is hard | what makes it correct |
|---|---|---|---|---|
| shared-memory queue, `src/shmq.c`, `src/lock.c` | header words `head`, `tail`; the ring; a System V semaphore; `shmq_stop` in each process | `shmq_push`, `shmq_pop`, `shmq_stop_wait` | one side runs without the lock; copies of head and tail go stale; a process may be killed anywhere; waiters sleep holding the lock | a FIFO: no block overwritten, lost or popped twice; empty means empty; waits end |
| connection process, `src/conn.c` | clients (buffers, protocol length, `close_conn`, access time), `conn_vec`, `unix_clock` | accept, read, write, notifier handler, cron | pointers and descriptors travel through two queues and may be reused; handlers close clients others refer to | a response reaches its client, once, in order; nothing dangles; a close asked for happens; requests are dispatched |
| worker, `src/worker.c` | the message at hand, `vb_worker_quit` | pop, process, push, notify | death between any two steps | each request is answered; the wake-up follows the push |
| notifier, `src/notifier.c` | bytes in a pipe | write 1, read up to 1024 | bytes merge; the pipe may be full | no response without a wake-up |
| master, `src/verben.c` | table of processes, `vb_reap`, `vb_quit`, pending signals | create, reap, respawn, quit | signals against fork and against sigsuspend; children between fork and their own code | children are respawned; the daemon ends when told to; it leaves nobody behind |
| event loop, `src/ae.c`, `src/ae_epoll.c` | registered and fired events, `maxfd`, timers | create/delete events, poll, fire, timers | events fired for a descriptor closed or accepted anew in the same round; slow rounds; timers created and removed by handlers | table, epoll set and clients agree; no handler runs on a freed client; timers on time; the loop ends |
| pid file, `src/daemon.c` | a file, its locks, a pid | create, check, remove | commands at the same time; crashes; stale files; reused pids | the file names the daemon that runs, so there is one at most |
| log, `src/log.c` | a descriptor per process, the files on disk | write, rotate | several processes rotate the same files | the latest lines are kept, in order |
| strings, `src/sds.c` | length, room, bytes | append, copy, range, trim, grow, split, quote | terminators and room at the edge | the string of its user; no write past the buffer; quoting and splitting are inverse |
| list, `src/dlist.c` | links, length, an iterator | add, insert, delete, walk, search, index, copy | deletion while iterating | a sequence, both ways; an iteration meets every node |
| vector, `src/vector.c` | slots, count | set, push, get, iterate | growth, unsigned counts | an array |
| hash table, `src/hash.c` | chains, count | insert, replace, delete, resize, copy, iterate | collisions; no memory for a larger table, an entry, or the rest of a copy | a map; a copy has nothing else |
| configuration, `src/conf.c` | nested calls of `conf_parse`, values by key | lines, blocks, includes, variables, errors | errors inside blocks and included files; a field that points into a line read before | the latest value is the one read; errors are reported |
| loader, sockets, atomic counter, plugins, benchmark | - | start-up or I/O | - | - |

### Hazards

They are listed in `PROJECT.json` at their lines.  The ones that shaped the
modules: stale copies of head and tail and blocks that end exactly at the end
of the ring (ShmQueue); reuse of address and descriptor while a response is
under way, wake-ups against pops, and the life of `close_conn` (Server);
SIGTERM and SIGCHLD around fork (Master); descriptors that change hands within
a round, and a clock that is read once a second (EventLoop); a pid file looked
at and removed in separate steps (PidFile); renames by processes that do not
know of one another (LogRotate); errors that unwind through nested calls
and a field of an earlier line (Conf); allocations that fail half way (Hash).

## Modules

| module | what it is |
|---|---|
| `Fifo` | what a queue promises: push at the end, hand the oldest to one process |
| `ShmQueue` | `shmq.c`, one step for each access to shared memory |
| `ShmQueueInv` | its inductive invariant |
| `ShmQueueProofs` | theorems for every instance: types, mutual exclusion, the invariant, soundness, the implementation of Fifo, when a ring never fills exactly |
| `Server` | clients, connection process, workers and notifier over two queues |
| `ServerProofs` | theorems for every instance: types, nothing dangles, no wake-up is lost, only twins are mixed up, no response is received twice; with one worker, order and the close that follows |
| `Master` | the master, its signals and the life of its children |
| `MasterProofs` | theorems for every instance: no child is lost or left, none that failed is forked |
| `EventLoop` | rounds of the event loop with the handlers of `conn.c`, and time |
| `EventLoopProofs` | theorems for every instance: the table is in step, no handler gets a freed client, idle clients are closed in time |
| `TimeEvents` | the list of timers of `ae.c`, for any handlers |
| `TimeEventsProofs` | theorem for every instance: a pass is fair |
| `PidFile` | the pid file, under any number of `start` and `stop` |
| `LogRotate` | `log_write` and `log_rotate` by several processes |
| `LogRotateProofs` | theorems for every instance: the latest lines are kept, lines stay in order |
| `DList`, `Vector`, `Hash`, `Sds` | the data structures, each beside the sequence, array, map or string it promises |
| `Structures` | the four of them, each over its own variables and constants |
| `StructuresProofs` | their invariants and what follows, for every instance |
| `Conf` | `conf_parse` on any lines |
| `MCShmQueue`, `MCServer`, `MCMaster`, `MCEventLoop` | small instances for TLC |
| `MCParts` | PidFile, and instances of LogRotate, Structures, Conf and TimeEvents side by side |
| `PartsProofs` | theorems for every instance: the pid file names the daemon, and what LogRotateProofs, TimeEventsProofs and StructuresProofs show, stated of the properties of MCParts |

The three systems compose by abstraction.  `Server` takes the queues as
sequences, which is what `ShmQueue` is shown to implement; its
`WorkerDies` and `ConnDies` are a death followed by the respawn that `Master`
describes; `SetStop` of `ShmQueue` is what the SIGTERM handler of `Master`
does to a worker inside a queue.  `EventLoop` refines the view Server has of
the event loop: where Server lets any ready descriptor be handled next, it has
the rounds in which that happens, and leaves queues and bytes to Server.
`TimeEvents` is the list of timers of which EventLoop needs the one of
server_cron.  The other parts share no state with these, or only through
values that Server takes as given: `vec` of Server is a Vector, the clients of
a connection process a DList, its buffers Sds strings.

Operators under a comment "mutant of" are altered copies of the operator
that follows.  No specification uses them; each is a plausible bug (a dropped
test, an order swapped, a missing reset), substituted for the original to see
that a property notices it.

### ShmQueue

`head`, `tail` and `mem` are the ring, in words of `sizeof(shmq_block_t)`,
which every offset and size is a multiple of (`SHMQ_ALIGN`).  `mem` holds for
each word which message it was written for and which word of it it is, so that
a block made of two messages is told from a whole one.  `pc`, `lhead`,
`ltail`, `arg` are a process's place and locals.  An operation is some eight
steps, because the other side reads and writes the same words with no lock in
common: reading `head`, reading (and wrapping) `tail`, writing a pad, the
block's size, its data, the new `tail`.  One copy of data is one step, as the
words copied are not shared at that moment: that is what `BlocksIntact` and
the invariant show.

A process that dies (`Die`) leaves the words as they are, and the semaphore
is released by SEM_UNDO.  `SetStop` is the SIGTERM handler; `LockInterrupted`
is semop failing with EINTR.  `chain` and `seen` are history variables: what
has been pushed and not popped, and whether a pop read `tail` while it was not
empty.  `stale` records the one event that breaks the ring: a pop that read
`tail == size` and wrapped `head` to `start` (lines 221-226).  After it the
chain means nothing and is not kept, and what a pop may find there is cut down
to the outcomes listed at `PopGarbage` and `PopCommit`.

Left out: `blk_cnt`, which nobody reads; the conversion of a size beyond
`int`; allocation failure of the ring itself; the pthread and fcntl locks,
which `lock.h` does not select.  Memory is sequentially consistent, as
`volatile` accesses are on the x86 processors the code names.

### Server

`client` is the heap (an address holds a `client_conn` or nothing), `vec`
is `conn_vec`, `writable` the descriptors with AE_WRITABLE.  A handler of the
event loop is one action, as the loop runs one at a time; only
`notifier_handler` is cut (NotifierRead, Discard, HandOver, Drained), because
workers push and notify between its steps, and `draining` keeps the other
handlers out meanwhile.  A message carries address, descriptor and pid as in
`struct shm_msg`, and for the properties alone the connection and number of
the request.  `accept` gives the lowest free descriptor; malloc any address.

Bytes are counted in pieces, `Pieces` to a request; a read returns any number
of those that have arrived, and the plugin may say the length as soon as it
likes.  Writes take any prefix of the responses in the buffer.  EAGAIN changes
nothing and is not a step.

Left out: access times (any client may be timed out at any time when
`Timeouts`; EventLoop has them); the content of messages; IP addresses; leaks of memory; the
value of an uninitialised `retlen`; reuse of a pid by the kernel.

### Master

`mpc` is where the master is in `create_processes`, `spawn_process`,
`reap_children` or its loop.  `table` is what the master believes, `child` what
is the case.  The signals blocked outside sigsuspend wait in `pending`; at
sigsuspend all of them are delivered before it returns, as Linux does.
SIGTERM is not blocked: `TermMaster` may come between any two steps, and a
child takes its own (`TakeTerm`) at any time from its birth.  Until it sets
`vb_process` (`Begin`) a child is "born" and its handler acts as the master's.
`early` records that a worker took SIGTERM, or inherited `vb_quit`, before
that.

Left out: options, configuration, loading the plugin, the pid file before
the loop; the unused kinds of respawn (`VB_PROCESS_JUST_SPAWN` and so on).

### EventLoop

`phase` is where `ae_main` is: at the test of `*quit`, in epoll_wait, in the
loop over `fired`, in the timers.  `mask`, `interest`, `maxfd` and `owner` are
what `events[fd]` and the epoll set hold for each descriptor; `owner` says
whether `client_data` is a client that lives or one that was freed.  Each
turn of the loop over `fired` is one action: a handler of `conn.c` with all it
does to the table, or `Skip` when the event is no longer asked for (ae.c:363).
Handlers close and accept descriptors whose events of the same round are
still to come.  `Retable` is every call of ae_create_file_event and
ae_delete_file_event of one handler.

Time is counted in ticks of a second, which is both the grain of `time(NULL)` and
the period of server_cron, and instants are kept as ages so that the state
space is finite: `lag` is the age of `unix_clock`, `age[fd]` of `access_time`,
and `idle[fd]`, a history variable, of the client's last activity.  Handlers
of one round take up to `Delay` ticks together; in epoll_wait time passes only
while nothing is ready or due.

### PidFile, LogRotate

A command of PidFile goes through pid_file_running, main, daemonize and
pid_file_create, one step for each system call on the file: the descriptor and
the locks are on an inode, creation and removal go by name.  `Crashes` counts
kill -9; with `Faults` a lock may be interrupted and a write fail.  Strangers
take and free pids.  `misfired` records the removal of a file whose maker
lives, and `overlap` that two commands have been in progress together.

LogRotate has a process's descriptor, the directory (`file`), and the lines in
each inode.  The rotation is a step for each rename, as any process may write
or rotate between two of them; a kill may come there too, as may failures of
open and write.  Sizes are lines.  `overlap` records that two processes have
been rotating together, `halfway` a kill within the shift of the files.

### DList, Vector, Hash, Sds, TimeEvents, Conf

The data structures are sequential, so a module is the memory of one
structure, one action for each operation, and a second variable that says what
its user thinks of it: `list`, `set`, `map`, `str`.  The property compares the
two in every reachable state, with all the operations that only look.  Loops
are recursive functions, so that they can be proved about as well as run.

DList has an iterator that other operations interleave with, as server_cron
deletes while it walks.  Vector counts in `W`, which stands for 2^32.  Sds keeps
every byte that was allocated, so that a write past the end makes the buffer
longer than it is; sdssplitargs is a function of the characters read, with the
modes of the C loop.

Hash goes through collisions and resizes, and any calloc may fail: that of the
larger table loses all entries (`FailedResize`), that of a new entry leaves the
table as it is, resized or not (`InsertFails`), and within hash_dup it ends the
copying after any number of entries (`Dup`, whose second argument is that
number).  hash_dup does not look at what hash_foreach returns (267), so the
caller cannot tell a part of the map from all of it; `whole`, a history
variable, can.  IsTheMap says of every copy that it has entries of the map as
it was and no others, and of a whole one that it has all.

TimeEvents is process_time_events for any handlers: they create and delete
timers, their own too, and take their time, and the pass begins again at the
head after each.

In Conf the lines are any lines, and a call of conf_parse is a frame: the main
file, a block, an included file.  A line assigns, opens or closes a block,
includes files, is a comment, blank, or wrong; errors unwind through the frames
as the code does, with the exit of free_val and the second free where they are.
`values` records what was assigned where.  `field` is what conf_parse finds at
`field[0]` on a line without fields (467): nothing assigned yet, a `}` or
other text.  It points into `buf`, where a comment, which is not split (351),
may put a `}` under it; the next blank line may overwrite that or not, and if not
it ends the block, or is an error in the main file.  `wrong` is "blank" from
then on: LatestFirst is stated of files without such a line, and ErrorsReported
has it among the reasons for which a file is refused.

## Runs

| run | instance | checks |
|---|---|---|
| ShmSend | 2 producers with lock and wait, 1 consumer; blocks of 2 and 4 in 9 words; fair | refinement of Fifo, PushesEnd |
| ShmExact | 1 producer without lock, 2 consumers with lock and wait, any may die, one may be told to stop; blocks of 2 and 3 in 5 words: a block may end exactly at Size; fair | TypeOK, the inductive invariant IInv, OneInside, SoundUnlessStale, BlocksArePopped |
| ShmWrapComment | the same in 6 words, nobody dies | violation of HeadNotAtStart |
| ServerFaults | 2 connections, 2 workers, 2 incarnations, everything may fail | TypeOK, NoDangling, NoLostWakeup, OnlyTwinsMixedUp, NoDuplicates |
| ServerOneWorker | 2 connections, 2 requests each, one of them pipelined, 1 worker, no time-outs; fair | CloseFollows, InOrder, Answered |
| ServerAba | 2 connections, 1 address, time-outs | violation of RightClient |
| ServerStuck | 1 connection, 2 requests at once; fair | violation of WholeIsDispatched |
| MasterSafe | 2 workers, a crash, a failed fork, failing handle_init, SIGQUIT, a SIGTERM from outside | TypeOK, LeavesNobody, KeepsTrack, FailedStaysDown |
| MasterStop | 2 workers, a crash, SIGQUIT; fair | StopEnds, RunsAgain |
| MasterInitFailure | 2 workers, failing handle_init; fair | violation of InitFailureEnds |
| EventLoop | one descriptor for clients, a second client is refused; time-out of 5 seconds, rounds of up to 2, 2 connections waiting; fair | TypeOK, InSync, NoFreedClient, Punctual, NotHasty, Served, QuitEnds |
| Parts | see below | NamesTheDaemon, OnlyOverlapMisfires, KeepsLatest, LinesInOrder, Agrees, VisitsAll, IsTheMap, IsAnArray, IsAString, ReadsRight, PassIsFair |

Parts is one run for the modules that share no state: the initial state picks
one of them (`part`), only that one takes steps, and each property speaks
of its part.  The parts are checked one after the other in this way, and their
state spaces add up instead of multiplying.  The instances:

| part | instance |
|---|---|
| pid file | 3 pids, 3 inodes, a crash, failing locks and writes |
| log of one | 1 process, files of a line, `log_num` 3, 16 lines, a kill or failure |
| log of many | 2 processes, rotation after every line, `log_num` 3, 4 lines each, a kill or failure |
| list | 3 nodes, 2 values |
| hash table | 4 keys that collide in 1, 2 or 4 slots, tables of up to 4 slots, any allocation may fail |
| vector | 2 slots growing to 8, 4 writes, counts modulo 16 |
| string | up to 4 characters of 8 (letters, digits, blanks, NUL, backslash, quote), 6 bytes of room, separators that overlap themselves |
| configuration | 5 lines, 2 keys, 2 values, includes of 2 files, blocks in blocks |
| timers | 3 timers, 5 seconds, handlers that create, delete and delay |

Bounds.  The ring is unbounded in operations: producers push for ever and the
state space is finite because the ring is.  Nine words hold a short and a long
block or two long ones, so that rings wrap with and without a pad, fill, and
empty at every offset; in 9 words blocks of even length never end at Size, in
5 words blocks of 2 and 3 do.  The theorems hold for every size.  Two
connections are enough for one to take the other's place, two incarnations for
messages of a dead process; the queues of one message and the pipe of one byte
of ServerFaults fill; `PipeRead` stands for the 1024 bytes of `notifier_read`.
Two workers are the least for one to be born while another ends.  In EventLoop
one descriptor is what a close and an accept in the same round need to reuse,
and the rounds are unbounded; the time-out is longer than twice the delay, so
that closing at once and closing late are told apart.  Three pids are two
commands and a daemon, and 16 lines go round the files more than twice.

Deadlock is not checked in Server, Master and Parts, where requests, connections,
commands and lines are bounded and the system stops, nor in EventLoop,
which ends on SIGTERM.  It is checked in ShmQueue.

Symmetry is not used.

Fairness.  In ShmQueue a process inside push or pop goes on (its waits are
nanosleep and a retry), the lock is taken by someone who waits for it, malloc
does not fail for ever; nobody has to push.  A consumer calls pop again.  For
recv_queue that is what a worker does whatever the last call returned
(worker.c:40-60), and BlocksArePopped, which needs it, is checked there: one
worker sleeps for a block holding the lock, the other sleeps on the lock, any of
the three may be killed as long as that comes to an end, and what is pushed is
popped all the same, until a worker is told to stop or the ring is stale.  For
send_queue it is an assumption of PushesEnd: the connection process pops until a
pop fails (conn.c:329) and then waits for another byte in the pipe, which in
ShmQueue is taken to come.  Which bytes come is modelled in Server, without
failing pops.
In Server a ready descriptor is handled again and again, as epoll reports it
in every round: strong fairness, because the drain of the notifier and a full
queue disable a handler in between; a peer finishes a request it has begun;
hooks return.  In Master the kernel runs every process and handle_init
returns.  In EventLoop the process runs on (weak fairness of `LoopStep`, the
loop as a whole, not of any handler: that every descriptor is served follows
from the rounds), and time passes (strong fairness of `Tick`, which every
step of the loop may disable for a moment).  No signal, crash or time-out is fair.

## What the runs found

* A ring filled exactly to its end and drained lets the consumer wrap `head`
  while its `tail` is old: blocks popped before are popped again, and the
  comment of `shmq.c:141` is wrong (ShmWrapComment).  Before that happens the
  ring is sound, and in a ring whose blocks never end at `size` it is always.
* A response may go to a client that took address and descriptor of the one
  that was timed out (ServerAba).  It needs no time-out: any close while a
  request is under way will do, one that a response to an earlier request asks
  for too.  Whatever happens, only such a twin of a connection closed before
  can be confused (OnlyTwinsMixedUp, proved).
* What holds only with one worker: the order of the responses to pipelined requests
  (InOrder), and that nothing comes between the response that asks for a close
  and the close (CloseFollows).  With two, a later response may overtake an earlier
  one, and the response to a twin that is closed, still with the other
  worker, may come into the buffer behind the one that asks for the close, which then
  waits for it to be written or is called off by it.  That is why both are
  stated of one.
* Of two requests read together the second stays in the buffer (ServerStuck).
* A worker that receives SIGTERM before it sets `vb_process` never quits, and
  so the master never ends (MasterInitFailure).  It is the only such way for
  SIGQUIT (StopEnds).

Met while modelling, without a run of their own (the properties exempt them
by name where they touch them):

* conn.c: a response without `close_conn` clears a close asked for by an
  earlier one that is not yet written, or by handle_open (370); with several
  workers the responses to pipelined requests may be reordered; a client read
  before the first tick of server_cron has an access_time of 0 and is closed
  though it is not idle (95; the exemption of NotHasty).
* verben.c: a fork that fails in reap_children is tried again only at the
  next SIGCHLD (361); a child that exits normally is respawned too, whatever
  line 360 says; a SIGTERM between the test of `vb_quit` and sigsuspend wakes
  nobody (471).
* daemon.c: two commands at the same time may remove the file of a daemon that
  runs (233, 240), after which a second one starts; NamesTheDaemon says no
  more from then on, and OnlyOverlapMisfires that nothing else leads there.
* log.c: with `log_num` 1 there is no slot to rename to, nothing is shifted (73),
  and the file grows for ever (KeepsLatest asks for two or more); two processes
  that rotate together may rename one file over another.
* hash.c: a resize that finds no memory loses the table (230), and a copy that
  finds none is returned as if it were whole (267); hash_iter_prev
  (319-341) does not go backwards, and hash_iter_init leaves the entry of an
  iteration before.
* conf.c: an error in a block whose key is new ends the process at 145 without
  a word; one in an included file frees the configuration twice (213, 480);
  a blank line is taken for a `}` when field[0] points at one in a comment
  before it, and field[0] may not have been assigned (351, 467); a variable of the environment that
  names itself is evaluated without end (308), and the name is used after
  it was freed (306, 319); a file that ends within a block is accepted.
* sds.c: the comment at 310 promises NULL for an empty string, 335-338 return
  an empty array.
* vector.c: the iterator returns nothing of a vector of one (119), and of
  an empty one it runs through 2^32 indices.
* dlist.c: dlist_dup without a method for values shares them.
* ae.c: a timer whose handler deletes it and asks to be called again is written to
  after it was freed (273).

## Proofs

`tlapm M.tla` checks every leaf, for M each of `ShmQueueProofs`, `ServerProofs`,
`MasterProofs`, `EventLoopProofs`, `LogRotateProofs`, `TimeEventsProofs`,
`StructuresProofs` and `PartsProofs`; most take a few minutes, StructuresProofs a
quarter of an hour.  What they assume is what the modules state of their
constants; two theorems of ServerProofs say in their statement that there is one
worker, and nothing else is assumed.  No safety proof uses fairness.

Of the queue (the ring is not empty, a block has at least two words, producers
and consumers are different processes, a side without lock has one process, and
not both sides lock):

* `TypeCorrect`, `MutualExclusion`: from `TypeInv`, which adds to TypeOK that
  a process between OPT_LOCK and OPT_UNLOCK owns the lock and that the block
  being written lies within the ring.  TypeOK alone is not inductive: `tail`
  stays within Size only because room was tested three steps before.
* `Inductive`: the invariant `IInv` itself, which the run ShmExact checks too.
* `SoundQueue`: BlocksIntact, PopsOldest and EmptyIsEmpty hold as long as
  `stale` is false.  The invariant `IInv` says that the blocks pushed and not
  popped form a chain from head to tail, once round at most, each beginning
  where the last ends or at Start behind a pad (Links, Geometry, Order); that a
  producer's old copy of head, and a consumer's of tail, are positions the real
  ones have since moved forward from without passing one another (HeadFrom,
  TailFrom); and that a producer about to write has room (Room).  The copies
  are why it is needed: the test for room is made on them, and what it grants
  must still be free.  `WrapCommentUnlessStale` is a part of it.
* `Refinement`: a behaviour in which `stale` stays false implements Fifo, by
  the mapping of `Queue` in ShmQueue.  `NoExactFill`: it does stay false
  if, for some set of offsets that holds Start and is closed under adding the
  length of a message, Size is not in it.
* `HalfRing`: an empty ring takes a block of n words wherever head stands if
  and only if 2n is at most its size: the bound under which ShmSend checks
  PushesEnd is exact.

Of the path of a request (`Bounds`: descriptors are naturals, queues, pipe and
requests have room for one at least; `NilIsNoClient`), for any number of
connections, workers and deaths:

* `TypeCorrect`, `NothingDangles`, `NoWakeupIsLost`: one invariant, for each needs
  the others.  A wake-up is lost by the death of the connection process if a
  message of the next one could already be waiting, so the invariant has that no
  message is of a pid to come (PidsPast); a worker between pop and push has a
  message (Holding); and AE_WRITABLE is only asked for on descriptors with a
  client (Watched), without which an accept could find its lowest descriptor
  watched.  There is one lemma for each handler; those that close clients share
  ClosedAll, those that change one ClientChanged.
* `OnlyTwins`: a response that reaches the wrong client was made for a client of
  the same address, descriptor and pid.  The invariant follows `place`: every
  message in a queue or in a worker's hands names the place its connection was
  accepted to (Addressed), every client sits at its connection's place and has
  buffered only responses of connections with that place (Placed), and so has
  every peer received only those (Received).  A connection's place is settled by its
  accept, before which nothing is of it (Settled): no reuse changes it.  That
  the other one was closed before follows as no two clients that live share a
  place.
* `ReceivedOnce`: recv_queue, the hands of each worker, send_queue, the buffer
  of each client and each peer are places (`Carriers`) that hold a sequence
  each (`held`), and a request and the response to it have the same
  key.  Every step is one of three: it moves some from the head of a place to
  the end of another and may lose some (Onward), it posts a request with the next
  number of its connection (Dispatched), or a greeting (Greeted).  The proof
  shows this once for each action, with a table of which places an action may
  move between (Route).  That keys are nowhere twice (Apart) and numbers not
  ahead of `asked` (Counted) then follows from lemmas about sequences alone
  (MovesIn, PostsIn), without looking at the program again.
* `InOrderWithOneWorker`: with one worker the places are one long queue.
  Ordered says that of two keys, the one ahead precedes the other: within one
  place by index, between places by Ahead.  Keys of one connection precede
  by their numbers; keys of different ones, if the places of their clients
  are the same, only if the connection of the one ahead is closed, which is
  what CloseFollows needs of twins.
* `CloseFollowsWithOneWorker`: a peer that does not pipeline has at most one
  request in all places but its own (OneUnderWay).  It follows by counting:
  what the peer has sent has been dispatched, is in recvbuf or on the wire
  (Bytes), the peer has sent at most one request more than it has
  received responses (Frugal), and the numbers in the places are apart and at
  most `asked`.  So in a buffer the response that asks for a close is the last
  of its connection, nothing of a twin can come after it (NothingBehind), and
  `close_conn` is still set when it is written: Final.  The numbers of requests under way are
  compared as cardinalities, for any number of requests and pieces.

Of the master (`MasterAssumption`):

* `TypeCorrect`, `NobodyIsLost`, `NobodyIsLeft`, `FailedIsNotForked`: KeepsTrack
  is not inductive, as it says nothing of the slot being forked into.  The invariant
  adds where create_processes and reap_children are and that the slot they are
  about to fork into is empty (Where), that slots beyond `last` are (Unused),
  that what reap_children has found dead so far is still dead (AllGone), and
  that the SIGQUIT of a child that failed is pending or taken as soon as it can
  be reaped (Failing).

Of the event loop (EventLoop's assumption on its constants), for any number of
descriptors:

* `TypeCorrect`, `AlwaysInSync`, `NoHandlerOnFreed`: InSync with the types, with
  the pipe and the listening socket always watched (AlwaysThere), and with a
  connection to be accepted when one was reported (Expected).  The lemma Retabled says once what
  any sequence of ae_create_file_event and ae_delete_file_event of a handler
  does to table, epoll set and maxfd.
* `AlwaysPunctual`, `NeverHasty`: both from one invariant, Timing.  Neither is inductive,
  as what server_cron compares is not the time a client has been idle but two
  recorded instants, each of them old: `access_time` is `unix_clock` as of the
  last tick.  Past is how much time can have gone by since the last pass, by
  the place the loop is at; the clock is no older than Past, `access_time` no newer than
  the traffic and at most two rounds older (InTime), and no client had been
  idle for longer than the time-out when the last pass looked.

Of the pid file:

* `DaemonIsNamed`, `OneDaemon`, `OnlyOverlap`: the properties of the pid file,
  for any number of processes, inodes and crashes, from `PidFileAssumption`
  (inodes are a finite set of numbers, None is none of them).  NamesTheDaemon
  is not inductive: that a master finds its name in the file depends on what
  was true when the file was made.  The invariant adds what a process knows
  at each place: the maker of an inode is still writing it or runs and
  is named in it (Made), what a process writes to is what it made (Making), the
  file of a living process has the name until one is removed (Named); and of a
  command that has been alone, that the file it has open is the one with
  the name, and that the file it is about to remove has no living maker
  (Alone).  Alone is where OnlyOverlap comes from; it fails as soon as a second
  command takes the name away in between.

Of the log, the timers and the data structures, whose theorems PartsProofs
states of the specification and the properties that the run Parts checks (the
log of many for any set of writers):

* `OneKeepsLatest`, `ManyInOrder`: for any number of slots, lines and processes.
  The invariant says that a file has one name (Apart), that what is in a file
  is in the order it was written in (Sorted), that two do not rotate at once
  unless `overlap` says so (Alone), and until then, and until a shift is cut short,
  that the slots in use are the first ones but for the one a shift has vacant
  (Shape), and that lines are older from file to file and none of a process is in
  a newer file than the one it has open (Order).  LinesInOrder alone is not
  inductive: a rename keeps it only as the vacant slot is where Shape says.
* `PassesAreFair`: identifiers are given once (Numbered), a pass handles what
  was there when it began (Old), what was due and has not been handled is
  ahead of where the pass is (Owed), and a timer handled h times has been armed
  for h periods after the pass began (Paced).
* `IteratorVisitsAll`, `LinksAgree`: ListWell, which is Linked (`next` and `prev`
  of the nodes of the list, its ends and length are those of the sequence)
  and Cursor: what an iteration owes lies ahead of the place its `next` stands
  at, and the node it has returned does not.  Cursor is what an insertion or
  deletion at any place has to keep.
* `VectorIsAnArray`: VecWell, that each slot written holds what was written.
* `TableIsAMap`: HashWell, that the table, unless a resize has lost it, and a
  part of `copied` for the copy, is the map (Maps): every entry is in the chain
  of its hash value, the keys of a chain are different, every key has one, and
  `count` is how many there are.  A resize and a copy are insertions of all
  entries, or of the first ones, into an empty table.
* `StringIsAString`: StrWell, that the buffer has the characters, the
  terminator and the length it says, from which follow the three parts of
  IsAString.  Splitting keeps that the tokens so far, joined, are the string up to
  where the next begins, and that no separator begins within one.  Reading
  back keeps what sdssplitargs has of the token after each character written.

A loop is a recursive function of the number of steps.  The library's induction
theorems, which take an operator as a parameter, cannot be used;
`Induct` (a set that has 0 and the successor of each of its numbers has all) and
`Recursion` (there is a function with a given first value and a given step)
say the same of sets and functions, proved from the library's theorem that the
naturals are well-founded.  With them a recursive definition is shown to
have a value, and an invariant of the loop to hold at every step.

Only model-checked: liveness (the prover has no ENABLED), that is
BlocksArePopped, PushesEnd, Answered, StopEnds, RunsAgain, Served and QuitEnds;
and ReadsRight of Conf, which compares nested configurations with the sequence of
what was assigned.

## Not modelled

* The plugin loader, the sockets and the atomic counter: single calls of the
  system, without state that an order of events could harm.  Plugins and the
  benchmark client: Server takes any result a hook may have, and peers do
  whatever peers may do.
* Start-up: options, the kernel's limits, redirection, the process title.
* Formatted output, case, numbers and the splitting of a line, in sds.c and
  conf.c: pure text.
* Memory: leaks, allocation failure other than where it is said, reads of a
  byte past a buffer (conn.c:112) and the uninitialised `retlen` of worker.c:68,
  which is a matter between plugin and compiler.
* The other back ends of the event loop, and the locks that lock.h does not
  select: they are not compiled in.
