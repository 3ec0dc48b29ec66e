------------------------------ MODULE TimeEvents ------------------------------
(***************************************************************************)
(* The timers of the event loop (src/src/ae.c): an unsorted list, walked   *)
(* from its head again after every handler, since a handler may create and *)
(* delete timers and takes its time.  A connection process has one timer,  *)
(* server_cron (EventLoop); the list is made for many.                     *)
(***************************************************************************)
EXTENDS Integers, Sequences, SequencesExt

CONSTANTS
    Period,      \* the shortest a handler asks to be called again after
    Delays,      \* what ae_create_time_event is given
    MaxId,       \* bound on the timers created
    MaxTime,     \* bound on the clock
    NULL

TimeEventsAssumption ==
    /\ Period \in Nat \ {0} /\ Delays \subseteq Nat
    /\ MaxId \in Nat /\ MaxTime \in Nat /\ NULL \notin Nat

VARIABLES
    timers,     \* time_event_head: a sequence of [id, when], the head first
    next_id,    \* time_event_next_id
    now,
    te,         \* in process_time_events: the place in the list, 0 out of it
    maxid,
    began,      \* history: when the pass began
    due,        \* history: the timers due then that nobody has deleted
    handled     \* history: how often a timer was handled in the pass

vars == <<timers, next_id, now, te, maxid, began, due, handled>>

Init ==
    /\ timers = <<>> /\ next_id = 0 /\ now = 0
    /\ te = 0 /\ maxid = 0
    /\ began = 0 /\ due = {} /\ handled = [i \in 0 .. MaxId |-> 0]

-----------------------------------------------------------------------------
\* ae_create_time_event, ae_delete_time_event, and the re-arming
Created(ts, id, when) == <<[id |-> id, when |-> when]>> \o ts
IsFirst(ts, id, j) == ts[j].id = id /\ \A k \in 1 .. j - 1 : ts[k].id # id
Deleted(ts, id) ==
    IF \A j \in DOMAIN ts : ts[j].id # id THEN ts
    ELSE RemoveAt(ts, CHOOSE j \in DOMAIN ts : IsFirst(ts, id, j))
Rearmed(ts, id, when) ==
    [j \in DOMAIN ts |-> IF ts[j].id = id THEN [ts[j] EXCEPT !.when = when] ELSE ts[j]]

Expired(t) == now >= t.when
Ids == {timers[j].id : j \in DOMAIN timers}

InPass == te # 0
Ended  == te > Len(timers)

Outside == UNCHANGED <<te, maxid, began, due, handled>>

Create ==
    \E ms \in Delays :
        /\ ~InPass /\ next_id < MaxId
        /\ timers' = Created(timers, next_id, now + ms)
        /\ next_id' = next_id + 1
        /\ Outside /\ UNCHANGED now

Tick ==
    /\ now < MaxTime
    /\ now' = now + 1
    /\ UNCHANGED <<timers, next_id>> /\ Outside

Begin ==
    /\ ~InPass
    /\ te' = 1 /\ maxid' = next_id - 1
    /\ began' = now
    /\ due' = {timers[j].id : j \in {j \in DOMAIN timers : Expired(timers[j])}}
    /\ handled' = [i \in 0 .. MaxId |-> 0]
    /\ UNCHANGED <<timers, next_id, now>>

\* Mutant of Skipped: the timers of the pass are not left out.
NotDue(t) == ~Expired(t)

Skipped(t) == t.id > maxid \/ ~Expired(t)

Skip ==
    /\ InPass /\ ~Ended
    /\ Skipped(timers[te])
    /\ te' = te + 1
    /\ UNCHANGED <<timers, next_id, now, maxid, began, due, handled>>

\* A handler creates a timer or not, deletes one or not, and returns ret: it is
\* called again after ret, or deleted if that is 0.  It must not delete its
\* own timer and return more: the timer is freed when it is armed (ae.c:273).
Handle ==
    \E ret \in {0, Period}, new \in Delays \cup {NULL}, gone \in Ids \cup {NULL} :
        LET id == timers[te].id
            kept == Deleted(timers, gone)
            with == IF new = NULL THEN kept ELSE Created(kept, next_id, now + new)
        IN  /\ InPass /\ ~Ended
            /\ ~Skipped(timers[te])
            /\ new # NULL => next_id < MaxId
            /\ gone = id => ret = 0
            /\ timers' = IF ret = 0 THEN Deleted(with, id) ELSE Rearmed(with, id, now + ret)
            /\ next_id' = IF new = NULL THEN next_id ELSE next_id + 1
            /\ te' = 1
            /\ handled' = [handled EXCEPT ![id] = @ + 1]
            /\ due' = due \ {gone}
            /\ UNCHANGED <<now, maxid, began>>

End ==
    /\ InPass /\ Ended
    /\ te' = 0
    /\ UNCHANGED <<timers, next_id, now, maxid, began, due, handled>>

Next == Create \/ Tick \/ Begin \/ Skip \/ Handle \/ End

Spec == Init /\ [][Next]_vars

-----------------------------------------------------------------------------
(* Properties *)

\* A pass handles each timer that was due when it began, and none that was
\* created in it (ae.c:243-247); it handles none twice, unless so much time
\* passes in it that the timer is due again: then it may go on for as long as
\* handlers take longer than they ask to wait (ae.c:253-258).
PassIsFair ==
    /\ InPass /\ Ended => \A id \in due : handled[id] > 0
    /\ \A id \in 0 .. MaxId :
          /\ handled[id] > 0 => id <= maxid
          /\ InPass => handled[id] <= 1 + (now - began) \div Period
=============================================================================
