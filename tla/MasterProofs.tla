---------------------------- MODULE MasterProofs ----------------------------
(***************************************************************************)
(* Proofs about Master, for any number of workers, crashes and forks that  *)
(* fail.  The inductive invariant says what the master may rely on at each *)
(* place: the slot it is about to fork into is empty, the one it has       *)
(* forked into is not, and what reap_children has found is still so.       *)
(***************************************************************************)
EXTENDS Master, TLAPS

\* Where create_processes and reap_children are, and the slot they work on.
Where ==
    /\ mpc = "create" => task = "create"
    /\ mpc = "reap" => task = "reap"
    /\ task = "create" => live
    /\ task = "create" /\ mpc \in {"create", "fork", "record"} => last < at
    /\ task = "create" /\ mpc \in {"fork", "record"} => at <= Total /\ slot = last + 1
    /\ task = "reap" /\ mpc \in {"fork", "record"} => slot = at /\ at <= last
    /\ mpc = "fork" => child[slot] = "none"
    /\ mpc = "record" => child[slot] # "none"

\* Slots that have not been used.
Unused ==
    \A s \in Slots :
        s > last /\ ~(mpc = "record" /\ s = slot) => child[s] = "none" /\ status[s] = "none"

\* When reap_children has seen no child alive, there is none.
AllGone ==
    /\ ~live /\ task = "reap" /\ mpc \in {"reap", "fork", "record"} =>
           \A s \in Slots : s < at /\ s <= last => table[s].exited
    /\ ~live /\ mpc \in {"suspend", "woken", "decide", "gone"} =>
           \A s \in Slots : s <= last => table[s].exited
    /\ mpc = "gone" => ~live

\* The SIGQUIT of a child that failed is there before its SIGCHLD.
Failing ==
    /\ \A s \in Slots :
        /\ child[s] = "failing" => vb_quit \/ "QUIT" \in pending
        /\ status[s] = "failed" => vb_quit \/ (child[s] = "zombie" /\ "QUIT" \in pending)
    /\ mpc = "fork" => status[slot] # "failed"

IInv == TypeOK /\ Where /\ Unused /\ KeepsTrack /\ AllGone /\ Failing

-----------------------------------------------------------------------------
\* What process_get_status writes is an entry of vb_processes.
LEMMA MarkedExited ==
    ASSUME NEW entry \in [proc : {"conn", "worker"}, exited : BOOLEAN]
    PROVE  [entry EXCEPT !.exited = TRUE] \in [proc : {"conn", "worker"}, exited : BOOLEAN]
BY Zenon

\* Every step keeps the invariant.
LEMMA StepKeepsIInv ==
    ASSUME IInv, [Next]_vars
    PROVE  IInv'
<1> USE MasterAssumption
<1> USE DEF IInv, TypeOK, Where, Unused, KeepsTrack, AllGone, Failing,
            Slots, Total, Alive, master, flags, bounds
<1>1. ASSUME TakeSignals PROVE IInv'
    <2>0. /\ live' \in BOOLEAN /\ vb_reap' \in BOOLEAN /\ vb_quit' \in BOOLEAN
          /\ early' \in BOOLEAN /\ strange' \in BOOLEAN
        BY <1>1, Zenon DEF TakeSignals, Collect, Masked, Wakes
    <2>1. TypeOK'
        <3>1. PICK zombies \in SUBSET {s \in Slots : child[s] = "zombie"} : Collect(zombies)
            BY <1>1 DEF TakeSignals
        <3>2. child' \in [Slots -> {"none", "born", "init", "failing", "run", "zombie"}]
            BY <3>1 DEF Collect
        <3>3. table' \in [Slots -> [proc : {"conn", "worker"}, exited : BOOLEAN]]
            BY <3>1, MarkedExited DEF Collect
        <3>4. term' \subseteq Alive'
            BY <3>1, <1>1 DEF Collect, TakeSignals
        <3> QED
            BY <3>2, <3>3, <3>4, <2>0, <1>1 DEF TakeSignals, Wakes
    <2>2. Where'
        BY <2>1, <1>1 DEF TakeSignals, Collect, Masked, Wakes
    <2>3. Unused'
        BY <2>1, <1>1 DEF TakeSignals, Collect, Masked, Wakes
    <2>4. KeepsTrack'
        BY <2>1, <1>1 DEF TakeSignals, Collect, Masked, Wakes
    <2>5. AllGone'
        BY <2>1, <1>1 DEF TakeSignals, Collect, Masked, Wakes
    <2>6. Failing'
        BY <2>1, <1>1 DEF TakeSignals, Collect, Masked, Wakes
    <2> QED
        BY <2>1, <2>2, <2>3, <2>4, <2>5, <2>6
<1>2. ASSUME TermMaster PROVE IInv'
    BY <1>2 DEF TermMaster, Wakes
<1>3. ASSUME Stop PROVE IInv'
    BY <1>3 DEF Stop
<1>4. ASSUME Create PROVE IInv'
    <2>1. TypeOK'
        BY <1>4 DEF Create
    <2>2. Where'
        BY <2>1, <1>4 DEF Create
    <2>3. Unused'
        BY <2>1, <1>4 DEF Create
    <2>4. KeepsTrack'
        BY <2>1, <1>4 DEF Create
    <2>5. AllGone'
        BY <2>1, <1>4 DEF Create
    <2>6. Failing'
        BY <2>1, <1>4 DEF Create
    <2> QED
        BY <2>1, <2>2, <2>3, <2>4, <2>5, <2>6
<1>5. ASSUME Fork PROVE IInv'
    BY <1>5 DEF Fork
<1>6. ASSUME ForkFails PROVE IInv'
    BY <1>6 DEF ForkFails
<1>7. ASSUME Record PROVE IInv'
    <2>1. TypeOK'
        BY <1>7 DEF Record, Kind
    <2>2. Where'
        BY <2>1, <1>7 DEF Record, Kind
    <2>3. Unused'
        BY <2>1, <1>7 DEF Record, Kind
    <2>4. KeepsTrack'
        BY <2>1, <1>7 DEF Record, Kind
    <2>5. AllGone'
        BY <2>1, <1>7 DEF Record, Kind
    <2>6. Failing'
        BY <2>1, <1>7 DEF Record, Kind
    <2> QED
        BY <2>1, <2>2, <2>3, <2>4, <2>5, <2>6
<1>8. ASSUME Woken PROVE IInv'
    <2>0. /\ live' \in BOOLEAN /\ vb_reap' \in BOOLEAN /\ vb_quit' \in BOOLEAN
          /\ early' \in BOOLEAN /\ strange' \in BOOLEAN
        BY <1>8, Zenon DEF Woken
    <2>1. TypeOK'
        BY <2>0, <1>8 DEF Woken
    <2>2. Where'
        BY <2>1, <1>8 DEF Woken
    <2>3. Unused'
        BY <2>1, <1>8 DEF Woken
    <2>4. KeepsTrack'
        BY <2>1, <1>8 DEF Woken
    <2>5. AllGone'
        BY <2>1, <1>8 DEF Woken
    <2>6. Failing'
        BY <2>1, <1>8 DEF Woken
    <2> QED
        BY <2>1, <2>2, <2>3, <2>4, <2>5, <2>6
<1>9. ASSUME Reap PROVE IInv'
    <2>0. /\ live' \in BOOLEAN /\ vb_reap' \in BOOLEAN /\ vb_quit' \in BOOLEAN
          /\ early' \in BOOLEAN /\ strange' \in BOOLEAN
        BY <1>9, Zenon DEF Reap
    <2>1. TypeOK'
        BY <2>0, <1>9 DEF Reap
    <2>2. Where'
        BY <2>1, <1>9 DEF Reap
    <2>3. Unused'
        BY <2>1, <1>9 DEF Reap
    <2>4. KeepsTrack'
        BY <2>1, <1>9 DEF Reap
    <2>5. AllGone'
        BY <2>1, <1>9 DEF Reap
    <2>6. Failing'
        BY <2>1, <1>9 DEF Reap
    <2> QED
        BY <2>1, <2>2, <2>3, <2>4, <2>5, <2>6
<1>10. ASSUME Decide PROVE IInv'
    BY <1>10 DEF Decide, Over
<1>11. ASSUME NEW s \in Slots, TakeTerm(s) PROVE IInv'
    BY SMTT(30), <1>11 DEF TakeTerm
<1>12. ASSUME NEW s \in Slots, TermChild(s) PROVE IInv'
    BY SMTT(30), <1>12 DEF TermChild
<1>13. ASSUME NEW s \in Slots, Begin(s) PROVE IInv'
    BY SMTT(30), <1>13 DEF Begin, Step
<1>14. ASSUME NEW s \in Slots, InitOk(s) PROVE IInv'
    BY SMTT(30), <1>14 DEF InitOk, Step
<1>15. ASSUME NEW s \in Slots, InitFails(s) PROVE IInv'
    BY SMTT(30), <1>15 DEF InitFails, Step
<1>16. ASSUME NEW s \in Slots, GiveUp(s) PROVE IInv'
    BY SMTT(30), <1>16 DEF GiveUp, Dies
<1>17. ASSUME NEW s \in Slots, Leave(s) PROVE IInv'
    BY SMTT(30), <1>17 DEF Leave, Dies
<1>18. ASSUME NEW s \in Slots, Crash(s) PROVE IInv'
    <2>1. TypeOK'
        BY SMTT(30), <1>18 DEF Crash, Dies
    <2>2. Where'
        BY <2>1, <1>18 DEF Crash, Dies
    <2>3. Unused'
        BY <2>1, <1>18 DEF Crash, Dies
    <2>4. KeepsTrack'
        BY <2>1, <1>18 DEF Crash, Dies
    <2>5. AllGone'
        BY <2>1, <1>18 DEF Crash, Dies
    <2>6. Failing'
        BY <2>1, <1>18 DEF Crash, Dies
    <2> QED
        BY <2>1, <2>2, <2>3, <2>4, <2>5, <2>6
<1>19. CASE UNCHANGED vars
    BY <1>19 DEF vars
<1> QED
    BY <1>1, <1>2, <1>3, <1>4, <1>5, <1>6, <1>7, <1>8, <1>9, <1>10, <1>11, <1>12, <1>13, <1>14,
       <1>15, <1>16, <1>17, <1>18, <1>19 DEF Next

\* The invariant holds in every state.
LEMMA Invariance == Spec => []IInv
<1>1. Init => IInv
    <2> SUFFICES ASSUME Init PROVE IInv
        OBVIOUS
    <2> USE MasterAssumption DEF Init, Slots
    <2>0. /\ live \in BOOLEAN /\ vb_reap \in BOOLEAN /\ vb_quit \in BOOLEAN
          /\ early \in BOOLEAN /\ strange \in BOOLEAN
        BY Zenon
    <2>1. TypeOK
        BY <2>0 DEF TypeOK, Alive
    <2>2. Where /\ Unused /\ KeepsTrack /\ AllGone /\ Failing
        BY DEF Where, Unused, KeepsTrack, AllGone, Failing, Total
    <2> QED
        BY <2>1, <2>2 DEF IInv
<1>2. IInv /\ [Next]_vars => IInv'
    BY StepKeepsIInv
<1> QED
    BY <1>1, <1>2, PTL DEF Spec

-----------------------------------------------------------------------------
\* Every variable keeps its type: no index of vb_processes leaves the table
\* (create_processes and reap_children in verben.c), whatever fails.
THEOREM TypeCorrect == Spec => []TypeOK
<1>1. IInv => TypeOK
    BY DEF IInv
<1> QED
    BY <1>1, Invariance, PTL

\* The master knows of every child whether it has exited: SIGCHLD is blocked
\* while a child has been forked and not yet recorded (verben.c:408).
THEOREM NobodyIsLost == Spec => []KeepsTrack
<1>1. IInv => KeepsTrack
    BY DEF IInv
<1> QED
    BY <1>1, Invariance, PTL

\* The master frees the queues and removes the pid file (verben.c:458) only
\* when no child is left, whatever crashes and whichever signals come when.
THEOREM NobodyIsLeft == Spec => []LeavesNobody
<1>1. IInv => LeavesNobody
    BY MasterAssumption DEF IInv, TypeOK, AllGone, KeepsTrack, Unused, LeavesNobody, Slots
<1> QED
    BY <1>1, Invariance, PTL

\* A child whose handle_init failed is never forked again (worker.c:33).
THEOREM FailedIsNotForked == Spec => FailedStaysDown
<1> DEFINE StaysDown ==
        \A s \in Slots : child[s] = "none" /\ child'[s] = "born" => status[s] # "failed"
<1>1. IInv /\ [Next]_vars => StaysDown
    <2> SUFFICES ASSUME IInv, [Next]_vars, NEW r \in Slots, child[r] = "none", child'[r] = "born"
                 PROVE  status[r] # "failed"
        OBVIOUS
    <2> USE DEF IInv, TypeOK, Failing, Slots, master
    <2>1. Fork
        <3>1. ~UNCHANGED child
            OBVIOUS
        <3>2. ~TakeSignals
            BY DEF TakeSignals, Collect
        <3>3. ASSUME NEW s \in Slots, Begin(s) \/ InitOk(s) \/ InitFails(s) PROVE FALSE
            BY <3>3 DEF Begin, InitOk, InitFails, Step
        <3>4. ASSUME NEW s \in Slots, GiveUp(s) \/ Leave(s) \/ Crash(s) PROVE FALSE
            BY <3>4 DEF GiveUp, Leave, Crash, Dies
        <3>5. ASSUME NEW s \in Slots, TakeTerm(s) \/ TermChild(s) PROVE FALSE
            BY <3>1, <3>5 DEF TakeTerm, TermChild
        <3> QED
            BY <3>1, <3>2, <3>3, <3>4, <3>5
            DEF Next, vars, TermMaster, Stop, Create, ForkFails, Record, Woken, Reap, Decide
    <2> QED
        BY <2>1 DEF Fork
<1>2. [][StaysDown]_vars => FailedStaysDown
    BY PTL DEF FailedStaysDown
<1> QED
    BY <1>1, <1>2, Invariance, PTL DEF Spec
=============================================================================
