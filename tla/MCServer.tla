------------------------------ MODULE MCServer ------------------------------
(* Small instances of Server. *)
EXTENDS Server, TLC

CONSTANTS k1, k2, a1, a2, w1, w2

OneConn    == {k1}
TwoConns   == {k1, k2}
OneAddr    == {a1}
TwoAddrs   == {a1, a2}
OneFd      == {3}
TwoFds     == {3, 4}
OneWorker  == {w1}
TwoWorkers == {w1, w2}
Nobody     == {}
FirstConn  == {k1}
OkOnly     == {"ok"}
OkClose    == {"ok", "close"}
AnyResult  == {"ok", "close", "error"}
Silent     == {FALSE}
Maybe      == BOOLEAN

Alike == Permutations(Conns) \cup Permutations(Addrs) \cup Permutations(Workers)
=============================================================================
