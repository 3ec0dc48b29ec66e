----------------------------- MODULE MCShmQueue -----------------------------
(* Small instances of ShmQueue: a short message and a longer one. *)
EXTENDS ShmQueueInv, TLC

CONSTANTS p1, p2, c1, c2, short, long

OneProducer  == {p1}
TwoProducers == {p1, p2}
OneConsumer  == {c1}
TwoConsumers == {c1, c2}
ShortLong    == {short, long}
Everyone     == {p1, p2, c1, c2} \cap Procs
Nobody       == {}

Len24 == (short :> 2) @@ (long :> 4)
Len23 == (short :> 2) @@ (long :> 3)
=============================================================================
