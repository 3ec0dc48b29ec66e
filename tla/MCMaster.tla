------------------------------ MODULE MCMaster ------------------------------
(* Small instances of Master, a connection process and one or two workers. *)
EXTENDS Master, TLC
=============================================================================
