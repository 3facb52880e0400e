-------------------------- MODULE MCServiceDispatch --------------------------
(* Small instance of ServiceDispatch: keepers that can be empty, partly or    *)
(* completely filled, and hold an element twice.                             *)
EXTENDS ServiceDispatch

CONSTANTS dsc, did, r1, r2, server

MCServices == {dsc, did}
MCRoutines == {r1, r2}
MCRunnables == {server}
MCCapacity == [k \in Kept |-> IF k = "services" THEN 3 ELSE 2]

=============================================================================
