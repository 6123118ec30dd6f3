-------------------------- MODULE MCLockFreeQueue ---------------------------
(* Small instances of LockFreeQueue for TLC. *)
EXTENDS LockFreeQueue

CONSTANTS e1, e2, d1, d2, nil

MCEnqueuers == {e1, e2}
MCDequeuers == {d1, d2}
=============================================================================
