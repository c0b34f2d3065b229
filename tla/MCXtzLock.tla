----------------------------- MODULE MCXtzLock -----------------------------
(* Values of the constants of XtzLock for TLC. *)
EXTENDS XtzLock

CONSTANTS p1, p2, p3, pidA, pidB

Procs == {p1, p2, p3}

\* p3 runs under the pid of p1, once p1 is gone.
ReusedPid == [p \in Procs |-> IF p = p2 THEN pidB ELSE pidA]
=============================================================================
