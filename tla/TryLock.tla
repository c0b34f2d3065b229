------------------------------ MODULE TryLock ------------------------------
(***************************************************************************)
(* What the callers of acquireReconcileLock and releaseReconcileLock        *)
(* (apps/cli/src/app.ts) rely on: a try-lock.  Taking it either succeeds at *)
(* one instant, when nobody holds it, or fails and changes nothing; it is   *)
(* free again once its holder releases it or dies.                          *)
(***************************************************************************)
CONSTANT Proc

VARIABLE holders    \* the processes between a successful acquire and the release

Init == holders = {}

Acquire(p) == holders = {} /\ holders' = {p}

Release(p) == holders = {p} /\ holders' = {}

Next == \E p \in Proc : Acquire(p) \/ Release(p)

Spec == Init /\ [][Next]_holders
=============================================================================
