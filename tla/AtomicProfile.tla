--------------------------- MODULE AtomicProfile ---------------------------
(***************************************************************************)
(* What a profile synchronisation promises, whatever dies in the middle     *)
(* ("never delete the last complete profile", the reconciliation design):   *)
(* the Web profile a user has is the whole old one or the whole new one,    *)
(* and it turns from the one into the other at one instant.                 *)
(***************************************************************************)
VARIABLE profile    \* "none", "old" or "new"

Init == profile \in {"none", "old", "new"}

\* The first start lets dsh create the default profile.
Seed == profile = "none" /\ profile' = "old"

Commit == profile = "old" /\ profile' = "new"

\* A newer xtz is installed: what was up to date no longer is.
Upgrade == profile = "new" /\ profile' = "old"

Next == Seed \/ Commit \/ Upgrade

Spec == Init /\ [][Next]_profile
=============================================================================
