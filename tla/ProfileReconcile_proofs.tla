---------------------- MODULE ProfileReconcile_proofs ----------------------
(***************************************************************************)
(* The profile synchronisation is atomic, with any number of crashes and    *)
(* failing file operations, provided a write that rejects has not written   *)
(* the whole marker, no dsh command outlives its xtz and every extra plugin *)
(* loads.                                                                   *)
(***************************************************************************)
EXTENDS ProfileReconcile, TLAPS

\* The provisos: without any one of them TLC finds LastCompleteKept violated.
Reliable == ~LateWriteErrors /\ ~OrphanCommands /\ ~Unloadable

\* A removed directory leaves nothing behind.
Tidy(t) == t \in Tree /\ (t.exists \/ (t.manifest = "none" /\ t.marker = "none"))

\* The backup still is what there was before the transaction.
BackupGood == backup.exists /\ Whole(backup) /\ backup.marker = "none"

\* What holds between any two file operations: which directory to rely on.
Recoverable ==
  \/ ~backup.exists /\ (~profile.exists \/ Whole(profile))
  \/ backup.exists /\ Trusted(profile) /\ Whole(profile)
  \/ BackupGood /\ ~Trusted(profile)

\* What each stage of ensureOfficialProfile knows on top of that.
StageOK ==
  /\ pc = "purge" => Trusted(profile) /\ Whole(profile)
  /\ pc = "cleanup" => Trusted(profile) /\ Validated(profile)
  /\ pc \in {"check", "quarantine", "recheck", "done"} => ~backup.exists /\ profile.marker = "none"
  /\ pc \in {"quarantine", "recheck", "done"} => Validated(profile)
  /\ pc \in {"undo", "rollback", "copy", "sync", "verify", "disable", "inspect", "mark", "marking"} =>
       BackupGood /\ ~Trusted(profile)
  /\ pc \in {"sync", "verify", "disable", "inspect", "mark", "marking"} => profile.exists
  /\ pc \in {"disable", "inspect", "mark", "marking"} => profile.user = "old"
  /\ pc \in {"mark", "marking"} => Synced(profile)

IInv ==
  /\ Tidy(profile) /\ Tidy(backup)
  /\ pc \in PC /\ orphan = FALSE
  /\ Recoverable /\ StageOK

\* What removing a piece can do to a directory.
LEMMA RemovalStep ==
  ASSUME NEW t \in Tree, NEW u \in RemovalSteps(t), t.exists
  PROVE  /\ Tidy(u)
         /\ ~Trusted(t) => ~Trusted(u)
<1>1. CASE u = Missing
  BY <1>1 DEF Tree, Tidy, Missing, Trusted
<1>2. CASE \/ u = [t EXCEPT !.manifest = "none"] \/ u = [t EXCEPT !.user = "none"]
           \/ u = [t EXCEPT !.modules = "none"]
  BY <1>2 DEF Tree, Tidy, Trusted
<1>3. CASE u = [t EXCEPT !.marker = "none"]
  BY <1>3 DEF Tree, Tidy, Trusted
<1> QED
  BY <1>1, <1>2, <1>3 DEF RemovalSteps

\* IInv is kept by what happens around a running start.
LEMMA AroundKeeps ==
  ASSUME Reliable, IInv,
         Start \/ Return \/ Crash \/ Upgrade \/ DshSeeds \/ OrphanWrites \/ OrphanEnds
  PROVE  IInv'
<1>1. CASE Start \/ Return
  <2>1. UNCHANGED <<profile, backup, orphan>> /\ (pc' = "idle" \/ pc' = "restore")
    BY <1>1 DEF Start, Return, Goto
  <2> QED
    BY <2>1 DEF IInv, PC, Recoverable, StageOK, BackupGood
<1>2. CASE Crash
  <2>1. UNCHANGED <<profile, backup, orphan>> /\ pc' = "idle"
    BY <1>2 DEF Crash, Throws, Reliable
  <2> QED
    BY <2>1 DEF IInv, PC, Recoverable, StageOK, BackupGood
<1>3. CASE Upgrade
  <2>1. ASSUME NEW t, Tidy(t)
        PROVE  /\ Tidy(Outdated(t))
               /\ Outdated(t).exists = t.exists /\ Outdated(t).marker = t.marker
               /\ Whole(t) => Whole(Outdated(t))
    <3>1. Outdated(t) \in Tree
      BY <2>1 DEF Outdated, Tidy, Tree
    <3>2. Outdated(t).exists = t.exists /\ Outdated(t).marker = t.marker
      BY <2>1 DEF Outdated, Tidy, Tree
    <3>3. Whole(t) => Whole(Outdated(t))
      BY <2>1 DEF Outdated, Tidy, Tree, Whole
    <3>4. t.manifest = "none" => Outdated(t).manifest = "none"
      BY <2>1 DEF Outdated, Tidy, Tree
    <3> QED
      BY <2>1, <3>1, <3>2, <3>3, <3>4 DEF Tidy
  <2>2. /\ profile' = Outdated(profile) /\ backup' = Outdated(backup)
        /\ pc = "idle" /\ pc' = "idle" /\ orphan' = orphan
    BY <1>3 DEF Upgrade
  <2> QED
    BY <2>1, <2>2 DEF IInv, PC, Recoverable, StageOK, BackupGood, Trusted
<1>4. CASE DshSeeds
  <2>1. Tidy(OldProfile) /\ OldProfile.exists /\ Whole(OldProfile) /\ ~Trusted(OldProfile)
    BY DEF OldProfile, Directory, Tidy, Tree, Whole, Trusted
  <2>2. /\ ~profile.exists /\ profile' = OldProfile
        /\ pc = "idle" /\ pc' = "idle" /\ backup' = backup /\ orphan' = orphan
    BY <1>4 DEF DshSeeds
  <2>3. Recoverable'
    BY <2>1, <2>2 DEF IInv, Recoverable, BackupGood, Trusted
  <2> QED
    BY <2>1, <2>2, <2>3 DEF IInv, PC, StageOK
<1>5. CASE OrphanWrites \/ OrphanEnds
  BY <1>5 DEF OrphanWrites, OrphanEnds, IInv
<1> QED
  BY <1>1, <1>2, <1>3, <1>4, <1>5

\* The marker written.
LEMMA MarkerSet ==
  ASSUME NEW t, Tidy(t), t.exists, NEW m \in {"torn", "valid"},
         NEW u, u = [t EXCEPT !.marker = m]
  PROVE  /\ Tidy(u) /\ u.marker = m /\ u.exists /\ u.user = t.user
         /\ Synced(t) => Synced(u)
BY DEF Tidy, Tree, Synced

\* The marker removed.
LEMMA MarkerCleared ==
  ASSUME NEW t, Tidy(t), NEW u, u = [t EXCEPT !.marker = "none"]
  PROVE  /\ Tidy(u) /\ u.marker = "none" /\ u.exists = t.exists
         /\ Whole(t) => Whole(u)
         /\ Validated(t) => Validated(u)
BY DEF Tidy, Tree, Whole, Validated, Synced

\* IInv is kept by restoreReconcileBackup and rollbackReconcile.
LEMMA RestoringKeeps ==
  ASSUME IInv, orphan' = orphan,
         RestoreNothing \/ ChooseSide \/ Purge \/ Undo \/ Cleanup \/ Rollback
  PROVE  IInv'
<1>1. CASE RestoreNothing
  <2>1. /\ ~backup.exists /\ backup' = backup
        /\ Tidy(profile') /\ profile'.exists = profile.exists
        /\ Whole(profile) => Whole(profile')
    <3>1. CASE profile' = profile
      BY <1>1, <3>1 DEF IInv, RestoreNothing
    <3>2. CASE profile' = [profile EXCEPT !.marker = "none"]
      BY <1>1, <3>2, MarkerCleared DEF IInv, RestoreNothing
    <3> QED
      BY <1>1, <3>1, <3>2 DEF RestoreNothing
  <2>2. \/ pc' = "check" /\ profile'.marker = "none"
        \/ pc' = "failed"
    BY <1>1, MarkerCleared DEF IInv, RestoreNothing, Goto, Throws
  <2> QED
    BY <2>1, <2>2 DEF IInv, PC, Recoverable, StageOK, BackupGood
<1>2. CASE ChooseSide
  <2>1. /\ backup.exists /\ UNCHANGED <<profile, backup>>
        /\ \/ pc' = "purge" /\ Trusted(profile)
           \/ pc' = "undo" /\ ~Trusted(profile)
           \/ pc' = "failed"
    BY <1>2 DEF ChooseSide, Goto, Throws
  <2> QED
    BY <2>1 DEF IInv, PC, Recoverable, StageOK, BackupGood
<1>3. CASE Purge \/ Cleanup
  <2>1. Trusted(profile) /\ Whole(profile)
    BY <1>3 DEF IInv, StageOK, Purge, Cleanup, RemoveBackup, Validated, Synced, Whole, Trusted
  <2>2. CASE /\ backup.exists /\ backup' \in RemovalSteps(backup)
             /\ UNCHANGED <<profile, pc>>
    <3>1. Tidy(backup')
      BY <2>2, RemovalStep DEF IInv, Tidy
    <3>2. Recoverable' /\ StageOK'
      BY <1>3, <2>1, <2>2 DEF IInv, Recoverable, StageOK, Purge, Cleanup, RemoveBackup
    <3> QED
      BY <2>2, <3>1, <3>2 DEF IInv
  <2>3. CASE /\ ~backup.exists /\ backup' = backup
             /\ profile' = [profile EXCEPT !.marker = "none"]
             /\ \/ pc = "purge" /\ pc' = "check"
                \/ pc = "cleanup" /\ pc' = "recheck"
    <3>1. /\ Tidy(profile') /\ Whole(profile') /\ profile'.marker = "none"
          /\ Validated(profile) => Validated(profile')
      BY <2>1, <2>3, MarkerCleared DEF IInv
    <3> QED
      BY <2>3, <3>1 DEF IInv, PC, Recoverable, StageOK
  <2>4. CASE pc' = "failed" /\ UNCHANGED <<profile, backup>>
    BY <2>4 DEF IInv, PC, Recoverable, StageOK, BackupGood
  <2> QED
    BY <1>3, <2>2, <2>3, <2>4 DEF Purge, Cleanup, RemoveBackup, Goto, Throws
<1>4. CASE Undo \/ Rollback
  <2>1. BackupGood /\ ~Trusted(profile)
    BY <1>4 DEF IInv, StageOK, Undo, Rollback, MoveBack
  <2>2. CASE /\ profile.exists /\ profile' \in RemovalSteps(profile)
             /\ UNCHANGED <<backup, pc>>
    <3>1. Tidy(profile') /\ ~Trusted(profile')
      BY <2>1, <2>2, RemovalStep DEF IInv, Tidy
    <3>2. Recoverable' /\ StageOK'
      BY <1>4, <2>1, <2>2, <3>1 DEF IInv, Recoverable, StageOK, BackupGood,
                                    Undo, Rollback, MoveBack
    <3> QED
      BY <2>2, <3>1, <3>2 DEF IInv
  <2>3. CASE /\ profile' = backup /\ backup' = Missing
             /\ \/ pc = "undo" /\ pc' = "check"
                \/ pc = "rollback" /\ pc' = "failed"
    <3>1. Tidy(Missing) /\ ~Missing.exists
      BY DEF Missing, Tidy, Tree
    <3> QED
      BY <2>1, <2>3, <3>1 DEF IInv, PC, Recoverable, StageOK, BackupGood
  <2>4. CASE pc' = "failed" /\ UNCHANGED <<profile, backup>>
    BY <2>4 DEF IInv, PC, Recoverable, StageOK, BackupGood
  <2> QED
    BY <1>4, <2>2, <2>3, <2>4 DEF Undo, Rollback, MoveBack, Goto, Throws
<1> QED
  BY <1>1, <1>2, <1>3, <1>4

\* IInv is kept by the transaction itself.
LEMMA SynchronisingKeeps ==
  ASSUME Reliable, IInv, orphan' = orphan,
         \/ Seed \/ Preflight \/ TakeBackup \/ Copy \/ RunCommands
         \/ CommandsEnd \/ Verify \/ Disable \/ Inspect \/ CreateMarker \/ WriteMarker
         \/ Quarantine \/ Recheck
  PROVE  IInv'
<1>1. CASE Seed
  <2>1. /\ Tidy(OldProfile) /\ Whole(OldProfile) /\ OldProfile.marker = "none"
    BY DEF OldProfile, Directory, Tidy, Tree, Whole
  <2>2. /\ pc = "check" /\ backup' = backup
        /\ \/ profile' = OldProfile /\ pc' = "check"
           \/ profile' = profile /\ pc' = "failed"
    BY <1>1 DEF Seed, Goto
  <2> QED
    BY <2>1, <2>2 DEF IInv, PC, Recoverable, StageOK, BackupGood
<1>2. CASE Preflight
  <2>1. /\ pc = "check" /\ UNCHANGED <<profile, backup>>
        /\ profile.manifest # "none"
        /\ \/ pc' = "quarantine" /\ Synced(profile)
           \/ pc' = "failed"
    BY <1>2 DEF Preflight, Goto
  <2>2. Synced(profile) => Validated(profile)
    BY <2>1 DEF IInv, StageOK, Recoverable, BackupGood, Whole, Validated, Tidy
  <2> QED
    BY <2>1, <2>2 DEF IInv, PC, Recoverable, StageOK, BackupGood
<1>3. CASE TakeBackup
  <2>1. CASE UNCHANGED <<profile, backup>> /\ pc' = "failed"
    BY <2>1 DEF IInv, PC, Recoverable, StageOK, BackupGood
  <2>2. CASE backup' = profile /\ profile' = Missing /\ pc' = "copy"
    <3>1. BackupGood' /\ profile.manifest # "none"
      BY <1>3, <2>2 DEF TakeBackup, IInv, StageOK, Recoverable, BackupGood, Tidy
    <3>2. Tidy(Missing) /\ ~Trusted(Missing)
      BY DEF Missing, Tidy, Tree, Trusted
    <3> QED
      BY <2>2, <3>1, <3>2 DEF IInv, PC, Recoverable, StageOK
  <2> QED
    BY <1>3, <2>1, <2>2 DEF TakeBackup, Goto, Throws
<1>4. CASE Copy
  <2>1. pc = "copy" /\ BackupGood /\ ~Trusted(profile) /\ UNCHANGED backup
    BY <1>4 DEF Copy, IInv, StageOK
  <2>2. Tidy(profile') /\ ~Trusted(profile')
    <3>1. CASE profile' = EmptyDirectory
      BY <3>1 DEF EmptyDirectory, Directory, Tidy, Tree, Trusted
    <3>2. CASE profile' = [profile EXCEPT !.manifest = backup.manifest] /\ profile.exists
      BY <2>1, <3>2 DEF IInv, Tidy, Tree, Trusted
    <3>3. CASE profile' = [profile EXCEPT !.user = backup.user] /\ profile.exists
      BY <2>1, <3>3 DEF IInv, Tidy, Tree, Trusted
    <3>4. CASE profile' = profile
      BY <2>1, <3>4 DEF IInv
    <3> QED
      BY <1>4, <3>1, <3>2, <3>3, <3>4 DEF Copy
  <2>3. \/ pc' = "copy" \/ pc' = "rollback"
        \/ pc' = "sync" /\ profile.exists /\ profile' = profile
    BY <1>4 DEF Copy, Goto, Throws
  <2> QED
    BY <2>1, <2>2, <2>3 DEF IInv, PC, Recoverable, StageOK, BackupGood
<1>5. CASE RunCommands
  <2>1. /\ pc = "sync" /\ pc' = pc /\ backup' = backup
        /\ profile.exists /\ BackupGood /\ ~Trusted(profile)
    BY <1>5 DEF RunCommands, IInv, StageOK
  <2>2. Tidy(profile') /\ ~Trusted(profile') /\ profile'.exists
    <3>1. PICK m \in {"old", "new", "bad"}, n \in {"none", "new", "bad"},
               v \in {profile.user, "bad"} :
                 profile' = [profile EXCEPT !.manifest = m, !.modules = n, !.user = v]
      BY <1>5 DEF RunCommands, Commanded
    <3> QED
      BY <2>1, <3>1 DEF IInv, Tidy, Tree, Trusted
  <2> QED
    BY <2>1, <2>2 DEF IInv, PC, Recoverable, StageOK, BackupGood
<1>6. CASE CommandsEnd \/ Verify \/ Disable \/ Inspect
  <2>1. /\ UNCHANGED <<profile, backup>>
        /\ BackupGood /\ ~Trusted(profile) /\ profile.exists
        /\ \/ pc' = "verify" \/ pc' = "rollback"
           \/ pc' \in {"disable", "inspect"} /\ profile.user = "old"
           \/ pc' = "mark" /\ profile.user = "old" /\ Synced(profile)
    BY <1>6 DEF CommandsEnd, Verify, Disable, TakeOff, Inspect, Preserved, Goto,
                Throws, Reliable, IInv, StageOK
  <2> QED
    BY <2>1 DEF IInv, PC, Recoverable, StageOK, BackupGood
<1>7. CASE CreateMarker \/ WriteMarker
  <2>1. /\ backup' = backup /\ BackupGood /\ ~Trusted(profile) /\ profile.exists
        /\ profile.user = "old" /\ Synced(profile) /\ Tidy(profile)
    BY <1>7 DEF CreateMarker, WriteMarker, IInv, StageOK
  <2>2. CASE profile' = profile /\ pc' = "rollback"
    BY <2>1, <2>2 DEF IInv, PC, Recoverable, StageOK, BackupGood
  <2>3. CASE profile' = [profile EXCEPT !.marker = "torn"] /\ pc' = "marking"
    <3>1. /\ Tidy(profile') /\ Synced(profile') /\ profile'.user = "old"
          /\ profile'.exists /\ ~Trusted(profile')
      BY <2>1, <2>3, MarkerSet DEF Trusted
    <3> QED
      BY <2>1, <2>3, <3>1 DEF IInv, PC, Recoverable, StageOK, BackupGood
  <2>4. CASE profile' = [profile EXCEPT !.marker = "valid"] /\ pc' = "cleanup"
    <3>1. /\ Tidy(profile') /\ Validated(profile') /\ Trusted(profile') /\ Whole(profile')
      BY <2>1, <2>4, MarkerSet DEF Trusted, Validated, Whole, Synced
    <3> QED
      BY <2>1, <2>4, <3>1 DEF IInv, PC, Recoverable, StageOK, BackupGood
  <2> QED
    BY <1>7, <2>2, <2>3, <2>4 DEF CreateMarker, WriteMarker, Goto, Throws, Reliable
<1>8. CASE Quarantine \/ Recheck
  <2>1. /\ UNCHANGED <<profile, backup>> /\ pc \in {"quarantine", "recheck"}
        /\ pc' \in {"done", "failed"}
    BY <1>8 DEF Quarantine, TakeOff, Recheck, Goto, Throws, Reliable
  <2> QED
    BY <2>1 DEF IInv, PC, Recoverable, StageOK, BackupGood
<1> QED
  BY <1>1, <1>2, <1>3, <1>4, <1>5, <1>6, <1>7, <1>8

\* IInv is kept by every step.
LEMMA StepKeeps ==
  ASSUME Reliable, IInv, [Next]_vars
  PROVE  IInv'
<1>1. CASE UNCHANGED vars
  BY <1>1 DEF vars, IInv, Recoverable, StageOK, BackupGood
<1>2. CASE Work
  BY <1>2, RestoringKeeps, SynchronisingKeeps DEF Work
<1> QED
  BY <1>1, <1>2, AroundKeeps DEF Next

\* The first state satisfies IInv.
LEMMA InitHolds == Init => IInv
<1>1. Tidy(Missing) /\ ~Missing.exists /\ Missing.marker = "none"
  BY DEF Missing, Tidy, Tree
<1>2. /\ Tidy(OldProfile) /\ Whole(OldProfile)
      /\ Tidy(SyncedProfile) /\ Whole(SyncedProfile)
  BY DEF OldProfile, SyncedProfile, Directory, Tidy, Tree, Whole
<1> QED
  BY <1>1, <1>2 DEF Init, IInv, PC, Recoverable, StageOK

\* IInv holds in every state the two provisos let the program reach.
THEOREM Invariance == Reliable /\ Spec => []IInv
<1>1. Reliable /\ IInv /\ [Next]_vars => IInv'
  BY StepKeeps
<1> QED
  <2>1. Reliable => [](Reliable)
    BY DEF Reliable
  <2> QED
    BY InitHolds, <1>1, <2>1, PTL DEF Spec

\* Never delete the last complete profile: through any number of crashes and
\* failing operations one of the two directories is whole.
THEOREM LastCompleteIsKept == Reliable /\ Spec => []LastCompleteKept
<1>1. IInv => LastCompleteKept
  BY DEF IInv, Recoverable, BackupGood, LastCompleteKept
<1> QED
  BY Invariance, <1>1, PTL

\* The marker vouches for a whole profile.
THEOREM MarkerVouches == Reliable /\ Spec => []MarkerOnlyOnWhole
<1>1. IInv => MarkerOnlyOnWhole
  BY DEF IInv, Recoverable, BackupGood, MarkerOnlyOnWhole, Trusted, Tidy
<1> QED
  BY Invariance, <1>1, PTL

\* The server is started on the synchronised profile only, no transaction open.
THEOREM LaunchIsValidated == Reliable /\ Spec => []LaunchesValidated
<1>1. IInv => LaunchesValidated
  BY DEF IInv, StageOK, LaunchesValidated
<1> QED
  BY Invariance, <1>1, PTL

-----------------------------------------------------------------------------
(* The synchronisation is atomic *)

\* Effective as a function of the directory that is relied on.
Class(t) ==
  IF ~t.exists THEN "none"
  ELSE IF Validated(t) THEN "new" ELSE IF Whole(t) THEN "old" ELSE "broken"

\* Which of the two directories Effective looks at.
LEMMA Chosen ==
  /\ backup.exists /\ ~Trusted(profile) => Effective = Class(backup)
  /\ ~backup.exists \/ Trusted(profile) => Effective = Class(profile)
BY DEF Effective, Class

\* Only upgrading xtz, creating the default profile and writing the marker
\* change which of the two profiles the user has.
LEMMA StepMaps ==
  ASSUME Reliable, IInv, [Next]_vars
  PROVE  [Atomic!Next]_Effective
<1>0. /\ backup'.exists /\ ~Trusted(profile') => Effective' = Class(backup')
      /\ ~backup'.exists \/ Trusted(profile') => Effective' = Class(profile')
  BY DEF Effective, Class
<1>1. CASE UNCHANGED <<profile, backup>>
  BY <1>1 DEF Effective
<1>2. CASE Upgrade
  <2>1. ASSUME NEW t, Tidy(t)
        PROVE  /\ Outdated(t).exists = t.exists /\ Outdated(t).marker = t.marker
               /\ ~t.exists => Class(Outdated(t)) = Class(t)
               /\ t.exists /\ Whole(t) => Class(t) \in {"old", "new"}
                                          /\ Class(Outdated(t)) = "old"
    <3>1. /\ Outdated(t).exists = t.exists /\ Outdated(t).marker = t.marker
          /\ Outdated(t).user = t.user
          /\ Outdated(t).manifest = IF t.manifest = "new" THEN "old" ELSE t.manifest
          /\ Outdated(t).modules = IF t.modules = "new" THEN "old" ELSE t.modules
      BY <2>1 DEF Outdated, Tidy, Tree
    <3> QED
      BY <3>1 DEF Class, Validated, Synced, Whole
  <2>2. CASE backup.exists /\ ~Trusted(profile)
    <3>1. Effective = Class(backup) /\ Effective' = Class(Outdated(backup))
      BY <1>0, <1>2, <2>1, <2>2, Chosen DEF Upgrade, IInv, Trusted
    <3> QED
      BY <2>1, <2>2, <3>1 DEF IInv, Recoverable, BackupGood, Atomic!Next, Atomic!Upgrade
  <2>3. CASE ~backup.exists \/ Trusted(profile)
    <3>1. Effective = Class(profile) /\ Effective' = Class(Outdated(profile))
      BY <1>0, <1>2, <2>1, <2>3, Chosen DEF Upgrade, IInv, Trusted
    <3> QED
      BY <2>1, <2>3, <3>1 DEF IInv, Recoverable, BackupGood, Atomic!Next, Atomic!Upgrade
  <2> QED
    BY <2>2, <2>3
<1>3. CASE DshSeeds \/ Seed
  <2>1. (~profile.exists /\ profile' = OldProfile /\ backup' = backup) \/ UNCHANGED <<profile, backup>>
    BY <1>3 DEF DshSeeds, Seed, IInv, StageOK, Recoverable, BackupGood, Whole
  <2>2. ~Trusted(OldProfile) /\ Class(OldProfile) = "old"
    BY DEF OldProfile, Directory, Trusted, Class, Validated, Synced, Whole
  <2>3. ~profile.exists => ~Trusted(profile) /\ Class(profile) = "none"
    BY DEF Trusted, Class
  <2> QED
    BY <1>0, <1>1, <2>1, <2>2, <2>3, Chosen DEF Atomic!Next, Atomic!Seed
<1>4. CASE RestoreNothing
  <2>1. ~backup.exists /\ backup' = backup
    BY <1>4 DEF RestoreNothing
  <2>2. CASE profile' = [profile EXCEPT !.marker = "none"]
    <3>1. Class(profile') = Class(profile)
      BY <2>2 DEF IInv, Tidy, Tree, Class, Validated, Synced, Whole
    <3> QED
      BY <1>0, <2>1, <3>1, Chosen
  <2> QED
    BY <1>1, <1>4, <2>1, <2>2 DEF RestoreNothing
<1>5. CASE Purge \/ Cleanup
  <2>1. Trusted(profile)
    BY <1>5 DEF IInv, StageOK, Purge, Cleanup, RemoveBackup
  <2>2. CASE profile' = profile
    BY <1>0, <2>1, <2>2, Chosen DEF Trusted
  <2>3. CASE profile' = [profile EXCEPT !.marker = "none"] /\ ~backup.exists /\ backup' = backup
    <3>1. Class(profile') = Class(profile)
      BY <2>3 DEF IInv, Tidy, Tree, Class, Validated, Synced, Whole
    <3> QED
      BY <1>0, <2>3, <3>1, Chosen
  <2> QED
    BY <1>5, <2>2, <2>3 DEF Purge, Cleanup, RemoveBackup
<1>6. CASE Undo \/ Rollback
  <2>1. BackupGood /\ ~Trusted(profile)
    BY <1>6 DEF IInv, StageOK, Undo, Rollback, MoveBack
  <2>2. CASE profile' \in RemovalSteps(profile) /\ profile.exists /\ backup' = backup
    <3>1. ~Trusted(profile')
      BY <2>1, <2>2, RemovalStep DEF IInv, Tidy
    <3> QED
      BY <1>0, <2>1, <2>2, <3>1, Chosen DEF BackupGood
  <2>3. CASE profile' = backup /\ backup' = Missing
    <3>1. ~Missing.exists
      BY DEF Missing
    <3> QED
      BY <1>0, <2>1, <2>3, <3>1, Chosen DEF BackupGood
  <2> QED
    BY <1>1, <1>6, <2>2, <2>3 DEF Undo, Rollback, MoveBack
<1>7. CASE TakeBackup
  <2>1. CASE ~backup.exists /\ backup' = profile /\ profile' = Missing
    <3>1. ~Missing.exists /\ ~Trusted(Missing)
      BY DEF Missing, Trusted
    <3>2. profile.exists
      BY <1>7 DEF TakeBackup, IInv, Tidy
    <3> QED
      BY <1>0, <2>1, <3>1, <3>2, Chosen
  <2> QED
    BY <1>1, <1>7, <2>1 DEF TakeBackup
<1>8. CASE Copy \/ RunCommands \/ CreateMarker
  <2>1. BackupGood /\ ~Trusted(profile) /\ backup' = backup
    BY <1>8 DEF IInv, StageOK, Copy, RunCommands, CreateMarker
  <2>2. ~Trusted(profile')
    <3>1. IInv'
      BY StepKeeps
    <3>2. pc' \in {"copy", "sync", "marking", "rollback"}
      BY <1>8 DEF Copy, RunCommands, CreateMarker, Goto, Throws
    <3> QED
      BY <3>1, <3>2 DEF IInv, StageOK
  <2> QED
    BY <1>0, <2>1, <2>2, Chosen DEF BackupGood
<1>9. CASE WriteMarker
  <2>1. /\ BackupGood /\ ~Trusted(profile) /\ Tidy(profile) /\ profile.exists
        /\ Synced(profile) /\ profile.user = "old"
    BY <1>9 DEF IInv, StageOK, WriteMarker
  <2>2. CASE profile' = [profile EXCEPT !.marker = "valid"] /\ backup' = backup
    <3>1. Class(profile') = "new" /\ Trusted(profile')
      BY <2>1, <2>2, MarkerSet DEF Class, Trusted, Validated
    <3>2. Class(backup) \in {"old", "new"}
      BY <2>1 DEF BackupGood, Class
    <3> QED
      BY <1>0, <2>1, <2>2, <3>1, <3>2, Chosen DEF BackupGood, Atomic!Next, Atomic!Commit
  <2> QED
    BY <1>1, <1>9, <2>2 DEF WriteMarker
<1>10. CASE \/ Start \/ Return \/ Crash \/ OrphanWrites \/ OrphanEnds \/ UNCHANGED vars
            \/ ChooseSide \/ Preflight \/ CommandsEnd \/ Verify \/ Disable \/ Inspect
            \/ Quarantine \/ Recheck
  <2>1. UNCHANGED <<profile, backup>>
    BY <1>10 DEF Start, Return, Crash, OrphanWrites, OrphanEnds, vars, ChooseSide,
                 Preflight, CommandsEnd, Verify, Disable, Quarantine, Recheck, TakeOff,
                 Inspect, Reliable, IInv
  <2> QED
    BY <1>1, <2>1
<1> QED
  BY <1>2, <1>3, <1>4, <1>5, <1>6, <1>7, <1>8, <1>9, <1>10 DEF Next, Work

\* What the user can get back turns from whole to whole in single steps.
THEOREM SyncIsAtomic == Reliable /\ Spec => AtomicSync
<1>1. Init => Atomic!Init
  <2>1. ~Missing.exists
    BY DEF Missing
  <2>2. Class(OldProfile) = "old" /\ Class(SyncedProfile) = "new"
    BY DEF OldProfile, SyncedProfile, Directory, Class, Validated, Synced, Whole
  <2> QED
    BY <2>1, <2>2, Chosen DEF Init, Class, Atomic!Init
<1>2. Reliable /\ IInv /\ [Next]_vars => [Atomic!Next]_Effective
  BY StepMaps
<1>3. Reliable => []Reliable
  BY DEF Reliable
<1> QED
  BY <1>1, <1>2, <1>3, Invariance, PTL DEF AtomicSync, Atomic!Spec, Spec

-----------------------------------------------------------------------------
(* Types *)

\* The directories a step makes from the ones there are.
LEMMA TreesMade ==
  /\ {Missing, EmptyDirectory, OldProfile, SyncedProfile} \subseteq Tree
  /\ \A t \in Tree : /\ RemovalSteps(t) \cup Commanded(t) \cup {Outdated(t)} \subseteq Tree
                     /\ \A k \in {"none", "torn", "valid"} : [t EXCEPT !.marker = k] \in Tree
                     /\ [t EXCEPT !.manifest = "bad"] \in Tree
                     /\ \A b \in Tree : /\ [t EXCEPT !.manifest = b.manifest] \in Tree
                                        /\ [t EXCEPT !.user = b.user] \in Tree
<1>1. /\ Missing \in Tree /\ EmptyDirectory \in Tree
      /\ OldProfile \in Tree /\ SyncedProfile \in Tree
  BY DEF Missing, EmptyDirectory, OldProfile, SyncedProfile, Directory, Tree
<1> SUFFICES ASSUME NEW t \in Tree
    PROVE  /\ RemovalSteps(t) \cup Commanded(t) \cup {Outdated(t)} \subseteq Tree
           /\ \A k \in {"none", "torn", "valid"} : [t EXCEPT !.marker = k] \in Tree
           /\ [t EXCEPT !.manifest = "bad"] \in Tree
           /\ \A b \in Tree : /\ [t EXCEPT !.manifest = b.manifest] \in Tree
                              /\ [t EXCEPT !.user = b.user] \in Tree
  BY <1>1
<1>2. \A k \in {"none", "torn", "valid"} : [t EXCEPT !.marker = k] \in Tree
  BY DEF Tree
<1>3. \A b \in Tree : /\ [t EXCEPT !.manifest = b.manifest] \in Tree
                      /\ [t EXCEPT !.user = b.user] \in Tree
  BY DEF Tree
<1>4. /\ [t EXCEPT !.manifest = "bad"] \in Tree
      /\ [t EXCEPT !.manifest = "none"] \in Tree /\ [t EXCEPT !.user = "none"] \in Tree
      /\ [t EXCEPT !.modules = "none"] \in Tree
  BY DEF Tree
<1>5. RemovalSteps(t) \subseteq Tree
  BY <1>1, <1>2, <1>4 DEF RemovalSteps
<1>6. Outdated(t) \in Tree
  BY DEF Outdated, Tree
<1>7. Commanded(t) \subseteq Tree
  <2> SUFFICES ASSUME NEW m \in {"old", "new", "bad"}, NEW n \in {"none", "new", "bad"},
                      NEW u \in {t.user, "bad"}
               PROVE  [t EXCEPT !.manifest = m, !.modules = n, !.user = u] \in Tree
    BY DEF Commanded
  <2> QED
    BY DEF Tree
<1> QED
  BY <1>2, <1>3, <1>4, <1>5, <1>6, <1>7

\* Every variable keeps its type, with none of the provisos above: TypeOK of
\* ProfileReconcile.
THEOREM TypeCorrect == Spec => []TypeOK
<1>1. Init => TypeOK
  <2>1. Missing \in Tree /\ OldProfile \in Tree /\ SyncedProfile \in Tree BY TreesMade
  <2>2. 0 \in 0..MaxFaults BY ProfileReconcileAssumption
  <2>3. "idle" \in PC BY DEF PC
  <2> QED BY <2>1, <2>2, <2>3 DEF Init, TypeOK
<1>2. TypeOK /\ [Next]_vars => TypeOK'
  <2> SUFFICES ASSUME TypeOK, [Next]_vars
               PROVE  TypeOK'
    OBVIOUS
  <2> USE TreesMade DEF TypeOK
  <2>a. MaxFaults \in Nat BY ProfileReconcileAssumption
  <2>1. ASSUME NEW l \in PC, Goto(l) \/ Throws(l)
        PROVE  pc' \in PC /\ faults' \in 0..MaxFaults
    BY <2>a, <2>1 DEF Goto, Throws
  <2>2. CASE Start \/ Return \/ Crash
    <3>1. Goto("restore") \/ Goto("idle") \/ Throws("idle")
      BY <2>2 DEF Start, Return, Crash
    <3>2. pc' \in PC /\ faults' \in 0..MaxFaults BY <2>1, <3>1 DEF PC
    <3> QED BY <2>2, <3>2 DEF Start, Return, Crash
  <2>3. CASE Upgrade \/ DshSeeds \/ OrphanWrites \/ OrphanEnds
    BY <2>3 DEF Upgrade, DshSeeds, OrphanWrites, OrphanEnds
  <2>4. CASE Work
    <3>0. orphan' = orphan BY <2>4 DEF Work
    <3>1. CASE RestoreNothing \/ ChooseSide
      BY <3>0, <2>1, <3>1 DEF RestoreNothing, ChooseSide, PC
    <3>2. CASE Purge \/ Cleanup
      BY <3>0, <2>1, <3>2 DEF Purge, Cleanup, RemoveBackup, PC
    <3>3. CASE Undo \/ Rollback
      BY <3>0, <2>1, <3>3 DEF Undo, Rollback, MoveBack, PC
    <3>4. CASE Seed \/ Preflight \/ TakeBackup
      BY <3>0, <2>1, <3>4 DEF Seed, Preflight, TakeBackup, PC
    <3>5. CASE Copy BY <3>0, <2>1, <3>5 DEF Copy, PC
    <3>6. CASE RunCommands \/ CommandsEnd \/ Verify \/ Inspect
      BY <3>0, <2>1, <3>6 DEF RunCommands, CommandsEnd, Verify, Inspect, PC
    <3>7. CASE Disable \/ Quarantine \/ Recheck
      BY <3>0, <2>1, <3>7 DEF Disable, Quarantine, Recheck, TakeOff, PC
    <3>8. CASE CreateMarker \/ WriteMarker
      BY <3>0, <2>1, <3>8 DEF CreateMarker, WriteMarker, PC
    <3> QED BY <2>4, <3>1, <3>2, <3>3, <3>4, <3>5, <3>6, <3>7, <3>8 DEF Work
  <2>5. CASE UNCHANGED vars BY <2>5 DEF vars
  <2> QED BY <2>2, <2>3, <2>4, <2>5 DEF Next
<1> QED BY <1>1, <1>2, PTL DEF Spec
=============================================================================
