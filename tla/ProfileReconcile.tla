------------------------- MODULE ProfileReconcile -------------------------
(***************************************************************************)
(* ensureOfficialProfile, restoreReconcileBackup and rollbackReconcile of   *)
(* apps/cli/src/app.ts: bringing the Web profile to the plugin snapshot of  *)
(* this xtz as a transaction on the file system.  The caller holds the      *)
(* lifecycle lock (module XtzLock), so one process at a time is in here;    *)
(* it may die between any two file operations, and any of them may throw.   *)
(*                                                                          *)
(* A directory is abstracted to the pieces a half-done copy or removal can  *)
(* tell apart.  A piece is "old" as the user had it, "new" as this xtz      *)
(* wants it, "bad" half-written or altered, or not there.                   *)
(***************************************************************************)
EXTENDS Naturals

CONSTANTS
  MaxFaults,        \* bound on crashes and on file operations that throw
  LateWriteErrors,  \* whether writeText may reject after the last byte (close)
  OrphanCommands,   \* whether a dsh command may outlive the xtz that ran it
  Unloadable        \* whether an extra plugin of the user's may not load

ASSUME ProfileReconcileAssumption ==
  /\ MaxFaults \in Nat
  /\ {LateWriteErrors, OrphanCommands, Unloadable} \subseteq BOOLEAN

VARIABLES
  profile,   \* profiles/web
  backup,    \* profiles/.web-reconcile-backup
  pc,        \* where ensureOfficialProfile is; "idle": no xtz start is running
  orphan,    \* a dsh command is at work on profiles/web without its xtz
  faults     \* crashes and failed file operations so far

vars == <<profile, backup, pc, orphan, faults>>

-----------------------------------------------------------------------------
(* Directories *)

Pieces == {"manifest", "user", "modules"}

\* manifest: package.json and lock files; user: patch, vendor and other files;
\* modules: node_modules; marker: .xiaotaozi-reconcile-committed.
Tree == [exists : BOOLEAN, manifest : {"none", "old", "new", "bad"},
         user : {"none", "old", "bad"}, modules : {"none", "old", "new", "bad"},
         marker : {"none", "torn", "valid"}]

Directory(m, u, n) ==
  [exists |-> TRUE, manifest |-> m, user |-> u, modules |-> n, marker |-> "none"]

Missing == [exists |-> FALSE, manifest |-> "none", user |-> "none",
            modules |-> "none", marker |-> "none"]
EmptyDirectory == Directory("none", "none", "none")
OldProfile == Directory("old", "old", "old")
SyncedProfile == Directory("new", "old", "new")

\* removeTree, one piece at a time in any order, the directory itself last.
RemovalSteps(t) ==
  {u \in {[t EXCEPT !.manifest = "none"], [t EXCEPT !.user = "none"],
          [t EXCEPT !.modules = "none"], [t EXCEPT !.marker = "none"]} : u # t}
  \cup (IF t = EmptyDirectory THEN {Missing} ELSE {})

\* A profile with nothing missing, mixed up or altered.
Whole(t) == t.exists /\ t.user = "old" /\ t.manifest = t.modules
                     /\ t.manifest \in {"old", "new"}

Synced(t) == t.manifest = "new" /\ t.modules = "new"

Validated(t) == Synced(t) /\ t.user = "old"

\* Mutant: a marker counts as soon as the file is there.
TrustedTorn(t) == t.exists /\ t.marker # "none"

\* parseProfileManifest of the marker: writer "xtz", state "committed".
Trusted(t) == t.exists /\ t.marker = "valid"

PC == {"idle", "restore", "purge", "undo", "check", "copy", "sync", "verify",
       "disable", "inspect", "mark", "marking", "cleanup", "rollback",
       "quarantine", "recheck", "done", "failed"}

TypeOK ==
  /\ profile \in Tree
  /\ backup \in Tree
  /\ pc \in PC
  /\ orphan \in BOOLEAN
  /\ faults \in 0..MaxFaults

-----------------------------------------------------------------------------
(* Starting, failing, dying *)

Goto(l) == pc' = l /\ UNCHANGED faults

\* A file operation throws; `l` is where the handler leads.
Throws(l) == faults < MaxFaults /\ faults' = faults + 1 /\ pc' = l

Init ==
  /\ profile \in {Missing, OldProfile, SyncedProfile}
  /\ backup = Missing
  /\ pc = "idle"
  /\ orphan = FALSE
  /\ faults = 0

Start == pc = "idle" /\ Goto("restore") /\ UNCHANGED <<profile, backup, orphan>>

Return ==
  /\ pc \in {"done", "failed"} /\ Goto("idle")
  /\ UNCHANGED <<profile, backup, orphan>>

\* executeDsh spawns an ordinary child: killing xtz does not kill it.
Crash ==
  /\ pc # "idle" /\ Throws("idle")
  /\ \/ UNCHANGED orphan
     \/ pc = "sync" /\ OrphanCommands /\ orphan' = TRUE
  /\ UNCHANGED <<profile, backup>>

\* A newer xtz is installed between two starts.
Outdated(t) ==
  [t EXCEPT !.manifest = IF @ = "new" THEN "old" ELSE @,
            !.modules  = IF @ = "new" THEN "old" ELSE @]

Upgrade ==
  /\ pc = "idle"
  /\ profile' = Outdated(profile) /\ backup' = Outdated(backup)
  /\ UNCHANGED <<pc, orphan, faults>>

\* Outside xtz, a plain dsh creates the default profile where there is none.
DshSeeds ==
  /\ pc = "idle" /\ ~profile.exists
  /\ profile' = OldProfile
  /\ UNCHANGED <<backup, pc, orphan, faults>>

\* What `dsh plugin` and pnpm can make of the profile they are run on.
Commanded(t) ==
  {[t EXCEPT !.manifest = m, !.modules = n, !.user = u] :
     m \in {"old", "new", "bad"}, n \in {"none", "new", "bad"}, u \in {t.user, "bad"}}

\* It also makes the directory again when that has been moved away or removed.
OrphanWrites ==
  /\ orphan
  /\ profile' \in IF profile.exists THEN Commanded(profile)
                   ELSE {EmptyDirectory} \cup Commanded(EmptyDirectory)
  /\ UNCHANGED <<backup, pc, orphan, faults>>

OrphanEnds == orphan /\ orphan' = FALSE /\ UNCHANGED <<profile, backup, pc, faults>>

-----------------------------------------------------------------------------
(* restoreReconcileBackup *)

RestoreNothing ==
  /\ pc = "restore" /\ ~backup.exists
  /\ \/ profile.marker = "none" /\ Goto("check") /\ UNCHANGED profile
     \/ /\ profile.marker # "none"
        /\ \/ profile' = [profile EXCEPT !.marker = "none"] /\ Goto("check")
           \/ Throws("failed") /\ UNCHANGED profile
  /\ UNCHANGED backup

\* The marker decides which of the two directories is the good one; reading it
\* may throw.
ChooseSide ==
  /\ pc = "restore" /\ backup.exists
  /\ \/ Goto(IF Trusted(profile) THEN "purge" ELSE "undo")
     \/ profile.marker # "none" /\ Throws("failed")
  /\ UNCHANGED <<profile, backup>>

\* Mutant: the marker stays when the backup is gone.
RemoveBackupOnly(at, after) ==
  /\ pc = at
  /\ \/ /\ backup.exists /\ backup' \in RemovalSteps(backup)
        /\ UNCHANGED <<profile, pc, faults>>
     \/ /\ ~backup.exists
        /\ Goto(after) /\ UNCHANGED <<profile, backup>>
     \/ Throws("failed") /\ UNCHANGED <<profile, backup>>

\* removeTree(backup); removePath(committed): on the way in for a transaction
\* that committed before, and as the end of this one.
RemoveBackup(at, after) ==
  /\ pc = at
  /\ \/ /\ backup.exists /\ backup' \in RemovalSteps(backup)
        /\ UNCHANGED <<profile, pc, faults>>
     \/ /\ ~backup.exists
        /\ profile' = [profile EXCEPT !.marker = "none"]
        /\ Goto(after) /\ UNCHANGED backup
     \/ Throws("failed") /\ UNCHANGED <<profile, backup>>

Purge == RemoveBackup("purge", "check")
Cleanup == RemoveBackup("cleanup", "recheck")

\* removeTree(profile); movePath(backup, profile).  Either throws when an orphan
\* puts files back between.
MoveBack(at, after) ==
  /\ pc = at
  /\ \/ /\ profile.exists /\ profile' \in RemovalSteps(profile)
        /\ UNCHANGED <<backup, pc, faults>>
     \/ /\ ~profile.exists
        /\ profile' = backup /\ backup' = Missing
        /\ Goto(after)
     \/ orphan /\ profile.exists /\ Goto("failed") /\ UNCHANGED <<profile, backup>>
     \/ Throws("failed") /\ UNCHANGED <<profile, backup>>

Undo == MoveBack("undo", "check")
Rollback == MoveBack("rollback", "failed")

-----------------------------------------------------------------------------
(* ensureOfficialProfile after the restore, and the launch *)

\* `dsh web --dump-default-config` writes the default profile, or fails.
Seed ==
  /\ pc = "check" /\ profile.manifest = "none"
  /\ \/ profile' = OldProfile /\ Goto("check")
     \/ Goto("failed") /\ UNCHANGED profile
  /\ UNCHANGED backup

\* inspectProfile and the snapshot of the user's files may refuse to go on.
Preflight ==
  /\ pc = "check" /\ profile.manifest # "none"
  /\ \/ Synced(profile) /\ Goto("quarantine")
     \/ Goto("failed")
  /\ UNCHANGED <<profile, backup>>

\* movePath(profileDir, backup): one rename.
TakeBackup ==
  /\ pc = "check" /\ profile.manifest # "none" /\ ~Synced(profile)
  /\ \/ /\ ~backup.exists
        /\ backup' = profile /\ profile' = Missing
        /\ Goto("copy")
     \/ backup.exists /\ Goto("failed") /\ UNCHANGED <<profile, backup>>
     \/ Throws("failed") /\ UNCHANGED <<profile, backup>>

\* copyProfile: everything but node_modules and the marker, piece by piece.
Copy ==
  /\ pc = "copy"
  /\ \/ /\ ~profile.exists /\ profile' = EmptyDirectory
        /\ UNCHANGED <<pc, faults>>
     \/ /\ profile.exists
        /\ \/ /\ profile.manifest # backup.manifest
              /\ profile' = [profile EXCEPT !.manifest = backup.manifest]
           \/ /\ profile.user # backup.user
              /\ profile' = [profile EXCEPT !.user = backup.user]
        /\ UNCHANGED <<pc, faults>>
     \/ /\ profile.exists /\ profile.manifest = backup.manifest
        /\ profile.user = backup.user
        /\ Goto("sync") /\ UNCHANGED profile
     \/ Throws("rollback") /\ UNCHANGED profile
  /\ UNCHANGED backup

\* allowOfficialBuilds, addOfficialPlugins with its retry, removal of retired
\* plugins: external commands at work on the candidate, wherever they get to.
RunCommands ==
  /\ pc = "sync"
  /\ profile' \in Commanded(profile)
  /\ UNCHANGED <<backup, pc, faults>>

CommandsEnd ==
  /\ pc = "sync"
  /\ Goto("verify") \/ Goto("rollback")
  /\ UNCHANGED <<profile, backup>>

\* Mutant: the manifest is compared, the snapshot of the files is not.
PreservedManifest(t) == t.manifest \notin {"none", "bad"}

\* The part of the manifest and the files that are not ours are as they were.
Preserved(t) == t.manifest \notin {"none", "bad"} /\ t.user = "old"

Verify ==
  /\ pc = "verify"
  /\ Goto(IF Preserved(profile) THEN "disable" ELSE "rollback")
  /\ UNCHANGED <<profile, backup>>

\* applyExtraPluginQuarantine takes extra plugins that do not load off the bundle
\* list: it writes package.json in place, which an error or a crash cuts short.
TakeOff(at, after, failed) ==
  /\ pc = at
  /\ \/ Goto(after) /\ UNCHANGED profile
     \/ Throws(failed) /\ UNCHANGED profile
     \/ /\ Unloadable /\ Throws(failed)
        /\ profile' = [profile EXCEPT !.manifest = "bad"]
  /\ UNCHANGED backup

\* On the candidate of a synchronisation, while the backup is there.
Disable == TakeOff("disable", "inspect", "rollback")

\* By launchUnlocked, on a profile found up to date: no backup was made of it, and
\* a plugin may have been added or broken since the start that synchronised it.
Quarantine == TakeOff("quarantine", "done", "failed")

\* By launchUnlocked after a synchronisation: Disable has taken off what the same
\* inspection would find, so nothing is left to write.
Recheck ==
  /\ pc = "recheck"
  /\ Goto("done") \/ Throws("failed")
  /\ UNCHANGED <<profile, backup>>

\* inspectProfile and `dsh web --dump-config` on the candidate.
Inspect ==
  /\ pc = "inspect"
  /\ \/ Synced(profile) /\ Goto("mark")
     \/ Goto("rollback")
  /\ UNCHANGED <<profile, backup>>

\* Mutant: the write is not awaited before the cleanup.
CreateMarkerEarly ==
  /\ pc = "mark"
  /\ profile' = [profile EXCEPT !.marker = "torn"] /\ Goto("cleanup")
  /\ UNCHANGED backup

\* writeText(committed): the file is created first and then written.
CreateMarker ==
  /\ pc = "mark"
  /\ \/ profile' = [profile EXCEPT !.marker = "torn"] /\ Goto("marking")
     \/ Throws("rollback") /\ UNCHANGED profile
  /\ UNCHANGED backup

WriteMarker ==
  /\ pc = "marking"
  /\ \/ profile' = [profile EXCEPT !.marker = "valid"] /\ Goto("cleanup")
     \/ Throws("rollback") /\ UNCHANGED profile
     \/ /\ LateWriteErrors
        /\ profile' = [profile EXCEPT !.marker = "valid"] /\ Throws("rollback")
  /\ UNCHANGED backup

-----------------------------------------------------------------------------
\* The steps of a running xtz.
Work ==
  /\ \/ RestoreNothing \/ ChooseSide \/ Purge \/ Undo \/ Seed \/ Preflight
     \/ TakeBackup \/ Copy \/ RunCommands \/ CommandsEnd \/ Verify \/ Disable
     \/ Inspect \/ CreateMarker \/ WriteMarker \/ Cleanup \/ Rollback \/ Quarantine
     \/ Recheck
  /\ UNCHANGED orphan

Next ==
  \/ Start \/ Work \/ Return \/ Crash
  \/ Upgrade \/ DshSeeds \/ OrphanWrites \/ OrphanEnds

Spec == Init /\ [][Next]_vars

\* Every await settles and every external command ends.
FairSpec ==
  /\ Spec
  /\ WF_vars(Work) /\ WF_vars(CommandsEnd /\ UNCHANGED orphan) /\ WF_vars(OrphanEnds)

-----------------------------------------------------------------------------
(* Properties *)

\* What the next start will end up with: the side restoreReconcileBackup picks.
Effective ==
  LET t == IF backup.exists /\ ~Trusted(profile) THEN backup ELSE profile IN
  IF ~t.exists THEN "none"
  ELSE IF Validated(t) THEN "new"
  ELSE IF Whole(t) THEN "old"
  ELSE "broken"

\* Through every crash, failed operation and retry the profile the user can get
\* back changes from whole to whole in single steps.
Atomic == INSTANCE AtomicProfile WITH profile <- Effective
AtomicSync == Atomic!Spec

\* Never delete the last complete profile: once there is a profile, one of the
\* two directories is whole at every instant.
LastCompleteKept ==
  profile.exists \/ backup.exists => Whole(profile) \/ Whole(backup)

\* The commit marker never stands in a directory that is not the validated one,
\* so restoreReconcileBackup may discard the backup on its word.
MarkerOnlyOnWhole == profile.marker = "valid" => Whole(profile)

\* The start that goes on to spawn the server has the synchronised profile with
\* all of the user's files, and no transaction is left open behind it.
LaunchesValidated ==
  pc = "done" => Validated(profile) /\ profile.marker = "none" /\ ~backup.exists

\* A start that meets no further fault leaves no transaction behind, whatever
\* the earlier ones and the commands that outlived them left: it commits, rolls
\* back or finishes what was begun.  One that meets such a command still at work
\* may fail over it, and leaves the rest to the next.
StartsConverge ==
  pc = "restore" /\ faults = MaxFaults /\ ~orphan
    ~> pc \in {"done", "failed"} /\ ~backup.exists /\ profile.marker = "none"
=============================================================================
