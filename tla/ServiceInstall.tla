---------------------------- MODULE ServiceInstall ----------------------------
(***************************************************************************)
(* Installing and removing the system service on Unix: the protected copy  *)
(* of the program, its backup while it is replaced, and the descriptor     *)
(* that makes the service manager run it (service.rs).                     *)
(*                                                                         *)
(* Every call to the file system may fail, and the process or the machine  *)
(* may stop between any two.  A rename or removal reaches the disk when    *)
(* a directory is synced, or earlier, in the order of the calls, as on a   *)
(* journaling file system: a power loss leaves the files as they were at   *)
(* the last sync or after some of the calls since.                         *)
(*                                                                         *)
(* Left out: what is written where (the content of descriptor and stage,   *)
(* owners and modes, which only make a step fail), the parent directory,   *)
(* firewall and service manager, and the Windows variant.                  *)
(***************************************************************************)
EXTENDS Naturals

CONSTANTS
  Versions,     \* programs that setup installs
  None,         \* no such file
  MaxInstalls   \* bound: installations started

VARIABLES
  fs,          \* the protected directory, and whether the unit or plist exists
  disk,        \* what a power loss may leave of them
  step,        \* the call that comes next, or idle
  update,      \* UnixProtectedBinaryUpdate
  installs,    \* installations so far: names the backup of this one
  prior,       \* what the installation replaces (history)
  result,      \* of the last installation past its checks (history)
  faults       \* what failed in it (history)

vars == <<fs, disk, step, update, installs, prior, result, faults>>

Dest == 0
Names == 0..MaxInstalls
FileSystem == [dir : [Names -> Versions \cup {None}], descriptor : BOOLEAN]

ASSUME InstallAssumption == MaxInstalls \in Nat /\ None \notin Versions

InstallSteps == {"staged", "publish", "published", "configure", "commit",
                 "unlink", "final", "remove", "restore", "sync"}
UninstallSteps == {"unload", "delete"}

\* backup is the name of the backup, or Dest for none.  Unless finished, Drop
\* rolls back; again is true while rollback itself runs, whose failure leaves
\* the update to Drop.
Update == [new : Versions \cup {None}, backup : Names, again : BOOLEAN]

TypeOK ==
  /\ fs \in FileSystem
  /\ disk \subseteq FileSystem /\ fs \in disk
  /\ step \in InstallSteps \cup UninstallSteps \cup {"idle"}
  /\ update \in Update
  /\ installs \in 0..MaxInstalls
  /\ prior \in Versions \cup {None}
  /\ result \in {"none", "ok", "failed"}
  /\ faults \subseteq {"configure", "final", "undo", "undo sync"}

Init ==
  /\ \E v \in Versions \cup {None} :
       /\ fs = [dir |-> [n \in Names |-> IF n = Dest THEN v ELSE None],
                 descriptor |-> v # None]
       /\ prior = v
  /\ disk = {fs}
  /\ step = "idle"
  /\ update = [new |-> None, backup |-> Dest, again |-> FALSE]
  /\ installs = 0
  /\ result = "none"
  /\ faults = {}

-----------------------------------------------------------------------------
(* The file system *)

\* A call that a power loss may still undo.
Change(f) == fs' = f /\ disk' = disk \cup {f}

Create(name, v) == Change([fs EXCEPT !.dir[name] = v])
Remove(name) == Change([fs EXCEPT !.dir[name] = None])
Rename(from, to) == Change([fs EXCEPT !.dir[to] = fs.dir[from], !.dir[from] = None])

sync_parent_directory == disk' = {fs} /\ UNCHANGED fs

\* The descriptor is written and synced, or only written.
write_descriptor ==
  /\ fs' = [fs EXCEPT !.descriptor = TRUE]
  /\ disk' \in {{fs'}, disk \cup {fs'}}

Fails == UNCHANGED <<fs, disk>>

\* The installation ends in an error.
Return(error) ==
  /\ step' = "idle"
  /\ result' = "failed"
  /\ faults' = faults \cup error

-----------------------------------------------------------------------------
(* begin_unix_protected_binary_update_at *)

\* The checks, a sync of the directory, the stage and its verification: a
\* failure removes nothing.
install(v) ==
  /\ step = "idle"
  /\ installs < MaxInstalls
  /\ installs' = installs + 1
  /\ \/ /\ sync_parent_directory
        /\ step' = "staged"
        /\ update' = [new |-> v, backup |-> Dest, again |-> FALSE]
        /\ prior' = fs.dir[Dest]
        /\ result' = "none"
        /\ faults' = {}
     \/ /\ sync_parent_directory \/ Fails
        /\ UNCHANGED <<step, update, prior, result, faults>>

\* The installed program, if any, becomes the backup.
MoveToBackup ==
  /\ step = "staged"
  /\ \/ /\ fs.dir[Dest] = None
        /\ step' = "publish"
        /\ UNCHANGED <<fs, disk, update, result, faults>>
     \/ /\ fs.dir[Dest] # None
        /\ Rename(Dest, installs)
        /\ update' = [update EXCEPT !.backup = installs]
        /\ step' = "publish"
        /\ UNCHANGED <<result, faults>>
     \/ /\ fs.dir[Dest] # None
        /\ Fails /\ Return({})
        /\ UNCHANGED update
  /\ UNCHANGED <<installs, prior>>

\* The stage: a copy of the source, synced and compared with it by its hash.
Staged == update.new

\* persist_noclobber publishes the stage; if it fails the backup is moved
\* back, and an error of that is ignored.
Publish ==
  /\ step = "publish"
  /\ \/ /\ Create(Dest, Staged)
        /\ step' = "published"
        /\ UNCHANGED <<result, faults>>
     \/ /\ update.backup # Dest
        /\ Rename(update.backup, Dest)
        /\ Return({})
     \/ Fails /\ Return(IF update.backup = Dest THEN {} ELSE {"undo"})
  /\ UNCHANGED <<update, installs, prior>>

\* Sync the directory, or roll back.
SyncPublished ==
  /\ step = "published"
  /\ \/ /\ sync_parent_directory
        /\ step' = "configure"
        /\ UNCHANGED update
     \/ /\ Fails
        /\ step' = "remove"
        /\ update' = [update EXCEPT !.again = TRUE]
  /\ UNCHANGED <<installs, prior, result, faults>>

-----------------------------------------------------------------------------
(* install, with the program published *)

\* Descriptor, enabling, restart and validation succeed; or one of them fails,
\* before the descriptor is written or after, and the program is rolled back.
Configure ==
  /\ step = "configure"
  /\ \/ /\ write_descriptor /\ disk' = {fs'}
        /\ step' = "commit"
        /\ UNCHANGED <<update, faults>>
     \/ /\ write_descriptor \/ Fails
        /\ step' = "remove"
        /\ update' = [update EXCEPT !.again = TRUE]
        /\ faults' = faults \cup {"configure"}
  /\ UNCHANGED <<installs, prior, result>>

\* UnixProtectedBinaryUpdate::commit: sync, or leave the rollback to Drop.
commit ==
  /\ step = "commit"
  /\ \/ /\ sync_parent_directory
        /\ IF update.backup = Dest
           THEN step' = "idle" /\ result' = "ok"
           ELSE step' = "unlink" /\ UNCHANGED result
     \/ Fails /\ step' = "remove" /\ UNCHANGED result
  /\ UNCHANGED <<update, installs, prior, faults>>

\* Remove the backup, or leave the rollback to Drop.
Unlink ==
  /\ step = "unlink"
  /\ \/ Remove(update.backup) /\ step' = "final"
     \/ Fails /\ step' = "remove"
  /\ UNCHANGED <<update, installs, prior, result, faults>>

\* Fault: the update is finished only after the last sync.
FinalSync_DropsUpdate ==
  /\ step = "final"
  /\ \/ sync_parent_directory /\ step' = "idle" /\ result' = "ok"
     \/ Fails /\ step' = "remove" /\ UNCHANGED result
  /\ UNCHANGED <<update, installs, prior, faults>>

\* Fault: the removal of the backup is not synced.
FinalSync_None ==
  /\ step = "final"
  /\ Fails /\ step' = "idle" /\ result' = "ok"
  /\ UNCHANGED <<update, installs, prior, faults>>

\* The update is finished; the last sync may fail, and the program stays.
FinalSync ==
  /\ step = "final"
  /\ \/ /\ sync_parent_directory
        /\ step' = "idle" /\ result' = "ok"
        /\ UNCHANGED faults
     \/ Fails /\ Return({"final"})
  /\ UNCHANGED <<update, installs, prior>>

-----------------------------------------------------------------------------
(* rollback_inner: as rollback, or as Drop, which ignores its result *)

\* A step of it fails: rollback returns with the update unfinished, so Drop
\* starts over; Drop gives up.
RollbackFails(error) ==
  /\ Fails
  /\ faults' = faults \cup error
  /\ \/ /\ update.again
        /\ update' = [update EXCEPT !.again = FALSE]
        /\ step' = "remove"
        /\ UNCHANGED result
     \/ /\ ~update.again
        /\ step' = "idle" /\ result' = "failed"
        /\ UNCHANGED update

RemovePublished ==
  /\ step = "remove"
  /\ \/ /\ Remove(Dest)
        /\ step' = "restore"
        /\ UNCHANGED <<update, result, faults>>
     \/ fs.dir[Dest] # None /\ RollbackFails({"undo"})
  /\ UNCHANGED <<installs, prior>>

\* Fault: the backup stays where it is.
RestoreBackup_Skipped ==
  /\ step = "restore"
  /\ step' = "sync"
  /\ UNCHANGED <<fs, disk, update, installs, prior, result, faults>>

\* The backup, if the update has one, is moved back; it may be gone.
RestoreBackup ==
  /\ step = "restore"
  /\ \/ /\ update.backup = Dest
        /\ step' = "sync"
        /\ UNCHANGED <<fs, disk, update, result, faults>>
     \/ /\ update.backup # Dest /\ fs.dir[update.backup] # None
        /\ Rename(update.backup, Dest)
        /\ step' = "sync"
        /\ UNCHANGED <<update, result, faults>>
     \/ update.backup # Dest /\ RollbackFails({"undo"})
  /\ UNCHANGED <<installs, prior>>

SyncRestored ==
  /\ step = "sync"
  /\ \/ /\ sync_parent_directory
        /\ Return({})
        /\ UNCHANGED update
     \/ RollbackFails({"undo sync"})
  /\ UNCHANGED <<installs, prior>>

-----------------------------------------------------------------------------
(* uninstall *)

\* Fault: the program is removed while the descriptor still names it.
uninstall_BinaryFirst ==
  /\ step = "idle"
  /\ Remove(Dest)
  /\ step' = "unload"
  /\ UNCHANGED <<update, installs, prior, result, faults>>

\* Stop and disable; errors are ignored.
uninstall ==
  /\ step = "idle"
  /\ step' = "unload"
  /\ UNCHANGED <<fs, disk, update, installs, prior, result, faults>>

\* Remove the descriptor and reload the service manager, or return.
RemoveDescriptor ==
  /\ step = "unload"
  /\ \/ Change([fs EXCEPT !.descriptor = FALSE]) /\ step' \in {"delete", "idle"}
     \/ Fails /\ step' = "idle"
  /\ UNCHANGED <<update, installs, prior, result, faults>>

\* Remove the program, or return: a removal that fails changes nothing.
remove_protected_service_binary ==
  /\ step = "delete"
  /\ step' = "idle"
  /\ \/ /\ Remove(Dest)
        /\ prior' = None
        /\ update' = [update EXCEPT !.new = None]
     \/ Fails /\ UNCHANGED <<prior, update>>
  /\ UNCHANGED <<installs, result, faults>>

-----------------------------------------------------------------------------
(* Crashes *)

Installing == step \in InstallSteps

Crash(f) ==
  /\ step' = "idle"
  /\ fs' = f
  /\ result' = IF Installing THEN "failed" ELSE result
  /\ UNCHANGED <<installs, prior, update>>

\* The process is killed: nothing is dropped, the directory stays.
ProcessCrash ==
  /\ step # "idle"
  /\ Crash(fs)
  /\ faults' = IF Installing THEN faults \cup {"undo"} ELSE faults
  /\ UNCHANGED disk

PowerLoss ==
  /\ \E f \in disk : Crash(f) /\ disk' = {f}
  /\ faults' = IF Installing \/ fs' # fs THEN faults \cup {"undo"} ELSE faults

Install ==
  \/ \E v \in Versions : install(v)
  \/ MoveToBackup \/ Publish \/ SyncPublished
  \/ Configure \/ commit \/ Unlink \/ FinalSync
  \/ RemovePublished \/ RestoreBackup \/ SyncRestored

Uninstall == uninstall \/ RemoveDescriptor \/ remove_protected_service_binary

Next == Install \/ Uninstall \/ ProcessCrash \/ PowerLoss

Spec == Init /\ [][Next]_vars

-----------------------------------------------------------------------------
(* Properties *)

\* The replaced program or its replacement is in the directory, under its own
\* name or as the backup of this installation.
HasCopy(f) ==
  \E n \in {Dest, update.backup} : f.dir[n] \in {prior, update.new} \ {None}

\* Replacing a program never leaves the machine without a complete one,
\* whatever fails, wherever the installation is killed and whatever a power
\* loss makes of the directory, unless the sync that ends a rollback fails:
\* begin_unix_protected_binary_update_at, commit and rollback_inner remove a
\* copy only when the other is safely on the disk.
CopySurvives ==
  prior # None /\ "undo sync" \notin faults => \A f \in disk : HasCopy(f)

\* An installation that fails leaves the program it found in place, unless
\* undoing it failed too or the backup was already removed, until it is
\* uninstalled: the rollback of install, of
\* begin_unix_protected_binary_update_at and of Drop.
FailedInstallRestores ==
  result = "failed" /\ ~Installing /\ faults \cap {"undo", "undo sync", "final"} = {}
  => fs.dir[Dest] = prior

\* When install reports success, no power loss can bring the old program or
\* its backup back: commit syncs before and after it removes the backup.
SuccessIsDurable ==
  result = "ok" /\ update.new # None
  => \A f \in disk :
       /\ f.dir[Dest] = update.new
       /\ update.backup # Dest => f.dir[update.backup] = None

\* From a successful installation to the end of an uninstallation, whatever
\* fails in it, a descriptor never names a program that is gone: uninstall
\* removes the descriptor before the program.
DescriptorHasProgram ==
  result = "ok" => \A f \in disk : f.descriptor => f.dir[Dest] # None

\* "The protected copy is restored on failure" (service.rs, install): a failed
\* installation leaves at least a copy of a program.  It does not when the sync
\* of the rollback fails: Drop then rolls back again, removes the restored
\* program and finds no backup.
FailedInstallKeepsCopy ==
  result = "failed" /\ step = "idle" /\ prior # None => HasCopy(fs)

=============================================================================
