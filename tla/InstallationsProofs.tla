------------------------- MODULE InstallationsProofs -------------------------
(***************************************************************************)
(* Proofs about ServiceInstall for any programs and any number of          *)
(* installations, and about a machine of either kind, whose steps are      *)
(* those of ServiceInstall or of WindowsService.                           *)
(***************************************************************************)
EXTENDS Installations, TLAPS

\* An installation has a program to publish and a name for the backup.
InProgress ==
  Installing => result = "none" /\ update.new \in Versions /\ installs # Dest

\* Before the first change the program is safely in its place.
BeforeBackup ==
  step = "staged" => update.backup = Dest /\ disk = {fs} /\ fs.dir[Dest] = prior

\* Until it is removed or restored, the backup is the program that was found;
\* the second rollback that a failed sync causes has none.
BackupIsPrior ==
  \/ step \in {"publish", "published", "configure", "commit", "unlink"}
  \/ step \in {"remove", "restore"} /\ "undo sync" \notin faults
  => IF update.backup = Dest
     THEN prior = None
     ELSE prior # None /\ fs.dir[update.backup] = prior

\* What is in the program's place at each step.
AtDest ==
  /\ step \in {"publish", "restore"} => fs.dir[Dest] = None
  /\ step \in {"published", "configure", "commit", "unlink", "final"} =>
       fs.dir[Dest] = update.new
  /\ step = "sync" /\ "undo sync" \notin faults => fs.dir[Dest] = prior

\* The backup is removed only when there is one, and then it is gone.
Committing ==
  /\ step \in {"unlink", "final"} => update.backup # Dest
  /\ step = "final" => fs.dir[update.backup] = None

\* The program is removed only when no descriptor names it.
Uninstalling == step = "delete" => ~fs.descriptor

Steps ==
  /\ InProgress /\ BeforeBackup /\ BackupIsPrior /\ AtDest
  /\ Committing /\ Uninstalling /\ FailedInstallRestores

\* What a power loss may leave; the properties CopySurvives, SuccessIsDurable
\* and DescriptorHasProgram for one state of the disk.
Safe(f) ==
  /\ prior # None /\ "undo sync" \notin faults =>
       \/ f.dir[Dest] \in {prior, update.new} \ {None}
       \/ f.dir[update.backup] \in {prior, update.new} \ {None}
  /\ result = "ok" /\ update.new # None =>
       /\ f.dir[Dest] = update.new
       /\ update.backup # Dest => f.dir[update.backup] = None
  /\ result = "ok" /\ f.descriptor => f.dir[Dest] # None

Safety == \A f \in disk : Safe(f)

IInv == TypeOK /\ Steps /\ Safety

-----------------------------------------------------------------------------
(* The file system *)

LEMMA DestIsName == Dest \in Names /\ Names = 0..MaxInstalls
BY InstallAssumption DEF Dest, Names

\* A name gets a program, or none; the others keep theirs.
Put(name, v) ==
  /\ fs' \in FileSystem /\ disk' = disk \cup {fs'}
  /\ fs'.descriptor = fs.descriptor
  /\ fs'.dir[name] = v
  /\ \A n \in Names \ {name} : fs'.dir[n] = fs.dir[n]

\* A program changes its name.
Moved(from, to) ==
  /\ fs' \in FileSystem /\ disk' = disk \cup {fs'}
  /\ fs'.descriptor = fs.descriptor
  /\ fs'.dir[to] = fs.dir[from] /\ fs'.dir[from] = None

LEMMA CreatePuts ==
  ASSUME TypeOK, NEW name \in Names, NEW v \in Versions \cup {None}, Create(name, v)
  PROVE  Put(name, v)
BY DEF TypeOK, FileSystem, Create, Change, Put

LEMMA RemovePuts ==
  ASSUME TypeOK, NEW name \in Names, Remove(name)
  PROVE  Put(name, None)
BY DEF TypeOK, FileSystem, Remove, Change, Put

LEMMA RenameMoves ==
  ASSUME TypeOK, NEW from \in Names, NEW to \in Names, from # to, Rename(from, to)
  PROVE  Moved(from, to)
BY DEF TypeOK, FileSystem, Rename, Change, Moved

\* The descriptor is written or removed; the directory stays.
Described(b) ==
  /\ fs' \in FileSystem /\ disk' \subseteq disk \cup {fs'} /\ fs' \in disk'
  /\ fs'.descriptor = b /\ fs'.dir = fs.dir

LEMMA WriteDescribes ==
  ASSUME TypeOK, write_descriptor
  PROVE  Described(TRUE)
BY DEF TypeOK, FileSystem, write_descriptor, Described

LEMMA RemoveDescribes ==
  ASSUME TypeOK, Change([fs EXCEPT !.descriptor = FALSE])
  PROVE  Described(FALSE)
BY DEF TypeOK, FileSystem, Change, Described

LEMMA UpdateFields ==
  ASSUME update \in Update
  PROVE  /\ update.backup \in Names /\ update.new \in Versions \cup {None}
         /\ update.again \in BOOLEAN
         /\ \A b \in BOOLEAN : LET u == [update EXCEPT !.again = b] IN
              u \in Update /\ u.new = update.new /\ u.backup = update.backup
         /\ \A b \in Names : LET u == [update EXCEPT !.backup = b] IN
              u \in Update /\ u.new = update.new /\ u.backup = b
         /\ LET u == [update EXCEPT !.new = None] IN
              u \in Update /\ u.new = None /\ u.backup = update.backup
BY DEF Update

\* A step that adds at most one state to the disk keeps it safe if that state
\* is safe and neither the update nor a success changes.
LEMMA StillSafe ==
  ASSUME Safety, Safe(fs)', disk' \subseteq disk \cup {fs'},
         update'.new = update.new, update'.backup = update.backup,
         prior' = prior, faults \subseteq faults', result' \in {result, "failed"}
  PROVE  Safety'
BY DEF Safety, Safe

\* The same for a step that leaves the files alone.
LEMMA SameFilesSafe ==
  ASSUME TypeOK, Safety, fs' = fs, disk' \subseteq disk,
         update'.new = update.new, update'.backup = update.backup,
         prior' = prior, faults \subseteq faults', result' \in {result, "failed"}
  PROVE  Safety'
BY DEF TypeOK, Safety, Safe

-----------------------------------------------------------------------------
(* Every step keeps the invariant *)

LEMMA InitIInv == Init => IInv
<1> SUFFICES ASSUME Init
             PROVE  IInv
  OBVIOUS
<1>1. PICK v \in Versions \cup {None} :
        /\ fs = [dir |-> [n \in Names |-> IF n = Dest THEN v ELSE None],
                 descriptor |-> v # None]
        /\ prior = v
  BY DEF Init
<1>2. fs.dir[Dest] = v /\ update.new = None /\ fs \in FileSystem
  BY <1>1, DestIsName DEF Init, FileSystem
<1>3. TypeOK
  BY <1>1, <1>2, DestIsName, InstallAssumption DEF Init, TypeOK, Update
<1>4. Steps
  BY DEF Init, Steps, InProgress, BeforeBackup, BackupIsPrior, AtDest, Committing,
         Uninstalling, FailedInstallRestores, Installing, InstallSteps
<1>5. Safety
  BY <1>1, <1>2 DEF Init, Safety, Safe
<1>. QED
  BY <1>3, <1>4, <1>5 DEF IInv

LEMMA BeginKeeps ==
  ASSUME NEW v \in Versions, IInv, install(v)
  PROVE  IInv'
<1>0. TypeOK /\ Steps /\ Safety /\ update \in Update /\ fs \in disk
  BY DEF IInv, TypeOK
<1>a. installs' \in 0..MaxInstalls /\ installs' # 0 /\ step = "idle"
  <2>1. installs \in 0..MaxInstalls /\ installs < MaxInstalls /\ installs' = installs + 1
    BY <1>0 DEF TypeOK, install
  <2>2. step = "idle"
    BY DEF install
  <2>. QED
    BY <2>1, <2>2, InstallAssumption
<1>. USE DestIsName, InstallAssumption
<1>b. fs.dir[Dest] \in Versions \cup {None}
  BY <1>0 DEF TypeOK, FileSystem
<1>1. CASE /\ sync_parent_directory
           /\ step' = "staged"
           /\ update' = [new |-> v, backup |-> Dest, again |-> FALSE]
           /\ prior' = fs.dir[Dest]
           /\ result' = "none"
           /\ faults' = {}
  <2>1. fs' = fs /\ disk' = {fs}
    BY <1>0, <1>1 DEF sync_parent_directory
  <2>2. update' \in Update /\ update'.new = v /\ update'.backup = Dest
    BY <1>0, <1>1 DEF Update
  <2>3. TypeOK'
    BY <1>0, <1>1, <1>a, <1>b, <2>1, <2>2 DEF TypeOK, InstallSteps, UninstallSteps
  <2>4. Steps'
    BY <1>0, <1>1, <1>a, <1>b, <2>1, <2>2 DEF Dest,
           Steps, InProgress, BeforeBackup, BackupIsPrior, AtDest, Committing,
           Uninstalling, FailedInstallRestores, Installing, InstallSteps, UninstallSteps
  <2>5. Safety'
    BY <1>0, <1>1, <1>a, <1>b, <2>1, <2>2 DEF Dest, Safety, Safe,
           Steps, InProgress, BeforeBackup, BackupIsPrior, AtDest, Committing,
           Uninstalling, FailedInstallRestores, Installing, InstallSteps, UninstallSteps
  <2>. QED
    BY <2>3, <2>4, <2>5 DEF IInv
<1>2. CASE /\ sync_parent_directory \/ Fails
           /\ UNCHANGED <<step, update, prior, result, faults>>
  <2>1. fs' = fs /\ disk' \subseteq disk /\ fs \in disk'
    BY <1>0, <1>2 DEF sync_parent_directory, Fails, TypeOK
  <2>2. update' \in Update /\ update'.new = update.new /\ update'.backup = update.backup
    BY <1>0, <1>2
  <2>3. TypeOK'
    BY <1>0, <1>2, <1>a, <2>1, <2>2 DEF TypeOK, InstallSteps, UninstallSteps
  <2>4. Steps'
    BY <1>0, <1>2, <1>a, <2>1, <2>2 DEF Dest,
           Steps, InProgress, BeforeBackup, BackupIsPrior, AtDest, Committing,
           Uninstalling, FailedInstallRestores, Installing, InstallSteps, UninstallSteps
  <2>5. Safety'
    BY <1>0, <1>2, <2>1, <2>2, SameFilesSafe
  <2>. QED
    BY <2>3, <2>4, <2>5 DEF IInv
<1>. QED
  BY <1>1, <1>2 DEF install

LEMMA MoveToBackupKeeps ==
  ASSUME IInv, MoveToBackup
  PROVE  IInv'
<1>. USE DestIsName, InstallAssumption
<1>0. TypeOK /\ Steps /\ Safety /\ update \in Update /\ fs \in disk
  BY DEF IInv, TypeOK
<1>1. CASE /\ fs.dir[Dest] = None
           /\ step' = "publish"
           /\ UNCHANGED <<fs, disk, update, result, faults>>
  <2>1. fs' = fs /\ disk' = disk
    BY <1>0, <1>1
  <2>2. update' \in Update /\ update'.new = update.new /\ update'.backup = update.backup
    BY <1>0, <1>1 DEF MoveToBackup
  <2>3. TypeOK'
    BY <1>0, <1>1, <2>1, <2>2 DEF TypeOK, MoveToBackup, Return, InstallSteps, UninstallSteps
  <2>4. Steps'
    BY <1>0, <1>1, <2>1, <2>2 DEF MoveToBackup, Return,
           Steps, InProgress, BeforeBackup, BackupIsPrior, AtDest, Committing,
           Uninstalling, FailedInstallRestores, Installing, InstallSteps, UninstallSteps
  <2>5. Safety'
    BY <1>0, <1>1, <2>1, <2>2, SameFilesSafe DEF MoveToBackup, Return
  <2>. QED
    BY <2>3, <2>4, <2>5 DEF IInv
<1>2. CASE /\ fs.dir[Dest] # None
           /\ Rename(Dest, installs)
           /\ update' = [update EXCEPT !.backup = installs]
           /\ step' = "publish"
           /\ UNCHANGED <<result, faults>>
  <2>0. update.backup \in Names /\ update.new \in Versions \cup {None} /\ installs \in Names
              /\ installs # Dest
    BY <1>0, UpdateFields DEF TypeOK, Steps, InProgress, Installing,
           InstallSteps, MoveToBackup
  <2>1. Moved(Dest, installs)
    BY <1>0, <1>2, <2>0, RenameMoves
  <2>2. update' \in Update /\ update'.new = update.new /\ update'.backup = installs
    BY <1>0, <1>2, <2>0, UpdateFields
  <2>3. TypeOK'
    BY <1>0, <1>2, <2>1, <2>2 DEF TypeOK, MoveToBackup, Return, Moved,
           InstallSteps, UninstallSteps
  <2>4. Steps'
    BY <1>0, <1>2, <2>0, <2>1, <2>2 DEF MoveToBackup, Return, Moved,
           Steps, InProgress, BeforeBackup, BackupIsPrior, AtDest, Committing,
           Uninstalling, FailedInstallRestores, Installing, InstallSteps, UninstallSteps
  <2>5. Safety'
    BY <1>0, <1>2, <2>0, <2>1, <2>2 DEF MoveToBackup, Return, Moved, Safety, Safe,
           Steps, InProgress, BeforeBackup, BackupIsPrior, AtDest, Committing,
           Uninstalling, FailedInstallRestores, Installing, InstallSteps, UninstallSteps
  <2>. QED
    BY <2>3, <2>4, <2>5 DEF IInv
<1>3. CASE /\ fs.dir[Dest] # None
           /\ Fails
           /\ Return({})
           /\ UNCHANGED update
  <2>1. fs' = fs /\ disk' = disk
    BY <1>0, <1>3 DEF Fails
  <2>2. update' \in Update /\ update'.new = update.new /\ update'.backup = update.backup
    BY <1>0, <1>3 DEF MoveToBackup
  <2>3. TypeOK'
    BY <1>0, <1>3, <2>1, <2>2 DEF TypeOK, MoveToBackup, Return, InstallSteps, UninstallSteps
  <2>4. Steps'
    BY <1>0, <1>3, <2>1, <2>2 DEF MoveToBackup, Return,
           Steps, InProgress, BeforeBackup, BackupIsPrior, AtDest, Committing,
           Uninstalling, FailedInstallRestores, Installing, InstallSteps, UninstallSteps
  <2>5. Safety'
    BY <1>0, <1>3, <2>1, <2>2, SameFilesSafe DEF MoveToBackup, Return
  <2>. QED
    BY <2>3, <2>4, <2>5 DEF IInv
<1>. QED
  BY <1>1, <1>2, <1>3 DEF MoveToBackup

LEMMA PublishKeeps ==
  ASSUME IInv, Publish
  PROVE  IInv'
<1>. USE DestIsName, InstallAssumption
<1>0. TypeOK /\ Steps /\ Safety /\ update \in Update /\ fs \in disk
  BY DEF IInv, TypeOK
<1>1. CASE /\ Create(Dest, Staged)
           /\ step' = "published"
           /\ UNCHANGED <<result, faults>>
  <2>0. update.backup \in Names /\ update.new \in Versions \cup {None} /\ installs \in Names
    BY <1>0, UpdateFields DEF TypeOK
  <2>1. Put(Dest, update.new)
    BY <1>0, <1>1, <2>0, CreatePuts DEF Staged
  <2>2. update' \in Update /\ update'.new = update.new /\ update'.backup = update.backup
    BY <1>0, <1>1 DEF Publish
  <2>3. TypeOK'
    BY <1>0, <1>1, <2>1, <2>2 DEF TypeOK, Publish, Return, Put, InstallSteps, UninstallSteps
  <2>4. Steps'
    BY <1>0, <1>1, <2>0, <2>1, <2>2 DEF Publish, Return, Put,
           Steps, InProgress, BeforeBackup, BackupIsPrior, AtDest, Committing,
           Uninstalling, FailedInstallRestores, Installing, InstallSteps, UninstallSteps
  <2>5. Safe(fs)'
    BY <1>0, <1>1, <2>0, <2>1, <2>2 DEF Publish, Return, Put, Safety, Safe,
           Steps, InProgress, BeforeBackup, BackupIsPrior, AtDest, Committing,
           Uninstalling, FailedInstallRestores, Installing, InstallSteps, UninstallSteps
  <2>6. Safety'
    BY <1>0, <1>1, <2>1, <2>2, <2>5, StillSafe DEF Publish, Return, Put
  <2>. QED
    BY <2>3, <2>4, <2>6 DEF IInv
<1>2. CASE /\ update.backup # Dest
           /\ Rename(update.backup, Dest)
           /\ Return({})
  <2>0. update.backup \in Names /\ update.new \in Versions \cup {None} /\ installs \in Names
    BY <1>0, UpdateFields DEF TypeOK
  <2>1. Moved(update.backup, Dest)
    BY <1>0, <1>2, <2>0, RenameMoves
  <2>2. update' \in Update /\ update'.new = update.new /\ update'.backup = update.backup
    BY <1>0, <1>2 DEF Publish
  <2>3. TypeOK'
    BY <1>0, <1>2, <2>1, <2>2 DEF TypeOK, Publish, Return, Moved, InstallSteps, UninstallSteps
  <2>4. Steps'
    BY <1>0, <1>2, <2>0, <2>1, <2>2 DEF Publish, Return, Moved,
           Steps, InProgress, BeforeBackup, BackupIsPrior, AtDest, Committing,
           Uninstalling, FailedInstallRestores, Installing, InstallSteps, UninstallSteps
  <2>5. Safe(fs)'
    BY <1>0, <1>2, <2>0, <2>1, <2>2 DEF Publish, Return, Moved, Safety, Safe,
           Steps, InProgress, BeforeBackup, BackupIsPrior, AtDest, Committing,
           Uninstalling, FailedInstallRestores, Installing, InstallSteps, UninstallSteps
  <2>6. Safety'
    BY <1>0, <1>2, <2>1, <2>2, <2>5, StillSafe DEF Publish, Return, Moved
  <2>. QED
    BY <2>3, <2>4, <2>6 DEF IInv
<1>3. CASE /\ Fails
           /\ Return(IF update.backup = Dest THEN {} ELSE {"undo"})
  <2>1. fs' = fs /\ disk' = disk
    BY <1>0, <1>3 DEF Fails
  <2>2. update' \in Update /\ update'.new = update.new /\ update'.backup = update.backup
    BY <1>0, <1>3 DEF Publish
  <2>3. TypeOK'
    BY <1>0, <1>3, <2>1, <2>2 DEF TypeOK, Publish, Return, InstallSteps, UninstallSteps
  <2>4. Steps'
    BY <1>0, <1>3, <2>1, <2>2 DEF Publish, Return,
           Steps, InProgress, BeforeBackup, BackupIsPrior, AtDest, Committing,
           Uninstalling, FailedInstallRestores, Installing, InstallSteps, UninstallSteps
  <2>5. Safety'
    BY <1>0, <1>3, <2>1, <2>2, SameFilesSafe DEF Publish, Return
  <2>. QED
    BY <2>3, <2>4, <2>5 DEF IInv
<1>. QED
  BY <1>1, <1>2, <1>3 DEF Publish

LEMMA SyncPublishedKeeps ==
  ASSUME IInv, SyncPublished
  PROVE  IInv'
<1>. USE DestIsName, InstallAssumption
<1>0. TypeOK /\ Steps /\ Safety /\ update \in Update /\ fs \in disk
  BY DEF IInv, TypeOK
<1>1. CASE /\ sync_parent_directory
           /\ step' = "configure"
           /\ UNCHANGED update
  <2>1. fs' = fs /\ disk' = {fs}
    BY <1>0, <1>1 DEF sync_parent_directory
  <2>2. update' \in Update /\ update'.new = update.new /\ update'.backup = update.backup
    BY <1>0, <1>1 DEF SyncPublished
  <2>3. TypeOK'
    BY <1>0, <1>1, <2>1, <2>2 DEF TypeOK, SyncPublished, Return, InstallSteps, UninstallSteps
  <2>4. Steps'
    BY <1>0, <1>1, <2>1, <2>2 DEF SyncPublished, Return,
           Steps, InProgress, BeforeBackup, BackupIsPrior, AtDest, Committing,
           Uninstalling, FailedInstallRestores, Installing, InstallSteps, UninstallSteps
  <2>5. Safety'
    BY <1>0, <1>1, <2>1, <2>2, SameFilesSafe DEF SyncPublished, Return
  <2>. QED
    BY <2>3, <2>4, <2>5 DEF IInv
<1>2. CASE /\ Fails
           /\ step' = "remove"
           /\ update' = [update EXCEPT !.again = TRUE]
  <2>1. fs' = fs /\ disk' = disk
    BY <1>0, <1>2 DEF Fails
  <2>2. update' \in Update /\ update'.new = update.new /\ update'.backup = update.backup
    BY <1>0, <1>2, UpdateFields
  <2>3. TypeOK'
    BY <1>0, <1>2, <2>1, <2>2 DEF TypeOK, SyncPublished, Return, InstallSteps, UninstallSteps
  <2>4. Steps'
    BY <1>0, <1>2, <2>1, <2>2 DEF SyncPublished, Return,
           Steps, InProgress, BeforeBackup, BackupIsPrior, AtDest, Committing,
           Uninstalling, FailedInstallRestores, Installing, InstallSteps, UninstallSteps
  <2>5. Safety'
    BY <1>0, <1>2, <2>1, <2>2, SameFilesSafe DEF SyncPublished, Return
  <2>. QED
    BY <2>3, <2>4, <2>5 DEF IInv
<1>. QED
  BY <1>1, <1>2 DEF SyncPublished

LEMMA ConfigureKeeps ==
  ASSUME IInv, Configure
  PROVE  IInv'
<1>. USE DestIsName, InstallAssumption
<1>0. TypeOK /\ Steps /\ Safety /\ update \in Update /\ fs \in disk
  BY DEF IInv, TypeOK
<1>1. CASE /\ write_descriptor
           /\ disk' = {fs'}
           /\ step' = "commit"
           /\ UNCHANGED <<update, faults>>
  <2>1. Described(TRUE)
    BY <1>0, <1>1, WriteDescribes
  <2>2. update' \in Update /\ update'.new = update.new /\ update'.backup = update.backup
    BY <1>0, <1>1 DEF Configure
  <2>3. TypeOK'
    BY <1>0, <1>1, <2>1, <2>2 DEF TypeOK, Configure, Return, Described,
           InstallSteps, UninstallSteps
  <2>4. Steps'
    BY <1>0, <1>1, <2>1, <2>2 DEF Configure, Return, Described,
           Steps, InProgress, BeforeBackup, BackupIsPrior, AtDest, Committing,
           Uninstalling, FailedInstallRestores, Installing, InstallSteps, UninstallSteps
  <2>5. Safe(fs)'
    BY <1>0, <1>1, <2>1, <2>2 DEF Configure, Return, Described, Safety, Safe,
           Steps, InProgress, BeforeBackup, BackupIsPrior, AtDest, Committing,
           Uninstalling, FailedInstallRestores, Installing, InstallSteps, UninstallSteps
  <2>6. Safety'
    BY <1>0, <1>1, <2>1, <2>2, <2>5, StillSafe DEF Configure, Return, Described
  <2>. QED
    BY <2>3, <2>4, <2>6 DEF IInv
<1>2. CASE /\ write_descriptor
           /\ step' = "remove"
           /\ update' = [update EXCEPT !.again = TRUE]
           /\ faults' = faults \cup {"configure"}
  <2>1. Described(TRUE)
    BY <1>0, <1>2, WriteDescribes
  <2>2. update' \in Update /\ update'.new = update.new /\ update'.backup = update.backup
    BY <1>0, <1>2, UpdateFields
  <2>3. TypeOK'
    BY <1>0, <1>2, <2>1, <2>2 DEF TypeOK, Configure, Return, Described,
           InstallSteps, UninstallSteps
  <2>4. Steps'
    BY <1>0, <1>2, <2>1, <2>2 DEF Configure, Return, Described,
           Steps, InProgress, BeforeBackup, BackupIsPrior, AtDest, Committing,
           Uninstalling, FailedInstallRestores, Installing, InstallSteps, UninstallSteps
  <2>5. Safe(fs)'
    BY <1>0, <1>2, <2>1, <2>2 DEF Configure, Return, Described, Safety, Safe,
           Steps, InProgress, BeforeBackup, BackupIsPrior, AtDest, Committing,
           Uninstalling, FailedInstallRestores, Installing, InstallSteps, UninstallSteps
  <2>6. Safety'
    BY <1>0, <1>2, <2>1, <2>2, <2>5, StillSafe DEF Configure, Return, Described
  <2>. QED
    BY <2>3, <2>4, <2>6 DEF IInv
<1>3. CASE /\ Fails
           /\ step' = "remove"
           /\ update' = [update EXCEPT !.again = TRUE]
           /\ faults' = faults \cup {"configure"}
  <2>1. fs' = fs /\ disk' = disk
    BY <1>0, <1>3 DEF Fails
  <2>2. update' \in Update /\ update'.new = update.new /\ update'.backup = update.backup
    BY <1>0, <1>3, UpdateFields
  <2>3. TypeOK'
    BY <1>0, <1>3, <2>1, <2>2 DEF TypeOK, Configure, Return, InstallSteps, UninstallSteps
  <2>4. Steps'
    BY <1>0, <1>3, <2>1, <2>2 DEF Configure, Return,
           Steps, InProgress, BeforeBackup, BackupIsPrior, AtDest, Committing,
           Uninstalling, FailedInstallRestores, Installing, InstallSteps, UninstallSteps
  <2>5. Safety'
    BY <1>0, <1>3, <2>1, <2>2, SameFilesSafe DEF Configure, Return
  <2>. QED
    BY <2>3, <2>4, <2>5 DEF IInv
<1>. QED
  BY <1>1, <1>2, <1>3 DEF Configure

LEMMA CommitKeeps ==
  ASSUME IInv, commit
  PROVE  IInv'
<1>. USE DestIsName, InstallAssumption
<1>0. TypeOK /\ Steps /\ Safety /\ update \in Update /\ fs \in disk
  BY DEF IInv, TypeOK
<1>1. CASE /\ sync_parent_directory
           /\ update.backup = Dest
           /\ step' = "idle"
           /\ result' = "ok"
  <2>1. fs' = fs /\ disk' = {fs}
    BY <1>0, <1>1 DEF sync_parent_directory
  <2>2. update' \in Update /\ update'.new = update.new /\ update'.backup = update.backup
    BY <1>0, <1>1 DEF commit
  <2>3. TypeOK'
    BY <1>0, <1>1, <2>1, <2>2 DEF TypeOK, commit, Return, InstallSteps, UninstallSteps
  <2>4. Steps'
    BY <1>0, <1>1, <2>1, <2>2 DEF commit, Return,
           Steps, InProgress, BeforeBackup, BackupIsPrior, AtDest, Committing,
           Uninstalling, FailedInstallRestores, Installing, InstallSteps, UninstallSteps
  <2>5. Safety'
    BY <1>0, <1>1, <2>1, <2>2 DEF commit, Return, Safety, Safe,
           Steps, InProgress, BeforeBackup, BackupIsPrior, AtDest, Committing,
           Uninstalling, FailedInstallRestores, Installing, InstallSteps, UninstallSteps
  <2>. QED
    BY <2>3, <2>4, <2>5 DEF IInv
<1>2. CASE /\ sync_parent_directory
           /\ update.backup # Dest
           /\ step' = "unlink"
           /\ UNCHANGED result
  <2>1. fs' = fs /\ disk' = {fs}
    BY <1>0, <1>2 DEF sync_parent_directory
  <2>2. update' \in Update /\ update'.new = update.new /\ update'.backup = update.backup
    BY <1>0, <1>2 DEF commit
  <2>3. TypeOK'
    BY <1>0, <1>2, <2>1, <2>2 DEF TypeOK, commit, Return, InstallSteps, UninstallSteps
  <2>4. Steps'
    BY <1>0, <1>2, <2>1, <2>2 DEF commit, Return,
           Steps, InProgress, BeforeBackup, BackupIsPrior, AtDest, Committing,
           Uninstalling, FailedInstallRestores, Installing, InstallSteps, UninstallSteps
  <2>5. Safety'
    BY <1>0, <1>2, <2>1, <2>2, SameFilesSafe DEF commit, Return
  <2>. QED
    BY <2>3, <2>4, <2>5 DEF IInv
<1>3. CASE /\ Fails
           /\ step' = "remove"
           /\ UNCHANGED result
  <2>1. fs' = fs /\ disk' = disk
    BY <1>0, <1>3 DEF Fails
  <2>2. update' \in Update /\ update'.new = update.new /\ update'.backup = update.backup
    BY <1>0, <1>3 DEF commit
  <2>3. TypeOK'
    BY <1>0, <1>3, <2>1, <2>2 DEF TypeOK, commit, Return, InstallSteps, UninstallSteps
  <2>4. Steps'
    BY <1>0, <1>3, <2>1, <2>2 DEF commit, Return,
           Steps, InProgress, BeforeBackup, BackupIsPrior, AtDest, Committing,
           Uninstalling, FailedInstallRestores, Installing, InstallSteps, UninstallSteps
  <2>5. Safety'
    BY <1>0, <1>3, <2>1, <2>2, SameFilesSafe DEF commit, Return
  <2>. QED
    BY <2>3, <2>4, <2>5 DEF IInv
<1>. QED
  BY <1>1, <1>2, <1>3 DEF commit

LEMMA UnlinkKeeps ==
  ASSUME IInv, Unlink
  PROVE  IInv'
<1>. USE DestIsName, InstallAssumption
<1>0. TypeOK /\ Steps /\ Safety /\ update \in Update /\ fs \in disk
  BY DEF IInv, TypeOK
<1>1. CASE /\ Remove(update.backup)
           /\ step' = "final"
  <2>0. update.backup \in Names /\ update.new \in Versions \cup {None} /\ installs \in Names
    BY <1>0, UpdateFields DEF TypeOK
  <2>1. Put(update.backup, None)
    BY <1>0, <1>1, <2>0, RemovePuts
  <2>2. update' \in Update /\ update'.new = update.new /\ update'.backup = update.backup
    BY <1>0, <1>1 DEF Unlink
  <2>3. TypeOK'
    BY <1>0, <1>1, <2>1, <2>2 DEF TypeOK, Unlink, Return, Put, InstallSteps, UninstallSteps
  <2>4. Steps'
    BY <1>0, <1>1, <2>0, <2>1, <2>2 DEF Unlink, Return, Put,
           Steps, InProgress, BeforeBackup, BackupIsPrior, AtDest, Committing,
           Uninstalling, FailedInstallRestores, Installing, InstallSteps, UninstallSteps
  <2>5. Safe(fs)'
    BY <1>0, <1>1, <2>0, <2>1, <2>2 DEF Unlink, Return, Put, Safety, Safe,
           Steps, InProgress, BeforeBackup, BackupIsPrior, AtDest, Committing,
           Uninstalling, FailedInstallRestores, Installing, InstallSteps, UninstallSteps
  <2>6. Safety'
    BY <1>0, <1>1, <2>1, <2>2, <2>5, StillSafe DEF Unlink, Return, Put
  <2>. QED
    BY <2>3, <2>4, <2>6 DEF IInv
<1>2. CASE /\ Fails
           /\ step' = "remove"
  <2>1. fs' = fs /\ disk' = disk
    BY <1>0, <1>2 DEF Fails
  <2>2. update' \in Update /\ update'.new = update.new /\ update'.backup = update.backup
    BY <1>0, <1>2 DEF Unlink
  <2>3. TypeOK'
    BY <1>0, <1>2, <2>1, <2>2 DEF TypeOK, Unlink, Return, InstallSteps, UninstallSteps
  <2>4. Steps'
    BY <1>0, <1>2, <2>1, <2>2 DEF Unlink, Return,
           Steps, InProgress, BeforeBackup, BackupIsPrior, AtDest, Committing,
           Uninstalling, FailedInstallRestores, Installing, InstallSteps, UninstallSteps
  <2>5. Safety'
    BY <1>0, <1>2, <2>1, <2>2, SameFilesSafe DEF Unlink, Return
  <2>. QED
    BY <2>3, <2>4, <2>5 DEF IInv
<1>. QED
  BY <1>1, <1>2 DEF Unlink

LEMMA FinalSyncKeeps ==
  ASSUME IInv, FinalSync
  PROVE  IInv'
<1>. USE DestIsName, InstallAssumption
<1>0. TypeOK /\ Steps /\ Safety /\ update \in Update /\ fs \in disk
  BY DEF IInv, TypeOK
<1>1. CASE /\ sync_parent_directory
           /\ step' = "idle"
           /\ result' = "ok"
           /\ UNCHANGED faults
  <2>1. fs' = fs /\ disk' = {fs}
    BY <1>0, <1>1 DEF sync_parent_directory
  <2>2. update' \in Update /\ update'.new = update.new /\ update'.backup = update.backup
    BY <1>0, <1>1 DEF FinalSync
  <2>3. TypeOK'
    BY <1>0, <1>1, <2>1, <2>2 DEF TypeOK, FinalSync, Return, InstallSteps, UninstallSteps
  <2>4. Steps'
    BY <1>0, <1>1, <2>1, <2>2 DEF FinalSync, Return,
           Steps, InProgress, BeforeBackup, BackupIsPrior, AtDest, Committing,
           Uninstalling, FailedInstallRestores, Installing, InstallSteps, UninstallSteps
  <2>5. Safety'
    BY <1>0, <1>1, <2>1, <2>2 DEF FinalSync, Return, Safety, Safe,
           Steps, InProgress, BeforeBackup, BackupIsPrior, AtDest, Committing,
           Uninstalling, FailedInstallRestores, Installing, InstallSteps, UninstallSteps
  <2>. QED
    BY <2>3, <2>4, <2>5 DEF IInv
<1>2. CASE /\ Fails
           /\ Return({"final"})
  <2>1. fs' = fs /\ disk' = disk
    BY <1>0, <1>2 DEF Fails
  <2>2. update' \in Update /\ update'.new = update.new /\ update'.backup = update.backup
    BY <1>0, <1>2 DEF FinalSync
  <2>3. TypeOK'
    BY <1>0, <1>2, <2>1, <2>2 DEF TypeOK, FinalSync, Return, InstallSteps, UninstallSteps
  <2>4. Steps'
    BY <1>0, <1>2, <2>1, <2>2 DEF FinalSync, Return,
           Steps, InProgress, BeforeBackup, BackupIsPrior, AtDest, Committing,
           Uninstalling, FailedInstallRestores, Installing, InstallSteps, UninstallSteps
  <2>5. Safety'
    BY <1>0, <1>2, <2>1, <2>2, SameFilesSafe DEF FinalSync, Return
  <2>. QED
    BY <2>3, <2>4, <2>5 DEF IInv
<1>. QED
  BY <1>1, <1>2 DEF FinalSync

LEMMA RemovePublishedKeeps ==
  ASSUME IInv, RemovePublished
  PROVE  IInv'
<1>. USE DestIsName, InstallAssumption
<1>0. TypeOK /\ Steps /\ Safety /\ update \in Update /\ fs \in disk
  BY DEF IInv, TypeOK
<1>1. CASE /\ Remove(Dest)
           /\ step' = "restore"
           /\ UNCHANGED <<update, result, faults>>
  <2>0. update.backup \in Names /\ update.new \in Versions \cup {None} /\ installs \in Names
    BY <1>0, UpdateFields DEF TypeOK
  <2>1. Put(Dest, None)
    BY <1>0, <1>1, <2>0, RemovePuts
  <2>2. update' \in Update /\ update'.new = update.new /\ update'.backup = update.backup
    BY <1>0, <1>1 DEF RemovePublished, RollbackFails
  <2>3. TypeOK'
    BY <1>0, <1>1, <2>1, <2>2 DEF TypeOK, RemovePublished, RollbackFails, Return, Put,
           InstallSteps, UninstallSteps
  <2>4. Steps'
    BY <1>0, <1>1, <2>0, <2>1, <2>2 DEF RemovePublished, RollbackFails, Return, Put,
           Steps, InProgress, BeforeBackup, BackupIsPrior, AtDest, Committing,
           Uninstalling, FailedInstallRestores, Installing, InstallSteps, UninstallSteps
  <2>5. Safe(fs)'
    BY <1>0, <1>1, <2>0, <2>1, <2>2 DEF RemovePublished, RollbackFails, Return, Put,
           Safety, Safe,
           Steps, InProgress, BeforeBackup, BackupIsPrior, AtDest, Committing,
           Uninstalling, FailedInstallRestores, Installing, InstallSteps, UninstallSteps
  <2>6. Safety'
    BY <1>0, <1>1, <2>1, <2>2, <2>5, StillSafe DEF RemovePublished, RollbackFails, Return, Put
  <2>. QED
    BY <2>3, <2>4, <2>6 DEF IInv
<1>2. CASE /\ Fails
           /\ faults' = faults \cup {"undo"}
           /\ update' = [update EXCEPT !.again = FALSE]
           /\ step' = "remove"
           /\ UNCHANGED result
  <2>1. fs' = fs /\ disk' = disk
    BY <1>0, <1>2 DEF Fails
  <2>2. update' \in Update /\ update'.new = update.new /\ update'.backup = update.backup
    BY <1>0, <1>2, UpdateFields
  <2>3. TypeOK'
    BY <1>0, <1>2, <2>1, <2>2 DEF TypeOK, RemovePublished, RollbackFails, Return,
           InstallSteps, UninstallSteps
  <2>4. Steps'
    BY <1>0, <1>2, <2>1, <2>2 DEF RemovePublished, RollbackFails, Return,
           Steps, InProgress, BeforeBackup, BackupIsPrior, AtDest, Committing,
           Uninstalling, FailedInstallRestores, Installing, InstallSteps, UninstallSteps
  <2>5. Safety'
    BY <1>0, <1>2, <2>1, <2>2, SameFilesSafe DEF RemovePublished, RollbackFails, Return
  <2>. QED
    BY <2>3, <2>4, <2>5 DEF IInv
<1>3. CASE /\ Fails
           /\ faults' = faults \cup {"undo"}
           /\ step' = "idle"
           /\ result' = "failed"
           /\ UNCHANGED update
  <2>1. fs' = fs /\ disk' = disk
    BY <1>0, <1>3 DEF Fails
  <2>2. update' \in Update /\ update'.new = update.new /\ update'.backup = update.backup
    BY <1>0, <1>3 DEF RemovePublished, RollbackFails
  <2>3. TypeOK'
    BY <1>0, <1>3, <2>1, <2>2 DEF TypeOK, RemovePublished, RollbackFails, Return,
           InstallSteps, UninstallSteps
  <2>4. Steps'
    BY <1>0, <1>3, <2>1, <2>2 DEF RemovePublished, RollbackFails, Return,
           Steps, InProgress, BeforeBackup, BackupIsPrior, AtDest, Committing,
           Uninstalling, FailedInstallRestores, Installing, InstallSteps, UninstallSteps
  <2>5. Safety'
    BY <1>0, <1>3, <2>1, <2>2, SameFilesSafe DEF RemovePublished, RollbackFails, Return
  <2>. QED
    BY <2>3, <2>4, <2>5 DEF IInv
<1>. QED
  BY <1>1, <1>2, <1>3 DEF RemovePublished, RollbackFails

LEMMA RestoreBackupKeeps ==
  ASSUME IInv, RestoreBackup
  PROVE  IInv'
<1>. USE DestIsName, InstallAssumption
<1>0. TypeOK /\ Steps /\ Safety /\ update \in Update /\ fs \in disk
  BY DEF IInv, TypeOK
<1>1. CASE /\ update.backup = Dest
           /\ step' = "sync"
           /\ UNCHANGED <<fs, disk, update, result, faults>>
  <2>1. fs' = fs /\ disk' = disk
    BY <1>0, <1>1
  <2>2. update' \in Update /\ update'.new = update.new /\ update'.backup = update.backup
    BY <1>0, <1>1 DEF RestoreBackup, RollbackFails
  <2>3. TypeOK'
    BY <1>0, <1>1, <2>1, <2>2 DEF TypeOK, RestoreBackup, RollbackFails, Return,
           InstallSteps, UninstallSteps
  <2>4. Steps'
    BY <1>0, <1>1, <2>1, <2>2 DEF RestoreBackup, RollbackFails, Return,
           Steps, InProgress, BeforeBackup, BackupIsPrior, AtDest, Committing,
           Uninstalling, FailedInstallRestores, Installing, InstallSteps, UninstallSteps
  <2>5. Safety'
    BY <1>0, <1>1, <2>1, <2>2, SameFilesSafe DEF RestoreBackup, RollbackFails, Return
  <2>. QED
    BY <2>3, <2>4, <2>5 DEF IInv
<1>2. CASE /\ update.backup # Dest
           /\ fs.dir[update.backup] # None
           /\ Rename(update.backup, Dest)
           /\ step' = "sync"
           /\ UNCHANGED <<update, result, faults>>
  <2>0. update.backup \in Names /\ update.new \in Versions \cup {None} /\ installs \in Names
    BY <1>0, UpdateFields DEF TypeOK
  <2>1. Moved(update.backup, Dest)
    BY <1>0, <1>2, <2>0, RenameMoves
  <2>2. update' \in Update /\ update'.new = update.new /\ update'.backup = update.backup
    BY <1>0, <1>2 DEF RestoreBackup, RollbackFails
  <2>3. TypeOK'
    BY <1>0, <1>2, <2>1, <2>2 DEF TypeOK, RestoreBackup, RollbackFails, Return, Moved,
           InstallSteps, UninstallSteps
  <2>4. Steps'
    BY <1>0, <1>2, <2>0, <2>1, <2>2 DEF RestoreBackup, RollbackFails, Return, Moved,
           Steps, InProgress, BeforeBackup, BackupIsPrior, AtDest, Committing,
           Uninstalling, FailedInstallRestores, Installing, InstallSteps, UninstallSteps
  <2>5. Safe(fs)'
    BY <1>0, <1>2, <2>0, <2>1, <2>2 DEF RestoreBackup, RollbackFails, Return, Moved,
           Safety, Safe,
           Steps, InProgress, BeforeBackup, BackupIsPrior, AtDest, Committing,
           Uninstalling, FailedInstallRestores, Installing, InstallSteps, UninstallSteps
  <2>6. Safety'
    BY <1>0, <1>2, <2>1, <2>2, <2>5, StillSafe DEF RestoreBackup, RollbackFails, Return, Moved
  <2>. QED
    BY <2>3, <2>4, <2>6 DEF IInv
<1>3. CASE /\ update.backup # Dest
           /\ Fails
           /\ faults' = faults \cup {"undo"}
           /\ update' = [update EXCEPT !.again = FALSE]
           /\ step' = "remove"
           /\ UNCHANGED result
  <2>1. fs' = fs /\ disk' = disk
    BY <1>0, <1>3 DEF Fails
  <2>2. update' \in Update /\ update'.new = update.new /\ update'.backup = update.backup
    BY <1>0, <1>3, UpdateFields
  <2>3. TypeOK'
    BY <1>0, <1>3, <2>1, <2>2 DEF TypeOK, RestoreBackup, RollbackFails, Return,
           InstallSteps, UninstallSteps
  <2>4. Steps'
    BY <1>0, <1>3, <2>1, <2>2 DEF RestoreBackup, RollbackFails, Return,
           Steps, InProgress, BeforeBackup, BackupIsPrior, AtDest, Committing,
           Uninstalling, FailedInstallRestores, Installing, InstallSteps, UninstallSteps
  <2>5. Safety'
    BY <1>0, <1>3, <2>1, <2>2, SameFilesSafe DEF RestoreBackup, RollbackFails, Return
  <2>. QED
    BY <2>3, <2>4, <2>5 DEF IInv
<1>4. CASE /\ update.backup # Dest
           /\ Fails
           /\ faults' = faults \cup {"undo"}
           /\ step' = "idle"
           /\ result' = "failed"
           /\ UNCHANGED update
  <2>1. fs' = fs /\ disk' = disk
    BY <1>0, <1>4 DEF Fails
  <2>2. update' \in Update /\ update'.new = update.new /\ update'.backup = update.backup
    BY <1>0, <1>4 DEF RestoreBackup, RollbackFails
  <2>3. TypeOK'
    BY <1>0, <1>4, <2>1, <2>2 DEF TypeOK, RestoreBackup, RollbackFails, Return,
           InstallSteps, UninstallSteps
  <2>4. Steps'
    BY <1>0, <1>4, <2>1, <2>2 DEF RestoreBackup, RollbackFails, Return,
           Steps, InProgress, BeforeBackup, BackupIsPrior, AtDest, Committing,
           Uninstalling, FailedInstallRestores, Installing, InstallSteps, UninstallSteps
  <2>5. Safety'
    BY <1>0, <1>4, <2>1, <2>2, SameFilesSafe DEF RestoreBackup, RollbackFails, Return
  <2>. QED
    BY <2>3, <2>4, <2>5 DEF IInv
<1>. QED
  BY <1>1, <1>2, <1>3, <1>4 DEF RestoreBackup, RollbackFails

LEMMA SyncRestoredKeeps ==
  ASSUME IInv, SyncRestored
  PROVE  IInv'
<1>. USE DestIsName, InstallAssumption
<1>0. TypeOK /\ Steps /\ Safety /\ update \in Update /\ fs \in disk
  BY DEF IInv, TypeOK
<1>1. CASE /\ sync_parent_directory
           /\ Return({})
           /\ UNCHANGED update
  <2>1. fs' = fs /\ disk' = {fs}
    BY <1>0, <1>1 DEF sync_parent_directory
  <2>2. update' \in Update /\ update'.new = update.new /\ update'.backup = update.backup
    BY <1>0, <1>1 DEF SyncRestored, RollbackFails
  <2>3. TypeOK'
    BY <1>0, <1>1, <2>1, <2>2 DEF TypeOK, SyncRestored, RollbackFails, Return,
           InstallSteps, UninstallSteps
  <2>4. Steps'
    BY <1>0, <1>1, <2>1, <2>2 DEF SyncRestored, RollbackFails, Return,
           Steps, InProgress, BeforeBackup, BackupIsPrior, AtDest, Committing,
           Uninstalling, FailedInstallRestores, Installing, InstallSteps, UninstallSteps
  <2>5. Safety'
    BY <1>0, <1>1, <2>1, <2>2, SameFilesSafe DEF SyncRestored, RollbackFails, Return
  <2>. QED
    BY <2>3, <2>4, <2>5 DEF IInv
<1>2. CASE /\ Fails
           /\ faults' = faults \cup {"undo sync"}
           /\ update' = [update EXCEPT !.again = FALSE]
           /\ step' = "remove"
           /\ UNCHANGED result
  <2>1. fs' = fs /\ disk' = disk
    BY <1>0, <1>2 DEF Fails
  <2>2. update' \in Update /\ update'.new = update.new /\ update'.backup = update.backup
    BY <1>0, <1>2, UpdateFields
  <2>3. TypeOK'
    BY <1>0, <1>2, <2>1, <2>2 DEF TypeOK, SyncRestored, RollbackFails, Return,
           InstallSteps, UninstallSteps
  <2>4. Steps'
    BY <1>0, <1>2, <2>1, <2>2 DEF SyncRestored, RollbackFails, Return,
           Steps, InProgress, BeforeBackup, BackupIsPrior, AtDest, Committing,
           Uninstalling, FailedInstallRestores, Installing, InstallSteps, UninstallSteps
  <2>5. Safety'
    BY <1>0, <1>2, <2>1, <2>2, SameFilesSafe DEF SyncRestored, RollbackFails, Return
  <2>. QED
    BY <2>3, <2>4, <2>5 DEF IInv
<1>3. CASE /\ Fails
           /\ faults' = faults \cup {"undo sync"}
           /\ step' = "idle"
           /\ result' = "failed"
           /\ UNCHANGED update
  <2>1. fs' = fs /\ disk' = disk
    BY <1>0, <1>3 DEF Fails
  <2>2. update' \in Update /\ update'.new = update.new /\ update'.backup = update.backup
    BY <1>0, <1>3 DEF SyncRestored, RollbackFails
  <2>3. TypeOK'
    BY <1>0, <1>3, <2>1, <2>2 DEF TypeOK, SyncRestored, RollbackFails, Return,
           InstallSteps, UninstallSteps
  <2>4. Steps'
    BY <1>0, <1>3, <2>1, <2>2 DEF SyncRestored, RollbackFails, Return,
           Steps, InProgress, BeforeBackup, BackupIsPrior, AtDest, Committing,
           Uninstalling, FailedInstallRestores, Installing, InstallSteps, UninstallSteps
  <2>5. Safety'
    BY <1>0, <1>3, <2>1, <2>2, SameFilesSafe DEF SyncRestored, RollbackFails, Return
  <2>. QED
    BY <2>3, <2>4, <2>5 DEF IInv
<1>. QED
  BY <1>1, <1>2, <1>3 DEF SyncRestored, RollbackFails

LEMMA UninstallKeeps ==
  ASSUME IInv, uninstall
  PROVE  IInv'
<1>. USE DestIsName, InstallAssumption
<1>0. TypeOK /\ Steps /\ Safety /\ update \in Update /\ fs \in disk
  BY DEF IInv, TypeOK
<1>1. IInv'
  <2>1. fs' = fs /\ disk' = disk
    BY <1>0 DEF uninstall
  <2>2. update' \in Update /\ update'.new = update.new /\ update'.backup = update.backup
    BY <1>0 DEF uninstall
  <2>3. TypeOK'
    BY <1>0, <2>1, <2>2 DEF TypeOK, uninstall, Return, InstallSteps, UninstallSteps
  <2>4. Steps'
    BY <1>0, <2>1, <2>2 DEF uninstall, Return,
           Steps, InProgress, BeforeBackup, BackupIsPrior, AtDest, Committing,
           Uninstalling, FailedInstallRestores, Installing, InstallSteps, UninstallSteps
  <2>5. Safety'
    BY <1>0, <2>1, <2>2, SameFilesSafe DEF uninstall, Return
  <2>. QED
    BY <2>3, <2>4, <2>5 DEF IInv
<1>. QED
  BY <1>1

LEMMA RemoveDescriptorKeeps ==
  ASSUME IInv, RemoveDescriptor
  PROVE  IInv'
<1>. USE DestIsName, InstallAssumption
<1>0. TypeOK /\ Steps /\ Safety /\ update \in Update /\ fs \in disk
  BY DEF IInv, TypeOK
<1>1. CASE /\ Change([fs EXCEPT !.descriptor = FALSE])
           /\ step' \in {"delete", "idle"}
  <2>1. Described(FALSE)
    BY <1>0, <1>1, RemoveDescribes
  <2>2. update' \in Update /\ update'.new = update.new /\ update'.backup = update.backup
    BY <1>0, <1>1 DEF RemoveDescriptor
  <2>3. TypeOK'
    BY <1>0, <1>1, <2>1, <2>2 DEF TypeOK, RemoveDescriptor, Return, Described,
           InstallSteps, UninstallSteps
  <2>4. Steps'
    BY <1>0, <1>1, <2>1, <2>2 DEF RemoveDescriptor, Return, Described,
           Steps, InProgress, BeforeBackup, BackupIsPrior, AtDest, Committing,
           Uninstalling, FailedInstallRestores, Installing, InstallSteps, UninstallSteps
  <2>5. Safe(fs)'
    BY <1>0, <1>1, <2>1, <2>2 DEF RemoveDescriptor, Return, Described, Safety, Safe,
           Steps, InProgress, BeforeBackup, BackupIsPrior, AtDest, Committing,
           Uninstalling, FailedInstallRestores, Installing, InstallSteps, UninstallSteps
  <2>6. Safety'
    BY <1>0, <1>1, <2>1, <2>2, <2>5, StillSafe DEF RemoveDescriptor, Return, Described
  <2>. QED
    BY <2>3, <2>4, <2>6 DEF IInv
<1>2. CASE /\ Fails
           /\ step' = "idle"
  <2>1. fs' = fs /\ disk' = disk
    BY <1>0, <1>2 DEF Fails
  <2>2. update' \in Update /\ update'.new = update.new /\ update'.backup = update.backup
    BY <1>0, <1>2 DEF RemoveDescriptor
  <2>3. TypeOK'
    BY <1>0, <1>2, <2>1, <2>2 DEF TypeOK, RemoveDescriptor, Return,
           InstallSteps, UninstallSteps
  <2>4. Steps'
    BY <1>0, <1>2, <2>1, <2>2 DEF RemoveDescriptor, Return,
           Steps, InProgress, BeforeBackup, BackupIsPrior, AtDest, Committing,
           Uninstalling, FailedInstallRestores, Installing, InstallSteps, UninstallSteps
  <2>5. Safety'
    BY <1>0, <1>2, <2>1, <2>2, SameFilesSafe DEF RemoveDescriptor, Return
  <2>. QED
    BY <2>3, <2>4, <2>5 DEF IInv
<1>. QED
  BY <1>1, <1>2 DEF RemoveDescriptor

LEMMA RemoveProgramKeeps ==
  ASSUME IInv, remove_protected_service_binary
  PROVE  IInv'
<1>. USE DestIsName, InstallAssumption
<1>0. TypeOK /\ Steps /\ Safety /\ update \in Update /\ fs \in disk
  BY DEF IInv, TypeOK
<1>1. CASE /\ Remove(Dest)
           /\ prior' = None
           /\ update' = [update EXCEPT !.new = None]
  <2>0. update.backup \in Names /\ update.new \in Versions \cup {None} /\ installs \in Names
    BY <1>0, UpdateFields DEF TypeOK
  <2>1. Put(Dest, None)
    BY <1>0, <1>1, <2>0, RemovePuts
  <2>2. update' \in Update /\ update'.new = None /\ update'.backup = update.backup
    BY <1>0, <1>1, <2>0, UpdateFields
  <2>3. TypeOK'
    BY <1>0, <1>1, <2>1, <2>2 DEF TypeOK, remove_protected_service_binary, Return, Put,
           InstallSteps, UninstallSteps
  <2>4. Steps'
    BY <1>0, <1>1, <2>0, <2>1, <2>2 DEF remove_protected_service_binary, Return, Put,
           Steps, InProgress, BeforeBackup, BackupIsPrior, AtDest, Committing,
           Uninstalling, FailedInstallRestores, Installing, InstallSteps, UninstallSteps
  <2>5. Safety'
    BY <1>0, <1>1, <2>0, <2>1, <2>2 DEF remove_protected_service_binary, Return, Put,
           Safety, Safe,
           Steps, InProgress, BeforeBackup, BackupIsPrior, AtDest, Committing,
           Uninstalling, FailedInstallRestores, Installing, InstallSteps, UninstallSteps
  <2>. QED
    BY <2>3, <2>4, <2>5 DEF IInv
<1>2. CASE /\ Fails
           /\ UNCHANGED <<prior, update>>
  <2>1. fs' = fs /\ disk' = disk
    BY <1>0, <1>2 DEF Fails
  <2>2. update' \in Update /\ update'.new = update.new /\ update'.backup = update.backup
    BY <1>0, <1>2 DEF remove_protected_service_binary
  <2>3. TypeOK'
    BY <1>0, <1>2, <2>1, <2>2 DEF TypeOK, remove_protected_service_binary, Return,
           InstallSteps, UninstallSteps
  <2>4. Steps'
    BY <1>0, <1>2, <2>1, <2>2 DEF remove_protected_service_binary, Return,
           Steps, InProgress, BeforeBackup, BackupIsPrior, AtDest, Committing,
           Uninstalling, FailedInstallRestores, Installing, InstallSteps, UninstallSteps
  <2>5. Safety'
    BY <1>0, <1>2, <2>1, <2>2, SameFilesSafe DEF remove_protected_service_binary, Return
  <2>. QED
    BY <2>3, <2>4, <2>5 DEF IInv
<1>. QED
  BY <1>1, <1>2 DEF remove_protected_service_binary

LEMMA ProcessCrashKeeps ==
  ASSUME IInv, ProcessCrash
  PROVE  IInv'
<1>. USE DestIsName, InstallAssumption
<1>0. TypeOK /\ Steps /\ Safety /\ update \in Update /\ fs \in disk
  BY DEF IInv, TypeOK
<1>1. IInv'
  <2>1. fs' = fs /\ disk' = disk
    BY <1>0 DEF ProcessCrash, Crash
  <2>2. update' \in Update /\ update'.new = update.new /\ update'.backup = update.backup
    BY <1>0 DEF ProcessCrash, Crash
  <2>3. TypeOK'
    BY <1>0, <2>1, <2>2 DEF TypeOK, ProcessCrash, Crash, Return, InstallSteps, UninstallSteps
  <2>4. Steps'
    BY <1>0, <2>1, <2>2 DEF ProcessCrash, Crash, Return,
           Steps, InProgress, BeforeBackup, BackupIsPrior, AtDest, Committing,
           Uninstalling, FailedInstallRestores, Installing, InstallSteps, UninstallSteps
  <2>5. Safety'
    BY <1>0, <2>1, <2>2, SameFilesSafe DEF ProcessCrash, Crash, Return
  <2>. QED
    BY <2>3, <2>4, <2>5 DEF IInv
<1>. QED
  BY <1>1

LEMMA PowerLossKeeps ==
  ASSUME IInv, PowerLoss
  PROVE  IInv'
<1>. USE DestIsName, InstallAssumption
<1>0. TypeOK /\ Steps /\ Safety /\ update \in Update /\ fs \in disk
  BY DEF IInv, TypeOK
<1>1. IInv'
  <2>1. fs' \in disk /\ disk' = {fs'}
    BY <1>0 DEF PowerLoss, Crash
  <2>2. update' \in Update /\ update'.new = update.new /\ update'.backup = update.backup
    BY <1>0 DEF PowerLoss, Crash
  <2>3. TypeOK'
    BY <1>0, <2>1, <2>2 DEF TypeOK, PowerLoss, Crash, Return, InstallSteps, UninstallSteps
  <2>4. Steps'
    BY <1>0, <2>1, <2>2 DEF PowerLoss, Crash, Return,
           Steps, InProgress, BeforeBackup, BackupIsPrior, AtDest, Committing,
           Uninstalling, FailedInstallRestores, Installing, InstallSteps, UninstallSteps
  <2>5. Safety'
    BY <1>0, <2>1, <2>2 DEF PowerLoss, Crash, Return, Safety, Safe,
           Steps, InProgress, BeforeBackup, BackupIsPrior, AtDest, Committing,
           Uninstalling, FailedInstallRestores, Installing, InstallSteps, UninstallSteps
  <2>. QED
    BY <2>3, <2>4, <2>5 DEF IInv
<1>. QED
  BY <1>1

-----------------------------------------------------------------------------
(* The theorems *)

\* Nothing happens: the invariant stays.
LEMMA StutterKeeps ==
  ASSUME IInv, UNCHANGED vars
  PROVE  IInv'
BY DEF IInv, vars, TypeOK, Safety, Safe, Steps, InProgress, BeforeBackup,
       BackupIsPrior, AtDest, Committing, Uninstalling, FailedInstallRestores, Installing

\* The inductive invariant holds in every reachable state.
THEOREM Invariance == Spec => []IInv
<1>1. ASSUME IInv, [Next]_vars
      PROVE  IInv'
  <2>1. CASE Install
    BY <1>1, <2>1, BeginKeeps, MoveToBackupKeeps, PublishKeeps, SyncPublishedKeeps,
       ConfigureKeeps, CommitKeeps, UnlinkKeeps, FinalSyncKeeps,
       RemovePublishedKeeps, RestoreBackupKeeps, SyncRestoredKeeps DEF Install
  <2>2. CASE Uninstall
    BY <1>1, <2>2, UninstallKeeps, RemoveDescriptorKeeps, RemoveProgramKeeps
       DEF Uninstall
  <2>3. CASE ProcessCrash \/ PowerLoss
    BY <1>1, <2>3, ProcessCrashKeeps, PowerLossKeeps
  <2>. QED
    BY <1>1, <2>1, <2>2, <2>3, StutterKeeps DEF Next
<1>. QED
  BY <1>1, InitIInv, PTL DEF Spec

\* The files, the update and the histories have their types, and what is on
\* the disk includes what the program sees.
THEOREM TypeCorrect == Spec => []TypeOK
<1>1. IInv => TypeOK
  BY DEF IInv
<1>. QED
  BY <1>1, Invariance, PTL

\* While a program is replaced, a complete one survives every failure, kill and
\* power loss but a failed sync at the end of a rollback.
THEOREM ReplacementIsSafe == Spec => []CopySurvives
<1>1. IInv => CopySurvives
  BY DEF IInv, Safety, Safe, CopySurvives, HasCopy
<1>. QED
  BY <1>1, Invariance, PTL

\* The rollback of a failed installation restores the program it found.
THEOREM RollbackRestores == Spec => []FailedInstallRestores
<1>1. IInv => FailedInstallRestores
  BY DEF IInv, Steps
<1>. QED
  BY <1>1, Invariance, PTL

\* A successful installation survives a power loss.
THEOREM CommitIsDurable == Spec => []SuccessIsDurable
<1>1. IInv => SuccessIsDurable
  BY DEF IInv, Safety, Safe, SuccessIsDurable
<1>. QED
  BY <1>1, Invariance, PTL

\* No descriptor of a successful installation names a program that is gone.
THEOREM NoDanglingDescriptor == Spec => []DescriptorHasProgram
<1>1. IInv => DescriptorHasProgram
  BY DEF IInv, Safety, Safe, DescriptorHasProgram
<1>. QED
  BY <1>1, Invariance, PTL

-----------------------------------------------------------------------------
(* A machine of either kind                                                *)
(*                                                                         *)
(* Installations instantiates WindowsService, and WindowsProofs the same   *)
(* module with what is proved about it: the two say the same of the        *)
(* variables.                                                              *)

WindowsProofs == INSTANCE WindowsServiceProofs
                   WITH prior <- replaced, result <- outcome, faults <- undone

LEMMA SameInit == Windows!Init => WindowsProofs!Init
BY DEF Windows!Init, WindowsProofs!Init, Windows!NoService,
       WindowsProofs!NoService, Windows!Idle, WindowsProofs!Idle,
       Windows!NotInstalled, WindowsProofs!NotInstalled

LEMMA SameNext == Windows!Next => WindowsProofs!Next
<1> USE DEF Windows!files, WindowsProofs!files, Windows!history,
           WindowsProofs!history, Windows!Service, WindowsProofs!Service,
           Windows!NoService, WindowsProofs!NoService, Windows!NotInstalled,
           WindowsProofs!NotInstalled, Windows!Idle, WindowsProofs!Idle,
           Windows!UpdateState, WindowsProofs!UpdateState, Windows!Stopped,
           WindowsProofs!Stopped, Windows!validate_windows_protected_binary,
           WindowsProofs!validate_windows_protected_binary,
           Windows!windows_image_path_uses_protected_binary,
           WindowsProofs!windows_image_path_uses_protected_binary, Windows!Locked,
           WindowsProofs!Locked, Windows!CanStop, WindowsProofs!CanStop,
           Windows!StopPending, WindowsProofs!StopPending, Windows!CanStart,
           WindowsProofs!CanStart, Windows!Launch, WindowsProofs!Launch,
           Windows!Halted, WindowsProofs!Halted, Windows!Go, WindowsProofs!Go,
           Windows!Fail, WindowsProofs!Fail, Windows!Was, WindowsProofs!Was,
           Windows!ensure_windows_service_directories,
           WindowsProofs!ensure_windows_service_directories, Windows!Staged,
           WindowsProofs!Staged, Windows!Deleted, WindowsProofs!Deleted,
           Windows!RollbackFails, WindowsProofs!RollbackFails, Windows!RolledBack,
           WindowsProofs!RolledBack
<1>1. \/ Windows!ReportRunning \/ Windows!ReportStopped \/ Windows!start \/ Windows!stop
      \/ Windows!restart \/ Windows!RestartEnds \/ Windows!Killed
      => WindowsProofs!Next
  BY DEF WindowsProofs!Next,
         Windows!ReportRunning, WindowsProofs!ReportRunning, Windows!ReportStopped,
         WindowsProofs!ReportStopped, Windows!start, WindowsProofs!start,
         Windows!stop, WindowsProofs!stop, Windows!restart, WindowsProofs!restart,
         Windows!RestartEnds, WindowsProofs!RestartEnds, Windows!Killed,
         WindowsProofs!Killed
<1>2. Windows!Install => WindowsProofs!Install
  BY DEF Windows!Install, WindowsProofs!Install, Windows!install,
         WindowsProofs!install, Windows!AwaitStop, WindowsProofs!AwaitStop,
         Windows!Stage, WindowsProofs!Stage, Windows!BackUp, WindowsProofs!BackUp,
         Windows!Publish, WindowsProofs!Publish, Windows!Check,
         WindowsProofs!Check, Windows!Firewall, WindowsProofs!Firewall,
         Windows!Delete, WindowsProofs!Delete, Windows!AwaitDeletion,
         WindowsProofs!AwaitDeletion, Windows!Create, WindowsProofs!Create,
         Windows!StartInstalled, WindowsProofs!StartInstalled, Windows!Validate,
         WindowsProofs!Validate, Windows!Commit, WindowsProofs!Commit,
         Windows!Close, WindowsProofs!Close, Windows!RemovePublished,
         WindowsProofs!RemovePublished, Windows!PutBack, WindowsProofs!PutBack,
         Windows!RemoveDirectories, WindowsProofs!RemoveDirectories,
         Windows!Restore, WindowsProofs!Restore, Windows!RestoreRule,
         WindowsProofs!RestoreRule, Windows!RestoreStart,
         WindowsProofs!RestoreStart
<1>3. Windows!Uninstall => WindowsProofs!Uninstall
  BY DEF Windows!Uninstall, WindowsProofs!Uninstall, Windows!uninstall,
         WindowsProofs!uninstall, Windows!RemoveRule, WindowsProofs!RemoveRule,
         Windows!remove_protected_service_binary,
         WindowsProofs!remove_protected_service_binary
<1>. QED
  BY <1>1, <1>2, <1>3 DEF Windows!Next, WindowsProofs!Next

\* Whatever setup does on a machine of either kind, its Unix part does as
\* ServiceInstall says, or nothing.
LEMMA ActsAsOnUnix == InstallationsSpec => Spec
<1>1. InstallationsInit => Init
  BY DEF InstallationsInit
<1>2. [InstallationsNext]_<<windows, unixVars, windowsVars>> => [Next]_vars
  BY DEF InstallationsNext, unixVars
<1>. QED
  BY <1>1, <1>2, PTL DEF InstallationsSpec, Spec

\* Its Windows part does as WindowsService says, or nothing.
LEMMA ActsAsOnWindows == InstallationsSpec => WindowsProofs!Spec
<1>1. InstallationsInit => WindowsProofs!Init
  BY SameInit DEF InstallationsInit
<1>2. [InstallationsNext]_<<windows, unixVars, windowsVars>> =>
        [WindowsProofs!Next]_WindowsProofs!vars
  BY SameNext DEF InstallationsNext, windowsVars, WindowsProofs!vars
<1>. QED
  BY <1>1, <1>2, PTL DEF InstallationsSpec, WindowsProofs!Spec

LEMMA ProgramsDiffer == WindowsProofs!ProgramsDiffer
BY InstallationsAssumption DEF Windows!ProgramsDiffer, WindowsProofs!ProgramsDiffer

\* On Unix the replacement keeps its promises beside the other platform, which
\* shares only the programs (UnixProtectedBinaryUpdate).
THEOREM UnixPromises ==
  InstallationsSpec =>
    [](CopySurvives /\ FailedInstallRestores /\ SuccessIsDurable /\ DescriptorHasProgram)
BY ActsAsOnUnix, ReplacementIsSafe, RollbackRestores, CommitIsDurable, NoDanglingDescriptor, PTL

\* No failure, no kill and no repeated rollback of prepare_protected_update
\* leaves a Windows machine that had a program without a complete one.
THEOREM WindowsReplacementIsSafe == InstallationsSpec => []WindowsCopySurvives
<1>1. WindowsProofs!Spec => []WindowsProofs!WindowsCopySurvives
  BY ProgramsDiffer, WindowsProofs!ReplacementIsSafe
<1>2. WindowsProofs!WindowsCopySurvives => WindowsCopySurvives
  BY DEF WindowsCopySurvives, Windows!WindowsCopySurvives, WindowsProofs!WindowsCopySurvives
<1>. QED
  BY <1>1, <1>2, ActsAsOnWindows, PTL

\* On Windows an entry that is left names a program that exists, and a service
\* that runs after a successful installation runs what was installed.
THEOREM EntryAndProgramAgree == InstallationsSpec => []ServiceHasItsProgram
<1>1. WindowsProofs!Spec => []WindowsProofs!ServiceHasItsProgram
  BY ProgramsDiffer, WindowsProofs!EntryAndProgramAgree
<1>2. WindowsProofs!ServiceHasItsProgram => ServiceHasItsProgram
  BY DEF ServiceHasItsProgram, Windows!ServiceHasItsProgram, WindowsProofs!ServiceHasItsProgram,
         Windows!EntryHasProgram, WindowsProofs!EntryHasProgram, Windows!RunsInstalled,
         WindowsProofs!RunsInstalled, Windows!Stopped, WindowsProofs!Stopped
<1>. QED
  BY <1>1, <1>2, ActsAsOnWindows, PTL

\* On Windows an installation that fails and whose undoing does not leaves the
\* service as it was; a stop that times out leaves it stopping, a commit that fails
\* leaves it stopped (install, restore_windows_service_after_failed_update).  The
\* service of an older release is never started again.
THEOREM FailedUpdateRestores == InstallationsSpec => FailureRestores
<1>1. WindowsProofs!Spec => WindowsProofs!FailureRestores
  BY ProgramsDiffer, WindowsProofs!FailedUpdateRestores
<1>2. WindowsProofs!FailureRestores => FailureRestores
  BY PTL DEF FailureRestores, Windows!FailureRestores, WindowsProofs!FailureRestores,
             Windows!vars, WindowsProofs!vars
<1>. QED
  BY <1>1, <1>2, ActsAsOnWindows, PTL

=============================================================================
