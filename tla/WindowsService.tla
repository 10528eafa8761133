---------------------------- MODULE WindowsService ----------------------------
(***************************************************************************)
(* The Windows service of one mode (service.rs): the protected program and *)
(* its backup while setup replaces it, the service manager's entry, the    *)
(* firewall rule, and the process the service manager runs.  setup and     *)
(* uninstall run next to the commands start, stop and restart of another   *)
(* terminal or of the tray.                                                *)
(*                                                                         *)
(* Every call may fail; an installation may be killed.  A wait ends with   *)
(* its condition or with its time-out.  A program that runs can be renamed *)
(* but not removed.                                                        *)
(*                                                                         *)
(* Left out: what makes a check of paths, attributes and access lists      *)
(* fail, the port (setup saves it before it installs, so that rule and     *)
(* service agree on it), and the other mode, which shares the directory.   *)
(***************************************************************************)

CONSTANTS
  Versions,   \* programs that setup installs
  Legacy,     \* the program of an entry that does not name the protected path
  None        \* no program

\* Installations assumes it of the values it gives them.
ProgramsDiffer == None \notin Versions /\ Legacy \notin Versions \cup {None}

VARIABLES
  dest,       \* the program at the protected path
  backup,     \* the program under the backup's name
  service,    \* the service manager's entry and its process
  rule,       \* the firewall lets the service's port through
  setup,      \* the installation or removal under way
  restarting, \* a restart waits for the service to stop
  prior,      \* what the installation replaces (history)
  result,     \* of the last installation (history)
  faults      \* what failed of it but the installing itself (history)

vars == <<dest, backup, service, rule, setup, restarting, prior, result, faults>>
files == <<dest, backup>>
history == <<prior, result, faults>>

Programs == Versions \cup {None}

\* program runs unless the state is stopped; an entry that was deleted stays
\* until its service has stopped.
Service ==
  [entry : {"absent", "present", "deleting"}, image : {"protected", "legacy"},
   state : {"stopped", "starting", "running", "stopping"},
   program : Programs \cup {Legacy}]

NoService == [entry |-> "absent", image |-> "protected",
              state |-> "stopped", program |-> None]

\* WindowsServiceUpdateState
UpdateState == [installed : BOOLEAN, running : BOOLEAN, protected : BOOLEAN]

Steps == {"idle", "stop", "stage", "backup", "publish", "check", "firewall",
          "delete", "await", "create", "start", "validate", "commit", "close",
          "remove", "put back", "directories", "restore", "rule", "restart",
          "unrule", "erase"}

\* phase tells for whom a step shared by several callers runs; created, that
\* begin made the directories; changed, service_configuration_changed; again,
\* that rollback runs and Drop will run it once more if it fails.
Setup == [step : Steps, phase : {"begin", "install", "cleanup", "restore", "uninstall"},
          new : Programs, created : BOOLEAN, changed : BOOLEAN, again : BOOLEAN,
          deleted : BOOLEAN, was : UpdateState]

NotInstalled == [installed |-> FALSE, running |-> FALSE, protected |-> FALSE]
Idle == [step |-> "idle", phase |-> "begin", new |-> None, created |-> FALSE,
         changed |-> FALSE, again |-> FALSE, deleted |-> TRUE, was |-> NotInstalled]

TypeOK ==
  /\ dest \in Programs /\ backup \in Programs
  /\ service \in Service
  /\ rule \in BOOLEAN /\ restarting \in BOOLEAN
  /\ setup \in Setup
  /\ prior \in Programs
  /\ result \in {"none", "ok", "failed"}
  /\ faults \subseteq {"stop", "commit", "cleanup", "undo", "restore", "killed"}

\* A machine without the service, with a protected one, or with one that an
\* older release installed and whose entry names its own path.
Init ==
  /\ \/ service = NoService /\ dest = None /\ rule = FALSE
     \/ /\ dest \in Versions
        /\ service = [NoService EXCEPT !.entry = "present"] /\ rule = TRUE
     \/ /\ dest = None /\ rule = TRUE
        /\ service = [NoService EXCEPT !.entry = "present", !.image = "legacy",
                                       !.state = "running", !.program = Legacy]
  /\ backup = None
  /\ setup = Idle /\ restarting = FALSE
  /\ prior = dest /\ result = "none" /\ faults = {}

-----------------------------------------------------------------------------
(* The service's process and the service manager *)

Stopped == service.state = "stopped"

validate_windows_protected_binary == dest # None

windows_image_path_uses_protected_binary == service.image = "protected"

\* Of a service whose entry names the protected path.
Locked(p) ==
  ~Stopped /\ windows_image_path_uses_protected_binary /\ service.program = p

\* ServiceControl::Stop reaches a service that has reported Running; it
\* reports StopPending.
CanStop == service.state = "running"
StopPending == service' = [service EXCEPT !.state = "stopping"]

\* Fault: a service is started whatever its entry names.
CanStart_AnyImage == service.entry = "present" /\ Stopped

\* ensure_service_uses_protected_binary and the service manager's own checks.
CanStart ==
  /\ validate_windows_protected_binary
  /\ service.entry = "present" /\ windows_image_path_uses_protected_binary
  /\ Stopped

Launch ==
  service' = [service EXCEPT !.state = "starting",
                             !.program = IF service.image = "protected" THEN dest ELSE Legacy]

\* A stopped service that was deleted is gone.
Halted(s) == IF s.entry = "deleting" THEN NoService
             ELSE [s EXCEPT !.state = "stopped", !.program = None]

\* run_windows_service_inner registers its handler and reports Running, then
\* serves.
ReportRunning ==
  /\ service.state = "starting"
  /\ service' = [service EXCEPT !.state = "running"]
  /\ UNCHANGED <<files, rule, setup, restarting, history>>

\* It reports Stopped: after the handler's signal, when serving fails, or
\* because its process has died.
ReportStopped ==
  /\ ~Stopped
  /\ service' = Halted(service)
  /\ UNCHANGED <<files, rule, setup, restarting, history>>

-----------------------------------------------------------------------------
(* start, stop and restart *)

start ==
  /\ CanStart /\ Launch
  /\ UNCHANGED <<files, rule, setup, restarting, history>>

stop ==
  /\ CanStop /\ StopPending
  /\ UNCHANGED <<files, rule, setup, restarting, history>>

\* restart stops the service unless it is stopped or stopping, and waits.
restart ==
  /\ ~restarting
  /\ validate_windows_protected_binary
  /\ service.entry = "present" /\ windows_image_path_uses_protected_binary
  /\ \/ CanStop /\ StopPending
     \/ service.state \in {"stopped", "stopping"} /\ UNCHANGED service
  /\ restarting' = TRUE
  /\ UNCHANGED <<files, rule, setup, history>>

\* It starts the service when it has stopped; it gives up after 15 seconds,
\* or start refuses.
RestartEnds ==
  /\ restarting /\ restarting' = FALSE
  /\ (CanStart /\ Launch) \/ UNCHANGED service
  /\ UNCHANGED <<files, rule, setup, history>>

-----------------------------------------------------------------------------
(* install: prepare_windows_service_for_binary_update *)

Go(step) == setup' = [setup EXCEPT !.step = step]

\* install returns an error.
Fail(fault) ==
  /\ setup' = [setup EXCEPT !.step = "idle"]
  /\ result' = "failed" /\ faults' = faults \cup fault
  /\ UNCHANGED prior

Was == [installed |-> service.entry # "absent",
        running |-> ~Stopped,
        protected |-> /\ service.entry # "absent"
                      /\ windows_image_path_uses_protected_binary
                      /\ validate_windows_protected_binary]

\* A service that is starting cannot be stopped: install returns.
install(v) ==
  /\ setup.step = "idle"
  /\ \/ Stopped /\ UNCHANGED service
     \/ CanStop /\ StopPending
     \/ service.state = "stopping" /\ UNCHANGED service
  /\ setup' = [Idle EXCEPT !.step = IF Stopped THEN "stage" ELSE "stop",
                           !.new = v, !.was = Was]
  /\ prior' = dest /\ result' = "none" /\ faults' = {}
  /\ backup' = None  \* an older backup keeps its random name
  /\ UNCHANGED <<dest, rule, restarting>>

\* stop_windows_service_for_restart with 30 seconds: they may pass, and the
\* service stops all the same.
AwaitStop ==
  /\ setup.step = "stop"
  /\ \/ Stopped /\ Go("stage") /\ UNCHANGED history
     \/ Fail({"stop"})
  /\ UNCHANGED <<files, service, rule, restarting>>

-----------------------------------------------------------------------------
(* begin_protected_binary_update *)

\* Fault: directories that were there count as created.
Stage_OwnsDirectories ==
  /\ setup.step = "stage"
  /\ \/ \E c \in BOOLEAN : setup' = [setup EXCEPT !.step = "backup", !.created = c]
     \/ Go("restore")
  /\ UNCHANGED <<files, service, rule, restarting, history>>

\* Where there is a program there are its directories.
ensure_windows_service_directories == {c \in BOOLEAN : c => dest = None}

\* The checks, the directories, the stage and its verification.
Stage ==
  /\ setup.step = "stage"
  /\ \/ \E c \in ensure_windows_service_directories :
          setup' = [setup EXCEPT !.step = "backup", !.created = c]
     \/ Go("restore")
  /\ UNCHANGED <<files, service, rule, restarting, history>>

BackUp ==
  /\ setup.step = "backup"
  /\ \/ dest = None /\ Go("publish") /\ UNCHANGED files
     \/ dest # None /\ backup' = dest /\ dest' = None /\ Go("publish")
     \/ dest # None /\ Go("restore") /\ UNCHANGED files
  /\ UNCHANGED <<service, rule, restarting, history>>

\* A copy of the source, synced and compared with it by its hash.
Staged == setup.new

\* persist_noclobber; when it fails the backup is moved back, and an error of
\* that is ignored.
Publish ==
  /\ setup.step = "publish"
  /\ \/ /\ dest' = Staged /\ Go("check")
        /\ UNCHANGED <<backup, history>>
     \/ /\ dest' = backup /\ backup' = None
        /\ Go("restore") /\ UNCHANGED history
     \/ /\ backup # None /\ Go("restore")
        /\ faults' = faults \cup {"undo"}
        /\ UNCHANGED <<files, prior, result>>
  /\ UNCHANGED <<service, rule, restarting>>

\* The published file is validated, or rolled back.
Check ==
  /\ setup.step = "check"
  /\ \/ setup' = [setup EXCEPT !.step = "firewall", !.phase = "install"]
     \/ setup' = [setup EXCEPT !.step = "remove", !.again = TRUE]
  /\ UNCHANGED <<files, service, rule, restarting, history>>

-----------------------------------------------------------------------------
(* install, with the program published *)

\* configure_firewall deletes the rule and adds it.
Firewall ==
  /\ setup.step = "firewall"
  /\ \/ rule' = TRUE /\ setup' = [setup EXCEPT !.step = "delete", !.changed = TRUE]
     \/ rule' \in {rule, FALSE} /\ Go("close")
  /\ UNCHANGED <<files, service, restarting, history>>

\* delete_windows_service_if_exists has ended, well or not; its caller goes on.
Deleted(ok) ==
  CASE setup.phase = "install" ->
         Go(IF ok THEN "create" ELSE "close") /\ UNCHANGED history
    [] setup.phase = "cleanup" /\ ok ->
         /\ setup' = [setup EXCEPT !.step = "remove", !.phase = "install", !.again = TRUE]
         /\ UNCHANGED history
    [] setup.phase = "cleanup" /\ ~ok ->  \* Drop rolls back
         /\ setup' = [setup EXCEPT !.step = "remove", !.phase = "cleanup"]
         /\ faults' = faults \cup {"cleanup"} /\ UNCHANGED <<prior, result>>
    [] setup.phase = "restore" ->
         IF ~ok THEN Fail({"restore"})
         ELSE IF setup.was.protected THEN Go("create") /\ UNCHANGED history ELSE Fail({})
    [] setup.phase = "uninstall" ->
         setup' = [setup EXCEPT !.step = "unrule", !.deleted = ok] /\ UNCHANGED history

\* Fault: an entry that names the protected path is taken for up to date.
Delete_KeepsProtected ==
  /\ setup.step = "delete"
  /\ \/ /\ service.entry = "present" /\ service.image = "protected"
        /\ setup.phase = "install" /\ Go("validate")
     \/ service.entry = "absent" /\ Deleted(TRUE)
  /\ UNCHANGED <<files, service, rule, restarting, history>>

\* Stop the service, ignoring errors, and delete it.  A deleted one cannot be
\* deleted again.
Delete ==
  /\ setup.step = "delete"
  /\ \/ service.entry = "absent" /\ Deleted(TRUE) /\ UNCHANGED service
     \/ /\ service.entry = "present" /\ Go("await") /\ UNCHANGED history
        /\ service' = IF Stopped THEN NoService
                      ELSE [service EXCEPT !.entry = "deleting",
                              !.state = IF CanStop THEN "stopping" ELSE @]
     \/ Deleted(FALSE) /\ ((CanStop /\ StopPending) \/ UNCHANGED service)
  /\ UNCHANGED <<files, rule, restarting>>

\* Look for the entry for five seconds.
AwaitDeletion ==
  /\ setup.step = "await"
  /\ Deleted(service.entry = "absent") \/ Deleted(FALSE)
  /\ UNCHANGED <<files, service, rule, restarting>>

\* The rest of install_windows_service.
Create ==
  /\ setup.step = "create"
  /\ \/ /\ validate_windows_protected_binary /\ service.entry = "absent"
        /\ service' = [NoService EXCEPT !.entry = "present"]
        /\ Go(IF setup.phase = "install" THEN "start" ELSE "rule")
        /\ UNCHANGED history
     \/ /\ UNCHANGED service
        /\ IF setup.phase = "install" THEN Go("close") /\ UNCHANGED history
           ELSE Fail({"restore"})
  /\ UNCHANGED <<files, rule, restarting>>

StartInstalled ==
  /\ setup.step = "start"
  /\ \/ CanStart /\ Launch /\ Go("validate")
     \/ UNCHANGED service /\ Go("close")
  /\ UNCHANGED <<files, rule, restarting, history>>

\* validate connects to the port, ten times at most; whoever listens there will
\* do.
Validate ==
  /\ setup.step = "validate"
  /\ Go("commit") \/ Go("close")
  /\ UNCHANGED <<files, service, rule, restarting, history>>

\* WindowsProtectedBinaryUpdate::commit: when the backup cannot be removed,
\* Drop rolls back.
Commit ==
  /\ setup.step = "commit"
  /\ \/ /\ backup' = None /\ result' = "ok"
        /\ Go("idle") /\ UNCHANGED <<prior, faults>>
     \/ /\ backup # None /\ UNCHANGED backup
        /\ setup' = [setup EXCEPT !.step = "remove", !.phase = "cleanup"]
        /\ faults' = faults \cup {"commit"} /\ UNCHANGED <<prior, result>>
  /\ UNCHANGED <<dest, service, rule, restarting>>

\* An installation that failed removes the rule, ignoring errors, and what
\* install_windows_service has left.
Close ==
  /\ setup.step = "close"
  /\ rule' \in {rule, FALSE}
  /\ IF setup.changed
     THEN setup' = [setup EXCEPT !.step = "delete", !.phase = "cleanup"]
     ELSE setup' = [setup EXCEPT !.step = "remove", !.again = TRUE]
  /\ UNCHANGED <<files, service, restarting, history>>

-----------------------------------------------------------------------------
(* rollback_inner, as rollback or as Drop *)

\* rollback leaves the update unfinished and Drop starts over; after Drop,
\* begin's caller restores the service and install returns.
RollbackFails ==
  IF setup.again
  THEN /\ setup' = [setup EXCEPT !.step = "remove", !.again = FALSE,
                      !.phase = IF @ = "begin" THEN @ ELSE "cleanup"]
       /\ faults' = faults \cup {"undo"}
       /\ UNCHANGED <<prior, result>>
  ELSE IF setup.phase = "begin"
  THEN Go("restore") /\ faults' = faults \cup {"undo"} /\ UNCHANGED <<prior, result>>
  ELSE Fail({"undo"})

\* Only the rollback of install itself is followed by a restoration.
RolledBack ==
  IF setup.phase = "cleanup" THEN Fail({})
  ELSE Go("restore") /\ UNCHANGED history

RemovePublished ==
  /\ setup.step = "remove"
  /\ \/ ~Locked(dest) /\ dest' = None /\ Go("put back") /\ UNCHANGED history
     \/ dest # None /\ RollbackFails /\ UNCHANGED dest
  /\ UNCHANGED <<backup, service, rule, restarting>>

PutBack ==
  /\ setup.step = "put back"
  /\ \/ backup = None /\ Go("directories") /\ UNCHANGED <<files, history>>
     \/ /\ backup # None /\ Go("directories") /\ UNCHANGED history
        /\ dest' = backup /\ backup' = None
     \/ backup # None /\ RollbackFails /\ UNCHANGED files
  /\ UNCHANGED <<service, rule, restarting>>

RemoveDirectories ==
  /\ setup.step = "directories"
  /\ RolledBack \/ (setup.created /\ RollbackFails)
  /\ UNCHANGED <<files, service, rule, restarting>>

-----------------------------------------------------------------------------
(* restore_windows_service_after_failed_update *)

\* Fault: the entry is not defined again.
Restore_KeepsEntry ==
  /\ setup.step = "restore"
  /\ IF setup.was.protected THEN Go("rule") /\ UNCHANGED history ELSE Fail({})
  /\ UNCHANGED <<files, service, rule, restarting>>

\* Undo a changed definition, or only put the rule back.
Restore ==
  /\ setup.step = "restore"
  /\ IF setup.changed
     THEN setup' = [setup EXCEPT !.step = "delete", !.phase = "restore"] /\ UNCHANGED history
     ELSE IF setup.was.protected THEN Go("rule") /\ UNCHANGED history ELSE Fail({})
  /\ UNCHANGED <<files, service, rule, restarting>>

RestoreRule ==
  /\ setup.step = "rule"
  /\ \/ /\ validate_windows_protected_binary /\ rule' = TRUE
        /\ IF setup.was.running THEN Go("restart") /\ UNCHANGED history ELSE Fail({})
     \/ rule' \in {rule, FALSE} /\ Fail({"restore"})
  /\ UNCHANGED <<files, service, restarting>>

RestoreStart ==
  /\ setup.step = "restart"
  /\ \/ CanStart /\ Launch /\ Fail({})
     \/ UNCHANGED service /\ Fail({"restore"})
  /\ UNCHANGED <<files, rule, restarting>>

-----------------------------------------------------------------------------
(* uninstall *)

uninstall ==
  /\ setup.step = "idle"
  /\ setup' = [Idle EXCEPT !.step = "delete", !.phase = "uninstall"]
  /\ UNCHANGED <<files, service, rule, restarting, history>>

\* Fault: the program is removed whatever became of the service.
RemoveRule_ThenProgram ==
  /\ setup.step = "unrule"
  /\ rule' \in {rule, FALSE} /\ Go("erase")
  /\ UNCHANGED <<files, service, restarting, history>>

\* The rule goes in any case, the program only if all else is gone.
RemoveRule ==
  /\ setup.step = "unrule"
  /\ \/ rule' = FALSE /\ Go(IF setup.deleted THEN "erase" ELSE "idle")
     \/ UNCHANGED rule /\ Go("idle")
  /\ UNCHANGED <<files, service, restarting, history>>

remove_protected_service_binary ==
  /\ setup.step = "erase"
  /\ Go("idle")
  /\ (~Locked(dest) /\ dest' = None) \/ UNCHANGED dest
  /\ UNCHANGED <<backup, service, rule, restarting, history>>

Killed ==
  /\ setup.step # "idle"
  /\ IF setup.phase = "uninstall" THEN Go("idle") /\ UNCHANGED history ELSE Fail({"killed"})
  /\ UNCHANGED <<files, service, rule, restarting>>

Install ==
  \/ \E v \in Versions : install(v)
  \/ AwaitStop \/ Stage \/ BackUp \/ Publish \/ Check
  \/ Firewall \/ Delete \/ AwaitDeletion \/ Create \/ StartInstalled
  \/ Validate \/ Commit \/ Close
  \/ RemovePublished \/ PutBack \/ RemoveDirectories
  \/ Restore \/ RestoreRule \/ RestoreStart

Uninstall == uninstall \/ RemoveRule \/ remove_protected_service_binary

Next ==
  \/ ReportRunning \/ ReportStopped
  \/ start \/ stop \/ restart \/ RestartEnds
  \/ Install \/ Uninstall \/ Killed

Spec == Init /\ [][Next]_vars

-----------------------------------------------------------------------------
(* Properties *)

\* Whatever fails, and wherever setup is killed, replacing a program never
\* leaves the machine without a complete one, although a rollback that failed
\* is run again by Drop: the directories that a rollback may fail to remove
\* are its own only when there was no program.
WindowsCopySurvives ==
  prior # None /\ setup.phase # "uninstall" =>
    \E p \in {dest, backup} : p # None /\ p \in {prior, setup.new}

\* While nothing is under way the entry names a program that exists, also
\* after an uninstallation that stopped half way: unless an installation was
\* killed or could not be undone.
EntryHasProgram ==
  /\ service.entry = "present" /\ service.image = "protected"
  /\ setup.step = "idle" /\ faults \cap {"undo", "killed"} = {}
  /\ prior # None \/ result = "ok"
  => dest # None

\* A service that runs after a successful installation runs what was
\* installed, whatever start, stop and restart did in the meantime.
RunsInstalled ==
  setup.step = "idle" /\ result = "ok" /\ ~Stopped /\ service.image = "protected"
  => service.program = dest

\* The service and its program belong together.
ServiceHasItsProgram == EntryHasProgram /\ RunsInstalled

\* An installation that fails, for whatever reason, and whose undoing does not
\* fail as well (nor is killed), leaves the service as it was: the same program,
\* its entry and its rule, and running if it ran.  Two failures leave less.  When
\* the old service does not stop in time nothing else is touched, but it stops
\* all the same and nobody starts it again.  When the commit fails, Drop puts the
\* program back under the new entry and starts nothing: the service no longer
\* runs, or its program could not have been removed.
\* "A legacy service is deliberately left stopped unless migration succeeds"
\* (prepare_windows_service_for_binary_update): no command starts it again.
FailureRestores ==
  [][/\ /\ setup.step # "idle" /\ setup.phase # "uninstall"
        /\ result' = "failed" /\ faults' \subseteq {"stop", "commit"}
        /\ setup.was.protected
        => /\ dest' = prior
           /\ "stop" \notin faults' =>
                service'.entry = "present" /\ service'.image = "protected" /\ rule'
           /\ setup.was.running /\ faults' = {} => service'.state # "stopped"
     /\ service.program # Legacy => service'.program # Legacy]_vars

=============================================================================
