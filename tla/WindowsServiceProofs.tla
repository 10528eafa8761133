------------------------- MODULE WindowsServiceProofs -------------------------
(***************************************************************************)
(* Proofs about WindowsService for any programs and any number of          *)
(* installations and removals.                                             *)
(*                                                                         *)
(* The invariant follows an installation step by step: where the program   *)
(* that was found and the new one are, what is left of the entry, and that *)
(* Drop, which may run a rollback again, finds what the first one left.    *)
(***************************************************************************)
EXTENDS WindowsService, TLAPS

\* An entry that is gone leaves nothing; one that was deleted is still there
\* because its service has not stopped.
ServiceConsistent ==
  /\ service.entry = "absent" => service = NoService
  /\ service.entry = "deleting" => ~Stopped

\* The callers of the steps that several share.
StepsOfPhases ==
  /\ setup.step \in {"stop", "stage", "backup", "publish", "check"} => setup.phase = "begin"
  /\ setup.step \in {"firewall", "start", "validate", "commit", "close"} =>
       setup.phase = "install"
  /\ setup.step \in {"delete", "await"} => setup.phase # "begin"
  /\ setup.step = "create" => setup.phase \in {"install", "restore"}
  /\ setup.step \in {"remove", "put back", "directories"} =>
       setup.phase \in {"begin", "install", "cleanup"}
  /\ setup.step \in {"restore", "rule", "restart"} =>
       setup.phase \in {"begin", "install", "restore"}
  /\ setup.step \in {"unrule", "erase"} => setup.phase = "uninstall"

Replacing == setup.step # "idle" /\ setup.phase # "uninstall"

\* An installation has a program to publish, and has made the directories only
\* where there was none.
InProgress ==
  Replacing => /\ result = "none" /\ setup.new \in Versions
               /\ setup.created => prior = None

\* The program has been published and not been removed again.
Published ==
  \/ setup.step \in {"check", "firewall", "start", "validate", "commit", "close"}
  \/ setup.step \in {"delete", "await", "create"} /\ setup.phase \in {"install", "cleanup"}

\* The rollback is over, for better or worse.
Restoring ==
  \/ setup.step \in {"restore", "rule", "restart"}
  \/ setup.step \in {"delete", "await", "create"} /\ setup.phase = "restore"

Clean == faults \cap {"undo", "killed"} = {}

\* Where the two programs are; Drop may begin again only while the backup is
\* there, or if there never was one.
WhereProgramsAre ==
  /\ setup.step \in {"stop", "stage", "backup"} => dest = prior /\ backup = None
  /\ setup.step \in {"publish", "put back"} => dest = None
  /\ Published => dest = setup.new
  /\ Published \/ setup.step \in {"publish", "remove", "put back"} => backup = prior
  /\ setup.step = "directories" => dest = prior /\ backup = None
  /\ Restoring /\ Clean => dest = prior

\* The entry changes only after changed is set; once it has been put back, or
\* was never changed, it is what it was.  The rule is back before the service.
\* A commit that failed leaves both alone.
EntryKept ==
  /\ setup.step \in {"delete", "await", "create"} /\ setup.phase # "uninstall" => setup.changed
  /\ /\ Replacing /\ setup.was.protected /\ ~setup.was.running
     /\ ~setup.changed \/ setup.step \in {"rule", "restart"}
     => service.entry = "present" /\ service.image = "protected"
  /\ setup.step = "restart" => rule
  /\ setup.step \in {"delete", "await", "create"} /\ setup.phase = "install" => rule
  /\ setup.step \in {"remove", "put back", "directories"} /\ setup.phase = "cleanup" =>
       /\ faults # {}
       /\ faults \subseteq {"stop", "commit"} =>
            service.entry = "present" /\ service.image = "protected" /\ rule

\* The service that is about to be committed runs the new program.
RunsNew ==
  setup.step \in {"start", "validate", "commit"} =>
    /\ service.entry = "present" /\ service.image = "protected" /\ rule
    /\ ~Stopped => service.program = dest

\* What ServiceHasItsProgram says also holds while an uninstallation runs,
\* which erases the program only when the entry is gone.
AtRest ==
  /\ ~Replacing =>
       /\ /\ service.entry = "present" /\ service.image = "protected"
          /\ Clean /\ (prior # None \/ result = "ok")
          => dest # None
       /\ result = "ok" /\ ~Stopped /\ service.image = "protected" => service.program = dest
  /\ setup.step = "erase" \/ (setup.step = "unrule" /\ setup.deleted) =>
       service.entry = "absent"

IInv ==
  /\ ProgramsDiffer /\ TypeOK
  /\ ServiceConsistent /\ StepsOfPhases /\ InProgress /\ WhereProgramsAre
  /\ EntryKept /\ RunsNew /\ AtRest
  /\ WindowsCopySurvives

-----------------------------------------------------------------------------
(* Lemmas about the records *)

LEMMA IdleSetup ==
  /\ Idle \in Setup /\ Idle.step = "idle" /\ Idle.phase = "begin" /\ Idle.new = None
  /\ Idle.created = FALSE /\ Idle.changed = FALSE /\ Idle.again = FALSE
  /\ Idle.deleted = TRUE /\ Idle.was = NotInstalled
BY DEF Idle, Setup, Steps, Programs, UpdateState, NotInstalled

\* A step that only goes on to the next.
LEMMA GoesOn ==
  ASSUME setup \in Setup, NEW step \in Steps, Go(step)
  PROVE  /\ setup' \in Setup /\ setup'.step = step /\ setup'.phase = setup.phase
         /\ setup'.new = setup.new /\ setup'.created = setup.created
         /\ setup'.changed = setup.changed /\ setup'.again = setup.again
         /\ setup'.deleted = setup.deleted /\ setup'.was = setup.was
BY DEF Go, Setup

LEMMA EntryFields ==
  /\ NoService \in Service /\ NoService.entry = "absent" /\ NoService.image = "protected"
  /\ NoService.state = "stopped" /\ NoService.program = None
  /\ [NoService EXCEPT !.entry = "present"] \in Service
  /\ [NoService EXCEPT !.entry = "present"].entry = "present"
  /\ [NoService EXCEPT !.entry = "present"].image = "protected"
  /\ [NoService EXCEPT !.entry = "present"].state = "stopped"
BY DEF NoService, Service, Programs

-----------------------------------------------------------------------------
(* The service's process, whoever acts on it *)

Runs ==
  \/ UNCHANGED service
  \/ service.state = "starting" /\ service' = [service EXCEPT !.state = "running"]
  \/ ~Stopped /\ service' = Halted(service)
  \/ CanStart /\ Launch
  \/ CanStop /\ StopPending

\* Starting and stopping, by anyone, leave the entry or take away one that was
\* deleted; what starts is the program at the protected path.
LEMMA RunsKeepsEntry ==
  ASSUME ProgramsDiffer, TypeOK, ServiceConsistent, Runs
  PROVE  /\ service' \in Service /\ ServiceConsistent'
         /\ service'.entry = service.entry \/ (service.entry = "deleting" /\ service' = NoService)
         /\ service.image = "protected" => service'.image = "protected"
         /\ service'.entry = "present" => service'.image = service.image
         /\ ~Stopped' => /\ service'.image = service.image
                         /\ \/ ~Stopped /\ service'.program = service.program
                            \/ service'.program = dest
         /\ service.program # Legacy => service'.program # Legacy
<1>1. CASE UNCHANGED service
  BY <1>1 DEF TypeOK, ServiceConsistent, Stopped
<1>2. CASE service.state = "starting" /\ service' = [service EXCEPT !.state = "running"]
  BY <1>2, EntryFields DEF TypeOK, ServiceConsistent, Stopped, Service
<1>3. CASE ~Stopped /\ service' = Halted(service)
  BY <1>3, EntryFields
     DEF TypeOK, ServiceConsistent, Stopped, Service, Halted, ProgramsDiffer, Programs
<1>4. CASE CanStart /\ Launch
  BY <1>4, EntryFields
     DEF TypeOK, ServiceConsistent, Stopped, Service, CanStart, Launch, ProgramsDiffer, Programs,
         windows_image_path_uses_protected_binary
<1>5. CASE CanStop /\ StopPending
  BY <1>5, EntryFields DEF TypeOK, ServiceConsistent, Stopped, Service, CanStop, StopPending
<1>. QED
  BY <1>1, <1>2, <1>3, <1>4, <1>5 DEF Runs

\* The commands and the service manager next to setup.
LEMMA RunningKeeps ==
  ASSUME IInv, Runs, restarting' \in BOOLEAN, UNCHANGED <<files, rule, setup, history>>
  PROVE  IInv'
<1>1. /\ service' \in Service /\ ServiceConsistent'
      /\ service'.entry = service.entry \/ (service.entry = "deleting" /\ service' = NoService)
      /\ service.image = "protected" => service'.image = "protected"
      /\ service'.entry = "present" => service'.image = service.image
      /\ ~Stopped' => /\ service'.image = service.image
                      /\ \/ ~Stopped /\ service'.program = service.program
                         \/ service'.program = dest
  BY RunsKeepsEntry DEF IInv
<1>2. TypeOK'
  BY <1>1 DEF IInv, TypeOK, files, history
<1>3. StepsOfPhases' /\ InProgress' /\ WhereProgramsAre' /\ WindowsCopySurvives' /\ ProgramsDiffer'
  BY DEF IInv, StepsOfPhases, InProgress, Replacing, WhereProgramsAre, Published, Restoring,
         Clean, WindowsCopySurvives, files, history, ProgramsDiffer
<1>4. EntryKept' /\ RunsNew'
  BY <1>1 DEF IInv, EntryKept, Replacing, RunsNew, files, history
<1>5. AtRest'
  BY <1>1, EntryFields DEF IInv, AtRest, Replacing, Clean, files, history
<1>. QED
  BY <1>1, <1>2, <1>3, <1>4, <1>5 DEF IInv

LEMMA CommandsKeep ==
  ASSUME IInv, ReportRunning \/ ReportStopped \/ start \/ stop \/ restart \/ RestartEnds
  PROVE  IInv'
<1>1. Runs /\ restarting' \in BOOLEAN /\ UNCHANGED <<files, rule, setup, history>>
  BY DEF ReportRunning, ReportStopped, start, stop, restart, RestartEnds, Runs, IInv, TypeOK
<1>. QED
  BY <1>1, RunningKeeps

-----------------------------------------------------------------------------
(* Steps that end an installation or a rollback *)

\* An installation that fails leaves the programs where they are: the program
\* that was found is in its place, unless the rollback failed.
LEMMA FailKeeps ==
  ASSUME IInv, Replacing, UNCHANGED <<files, restarting>>, Runs, rule' \in BOOLEAN,
         NEW fault \in SUBSET {"stop", "commit", "cleanup", "undo", "restore", "killed"},
         Fail(fault),
         Clean' => dest = prior
  PROVE  IInv'
<1>1. /\ setup' \in Setup /\ setup'.step = "idle" /\ setup'.phase = setup.phase
      /\ setup'.new = setup.new
      /\ result' = "failed" /\ faults' = faults \cup fault
      /\ UNCHANGED <<dest, backup, restarting, prior>>
  BY GoesOn DEF Fail, Go, files, IInv, TypeOK, Steps
<1>2. service' \in Service /\ ServiceConsistent'
  BY RunsKeepsEntry DEF IInv
<1>3. TypeOK'
  BY <1>1, <1>2 DEF IInv, TypeOK
<1>4. StepsOfPhases' /\ InProgress' /\ WhereProgramsAre' /\ EntryKept' /\ RunsNew'
  BY <1>1 DEF StepsOfPhases, InProgress, Replacing, WhereProgramsAre, Published, Restoring,
              EntryKept, RunsNew
<1>5. AtRest' /\ WindowsCopySurvives'
  BY <1>1 DEF IInv, Replacing, AtRest, WindowsCopySurvives
<1>. QED
  BY <1>2, <1>3, <1>4, <1>5 DEF IInv, ProgramsDiffer

\* A rollback that fails is run again by Drop, which finds the backup or knows
\* that there was none; or it leaves the failure behind.
LEMMA RollbackFailsKeeps ==
  ASSUME IInv, setup.step \in {"remove", "put back", "directories"}, backup = prior,
         RollbackFails, UNCHANGED <<files, service, rule, restarting>>
  PROVE  IInv'
<1>1. CASE setup.again
  <2>1. /\ setup' \in Setup /\ setup'.step = "remove"
        /\ setup'.phase \in {"begin", "cleanup"}
        /\ setup'.new = setup.new /\ setup'.created = setup.created
        /\ setup'.changed = setup.changed /\ setup'.was = setup.was
        /\ faults' = faults \cup {"undo"}
        /\ UNCHANGED <<dest, backup, service, rule, restarting, prior, result>>
    <3> DEFINE phase == IF setup.phase = "begin" THEN setup.phase ELSE "cleanup"
    <3>1. /\ setup' = [setup EXCEPT !.step = "remove", !.again = FALSE, !.phase = phase]
          /\ faults' = faults \cup {"undo"}
          /\ UNCHANGED <<dest, backup, service, rule, restarting, prior, result>>
      BY <1>1 DEF RollbackFails, files
    <3>2. phase \in {"begin", "cleanup"}
      OBVIOUS
    <3> HIDE DEF phase
    <3>. QED
      BY <3>1, <3>2 DEF IInv, TypeOK, Setup, Steps
  <2>2. TypeOK'
    BY <2>1 DEF IInv, TypeOK
  <2>. QED
    BY <2>1, <2>2
       DEF IInv, ProgramsDiffer, ServiceConsistent, Stopped, StepsOfPhases, InProgress, Replacing,
         WhereProgramsAre, Published, Restoring, Clean, EntryKept, RunsNew, AtRest,
         WindowsCopySurvives
<1>2. CASE ~setup.again /\ setup.phase = "begin"
  <2>1. /\ setup' \in Setup /\ setup'.step = "restore" /\ setup'.phase = setup.phase
        /\ setup'.new = setup.new /\ setup'.created = setup.created
        /\ setup'.changed = setup.changed /\ setup'.was = setup.was
        /\ faults' = faults \cup {"undo"}
        /\ UNCHANGED <<dest, backup, service, rule, restarting, prior, result>>
    BY <1>2, GoesOn DEF RollbackFails, IInv, TypeOK, Steps, files
  <2>2. TypeOK'
    BY <2>1 DEF IInv, TypeOK
  <2>. QED
    BY <1>2, <2>1, <2>2
       DEF IInv, ProgramsDiffer, ServiceConsistent, Stopped, StepsOfPhases, InProgress, Replacing,
         WhereProgramsAre, Published, Restoring, Clean, EntryKept, RunsNew, AtRest,
         WindowsCopySurvives
<1>3. CASE ~setup.again /\ setup.phase # "begin"
  <2>1. Replacing
    BY DEF Replacing, IInv, StepsOfPhases
  <2>2. Fail({"undo"}) /\ ~Clean'
    BY <1>3 DEF RollbackFails, Fail, Clean
  <2>3. Runs /\ rule' \in BOOLEAN
    BY DEF Runs, IInv, TypeOK
  <2>. QED
    BY <2>1, <2>2, <2>3, FailKeeps
<1>. QED
  BY <1>1, <1>2, <1>3

\* delete_windows_service_if_exists has ended; only if it has ended well is the
\* entry known to be gone.
LEMMA DeletedKeeps ==
  ASSUME IInv, setup.step \in {"delete", "await"}, Runs,
         NEW ok \in BOOLEAN, Deleted(ok), ok => service.entry = "absent",
         UNCHANGED <<files, rule, restarting>>
  PROVE  IInv'
<1>1. setup.phase \in {"install", "cleanup", "restore", "uninstall"}
  BY DEF IInv, TypeOK, Setup, StepsOfPhases
<1>2. /\ service' \in Service /\ ServiceConsistent'
      /\ service'.entry = service.entry \/ (service.entry = "deleting" /\ service' = NoService)
      /\ service'.entry = "present" => service'.image = service.image
      /\ ~Stopped' => /\ service'.image = service.image
                      /\ \/ ~Stopped /\ service'.program = service.program
                         \/ service'.program = dest
  BY RunsKeepsEntry DEF IInv
<1>3. CASE setup.phase = "install"
  <2>1. /\ setup' \in Setup /\ setup'.step \in {"create", "close"} /\ setup'.phase = "install"
        /\ setup'.new = setup.new /\ setup'.created = setup.created
        /\ setup'.changed = setup.changed /\ setup'.was = setup.was
        /\ UNCHANGED <<dest, backup, rule, restarting, prior, result, faults>>
    BY <1>3, GoesOn DEF Deleted, IInv, TypeOK, Steps, files, history
  <2>2. TypeOK'
    BY <1>2, <2>1 DEF IInv, TypeOK
  <2>. QED
    <3>1. (ServiceConsistent /\ StepsOfPhases /\ InProgress)'
      BY <1>2, <1>3, <2>1 DEF IInv, StepsOfPhases, InProgress, Replacing
    <3>2. (WhereProgramsAre /\ WindowsCopySurvives)'
      BY <1>3, <2>1
         DEF IInv, ProgramsDiffer, StepsOfPhases, InProgress, Replacing, WhereProgramsAre,
             Published, Restoring, Clean, WindowsCopySurvives
    <3>3. (EntryKept /\ RunsNew)'
      BY <1>3, <2>1 DEF IInv, StepsOfPhases, Replacing, EntryKept, RunsNew
    <3>4. AtRest'
      BY <1>3, <2>1 DEF Replacing, AtRest
    <3>. QED
      BY <2>2, <3>1, <3>2, <3>3, <3>4 DEF IInv, ProgramsDiffer
<1>4. CASE setup.phase = "cleanup"
  <2>1. /\ setup' \in Setup /\ setup'.step = "remove" /\ setup'.phase \in {"install", "cleanup"}
        /\ setup'.new = setup.new /\ setup'.created = setup.created
        /\ setup'.changed = setup.changed /\ setup'.was = setup.was
        /\ faults' \in {faults, faults \cup {"cleanup"}}
        /\ setup'.phase = "cleanup" => "cleanup" \in faults'
        /\ UNCHANGED <<dest, backup, rule, restarting, prior, result>>
    <3>1. \/ setup' = [setup EXCEPT !.step = "remove", !.phase = "install", !.again = TRUE]
          \/ /\ setup' = [setup EXCEPT !.step = "remove", !.phase = "cleanup"]
             /\ "cleanup" \in faults'
      BY <1>4 DEF Deleted
    <3>2. /\ faults' \in {faults, faults \cup {"cleanup"}}
          /\ UNCHANGED <<dest, backup, rule, restarting, prior, result>>
      BY <1>4 DEF Deleted, files, history
    <3>. QED
      BY <3>1, <3>2 DEF IInv, TypeOK, Setup, Steps
  <2>2. TypeOK'
    BY <1>2, <2>1 DEF IInv, TypeOK
  <2>. QED
    <3>1. (ServiceConsistent /\ StepsOfPhases /\ InProgress)'
      BY <1>2, <1>4, <2>1 DEF IInv, StepsOfPhases, InProgress, Replacing
    <3>2. (WhereProgramsAre /\ WindowsCopySurvives)'
      BY <1>4, <2>1
         DEF IInv, ProgramsDiffer, StepsOfPhases, InProgress, Replacing, WhereProgramsAre,
             Published, Restoring, Clean, WindowsCopySurvives
    <3>3. (EntryKept /\ RunsNew)'
      BY <1>4, <2>1 DEF IInv, StepsOfPhases, Replacing, EntryKept, RunsNew
    <3>4. AtRest'
      BY <1>4, <2>1 DEF Replacing, AtRest
    <3>. QED
      BY <2>2, <3>1, <3>2, <3>3, <3>4 DEF IInv, ProgramsDiffer
<1>5. CASE setup.phase = "restore"
  <2>1. Replacing /\ (Clean => dest = prior)
    BY <1>5 DEF Replacing, IInv, WhereProgramsAre, Restoring
  <2>2. CASE Fail({"restore"}) \/ Fail({})
    <3>1. PICK fault \in {{"restore"}, {}} : Fail(fault)
      BY <2>2
    <3>2. Clean' => Clean
      BY <3>1 DEF Fail, Clean
    <3>. QED
      BY <2>1, <3>1, <3>2, FailKeeps DEF IInv, TypeOK
  <2>3. CASE Go("create") /\ UNCHANGED history
    <3>1. /\ setup' \in Setup /\ setup'.step = "create" /\ setup'.phase = "restore"
          /\ setup'.new = setup.new /\ setup'.created = setup.created
          /\ setup'.changed = setup.changed /\ setup'.was = setup.was
          /\ UNCHANGED <<dest, backup, rule, restarting, prior, result, faults>>
      BY <1>5, <2>3, GoesOn DEF IInv, TypeOK, Steps, files, history
    <3>2. TypeOK'
      BY <1>2, <3>1 DEF IInv, TypeOK
    <3>. QED
      BY <1>2, <1>5, <3>1, <3>2
         DEF IInv, ProgramsDiffer, ServiceConsistent, Stopped, StepsOfPhases, InProgress, Replacing,
         WhereProgramsAre, Published, Restoring, Clean, EntryKept, RunsNew, AtRest,
         WindowsCopySurvives
  <2>. QED
    BY <1>5, <2>2, <2>3 DEF Deleted
<1>6. CASE setup.phase = "uninstall"
  <2>1. /\ setup' \in Setup /\ setup'.step = "unrule" /\ setup'.phase = "uninstall"
        /\ setup'.deleted = ok
        /\ UNCHANGED <<dest, backup, rule, restarting, prior, result, faults>>
    <3>1. setup' = [setup EXCEPT !.step = "unrule", !.deleted = ok] /\ UNCHANGED history
      BY <1>6 DEF Deleted
    <3>2. setup \in Setup
      BY DEF IInv, TypeOK
    <3>3. /\ setup' \in Setup /\ setup'.step = "unrule" /\ setup'.phase = "uninstall"
          /\ setup'.deleted = ok
      BY <1>6, <3>1, <3>2 DEF Setup, Steps
    <3>. QED
      BY <3>1, <3>3 DEF files, history
  <2>2. TypeOK'
    BY <1>2, <2>1 DEF IInv, TypeOK
  <2>3. AtRest'
    BY <1>2, <1>6, <2>1, EntryFields DEF IInv, AtRest, Replacing, Clean
  <2>. QED
    BY <1>2, <2>1, <2>2, <2>3
       DEF IInv, ProgramsDiffer, StepsOfPhases, InProgress, Replacing, WhereProgramsAre,
           Published, Restoring, EntryKept, RunsNew, WindowsCopySurvives
<1>. QED
  BY <1>1, <1>3, <1>4, <1>5, <1>6

-----------------------------------------------------------------------------
(* begin_protected_binary_update *)

LEMMA InitIInv == ProgramsDiffer /\ Init => IInv
<1> SUFFICES ASSUME ProgramsDiffer, Init
             PROVE  IInv
  OBVIOUS
<1>1. /\ setup \in Setup /\ setup.step = "idle" /\ setup.phase = "begin"
      /\ backup = None /\ prior = dest /\ result = "none" /\ restarting = FALSE
      /\ faults = {} /\ dest \in Programs /\ rule \in BOOLEAN
  BY IdleSetup DEF Init, Programs
<1>2. /\ service \in Service /\ service.entry \in {"absent", "present"}
      /\ service.entry = "absent" => service = NoService
      /\ service.entry = "present" /\ service.image = "protected" => dest # None
  <2>1. CASE service = NoService
    BY <2>1, EntryFields
  <2>2. CASE service = [NoService EXCEPT !.entry = "present"] /\ dest \in Versions
    BY <2>2, EntryFields DEF ProgramsDiffer
  <2>3. CASE service = [NoService EXCEPT !.entry = "present", !.image = "legacy",
                                         !.state = "running", !.program = Legacy]
    BY <2>3, EntryFields DEF Service
  <2>. QED
    BY <2>1, <2>2, <2>3 DEF Init
<1>3. TypeOK
  BY <1>1, <1>2 DEF TypeOK, Programs
<1>. QED
  BY <1>1, <1>2, <1>3
     DEF IInv, ProgramsDiffer, ServiceConsistent, Stopped, StepsOfPhases, InProgress, Replacing,
         WhereProgramsAre, Published, Restoring, Clean, EntryKept, RunsNew, AtRest,
         WindowsCopySurvives

\* install: the update state is that of the service before it is stopped.
LEMMA InstallKeeps ==
  ASSUME IInv, NEW v \in Versions, install(v)
  PROVE  IInv'
<1>1. /\ setup.step = "idle"
      /\ setup' = [Idle EXCEPT !.step = IF Stopped THEN "stage" ELSE "stop",
                               !.new = v, !.was = Was]
      /\ prior' = dest /\ result' = "none" /\ faults' = {} /\ backup' = None
      /\ UNCHANGED <<dest, rule, restarting>>
  BY DEF install
<1>2. Runs /\ (Stopped => UNCHANGED service)
  BY DEF install, Runs, Stopped, CanStop
<1>3. Was \in UpdateState
  BY DEF Was, UpdateState, validate_windows_protected_binary,
         windows_image_path_uses_protected_binary, Stopped
<1>4. /\ setup' \in Setup /\ setup'.step \in {"stage", "stop"} /\ setup'.phase = "begin"
      /\ setup'.new = v /\ setup'.created = FALSE /\ setup'.changed = FALSE
      /\ setup'.was = Was
  BY <1>1, <1>3, IdleSetup DEF Setup, Steps, Programs
<1>5. service' \in Service /\ ServiceConsistent'
  BY <1>2, RunsKeepsEntry DEF IInv
<1>6. TypeOK'
  BY <1>1, <1>4, <1>5 DEF IInv, TypeOK, Programs
<1>7. EntryKept'
  <2>1. Was.protected /\ ~Was.running =>
          service'.entry = "present" /\ service'.image = "protected"
    BY <1>2 DEF Was, IInv, TypeOK, Service, ServiceConsistent, windows_image_path_uses_protected_binary
  <2>. QED
    BY <1>4, <2>1 DEF EntryKept
<1>8. StepsOfPhases' /\ InProgress' /\ WhereProgramsAre' /\ RunsNew' /\ AtRest'
  BY <1>1, <1>4 DEF StepsOfPhases, InProgress, Replacing, WhereProgramsAre, Published,
                    Restoring, RunsNew, AtRest
<1>9. WindowsCopySurvives'
  BY <1>1 DEF WindowsCopySurvives
<1>. QED
  BY <1>5, <1>6, <1>7, <1>8, <1>9 DEF IInv, ProgramsDiffer

LEMMA AwaitStopKeeps ==
  ASSUME IInv, AwaitStop
  PROVE  IInv'
<1>1. setup.step = "stop" /\ UNCHANGED <<dest, backup, service, rule, restarting>>
  BY DEF AwaitStop, files
<1>2. CASE Go("stage") /\ UNCHANGED history
  <2>1. /\ setup' \in Setup /\ setup'.step = "stage" /\ setup'.phase = setup.phase
        /\ setup'.new = setup.new /\ setup'.created = setup.created
        /\ setup'.changed = setup.changed /\ setup'.was = setup.was
        /\ UNCHANGED <<prior, result, faults>>
    BY <1>2, GoesOn DEF IInv, TypeOK, Steps, history
  <2>2. TypeOK'
    BY <1>1, <2>1 DEF IInv, TypeOK
  <2>. QED
    BY <1>1, <2>1, <2>2
       DEF IInv, ProgramsDiffer, ServiceConsistent, Stopped, StepsOfPhases, InProgress, Replacing,
         WhereProgramsAre, Published, Restoring, Clean, EntryKept, RunsNew, AtRest,
         WindowsCopySurvives
<1>3. CASE Fail({"stop"})
  <2>1. Replacing /\ dest = prior
    BY <1>1 DEF Replacing, IInv, StepsOfPhases, WhereProgramsAre
  <2>2. Runs /\ rule' \in BOOLEAN
    BY <1>1 DEF Runs, IInv, TypeOK
  <2>. QED
    BY <1>1, <1>3, <2>1, <2>2, FailKeeps DEF files
<1>. QED
  BY <1>2, <1>3 DEF AwaitStop

LEMMA StageKeeps ==
  ASSUME IInv, Stage
  PROVE  IInv'
<1>1. /\ setup.step = "stage"
      /\ setup' \in Setup /\ setup'.step \in {"backup", "restore"} /\ setup'.phase = setup.phase
      /\ setup'.new = setup.new /\ setup'.was = setup.was
      /\ setup'.changed = setup.changed
      /\ setup'.created => setup.created \/ dest = None
      /\ UNCHANGED <<dest, backup, service, rule, restarting, prior, result, faults>>
  BY DEF Stage, ensure_windows_service_directories, Go, files, history, IInv, TypeOK, Setup, Steps
<1>2. TypeOK'
  BY <1>1 DEF IInv, TypeOK
<1>. QED
  BY <1>1, <1>2
     DEF IInv, ProgramsDiffer, ServiceConsistent, Stopped, StepsOfPhases, InProgress, Replacing,
         WhereProgramsAre, Published, Restoring, Clean, EntryKept, RunsNew, AtRest,
         WindowsCopySurvives

LEMMA BackUpKeeps ==
  ASSUME IInv, BackUp
  PROVE  IInv'
<1>1. /\ setup.step = "backup"
      /\ setup' \in Setup /\ setup'.phase = setup.phase
      /\ setup'.new = setup.new /\ setup'.created = setup.created
      /\ setup'.changed = setup.changed /\ setup'.was = setup.was
      /\ \/ setup'.step = "publish" /\ dest = None /\ dest' = None /\ backup' = backup
         \/ setup'.step = "publish" /\ dest' = None /\ backup' = dest
         \/ setup'.step = "restore" /\ dest' = dest /\ backup' = backup
      /\ UNCHANGED <<service, rule, restarting, prior, result, faults>>
  BY GoesOn DEF BackUp, files, history, IInv, TypeOK, Steps
<1>2. TypeOK'
  BY <1>1 DEF IInv, TypeOK, Programs
<1>3. (ServiceConsistent /\ StepsOfPhases /\ InProgress)'
  BY <1>1 DEF IInv, ServiceConsistent, Stopped, StepsOfPhases, InProgress, Replacing
<1>4. (WhereProgramsAre /\ WindowsCopySurvives)'
  BY <1>1
     DEF IInv, ProgramsDiffer, StepsOfPhases, InProgress, Replacing, WhereProgramsAre,
         Published, Restoring, Clean, WindowsCopySurvives
<1>5. (EntryKept /\ RunsNew)'
  BY <1>1 DEF IInv, StepsOfPhases, Replacing, EntryKept, RunsNew, Stopped
<1>6. AtRest'
  BY <1>1
     DEF IInv, ProgramsDiffer, StepsOfPhases, InProgress, Replacing, WhereProgramsAre,
         Published, Restoring, Clean, RunsNew, AtRest, Stopped
<1>. QED
  BY <1>1, <1>2, <1>3, <1>4, <1>5, <1>6 DEF IInv, ProgramsDiffer

LEMMA PublishKeeps ==
  ASSUME IInv, Publish
  PROVE  IInv'
<1>1. /\ setup.step = "publish"
      /\ setup' \in Setup /\ setup'.phase = setup.phase
      /\ setup'.new = setup.new /\ setup'.created = setup.created
      /\ setup'.changed = setup.changed /\ setup'.was = setup.was
      /\ \/ setup'.step = "check" /\ dest' = setup.new /\ backup' = backup /\ faults' = faults
         \/ setup'.step = "restore" /\ dest' = backup /\ backup' = None /\ faults' = faults
         \/ /\ setup'.step = "restore" /\ dest' = dest /\ backup' = backup
            /\ faults' = faults \cup {"undo"}
      /\ UNCHANGED <<service, rule, restarting, prior, result>>
  BY GoesOn DEF Publish, Staged, files, history, IInv, TypeOK, Steps
<1>2. TypeOK'
  BY <1>1 DEF IInv, TypeOK, Programs, Setup
<1>3. (ServiceConsistent /\ StepsOfPhases /\ InProgress)'
  BY <1>1 DEF IInv, ServiceConsistent, Stopped, StepsOfPhases, InProgress, Replacing
<1>4. (WhereProgramsAre /\ WindowsCopySurvives)'
  BY <1>1
     DEF IInv, ProgramsDiffer, StepsOfPhases, InProgress, Replacing, WhereProgramsAre,
         Published, Restoring, Clean, WindowsCopySurvives
<1>5. (EntryKept /\ RunsNew)'
  BY <1>1 DEF IInv, StepsOfPhases, Replacing, EntryKept, RunsNew, Stopped
<1>6. AtRest'
  BY <1>1
     DEF IInv, ProgramsDiffer, StepsOfPhases, InProgress, Replacing, WhereProgramsAre,
         Published, Restoring, Clean, RunsNew, AtRest, Stopped
<1>. QED
  BY <1>1, <1>2, <1>3, <1>4, <1>5, <1>6 DEF IInv, ProgramsDiffer

LEMMA CheckKeeps ==
  ASSUME IInv, Check
  PROVE  IInv'
<1>1. /\ setup.step = "check" /\ setup' \in Setup
      /\ \/ setup'.step = "firewall" /\ setup'.phase = "install"
         \/ setup'.step = "remove" /\ setup'.phase = setup.phase
      /\ setup'.new = setup.new /\ setup'.created = setup.created
      /\ setup'.changed = setup.changed /\ setup'.was = setup.was
      /\ UNCHANGED <<dest, backup, service, rule, restarting, prior, result, faults>>
  BY DEF Check, files, history, IInv, TypeOK, Setup, Steps
<1>2. TypeOK'
  BY <1>1 DEF IInv, TypeOK
<1>. QED
  BY <1>1, <1>2
     DEF IInv, ProgramsDiffer, ServiceConsistent, Stopped, StepsOfPhases, InProgress, Replacing,
         WhereProgramsAre, Published, Restoring, Clean, EntryKept, RunsNew, AtRest,
         WindowsCopySurvives

-----------------------------------------------------------------------------
(* install, with the program published *)

LEMMA FirewallKeeps ==
  ASSUME IInv, Firewall
  PROVE  IInv'
<1>1. /\ setup.step = "firewall" /\ setup' \in Setup /\ setup'.phase = setup.phase
      /\ \/ setup'.step = "delete" /\ setup'.changed /\ rule'
         \/ setup'.step = "close" /\ setup'.changed = setup.changed
      /\ setup'.new = setup.new /\ setup'.created = setup.created /\ setup'.was = setup.was
      /\ rule' \in BOOLEAN
      /\ UNCHANGED <<dest, backup, service, restarting, prior, result, faults>>
  BY DEF Firewall, Go, files, history, IInv, TypeOK, Setup, Steps
<1>2. TypeOK'
  BY <1>1 DEF IInv, TypeOK
<1>. QED
  BY <1>1, <1>2
     DEF IInv, ProgramsDiffer, ServiceConsistent, Stopped, StepsOfPhases, InProgress, Replacing,
         WhereProgramsAre, Published, Restoring, Clean, EntryKept, RunsNew, AtRest,
         WindowsCopySurvives

\* The step goes on with another one for the same caller.
LEMMA DeleteKeeps ==
  ASSUME IInv, Delete
  PROVE  IInv'
<1>1. setup.step = "delete" /\ UNCHANGED <<files, rule, restarting>>
  BY DEF Delete
<1>2. CASE service.entry = "absent" /\ Deleted(TRUE) /\ UNCHANGED service
  BY <1>1, <1>2, DeletedKeeps DEF Runs
<1>3. CASE Deleted(FALSE) /\ ((CanStop /\ StopPending) \/ UNCHANGED service)
  BY <1>1, <1>3, DeletedKeeps DEF Runs
<1>4. CASE /\ service.entry = "present" /\ Go("await") /\ UNCHANGED history
           /\ service' = IF Stopped THEN NoService
                         ELSE [service EXCEPT !.entry = "deleting",
                                 !.state = IF CanStop THEN "stopping" ELSE @]
  <2>1. /\ setup' \in Setup /\ setup'.step = "await" /\ setup'.phase = setup.phase
        /\ setup'.new = setup.new /\ setup'.created = setup.created
        /\ setup'.changed = setup.changed /\ setup'.was = setup.was
        /\ UNCHANGED <<dest, backup, rule, restarting, prior, result, faults>>
    BY <1>1, <1>4, GoesOn DEF IInv, TypeOK, Steps, files, history
  <2>2. /\ service' \in Service /\ ServiceConsistent' /\ service'.entry # "present"
        /\ ~Stopped' => /\ service'.image = service.image /\ service'.program = service.program
                        /\ ~Stopped
    <3>1. CASE Stopped
      BY <1>4, <3>1, EntryFields DEF ServiceConsistent, Stopped
    <3>2. CASE ~Stopped
      <4>1. (IF CanStop THEN "stopping" ELSE service.state) \in
              {"starting", "running", "stopping"}
        BY <3>2 DEF IInv, TypeOK, Service, Stopped
      <4>. QED
        BY <1>4, <3>2, <4>1 DEF IInv, TypeOK, Service, ServiceConsistent, Stopped
    <3>. QED
      BY <3>1, <3>2
  <2>3. TypeOK'
    BY <2>1, <2>2 DEF IInv, TypeOK
  <2>4. AtRest'
    BY <1>1, <2>1, <2>2 DEF IInv, AtRest, Replacing
  <2>5. StepsOfPhases' /\ InProgress' /\ WhereProgramsAre' /\ EntryKept' /\ RunsNew'
    BY <1>1, <2>1 DEF IInv, StepsOfPhases, InProgress, Replacing, WhereProgramsAre, Published,
                      Restoring, Clean, EntryKept, RunsNew
  <2>. QED
    BY <2>1, <2>2, <2>3, <2>4, <2>5 DEF IInv, ProgramsDiffer, WindowsCopySurvives
<1>. QED
  BY <1>2, <1>3, <1>4 DEF Delete

LEMMA AwaitDeletionKeeps ==
  ASSUME IInv, AwaitDeletion
  PROVE  IInv'
<1>1. PICK ok \in BOOLEAN : Deleted(ok) /\ (ok => service.entry = "absent")
  BY DEF AwaitDeletion
<1>. QED
  BY <1>1, DeletedKeeps DEF AwaitDeletion, Runs

LEMMA CreateKeeps ==
  ASSUME IInv, Create
  PROVE  IInv'
<1>1. /\ setup.step = "create" /\ setup.phase \in {"install", "restore"} /\ Replacing
      /\ UNCHANGED <<dest, backup, rule, restarting>>
  BY DEF Create, files, IInv, StepsOfPhases, Replacing
<1>2. CASE /\ service.entry = "absent"
           /\ service' = [NoService EXCEPT !.entry = "present"]
           /\ Go(IF setup.phase = "install" THEN "start" ELSE "rule")
           /\ UNCHANGED history
  <2>1. /\ setup' \in Setup /\ setup'.phase = setup.phase
        /\ setup'.step = IF setup.phase = "install" THEN "start" ELSE "rule"
        /\ setup'.new = setup.new /\ setup'.created = setup.created
        /\ setup'.changed = setup.changed /\ setup'.was = setup.was
        /\ UNCHANGED <<prior, result, faults>>
    BY <1>2, GoesOn DEF IInv, TypeOK, Steps, history
  <2>2. /\ service' \in Service /\ service'.entry = "present"
        /\ service'.image = "protected" /\ Stopped'
    BY <1>2, EntryFields DEF Stopped
  <2>3. TypeOK'
    BY <1>1, <2>1, <2>2 DEF IInv, TypeOK
  <2>. QED
    BY <1>1, <2>1, <2>2, <2>3
       DEF IInv, ProgramsDiffer, ServiceConsistent, Stopped, StepsOfPhases, InProgress, Replacing,
         WhereProgramsAre, Published, Restoring, Clean, EntryKept, RunsNew, AtRest,
         WindowsCopySurvives
<1>3. CASE UNCHANGED service /\ setup.phase = "install" /\ Go("close") /\ UNCHANGED history
  <2>1. /\ setup' \in Setup /\ setup'.phase = setup.phase /\ setup'.step = "close"
        /\ setup'.new = setup.new /\ setup'.created = setup.created
        /\ setup'.changed = setup.changed /\ setup'.was = setup.was
        /\ UNCHANGED <<prior, result, faults>>
    BY <1>3, GoesOn DEF IInv, TypeOK, Steps, history
  <2>2. TypeOK'
    BY <1>1, <1>3, <2>1 DEF IInv, TypeOK
  <2>. QED
    BY <1>1, <1>3, <2>1, <2>2
       DEF IInv, ProgramsDiffer, ServiceConsistent, Stopped, StepsOfPhases, InProgress, Replacing,
         WhereProgramsAre, Published, Restoring, Clean, EntryKept, RunsNew, AtRest,
         WindowsCopySurvives
<1>4. CASE UNCHANGED service /\ setup.phase # "install" /\ Fail({"restore"})
  <2>1. Clean' => dest = prior
    BY <1>1, <1>4 DEF Fail, Clean, IInv, WhereProgramsAre, Restoring
  <2>. QED
    BY <1>1, <1>4, <2>1, FailKeeps DEF Runs, files, IInv, TypeOK
<1>. QED
  BY <1>2, <1>3, <1>4 DEF Create

LEMMA StartInstalledKeeps ==
  ASSUME IInv, StartInstalled
  PROVE  IInv'
<1>1. /\ setup.step = "start" /\ Runs
      /\ setup' \in Setup /\ setup'.step \in {"validate", "close"} /\ setup'.phase = setup.phase
      /\ setup'.new = setup.new /\ setup'.created = setup.created
      /\ setup'.changed = setup.changed /\ setup'.was = setup.was
      /\ UNCHANGED <<dest, backup, rule, restarting, prior, result, faults>>
  BY GoesOn DEF StartInstalled, Runs, IInv, TypeOK, Steps, files, history
<1>2. /\ service' \in Service /\ ServiceConsistent'
      /\ service'.entry = service.entry \/ (service.entry = "deleting" /\ service' = NoService)
      /\ service.image = "protected" => service'.image = "protected"
      /\ ~Stopped' => /\ service'.image = service.image
                      /\ \/ ~Stopped /\ service'.program = service.program
                         \/ service'.program = dest
  BY <1>1, RunsKeepsEntry DEF IInv
<1>3. TypeOK'
  BY <1>1, <1>2 DEF IInv, TypeOK
<1>4. EntryKept' /\ RunsNew' /\ AtRest'
  BY <1>1, <1>2 DEF IInv, StepsOfPhases, Replacing, EntryKept, RunsNew, AtRest
<1>. QED
  BY <1>1, <1>2, <1>3, <1>4
     DEF IInv, ProgramsDiffer, StepsOfPhases, InProgress, Replacing, WhereProgramsAre, Published,
         Restoring, Clean, WindowsCopySurvives

LEMMA ValidateKeeps ==
  ASSUME IInv, Validate
  PROVE  IInv'
<1>1. /\ setup.step = "validate"
      /\ setup' \in Setup /\ setup'.step \in {"commit", "close"} /\ setup'.phase = setup.phase
      /\ setup'.new = setup.new /\ setup'.created = setup.created
      /\ setup'.changed = setup.changed /\ setup'.was = setup.was
      /\ UNCHANGED <<dest, backup, service, rule, restarting, prior, result, faults>>
  BY GoesOn DEF Validate, IInv, TypeOK, Steps, files, history
<1>2. TypeOK'
  BY <1>1 DEF IInv, TypeOK
<1>3. (ServiceConsistent /\ StepsOfPhases /\ InProgress)'
  BY <1>1 DEF IInv, ServiceConsistent, Stopped, StepsOfPhases, InProgress, Replacing
<1>4. (WhereProgramsAre /\ WindowsCopySurvives)'
  BY <1>1
     DEF IInv, ProgramsDiffer, StepsOfPhases, InProgress, Replacing, WhereProgramsAre,
         Published, Restoring, Clean, WindowsCopySurvives
<1>5. (EntryKept /\ RunsNew)'
  BY <1>1 DEF IInv, StepsOfPhases, Replacing, EntryKept, RunsNew, Stopped
<1>6. AtRest'
  BY <1>1
     DEF IInv, ProgramsDiffer, StepsOfPhases, InProgress, Replacing, WhereProgramsAre,
         Published, Restoring, Clean, RunsNew, AtRest, Stopped
<1>. QED
  BY <1>1, <1>2, <1>3, <1>4, <1>5, <1>6 DEF IInv, ProgramsDiffer

\* The new program is in place when the backup is removed.
LEMMA CommitKeeps ==
  ASSUME IInv, Commit
  PROVE  IInv'
<1>1. /\ setup.step = "commit" /\ setup' \in Setup
      /\ \/ /\ setup'.step = "idle" /\ setup'.phase = setup.phase
            /\ backup' = None /\ result' = "ok"
         \/ /\ setup'.step = "remove" /\ setup'.phase = "cleanup"
            /\ backup' = backup /\ result' = result /\ faults' = faults \cup {"commit"}
      /\ setup'.new = setup.new /\ setup'.created = setup.created
      /\ setup'.changed = setup.changed /\ setup'.was = setup.was
      /\ faults' \in {faults, faults \cup {"commit"}}
      /\ UNCHANGED <<dest, service, rule, restarting, prior>>
  <2>1. setup \in Setup /\ setup.step = "commit" /\ UNCHANGED <<dest, service, rule, restarting>>
    BY DEF Commit, IInv, TypeOK
  <2>2. CASE backup' = None /\ result' = "ok" /\ Go("idle") /\ UNCHANGED <<prior, faults>>
    BY <2>1, <2>2, GoesOn DEF Steps
  <2>3. CASE /\ UNCHANGED backup
             /\ setup' = [setup EXCEPT !.step = "remove", !.phase = "cleanup"]
             /\ faults' = faults \cup {"commit"} /\ UNCHANGED <<prior, result>>
    <3>1. /\ setup' \in Setup /\ setup'.step = "remove" /\ setup'.phase = "cleanup"
          /\ setup'.new = setup.new /\ setup'.created = setup.created
          /\ setup'.changed = setup.changed /\ setup'.was = setup.was
      BY <2>1, <2>3 DEF Setup, Steps
    <3>. QED
      BY <2>1, <2>3, <3>1
  <2>. QED
    BY <2>2, <2>3 DEF Commit
<1>2. TypeOK'
  BY <1>1 DEF IInv, TypeOK, Programs
<1>3. (ServiceConsistent /\ StepsOfPhases /\ InProgress)'
  BY <1>1 DEF IInv, ServiceConsistent, Stopped, StepsOfPhases, InProgress, Replacing
<1>4. (WhereProgramsAre /\ WindowsCopySurvives)'
  BY <1>1
     DEF IInv, ProgramsDiffer, StepsOfPhases, InProgress, Replacing, WhereProgramsAre,
         Published, Restoring, Clean, WindowsCopySurvives
<1>5. (EntryKept /\ RunsNew)'
  BY <1>1 DEF IInv, StepsOfPhases, Replacing, EntryKept, RunsNew, Stopped
<1>6. AtRest'
  BY <1>1
     DEF IInv, ProgramsDiffer, StepsOfPhases, InProgress, Replacing, WhereProgramsAre,
         Published, Restoring, Clean, RunsNew, AtRest, Stopped
<1>. QED
  BY <1>1, <1>2, <1>3, <1>4, <1>5, <1>6 DEF IInv, ProgramsDiffer

LEMMA CloseKeeps ==
  ASSUME IInv, Close
  PROVE  IInv'
<1>1. /\ setup.step = "close" /\ setup' \in Setup
      /\ \/ setup'.step = "delete" /\ setup'.phase = "cleanup" /\ setup.changed
         \/ setup'.step = "remove" /\ setup'.phase = setup.phase
      /\ setup'.new = setup.new /\ setup'.created = setup.created
      /\ setup'.changed = setup.changed /\ setup'.was = setup.was
      /\ rule' \in BOOLEAN
      /\ UNCHANGED <<dest, backup, service, restarting, prior, result, faults>>
  <2>1. setup \in Setup /\ rule \in BOOLEAN
    BY DEF IInv, TypeOK
  <2>2. rule' \in BOOLEAN
    BY <2>1, Zenon DEF Close
  <2>3. CASE setup.changed /\ setup' = [setup EXCEPT !.step = "delete", !.phase = "cleanup"]
    <3>1. /\ setup' \in Setup /\ setup'.step = "delete" /\ setup'.phase = "cleanup"
          /\ setup'.new = setup.new /\ setup'.created = setup.created
          /\ setup'.changed = setup.changed /\ setup'.was = setup.was
      BY <2>1, <2>3 DEF Setup, Steps
    <3>. QED
      BY <2>2, <2>3, <3>1 DEF Close, files, history
  <2>4. CASE setup' = [setup EXCEPT !.step = "remove", !.again = TRUE]
    <3>1. /\ setup' \in Setup /\ setup'.step = "remove" /\ setup'.phase = setup.phase
          /\ setup'.new = setup.new /\ setup'.created = setup.created
          /\ setup'.changed = setup.changed /\ setup'.was = setup.was
      BY <2>1, <2>4 DEF Setup, Steps
    <3>. QED
      BY <2>2, <3>1 DEF Close, files, history
  <2>. QED
    BY <2>3, <2>4 DEF Close
<1>2. TypeOK'
  BY <1>1 DEF IInv, TypeOK
<1>3. (ServiceConsistent /\ StepsOfPhases /\ InProgress)'
  BY <1>1 DEF IInv, ServiceConsistent, Stopped, StepsOfPhases, InProgress, Replacing
<1>4. (WhereProgramsAre /\ WindowsCopySurvives)'
  BY <1>1
     DEF IInv, ProgramsDiffer, StepsOfPhases, InProgress, Replacing, WhereProgramsAre,
         Published, Restoring, Clean, WindowsCopySurvives
<1>5. (EntryKept /\ RunsNew)'
  BY <1>1 DEF IInv, StepsOfPhases, Replacing, EntryKept, RunsNew, Stopped
<1>6. AtRest'
  BY <1>1
     DEF IInv, ProgramsDiffer, StepsOfPhases, InProgress, Replacing, WhereProgramsAre,
         Published, Restoring, Clean, RunsNew, AtRest, Stopped
<1>. QED
  BY <1>1, <1>2, <1>3, <1>4, <1>5, <1>6 DEF IInv, ProgramsDiffer

-----------------------------------------------------------------------------
(* rollback_inner *)

LEMMA RemovePublishedKeeps ==
  ASSUME IInv, RemovePublished
  PROVE  IInv'
<1>1. setup.step = "remove" /\ UNCHANGED <<backup, service, rule, restarting>>
  BY DEF RemovePublished
<1>2. CASE dest' = None /\ Go("put back") /\ UNCHANGED history
  <2>1. /\ setup' \in Setup /\ setup'.step = "put back" /\ setup'.phase = setup.phase
        /\ setup'.new = setup.new /\ setup'.created = setup.created
        /\ setup'.changed = setup.changed /\ setup'.was = setup.was
        /\ UNCHANGED <<prior, result, faults>>
    BY <1>2, GoesOn DEF IInv, TypeOK, Steps, history
  <2>2. TypeOK'
    BY <1>1, <1>2, <2>1 DEF IInv, TypeOK, Programs
  <2>3. (ServiceConsistent /\ StepsOfPhases /\ InProgress)'
    BY <1>1, <1>2, <2>1 DEF IInv, ServiceConsistent, Stopped, StepsOfPhases, InProgress, Replacing
  <2>4. (WhereProgramsAre /\ WindowsCopySurvives)'
    BY <1>1, <1>2, <2>1
       DEF IInv, ProgramsDiffer, StepsOfPhases, InProgress, Replacing, WhereProgramsAre,
           Published, Restoring, Clean, WindowsCopySurvives
  <2>5. (EntryKept /\ RunsNew)'
    BY <1>1, <1>2, <2>1 DEF IInv, StepsOfPhases, Replacing, EntryKept, RunsNew, Stopped
  <2>6. AtRest'
    BY <1>1, <1>2, <2>1
       DEF IInv, ProgramsDiffer, StepsOfPhases, InProgress, Replacing, WhereProgramsAre,
           Published, Restoring, Clean, RunsNew, AtRest, Stopped
  <2>. QED
    BY <1>1, <2>2, <2>3, <2>4, <2>5, <2>6 DEF IInv, ProgramsDiffer
<1>3. CASE RollbackFails /\ UNCHANGED dest
  BY <1>1, <1>3, RollbackFailsKeeps DEF IInv, WhereProgramsAre, files
<1>. QED
  BY <1>2, <1>3 DEF RemovePublished

LEMMA PutBackKeeps ==
  ASSUME IInv, PutBack
  PROVE  IInv'
<1>1. setup.step = "put back" /\ UNCHANGED <<service, rule, restarting>>
  BY DEF PutBack
<1>2. CASE /\ Go("directories") /\ UNCHANGED history
           /\ \/ backup = None /\ UNCHANGED <<dest, backup>>
              \/ dest' = backup /\ backup' = None
  <2>1. /\ setup' \in Setup /\ setup'.step = "directories" /\ setup'.phase = setup.phase
        /\ setup'.new = setup.new /\ setup'.created = setup.created
        /\ setup'.changed = setup.changed /\ setup'.was = setup.was
        /\ UNCHANGED <<prior, result, faults>>
    BY <1>2, GoesOn DEF IInv, TypeOK, Steps, history
  <2>2. TypeOK'
    BY <1>1, <1>2, <2>1 DEF IInv, TypeOK, Programs
  <2>3. (ServiceConsistent /\ StepsOfPhases /\ InProgress)'
    BY <1>1, <1>2, <2>1 DEF IInv, ServiceConsistent, Stopped, StepsOfPhases, InProgress, Replacing
  <2>4. (WhereProgramsAre /\ WindowsCopySurvives)'
    BY <1>1, <1>2, <2>1
       DEF IInv, ProgramsDiffer, StepsOfPhases, InProgress, Replacing, WhereProgramsAre,
           Published, Restoring, Clean, WindowsCopySurvives
  <2>5. (EntryKept /\ RunsNew)'
    BY <1>1, <1>2, <2>1 DEF IInv, StepsOfPhases, Replacing, EntryKept, RunsNew, Stopped
  <2>6. AtRest'
    BY <1>1, <1>2, <2>1
       DEF IInv, ProgramsDiffer, StepsOfPhases, InProgress, Replacing, WhereProgramsAre,
           Published, Restoring, Clean, RunsNew, AtRest, Stopped
  <2>. QED
    BY <1>1, <2>2, <2>3, <2>4, <2>5, <2>6 DEF IInv, ProgramsDiffer
<1>3. CASE RollbackFails /\ UNCHANGED files
  BY <1>1, <1>3, RollbackFailsKeeps DEF IInv, WhereProgramsAre
<1>. QED
  BY <1>2, <1>3 DEF PutBack, files

\* Directories that the rollback may fail to remove were made because there
\* was no program: running it again loses nothing.
LEMMA RemoveDirectoriesKeeps ==
  ASSUME IInv, RemoveDirectories
  PROVE  IInv'
<1>1. /\ setup.step = "directories" /\ UNCHANGED <<files, service, rule, restarting>>
      /\ Replacing /\ dest = prior /\ backup = None
  BY DEF RemoveDirectories, IInv, StepsOfPhases, Replacing, WhereProgramsAre
<1>2. CASE setup.phase = "cleanup" /\ Fail({})
  BY <1>1, <1>2, FailKeeps DEF Runs, IInv, TypeOK
<1>3. CASE setup.phase # "cleanup" /\ Go("restore") /\ UNCHANGED history
  <2>1. /\ setup' \in Setup /\ setup'.step = "restore" /\ setup'.phase = setup.phase
        /\ setup'.new = setup.new /\ setup'.created = setup.created
        /\ setup'.changed = setup.changed /\ setup'.was = setup.was
        /\ UNCHANGED <<dest, backup, prior, result, faults>>
    BY <1>1, <1>3, GoesOn DEF IInv, TypeOK, Steps, files, history
  <2>2. TypeOK'
    BY <1>1, <2>1 DEF IInv, TypeOK
  <2>. QED
    BY <1>1, <1>3, <2>1, <2>2
       DEF IInv, ProgramsDiffer, ServiceConsistent, Stopped, StepsOfPhases, InProgress, Replacing,
         WhereProgramsAre, Published, Restoring, Clean, EntryKept, RunsNew, AtRest,
         WindowsCopySurvives
<1>4. CASE setup.created /\ RollbackFails
  <2>1. prior = None
    BY <1>1, <1>4 DEF IInv, InProgress
  <2>. QED
    BY <1>1, <1>4, <2>1, RollbackFailsKeeps
<1>. QED
  BY <1>2, <1>3, <1>4 DEF RemoveDirectories, RolledBack

-----------------------------------------------------------------------------
(* restore_windows_service_after_failed_update *)

LEMMA RestoringFacts ==
  ASSUME IInv, setup.step \in {"restore", "rule", "restart"}
  PROVE  Replacing /\ (Clean => dest = prior)
BY DEF IInv, StepsOfPhases, Replacing, WhereProgramsAre, Restoring

LEMMA RestoreKeeps ==
  ASSUME IInv, Restore
  PROVE  IInv'
<1>1. setup.step = "restore" /\ UNCHANGED <<files, service, rule, restarting>>
  BY DEF Restore
<1>2. CASE Fail({})
  BY <1>1, <1>2, RestoringFacts, FailKeeps DEF Runs, IInv, TypeOK, Fail, Clean
<1>3. CASE /\ UNCHANGED history
           /\ \/ /\ setup.changed
                 /\ setup' = [setup EXCEPT !.step = "delete", !.phase = "restore"]
              \/ ~setup.changed /\ setup.was.protected /\ Go("rule")
  <2>1. /\ setup' \in Setup
        /\ \/ setup'.step = "delete" /\ setup'.phase = "restore" /\ setup.changed
           \/ setup'.step = "rule" /\ setup'.phase = setup.phase /\ ~setup.changed
        /\ setup'.new = setup.new /\ setup'.created = setup.created
        /\ setup'.changed = setup.changed /\ setup'.was = setup.was
        /\ UNCHANGED <<dest, backup, prior, result, faults>>
    BY <1>1, <1>3 DEF Go, IInv, TypeOK, Setup, Steps, files, history
  <2>2. TypeOK'
    BY <1>1, <2>1 DEF IInv, TypeOK
  <2>. QED
    BY <1>1, <2>1, <2>2
       DEF IInv, ProgramsDiffer, ServiceConsistent, Stopped, StepsOfPhases, InProgress, Replacing,
         WhereProgramsAre, Published, Restoring, Clean, EntryKept, RunsNew, AtRest,
         WindowsCopySurvives
<1>. QED
  BY <1>2, <1>3 DEF Restore

LEMMA RestoreRuleKeeps ==
  ASSUME IInv, RestoreRule
  PROVE  IInv'
<1>1. /\ setup.step = "rule" /\ UNCHANGED <<files, service, restarting>>
      /\ rule' \in BOOLEAN
  BY DEF RestoreRule, IInv, TypeOK
<1>2. CASE \E fault \in {{}, {"restore"}} : Fail(fault)
  <2>1. PICK fault \in {{}, {"restore"}} : Fail(fault)
    BY <1>2
  <2>2. Clean' => Clean
    BY <2>1 DEF Fail, Clean
  <2>. QED
    BY <1>1, <2>1, <2>2, RestoringFacts, FailKeeps DEF Runs
<1>3. CASE rule' = TRUE /\ Go("restart") /\ UNCHANGED history
  <2>1. /\ setup' \in Setup /\ setup'.step = "restart" /\ setup'.phase = setup.phase
        /\ setup'.new = setup.new /\ setup'.created = setup.created
        /\ setup'.changed = setup.changed /\ setup'.was = setup.was
        /\ UNCHANGED <<dest, backup, prior, result, faults>>
    BY <1>1, <1>3, GoesOn DEF IInv, TypeOK, Steps, files, history
  <2>2. TypeOK'
    BY <1>1, <2>1 DEF IInv, TypeOK
  <2>. QED
    BY <1>1, <1>3, <2>1, <2>2
       DEF IInv, ProgramsDiffer, ServiceConsistent, Stopped, StepsOfPhases, InProgress, Replacing,
         WhereProgramsAre, Published, Restoring, Clean, EntryKept, RunsNew, AtRest,
         WindowsCopySurvives
<1>. QED
  BY <1>2, <1>3 DEF RestoreRule

LEMMA RestoreStartKeeps ==
  ASSUME IInv, RestoreStart
  PROVE  IInv'
<1>1. PICK fault \in {{}, {"restore"}} : Fail(fault)
  BY DEF RestoreStart
<1>2. Clean' => Clean
  BY <1>1 DEF Fail, Clean
<1>. QED
  BY <1>1, <1>2, RestoringFacts, FailKeeps DEF RestoreStart, Runs, IInv, TypeOK

-----------------------------------------------------------------------------
(* uninstall *)

LEMMA UninstallKeeps ==
  ASSUME IInv, uninstall
  PROVE  IInv'
<1>1. /\ setup.step = "idle"
      /\ setup' \in Setup /\ setup'.step = "delete" /\ setup'.phase = "uninstall"
      /\ UNCHANGED <<dest, backup, service, rule, restarting, prior, result, faults>>
  BY IdleSetup DEF uninstall, Setup, Steps, files, history
<1>2. TypeOK'
  BY <1>1 DEF IInv, TypeOK
<1>. QED
  BY <1>1, <1>2
     DEF IInv, ProgramsDiffer, ServiceConsistent, Stopped, StepsOfPhases, InProgress, Replacing,
         WhereProgramsAre, Published, Restoring, Clean, EntryKept, RunsNew, AtRest,
         WindowsCopySurvives

\* The program is erased only when the entry is known to be gone.
LEMMA RemoveRuleKeeps ==
  ASSUME IInv, RemoveRule
  PROVE  IInv'
<1>1. /\ setup.step = "unrule" /\ setup' \in Setup /\ setup'.phase = setup.phase
      /\ setup'.step = "idle" \/ (setup'.step = "erase" /\ setup.deleted)
      /\ rule' \in BOOLEAN
      /\ UNCHANGED <<dest, backup, service, restarting, prior, result, faults>>
  BY GoesOn DEF RemoveRule, IInv, TypeOK, Steps, files, history
<1>2. TypeOK'
  BY <1>1 DEF IInv, TypeOK
<1>. QED
  BY <1>1, <1>2
     DEF IInv, ProgramsDiffer, ServiceConsistent, Stopped, StepsOfPhases, InProgress, Replacing,
         WhereProgramsAre, Published, Restoring, Clean, EntryKept, RunsNew, AtRest,
         WindowsCopySurvives

LEMMA EraseKeeps ==
  ASSUME IInv, remove_protected_service_binary
  PROVE  IInv'
<1>1. /\ setup.step = "erase" /\ setup' \in Setup /\ setup'.phase = setup.phase
      /\ setup'.step = "idle" /\ dest' \in {dest, None}
      /\ UNCHANGED <<backup, service, rule, restarting, prior, result, faults>>
  BY GoesOn DEF remove_protected_service_binary, IInv, TypeOK, Steps, history
<1>2. TypeOK'
  BY <1>1 DEF IInv, TypeOK, Programs
<1>3. service = NoService /\ setup.phase = "uninstall"
  BY <1>1 DEF IInv, AtRest, StepsOfPhases, ServiceConsistent
<1>4. AtRest'
  BY <1>1, <1>3, EntryFields DEF AtRest, Stopped
<1>. QED
  BY <1>1, <1>2, <1>3, <1>4
     DEF IInv, ProgramsDiffer, ServiceConsistent, Stopped, StepsOfPhases, InProgress, Replacing,
         WhereProgramsAre, Published, Restoring, EntryKept, RunsNew, WindowsCopySurvives

LEMMA KilledKeeps ==
  ASSUME IInv, Killed
  PROVE  IInv'
<1>1. setup.step # "idle" /\ UNCHANGED <<files, service, rule, restarting>>
  BY DEF Killed
<1>2. CASE setup.phase = "uninstall" /\ Go("idle") /\ UNCHANGED history
  <2>1. /\ setup' \in Setup /\ setup'.step = "idle" /\ setup'.phase = setup.phase
        /\ UNCHANGED <<dest, backup, prior, result, faults>>
    BY <1>1, <1>2, GoesOn DEF IInv, TypeOK, Steps, files, history
  <2>2. TypeOK'
    BY <1>1, <2>1 DEF IInv, TypeOK
  <2>. QED
    BY <1>1, <1>2, <2>1, <2>2
       DEF IInv, ProgramsDiffer, ServiceConsistent, Stopped, StepsOfPhases, InProgress, Replacing,
         WhereProgramsAre, Published, Restoring, Clean, EntryKept, RunsNew, AtRest,
         WindowsCopySurvives
<1>3. CASE setup.phase # "uninstall" /\ Fail({"killed"})
  BY <1>1, <1>3, FailKeeps DEF Runs, IInv, TypeOK, Replacing, Fail, Clean
<1>. QED
  BY <1>2, <1>3 DEF Killed

LEMMA NextIInv == IInv /\ [Next]_vars => IInv'
<1> SUFFICES ASSUME IInv, [Next]_vars
             PROVE  IInv'
  OBVIOUS
<1>1. CASE UNCHANGED vars
  BY <1>1, RunningKeeps DEF vars, Runs, files, history, IInv, TypeOK
<1>2. CASE Install
  BY <1>2, InstallKeeps, AwaitStopKeeps, StageKeeps, BackUpKeeps, PublishKeeps, CheckKeeps,
     FirewallKeeps, DeleteKeeps, AwaitDeletionKeeps, CreateKeeps, StartInstalledKeeps,
     ValidateKeeps, CommitKeeps, CloseKeeps, RemovePublishedKeeps, PutBackKeeps,
     RemoveDirectoriesKeeps, RestoreKeeps, RestoreRuleKeeps, RestoreStartKeeps DEF Install
<1>3. CASE Uninstall
  BY <1>3, UninstallKeeps, RemoveRuleKeeps, EraseKeeps DEF Uninstall
<1>. QED
  BY <1>1, <1>2, <1>3, CommandsKeep, KilledKeeps DEF Next

THEOREM Invariance == ProgramsDiffer => (Spec => []IInv)
<1>. QED
  BY InitIInv, NextIInv, PTL DEF Spec

-----------------------------------------------------------------------------
(* The theorems *)

\* The variables keep their types.
THEOREM TypeCorrect == ProgramsDiffer => (Spec => []TypeOK)
<1>1. IInv => TypeOK
  BY DEF IInv
<1>. QED
  BY <1>1, Invariance, PTL

\* No failure, no kill and no repeated rollback of prepare_protected_update
\* leaves a machine that had a program without a complete one.
THEOREM ReplacementIsSafe == ProgramsDiffer => (Spec => []WindowsCopySurvives)
<1>1. IInv => WindowsCopySurvives
  BY DEF IInv
<1>. QED
  BY <1>1, Invariance, PTL

\* An entry that is left names a program that exists, also after half an
\* uninstallation, and a service that runs after a successful installation
\* runs what was installed, whoever starts and stops it meanwhile.
THEOREM EntryAndProgramAgree == ProgramsDiffer => (Spec => []ServiceHasItsProgram)
<1>1. IInv => ServiceHasItsProgram
  BY DEF IInv, AtRest, Replacing, Clean, ServiceHasItsProgram, EntryHasProgram, RunsInstalled
<1>. QED
  BY <1>1, Invariance, PTL

\* An installation whose undoing does not fail ends by restoring the service,
\* unless its stop has timed out or its commit has failed.
LEMMA FailsUndone ==
  ASSUME IInv, Next, Replacing, result' = "failed", faults' \subseteq {"stop", "commit"},
         setup.was.protected
  PROVE  \/ AwaitStop /\ Fail({"stop"})
         \/ RemoveDirectories /\ setup.phase = "cleanup" /\ Fail({})
         \/ RestoreRule \/ RestoreStart
<1>1. result # "failed" /\ setup.step # "idle" /\ setup.phase # "uninstall"
  BY DEF IInv, InProgress, Replacing
<1>2. \A fault : Fail(fault) => fault \subseteq {"stop", "commit"}
  BY DEF Fail
<1>3. \A f \in {"cleanup", "undo", "restore", "killed"} : ~({f} \subseteq {"stop", "commit"})
  OBVIOUS
<1>4. ~UNCHANGED result
  BY <1>1
<1>5. ~RollbackFails
  BY <1>2, <1>3, <1>4 DEF RollbackFails
<1>6. ASSUME setup.step \in {"delete", "await"}
      PROVE  ~Delete /\ ~AwaitDeletion
  <2>1. setup.phase \in {"install", "cleanup", "restore"}
    BY <1>1, <1>6 DEF IInv, TypeOK, Setup, StepsOfPhases
  <2>2. CASE setup.phase = "install"
    BY <1>4, <2>2 DEF Delete, AwaitDeletion, Deleted, history
  <2>3. CASE setup.phase = "cleanup"
    BY <1>4, <2>3 DEF Delete, AwaitDeletion, Deleted, history
  <2>4. CASE setup.phase = "restore"
    <3>1. ~Fail({"restore"})
      BY <1>2, <1>3
    <3>. QED
      BY <1>4, <2>4, <3>1, setup.was.protected DEF Delete, AwaitDeletion, Deleted, history
  <2>. QED
    BY <2>1, <2>2, <2>3, <2>4
<1>7. ~Create /\ ~Restore /\ ~Killed
  <2>1. ~Fail({"restore"}) /\ ~Fail({"killed"})
    BY <1>2, <1>3
  <2>2. ~Create
    BY <1>4, <2>1 DEF Create, history
  <2>3. ~Restore
    BY <1>4 DEF Restore, history
  <2>4. ~Killed
    <3>1. Killed => Fail({"killed"})
      BY <1>1 DEF Killed
    <3>. QED
      BY <2>1, <3>1
  <2>. QED
    BY <2>2, <2>3, <2>4
<1>12. /\ AwaitStop => Fail({"stop"})
       /\ RemoveDirectories => setup.phase = "cleanup" /\ Fail({})
  BY <1>4, <1>5 DEF AwaitStop, RemoveDirectories, RolledBack, history
<1>8. ~Delete /\ ~AwaitDeletion /\ ~RemovePublished /\ ~PutBack
  <2>1. ~Delete /\ ~AwaitDeletion
    BY <1>6 DEF Delete, AwaitDeletion
  <2>2. ~RemovePublished /\ ~PutBack
    BY <1>4, <1>5 DEF RemovePublished, PutBack, history
  <2>. QED
    BY <2>1, <2>2
<1>9. /\ ~Stage /\ ~BackUp /\ ~Publish /\ ~Check /\ ~Firewall /\ ~StartInstalled /\ ~Validate
      /\ ~Close /\ ~Commit
  BY <1>4 DEF Stage, BackUp, Publish, Check, Firewall, StartInstalled, Validate, Close, Commit,
              history
<1>10. (\A v \in Versions : ~install(v)) /\ ~Uninstall
  BY <1>1, <1>4
     DEF install, Uninstall, uninstall, RemoveRule, remove_protected_service_binary, history
<1>11. ~ReportRunning /\ ~ReportStopped /\ ~start /\ ~stop /\ ~restart /\ ~RestartEnds
  BY <1>4 DEF ReportRunning, ReportStopped, start, stop, restart, RestartEnds, history
<1>. QED
  BY <1>7, <1>8, <1>9, <1>10, <1>11, <1>12 DEF Next, Install

\* Only a protected program is ever started, by whatever step.
LEMMA LegacyStaysStopped ==
  ASSUME IInv, Next, service.program # Legacy
  PROVE  service'.program # Legacy
<1>1. CASE Runs
  BY <1>1, RunsKeepsEntry DEF IInv
<1>2. CASE service' \in {NoService, [NoService EXCEPT !.entry = "present"]}
  BY <1>2, EntryFields DEF IInv, ProgramsDiffer, NoService
<1>3. CASE service' = [service EXCEPT !.entry = "deleting",
                                      !.state = IF CanStop THEN "stopping" ELSE @]
  BY <1>3 DEF IInv, TypeOK, Service
<1>4. CASE ReportRunning \/ ReportStopped \/ start \/ stop \/ restart \/ RestartEnds
  BY <1>1, <1>4 DEF ReportRunning, ReportStopped, start, stop, restart, RestartEnds, Runs
<1>5. CASE Delete
  BY <1>1, <1>2, <1>3, <1>5 DEF Delete, Runs
<1>6. CASE Create
  BY <1>1, <1>2, <1>6 DEF Create, Runs
<1>7. CASE StartInstalled \/ RestoreStart \/ \E v \in Versions : install(v)
  BY <1>1, <1>7 DEF StartInstalled, RestoreStart, install, Runs
<1>8. CASE UNCHANGED service
  BY <1>1, <1>8 DEF Runs
<1>. QED
  BY <1>4, <1>5, <1>6, <1>7, <1>8
     DEF Next, Install, Uninstall, AwaitStop, Stage, BackUp, Publish, Check, Firewall,
         AwaitDeletion, Validate, Commit, Close, RemovePublished, PutBack, RemoveDirectories,
         Restore, RestoreRule, uninstall, RemoveRule, remove_protected_service_binary, Killed

\* An installation that fails and whose undoing does not leaves the service as it
\* was; what a stop that times out and a commit that fails leave less is stated
\* (install, restore_windows_service_after_failed_update).  The service of an older
\* release is never started again.
THEOREM FailedUpdateRestores == ProgramsDiffer => (Spec => FailureRestores)
<1> DEFINE Left ==
      /\ dest' = prior
      /\ "stop" \notin faults' =>
           service'.entry = "present" /\ service'.image = "protected" /\ rule'
      /\ setup.was.running /\ faults' = {} => service'.state # "stopped"
<1> DEFINE Restores ==
      /\ /\ setup.step # "idle" /\ setup.phase # "uninstall"
         /\ result' = "failed" /\ faults' \subseteq {"stop", "commit"}
         /\ setup.was.protected
         => Left
      /\ service.program # Legacy => service'.program # Legacy
<1>1. IInv /\ [Next]_vars => [Restores]_vars
  <2> SUFFICES ASSUME IInv, Next
               PROVE  Restores
    OBVIOUS
  <2>1. ASSUME setup.step # "idle", setup.phase # "uninstall", result' = "failed",
               faults' \subseteq {"stop", "commit"}, setup.was.protected
        PROVE  Left
    <3>1. Replacing /\ result # "failed"
      BY <2>1 DEF Replacing, IInv, InProgress
    <3>2. CASE AwaitStop /\ Fail({"stop"})
      <4>1. dest' = dest /\ setup.step = "stop" /\ "stop" \in faults'
        BY <3>2 DEF AwaitStop, Fail, files
      <4>. QED
        BY <4>1 DEF IInv, WhereProgramsAre
    <3>3. CASE RemoveDirectories /\ setup.phase = "cleanup" /\ Fail({})
      <4>1. /\ setup.step = "directories" /\ faults' = faults
            /\ UNCHANGED <<dest, service, rule>>
        BY <3>3 DEF RemoveDirectories, Fail, files
      <4>2. dest = prior /\ faults # {}
        BY <3>3, <4>1 DEF IInv, WhereProgramsAre, EntryKept
      <4>3. service.entry = "present" /\ service.image = "protected" /\ rule
        BY <2>1, <3>3, <4>1 DEF IInv, EntryKept
      <4>. QED
        BY <4>1, <4>2, <4>3
    <3>4. CASE RestoreRule \/ RestoreStart
      <4>1. setup.step \in {"rule", "restart"}
        BY <3>4 DEF RestoreRule, RestoreStart
      <4>2. Fail({}) /\ Clean
        <5>1. ~Fail({"restore"}) /\ ~UNCHANGED history
          BY <2>1, <3>1 DEF Fail, history
        <5>2. Fail({})
          BY <3>4, <5>1 DEF RestoreRule, RestoreStart
        <5>. QED
          BY <2>1, <5>2 DEF Fail, Clean
      <4>3. dest' = prior
        BY <3>4, <4>1, <4>2, RestoringFacts DEF RestoreRule, RestoreStart, files
      <4>4. ~setup.was.running => service.entry = "present" /\ service.image = "protected"
        BY <2>1, <3>1, <4>1 DEF IInv, EntryKept
      <4>5. CASE RestoreRule
        <5>1. ~setup.was.running /\ rule' = TRUE /\ UNCHANGED service
          <6>1. ~Fail({"restore"}) /\ ~UNCHANGED history
            BY <2>1, <3>1 DEF Fail, history
          <6>. QED
            BY <4>5, <6>1 DEF RestoreRule
        <5>. QED
          BY <4>3, <4>4, <5>1
      <4>6. CASE RestoreStart
        <5>1. CanStart /\ Launch /\ rule' = rule /\ setup.step = "restart"
          <6>1. ~Fail({"restore"})
            BY <2>1 DEF Fail
          <6>. QED
            BY <4>6, <6>1 DEF RestoreStart
        <5>2. rule
          BY <5>1 DEF IInv, EntryKept
        <5>3. /\ service'.entry = "present" /\ service'.image = "protected"
              /\ service'.state = "starting"
          BY <5>1 DEF CanStart, Launch, windows_image_path_uses_protected_binary, IInv, TypeOK,
                      Service
        <5>. QED
          BY <4>3, <5>1, <5>2, <5>3
      <4>. QED
        BY <3>4, <4>5, <4>6
    <3>. QED
      BY <2>1, <3>1, <3>2, <3>3, <3>4, FailsUndone
  <2>2. service.program # Legacy => service'.program # Legacy
    BY LegacyStaysStopped
  <2>. QED
    BY <2>1, <2>2
<1>. QED
  BY <1>1, Invariance, PTL DEF Spec, FailureRestores

=============================================================================
