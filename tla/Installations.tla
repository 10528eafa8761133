---------------------------- MODULE Installations -----------------------------
(***************************************************************************)
(* setup on a machine of either kind: on Linux and macOS the program is    *)
(* replaced before the service manager is told, by renames that a sync     *)
(* makes durable (ServiceInstall); on Windows the service is stopped first *)
(* and restored with the program (WindowsService).  The two share only the *)
(* programs that setup installs.                                           *)
(***************************************************************************)
EXTENDS ServiceInstall

CONSTANT Legacy   \* as in WindowsService

VARIABLES
  windows,                                      \* the platform
  dest, backup, service, rule, setup, restarting,
  replaced, outcome, undone                     \* prior, result and faults there

Windows == INSTANCE WindowsService
             WITH prior <- replaced, result <- outcome, faults <- undone

ASSUME InstallationsAssumption == Windows!ProgramsDiffer

unixVars == vars
windowsVars == <<dest, backup, service, rule, setup, restarting, replaced, outcome, undone>>

InstallationsInit ==
  /\ windows \in BOOLEAN
  /\ Init /\ Windows!Init
  /\ windows => \A n \in Names : fs.dir[n] = None
  /\ ~windows => service = Windows!NoService

InstallationsNext ==
  /\ \/ windows /\ Windows!Next /\ UNCHANGED unixVars
     \/ ~windows /\ Next /\ UNCHANGED windowsVars
  /\ UNCHANGED windows

InstallationsSpec ==
  InstallationsInit /\ [][InstallationsNext]_<<windows, unixVars, windowsVars>>

\* Windows: a failed or killed replacement leaves a complete program, although
\* Drop runs a failed rollback again (UpdateState, rollback).
WindowsCopySurvives == Windows!WindowsCopySurvives

\* Windows: the service and its program belong together: an entry that is left
\* while nothing is under way names a program that exists, also after half an
\* uninstallation (uninstall_all), and after an installation that succeeded what
\* runs is what was installed, whoever starts or stops it meanwhile.
ServiceHasItsProgram == Windows!ServiceHasItsProgram

\* Windows: an installation that fails, and whose undoing does not, leaves the
\* service as it was; only one whose stop times out leaves it stopping, and only
\* one whose commit fails leaves it stopped (install,
\* restore_windows_service_after_failed_update).  The service of an older release
\* is not started again.
FailureRestores == Windows!FailureRestores

=============================================================================
