--------------------------- MODULE HostSetupProofs ---------------------------
(***************************************************************************)
(* Proofs about HostSetup, for every set of releases and any bound on the  *)
(* digits and the value of a port.  The value of what was typed is not     *)
(* looked into: only whether it is a port counts.                          *)
(*                                                                         *)
(* setup and the update share the program on the path alone, which setup   *)
(* copies; an invariant of each is proved of its own steps.                *)
(***************************************************************************)
EXTENDS HostSetup, SequenceTheorems, TLAPS

Replaceable == {"download", "verify", "extract", "stage exe", "rename exe"}

\* What was checked stays checked: past the checksum the archive is whole, what
\* is renamed is the release, and a release nobody named is newer than the
\* program until it has replaced it.
UpdateInv ==
  /\ UpdateTypeOK
  /\ exe.whole /\ (helper # NoFile => helper.whole)
  /\ HelperFitsProgram
  /\ update.phase \in {"extract", "stage exe", "rename exe", "tray helper"} => update.bytes
  /\ update.phase \in {"rename exe", "rename helper"} =>
       update.staged = Program(update.release, TRUE)
  /\ update.phase \in {"tray helper", "rename helper"} =>
       exe.version = update.release.version
  /\ update.phase \in Replaceable /\ ~update.asked => Available(update.release)

\* The port that was confirmed is in what setup will write, and then in the
\* file, until the installation has ended.
SetupInv ==
  /\ config \in Files
  /\ services \in [Modes -> Ports \cup {Absent, Stopped}]
  /\ program \in [Modes -> {"none", "whole"}]
  /\ setup \in Setup
  /\ ConfirmedPortIsValid
  /\ setup.phase \in {"save", "write"} => setup.config[setup.mode] = setup.port
  /\ setup.phase = "install" => config \in Config /\ config[setup.mode] = setup.port
  /\ setup.result = "ok" => setup.phase = "idle"
  /\ SuccessIsAsConfirmed

IInv == UpdateInv /\ SetupInv

-----------------------------------------------------------------------------
(* The update                                                              *)

LEMMA ProgramFields ==
  ASSUME NEW r \in Releases, NEW w \in BOOLEAN
  PROVE  /\ Program(r, w) \in Programs
         /\ Program(r, w).version = r.version /\ Program(r, w).whole = w
         /\ Program(r, w) # NoFile
  BY HostAssumption DEF Program, Programs

LEMMA UpdateFields ==
  ASSUME NEW r \in Releases
  PROVE  /\ Update(r) \in [phase : UpdatePhases, release : Releases, asked : BOOLEAN,
                           bytes : BOOLEAN, staged : Programs \cup {NoFile}]
         /\ Update(r).phase = "idle" /\ Update(r).release = r /\ Update(r).bytes
  BY DEF Update, UpdatePhases

LEMMA NoUpdateFields ==
  ASSUME Releases # {}
  PROVE  /\ NoUpdate \in [phase : UpdatePhases, release : Releases, asked : BOOLEAN,
                          bytes : BOOLEAN, staged : Programs \cup {NoFile}]
         /\ NoUpdate.phase = "idle"
<1>1. (CHOOSE r \in Releases : TRUE) \in Releases
  OBVIOUS
<1>. QED
  BY <1>1, UpdateFields DEF NoUpdate

\* A release is installed with its helper and nothing is under way.
LEMMA UpdateStarts == UpdateInit => UpdateInv
<1>. SUFFICES ASSUME NEW r \in Releases,
                     exe = Program(r, TRUE),
                     helper = IF r.helper THEN Program(r, TRUE) ELSE NoFile,
                     update = NoUpdate, mixed = FALSE
              PROVE  UpdateInv
  BY DEF UpdateInit
<1>1. NoUpdate.phase = "idle" /\ UpdateTypeOK
  BY NoUpdateFields, ProgramFields DEF UpdateTypeOK
<1>. QED
  BY <1>1, ProgramFields DEF UpdateInv, HelperFitsProgram, Replaceable

\* However an update ends, what is on the disk is as it was or as the step left
\* it, and the next update finds no traces.
LEMMA EndIsIdle ==
  ASSUME UpdateInv, update' = NoUpdate
  PROVE  /\ update' \in [phase : UpdatePhases, release : Releases, asked : BOOLEAN,
                         bytes : BOOLEAN, staged : Programs \cup {NoFile}]
         /\ update'.phase = "idle"
<1>1. Releases # {}
  BY DEF UpdateInv, UpdateTypeOK
<1>. QED
  BY <1>1, NoUpdateFields

LEMMA UpdateStep ==
  ASSUME UpdateInv, UpdateNext
  PROVE  UpdateInv'
<1>. USE DEF UpdateInv, UpdateTypeOK, HelperFitsProgram, Replaceable
<1>1. ASSUME NEW asked \in BOOLEAN, StartUpdate(asked) PROVE UpdateInv'
  <2>1. PICK r \in Releases :
          /\ asked \/ Available(r)
          /\ update' = [Update(r) EXCEPT !.phase = "download", !.asked = asked]
    BY <1>1 DEF StartUpdate
  <2>. QED
    BY <1>1, <2>1 DEF StartUpdate, Update, UpdatePhases, Available
<1>2. CASE Download
  BY <1>2 DEF Download, UpdatePhases, Available
<1>3. CASE Verify
  <2>1. CASE update.bytes
    BY <1>3, <2>1 DEF Verify, UpdatePhases, Available
  <2>2. CASE ~update.bytes
    BY <1>3, <2>2, EndIsIdle DEF Verify, EndUpdate
  <2>. QED
    BY <2>1, <2>2
<1>4. CASE Extract
  BY <1>4 DEF Extract, UpdatePhases, Available
<1>5. CASE StageExe
  <2>1. Program(update.release, FALSE) \in Programs /\ Program(update.release, TRUE) \in Programs
    BY ProgramFields
  <2>2. update.phase = "stage exe" /\ update.bytes = TRUE
    BY <1>5 DEF StageExe
  <2>. QED
    BY <1>5, <2>1, <2>2 DEF StageExe, UpdatePhases, Available
<1>6. CASE RenameExe
  <2>1. exe' = Program(update.release, TRUE) /\ update.phase = "rename exe"
    BY <1>6 DEF RenameExe
  <2>2. exe' \in Programs /\ exe'.whole /\ exe'.version = update.release.version
    BY <2>1, ProgramFields
  <2>. QED
    BY <1>6, <2>1, <2>2 DEF RenameExe, UpdatePhases
<1>7. CASE TrayHelper
  <2>1. CASE update.release.helper
    <3>1. update.phase = "tray helper" /\ update.bytes = TRUE
      BY <1>7 DEF TrayHelper
    <3>2. Program(update.release, TRUE) \in Programs
      BY ProgramFields
    <3>3. update' = [update EXCEPT !.staged = Program(update.release, TRUE),
                                   !.phase = "rename helper"]
      BY <1>7, <2>1, <3>1 DEF TrayHelper
    <3>. QED
      BY <1>7, <2>1, <3>1, <3>2, <3>3 DEF TrayHelper, UpdatePhases
  <2>2. CASE ~update.release.helper
    BY <1>7, <2>2, EndIsIdle DEF TrayHelper, EndUpdate
  <2>. QED
    BY <2>1, <2>2
<1>8. CASE RenameHelper
  <2>1. helper' = Program(update.release, TRUE) /\ update.phase = "rename helper"
    BY <1>8 DEF RenameHelper
  <2>2. helper' \in Programs /\ helper'.whole /\ helper'.version = update.release.version
    BY <2>1, ProgramFields
  <2>. QED
    BY <1>8, <2>1, <2>2, EndIsIdle DEF RenameHelper, EndUpdate
<1>9. CASE UpdateFails
  <2>1. /\ update' = NoUpdate /\ UNCHANGED <<exe, helper>>
        /\ mixed' = (mixed \/ update.phase \in {"tray helper", "rename helper"})
    BY <1>9 DEF UpdateFails, EndUpdate
  <2>2. mixed' \in BOOLEAN /\ (mixed => mixed')
        /\ (update.phase \in {"tray helper", "rename helper"} => mixed')
    BY <2>1
  <2>. QED
    BY <2>1, <2>2, EndIsIdle
<1>. QED
  BY <1>1, <1>2, <1>3, <1>4, <1>5, <1>6, <1>7, <1>8, <1>9 DEF UpdateNext

LEMMA UpdateUnchanged ==
  ASSUME UpdateInv, UNCHANGED updateVars
  PROVE  UpdateInv'
  BY DEF UpdateInv, UpdateTypeOK, HelperFitsProgram, Available, updateVars

-----------------------------------------------------------------------------
(* setup                                                                   *)

LEMMA InputsAreSequences ==
  ASSUME NEW s
  PROVE  s \in Inputs <=> s \in Seq(0 .. 9) /\ Len(s) <= MaxDigits
<1>1. MaxDigits \in Nat
  BY HostAssumption
<1>2. ASSUME s \in Inputs PROVE s \in Seq(0 .. 9) /\ Len(s) <= MaxDigits
  <2>1. PICK n \in 0 .. MaxDigits : s \in [1 .. n -> 0 .. 9]
    BY <1>2 DEF Inputs
  <2>. QED
    BY <1>1, <2>1, SeqDef
<1>3. ASSUME s \in Seq(0 .. 9), Len(s) <= MaxDigits PROVE s \in Inputs
  <2>1. Len(s) \in 0 .. MaxDigits /\ s \in [1 .. Len(s) -> 0 .. 9]
    BY <1>1, <1>3, LenProperties
  <2>. QED
    BY <2>1 DEF Inputs
<1>. QED
  BY <1>2, <1>3

\* Typing a digit and erasing one, within the bound on the digits.
LEMMA InputsChange ==
  ASSUME NEW s \in Inputs
  PROVE  /\ \A d \in Digits : Len(s) < MaxDigits => Append(s, d) \in Inputs
         /\ s # <<>> => Front(s) \in Inputs
         /\ <<>> \in Inputs
<1>1. s \in Seq(0 .. 9) /\ Len(s) \in Nat /\ Len(s) <= MaxDigits /\ MaxDigits \in Nat
  BY InputsAreSequences, HostAssumption
<1>2. ASSUME NEW d \in Digits, Len(s) < MaxDigits PROVE Append(s, d) \in Inputs
  <2>1. d \in 0 .. 9
    BY HostAssumption
  <2>2. Append(s, d) \in Seq(0 .. 9) /\ Len(Append(s, d)) = Len(s) + 1
    BY <1>1, <2>1
  <2>3. Len(Append(s, d)) <= MaxDigits
    BY <1>1, <1>2, <2>2
  <2>. QED
    BY <2>2, <2>3, InputsAreSequences, Zenon
<1>3. ASSUME s # <<>> PROVE Front(s) \in Inputs
  <2>1. Len(s) > 0
    BY <1>1, <1>3, SeqEqual, EmptySeq
  <2>2. PICK n \in Nat : n = Len(s) - 1
    BY <1>1, <2>1
  <2>3. \A i \in 1 .. n : s[i] \in 0 .. 9
    BY <1>1, <2>2, ElementOfSeq
  <2>4. PICK t : t = SubSeq(s, 1, n)
    OBVIOUS
  <2>5. t \in Seq(0 .. 9) /\ Len(t) = (IF 1 <= n THEN n - 1 + 1 ELSE 0)
    BY <2>2, <2>3, <2>4, SubSeqProperties
  <2>6. Len(t) <= MaxDigits
    BY <1>1, <2>2, <2>5
  <2>7. t \in Inputs
    BY <2>5, <2>6, InputsAreSequences, Zenon
  <2>. QED
    BY <2>2, <2>4, <2>7 DEF Front
<1>4. <<>> \in Inputs
  <2>1. <<>> \in Seq(0 .. 9) /\ Len(<<>>) <= MaxDigits
    BY <1>1, EmptySeq
  <2>. QED
    BY <2>1, InputsAreSequences, Zenon
<1>. QED
  BY <1>2, <1>3, <1>4

LEMMA PortsAndFiles ==
  /\ MaxPort \in Nat /\ 0 \in Ports /\ 1 .. MaxPort \subseteq Ports
  /\ \A m \in Modes : Default(m) \in 1 .. MaxPort /\ DefaultPort[m] \in Inputs
  /\ \A p \in Ports : p # Absent /\ p # Stopped
  /\ \A c \in Config : c # Absent /\ c # Torn /\ Load(c) = c
  /\ DefaultConfig \in Config
  /\ \A f \in Files : Load(f) \in Config
<1>1. /\ MaxPort \in Nat /\ 0 \in Ports /\ 1 .. MaxPort \subseteq Ports
      /\ \A m \in Modes : Default(m) \in 1 .. MaxPort /\ DefaultPort[m] \in Inputs
      /\ \A p \in Ports : p # Absent /\ p # Stopped
  BY HostAssumption DEF Ports
<1>2. DefaultConfig \in Config
  BY <1>1 DEF DefaultConfig, Config, Modes
<1>3. \A c \in Config : c # Absent /\ c # Torn /\ Load(c) = c
  BY HostAssumption DEF Load
<1>4. \A f \in Files : Load(f) \in Config
  BY <1>2 DEF Files, Load
<1>. QED
  BY <1>1, <1>2, <1>3, <1>4

LEMMA IdleFields ==
  ASSUME NEW result \in {"none", "ok", "failed"}
  PROVE  /\ Idle(result) \in Setup
         /\ Idle(result).phase = "idle" /\ Idle(result).result = result
         /\ Idle(result).error = FALSE
<1>1. <<>> \in Inputs
  <2>1. \E m \in Modes : DefaultPort[m] \in Inputs
    BY PortsAndFiles DEF Modes
  <2>. QED
    BY <2>1, InputsChange
<1>. QED
  BY <1>1, PortsAndFiles DEF Idle, Setup, Phases, Modes, Files

LEMMA SetupStarts == Init => SetupInv
  BY IdleFields DEF Init, SetupInv, Files, ConfirmedPortIsValid, SuccessIsAsConfirmed

\* The wizard, and apply_with_key before it writes: only setup changes.
LEMMA QuestionsKeep ==
  ASSUME SetupInv, UNCHANGED <<config, services, program>>,
         setup' \in Setup, setup'.result # "ok", setup'.phase # "install",
         setup'.phase = "confirm" => Value(setup'.input) \in 1 .. MaxPort,
         setup'.phase \in {"save", "write"} => setup'.config[setup'.mode] = setup'.port
  PROVE  SetupInv'
  BY DEF SetupInv, ConfirmedPortIsValid, SuccessIsAsConfirmed

LEMMA WizardStep ==
  ASSUME SetupInv, StartHeadless \/ StartWizard \/ WizardKey
  PROVE  SetupInv'
<1>. USE PortsAndFiles
<1>1. UNCHANGED <<config, services, program>>
  BY DEF StartHeadless, StartWizard, WizardKey
<1>2. setup \in Setup /\ setup.input \in Inputs
  BY DEF SetupInv, Setup
<1>3. ASSUME setup.phase \in {"mode", "port", "confirm"}
      PROVE  setup.result # "ok"
  BY <1>3 DEF SetupInv
<1> DEFINE Question(s) ==
      /\ s \in Setup /\ s.result # "ok"
      /\ s.phase \notin {"save", "write", "install"}
      /\ s.phase = "confirm" => Value(s.input) \in 1 .. MaxPort
<1>4. Question(setup') => SetupInv'
  BY <1>1, QuestionsKeep
<1>5. ASSUME NEW m \in Modes, NEW p \in HeadlessPorts,
             setup' = [Idle("none") EXCEPT !.phase = "overwrite", !.mode = m, !.port = p]
      PROVE  Question(setup')
  <2>1. p \in Ports
    BY HostAssumption
  <2>. QED
    BY <1>5, <2>1, IdleFields DEF Setup, Phases
<1>6. ASSUME NEW m \in Modes, NEW input \in Inputs,
             setup' = [Idle("none") EXCEPT !.phase = "mode", !.mode = m, !.input = input]
      PROVE  Question(setup')
  BY <1>6, IdleFields DEF Setup, Phases
<1>7. ASSUME NEW m \in Modes, setup.phase = "mode", setup' = SetWizardMode(m)
      PROVE  Question(setup')
  BY <1>2, <1>3, <1>7 DEF SetWizardMode, Setup, Phases
<1>8. ASSUME setup.phase \in {"mode", "confirm"},
             setup' = [setup EXCEPT !.phase = "port"]
      PROVE  Question(setup')
  BY <1>2, <1>3, <1>8 DEF Setup, Phases
<1>9. CASE TypeDigit
  <2>1. PICK d \in Digits : setup' = [setup EXCEPT !.input = Append(setup.input, d)]
    BY <1>9 DEF TypeDigit
  <2>2. setup.phase = "port" /\ Append(setup.input, d) \in Inputs
    BY <1>2, <1>9, InputsChange DEF TypeDigit
  <2>3. Question(setup')
    BY <1>2, <1>3, <2>1, <2>2 DEF Setup
  <2>. QED
    BY <1>4, <2>3
<1>10. ASSUME setup.phase = "port", setup.input # <<>>,
              setup' = [setup EXCEPT !.input = Front(setup.input)]
       PROVE  Question(setup')
  <2>1. Front(setup.input) \in Inputs
    BY <1>2, <1>10, InputsChange
  <2>. QED
    BY <1>2, <1>3, <1>10, <2>1 DEF Setup
<1>11. ASSUME EnterPort PROVE Question(setup')
  BY <1>2, <1>3, <1>11 DEF EnterPort, Setup, Phases
<1>12. ASSUME setup.phase = "confirm",
              setup' = [setup EXCEPT !.phase = "overwrite", !.input = <<>>, !.error = FALSE,
                          !.port = IF Value(setup.input) \in Ports THEN Value(setup.input)
                                                                   ELSE Default(setup.mode)]
       PROVE  Question(setup')
  <2>1. PICK p \in Ports :
          p = IF Value(setup.input) \in Ports THEN Value(setup.input) ELSE Default(setup.mode)
    BY <1>2 DEF Setup
  <2>2. <<>> \in Inputs
    BY <1>2, InputsChange
  <2>. QED
    BY <1>2, <1>3, <1>12, <2>1, <2>2 DEF Setup, Phases
<1>13. setup' = Idle("none") => Question(setup')
  BY IdleFields
<1>. QED
  <2>1. CASE StartHeadless
    BY <1>4, <1>5, <2>1 DEF StartHeadless
  <2>2. CASE StartWizard
    <3>1. Printed \subseteq Inputs /\ \A m \in Modes : DefaultPort[m] \in Inputs
      BY HostAssumption DEF Printed
    <3>2. PICK m \in Modes, input \in Inputs :
            setup' = [Idle("none") EXCEPT !.phase = "mode", !.mode = m, !.input = input]
      BY <2>2, <3>1 DEF StartWizard
    <3>. QED
      BY <1>4, <1>6, <3>2
  <2>3. CASE WizardKey
    BY <1>4, <1>7, <1>8, <1>9, <1>10, <1>11, <1>12, <1>13, <2>3 DEF WizardKey
  <2>. QED
    BY <2>1, <2>2, <2>3

\* apply_with_key, with the file it writes in two steps.
LEMMA ApplyStep ==
  ASSUME SetupInv, ConfirmOverwrite \/ Apply \/ Truncate \/ Write \/ SetupFails
  PROVE  SetupInv'
<1>. USE PortsAndFiles
<1>1. ASSUME setup' = Idle("none") \/ setup' = Idle("failed"),
             UNCHANGED <<config, services, program>>
      PROVE  SetupInv'
  BY <1>1, IdleFields, QuestionsKeep
<1>2. setup.phase # "idle" => setup.result # "ok"
  BY DEF SetupInv
<1>3. setup \in Setup /\ config \in Files
  BY DEF SetupInv
<1>4. CASE ConfirmOverwrite
  <2>1. ASSUME NEW k \in {Key, NoKey}, setup' = [setup EXCEPT !.phase = "apply", !.key = k]
        PROVE  SetupInv'
    BY <1>2, <1>3, <1>4, <2>1, QuestionsKeep DEF ConfirmOverwrite, Setup, Phases
  <2>. QED
    BY <1>1, <1>4, <2>1 DEF ConfirmOverwrite
<1>5. CASE Apply
  <2> DEFINE Settings == [Load(config) EXCEPT ![setup.mode] = setup.port,
                            !.key = IF setup.key = NoKey THEN Load(config).key ELSE setup.key]
  <2>1. Settings \in Config /\ Settings[setup.mode] = setup.port
    BY <1>3 DEF Setup, Config, Modes
  <2> HIDE DEF Settings
  <2>2. CASE setup' = [setup EXCEPT !.phase = "save", !.config = Settings, !.was = config]
    <3>1. setup.phase = "apply"
      BY <1>5 DEF Apply
    <3>. QED
      BY <1>2, <1>3, <1>5, <2>1, <2>2, <3>1, QuestionsKeep DEF Apply, Setup, Phases
  <2>3. setup' = [setup EXCEPT !.phase = "save", !.config = Settings, !.was = config]
        \/ setup' = Idle("failed")
    BY <1>5 DEF Apply, Settings
  <2>. QED
    BY <1>1, <1>5, <2>2, <2>3 DEF Apply
<1>6. CASE Truncate
  <2>1. setup.phase = "save" /\ setup' = [setup EXCEPT !.phase = "write"]
        /\ config' = Torn /\ UNCHANGED <<services, program>>
    BY <1>6 DEF Truncate
  <2>. QED
    BY <1>2, <1>3, <2>1
       DEF SetupInv, Setup, Phases, Files, ConfirmedPortIsValid, SuccessIsAsConfirmed
<1>7. CASE Write
  <2>1. setup.phase = "write" /\ config' = setup.config /\ UNCHANGED <<services, program>>
        /\ setup' = [Idle("none") EXCEPT !.phase = "install", !.mode = setup.mode,
                                         !.port = setup.port]
    BY <1>7 DEF Write
  <2>2. /\ setup' \in Setup /\ setup'.phase = "install" /\ setup'.result = "none"
        /\ setup'.mode = setup.mode /\ setup'.port = setup.port
    BY <1>3, <2>1, IdleFields DEF Setup, Phases
  <2>3. setup.config \in Config /\ setup.config[setup.mode] = setup.port
    BY <1>3, <2>1 DEF SetupInv, Setup
  <2>. QED
    BY <2>1, <2>2, <2>3 DEF SetupInv, Files, ConfirmedPortIsValid, SuccessIsAsConfirmed
<1>8. CASE SetupFails
  BY <1>1, <1>8 DEF SetupFails
<1>. QED
  BY <1>4, <1>5, <1>6, <1>7, <1>8

LEMMA StartedIsAPort ==
  ASSUME SetupInv, NEW m \in Modes
  PROVE  /\ Started(m) \subseteq Ports \cup {Stopped}
         /\ Started(m) \subseteq {Stopped, Load(config)[m]}
<1>1. Load(config) \in Config
  BY PortsAndFiles DEF SetupInv
<1>2. Load(config)[m] \in Ports
  BY <1>1 DEF Config, Modes
<1>. QED
  BY <1>2 DEF Started

\* A service takes the port of the file, and the file names the one that was
\* confirmed; the program it runs is as whole as the one on the path.
LEMMA InstallStep ==
  ASSUME SetupInv, exe.whole, Install \/ InstallFails
  PROVE  SetupInv'
<1>1. /\ setup.mode \in Modes /\ setup.port \in Ports /\ UNCHANGED config
      /\ config \in Config /\ config[setup.mode] = setup.port
  BY DEF SetupInv, Setup, Install, InstallFails
<1>2. \A m \in Modes, s \in Ports \cup {Absent, Stopped} :
        [services EXCEPT ![m] = s] \in [Modes -> Ports \cup {Absent, Stopped}]
  BY DEF SetupInv
<1>3. CASE Install
  <2>1. /\ program' = [program EXCEPT ![setup.mode] = "whole"]
        /\ Validate(services', setup.port)
        /\ setup' = [Idle("ok") EXCEPT !.mode = setup.mode, !.port = setup.port]
    BY <1>3 DEF Install
  <2>2. PICK s \in Started(setup.mode) : services' = [services EXCEPT ![setup.mode] = s]
    BY <1>3 DEF Install
  <2>3. s \in Ports \cup {Stopped} /\ s \in {Stopped, setup.port}
    BY <1>1, <2>2, StartedIsAPort, PortsAndFiles
  <2>4. services' \in [Modes -> Ports \cup {Absent, Stopped}] /\ services'[setup.mode] = s
    BY <1>1, <1>2, <2>2, <2>3 DEF SetupInv
  <2>5. /\ setup' \in Setup /\ setup'.phase = "idle"
        /\ setup'.mode = setup.mode /\ setup'.port = setup.port
    BY <1>1, <2>1, IdleFields DEF Setup
  <2>6. program' \in [Modes -> {"none", "whole"}]
    BY <2>1 DEF SetupInv
  <2>7. SuccessIsAsConfirmed'
    BY <1>1, <2>1, <2>3, <2>4, <2>5 DEF SuccessIsAsConfirmed, Validate, Listens
  <2>. QED
    BY <1>1, <2>4, <2>5, <2>6, <2>7 DEF SetupInv, ConfirmedPortIsValid, Files
<1>4. CASE InstallFails
  <2>1. setup' = Idle("failed") /\ UNCHANGED <<config, program>>
    BY <1>4 DEF InstallFails
  <2>2. PICK s \in {services[setup.mode]} \cup Started(setup.mode) :
          services' = [services EXCEPT ![setup.mode] = s]
    BY <1>4 DEF InstallFails
  <2>3. s \in Ports \cup {Absent, Stopped}
    BY <1>1, <2>2, StartedIsAPort DEF SetupInv
  <2>4. services' \in [Modes -> Ports \cup {Absent, Stopped}]
    BY <1>1, <1>2, <2>2, <2>3
  <2>. QED
    BY <2>1, <2>4, IdleFields DEF SetupInv, ConfirmedPortIsValid, SuccessIsAsConfirmed
<1>. QED
  BY <1>3, <1>4

\* The commands of other terminals, at any moment of setup.
LEMMA CommandStep ==
  ASSUME SetupInv, NEW m \in Modes,
         StartService(m) \/ StopService(m) \/ RestartService(m) \/ Uninstall(m)
  PROVE  SetupInv'
<1>1. UNCHANGED config /\ setup' = [setup EXCEPT !.result = IF @ = "ok" THEN "none" ELSE @]
  BY DEF StartService, StopService, RestartService, Uninstall, Moves
<1>2. PICK s \in Ports \cup {Absent, Stopped} : services' = [services EXCEPT ![m] = s]
  BY StartedIsAPort DEF StartService, StopService, RestartService, Uninstall, Moves
<1>3. program' \in [Modes -> {"none", "whole"}]
  BY DEF StartService, StopService, RestartService, Uninstall, Moves, SetupInv
<1>4. /\ setup' \in Setup /\ setup'.result # "ok"
      /\ setup'.phase = setup.phase /\ setup'.input = setup.input
      /\ setup'.mode = setup.mode /\ setup'.port = setup.port
      /\ setup'.config = setup.config
  BY <1>1 DEF SetupInv, Setup
<1>. QED
  BY <1>1, <1>2, <1>3, <1>4 DEF SetupInv, ConfirmedPortIsValid, SuccessIsAsConfirmed

LEMMA SetupStep ==
  ASSUME SetupInv, exe.whole, SetupNext
  PROVE  SetupInv'
  BY WizardStep, ApplyStep, InstallStep, CommandStep DEF SetupNext

LEMMA SetupUnchanged ==
  ASSUME SetupInv, UNCHANGED setupVars
  PROVE  SetupInv'
  BY DEF SetupInv, ConfirmedPortIsValid, SuccessIsAsConfirmed, Listens, setupVars

LEMMA SetupLeavesTheUpdate == SetupNext => UNCHANGED updateVars
  BY DEF SetupNext, StartHeadless, StartWizard, WizardKey, ConfirmOverwrite, Apply, Truncate,
         Write, SetupFails, Install, InstallFails, StartService, StopService, RestartService,
         Uninstall, Moves

-----------------------------------------------------------------------------
(* The host                                                                *)

LEMMA Inductive == IInv /\ [Next]_vars => IInv'
<1>. SUFFICES ASSUME IInv, [Next]_vars PROVE IInv'
  OBVIOUS
<1>1. CASE SetupNext
  BY <1>1, SetupStep, SetupLeavesTheUpdate, UpdateUnchanged DEF IInv, UpdateInv
<1>2. CASE UpdateNext /\ UNCHANGED setupVars
  BY <1>2, UpdateStep, SetupUnchanged DEF IInv
<1>3. CASE UNCHANGED vars
  BY <1>3, UpdateUnchanged, SetupUnchanged DEF IInv, vars
<1>. QED
  BY <1>1, <1>2, <1>3 DEF Next

LEMMA Invariance == Spec => []IInv
<1>1. Init => IInv
  BY UpdateStarts, SetupStarts DEF Init, IInv
<1>. QED
  BY <1>1, Inductive, PTL DEF Spec

\* The variables keep their types: what is typed stays within its digits, and
\* every port that is applied is one.
THEOREM TypeCorrect == Spec => []TypeOK
<1>1. IInv => TypeOK
  BY DEF IInv, UpdateInv, SetupInv, TypeOK
<1>. QED
  BY <1>1, Invariance, PTL

\* Whatever is typed and whoever starts, stops or uninstalls services during
\* setup, the port that is confirmed is valid, and when setup reports success
\* it is in the file and the service has it (wizard_loop, apply_with_key).
THEOREM ConfirmedPortIsServed == Spec => []ConfirmedIsServed
<1>1. IInv => ConfirmedIsServed
  BY DEF IInv, SetupInv, ConfirmedIsServed
<1>. QED
  BY <1>1, Invariance, PTL

\* However an update ends and whenever setup copies the program, every program
\* that can be started is a whole release, and the tray helper is of the
\* program's, unless the last update ended between the two (apply_update).
THEOREM ProgramsStayWhole == Spec => []ProgramsFit
<1>1. IInv => ProgramsFit
  BY DEF IInv, UpdateInv, SetupInv, ProgramsFit, ProgramsAreWhole
<1>. QED
  BY <1>1, Invariance, PTL

\* An update to the latest release never goes back, nor to a prerelease,
\* whatever is published meanwhile (status_from_release).
THEOREM UpdatesGoForward == Spec => UpdateIsUpgrade
<1> DEFINE Forward ==
      exe' # exe /\ ~update.asked =>
        exe'.version > exe.version /\ \E r \in Releases : ~r.pre /\ r.version = exe'.version
<1>1. IInv /\ [Next]_vars => [Forward]_updateVars
  <2>. SUFFICES ASSUME IInv, [Next]_vars, exe' # exe, ~update.asked
                PROVE  /\ exe'.version > exe.version
                       /\ \E r \in Releases : ~r.pre /\ r.version = exe'.version
    OBVIOUS
  <2>1. UpdateNext
    BY SetupLeavesTheUpdate DEF Next, vars, updateVars
  <2>2. RenameExe
    BY <2>1 DEF UpdateNext, StartUpdate, Download, Verify, Extract, StageExe, TrayHelper,
                RenameHelper, UpdateFails
  <2>3. /\ update.release \in Releases /\ exe' = Program(update.release, TRUE)
        /\ Available(update.release)
    BY <2>2 DEF RenameExe, IInv, UpdateInv, UpdateTypeOK, Replaceable
  <2>4. exe'.version = update.release.version
    BY <2>3, ProgramFields
  <2>5. exe.version \in Nat /\ update.release.version \in Nat
    BY <2>3, HostAssumption DEF IInv, UpdateInv, UpdateTypeOK, Programs
  <2>. QED
    BY <2>3, <2>4, <2>5 DEF Available
<1>. QED
  BY <1>1, Invariance, PTL DEF Spec, UpdateIsUpgrade
=============================================================================
