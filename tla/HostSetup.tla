------------------------------ MODULE HostSetup ------------------------------
(***************************************************************************)
(* One host: `wakezilla setup` (setup.rs: the wizard, the configuration    *)
(* file it writes, the installation it starts), `wakezilla service` and    *)
(* `uninstall` in other terminals, the services that read the file when    *)
(* they start, and the self-update, which replaces the program that setup  *)
(* installs.                                                               *)
(*                                                                         *)
(* The configuration file is truncated and then written: between the two,  *)
(* and after a failure, it cannot be read and the defaults stand for it.   *)
(* ServiceInstall and WindowsService model the installation itself; here   *)
(* it succeeds or fails as a whole.                                        *)
(*                                                                         *)
(* Bounds: ports have MaxDigits digits and reach MaxPort (5 and 65535 in   *)
(* the code).  An update moves while setup copies the program: its other   *)
(* steps touch none of setup's variables, nor setup's the update's.        *)
(* Left out: a second setup at the same time, settings with an environment *)
(* variable, and the paths of the data files.                              *)
(***************************************************************************)
EXTENDS SelfUpdate, Sequences, SequencesExt

CONSTANTS
  DefaultPort,          \* of each mode: its digits
  Digits,               \* digits that are typed
  MaxDigits, MaxPort,   \* bounds of a port
  HeadlessPorts,        \* ports given with --port
  Key, NoKey,           \* a client's shutdown key, or none
  Absent, Torn, Stopped \* no file or service, half a file, no process

VARIABLES
  config,    \* the file
  services,  \* of each mode: Absent, Stopped, or the port it listens on
  program,   \* the protected copy of the program
  setup      \* the wizard and what follows it

setupVars == <<config, services, program, setup>>
vars == <<updateVars, setupVars>>

Modes == {"proxy", "client"}
Other(m) == CHOOSE n \in Modes : n # m

\* parse::<u16>, with MaxPort + 1 for what does not fit
Value(input) ==
  LET value == FoldLeft(LAMBDA n, d : 10 * n + d, 0, input)
  IN IF input = <<>> \/ value > MaxPort THEN MaxPort + 1 ELSE value

Default(m) == Value(DefaultPort[m])

Ports == 0 .. MaxPort
Config == [proxy : Ports, client : Ports, key : {Key, NoKey}]
Files == Config \cup {Absent, Torn}

DefaultConfig == [proxy |-> Default("proxy"), client |-> Default("client"), key |-> NoKey]

\* Config::load and load_from with its fallback: defaults for what cannot be read
Load(file) == IF file \in {Absent, Torn} THEN DefaultConfig ELSE file

Phases == {"idle", "mode", "port", "confirm", "overwrite", "apply", "save", "write", "install"}

Inputs == UNION {[1 .. n -> 0 .. 9] : n \in 0 .. MaxDigits}

\* The defaults are ports that the wizard accepts, --port is parsed as a u16.
ASSUME HostAssumption ==
  /\ MaxDigits \in Nat /\ MaxPort \in Nat
  /\ Digits \subseteq 0 .. 9 /\ HeadlessPorts \subseteq Ports
  /\ DefaultPort \in [Modes -> Inputs] /\ \A m \in Modes : Default(m) \in 1 .. MaxPort
  /\ {Absent, Torn} \cap Config = {} /\ {Absent, Stopped} \cap Ports = {}
  /\ Releases \subseteq [version : Nat, pre : BOOLEAN, helper : BOOLEAN] /\ NoFile \notin Programs

\* config is what setup will write, was what it found
Setup == [phase : Phases, mode : Modes, input : Inputs, error : BOOLEAN, port : Ports,
          key : {Key, NoKey}, config : Config, was : Files, result : {"none", "ok", "failed"}]

Idle(result) ==
  [phase |-> "idle", mode |-> "proxy", input |-> <<>>, error |-> FALSE, port |-> 0,
   key |-> NoKey, config |-> DefaultConfig, was |-> Absent, result |-> result]

TypeOK ==
  /\ UpdateTypeOK
  /\ config \in Files
  /\ services \in [Modes -> Ports \cup {Absent, Stopped}]
  /\ program \in [Modes -> {"none", "whole", "damaged"}]
  /\ setup \in Setup

Init ==
  /\ UpdateInit
  /\ config = Absent
  /\ services = [m \in Modes |-> Absent]
  /\ program = [m \in Modes |-> "none"]
  /\ setup = Idle("none")

-----------------------------------------------------------------------------
(* The wizard                                                              *)

\* With a mode and a port no question is asked but the confirmation.
StartHeadless ==
  /\ setup.phase = "idle"
  /\ \E m \in Modes, p \in HeadlessPorts :
       setup' = [Idle("none") EXCEPT !.phase = "overwrite", !.mode = m, !.port = p]
  /\ UNCHANGED <<updateVars, config, services, program>>

\* A port given with --port, as it is printed.
Printed == {input \in Inputs : Value(input) \in HeadlessPorts /\ (Len(input) > 1 => input[1] # 0)}

\* A port without a mode is put into the input, with the proxy selected.
StartWizard ==
  /\ setup.phase = "idle"
  /\ \E m \in Modes :
       \E input \in {DefaultPort[m]} \cup (IF m = "proxy" THEN Printed ELSE {}) :
         setup' = [Idle("none") EXCEPT !.phase = "mode", !.mode = m, !.input = input]
  /\ UNCHANGED <<updateVars, config, services, program>>

SetWizardMode(m) ==
  IF m = setup.mode THEN setup ELSE [setup EXCEPT !.mode = m, !.input = DefaultPort[m]]

TypeDigit ==
  /\ setup.phase = "port" /\ Len(setup.input) < MaxDigits
  /\ \E d \in Digits : setup' = [setup EXCEPT !.input = Append(@, d)]

\* fault: a port that does not fit is only reported
EnterPort_GoesOn ==
  /\ setup.phase = "port"
  /\ setup' = [setup EXCEPT !.error = Value(setup.input) \notin 1 .. MaxPort, !.phase = "confirm"]

EnterPort ==
  /\ setup.phase = "port"
  /\ setup' = IF Value(setup.input) \in 1 .. MaxPort
              THEN [setup EXCEPT !.error = FALSE, !.phase = "confirm"]
              ELSE [setup EXCEPT !.error = TRUE]

\* wizard_loop: one key.  Left and Right swap the modes, 1 and 2 choose one.
WizardKey ==
  /\ \/ setup.phase = "mode" /\ \E m \in Modes : setup' = SetWizardMode(m)
     \/ setup.phase = "mode" /\ setup' = [setup EXCEPT !.phase = "port"]
     \/ TypeDigit
     \/ /\ setup.phase = "port" /\ setup.input # <<>>
        /\ setup' = [setup EXCEPT !.input = Front(@)]
     \/ EnterPort
     \/ setup.phase = "confirm" /\ setup' = [setup EXCEPT !.phase = "port"]
     \/ /\ setup.phase = "confirm"
        /\ setup' = [setup EXCEPT !.phase = "overwrite", !.input = <<>>, !.error = FALSE,
             !.port = IF Value(setup.input) \in Ports THEN Value(setup.input)
                                                      ELSE Default(setup.mode)]
     \/ setup.phase \in {"mode", "port", "confirm"} /\ setup' = Idle("none")   \* Esc
  /\ UNCHANGED <<updateVars, config, services, program>>

-----------------------------------------------------------------------------
(* apply_with_key                                                          *)

\* existing_summary and confirm_overwrite, which --yes skips, and the check that
\* --key, which is not looked at before, is only given for a client.
ConfirmOverwrite ==
  /\ setup.phase = "overwrite"
  /\ \/ \E k \in {Key, NoKey} :
          setup' = IF k # NoKey /\ setup.mode = "proxy" THEN Idle("failed")
                   ELSE [setup EXCEPT !.phase = "apply", !.key = k]
     \/ /\ config # Absent \/ \E m \in Modes : services[m] # Absent
        /\ setup' = Idle("none")
  /\ UNCHANGED <<updateVars, config, services, program>>

\* The settings of an existing file are kept; a key that is not valid ends setup.
Apply ==
  /\ setup.phase = "apply"
  /\ setup' \in {[setup EXCEPT !.phase = "save",
                    !.config = [Load(config) EXCEPT ![setup.mode] = setup.port,
                                  !.key = IF setup.key = NoKey THEN @ ELSE setup.key],
                    !.was = config]}
                \cup IF setup.key = NoKey THEN {} ELSE {Idle("failed")}
  /\ UNCHANGED <<updateVars, config, services, program>>

\* write_secret_file: opened and truncated, secured, written.
Truncate ==
  /\ setup.phase = "save"
  /\ config' = Torn
  /\ setup' = [setup EXCEPT !.phase = "write"]
  /\ UNCHANGED <<updateVars, services, program>>

Write ==
  /\ setup.phase = "write"
  /\ config' = setup.config
  /\ setup' = [Idle("none") EXCEPT !.phase = "install", !.mode = setup.mode, !.port = setup.port]
  /\ UNCHANGED <<updateVars, services, program>>

\* The open or the write fails, or setup is killed.  A failed write leaves the torn file.
SetupFails ==
  /\ setup.phase \in {"apply", "save", "write", "install"}
  /\ setup' = Idle("failed")
  /\ UNCHANGED <<updateVars, config, services, program>>

-----------------------------------------------------------------------------
(* The services                                                            *)

Listens(m, p) == services[m] = p

\* A server loads the file when it starts; it may end at once, and does if its port
\* is taken.
Started(m) ==
  LET p == Load(config)[m]
  IN {Stopped} \cup IF Listens(Other(m), p) THEN {} ELSE {p}

\* fault: the connection that validates the service is not made
Validate_Skipped(services2, p) == TRUE

\* Any listener on the port will do.
Validate(services2, p) == \E m \in Modes : services2[m] = p

\* install: the program is copied as it is now, the service restarted, and the
\* port it was set up with tried.
Install ==
  /\ setup.phase = "install"
  /\ LET m == setup.mode IN
     /\ program' = [program EXCEPT ![m] = IF exe.whole THEN "whole" ELSE "damaged"]
     /\ \E s \in Started(m) : services' = [services EXCEPT ![m] = s]
     /\ Validate(services', setup.port)
  /\ setup' = [Idle("ok") EXCEPT !.mode = setup.mode, !.port = setup.port]
  /\ UNCHANGED <<updateVars, config>>

\* An installation that fails puts the old program back; the service may be as it
\* was, stopped, or restarted with the new configuration.
InstallFails ==
  /\ setup.phase = "install"
  /\ \E s \in {services[setup.mode]} \cup Started(setup.mode) :
       services' = [services EXCEPT ![setup.mode] = s]
  /\ setup' = Idle("failed")
  /\ UNCHANGED <<updateVars, config, program>>

Moves(m, states) ==
  /\ \E s \in states : services' = [services EXCEPT ![m] = s]
  /\ setup' = [setup EXCEPT !.result = IF @ = "ok" THEN "none" ELSE @]
  /\ UNCHANGED <<updateVars, config, program>>

\* run_service: --mode names an installed service, or it is the only one or picked.
\* A start of a service that runs does nothing.
StartService(m) == services[m] = Stopped /\ Moves(m, Started(m))

StopService(m) == services[m] # Absent /\ Moves(m, {Stopped})

\* also the service manager after a crash
RestartService(m) == services[m] # Absent /\ Moves(m, Started(m))

\* uninstall_all keeps the configuration; it ends at the first mode that fails.
Uninstall(m) ==
  /\ services[m] # Absent
  /\ m = "client" => services["proxy"] = Absent   \* the order of managed_modes
  /\ services' = [services EXCEPT ![m] = Absent]
  /\ program' = [program EXCEPT ![m] = "none"]
  /\ setup' = [setup EXCEPT !.result = IF @ = "ok" THEN "none" ELSE @]
  /\ UNCHANGED <<updateVars, config>>

SetupNext ==
  \/ StartHeadless \/ StartWizard \/ WizardKey \/ ConfirmOverwrite \/ Apply
  \/ Truncate \/ Write \/ SetupFails \/ Install \/ InstallFails
  \/ \E m \in Modes : StartService(m) \/ StopService(m) \/ RestartService(m) \/ Uninstall(m)

\* main: the commands of several terminals
Next ==
  \/ SetupNext
  \/ UpdateNext /\ setup.phase = "install" /\ UNCHANGED setupVars

Spec == Init /\ [][Next]_vars

-----------------------------------------------------------------------------
(* Properties                                                              *)

\* The port the wizard asks to confirm can be parsed: the default that stands in
\* for a port that cannot is never applied behind the user's back.
ConfirmedPortIsValid == setup.phase = "confirm" => Value(setup.input) \in 1 .. MaxPort

\* When setup reports success the file names the port that was confirmed, and the
\* service listens on it, or the other service does, which the check cannot tell.
SuccessIsAsConfirmed ==
  setup.result = "ok" =>
    /\ config \in Config /\ config[setup.mode] = setup.port
    /\ \E m \in Modes : Listens(m, setup.port)
    /\ Listens(setup.mode, setup.port) \/ services[setup.mode] = Stopped

\* What the user confirms is a port, and is what the service is given, whatever
\* was typed before it (wizard_loop, apply_with_key).
ConfirmedIsServed == ConfirmedPortIsValid /\ SuccessIsAsConfirmed

\* Every program that can be started is a whole release: the one on the path, its
\* helper and the copies that services run, wherever an update or a setup ended
\* and however they overlapped.
ProgramsAreWhole ==
  /\ exe.whole /\ (helper # NoFile => helper.whole)
  /\ \A m \in Modes : program[m] # "damaged"

\* The programs are whole, and the tray helper is of the program's release
\* (apply_update, install_optional_tray_helper).
ProgramsFit == ProgramsAreWhole /\ HelperFitsProgram
=============================================================================
