------------------------------- MODULE TrayApp -------------------------------
(***************************************************************************)
(* The tray application (tray/desktop.rs): one process that holds the      *)
(* instance lock, an event loop that handles one event at a time, and the  *)
(* threads that send it events: the refresh timer, the query of the        *)
(* services' status, and one thread per command.  Without administrator's  *)
(* rights a command runs in a terminal of its own, which outlives the      *)
(* tray.  "Configure startup" writes the entry that starts the tray at     *)
(* login, on the event loop's thread.                                      *)
(*                                                                         *)
(* The services change under the tray: other programs start, stop, install *)
(* and remove them.  The tray may be killed at any step.                   *)
(*                                                                         *)
(* Left out: the wording of labels and messages (only whether a message    *)
(* answers a request is kept), the icon, and quoting for the terminal.     *)
(***************************************************************************)
EXTENDS Naturals, Sequences, Functions

CONSTANTS
  Modes,       \* the services
  Files,       \* what the login entry of older versions may hold: lines
  NoFile,      \* no such entry
  MaxInputs    \* bound: clicks on the menu, and changes of the services by others

\* One line of a desktop file: a section's header or a key, and whether it is
\* what the tray writes ("[Desktop Entry]", an application named Wakezilla, an
\* Exec of wakezilla-tray or of wakezilla with the argument tray).
Keys == {"Type", "Name", "Exec"}
Lines == [kind : Keys \cup {"section", "other"}, ours : BOOLEAN]

ASSUME TrayAssumption == Files \subseteq Seq(Lines) /\ MaxInputs \in Nat

VARIABLES
  platform, elevated,   \* the operating system, the tray's rights
  stage,                \* of the tray's process
  services,             \* what is installed and what runs
  menu,                 \* what the menu shows of each service
  message,              \* the menu's line of text
  inFlight,             \* status_refresh_in_flight
  queries,              \* threads that query the status
  commands,             \* threads and terminals that run a command
  queue,                \* UserEvents sent to the event loop
  entry, temp, legacy,  \* the login entry, its staging file, the old entry
  writing,              \* the step of install_tray_autostart
  excused,              \* services that are down for a reason (history)
  inputs                \* counter for the bound

app == <<menu, message, inFlight, queries, queue>>
login == <<entry, temp, legacy, writing>>
machine == <<services, excused>>
host == <<platform, elevated>>
vars == <<host, stage, machine, app, commands, login, inputs>>

\* What is_installed and is_running tell of a service.  Windows accepts a stop
\* before the service is down: one that is still stopping does not run.
Statuses == {"absent", "stopped", "running"}
States == Statuses \cup {"stopping"}
Shown(state) == IF state = "stopping" THEN "stopped" ELSE state
Down(m) == services[m] # "running"

Controls == {"start", "stop", "restart"}
Items == [mode : Modes, control : Controls] \cup [control : {"update", "open"}]

\* A query reads is_installed and then is_running of one mode after the other;
\* read holds what it found so far.
NotRead == [m \in Modes |-> "unread"]
Queries == [Modes -> Statuses \cup {"unread", "installed"}]

\* id numbers the clicks; owner tells who runs the command; a restart is at
\* "wait" while it waits for the stop that Windows has accepted, and at "start"
\* once the service is stopped.
Commands == [id : 1 .. MaxInputs, item : Items, owner : {"tray", "terminal"},
             step : {"open", "run", "wait", "start"}]

\* A restart that has stopped its service and not yet started it again.
Restarting(c) == c.step \in {"wait", "start"}

Events ==
  [type : {"click"}, item : Items, id : 1 .. MaxInputs]
    \cup [type : {"status"}, found : [Modes -> Statuses]]
    \cup [type : {"setup", "quit", "refresh", "message"}]

Simple(type) == [type |-> type]

StatusAt == {i \in DOMAIN queue : queue[i].type = "status"}

\* At most one answer about the services is on its way, and the flag says so: a
\* newer answer can never be overwritten by an older one, and the flag never
\* stays up with no thread left to lower it.
OneAnswerComing ==
  /\ \A q, r \in queries : q = r
  /\ \A i, j \in StatusAt : i = j
  /\ queries = {} \/ StatusAt = {}
  /\ inFlight <=> queries # {} \/ StatusAt # {}

\* The types, and what status_refresh_in_flight stands for.
TypeOK ==
  /\ platform \in {"linux", "macos", "windows"} /\ elevated \in BOOLEAN
  /\ stage \in {"absent", "starting", "running"}
  /\ services \in [Modes -> States]
  /\ menu \in [Modes -> Statuses \cup {"unknown"}]
  /\ message \in {"ready", "requested", "answered"}
  /\ inFlight \in BOOLEAN
  /\ queries \subseteq Queries /\ OneAnswerComing
  /\ commands \subseteq Commands
  /\ queue \in Seq(Events)
  /\ entry \in {"none", "torn", "complete"} /\ temp \in {"none", "torn", "complete"}
  /\ legacy \in Files \cup {NoFile}
  /\ writing \in {"no", "write", "publish", "legacy"}
  /\ excused \subseteq Modes /\ \A m \in excused : Down(m)
  /\ inputs \in 0 .. MaxInputs

Init ==
  /\ platform \in {"linux", "macos", "windows"}
  /\ elevated \in BOOLEAN
  /\ stage = "absent"
  /\ services \in [Modes -> {"absent", "running"}]
  /\ menu = [m \in Modes |-> "unknown"] /\ message = "ready"
  /\ inFlight = FALSE /\ queries = {} /\ queue = <<>>
  /\ commands = {}
  /\ entry = "none" /\ temp = "none" /\ writing = "no"
  /\ legacy \in IF platform = "linux" THEN Files ELSE {NoFile}
  /\ excused = {m \in Modes : Down(m)}
  /\ inputs = 0

-----------------------------------------------------------------------------
(* The process and its event loop                                          *)

\* The instance lock: a second tray returns at once, without an error.
Launch ==
  /\ stage = "absent"
  /\ stage' = "starting"
  /\ UNCHANGED <<host, machine, app, commands, login, inputs>>

\* fault: a second query starts while the first is under way
RefreshStatus_Always == inFlight' = TRUE /\ queries' = queries \cup {NotRead}

\* refresh_status: a refresh while a query is under way is dropped.
RefreshStatus ==
  IF inFlight THEN UNCHANGED <<inFlight, queries>>
              ELSE inFlight' = TRUE /\ queries' = queries \cup {NotRead}

CreateTrayIcon ==
  /\ stage = "starting"
  /\ stage' = "running"
  /\ menu' = [m \in Modes |-> "unknown"] /\ message' = "ready"
  /\ RefreshStatus
  /\ UNCHANGED <<host, machine, queue, commands, login, inputs>>

\* These services, where they are down, are down for a reason.
Excuse(modes) == excused' = excused \cup {m \in modes : Down(m)}

\* The process ends: its threads and its queue go with it, a file that was being
\* staged stays behind under a name nobody reads.
Exit ==
  /\ stage' = "absent"
  /\ menu' = [m \in Modes |-> "unknown"] /\ message' = "ready"
  /\ inFlight' = FALSE /\ queries' = {} /\ queue' = <<>>
  /\ commands' = {c \in commands : c.owner = "terminal"}
  /\ Excuse({c.item.mode : c \in {d \in commands \ commands' : Restarting(d)}})
  /\ temp' = "none" /\ writing' = "no"
  /\ UNCHANGED <<host, services, entry, legacy, inputs>>

\* startup_error, a signal or a crash
Killed == stage # "absent" /\ Exit

\* fault: the timer's thread gives up as soon as the event loop runs
Tick_Stops ==
  /\ stage = "starting"
  /\ Simple("refresh") \notin Range(queue)
  /\ queue' = Append(queue, Simple("refresh"))
  /\ UNCHANGED <<host, stage, machine, menu, message, inFlight, queries, commands, login, inputs>>

Tick ==
  /\ stage # "absent"
  /\ Simple("refresh") \notin Range(queue)   \* bound: one refresh waits
  /\ queue' = Append(queue, Simple("refresh"))
  /\ UNCHANGED <<host, stage, machine, menu, message, inFlight, queries, commands, login, inputs>>

\* update_mode_menu: the items that can be clicked
Enabled(item) ==
  CASE item.control = "start"   -> menu[item.mode] \in {"unknown", "stopped"}
    [] item.control = "stop"    -> menu[item.mode] \in {"unknown", "running"}
    [] item.control = "restart" -> menu[item.mode] # "absent"
    [] OTHER                    -> TRUE

Send(event) ==
  /\ stage = "running"
  /\ inputs < MaxInputs /\ inputs' = inputs + 1
  /\ queue' = Append(queue, event)
  /\ UNCHANGED <<host, stage, machine, menu, message, inFlight, queries, commands, login>>

Click(item) ==
  /\ Enabled(item)
  /\ Send([type |-> "click", item |-> item, id |-> inputs + 1])

ClickOther(type) == Send(Simple(type))

Handling(type) ==
  /\ stage = "running" /\ writing = "no"
  /\ queue # <<>> /\ Head(queue).type = type

Handled(type) == Handling(type) /\ queue' = Tail(queue) /\ UNCHANGED <<host, stage, inputs>>

\* handle_menu_event; the item is not asked again whether it is enabled.
HandleClick ==
  /\ Handled("click")
  /\ LET item == Head(queue).item IN
     IF item.control = "open"
     THEN message' = "answered" /\ UNCHANGED commands
     ELSE /\ message' = "requested"
          /\ commands' = commands \cup
               {[id |-> Head(queue).id, item |-> item, owner |-> "tray",
                 step |-> IF elevated \/ item.control = "update" THEN "run" ELSE "open"]}
  /\ UNCHANGED <<machine, menu, inFlight, queries, login>>

HandleRefresh ==
  /\ Handled("refresh")
  /\ RefreshStatus
  /\ UNCHANGED <<machine, menu, message, commands, login>>

ApplyStatus ==
  /\ Handled("status")
  /\ inFlight' = FALSE
  /\ menu' = Head(queue).found
  /\ UNCHANGED <<machine, message, queries, commands, login>>

SetMessage ==
  /\ Handled("message")
  /\ message' = "answered"
  /\ UNCHANGED <<machine, menu, inFlight, queries, commands, login>>

\* macOS refuses root before it writes anything; Windows sets one value.
HandleSetup ==
  /\ Handled("setup")
  /\ \/ /\ ~(platform = "macos" /\ elevated)
        /\ writing' = IF platform = "windows" THEN "publish" ELSE "write"
        /\ temp' = IF platform = "windows" THEN "complete" ELSE "torn"
        /\ UNCHANGED message
     \/ /\ message' = "answered"   \* a path or a helper is missing
        /\ UNCHANGED <<writing, temp>>
  /\ UNCHANGED <<machine, menu, inFlight, queries, commands, entry, legacy>>

HandleQuit == Handling("quit") /\ Exit

-----------------------------------------------------------------------------
(* The threads                                                             *)

\* query_mode_status: is_installed and, for an installed service, is_running.
Read(q, m) ==
  [q EXCEPT ![m] =
     IF q[m] = "unread"
     THEN IF services[m] = "absent" THEN "absent" ELSE "installed"
     ELSE IF Down(m) THEN "stopped" ELSE "running"]

Unanswered(q) == {m \in Modes : q[m] \in {"unread", "installed"}}

QueryStep ==
  \E q \in queries :
    /\ IF Unanswered(q) # {}
       THEN /\ \E m \in Unanswered(q) :
                 /\ \A n \in Modes \ {m} : q[n] # "installed"   \* one mode after the other
                 /\ queries' = (queries \ {q}) \cup {Read(q, m)}
            /\ UNCHANGED queue
       ELSE /\ queries' = queries \ {q}
            /\ queue' = Append(queue, [type |-> "status", found |-> q])
    /\ UNCHANGED <<host, stage, machine, menu, message, inFlight, commands, login, inputs>>

\* A thread of the tray reports and asks for a refresh; an update check only
\* reports; a terminal does neither.
Report(c) ==
  queue' = IF c.owner = "terminal" THEN queue
           ELSE Append(queue, Simple("message")) \o
                  IF c.item.control = "update" THEN <<>> ELSE <<Simple("refresh")>>

Done(c) == commands' = commands \ {c} /\ Report(c)

Becomes(m, status) ==
  /\ services' = [services EXCEPT ![m] = status]
  /\ excused' = IF status = "running" THEN excused \ {m} ELSE excused \cup {m}

\* open_wakezilla_command: a terminal with sudo, or no terminal can be opened.
OpenTerminal(c) ==
  /\ c.step = "open"
  /\ \/ /\ commands' = (commands \ {c}) \cup {[c EXCEPT !.owner = "terminal", !.step = "run"]}
        /\ Report(c)
     \/ Done(c)
  /\ UNCHANGED machine

CheckForUpdates(c) ==
  /\ c.item.control = "update" /\ c.step = "run"
  /\ Done(c)
  /\ UNCHANGED machine

\* fault: a command that fails only asks for a refresh
CommandFails_Silently(c) ==
  /\ c.step = "run" /\ c.item.control # "update"
  /\ commands' = commands \ {c}
  /\ queue' = IF c.owner = "terminal" THEN queue ELSE Append(queue, Simple("refresh"))
  /\ UNCHANGED machine

\* Also a command that is refused, or whose terminal is closed; a restart here
\* before its stop is accepted.
CommandFails(c) ==
  /\ c.step = "run" /\ c.item.control # "update"
  /\ Done(c)
  /\ UNCHANGED machine

StartService(c) ==
  /\ \/ c.item.control = "start" /\ c.step = "run"
     \/ c.step = "start"
  /\ services[c.item.mode] \notin {"absent", "stopping"}
  /\ Becomes(c.item.mode, "running")
  /\ Done(c)

\* The second half of a restart fails, or its service has been removed or is
\* being stopped by somebody else.
StartAgainFails(c) ==
  /\ c.step = "start"
  /\ Excuse({c.item.mode})
  /\ UNCHANGED services
  /\ Done(c)

\* Windows returns once the stop is accepted, and refuses one of a service that
\* does not run (CommandFails).
StopService(c) ==
  /\ c.item.control = "stop" /\ c.step = "run"
  /\ IF platform = "windows"
     THEN ~Down(c.item.mode) /\ Becomes(c.item.mode, "stopping")
     ELSE services[c.item.mode] # "absent" /\ Becomes(c.item.mode, "stopped")
  /\ Done(c)

\* systemctl restarts in one call; it may leave the service stopped.
RestartService(c) ==
  /\ platform = "linux"
  /\ c.item.control = "restart" /\ c.step = "run"
  /\ services[c.item.mode] # "absent"
  /\ Becomes(c.item.mode, "running") \/ Becomes(c.item.mode, "stopped")
  /\ Done(c)

\* fault: a restart ends with its stop
RestartStops_EndsThere(c) ==
  /\ platform # "linux"
  /\ c.item.control = "restart" /\ c.step = "run"
  /\ services[c.item.mode] # "absent"
  /\ services' = [services EXCEPT ![c.item.mode] =
       IF platform = "windows" /\ @ = "running" THEN "stopping" ELSE "stopped"]
  /\ Done(c)
  /\ UNCHANGED excused

Proceeds(c, step) ==
  commands' = (commands \ {c}) \cup {[c EXCEPT !.step = step]} /\ UNCHANGED queue

\* macOS ignores an error of the unload.  stop_windows_service_for_restart asks
\* for a stop where the service runs, and then waits for it.
RestartStops(c) ==
  /\ platform # "linux"
  /\ c.item.control = "restart" /\ c.step = "run"
  /\ services[c.item.mode] # "absent"
  /\ IF platform = "windows"
     THEN /\ services' = [services EXCEPT ![c.item.mode] = IF Down(c.item.mode) THEN @ ELSE "stopping"]
          /\ Proceeds(c, "wait")
     ELSE /\ services' \in {services, [services EXCEPT ![c.item.mode] = "stopped"]}
          /\ Proceeds(c, "start")
  /\ UNCHANGED excused

RestartGoesOn(c) ==
  /\ c.step = "wait" /\ services[c.item.mode] = "stopped"
  /\ Proceeds(c, "start")
  /\ UNCHANGED machine

\* The stop takes longer than fifteen seconds, the status cannot be queried, or
\* the terminal is closed: the restart reports an error and starts nothing, and
\* the service that was asked to stop goes down all the same.
RestartGivesUp(c) ==
  /\ c.step = "wait"
  /\ Excuse({c.item.mode})
  /\ UNCHANGED services
  /\ Done(c)

CommandStep(c) ==
  /\ \/ OpenTerminal(c) \/ CheckForUpdates(c) \/ CommandFails(c)
     \/ StartService(c) \/ StartAgainFails(c) \/ StopService(c)
     \/ RestartService(c) \/ RestartStops(c) \/ RestartGoesOn(c) \/ RestartGivesUp(c)
  /\ UNCHANGED <<host, stage, menu, message, inFlight, queries, login, inputs>>

\* Another program starts, stops, installs or removes a service, or it crashes.
ServiceChanges(m) ==
  /\ inputs < MaxInputs /\ inputs' = inputs + 1
  /\ \E s \in Statuses \ {services[m]} : Becomes(m, s)
  /\ UNCHANGED <<host, stage, app, commands, login>>

\* Windows: a service that was asked to stop has stopped.  Nothing says when.
ServiceStopped(m) ==
  /\ services[m] = "stopping"
  /\ services' = [services EXCEPT ![m] = "stopped"]
  /\ UNCHANGED <<host, stage, excused, app, commands, login, inputs>>

-----------------------------------------------------------------------------
(* The entry that starts the tray at login                                 *)

\* The state of the parser of linux_legacy_autostart_is_owned.
NoKeys == [k \in Keys |-> FALSE]
NothingRead == [owned |-> FALSE, inEntry |-> FALSE, seen |-> NoKeys]

\* fault: the keys of an earlier section count for the next
ParseLine_KeepsKeys(s, line) ==
  IF s.owned THEN s
  ELSE IF line.kind = "section"
  THEN [s EXCEPT !.owned = s.inEntry /\ \A k \in Keys : s.seen[k], !.inEntry = line.ours]
  ELSE IF s.inEntry /\ line.kind \in Keys
  THEN [s EXCEPT !.seen[line.kind] = line.ours]
  ELSE s

\* linux_legacy_autostart_is_owned, one line: the last value of a key counts, a
\* new section starts over, and a complete section decides.
ParseLine(s, line) ==
  IF s.owned THEN s
  ELSE IF line.kind = "section"
  THEN [owned |-> s.inEntry /\ \A k \in Keys : s.seen[k],
        inEntry |-> line.ours, seen |-> NoKeys]
  ELSE IF s.inEntry /\ line.kind \in Keys
  THEN [s EXCEPT !.seen[line.kind] = line.ours]
  ELSE s

LegacyIsOwned(file) ==
  LET parsed[n \in 0 .. Len(file)] ==
        IF n = 0 THEN NothingRead ELSE ParseLine(parsed[n - 1], file[n])
      end == parsed[Len(file)]
  IN end.owned \/ \A k \in Keys : end.seen[k]

\* fault: an error of the write is ignored
WriteTemp_IgnoresErrors ==
  /\ writing = "write"
  /\ temp' \in {"torn", "complete"} /\ writing' = "publish"
  /\ UNCHANGED <<message, entry, legacy>>

\* atomic_write_linux_autostart, atomic_write_macos_launch_agent: an error removes
\* the staging file and ends the installation.
WriteTemp ==
  /\ writing = "write"
  /\ \/ temp' = "complete" /\ writing' = "publish" /\ UNCHANGED message
     \/ temp' = "none" /\ writing' = "no" /\ message' = "answered"
  /\ UNCHANGED <<entry, legacy>>

Publish ==
  /\ writing = "publish"
  /\ temp' = "none"
  /\ \/ /\ entry' = temp
        /\ writing' = IF platform = "linux" THEN "legacy" ELSE "no"
        /\ message' = IF platform = "linux" THEN message ELSE "answered"
     \/ writing' = "no" /\ message' = "answered" /\ UNCHANGED entry
  /\ UNCHANGED legacy

\* The old entry goes if it is the tray's own; the removal may fail.
RemoveLegacy ==
  /\ writing = "legacy"
  /\ writing' = "no" /\ message' = "answered"
  /\ legacy' \in IF legacy # NoFile /\ LegacyIsOwned(legacy) THEN {NoFile, legacy} ELSE {legacy}
  /\ UNCHANGED <<entry, temp>>

InstallAutostart ==
  /\ WriteTemp \/ Publish \/ RemoveLegacy
  /\ UNCHANGED <<host, stage, machine, menu, inFlight, queries, queue, commands, inputs>>

-----------------------------------------------------------------------------

EventLoop ==
  \/ CreateTrayIcon \/ HandleClick \/ HandleRefresh \/ ApplyStatus \/ SetMessage
  \/ HandleSetup \/ HandleQuit \/ InstallAutostart

Next ==
  \/ Launch \/ Killed \/ EventLoop \/ Tick \/ QueryStep
  \/ \E item \in Items : Click(item)
  \/ \E type \in {"setup", "quit"} : ClickOther(type)
  \/ \E c \in commands : CommandStep(c)
  \/ \E m \in Modes : ServiceChanges(m) \/ ServiceStopped(m)

Spec == Init /\ [][Next]_vars

TrayCommand == \E c \in commands : c.owner = "tray" /\ CommandStep(c)

\* The event loop and its threads are scheduled, and the programs they wait for
\* answer.  Nothing is asked of the user, of terminals or of other programs.
FairSpec ==
  Spec /\ WF_vars(EventLoop) /\ WF_vars(Tick) /\ WF_vars(QueryStep) /\ WF_vars(TrayCommand)

-----------------------------------------------------------------------------
(* Properties                                                              *)

\* A service that is down, or still stopping, was stopped by somebody or failed,
\* or a restart is about to start it.  A restart leaves it down in three cases
\* only: its start fails, its tray is quit in the middle, or, on Windows, it gave
\* up waiting for a stop that had been accepted.  Otherwise concurrent commands
\* of the menu do not lose a service.
DownHasACause ==
  \A m \in Modes :
    Down(m) /\ m \notin excused => \E c \in commands : Restarting(c) /\ c.item.mode = m

\* The file is a desktop entry of the tray: some section is headed
\* [Desktop Entry], and the last value of each key in it is the tray's.
DeclaresTray(file) ==
  \E first \in 1 .. Len(file), last \in 1 .. Len(file) :
    /\ file[first].kind = "section" /\ file[first].ours
    /\ last >= first
    /\ \A i \in first + 1 .. last : file[i].kind # "section"
    /\ last = Len(file) \/ file[last + 1].kind = "section"
    /\ \A k \in Keys : \E i \in first + 1 .. last :
         /\ file[i].kind = k /\ file[i].ours
         /\ \A j \in i + 1 .. last : file[j].kind # k

StartsAtLogin == entry = "complete" \/ (legacy # NoFile /\ DeclaresTray(legacy))

\* Once the tray starts at login it always does, whatever step of a later
\* installation fails and wherever the tray is killed in it; and an entry of
\* another program under the old name is never removed.
LoginEntryKept ==
  [][/\ StartsAtLogin => StartsAtLogin'
     /\ legacy' # legacy => DeclaresTray(legacy)]_vars

\* A tray that keeps running comes to show the state a service has, or the service
\* changes again: a refresh that was dropped because a query was under way is made
\* up for by the timer.  And the menu's line of text comes to answer every request,
\* also when its command fails.
MenuSettles ==
  /\ \A m \in Modes : \A s \in Statuses :
       stage = "running" /\ Shown(services[m]) = s
         ~> stage # "running" \/ Shown(services[m]) # s \/ menu[m] = s
  /\ message = "requested" ~> message # "requested"
=============================================================================
