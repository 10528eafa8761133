# Wakezilla in TLA+

Formal models of Wakezilla: a proxy that wakes machines when traffic reaches
one of its ports, forwards the traffic, and shuts idle machines down through an
authenticated client service. The modules are translated from the Rust source
(paths below are relative to the repository); TLC checks them on small
instances, and TLAPS proves the theorems for all values of the constants.

## 1. The system

### Parts, their state and how they interact

| Part | Source | State | Operations |
|---|---|---|---|
| Client service | `src/client_server.rs`, `src/shutdown_auth.rs` | key, table of accepted nonces (one mutex) | `/health/secure`, `/machines/turn-off`, both through `authenticate` |
| Inactivity monitor | `src/forward.rs` (`TurnOffLimiter`) | timers by MAC (one mutex), `triggered` flags, one monitor task | arm, remove, record activity, scan each second |
| Machine registry | `src/proxy_server.rs`, `src/web.rs`, `src/config.rs` | `AppState.machines` (RwLock), JSON database, keys and their verification | add, update, delete, verify, rotate; load at start |
| Port forwarders | `src/web.rs`, `src/forward.rs` | `AppState.proxies` (RwLock): stop switches; one task per forward; connection tasks | spawn, enter map, bind, accept, stop; per connection: check, wake, wait, connect, copy |
| Remote turn-off | `src/forward.rs`, `src/system.rs` | none on the proxy; a 5-second thread on the client | manual and automatic |
| Access log | `src/access_log.rs` | bounded timestamps per forward, JSON file | record, flush each minute, flush at exit |
| Service installation, Unix | `src/service.rs` | protected binary, backup, descriptor | install, uninstall |
| Service installation, Windows | `src/service.rs` | the same, the service manager's entry and process, the firewall rule | install, uninstall, start, stop, restart |
| Setup | `src/setup.rs`, `src/config.rs` | configuration file, the wizard's answers | wizard keys, apply, save, install |
| Self-update | `src/update.rs` | the program, the tray helper beside it | look up, download, verify, extract, replace |
| Tray | `src/tray/desktop.rs` | menu, event queue, query and command threads, login entry | menu items, refresh timer, configure startup |
| Dashboard | `frontend/` | list of machines, statuses, pending commands, dialog | load, poll, command and check, edit, load setup |
| Terminal UI | `src/tui.rs` | list of machines, selected index, question | keys, refresh each 30 s |
| Scanner, CLI, models, installers | `src/scanner.rs`, `src/cli.rs`, `common/`, `install.*` | none | I/O, parsing, conversion |

A dashboard request runs a handler that holds the write lock on the registry
from validation to the end. The handler saves the database, replaces the
registry, arms or removes the machine's timer, tells the machine's forwarders
to stop, spawns new ones, and replaces the monitor task. Forwarders run on
their own, and every accepted connection in a further task, which reports
activity to the timer. The monitor queues turn-off requests, which are signed
with the timer's copy of the key and sent to the client service, which checks
clock, nonce and signature and then suspends the machine. A machine without a key
is sent unsigned requests, and a client without one carries out whatever arrives.

The dashboard and the terminal are clients of the same requests and keep copies
of the list of machines. `setup` writes the configuration and then installs the
program it was started from as a service, which reads the configuration when it
starts; `update` replaces that program. The tray runs `wakezilla service` and
`wakezilla update` as processes and reads the service manager's state.

### What is hard about it

* Tasks outlive the configuration they were started for: a forwarder or a
  connection of an edited or deleted machine still runs; an aborted monitor
  finishes its scan.
* Stop and start are not awaited: a new forwarder may bind before the old one
  has closed the port; a spawned forwarder enters its stop switch later.
* State is read, released and used again: verification waits for the client
  between two locks; timers keep copies of address and key; the monitor reads
  the clock before the mutex.
* A handler is dropped where it awaits when its caller goes away, with the edit
  half done; a command of the system fails after its request was answered.
* Saves truncate the database in place and are undone in memory only.
* Authentication depends on two clocks that jump, on a table that is pruned,
  bounded and forgotten at restart.
* Installation replaces the binary of a running service and must be undone
  from any step; on Windows the service must be stopped for it, other terminals
  may start it meanwhile, and a running program cannot be removed.
* A rollback that failed is run again by `Drop`.
* The configuration is truncated and written; setup and update read and replace
  the same program; an update replaces two files one after the other.
* The panels apply answers in the order they come, to a list that other clients
  edit: a poll that is older than a command's confirmation, a list that is older
  than an edit, an index that a refresh has moved.
* The tray's threads and terminals outlive the clicks that started them, and the
  terminals the tray itself.

`PROJECT.json` lists each hazard with its line and the properties aimed at it.

### What makes each part correct

* Client: a request takes effect again only after the client was made to forget
  it, and what makes it forget is limited; the table stays bounded; requests with
  a bad signature cannot use up nonces. A client without a key promises nothing.
* Monitor: one request per idle period, never for an active machine, no timer
  without a machine that asks for it, every idle machine that has one eventually
  signalled.
* Registry: no conflicts after any sequence of edits, failures and restarts;
  memory and file agree; "verified" is only said of a key a client confirmed;
  a revoked key stays revoked.
* Forwarders: one task per configured forward, none for others; ports of
  deleted machines close; ports of configured ones open.
* Installation: some complete binary survives any failure and power loss; a
  failed installation leaves the old one, a successful one the new one. On
  Windows the service, its definition and its process follow the program, and a
  service of an older release is not started unless the migration succeeds.
* Setup: the port that is confirmed is valid and is the one that is served.
  Update: forwards only, whole programs, and
  a helper that fits the program.
* Tray: the menu comes to show the services' state; commands in parallel lose no
  service but for a restart that fails half way; once the tray starts at login it always does.
* Dashboard: one command per machine and each comes to an end; a confirmation is
  not taken back by an older poll; the list is the proxy's after edits.
* Terminal: the machine deleted is the one that was selected; the list catches up.

## 2. The modules

| Module | Models | Checked by | Proved in |
|---|---|---|---|
| `OneShotRequests` | abstract promise of the client's authentication | as a property of `ReplayGuard` | – |
| `ReplayGuard` | signing, clocks, `ReplayGuard::verify`, eviction, restart | `MCReplayGuard` | `ShutdownProofs` |
| `InactivityMonitor` | `TurnOffLimiter`, the monitor task, handlers as far as timers go | itself | `ShutdownProofs` |
| `MachineRegistry` | the handlers on registry, database, keys, verification | `MCMachineRegistry` | `MachineRegistryProofs` |
| `ForwarderTasks` | the life of forwarder tasks under edits | itself | `ForwarderProofs` |
| `WakeOnDemand` | one machine: connections, wake-up, turn-off requests, suspend threads, in time | itself | `ForwarderProofs` |
| `ServiceInstall` | Unix: protected binary, backup, descriptor: installation and removal | `MCInstallations`, itself | `InstallationsProofs` |
| `WindowsService` | Windows: program, service manager's entry, process, firewall rule | `MCInstallations` | `WindowsServiceProofs` |
| `Installations` | either of the two, on one machine | `MCInstallations` | `InstallationsProofs` |
| `SelfUpdate` | release, download, the replacement of program and tray helper | `MCHostSetup` | `HostSetupProofs` |
| `HostSetup` | the wizard, the configuration file, service commands, next to `SelfUpdate` | `MCHostSetup` | `HostSetupProofs` |
| `TrayApp` | the tray's event loop, threads, commands and login entry | `MCTrayApp` | `TrayAppProofs` |
| `PanelServer` | the list of machines as the panels see and edit it | `MCPanels` | `PanelsProofs` |
| `Dashboard` | the page: list, poll, commands, dialog | `MCPanels` | `PanelsProofs` |
| `TerminalUI` | the terminal's loop: list, selection, deletion, refresh | `MCPanels` | `PanelsProofs` |
| `Panels` | both panels on one list | `MCPanels` | `PanelsProofs` |

Modules compose in three ways: `HostSetup` extends `SelfUpdate`, whose program
its `Install` copies; `Panels` extends `Dashboard` and `TerminalUI`, which edit
the list of `PanelServer`; `Installations` extends `ServiceInstall` and
instantiates `WindowsService` with variables of its own. `ShutdownProofs` and
`ForwarderProofs` each extend two modules whose names differ, and `InstallationsProofs`
instantiates `WindowsServiceProofs` as `Installations` does `WindowsService`.

Definitions carry the names of the functions they model. A definition named
after another one with a suffix (`Retained_Short`, `Stopped_Restarted`, ...)
is a seeded fault: no specification uses it, and `PROJECT.json` says which
property finds it when it takes the place of the original.

### ReplayGuard

A request is its nonce, or a number of its own if it is unsigned; `sent` is
everything the proxy has ever sent, with route, date and key, so the network may
deliver any of it at any time, repeatedly, or never. `sign_request_at` and
`turn_off_unsigned` send. At a client with a key `verify` is three actions for
its three outcomes that change the table; early returns that change nothing are
stuttering steps. At a client without one `turn_off_legacy` carries out whatever
turn-off arrives and records nothing. The clock of the proxy is any number at
signing; the client's clock moves freely, forwards and backwards. `seen` is the
hash map, shared by both routes.

`used`, `forgotten` and `repeated` are history: the requests that have taken
effect in any process, those of them the client has been made to forget, and
those that took effect again without having been forgotten. A request is
forgotten in four ways, and each must happen anew for each repetition: a full
table drops its oldest nonce (one per request accepted); the process starts again;
the clock is set back into the window of a request whose nonce was already pruned;
the client has no key. `OneShotRequests` states this promise without windows,
retention or a table.

The assumption `Retention >= 2 * MaxClockSkew` is met by the code's 120 s and
60 s with equality, and by the run's 2 and 1. A nonce is kept while
`now - accepted_at <= 120`; a request may be dated up to 60 s ahead of the clock
and is acceptable up to 60 s after its date, so 120 s is just enough: one second
less and `AtMostOnce` fails (the fault `Retained_Short`). A clock that is set back
while the nonce is in the table only keeps it there longer.

### InactivityMonitor

Instants are ages, so time is unbounded and the state finite. `Wake` reads the
clock and `Scan` takes the mutex up to `MaxLag` seconds later. `abort()` of a
monitor that is between the two does not stop it before its next await:
`scanning` holds all monitors that still have a scan to finish, while `current`
is the one in `monitor_handle`. `update_machine_api` is three steps
(`BeginUpdate`, `StartConfigured`, `restart_global_monitor`), for it waits for
the lock on the proxies in the middle with the old timer gone. There its caller
may go away and the server drops the handler (`Disconnect`): the machine is
edited, no timer is armed, and the monitor is not replaced. `cut` (history) holds
such machines until their next edit.

### MachineRegistry

One handler holds the write lock at a time (`handler`). The save inside it is
three steps, `OpenFile` (which truncates), `WriteFile` and `SyncFile`, each of
which may be followed by `SaveFails` or `Restart`. A handler's effect on memory
and timers is carried in `handler` and installed by `SyncFile`, except that
`rotate_shutdown_key` and `verify_shutdown_setup` change the registry first and
undo it on failure, as in the code. `SyncFile` of an edit removes the old timer
and leaves the handler waiting for the lock on the proxies (stage `arm`), until
`ArmTimer` arms the new one or `Disconnect` drops the handler; `cut` (history)
holds the machines without a timer for that reason. Verification is a record in `verifying`
between its two locks. `clients` says which key the client at an address was
set up with; `answered` (history) which keys were confirmed.

### ForwarderTasks

A task is spawned, enters its switch in `proxies` (`Insert`), binds its port
(`Bind`) or ends for good if the port is taken, and stops once its switch is
gone (`Stop`). `send(false)` followed by dropping the sender has the same
effect as dropping it alone, which is also what replacing it by another
insertion does: a task is told to stop exactly when it is not in `Held`.
`update_machine_api` and `delete_machine_api` wait for the lock on the proxies;
while they wait their caller may go away, and the server drops the handler
(`Disconnect`). `overlapped` (history) records that an edit overtook a spawned
task or was cut short. Machines loaded at start are spawned like added ones, so
the initial state is the empty registry.

### WakeOnDemand

`conn` is the stage of each task that `proxy_internal` spawns, from `accepted`
to `copy`, with the time left for the attempt or pause under way (`timer`) and
for the machine to come up (`deadline`). `request` holds turn-off requests and,
once the client has answered, the threads of `shutdown_machine`. `power` is the
machine. `Tick` is one second; no step that is due now may be put off past it.
An attempt to connect notes whether the machine was unreachable at any moment
of it: if so it may fail, at once (refused) or by its timeout, and may still
succeed when the machine comes up. A suspend thread sleeps on a clock that
stands still while the machine is suspended, as `CLOCK_MONOTONIC` does, so one
of two threads may suspend a machine that has just been woken. Ages beyond the
inactivity period are one age, so time is unbounded and the state finite.

The command of a suspend thread may fail long after the client has answered OK
(`SuspendFails`); it is only logged. `excused` (history) says that the one request
of the idle period came to nothing: it or its command failed, or the user woke the
machine.

The shutdown of an idle machine is one request per idle period here as in
`InactivityMonitor`, whose monitor is one action of this module: its races with
edits are checked there.

### ServiceInstall

`step` is the next call to the file system that `install` or `uninstall` will
make; every call may fail. `disk` is what a power loss may leave: the state at
the last sync of the directory and after each call since, that is, calls reach
the disk in their order, as on a journaling file system. `ProcessCrash` keeps
the directory and runs no destructor. `update.again` says that
`UnixProtectedBinaryUpdate::rollback` is running, after whose failure `Drop`
rolls back once more; without it `rollback_inner` is `Drop`'s own, whose failure
is only logged. The stage is copied, synced and compared before the directory
changes, so until `Publish` it is just `Staged`. `faults` (history) names the
failures that the properties make exceptions for.

### WindowsService and Installations

`setup.step` is again the next call. An installation stops the service
(`install`, `AwaitStop`), replaces the program (`Stage` to `Check`), then sets
the firewall rule, deletes the entry, creates it, starts the service, connects to
it and commits. A failure after the program was published goes through `Close`
(and `Delete`, when definition or rule have changed), `rollback` and
`restore_windows_service_after_failed_update`; `setup.phase` tells which of
these callers a shared step runs for. `service.entry` is the service manager's:
a deleted entry stays as `deleting` until its process has stopped, and nothing
can be created in its place. `service.program` is the program that the process
was started from, which need not be the one under the protected path any more.
`start`, `stop` and `restart` are the commands of another terminal or of the
tray, which run at any step; a wait ends when its condition holds or when its
time is over, after which the service may still stop. The check of the installed
service succeeds with any listener on the port. `faults` (history) names what
failed besides the installing itself: a stop that timed out, the commit, and the
steps of the undoing. `Killed` ends an installation
anywhere and leaves what there was.

`Installations` runs one platform or the other, chosen at the start, so that both
are checked with the same programs in one run.

### SelfUpdate and HostSetup

`update.phase` is the step of `wakezilla update`. A release is a version and
whether it is a prerelease and has a tray helper; a program is its version and
whether its bytes are those of the release, so that what the checksum protects is
visible. `mixed` (history) records an update that ended between the replacement
of the program and that of the helper.

`setup.phase` follows the wizard's screens and then `apply_with_key`. The wizard
starts with the default port or with the one of `--port` (`Printed`). The port
that is typed is a sequence of digits, for a port can have too many of them or be
too large for its type. The configuration file is a record, absent, or torn:
`write_secret_file` truncates it (`Truncate`) and then writes it (`Write`), and
`Load` yields the defaults for a file that cannot be read. The services read the
file at every start. The installation itself, modelled by the modules above,
succeeds or fails as a whole.

### TrayApp

`queue` holds the events of the event loop, which handles one at a time;
`queries` and `commands` are the threads, a command with the number of its click. A command without administrator's
rights goes through `OpenTerminal`, after which it belongs to a terminal, reports
nothing and survives the tray. A restart is one call on Linux and two steps on
macOS and Windows, between which the tray may be quit. On Windows a stop is
accepted before the service is down (`stopping`, until `ServiceStopped`); a
restart waits for it (`wait`) and then starts the service (`RestartGoesOn`) or
gives up (`RestartGivesUp`), and the service goes down all the same. `writing` is the step of
`install_tray_autostart`, during which the event loop handles nothing. The
ownership of the old login entry is decided on its lines (`ParseLine`), and
`DeclaresTray` says independently what a desktop entry of the tray is. `excused`
(history) names the services that are down for a reason.

### PanelServer, Dashboard, TerminalUI and Panels

A machine is its address, which is the key of every request; `registry` is the
proxy's list in its order. Every request of the page is two steps, served and
answered, and may fail before or after it was served. `poll` remembers whether the
status epoch is still the one it started with; `tasks` are the commands, each
with the number of checks it has left; `edits` are requests of the dialog, with
whether the dialog that sent them still exists (`ours`); `loads` the requests of
the client's setup, of which the latest counts. `served` and `excused` (history)
tell whether an answer was lost or overtook another, or another client edited.

The loop of the terminal is `stage`: it refreshes, polls for a key, handles it
with the requests it makes (`asked` is a refresh that a key asked for), and
refreshes again when 30 seconds have passed (`due`). The overlay takes every key. `armed` and `moved` (history) are the
machine the deletion was asked for and whether a refresh has put another one at
its index while the question was shown.

## 3. What the runs check

| Run | Checks | Instance |
|---|---|---|
| `replay_guard` | types, one use per loss of memory, no burnt nonces, refinement of `OneShotRequests` | 3 requests, 2 keys or none, capacity 2, skew 1, retention 2, clock 0..4 in any order |
| `inactivity` | types, one signal per idle period, timers match the registry, signals only when idle, idle machines are signalled | 2 machines, periods 0, 1, 3, minute of 1 s, u32 of 2, 2 monitors, lag 1, fair |
| `registry` | conflicts, memory = file, timers follow edits, verified keys were confirmed, revoked keys stay revoked | 3 spellings of 2 addresses, 2 client addresses, 3 inputs, 2 keys, 1 verification |
| `forwarders` | one task per forward, why binding fails, ports close | 2 machines, 2 ports, 3 tasks, fair |
| `wake` | a drop has a cause, connections settle, idle machines sleep | 1 connection (which may start again), 2 requests, window 2, check 1, pause 2, wait 7, connect 3, request 1, suspend after 3, suspending 2, booting 2, fair |
| `installations` | a program survives, failed installations restore program and service, successful ones last and run, no dangling descriptor or entry, older services stay stopped | both platforms, 3 programs, 3 installations |
| `host` | confirmed ports are valid and served, updates go forward, programs are whole and fit their helper | ports of one digit up to 6, one port for `--port`, 3 releases (one a prerelease, one without helper) |
| `tray` | types, one answer coming, no service is lost, startup is kept, foreign entries are kept, the menu settles and answers | 3 operating systems, 1 service, 3 old login entries, 2 clicks or changes, fair |
| `panels` | types, the selection exists, one command per machine, the list is the proxy's, the right setup, deletes the chosen, confirmations stay, neither panel gets stuck | 2 addresses; browser: 1 machine; terminal: 2 machines; 2 commands, or 1 command and 1 edit; 2 checks, fair |
| `registry_rotated_key` | **violated**: the timer signs with the machine's key | 1 machine |
| `forwarders_orphan` | **violated**: an edit stops old forwarders | 1 machine, 2 tasks, no other failure |
| `service_install_double_rollback` | **violated**: a failed installation keeps a program | 2 programs, 1 installation |

Why the bounds are enough for the interesting cases:

* Three nonces fill a table of two and evict; the retention is twice the skew, as
  in the code, so nothing is to spare; a clock of five seconds covers both sides
  of a window of one second and lets a nonce be pruned, and it is set forward and
  back from each second to each other.
* `MaxU32 = 2` with a period of 3 saturates the window; a lag of one second
  lets a connection fall between reading the clock and the scan; two monitors
  let the scan of an aborted one overlap its successor's.
* Two spellings of one address and one other show renames onto a spelling, and
  conflicts between machines; two keys show a rotation, and one verification in
  flight meets every edit.
* Three tasks on two ports allow an old and a new task for one port while the
  other is served or contended for.
* The times of `WakeOnDemand` keep the order and the inequality that matter in
  the code: a check (1 s) is shorter than a pause (2 s), both together much
  shorter than the wait (60 s), and a machine boots with a check and a pause to
  spare (`WakeAssumption`). A wait of seven takes the polling loop three times
  round and ends in every phase of it; a suspension of two is as long as a pause.
  Two requests allow the monitor's and the dashboard's threads at once.
  Connections meet only in the machine and its timer, so one, which may start
  again while its predecessor's requests are under way, is enough.
* Three installations replace a program that replaced another; three programs
  tell the first, the second and a leftover apart.
* One digit and a largest port of 6 give every kind of input: none, zero, a valid
  port, the default, and one that does not fit. Both services meet on a port. Three
  releases are an older, a newer without helper, and a prerelease. The update moves
  while setup copies the program, the only step at which they meet.
* Two inputs of the tray are two clicks that run in parallel, or a click and
  another program's change; services do not interact. The three login entries are the
  tray's own, one whose last `Exec` is another program's, and one whose keys are
  spread over two sections.
* In `panels` one panel is used at a time while any client edits: the two meet
  only in the list. Two commands for one machine, the second clicked while the
  first is pending or after it, show that a click is not sent twice; a command
  with two checks, an edit and a dialog meet the
  poll, the load and each other in every order of their answers. The terminal
  starts with two machines, so that a deletion moves another to the selected line.

A property may be a conjunction of named parts that belong together
(`ServiceHasItsProgram`, `ConfirmedIsServed`, `ProgramsFit`, `NoStaleAnswers`,
`PanelsGoOn`); then `PROJECT.json` has a seeded fault for each part. The
type invariants of all modules but `TrayApp` are proved. Those of `ReplayGuard`,
`InactivityMonitor`, `TrayApp` and `Panels` are checked; the others belong to no
run, nor do `SeenWithinCapacity` (proved) and `ForgottenAreStale` (part of the
proof).

Symmetry is used only in runs without liveness properties. Deadlock is checked in
every run except `panels`, where the terminal may be quit and the page may have
nothing left to do.

### Fairness

* `InactivityMonitor!Fairness`: time passes, and the runtime polls the monitor
  when its tick is due and lets a started scan finish. Users and connections
  are not fair.
* `ForwarderTasks!Fairness`: the runtime polls every task that can run, and the
  lock on the proxies is granted to the waiting handler (tokio's RwLock is a
  fair queue). `Stop` is fair because `select!` polls its branches in random
  order: accepted connections cannot keep a stopped forwarder alive.
* `WakeOnDemand!WakeFairness`: time passes, tasks and threads whose time has come
  run, and the machine finishes suspending and waking. The monitor's `Scan` is
  strongly fair because the bound on requests at a time, which the code does not
  have, must not keep it from sending. Users, data and the ends of a connection
  are not fair.
* `TrayApp!FairSpec`: the event loop handles events, the timer ticks, and every
  thread goes on: calls to the service manager return. Clicks, kills and other
  programs are not fair; terminals, which may stay open for ever, are not either.
* `Panels!PageFairness`: the page's timers fire and its requests are answered or
  fail, for the proxy bounds its own requests to a machine by a time-out.
  `TerminalUI!TerminalFairness`: the loop goes on, time passes, and requests end
  after three seconds. A refresh need never succeed.

## 4. Findings

1. **Rotated key** (`src/proxy_server.rs:406`). Rotation does not refresh the
   timer's key, so automatic shutdown fails until the next edit or restart,
   while the dashboard shows the client as configured.
2. **Orphan forwarder** (`src/web.rs:288`). A forwarder that has been spawned
   but not entered in the map cannot be stopped by an edit or deletion.
3. **Second rollback** (`src/service.rs:511`). After a rollback whose last sync
   failed, `Drop` removes the program it had just restored.

Each is the counterexample of a run with `expect` "violation". Met while
modelling, without a run of their own (the models do what the code does here,
but for the last, which is outside of them):

* Verification compares the key only (`src/proxy_server.rs:359`): an address
  edited while the old one was asked is marked verified unasked.
  `VerifiedKeyAnswered` therefore speaks of the key, not of the client.
* A restarted forwarder that binds before the old one has closed the port fails
  and is not retried (`src/proxy_server.rs:803`). `BindFailsOnlyForStopping` says
  that this is the only reason.
* `setup` saves the new port before an installation that may fail
  (`src/setup.rs:129`); the old service restarts on it.
* The check of an installed service cannot tell which listener answered
  (`src/service.rs:1603`): with both modes on one port the other service will do.
* `client-server` ignores `--port` (`src/main.rs:68`).

Some properties that hold have a proviso where the code promises less than one
might expect:

* `MemoryMatchesFile` excepts a save that failed half way: the database is
  truncated in place (`src/config.rs:174`), and what a failed save preserves is
  the memory, not the file.
* `AtMostOnce` and `ImplementsOneShot` except what the client was made to forget
  (`src/shutdown_auth.rs:155`, `src/client_server.rs:30`), once per loss, and a
  client without a key, which checks nothing (`src/client_server.rs:86`).
* `TimersMatchRegistry` and `TimersFollowEdits` except a machine whose edit was
  dropped while it waited for the lock on the proxies (`src/proxy_server.rs:784`):
  it has no timer, and is not shut down, until it is edited again or the proxy is
  restarted. No machine is left with an old timer.
* `DropsHaveACause` excepts a machine that is suspended under a connection:
  magic packets are sent once (`src/forward.rs:295`), and a machine that was
  just about to suspend is not woken after it has gone to sleep.
* `IdleMachineSleeps` excepts, after the timer has fired, requests that failed,
  which are not repeated (`src/forward.rs:206`), suspend commands that failed,
  which the client logs after it has answered OK (`src/system.rs:26`), and machines
  woken from the dashboard, which does not re-arm the timer.
* `OneTaskPerForward`, `BindFailsOnlyForStopping` and `PortsCloseInOrder` except
  edits that overtake a task.
* `CopySurvives` excepts a rollback whose sync fails; `WindowsCopySurvives` and
  `ServiceHasItsProgram` except the failures of the undoing itself that `faults`
  names.
* `FailureRestores` excepts these failures and a kill. Of two more failures it asks
  less: after a stop that timed out (`src/service.rs:1564`, `1656`) only the
  program is as it was, for the service stops all the same and nobody starts it,
  and nothing is claimed of its entry and rule; after a failed commit
  (`src/service.rs:1719`) program, entry and rule are there, but the service need
  not run.
* `ConfirmedIsServed` allows another listener, or a service that stopped again.
* `ProgramsFit` excepts an update that failed or was killed between its two
  replacements (`src/update.rs:455`).
* `DownHasACause` excepts a restart whose start fails, one whose tray is quit in
  the middle, and on Windows one that gives up waiting for a stop that had been
  accepted (`src/service.rs:2213`): nothing starts the service again.
* `NoStaleAnswers` excepts answers that were lost or overtaken and edits of other
  clients: the page does not load the list again.
* `DeletesTheChosen` excepts a refresh while the question is shown
  (`src/tui.rs:397`): the machine at the index is then another one.
* `PanelsGoOn` excepts a refresh of the terminal that fails, which the terminal shows.

Traffic on an open connection is no activity (`src/forward.rs:275`): a machine in
use over a connection older than its inactivity period is turned off. The model
has no action for that traffic, since the code does nothing with it.

## 5. What is proved

Every theorem holds for all values of the constants that meet the assumption of
its module, whatever the bounds of the runs. Every invariant and every action
property of a run is proved. The inductive invariants were checked by TLC on small
instances before they were proved.

| Module | Assumption | Theorems, with the property of a run each states |
|---|---|---|
| `ShutdownProofs` | `ReplayGuardAssumption` | `TypeCorrect`, `NoReplay` (`AtMostOnce`), `ReplaysWereAccepted` (`SeenWereAccepted`), `BoundedTable`, `Refinement` (`ImplementsOneShot`) |
| | `InactivityAssumption` | `MonitorTypeCorrect` (`MonitorTypeOK`), `OneSignal` (`OneSignalPerIdlePeriod`), `RegistryTimers` (`TimersMatchRegistry`), `OnlyWhenIdle` (`SignalOnlyWhenIdle`) |
| `MachineRegistryProofs` | `RegistryAssumption` | `TypeCorrect`, `RegistrySeparate` (`NoConflicts`), `RestartChangesNothing` (`MemoryMatchesFile`), `VerificationIsOfTheKey` (`VerifiedKeyAnswered`), `TimersAreCurrent` (`TimersFollowEdits`), `RevocationIsFinal` (`RevokedKeysStayRevoked`) |
| `ForwarderProofs` | `ForwarderAssumption` | `TypeCorrect`, `ServedExactlyOnce` (`OneTaskPerForward`), `BindLosesToStopping` (`BindFailsOnlyForStopping`) |
| | `WakeAssumption` | `WakeTypeCorrect`, `WokenInTime` (`DropsHaveACause`) |
| `InstallationsProofs` | `InstallAssumption` | `TypeCorrect`, `ReplacementIsSafe` (`CopySurvives`), `RollbackRestores` (`FailedInstallRestores`), `CommitIsDurable` (`SuccessIsDurable`), `NoDanglingDescriptor` (`DescriptorHasProgram`), `UnixPromises` |
| | `InstallationsAssumption` | `WindowsReplacementIsSafe` (`WindowsCopySurvives`), `EntryAndProgramAgree` (`ServiceHasItsProgram`), `FailedUpdateRestores` (`FailureRestores`) |
| `WindowsServiceProofs` | `ProgramsDiffer`, as a hypothesis | the same three of `WindowsService` alone, `TypeCorrect` |
| `HostSetupProofs` | `HostAssumption` | `TypeCorrect`, `ConfirmedPortIsServed` (`ConfirmedIsServed`), `ProgramsStayWhole` (`ProgramsFit`), `UpdatesGoForward` (`UpdateIsUpgrade`) |
| `TrayAppProofs` | `TrayAssumption` | `TypeCorrect`, `NoServiceIsLost` (`DownHasACause`), `StartupIsKept` (`LoginEntryKept`) |
| `PanelsProofs` | `PanelServerAssumption`, `DashboardAssumption` | `TypeCorrect`, `OneCommandAtATime` (`OneCommandPerMachine`), `PageCatchesUp` (`NoStaleAnswers`), `NoConfirmationIsTakenBack` (`ConfirmationStays`), `DeletionIsOfTheChosen` (`DeletesTheChosen`) |

What the assumptions say of the code: the nonce table keeps a nonce as long as a
request with it could be fresh, twice the skew (`ReplayGuardAssumption`); a machine that is woken
is up a check and a pause before its connection gives up (`WakeAssumption`); the
default ports are ports (`HostAssumption`); the proxy's list starts without
duplicates (`PanelServerAssumption`); a command checks at least once
(`DashboardAssumption`); login entries are sequences of lines (`TrayAssumption`). The rest says that bounds are numbers and that markers
such as `None` are not values.

### The arguments

`ShutdownProofs`, the guard: the inductive invariant is `TypeOK` with
`ForgottenAreStale`: a request in the table was accepted no earlier than its window
begins, and one that has taken effect, is not in the table and was not forgotten
has a window that the clock has passed. `AtMostOnce` alone is not inductive: it
says nothing of why a nonce that was pruned cannot come back. Two steps matter.
Pruning is where the assumption on the retention is used. A clock that is set back
can undo what pruning showed only for nonces that are gone, which `forgotten` then
names; for one that is still in the table nothing is lost. A client without a key
remembers nothing of what it has carried out (`KeylessKnowsNothing`). The
refinement maps `Accept` to `Use`, `turn_off_legacy` to `UseUnguarded`, `ClockMoves` to `ClockRuns`,
`ClockSetBack` or a stutter, `build_router` to `Restart`, and all else to
stuttering. That a table at its capacity is the only reason for an eviction is the
cardinality of `used \ forgotten`, which contains the table.

`ShutdownProofs`, the monitor, for any number of machines and monitors and any lag: a
timer is triggered exactly when its one request has been queued since the last
activity, the registry holds the machine of a running edit, and a machine in `cut`
has no timer.

`MachineRegistryProofs`: a registry exists in up to four versions, in memory, in
the file, and as the one the handler is saving and the one it would restore. Any
of them may be the registry after the next step (a failed save, a restart), so
`NoConflicts` is not inductive for the one in memory alone. The invariant says of
each that it is `Sound` (no conflicts, keys generated earlier, verified keys
confirmed), that the timers are those of the version in force but for the machine an
edit has still to arm and those in `cut` (`HandlerSound`, `IdleSound`), and that a confirmation on its way was given. That keys are counted
upwards makes revocation final and keeps two machines from sharing one.

`ForwarderProofs`, tasks: between its two locks an edit has changed the registry
and not yet the tasks. `OneTaskPerForward` speaks of the moments between edits; the
invariant (`ServedAsConfigured`) compares registry and tasks at every moment, for
the machines that the edit does not stop and without the forwards it will start.
`EditMatchesRegistry` and `ServedApart` make the end of the edit restore the whole.

`ForwarderProofs`, connections: `DropsHaveACause` says nothing of time. `WakeInv`
bounds, for each stage of the polling loop, how long a connection has waited when
the machine comes up and when the next check begins: what was waited, plus what
the machine still needs, is at most the boot time, and the check or pause under
way when it came up ends before the deadline. There the inequality of
`WakeAssumption` is used, the only place.

`InstallationsProofs`, Unix: `IInv` is `TypeOK`, `Steps`, which says for each step
what is under the program's name and what the backup is, and `Safety`, which
states the properties for every file system a power loss may leave. The properties
alone are not inductive: that a removal is harmless follows from what the other
name holds. There is one lemma per action; `StillSafe` and `SameFilesSafe` reduce a
change of the disk to the one state it adds. What the theorems say of a power loss
rests on the order of calls described above.

`WindowsServiceProofs`: the invariant follows an installation step by step.
`WhereProgramsAre` says which of the two names holds the program that was found
and which the new one, `EntryKept` what is left of the service that is to be
restored, `RunsNew` that what is about to be committed runs the new program or has
stopped again, and `StepsOfPhases` who may run a shared step. `AtRest` extends
`ServiceHasItsProgram` to an uninstallation under way, which erases the program only without an entry.
`InstallationsProofs` carries the theorems over to the composition, whose steps
are steps of `ServiceInstall` or of `WindowsService` or change nothing of them
(`ActsAsOnUnix`, `ActsAsOnWindows`).

`HostSetupProofs`: `UpdateInv` follows what was checked: past the checksum the
archive is whole, what is renamed is the release, and a release that nobody named
is newer than the program until it replaces it. `SetupInv` follows the confirmed
port from the answer to the file to the service. Each is proved of the steps of
its own process; the two share the program on the path only, which setup copies.
Whether digits make a port is not looked into: that what is confirmed was
accepted is.

`TrayAppProofs`: that a service is down with a restart on its way is not enough for
`DownHasACause`, since the restart has to be one that will start it; `IInv` says so
of each command that waits for its stop or is about to start (`Restarting`). The login entry is renamed into place only
when it is complete, and the old one goes only when it is there. That what
`linux_legacy_autostart_is_owned` accepts is an entry of the tray (`DeclaresTray`)
is proved for files of any length: `Knows` says after each line what the state of
the parser means, above all that the keys it has seen are the last values of those
keys in the section that is open (`LineKnown`, one line; `OwnedDeclaresTray`, all).

`PanelsProofs`: `NoStaleAnswers` compares the page's list with the proxy's when
nothing is on its way, and is not inductive. `ListInv` says why it comes to hold:
from the list the page shows, or the one on its way to it, the edits that were
served since, in the order in which they were served, lead to the proxy's list
(`CatchesUp`). An answer that is applied in order is the first of them; one that
is lost or overtakes another excuses the page. `CommandsInv` gives each pending
command its one task, and a poll of the current epoch no confirmation older than
it. That removing a machine from a list keeps its order and its other machines is
an induction over the list's length, as `OwnedDeclaresTray` is one over lines. The provers have no induction over data, so
it is one over a set of numbers (`UpTo`): a set that contains 0, and with each
number below n the next one, leaves out no number up to n, for it would leave out
a least one.

### What is only model-checked

* The liveness properties (`PortsCloseInOrder`, `IdleIsSignalled`, `Settles`,
  `IdleMachineSleeps`, `MenuSettles`, `PanelsGoOn`): they depend on fairness and
  ENABLED, which the provers do not handle.
* The runs with a counterexample, which refute what they state.

## 6. What is not modelled

* The network scanner, the parsing of the command line, conversions, installers
  and packaging keep no protocol state.
* The access log (`src/access_log.rs`) is one vector of timestamps per forward
  behind one lock, of which a copy is saved every minute and at exit. What can go
  wrong is that the minute's save, in a thread of its own, ends after the last
  one (`src/proxy_server.rs:235`) and writes older records.
* Header texts, base64, HMAC, JSON, names and wording are abstracted to what the
  properties tell apart. `TurnOffLimiter::update_machine` is called by tests only.
* Of connections, the record in the access log and a `TcpStream` that a suspended
  peer leaves open. Where `shutdown_machine` falls back to a shutdown, the machine of
  `WakeOnDemand` is suspended: a shutdown would end the other thread too.
* Of the installation on Unix, the running service, the firewall rule and the
  content of the descriptor; on Windows, power loss (nothing is synced there but
  the stage) and the other mode, which shares the directory.
* A second setup or update at the same time as the first, and settings given by
  environment variables.
* Of the dashboard, filters, toasts, the activity log, the history and scan panels
  and the steps of the setup panel; of the terminal, statuses, history and the keys
  that wake or turn off a machine, which change nothing the program keeps; of the
  tray, labels, the icon and quoting for a terminal.

## 7. Plan

1. `ReplayGuard` with `OneShotRequests`, `InactivityMonitor`, `MachineRegistry`,
   `ForwarderTasks`, `WakeOnDemand`, `ServiceInstall`, `WindowsService`,
   `Installations`, `SelfUpdate`, `HostSetup`, `PanelServer`, `Dashboard`,
   `TerminalUI`, `Panels` and `TrayApp`: done, safety proved.
2. `AccessLog`: record, flush and exit as concurrent saves.
