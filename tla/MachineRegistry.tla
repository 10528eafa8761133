--------------------------- MODULE MachineRegistry ---------------------------
(***************************************************************************)
(* The proxy's registry of machines: AppState.machines, the database file  *)
(* behind it, the shutdown keys, and the timers' copy of a machine's       *)
(* address and key.                                                        *)
(*                                                                         *)
(* The handlers of proxy_server.rs hold the write lock on the registry     *)
(* from validation to the end, so one handler runs at a time; the file is  *)
(* truncated, written and synced in separate steps inside it, and each of  *)
(* them may fail or be the last one before a crash.  After its save an     *)
(* edit waits, with the lock, for the lock on the forwarders; it may be    *)
(* dropped there.  Only the verification of a client releases the lock     *)
(* while it waits for the client's answer.                                 *)
(*                                                                         *)
(* Names, descriptions, target ports and JSON are left out.  A MAC is a    *)
(* spelling; Canonical maps the spellings of one address to one value      *)
(* (case and separators, validate_machine_config).  Keys are numbered in   *)
(* the order they are generated: 32 random bytes never repeat.             *)
(***************************************************************************)
EXTENDS Naturals, FiniteSets, Functions

CONSTANTS
  Macs,          \* spellings of MAC addresses
  Canonical,     \* spelling -> address
  Ips, Ports,    \* where clients listen
  LocalPorts,    \* ports of the proxy that forwards listen on
  Inputs,        \* the machine configurations the dashboard sends
  MaxKey,        \* bound: keys generated
  MaxVerifying,  \* bound: verifications in flight
  NoPort, NoKey, \* Option::None
  Torn           \* a database file that does not parse

VARIABLES
  machines,   \* AppState.machines: mac -> Machine
  file,       \* the database file: what was last written to it, or Torn
  timers,     \* TurnOffLimiter.machines: mac -> where and how to sign
  handler,    \* the handlers' write lock: the handler in it, or idle
  nextKey,    \* generate_key
  verifying,  \* verify_shutdown_setup calls between their two locks
  clients,    \* address -> the key of the client that listens there
  answered,   \* keys that a client has confirmed to hold (history)
  saved,      \* the last save succeeded, or nothing was lost (history)
  cut         \* machines an edit cut short left without their timer (history)

vars == <<machines, file, timers, handler, nextKey, verifying, clients,
          answered, saved, cut>>

Keys == 1..MaxKey
Address == Ips \X Ports

Input == [ip : Ips, port : Ports \cup {NoPort}, can_be_turned_off : BOOLEAN,
          forwards : SUBSET LocalPorts, monitored : BOOLEAN]
Machine == [config : Input, key : Keys \cup {NoKey}, verified : BOOLEAN]
Timer == [ip : Ips, port : Ports, key : Keys \cup {NoKey}]

ASSUME RegistryAssumption ==
  /\ Canonical \in [Macs -> Macs]
  /\ Inputs \subseteq Input
  /\ MaxKey \in Nat /\ MaxVerifying \in Nat
  /\ NoPort \notin Ports /\ NoKey \notin Nat

Empty == [m \in {} |-> 0]
Without(f, m) == Restrict(f, DOMAIN f \ {m})
With(f, m, v) == [x \in DOMAIN f \cup {m} |-> IF x = m THEN v ELSE f[x]]

-----------------------------------------------------------------------------
(* Pure parts of the handlers *)

\* Whether a machine takes part in remote shutdown.
CanTurnOff(config) == config.can_be_turned_off /\ config.port # NoPort

shutdown_setup_for_machine(machine) ==
  CASE ~CanTurnOff(machine.config) -> "disabled"
    [] CanTurnOff(machine.config) /\ machine.key = NoKey -> "legacy"
    [] CanTurnOff(machine.config) /\ machine.key # NoKey /\ machine.verified -> "verified"
    [] OTHER -> "pending"

\* Fault: addresses are compared as they are spelled.
validate_machine_config_Exact(mac, config, replacing) ==
  /\ config.can_be_turned_off => config.port # NoPort
  /\ \A m \in DOMAIN machines \ replacing :
       m # mac /\ machines[m].config.forwards \cap config.forwards = {}

\* No other machine than the replaced one has the address or a local port,
\* and a machine that can be turned off has a client port.
validate_machine_config(mac, config, replacing) ==
  /\ config.can_be_turned_off => config.port # NoPort
  /\ \A m \in DOMAIN machines \ replacing :
       /\ Canonical[m] # Canonical[mac]
       /\ machines[m].config.forwards \cap config.forwards = {}

\* The key and its verification after an edit that turns old, known as
\* oldMac, into config, known as mac; fresh is the key to generate if needed.
apply_shutdown_security(oldMac, old, mac, config, fresh) ==
  LET unchanged == /\ oldMac = mac
                   /\ old.config.ip = config.ip
                   /\ old.config.port = config.port
  IN CASE ~CanTurnOff(config) ->
            [config |-> config, key |-> NoKey, verified |-> FALSE]
       [] CanTurnOff(config) /\ ~CanTurnOff(old.config) ->
            [config |-> config, key |-> fresh, verified |-> FALSE]
       [] CanTurnOff(config) /\ CanTurnOff(old.config) /\ old.key = NoKey ->
            [config |-> config, key |-> NoKey, verified |-> FALSE]
       [] OTHER ->
            [config |-> config, key |-> old.key, verified |-> old.verified /\ unchanged]

\* start_proxy_if_configured and initialize_machine: who has a timer.
HasTimer(machine) ==
  /\ CanTurnOff(machine.config)
  /\ machine.config.forwards # {}
  /\ machine.config.monitored

TimerOf(machine) ==
  [ip |-> machine.config.ip, port |-> machine.config.port, key |-> machine.key]

start_proxy_if_configured(t, mac, machine) ==
  IF HasTimer(machine) THEN With(t, mac, TimerOf(machine)) ELSE Without(t, mac)

AllTimers(registry) ==
  [m \in {x \in DOMAIN registry : HasTimer(registry[x])} |-> TimerOf(registry[m])]

-----------------------------------------------------------------------------
Idle == [stage |-> "idle"]

\* The proxy starts on a database written by an earlier version, which knew
\* no keys, or on none.
FirstRegistries ==
  {Empty} \cup {[m \in {mac} |-> [config |-> c, key |-> NoKey, verified |-> FALSE]] :
                  mac \in Macs, c \in Inputs}

Init ==
  /\ \E registry \in FirstRegistries :
       machines = registry /\ file = registry /\ timers = AllTimers(registry)
  /\ handler = Idle
  /\ nextKey = 1
  /\ verifying = {}
  /\ clients = [a \in Address |-> NoKey]
  /\ answered = {}
  /\ saved = TRUE
  /\ cut = {}

\* A handler has the lock and is about to save the registry new.  If the save
\* succeeds it leaves the registry new and the timers done, and goes on to arm
\* those of the machines arm; if it fails, the registry is as it was.
Saving(new, done, arm) ==
  handler' = [stage |-> "open", new |-> new, old |-> machines, timers |-> done, arm |-> arm]

IsSaving == handler.stage \in {"open", "write", "sync"}

\* add_machine_api, up to the save.
add_machine_api(mac, config) ==
  /\ handler = Idle
  /\ validate_machine_config(mac, config, {})
  /\ CanTurnOff(config) => nextKey <= MaxKey
  /\ LET machine == [config |-> config, verified |-> FALSE,
                     key |-> IF CanTurnOff(config) THEN nextKey ELSE NoKey]
     IN Saving(With(machines, mac, machine), start_proxy_if_configured(timers, mac, machine), {})
  /\ nextKey' = IF CanTurnOff(config) THEN nextKey + 1 ELSE nextKey
  /\ UNCHANGED <<machines, file, timers, verifying, clients, answered, saved, cut>>

\* update_machine_api of the machine known as old, up to the save.
update_machine_api(old, mac, config) ==
  /\ handler = Idle
  /\ old \in DOMAIN machines
  /\ validate_machine_config(mac, config, {old})
  /\ LET machine == apply_shutdown_security(old, machines[old], mac, config, nextKey)
     IN /\ machine.key = nextKey => nextKey <= MaxKey
        /\ Saving(With(Without(machines, old), mac, machine), Without(timers, old), {mac})
        /\ nextKey' = IF machine.key = nextKey THEN nextKey + 1 ELSE nextKey
  /\ UNCHANGED <<machines, file, timers, verifying, clients, answered, saved, cut>>

\* Fault: the deleted machine keeps its timer.
delete_machine_api_KeepsTimer(mac) ==
  /\ handler = Idle
  /\ Saving(Without(machines, mac), timers, {})
  /\ UNCHANGED <<machines, file, timers, nextKey, verifying, clients, answered, saved, cut>>

\* delete_machine_api saves also when no machine has exactly this spelling.
delete_machine_api(mac) ==
  /\ handler = Idle
  /\ Saving(Without(machines, mac),
            IF mac \in DOMAIN machines THEN Without(timers, mac) ELSE timers, {})
  /\ UNCHANGED <<machines, file, timers, nextKey, verifying, clients, answered, saved, cut>>

\* rotate_shutdown_key changes the registry in memory before it saves it; the
\* timers are left as they are.
rotate_shutdown_key(mac) ==
  /\ handler = Idle
  /\ mac \in DOMAIN machines
  /\ CanTurnOff(machines[mac].config)
  /\ nextKey <= MaxKey
  /\ machines' = [machines EXCEPT ![mac].key = nextKey, ![mac].verified = FALSE]
  /\ Saving(machines', timers, {})
  /\ nextKey' = nextKey + 1
  /\ UNCHANGED <<file, timers, verifying, clients, answered, saved, cut>>

-----------------------------------------------------------------------------
(* verify_shutdown_setup *)

\* The machine is read under the read lock, which is then released.
BeginVerify(mac) ==
  /\ handler = Idle
  /\ mac \in DOMAIN machines
  /\ shutdown_setup_for_machine(machines[mac]) = "pending"
  /\ Cardinality(verifying) < MaxVerifying
  /\ verifying' = verifying \cup
       {[mac |-> mac, key |-> machines[mac].key, confirmed |-> FALSE,
         at |-> <<machines[mac].config.ip, machines[mac].config.port>>]}
  /\ UNCHANGED <<machines, file, timers, handler, nextKey, clients, answered, saved, cut>>

\* The client at the address answers that it holds the key.
ClientConfirms(v) ==
  /\ v \in verifying /\ ~v.confirmed
  /\ clients[v.at] = v.key
  /\ verifying' = (verifying \ {v}) \cup {[v EXCEPT !.confirmed = TRUE]}
  /\ answered' = answered \cup {v.key}
  /\ UNCHANGED <<machines, file, timers, handler, nextKey, clients, saved, cut>>

\* It refuses the key, does not answer in time, or the caller gave up:
\* nothing is changed.
VerifyFails(v) ==
  /\ v \in verifying /\ ~v.confirmed
  /\ verifying' = verifying \ {v}
  /\ UNCHANGED <<machines, file, timers, handler, nextKey, clients, answered, saved, cut>>

\* Fault: the key is not compared again.
MayMark_AnyKey(v) == v.mac \in DOMAIN machines

\* The lock is taken again.  The machine is looked up by its MAC and marked
\* verified if it still has the key that was confirmed.
MayMark(v) == v.mac \in DOMAIN machines /\ machines[v.mac].key = v.key

\* Fault: what was read before the client was asked is written back.
MarkVerified_WritesBack(v) ==
  /\ handler = Idle
  /\ v \in verifying /\ v.confirmed
  /\ v.mac \in DOMAIN machines
  /\ machines' = [machines EXCEPT ![v.mac].key = v.key, ![v.mac].verified = TRUE]
  /\ Saving(machines', timers, {})
  /\ verifying' = verifying \ {v}
  /\ UNCHANGED <<file, timers, nextKey, clients, answered, saved, cut>>

MarkVerified(v) ==
  /\ handler = Idle
  /\ v \in verifying /\ v.confirmed
  /\ MayMark(v)
  /\ machines' = [machines EXCEPT ![v.mac].verified = TRUE]
  /\ Saving(machines', timers, {})
  /\ verifying' = verifying \ {v}
  /\ UNCHANGED <<file, timers, nextKey, clients, answered, saved, cut>>

GiveUpVerified(v) ==
  /\ handler = Idle
  /\ v \in verifying /\ v.confirmed
  /\ ~MayMark(v)
  /\ verifying' = verifying \ {v}
  /\ UNCHANGED <<machines, file, timers, handler, nextKey, clients, answered, saved, cut>>

verify_shutdown_setup(v) ==
  ClientConfirms(v) \/ VerifyFails(v) \/ MarkVerified(v) \/ GiveUpVerified(v)

-----------------------------------------------------------------------------
(* save_machines_with_config, write_secret_file *)

\* The file is opened and truncated.
OpenFile ==
  /\ handler.stage = "open"
  /\ file' = Torn
  /\ handler' = [handler EXCEPT !.stage = "write"]
  /\ UNCHANGED <<machines, timers, nextKey, verifying, clients, answered, saved, cut>>

WriteFile ==
  /\ handler.stage = "write"
  /\ file' = handler.new
  /\ handler' = [handler EXCEPT !.stage = "sync"]
  /\ UNCHANGED <<machines, timers, nextKey, verifying, clients, answered, saved, cut>>

\* The save succeeds, and the handler installs what it saved.  Only an edit has
\* then still to wait.
SyncFile ==
  /\ handler.stage = "sync"
  /\ machines' = handler.new
  /\ timers' = handler.timers
  /\ handler' = IF handler.arm = {} THEN Idle ELSE [stage |-> "arm", arm |-> handler.arm]
  /\ saved' = TRUE
  /\ cut' = (cut \cap DOMAIN handler.new) \ handler.arm
  /\ UNCHANGED <<file, nextKey, verifying, clients, answered>>

\* update_machine_api has the lock on the forwarders, stops the old ones and
\* starts the machine again.
ArmTimer ==
  /\ handler.stage = "arm"
  /\ \E mac \in handler.arm :
       timers' = start_proxy_if_configured(timers, mac, machines[mac])
  /\ handler' = Idle
  /\ UNCHANGED <<machines, file, nextKey, verifying, clients, answered, saved, cut>>

\* The browser goes away while update_machine_api waits for the forwarders'
\* lock: the handler is dropped with the machine saved and its timer removed.
Disconnect ==
  /\ handler.stage = "arm"
  /\ handler' = Idle
  /\ cut' = cut \cup {mac \in handler.arm : HasTimer(machines[mac])}
  /\ UNCHANGED <<machines, file, timers, nextKey, verifying, clients, answered, saved>>

\* Fault: the registry in memory is not restored.
SaveFails_NoRollback ==
  /\ IsSaving
  /\ handler' = Idle
  /\ saved' = (saved /\ handler.stage = "open")
  /\ UNCHANGED <<machines, file, timers, nextKey, verifying, clients, answered, cut>>

\* Opening, writing or syncing fails: the handler restores the registry in
\* memory and answers with an error.  The file stays as the failure left it.
SaveFails ==
  /\ IsSaving
  /\ machines' = handler.old
  /\ handler' = Idle
  /\ saved' = (saved /\ handler.stage = "open")
  /\ UNCHANGED <<file, timers, nextKey, verifying, clients, answered, cut>>

-----------------------------------------------------------------------------
\* The proxy stops at any point and starts again (start_with_shutdown): a file
\* it cannot read is an empty registry.
Restart ==
  LET registry == IF file = Torn THEN Empty ELSE file IN
    /\ machines' = registry
    /\ timers' = AllTimers(registry)
    /\ handler' = Idle
    /\ verifying' = {}
    /\ saved' = (file # Torn)
    /\ cut' = {}
    /\ UNCHANGED <<file, nextKey, clients, answered>>

\* The user runs a setup command on the machine at an address: one the
\* dashboard shows or showed earlier.
SetUpClient(address, key) ==
  /\ key < nextKey /\ key # clients[address]
  /\ clients' = [clients EXCEPT ![address] = key]
  /\ UNCHANGED <<machines, file, timers, handler, nextKey, verifying, answered, saved, cut>>

Next ==
  \/ \E mac \in Macs, config \in Inputs : add_machine_api(mac, config)
  \/ \E old, mac \in Macs, config \in Inputs : update_machine_api(old, mac, config)
  \/ \E mac \in Macs : delete_machine_api(mac)
  \/ \E mac \in Macs : rotate_shutdown_key(mac)
  \/ \E mac \in Macs : BeginVerify(mac)
  \/ \E v \in verifying : verify_shutdown_setup(v)
  \/ OpenFile \/ WriteFile \/ SyncFile \/ SaveFails
  \/ ArmTimer \/ Disconnect
  \/ Restart
  \/ \E address \in Address, key \in Keys : SetUpClient(address, key)

Spec == Init /\ [][Next]_vars

-----------------------------------------------------------------------------
(* Properties *)

IsRegistry(r) == DOMAIN r \subseteq Macs /\ r \in [DOMAIN r -> Machine]
AreTimers(t) == DOMAIN t \subseteq Macs /\ t \in [DOMAIN t -> Timer]

\* The registry, its file, the timers and the handlers keep their types.
TypeOK ==
  /\ IsRegistry(machines) /\ AreTimers(timers)
  /\ file = Torn \/ IsRegistry(file)
  /\ \/ handler = Idle
     \/ /\ DOMAIN handler = {"stage", "arm"} /\ handler.stage = "arm"
        /\ handler.arm \subseteq DOMAIN machines
     \/ /\ DOMAIN handler = {"stage", "new", "old", "timers", "arm"}
        /\ IsSaving
        /\ handler.arm \subseteq DOMAIN handler.new
        /\ IsRegistry(handler.new) /\ IsRegistry(handler.old)
        /\ AreTimers(handler.timers)
  /\ nextKey \in 1..(MaxKey + 1)
  /\ verifying \subseteq [mac : Macs, key : Keys, confirmed : BOOLEAN, at : Address]
  /\ clients \in [Address -> Keys \cup {NoKey}]
  /\ answered \subseteq Keys
  /\ saved \in BOOLEAN
  /\ cut \subseteq DOMAIN machines

\* Whatever sequence of edits, failed saves and restarts, no two machines of
\* the registry have the same address, listen on the same local port or share
\* a shutdown key (validate_machine_config, generate_key).
NoConflicts ==
  \A m, n \in DOMAIN machines : m # n =>
    /\ Canonical[m] # Canonical[n]
    /\ machines[m].config.forwards \cap machines[n].config.forwards = {}
    /\ machines[m].key = machines[n].key => machines[m].key = NoKey

\* Between handlers, unless a save has failed half way, the registry in
\* memory is the one in the file: a restart changes nothing.
MemoryMatchesFile == handler = Idle /\ saved => machines = file

\* A machine the dashboard shows as verified has a key that some client has
\* confirmed, whatever happened to the machine while the client was asked.
VerifiedKeyAnswered ==
  \A m \in DOMAIN machines : machines[m].verified => machines[m].key \in answered

\* Between handlers exactly the machines that are configured for automatic
\* shutdown have a timer, and it sends to the machine's current address; but a
\* machine whose last edit was cut short has none, until it is edited again or
\* the proxy is restarted: update_machine_api removes the timer before it waits
\* for the forwarders' lock, and a handler dropped there never arms the new one.
TimersFollowEdits ==
  handler = Idle =>
    /\ DOMAIN timers = {m \in DOMAIN machines : HasTimer(machines[m])} \ cut
    /\ \A m \in DOMAIN timers : /\ timers[m].ip = machines[m].config.ip
                               /\ timers[m].port = machines[m].config.port

\* A key that no machine has any more, in memory, in the file or in a save
\* under way, never becomes a machine's key again: rotating or disabling
\* remote shutdown revokes a key for good.
KeysOf(registry) == {registry[m].key : m \in DOMAIN registry}

KeysInUse ==
  KeysOf(machines) \cup (IF file = Torn THEN {} ELSE KeysOf(file)) \cup
    (IF IsSaving THEN KeysOf(handler.new) \cup KeysOf(handler.old) ELSE {})

RevokedKeysStayRevoked ==
  [][\A k \in 1..(nextKey - 1) : k \notin KeysInUse => k \notin KeysOf(machines')]_vars

(* A property the code does not have                                      *)

\* After "Generate a new key?" and the new command have been run, and the
\* dashboard has verified the client, an automatic shutdown is signed with
\* the key the client holds.
TimerKeyWorks ==
  \A m \in DOMAIN timers \cap DOMAIN machines :
    /\ handler = Idle
    /\ machines[m].verified
    /\ clients[<<timers[m].ip, timers[m].port>>] = machines[m].key
    => timers[m].key = machines[m].key

=============================================================================
