--------------------------- MODULE ForwarderTasks ---------------------------
(***************************************************************************)
(* The tasks that listen on the proxy's local ports.  A handler that adds, *)
(* edits or deletes a machine starts and stops them without waiting: it    *)
(* spawns a task that will later enter its stop switch in the map          *)
(* AppState.proxies and then bind its port, and it stops a task by taking  *)
(* the switch out of the map, which the task notices when it runs next.    *)
(*                                                                         *)
(* Left out: addresses and timers (MachineRegistry, InactivityMonitor), a  *)
(* save that fails (the handler then returns before it touches a task),    *)
(* connections (they are served by tasks of their own, which no edit       *)
(* stops), and ports taken by other programs.  Tasks are recycled: one     *)
(* that has ended and has no switch in the map may be spawned again.       *)
(***************************************************************************)
EXTENDS Naturals, FiniteSets, Functions

CONSTANTS
  Macs, Ports,   \* machines and local ports
  Targets,       \* ports of the machines
  Tasks,         \* bound: forwarder tasks alive or listed in the map
  Disconnects,   \* whether a caller may go away while its handler waits
  AcceptFails    \* whether accepting a connection may fail

VARIABLES
  machines,   \* AppState.machines: mac -> its forwards
  proxies,    \* AppState.proxies: key -> the task whose switch it holds
  tasks,      \* the spawned tasks
  handler,    \* the edit that waits for the lock on proxies, or idle
  overlapped  \* an edit overtook a task or was cut short (history)

vars == <<machines, proxies, tasks, handler, overlapped>>

Forward == [port : Ports, target : Targets]
Key == [mac : Macs, port : Ports, target : Targets]

ASSUME ForwarderAssumption ==
  /\ IsFiniteSet(Tasks)
  /\ Disconnects \in BOOLEAN /\ AcceptFails \in BOOLEAN

Idle == [stop |-> {}, start |-> {}]
Unused == [stage |-> "ended"]

-----------------------------------------------------------------------------
KeysOf(mac, forwards) ==
  {[mac |-> mac, port |-> f.port, target |-> f.target] : f \in forwards}

Configured == UNION {KeysOf(m, machines[m]) : m \in DOMAIN machines}

Listening(port) ==
  \E t \in Tasks : tasks[t].stage = "listening" /\ tasks[t].key.port = port

\* The tasks whose switch is in the map.
Held == {proxies[k] : k \in DOMAIN proxies}

Free == {t \in Tasks : tasks[t] = Unused /\ t \notin Held}

\* Fault: the ports of other machines are not looked at.
Valid_OwnPortsOnly(mac, forwards, replacing) ==
  /\ \A f, g \in forwards : f.port = g.port => f = g
  /\ \A m \in DOMAIN machines \ replacing : m # mac

\* validate_machine_config: a local port belongs to one machine, once.
Valid(mac, forwards, replacing) ==
  /\ \A f, g \in forwards : f.port = g.port => f = g
  /\ \A m \in DOMAIN machines \ replacing :
       m # mac /\ \A f \in forwards, g \in machines[m] : f.port # g.port

\* start_proxy_if_configured: one task for each forward.
Spawned(starting, chosen) ==
  [t \in Tasks |-> IF \E k \in starting : chosen[k] = t
                   THEN [stage |-> "spawned", key |-> CHOOSE k \in starting : chosen[k] = t]
                   ELSE tasks[t]]

-----------------------------------------------------------------------------
Init ==
  /\ machines = [m \in {} |-> {}]
  /\ proxies = [k \in {} |-> 0]
  /\ tasks = [t \in Tasks |-> Unused]
  /\ handler = Idle
  /\ overlapped = FALSE

add_machine_api(mac, forwards) ==
  /\ handler = Idle
  /\ Valid(mac, forwards, {})
  /\ machines' = [m \in DOMAIN machines \cup {mac} |->
                    IF m = mac THEN forwards ELSE machines[m]]
  /\ \E chosen \in Injection(KeysOf(mac, forwards), Free) :
       tasks' = Spawned(KeysOf(mac, forwards), chosen)
  /\ UNCHANGED <<proxies, handler, overlapped>>

\* update_machine_api of the machine old, up to the lock on proxies.
update_machine_api(old, mac, forwards) ==
  /\ handler = Idle
  /\ old \in DOMAIN machines
  /\ Valid(mac, forwards, {old})
  /\ Cardinality(forwards) <= Cardinality(Free)
  /\ machines' = [m \in (DOMAIN machines \ {old}) \cup {mac} |->
                    IF m = mac THEN forwards ELSE machines[m]]
  /\ handler' = [stop |-> {old}, start |-> KeysOf(mac, forwards)]
  /\ UNCHANGED <<proxies, tasks, overlapped>>

\* delete_machine_api stops forwarders also for a machine it does not know.
delete_machine_api(mac) ==
  /\ handler = Idle
  /\ machines' = Restrict(machines, DOMAIN machines \ {mac})
  /\ handler' = [stop |-> {mac}, start |-> {}]
  /\ UNCHANGED <<proxies, tasks, overlapped>>

\* Fault: only the forwarders that are started again are stopped.
Stopped_Restarted(key) == key \in handler.start

\* The handler has the lock: it sends "stop" to the machine's tasks and drops
\* their switches, then spawns the new tasks.
Stopped(key) == key.mac \in handler.stop

RestartForwarders ==
  /\ handler # Idle
  /\ proxies' = Restrict(proxies, {k \in DOMAIN proxies : ~Stopped(k)})
  /\ \E chosen \in Injection(handler.start, Free) : tasks' = Spawned(handler.start, chosen)
  /\ overlapped' = (overlapped \/ \E t \in Tasks : /\ tasks[t].stage = "spawned"
                                                   /\ Stopped(tasks[t].key))
  /\ handler' = Idle
  /\ UNCHANGED machines

\* The caller goes away while the handler waits for the lock: the server drops
\* the handler, and the rest of it never runs.
Disconnect ==
  /\ Disconnects
  /\ handler # Idle
  /\ handler' = Idle
  /\ overlapped' = TRUE
  /\ UNCHANGED <<machines, proxies, tasks>>

-----------------------------------------------------------------------------
(* A forwarder task *)

\* It enters its switch in the map; one that is there for the same key is
\* dropped.
Insert(t) ==
  /\ tasks[t].stage = "spawned"
  /\ proxies' = [k \in DOMAIN proxies \cup {tasks[t].key} |->
                   IF k = tasks[t].key THEN t ELSE proxies[k]]
  /\ tasks' = [tasks EXCEPT ![t].stage = "inserted"]
  /\ UNCHANGED <<machines, handler, overlapped>>

\* It binds its port, or ends for good if another task still listens there.
\* The failed task's switch stays in the map.
Bind(t) ==
  /\ tasks[t].stage = "inserted"
  /\ tasks' = [tasks EXCEPT ![t] = IF Listening(tasks[t].key.port) THEN Unused
                                   ELSE [tasks[t] EXCEPT !.stage = "listening"]]
  /\ UNCHANGED <<machines, proxies, handler, overlapped>>

\* rx.changed(): it was told to stop, or its switch was dropped or replaced.
Stop(t) ==
  /\ tasks[t].stage = "listening"
  /\ t \notin Held
  /\ tasks' = [tasks EXCEPT ![t] = Unused]
  /\ UNCHANGED <<machines, proxies, handler, overlapped>>

\* listener.accept() fails, which ends the task for good.
AcceptError(t) ==
  /\ AcceptFails
  /\ tasks[t].stage = "listening"
  /\ tasks' = [tasks EXCEPT ![t] = Unused]
  /\ UNCHANGED <<machines, proxies, handler, overlapped>>

Next ==
  \/ \E mac \in Macs, forwards \in SUBSET Forward : add_machine_api(mac, forwards)
  \/ \E old, mac \in Macs, forwards \in SUBSET Forward : update_machine_api(old, mac, forwards)
  \/ \E mac \in Macs : delete_machine_api(mac)
  \/ RestartForwarders \/ Disconnect
  \/ \E t \in Tasks : Insert(t) \/ Bind(t) \/ Stop(t) \/ AcceptError(t)

Spec == Init /\ [][Next]_vars

\* The runtime runs every task that is ready, and the lock on proxies is fair.
Fairness ==
  /\ \A t \in Tasks : WF_vars(Insert(t)) /\ WF_vars(Bind(t)) /\ WF_vars(Stop(t))
  /\ WF_vars(RestartForwarders)

FairSpec == Spec /\ Fairness

-----------------------------------------------------------------------------
(* Properties *)

\* Tasks, map, registry and handler keep their types.
TypeOK ==
  /\ DOMAIN machines \subseteq Macs
  /\ machines \in [DOMAIN machines -> SUBSET Forward]
  /\ DOMAIN proxies \subseteq Key
  /\ proxies \in [DOMAIN proxies -> Tasks]
  /\ tasks \in [Tasks -> {Unused} \cup
                  [stage : {"spawned", "inserted", "listening"}, key : Key]]
  /\ handler \in [stop : SUBSET Macs, start : SUBSET Key]
  /\ overlapped \in BOOLEAN

\* The tasks that serve a key and have not been told to stop: to be entered in
\* the map, or entered.
Serving(key) ==
  {t \in Tasks : tasks[t].stage = "spawned" /\ tasks[t].key = key} \cup
  {proxies[k] : k \in DOMAIN proxies \cap {key}}

\* As long as no edit overtakes a task that has not entered the map yet,
\* between handlers each configured forward has exactly one task that has not
\* been told to stop (it may have failed), and no other forward has any.
OneTaskPerForward ==
  ~overlapped /\ handler = Idle =>
    \A k \in Key : Cardinality(Serving(k)) = IF k \in Configured THEN 1 ELSE 0

\* As long as no edit overtakes a task, a forwarder that has not been told to
\* stop fails to bind its port only because of one that has and still listens:
\* never because of another forwarder in service.
BindFailsOnlyForStopping ==
  [][\A t \in Held :
       ~overlapped /\ tasks[t].stage = "inserted" /\ tasks'[t] = Unused =>
         \E u \in Tasks \ Held : /\ tasks[u].stage = "listening"
                                 /\ tasks[u].key.port = tasks[t].key.port]_vars

\* The local ports of machines that stay deleted, or whose forwards are edited
\* away, are eventually closed: if no edit overtook a task.
Unconfigured(port) == \A k \in Configured : k.port # port

PortsCloseInOrder ==
  \A p \in Ports :
    <>[](~overlapped /\ Unconfigured(p)) => <>[]~Listening(p)

(* A property the code does not have *)

\* The same without the proviso: an edit stops the old forwarders of a machine.
OldForwardersStop ==
  \A p \in Ports : <>[]Unconfigured(p) => <>[]~Listening(p)

=============================================================================
