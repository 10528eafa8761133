-------------------------- MODULE InactivityMonitor --------------------------
(***************************************************************************)
(* The proxy's automatic shutdown: forward.rs, TurnOffLimiter.             *)
(*                                                                         *)
(* A timer per machine is created, removed and restarted by the dashboard  *)
(* handlers (web.rs, start_proxy_if_configured), reset by the connection   *)
(* tasks of the forwarders, and scanned once a second by a monitor task,   *)
(* which queues one turn-off request per machine that has been idle for    *)
(* longer than its window.  All of them run on different threads and meet  *)
(* only in the mutex of TurnOffLimiter.machines.                           *)
(*                                                                         *)
(* Instants are modelled by ages, the seconds that have passed since, so   *)
(* that time is unbounded: an age stops at MaxAge, from where on no        *)
(* comparison of the code changes.                                         *)
(*                                                                         *)
(* A monitor reads the clock before it takes the mutex: Wake and Scan are  *)
(* separate steps, with at most MaxLag seconds between them.  abort() of a *)
(* monitor that is between the two does not stop it before its next await, *)
(* so the scans of several monitors may overlap after edits.               *)
(*                                                                         *)
(* The delivery of the queued request (turn_off_remote_machine) is outside *)
(* this module; update_machine, which only tests call, is not modelled.    *)
(***************************************************************************)
EXTENDS Naturals

CONSTANTS
  Macs,
  Minutes,        \* the inactivity periods the dashboard may send; 0: disabled
  SecsPerMinute,  \* 60 in the code
  MaxU32,         \* the largest u32
  Monitors,       \* identities of monitor tasks
  MaxLag,         \* bound: seconds between reading the clock and the scan
  None            \* no machine, no edit

ASSUME InactivityAssumption ==
  /\ Minutes \subseteq Nat
  /\ SecsPerMinute \in Nat \ {0} /\ MaxU32 \in Nat /\ MaxLag \in Nat
  /\ None \notin Macs
  /\ None \notin [minutes : Minutes, timed : BOOLEAN]
  /\ None \notin [mac : Macs, stage : {"stop_proxies", "restart_monitor"}]

\* A machine as far as its timer is concerned: the configured period, and
\* whether it has a client port, may be turned off and has a port forward.
Config == [minutes : Minutes, timed : BOOLEAN]

\* Fault: the product is not capped.
saturating_mul_Uncapped(a, b) == a * b

saturating_mul(a, b) == IF a * b > MaxU32 THEN MaxU32 ELSE a * b
saturating_sub(a, b) == IF a >= b THEN a - b ELSE 0

Window(minutes) == saturating_mul(minutes, SecsPerMinute)

\* One second past the longest window, however late the scan.
MaxAge == MaxU32 + 1 + MaxLag

VARIABLES
  machines,  \* the registry: mac -> Config, or None
  timers,    \* TurnOffLimiter.machines: mac -> window, triggered, idle
  current,   \* the monitor in monitor_handle
  tickDue,   \* its interval has elapsed
  scanning,  \* monitors between Wake and Scan: the age of their clock reading
  edit,      \* the handler that holds the registry's lock mid-way, or None
  signals,   \* turn-off requests since the last activity, up to 2 (history)
  cut        \* machines whose last edit was cut short (history)

monitorVars == <<machines, timers, current, tickDue, scanning, edit, signals, cut>>

-----------------------------------------------------------------------------
(* TurnOffLimiter *)

NewTimer(config) ==
  [window |-> Window(config.minutes), triggered |-> FALSE, idle |-> 0]

remove_machine(t, mac) == [m \in DOMAIN t \ {mac} |-> t[m]]

insert(t, mac, config) ==
  [m \in DOMAIN t \cup {mac} |-> IF m = mac THEN NewTimer(config) ELSE t[m]]

\* Whether start_proxy_if_configured leaves a timer.
HasTimer(config) == config.timed /\ config.minutes # 0

\* start_proxy_if_configured on the timers, and initialize_machine in it.
Configured(t, mac, config) ==
  IF HasTimer(config) THEN insert(t, mac, config) ELSE remove_machine(t, mac)

MonitorInit ==
  /\ machines \in [Macs -> Config \cup {None}]
  /\ timers = [m \in {x \in Macs : machines[x] # None /\ HasTimer(machines[x])}
                 |-> NewTimer(machines[m])]
  /\ current \in Monitors
  /\ tickDue = TRUE
  /\ scanning = [i \in {} |-> 0]
  /\ edit = None
  /\ signals = [m \in Macs |-> 0]
  /\ cut = {}

\* Fault: activity does not arm the timer again.
update_last_request_StaysTriggered(mac) ==
  /\ mac \in DOMAIN timers
  /\ timers' = [timers EXCEPT ![mac].idle = 0]
  /\ signals' = [signals EXCEPT ![mac] = 0]
  /\ UNCHANGED <<machines, current, tickDue, scanning, edit, cut>>

\* A connection task reports activity, possibly of a machine that has been
\* edited or deleted since its forwarder started.
update_last_request(mac) ==
  /\ mac \in DOMAIN timers
  /\ timers' = [timers EXCEPT ![mac].idle = 0, ![mac].triggered = FALSE]
  /\ signals' = [signals EXCEPT ![mac] = 0]
  /\ UNCHANGED <<machines, current, tickDue, scanning, edit, cut>>

-----------------------------------------------------------------------------
(* The monitor task *)

\* interval.tick() returns and the monitor reads the clock.
Wake ==
  /\ tickDue
  /\ current \notin DOMAIN scanning
  /\ tickDue' = FALSE
  /\ scanning' = [i \in DOMAIN scanning \cup {current} |->
                    IF i = current THEN 0 ELSE scanning[i]]
  /\ UNCHANGED <<machines, timers, current, edit, signals, cut>>

\* Fault: triggered is not read.
Overdue_Again(lag) ==
  {m \in DOMAIN timers : saturating_sub(timers[m].idle, lag) > timers[m].window}

\* Fault: the time the scan was held up is counted as idle.
Overdue_CountsLag(lag) ==
  {m \in DOMAIN timers :
     timers[m].idle + lag > timers[m].window /\ ~timers[m].triggered}

\* The machines a scan that read the clock lag seconds ago finds idle: the
\* age of the last request then, zero if the request is newer than the reading.
Overdue(lag) ==
  {m \in DOMAIN timers :
     /\ saturating_sub(timers[m].idle, lag) > timers[m].window
     /\ ~timers[m].triggered}

\* The monitor takes the mutex, swaps triggered and queues the requests.
Scan(i) ==
  /\ i \in DOMAIN scanning
  /\ LET overdue == Overdue(scanning[i]) IN
       /\ timers' = [m \in DOMAIN timers |->
                       [timers[m] EXCEPT !.triggered = @ \/ m \in overdue]]
       /\ signals' = [m \in Macs |->
                        IF m \in overdue /\ signals[m] < 2 THEN signals[m] + 1
                        ELSE signals[m]]
  /\ scanning' = [j \in DOMAIN scanning \ {i} |-> scanning[j]]
  /\ UNCHANGED <<machines, current, tickDue, edit, cut>>

-----------------------------------------------------------------------------
(* The handlers, one at a time under the write lock of AppState.machines *)

add_machine_api(mac, config) ==
  /\ edit = None
  /\ machines[mac] = None
  /\ machines' = [machines EXCEPT ![mac] = config]
  /\ timers' = Configured(timers, mac, config)
  /\ signals' = [signals EXCEPT ![mac] = 0]
  /\ UNCHANGED <<current, tickDue, scanning, edit, cut>>

delete_machine_api(mac) ==
  /\ edit = None
  /\ machines[mac] # None
  /\ machines' = [machines EXCEPT ![mac] = None]
  /\ timers' = remove_machine(timers, mac)
  /\ cut' = cut \ {mac}
  /\ UNCHANGED <<current, tickDue, scanning, edit, signals>>

\* Fault: the old timer is left to start_proxy_if_configured.
BeginUpdate_KeepsTimer(old, new, config) ==
  /\ edit = None
  /\ machines[old] # None
  /\ new = old \/ machines[new] = None
  /\ machines' = [[machines EXCEPT ![old] = None] EXCEPT ![new] = config]
  /\ edit' = [mac |-> new, stage |-> "stop_proxies"]
  /\ cut' = cut \ {old}
  /\ UNCHANGED <<timers, current, tickDue, scanning, signals>>

\* update_machine_api replaces the machine, perhaps under another MAC, and
\* removes the old timer; it then waits for the lock on the proxies.
BeginUpdate(old, new, config) ==
  /\ edit = None
  /\ machines[old] # None
  /\ new = old \/ machines[new] = None
  /\ machines' = [[machines EXCEPT ![old] = None] EXCEPT ![new] = config]
  /\ timers' = remove_machine(timers, old)
  /\ edit' = [mac |-> new, stage |-> "stop_proxies"]
  /\ cut' = cut \ {old}
  /\ UNCHANGED <<current, tickDue, scanning, signals>>

\* The browser goes away while the handler waits for the lock on the proxies:
\* the server drops the handler, which has installed the machine and removed
\* its timer, and nothing arms the new one.
Disconnect ==
  /\ edit # None /\ edit.stage = "stop_proxies"
  /\ edit' = None
  /\ cut' = cut \cup {edit.mac}
  /\ UNCHANGED <<machines, timers, current, tickDue, scanning, signals>>

\* start_proxy_if_configured, once the old forwarders are told to stop.  From
\* here to the end the handler does not wait for anything.
StartConfigured ==
  /\ edit # None /\ edit.stage = "stop_proxies"
  /\ timers' = Configured(timers, edit.mac, machines[edit.mac])
  /\ signals' = [signals EXCEPT ![edit.mac] = 0]
  /\ edit' = [edit EXCEPT !.stage = "restart_monitor"]
  /\ UNCHANGED <<machines, current, tickDue, scanning, cut>>

\* abort() drops a waiting monitor at once and lets a scanning one finish its
\* round; the first tick of the new monitor is immediate.
restart_global_monitor(fresh) ==
  /\ edit # None /\ edit.stage = "restart_monitor"
  /\ fresh \notin DOMAIN scanning \cup {current}
  /\ current' = fresh
  /\ tickDue' = TRUE
  /\ edit' = None
  /\ UNCHANGED <<machines, timers, scanning, signals, cut>>

-----------------------------------------------------------------------------
Older(age) == IF age < MaxAge THEN age + 1 ELSE age

\* A second passes.
Second ==
  /\ \A i \in DOMAIN scanning : scanning[i] < MaxLag
  /\ timers' = [m \in DOMAIN timers |-> [timers[m] EXCEPT !.idle = Older(@)]]
  /\ scanning' = [i \in DOMAIN scanning |-> scanning[i] + 1]
  /\ tickDue' = TRUE
  /\ UNCHANGED <<machines, current, edit, signals, cut>>

Handlers ==
  \/ \E mac \in Macs, config \in Config : add_machine_api(mac, config)
  \/ \E mac \in Macs : delete_machine_api(mac)
  \/ \E old, new \in Macs, config \in Config : BeginUpdate(old, new, config)
  \/ Disconnect \/ StartConfigured
  \/ \E fresh \in Monitors : restart_global_monitor(fresh)

MonitorNext ==
  \/ \E mac \in Macs : update_last_request(mac)
  \/ Wake
  \/ \E i \in Monitors : Scan(i)
  \/ Handlers
  \/ Second

MonitorSpec == MonitorInit /\ [][MonitorNext]_monitorVars

\* Time passes and the runtime polls tasks that are ready.  Nothing makes
\* users edit machines or open connections.
MonitorFairness ==
  /\ WF_monitorVars(Second)
  /\ WF_monitorVars(Wake)
  /\ \A i \in Monitors : WF_monitorVars(Scan(i))

MonitorFairSpec == MonitorSpec /\ MonitorFairness

-----------------------------------------------------------------------------
(* Properties *)

Timer == [window : 0..MaxU32, triggered : BOOLEAN, idle : 0..MaxAge]

MonitorTypeOK ==
  /\ machines \in [Macs -> Config \cup {None}]
  /\ DOMAIN timers \subseteq Macs /\ timers \in [DOMAIN timers -> Timer]
  /\ current \in Monitors
  /\ tickDue \in BOOLEAN
  /\ DOMAIN scanning \subseteq Monitors /\ scanning \in [DOMAIN scanning -> 0..MaxLag]
  /\ edit \in [mac : Macs, stage : {"stop_proxies", "restart_monitor"}] \cup {None}
  /\ signals \in [Macs -> 0..2]
  /\ cut \subseteq Macs

\* A machine gets at most one turn-off request per idle period, also when the
\* scans of an aborted monitor and of its successor overlap: the swap of
\* triggered in start_inactivity_monitor happens under the mutex.
OneSignalPerIdlePeriod == \A m \in Macs : signals[m] <= 1

\* A turn-off request is only queued for a machine whose timer has, at that
\* moment, been idle for longer than its window: a scan that read the clock
\* before a connection reset the timer must not count the time before it.
SignalOnlyWhenIdle ==
  [][\A m \in Macs : signals'[m] > signals[m] =>
       m \in DOMAIN timers /\ timers[m].idle > timers[m].window]_monitorVars

\* No timer but those of the registered machines that ask for one, with the
\* window they ask for, whatever old connections and scans do: an edit that
\* disables automatic shutdown or changes the MAC leaves none behind, also when
\* its handler is dropped.  A machine that asks for a timer is without it only
\* while its edit is running or if its last edit was cut short: update_machine_api
\* removes the timer before it waits for the forwarders' lock and arms the new
\* one after, so such a machine stays without until it is edited again.
TimersMatchRegistry ==
  \A m \in Macs :
    LET wanted == machines[m] # None /\ HasTimer(machines[m]) IN
      /\ m \in DOMAIN timers =>
           wanted /\ m \notin cut /\ timers[m].window = Window(machines[m].minutes)
      /\ wanted => \/ m \in DOMAIN timers
                   \/ edit # None /\ edit.mac = m /\ edit.stage = "stop_proxies"
                   \/ m \in cut

\* A machine left idle is eventually sent its turn-off request, however often
\* the monitor is restarted by edits of other machines meanwhile.
IdleIsSignalled ==
  \A m \in Macs :
    m \in DOMAIN timers /\ timers[m].idle = 1
      ~> m \notin DOMAIN timers \/ timers[m].idle = 0 \/ signals[m] = 1

=============================================================================
