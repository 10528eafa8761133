----------------------------- MODULE WakeOnDemand -----------------------------
(***************************************************************************)
(* One machine behind the proxy, from a connection that wakes it to the    *)
(* request that suspends it: the connections of a forward (proxy_internal),*)
(* the machine's inactivity timer, the turn-off requests of the monitor    *)
(* and of the dashboard, the client's suspend threads and the machine.     *)
(*                                                                         *)
(* Time passes in seconds.  The steps of the proxy that wait for nothing   *)
(* take no time, and a timeout is handled in the second in which it        *)
(* expires.  A connection attempt to a reachable machine succeeds at once; *)
(* one to a machine that is unreachable at some moment of the attempt may  *)
(* fail, until the attempt times out.                                      *)
(*                                                                         *)
(* Authentication is ReplayGuard's and edits are InactivityMonitor's: a    *)
(* request that reaches the client here is accepted once.                  *)
(***************************************************************************)
EXTENDS Naturals, FiniteSets

CONSTANTS
  Conns,         \* connections at a time
  Requests,      \* turn-off requests and suspend threads at a time
  Window,        \* the inactivity period
  CheckTimeout,  \* tcp_check: 1 s
  Pause,         \* between two checks: 2 s
  WaitTime,      \* for a machine to come up: 60 s
  ConnectTimeout,\* 30 s
  HttpTimeout,   \* turn_off_remote_machine: 5 s
  SuspendDelay,  \* shutdown_machine: 5 s
  SuspendTime,   \* bound: how long the machine takes to suspend
  BootTime       \* bound: how long it takes to come up

VARIABLES
  power,      \* the machine: up, suspending, asleep or waking, and for how long
  conn,       \* the tasks proxy_internal spawns
  request,    \* turn-off requests on their way and suspend threads
  idle,       \* seconds since last_request, as far as they matter
  triggered,  \* MachineConfig.triggered
  excused     \* the one request of the idle period came to nothing (history)

wakeVars == <<power, conn, request, idle, triggered, excused>>

\* A machine that is woken comes up before the connection gives up on it.
ASSUME WakeAssumption ==
  /\ {Window, CheckTimeout, Pause, WaitTime, ConnectTimeout, HttpTimeout,
      SuspendDelay, SuspendTime, BootTime} \subseteq Nat
  /\ BootTime + CheckTimeout + Pause < WaitTime

\* The largest of the timers.
MaxTimer == ConnectTimeout + WaitTime + HttpTimeout + SuspendDelay + SuspendTime
              + BootTime + CheckTimeout + Pause

Stages == {"closed", "accepted", "check", "send", "loop", "poll", "pause",
           "connect", "copy"}

\* deadline is the time left to wait for the machine; failing says that the
\* attempt under way may fail.  Two histories: lost says that a magic packet was
\* lost or that the machine was suspended meanwhile, dropped that the connection
\* ended without being forwarded.
Conn == [stage : Stages, timer : 0..MaxTimer, deadline : 0..WaitTime,
         failing : BOOLEAN, lost : BOOLEAN, dropped : BOOLEAN]

WakeTypeOK ==
  /\ power \in [state : {"up", "suspending", "asleep", "waking"}, timer : 0..MaxTimer]
  /\ conn \in [Conns -> Conn]
  /\ request \in [Requests -> [state : {"free", "sent", "thread"}, timer : 0..MaxTimer]]
  /\ idle \in 0..(Window + 1)
  /\ triggered \in BOOLEAN /\ excused \in BOOLEAN

Up == power.state = "up"
Open(c) == conn[c].stage # "closed"

Closed == [stage |-> "closed", timer |-> 0, deadline |-> 0, failing |-> FALSE,
           lost |-> FALSE, dropped |-> FALSE]
NoRequest == [state |-> "free", timer |-> 0]

WakeInit ==
  /\ power \in {[state |-> "up", timer |-> 0], [state |-> "asleep", timer |-> 0]}
  /\ conn = [c \in Conns |-> Closed]
  /\ request = [r \in Requests |-> NoRequest]
  /\ idle = 0
  /\ triggered = FALSE /\ excused = FALSE

-----------------------------------------------------------------------------
(* Time *)

Minus1(n) == IF n = 0 THEN 0 ELSE n - 1

Older(age) == IF age > Window THEN age ELSE age + 1

\* A step of the proxy or a timeout that is due now.
Due(c) ==
  \/ conn[c].stage \in {"accepted", "send", "loop"}
  \/ conn[c].stage \in {"check", "poll", "pause", "connect"} /\ conn[c].timer = 0
  \/ conn[c].stage \in {"check", "poll", "connect"} /\ Up /\ ~conn[c].failing

\* A suspend thread's clock stands still while the machine is not up.
Running(r) == request[r].state = "sent" \/ (request[r].state = "thread" /\ Up)

Tick ==
  /\ \A c \in Conns : ~Due(c)
  /\ \A r \in Requests : Running(r) => request[r].timer > 0
  /\ power.state \in {"suspending", "waking"} => power.timer > 0
  /\ idle > Window /\ ~triggered => \A r \in Requests : request[r].state # "free"
  /\ power' = [power EXCEPT !.timer = Minus1(@)]
  /\ conn' = [c \in Conns |-> [conn[c] EXCEPT !.timer = Minus1(@),
                                               !.deadline = Minus1(@)]]
  /\ request' = [r \in Requests |->
                   IF Running(r) THEN [request[r] EXCEPT !.timer = Minus1(@)]
                                 ELSE request[r]]
  /\ idle' = Older(idle)
  /\ UNCHANGED <<triggered, excused>>

-----------------------------------------------------------------------------
(* A connection: the task that proxy_internal spawns *)

Connection(c, next) ==
  /\ conn' = [conn EXCEPT ![c] = next]
  /\ UNCHANGED <<power, request>>

\* An attempt to connect starts.
Attempt(c, stage, timeout) ==
  [conn[c] EXCEPT !.stage = stage, !.timer = timeout, !.failing = ~Up]

\* It may fail if the machine was not reachable all the time.
Fails(c) == conn[c].failing \/ ~Up

\* The task returns without having forwarded anything.
Drop(c) == [Closed EXCEPT !.dropped = TRUE, !.lost = conn[c].lost]

accept(c) ==
  /\ ~Open(c)
  /\ Connection(c, [Closed EXCEPT !.stage = "accepted"])
  /\ UNCHANGED <<idle, triggered, excused>>

\* Fault: the timer is set back but not re-armed.
update_last_request_StaysTriggered(c) ==
  /\ conn[c].stage = "accepted"
  /\ Connection(c, Attempt(c, "check", CheckTimeout))
  /\ idle' = 0
  /\ UNCHANGED triggered
  /\ excused' = FALSE

\* The task starts: update_last_request, then tcp_check.
update_last_request(c) ==
  /\ conn[c].stage = "accepted"
  /\ Connection(c, Attempt(c, "check", CheckTimeout))
  /\ idle' = 0
  /\ triggered' = FALSE
  /\ excused' = FALSE

Timer == <<idle, triggered, excused>>

tcp_check(c) ==
  /\ conn[c].stage = "check"
  /\ \/ Up /\ Connection(c, Attempt(c, "connect", ConnectTimeout))
     \/ Fails(c) /\ Connection(c, [conn[c] EXCEPT !.stage = "send", !.failing = FALSE])
  /\ UNCHANGED Timer

\* The magic packets reach the machine, or get lost.
MagicPackets == \/ power.state = "asleep" /\ power' = [state |-> "waking", timer |-> BootTime]
                \/ power.state # "asleep" /\ UNCHANGED power

\* send_packets, once per connection.  Packets get lost, and an error, which may
\* come after some have been sent, ends the task.
send_packets(c) ==
  /\ conn[c].stage = "send"
  /\ \E arrive, error \in BOOLEAN :
       LET next == IF error THEN Drop(c)
                   ELSE [conn[c] EXCEPT !.stage = "loop", !.deadline = WaitTime]
       IN  /\ IF arrive THEN MagicPackets ELSE UNCHANGED power
           /\ conn' = [conn EXCEPT ![c] = [next EXCEPT !.lost =
                        @ \/ error \/ ~arrive \/ power.state = "suspending"]]
  /\ UNCHANGED request
  /\ UNCHANGED Timer

\* Fault: the machine is given half the time.
loop_Half(c) ==
  /\ conn[c].stage = "loop"
  /\ \/ /\ conn[c].deadline > WaitTime \div 2
        /\ Connection(c, Attempt(c, "poll", CheckTimeout))
     \/ conn[c].deadline <= WaitTime \div 2 /\ Connection(c, Drop(c))
  /\ UNCHANGED Timer

\* Check again before the deadline, drop the connection after it.
loop(c) ==
  /\ conn[c].stage = "loop"
  /\ \/ conn[c].deadline > 0 /\ Connection(c, Attempt(c, "poll", CheckTimeout))
     \/ conn[c].deadline = 0 /\ Connection(c, Drop(c))
  /\ UNCHANGED Timer

\* Fault: a failed check is repeated at once, whatever the deadline.
poll_Forever(c) ==
  /\ conn[c].stage = "poll"
  /\ \/ Up /\ Connection(c, Attempt(c, "connect", ConnectTimeout))
     \/ Fails(c) /\ Connection(c, Attempt(c, "poll", CheckTimeout))
  /\ UNCHANGED Timer

poll(c) ==
  /\ conn[c].stage = "poll"
  /\ \/ Up /\ Connection(c, Attempt(c, "connect", ConnectTimeout))
     \/ Fails(c) /\ Connection(c, [conn[c] EXCEPT !.stage = "pause", !.timer = Pause,
                                                       !.failing = FALSE])
  /\ UNCHANGED Timer

sleep(c) ==
  /\ conn[c].stage = "pause" /\ conn[c].timer = 0
  /\ Connection(c, [conn[c] EXCEPT !.stage = "loop"])
  /\ UNCHANGED Timer

connect(c) ==
  /\ conn[c].stage = "connect"
  /\ \/ Up /\ Connection(c, [Closed EXCEPT !.stage = "copy"])
     \/ Fails(c) /\ Connection(c, Drop(c))
  /\ UNCHANGED Timer

\* Either end closes the connection.  What copy_bidirectional forwards until then
\* changes nothing here.
close(c) ==
  /\ conn[c].stage = "copy"
  /\ Connection(c, Closed)
  /\ UNCHANGED Timer

-----------------------------------------------------------------------------
(* Suspending and waking the machine *)

Send(r) ==
  /\ request[r].state = "free"
  /\ request' = [request EXCEPT ![r] = [state |-> "sent", timer |-> HttpTimeout]]
  /\ UNCHANGED <<power, conn>>

\* The monitor finds the machine overdue.
Scan(r) ==
  /\ idle > Window /\ ~triggered
  /\ Send(r)
  /\ triggered' = TRUE
  /\ UNCHANGED <<idle, excused>>

\* The user turns the machine off; the timer is not told.
execute_remote_turn_off(r) == Send(r) /\ UNCHANGED Timer

\* The client answers and starts a thread that suspends the machine.
shutdown_machine(r) ==
  /\ request[r].state = "sent" /\ Up
  /\ request' = [request EXCEPT ![r] = [state |-> "thread", timer |-> SuspendDelay]]
  /\ UNCHANGED <<power, conn>> /\ UNCHANGED Timer

\* What leaves the machine up, or brings it up, once the timer has fired: the
\* monitor sends no other request before the next connection.
Excuses ==
  /\ excused' = (excused \/ triggered)
  /\ UNCHANGED <<idle, triggered>>

\* The request times out, is refused or gets lost; it is not repeated.
RequestFails(r) ==
  /\ request[r].state = "sent"
  /\ request' = [request EXCEPT ![r] = NoRequest]
  /\ UNCHANGED <<power, conn>>
  /\ Excuses

\* The thread suspends the machine.
Suspend(r) ==
  /\ request[r].state = "thread" /\ request[r].timer = 0 /\ Up
  /\ request' = [request EXCEPT ![r] = NoRequest]
  /\ power' = [state |-> "suspending", timer |-> SuspendTime]
  /\ conn' = [c \in Conns |->
                IF Open(c) /\ conn[c].stage # "copy"
                THEN [conn[c] EXCEPT !.lost = TRUE,
                                     !.failing = conn[c].stage \in {"check", "poll", "connect"}]
                ELSE conn[c]]
  /\ UNCHANGED Timer

\* The command fails, long after the client has answered; it is only logged.
SuspendFails(r) ==
  /\ request[r].state = "thread" /\ request[r].timer = 0 /\ Up
  /\ request' = [request EXCEPT ![r] = NoRequest]
  /\ UNCHANGED <<power, conn>>
  /\ Excuses

Asleep ==
  /\ power.state = "suspending"
  /\ power' = [state |-> "asleep", timer |-> 0]
  /\ UNCHANGED <<conn, request>> /\ UNCHANGED Timer

Boot ==
  /\ power.state = "waking"
  /\ power' = [state |-> "up", timer |-> 0]
  /\ UNCHANGED <<conn, request>> /\ UNCHANGED Timer

\* The user wakes the machine from the dashboard; the timer is not told.
execute_wake ==
  /\ power.state = "asleep" /\ MagicPackets
  /\ UNCHANGED <<conn, request>>
  /\ Excuses

-----------------------------------------------------------------------------
Task(c) == \/ update_last_request(c) \/ tcp_check(c) \/ send_packets(c)
           \/ loop(c) \/ poll(c) \/ sleep(c) \/ connect(c)

Client(r) == shutdown_machine(r) \/ RequestFails(r) \/ Suspend(r) \/ SuspendFails(r)

WakeNext ==
  \/ Tick \/ Asleep \/ Boot \/ execute_wake
  \/ \E c \in Conns : accept(c) \/ Task(c) \/ close(c)
  \/ \E r \in Requests : Scan(r) \/ execute_remote_turn_off(r) \/ Client(r)

\* Time passes, tasks whose timers expire run, the monitor scans, the client's
\* threads run and the machine finishes suspending or waking; users do as they
\* like.
WakeFairness ==
  /\ SF_wakeVars(Tick)
  /\ \A c \in Conns : WF_wakeVars(Task(c))
  /\ SF_wakeVars(\E r \in Requests : Scan(r))
  /\ \A r \in Requests : WF_wakeVars(Client(r))
  /\ WF_wakeVars(Asleep) /\ WF_wakeVars(Boot)

WakeSpec == WakeInit /\ [][WakeNext]_wakeVars
WakeFairSpec == WakeSpec /\ WakeFairness

-----------------------------------------------------------------------------
(* Properties *)

\* A connection is dropped only if its magic packets were lost or the machine
\* was suspended under it: a machine that wakes as it should is noticed in
\* time, whatever the phase of the polling loop of proxy_internal.
DropsHaveACause == \A c \in Conns : conn[c].dropped => conn[c].lost

\* Every connection is decided: forwarded or dropped, however often the machine
\* wakes and sleeps meanwhile.
Settles == \A c \in Conns : conn[c].stage = "accepted" ~> ~Open(c) \/ conn[c].stage = "copy"

\* An idle machine is suspended, however connections, timers, suspend threads and
\* the dashboard's turn-off requests interleave, unless after the timer has fired
\* a request fails, the client's command fails (the client has answered OK and
\* only logs it) or the user wakes the machine from the dashboard: the monitor
\* sends one request, and only a connection re-arms the timer.
IdleMachineSleeps == []<>(~Up \/ idle <= Window \/ excused)

=============================================================================
