---------------------------- MODULE ForwarderProofs ----------------------------
(***************************************************************************)
(* Proofs about the forwarders: ForwarderTasks, for every set of machines, *)
(* ports and targets and every number of tasks, and WakeOnDemand, for any  *)
(* connections and requests and all timers.                                *)
(*                                                                         *)
(* Between the lock on the registry and the lock on the map, the registry  *)
(* already is what the edit makes it and the tasks are still what they     *)
(* were.  The invariant of the tasks therefore compares the two only for   *)
(* the machines that the edit under way does not stop, and without the     *)
(* forwards that it is about to start.                                     *)
(*                                                                         *)
(* The invariant of the connections bounds how long one has waited when    *)
(* the machine comes up, and how long until it checks again.               *)
(***************************************************************************)
EXTENDS ForwarderTasks, WakeOnDemand, FiniteSetTheorems, TLAPS

\* validate_machine_config keeps the configured local ports apart.
ConfiguredApart ==
  \A k, l \in Configured : k.port = l.port => k = l

\* A switch in the map is of a task that serves its key, or has ended.
SwitchOfItsTask ==
  \A k \in DOMAIN proxies : tasks[proxies[k]] = Unused \/ tasks[proxies[k]].key = k

\* The edit under way starts what is configured, all of it for the machine
\* that it stops.
EditMatchesRegistry ==
  /\ handler.start \subseteq Configured
  /\ \A k \in Configured : k.mac \in handler.stop => k \in handler.start

\* Unless an edit has overtaken a task, one task serves each configured
\* forward, apart from those the edit under way will change.
ServedAsConfigured ==
  ~overlapped =>
    \A k \in Key : k.mac \notin handler.stop =>
      IF k \in Configured \ handler.start THEN \E t \in Tasks : Serving(k) = {t}
                                          ELSE Serving(k) = {}

\* The forwards in service have ports of their own, also while an edit changes
\* them.
ServedApart ==
  ~overlapped =>
    \A k, l \in Key : Serving(k) # {} /\ Serving(l) # {} /\ k.port = l.port => k = l

IInv ==
  /\ TypeOK
  /\ ConfiguredApart
  /\ SwitchOfItsTask
  /\ EditMatchesRegistry
  /\ ServedAsConfigured
  /\ ServedApart

-----------------------------------------------------------------------------
(* Lemmas about forwards and keys *)

ForwardOf(key) == [port |-> key.port, target |-> key.target]

ConfiguredBy(registry) == UNION {KeysOf(m, registry[m]) : m \in DOMAIN registry}

IsForwards(registry) ==
  DOMAIN registry \subseteq Macs /\ registry \in [DOMAIN registry -> SUBSET Forward]

LEMMA KeysOfForwards ==
  ASSUME NEW mac \in Macs, NEW forwards \in SUBSET Forward
  PROVE  /\ KeysOf(mac, forwards) \subseteq Key
         /\ \A k \in Key : k \in KeysOf(mac, forwards) <=>
                             k.mac = mac /\ ForwardOf(k) \in forwards
<1>1. KeysOf(mac, forwards) \subseteq Key
  BY DEF KeysOf, Forward, Key
<1>2. ASSUME NEW k \in Key, k \in KeysOf(mac, forwards)
      PROVE  k.mac = mac /\ ForwardOf(k) \in forwards
  <2>1. PICK f \in forwards : k = [mac |-> mac, port |-> f.port, target |-> f.target]
    BY <1>2 DEF KeysOf
  <2>2. f \in Forward /\ f = [port |-> f.port, target |-> f.target]
    BY DEF Forward
  <2>. QED
    BY <2>1, <2>2 DEF ForwardOf
<1>3. ASSUME NEW k \in Key, k.mac = mac, ForwardOf(k) \in forwards
      PROVE  k \in KeysOf(mac, forwards)
  <2>1. k = [mac |-> k.mac, port |-> k.port, target |-> k.target]
    BY DEF Key
  <2>2. ForwardOf(k).port = k.port /\ ForwardOf(k).target = k.target
    BY DEF ForwardOf
  <2>. QED
    BY <1>3, <2>1, <2>2 DEF KeysOf
<1>. QED
  BY <1>1, <1>2, <1>3

LEMMA KeysOfRegistry ==
  ASSUME NEW registry, IsForwards(registry)
  PROVE  /\ ConfiguredBy(registry) \subseteq Key
         /\ \A k \in Key : k \in ConfiguredBy(registry) <=>
              k.mac \in DOMAIN registry /\ ForwardOf(k) \in registry[k.mac]
<1>1. \A m \in DOMAIN registry : m \in Macs /\ registry[m] \in SUBSET Forward
  BY DEF IsForwards
<1>2. \A k : k \in ConfiguredBy(registry) <=> \E m \in DOMAIN registry : k \in KeysOf(m, registry[m])
  BY DEF ConfiguredBy
<1>. QED
  BY <1>1, <1>2, KeysOfForwards

\* A registry with the forwards of mac set, and those of the machine replaced
\* gone, has the keys of mac and those of the other machines; their ports stay
\* apart if they were and the edit is valid.
LEMMA KeysOfEdit ==
  ASSUME IsForwards(machines), ConfiguredApart,
         NEW mac \in Macs, NEW forwards \in SUBSET Forward, NEW replaced \in SUBSET Macs,
         Valid(mac, forwards, replaced),
         machines' = [m \in (DOMAIN machines \ replaced) \cup {mac} |->
                        IF m = mac THEN forwards ELSE machines[m]]
  PROVE  /\ IsForwards(machines')
         /\ \A k \in Key : k \in Configured' <=>
              IF k.mac = mac THEN k \in KeysOf(mac, forwards)
                             ELSE k \in Configured /\ k.mac \notin replaced
         /\ \A k \in Configured : k.mac = mac => mac \in replaced
         /\ ConfiguredApart'
<1>1. IsForwards(machines')
  BY DEF IsForwards
<1>2. Configured = ConfiguredBy(machines) /\ Configured' = ConfiguredBy(machines')
  BY DEF Configured, ConfiguredBy
<1>3. /\ Configured \subseteq Key /\ Configured' \subseteq Key
      /\ \A k \in Key : k \in Configured <=>
           k.mac \in DOMAIN machines /\ ForwardOf(k) \in machines[k.mac]
      /\ \A k \in Key : k \in Configured' <=>
           k.mac \in DOMAIN machines' /\ ForwardOf(k) \in machines'[k.mac]
  BY <1>1, <1>2, KeysOfRegistry
<1>4. /\ DOMAIN machines' = (DOMAIN machines \ replaced) \cup {mac}
      /\ machines'[mac] = forwards
      /\ \A m \in DOMAIN machines' \ {mac} : machines'[m] = machines[m]
  OBVIOUS
<1>5. ASSUME NEW k \in Key
      PROVE  k \in Configured' <=>
               IF k.mac = mac THEN k \in KeysOf(mac, forwards)
                              ELSE k \in Configured /\ k.mac \notin replaced
  BY <1>3, <1>4, KeysOfForwards
<1>6. \A k \in Configured : k.mac = mac => mac \in replaced
  BY <1>3 DEF Valid
<1>7. ASSUME NEW k \in Configured', NEW l \in Configured', k.port = l.port
      PROVE  k = l
  <2>1. k \in Key /\ l \in Key
    BY <1>3
  <2>2. CASE k.mac # mac /\ l.mac # mac
    BY <1>5, <1>7, <2>1, <2>2 DEF ConfiguredApart
  <2>3. ASSUME NEW f \in Configured', NEW g \in Configured', f.mac = mac, g.mac # mac
        PROVE  f.port # g.port
    <3>1. /\ f \in Key /\ ForwardOf(f) \in forwards
          /\ g \in Key /\ g \in Configured /\ g.mac \notin replaced
      BY <1>3, <1>4, <1>5, <2>3
    <3>2. g.mac \in DOMAIN machines \ replaced /\ ForwardOf(g) \in machines[g.mac]
      BY <1>3, <3>1
    <3>3. ForwardOf(f).port # ForwardOf(g).port
      BY <3>1, <3>2 DEF Valid
    <3>. QED
      BY <3>3 DEF ForwardOf
  <2>4. CASE k.mac = mac /\ l.mac = mac
    <3>1. ForwardOf(k) \in forwards /\ ForwardOf(l) \in forwards
      BY <1>3, <1>4, <2>1, <2>4
    <3>2. ForwardOf(k).port = ForwardOf(l).port
      BY <1>7 DEF ForwardOf
    <3>3. ForwardOf(k) = ForwardOf(l)
      BY <3>1, <3>2 DEF Valid
    <3>4. k.target = l.target
      BY <3>3 DEF ForwardOf
    <3>. QED
      BY <1>7, <2>1, <2>4, <3>4 DEF Key
  <2>. QED
    BY <1>7, <2>2, <2>3, <2>4
<1>. QED
  BY <1>1, <1>5, <1>6, <1>7 DEF ConfiguredApart

-----------------------------------------------------------------------------
(* Lemmas about tasks *)

Starting(key) == {t \in Tasks : tasks[t].stage = "spawned" /\ tasks[t].key = key}
Entered(key) == {proxies[k] : k \in DOMAIN proxies \cap {key}}

LEMMA ServingParts == ASSUME NEW k PROVE Serving(k) = Starting(k) \cup Entered(k)
BY DEF Serving, Starting, Entered

LEMMA UnusedStage == Unused.stage = "ended"
BY DEF Unused

\* A stage that is not "ended" tells a task that runs.
LEMMA TaskType ==
  ASSUME TypeOK, NEW t \in Tasks, tasks[t].stage # "ended"
  PROVE  /\ tasks[t] # Unused
         /\ tasks[t] \in [stage : {"spawned", "inserted", "listening"}, key : Key]
         /\ tasks[t].key \in Key
BY UnusedStage DEF TypeOK

\* Free tasks become those that start the keys, and the rest stay what they are.
LEMMA SpawnedTasks ==
  ASSUME TypeOK, NEW S \in SUBSET Key, NEW chosen \in Injection(S, Free),
         tasks' = Spawned(S, chosen)
  PROVE  /\ \A k \in S : /\ chosen[k] \in Free
                         /\ tasks'[chosen[k]].stage = "spawned" /\ tasks'[chosen[k]].key = k
         /\ \A t \in Tasks : (\A k \in S : chosen[k] # t) => tasks'[t] = tasks[t]
         /\ tasks' \in [Tasks -> {Unused} \cup
                          [stage : {"spawned", "inserted", "listening"}, key : Key]]
<1>1. /\ chosen \in [S -> Free]
      /\ \A k, l \in S : chosen[k] = chosen[l] => k = l
  BY DEF Injection, IsInjective
<1>2. Free \subseteq Tasks
  BY DEF Free
<1>3. ASSUME NEW k \in S
      PROVE  tasks'[chosen[k]] = [stage |-> "spawned", key |-> k]
  <2>1. (CHOOSE l \in S : chosen[l] = chosen[k]) = k
    BY <1>1
  <2>2. chosen[k] \in Tasks
    BY <1>1, <1>2
  <2>. QED
    BY <2>1, <2>2 DEF Spawned
<1>4. \A t \in Tasks : (\A k \in S : chosen[k] # t) => tasks'[t] = tasks[t]
  BY DEF Spawned
<1>5. ASSUME NEW t \in Tasks
      PROVE  tasks'[t] \in {Unused} \cup [stage : {"spawned", "inserted", "listening"}, key : Key]
  <2>1. CASE \E k \in S : chosen[k] = t
    <3>1. PICK k \in S : chosen[k] = t
      BY <2>1
    <3>2. [stage |-> "spawned", key |-> k] \in
            [stage : {"spawned", "inserted", "listening"}, key : Key]
      OBVIOUS
    <3>. QED
      BY <1>3, <3>1, <3>2
  <2>2. CASE ~ \E k \in S : chosen[k] = t
    BY <1>4, <2>2 DEF TypeOK
  <2>. QED
    BY <2>1, <2>2
<1>6. tasks' \in [Tasks -> {Unused} \cup [stage : {"spawned", "inserted", "listening"}, key : Key]]
  BY <1>5 DEF Spawned
<1>7. ASSUME NEW k \in S
      PROVE  tasks'[chosen[k]].stage = "spawned" /\ tasks'[chosen[k]].key = k
  <2> DEFINE fresh == [stage |-> "spawned", key |-> k]
  <2>1. tasks'[chosen[k]] = fresh
    BY <1>3
  <2>2. fresh.stage = "spawned" /\ fresh.key = k
    OBVIOUS
  <2> HIDE DEF fresh
  <2>. QED
    BY <2>1, <2>2
<1>. QED
  BY <1>1, <1>4, <1>6, <1>7

\* Each key that is started gains its task, and no other key does.
LEMMA StartingSpawned ==
  ASSUME TypeOK, NEW S \in SUBSET Key, NEW chosen \in Injection(S, Free),
         tasks' = Spawned(S, chosen), NEW k \in Key
  PROVE  Starting(k)' = Starting(k) \cup (IF k \in S THEN {chosen[k]} ELSE {})
<1>1. /\ \A l \in S : /\ chosen[l] \in Free
                     /\ tasks'[chosen[l]].stage = "spawned" /\ tasks'[chosen[l]].key = l
      /\ \A t \in Tasks : (\A l \in S : chosen[l] # t) => tasks'[t] = tasks[t]
  <2>1. \A l \in S : /\ chosen[l] \in Free
                     /\ tasks'[chosen[l]].stage = "spawned" /\ tasks'[chosen[l]].key = l
    BY SpawnedTasks
  <2>2. \A t \in Tasks : (\A l \in S : chosen[l] # t) => tasks'[t] = tasks[t]
    BY SpawnedTasks
  <2>. QED
    BY <2>1, <2>2
<1>2. \A t \in Free : t \in Tasks /\ tasks[t].stage # "spawned"
  BY UnusedStage DEF Free
<1>3. ASSUME NEW t \in Starting(k)'
      PROVE  t \in Starting(k) \cup (IF k \in S THEN {chosen[k]} ELSE {})
  <2>1. t \in Tasks /\ tasks'[t].stage = "spawned" /\ tasks'[t].key = k
    BY DEF Starting
  <2>2. CASE \E l \in S : chosen[l] = t
    BY <1>1, <2>1, <2>2
  <2>3. CASE \A l \in S : chosen[l] # t
    BY <1>1, <2>1, <2>3 DEF Starting
  <2>. QED
    BY <2>2, <2>3
<1>4. ASSUME NEW t \in Starting(k)
      PROVE  t \in Starting(k)'
  <2>1. t \in Tasks /\ tasks[t].stage = "spawned" /\ tasks[t].key = k
    BY DEF Starting
  <2>2. \A l \in S : chosen[l] # t
    BY <1>1, <1>2, <2>1
  <2>. QED
    BY <1>1, <2>1, <2>2 DEF Starting
<1>5. k \in S => chosen[k] \in Starting(k)'
  BY <1>1, <1>2 DEF Starting
<1>. QED
  BY <1>3, <1>4, <1>5

\* A switch whose task is untouched by the spawning still belongs to it.
LEMMA SwitchesSpawned ==
  ASSUME TypeOK, SwitchOfItsTask, NEW S \in SUBSET Key, NEW chosen \in Injection(S, Free),
         tasks' = Spawned(S, chosen), DOMAIN proxies' \subseteq DOMAIN proxies,
         \A k \in DOMAIN proxies' : proxies'[k] = proxies[k]
  PROVE  SwitchOfItsTask'
<1> SUFFICES ASSUME NEW k \in DOMAIN proxies'
             PROVE  tasks'[proxies'[k]] = Unused \/ tasks'[proxies'[k]].key = k
  BY DEF SwitchOfItsTask
<1>1. proxies[k] \in Tasks /\ proxies[k] \in Held /\ proxies'[k] = proxies[k]
  BY DEF TypeOK, Held
<1>2. \A l \in S : chosen[l] # proxies[k]
  <2>1. \A l \in S : chosen[l] \in Free
    BY SpawnedTasks
  <2>. QED
    BY <1>1, <2>1 DEF Free
<1>3. tasks'[proxies[k]] = tasks[proxies[k]]
  BY <1>1, <1>2, SpawnedTasks
<1>. QED
  BY <1>1, <1>3 DEF SwitchOfItsTask

-----------------------------------------------------------------------------
(* Steps of the handlers *)

LEMMA ConfiguredType ==
  ASSUME TypeOK
  PROVE  Configured \subseteq Key
BY KeysOfRegistry DEF Configured, ConfiguredBy, TypeOK, IsForwards

LEMMA IdleHandler ==
  /\ Idle.stop = {} /\ Idle.start = {}
  /\ Idle \in [stop : SUBSET Macs, start : SUBSET Key]
BY DEF Idle

LEMMA InitIInv == Init => IInv
<1> SUFFICES ASSUME Init
             PROVE  IInv
  OBVIOUS
<1>1. DOMAIN machines = {} /\ DOMAIN proxies = {} /\ handler = Idle
  BY DEF Init
<1>2. TypeOK
  BY IdleHandler DEF Init, TypeOK
<1>3. Configured = {}
  BY <1>1 DEF Configured
<1>4. \A k \in Key : Serving(k) = {}
  BY <1>1, UnusedStage DEF Serving, Init
<1>. QED
  BY <1>1, <1>2, <1>3, <1>4, IdleHandler
     DEF IInv, ConfiguredApart, SwitchOfItsTask, EditMatchesRegistry, ServedAsConfigured,
         ServedApart

\* add_machine_api: the new machine's keys were served by no task.
LEMMA AddStep ==
  ASSUME IInv, NEW mac \in Macs, NEW forwards \in SUBSET Forward,
         add_machine_api(mac, forwards)
  PROVE  IInv'
<1> DEFINE S == KeysOf(mac, forwards)
<1>1. /\ handler = Idle /\ handler' = Idle
      /\ Valid(mac, forwards, {})
      /\ UNCHANGED <<proxies, overlapped>>
      /\ TypeOK /\ IsForwards(machines)
  BY DEF add_machine_api, IInv, TypeOK, IsForwards
<1>2. PICK chosen \in Injection(S, Free) : tasks' = Spawned(S, chosen)
  BY DEF add_machine_api
<1>3. S \in SUBSET Key
  BY KeysOfForwards
<1>4. /\ IsForwards(machines') /\ ConfiguredApart'
      /\ \A k \in Key : k \in Configured' <=> IF k.mac = mac THEN k \in S ELSE k \in Configured
      /\ \A k \in Configured : k.mac # mac
  <2>1. machines' = [m \in (DOMAIN machines \ {}) \cup {mac} |->
                       IF m = mac THEN forwards ELSE machines[m]]
    BY DEF add_machine_api
  <2>. QED
    BY <1>1, <2>1, KeysOfEdit DEF IInv
<1> HIDE DEF S
<1>5. tasks' \in [Tasks -> {Unused} \cup
                    [stage : {"spawned", "inserted", "listening"}, key : Key]]
  BY <1>1, <1>2, <1>3, SpawnedTasks
<1>6. TypeOK'
  BY <1>1, <1>4, <1>5, IdleHandler DEF TypeOK, IsForwards
<1>7. SwitchOfItsTask'
  BY <1>1, <1>2, <1>3, SwitchesSpawned DEF IInv
<1>8. ASSUME NEW k \in Key
      PROVE  Serving(k)' = Serving(k) \cup (IF k \in S THEN {chosen[k]} ELSE {})
  <2>1. Starting(k)' = Starting(k) \cup (IF k \in S THEN {chosen[k]} ELSE {})
    BY <1>1, <1>2, <1>3, StartingSpawned
  <2>2. Entered(k)' = Entered(k)
    BY <1>1 DEF Entered
  <2>. QED
    BY <2>1, <2>2 DEF Serving, Starting, Entered
<1>9. ASSUME ~overlapped', NEW k \in Key
      PROVE  IF k \in Configured' THEN \E t \in Tasks : Serving(k)' = {t}
                                  ELSE Serving(k)' = {}
  <2>1. IF k \in Configured THEN \E t \in Tasks : Serving(k) = {t} ELSE Serving(k) = {}
    BY <1>1, <1>9, IdleHandler DEF IInv, ServedAsConfigured
  <2>2. CASE k \in S
    <3>1. k.mac = mac /\ k \in Configured' /\ k \notin Configured
      BY <1>4, <2>2, KeysOfForwards DEF S
    <3>2. chosen[k] \in Tasks
      BY <1>2, <2>2 DEF Injection, Free
    <3>. QED
      BY <1>8, <2>1, <2>2, <3>1, <3>2
  <2>3. CASE k \notin S
    BY <1>4, <1>8, <2>1, <2>3
  <2>. QED
    BY <2>2, <2>3
<1>10. ServedAsConfigured' /\ ServedApart' /\ EditMatchesRegistry'
  BY <1>1, <1>4, <1>9, IdleHandler
     DEF ServedAsConfigured, ServedApart, ConfiguredApart, EditMatchesRegistry
<1>. QED
  BY <1>4, <1>6, <1>7, <1>10 DEF IInv

\* update_machine_api and delete_machine_api up to the lock on the map: the
\* registry changes for the machines that are stopped or started only.
LEMMA BeginStep ==
  ASSUME IInv, handler = Idle, UNCHANGED <<proxies, tasks, overlapped>>,
         IsForwards(machines'), ConfiguredApart',
         NEW old \in Macs, NEW S \in SUBSET Key,
         handler' = [stop |-> {old}, start |-> S],
         \A k \in Key : k \in Configured' <=>
           k \in S \/ (k \in Configured /\ k.mac # old),
         \A k \in S : k.mac # old => k \notin Configured
  PROVE  IInv'
<1>1. handler'.stop = {old} /\ handler'.start = S
  OBVIOUS
<1>2. TypeOK'
  BY DEF IInv, TypeOK, IsForwards
<1>3. SwitchOfItsTask'
  BY DEF IInv, SwitchOfItsTask
<1>4. EditMatchesRegistry'
  <2>1. Configured' \subseteq Key
    BY KeysOfRegistry DEF Configured, ConfiguredBy
  <2>. QED
    BY <1>1, <2>1 DEF EditMatchesRegistry
<1>5. \A k : Serving(k)' = Serving(k)
  BY DEF Serving
<1>6. ServedAsConfigured'
  <2> SUFFICES ASSUME ~overlapped', NEW k \in Key, k.mac # old
               PROVE  IF k \in Configured' \ S THEN \E t \in Tasks : Serving(k) = {t}
                                               ELSE Serving(k) = {}
    BY <1>1, <1>5 DEF ServedAsConfigured
  <2>1. IF k \in Configured THEN \E t \in Tasks : Serving(k) = {t} ELSE Serving(k) = {}
    BY IdleHandler DEF IInv, ServedAsConfigured
  <2>2. k \in Configured' \ S <=> k \in Configured
    OBVIOUS
  <2>. QED
    BY <2>1, <2>2
<1>7. ServedApart'
  BY <1>5 DEF IInv, ServedApart
<1>. QED
  BY <1>2, <1>3, <1>4, <1>6, <1>7 DEF IInv

LEMMA UpdateStep ==
  ASSUME IInv, NEW old \in Macs, NEW mac \in Macs, NEW forwards \in SUBSET Forward,
         update_machine_api(old, mac, forwards)
  PROVE  IInv'
<1> DEFINE S == KeysOf(mac, forwards)
<1>1. /\ handler = Idle /\ Valid(mac, forwards, {old})
      /\ handler' = [stop |-> {old}, start |-> S]
      /\ machines' = [m \in (DOMAIN machines \ {old}) \cup {mac} |->
                        IF m = mac THEN forwards ELSE machines[m]]
      /\ UNCHANGED <<proxies, tasks, overlapped>>
  BY DEF update_machine_api
<1>2. IsForwards(machines) /\ ConfiguredApart
  BY DEF IInv, TypeOK, IsForwards
<1>3. /\ IsForwards(machines') /\ ConfiguredApart'
      /\ \A k \in Key : k \in Configured' <=>
           IF k.mac = mac THEN k \in S ELSE k \in Configured /\ k.mac \notin {old}
      /\ \A k \in Configured : k.mac = mac => mac \in {old}
  BY <1>1, <1>2, KeysOfEdit
<1>4. S \in SUBSET Key /\ \A k \in S : k.mac = mac
  BY KeysOfForwards
<1> HIDE DEF S
<1>5. \A k \in Key : k \in Configured' <=> k \in S \/ (k \in Configured /\ k.mac # old)
  BY <1>3, <1>4
<1>6. \A k \in S : k.mac # old => k \notin Configured
  BY <1>3, <1>4
<1>. QED
  BY <1>1, <1>3, <1>4, <1>5, <1>6, BeginStep

LEMMA DeleteStep ==
  ASSUME IInv, NEW mac \in Macs, delete_machine_api(mac)
  PROVE  IInv'
<1>1. /\ handler = Idle
      /\ handler' = [stop |-> {mac}, start |-> {}]
      /\ DOMAIN machines' = DOMAIN machines \ {mac}
      /\ \A m \in DOMAIN machines' : machines'[m] = machines[m]
      /\ UNCHANGED <<proxies, tasks, overlapped>>
  BY DEF delete_machine_api, Restrict
<1>2. IsForwards(machines) /\ IsForwards(machines')
  BY DEF IInv, TypeOK, IsForwards, delete_machine_api, Restrict
<1>3. \A k \in Key : k \in Configured' <=> k \in Configured /\ k.mac # mac
  BY <1>1, <1>2, KeysOfRegistry DEF Configured, ConfiguredBy
<1>4. ConfiguredApart'
  <2>1. Configured' \subseteq Key
    BY <1>2, KeysOfRegistry DEF Configured, ConfiguredBy
  <2>. QED
    BY <1>3, <2>1 DEF IInv, ConfiguredApart
<1>. QED
  BY <1>1, <1>2, <1>3, <1>4, BeginStep

\* The handler has the lock on the map: what it stops and starts is in step
\* with the registry again, unless it overtakes a task.
LEMMA RestartStep ==
  ASSUME IInv, RestartForwarders
  PROVE  IInv'
<1> DEFINE S == handler.start
<1>1. /\ handler' = Idle /\ UNCHANGED machines /\ TypeOK
      /\ DOMAIN proxies' = {k \in DOMAIN proxies : ~Stopped(k)}
      /\ \A k \in DOMAIN proxies' : proxies'[k] = proxies[k]
      /\ overlapped' = (overlapped \/ \E t \in Tasks : /\ tasks[t].stage = "spawned"
                                                       /\ Stopped(tasks[t].key))
  BY DEF RestartForwarders, Restrict, IInv
<1>2. PICK chosen \in Injection(S, Free) : tasks' = Spawned(S, chosen)
  BY DEF RestartForwarders
<1>3. S \in SUBSET Key /\ S \subseteq Configured
  BY DEF IInv, TypeOK, EditMatchesRegistry
<1>4. Configured' = Configured
  BY <1>1 DEF Configured
<1>5. /\ \A k \in Configured : k.mac \in handler.stop => k \in S
      /\ ~overlapped => \A k \in Key : k.mac \notin handler.stop =>
           IF k \in Configured \ S THEN \E t \in Tasks : Serving(k) = {t} ELSE Serving(k) = {}
  BY DEF IInv, EditMatchesRegistry, ServedAsConfigured
<1> HIDE DEF S
<1>6. tasks' \in [Tasks -> {Unused} \cup
                    [stage : {"spawned", "inserted", "listening"}, key : Key]]
  BY <1>1, <1>2, <1>3, SpawnedTasks
<1>7. TypeOK'
  <2>1. proxies' \in [DOMAIN proxies' -> Tasks] /\ DOMAIN proxies' \subseteq Key
    BY <1>1 DEF RestartForwarders, Restrict, TypeOK
  <2>2. overlapped' \in BOOLEAN
    BY <1>1 DEF TypeOK
  <2>. QED
    BY <1>1, <1>6, <2>1, <2>2, IdleHandler DEF TypeOK
<1>8. SwitchOfItsTask'
  BY <1>1, <1>2, <1>3, SwitchesSpawned DEF IInv
<1>9. ConfiguredApart' /\ EditMatchesRegistry'
  BY <1>1, <1>4, IdleHandler DEF IInv, ConfiguredApart, EditMatchesRegistry
<1>10. ASSUME ~overlapped', NEW k \in Key
       PROVE  IF k \in Configured THEN \E t \in Tasks : Serving(k)' = {t}
                                  ELSE Serving(k)' = {}
  <2>1. ~overlapped /\ \A t \in Tasks : tasks[t].stage = "spawned" => ~Stopped(tasks[t].key)
    BY <1>1, <1>10
  <2>2. Starting(k)' = Starting(k) \cup (IF k \in S THEN {chosen[k]} ELSE {})
    BY <1>1, <1>2, <1>3, StartingSpawned
  <2>3. k \in S => chosen[k] \in Tasks
    BY <1>2 DEF Injection, Free
  <2>4. CASE Stopped(k)
    <3>1. Starting(k) = {} /\ Entered(k)' = {}
      BY <1>1, <2>1, <2>4 DEF Starting, Entered
    <3>2. k \in Configured <=> k \in S
      BY <1>3, <1>5, <2>4 DEF Stopped
    <3>3. Serving(k)' = IF k \in S THEN {chosen[k]} ELSE {}
      BY <2>2, <3>1 DEF Serving, Starting, Entered
    <3>. QED
      BY <2>3, <3>2, <3>3
  <2>5. CASE ~Stopped(k)
    <3>1. Entered(k)' = Entered(k)
      BY <1>1, <2>5 DEF Entered
    <3>2. Serving(k)' = Serving(k) \cup (IF k \in S THEN {chosen[k]} ELSE {})
      BY <2>2, <3>1 DEF Serving, Starting, Entered
    <3>3. IF k \in Configured \ S THEN \E t \in Tasks : Serving(k) = {t} ELSE Serving(k) = {}
      BY <1>5, <2>1, <2>5 DEF Stopped
    <3>. QED
      BY <1>3, <2>3, <3>2, <3>3
  <2>. QED
    BY <2>4, <2>5
<1>11. ServedAsConfigured' /\ ServedApart'
  <2>1. ServedAsConfigured'
    BY <1>1, <1>4, <1>10, IdleHandler DEF ServedAsConfigured
  <2>2. ServedApart'
    BY <1>10 DEF IInv, ConfiguredApart, ServedApart
  <2>. QED
    BY <2>1, <2>2
<1>. QED
  BY <1>7, <1>8, <1>9, <1>11 DEF IInv

LEMMA DisconnectStep ==
  ASSUME IInv, Disconnect
  PROVE  IInv'
<1>1. TypeOK'
  BY IdleHandler DEF Disconnect, IInv, TypeOK
<1>. QED
  BY <1>1, IdleHandler
     DEF Disconnect, IInv, ConfiguredApart, Configured, SwitchOfItsTask, EditMatchesRegistry,
         ServedAsConfigured, ServedApart

-----------------------------------------------------------------------------
(* Steps of the tasks *)

\* A spawned task enters its switch: it serves its key before and after.
LEMMA InsertStep ==
  ASSUME IInv, NEW t \in Tasks, Insert(t)
  PROVE  IInv'
<1>. PICK key \in Key : key = tasks[t].key
  BY TaskType DEF IInv, Insert
<1>1. /\ tasks[t].stage = "spawned" /\ TypeOK
      /\ DOMAIN proxies' = DOMAIN proxies \cup {key}
      /\ proxies'[key] = t
      /\ \A k \in DOMAIN proxies \ {key} : proxies'[k] = proxies[k]
      /\ tasks' = [tasks EXCEPT ![t].stage = "inserted"]
      /\ UNCHANGED <<machines, handler, overlapped>>
  BY DEF Insert, IInv
<1>2. /\ tasks[t] # Unused
      /\ tasks[t] \in [stage : {"spawned", "inserted", "listening"}, key : Key]
  BY <1>1, TaskType
<1>3. /\ tasks'[t] \in [stage : {"spawned", "inserted", "listening"}, key : Key]
      /\ tasks'[t].stage = "inserted" /\ tasks'[t].key = key
      /\ \A u \in Tasks \ {t} : tasks'[u] = tasks[u]
      /\ tasks' \in [Tasks -> {Unused} \cup
                       [stage : {"spawned", "inserted", "listening"}, key : Key]]
  <2>1. tasks'[t] = [tasks[t] EXCEPT !.stage = "inserted"]
    BY <1>1 DEF TypeOK
  <2>2. /\ tasks'[t] \in [stage : {"spawned", "inserted", "listening"}, key : Key]
        /\ tasks'[t].stage = "inserted" /\ tasks'[t].key = key
    BY <1>2, <2>1
  <2>. QED
    BY <1>1, <2>1, <2>2 DEF TypeOK
<1>4. proxies' \in [DOMAIN proxies' -> Tasks] /\ DOMAIN proxies' \subseteq Key
  BY <1>1, <1>2 DEF Insert, TypeOK
<1>5. TypeOK'
  BY <1>1, <1>3, <1>4 DEF TypeOK
<1>6. SwitchOfItsTask'
  <2> SUFFICES ASSUME NEW k \in DOMAIN proxies'
               PROVE  tasks'[proxies'[k]] = Unused \/ tasks'[proxies'[k]].key = k
    BY DEF SwitchOfItsTask
  <2>1. CASE k = key
    BY <1>1, <1>3, <2>1
  <2>2. CASE k # key
    <3>1. k \in DOMAIN proxies /\ proxies'[k] = proxies[k] /\ proxies[k] \in Tasks
      BY <1>1, <2>2 DEF TypeOK
    <3>2. tasks[proxies[k]] = Unused \/ tasks[proxies[k]].key = k
      BY <3>1 DEF IInv, SwitchOfItsTask
    <3>. QED
      BY <1>2, <1>3, <3>1, <3>2
  <2>. QED
    BY <2>1, <2>2
<1>7. Configured' = Configured
  BY <1>1 DEF Configured
<1>8. t \in Serving(key) /\ Serving(key)' = (Starting(key) \ {t}) \cup {t}
  <2>1. t \in Starting(key) /\ Starting(key)' = Starting(key) \ {t}
    BY <1>1, <1>3 DEF Starting
  <2>2. Entered(key)' = {t}
    BY <1>1 DEF Entered
  <2>. QED
    BY <2>1, <2>2 DEF Serving, Starting, Entered
<1>9. ASSUME NEW k \in Key, k # key
      PROVE  Serving(k)' = Serving(k)
  <2>1. Starting(k)' = Starting(k)
    BY <1>1, <1>3, <1>9 DEF Starting
  <2>2. Entered(k)' = Entered(k)
    BY <1>1, <1>9 DEF Entered
  <2>. QED
    BY <2>1, <2>2 DEF Serving, Starting, Entered
<1>10. ServedAsConfigured'
  <2> SUFFICES ASSUME ~overlapped, NEW k \in Key, k.mac \notin handler.stop
               PROVE  IF k \in Configured \ handler.start
                        THEN \E u \in Tasks : Serving(k)' = {u} ELSE Serving(k)' = {}
    BY <1>1, <1>7 DEF ServedAsConfigured
  <2>1. IF k \in Configured \ handler.start
          THEN \E u \in Tasks : Serving(k) = {u} ELSE Serving(k) = {}
    BY DEF IInv, ServedAsConfigured
  <2>2. CASE k = key
    <3>1. Serving(k) = {t} /\ k \in Configured \ handler.start
      BY <1>8, <2>1, <2>2
    <3>2. Starting(key) \subseteq {t}
      BY <2>2, <3>1, ServingParts
    <3>. QED
      BY <1>8, <2>2, <3>1, <3>2
  <2>3. CASE k # key
    BY <1>9, <2>1, <2>3
  <2>. QED
    BY <2>2, <2>3
<1>11. ServedApart'
  <2>1. \A k \in Key : Serving(k)' # {} => Serving(k) # {}
    BY <1>8, <1>9
  <2>. QED
    BY <1>1, <2>1 DEF IInv, ServedApart
<1>12. ConfiguredApart' /\ EditMatchesRegistry'
  BY <1>1, <1>7 DEF IInv, ConfiguredApart, EditMatchesRegistry
<1>. QED
  BY <1>5, <1>6, <1>10, <1>11, <1>12 DEF IInv

\* A task that has entered the map listens or ends; its switch stays.
LEMMA RunStep ==
  ASSUME IInv, NEW t \in Tasks, tasks[t].stage \in {"inserted", "listening"},
         NEW next \in {Unused, [tasks[t] EXCEPT !.stage = "listening"]},
         tasks' = [tasks EXCEPT ![t] = next],
         UNCHANGED <<machines, proxies, handler, overlapped>>
  PROVE  IInv'
<1>1. /\ TypeOK /\ tasks[t] # Unused
      /\ tasks[t] \in [stage : {"spawned", "inserted", "listening"}, key : Key]
  BY TaskType DEF IInv
<1>2. /\ next = Unused \/ next.key = tasks[t].key
      /\ next.stage # "spawned"
      /\ next \in {Unused} \cup [stage : {"spawned", "inserted", "listening"}, key : Key]
  BY <1>1, UnusedStage
<1>3. /\ tasks'[t] = next
      /\ \A u \in Tasks \ {t} : tasks'[u] = tasks[u]
      /\ tasks' \in [Tasks -> {Unused} \cup
                       [stage : {"spawned", "inserted", "listening"}, key : Key]]
  BY <1>1, <1>2 DEF TypeOK
<1>4. TypeOK'
  BY <1>1, <1>3 DEF TypeOK
<1>5. SwitchOfItsTask'
  <2> SUFFICES ASSUME NEW k \in DOMAIN proxies
               PROVE  tasks'[proxies[k]] = Unused \/ tasks'[proxies[k]].key = k
    BY DEF SwitchOfItsTask
  <2>1. proxies[k] \in Tasks /\ (tasks[proxies[k]] = Unused \/ tasks[proxies[k]].key = k)
    BY <1>1 DEF IInv, SwitchOfItsTask, TypeOK
  <2>. QED
    BY <1>1, <1>2, <1>3, <2>1
<1>6. \A k : Serving(k)' = Serving(k)
  <2>1. \A u \in Tasks : tasks'[u].stage = "spawned" => tasks'[u] = tasks[u]
    BY <1>2, <1>3
  <2>2. \A u \in Tasks : tasks[u].stage = "spawned" => tasks'[u] = tasks[u]
    BY <1>3
  <2>. QED
    BY <2>1, <2>2 DEF Serving
<1>7. Configured' = Configured
  BY DEF Configured
<1>. QED
  BY <1>4, <1>5, <1>6, <1>7
     DEF IInv, ConfiguredApart, EditMatchesRegistry, ServedAsConfigured, ServedApart

LEMMA TaskStep ==
  ASSUME IInv, NEW t \in Tasks, Insert(t) \/ Bind(t) \/ Stop(t) \/ AcceptError(t)
  PROVE  IInv'
<1>1. CASE Bind(t)
  <2>1. PICK next \in {Unused, [tasks[t] EXCEPT !.stage = "listening"]} :
          tasks' = [tasks EXCEPT ![t] = next]
    BY <1>1 DEF Bind
  <2>. QED
    BY <1>1, <2>1, RunStep DEF Bind
<1>2. CASE Stop(t)
  BY <1>2, RunStep DEF Stop
<1>3. CASE AcceptError(t)
  BY <1>3, RunStep DEF AcceptError
<1>. QED
  BY <1>1, <1>2, <1>3, InsertStep

LEMMA NextIInv == IInv /\ [Next]_vars => IInv'
<1> SUFFICES ASSUME IInv, [Next]_vars
             PROVE  IInv'
  OBVIOUS
<1>1. CASE UNCHANGED vars
  BY <1>1 DEF vars, IInv, TypeOK, ConfiguredApart, Configured, SwitchOfItsTask,
              EditMatchesRegistry, ServedAsConfigured, ServedApart, Serving
<1>. QED
  BY <1>1, AddStep, UpdateStep, DeleteStep, RestartStep, DisconnectStep, TaskStep DEF Next

THEOREM Invariance == Spec => []IInv
<1>. QED
  BY InitIInv, NextIInv, PTL DEF Spec

-----------------------------------------------------------------------------
(* The theorems *)

\* Tasks, map, registry and handler keep their types.
THEOREM TypeCorrect == Spec => []TypeOK
<1>1. IInv => TypeOK
  BY DEF IInv
<1>. QED
  BY <1>1, Invariance, PTL

\* As long as no edit overtakes a task, between handlers one task serves each
\* configured forward and none any other, for any number of machines.
THEOREM ServedExactlyOnce == Spec => []OneTaskPerForward
<1>1. ASSUME IInv, ~overlapped, handler = Idle, NEW k \in Key
      PROVE  Cardinality(Serving(k)) = IF k \in Configured THEN 1 ELSE 0
  <2>1. IF k \in Configured THEN \E t \in Tasks : Serving(k) = {t} ELSE Serving(k) = {}
    BY <1>1, IdleHandler DEF IInv, ServedAsConfigured
  <2>. QED
    BY <2>1, FS_EmptySet, FS_Singleton
<1>2. IInv => OneTaskPerForward
  BY <1>1 DEF OneTaskPerForward
<1>. QED
  BY <1>2, Invariance, PTL

\* A forwarder in service that fails to bind lost its port to one that has
\* been told to stop, never to another in service.
THEOREM BindLosesToStopping == Spec => BindFailsOnlyForStopping
<1> DEFINE LostToStopping ==
      \A t \in Held :
        ~overlapped /\ tasks[t].stage = "inserted" /\ tasks'[t] = Unused =>
          \E u \in Tasks \ Held : /\ tasks[u].stage = "listening"
                                  /\ tasks[u].key.port = tasks[t].key.port
<1>1. IInv /\ [Next]_vars => [LostToStopping]_vars
  <2> SUFFICES ASSUME IInv, Next, NEW t \in Held,
                      ~overlapped, tasks[t].stage = "inserted", tasks'[t] = Unused
               PROVE  \E u \in Tasks \ Held : /\ tasks[u].stage = "listening"
                                              /\ tasks[u].key.port = tasks[t].key.port
    OBVIOUS
  <2>1. /\ t \in Tasks /\ tasks[t] # Unused /\ TypeOK
        /\ tasks[t] \in [stage : {"spawned", "inserted", "listening"}, key : Key]
    BY UnusedStage DEF IInv, TypeOK, Held
  <2>2. Bind(t)
    <3>1. tasks'[t] # tasks[t]
      BY <2>1
    <3>2. ASSUME NEW S \in SUBSET Key, NEW chosen \in Injection(S, Free),
                 tasks' = Spawned(S, chosen)
          PROVE  FALSE
      <4>1. \A k \in S : chosen[k] # t
        BY <2>1, <3>2 DEF Injection, Free
      <4>. QED
        BY <2>1, <3>1, <3>2, <4>1 DEF Spawned
    <3>3. \A mac \in Macs, forwards \in SUBSET Forward : ~add_machine_api(mac, forwards)
      BY <3>2, KeysOfForwards DEF add_machine_api
    <3>4. ~RestartForwarders
      BY <2>1, <3>2 DEF RestartForwarders, TypeOK
    <3>5. \A u \in Tasks \ {t} : tasks'[t] = tasks[t] \/ ~(Insert(u) \/ Bind(u) \/ Stop(u) \/ AcceptError(u))
      BY <2>1 DEF Insert, Bind, Stop, AcceptError, TypeOK
    <3>6. ~Insert(t) /\ ~Stop(t) /\ ~AcceptError(t)
      BY <2>1 DEF Insert, Stop, AcceptError
    <3>. QED
      BY <3>1, <3>3, <3>4, <3>5, <3>6
         DEF Next, update_machine_api, delete_machine_api, Disconnect
  <2>3. Listening(tasks[t].key.port)
    <3>1. tasks'[t] = IF Listening(tasks[t].key.port) THEN Unused
                      ELSE [tasks[t] EXCEPT !.stage = "listening"]
      BY <2>1, <2>2 DEF Bind, TypeOK
    <3>2. [tasks[t] EXCEPT !.stage = "listening"].stage = "listening"
      BY <2>1
    <3>. QED
      BY <3>1, <3>2, UnusedStage
  <2>4. PICK u \in Tasks : tasks[u].stage = "listening" /\ tasks[u].key.port = tasks[t].key.port
    BY <2>3 DEF Listening
  <2>5. tasks[u] # Unused /\ tasks[u].key \in Key
    BY <2>1, <2>4, TaskType
  <2>6. u \notin Held
    <3>1. SUFFICES ASSUME u \in Held
                   PROVE  FALSE
      OBVIOUS
    <3>2. PICK k \in DOMAIN proxies : proxies[k] = t
      BY DEF Held
    <3>3. PICK l \in DOMAIN proxies : proxies[l] = u
      BY <3>1 DEF Held
    <3>4. k \in Key /\ l \in Key /\ tasks[t].key = k /\ tasks[u].key = l
      BY <2>1, <2>5, <3>2, <3>3 DEF IInv, SwitchOfItsTask, TypeOK
    <3>5. Serving(k) # {} /\ Serving(l) # {}
      BY <3>2, <3>3 DEF Serving
    <3>6. k = l
      BY <2>4, <3>4, <3>5 DEF IInv, ServedApart
    <3>. QED
      BY <2>4, <3>2, <3>3, <3>6
  <2>. QED
    BY <2>4, <2>6
<1>. QED
  BY <1>1, Invariance, PTL DEF Spec, BindFailsOnlyForStopping

-----------------------------------------------------------------------------
(* Connections: one machine behind the proxy                               *)

\* What a connection that nothing has gone wrong for knows of the machine: while
\* it waits, the machine is up or comes up in time; the check that was under way
\* when it came up ends, with the pause after it, before the deadline; a check or
\* an attempt to connect that began since succeeds.
Fits(r, p) ==
  /\ r.dropped => r.lost
  /\ ~r.lost =>
       /\ r.stage \in {"loop", "poll", "pause"} =>
            \/ p.state = "up"
            \/ p.state = "waking" /\ (WaitTime - r.deadline) + p.timer <= BootTime
       /\ r.stage = "loop" => WaitTime - r.deadline <= BootTime + CheckTimeout + Pause
       /\ r.stage = "poll" =>
            IF r.failing THEN (WaitTime - r.deadline) + r.timer <= BootTime + CheckTimeout
                         ELSE p.state = "up"
       /\ r.stage = "pause" =>
            (WaitTime - r.deadline) + r.timer <= BootTime + CheckTimeout + Pause
       /\ r.stage = "connect" => ~r.failing /\ p.state = "up"

WakeInv ==
  /\ WakeTypeOK
  /\ power.state = "waking" => power.timer <= BootTime
  /\ \A c \in Conns : Fits(conn[c], power)

LEMMA Times ==
  /\ Window \in Nat /\ CheckTimeout \in Nat /\ Pause \in Nat /\ WaitTime \in Nat
  /\ ConnectTimeout \in Nat /\ HttpTimeout \in Nat /\ SuspendDelay \in Nat
  /\ SuspendTime \in Nat /\ BootTime \in Nat
  /\ BootTime + CheckTimeout + Pause < WaitTime
  /\ MaxTimer \in Nat
  /\ {CheckTimeout, Pause, ConnectTimeout, HttpTimeout, SuspendDelay, SuspendTime,
      BootTime, 0} \subseteq 0 .. MaxTimer
<1>1. /\ Window \in Nat /\ CheckTimeout \in Nat /\ Pause \in Nat /\ WaitTime \in Nat
      /\ ConnectTimeout \in Nat /\ HttpTimeout \in Nat /\ SuspendDelay \in Nat
      /\ SuspendTime \in Nat /\ BootTime \in Nat
      /\ BootTime + CheckTimeout + Pause < WaitTime
  BY WakeAssumption
<1>. QED
  BY <1>1 DEF MaxTimer

LEMMA ConnFields ==
  ASSUME WakeInv, NEW c \in Conns
  PROVE  /\ conn[c] \in Conn /\ Fits(conn[c], power)
         /\ conn[c].stage \in Stages /\ conn[c].timer \in 0 .. MaxTimer
         /\ conn[c].deadline \in 0 .. WaitTime /\ conn[c].failing \in BOOLEAN
         /\ conn[c].lost \in BOOLEAN /\ conn[c].dropped \in BOOLEAN
<1>1. conn[c] \in Conn
  BY DEF WakeInv, WakeTypeOK
<1>. QED
  BY <1>1 DEF WakeInv, Conn

LEMMA PowerFields ==
  ASSUME WakeInv
  PROVE  /\ power \in [state : {"up", "suspending", "asleep", "waking"}, timer : 0 .. MaxTimer]
         /\ power.state \in {"up", "suspending", "asleep", "waking"}
         /\ power.timer \in 0 .. MaxTimer
<1>1. power \in [state : {"up", "suspending", "asleep", "waking"}, timer : 0 .. MaxTimer]
  BY DEF WakeInv, WakeTypeOK
<1>. QED
  BY <1>1

\* The steps of one connection but the sending of packets leave the machine alone.
LEMMA OneConnection ==
  ASSUME WakeInv, NEW c \in Conns, NEW next \in Conn, Connection(c, next),
         Fits(next, power), idle' \in 0 .. (Window + 1), triggered' \in BOOLEAN, excused' \in BOOLEAN
  PROVE  WakeInv'
<1>1. conn' = [conn EXCEPT ![c] = next] /\ UNCHANGED <<power, request>>
  BY DEF Connection
<1>2. conn \in [Conns -> Conn]
  BY DEF WakeInv, WakeTypeOK
<1>3. conn' \in [Conns -> Conn] /\ \A d \in Conns : conn'[d] = IF d = c THEN next ELSE conn[d]
  BY <1>1, <1>2
<1>4. \A d \in Conns : Fits(conn'[d], power)
  BY <1>3 DEF WakeInv
<1>5. \A d \in Conns : Fits(conn[d], power)'
  BY <1>1, <1>4 DEF Fits
<1>6. /\ power \in [state : {"up", "suspending", "asleep", "waking"}, timer : 0 .. MaxTimer]
      /\ request \in [Requests -> [state : {"free", "sent", "thread"}, timer : 0 .. MaxTimer]]
  BY DEF WakeInv, WakeTypeOK
<1>7. WakeTypeOK'
  BY <1>1, <1>3, <1>6 DEF WakeTypeOK, MaxTimer, Conn, Stages
<1>. QED
  BY <1>1, <1>5, <1>7 DEF WakeInv

LEMMA DropFields ==
  ASSUME WakeInv, NEW c \in Conns
  PROVE  /\ Closed \in Conn
         /\ Drop(c) \in Conn /\ Drop(c).stage = "closed"
         /\ Drop(c).dropped = TRUE /\ Drop(c).lost = conn[c].lost
<1>1. Closed \in Conn
  BY Times DEF Closed, Conn, Stages
<1>2. /\ Drop(c).stage = "closed" /\ Drop(c).dropped = TRUE
      /\ Drop(c).lost = conn[c].lost
  BY DEF Drop, Closed
<1>3. Drop(c) = [Closed EXCEPT !.dropped = TRUE, !.lost = conn[c].lost]
  BY DEF Drop
<1>4. Drop(c) \in Conn
  BY <1>1, <1>3, ConnFields DEF Conn
<1>. QED
  BY <1>1, <1>2, <1>4

LEMMA ConnectionKeeps ==
  ASSUME WakeInv, NEW c \in Conns,
         \/ accept(c) \/ close(c) \/ update_last_request(c) \/ tcp_check(c)
         \/ loop(c) \/ poll(c) \/ sleep(c) \/ connect(c)
  PROVE  WakeInv'
<1>. USE Times, ConnFields, PowerFields
<1>1. idle \in 0 .. (Window + 1) /\ triggered \in BOOLEAN /\ excused \in BOOLEAN
  BY DEF WakeInv, WakeTypeOK
<1>2. Closed \in Conn /\ Fits(Closed, power)
  BY DEF Closed, Conn, Stages, Fits
<1>3. /\ Drop(c) \in Conn /\ Drop(c).stage = "closed"
      /\ Drop(c).dropped = TRUE /\ Drop(c).lost = conn[c].lost
  BY DropFields
<1>4. ASSUME NEW stage \in Stages, NEW t \in 0 .. MaxTimer
      PROVE  LET a == Attempt(c, stage, t)
             IN  /\ a \in Conn /\ a.stage = stage /\ a.timer = t /\ a.failing = ~Up
                 /\ a.lost = conn[c].lost /\ a.dropped = conn[c].dropped
                 /\ a.deadline = conn[c].deadline
  BY DEF Attempt, Conn, Up
<1>5. CASE accept(c)
  <2> DEFINE next == [Closed EXCEPT !.stage = "accepted"]
  <2>0. next \in Conn /\ next.stage = "accepted" /\ next.dropped = FALSE
    BY <1>2 DEF Closed, Conn, Stages
  <2>1. next \in Conn /\ Fits(next, power)
    <3>. HIDE DEF next
    <3>. QED
      BY <2>0 DEF Fits
  <2>. QED
    BY <1>1, <1>5, <2>1, OneConnection DEF accept
<1>6. CASE close(c)
  BY <1>1, <1>2, <1>6, OneConnection DEF close, Timer
<1>7. CASE update_last_request(c)
  <2>1. PICK a : a = Attempt(c, "check", CheckTimeout)
    OBVIOUS
  <2>2. a \in Conn /\ a.stage = "check" /\ a.dropped = conn[c].dropped /\ a.lost = conn[c].lost
    BY <1>4, <2>1 DEF Stages
  <2>3. Fits(a, power)
    BY <2>2 DEF Fits
  <2>4. Connection(c, a) /\ idle' = 0 /\ triggered' = FALSE /\ excused' = FALSE
    BY <1>7, <2>1 DEF update_last_request
  <2>5. triggered' \in BOOLEAN /\ excused' \in BOOLEAN
    BY <2>4, Zenon
  <2>6. idle' \in 0 .. (Window + 1)
    <3>1. idle' = 0 /\ Window \in Nat
      BY <2>4
    <3>. QED
      BY <3>1
  <2>. QED
    BY <2>2, <2>3, <2>4, <2>5, <2>6, OneConnection
<1>8. ASSUME NEW next \in Conn, Fits(next, power), Connection(c, next),
             UNCHANGED Timer
      PROVE  WakeInv'
  BY <1>1, <1>8, OneConnection DEF Timer
<1>9. ASSUME Up, NEW a, a = Attempt(c, "connect", ConnectTimeout)
      PROVE  a \in Conn /\ Fits(a, power)
  <2>1. /\ a \in Conn /\ a.stage = "connect" /\ a.dropped = conn[c].dropped
        /\ a.lost = conn[c].lost /\ ~a.failing
    <3>1. "connect" \in Stages /\ ConnectTimeout \in 0 .. MaxTimer
      BY DEF Stages
    <3>. QED
      BY <1>4, <1>9, <3>1
  <2>. QED
    BY <1>9, <2>1 DEF Fits, Up
<1>10. CASE tcp_check(c)
  <2>1. CASE Up /\ Connection(c, Attempt(c, "connect", ConnectTimeout))
    BY <1>8, <1>9, <1>10, <2>1 DEF tcp_check
  <2> DEFINE next == [conn[c] EXCEPT !.stage = "send", !.failing = FALSE]
  <2>2. next \in Conn /\ next.stage = "send" /\ next.lost = conn[c].lost
        /\ next.dropped = conn[c].dropped
    BY DEF Conn, Stages
  <2>3. Fits(next, power)
    <3>. HIDE DEF next
    <3>. QED
      BY <2>2 DEF Fits
  <2>4. CASE Connection(c, next)
    BY <1>8, <1>10, <2>2, <2>3, <2>4 DEF tcp_check
  <2>. QED
    BY <1>10, <2>1, <2>4 DEF tcp_check
<1>11. CASE loop(c)
  <2>1. PICK a : a = Attempt(c, "poll", CheckTimeout)
    OBVIOUS
  <2>2. /\ a \in Conn /\ a.stage = "poll" /\ a.timer = CheckTimeout /\ a.failing = ~Up
        /\ a.lost = conn[c].lost /\ a.dropped = conn[c].dropped /\ a.deadline = conn[c].deadline
    BY <1>4, <2>1 DEF Stages
  <2>3. Fits(a, power)
    <3>1. conn[c].stage = "loop"
      BY <1>11 DEF loop
    <3>2. CASE power.state = "up"
      BY <2>2, <3>1, <3>2 DEF Fits, Up
    <3>3. CASE power.state # "up"
      <4>1. a.failing = TRUE
        BY <2>2, <3>3 DEF Up
      <4>2. a.deadline \in 0 .. WaitTime /\ power.timer \in Nat
        BY <2>2
      <4>. QED
        BY <2>2, <3>1, <3>3, <4>1, <4>2 DEF Fits
    <3>. QED
      BY <3>2, <3>3
  <2>4. ASSUME conn[c].deadline = 0 PROVE Fits(Drop(c), power)
    <3>1. conn[c].lost
      BY <1>11, <2>4 DEF Fits, loop
    <3>. QED
      BY <1>3, <3>1 DEF Fits
  <2>. QED
    BY <1>3, <1>8, <1>11, <2>1, <2>2, <2>3, <2>4 DEF loop
<1>12. CASE poll(c)
  <2>1. CASE Up /\ Connection(c, Attempt(c, "connect", ConnectTimeout))
    BY <1>8, <1>9, <1>12, <2>1 DEF poll
  <2> DEFINE next == [conn[c] EXCEPT !.stage = "pause", !.timer = Pause, !.failing = FALSE]
  <2>2. /\ next \in Conn /\ next.stage = "pause" /\ next.timer = Pause
        /\ next.lost = conn[c].lost /\ next.dropped = conn[c].dropped
        /\ next.deadline = conn[c].deadline
    BY DEF Conn, Stages
  <2>3. CASE Fails(c) /\ Connection(c, next)
    <3>1. Fits(next, power)
      <4>. HIDE DEF next
      <4>. QED
        BY <1>12, <2>2, <2>3 DEF Fits, Fails, Up, poll
    <3>. QED
      BY <1>8, <1>12, <2>2, <2>3, <3>1 DEF poll
  <2>. QED
    BY <1>12, <2>1, <2>3 DEF poll
<1>13. CASE sleep(c)
  <2> DEFINE next == [conn[c] EXCEPT !.stage = "loop"]
  <2>1. /\ next \in Conn /\ next.stage = "loop" /\ next.lost = conn[c].lost
        /\ next.dropped = conn[c].dropped /\ next.deadline = conn[c].deadline
    BY DEF Conn, Stages
  <2>2. Fits(next, power)
    <3>. HIDE DEF next
    <3>. QED
      BY <1>13, <2>1 DEF Fits, sleep
  <2>. QED
    BY <1>8, <1>13, <2>1, <2>2 DEF sleep
<1>14. CASE connect(c)
  <2> DEFINE next == [Closed EXCEPT !.stage = "copy"]
  <2>0. next \in Conn /\ next.stage = "copy" /\ next.dropped = FALSE
    BY <1>2 DEF Closed, Conn, Stages
  <2>1. next \in Conn /\ Fits(next, power)
    <3>. HIDE DEF next
    <3>. QED
      BY <2>0 DEF Fits
  <2>2. ASSUME Fails(c) PROVE Fits(Drop(c), power)
    <3>1. conn[c].lost
      BY <1>14, <2>2 DEF Fits, connect, Fails, Up
    <3>. QED
      BY <1>3, <3>1 DEF Fits
  <2>. QED
    BY <1>3, <1>8, <1>14, <2>1, <2>2 DEF connect
<1>. QED
  BY <1>5, <1>6, <1>7, <1>10, <1>11, <1>12, <1>13, <1>14

LEMMA PacketsKeep ==
  ASSUME WakeInv, NEW c \in Conns, send_packets(c)
  PROVE  WakeInv'
<1>. USE Times, ConnFields, PowerFields
<1>1. PICK arrive \in BOOLEAN, error \in BOOLEAN :
        LET next == IF error THEN Drop(c)
                    ELSE [conn[c] EXCEPT !.stage = "loop", !.deadline = WaitTime]
        IN  /\ IF arrive THEN MagicPackets ELSE UNCHANGED power
            /\ conn' = [conn EXCEPT ![c] = [next EXCEPT !.lost =
                         @ \/ error \/ ~arrive \/ power.state = "suspending"]]
  BY DEF send_packets
<1> DEFINE next == IF error THEN Drop(c)
                   ELSE [conn[c] EXCEPT !.stage = "loop", !.deadline = WaitTime]
           sent == [next EXCEPT !.lost = @ \/ error \/ ~arrive \/ power.state = "suspending"]
<1>2. /\ IF arrive THEN MagicPackets ELSE UNCHANGED power
      /\ conn' = [conn EXCEPT ![c] = sent]
      /\ UNCHANGED <<request, idle, triggered, excused>>
  BY <1>1 DEF send_packets, Timer
<1>3. \/ power' = power
      \/ arrive /\ power.state = "asleep" /\ power' = [state |-> "waking", timer |-> BootTime]
  BY <1>2 DEF MagicPackets
<1>4. arrive /\ power.state = "asleep" => power'.state = "waking" /\ power'.timer = BootTime
  BY <1>2 DEF MagicPackets
<1>5. /\ power' \in [state : {"up", "suspending", "asleep", "waking"}, timer : 0 .. MaxTimer]
      /\ power'.state = "waking" => power'.timer <= BootTime
  BY <1>3 DEF WakeInv
<1>6. next \in Conn /\ (error => next.dropped = TRUE) /\ (~error => next.stage = "loop")
      /\ (~error => next.deadline = WaitTime /\ next.dropped = conn[c].dropped)
      /\ next.lost = conn[c].lost /\ (error => next.stage = "closed")
  <2>1. CASE error
    BY <2>1, DropFields
  <2>2. CASE ~error
    <3>1. next = [conn[c] EXCEPT !.stage = "loop", !.deadline = WaitTime]
      BY <2>2
    <3>2. WaitTime \in 0 .. WaitTime /\ "loop" \in Stages
      BY DEF Stages
    <3>. QED
      BY <2>2, <3>1, <3>2 DEF Conn
  <2>. QED
    BY <2>1, <2>2
<1>. HIDE DEF next
<1>7. /\ sent \in Conn /\ sent.stage = next.stage /\ sent.deadline = next.deadline
      /\ sent.dropped = next.dropped
      /\ sent.lost = (next.lost \/ error \/ ~arrive \/ power.state = "suspending")
  BY <1>6 DEF Conn
<1>. HIDE DEF sent
<1>8. Fits(sent, power')
  <2>1. sent.dropped => sent.lost
    BY <1>6, <1>7 DEF Fits
  <2>2. ASSUME ~sent.lost
        PROVE  /\ sent.stage = "loop" /\ sent.deadline = WaitTime
               /\ \/ power'.state = "up"
                  \/ power'.state = "waking" /\ power'.timer <= BootTime
    BY <1>3, <1>4, <1>5, <1>6, <1>7, <2>2
  <2>3. power'.timer \in Nat /\ WaitTime - WaitTime = 0
    BY <1>5
  <2>. QED
    BY <2>1, <2>2, <2>3 DEF Fits
<1>9. ASSUME NEW d \in Conns, d # c PROVE Fits(conn[d], power')
  BY <1>3, ConnFields DEF Fits
<1>10. conn' \in [Conns -> Conn]
  BY <1>2, <1>7 DEF WakeInv, WakeTypeOK
<1>11. \A d \in Conns : Fits(conn'[d], power')
  <2>1. \A d \in Conns : conn'[d] = IF d = c THEN sent ELSE conn[d]
    BY <1>2 DEF WakeInv, WakeTypeOK
  <2>. QED
    BY <1>8, <1>9, <2>1
<1>12. WakeTypeOK'
  BY <1>2, <1>5, <1>10 DEF WakeInv, WakeTypeOK, MaxTimer, Conn, Stages
<1>. QED
  BY <1>5, <1>11, <1>12 DEF WakeInv

\* A second passes: where the machine comes up in time it still does.
LEMMA TickFits ==
  ASSUME WakeInv, NEW c \in Conns, Tick
  PROVE  conn'[c] \in Conn /\ Fits(conn'[c], power')
<1>. USE Times, ConnFields, PowerFields
<1>1. /\ ~Due(c) /\ (power.state \in {"suspending", "waking"} => power.timer > 0)
      /\ power' = [power EXCEPT !.timer = Minus1(@)]
      /\ conn'[c] = [conn[c] EXCEPT !.timer = Minus1(@), !.deadline = Minus1(@)]
  BY DEF Tick
<1>2. power'.state = power.state /\ power'.timer = IF power.timer = 0 THEN 0 ELSE power.timer - 1
  BY <1>1 DEF Minus1
<1> DEFINE r == conn[c]
           s == conn'[c]
<1>3. /\ s \in Conn /\ s.stage = r.stage /\ s.failing = r.failing /\ s.lost = r.lost
      /\ s.dropped = r.dropped
      /\ s.timer = IF r.timer = 0 THEN 0 ELSE r.timer - 1
      /\ s.deadline = IF r.deadline = 0 THEN 0 ELSE r.deadline - 1
  <2>1. PICK t, d : t = Minus1(r.timer) /\ d = Minus1(r.deadline)
    OBVIOUS
  <2>2. /\ t = (IF r.timer = 0 THEN 0 ELSE r.timer - 1) /\ t \in 0 .. MaxTimer
        /\ d = (IF r.deadline = 0 THEN 0 ELSE r.deadline - 1) /\ d \in 0 .. WaitTime
    BY <2>1 DEF Minus1
  <2>3. s = [r EXCEPT !.timer = t, !.deadline = d] /\ r \in Conn
    BY <1>1, <2>1
  <2>. HIDE DEF r, s
  <2>. QED
    BY <2>2, <2>3 DEF Conn
<1>4. /\ r.stage # "loop"
      /\ r.stage \in {"poll", "pause", "connect"} => r.timer # 0
      /\ r.stage \in {"poll", "connect"} /\ power.state = "up" => r.failing
  BY <1>1 DEF Due, Up
<1>5. Fits(r, power) /\ r.deadline \in 0 .. WaitTime /\ r.timer \in Nat /\ power.timer \in Nat
      /\ r.lost \in BOOLEAN /\ r.dropped \in BOOLEAN /\ r.failing \in BOOLEAN
  OBVIOUS
<1>. HIDE DEF r, s
<1>6. Fits(s, power')
  <2>1. s.dropped => s.lost
    BY <1>3, <1>5 DEF Fits
  <2>2. CASE r.stage = "poll" /\ ~r.lost
    <3>1. r.failing
      BY <1>4, <1>5, <2>2 DEF Fits
    <3>2. r.deadline # 0
      BY <1>4, <1>5, <2>2, <3>1 DEF Fits
    <3>. QED
      BY <1>1, <1>2, <1>3, <1>4, <1>5, <2>1, <2>2, <3>1, <3>2 DEF Fits
  <2>3. CASE r.stage = "pause" /\ ~r.lost
    <3>1. r.deadline # 0
      BY <1>4, <1>5, <2>3 DEF Fits
    <3>. QED
      BY <1>1, <1>2, <1>3, <1>4, <1>5, <2>1, <2>3, <3>1 DEF Fits
  <2>4. CASE r.lost \/ r.stage \notin {"poll", "pause"}
    BY <1>2, <1>3, <1>4, <1>5, <2>1, <2>4 DEF Fits
  <2>. QED
    BY <2>2, <2>3, <2>4
<1>. QED
  BY <1>3, <1>6 DEF s

\* What the other steps leave as it is.
LEMMA WakeInvFrom ==
  ASSUME power' \in [state : {"up", "suspending", "asleep", "waking"}, timer : 0 .. MaxTimer],
         power'.state = "waking" => power'.timer <= BootTime,
         conn' \in [Conns -> Conn], \A c \in Conns : Fits(conn'[c], power'),
         request' \in [Requests -> [state : {"free", "sent", "thread"}, timer : 0 .. MaxTimer]],
         idle' \in 0 .. (Window + 1), triggered' \in BOOLEAN, excused' \in BOOLEAN
  PROVE  WakeInv'
  BY DEF WakeInv, WakeTypeOK, MaxTimer, Conn, Stages

LEMMA OtherFields ==
  ASSUME WakeInv
  PROVE  /\ conn \in [Conns -> Conn]
         /\ request \in [Requests -> [state : {"free", "sent", "thread"}, timer : 0 .. MaxTimer]]
         /\ idle \in 0 .. (Window + 1) /\ triggered \in BOOLEAN /\ excused \in BOOLEAN
         /\ power.state = "waking" => power.timer <= BootTime
         /\ \A c \in Conns : Fits(conn[c], power)
  BY DEF WakeInv, WakeTypeOK

LEMMA TickKeeps ==
  ASSUME WakeInv, Tick
  PROVE  WakeInv'
<1>. USE Times, PowerFields, OtherFields
<1>1. \A n \in 0 .. MaxTimer : Minus1(n) \in 0 .. MaxTimer /\ Minus1(n) <= n
  BY DEF Minus1
<1>2. power' = [power EXCEPT !.timer = Minus1(@)]
  BY DEF Tick
<1>3. power'.state = power.state /\ power'.timer = Minus1(power.timer)
  BY <1>2
<1>4. power' \in [state : {"up", "suspending", "asleep", "waking"}, timer : 0 .. MaxTimer]
  BY <1>1, <1>2
<1>5. power'.state = "waking" => power'.timer <= BootTime
  BY <1>1, <1>3
<1>6. conn' \in [Conns -> Conn] /\ \A c \in Conns : Fits(conn'[c], power')
  <2>1. \E f : conn' = [c \in Conns |-> f[c]]
    <3>1. conn' = [c \in Conns |-> conn'[c]]
      BY DEF Tick
    <3>. QED
      BY <3>1
  <2>. QED
    BY <2>1, TickFits
<1>7. request' \in [Requests -> [state : {"free", "sent", "thread"}, timer : 0 .. MaxTimer]]
  <2>1. ASSUME NEW r \in Requests
        PROVE  [request[r] EXCEPT !.timer = Minus1(@)]
                 \in [state : {"free", "sent", "thread"}, timer : 0 .. MaxTimer]
    BY <1>1
  <2>2. request' = [r \in Requests |-> IF Running(r) THEN [request[r] EXCEPT !.timer = Minus1(@)]
                                       ELSE request[r]]
    BY DEF Tick
  <2>. QED
    BY <2>1, <2>2
<1>8. idle' \in 0 .. (Window + 1) /\ triggered' \in BOOLEAN /\ excused' \in BOOLEAN
  <2>1. idle' = (IF idle > Window THEN idle ELSE idle + 1) /\ UNCHANGED <<triggered, excused>>
    BY DEF Tick, Older
  <2>2. idle' \in 0 .. (Window + 1)
    <3>1. Window \in Nat /\ idle \in 0 .. (Window + 1)
      OBVIOUS
    <3>. QED
      BY <2>1, <3>1
  <2>3. triggered' \in BOOLEAN /\ excused' \in BOOLEAN
    BY <2>1
  <2>. QED
    BY <2>2, <2>3
<1>. QED
  BY <1>4, <1>5, <1>6, <1>7, <1>8, WakeInvFrom

\* A suspended machine costs every connection that waits for it its packets.
LEMMA SuspendKeeps ==
  ASSUME WakeInv, NEW r \in Requests, Suspend(r)
  PROVE  WakeInv'
<1>. USE Times, PowerFields, OtherFields
<1>1. power' = [state |-> "suspending", timer |-> SuspendTime] /\ UNCHANGED <<idle, triggered, excused>>
  BY DEF Suspend, Timer
<1>2. request' \in [Requests -> [state : {"free", "sent", "thread"}, timer : 0 .. MaxTimer]]
  BY DEF Suspend, NoRequest
<1> DEFINE after(c) == [conn[c] EXCEPT !.lost = TRUE,
                                       !.failing = conn[c].stage \in {"check", "poll", "connect"}]
<1>3. conn' = [c \in Conns |-> IF Open(c) /\ conn[c].stage # "copy" THEN after(c) ELSE conn[c]]
  BY DEF Suspend
<1>4. ASSUME NEW c \in Conns PROVE after(c) \in Conn /\ after(c).lost = TRUE
  <2>1. conn[c] \in Conn
    OBVIOUS
  <2>2. CASE conn[c].stage \in {"check", "poll", "connect"}
    <3>1. after(c) = [conn[c] EXCEPT !.lost = TRUE, !.failing = TRUE]
      BY <2>2
    <3>. QED
      BY <2>1, <3>1 DEF Conn
  <2>3. CASE conn[c].stage \notin {"check", "poll", "connect"}
    <3>0. (conn[c].stage \in {"check", "poll", "connect"}) = FALSE
      BY <2>3
    <3>1. after(c) = [conn[c] EXCEPT !.lost = TRUE, !.failing = FALSE]
      BY <3>0, Zenon DEF after
    <3>. QED
      BY <2>1, <3>1 DEF Conn
  <2>. QED
    BY <2>2, <2>3
<1>. HIDE DEF after
<1>5. conn' \in [Conns -> Conn]
  BY <1>3, <1>4
<1>6. ASSUME NEW c \in Conns PROVE Fits(conn'[c], power')
  <2>1. CASE Open(c) /\ conn[c].stage # "copy"
    BY <1>3, <1>4, <2>1 DEF Fits
  <2>2. CASE ~Open(c) \/ conn[c].stage = "copy"
    <3>1. conn'[c] = conn[c] /\ conn[c].stage \in {"closed", "copy"}
      BY <1>3, <2>2 DEF Open
    <3>. QED
      BY <3>1 DEF Fits
  <2>. QED
    BY <2>1, <2>2
<1>. QED
  BY <1>1, <1>2, <1>5, <1>6, WakeInvFrom

LEMMA MachineKeeps ==
  ASSUME WakeInv,
         \/ Asleep \/ Boot \/ execute_wake
         \/ \E r \in Requests : \/ Scan(r) \/ execute_remote_turn_off(r)
                                \/ shutdown_machine(r) \/ RequestFails(r) \/ SuspendFails(r)
  PROVE  WakeInv'
<1>. USE Times, PowerFields, OtherFields
<1>1. CASE \E r \in Requests : \/ Scan(r) \/ execute_remote_turn_off(r)
                               \/ shutdown_machine(r) \/ RequestFails(r) \/ SuspendFails(r)
  <2>1. UNCHANGED <<power, conn, idle>> /\ triggered' \in BOOLEAN /\ excused' \in BOOLEAN
    BY <1>1 DEF Scan, Send, execute_remote_turn_off, shutdown_machine,
                RequestFails, SuspendFails, Excuses, Timer
  <2>2. request' \in [Requests -> [state : {"free", "sent", "thread"}, timer : 0 .. MaxTimer]]
    BY <1>1 DEF Scan, Send, execute_remote_turn_off, shutdown_machine,
                RequestFails, SuspendFails, NoRequest
  <2>. QED
    BY <2>1, <2>2, WakeInvFrom
<1>2. CASE Asleep \/ Boot \/ execute_wake
  <2>1. UNCHANGED <<conn, request, idle, triggered>> /\ excused' \in BOOLEAN
    BY <1>2 DEF Asleep, Boot, execute_wake, Excuses, Timer
  <2>2. \/ power.state = "suspending" /\ power' = [state |-> "asleep", timer |-> 0]
        \/ power.state = "waking" /\ power' = [state |-> "up", timer |-> 0]
        \/ power.state = "asleep" /\ power' = [state |-> "waking", timer |-> BootTime]
    BY <1>2 DEF Asleep, Boot, execute_wake, MagicPackets
  <2>3. power' \in [state : {"up", "suspending", "asleep", "waking"}, timer : 0 .. MaxTimer]
    BY <2>2
  <2>4. power'.state = "waking" => power'.timer <= BootTime
    BY <2>2
  <2>5. power.state \in {"suspending", "asleep"} \/ power'.state = "up"
    BY <2>2
  <2>6. ASSUME NEW c \in Conns PROVE Fits(conn[c], power')
    BY <2>5 DEF Fits
  <2>. QED
    BY <2>1, <2>3, <2>4, <2>6, WakeInvFrom
<1>. QED
  BY <1>1, <1>2

LEMMA WakeInitially ==
  ASSUME WakeInit
  PROVE  WakeInv
<1>. USE Times
<1>1. Closed \in Conn /\ \A p : Fits(Closed, p)
  BY DEF Closed, Conn, Stages, Fits
<1>2. conn = [c \in Conns |-> Closed] /\ request = [r \in Requests |-> NoRequest]
      /\ idle = 0 /\ triggered = FALSE /\ excused = FALSE
      /\ power \in {[state |-> "up", timer |-> 0], [state |-> "asleep", timer |-> 0]}
  BY DEF WakeInit
<1>3. conn \in [Conns -> Conn] /\ \A c \in Conns : Fits(conn[c], power)
  BY <1>1, <1>2
<1>4. /\ power \in [state : {"up", "suspending", "asleep", "waking"}, timer : 0 .. MaxTimer]
      /\ power.state # "waking"
  BY <1>2
<1>5. request \in [Requests -> [state : {"free", "sent", "thread"}, timer : 0 .. MaxTimer]]
  BY <1>2 DEF NoRequest
<1>6. idle \in 0 .. (Window + 1) /\ triggered \in BOOLEAN /\ excused \in BOOLEAN
  <2>1. idle \in 0 .. (Window + 1)
    <3>1. Window \in Nat /\ idle = 0
      BY <1>2
    <3>. QED
      BY <3>1
  <2>2. triggered \in BOOLEAN /\ excused \in BOOLEAN
    BY <1>2, Zenon
  <2>. QED
    BY <2>1, <2>2
<1>. QED
  BY <1>3, <1>4, <1>5, <1>6 DEF WakeInv, WakeTypeOK, MaxTimer, Conn, Stages

LEMMA WakeInductive ==
  ASSUME WakeInv, [WakeNext]_wakeVars
  PROVE  WakeInv'
<1>1. CASE UNCHANGED wakeVars
  <2>1. UNCHANGED <<power, conn, request, idle, triggered, excused>>
    BY <1>1 DEF wakeVars
  <2>. QED
    BY <2>1, PowerFields, OtherFields, WakeInvFrom
<1>. QED
  BY <1>1, TickKeeps, MachineKeeps, ConnectionKeeps, PacketsKeep, SuspendKeeps
     DEF WakeNext, Task, Client

\* The machine, its connections and the requests that suspend it have their types:
\* no timer outgrows the time it was set for (proxy_internal in forward.rs).
THEOREM WakeTypeCorrect == WakeSpec => []WakeTypeOK
<1>1. WakeInit => WakeInv
  BY WakeInitially
<1>2. WakeInv /\ [WakeNext]_wakeVars => WakeInv'
  BY WakeInductive
<1>3. WakeInv => WakeTypeOK
  BY DEF WakeInv
<1>. QED
  BY <1>1, <1>2, <1>3, PTL DEF WakeSpec

\* A connection that is dropped lost its magic packets, or the machine was
\* suspended under it: one that wakes as it should is noticed in time, whatever
\* the times and the phase of the polling loop (proxy_internal in forward.rs).
THEOREM WokenInTime == WakeSpec => []DropsHaveACause
<1>1. WakeInit => WakeInv
  BY WakeInitially
<1>2. WakeInv /\ [WakeNext]_wakeVars => WakeInv'
  BY WakeInductive
<1>3. WakeInv => DropsHaveACause
  BY DEF WakeInv, Fits, DropsHaveACause
<1>. QED
  BY <1>1, <1>2, <1>3, PTL DEF WakeSpec
=============================================================================
