------------------------ MODULE MachineRegistryProofs ------------------------
(***************************************************************************)
(* Proofs about MachineRegistry for every set of machines, addresses and   *)
(* dashboard configurations, and every number of keys and of verifications *)
(* in flight.                                                              *)
(*                                                                         *)
(* A registry exists in up to four versions at once: the one in memory,    *)
(* the one in the file, and the one the handler under way is saving beside *)
(* the one it would restore.  Any of them may be the registry after the    *)
(* next step, so the invariant says the same of each.                      *)
(***************************************************************************)
EXTENDS MachineRegistry, TLAPS

\* No two machines have an address, a local port or a key in common.
Separate(r) ==
  \A m, n \in DOMAIN r : m # n =>
    /\ Canonical[m] # Canonical[n]
    /\ r[m].config.forwards \cap r[n].config.forwards = {}
    /\ r[m].key = r[n].key => r[m].key = NoKey

\* The keys are among those generated before the next, and a verified one is
\* among those confirmed.
KeysKnown(r, next, confirmed) ==
  \A m \in DOMAIN r :
    /\ r[m].key # NoKey => r[m].key < next
    /\ r[m].verified => r[m].key \in confirmed

Sound(r, next, confirmed) ==
  IsRegistry(r) /\ Separate(r) /\ KeysKnown(r, next, confirmed)

\* The timers a registry asks for, each with some key, but for the machines
\* without.
TimersOf(t, r, without) ==
  /\ AreTimers(t)
  /\ DOMAIN t = {m \in DOMAIN r : HasTimer(r[m])} \ without
  /\ \A m \in DOMAIN t : t[m].ip = r[m].config.ip /\ t[m].port = r[m].config.port

CountersOK ==
  /\ nextKey \in 1..(MaxKey + 1)
  /\ verifying \subseteq [mac : Macs, key : Keys, confirmed : BOOLEAN, at : Address]
  /\ clients \in [Address -> Keys \cup {NoKey}]
  /\ answered \subseteq Keys
  /\ saved \in BOOLEAN

RegistriesSound ==
  /\ Sound(machines, nextKey, answered)
  /\ file = Torn \/ Sound(file, nextKey, answered)

\* At most one machine is to be armed, and it is registered.
OneArmed(r) ==
  /\ handler.arm \subseteq DOMAIN r
  /\ \A m, n \in handler.arm : m = n

\* A handler saves a sound registry with its timers, and keeps what it would
\* restore; the file holds one or the other, except while it is rewritten.
SavingSound ==
  /\ DOMAIN handler = {"stage", "new", "old", "timers", "arm"}
  /\ handler.stage \in {"open", "write", "sync"}
  /\ Sound(handler.new, nextKey, answered)
  /\ Sound(handler.old, nextKey, answered)
  /\ DOMAIN machines = DOMAIN handler.old
  /\ TimersOf(handler.timers, handler.new, cut \cup handler.arm)
  /\ TimersOf(timers, handler.old, cut)
  /\ OneArmed(handler.new)
  /\ handler.stage = "open" /\ saved => file = handler.old
  /\ handler.stage = "sync" => file = handler.new

\* An edit that waits for the forwarders' lock has saved its machine and
\* removed the timer.
ArmingSound ==
  /\ DOMAIN handler = {"stage", "arm"} /\ handler.stage = "arm"
  /\ OneArmed(machines) /\ handler.arm \cap cut = {}
  /\ TimersOf(timers, machines, cut \cup handler.arm)
  /\ saved => machines = file

HandlerSound == handler # Idle => SavingSound \/ ArmingSound

IdleSound ==
  handler = Idle => TimersOf(timers, machines, cut) /\ (saved => machines = file)

CutKnown == cut \subseteq DOMAIN machines

ConfirmedAnswered ==
  \A v \in verifying : v.confirmed => v.key \in answered

IInv ==
  /\ CountersOK /\ RegistriesSound /\ HandlerSound /\ IdleSound
  /\ ConfirmedAnswered /\ CutKnown

-----------------------------------------------------------------------------
(* Lemmas about registries and timers *)

LEMMA MachineType ==
  ASSUME NEW machine \in Machine
  PROVE  /\ machine.config \in Input
         /\ machine.key \in Keys \cup {NoKey}
         /\ machine.verified \in BOOLEAN
         /\ HasTimer(machine) => TimerOf(machine) \in Timer
BY DEF Machine, Input, Timer, HasTimer, CanTurnOff, TimerOf

\* Later keys and more answers leave a registry sound.
LEMMA SoundStays ==
  ASSUME NEW r, NEW n1 \in Nat, NEW n2 \in Nat, n1 <= n2, NEW a1, NEW a2, a1 \subseteq a2,
         Sound(r, n1, a1)
  PROVE  Sound(r, n2, a2)
<1>1. ASSUME NEW m \in DOMAIN r, r[m].key # NoKey
      PROVE  r[m].key < n2
  <2>1. r[m].key \in Keys /\ r[m].key < n1
    BY <1>1, MachineType DEF Sound, IsRegistry, KeysKnown
  <2>. QED
    BY <2>1, RegistryAssumption DEF Keys
<1>. QED
  BY <1>1 DEF Sound, KeysKnown

\* A registry that gains a machine, or whose machine is replaced, stays sound
\* if the machine is in conflict with no other one.
LEMMA SoundWith ==
  ASSUME NEW r, NEW n, NEW a, Sound(r, n, a), NEW mac \in Macs, NEW machine \in Machine,
         \A m \in DOMAIN r \ {mac} :
           /\ Canonical[m] # Canonical[mac]
           /\ r[m].config.forwards \cap machine.config.forwards = {}
           /\ r[m].key = machine.key => machine.key = NoKey,
         machine.key # NoKey => machine.key < n,
         machine.verified => machine.key \in a
  PROVE  Sound(With(r, mac, machine), n, a)
<1> DEFINE w == With(r, mac, machine)
<1>1. /\ DOMAIN w = DOMAIN r \cup {mac}
      /\ w[mac] = machine
      /\ \A m \in DOMAIN r \ {mac} : w[m] = r[m]
  BY DEF With
<1>2. IsRegistry(w)
  <2>1. w \in [DOMAIN w -> Machine]
    BY <1>1 DEF With, Sound, IsRegistry
  <2>. QED
    BY <1>1, <2>1 DEF Sound, IsRegistry
<1> HIDE DEF w
<1>3. Separate(w)
  <2> SUFFICES ASSUME NEW m \in DOMAIN w, NEW l \in DOMAIN w, m # l
               PROVE  /\ Canonical[m] # Canonical[l]
                      /\ w[m].config.forwards \cap w[l].config.forwards = {}
                      /\ w[m].key = w[l].key => w[m].key = NoKey
    BY DEF Separate
  <2>1. CASE m # mac /\ l # mac
    BY <1>1, <2>1 DEF Sound, Separate
  <2>2. CASE m = mac
    BY <1>1, <2>2
  <2>3. CASE l = mac
    BY <1>1, <2>3
  <2>. QED
    BY <2>1, <2>2, <2>3
<1>4. KeysKnown(w, n, a)
  BY <1>1 DEF Sound, KeysKnown
<1>. QED
  BY <1>2, <1>3, <1>4 DEF Sound, w

LEMMA SoundWithout ==
  ASSUME NEW r, NEW n, NEW a, Sound(r, n, a), NEW mac
  PROVE  Sound(Without(r, mac), n, a)
<1> DEFINE w == Without(r, mac)
<1>1. /\ DOMAIN w = DOMAIN r \ {mac}
      /\ \A m \in DOMAIN w : w[m] = r[m]
  BY DEF Without, Restrict
<1>2. w \in [DOMAIN w -> Machine]
  BY DEF Without, Restrict, Sound, IsRegistry
<1> HIDE DEF w
<1>3. IsRegistry(w) /\ Separate(w) /\ KeysKnown(w, n, a)
  BY <1>1, <1>2 DEF Sound, IsRegistry, Separate, KeysKnown
<1>. QED
  BY <1>3 DEF Sound, w

\* start_proxy_if_configured gives the timers of the changed registry.
LEMMA TimersWith ==
  ASSUME NEW t, NEW r, NEW c, TimersOf(t, r, c), IsRegistry(r),
         NEW mac \in Macs, NEW machine \in Machine
  PROVE  TimersOf(start_proxy_if_configured(t, mac, machine), With(r, mac, machine), c \ {mac})
<1> DEFINE w == With(r, mac, machine)
           u == start_proxy_if_configured(t, mac, machine)
<1>1. /\ DOMAIN w = DOMAIN r \cup {mac}
      /\ w[mac] = machine
      /\ \A m \in DOMAIN r \ {mac} : w[m] = r[m]
  BY DEF With
<1>2. CASE HasTimer(machine)
  <2>1. TimerOf(machine) \in Timer
    BY <1>2, MachineType
  <2>2. /\ DOMAIN u = DOMAIN t \cup {mac} /\ u[mac] = TimerOf(machine)
        /\ \A m \in DOMAIN t \ {mac} : u[m] = t[m]
    BY <1>2 DEF start_proxy_if_configured, With
  <2>3. AreTimers(u)
    BY <1>2, <2>1 DEF start_proxy_if_configured, With, TimersOf, AreTimers
  <2>4. TimerOf(machine).ip = machine.config.ip /\ TimerOf(machine).port = machine.config.port
    BY DEF TimerOf
  <2> HIDE DEF w, u
  <2>5. TimersOf(u, w, c \ {mac})
    BY <1>1, <1>2, <2>2, <2>3, <2>4 DEF TimersOf
  <2>. QED
    BY <2>5 DEF w, u
<1>3. CASE ~HasTimer(machine)
  <2>1. DOMAIN u = DOMAIN t \ {mac} /\ \A m \in DOMAIN u : u[m] = t[m]
    BY <1>3 DEF start_proxy_if_configured, Without, Restrict
  <2>2. AreTimers(u)
    BY <1>3 DEF start_proxy_if_configured, Without, Restrict, TimersOf, AreTimers
  <2> HIDE DEF w, u
  <2>3. TimersOf(u, w, c \ {mac})
    BY <1>1, <1>3, <2>1, <2>2 DEF TimersOf
  <2>. QED
    BY <2>3 DEF w, u
<1>. QED
  BY <1>2, <1>3

\* A machine that is registered without being armed is among those without.
LEMMA TimersUnarmed ==
  ASSUME NEW t, NEW r, NEW c, TimersOf(t, r, c), NEW mac, mac \notin DOMAIN r, NEW machine
  PROVE  TimersOf(t, With(r, mac, machine), c \cup {mac})
BY DEF TimersOf, With

LEMMA TimersWithout ==
  ASSUME NEW t, NEW r, NEW c, TimersOf(t, r, c), IsRegistry(r), NEW mac
  PROVE  TimersOf(Without(t, mac), Without(r, mac), c)
<1>1. AreTimers(Without(t, mac))
  BY DEF TimersOf, AreTimers, Without, Restrict
<1>. QED
  BY <1>1 DEF TimersOf, Without, Restrict

\* The timers of a registry whose keys alone have changed are the same.
LEMMA TimersKept ==
  ASSUME NEW t, NEW r, NEW c, TimersOf(t, r, c), NEW q, DOMAIN q = DOMAIN r,
         \A m \in DOMAIN r : q[m].config = r[m].config
  PROVE  TimersOf(t, q, c)
BY DEF TimersOf, HasTimer

\* The proxy starts with the timers of the registry it read.
LEMMA TimersAtStart ==
  ASSUME NEW r, IsRegistry(r)
  PROVE  TimersOf(AllTimers(r), r, {})
<1>1. \A m \in DOMAIN AllTimers(r) : AllTimers(r)[m] = TimerOf(r[m])
  BY DEF AllTimers
<1>2. AreTimers(AllTimers(r))
  <2>1. \A m \in DOMAIN AllTimers(r) : m \in Macs /\ AllTimers(r)[m] \in Timer
    BY <1>1, MachineType DEF AllTimers, IsRegistry
  <2>2. AllTimers(r) \in [DOMAIN AllTimers(r) -> Timer]
    BY <2>1 DEF AllTimers
  <2>. QED
    BY <2>1, <2>2 DEF AreTimers
<1>. QED
  BY <1>1, <1>2 DEF TimersOf, AllTimers, TimerOf

LEMMA EmptySound ==
  ASSUME NEW n, NEW a
  PROVE  Sound(Empty, n, a)
BY DEF Sound, IsRegistry, Separate, KeysKnown, Empty

-----------------------------------------------------------------------------
(* The steps of the handlers up to the save *)

LEMMA InitIInv == Init => IInv
<1> SUFFICES ASSUME Init
             PROVE  IInv
  OBVIOUS
<1>1. Sound(machines, nextKey, answered)
  <2> DEFINE One(mac, c) == [m \in {mac} |-> [config |-> c, key |-> NoKey, verified |-> FALSE]]
  <2>1. CASE machines = Empty
    BY <2>1, EmptySound
  <2>2. ASSUME NEW mac \in Macs, NEW c \in Inputs, machines = One(mac, c)
        PROVE  Sound(machines, nextKey, answered)
    <3>1. [config |-> c, key |-> NoKey, verified |-> FALSE] \in Machine
      BY RegistryAssumption DEF Machine
    <3>2. IsRegistry(machines)
      BY <2>2, <3>1 DEF IsRegistry
    <3>. QED
      BY <2>2, <3>2 DEF Sound, Separate, KeysKnown
  <2>3. machines \in FirstRegistries
    BY DEF Init
  <2>4. machines = Empty \/ machines \in {One(mac, c) : mac \in Macs, c \in Inputs}
    <3>1. FirstRegistries = {Empty} \cup {One(mac, c) : mac \in Macs, c \in Inputs}
      BY DEF FirstRegistries
    <3> HIDE DEF One
    <3>. QED
      BY <2>3, <3>1
  <2> HIDE DEF One
  <2>. QED
    BY <2>1, <2>2, <2>4
<1>2. TimersOf(timers, machines, {})
  BY <1>1, TimersAtStart DEF Init, Sound
<1>3. CountersOK
  BY RegistryAssumption DEF Init, CountersOK
<1>. QED
  BY <1>1, <1>2, <1>3
     DEF Init, IInv, RegistriesSound, HandlerSound, IdleSound, ConfirmedAnswered, CutKnown

\* Whatever handler begins to save a sound registry with its timers keeps the
\* invariant, if what it leaves in memory is sound.
LEMMA SavingStep ==
  ASSUME IInv, handler = Idle,
         NEW new, NEW done, NEW arm, Saving(new, done, arm),
         Sound(new, nextKey', answered), TimersOf(done, new, cut \cup arm),
         arm \subseteq DOMAIN new, \A m, n \in arm : m = n,
         Sound(machines', nextKey', answered), DOMAIN machines' = DOMAIN machines,
         nextKey' \in 1..(MaxKey + 1), nextKey <= nextKey',
         verifying' \subseteq verifying,
         UNCHANGED <<file, timers, clients, answered, saved, cut>>
  PROVE  IInv'
<1>1. handler' = [stage |-> "open", new |-> new, old |-> machines, timers |-> done, arm |-> arm]
  BY DEF Saving
<1>2. handler'.stage = "open" /\ handler' # Idle
  BY <1>1 DEF Idle
<1>3. nextKey \in Nat /\ nextKey' \in Nat
  BY RegistryAssumption DEF IInv, CountersOK
<1>4. CountersOK' /\ CutKnown'
  BY DEF IInv, CountersOK, CutKnown
<1>5. Sound(machines, nextKey', answered)
  BY <1>3, SoundStays DEF IInv, RegistriesSound
<1>6. file = Torn \/ Sound(file, nextKey', answered)
  BY <1>3, SoundStays DEF IInv, RegistriesSound
<1>7. SavingSound'
  <2>1. TimersOf(timers, machines, cut) /\ (saved => machines = file)
    BY DEF IInv, IdleSound
  <2>2. /\ DOMAIN handler' = {"stage", "new", "old", "timers", "arm"}
        /\ handler'.new = new /\ handler'.old = machines
        /\ handler'.timers = done /\ handler'.arm = arm
    BY <1>1
  <2>3. OneArmed(handler.new)'
    BY <2>2 DEF OneArmed
  <2>. QED
    BY <1>2, <1>5, <2>1, <2>2, <2>3 DEF SavingSound, Sound, KeysKnown, TimersOf
<1>. QED
  BY <1>2, <1>4, <1>6, <1>7
     DEF IInv, RegistriesSound, HandlerSound, IdleSound, ConfirmedAnswered, Sound, KeysKnown

\* Only an edit arms a timer after its save.
LEMMA NoArm ==
  ASSUME NEW d
  PROVE  {} \subseteq d /\ (\A m, n \in {} : m = n) /\ cut \cup {} = cut
OBVIOUS

\* A save that changes no machine's address arms no timer.
LEMMA MarkingStep ==
  ASSUME IInv, handler = Idle, Saving(machines', timers, {}),
         Sound(machines', nextKey', answered), TimersOf(timers, machines', cut),
         DOMAIN machines' = DOMAIN machines,
         nextKey' \in 1..(MaxKey + 1), nextKey <= nextKey',
         verifying' \subseteq verifying,
         UNCHANGED <<file, timers, clients, answered, saved, cut>>
  PROVE  IInv'
<1>1. TimersOf(timers, machines', cut \cup {})
  BY NoArm
<1>2. {} \subseteq DOMAIN machines' /\ \A m, n \in {} : m = n
  OBVIOUS
<1>. QED
  BY <1>1, <1>2, SavingStep

LEMMA AddStep ==
  ASSUME IInv, NEW mac \in Macs, NEW config \in Inputs, add_machine_api(mac, config)
  PROVE  IInv'
<1> DEFINE machine == [config |-> config, verified |-> FALSE,
                       key |-> IF CanTurnOff(config) THEN nextKey ELSE NoKey]
<1>1. /\ handler = Idle
      /\ validate_machine_config(mac, config, {})
      /\ CanTurnOff(config) => nextKey <= MaxKey
      /\ Saving(With(machines, mac, machine), start_proxy_if_configured(timers, mac, machine), {})
      /\ nextKey' = IF CanTurnOff(config) THEN nextKey + 1 ELSE nextKey
      /\ UNCHANGED <<machines, file, timers, verifying, clients, answered, saved, cut>>
  BY DEF add_machine_api
<1>2. nextKey \in Nat /\ nextKey' \in 1..(MaxKey + 1) /\ nextKey <= nextKey'
  BY <1>1, RegistryAssumption DEF IInv, CountersOK
<1>3. machine \in Machine
  BY <1>1, RegistryAssumption DEF Machine, Keys, IInv, CountersOK
<1>4. /\ machine.config = config /\ ~machine.verified
      /\ machine.key = IF CanTurnOff(config) THEN nextKey ELSE NoKey
  OBVIOUS
<1> HIDE DEF machine
<1>5. Sound(machines, nextKey, answered) /\ Sound(machines, nextKey', answered)
  BY <1>2, SoundStays DEF IInv, RegistriesSound
<1>6. ASSUME NEW m \in DOMAIN machines \ {mac}
      PROVE  /\ Canonical[m] # Canonical[mac]
             /\ machines[m].config.forwards \cap machine.config.forwards = {}
             /\ machines[m].key = machine.key => machine.key = NoKey
  <2>1. machines[m].key # NoKey => machines[m].key < nextKey
    BY <1>5 DEF Sound, KeysKnown
  <2>. QED
    BY <1>1, <1>2, <1>4, <2>1 DEF validate_machine_config
<1>7. Sound(With(machines, mac, machine), nextKey', answered)
  BY <1>1, <1>2, <1>3, <1>4, <1>5, <1>6, SoundWith
<1>8. TimersOf(start_proxy_if_configured(timers, mac, machine), With(machines, mac, machine), cut)
  <2>1. mac \notin cut
    BY <1>1 DEF validate_machine_config, IInv, CutKnown
  <2>2. cut \ {mac} = cut
    BY <2>1
  <2>. QED
    BY <1>1, <1>3, <1>5, <2>2, TimersWith DEF IInv, IdleSound, Sound
<1>. QED
  BY <1>1, <1>2, <1>5, <1>7, <1>8, SavingStep, NoArm

\* The edited machine has no key, the next one, or its own.
LEMMA SecurityOfEdit ==
  ASSUME NEW oldMac, NEW old \in Machine, NEW mac, NEW config \in Input, NEW fresh,
         fresh \in Keys \/ apply_shutdown_security(oldMac, old, mac, config, fresh).key # fresh
  PROVE  LET machine == apply_shutdown_security(oldMac, old, mac, config, fresh) IN
         /\ machine \in Machine /\ machine.config = config
         /\ machine.key \in {NoKey, fresh, old.key}
         /\ machine.verified => old.verified /\ machine.key = old.key
<1> DEFINE machine == apply_shutdown_security(oldMac, old, mac, config, fresh)
<1>1. CASE machine = [config |-> config, key |-> NoKey, verified |-> FALSE]
  BY <1>1 DEF Machine
<1>2. CASE machine = [config |-> config, key |-> fresh, verified |-> FALSE]
  BY <1>2 DEF Machine
<1>3. ASSUME NEW b \in BOOLEAN,
             machine = [config |-> config, key |-> old.key, verified |-> old.verified /\ b]
      PROVE  /\ machine \in Machine /\ machine.config = config
             /\ machine.key \in {NoKey, fresh, old.key}
             /\ machine.verified => old.verified /\ machine.key = old.key
  <2>1. old.key \in Keys \cup {NoKey} /\ (old.verified /\ b) \in BOOLEAN
    BY DEF Machine
  <2>. QED
    BY <1>3, <2>1 DEF Machine
<1>4. \/ machine = [config |-> config, key |-> NoKey, verified |-> FALSE]
      \/ machine = [config |-> config, key |-> fresh, verified |-> FALSE]
      \/ \E b \in BOOLEAN :
           machine = [config |-> config, key |-> old.key, verified |-> old.verified /\ b]
  BY DEF apply_shutdown_security
<1>. QED
  BY <1>1, <1>2, <1>3, <1>4

LEMMA UpdateStep ==
  ASSUME IInv, NEW old \in Macs, NEW mac \in Macs, NEW config \in Inputs,
         update_machine_api(old, mac, config)
  PROVE  IInv'
<1> DEFINE machine == apply_shutdown_security(old, machines[old], mac, config, nextKey)
           rest == Without(machines, old)
           done == Without(timers, old)
<1>1. /\ handler = Idle
      /\ old \in DOMAIN machines
      /\ validate_machine_config(mac, config, {old})
      /\ machine.key = nextKey => nextKey <= MaxKey
      /\ Saving(With(rest, mac, machine), done, {mac})
      /\ nextKey' = IF machine.key = nextKey THEN nextKey + 1 ELSE nextKey
      /\ UNCHANGED <<machines, file, timers, verifying, clients, answered, saved, cut>>
  BY DEF update_machine_api
<1>2. nextKey \in Nat /\ nextKey' \in 1..(MaxKey + 1) /\ nextKey <= nextKey'
  BY <1>1, RegistryAssumption DEF IInv, CountersOK
<1>3. Sound(machines, nextKey, answered) /\ Sound(machines, nextKey', answered)
  BY <1>2, SoundStays DEF IInv, RegistriesSound
<1>4. machines[old] \in Machine /\ config \in Input
  BY <1>1, <1>3, RegistryAssumption DEF Sound, IsRegistry
<1>5. nextKey \in Keys \/ machine.key # nextKey
  BY <1>1, <1>2, RegistryAssumption DEF Keys, IInv, CountersOK
<1>6. /\ machine \in Machine /\ machine.config = config
      /\ machine.key \in {NoKey, nextKey, machines[old].key}
      /\ machine.verified => machines[old].verified /\ machine.key = machines[old].key
  BY <1>4, <1>5, SecurityOfEdit
<1> HIDE DEF machine
<1>7. /\ DOMAIN rest = DOMAIN machines \ {old}
      /\ \A m \in DOMAIN rest : rest[m] = machines[m]
  BY DEF Without, Restrict
<1>8. Sound(rest, nextKey', answered) /\ IsRegistry(rest)
  BY <1>3, SoundWithout DEF Sound
<1>9. TimersOf(done, rest, cut)
  BY <1>1, <1>3, TimersWithout DEF IInv, IdleSound, Sound
<1> HIDE DEF rest
<1>10. ASSUME NEW m \in DOMAIN rest \ {mac}
       PROVE  /\ Canonical[m] # Canonical[mac]
              /\ rest[m].config.forwards \cap machine.config.forwards = {}
              /\ rest[m].key = machine.key => machine.key = NoKey
  <2>1. m \in DOMAIN machines \ {old} /\ rest[m] = machines[m]
    BY <1>7
  <2>2. machines[m].key # NoKey => machines[m].key < nextKey
    BY <1>3, <2>1 DEF Sound, KeysKnown
  <2>3. machines[m].key = machines[old].key => machines[m].key = NoKey
    BY <1>1, <1>3, <2>1 DEF Sound, Separate
  <2>. QED
    BY <1>1, <1>2, <1>6, <2>1, <2>2, <2>3 DEF validate_machine_config
<1>11. /\ machine.key # NoKey => machine.key < nextKey'
       /\ machine.verified => machine.key \in answered
  <2>1. machines[old].key # NoKey => machines[old].key \in Nat /\ machines[old].key < nextKey
    BY <1>1, <1>3, <1>4, RegistryAssumption DEF Sound, KeysKnown, Machine, Keys
  <2>2. machine.key # NoKey => machine.key < nextKey'
    BY <1>1, <1>2, <1>6, <2>1
  <2>3. machine.verified => machine.key \in answered
    BY <1>1, <1>3, <1>6 DEF Sound, KeysKnown
  <2>. QED
    BY <2>2, <2>3
<1>12. Sound(With(rest, mac, machine), nextKey', answered)
  BY <1>6, <1>8, <1>10, <1>11, SoundWith
<1>13. TimersOf(done, With(rest, mac, machine), cut \cup {mac})
  <2>1. mac \notin DOMAIN rest
    BY <1>1, <1>7 DEF validate_machine_config
  <2>. QED
    BY <1>9, <2>1, TimersUnarmed
<1>14. {mac} \subseteq DOMAIN With(rest, mac, machine)
  BY DEF With
<1>15. \A m, n \in {mac} : m = n
  OBVIOUS
<1> HIDE DEF done
<1>. QED
  BY <1>1, <1>2, <1>3, <1>12, <1>13, <1>14, <1>15, SavingStep

LEMMA DeleteStep ==
  ASSUME IInv, NEW mac \in Macs, delete_machine_api(mac)
  PROVE  IInv'
<1> DEFINE done == IF mac \in DOMAIN machines THEN Without(timers, mac) ELSE timers
<1>1. /\ handler = Idle
      /\ Saving(Without(machines, mac), done, {})
      /\ UNCHANGED <<machines, file, timers, nextKey, verifying, clients, answered, saved, cut>>
  BY DEF delete_machine_api
<1>2. Sound(machines, nextKey, answered) /\ TimersOf(timers, machines, cut)
  BY <1>1 DEF IInv, RegistriesSound, IdleSound
<1>3. Sound(Without(machines, mac), nextKey, answered)
  BY <1>2, SoundWithout
<1>4. TimersOf(done, Without(machines, mac), cut)
  <2>1. CASE mac \in DOMAIN machines
    BY <1>2, <2>1, TimersWithout DEF Sound
  <2>2. CASE mac \notin DOMAIN machines
    BY <1>2, <2>2 DEF Without, Restrict, TimersOf
  <2>. QED
    BY <2>1, <2>2
<1>5. nextKey \in 1..(MaxKey + 1) /\ nextKey <= nextKey
  BY RegistryAssumption DEF IInv, CountersOK
<1>. QED
  BY <1>1, <1>2, <1>3, <1>4, <1>5, SavingStep, NoArm

-----------------------------------------------------------------------------
(* The remaining steps *)

\* The new key of a machine is no other machine's.
LEMMA RotateStep ==
  ASSUME IInv, NEW mac \in Macs, rotate_shutdown_key(mac)
  PROVE  IInv'
<1>1. /\ handler = Idle /\ mac \in DOMAIN machines /\ nextKey <= MaxKey
      /\ machines' = [machines EXCEPT ![mac].key = nextKey, ![mac].verified = FALSE]
      /\ Saving(machines', timers, {})
      /\ nextKey' = nextKey + 1
      /\ UNCHANGED <<file, timers, verifying, clients, answered, saved, cut>>
  BY DEF rotate_shutdown_key
<1>2. nextKey \in Nat /\ nextKey \in Keys /\ nextKey' \in 1..(MaxKey + 1) /\ nextKey <= nextKey'
  BY <1>1, RegistryAssumption DEF IInv, CountersOK, Keys
<1>3. Sound(machines, nextKey, answered)
  BY DEF IInv, RegistriesSound
<1>4. machines[mac] \in Machine /\ machines \in [DOMAIN machines -> Machine]
  BY <1>1, <1>3 DEF Sound, IsRegistry
<1>5. /\ DOMAIN machines' = DOMAIN machines
      /\ machines'[mac] \in Machine
      /\ machines'[mac].config = machines[mac].config
      /\ machines'[mac].key = nextKey /\ machines'[mac].verified = FALSE
      /\ \A m \in DOMAIN machines \ {mac} : machines'[m] = machines[m]
  BY <1>1, <1>2, <1>4 DEF Machine
<1>6. IsRegistry(machines')
  <2>1. machines' \in [DOMAIN machines' -> Machine]
    BY <1>1, <1>4, <1>5
  <2>. QED
    BY <1>3, <1>5, <2>1 DEF Sound, IsRegistry
<1>7. \A m \in DOMAIN machines : machines[m].key # nextKey
  BY <1>2, <1>3, RegistryAssumption DEF Sound, KeysKnown
<1>8. Separate(machines')
  BY <1>3, <1>5, <1>7 DEF Sound, Separate
<1>9. KeysKnown(machines', nextKey', answered)
  <2>1. Sound(machines, nextKey', answered)
    BY <1>2, <1>3, SoundStays
  <2>2. nextKey < nextKey'
    BY <1>1, <1>2
  <2>. QED
    BY <1>5, <2>1, <2>2 DEF Sound, KeysKnown
<1>10. TimersOf(timers, machines', cut)
  <2>1. \A m \in DOMAIN machines : machines'[m].config = machines[m].config
    BY <1>5
  <2>. QED
    BY <1>1, <1>5, <2>1, TimersKept DEF IInv, IdleSound
<1>11. Sound(machines', nextKey', answered)
  BY <1>6, <1>8, <1>9 DEF Sound
<1>. QED
  <2>1. DOMAIN machines' = DOMAIN machines /\ verifying' \subseteq verifying
    BY <1>1, <1>5
  <2>. QED
    BY <1>1, <1>2, <1>10, <1>11, <2>1, MarkingStep

LEMMA BeginVerifyStep ==
  ASSUME IInv, NEW mac \in Macs, BeginVerify(mac)
  PROVE  IInv'
<1> DEFINE v == [mac |-> mac, key |-> machines[mac].key, confirmed |-> FALSE,
                 at |-> <<machines[mac].config.ip, machines[mac].config.port>>]
<1>1. /\ mac \in DOMAIN machines
      /\ shutdown_setup_for_machine(machines[mac]) = "pending"
      /\ verifying' = verifying \cup {v}
      /\ UNCHANGED <<machines, file, timers, handler, nextKey, clients, answered, saved, cut>>
  BY DEF BeginVerify
<1>2. machines[mac] \in Machine
  BY <1>1 DEF IInv, RegistriesSound, Sound, IsRegistry
<1>3. CanTurnOff(machines[mac].config) /\ machines[mac].key # NoKey
  BY <1>1 DEF shutdown_setup_for_machine
<1>4. v \in [mac : Macs, key : Keys, confirmed : BOOLEAN, at : Address]
  <2>1. machines[mac].key \in Keys /\ machines[mac].config.ip \in Ips
        /\ machines[mac].config.port \in Ports
    BY <1>2, <1>3 DEF Machine, Input, CanTurnOff
  <2>. QED
    BY <2>1 DEF Address
<1>5. ~v.confirmed
  OBVIOUS
<1> HIDE DEF v
<1>6. CountersOK' /\ ConfirmedAnswered'
  BY <1>1, <1>4, <1>5 DEF IInv, CountersOK, ConfirmedAnswered
<1>. QED
  BY <1>1, <1>6 DEF IInv, RegistriesSound, HandlerSound, SavingSound, ArmingSound,
     OneArmed, TimersOf, CutKnown, IdleSound, Sound, KeysKnown

LEMMA ConfirmStep ==
  ASSUME IInv, NEW v \in verifying, ClientConfirms(v)
  PROVE  IInv'
<1>1. /\ verifying' = (verifying \ {v}) \cup {[v EXCEPT !.confirmed = TRUE]}
      /\ answered' = answered \cup {v.key}
      /\ UNCHANGED <<machines, file, timers, handler, nextKey, clients, saved, cut>>
  BY DEF ClientConfirms
<1>2. v \in [mac : Macs, key : Keys, confirmed : BOOLEAN, at : Address]
  BY DEF IInv, CountersOK
<1>3. CountersOK' /\ ConfirmedAnswered'
  <2>1. [v EXCEPT !.confirmed = TRUE] \in [mac : Macs, key : Keys, confirmed : BOOLEAN, at : Address]
    BY <1>2
  <2>2. [v EXCEPT !.confirmed = TRUE].at = v.at /\ [v EXCEPT !.confirmed = TRUE].key = v.key
    BY <1>2
  <2>3. v.key \in Keys
    BY <1>2
  <2>4. CountersOK'
    BY <1>1, <2>1, <2>3 DEF IInv, CountersOK
  <2>5. ConfirmedAnswered'
    BY <1>1, <2>2 DEF IInv, ConfirmedAnswered
  <2>. QED
    BY <2>4, <2>5
<1>4. nextKey \in Nat /\ answered \subseteq answered'
  BY <1>1, RegistryAssumption DEF IInv, CountersOK
<1>5. \A r : Sound(r, nextKey, answered) => Sound(r, nextKey', answered')
  BY <1>1, <1>4, SoundStays
<1>6. RegistriesSound' /\ HandlerSound'
  BY <1>1, <1>5 DEF IInv, RegistriesSound, HandlerSound, SavingSound, ArmingSound, OneArmed,
                    TimersOf
<1>. QED
  BY <1>1, <1>3, <1>6 DEF IInv, IdleSound, CutKnown, TimersOf

\* The verification marks the key that was confirmed, or nothing.
LEMMA MarkStep ==
  ASSUME IInv, NEW v \in verifying, MarkVerified(v)
  PROVE  IInv'
<1>1. /\ handler = Idle /\ v.confirmed
      /\ v.mac \in DOMAIN machines /\ machines[v.mac].key = v.key
      /\ machines' = [machines EXCEPT ![v.mac].verified = TRUE]
      /\ Saving(machines', timers, {})
      /\ verifying' = verifying \ {v}
      /\ UNCHANGED <<file, timers, nextKey, clients, answered, saved, cut>>
  BY DEF MarkVerified, MayMark
<1>2. Sound(machines, nextKey, answered)
  BY DEF IInv, RegistriesSound
<1>3. machines[v.mac] \in Machine /\ machines \in [DOMAIN machines -> Machine]
  BY <1>1, <1>2 DEF Sound, IsRegistry
<1>4. /\ DOMAIN machines' = DOMAIN machines
      /\ machines'[v.mac] = [machines[v.mac] EXCEPT !.verified = TRUE]
      /\ machines'[v.mac] \in Machine
      /\ \A m \in DOMAIN machines \ {v.mac} : machines'[m] = machines[m]
  BY <1>1, <1>3 DEF Machine
<1>5. \A m \in DOMAIN machines :
        machines'[m].config = machines[m].config /\ machines'[m].key = machines[m].key
  BY <1>3, <1>4 DEF Machine
<1>6. IsRegistry(machines')
  <2>1. machines' \in [DOMAIN machines' -> Machine]
    BY <1>1, <1>3, <1>4
  <2>. QED
    BY <1>2, <1>4, <2>1 DEF Sound, IsRegistry
<1>7. Separate(machines')
  BY <1>2, <1>4, <1>5 DEF Sound, Separate
<1>8. KeysKnown(machines', nextKey, answered)
  <2>1. machines'[v.mac].key \in answered
    BY <1>1, <1>5 DEF IInv, ConfirmedAnswered
  <2>. QED
    BY <1>2, <1>4, <1>5, <2>1 DEF Sound, KeysKnown
<1>9. TimersOf(timers, machines', cut)
  BY <1>1, <1>4, <1>5, TimersKept DEF IInv, IdleSound
<1>10. nextKey \in 1..(MaxKey + 1) /\ nextKey <= nextKey
  BY RegistryAssumption DEF IInv, CountersOK
<1>11. Sound(machines', nextKey', answered)
  BY <1>1, <1>6, <1>7, <1>8 DEF Sound
<1>. QED
  <2>1. DOMAIN machines' = DOMAIN machines /\ verifying' \subseteq verifying
    BY <1>1, <1>4
  <2>2. nextKey' = nextKey
    BY <1>1
  <2>. QED
    BY <1>1, <1>9, <1>10, <1>11, <2>1, <2>2, MarkingStep

\* The steps that change neither a registry nor a key.
LEMMA DropVerification ==
  ASSUME IInv, NEW v \in verifying, verifying' = verifying \ {v},
         UNCHANGED <<machines, file, timers, handler, nextKey, clients, answered, saved, cut>>
  PROVE  IInv'
<1>1. CountersOK' /\ ConfirmedAnswered'
  BY DEF IInv, CountersOK, ConfirmedAnswered
<1>. QED
  BY <1>1 DEF IInv, RegistriesSound, HandlerSound, SavingSound, ArmingSound,
     OneArmed, TimersOf, CutKnown, IdleSound, Sound, KeysKnown

LEMMA VerifyStep ==
  ASSUME IInv, NEW v \in verifying, verify_shutdown_setup(v)
  PROVE  IInv'
<1>1. CASE VerifyFails(v)
  BY <1>1, DropVerification DEF VerifyFails
<1>2. CASE GiveUpVerified(v)
  BY <1>2, DropVerification DEF GiveUpVerified
<1>. QED
  BY <1>1, <1>2, ConfirmStep, MarkStep DEF verify_shutdown_setup

LEMMA OpenStep ==
  ASSUME IInv, OpenFile
  PROVE  IInv'
<1>1. /\ handler # Idle /\ file' = Torn
      /\ handler' = [handler EXCEPT !.stage = "write"]
      /\ UNCHANGED <<machines, timers, nextKey, verifying, clients, answered, saved, cut>>
  BY DEF OpenFile, Idle
<1>2. SavingSound
  BY <1>1 DEF OpenFile, IInv, HandlerSound, ArmingSound
<1>3. /\ DOMAIN handler' = {"stage", "new", "old", "timers", "arm"}
      /\ handler'.stage = "write" /\ handler'.new = handler.new
      /\ handler'.old = handler.old /\ handler'.timers = handler.timers
      /\ handler'.arm = handler.arm /\ handler' # Idle
  BY <1>1, <1>2 DEF SavingSound, Idle
<1>4. SavingSound'
  BY <1>1, <1>2, <1>3 DEF SavingSound, Sound, KeysKnown, OneArmed, TimersOf
<1>. QED
  BY <1>1, <1>3, <1>4
     DEF IInv, CountersOK, RegistriesSound, HandlerSound, IdleSound, ConfirmedAnswered,
         CutKnown, Sound, KeysKnown

LEMMA WriteStep ==
  ASSUME IInv, WriteFile
  PROVE  IInv'
<1>1. /\ handler # Idle /\ file' = handler.new
      /\ handler' = [handler EXCEPT !.stage = "sync"]
      /\ UNCHANGED <<machines, timers, nextKey, verifying, clients, answered, saved, cut>>
  BY DEF WriteFile, Idle
<1>2. SavingSound
  BY <1>1 DEF WriteFile, IInv, HandlerSound, ArmingSound
<1>3. /\ DOMAIN handler' = {"stage", "new", "old", "timers", "arm"}
      /\ handler'.stage = "sync" /\ handler'.new = handler.new
      /\ handler'.old = handler.old /\ handler'.timers = handler.timers
      /\ handler'.arm = handler.arm /\ handler' # Idle
  BY <1>1, <1>2 DEF SavingSound, Idle
<1>4. SavingSound'
  BY <1>1, <1>2, <1>3 DEF SavingSound, Sound, KeysKnown, OneArmed, TimersOf
<1>5. Sound(file', nextKey, answered)
  BY <1>1, <1>2 DEF SavingSound
<1>. QED
  BY <1>1, <1>3, <1>4, <1>5
     DEF IInv, CountersOK, RegistriesSound, HandlerSound, IdleSound, ConfirmedAnswered,
         CutKnown, Sound, KeysKnown

LEMMA SyncStep ==
  ASSUME IInv, SyncFile
  PROVE  IInv'
<1>1. /\ handler # Idle /\ handler.stage = "sync"
      /\ machines' = handler.new /\ timers' = handler.timers
      /\ handler' = IF handler.arm = {} THEN Idle ELSE [stage |-> "arm", arm |-> handler.arm]
      /\ saved' = TRUE
      /\ cut' = (cut \cap DOMAIN handler.new) \ handler.arm
      /\ UNCHANGED <<file, nextKey, verifying, clients, answered>>
  BY DEF SyncFile, Idle
<1>2. SavingSound
  BY <1>1 DEF IInv, HandlerSound, ArmingSound
<1>3. /\ Sound(machines', nextKey, answered) /\ machines' = file'
      /\ CutKnown' /\ handler.arm \cap cut' = {}
  BY <1>1, <1>2 DEF SavingSound, CutKnown
<1>4. TimersOf(timers', machines', cut' \cup handler.arm)
  BY <1>1, <1>2 DEF SavingSound, TimersOf
<1>5. CASE handler.arm = {}
  <2>1. handler' = Idle /\ TimersOf(timers', machines', cut')
    BY <1>1, <1>4, <1>5 DEF TimersOf
  <2>. QED
    BY <1>1, <1>3, <2>1 DEF IInv, CountersOK, RegistriesSound, HandlerSound, IdleSound,
                            ConfirmedAnswered, Sound, KeysKnown
<1>6. CASE handler.arm # {}
  <2>1. /\ DOMAIN handler' = {"stage", "arm"} /\ handler'.stage = "arm"
        /\ handler'.arm = handler.arm /\ handler' # Idle
    BY <1>1, <1>6 DEF Idle
  <2>2. OneArmed(machines)'
    BY <1>1, <1>2, <2>1 DEF SavingSound, OneArmed
  <2>3. ArmingSound'
    BY <1>3, <1>4, <2>1, <2>2 DEF ArmingSound
  <2>. QED
    BY <1>1, <1>3, <2>1, <2>3 DEF IInv, CountersOK, RegistriesSound, HandlerSound, IdleSound,
                                  ConfirmedAnswered, Sound, KeysKnown
<1>. QED
  BY <1>5, <1>6

\* The edit arms the timer its machine asks for.
LEMMA ArmStep ==
  ASSUME IInv, ArmTimer
  PROVE  IInv'
<1>1. /\ handler # Idle /\ handler.stage = "arm" /\ handler' = Idle
      /\ UNCHANGED <<machines, file, nextKey, verifying, clients, answered, saved, cut>>
  BY DEF ArmTimer, Idle
<1>2. PICK mac \in handler.arm :
        timers' = start_proxy_if_configured(timers, mac, machines[mac])
  BY DEF ArmTimer
<1>3. ArmingSound
  BY <1>1 DEF IInv, HandlerSound, SavingSound
<1>4. /\ mac \in DOMAIN machines /\ handler.arm = {mac} /\ mac \notin cut
      /\ IsRegistry(machines) /\ mac \in Macs /\ machines[mac] \in Machine
  BY <1>2, <1>3 DEF ArmingSound, OneArmed, IInv, RegistriesSound, Sound, IsRegistry
<1>5. With(machines, mac, machines[mac]) = machines
  BY <1>4 DEF With, IsRegistry
<1>6. (cut \cup handler.arm) \ {mac} = cut
  BY <1>4
<1>7. TimersOf(timers', machines, cut)
  BY <1>2, <1>3, <1>4, <1>5, <1>6, TimersWith DEF ArmingSound
<1>. QED
  BY <1>1, <1>3, <1>7
     DEF IInv, CountersOK, RegistriesSound, HandlerSound, ArmingSound, IdleSound,
         ConfirmedAnswered, CutKnown, Sound, KeysKnown, TimersOf

\* The edit is dropped: its machine is left without the timer it asks for.
LEMMA DisconnectStep ==
  ASSUME IInv, Disconnect
  PROVE  IInv'
<1>1. /\ handler # Idle /\ handler.stage = "arm" /\ handler' = Idle
      /\ cut' = cut \cup {mac \in handler.arm : HasTimer(machines[mac])}
      /\ UNCHANGED <<machines, file, timers, nextKey, verifying, clients, answered, saved>>
  BY DEF Disconnect, Idle
<1>2. ArmingSound
  BY <1>1 DEF IInv, HandlerSound, SavingSound
<1>3. CutKnown' /\ TimersOf(timers, machines, cut')
  BY <1>1, <1>2 DEF ArmingSound, OneArmed, IInv, CutKnown, TimersOf
<1>. QED
  BY <1>1, <1>2, <1>3
     DEF IInv, CountersOK, RegistriesSound, HandlerSound, ArmingSound, IdleSound,
         ConfirmedAnswered, Sound, KeysKnown, TimersOf

LEMMA FailStep ==
  ASSUME IInv, SaveFails
  PROVE  IInv'
<1>1. /\ handler # Idle /\ IsSaving
      /\ machines' = handler.old /\ handler' = Idle
      /\ saved' = (saved /\ handler.stage = "open")
      /\ UNCHANGED <<file, timers, nextKey, verifying, clients, answered, cut>>
  BY DEF SaveFails, IsSaving, Idle
<1>2. SavingSound
  BY <1>1 DEF IsSaving, IInv, HandlerSound, ArmingSound
<1>3. /\ Sound(machines', nextKey, answered) /\ TimersOf(timers', machines', cut')
      /\ saved' => machines' = file'
  BY <1>1, <1>2 DEF SavingSound, TimersOf
<1>4. saved' \in BOOLEAN /\ CutKnown'
  BY <1>1, <1>2 DEF SavingSound, IInv, CutKnown
<1>. QED
  BY <1>1, <1>3, <1>4 DEF IInv, CountersOK, RegistriesSound, HandlerSound, IdleSound,
                    ConfirmedAnswered, Sound, KeysKnown

LEMMA RestartStep ==
  ASSUME IInv, Restart
  PROVE  IInv'
<1>1. /\ machines' = IF file = Torn THEN Empty ELSE file
      /\ timers' = AllTimers(machines') /\ handler' = Idle
      /\ verifying' = {} /\ saved' = (file # Torn) /\ cut' = {}
      /\ UNCHANGED <<file, nextKey, clients, answered>>
  BY DEF Restart
<1>2. Sound(machines', nextKey, answered)
  BY <1>1, EmptySound DEF IInv, RegistriesSound
<1>3. TimersOf(timers', machines', cut') /\ (saved' => machines' = file')
  BY <1>1, <1>2, TimersAtStart DEF Sound
<1>4. CountersOK' /\ ConfirmedAnswered' /\ CutKnown'
  BY <1>1 DEF IInv, CountersOK, ConfirmedAnswered, CutKnown
<1>. QED
  BY <1>1, <1>2, <1>3, <1>4
     DEF IInv, RegistriesSound, HandlerSound, IdleSound, Sound, KeysKnown

LEMMA SetUpStep ==
  ASSUME IInv, NEW address \in Address, NEW key \in Keys, SetUpClient(address, key)
  PROVE  IInv'
<1>1. clients' \in [Address -> Keys \cup {NoKey}]
  BY DEF SetUpClient, IInv, CountersOK
<1>. QED
  BY <1>1 DEF SetUpClient, IInv, CountersOK, RegistriesSound, HandlerSound, SavingSound, ArmingSound,
     OneArmed, TimersOf, CutKnown, IdleSound,
              ConfirmedAnswered, Sound, KeysKnown

LEMMA NextIInv == IInv /\ [Next]_vars => IInv'
<1> SUFFICES ASSUME IInv, [Next]_vars
             PROVE  IInv'
  OBVIOUS
<1>1. CASE UNCHANGED vars
  BY <1>1 DEF vars, IInv, CountersOK, RegistriesSound, HandlerSound, SavingSound, ArmingSound,
     OneArmed, TimersOf, CutKnown, IdleSound,
              ConfirmedAnswered, Sound, KeysKnown
<1>. QED
  BY <1>1, AddStep, UpdateStep, DeleteStep, RotateStep, BeginVerifyStep, VerifyStep,
     OpenStep, WriteStep, SyncStep, FailStep, ArmStep, DisconnectStep,
     RestartStep, SetUpStep DEF Next

THEOREM Invariance == Spec => []IInv
<1>. QED
  BY InitIInv, NextIInv, PTL DEF Spec

-----------------------------------------------------------------------------
(* The theorems *)

\* The registry, its file, the timers and the handler's own copies keep their
\* types, whatever fails half way.
THEOREM TypeCorrect == Spec => []TypeOK
<1>1. IInv => TypeOK
  BY DEF IInv, CountersOK, RegistriesSound, HandlerSound, SavingSound, ArmingSound, OneArmed,
         CutKnown, IdleSound, Sound, TimersOf, TypeOK, IsSaving
<1>. QED
  BY <1>1, Invariance, PTL

\* No sequence of edits, failed saves and restarts leaves two machines with
\* one address, one local port or one key.
THEOREM RegistrySeparate == Spec => []NoConflicts
<1>1. IInv => NoConflicts
  BY DEF IInv, RegistriesSound, Sound, Separate, NoConflicts
<1>. QED
  BY <1>1, Invariance, PTL

\* Between handlers the file holds the registry in memory, unless a save has
\* failed after it had opened the file.
THEOREM RestartChangesNothing == Spec => []MemoryMatchesFile
<1>1. IInv => MemoryMatchesFile
  BY DEF IInv, IdleSound, MemoryMatchesFile
<1>. QED
  BY <1>1, Invariance, PTL

\* A machine shown as verified has a key that a client has confirmed, although
\* the lock was released while the client was asked.
THEOREM VerificationIsOfTheKey == Spec => []VerifiedKeyAnswered
<1>1. IInv => VerifiedKeyAnswered
  BY DEF IInv, RegistriesSound, Sound, KeysKnown, VerifiedKeyAnswered
<1>. QED
  BY <1>1, Invariance, PTL

\* Between handlers the timers are those the registry asks for, but for the
\* machines whose last edit was dropped before it had armed theirs.
THEOREM TimersAreCurrent == Spec => []TimersFollowEdits
<1>1. IInv => TimersFollowEdits
  BY DEF IInv, IdleSound, TimersOf, TimersFollowEdits
<1>. QED
  BY <1>1, Invariance, PTL

\* A key that has left the registry, its file and the save under way never
\* comes back.
THEOREM RevocationIsFinal == Spec => RevokedKeysStayRevoked
<1> DEFINE Kept == \A k \in 1..(nextKey - 1) : k \notin KeysInUse => k \notin KeysOf(machines')
<1>1. IInv /\ [Next]_vars => [Kept]_vars
  <2> SUFFICES ASSUME IInv, Next, NEW k \in 1..(nextKey - 1), k \in KeysOf(machines')
               PROVE  k \in KeysInUse
    OBVIOUS
  <2>1. nextKey \in Nat /\ k # nextKey
    BY RegistryAssumption DEF IInv, CountersOK
  <2>2. CASE UNCHANGED machines
    BY <2>2 DEF KeysInUse, KeysOf
  <2>3. ASSUME NEW mac \in Macs, rotate_shutdown_key(mac)
        PROVE  k \in KeysOf(machines)
    <3>1. machines[mac] \in Machine /\ machines \in [DOMAIN machines -> Machine]
      BY <2>3 DEF rotate_shutdown_key, IInv, RegistriesSound, Sound, IsRegistry
    <3>2. \A m \in DOMAIN machines' :
            m \in DOMAIN machines /\ machines'[m].key \in {nextKey, machines[m].key}
      BY <2>3, <3>1 DEF rotate_shutdown_key, Machine
    <3>. QED
      BY <2>1, <3>2 DEF KeysOf
  <2>4. ASSUME NEW v \in verifying, MarkVerified(v)
        PROVE  k \in KeysOf(machines)
    <3>1. \A m \in DOMAIN machines : machines[m] \in Machine
      BY DEF IInv, RegistriesSound, Sound, IsRegistry
    <3>2. \A m \in DOMAIN machines' :
            m \in DOMAIN machines /\ machines'[m].key = machines[m].key
      BY <2>4, <3>1 DEF MarkVerified, Machine
    <3>. QED
      BY <3>2 DEF KeysOf
  <2>5. CASE SyncFile \/ SaveFails
    BY <2>5 DEF SyncFile, SaveFails, IsSaving, KeysInUse
  <2>6. CASE Restart
    <3>1. KeysOf(Empty) = {}
      BY DEF KeysOf, Empty
    <3>. QED
      BY <2>6, <3>1 DEF Restart, KeysInUse
  <2>7. CASE \E mac \in Macs, config \in Inputs : add_machine_api(mac, config)
    BY <2>2, <2>7 DEF add_machine_api
  <2>8. CASE \E old, mac \in Macs, config \in Inputs : update_machine_api(old, mac, config)
    BY <2>2, <2>8 DEF update_machine_api
  <2>9. CASE \E mac \in Macs : delete_machine_api(mac)
    BY <2>2, <2>9 DEF delete_machine_api
  <2>10. CASE \E mac \in Macs : BeginVerify(mac)
    BY <2>2, <2>10 DEF BeginVerify
  <2>11. CASE \E v \in verifying : verify_shutdown_setup(v)
    BY <2>2, <2>4, <2>11
       DEF verify_shutdown_setup, ClientConfirms, VerifyFails, GiveUpVerified, KeysInUse
  <2>12. CASE OpenFile \/ WriteFile
    BY <2>2, <2>12 DEF OpenFile, WriteFile
  <2>13. CASE \E address \in Address, key \in Keys : SetUpClient(address, key)
    BY <2>2, <2>13 DEF SetUpClient
  <2>14. CASE ArmTimer \/ Disconnect
    BY <2>2, <2>14 DEF ArmTimer, Disconnect
  <2>. QED
    BY <2>3, <2>5, <2>6, <2>7, <2>8, <2>9, <2>10, <2>11, <2>12, <2>13, <2>14 DEF Next, KeysInUse
<1>. QED
  BY <1>1, Invariance, PTL DEF Spec, RevokedKeysStayRevoked

=============================================================================
