---------------------------- MODULE ShutdownProofs ----------------------------
(***************************************************************************)
(* Proofs about the two ends of an automatic shutdown.                     *)
(*                                                                         *)
(* ReplayGuard, the client that verifies the signed order: for every       *)
(* number of requests, every key set, a client with or without a key,      *)
(* every reading of its clock, and every skew, retention and capacity that *)
(* ReplayGuardAssumption allows, the code's own 60, 120 and 4096 included. *)
(*                                                                         *)
(* InactivityMonitor, the proxy that queues it: for every set of machines  *)
(* and periods, every number of overlapping monitors and every delay.      *)
(***************************************************************************)
EXTENDS ReplayGuard, InactivityMonitor, FiniteSetTheorems, TLAPS

-----------------------------------------------------------------------------
(* The replay guard                                                        *)

\* The inductive invariant: the promise itself, what the table means, and the
\* fact about clocks that makes pruning harmless.
IInv ==
  /\ TypeOK
  /\ AtMostOnce
  /\ SeenWereAccepted
  /\ ForgottenAreStale
  /\ IsFiniteSet(used)

-----------------------------------------------------------------------------
(* Lemmas about the operators *)

\* remove_oldest only removes, and only entries of the table it is given.
LEMMA AfterRemoveOldestShrinks ==
  ASSUME NEW S, NEW left \in AfterRemoveOldest(S)
  PROVE  left \subseteq S
BY DEF AfterRemoveOldest

\* An entry that prune drops belongs to a request whose window has passed.
LEMMA PrunedAreStale ==
  ASSUME IInv, NEW n \in DOMAIN seen \ Retained
  PROVE  now > sent[n].ts + MaxClockSkew
<1>1. /\ sent[n].ts \in Nat /\ seen[n] \in Nat /\ now \in Nat
      /\ sent[n].ts <= seen[n] + MaxClockSkew
  BY DEF IInv, TypeOK, SeenWereAccepted, ForgottenAreStale, Request
<1>2. now > seen[n] + Retention
  BY <1>1, ReplayGuardAssumption DEF Retained, SaturatingSub
<1>. QED
  BY <1>1, <1>2, ReplayGuardAssumption

\* A request that passes the timestamp check and is not in the pruned table
\* takes effect for the first time, or was forgotten.
LEMMA ArrivalIsFresh ==
  ASSUME IInv, NEW n \in Nonces, Arrives(n), n \notin Retained
  PROVE  n \notin used \ forgotten
<1> SUFFICES ASSUME n \in used, n \notin forgotten
             PROVE  FALSE
  OBVIOUS
<1>1. now > sent[n].ts + MaxClockSkew
  BY PrunedAreStale DEF IInv, ForgottenAreStale
<1>2. sent[n].ts \in Nat /\ now \in Nat
  BY DEF IInv, TypeOK, Request, Arrives
<1>3. AbsDiff(now, sent[n].ts) <= MaxClockSkew
  BY DEF Arrives, InWindow
<1>. QED
  BY <1>1, <1>2, <1>3, ReplayGuardAssumption DEF AbsDiff

-----------------------------------------------------------------------------
(* The inductive invariant *)

LEMMA InitIInv == Init => IInv
BY FS_EmptySet, ReplayGuardAssumption
   DEF Init, IInv, TypeOK, AtMostOnce, SeenWereAccepted, ForgottenAreStale

\* A refused request leaves the pruned table: what was dropped is stale.
LEMMA PruneStep ==
  ASSUME IInv, seen' = Restrict(seen, Retained),
         UNCHANGED <<clientKey, now, sent, history>>
  PROVE  IInv'
<1>1. DOMAIN seen' = Retained /\ Retained \subseteq DOMAIN seen
      /\ \A m \in Retained : seen'[m] = seen[m]
  BY DEF Restrict, Retained
<1>2. TypeOK'
  BY <1>1 DEF IInv, TypeOK, history, Restrict, Request
<1>3. AtMostOnce' /\ SeenWereAccepted' /\ IsFiniteSet(used')
  BY <1>1 DEF IInv, AtMostOnce, SeenWereAccepted, history
<1>4. ForgottenAreStale'
  <2>1. ASSUME NEW m \in used \ (forgotten \cup Retained)
        PROVE  now > sent[m].ts + MaxClockSkew
    BY <2>1, PrunedAreStale DEF IInv, ForgottenAreStale
  <2>. QED
    BY <1>1, <2>1 DEF IInv, ForgottenAreStale, history
<1>. QED
  BY <1>2, <1>3, <1>4 DEF IInv

LEMMA AcceptStep ==
  ASSUME IInv, NEW n \in Nonces, Accept(n)
  PROVE  IInv'
<1>1. PICK left \in AfterRemoveOldest(Retained) :
         /\ seen' = [m \in left \cup {n} |-> IF m = n THEN now ELSE seen[m]]
         /\ forgotten' = (forgotten \ {n}) \cup (Retained \ left)
  BY DEF Accept
<1>2. left \subseteq Retained /\ Retained \subseteq DOMAIN seen
  BY AfterRemoveOldestShrinks DEF Retained
<1>3. /\ DOMAIN seen' = left \cup {n} /\ seen'[n] = now
      /\ \A m \in left : m # n => seen'[m] = seen[m]
  BY <1>1
<1>4. /\ n \notin Retained /\ n \in DOMAIN sent
      /\ used' = used \cup {n}
      /\ UNCHANGED <<clientKey, now, sent>>
  BY DEF Accept, Arrives, TakesEffect
<1>5. repeated' = repeated
  BY ArrivalIsFresh DEF Accept, TakesEffect
<1>6. TypeOK'
  <2>1. seen' \in [DOMAIN seen' -> 0..MaxTime]
    BY <1>1, <1>2 DEF IInv, TypeOK
  <2>2. DOMAIN seen' \subseteq Nonces /\ forgotten' \subseteq used'
    BY <1>1, <1>2, <1>3, <1>4 DEF IInv, TypeOK, SeenWereAccepted
  <2>. QED
    BY <2>1, <2>2, <1>4, <1>5 DEF IInv, TypeOK, Request
<1>7. AtMostOnce' /\ IsFiniteSet(used')
  BY <1>4, <1>5, FS_AddElement DEF IInv, AtMostOnce
<1>8. SeenWereAccepted'
  BY <1>1, <1>2, <1>3, <1>4 DEF IInv, SeenWereAccepted
<1>9. ForgottenAreStale'
  <2>1. ASSUME NEW m \in used' \ (forgotten' \cup DOMAIN seen')
        PROVE  now > sent[m].ts + MaxClockSkew
    <3>1. m \in used \ forgotten /\ m \notin Retained
      BY <1>1, <1>3, <1>4, <2>1
    <3>. QED
      BY <3>1, PrunedAreStale DEF IInv, ForgottenAreStale
  <2>2. ASSUME NEW m \in DOMAIN seen'
        PROVE  sent[m].ts <= seen'[m] + MaxClockSkew
    <3>1. CASE m = n
      <4>1. AbsDiff(now, sent[n].ts) <= MaxClockSkew
        BY DEF Accept, Arrives, InWindow
      <4>2. now \in Nat /\ sent[n].ts \in Nat
        BY <1>4 DEF IInv, TypeOK, Request
      <4>. QED
        BY <3>1, <4>1, <4>2, <1>3, ReplayGuardAssumption DEF AbsDiff
    <3>2. CASE m # n
      BY <3>2, <1>2, <1>3, <2>2 DEF IInv, ForgottenAreStale
    <3>. QED
      BY <3>1, <3>2
  <2>. QED
    BY <1>4, <2>1, <2>2 DEF ForgottenAreStale
<1>. QED
  BY <1>6, <1>7, <1>8, <1>9 DEF IInv

LEMMA SendStep ==
  ASSUME IInv, NEW n \in Nonces, NEW request \in Request, Sends(n, request)
  PROVE  IInv'
<1>1. /\ n \notin DOMAIN sent /\ DOMAIN sent' = DOMAIN sent \cup {n}
      /\ \A m \in DOMAIN sent : sent'[m] = sent[m]
      /\ sent' \in [DOMAIN sent' -> Request]
      /\ UNCHANGED <<clientKey, now, seen, history>>
  BY DEF Sends, IInv, TypeOK
<1>2. TypeOK'
  BY <1>1 DEF IInv, TypeOK, history
<1>3. AtMostOnce' /\ SeenWereAccepted' /\ IsFiniteSet(used')
  BY <1>1 DEF IInv, AtMostOnce, SeenWereAccepted, history
<1>4. ForgottenAreStale'
  BY <1>1 DEF IInv, TypeOK, SeenWereAccepted, ForgottenAreStale, history
<1>. QED
  BY <1>2, <1>3, <1>4 DEF IInv

\* A client without a key knows nothing, so nothing is repeated there.
LEMMA LegacyStep ==
  ASSUME IInv, NEW n \in Nonces, turn_off_legacy(n), n \notin used \ forgotten
  PROVE  IInv'
<1>1. /\ used' = used \cup {n} /\ forgotten' = forgotten \cup {n}
      /\ repeated' = repeated /\ n \in DOMAIN sent
      /\ UNCHANGED <<clientKey, now, sent, seen>>
  BY DEF turn_off_legacy, TakesEffect
<1>2. n \notin DOMAIN seen
  BY DEF IInv, SeenWereAccepted
<1>3. TypeOK'
  BY <1>1 DEF IInv, TypeOK
<1>4. AtMostOnce' /\ SeenWereAccepted' /\ IsFiniteSet(used')
  BY <1>1, <1>2, FS_AddElement DEF IInv, AtMostOnce, SeenWereAccepted
<1>5. ForgottenAreStale'
  BY <1>1 DEF IInv, ForgottenAreStale
<1>. QED
  BY <1>3, <1>4, <1>5 DEF IInv

LEMMA ClockStep ==
  ASSUME IInv, NEW t \in 0..MaxTime, ClockMoves(t)
  PROVE  IInv'
<1>1. /\ now' = t /\ UNCHANGED <<clientKey, sent, seen, used, repeated>>
      /\ forgotten' = IF t < now
                      THEN forgotten \cup {n \in used \ DOMAIN seen :
                                             t <= sent[n].ts + MaxClockSkew}
                      ELSE forgotten
  BY DEF ClockMoves
<1>2. forgotten \subseteq forgotten' /\ forgotten' \subseteq used
      /\ forgotten' \cap DOMAIN seen \subseteq forgotten
  BY <1>1 DEF IInv, TypeOK
<1>3. TypeOK' /\ AtMostOnce' /\ SeenWereAccepted' /\ IsFiniteSet(used')
  BY <1>1, <1>2 DEF IInv, TypeOK, AtMostOnce, SeenWereAccepted
<1>4. ASSUME NEW m \in used \ (forgotten' \cup DOMAIN seen)
      PROVE  t > sent[m].ts + MaxClockSkew
  <2>1. /\ now > sent[m].ts + MaxClockSkew
        /\ sent[m].ts \in Nat /\ now \in Nat /\ t \in Nat /\ MaxClockSkew \in Nat
    BY <1>2, <1>4, ReplayGuardAssumption DEF IInv, ForgottenAreStale, TypeOK, Request
  <2>2. t < now => ~(t <= sent[m].ts + MaxClockSkew)
    BY <1>1, <1>4
  <2>. QED
    BY <2>1, <2>2
<1>5. ForgottenAreStale'
  BY <1>1, <1>4 DEF IInv, ForgottenAreStale
<1>. QED
  BY <1>3, <1>5 DEF IInv

LEMMA RestartStep ==
  ASSUME IInv, NEW key \in Keys \cup {NoKey}, build_router(key)
  PROVE  IInv'
BY DEF build_router, IInv, TypeOK, AtMostOnce, SeenWereAccepted, ForgottenAreStale

\* A client without a key remembers nothing of what has taken effect.
KeylessKnowsNothing == clientKey = NoKey => used \subseteq forgotten

LEMMA InitKeyless == Init => KeylessKnowsNothing
BY DEF Init, KeylessKnowsNothing

LEMMA NextKeyless ==
  IInv /\ KeylessKnowsNothing /\ [Next]_vars => KeylessKnowsNothing'
<1> SUFFICES ASSUME IInv, KeylessKnowsNothing, [Next]_vars
             PROVE  KeylessKnowsNothing'
  OBVIOUS
<1>1. CASE \E n \in Nonces : Accept(n)
  BY <1>1 DEF Accept, Arrives, KeylessKnowsNothing
<1>2. CASE \E n \in Nonces : turn_off_legacy(n)
  BY <1>2 DEF turn_off_legacy, TakesEffect, KeylessKnowsNothing
<1>3. CASE \E t \in 0..MaxTime : ClockMoves(t)
  BY <1>3 DEF ClockMoves, KeylessKnowsNothing
<1>4. CASE \E key \in Keys \cup {NoKey} : build_router(key)
  BY <1>4 DEF build_router, KeylessKnowsNothing
<1>5. CASE UNCHANGED <<clientKey, history>>
  BY <1>5 DEF history, KeylessKnowsNothing
<1>. QED
  BY <1>1, <1>2, <1>3, <1>4, <1>5
     DEF Next, vars, history, verify, RejectReplay, RejectSignature, Sends,
         sign_request_at, turn_off_unsigned

LEMMA NextIInv == IInv /\ KeylessKnowsNothing /\ [Next]_vars => IInv'
<1> SUFFICES ASSUME IInv, KeylessKnowsNothing, [Next]_vars
             PROVE  IInv'
  OBVIOUS
<1>1. ASSUME NEW n \in Nonces, NEW route \in Routes, NEW key \in Keys,
             NEW t \in 0..MaxTime, sign_request_at(n, route, key, t)
      PROVE  IInv'
  <2>1. [route |-> route, ts |-> t, key |-> key] \in Request
    BY DEF Request
  <2>. QED
    BY <1>1, <2>1, SendStep DEF sign_request_at
<1>2. ASSUME NEW n \in Nonces, turn_off_unsigned(n)
      PROVE  IInv'
  <2>1. [route |-> "turn_off", ts |-> 0, key |-> NoKey] \in Request
    BY ReplayGuardAssumption DEF Request, Routes
  <2>. QED
    BY <1>2, <2>1, SendStep DEF turn_off_unsigned
<1>3. ASSUME NEW n \in Nonces, verify(n)
      PROVE  IInv'
  BY <1>3, PruneStep, AcceptStep DEF verify, RejectReplay, RejectSignature
<1>4. ASSUME NEW n \in Nonces, turn_off_legacy(n)
      PROVE  IInv'
  BY <1>4, LegacyStep DEF turn_off_legacy, KeylessKnowsNothing
<1>5. ASSUME NEW t \in 0..MaxTime, ClockMoves(t)
      PROVE  IInv'
  BY <1>5, ClockStep
<1>6. ASSUME NEW key \in Keys \cup {NoKey}, build_router(key)
      PROVE  IInv'
  BY <1>6, RestartStep
<1>7. CASE UNCHANGED vars
  BY <1>7 DEF vars, IInv, TypeOK, AtMostOnce, SeenWereAccepted, ForgottenAreStale
<1>. QED
  BY <1>1, <1>2, <1>3, <1>4, <1>5, <1>6, <1>7 DEF Next

\* Every state of the guard satisfies the inductive invariant.
THEOREM Invariance == Spec => [](IInv /\ KeylessKnowsNothing)
<1>. QED
  BY InitIInv, NextIInv, InitKeyless, NextKeyless, PTL DEF Spec

-----------------------------------------------------------------------------
(* The theorems *)

\* The variables of the guard keep their types.
THEOREM TypeCorrect == Spec => []TypeOK
<1>1. IInv => TypeOK
  BY DEF IInv
<1>. QED
  BY <1>1, Invariance, PTL

\* A request takes effect again only after the client was made to forget it,
\* by a full table, a restart, a clock set back or the lack of a key: no
\* repetition by the network and no pruning of ReplayGuard::prune makes it
\* acceptable again.
THEOREM NoReplay == Spec => []AtMostOnce
<1>1. IInv => AtMostOnce
  BY DEF IInv
<1>. QED
  BY <1>1, Invariance, PTL

\* Only a request that took effect is ever refused as a replay.
THEOREM ReplaysWereAccepted == Spec => []SeenWereAccepted
<1>1. IInv => SeenWereAccepted
  BY DEF IInv
<1>. QED
  BY <1>1, Invariance, PTL

-----------------------------------------------------------------------------
(* The table stays within its capacity *)

CapacityInv == IsFiniteSet(DOMAIN seen) /\ SeenWithinCapacity

\* Making room leaves space for one more entry.
LEMMA RoomForOne ==
  ASSUME NEW S, IsFiniteSet(S), Cardinality(S) <= Capacity,
         NEW left \in AfterRemoveOldest(S), NEW n, n \notin S
  PROVE  IsFiniteSet(left \cup {n}) /\ Cardinality(left \cup {n}) <= Capacity
<1>1. Cardinality(S) \in Nat /\ Capacity \in Nat \ {0}
  BY FS_CardinalityType, ReplayGuardAssumption
<1>2. IsFiniteSet(left) /\ Cardinality(left) < Capacity
  <2>1. CASE Cardinality(S) >= Capacity
    <3>1. PICK o \in S : left = S \ {o}
      BY <2>1 DEF AfterRemoveOldest
    <3>2. IsFiniteSet(left) /\ Cardinality(left) = Cardinality(S) - 1
      BY <3>1, FS_RemoveElement
    <3>. QED
      BY <1>1, <3>2
  <2>2. CASE ~(Cardinality(S) >= Capacity)
    <3>1. left = S
      BY <2>2 DEF AfterRemoveOldest
    <3>. QED
      BY <1>1, <2>2, <3>1
  <2>. QED
    BY <2>1, <2>2
<1>3. n \notin left
  BY AfterRemoveOldestShrinks
<1>4. IsFiniteSet(left \cup {n}) /\ Cardinality(left \cup {n}) = Cardinality(left) + 1
  BY <1>2, <1>3, FS_AddElement
<1>5. Cardinality(left) \in Nat
  BY <1>2, FS_CardinalityType
<1>. QED
  BY <1>1, <1>2, <1>4, <1>5

\* However many requests arrive, the client's table of nonces never holds more
\* than its capacity.
THEOREM BoundedTable == Spec => []SeenWithinCapacity
<1>1. Init => CapacityInv
  BY FS_EmptySet, ReplayGuardAssumption DEF Init, CapacityInv, SeenWithinCapacity
<1>2. CapacityInv /\ [Next]_vars => CapacityInv'
  <2> SUFFICES ASSUME CapacityInv, [Next]_vars
               PROVE  CapacityInv'
    OBVIOUS
  <2>1. /\ IsFiniteSet(Retained) /\ Cardinality(Retained) <= Cardinality(DOMAIN seen)
        /\ Cardinality(Retained) \in Nat /\ Cardinality(DOMAIN seen) \in Nat
    <3>1. Retained \subseteq DOMAIN seen
      BY DEF Retained
    <3>. QED
      BY <3>1, FS_Subset, FS_CardinalityType DEF CapacityInv
  <2>2. Cardinality(Retained) <= Capacity
    BY <2>1, ReplayGuardAssumption DEF CapacityInv, SeenWithinCapacity
  <2>3. CASE \E n \in Nonces : RejectReplay(n) \/ RejectSignature(n)
    <3>1. DOMAIN seen' = Retained
      BY <2>3 DEF RejectReplay, RejectSignature, Restrict
    <3>. QED
      BY <2>1, <2>2, <3>1 DEF CapacityInv, SeenWithinCapacity
  <2>4. ASSUME NEW n \in Nonces, Accept(n)
        PROVE  CapacityInv'
    <3>1. PICK left \in AfterRemoveOldest(Retained) : DOMAIN seen' = left \cup {n}
      BY <2>4 DEF Accept
    <3>2. n \notin Retained
      BY <2>4 DEF Accept
    <3>. QED
      BY <2>1, <2>2, <3>1, <3>2, RoomForOne DEF CapacityInv, SeenWithinCapacity
  <2>5. CASE \E key \in Keys \cup {NoKey} : build_router(key)
    <3>1. DOMAIN seen' = {}
      BY <2>5 DEF build_router
    <3>. QED
      BY <3>1, FS_EmptySet, ReplayGuardAssumption DEF CapacityInv, SeenWithinCapacity
  <2>6. CASE seen' = seen
    BY <2>6 DEF CapacityInv, SeenWithinCapacity
  <2>7. \/ \E n \in Nonces : RejectReplay(n) \/ RejectSignature(n)
        \/ \E n \in Nonces : Accept(n)
        \/ \E key \in Keys \cup {NoKey} : build_router(key)
        \/ seen' = seen
    BY DEF Next, vars, verify, Sends, sign_request_at, turn_off_unsigned,
           turn_off_legacy, ClockMoves
  <2>. QED
    BY <2>3, <2>4, <2>5, <2>6, <2>7
<1>3. CapacityInv => SeenWithinCapacity
  BY DEF CapacityInv
<1>. QED
  BY <1>1, <1>2, <1>3, PTL DEF Spec

-----------------------------------------------------------------------------
(* Refinement *)

\* The table is part of what the client knows, so it forgets a nonce only when
\* it knows at least Capacity of them.
LEMMA EvictionNeedsAFullTable ==
  ASSUME IInv, NEW left \in AfterRemoveOldest(Retained), Retained \ left # {}
  PROVE  Cardinality(used \ forgotten) >= Capacity
<1>1. Cardinality(Retained) >= Capacity
  BY DEF AfterRemoveOldest
<1>2. Retained \subseteq used \ forgotten /\ IsFiniteSet(used \ forgotten)
  BY FS_Subset DEF Retained, IInv, SeenWereAccepted
<1>3. /\ IsFiniteSet(Retained)
      /\ Cardinality(Retained) <= Cardinality(used \ forgotten)
      /\ Cardinality(Retained) \in Nat /\ Cardinality(used \ forgotten) \in Nat
  BY <1>2, FS_Subset, FS_CardinalityType
<1>. QED
  BY <1>1, <1>3, ReplayGuardAssumption

\* The guard, with its clock, window, pruning and eviction, its restarts and
\* the client without a key, implements the promise of one-shot requests.
THEOREM Refinement == Spec => ImplementsOneShot
<1>1. Init => Abstract!Init
  BY DEF Init, Abstract!Init
<1>2. IInv /\ IInv' /\ [Next]_vars => [Abstract!Next]_Abstract!vars
  <2> SUFFICES ASSUME IInv, IInv', [Next]_vars
               PROVE  Abstract!Next \/ UNCHANGED <<clientKey, now, history>>
    BY DEF Abstract!vars, history
  <2>1. ASSUME NEW n \in Nonces, Accept(n)
        PROVE  Abstract!Use(n)
    <3>1. PICK left \in AfterRemoveOldest(Retained) :
            forgotten' = (forgotten \ {n}) \cup (Retained \ left)
      BY <2>1 DEF Accept
    <3> DEFINE S == Retained \ left
    <3>2. \A m, o \in S : m = o
      BY DEF AfterRemoveOldest
    <3>3. S \in SUBSET (used \ {n})
      BY <2>1 DEF Accept, Retained, IInv, SeenWereAccepted
    <3>4. S # {} => Cardinality(used \ forgotten) >= Capacity
      BY EvictionNeedsAFullTable
    <3>7. Cardinality(used \ forgotten) = Abstract!Cardinality(used \ forgotten)
      BY DEF Cardinality, Abstract!Cardinality
    <3>5. n \notin used \ forgotten
      BY <2>1, ArrivalIsFresh DEF Accept
    <3>6. used' = used \cup {n} /\ UNCHANGED <<clientKey, now>> /\ clientKey # NoKey
      BY <2>1 DEF Accept, Arrives, TakesEffect
    <3>. QED
      BY <3>1, <3>2, <3>3, <3>4, <3>5, <3>6, <3>7 DEF Abstract!Use
  <2>2. ASSUME NEW n \in Nonces, turn_off_legacy(n)
        PROVE  Abstract!UseUnguarded(n)
    BY <2>2 DEF turn_off_legacy, TakesEffect, Abstract!UseUnguarded
  <2>3. ASSUME NEW t \in 0..MaxTime, ClockMoves(t)
        PROVE  Abstract!ClockRuns \/ Abstract!ClockSetBack
               \/ UNCHANGED <<clientKey, now, history>>
    <3>1. /\ now' = t /\ t \in Nat /\ now \in Nat
          /\ UNCHANGED <<clientKey, used, repeated>>
          /\ forgotten \subseteq forgotten' /\ forgotten' \subseteq used
          /\ ~(t < now) => forgotten' = forgotten
      BY <2>3 DEF ClockMoves, IInv, TypeOK
    <3>2. t < now \/ t = now \/ t > now
      BY <3>1
    <3>. QED
      BY <3>1, <3>2 DEF Abstract!ClockRuns, Abstract!ClockSetBack, history
  <2>4. ASSUME NEW key \in Keys \cup {NoKey}, build_router(key)
        PROVE  Abstract!Restart
    BY <2>4 DEF build_router, Abstract!Restart
  <2>5. \/ \E n \in Nonces : Accept(n)
        \/ \E n \in Nonces : turn_off_legacy(n)
        \/ \E t \in 0..MaxTime : ClockMoves(t)
        \/ \E key \in Keys \cup {NoKey} : build_router(key)
        \/ UNCHANGED <<clientKey, now, history>>
    BY DEF Next, vars, history, verify, RejectReplay, RejectSignature, Sends,
           sign_request_at, turn_off_unsigned
  <2>. QED
    BY <2>1, <2>2, <2>3, <2>4, <2>5 DEF Abstract!Next
<1>3. Init => now \in Nat
  BY DEF Init
<1>. QED
  BY <1>1, <1>2, Invariance, PTL DEF Spec, ImplementsOneShot, Abstract!Spec

-----------------------------------------------------------------------------
(* The inactivity monitor                                                  *)

\* A timer is triggered exactly when its request has been queued; a machine
\* that lost its timer keeps the count it had.
TriggeredMeansSignalled ==
  \A m \in Macs :
    /\ m \in DOMAIN timers => signals[m] = (IF timers[m].triggered THEN 1 ELSE 0)
    /\ signals[m] <= 1

\* A handler that is mid-way works on a registered machine, which has no timer
\* until it is configured; a handler that was cut short left one registered.
EditIsRegistered ==
  /\ edit # None => /\ machines[edit.mac] # None /\ edit.mac \notin cut
                    /\ edit.stage = "stop_proxies" => edit.mac \notin DOMAIN timers
  /\ \A m \in cut : machines[m] # None

MonitorInv ==
  /\ MonitorTypeOK
  /\ TriggeredMeansSignalled
  /\ EditIsRegistered
  /\ TimersMatchRegistry

-----------------------------------------------------------------------------
(* Lemmas about the timers *)

LEMMA WindowType ==
  ASSUME NEW minutes \in Minutes
  PROVE  Window(minutes) \in 0..MaxU32
BY InactivityAssumption DEF Window, saturating_mul

LEMMA NewTimerType ==
  ASSUME NEW config \in Config
  PROVE  NewTimer(config) \in Timer
<1>1. config.minutes \in Minutes
  BY DEF Config
<1>2. MaxAge \in Nat
  BY InactivityAssumption DEF MaxAge
<1>. QED
  BY <1>1, <1>2, WindowType DEF NewTimer, Timer

\* start_proxy_if_configured changes the timer of its own machine only, and
\* leaves that machine a fresh timer or none.
LEMMA ConfiguredTimers ==
  ASSUME NEW t, DOMAIN t \subseteq Macs, t \in [DOMAIN t -> Timer],
         NEW mac \in Macs, NEW config \in Config
  PROVE  LET u == Configured(t, mac, config) IN
         /\ DOMAIN u \subseteq Macs /\ u \in [DOMAIN u -> Timer]
         /\ \A m \in Macs \ {mac} : (m \in DOMAIN u <=> m \in DOMAIN t)
         /\ \A m \in DOMAIN u \ {mac} : u[m] = t[m]
         /\ mac \in DOMAIN u <=> HasTimer(config)
         /\ mac \in DOMAIN u => u[mac] = NewTimer(config)
BY NewTimerType DEF Configured, insert, remove_machine

LEMMA RemovedTimers ==
  ASSUME NEW t, DOMAIN t \subseteq Macs, t \in [DOMAIN t -> Timer], NEW mac \in Macs
  PROVE  LET u == remove_machine(t, mac) IN
         /\ DOMAIN u = DOMAIN t \ {mac} /\ u \in [DOMAIN u -> Timer]
         /\ \A m \in DOMAIN u : u[m] = t[m]
BY DEF remove_machine

-----------------------------------------------------------------------------
(* Steps of the timers and of the monitor *)

LEMMA InitMonitorInv == MonitorInit => MonitorInv
<1> SUFFICES ASSUME MonitorInit
             PROVE  MonitorInv
  OBVIOUS
<1>1. \A m \in DOMAIN timers :
        machines[m] \in Config /\ HasTimer(machines[m]) /\ timers[m] = NewTimer(machines[m])
  BY DEF MonitorInit
<1>2. MonitorTypeOK
  BY <1>1, NewTimerType, InactivityAssumption DEF MonitorInit, MonitorTypeOK
<1>3. TriggeredMeansSignalled
  <2>1. \A m \in DOMAIN timers : (IF timers[m].triggered THEN 1 ELSE 0) = 0
    BY <1>1 DEF NewTimer
  <2>2. \A m \in Macs : signals[m] = 0
    BY DEF MonitorInit
  <2>. QED
    <3>1. ASSUME NEW m \in Macs
          PROVE  signals[m] <= 1
      BY DEF MonitorInit
    <3>2. \A m \in Macs : m \in DOMAIN timers =>
            signals[m] = (IF timers[m].triggered THEN 1 ELSE 0)
      BY <2>1, <2>2, Zenon
    <3>. QED
      BY <3>1, <3>2 DEF TriggeredMeansSignalled
<1>4. EditIsRegistered /\ TimersMatchRegistry
  BY <1>1 DEF MonitorInit, EditIsRegistered, TimersMatchRegistry, NewTimer
<1>. QED
  BY <1>2, <1>3, <1>4 DEF MonitorInv

LEMMA RequestStep ==
  ASSUME MonitorInv, NEW mac \in Macs, update_last_request(mac)
  PROVE  MonitorInv'
<1>1. /\ mac \in DOMAIN timers /\ DOMAIN timers' = DOMAIN timers
      /\ timers'[mac] = [timers[mac] EXCEPT !.idle = 0, !.triggered = FALSE]
      /\ \A m \in DOMAIN timers \ {mac} : timers'[m] = timers[m]
      /\ UNCHANGED <<machines, current, tickDue, scanning, edit, cut>>
  BY DEF update_last_request
<1>2. timers[mac] \in Timer /\ timers'[mac] \in Timer
  <2>1. timers[mac] \in Timer
    BY <1>1 DEF MonitorInv, MonitorTypeOK
  <2>2. 0 \in 0..MaxAge
    BY InactivityAssumption DEF MaxAge
  <2>. QED
    BY <1>1, <2>1, <2>2 DEF Timer
<1>3. timers'[mac].window = timers[mac].window /\ timers'[mac].triggered = FALSE
  BY <1>1, <1>2 DEF Timer
<1>4. MonitorTypeOK'
  <2>1. timers' \in [DOMAIN timers' -> Timer]
    BY <1>2 DEF update_last_request, MonitorInv, MonitorTypeOK
  <2>. QED
    BY <1>1, <2>1 DEF update_last_request, MonitorInv, MonitorTypeOK
<1>5. TriggeredMeansSignalled'
  BY <1>1, <1>3 DEF update_last_request, MonitorInv, MonitorTypeOK, TriggeredMeansSignalled
<1>6. EditIsRegistered' /\ TimersMatchRegistry'
  <2>1. EditIsRegistered'
    BY <1>1 DEF MonitorInv, EditIsRegistered
  <2>2. \A m \in DOMAIN timers : timers'[m].window = timers[m].window
    BY <1>1, <1>3
  <2>3. TimersMatchRegistry'
    BY <1>1, <2>2 DEF MonitorInv, TimersMatchRegistry
  <2>. QED
    BY <2>1, <2>3
<1>. QED
  BY <1>4, <1>5, <1>6 DEF MonitorInv

LEMMA WakeStep ==
  ASSUME MonitorInv, Wake
  PROVE  MonitorInv'
<1>1. MonitorTypeOK'
  <2>1. current \in Monitors /\ 0 \in 0..MaxLag
    BY InactivityAssumption DEF MonitorInv, MonitorTypeOK
  <2>2. DOMAIN scanning' \subseteq Monitors /\ scanning' \in [DOMAIN scanning' -> 0..MaxLag]
    BY <2>1 DEF Wake, MonitorInv, MonitorTypeOK
  <2>3. tickDue' \in BOOLEAN
    BY DEF Wake
  <2>. QED
    BY <2>2, <2>3 DEF Wake, MonitorInv, MonitorTypeOK
<1>. QED
  BY <1>1 DEF Wake, MonitorInv, TriggeredMeansSignalled, EditIsRegistered, TimersMatchRegistry

\* The scan of any monitor, however old its clock reading: triggered is set
\* and the request counted in one step under the mutex.
LEMMA ScanStep ==
  ASSUME MonitorInv, NEW i \in Monitors, Scan(i)
  PROVE  MonitorInv'
<1> DEFINE overdue == Overdue(scanning[i])
<1>1. /\ DOMAIN timers' = DOMAIN timers
      /\ \A m \in DOMAIN timers :
           timers'[m] = [timers[m] EXCEPT !.triggered = @ \/ m \in overdue]
      /\ UNCHANGED <<machines, current, tickDue, edit, cut>>
  BY DEF Scan
<1>2. \A m \in DOMAIN timers :
        /\ timers[m] \in Timer /\ timers'[m] \in Timer
        /\ timers'[m].window = timers[m].window
        /\ timers'[m].triggered = (timers[m].triggered \/ m \in overdue)
  <2>1. \A m \in DOMAIN timers : timers[m] \in Timer
    BY DEF MonitorInv, MonitorTypeOK
  <2>2. ASSUME NEW m \in DOMAIN timers
        PROVE  /\ timers'[m] \in Timer
               /\ timers'[m].window = timers[m].window
               /\ timers'[m].triggered = (timers[m].triggered \/ m \in overdue)
    <3>1. timers[m] \in Timer
      BY <2>1
    <3>2. timers'[m] = [timers[m] EXCEPT !.triggered = timers[m].triggered \/ m \in overdue]
      BY <1>1
    <3>. HIDE DEF overdue
    <3>. QED
      BY <3>1, <3>2 DEF Timer
  <2>. HIDE DEF overdue
  <2>. QED
    BY <2>1, <2>2
<1>3. \A m \in overdue : m \in DOMAIN timers /\ ~timers[m].triggered
  BY DEF Overdue
<1>4. MonitorTypeOK'
  <2>1. timers' \in [DOMAIN timers' -> Timer]
    <3>1. timers' = [m \in DOMAIN timers |->
                       [timers[m] EXCEPT !.triggered = @ \/ m \in overdue]]
      BY DEF Scan
    <3>. QED
      BY <3>1, <1>1, <1>2
  <2>2. signals' \in [Macs -> 0..2]
    BY DEF Scan, MonitorInv, MonitorTypeOK
  <2>3. DOMAIN scanning' \subseteq Monitors /\ scanning' \in [DOMAIN scanning' -> 0..MaxLag]
    BY DEF Scan, MonitorInv, MonitorTypeOK
  <2>. QED
    BY <1>1, <2>1, <2>2, <2>3 DEF MonitorInv, MonitorTypeOK
<1>5. TriggeredMeansSignalled'
  <2>1. ASSUME NEW m \in Macs
        PROVE  signals'[m] = IF m \in overdue /\ signals[m] < 2 THEN signals[m] + 1
                             ELSE signals[m]
    BY DEF Scan
  <2>2. ASSUME NEW m \in Macs, m \in DOMAIN timers
        PROVE  signals'[m] = (IF timers'[m].triggered THEN 1 ELSE 0)
    <3>1. signals[m] = (IF timers[m].triggered THEN 1 ELSE 0)
      BY <2>2 DEF MonitorInv, TriggeredMeansSignalled
    <3>2. CASE m \in overdue
      <4>1. signals[m] = 0 /\ timers'[m].triggered
        BY <1>2, <1>3, <2>2, <3>1, <3>2
      <4>. QED
        BY <2>1, <3>2, <4>1
    <3>3. CASE m \notin overdue
      BY <1>2, <2>1, <2>2, <3>1, <3>3
    <3>. QED
      BY <3>2, <3>3
  <2>3. ASSUME NEW m \in Macs, m \notin DOMAIN timers
        PROVE  signals'[m] <= 1
    BY <1>3, <2>1, <2>3 DEF MonitorInv, TriggeredMeansSignalled
  <2>. QED
    BY <1>1, <2>2, <2>3 DEF TriggeredMeansSignalled
<1>6. EditIsRegistered' /\ TimersMatchRegistry'
  BY <1>1, <1>2 DEF MonitorInv, EditIsRegistered, TimersMatchRegistry
<1>. QED
  BY <1>4, <1>5, <1>6 DEF MonitorInv

LEMMA SecondStep ==
  ASSUME MonitorInv, Second
  PROVE  MonitorInv'
<1>1. /\ DOMAIN timers' = DOMAIN timers
      /\ timers' = [m \in DOMAIN timers |-> [timers[m] EXCEPT !.idle = Older(@)]]
      /\ UNCHANGED <<machines, current, edit, signals, cut>>
  BY DEF Second
<1>2. \A m \in DOMAIN timers :
        /\ [timers[m] EXCEPT !.idle = Older(@)] \in Timer
        /\ timers'[m].window = timers[m].window
        /\ timers'[m].triggered = timers[m].triggered
  <2>1. MaxAge \in Nat
    BY InactivityAssumption DEF MaxAge
  <2>2. \A a \in 0..MaxAge : Older(a) \in 0..MaxAge
    BY <2>1 DEF Older
  <2>. QED
    BY <1>1, <2>2 DEF MonitorInv, MonitorTypeOK, Timer
<1>3. MonitorTypeOK'
  <2>1. timers' \in [DOMAIN timers' -> Timer]
    BY <1>1, <1>2
  <2>2. scanning' \in [DOMAIN scanning' -> 0..MaxLag] /\ DOMAIN scanning' \subseteq Monitors
    BY InactivityAssumption DEF Second, MonitorInv, MonitorTypeOK
  <2>. QED
    BY <1>1, <2>1, <2>2 DEF Second, MonitorInv, MonitorTypeOK
<1>. QED
  BY <1>1, <1>2, <1>3
     DEF MonitorInv, TriggeredMeansSignalled, EditIsRegistered, TimersMatchRegistry

-----------------------------------------------------------------------------
(* Steps of the handlers *)

Edit == [mac : Macs, stage : {"stop_proxies", "restart_monitor"}] \cup {None}

\* A handler runs start_proxy_if_configured for mac, whose registered
\* configuration is then config; no other machine is being edited.
LEMMA ConfigureStep ==
  ASSUME MonitorInv, NEW mac \in Macs, NEW config \in Config,
         edit = None \/ edit.mac = mac, mac \notin cut,
         machines' = [machines EXCEPT ![mac] = config],
         timers' = Configured(timers, mac, config),
         signals' = [signals EXCEPT ![mac] = 0],
         UNCHANGED <<current, tickDue, scanning, cut>>,
         edit' \in Edit,
         edit' # None => (edit'.mac = mac /\ edit'.stage # "stop_proxies")
  PROVE  MonitorInv'
<1>1. /\ DOMAIN timers' \subseteq Macs /\ timers' \in [DOMAIN timers' -> Timer]
      /\ \A m \in Macs \ {mac} : (m \in DOMAIN timers' <=> m \in DOMAIN timers)
      /\ \A m \in DOMAIN timers' \ {mac} : timers'[m] = timers[m]
      /\ mac \in DOMAIN timers' <=> HasTimer(config)
      /\ mac \in DOMAIN timers' => timers'[mac] = NewTimer(config)
  BY ConfiguredTimers DEF MonitorInv, MonitorTypeOK
<1>2. /\ machines'[mac] = config /\ signals'[mac] = 0
      /\ \A m \in Macs \ {mac} : machines'[m] = machines[m] /\ signals'[m] = signals[m]
      /\ machines' \in [Macs -> Config \cup {None}] /\ signals' \in [Macs -> 0..2]
  BY DEF MonitorInv, MonitorTypeOK
<1>3. config # None
  BY InactivityAssumption DEF Config
<1>4. MonitorTypeOK'
  BY <1>1, <1>2 DEF MonitorInv, MonitorTypeOK, Edit
<1>5. TriggeredMeansSignalled'
  <2>1. ~NewTimer(config).triggered
    BY DEF NewTimer
  <2>2. ASSUME NEW m \in Macs, m \in DOMAIN timers'
        PROVE  signals'[m] = (IF timers'[m].triggered THEN 1 ELSE 0)
    <3>1. CASE m = mac
      BY <1>1, <1>2, <2>1, <2>2, <3>1
    <3>2. CASE m # mac
      BY <1>1, <1>2, <2>2, <3>2 DEF MonitorInv, TriggeredMeansSignalled
    <3>. QED
      BY <3>1, <3>2
  <2>3. ASSUME NEW m \in Macs
        PROVE  signals'[m] <= 1
    BY <1>2 DEF MonitorInv, TriggeredMeansSignalled
  <2>. QED
    BY <2>2, <2>3 DEF TriggeredMeansSignalled
<1>6. TimersMatchRegistry'
  <2>1. NewTimer(config).window = Window(config.minutes)
    BY DEF NewTimer
  <2>2. ASSUME NEW m \in Macs, m \in DOMAIN timers'
        PROVE  /\ machines'[m] # None /\ HasTimer(machines'[m])
               /\ m \notin cut'
               /\ timers'[m].window = Window(machines'[m].minutes)
    BY <1>1, <1>2, <1>3, <2>1, <2>2 DEF MonitorInv, TimersMatchRegistry
  <2>3. ASSUME NEW m \in Macs, machines'[m] # None, HasTimer(machines'[m])
        PROVE  m \in DOMAIN timers' \/ m \in cut'
    BY <1>1, <1>2, <2>3 DEF MonitorInv, TimersMatchRegistry
  <2>. QED
    BY <2>1, <2>2, <2>3 DEF TimersMatchRegistry
<1>7. EditIsRegistered'
  <2>1. edit' # None =>
          /\ machines'[edit'.mac] # None /\ edit'.mac \notin cut'
          /\ edit'.stage = "stop_proxies" => edit'.mac \notin DOMAIN timers'
    BY <1>2, <1>3
  <2>2. \A m \in cut' : machines'[m] # None
    BY <1>2, <1>3 DEF MonitorInv, MonitorTypeOK, EditIsRegistered
  <2>. QED
    BY <2>1, <2>2 DEF EditIsRegistered
<1>. QED
  BY <1>4, <1>5, <1>6, <1>7 DEF MonitorInv

LEMMA AddStep ==
  ASSUME MonitorInv, NEW mac \in Macs, NEW config \in Config, add_machine_api(mac, config)
  PROVE  MonitorInv'
<1>1. edit' \in Edit /\ edit' = None
  BY DEF add_machine_api, Edit
<1>2. mac \notin cut
  BY DEF add_machine_api, MonitorInv, EditIsRegistered
<1>3. /\ edit = None \/ edit.mac = mac
      /\ edit' # None => (edit'.mac = mac /\ edit'.stage # "stop_proxies")
      /\ machines' = [machines EXCEPT ![mac] = config]
      /\ timers' = Configured(timers, mac, config)
      /\ signals' = [signals EXCEPT ![mac] = 0]
      /\ UNCHANGED <<current, tickDue, scanning, cut>>
  BY <1>1 DEF add_machine_api
<1>. QED
  BY <1>1, <1>2, <1>3, ConfigureStep

LEMMA StartStep ==
  ASSUME MonitorInv, StartConfigured
  PROVE  MonitorInv'
<1>1. /\ edit \in [mac : Macs, stage : {"stop_proxies", "restart_monitor"}]
      /\ edit.mac \in Macs /\ machines[edit.mac] \in Config /\ edit.mac \notin cut
  BY DEF StartConfigured, MonitorInv, MonitorTypeOK, EditIsRegistered
<1>2. edit' \in Edit /\ edit'.mac = edit.mac /\ edit'.stage # "stop_proxies"
  BY <1>1 DEF StartConfigured, Edit
<1>3. machines' = [machines EXCEPT ![edit.mac] = machines[edit.mac]]
  BY <1>1 DEF StartConfigured, MonitorInv, MonitorTypeOK
<1>. QED
  BY <1>1, <1>2, <1>3, ConfigureStep DEF StartConfigured

\* A handler that is dropped leaves its machine without a timer.
LEMMA DisconnectStep ==
  ASSUME MonitorInv, Disconnect
  PROVE  MonitorInv'
<1>1. /\ edit.mac \in Macs /\ machines[edit.mac] # None
      /\ edit.mac \notin DOMAIN timers
      /\ edit' = None /\ cut' = cut \cup {edit.mac}
      /\ UNCHANGED <<machines, timers, current, tickDue, scanning, signals>>
  BY DEF Disconnect, MonitorInv, MonitorTypeOK, EditIsRegistered
<1>2. MonitorTypeOK' /\ TriggeredMeansSignalled' /\ EditIsRegistered'
  BY <1>1 DEF MonitorInv, MonitorTypeOK, TriggeredMeansSignalled, EditIsRegistered
<1>3. TimersMatchRegistry'
  BY <1>1 DEF MonitorInv, TimersMatchRegistry
<1>. QED
  BY <1>2, <1>3 DEF MonitorInv

LEMMA DeleteStep ==
  ASSUME MonitorInv, NEW mac \in Macs, delete_machine_api(mac)
  PROVE  MonitorInv'
<1>1. /\ DOMAIN timers' = DOMAIN timers \ {mac} /\ timers' \in [DOMAIN timers' -> Timer]
      /\ \A m \in DOMAIN timers' : timers'[m] = timers[m]
  BY RemovedTimers DEF delete_machine_api, MonitorInv, MonitorTypeOK
<1>2. MonitorTypeOK'
  BY <1>1 DEF delete_machine_api, MonitorInv, MonitorTypeOK
<1>3. TriggeredMeansSignalled'
  BY <1>1 DEF delete_machine_api, MonitorInv, TriggeredMeansSignalled
<1>4. EditIsRegistered' /\ TimersMatchRegistry'
  BY <1>1 DEF delete_machine_api, MonitorInv, MonitorTypeOK, EditIsRegistered, TimersMatchRegistry
<1>. QED
  BY <1>2, <1>3, <1>4 DEF MonitorInv

LEMMA BeginUpdateStep ==
  ASSUME MonitorInv, NEW old \in Macs, NEW new \in Macs, NEW config \in Config,
         BeginUpdate(old, new, config)
  PROVE  MonitorInv'
<1>1. /\ DOMAIN timers' = DOMAIN timers \ {old} /\ timers' \in [DOMAIN timers' -> Timer]
      /\ \A m \in DOMAIN timers' : timers'[m] = timers[m]
  BY RemovedTimers DEF BeginUpdate, MonitorInv, MonitorTypeOK
<1>2. /\ edit = None /\ (new = old \/ machines[new] = None)
      /\ edit' = [mac |-> new, stage |-> "stop_proxies"]
      /\ UNCHANGED <<current, tickDue, scanning, signals>>
      /\ machines' \in [Macs -> Config \cup {None}] /\ machines'[new] = config
      /\ \A m \in Macs \ {old, new} : machines'[m] = machines[m]
      /\ old # new => machines'[old] = None
      /\ cut' = cut \ {old}
  BY DEF BeginUpdate, MonitorInv, MonitorTypeOK
<1>3. config # None /\ edit' # None /\ edit'.mac = new /\ edit'.stage = "stop_proxies"
  BY <1>2, InactivityAssumption DEF Config
<1>4. MonitorTypeOK'
  BY <1>1, <1>2 DEF MonitorInv, MonitorTypeOK
<1>5. TriggeredMeansSignalled'
  BY <1>1, <1>2 DEF MonitorInv, TriggeredMeansSignalled
<1>6. new \notin DOMAIN timers' /\ new \notin cut'
  BY <1>1, <1>2 DEF MonitorInv, TimersMatchRegistry, EditIsRegistered
<1>7. TimersMatchRegistry'
  BY <1>1, <1>2, <1>3, <1>6 DEF MonitorInv, MonitorTypeOK, TimersMatchRegistry
<1>8. EditIsRegistered'
  <2>1. \A m \in cut' : machines'[m] # None
    BY <1>2, <1>3 DEF MonitorInv, MonitorTypeOK, EditIsRegistered
  <2>. QED
    BY <1>2, <1>3, <1>6, <2>1 DEF EditIsRegistered
<1>. QED
  BY <1>4, <1>5, <1>7, <1>8 DEF MonitorInv

LEMMA RestartMonitorStep ==
  ASSUME MonitorInv, NEW fresh \in Monitors, restart_global_monitor(fresh)
  PROVE  MonitorInv'
<1>1. MonitorTypeOK'
  BY DEF restart_global_monitor, MonitorInv, MonitorTypeOK
<1>2. edit # None /\ edit.stage # "stop_proxies"
  BY DEF restart_global_monitor
<1>. QED
  BY <1>1, <1>2 DEF restart_global_monitor, MonitorInv, TriggeredMeansSignalled,
                    EditIsRegistered, TimersMatchRegistry

LEMMA NextMonitorInv == MonitorInv /\ [MonitorNext]_monitorVars => MonitorInv'
<1> SUFFICES ASSUME MonitorInv, [MonitorNext]_monitorVars
             PROVE  MonitorInv'
  OBVIOUS
<1>1. CASE Handlers
  BY <1>1, AddStep, DeleteStep, BeginUpdateStep, DisconnectStep, StartStep, RestartMonitorStep DEF Handlers
<1>2. CASE UNCHANGED monitorVars
  BY <1>2 DEF monitorVars, MonitorInv, MonitorTypeOK, TriggeredMeansSignalled, EditIsRegistered,
              TimersMatchRegistry
<1>. QED
  BY <1>1, <1>2, RequestStep, WakeStep, ScanStep, SecondStep DEF MonitorNext

THEOREM MonitorInvariance == MonitorSpec => []MonitorInv
<1>. QED
  BY InitMonitorInv, NextMonitorInv, PTL DEF MonitorSpec

-----------------------------------------------------------------------------
(* The theorems *)

\* The variables keep their types: windows never exceed a u32, whatever period
\* the dashboard sends.
THEOREM MonitorTypeCorrect == MonitorSpec => []MonitorTypeOK
<1>1. MonitorInv => MonitorTypeOK
  BY DEF MonitorInv
<1>. QED
  BY <1>1, MonitorInvariance, PTL

\* At most one turn-off request per machine and idle period, however many
\* scans of aborted monitors overlap.
THEOREM OneSignal == MonitorSpec => []OneSignalPerIdlePeriod
<1>1. MonitorInv => OneSignalPerIdlePeriod
  BY DEF MonitorInv, TriggeredMeansSignalled, OneSignalPerIdlePeriod
<1>. QED
  BY <1>1, MonitorInvariance, PTL

\* Timers exist only where the registry asks for them, with its window; they
\* are missing only for the machine a handler is editing and for those whose
\* last edit was cut short by a dropped connection.
THEOREM RegistryTimers == MonitorSpec => []TimersMatchRegistry
<1>1. MonitorInv => TimersMatchRegistry
  BY DEF MonitorInv
<1>. QED
  BY <1>1, MonitorInvariance, PTL

\* A turn-off request is only queued for a machine that is idle past its
\* window at that very moment, however old the clock reading of the scan.
THEOREM OnlyWhenIdle == MonitorSpec => SignalOnlyWhenIdle
<1> DEFINE IdleStep ==
      \A m \in Macs : signals'[m] > signals[m] =>
        m \in DOMAIN timers /\ timers[m].idle > timers[m].window
<1>1. MonitorTypeOK /\ [MonitorNext]_monitorVars => [IdleStep]_monitorVars
  <2> SUFFICES ASSUME MonitorTypeOK, MonitorNext, NEW m \in Macs, signals'[m] > signals[m]
               PROVE  m \in DOMAIN timers /\ timers[m].idle > timers[m].window
    OBVIOUS
  <2>1. PICK i \in Monitors : Scan(i)
    <3>1. signals[m] \in 0..2 /\ signals \in [Macs -> 0..2]
      BY DEF MonitorTypeOK
    <3>2. ASSUME NEW mac \in Macs, signals' = [signals EXCEPT ![mac] = 0]
          PROVE  FALSE
      BY <3>1, <3>2
    <3>3. ~ UNCHANGED signals
      BY <3>1
    <3>4. \A mac \in Macs : ~ update_last_request(mac)
      BY <3>2 DEF update_last_request
    <3>5. ~ Wake /\ ~ Second
      BY <3>3 DEF Wake, Second
    <3>6. ~ Handlers
      <4>1. StartConfigured => edit.mac \in Macs
        BY DEF StartConfigured, MonitorTypeOK
      <4>. QED
        BY <3>2, <3>3, <4>1 DEF Handlers, add_machine_api, delete_machine_api,
           BeginUpdate, Disconnect, StartConfigured, restart_global_monitor
    <3>. QED
      BY <3>4, <3>5, <3>6 DEF MonitorNext
  <2>2. m \in Overdue(scanning[i])
    BY <2>1 DEF Scan, MonitorTypeOK
  <2>3. scanning[i] \in Nat /\ timers[m] \in Timer
    BY <2>1, <2>2 DEF Scan, MonitorTypeOK, Overdue
  <2>4. timers[m].idle \in Nat /\ timers[m].window \in Nat
    BY <2>3, InactivityAssumption DEF Timer, MaxAge
  <2>. QED
    BY <2>2, <2>3, <2>4 DEF Overdue, saturating_sub
<1>. QED
  BY <1>1, MonitorTypeCorrect, PTL DEF MonitorSpec, SignalOnlyWhenIdle

=============================================================================
