----------------------------- MODULE ReplayGuard -----------------------------
(***************************************************************************)
(* Which requests the client service carries out.                          *)
(*                                                                         *)
(* The proxy signs a request with the machine's key, a fresh nonce and its *)
(* own clock (shutdown_auth.rs, sign_request_at), or sends a turn-off      *)
(* without a signature to a machine it has no key for (forward.rs).  The   *)
(* network may delay, reorder, repeat or lose it.  The client              *)
(* (client_server.rs, authenticate) checks it under one mutex: the         *)
(* timestamp against its own clock, the nonce against a table of the       *)
(* nonces it has accepted, then the signature (ReplayGuard::verify).       *)
(* Requests of both routes (/health/secure and /machines/turn-off) share   *)
(* the table.  A client set up without a key checks nothing: it carries    *)
(* out every turn-off that arrives, and refuses every secure health check. *)
(*                                                                         *)
(* A request is identified by its nonce, an unsigned one by a number of    *)
(* its own.  Header texts, base64 and the HMAC are abstracted to "signed   *)
(* with key k".  Headers that are missing or do not parse, a timestamp     *)
(* outside the window and a health check without a key are refused before  *)
(* any state changes: those early returns are stuttering steps.            *)
(***************************************************************************)
EXTENDS Naturals, FiniteSets, Functions

CONSTANTS
  Nonces,       \* one per request: 128 random bits, never repeated
  Keys,         \* the shutdown keys
  NoKey,        \* a client set up without a key, a request without a signature
  MaxClockSkew, \* MAX_CLOCK_SKEW, 60 seconds in the code
  Retention,    \* ReplayGuard.retention, 120 seconds in the code
  Capacity,     \* ReplayGuard.capacity, 4096 in the code
  MaxTime       \* bound on both clocks

\* Retention covers both sides of the window; ReplayGuard::default() meets it
\* with equality.
ASSUME ReplayGuardAssumption ==
  /\ MaxClockSkew \in Nat /\ Retention \in Nat /\ MaxTime \in Nat
  /\ Capacity \in Nat \ {0}
  /\ Retention >= 2 * MaxClockSkew
  /\ NoKey \notin Keys

VARIABLES
  clientKey,  \* ClientState.shutdown_key
  now,        \* unix_timestamp() of the client
  sent,       \* nonce -> the request the proxy sent with it
  seen,       \* ReplayGuard.seen: nonce -> when it was accepted
  used,       \* requests that have taken effect, in any process (history)
  forgotten,  \* those of them the client has been made to forget (history)
  repeated    \* those that took effect again although not forgotten (history)

vars == <<clientKey, now, sent, seen, used, forgotten, repeated>>
history == <<used, forgotten, repeated>>

Routes == {"health", "turn_off"}
Request == [route : Routes, ts : 0..MaxTime, key : Keys \cup {NoKey}]

AbsDiff(a, b) == IF a >= b THEN a - b ELSE b - a
SaturatingSub(a, b) == IF a >= b THEN a - b ELSE 0

Init ==
  /\ clientKey \in Keys \cup {NoKey}
  /\ now \in 0..MaxTime
  /\ sent = [n \in {} |-> 0]
  /\ seen = [n \in {} |-> 0]
  /\ used = {} /\ forgotten = {} /\ repeated = {}

-----------------------------------------------------------------------------
Sends(n, request) ==
  /\ n \notin DOMAIN sent
  /\ sent' = [m \in DOMAIN sent \cup {n} |-> IF m = n THEN request ELSE sent[m]]
  /\ UNCHANGED <<clientKey, now, seen, history>>

\* The proxy signs a request.  Its clock is independent of the client's.
sign_request_at(n, route, key, timestamp) ==
  Sends(n, [route |-> route, ts |-> timestamp, key |-> key])

\* turn_off_remote_machine for a machine without a key: no headers at all.
turn_off_unsigned(n) == Sends(n, [route |-> "turn_off", ts |-> 0, key |-> NoKey])

InWindow(n) == AbsDiff(now, sent[n].ts) <= MaxClockSkew

\* Fault: a nonce is dropped one second too early.
Retained_Short == {m \in DOMAIN seen : SaturatingSub(now, seen[m]) < Retention}

\* The nonces that prune(now) keeps.
Retained == {m \in DOMAIN seen : SaturatingSub(now, seen[m]) <= Retention}

\* What may be left of S after the capacity check of verify; min_by_key takes
\* any of the equally old entries, in the order of the hash map.
AfterRemoveOldest(S) ==
  IF Cardinality(S) >= Capacity
  THEN {S \ {o} : o \in {m \in S : \A p \in S : seen[m] <= seen[p]}}
  ELSE {S}

\* A signed request arrives at a client with a key and passes the timestamp
\* check of verify.
Arrives(n) ==
  /\ clientKey # NoKey
  /\ n \in DOMAIN sent /\ sent[n].key # NoKey
  /\ InWindow(n)

\* Bookkeeping of the histories: n takes effect now.
TakesEffect(n) ==
  /\ used' = used \cup {n}
  /\ repeated' = IF n \in used \ forgotten THEN repeated \cup {n} ELSE repeated

RejectReplay(n) ==
  /\ Arrives(n)
  /\ n \in Retained
  /\ seen' = Restrict(seen, Retained)
  /\ UNCHANGED <<clientKey, now, sent, history>>

\* Fault: the nonce is entered before the signature is checked.
RejectSignature_BurnsNonce(n) ==
  /\ Arrives(n)
  /\ n \notin Retained
  /\ sent[n].key # clientKey
  /\ seen' = [m \in Retained \cup {n} |-> IF m = n THEN now ELSE seen[m]]
  /\ UNCHANGED <<clientKey, now, sent, history>>

RejectSignature(n) ==
  /\ Arrives(n)
  /\ n \notin Retained
  /\ sent[n].key # clientKey
  /\ seen' = Restrict(seen, Retained)
  /\ UNCHANGED <<clientKey, now, sent, history>>

\* Fault: the table is written but never asked.
Accept_AnyNonce(n) ==
  /\ Arrives(n)
  /\ sent[n].key = clientKey
  /\ \E left \in AfterRemoveOldest(Retained) :
       /\ seen' = [m \in left \cup {n} |-> IF m = n THEN now ELSE seen[m]]
       /\ forgotten' = (forgotten \ {n}) \cup (Retained \ left)
  /\ TakesEffect(n)
  /\ UNCHANGED <<clientKey, now, sent>>

\* Fault: the table is given the time when the nonce may be dropped.
Accept_StoresExpiry(n) ==
  /\ Arrives(n)
  /\ n \notin Retained
  /\ sent[n].key = clientKey
  /\ \E left \in AfterRemoveOldest(Retained) :
       /\ seen' = [m \in left \cup {n} |-> IF m = n THEN now + Retention ELSE seen[m]]
       /\ forgotten' = (forgotten \ {n}) \cup (Retained \ left)
  /\ TakesEffect(n)
  /\ UNCHANGED <<clientKey, now, sent>>

Accept(n) ==
  /\ Arrives(n)
  /\ n \notin Retained
  /\ sent[n].key = clientKey
  /\ \E left \in AfterRemoveOldest(Retained) :
       /\ seen' = [m \in left \cup {n} |-> IF m = n THEN now ELSE seen[m]]
       /\ forgotten' = (forgotten \ {n}) \cup (Retained \ left)
  /\ TakesEffect(n)
  /\ UNCHANGED <<clientKey, now, sent>>

verify(n) == RejectReplay(n) \/ RejectSignature(n) \/ Accept(n)

\* turn_off_machine of a client without a key: whatever arrives is carried out,
\* signed or not, for the first time or again, and nothing is recorded.
turn_off_legacy(n) ==
  /\ clientKey = NoKey
  /\ n \in DOMAIN sent /\ sent[n].route = "turn_off"
  /\ TakesEffect(n)
  /\ forgotten' = forgotten \cup {n}
  /\ UNCHANGED <<clientKey, now, sent, seen>>

-----------------------------------------------------------------------------
\* The client's wall clock moves: by seconds, by the length of a suspend, or
\* back when it is set.  Set back into the window of a request whose nonce was
\* pruned, it makes the client forget it.
ClockMoves(t) ==
  /\ now' = t
  /\ forgotten' = IF t < now
                  THEN forgotten \cup {n \in used \ DOMAIN seen :
                                         t <= sent[n].ts + MaxClockSkew}
                  ELSE forgotten
  /\ UNCHANGED <<clientKey, sent, seen, used, repeated>>

\* The client process is started again, with the key it is set up with now:
\* build_router makes an empty guard.
build_router(key) ==
  /\ clientKey' = key
  /\ seen' = [n \in {} |-> 0]
  /\ forgotten' = used
  /\ UNCHANGED <<now, sent, used, repeated>>

Next ==
  \/ \E n \in Nonces, route \in Routes, key \in Keys, t \in 0..MaxTime :
       sign_request_at(n, route, key, t)
  \/ \E n \in Nonces : turn_off_unsigned(n) \/ verify(n) \/ turn_off_legacy(n)
  \/ \E t \in 0..MaxTime : ClockMoves(t)
  \/ \E key \in Keys \cup {NoKey} : build_router(key)

Spec == Init /\ [][Next]_vars

-----------------------------------------------------------------------------
(* Properties *)

\* Types of the guard's state: every nonce of the table is dated at or before
\* the last second of the clock, and what is forgotten has been used.
TypeOK ==
  /\ clientKey \in Keys \cup {NoKey}
  /\ now \in 0..MaxTime
  /\ DOMAIN sent \subseteq Nonces /\ sent \in [DOMAIN sent -> Request]
  /\ DOMAIN seen \subseteq Nonces /\ seen \in [DOMAIN seen -> 0..MaxTime]
  /\ used \subseteq DOMAIN sent /\ forgotten \subseteq used
  /\ repeated \subseteq used

\* A request that took effect takes effect again only after the client was
\* made to forget it, however often the network repeats it, and once more per
\* loss of memory: a full table that drops its oldest nonce (remove_oldest), a
\* restart of the process, a clock set back into the window of a nonce already
\* pruned, or a client without a key (turn_off_machine).  Neither the pruning
\* of ReplayGuard::prune nor a clock set back while the nonce is in the table
\* ever makes a replay acceptable.
AtMostOnce == repeated = {}

\* The table of nonces never outgrows the capacity (ReplayGuard::verify makes
\* room before it inserts).
SeenWithinCapacity == Cardinality(DOMAIN seen) <= Capacity

\* Only a request that took effect in this process is refused as a replay: a
\* request with a bad signature must not burn its nonce (verify inserts after
\* the HMAC check).
SeenWereAccepted == DOMAIN seen \subseteq used \ forgotten

\* Why AtMostOnce holds: a nonce that left the table by pruning belongs to a
\* request whose window the clock has passed, and a nonce in the table was
\* accepted no earlier than its window begins.
ForgottenAreStale ==
  /\ \A n \in used \ (forgotten \cup DOMAIN seen) : now > sent[n].ts + MaxClockSkew
  /\ \A n \in DOMAIN seen : sent[n].ts <= seen[n] + MaxClockSkew

\* The client, with its clock, window, pruning, eviction, restarts and the mode
\* without a key, implements the promise of OneShotRequests.
Abstract == INSTANCE OneShotRequests WITH guarded <- clientKey # NoKey, clock <- now
ImplementsOneShot == Abstract!Spec

=============================================================================
