--------------------------- MODULE OneShotRequests ---------------------------
(***************************************************************************)
(* What the client's authentication promises, without windows, retention   *)
(* or a table of nonces: a request takes effect once, and again only after *)
(* the client was made to forget it.  What makes it forget is limited: one *)
(* request whenever a further one comes while it knows Capacity of them,   *)
(* all of them when its process starts again, some when its clock is set   *)
(* back, and every request of a client set up without a key, which does    *)
(* not look at what it carries out.                                        *)
(***************************************************************************)
EXTENDS Naturals, FiniteSets

CONSTANTS Nonces, Capacity

VARIABLES
  guarded,   \* the client was set up with a key
  clock,     \* the client's wall clock
  used,      \* the requests that have taken effect
  forgotten  \* those of them that the client no longer knows

vars == <<guarded, clock, used, forgotten>>

Init ==
  /\ guarded \in BOOLEAN /\ clock \in Nat
  /\ used = {} /\ forgotten = {}

\* A request takes effect that the client does not know; one more may have to
\* be forgotten for it, once the client knows as many as it can.
Use(n) ==
  /\ guarded
  /\ n \notin used \ forgotten
  /\ used' = used \cup {n}
  /\ \E S \in SUBSET (used \ {n}) :
       /\ \A m, o \in S : m = o
       /\ S # {} => Cardinality(used \ forgotten) >= Capacity
       /\ forgotten' = (forgotten \ {n}) \cup S
  /\ UNCHANGED <<guarded, clock>>

\* Without a key every request takes effect and none is remembered.
UseUnguarded(n) ==
  /\ ~guarded
  /\ used' = used \cup {n}
  /\ forgotten' = forgotten \cup {n}
  /\ UNCHANGED <<guarded, clock>>

\* Time passing makes the client forget nothing that could still take effect.
ClockRuns ==
  /\ clock' \in Nat /\ clock' > clock
  /\ UNCHANGED <<guarded, used, forgotten>>

ClockSetBack ==
  /\ clock' \in Nat /\ clock' < clock
  /\ forgotten \subseteq forgotten' /\ forgotten' \subseteq used
  /\ UNCHANGED <<guarded, used>>

\* The client's memory is that of its process.
Restart ==
  /\ guarded' \in BOOLEAN
  /\ forgotten' = used
  /\ UNCHANGED <<clock, used>>

Next ==
  \/ \E n \in Nonces : Use(n) \/ UseUnguarded(n)
  \/ ClockRuns \/ ClockSetBack \/ Restart

Spec == Init /\ [][Next]_vars

=============================================================================
