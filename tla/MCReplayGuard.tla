---------------------------- MODULE MCReplayGuard ----------------------------
(* ReplayGuard on a few requests and a clock of a few seconds. *)
EXTENDS ReplayGuard, TLC

\* Nonces and keys are only compared for equality.
Symmetry == Permutations(Nonces) \cup Permutations(Keys)

=============================================================================
