--------------------------- MODULE MCInstallations ----------------------------
(* Installations of a few programs, which are interchangeable. *)
EXTENDS Installations, TLC

Symmetry == Permutations(Versions)

=============================================================================
