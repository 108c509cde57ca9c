---------------------------- MODULE MCKillswitch ----------------------------
(* Small instances of Killswitch for TLC. *)
EXTENDS Killswitch, TLC

\* Process slots are interchangeable; used by the safety runs only.
Symmetry == Permutations(Proc)
=============================================================================
