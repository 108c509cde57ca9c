---------------------------- MODULE MCConfigStore ----------------------------
(* Small instances of ConfigStore for TLC. *)
EXTENDS ConfigStore, TLC

\* Editors are interchangeable.
Symmetry == Permutations(Proc)
=============================================================================
