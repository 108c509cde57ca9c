--------------------------- MODULE MCInstallation ---------------------------
(* Small instances of Installation for TLC. *)
EXTENDS Installation, TLC

\* The slots of hook commands are interchangeable.
Symmetry == Permutations(Hook)
=============================================================================
