------------------------------ MODULE MCIPRange ------------------------------
(* Small instances of IPRange for TLC. *)
EXTENDS IPRange
=============================================================================
