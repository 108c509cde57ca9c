------------------------------ MODULE MCBypass ------------------------------
(* Small instances of Bypass for TLC. *)
EXTENDS Bypass, TLC
=============================================================================
