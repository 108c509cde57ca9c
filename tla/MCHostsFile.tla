----------------------------- MODULE MCHostsFile -----------------------------
(* Small instances of HostsFile for TLC. *)
EXTENDS HostsFile
=============================================================================
