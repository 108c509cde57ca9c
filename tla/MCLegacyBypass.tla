--------------------------- MODULE MCLegacyBypass ---------------------------
(* Small instances of LegacyBypass for TLC. *)
EXTENDS LegacyBypass
=============================================================================
