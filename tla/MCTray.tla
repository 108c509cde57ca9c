------------------------------- MODULE MCTray -------------------------------
(* A small instance of Tray for TLC. *)
EXTENDS Tray
=============================================================================
