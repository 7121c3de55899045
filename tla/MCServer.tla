------------------------------- MODULE MCServer -------------------------------
(* The server process for TLC. *)
EXTENDS ServerProperties
=============================================================================
