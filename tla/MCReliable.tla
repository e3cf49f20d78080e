----------------------------- MODULE MCReliable -----------------------------
(* ReliableCommands with rings of two strings that wrap around.            *)
EXTENDS ReliableCommands
=============================================================================
