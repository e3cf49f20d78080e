----------------------------- MODULE MCNetchan ------------------------------
(* Netchan on a small instance: every message length up to two full        *)
(* fragments and an empty one, three messages.                             *)
EXTENDS Netchan
=============================================================================
