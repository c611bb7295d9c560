---------------------------- MODULE MCUserDirectory ----------------------------
(* A small instance of UserDirectory for TLC. *)
EXTENDS UserDirectory

CONSTANTS c1, c2

MCClients == {c1, c2}
===============================================================================
