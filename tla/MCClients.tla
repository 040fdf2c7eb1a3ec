------------------------------ MODULE MCClients ------------------------------
(* Two callers of one watch. *)
EXTENDS Clients, TLC

CONSTANTS n1, n2
=============================================================================
