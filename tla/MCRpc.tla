------------------------------- MODULE MCRpc -------------------------------
(* Two calls of one key. *)
EXTENDS Rpc, TLC

CONSTANTS a, odd, c1, c2
=============================================================================
