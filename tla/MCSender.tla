------------------------------ MODULE MCSender ------------------------------
(* A receiver of the key "vip" and two of everything, in a cache where     *)
(* "vip" is a prefix of "vips".                                            *)
EXTENDS Sender, TLC

CONSTANTS vip, vips, all, r1, r2, r3

MCUnder == [s \in {vip, all} |-> {vip, vips}]
MCPrefixes == (r1 :> vip) @@ (r2 :> all) @@ (r3 :> all)
MCSymmetry == Permutations({r2, r3})
=============================================================================
