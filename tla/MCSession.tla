----------------------------- MODULE MCSession -----------------------------
(* One request for everything, over a cache of one or two keys.            *)
EXTENDS Session, TLC

CONSTANTS web, other, all, r1, up, moved, down

MCUnder == [s \in {all} |-> Keys]
MCWatched == [r \in {r1} |-> all]

\* "up" and "moved" differ only in what the API leaves out.
MCSeen == [v \in Values |-> IF v = moved THEN up ELSE v]
=============================================================================
