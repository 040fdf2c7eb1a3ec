----------------------------- MODULE MCInverted -----------------------------
(* Two groups in one directory, the name of one beginning with that of the *)
(* other, and two addresses of which the same is true.                     *)
EXTENDS Inverted

CONSTANTS vip, vips, root, ip1, ip12, none, one, two, both

MCLeaves == {vip, vips}
MCSorted == <<vip, vips>>
MCBelow == [p \in {vip, vips, root} |-> IF p = root THEN {vip, vips} ELSE {p}]
MCMatches == [p \in {vip, vips, root} |-> IF p = vips THEN {vips}
                                                      ELSE {vip, vips}]
MCLists == [v \in Vals |-> CASE v = one -> {ip1} [] v = two -> {ip12}
                             [] v = both -> {ip1, ip12} [] OTHER -> {}]
MCLonger == [i \in {ip1, ip12} |-> IF i = ip1 THEN {ip1, ip12} ELSE {ip12}]
=============================================================================
