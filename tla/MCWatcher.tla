----------------------------- MODULE MCWatcher -----------------------------
(* Small trees for Watcher: two configuration keys, one of which has the   *)
(* other's name as a prefix, in one directory.                             *)
EXTENDS Watcher, TLC

CONSTANTS vip, vips, root, v1, v2

MCSymmetry == Permutations({v1, v2})

MCLeaves == {vip, vips}
MCDirs == {root}

MCBelow == [p \in {vip, vips, root} |-> IF p = root THEN {vip, vips} ELSE {p}]
MCMatches == [p \in {vip, vips, root} |-> IF p = vips THEN {vips}
                                                      ELSE {vip, vips}]

MCOneLeaf == {vip}
MCOneBelow == [p \in {vip, root} |-> {vip}]
MCOneMatches == MCOneBelow
=============================================================================
