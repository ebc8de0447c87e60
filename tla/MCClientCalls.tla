---------------------------- MODULE MCClientCalls ----------------------------
(* Instances of ClientCalls for TLC.  See the .cfg files for the sets. *)
EXTENDS ClientCalls, TLC

CONSTANTS k1, w1, w2, w3, l1, d1, d2, v1, v2

OneKey       == {k1}
OneWriter    == {w1}
ThreeWriters == {w1, w2, w3}
OneLocate    == {l1}
OneDelete    == {d1}
TwoDeletes   == {d1, d2}
OneValue     == {v1}
TwoValues    == {v1, v2}

(* No definition tells writers, deletes or values apart. *)
Symmetry ==
    Permutations(Writers) \cup Permutations(Deletes) \cup Permutations(Values)

=============================================================================
