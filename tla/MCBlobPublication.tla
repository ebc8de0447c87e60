------------------------- MODULE MCBlobPublication -------------------------
(* Instances of BlobPublication for TLC.                                   *)
EXTENDS BlobPublication, TLC

CONSTANTS h1, c1, c2, t1

OneHandle  == {h1}
TwoCallers == {c1, c2}
OfOne      == [c \in Callers |-> h1]
OneTenant  == {t1}
ZeroOne    == {0, 1}

(* One key whose object may be sound, damaged or absent at the start. *)
OnePlanted == {<<t1, [n \in 1..Size |-> 0]>>}

Symmetry == Permutations(TwoCallers)

=============================================================================
