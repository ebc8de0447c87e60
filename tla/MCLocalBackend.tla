--------------------------- MODULE MCLocalBackend ---------------------------
(* Instances of LocalBackend for TLC.  See MCLocal.cfg for the sets.       *)
EXTENDS LocalBackend

CONSTANTS k1, p1, p2, o1, l1, d1, d2

OneKey == {k1}

TwoPuts    == {p1, p2}
OneOfThem  == {p1}
OneOpen    == {o1}
OneList    == {l1}
TwoDeletes == {d1, d2}

=============================================================================
