------------------------ MODULE MCDirectoryPublication ------------------------
(* An instance of DirectoryPublication for TLC.                            *)
EXTENDS DirectoryPublication, TLC

CONSTANTS f1, p1, p2, i1, d1, d2

OneFile    == {f1}
TwoPuts    == {p1, p2}
OneInner   == {i1}
TwoDeletes == {d1, d2}

(* Files, puts and deletes are interchangeable. *)
Symmetry == Permutations(Files) \cup Permutations(Puts) \cup Permutations(Deletes)
=============================================================================
