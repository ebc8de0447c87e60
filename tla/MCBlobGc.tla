------------------------------ MODULE MCBlobGc ------------------------------
(* Instances of BlobGc for TLC.                                            *)
EXTENDS BlobGc

CONSTANTS a, x,         \* a Blob, and an object that is no Blob
          A, B,         \* profiles
          p1, p2,       \* publishers
          g1, g2        \* collectors

OneBlob       == {a}
BlobAndOther  == {a, x}
OneProfile    == {A}
TwoProfiles   == {A, B}
OneProfileOf  == [i \in Ids |-> A]
TwoProfilesOf == [i \in Ids |-> IF i = a THEN A ELSE B]
OnePublisher  == {p1}
TwoPublishers == {p1, p2}
OneCollector  == {g1}
TwoCollectors == {g1, g2}

=============================================================================
