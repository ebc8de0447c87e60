\* One collector beside two publishers of one Blob.
SPECIFICATION FairSpec
CONSTANTS
    a = a
    x = x
    A = A
    B = B
    p1 = p1
    p2 = p2
    g1 = g1
    g2 = g2
    Absent = Absent
    Ids <- OneBlob
    CasIds <- OneBlob
    Profiles <- OneProfile
    ProfileOf <- OneProfileOf
    Publishers <- TwoPublishers
    Collectors <- OneCollector
    Grace = 2
    MaxTime = 4
INVARIANTS
    TypeOK
    FreshRefsResolve
    RefsDenoteTheirDigest
PROPERTIES
    GraceProtects
    ExecuteEnds
\* Publishers and plans end, and the clock is bounded.
CHECK_DEADLOCK FALSE
