\* A profile without Blobs makes plan raise: violated.
SPECIFICATION Spec
CONSTANTS
    a = a
    x = x
    A = A
    B = B
    p1 = p1
    p2 = p2
    g1 = g1
    g2 = g2
    Absent = Absent
    Ids <- OneBlob
    CasIds <- OneBlob
    Profiles <- OneProfile
    ProfileOf <- OneProfileOf
    Publishers <- OnePublisher
    Collectors <- OneCollector
    Grace = 1
    MaxTime = 1
INVARIANTS
    UnlistableProfileSkipped
\* Publishers and plans end, and the clock is bounded.
CHECK_DEADLOCK FALSE
