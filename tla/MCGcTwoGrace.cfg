\* Two collectors and a republished Blob: the grace period is violated.
SPECIFICATION FairSpec
CONSTANTS
    a = a
    x = x
    A = A
    B = B
    p1 = p1
    p2 = p2
    g1 = g1
    g2 = g2
    Absent = Absent
    Ids <- OneBlob
    CasIds <- OneBlob
    Profiles <- OneProfile
    ProfileOf <- OneProfileOf
    Publishers <- OnePublisher
    Collectors <- TwoCollectors
    Grace = 1
    MaxTime = 2
PROPERTIES
    GraceProtects
\* Publishers and plans end, and the clock is bounded.
CHECK_DEADLOCK FALSE
