\* A reference recorded during execution, to an old object: violated.
SPECIFICATION FairSpec
CONSTANTS
    a = a
    x = x
    A = A
    B = B
    p1 = p1
    p2 = p2
    g1 = g1
    g2 = g2
    Absent = Absent
    Ids <- OneBlob
    CasIds <- OneBlob
    Profiles <- OneProfile
    ProfileOf <- OneProfileOf
    Publishers <- OnePublisher
    Collectors <- OneCollector
    Grace = 1
    MaxTime = 2
PROPERTIES
    LiveNeverRemoved
\* Publishers and plans end, and the clock is bounded.
CHECK_DEADLOCK FALSE
