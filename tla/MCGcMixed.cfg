\* Two collectors, a Blob in one profile and an object that is no Blob in another.
SPECIFICATION Spec
CONSTANTS
    a = a
    x = x
    A = A
    B = B
    p1 = p1
    p2 = p2
    g1 = g1
    g2 = g2
    Absent = Absent
    Ids <- BlobAndOther
    CasIds <- OneBlob
    Profiles <- TwoProfiles
    ProfileOf <- TwoProfilesOf
    Publishers <- OnePublisher
    Collectors <- TwoCollectors
    Grace = 1
    MaxTime = 1
INVARIANTS
    SettledRefsResolve
    EveryCandidateAccounted
    FreshRefsResolve
PROPERTIES
    OnlyCasObjectsRemoved
    GraceProtectsUnshared
\* Publishers and plans end, and the clock is bounded.
CHECK_DEADLOCK FALSE
