\* Two callers of one handle; its source of two chunks is rewritten meanwhile.
SPECIFICATION Spec
CONSTANTS
    h1 = h1
    c1 = c1
    c2 = c2
    t1 = t1
    None = None
    Handles <- OneHandle
    Callers <- TwoCallers
    HandleOf <- OfOne
    Bytes <- ZeroOne
    Size = 2
    Tenants <- OneTenant
    Planted <- OnePlanted
    MaxPublish = 2
SYMMETRY Symmetry
INVARIANTS
    TypeOK
    RefsDenoteCapture
    PublishedAtMostOnce
    SnapshotDiscarded
PROPERTIES
    PublishesAtomically
\* Callers stop when they have made their calls.
CHECK_DEADLOCK FALSE
