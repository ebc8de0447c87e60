\* Two puts of trees race with each other, a put beneath them
\* and two deletes.
SPECIFICATION Spec
CONSTANTS
    f1 = f1
    p1 = p1
    p2 = p2
    i1 = i1
    d1 = d1
    d2 = d2
    NoTree = NoTree
    Files <- OneFile
    Puts <- TwoPuts
    Inner <- OneInner
    Deletes <- TwoDeletes
SYMMETRY Symmetry
INVARIANTS
    TypeOK
    TreesWhole
    OnlyDeletesUnpublish
    InnerFilesStay
    NothingLeftInside
PROPERTIES
    FilledTreeStays
    ActsAtomically
\* Every call is one-shot: the system stops when all have ended.
CHECK_DEADLOCK FALSE
