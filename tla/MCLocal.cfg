\* Two puts, of which one may die, a reader, a listing and two deletes race
\* on one key.
SPECIFICATION FairSpec
CONSTANTS
    k1 = k1
    p1 = p1
    p2 = p2
    o1 = o1
    l1 = l1
    d1 = d1
    d2 = d2
    NoFile = NoFile
    Keys <- OneKey
    Puts <- TwoPuts
    Opens <- OneOpen
    Lists <- OneList
    Deletes <- TwoDeletes
    Size = 1
    Mortal <- OneOfThem
INVARIANTS
    TypeOK
    StagingCleaned
    ExistsJustified
    CompleteObjects
    PowerFailureLeavesWhole
    OneDeletePerObject
    DescribesOne
PROPERTIES
    NoOverwrite
    CallsReturn
    Implements
\* Every call is one-shot: the system stops when all have ended.
CHECK_DEADLOCK FALSE
