\* Three puts of two values, a locate and two deletes race on one key.
SPECIFICATION Spec
CONSTANTS
    k1 = k1  w1 = w1  w2 = w2  w3 = w3  l1 = l1  d1 = d1  d2 = d2
    v1 = v1  v2 = v2
    NoFile = NoFile  NoValue = NoValue
    Keys <- OneKey
    Writers <- ThreeWriters
    Locates <- OneLocate
    Deletes <- TwoDeletes
    Values <- TwoValues
SYMMETRY Symmetry
INVARIANTS
    TypeOK
    Agreement
    Repeatable
    LocatesOne
PROPERTIES
    ActsAtomically
\* Every call is one-shot: the system stops when all have ended.
CHECK_DEADLOCK FALSE
