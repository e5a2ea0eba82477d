SPECIFICATION Spec
CONSTANTS
    a = a  b = b  c = c
    NoUid = NoUid  NoEntry = NoEntry  Root = Root  Nowhere = Nowhere
    Uids = {a, b, c}
    Entries = {e1, e2, e3, e4}
    Parents <- MCChain
    MeshNodes = {a, c}
    Anchored = {a}
    MaxGeneration = 2
SYMMETRY EntrySymmetry
INVARIANTS
    TypeOK
    Wired
    RigIsLive
PROPERTIES
    RigNeverRegresses
CHECK_DEADLOCK FALSE
