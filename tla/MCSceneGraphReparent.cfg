SPECIFICATION Spec
CONSTANTS
    a = a  b = b  c = c
    NoUid = NoUid  NoEntry = NoEntry  Root = Root  Nowhere = Nowhere
    Uids = {a, b}
    Entries = {e1, e2, e3}
    Parents <- MCAnyParent
    MeshNodes = {a, b}
    Anchored = {}
    MaxGeneration = 2
INVARIANTS
    SceneIsTree
CHECK_DEADLOCK FALSE
