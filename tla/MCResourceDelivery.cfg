SPECIFICATION FairSpec
CONSTANTS
    node = node
    texture = texture
    clip = clip
    Uids = {node, texture, clip}
    Kind <- MCKind
    MaxDeliveries = 2
INVARIANTS
    TypeOK
    Accounted
    AckMeansUsable
PROPERTIES
    AnswersOnce
    VerdictReached
