SPECIFICATION FairSpec
CONSTANTS
    n1 = n1  idle = idle  walk = walk  jump = jump
    NoAnim = NoAnim  NoRig = NoRig  NoState = NoState
    Nodes = {n1}
    Anims = {idle, walk, jump}
    Drives <- MCDrives
    MaxLife = 3
    MaxAsks = 3
INVARIANTS
    TypeOK
    AppliedIsPlaying
    OneAtFullWeight
    StateReachesNode
PROPERTIES
    AskedIsPlayed
