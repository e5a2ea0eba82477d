SPECIFICATION Spec
CONSTANTS
    n1 = n1  idle = idle  walk = walk  jump = jump
    NoAnim = NoAnim  NoRig = NoRig  NoState = NoState
    Nodes = {n1}
    Anims = {walk, jump}
    Drives <- MCDrives
    MaxLife = 2
    MaxAsks = 3
INVARIANTS
    LoopNeverPaused
