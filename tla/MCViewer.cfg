SPECIFICATION Spec
CONSTANTS
    sky = sky  room = room  wall = wall
    Textures = {sky, room}
    Materials = {wall}
    TexturesOf <- MCTexturesOf
    MaxSessions = 2
    MaxCommands = 2
    MaxMoves = 2
INVARIANTS
    NewestLights
    EnvironmentIsLive
    SessionIsShown
PROPERTIES
    StartsWhenMet
    MaterialBuilt
CHECK_DEADLOCK FALSE
