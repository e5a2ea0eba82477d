SPECIFICATION Spec
CONSTANTS
    sky = sky  room = room  wall = wall
    Textures = {sky, room}
    Materials = {wall}
    TexturesOf <- MCTexturesOf
    MaxSessions = 1
    MaxCommands = 0
    MaxMoves = 1
PROPERTIES
    MissingTextureTolerated
CHECK_DEADLOCK FALSE
