SPECIFICATION Spec
CONSTANTS
    jump = jump
    Keys = {jump}
INVARIANTS
    KeysAreHeld
    EventsAgree
PROPERTIES
    ServerAgrees
    PictureComesBack
