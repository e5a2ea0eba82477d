SPECIFICATION Spec
CONSTANTS
    voice = voice
    Emitters = {voice}
    MaxPolicies = 2
    MaxRequests = 2
INVARIANTS
    MicrophoneStops
PROPERTIES
    ServerGetsOffer
CHECK_DEADLOCK FALSE
