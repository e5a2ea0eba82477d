SPECIFICATION FairSpec
CONSTANTS
    Limit <- MCLimit
    MaxCandidates = 1
    MaxInFlight = 2
INVARIANTS
    TypeOK
    StreamingIsEstablished
    HandshakePerAttempt
    OfferFollowsIceServers
PROPERTIES
    CloseIsFinal
    ConnectSettles
