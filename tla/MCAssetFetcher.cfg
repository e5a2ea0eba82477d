SPECIFICATION FairSpec
CONSTANTS
    Urls = {u1}
    u1 = u1
    c1 = c1  c2 = c2  c3 = c3
    f1 = f1  f2 = f2  f3 = f3
    Calls = {c1, c2, c3}
    Fetches = {f1, f2, f3}
    NoFetch = NoFetch
    MaxClients = 2
    MaxClears = 2
    MaxVersion = 2
INVARIANTS
    TypeOK
    FlightsBounded
PROPERTIES
    NoRegress
    CallsSettle
    SharesOneFetch
CHECK_DEADLOCK FALSE
