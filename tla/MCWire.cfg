SPECIFICATION Spec
CONSTANTS
    MaxCount = 2
    MaxBuilt = 6
    MaxWrites = 40
    BodyBytes = 5
    Slack = 9
INVARIANTS
    ParsedExactly
    BuiltExactly
