CONSTANTS
    c1 = c1  c2 = c2
    Callers <- MCCallers
    NoTemplate = NoTemplate
    MaxWrites = 4
CHECK_DEADLOCK FALSE
SPECIFICATION Spec
PROPERTIES
    VersionFollowsContent
