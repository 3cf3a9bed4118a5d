CONSTANTS
    Cap = 5
    s200 = s200
    s404 = s404
    s500 = s500
    Okay = s200
    Failed = s500
    Others = {s404}
    Fields = {"field"}
    MaxSends = 1
    MaxWrites = 1
    TraceLines = 2
SPECIFICATION Spec
INVARIANTS SurvivesThePage
CHECK_DEADLOCK FALSE
