CONSTANTS
    Cap = 2
    s0 = s0
    s200 = s200
    s404 = s404
    s500 = s500
    setX = setX
    addX = addX
    noName = noName
    mimeType = mimeType
    Okay = s200
    Failed = s500
    Others = {s0, s404}
    Low = {s0}
    Fields = {setX, addX, noName, mimeType}
    Kind <- KindOf
    MaxSends = 2
    MaxWrites = 1
    TraceLines = 1
    Params = {"a", "A"}
    MaxParams = 2
    Absent = Absent
SPECIFICATION ExchangeSpec
INVARIANTS EveryRequestIsRead
CHECK_DEADLOCK FALSE
