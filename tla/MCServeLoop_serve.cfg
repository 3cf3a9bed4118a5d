CONSTANTS
    MaxConns = 3
    MaxBacklog = 2
    Dummy = Dummy
SPECIFICATION Spec
INVARIANTS TypeOK EarlierRequestsComplete
PROPERTIES ExitEnds EveryConnectionEnds ActsAsOneServer
