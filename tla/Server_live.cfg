SPECIFICATION ClosingSpec
CONSTANTS
    Peers = {p1, p2}
    ConnNr = 1
    Listen = Listen
    SigChan = SigChan
PROPERTIES TermStops Served HaltReturns
