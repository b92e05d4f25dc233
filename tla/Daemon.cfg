SPECIFICATION DSpec
CONSTANTS
    m1 = m1
    m2 = m2
    Peers = {p1, p2, p3}
    ConnNr = 2
    Listen = Listen
    SigChan = SigChan
    Nobody = Nobody
    Methods = {m1, m2}
    Null = Null
    IdMod = 3
    MaxAuth = 2
    Factories <- TwoFactories
INVARIANTS DInv TypeOK EventsFit StopMeansAsked ZeroMeansDrained Released
INVARIANTS TablesFollowPool RequestsFindMethods
PROPERTIES HaltDrains ImplementsService
