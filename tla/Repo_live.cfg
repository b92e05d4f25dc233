SPECIFICATION FairSpec
CONSTANTS
    p1 = p1
    p2 = p2
    t1 = t1
    t2 = t2
    v1 = v1
    Procs = {p1, p2}
    Files = {f1}
    Tables = {t1}
    TableLists <- OneList
    OpenModes <- NoTrunc
    Versions = {}
    SeqMod = 2
    ThreePC = FALSE
    NoSeq = NoSeq
    NoVersion = NoVersion
    NoFile = NoFile
    NoTxn = NoTxn
    NoProc = NoProc
    Torn = Torn
    Cut = Cut
PROPERTY CallsReturn
