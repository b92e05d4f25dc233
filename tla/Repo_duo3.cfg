SPECIFICATION Spec
CONSTANTS
    p1 = p1
    p2 = p2
    t1 = t1
    t2 = t2
    v1 = v1
    Procs = {p1, p2}
    Files = {f1, f2, f3, f4}
    Tables = {t1}
    TableLists <- OneList
    Versions = {}
    OpenModes <- NoTrunc
    SeqMod = 2
    ThreePC = TRUE
    NoSeq = NoSeq
    NoVersion = NoVersion
    NoFile = NoFile
    NoTxn = NoTxn
    NoProc = NoProc
    Torn = Torn
    Cut = Cut
INVARIANT IInv
VIEW View
SYMMETRY Symmetry
