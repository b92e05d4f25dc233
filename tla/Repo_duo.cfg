SPECIFICATION Spec
CONSTANTS
    p1 = p1
    p2 = p2
    t1 = t1
    t2 = t2
    v1 = v1
    Procs = {p1, p2}
    Files = {f1}
    Tables = {t1, t2}
    TableLists <- SubLists
    Versions = {}
    OpenModes <- Modes
    SeqMod = 2
    ThreePC = FALSE
    NoSeq = NoSeq
    NoVersion = NoVersion
    NoFile = NoFile
    NoTxn = NoTxn
    NoProc = NoProc
    Torn = Torn
    Cut = Cut
INVARIANTS TxnBaseCurrent NextIdUnused
PROPERTIES OnlyWritersChangeContents CountersGoForward
VIEW View
SYMMETRY Symmetry
