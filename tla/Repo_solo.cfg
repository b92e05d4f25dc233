SPECIFICATION Spec
CONSTANTS
    p1 = p1
    p2 = p2
    t1 = t1
    t2 = t2
    v1 = v1
    Procs = {p1}
    Files = {f1, f2}
    Tables = {t1}
    TableLists <- OneList
    Versions = {v1}
    OpenModes <- Modes
    SeqMod = 3
    ThreePC = TRUE
    NoSeq = NoSeq
    NoVersion = NoVersion
    NoFile = NoFile
    NoTxn = NoTxn
    NoProc = NoProc
    Torn = Torn
    Cut = Cut
INVARIANTS TypeOK BackupIsBase NothingLeaks NextIdUnused CommitReachesPath
PROPERTY ImplementsUndoStore
VIEW View
SYMMETRY Symmetry
