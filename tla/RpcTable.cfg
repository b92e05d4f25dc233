SPECIFICATION Spec
CONSTANTS
    Conns = {c1, c2}
    Nobody = Nobody
    Methods = {m1, m2}
    Null = Null
    IdMod = 4
    MaxAuth = 3
INVARIANTS IInv TableIsList EntriesFit BlocksOwned
