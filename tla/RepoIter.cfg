SPECIFICATION FairSpec
CONSTANTS
    MaxKey = 4
    Iters = {i1}
    Nowhere = Nowhere
INVARIANTS IInv Ascending NoneMissed NoGhosts
PROPERTY LoopEnds
