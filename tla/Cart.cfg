SPECIFICATION Spec
CONSTANTS
    c1 = c1
    c2 = c2
    c3 = c3
    alice = alice
    M = M
    L = L
    Calls = {c1, c2, c3}
    Buyers = {alice}
    Items = {M, L}
    Wishes <- MCWishes
    Earlier = {M}
    PoolSize = 2
    NoLine = NoLine
    Kept = Kept
    NoJob = NoJob
    Old = Old
INVARIANTS
    TypeOK
    TotalExactUnlessOutrun
PROPERTIES
    LinesKeepIdentity
    EditsAtomically
    Ends
