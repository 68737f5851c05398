SPECIFICATION Spec
CONSTANTS
    c1 = c1
    c2 = c2
    c3 = c3
    alice = alice
    bob = bob
    dear = dear
    cheap = cheap
    Calls = {c1, c2, c3}
    Users = {alice, bob}
    Orders = {dear, cheap}
    OwnerOf <- MCOwnerOf
    Price <- MCPrice
    UsePoint <- MCUsePoint
    InitialPoints <- MCInitialPoints
    NoJob = NoJob
    NoEntry = NoEntry
INVARIANTS
    TypeOK
    RetryAppliesOnce
    CancelIsComplete
    RevertsEarnings
    GradeIsCurrent
PROPERTIES
    PostsAtomically
    Ends
