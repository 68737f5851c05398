SPECIFICATION Spec
CONSTANTS
    r1 = r1
    r2 = r2
    r3 = r3
    alice = alice
    bob = bob
    shirt = shirt
    coat = coat
    hat = hat
    M = M
    L = L
    StoreA = StoreA
    StoreB = StoreB
    Requests = {r1, r2}
    Buyers = {alice}
    Products = {shirt, coat, hat}
    Sizes = {M, L}
    Numbers = {1, 2}
    StringOf <- MCStringOf
    StoreOf <- MCStoreOf
    InitialStock <- MCInitialStock
    InitialPoints <- MCInitialPoints
    Baskets <- AllBaskets
    UsePoints = {0, 1}
    Levels = {1}
    MaxEdits <- MCMaxEdits
    NoRow = NoRow
    NoRequest = NoRequest
    NoOrder = NoOrder
INVARIANTS
    TypeOK
    ReservationsCovered
    OrderMatchesStock
    StockConserved
    SuccessIsSettled
PROPERTIES
    SoldOutAlerted
    SellsAtomically
    Answered
