SPECIFICATION Spec
CONSTANTS
    c1 = c1
    c2 = c2
    shirt = shirt
    hat = hat
    idM = idM
    L = L
    four = four
    bad = bad
    Calls = {c1, c2}
    Listed <- MCListed
    Offers <- MCOffers
    Edits <- MCEdits
    Seeds = {idM}
    Names = {"L", "M"}
    Categories = {"TOP", "SHOES"}
    Filed = {"TOP"}
    Asks <- MCAsks
    MaxEntries = 2
    FallsShort <- MCFallsShort
    Keep = Keep
    NoName = NoName
    Absent = Absent
    Gone = Gone
    NoJob = NoJob
    NoSize = NoSize
INVARIANTS
    TypeOK
    DiscountedUnlessOutrun
PROPERTIES
    ShelvesWhole
    Ends
