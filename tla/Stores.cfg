SPECIFICATION StoresSpec
CONSTANTS
    c1 = c1
    c2 = c2
    c3 = c3
    first = first
    ann = ann
    bob = bob
    kim = kim
    f1 = f1
    Calls = {c1, c2, c3}
    First = first
    Users = {ann, bob, kim}
    Sellers = {ann, bob}
    Fields = {f1}
    Absent = Absent
    Gone = Gone
    NoJob = NoJob
SYMMETRY Symmetry
INVARIANTS
    FavoritesSound
    FiguresAgreeUnlessTorn
PROPERTIES
    StoresBelongToSellers
