SPECIFICATION Spec
CONSTANTS
    c1 = c1
    c2 = c2
    c3 = c3
    b1 = b1
    b2 = b2
    o1 = o1
    o2 = o2
    s1 = s1
    s2 = s2
    f1 = f1
    f2 = f2
    Calls = {c1, c2, c3}
    Buyers = {b1, b2}
    Orders = {o1, o2}
    Seeds = {s1, s2}
    Fields = {f1, f2}
    Limit = 1
    First = First
    Absent = Absent
    Gone = Gone
    NoJob = NoJob
SYMMETRY Symmetry
INVARIANTS
    OneReviewUnlessCrossed
    WalkShowsAll
PROPERTIES
    EditsKeepUnsent
