SPECIFICATION Spec
CONSTANTS
    c1 = c1
    c2 = c2
    c3 = c3
    c4 = c4
    i1 = i1
    Calls = {c1, c2, c3, c4}
    Inquiries = {i1}
    First = First
    Absent = Absent
    Gone = Gone
    NoAnswer = NoAnswer
    NoJob = NoJob
INVARIANTS
    StatusTellsAnswer
PROPERTIES
    EditsOnlyOvertake
    ChangesTogether
    Ends
