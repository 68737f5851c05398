SPECIFICATION FeedSpec
CONSTANTS
    c1 = c1
    c2 = c2
    p1 = p1
    p2 = p2
    a1 = a1
    a2 = a2
    Checks = {c1, c2}
    Polls = {p1, p2}
    Alarms = {a1, a2}
    Allowed = {a1}
    Patience = 2
    NoPoll = NoPoll
    NoAlarm = NoAlarm
INVARIANTS
    NothingComesBack
PROPERTIES
    UnreadIsSent
