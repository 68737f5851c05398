SPECIFICATION Spec
CONSTANTS
    c1 = c1
    c2 = c2
    c3 = c3
    first = first
    ann = ann
    Ann = Ann
    b1 = b1
    b2 = b2
    Calls = {c1, c2, c3}
    First = first
    Emails = {ann}
    Spellings = {ann, Ann}
    Lower <- TypedLower
    Browsers = {b1, b2}
    Fields = {"name", "passwordHash"}
    Nobody = Nobody
    Absent = Absent
    NoCookie = NoCookie
    NoJob = NoJob
SYMMETRY Symmetry
INVARIANTS
    OneRotationPerToken
    LogoutEndsSessions
    CookieFollowsRotation
PROPERTIES
    SessionsKeepPromise
