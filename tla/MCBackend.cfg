SPECIFICATION FairSpec
CONSTANTS
    u1 = u1
    u2 = u2
    p1 = p1
    p2 = p2
    p3 = p3
    bad = bad
    w1 = w1
    w2 = w2
    short = short
    a = a
    b = b
    Requests <- MCRequests
    Seeds = {u1, u2}
    NoId = NoId
    Phones = {p1, p2, p3, bad}
    Passwords = {w1, w2, short}
    BadPhones = {bad}
    ShortPasswords = {short}
    InitUsers <- MCInitUsers
    Bodies <- MCBodies
    Calls <- MCCalls
    Columns = {a, b}
    Values = {1, 2}
    BadValues = {9}
    Null = Null
    Absent = Absent
    NoRow = NoRow
    Faulty = {"insert", "update", "make", "put"}
INVARIANTS BackendTypeOK RegisteredCanLogin TokensHonoured RegisterErrorExplained
    OwnValues LastWriteStands PutErrorExplained
    UrlsResolve UploadErrorExplained
PROPERTIES ImplementsRegistry EveryRequestAnswered
CHECK_DEADLOCK FALSE
