SPECIFICATION MCSpec
CONSTANTS
    c1 = c1
    c2 = c2
    m1 = m1
    m2 = m2
    t1 = t1
    t2 = t2
    p1 = p1
    None = None
    Cred = {c1, c2}
    Model = {m1, m2}
    Offline = {m1}
    Default <- TheDefaults
    Row = {t1, t2, p1}
    Table <- TheTables
    Blank = {}
    MaxJobs = 2
    Batch = 2
    MaxTries = 2
    Rate <- TheRates
    PerCent = 2
    Budgets = {1}
    MaxPages = 1
    MaxTurns = 2
    MaxUpsets = 1
INVARIANTS
    TypeOK
    OneModel
    LoggedOnce
PROPERTIES
    Restored
CHECK_DEADLOCK FALSE
