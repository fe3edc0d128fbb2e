\* Nothing waits in these modules: they stop when what can be created has been.
SPECIFICATION MCSpec
CONSTANTS
    i1 = i1
    i2 = i2
    a1 = a1
    m1 = m1
    m2 = m2
    m3 = m3
    j1 = j1
    c1 = c1
    c2 = c2
    k1 = k1
    k2 = k2
    q1 = q1
    q2 = q2
    p1 = p1
    p2 = p2
    o1 = o1
    o2 = o2
    r1 = r1
    r2 = r2
    Nil = Nil
    Clerks = {r1, r2}
    Investors = {i1, i2}
    Agreements = {a1}
    Terms <- MCTerms
    Movements = {m1, m2, m3}
    Deposits = {1, 2}
    Manual <- MCManual
    Days = {1, 2}
    Periods <- MCPeriods
    Profits <- MCProfits
    Jobs = {j1}
    Candidates = {c1, c2}
    Cases = {k1, k2}
    MaxPositions = 2
    Stages = {0, 1, 2, 3, 4}
    Denied = 3
    Departed = 4
    JobEdits <- MCJobEdits
    CaseEdits = {"active", "on_hold", "withdrawn"}
    Quotations = {q1, q2}
    Codes = {p1, p2}
    Offers = {o1, o2}
    Complete = {o1}
CONSTRAINT MCScenario
SYMMETRY MCSymmetry
CHECK_DEADLOCK FALSE
INVARIANTS
    BookedOnce
    BalanceIsOwed
    VacanciesHonest
    StageIsFurthest
    WonIsOneProject
